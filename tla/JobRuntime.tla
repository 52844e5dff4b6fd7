----------------------------- MODULE JobRuntime -----------------------------
(***************************************************************************)
(* One job and everyone who acts on it: the API processes that dispatch,   *)
(* cancel, re-analyse and delete it, the broker, the Celery executions     *)
(* that claim its deliveries, and the runtime supervisors that escalate    *)
(* cancellations, expire silent rows and reap what those rows leave        *)
(* behind.  Rows of different jobs share nothing, so one job is enough.    *)
(*                                                                         *)
(* A run is one delivery of one message together with the run token it     *)
(* draws; a task is one dispatch identity.  Both are uuid4 values, hence   *)
(* never reused.  Every SQL transaction is one step; whatever the code     *)
(* does between two transactions may interleave with everybody else.       *)
(***************************************************************************)
EXTENDS JobRow

CONSTANTS Task,       \* dispatch identities (celery_task_id)
          FirstTask,  \* the dispatch that follows job creation
          Run,        \* deliveries and their run tokens
          Sup,        \* supervisor processes; each names its escalation tokens
          Phase,      \* capture labels, and the one of the whole-job run
          PhaseOf,    \* the phase a task analyses
          Request     \* the kinds of request users make after creation

ASSUME ConstantsOK ==
    /\ FirstTask \in Task
    /\ PhaseOf \in [Task -> Phase]
    /\ None \notin Task \union Run \union Sup
    /\ Request \subseteq {"cancel", "reanalyze", "delete"}

VARIABLES
    job,       \* the row
    disp,      \* per task, how far its dispatch_job call has come
    broker,    \* tasks whose message is not yet acknowledged
    pc,        \* per run, the next step of its execute_job call
    taskOf,    \* per run, the task it claimed
    attemptOf, \* per run, the attempt its claim captured (0: never claimed)
    local,     \* per run, the local variables of its execute_job call
    flag,      \* per run, its cancel.requested file and its ownership-lost event
    child,     \* per run, whether a supervised child process is alive
    files,     \* per run, its private directory and its executor receipt
    spc,       \* per supervisor, the next step of its cancel loop
    seen,      \* per supervisor, the row its escalation read
    reap,      \* per supervisor, the run its reconcile loop is reaping
    delSeen,   \* a delete request has checked the status and not yet written
    acked      \* history: runs whose cancellation a user was granted

dispatchVars == <<disp, broker>>
runVars == <<pc, taskOf, attemptOf, local, flag, child, files>>
supVars == <<spc, seen, reap>>
vars == <<job, dispatchVars, runVars, supVars, delSeen, acked>>

DispState == {"idle", "called", "assigned", "published", "unconfirmed", "done"}

\* The steps at which the process of a delivery is alive; it is "idle" before
\* and "ended" when the execute_job call has returned, raised or died.
Live == {"claimed", "prepared", "registered", "working", "stopping",
         "finalizing", "interrupted", "resolve", "resolving", "reread", "cleanup"}

\* The steps before the last look at the cancel file and the lost event: what is
\* set later is read by nobody, and is not kept.
Looking == {"claimed", "prepared", "registered", "working"}

SupState == {"idle", "read", "claimed", "stop", "stopped", "complete", "failed"}

NoRow == [task |-> None, token |-> None, attempt |-> 0,
          executor |-> None, escToken |-> None]

\* The kind of exception raised, the outcome about to be written, the manifest.
NoLocal == [why |-> "none", want |-> "none", manifest |-> {}]

Idle == [step |-> "idle", run |-> None]

Handle(e) == [task |-> taskOf[e], token |-> e, attempt |-> attemptOf[e]]

Claimed(e) == attemptOf[e] # 0

Init ==
    /\ job = FreshRow
    /\ disp = [t \in Task |-> IF t = FirstTask THEN "called" ELSE "idle"]
    /\ broker = {}
    /\ pc = [e \in Run |-> "idle"]
    /\ taskOf = [e \in Run |-> None]
    /\ attemptOf = [e \in Run |-> 0]
    /\ local = [e \in Run |-> NoLocal]
    /\ flag = [e \in Run |-> {}]
    /\ child = [e \in Run |-> FALSE]
    /\ files = [e \in Run |-> "none"]
    /\ spc = [s \in Sup |-> "idle"]
    /\ seen = [s \in Sup |-> NoRow]
    /\ reap = [s \in Sup |-> Idle]
    /\ delSeen = FALSE
    /\ acked = {}

-----------------------------------------------------------------------------
(* dispatch_job, one call per task.  An API process that dies inside the   *)
(* call is one that takes no further step: no fairness is assumed of it.   *)

\* A row somebody else assigned, or no longer queued, ends the call.
DispatchAssign(t) ==
    /\ disp[t] = "called"
    /\ \/ /\ CanAssign(job)
          /\ job' = Assign(job, t)
          /\ disp' = [disp EXCEPT ![t] = "assigned"]
       \/ /\ ~CanAssign(job)
          /\ disp' = [disp EXCEPT ![t] = "done"]
          /\ UNCHANGED job
    /\ UNCHANGED <<broker, runVars, supVars, delSeen, acked>>

PublishConfirmed(t) ==
    /\ disp[t] = "assigned"
    /\ broker' = broker \union {t}
    /\ disp' = [disp EXCEPT ![t] = "published"]
    /\ UNCHANGED <<job, runVars, supVars, delSeen, acked>>

\* The sender raised; the broker may have accepted the message all the same.
PublishRaised(t) ==
    /\ disp[t] = "assigned"
    /\ broker' \in {broker, broker \union {t}}
    /\ disp' = [disp EXCEPT ![t] = "unconfirmed"]
    /\ UNCHANGED <<job, runVars, supVars, delSeen, acked>>

\* Success is recorded, or failure is; either update may find it has lost.
DispatchSettle(t) ==
    /\ \/ /\ disp[t] = "published"
          /\ job' = IF CanMarkDispatched(job, t) THEN MarkDispatched(job) ELSE job
       \/ /\ disp[t] = "unconfirmed"
          /\ job' = IF CanMarkDispatchFailed(job, t) THEN MarkDispatchFailed(job)
                                                     ELSE job
    /\ disp' = [disp EXCEPT ![t] = "done"]
    /\ UNCHANGED <<broker, runVars, supVars, delSeen, acked>>

-----------------------------------------------------------------------------
(* The other API calls.                                                    *)

\* request_cancel: any other status is reported and left alone.
CancelJob ==
    /\ "cancel" \in Request
    /\ \/ /\ CanCancelQueued(job)
          /\ job' = CancelQueued(job)
          /\ UNCHANGED acked
       \/ /\ CanCancelRunning(job)
          /\ job' = CancelRunning(job)
          /\ acked' = acked \union {job.token}
    /\ UNCHANGED <<dispatchVars, runVars, supVars, delSeen>>

\* reanalyze_job: the compare-and-swap, then a dispatch with a fresh task.
Reanalyze(t) ==
    /\ "reanalyze" \in Request
    /\ disp[t] = "idle"
    /\ CanRequeue(job)
    /\ job' = Requeue(job)
    /\ disp' = [disp EXCEPT ![t] = "called"]
    /\ UNCHANGED <<broker, runVars, supVars, delSeen, acked>>

\* delete_job and the batch delete: the status is checked on a loaded object,
\* the write that follows in another statement does not check it again.
DeleteCheck ==
    /\ "delete" \in Request
    /\ ~delSeen
    /\ job.status # "deleted"
    /\ MayDelete(job)
    /\ delSeen' = TRUE
    /\ UNCHANGED <<job, dispatchVars, runVars, supVars, acked>>

DeleteWrite ==
    /\ delSeen
    /\ job' = Delete(job)
    /\ delSeen' = FALSE
    /\ UNCHANGED <<dispatchVars, runVars, supVars, acked>>

-----------------------------------------------------------------------------
(* execute_job.  The broker delivers a message at least once, possibly to  *)
(* several processes at a time, until one of them acknowledges it, which   *)
(* Celery does late: when the call is over.  A message the broker loses is *)
(* one it never delivers: no fairness is assumed of it either.             *)

Goto(e, step) == pc' = [pc EXCEPT ![e] = step]

\* An exception leaves the try block; outcome and manifest are gone with it.
Interrupt(e, kind) ==
    /\ Goto(e, "interrupted")
    /\ local' = [local EXCEPT ![e] = [NoLocal EXCEPT !.why = kind]]
    /\ flag' = [flag EXCEPT ![e] = {}]

\* The call is over, or its process dead, if it was alive at all.
End(e) ==
    /\ pc' = [pc EXCEPT ![e] = IF @ \in Live THEN "ended" ELSE @]
    /\ local' = [local EXCEPT ![e] = NoLocal]
    /\ flag' = [flag EXCEPT ![e] = {}]

\* The call returns or raises, and Celery acknowledges the message.
Return(e) ==
    /\ End(e)
    /\ broker' = broker \ {taskOf[e]}

\* A worker takes a message and tries to claim the job with a fresh token.  A
\* lost claim is a report (missing, superseded, terminal, busy), never a run.
ClaimJob(t, e) ==
    /\ t \in broker
    /\ pc[e] = "idle"
    /\ CanClaim(job, t)
    /\ job' = Claim(job, e)
    /\ taskOf' = [taskOf EXCEPT ![e] = t]
    /\ attemptOf' = [attemptOf EXCEPT ![e] = job.attempt + 1]
    /\ Goto(e, "claimed")
    /\ UNCHANGED <<dispatchVars, local, flag, child, files, supVars, delSeen, acked>>

ClaimLost(t) ==
    /\ t \in broker
    /\ ~CanClaim(job, t)
    /\ broker' = broker \ {t}
    /\ UNCHANGED <<job, disp, runVars, supVars, delSeen, acked>>

\* Private directory, session of its own, executor receipt; any of it may fail.
\* A directory a cancellation scan has already made is one of the failures.
PrepareRun(e) ==
    /\ pc[e] = "claimed"
    /\ \/ /\ files[e] = "none"
          /\ files' = [files EXCEPT ![e] = "receipt"]
          /\ Goto(e, "prepared")
          /\ UNCHANGED <<local, flag>>
       \/ /\ \E f \in {files[e], "dir"} : files' = [files EXCEPT ![e] = f]
          /\ Interrupt(e, "error")
       \/ /\ files[e] = "none"                       \* malformed container id
          /\ files' = [files EXCEPT ![e] = "dir"]
          /\ Interrupt(e, "lost")
    /\ UNCHANGED <<job, dispatchVars, taskOf, attemptOf, child,
                   supVars, delSeen, acked>>

RegisterExecutor(e) ==
    /\ pc[e] = "prepared"
    /\ \/ /\ CanRegister(job, Handle(e))
          /\ job' = Register(job, Handle(e))
          /\ Goto(e, "registered")
          /\ UNCHANGED <<local, flag>>
       \/ /\ ~CanRegister(job, Handle(e))
          /\ Interrupt(e, "lost")
          /\ UNCHANGED job
    /\ UNCHANGED <<dispatchVars, taskOf, attemptOf, child, files,
                   supVars, delSeen, acked>>

\* The flags a run has after a beat that found row r.
Beaten(e, r) ==
    flag[e] \union IF ~CanHeartbeat(r, Handle(e)) THEN {"cancel", "lost"}
                   ELSE IF r.status = "canceling" THEN {"cancel"} ELSE {}

BeatenRow(e) == IF CanHeartbeat(job, Handle(e)) THEN Heartbeat(job) ELSE job

\* The exception a checkpoint raises under flags f, "none" if it passes.
Checkpoint(f) ==
    IF "lost" \in f THEN "lost" ELSE IF "cancel" \in f THEN "canceled" ELSE "none"

\* ExecutionControl.start: a beat, skipped if the database is not available, and
\* a checkpoint.
StartControl(e) ==
    /\ pc[e] = "registered"
    /\ \E beaten \in BOOLEAN :
         LET f == IF beaten THEN Beaten(e, job) ELSE flag[e] IN
         /\ job' = IF beaten THEN BeatenRow(e) ELSE job
         /\ \/ /\ Checkpoint(f) = "none"
               /\ flag' = [flag EXCEPT ![e] = f]
               /\ Goto(e, "working")
               /\ UNCHANGED local
            \/ /\ Checkpoint(f) # "none"
               /\ Interrupt(e, Checkpoint(f))
    /\ UNCHANGED <<dispatchVars, taskOf, attemptOf, child, files,
                   supVars, delSeen, acked>>

\* The heartbeat thread; it beats until the run stops it.
HeartbeatOnce(e) ==
    /\ pc[e] = "working"
    /\ job' = BeatenRow(e)
    /\ flag' = [flag EXCEPT ![e] = Beaten(e, job)]
    /\ UNCHANGED <<dispatchVars, pc, taskOf, attemptOf, local, child, files,
                   supVars, delSeen, acked>>

\* run_tracked_process: never past a failed checkpoint.
LaunchChild(e) ==
    /\ pc[e] = "working"
    /\ Checkpoint(flag[e]) = "none"
    /\ ~child[e]
    /\ child' = [child EXCEPT ![e] = TRUE]
    /\ UNCHANGED <<job, dispatchVars, pc, taskOf, attemptOf, local, flag, files,
                   supVars, delSeen, acked>>

ChildExits(e) ==
    /\ child[e]
    /\ child' = [child EXCEPT ![e] = FALSE]
    /\ UNCHANGED <<job, dispatchVars, pc, taskOf, attemptOf, local, flag, files,
                   supVars, delSeen, acked>>

\* What a commit refused by the fence of the analysis session raises.
FenceError(e) ==
    IF Owned(job, Handle(e)) /\ job.status = "canceling" THEN "canceled" ELSE "lost"

\* The fence refuses the commit of a stage.  One it lets through changes only
\* evidence tables, which nothing here reads, so it is not a step.
CommitRefused(e) ==
    /\ pc[e] = "working"
    /\ ~CanCommit(job, Handle(e))
    /\ Interrupt(e, FenceError(e))
    /\ UNCHANGED <<job, dispatchVars, taskOf, attemptOf, child, files,
                   supVars, delSeen, acked>>

\* A checkpoint of the pipeline.
CheckpointRaises(e) ==
    /\ pc[e] = "working"
    /\ Checkpoint(flag[e]) # "none"
    /\ Interrupt(e, Checkpoint(flag[e]))
    /\ UNCHANGED <<job, dispatchVars, taskOf, attemptOf, child, files,
                   supVars, delSeen, acked>>

\* Any other exception: soft time limit, database, file system, a sensor's bug.
TaskRaises(e) ==
    /\ pc[e] \in {"prepared", "registered", "working", "stopping", "finalizing"}
    /\ Interrupt(e, "error")
    /\ UNCHANGED <<job, dispatchVars, taskOf, attemptOf, child, files,
                   supVars, delSeen, acked>>

\* The accepted entries of other phases, and this run for its own.
CandidateManifest(e) ==
    {x \in job.accepted : PhaseOf[taskOf[x]] # PhaseOf[taskOf[e]]} \union {e}

\* The pipeline returns: last checkpoint, candidate manifest, last commit.
PipelineReturns(e) ==
    /\ pc[e] = "working"
    /\ Checkpoint(flag[e]) = "none"
    /\ CanCommit(job, Handle(e))
    /\ \E outcome \in {"completed", "failed"} :
         local' = [local EXCEPT ![e].want = outcome, ![e].manifest = CandidateManifest(e)]
    /\ Goto(e, "stopping")
    /\ UNCHANGED <<job, dispatchVars, taskOf, attemptOf, flag, child, files,
                   supVars, delSeen, acked>>

\* control.stop: no terminal update before every child is known to be gone.
StopControl(e) ==
    /\ pc[e] = "stopping"
    /\ child' = [child EXCEPT ![e] = FALSE]
    /\ Goto(e, "finalizing")
    /\ UNCHANGED <<job, dispatchVars, taskOf, attemptOf, local, flag, files,
                   supVars, delSeen, acked>>

\* Accepted or failed by one conditional update, which may be lost, or may raise
\* although the database has committed it.
FinalizeRun(e) ==
    /\ pc[e] = "finalizing"
    /\ LET outcome == local[e].want IN
       \/ /\ CanFinalize(job, Handle(e), outcome)
          /\ job' = Finalize(job, outcome, IF outcome = "completed" THEN "none" ELSE "other",
                             local[e].manifest)
          /\ \/ outcome = "completed" /\ Return(e)
             \/ outcome # "completed" /\ Goto(e, "cleanup") /\ UNCHANGED <<local, flag, broker>>
             \/ Interrupt(e, "error") /\ UNCHANGED broker
       \/ /\ ~CanFinalize(job, Handle(e), outcome)
          /\ Goto(e, "resolve")
          /\ UNCHANGED <<job, local, flag, broker>>
    /\ UNCHANGED <<disp, taskOf, attemptOf, child, files, supVars, delSeen, acked>>

\* Two attempts at cleanup; without it the row is left for others to recover.
StopInterrupted(e) ==
    /\ pc[e] = "interrupted"
    /\ \/ /\ child' = [child EXCEPT ![e] = FALSE]
          /\ Goto(e, "resolve")
          /\ UNCHANGED <<broker, local, flag>>
       \/ /\ files[e] # "none"
          /\ Return(e)
          /\ UNCHANGED child
    /\ UNCHANGED <<job, disp, taskOf, attemptOf, files,
                   supVars, delSeen, acked>>

\* What _resolve_interrupted decides from the row it reads.
WantedOutcome(r, e) ==
    IF ~Owned(r, Handle(e)) THEN "superseded"
    ELSE IF r.status = "canceling" THEN "canceled"
    ELSE IF r.status = "running" /\ local[e].why # "lost" THEN "failed" ELSE "superseded"

ResolveRead(e) ==
    /\ pc[e] = "resolve"
    /\ LET outcome == WantedOutcome(job, e) IN
         /\ local' = [local EXCEPT ![e].want = outcome, ![e].manifest = {}]
         /\ Goto(e, IF outcome = "superseded" THEN "cleanup" ELSE "resolving")
    /\ UNCHANGED <<job, dispatchVars, taskOf, attemptOf, flag, child, files,
                   supVars, delSeen, acked>>

ResolveFinalize(e) ==
    /\ pc[e] = "resolving"
    /\ LET outcome == local[e].want IN
       \/ /\ CanFinalize(job, Handle(e), outcome)
          /\ job' = Finalize(job, outcome,
                             IF local[e].why = "none" THEN "none" ELSE "other", {})
          /\ Goto(e, "cleanup")
       \/ /\ ~CanFinalize(job, Handle(e), outcome)
          /\ Goto(e, "reread")
          /\ UNCHANGED job
    /\ UNCHANGED <<dispatchVars, taskOf, attemptOf, local, flag, child, files,
                   supVars, delSeen, acked>>

\* One recovery re-read: a cancellation may have won against the update above.
ResolveReread(e) ==
    /\ pc[e] = "reread"
    /\ job' = IF job.status = "canceling" /\ CanFinalize(job, Handle(e), "canceled")
              THEN Finalize(job, "canceled", "none", {}) ELSE job
    /\ Goto(e, "cleanup")
    /\ UNCHANGED <<dispatchVars, taskOf, attemptOf, local, flag, child, files,
                   supVars, delSeen, acked>>

\* Mutant: an interrupted call always removes its directory.
CleanupPrivateRun_Always(e) ==
    /\ pc[e] = "cleanup"
    /\ files' = [files EXCEPT ![e] = "none"]
    /\ Return(e)
    /\ UNCHANGED <<job, disp, taskOf, attemptOf, child,
                   supVars, delSeen, acked>>

\* The private directory goes, unless the row accepted it.
CleanupPrivateRun(e) ==
    /\ pc[e] = "cleanup"
    /\ files' = IF e \in job.accepted THEN files ELSE [files EXCEPT ![e] = "none"]
    /\ Return(e)
    /\ UNCHANGED <<job, disp, taskOf, attemptOf, child,
                   supVars, delSeen, acked>>

\* The pool process dies: its children may outlive it, its message comes back.
Crash(e) ==
    /\ pc[e] \in Live
    /\ End(e)
    /\ child' \in {child, [child EXCEPT ![e] = FALSE]}
    /\ UNCHANGED <<job, dispatchVars, taskOf, attemptOf, files,
                   supVars, delSeen, acked>>

-----------------------------------------------------------------------------
(* RuntimeSupervisor.cancel_once.                                          *)

SupGoto(s, step) == spc' = [spc EXCEPT ![s] = step]

\* Back to the loop; what was read is forgotten.
SupReturn(s) == SupGoto(s, "idle") /\ seen' = [seen EXCEPT ![s] = NoRow]

\* The scan writes the cancel file, with the directories above it, and the
\* escalation then reads the row.
EscalationRead(s) ==
    /\ spc[s] = "idle"
    /\ job.status = "canceling"
    /\ job.task # None
    /\ job.token # None
    /\ flag' = [flag EXCEPT ![job.token] =
                  IF pc[job.token] \in Looking THEN @ \union {"cancel"} ELSE @]
    /\ files' = [files EXCEPT ![job.token] = IF @ = "none" THEN "dir" ELSE @]
    /\ seen' = [seen EXCEPT ![s] = [task |-> job.task, token |-> job.token,
                                    attempt |-> job.attempt, executor |-> job.executor,
                                    escToken |-> job.escToken]]
    /\ SupGoto(s, "read")
    /\ UNCHANGED <<job, dispatchVars, pc, taskOf, attemptOf, local, child,
                   reap, delSeen, acked>>

EscalationClaim(s) ==
    /\ spc[s] = "read"
    /\ \/ /\ CanClaimEscalation(job, seen[s])
          /\ job' = ClaimEscalation(job, s)
          /\ SupGoto(s, "claimed")
          /\ UNCHANGED seen
       \/ /\ ~CanClaimEscalation(job, seen[s])
          /\ SupReturn(s)
          /\ UNCHANGED job
    /\ UNCHANGED <<dispatchVars, runVars, reap, delSeen, acked>>

\* owns_cancel, asked before the executor is stopped and again after.
OwnsCancel(s) ==
    /\ spc[s] \in {"claimed", "stopped"}
    /\ \/ /\ HoldsEscalation(job, seen[s], s)
          /\ SupGoto(s, IF spc[s] = "claimed" THEN "stop" ELSE "complete")
          /\ UNCHANGED seen
       \/ /\ ~HoldsEscalation(job, seen[s], s)
          /\ SupReturn(s)
    /\ UNCHANGED <<job, dispatchVars, runVars, reap, delSeen, acked>>

\* The executor of run e, and every process its session and receipts name, dies.
Killed(e) ==
    /\ End(e)
    /\ child' = [child EXCEPT ![e] = FALSE]

\* Nothing is recorded, so there is nothing to stop: "absent".
StopUnregistered(s) ==
    /\ spc[s] = "stop"
    /\ seen[s].executor = None
    /\ SupGoto(s, "stopped")
    /\ UNCHANGED <<job, dispatchVars, runVars, seen, reap, delSeen, acked>>

\* "matching" or "absent": drained until nothing of the session is left.
StopExecutor(s) ==
    /\ spc[s] = "stop"
    /\ seen[s].executor # None
    /\ Killed(seen[s].executor)
    /\ SupGoto(s, "stopped")
    /\ UNCHANGED <<job, dispatchVars, taskOf, attemptOf, files,
                   seen, reap, delSeen, acked>>

\* "conflict", "unavailable", a transport error after a partial stop, or any
\* exception between the stop and the completion.
StopFails(s) ==
    /\ spc[s] \in {"stop", "stopped", "complete"}
    /\ \/ UNCHANGED <<pc, local, flag>>
       \/ spc[s] = "stop" /\ seen[s].executor # None /\ End(seen[s].executor)
    /\ SupGoto(s, "failed")
    /\ UNCHANGED <<job, dispatchVars, taskOf, attemptOf, child, files,
                   seen, reap, delSeen, acked>>

EscalationError(s) ==
    /\ spc[s] = "failed"
    /\ job' = IF HoldsEscalation(job, seen[s], s) THEN RecordEscalationError(job) ELSE job
    /\ SupReturn(s)
    /\ UNCHANGED <<dispatchVars, runVars, reap, delSeen, acked>>

EscalationComplete(s) ==
    /\ spc[s] = "complete"
    /\ job' = IF HoldsEscalation(job, seen[s], s) THEN CompleteEscalation(job) ELSE job
    /\ SupReturn(s)
    /\ UNCHANGED <<dispatchVars, runVars, reap, delSeen, acked>>

-----------------------------------------------------------------------------
(* RuntimeSupervisor.reconcile_once: expiry, then reaping.                 *)

Reconcile ==
    /\ \/ CanExpireRunning(job) /\ job' = Expire(job, "failed", "expired")
       \/ CanExpireCanceling(job) /\ job' = Expire(job, "canceled", "none")
       \/ CanExpireQueued(job) /\ job' = Expire(job, "failed", "other")
    /\ UNCHANGED <<dispatchVars, runVars, supVars, delSeen, acked>>

\* Mutant: any run that has a receipt is reaped.
ReapFind_AnyStatus(s) ==
    /\ reap[s].step = "idle"
    /\ job.token # None
    /\ files[job.token] = "receipt"
    /\ Owned(job, Handle(job.token))
    /\ reap' = [reap EXCEPT ![s] = [step |-> "stop", run |-> job.token]]
    /\ UNCHANGED <<job, dispatchVars, runVars, spc, seen, delSeen, acked>>

\* Only a row failed by expiry, still naming the run, leads to its receipt.
ReapFind(s) ==
    /\ reap[s].step = "idle"
    /\ job.status = "failed"
    /\ job.error = "expired"
    /\ job.token # None
    /\ files[job.token] = "receipt"
    /\ Owned(job, Handle(job.token))
    /\ reap' = [reap EXCEPT ![s] = [step |-> "stop", run |-> job.token]]
    /\ UNCHANGED <<job, dispatchVars, runVars, spc, seen, delSeen, acked>>

ReapStop(s) ==
    /\ reap[s].step = "stop"
    /\ Killed(reap[s].run)
    /\ reap' = [reap EXCEPT ![s].step = "clean"]
    /\ UNCHANGED <<job, dispatchVars, taskOf, attemptOf, files,
                   spc, seen, delSeen, acked>>

\* A conflict, an unreachable container, an exhausted budget: next pass.
ReapDeferred(s) ==
    /\ reap[s].step = "stop"
    /\ reap' = [reap EXCEPT ![s] = Idle]
    /\ UNCHANGED <<job, dispatchVars, runVars, spc, seen, delSeen, acked>>

ReapClean(s) ==
    /\ reap[s].step = "clean"
    /\ files' = IF reap[s].run \in job.accepted THEN files
                ELSE [files EXCEPT ![reap[s].run] = "none"]
    /\ reap' = [reap EXCEPT ![s] = Idle]
    /\ UNCHANGED <<job, dispatchVars, pc, taskOf, attemptOf, local, flag,
                   child, spc, seen, delSeen, acked>>

SupervisorDies(s) ==
    /\ spc[s] # "idle" \/ reap[s] # Idle
    /\ SupReturn(s)
    /\ reap' = [reap EXCEPT ![s] = Idle]
    /\ UNCHANGED <<job, dispatchVars, runVars, delSeen, acked>>

-----------------------------------------------------------------------------
(* Time passes.                                                            *)

RowAges ==
    /\ job.status \in Active \union {"queued"}
    /\ ~job.aged
    /\ job' = [job EXCEPT !.aged = TRUE]
    /\ UNCHANGED <<dispatchVars, runVars, supVars, delSeen, acked>>

ForceTimePasses ==
    /\ job.status = "canceling"
    /\ ~job.forceDue
    /\ job' = [job EXCEPT !.forceDue = TRUE]
    /\ UNCHANGED <<dispatchVars, runVars, supVars, delSeen, acked>>

LeaseRunsOut ==
    /\ job.escToken # None
    /\ ~job.leaseUp
    /\ job' = [job EXCEPT !.leaseUp = TRUE]
    /\ UNCHANGED <<dispatchVars, runVars, supVars, delSeen, acked>>
-----------------------------------------------------------------------------
Dispatcher(t) ==
    \/ DispatchAssign(t)
    \/ PublishConfirmed(t)
    \/ PublishRaised(t)
    \/ DispatchSettle(t)

User == CancelJob \/ DeleteCheck \/ DeleteWrite \/ \E t \in Task : Reanalyze(t)

Delivery == \E t \in Task : ClaimLost(t) \/ \E e \in Run : ClaimJob(t, e)

Worker(e) ==
    \/ PrepareRun(e) \/ RegisterExecutor(e) \/ StartControl(e)
    \/ HeartbeatOnce(e) \/ LaunchChild(e) \/ ChildExits(e) \/ CommitRefused(e)
    \/ CheckpointRaises(e) \/ TaskRaises(e) \/ PipelineReturns(e)
    \/ StopControl(e) \/ FinalizeRun(e)
    \/ StopInterrupted(e) \/ ResolveRead(e) \/ ResolveFinalize(e) \/ ResolveReread(e)
    \/ CleanupPrivateRun(e) \/ Crash(e)

Escalator(s) ==
    \/ EscalationRead(s) \/ EscalationClaim(s) \/ OwnsCancel(s)
    \/ StopUnregistered(s) \/ StopExecutor(s) \/ StopFails(s)
    \/ EscalationError(s) \/ EscalationComplete(s)

Reaper(s) == ReapFind(s) \/ ReapStop(s) \/ ReapDeferred(s) \/ ReapClean(s)

Clock == RowAges \/ ForceTimePasses \/ LeaseRunsOut

Next ==
    \/ \E t \in Task : Dispatcher(t)
    \/ User
    \/ Delivery
    \/ \E e \in Run : Worker(e)
    \/ \E s \in Sup : Escalator(s) \/ Reaper(s) \/ SupervisorDies(s)
    \/ Reconcile
    \/ Clock

Spec == Init /\ [][Next]_vars

(***************************************************************************)
(* Fairness.  Nothing is assumed of users, of the API, of the broker, nor  *)
(* of a worker except that a pipeline does not run for ever: Celery's soft *)
(* and hard time limits end it.  The two loops of a supervisor, which a    *)
(* restart policy brings back and which retry what failed, keep running;   *)
(* any number of deaths and failed stops may happen, but not for ever.     *)
(***************************************************************************)

\* A lost claim or a pass with nothing to clean ends where a death would: those
\* are the loops at work, and may happen for ever.
SupervisorFails(s) ==
    /\ SupervisorDies(s) \/ StopFails(s) \/ ReapDeferred(s)
    /\ ~( \/ EscalationClaim(s) \/ OwnsCancel(s) \/ EscalationError(s)
          \/ EscalationComplete(s) \/ ReapClean(s) )

Fairness ==
    /\ \A e \in Run : WF_vars(PipelineReturns(e) \/ TaskRaises(e))
    /\ \A s \in Sup : WF_vars(Escalator(s)) /\ WF_vars(Reaper(s))
    /\ <>[][\A s \in Sup : ~SupervisorFails(s)]_vars
    /\ WF_vars(Reconcile)
    /\ WF_vars(Clock)

FairSpec == Spec /\ Fairness

-----------------------------------------------------------------------------
(* Properties.                                                             *)

RowType ==
    [status : Status, task : Task \union {None}, token : Run \union {None},
     attempt : Nat, dispatched : BOOLEAN, aged : BOOLEAN, cancelAsked : BOOLEAN,
     forceDue : BOOLEAN, executor : Run \union {None}, escToken : Sup \union {None},
     leaseUp : BOOLEAN, error : {"none", "expired", "other"}, accepted : SUBSET Run]

LocalType ==
    [why : {"none", "canceled", "lost", "error"},
     want : {"none", "completed", "failed", "canceled", "superseded"},
     manifest : SUBSET Run]

SeenType ==
    [task : Task \union {None}, token : Run \union {None}, attempt : Nat,
     executor : Run \union {None}, escToken : Sup \union {None}]

\* Every variable keeps its type: in particular no update writes a status,
\* an error category or an owner the columns do not have.
TypeOK ==
    /\ job \in RowType
    /\ disp \in [Task -> DispState]
    /\ broker \in SUBSET Task
    /\ pc \in [Run -> Live \union {"idle", "ended"}]
    /\ taskOf \in [Run -> Task \union {None}]
    /\ attemptOf \in [Run -> Nat]
    /\ local \in [Run -> LocalType]
    /\ flag \in [Run -> SUBSET {"cancel", "lost"}]
    /\ child \in [Run -> BOOLEAN]
    /\ files \in [Run -> {"none", "dir", "receipt"}]
    /\ spc \in [Sup -> SupState]
    /\ seen \in [Sup -> SeenType]
    /\ reap \in [Sup -> [step : {"idle", "stop", "clean"}, run : Run \union {None}]]
    /\ delSeen \in BOOLEAN
    /\ acked \in SUBSET Run

\* No two deliveries of one dispatch are ever executed: duplicates, redelivery
\* after a worker is lost, an ambiguous publication and a re-analysis that
\* clears the row all leave the task spent (claim_job, mark_dispatch_failed).
OneExecutionPerTask ==
    \A e, f \in Run : Claimed(e) /\ Claimed(f) /\ taskOf[e] = taskOf[f] => e = f

\* The fencing tuple is a true identity: of all runs that ever claimed, at most
\* one satisfies the ownership predicate, and attempts never repeat.
AttemptsDistinct ==
    \A e, f \in Run : Claimed(e) /\ attemptOf[e] = attemptOf[f] => e = f

\* At these steps a run can still start children or commit evidence.
CanWork == {"registered", "working"}

\* A job is only shown as ended by its worker or by a cancellation once the run
\* it names has neither a child alive nor a step left at which it could start
\* one, whoever wrote the status: the worker, an escalation with or without a
\* registered executor, or reconciliation.  Only expiry fences first and stops
\* later (finalize_owned_job, complete_cancel_escalation, register_executor).
Settled ==
    \/ job.status \in {"completed", "canceled"}
    \/ job.status = "failed" /\ job.error # "expired"

SettledMeansStopped ==
    Settled /\ job.token # None => ~child[job.token] /\ pc[job.token] \notin CanWork

\* Readers resolve accepted runs to directories: neither the worker's cleanup
\* nor a reaper that works from an older read ever removes one of them.
AcceptedRunsKept == \A e \in job.accepted : files[e] = "receipt"

\* A run whose cancellation was granted (request_cancel) is never among the
\* accepted ones, although its pipeline may have returned and its final update,
\* its error path and a supervisor's escalation are under way.
CancelNeverAccepted == job.accepted \intersect acked = {}

\* The accepted runs have one entry per phase, although each manifest is built
\* from a read that precedes its acceptance (finalize_owned_job), while other
\* runs of the job may be expired, re-analysed and resumed.
OneRunPerPhase ==
    \A e, f \in job.accepted : PhaseOf[taskOf[e]] = PhaseOf[taskOf[f]] => e = f

\* A run that a supervisor is about to stop, from an escalation or a receipt it
\* read earlier, is never the healthy owner of a running job.
NoHealthyRunStopped ==
    \A s \in Sup :
        /\ spc[s] = "stop" => ~(job.status = "running" /\ job.token = seen[s].executor)
        /\ reap[s].step = "stop" => ~(job.status = "running" /\ job.token = reap[s].run)

\* An execution that has started ends: no crash, hang, failed cleanup, lost race
\* or supervisor restart leaves the job running or canceling for ever
\* (reconcile_stale_jobs, claim_cancel_escalation).
ActiveEnds == (job.status \in Active) ~> (job.status \in Terminal)

\* A job whose publication nobody confirmed does not stay queued for ever, even
\* if its dispatcher died before it assigned a task (reconcile_stale_jobs).
UndispatchedEnds ==
    (job.status = "queued" /\ ~job.dispatched)
        ~> (job.status # "queued" \/ job.dispatched)

\* The row keeps the promise of the API, whatever late publishers, superseded
\* workers, stale supervisors and retries still try to write to it.
Lifecycle ==
    INSTANCE JobLifecycle WITH status <- job.status,
                               owner <- job.token,
                               used <- {e \in Run : Claimed(e)},
                               accepted <- job.accepted
LifecycleSpec == Lifecycle!Spec

(* What the repository says and the code does not do.                      *)

\* "Cannot delete an active job; wait for cancellation to finish" (api/jobs.py).
ActiveNeverDeleted ==
    [][job.status \in Active => job'.status # "deleted"]_vars

\* "Keep the accepted manifest so a phase replacement preserves other phases"
\* (job_lifecycle.py): an accepted run only gives way to one of its own phase.
EarlierPhasesKept ==
    [][\A x \in job.accepted :
         \E y \in job'.accepted : PhaseOf[taskOf'[y]] = PhaseOf[taskOf[x]]]_vars

\* A worker that lost its job leaves no supervised child running: the child of a
\* run that no longer owns the job ends, by itself or by reaping.
OrphansReaped ==
    \A e \in Run : (child[e] /\ pc[e] = "ended") ~> ~child[e]
=============================================================================
