----------------------- MODULE JobRuntimeSafety_proofs -----------------------
(***************************************************************************)
(* What the runtime promises about the processes and directories of a run: *)
(* a settled job has nothing running, no healthy run is stopped, accepted  *)
(* runs keep their files and a canceled run is never accepted.             *)
(*                                                                         *)
(* The argument: a run only ever moves on, so a run that was stopped stays *)
(* stopped, and the row names a run as running only from its claim on; a   *)
(* worker that can start children is recorded as the executor, unless an   *)
(* escalation already refuses the registration; and a supervisor that has  *)
(* claimed an escalation knows the executor of the row.  With the manifest *)
(* a call builds while it owns the job this gives the refinement: the      *)
(* runtime implements the abstract job of JobLifecycle.                    *)
(***************************************************************************)
EXTENDS JobRuntime_proofs

(* Steps at which a call has no child: it has not started one yet, or has   *)
(* made sure that all are gone.                                             *)
Childless == {"idle", "claimed", "prepared", "finalizing",
              "resolve", "resolving", "reread", "cleanup"}

(* Steps at which the private directory of a call is there *)
Prepared == {"prepared", "registered", "working", "stopping", "finalizing"}

Running(e) == job.status = "running" /\ job.token = e

(* What is true of a run by itself *)
CallInv ==
    \A e \in Run :
        /\ pc[e] \in Childless => ~child[e]
        /\ pc[e] \in Prepared => files[e] = "receipt"

(* What is true of the row and the run it names *)
RowInv ==
    /\ job.status = "queued" => job.token = None
    /\ job.executor \in {None, job.token}
    /\ job.escToken # None => job.status \in {"canceling", "deleted"}
    /\ job.token # None => pc[job.token] # "idle"
    /\ job.status \in Active /\ (pc[job.token] \in CanWork \/ child[job.token])
          => job.executor = job.token
    /\ SettledMeansStopped

Holds(s) ==
    job.status = "canceling" /\ job.token = seen[s].token /\ job.escToken = s

(* What a supervisor has read is of a run that will not run again, and from *)
(* its claim on it knows the executor.                                      *)
SeenInv ==
    \A s \in Sup : spc[s] # "idle" =>
        /\ seen[s].token \in Run
        /\ seen[s].executor \in {None, seen[s].token}
        /\ pc[seen[s].token] # "idle"
        /\ ~Running(seen[s].token)
        /\ spc[s] # "read" /\ Holds(s) => job.executor = seen[s].executor
        /\ spc[s] \in {"stopped", "complete"} /\ seen[s].executor # None
              => pc[seen[s].executor] = "ended" /\ ~child[seen[s].executor]

ReapInv ==
    \A s \in Sup : reap[s].step # "idle" =>
        /\ pc[reap[s].run] # "idle"
        /\ ~Running(reap[s].run)
        /\ reap[s].step = "clean" => pc[reap[s].run] = "ended"

StopInv == CallInv /\ RowInv /\ SeenInv /\ ReapInv

(* Steps of a call whose pipeline has returned *)
Closing == {"stopping", "finalizing"}

(* The accepted runs, and the one about to be accepted *)
AcceptInv ==
    /\ \A e \in job.accepted : pc[e] \notin {"idle", "claimed"} /\ files[e] = "receipt"
    /\ job.status \in Active => job.token \notin job.accepted
    /\ \A e \in acked : pc[e] # "idle" /\ ~Running(e)
    /\ \A e \in Run :
          pc[e] \in Closing /\ Running(e) /\ local[e].want = "completed" =>
              e \in local[e].manifest /\ local[e].manifest \subseteq CandidateManifest(e)
    /\ \A e \in Run : pc[e] = "resolving" /\ local[e].want = "canceled" => ~Running(e)
    /\ CancelNeverAccepted
    /\ OneRunPerPhase

-----------------------------------------------------------------------------
(* Calls *)

\* Who moves a call, its child or its directory.
LEMMA RunMoves ==
    ASSUME [Next]_vars
    PROVE  \/ UNCHANGED <<pc, taskOf, child, files>>
           \/ \E t \in Task, e \in Run : ClaimJob(t, e)
           \/ \E e \in Run : PrepareRun(e)
           \/ \E e \in Run : RegisterExecutor(e)
           \/ \E e \in Run : StartControl(e)
           \/ \E e \in Run : LaunchChild(e)
           \/ \E e \in Run : ChildExits(e)
           \/ \E e \in Run : CommitRefused(e)
           \/ \E e \in Run : CheckpointRaises(e)
           \/ \E e \in Run : TaskRaises(e)
           \/ \E e \in Run : PipelineReturns(e)
           \/ \E e \in Run : StopControl(e)
           \/ \E e \in Run : FinalizeRun(e)
           \/ \E e \in Run : StopInterrupted(e)
           \/ \E e \in Run : ResolveRead(e)
           \/ \E e \in Run : ResolveFinalize(e)
           \/ \E e \in Run : ResolveReread(e)
           \/ \E e \in Run : CleanupPrivateRun(e)
           \/ \E e \in Run : Crash(e)
           \/ \E s \in Sup : EscalationRead(s)
           \/ \E s \in Sup : StopExecutor(s)
           \/ \E s \in Sup : StopFails(s)
           \/ \E s \in Sup : ReapStop(s)
           \/ \E s \in Sup : ReapClean(s)
  BY DEF Next, Dispatcher, User, Delivery, Worker, Escalator, Reaper, Clock,
     vars, dispatchVars, runVars, supVars, DispatchAssign, PublishConfirmed,
     PublishRaised, DispatchSettle, CancelJob, Reanalyze, DeleteCheck,
     DeleteWrite, ClaimLost, HeartbeatOnce, EscalationClaim, OwnsCancel,
     StopUnregistered, EscalationError, EscalationComplete, ReapFind,
     ReapDeferred, SupervisorDies, Reconcile, RowAges, ForceTimePasses,
     LeaseRunsOut

\* A run moves on: it does not go back before its claim or its preparation, it
\* does not come back from its end, it starts children only while it works and
\* comes to work only by a registration.
Ages(e) ==
    /\ pc[e] # "idle" => pc'[e] # "idle" /\ taskOf'[e] = taskOf[e]
    /\ pc[e] \notin {"idle", "claimed"} => pc'[e] \notin {"idle", "claimed"}
    /\ pc[e] = "ended" => pc'[e] = "ended"
    /\ child'[e] => child[e] \/ pc[e] = "working"
    /\ pc'[e] \in CanWork /\ pc[e] \notin CanWork =>
          job'.executor = e /\ job'.token = e /\ job'.status \in Active
    /\ pc[e] = "idle" /\ pc'[e] # "idle" => \E t \in Task : ClaimJob(t, e)

CallType ==
    /\ pc \in [Run -> Live \union {"idle", "ended"}]
    /\ taskOf \in [Run -> Task \union {None}]
    /\ child \in [Run -> BOOLEAN]
    /\ files \in [Run -> {"none", "dir", "receipt"}]
    /\ job \in RowType

LEMMA CallsAge ==
    ASSUME TypeInv, StopInv, [Next]_vars
    PROVE  CallInv' /\ \A f \in Run : Ages(f)
<1>. DEFINE Kept == CallInv' /\ \A f \in Run : Ages(f)
<1>0. CallType /\ CallInv
  BY DEF TypeInv, TypeOK, CallType, StopInv
<1>. USE <1>0 DEF CallType, CallInv, Ages, Childless, Prepared, CanWork, Live, Goto, Interrupt, End
<1>1. CASE UNCHANGED <<pc, taskOf, child, files>>
  BY <1>1
<1>2. ASSUME NEW t \in Task, NEW e \in Run, ClaimJob(t, e) PROVE Kept
  BY <1>2 DEF ClaimJob
<1>3. ASSUME NEW e \in Run, PrepareRun(e) PROVE Kept
  BY <1>3 DEF PrepareRun
<1>4. ASSUME NEW e \in Run, RegisterExecutor(e) PROVE Kept
  BY <1>4 DEF RegisterExecutor, CanRegister, Register, Owned, Handle, RowType
<1>5. ASSUME NEW e \in Run, StartControl(e) PROVE Kept
  BY <1>5 DEF StartControl
<1>6. ASSUME NEW e \in Run, LaunchChild(e) PROVE Kept
  BY <1>6 DEF LaunchChild
<1>7. ASSUME NEW e \in Run, ChildExits(e) PROVE Kept
  BY <1>7 DEF ChildExits
<1>8. ASSUME NEW e \in Run, CommitRefused(e) PROVE Kept
  BY <1>8 DEF CommitRefused
<1>9. ASSUME NEW e \in Run, CheckpointRaises(e) PROVE Kept
  BY <1>9 DEF CheckpointRaises
<1>10. ASSUME NEW e \in Run, TaskRaises(e) PROVE Kept
  BY <1>10 DEF TaskRaises
<1>11. ASSUME NEW e \in Run, PipelineReturns(e) PROVE Kept
  BY <1>11 DEF PipelineReturns
<1>12. ASSUME NEW e \in Run, StopControl(e) PROVE Kept
  BY <1>12 DEF StopControl
<1>13. ASSUME NEW e \in Run, FinalizeRun(e) PROVE Kept
  BY <1>13 DEF FinalizeRun, Return
<1>14. ASSUME NEW e \in Run, StopInterrupted(e) PROVE Kept
  BY <1>14 DEF StopInterrupted, Return
<1>15. ASSUME NEW e \in Run, ResolveRead(e) PROVE Kept
  BY <1>15 DEF ResolveRead
<1>16. ASSUME NEW e \in Run, ResolveFinalize(e) PROVE Kept
  BY <1>16 DEF ResolveFinalize
<1>17. ASSUME NEW e \in Run, ResolveReread(e) PROVE Kept
  BY <1>17 DEF ResolveReread
<1>18. ASSUME NEW e \in Run, CleanupPrivateRun(e) PROVE Kept
  BY <1>18 DEF CleanupPrivateRun, Return
<1>19. ASSUME NEW e \in Run, Crash(e) PROVE Kept
  BY <1>19 DEF Crash
<1>20. ASSUME NEW s \in Sup, EscalationRead(s) PROVE Kept
  BY <1>20 DEF EscalationRead
<1>21. ASSUME NEW s \in Sup, StopExecutor(s) PROVE Kept
  BY <1>21 DEF StopExecutor, Killed
<1>22. ASSUME NEW s \in Sup, StopFails(s) PROVE Kept
  BY <1>22 DEF StopFails
<1>23. ASSUME NEW s \in Sup, ReapStop(s) PROVE Kept
  BY <1>23 DEF ReapStop, Killed
<1>24. ASSUME NEW s \in Sup, ReapClean(s) PROVE Kept
  BY <1>24 DEF ReapClean, StopInv, ReapInv, TypeInv, ReapKnown
<1>. QED
  BY RunMoves, <1>1, <1>2, <1>3, <1>4, <1>5, <1>6, <1>7, <1>8, <1>9, <1>10,
     <1>11, <1>12, <1>13, <1>14, <1>15, <1>16, <1>17, <1>18, <1>19, <1>20,
     <1>21, <1>22, <1>23, <1>24

-----------------------------------------------------------------------------
(* The row *)

Halted(e) == ~child[e] /\ pc[e] \notin CanWork

\* A run with nothing alive stays so while its row is not active.
LEMMA HaltedStays ==
    ASSUME NEW e \in Run, Ages(e), Halted(e), ~(job'.status \in Active /\ job'.token = e)
    PROVE  Halted(e)'
  BY DEF Ages, Halted, CanWork

\* The columns that say who owns the job, what became of it and what it accepts
RowStays ==
    /\ job'.status = job.status /\ job'.token = job.token
    /\ job'.executor = job.executor /\ job'.escToken = job.escToken
    /\ job'.accepted = job.accepted
    /\ job.status = "failed" => job'.error = job.error
    /\ acked' = acked

LEMMA RowMoves ==
    ASSUME TypeInv, [Next]_vars
    PROVE  \/ RowStays
           \/ \E t \in Task : DispatchSettle(t)
           \/ CancelJob
           \/ \E t \in Task : Reanalyze(t)
           \/ DeleteWrite
           \/ \E t \in Task, e \in Run : ClaimJob(t, e)
           \/ \E e \in Run : RegisterExecutor(e)
           \/ \E e \in Run : FinalizeRun(e)
           \/ \E e \in Run : ResolveFinalize(e)
           \/ \E e \in Run : ResolveReread(e)
           \/ \E s \in Sup : EscalationClaim(s)
           \/ \E s \in Sup : EscalationComplete(s)
           \/ Reconcile
<1>0. job \in RowType
  BY DEF TypeInv, TypeOK
<1>1. ASSUME UNCHANGED <<job, acked>> PROVE RowStays
  BY <1>1 DEF RowStays
<1>2. ASSUME NEW t \in Task, DispatchAssign(t) PROVE RowStays
  BY <1>0, <1>2 DEF RowStays, DispatchAssign, Assign, RowType
<1>3. ASSUME NEW e \in Run, StartControl(e) \/ HeartbeatOnce(e) PROVE RowStays
  BY <1>0, <1>3 DEF RowStays, StartControl, HeartbeatOnce, BeatenRow, Heartbeat, RowType
<1>4. ASSUME NEW s \in Sup, EscalationError(s) PROVE RowStays
  BY <1>0, <1>4 DEF RowStays, EscalationError, HoldsEscalation, RecordEscalationError, RowType
<1>5. CASE Clock
  BY <1>0, <1>5 DEF RowStays, Clock, RowAges, ForceTimePasses, LeaseRunsOut, RowType, Active
<1>. QED
  BY <1>1, <1>2, <1>3, <1>4, <1>5
  DEF Next, Dispatcher, User, Delivery, Worker, Escalator, Reaper,
      vars, PublishConfirmed, PublishRaised, DeleteCheck, ClaimLost, PrepareRun,
      LaunchChild, ChildExits, CommitRefused, CheckpointRaises, TaskRaises, PipelineReturns,
      StopControl, StopInterrupted, ResolveRead, CleanupPrivateRun, Crash, EscalationRead,
      OwnsCancel, StopUnregistered, StopExecutor, StopFails, ReapFind, ReapStop, ReapDeferred,
      ReapClean, SupervisorDies

\* A row leaves the active statuses, or was not in them: nothing else about it
\* can go wrong once its run has halted.
Ended ==
    /\ job'.status \in {"completed", "failed", "canceled", "deleted"}
    /\ job'.token = job.token
    /\ job'.executor \in {None, job.executor}
    /\ job'.escToken = None \/ (job'.status = "deleted" /\ job'.escToken = job.escToken)

LEMMA EndedRow ==
    ASSUME TypeInv, RowInv, \A e \in Run : Ages(e), Ended,
           Settled' /\ job.token # None => Halted(job.token)
    PROVE  RowInv'
<1>1. job.token \in Run \cup {None} /\ job'.status \notin Active \cup {"queued"}
  BY DEF TypeInv, TypeOK, RowType, Ended, Active
<1>2. job'.token # None => pc'[job'.token] # "idle"
  BY <1>1 DEF RowInv, Ended, Ages
<1>3. SettledMeansStopped'
  <2>1. SUFFICES ASSUME Settled', job'.token # None
                 PROVE  ~child'[job'.token] /\ pc'[job'.token] \notin CanWork
    BY DEF SettledMeansStopped
  <2>2. Halted(job.token)'
    BY <1>1, <2>1, HaltedStays DEF Ended
  <2>. QED  BY <2>2 DEF Halted, Ended
<1>. QED  BY <1>1, <1>2, <1>3 DEF RowInv, Ended

\* The one who ends the row knows that its run has halted, or the row has none.
LEMMA SettlersKnow ==
    ASSUME TypeInv, StopInv, NEW e \in Run, pc[e] \in Childless, job.token = e
    PROVE  Halted(job.token)
  BY DEF StopInv, CallInv, Halted, Childless, CanWork

LEMMA RowKept ==
    ASSUME TypeInv, StopInv, [Next]_vars, \A e \in Run : Ages(e)
    PROVE  RowInv'
<1>0. RowInv /\ job \in RowType /\ OwnerKnown
  BY DEF StopInv, TypeInv, TypeOK
<1>1. CASE RowStays
  <2>1. job.token \in Run \cup {None}
    BY <1>0 DEF RowType
  <2>2. SettledMeansStopped'
    <3>1. Settled' => Settled /\ job.status \notin Active
      BY <1>1 DEF RowStays, Settled, Active
    <3>2. job.token # None /\ Settled => Halted(job.token)
      BY <1>0 DEF RowInv, SettledMeansStopped, Halted
    <3>3. job.token # None /\ Settled' => Halted(job.token)'
      BY <1>1, <2>1, <3>1, <3>2, HaltedStays DEF RowStays
    <3>. QED  BY <1>1, <3>3 DEF RowStays, SettledMeansStopped, Halted
  <2>3. job'.status \in Active /\ (pc'[job'.token] \in CanWork \/ child'[job'.token])
            => job'.executor = job'.token
    BY <1>0, <1>1 DEF RowStays, RowInv, OwnerKnown, Ages, CanWork
  <2>. QED  BY <1>0, <1>1, <2>1, <2>2, <2>3 DEF RowStays, RowInv, Ages
<1>2. ASSUME NEW t \in Task, DispatchSettle(t) PROVE RowInv'
  <2>1. CASE job' = job \/ job' = MarkDispatched(job)
    <3>1. RowStays
      BY <1>0, <1>2, <2>1 DEF RowStays, MarkDispatched, RowType, DispatchSettle
    <3>. QED  BY <1>1, <3>1
  <2>2. CASE CanMarkDispatchFailed(job, t) /\ job' = MarkDispatchFailed(job)
    <3>1. Ended /\ job.token = None
      BY <1>0, <2>2 DEF Ended, MarkDispatchFailed, CanMarkDispatchFailed, RowType, RowInv
    <3>. QED  BY <1>0, <3>1, EndedRow
  <2>. QED  BY <1>2, <2>1, <2>2 DEF DispatchSettle
<1>3. CASE CancelJob
  <2>1. CASE CanCancelQueued(job) /\ job' = CancelQueued(job)
    <3>1. Ended /\ job.token = None
      BY <1>0, <2>1 DEF Ended, CancelQueued, CanCancelQueued, RowType, RowInv
    <3>. QED  BY <1>0, <3>1, EndedRow
  <2>2. CASE CanCancelRunning(job) /\ job' = CancelRunning(job)
    <3>1. /\ job.status = "running" /\ job'.status = "canceling"
          /\ job'.token = job.token /\ job'.executor = job.executor
          /\ job'.escToken = job.escToken
      BY <1>0, <2>2 DEF CancelRunning, CanCancelRunning, RowType
    <3>. QED  BY <1>0, <3>1 DEF RowInv, Ages, OwnerKnown, Active, CanWork, Settled,
              SettledMeansStopped
  <2>. QED  BY <1>3, <2>1, <2>2 DEF CancelJob
<1>4. ASSUME NEW t \in Task, Reanalyze(t) PROVE RowInv'
  <2>1. /\ job'.status = "queued" /\ job'.token = None
        /\ job'.executor = None /\ job'.escToken = None
    BY <1>0, <1>4 DEF Reanalyze, Requeue, ClearExecutor, RowType
  <2>. QED  BY <2>1 DEF RowInv, Settled, SettledMeansStopped, Active
<1>5. CASE DeleteWrite
  <2>1. Ended /\ ~Settled'
    BY <1>0, <1>5 DEF Ended, DeleteWrite, Delete, RowType, Settled, RowInv
  <2>. QED  BY <1>0, <2>1, EndedRow
<1>6. ASSUME NEW t \in Task, NEW e \in Run, ClaimJob(t, e) PROVE RowInv'
  <2>1. /\ job'.status = "running" /\ job'.token = e
        /\ job'.executor = None /\ job'.escToken = None
    BY <1>0, <1>6 DEF ClaimJob, CanClaim, Claim, RowType, RowInv
  <2>2. pc[e] = "idle" /\ pc'[e] = "claimed" /\ ~child'[e]
    BY <1>6 DEF ClaimJob, Goto, StopInv, CallInv, Childless, TypeInv, TypeOK
  <2>. QED  BY <2>1, <2>2 DEF RowInv, Settled, SettledMeansStopped, Active, CanWork
<1>7. ASSUME NEW e \in Run, RegisterExecutor(e) PROVE RowInv'
  <2>1. CASE job' = job
    <3>1. RowStays
      BY <1>7, <2>1 DEF RowStays, RegisterExecutor
    <3>. QED  BY <1>1, <3>1
  <2>2. CASE CanRegister(job, Handle(e)) /\ job' = Register(job, Handle(e))
    <3>1. /\ job.status \in Active /\ job'.status = job.status
          /\ job.token = e /\ job'.token = e /\ job'.executor = e
          /\ job'.escToken = None
      BY <1>0, <2>2 DEF CanRegister, Register, Owned, Handle, RowType
    <3>. QED  BY <1>0, <3>1 DEF RowInv, Ages, Settled, SettledMeansStopped, Active
  <2>. QED  BY <1>7, <2>1, <2>2 DEF RegisterExecutor
<1>8. ASSUME NEW e \in Run, FinalizeRun(e) \/ ResolveFinalize(e) \/ ResolveReread(e)
      PROVE  RowInv'
  <2>1. CASE job' = job
    <3>1. RowStays
      BY <1>8, <2>1 DEF RowStays, FinalizeRun, ResolveFinalize, ResolveReread
    <3>. QED  BY <1>1, <3>1
  <2>2. ASSUME NEW w \in {"completed", "failed", "canceled"}, NEW x, NEW m,
               Owned(job, Handle(e)), job' = Finalize(job, w, x, m)
        PROVE  RowInv'
    <3>1. Ended
      BY <1>0, <2>2 DEF Ended, Finalize, ClearExecutor, RowType
    <3>2. job.token = e /\ pc[e] \in Childless
      BY <1>8, <2>2 DEF Owned, Handle, FinalizeRun, ResolveFinalize, ResolveReread, Childless
    <3>. QED  BY <1>0, <3>1, <3>2, EndedRow, SettlersKnow
  <2>3. \/ job' = job
        \/ \E w \in {"completed", "failed", "canceled"} : \E x, m :
              Owned(job, Handle(e)) /\ job' = Finalize(job, w, x, m)
    <3>1. CASE FinalizeRun(e)
      <4>1. local[e].want \in {"completed", "failed", "canceled"}
        BY <3>1 DEF TypeInv, OutcomeKnown, FinalizeRun
      <4>. QED  BY <3>1, <4>1 DEF FinalizeRun, CanFinalize
    <3>2. CASE ResolveFinalize(e)
      <4>1. local[e].want \in {"completed", "failed", "canceled"}
        BY <3>2 DEF TypeInv, OutcomeKnown, ResolveFinalize
      <4>. QED  BY <3>2, <4>1 DEF ResolveFinalize, CanFinalize
    <3>3. CASE ResolveReread(e)
      BY <3>3 DEF ResolveReread, CanFinalize
    <3>. QED  BY <1>8, <3>1, <3>2, <3>3
  <2>. QED  BY <2>1, <2>2, <2>3
<1>9. ASSUME NEW s \in Sup, EscalationClaim(s) PROVE RowInv'
  <2>1. CASE job' = job
    <3>1. RowStays
      BY <1>9, <2>1 DEF RowStays, EscalationClaim
    <3>. QED  BY <1>1, <3>1
  <2>2. CASE CanClaimEscalation(job, seen[s]) /\ job' = ClaimEscalation(job, s)
    <3>1. /\ job.status = "canceling" /\ job'.status = "canceling"
          /\ job'.token = job.token /\ job'.executor = job.executor
      BY <1>0, <2>2 DEF CanClaimEscalation, ClaimEscalation, RowType
    <3>. QED  BY <1>0, <3>1 DEF RowInv, Ages, OwnerKnown, Active, CanWork, Settled,
              SettledMeansStopped
  <2>. QED  BY <1>9, <2>1, <2>2 DEF EscalationClaim
<1>10. ASSUME NEW s \in Sup, EscalationComplete(s) PROVE RowInv'
  <2>1. CASE job' = job
    <3>1. RowStays
      BY <1>10, <2>1 DEF RowStays, EscalationComplete
    <3>. QED  BY <1>1, <3>1
  <2>2. CASE HoldsEscalation(job, seen[s], s) /\ job' = CompleteEscalation(job)
    <3>1. Ended
      BY <1>0, <2>2 DEF Ended, CompleteEscalation, ClearExecutor, RowType
    <3>2. /\ job.status = "canceling" /\ job.token = seen[s].token
          /\ job.token \in Run /\ job.executor = seen[s].executor
          /\ job.executor # None => pc[job.token] = "ended" /\ ~child[job.token]
      BY <1>0, <1>10, <2>2 DEF HoldsEscalation, Owned, StopInv, SeenInv, Holds, EscalationComplete
    <3>3. Halted(job.token)
      BY <1>0, <3>2, ConstantsOK DEF Halted, RowInv, Active, CanWork
    <3>. QED  BY <1>0, <3>1, <3>3, EndedRow
  <2>. QED  BY <1>10, <2>1, <2>2 DEF EscalationComplete
<1>11. CASE Reconcile
  <2>1. Ended
    BY <1>0, <1>11 DEF Ended, Reconcile, Expire, ClearExecutor, RowType
  <2>2. CASE CanExpireRunning(job) /\ job' = Expire(job, "failed", "expired")
    <3>1. ~Settled'
      BY <1>0, <2>2 DEF Expire, ClearExecutor, RowType, Settled
    <3>. QED  BY <1>0, <2>1, <3>1, EndedRow
  <2>3. CASE CanExpireCanceling(job)
    <3>1. job.token \in Run /\ Halted(job.token)
      BY <1>0, <2>3, ConstantsOK DEF CanExpireCanceling, RowInv, OwnerKnown, Halted, Active
    <3>. QED  BY <1>0, <2>1, <3>1, EndedRow
  <2>4. CASE CanExpireQueued(job)
    <3>1. job.token = None
      BY <1>0, <2>4 DEF CanExpireQueued, RowInv
    <3>. QED  BY <1>0, <2>1, <3>1, EndedRow
  <2>. QED  BY <1>11, <2>2, <2>3, <2>4 DEF Reconcile
<1>. QED  BY RowMoves, <1>1, <1>2, <1>3, <1>4, <1>5, <1>6, <1>7, <1>8, <1>9, <1>10, <1>11

-----------------------------------------------------------------------------
(* The supervisors *)

\* Only a claim makes a run the owner of a running job, and a claim is its first
\* step.
LEMMA NoRestart ==
    ASSUME TypeInv, StopInv, [Next]_vars, NEW e \in Run, pc[e] # "idle", ~Running(e)
    PROVE  ~Running(e)'
<1>0. job \in RowType
  BY DEF TypeInv, TypeOK
<1>1. ASSUME NEW t \in Task, DispatchSettle(t) PROVE ~Running(e)'
  BY <1>0, <1>1 DEF DispatchSettle, MarkDispatched, MarkDispatchFailed, RowType, Running
<1>2. CASE CancelJob \/ DeleteWrite \/ Reconcile
  BY <1>0, <1>2 DEF CancelJob, CancelQueued, CancelRunning, DeleteWrite, Delete,
     Reconcile, Expire, ClearExecutor, RowType, Running
<1>3. ASSUME NEW t \in Task, Reanalyze(t) PROVE ~Running(e)'
  BY <1>0, <1>3 DEF Reanalyze, Requeue, ClearExecutor, RowType, Running
<1>4. ASSUME NEW t \in Task, NEW f \in Run, ClaimJob(t, f) PROVE ~Running(e)'
  BY <1>0, <1>4 DEF ClaimJob, Claim, RowType, Running
<1>5. ASSUME NEW f \in Run, RegisterExecutor(f) PROVE ~Running(e)'
  BY <1>0, <1>5 DEF RegisterExecutor, Register, RowType, Running
<1>6. ASSUME NEW f \in Run, FinalizeRun(f) \/ ResolveFinalize(f) \/ ResolveReread(f)
      PROVE  ~Running(e)'
  <2>1. \A w \in {"completed", "failed", "canceled"} : \A x, m : Finalize(job, w, x, m).status # "running"
    BY <1>0 DEF Finalize, ClearExecutor, RowType
  <2>2. FinalizeRun(f) => local[f].want \in {"completed", "failed", "canceled"}
    BY DEF TypeInv, OutcomeKnown, FinalizeRun
  <2>3. ResolveFinalize(f) => local[f].want \in {"completed", "failed", "canceled"}
    BY DEF TypeInv, OutcomeKnown, ResolveFinalize
  <2>4. job' = job \/ job'.status # "running"
    BY <1>6, <2>1, <2>2, <2>3 DEF FinalizeRun, ResolveFinalize, ResolveReread
  <2>. QED  BY <2>4 DEF Running
<1>7. ASSUME NEW s \in Sup, EscalationClaim(s) \/ EscalationComplete(s) PROVE ~Running(e)'
  BY <1>0, <1>7 DEF EscalationClaim, ClaimEscalation, EscalationComplete, CompleteEscalation,
     ClearExecutor, RowType, Running
<1>8. CASE RowStays
  BY <1>8 DEF RowStays, Running
<1>. QED  BY RowMoves, <1>1, <1>2, <1>3, <1>4, <1>5, <1>6, <1>7, <1>8

\* While an escalation is held, the executor of the row does not change.
LEMMA HoldKept ==
    ASSUME TypeInv, StopInv, [Next]_vars, NEW s \in Sup, seen'[s] = seen[s],
           ~EscalationClaim(s), Holds(s)'
    PROVE  Holds(s) /\ job'.executor = job.executor
<1>0. job \in RowType /\ RowInv /\ s # None
  BY ConstantsOK DEF TypeInv, TypeOK, StopInv
<1>1. ASSUME NEW t \in Task, DispatchSettle(t) PROVE Holds(s) /\ job'.executor = job.executor
  BY <1>0, <1>1 DEF DispatchSettle, MarkDispatched, MarkDispatchFailed, RowType, Holds
<1>2. CASE CancelJob
  BY <1>0, <1>2 DEF CancelJob, CancelQueued, CancelRunning, CanCancelRunning, RowType, RowInv, Holds
<1>3. CASE DeleteWrite \/ Reconcile
  BY <1>0, <1>3 DEF DeleteWrite, Delete, Reconcile, Expire, ClearExecutor, RowType, Holds
<1>4. ASSUME NEW t \in Task, Reanalyze(t) PROVE FALSE
  BY <1>0, <1>4 DEF Reanalyze, Requeue, ClearExecutor, RowType, Holds
<1>5. ASSUME NEW t \in Task, NEW f \in Run, ClaimJob(t, f) PROVE FALSE
  BY <1>0, <1>5 DEF ClaimJob, Claim, RowType, Holds
<1>6. ASSUME NEW f \in Run, RegisterExecutor(f) PROVE Holds(s) /\ job'.executor = job.executor
  BY <1>0, <1>6 DEF RegisterExecutor, CanRegister, Register, RowType, Holds
<1>7. ASSUME NEW f \in Run, FinalizeRun(f) \/ ResolveFinalize(f) \/ ResolveReread(f)
      PROVE  Holds(s) /\ job'.executor = job.executor
  <2>1. \A w, x, m : Finalize(job, w, x, m).escToken = None
    BY <1>0 DEF Finalize, ClearExecutor, RowType
  <2>2. job' = job \/ job'.escToken = None
    BY <1>7, <2>1 DEF FinalizeRun, ResolveFinalize, ResolveReread
  <2>. QED  BY <1>0, <2>2 DEF Holds
<1>8. ASSUME NEW z \in Sup, EscalationClaim(z) \/ EscalationComplete(z)
      PROVE  Holds(s) /\ job'.executor = job.executor
  BY <1>0, <1>8 DEF EscalationClaim, ClaimEscalation, EscalationComplete, CompleteEscalation,
     ClearExecutor, RowType, Holds
<1>9. CASE RowStays
  BY <1>9 DEF RowStays, Holds
<1>. QED  BY RowMoves, <1>1, <1>2, <1>3, <1>4, <1>5, <1>6, <1>7, <1>8, <1>9

\* Who moves the cancel loop of a supervisor.
LEMMA SupMoves ==
    ASSUME [Next]_vars
    PROVE  \/ UNCHANGED <<spc, seen>>
           \/ \E s \in Sup : EscalationRead(s)
           \/ \E s \in Sup : EscalationClaim(s)
           \/ \E s \in Sup : OwnsCancel(s)
           \/ \E s \in Sup : StopUnregistered(s)
           \/ \E s \in Sup : StopExecutor(s)
           \/ \E s \in Sup : StopFails(s)
           \/ \E s \in Sup : EscalationError(s) \/ EscalationComplete(s) \/ SupervisorDies(s)
  BY ZenonT(40) DEF Next, Dispatcher, User, Delivery, Worker, Escalator, Reaper, Clock,
     vars, dispatchVars, runVars, supVars, DispatchAssign, PublishConfirmed,
     PublishRaised, DispatchSettle, CancelJob, Reanalyze, DeleteCheck,
     DeleteWrite, ClaimJob, ClaimLost, PrepareRun, RegisterExecutor,
     StartControl, HeartbeatOnce, LaunchChild, ChildExits, CommitRefused,
     CheckpointRaises, TaskRaises, PipelineReturns, StopControl,
     FinalizeRun, StopInterrupted, ResolveRead, ResolveFinalize,
     ResolveReread, CleanupPrivateRun, Crash, ReapFind, ReapStop,
     ReapDeferred, ReapClean, Reconcile, RowAges, ForceTimePasses, LeaseRunsOut

SeenOne(s) ==
    spc[s] # "idle" =>
        /\ seen[s].token \in Run
        /\ seen[s].executor \in {None, seen[s].token}
        /\ pc[seen[s].token] # "idle"
        /\ ~Running(seen[s].token)
        /\ spc[s] # "read" /\ Holds(s) => job.executor = seen[s].executor
        /\ spc[s] \in {"stopped", "complete"} /\ seen[s].executor # None
              => pc[seen[s].executor] = "ended" /\ ~child[seen[s].executor]

\* What a supervisor knows stays true, and may be used at its next step, except
\* at the steps by which it learns more: the read, the claim and the stop.
LEMMA KnowledgeKept ==
    ASSUME TypeInv, StopInv, [Next]_vars, \A e \in Run : Ages(e), NEW s \in Sup,
           seen'[s] = seen[s], spc[s] # "idle", ~EscalationClaim(s),
           spc[s] = "read" => spc'[s] = "read",
           spc'[s] \in {"stopped", "complete"} /\ seen[s].executor # None
              => spc[s] \in {"stopped", "complete"}
    PROVE  SeenOne(s)'
<1>0. SeenOne(s)
  BY DEF StopInv, SeenInv, SeenOne
<1>1. /\ seen[s].token \in Run /\ seen[s].executor \in {None, seen[s].token}
      /\ pc[seen[s].token] # "idle" /\ ~Running(seen[s].token)
  BY <1>0 DEF SeenOne
<1>2. pc'[seen[s].token] # "idle"
  BY <1>1 DEF Ages
<1>3. ~(job'.status = "running" /\ job'.token = seen[s].token)
  <2>1. ASSUME NEW e \in Run, e = seen[s].token
        PROVE  ~(job'.status = "running" /\ job'.token = e)
    BY <1>1, <2>1, NoRestart DEF Running
  <2>. QED  BY <1>1, <2>1
<1>4. spc'[s] # "read" /\ Holds(s)' => job'.executor = seen[s].executor
  BY <1>0, HoldKept DEF SeenOne
<1>5. spc'[s] \in {"stopped", "complete"} /\ seen[s].executor # None
          => pc'[seen[s].executor] = "ended" /\ ~child'[seen[s].executor]
  BY <1>0, <1>1 DEF SeenOne, Ages
<1>. QED  BY <1>1, <1>2, <1>3, <1>4, <1>5 DEF SeenOne, Running, Holds

LEMMA SeenKept ==
    ASSUME TypeInv, StopInv, [Next]_vars, \A e \in Run : Ages(e)
    PROVE  SeenInv'
<1>0. /\ job \in RowType /\ spc \in [Sup -> SupState] /\ seen \in [Sup -> SeenType]
      /\ pc \in [Run -> Live \union {"idle", "ended"}] /\ child \in [Run -> BOOLEAN]
      /\ OwnerKnown /\ RowInv
  BY DEF TypeInv, TypeOK, StopInv
<1>1. ASSUME NEW s \in Sup PROVE SeenOne(s)
  BY DEF StopInv, SeenInv, SeenOne
<1>2. ASSUME NEW s \in Sup, spc'[s] = spc[s], seen'[s] = seen[s] PROVE SeenOne(s)'
  <2>1. CASE spc[s] = "idle"
    BY <1>2, <2>1 DEF SeenOne
  <2>2. CASE spc[s] # "idle"
    <3>1. ~EscalationClaim(s)
      BY <1>0, <1>2 DEF EscalationClaim, SupGoto, SupReturn
    <3>. QED  BY <1>2, <2>2, <3>1, KnowledgeKept
  <2>. QED  BY <2>1, <2>2
<1>3. ASSUME NEW s \in Sup, EscalationRead(s), NEW z \in Sup PROVE SeenOne(z)'
  <2>1. CASE z = s
    <3>1. /\ spc'[z] = "read" /\ job' = job /\ pc' = pc /\ job.status = "canceling"
          /\ seen'[z].token = job.token /\ seen'[z].executor = job.executor
      BY <1>0, <1>3, <2>1 DEF EscalationRead, SupGoto
    <3>2. /\ job.token \in Run /\ job.executor \in {None, job.token}
          /\ pc[job.token] # "idle"
      BY <1>0, <3>1, ConstantsOK DEF OwnerKnown, RowInv, Active
    <3>. QED  BY <3>1, <3>2 DEF SeenOne, Running
  <2>2. CASE z # s
    BY <1>0, <1>2, <1>3, <2>2 DEF EscalationRead, SupGoto
  <2>. QED  BY <2>1, <2>2
<1>4. ASSUME NEW s \in Sup, EscalationClaim(s), NEW z \in Sup PROVE SeenOne(z)'
  <2>1. CASE z = s /\ CanClaimEscalation(job, seen[s]) /\ job' = ClaimEscalation(job, s)
             /\ seen' = seen /\ spc' = [spc EXCEPT ![s] = "claimed"]
    <3>1. /\ spc'[z] = "claimed" /\ spc[z] = "read" /\ pc' = pc /\ seen'[z] = seen[z]
          /\ job'.status = "canceling" /\ job'.executor = job.executor
          /\ job.executor = seen[z].executor
      BY <1>0, <1>4, <2>1 DEF EscalationClaim, CanClaimEscalation, ClaimEscalation, runVars, RowType
    <3>. QED  BY <1>1, <3>1 DEF SeenOne, Running
  <2>2. CASE z = s /\ SupReturn(s)
    BY <1>0, <2>2 DEF SupReturn, SupGoto, SeenOne
  <2>3. CASE z # s
    BY <1>0, <1>2, <1>4, <2>3 DEF EscalationClaim, SupGoto, SupReturn
  <2>. QED  BY <1>4, <2>1, <2>2, <2>3 DEF EscalationClaim, SupGoto
<1>5. ASSUME NEW s \in Sup, OwnsCancel(s), NEW z \in Sup PROVE SeenOne(z)'
  <2>1. CASE z = s /\ SupReturn(s)
    BY <1>0, <2>1 DEF SupReturn, SupGoto, SeenOne
  <2>2. CASE z = s /\ ~SupReturn(s)
    <3>1. /\ seen'[z] = seen[z] /\ spc[z] \notin {"idle", "read"}
          /\ spc'[z] \in {"stopped", "complete"} => spc[z] \in {"stopped", "complete"}
      BY <1>0, <1>5, <2>2 DEF OwnsCancel, SupGoto
    <3>2. ~EscalationClaim(z)
      BY <3>1 DEF EscalationClaim
    <3>. QED  BY <3>1, <3>2, KnowledgeKept
  <2>3. CASE z # s
    BY <1>0, <1>2, <1>5, <2>3 DEF OwnsCancel, SupGoto, SupReturn
  <2>. QED  BY <2>1, <2>2, <2>3
<1>6. ASSUME NEW s \in Sup, StopUnregistered(s) \/ StopFails(s), NEW z \in Sup PROVE SeenOne(z)'
  <2>1. CASE z = s
    <3>1. /\ seen'[z] = seen[z] /\ spc[z] \notin {"idle", "read"}
          /\ spc'[z] \in {"stopped", "complete"} => seen[z].executor = None
      BY <1>0, <1>6, <2>1 DEF StopUnregistered, StopFails, SupGoto
    <3>2. ~EscalationClaim(z)
      BY <3>1 DEF EscalationClaim
    <3>. QED  BY <3>1, <3>2, KnowledgeKept
  <2>2. CASE z # s
    BY <1>0, <1>2, <1>6, <2>2 DEF StopUnregistered, StopFails, SupGoto
  <2>. QED  BY <2>1, <2>2
<1>7. ASSUME NEW s \in Sup, StopExecutor(s), NEW z \in Sup PROVE SeenOne(z)'
  <2>1. CASE z = s
    <3>1. /\ seen'[z] = seen[z] /\ job' = job /\ spc[z] = "stop" /\ spc'[z] = "stopped"
          /\ seen[z].executor # None
      BY <1>0, <1>7, <2>1 DEF StopExecutor, SupGoto
    <3>2. /\ seen[z].token \in Run /\ seen[z].executor = seen[z].token
          /\ pc[seen[z].token] # "idle" /\ ~Running(seen[z].token)
          /\ Holds(z) => job.executor = seen[z].executor
      BY <1>1, <3>1 DEF SeenOne
    <3>3. pc'[seen[z].token] = "ended" /\ ~child'[seen[z].token]
      BY <1>0, <1>7, <2>1, <3>2 DEF StopExecutor, Killed, End
    <3>. QED  BY <3>1, <3>2, <3>3 DEF SeenOne, Running, Holds
  <2>2. CASE z # s
    BY <1>0, <1>2, <1>7, <2>2 DEF StopExecutor, SupGoto
  <2>. QED  BY <2>1, <2>2
<1>8. ASSUME NEW s \in Sup, EscalationError(s) \/ EscalationComplete(s) \/ SupervisorDies(s),
             NEW z \in Sup
      PROVE  SeenOne(z)'
  <2>1. CASE z = s
    BY <1>0, <1>8, <2>1
    DEF EscalationError, EscalationComplete, SupervisorDies, SupReturn, SupGoto, SeenOne
  <2>2. CASE z # s
    BY <1>0, <1>2, <1>8, <2>2
    DEF EscalationError, EscalationComplete, SupervisorDies, SupReturn, SupGoto
  <2>. QED  BY <2>1, <2>2
<1>9. \A s \in Sup : SeenOne(s)'
  BY SupMoves, <1>2, <1>3, <1>4, <1>5, <1>6, <1>7, <1>8
<1>. QED  BY <1>9 DEF SeenInv, SeenOne

LEMMA ReapKept ==
    ASSUME TypeInv, StopInv, [Next]_vars, \A e \in Run : Ages(e)
    PROVE  ReapInv'
<1>. DEFINE One(s) == reap[s].step # "idle" =>
                         /\ pc[reap[s].run] # "idle"
                         /\ ~Running(reap[s].run)
                         /\ reap[s].step = "clean" => pc[reap[s].run] = "ended"
<1>0. /\ job \in RowType /\ ReapKnown /\ RowInv
      /\ reap \in [Sup -> [step : {"idle", "stop", "clean"}, run : Run \union {None}]]
      /\ pc \in [Run -> Live \union {"idle", "ended"}]
  BY DEF TypeInv, TypeOK, StopInv
<1>1. ASSUME NEW s \in Sup PROVE One(s)
  BY DEF StopInv, ReapInv
<1>2. ASSUME NEW s \in Sup, reap'[s] = reap[s] PROVE One(s)'
  <2>1. ASSUME NEW e \in Run, reap[s].run = e, reap[s].step # "idle" PROVE One(s)'
    <3>1. pc[e] # "idle" /\ ~Running(e) /\ (reap[s].step = "clean" => pc[e] = "ended")
      BY <1>1, <2>1
    <3>2. pc'[e] # "idle" /\ ~Running(e)' /\ (reap[s].step = "clean" => pc'[e] = "ended")
      BY <3>1, NoRestart DEF Ages
    <3>. QED  BY <1>2, <2>1, <3>2 DEF Running
  <2>. QED  BY <1>0, <1>2, <2>1 DEF ReapKnown
<1>3. ASSUME NEW s \in Sup, ReapFind(s), NEW z \in Sup PROVE One(z)'
  <2>1. CASE z = s
    <3>1. /\ reap'[z] = [step |-> "stop", run |-> job.token] /\ pc' = pc /\ job' = job
          /\ job.status = "failed" /\ job.token # None
      BY <1>0, <1>3, <2>1 DEF ReapFind, runVars
    <3>. QED  BY <1>0, <3>1 DEF RowInv, Running
  <2>2. CASE z # s
    BY <1>0, <1>2, <1>3, <2>2 DEF ReapFind
  <2>. QED  BY <2>1, <2>2
<1>4. ASSUME NEW s \in Sup, ReapStop(s), NEW z \in Sup PROVE One(z)'
  <2>1. CASE z = s
    <3>1. /\ reap[z].step = "stop" /\ reap[z].run \in Run /\ reap'[z].run = reap[z].run
          /\ job' = job /\ pc[reap[z].run] # "idle" /\ ~Running(reap[z].run)
      BY <1>0, <1>1, <1>4, <2>1 DEF ReapStop, ReapKnown
    <3>2. pc'[reap[z].run] = "ended"
      BY <1>0, <1>4, <2>1, <3>1 DEF ReapStop, Killed, End
    <3>. QED  BY <3>1, <3>2 DEF Running
  <2>2. CASE z # s
    BY <1>0, <1>2, <1>4, <2>2 DEF ReapStop
  <2>. QED  BY <2>1, <2>2
<1>5. ASSUME NEW s \in Sup, ReapDeferred(s) \/ ReapClean(s) \/ SupervisorDies(s), NEW z \in Sup
      PROVE  One(z)'
  <2>1. CASE z = s
    BY <1>0, <1>5, <2>1 DEF ReapDeferred, ReapClean, SupervisorDies, Idle
  <2>2. CASE z # s
    BY <1>0, <1>2, <1>5, <2>2 DEF ReapDeferred, ReapClean, SupervisorDies
  <2>. QED  BY <2>1, <2>2
<1>6. \A s \in Sup : One(s)'
  <2>. HIDE DEF One
  <2>1. CASE UNCHANGED reap
    BY <1>2, <2>1
  <2>. QED  BY ReaperMoves, <1>3, <1>4, <1>5, <2>1
<1>. QED  BY <1>6 DEF ReapInv

LEMMA StopInvInductive == (Init => StopInv) /\ (TypeInv /\ StopInv /\ [Next]_vars => StopInv')
<1>1. ASSUME Init PROVE StopInv
  BY <1>1 DEF Init, StopInv, CallInv, RowInv, SeenInv, ReapInv, FreshRow, Idle, NoRow, Active,
     CanWork, Childless, Prepared, Settled, SettledMeansStopped
<1>2. ASSUME TypeInv, StopInv, [Next]_vars PROVE StopInv'
  <2>1. CallInv' /\ \A e \in Run : Ages(e)
    BY <1>2, CallsAge
  <2>2. RowInv' /\ SeenInv' /\ ReapInv'
    BY <1>2, <2>1, RowKept, SeenKept, ReapKept
  <2>. QED  BY <2>1, <2>2 DEF StopInv
<1>. QED  BY <1>1, <1>2

-----------------------------------------------------------------------------

\* A job shown as ended by its worker or by a cancellation has nothing of its run
\* left alive or about to start (finalize_owned_job, complete_cancel_escalation).
THEOREM NothingOutlivesItsJob == Spec => []SettledMeansStopped
<1>1. StopInv => SettledMeansStopped
  BY DEF StopInv, RowInv
<1>. QED  BY <1>1, TypeInvInductive, StopInvInductive, PTL DEF Spec

\* However old the row a supervisor works from, it never stops the run of a job
\* that is running (claim_cancel_escalation, _reap_expired_receipts).
THEOREM SupervisorsSpareTheHealthy == Spec => []NoHealthyRunStopped
<1>1. TypeInv /\ StopInv => NoHealthyRunStopped
  BY ConstantsOK DEF TypeInv, StopInv, SeenInv, ReapInv, OwnerKnown, Active, Running, NoHealthyRunStopped
<1>. QED  BY <1>1, TypeInvInductive, StopInvInductive, PTL DEF Spec
-----------------------------------------------------------------------------
(* Accepted runs                                                           *)

Kept(e) == pc[e] \notin {"idle", "claimed"} /\ files[e] = "receipt"

\* Nobody removes the directory of an accepted run: not the cleanup of a worker,
\* nor a reaper, both of which look at the row first.
LEMMA AcceptedFilesKept ==
    ASSUME TypeInv, [Next]_vars, NEW x \in job.accepted, x \in Run, Ages(x), Kept(x)
    PROVE  Kept(x)'
<1>0. files \in [Run -> {"none", "dir", "receipt"}] /\ job \in RowType /\ ReapKnown /\ OwnerKnown
  BY DEF TypeInv, TypeOK
<1>1. pc'[x] \notin {"idle", "claimed"}
  BY DEF Kept, Ages
<1>2. ASSUME NEW e \in Run, PrepareRun(e) PROVE files'[x] = files[x]
  BY <1>0, <1>2 DEF PrepareRun, Kept
<1>3. ASSUME NEW e \in Run, CleanupPrivateRun(e) PROVE files'[x] = files[x]
  BY <1>0, <1>3 DEF CleanupPrivateRun
<1>4. ASSUME NEW s \in Sup, EscalationRead(s) PROVE files'[x] = files[x]
  BY <1>0, <1>4 DEF EscalationRead, Kept, OwnerKnown, Active
<1>5. ASSUME NEW s \in Sup, ReapClean(s) PROVE files'[x] = files[x]
  BY <1>0, <1>5 DEF ReapClean, ReapKnown
<1>6. files'[x] = files[x]
  BY RunMoves, <1>2, <1>3, <1>4, <1>5
  DEF ClaimJob, RegisterExecutor, StartControl, LaunchChild, ChildExits, CommitRefused,
      CheckpointRaises, TaskRaises, PipelineReturns, StopControl, FinalizeRun, StopInterrupted,
      ResolveRead, ResolveFinalize, ResolveReread, Crash, StopExecutor, StopFails, ReapStop
<1>. QED  BY <1>1, <1>6 DEF Kept

\* A call on its way to its terminal update keeps the manifest it built when its
\* pipeline returned, or the outcome it decided on when it was interrupted.
LEMMA OutcomeKept ==
    ASSUME TypeInv, [Next]_vars, NEW e \in Run
    PROVE  /\ pc'[e] \in Closing => \/ pc[e] \in Closing /\ local'[e] = local[e]
                                   \/ PipelineReturns(e)
           /\ pc'[e] = "resolving" => \/ pc[e] = "resolving" /\ local'[e] = local[e]
                                     \/ ResolveRead(e)
<1>. DEFINE Goal ==
       /\ pc'[e] \in Closing => \/ pc[e] \in Closing /\ local'[e] = local[e]
                               \/ PipelineReturns(e)
       /\ pc'[e] = "resolving" => \/ pc[e] = "resolving" /\ local'[e] = local[e]
                                 \/ ResolveRead(e)
<1>0. /\ pc \in [Run -> Live \union {"idle", "ended"}]
      /\ local \in [Run -> LocalType]
  BY DEF TypeInv, TypeOK
<1>. USE <1>0 DEF Closing, Goto, Interrupt, End
<1>1. ASSUME NEW t \in Task, NEW f \in Run, ClaimJob(t, f) PROVE Goal
  BY <1>1 DEF ClaimJob
<1>2. ASSUME NEW f \in Run, PrepareRun(f) PROVE Goal
  BY <1>2 DEF PrepareRun
<1>3. ASSUME NEW f \in Run, RegisterExecutor(f) \/ StartControl(f) PROVE Goal
  BY <1>3 DEF RegisterExecutor, StartControl
<1>4. ASSUME NEW f \in Run, CommitRefused(f) \/ CheckpointRaises(f) \/ TaskRaises(f) PROVE Goal
  BY <1>4 DEF CommitRefused, CheckpointRaises, TaskRaises
<1>5. ASSUME NEW f \in Run, PipelineReturns(f) PROVE Goal
  BY <1>5 DEF PipelineReturns
<1>6. ASSUME NEW f \in Run, StopControl(f) PROVE Goal
  BY <1>6 DEF StopControl
<1>7. ASSUME NEW f \in Run, FinalizeRun(f) PROVE Goal
  BY <1>7 DEF FinalizeRun, Return
<1>8. ASSUME NEW f \in Run, StopInterrupted(f) \/ ResolveRead(f) PROVE Goal
  BY <1>8 DEF StopInterrupted, ResolveRead, Return
<1>9. ASSUME NEW f \in Run, ResolveFinalize(f) \/ ResolveReread(f) PROVE Goal
  BY <1>9 DEF ResolveFinalize, ResolveReread
<1>10. ASSUME NEW f \in Run, CleanupPrivateRun(f) \/ Crash(f) PROVE Goal
  BY <1>10 DEF CleanupPrivateRun, Crash, Return
<1>11. ASSUME NEW s \in Sup, StopExecutor(s) \/ StopFails(s) \/ ReapStop(s) PROVE Goal
  BY <1>11 DEF StopExecutor, StopFails, ReapStop, Killed
<1>12. CASE UNCHANGED <<pc, local>>
  BY <1>12
<1>. QED
  BY CallMoves, <1>1, <1>2, <1>3, <1>4, <1>5, <1>6, <1>7, <1>8, <1>9, <1>10, <1>11, <1>12

\* A step that accepts nothing and grants no cancellation keeps what is accepted.
LEMMA AcceptShrinks ==
    ASSUME TypeInv, StopInv, AcceptInv, [Next]_vars, \A e \in Run : Ages(e),
           job'.accepted \subseteq job.accepted, acked' = acked,
           job'.status \in Active => job'.token \notin job.accepted,
           \A e \in Run : pc'[e] \in Closing /\ Running(e)'
                             => Running(e) /\ job'.accepted = job.accepted
    PROVE  AcceptInv'
<1>0. job.accepted \subseteq Run /\ acked \subseteq Run /\ job.token \in Run \cup {None}
  BY DEF TypeInv, TypeOK, RowType
<1>1. \A x \in job.accepted : Kept(x) /\ Kept(x)' /\ taskOf'[x] = taskOf[x]
  <2>1. \A x \in job.accepted : Kept(x)
    BY DEF AcceptInv, Kept
  <2>2. \A x \in job.accepted : Kept(x)'
    BY <1>0, <2>1, AcceptedFilesKept
  <2>. QED  BY <1>0, <2>1, <2>2 DEF Kept, Ages
<1>2. \A e \in acked : pc'[e] # "idle" /\ ~Running(e)'
  <2>1. ASSUME NEW e \in acked PROVE pc'[e] # "idle" /\ ~Running(e)'
    BY <1>0, <2>1, NoRestart DEF AcceptInv, Ages
  <2>. QED  BY <2>1
<1>3. ASSUME NEW e \in Run, pc'[e] \in Closing, Running(e)', local'[e].want = "completed"
      PROVE  e \in local'[e].manifest /\ local'[e].manifest \subseteq CandidateManifest(e)'
  <2>1. Running(e) /\ job'.accepted = job.accepted
    BY <1>3
  <2>2. /\ e \in local'[e].manifest /\ local'[e].manifest \subseteq CandidateManifest(e)
        /\ pc[e] # "idle"
    <3>1. CASE pc[e] \in Closing /\ local'[e] = local[e]
      BY <1>3, <2>1, <3>1 DEF AcceptInv, Closing
    <3>2. CASE PipelineReturns(e)
      BY <3>2 DEF PipelineReturns, TypeInv, TypeOK, LocalType, CandidateManifest
    <3>. QED  BY <1>3, <3>1, <3>2, OutcomeKept
  <2>3. CandidateManifest(e)' = CandidateManifest(e)
    BY <1>1, <2>1, <2>2 DEF CandidateManifest, Ages
  <2>. QED  BY <2>2, <2>3
<1>4. CancelNeverAccepted' /\ OneRunPerPhase'
  BY <1>1 DEF AcceptInv, CancelNeverAccepted, OneRunPerPhase
<1>5. job'.status \in Active => job'.token \notin job'.accepted
  OBVIOUS
<1>6. ASSUME NEW e \in Run, pc'[e] = "resolving", local'[e].want = "canceled"
      PROVE  ~Running(e)'
  <2>1. CASE pc[e] = "resolving" /\ local'[e] = local[e]
    BY <1>6, <2>1, NoRestart DEF AcceptInv
  <2>2. CASE ResolveRead(e)
    BY <1>6, <2>2 DEF ResolveRead, WantedOutcome, Running, TypeInv, TypeOK, LocalType
  <2>. QED  BY <1>6, <2>1, <2>2, OutcomeKept
<1>. QED  BY <1>1, <1>2, <1>3, <1>4, <1>5, <1>6 DEF AcceptInv, Kept, Closing

\* An accepted run joins the accepted runs of other phases.
LEMMA AcceptGrows ==
    ASSUME TypeInv, StopInv, AcceptInv, [Next]_vars, \A f \in Run : Ages(f),
           NEW e \in Run, FinalizeRun(e), Running(e), local[e].want = "completed",
           job'.accepted = local[e].manifest, job'.status = "completed"
    PROVE  AcceptInv'
<1>0. job.accepted \subseteq Run /\ acked \subseteq Run
  BY DEF TypeInv, TypeOK, RowType
<1>1. job'.accepted \subseteq CandidateManifest(e)
  BY DEF AcceptInv, FinalizeRun, Closing
<1>2. e \notin acked /\ pc[e] = "finalizing" /\ files[e] = "receipt"
  BY DEF AcceptInv, FinalizeRun, StopInv, CallInv, Prepared
<1>3. UNCHANGED <<taskOf, files, acked>>
  BY DEF FinalizeRun, supVars
<1>4. \A x \in job'.accepted : x = e \/ (x \in job.accepted /\ PhaseOf[taskOf[x]] # PhaseOf[taskOf[e]])
  BY <1>1 DEF CandidateManifest
<1>5. \A x \in job'.accepted : pc'[x] \notin {"idle", "claimed"} /\ files'[x] = "receipt"
  BY <1>0, <1>2, <1>3, <1>4 DEF AcceptInv, Ages
<1>6. \A x \in acked' : pc'[x] # "idle" /\ ~Running(x)'
  BY <1>0, <1>3 DEF AcceptInv, Ages, Running
<1>7. CancelNeverAccepted' /\ OneRunPerPhase'
  BY <1>2, <1>3, <1>4 DEF AcceptInv, CancelNeverAccepted, OneRunPerPhase
<1>. QED  BY <1>5, <1>6, <1>7 DEF AcceptInv, Active, Running

\* A granted cancellation is of a run that is not accepted and no longer will be.
LEMMA AcceptRefuses ==
    ASSUME TypeInv, StopInv, AcceptInv, [Next]_vars, \A f \in Run : Ages(f),
           CancelJob, CanCancelRunning(job), job' = CancelRunning(job),
           acked' = acked \union {job.token}
    PROVE  AcceptInv'
<1>0. /\ job.accepted \subseteq Run /\ acked \subseteq Run /\ job \in RowType
      /\ job.token \in Run /\ pc[job.token] # "idle"
  BY ConstantsOK DEF TypeInv, TypeOK, RowType, OwnerKnown, Active, CanCancelRunning, StopInv, RowInv
<1>1. /\ job.status = "running" /\ job'.status = "canceling" /\ job'.token = job.token
      /\ job'.accepted = job.accepted /\ UNCHANGED <<pc, taskOf, files>>
  BY <1>0 DEF CanCancelRunning, CancelRunning, RowType, CancelJob, runVars
<1>2. job.token \notin job.accepted
  BY <1>1 DEF AcceptInv, Active
<1>. QED  BY <1>0, <1>1, <1>2 DEF AcceptInv, CancelNeverAccepted, OneRunPerPhase, Running

LEMMA AcceptKept ==
    ASSUME TypeInv, StopInv, AcceptInv, [Next]_vars, \A e \in Run : Ages(e)
    PROVE  AcceptInv'
<1>0. /\ job \in RowType /\ RowInv /\ OwnerKnown
      /\ pc \in [Run -> Live \union {"idle", "ended"}]
      /\ job.status \in Active => job.token \notin job.accepted
      /\ \A x \in job.accepted : pc[x] # "idle"
  BY DEF StopInv, AcceptInv, TypeInv, TypeOK
<1>1. CASE RowStays
  BY <1>0, <1>1, AcceptShrinks DEF RowStays, Running
<1>2. ASSUME NEW t \in Task, DispatchSettle(t) PROVE AcceptInv'
  <2>1. /\ job'.accepted = job.accepted /\ job'.token = job.token /\ acked' = acked
        /\ job'.status \in {job.status, "failed"}
    <3>1. job' = job \/ job' = MarkDispatched(job) \/ job' = MarkDispatchFailed(job)
      BY <1>2 DEF DispatchSettle
    <3>2. acked' = acked
      BY <1>2 DEF DispatchSettle
    <3>3. CASE job' = job \/ job' = MarkDispatched(job)
      BY <1>0, <3>2, <3>3 DEF MarkDispatched, RowType
    <3>4. CASE job' = MarkDispatchFailed(job)
      BY <1>0, <3>2, <3>4 DEF MarkDispatchFailed, RowType
    <3>. QED  BY <3>1, <3>3, <3>4
  <2>. QED  BY <1>0, <2>1, AcceptShrinks DEF Running, Active
<1>3. CASE CancelJob
  <2>1. CASE CanCancelQueued(job) /\ job' = CancelQueued(job) /\ acked' = acked
    <3>1. job'.accepted = job.accepted /\ job'.status = "canceled"
      BY <1>0, <2>1 DEF CancelQueued, RowType
    <3>. QED  BY <2>1, <3>1, AcceptShrinks DEF Running, Active
  <2>. QED  BY <1>3, <2>1, AcceptRefuses DEF CancelJob
<1>4. ASSUME NEW t \in Task, Reanalyze(t) PROVE AcceptInv'
  <2>1. job'.accepted = job.accepted /\ job'.status = "queued" /\ acked' = acked
    BY <1>0, <1>4 DEF Reanalyze, Requeue, ClearExecutor, RowType
  <2>. QED  BY <2>1, AcceptShrinks DEF Running, Active
<1>5. CASE DeleteWrite
  <2>1. job'.accepted = job.accepted /\ job'.status = "deleted" /\ acked' = acked
    BY <1>0, <1>5 DEF DeleteWrite, Delete, RowType
  <2>. QED  BY <2>1, AcceptShrinks DEF Running, Active
<1>6. ASSUME NEW t \in Task, NEW e \in Run, ClaimJob(t, e) PROVE AcceptInv'
  <2>1. /\ job'.accepted = job.accepted /\ job'.token = e /\ acked' = acked
        /\ pc[e] = "idle" /\ pc'[e] = "claimed"
    BY <1>0, <1>6 DEF ClaimJob, Claim, RowType, Goto
  <2>2. e \notin job.accepted
    BY <1>0, <2>1
  <2>. QED  BY <2>1, <2>2, AcceptShrinks DEF Running, Closing
<1>7. ASSUME NEW e \in Run, RegisterExecutor(e) PROVE AcceptInv'
  <2>1. /\ job'.accepted = job.accepted /\ job'.token = job.token /\ acked' = acked
        /\ job'.status = job.status
    BY <1>0, <1>7 DEF RegisterExecutor, Register, RowType
  <2>. QED  BY <1>0, <2>1, AcceptShrinks DEF Running
<1>8. ASSUME NEW e \in Run, FinalizeRun(e) \/ ResolveFinalize(e) \/ ResolveReread(e)
      PROVE  AcceptInv'
  <2>1. CASE job' = job
    BY <1>0, <1>8, <2>1, AcceptShrinks
    DEF FinalizeRun, ResolveFinalize, ResolveReread, Running
  <2>2. CASE job'.accepted = {} /\ job'.status \notin Active
    BY <1>8, <2>2, AcceptShrinks
    DEF FinalizeRun, ResolveFinalize, ResolveReread, Running, Active
  <2>3. ASSUME NEW w \in {"failed", "canceled"}, NEW x, NEW m
        PROVE  Finalize(job, w, x, m).accepted = {} /\ Finalize(job, w, x, m).status \notin Active
    BY <1>0, <2>3 DEF Finalize, ClearExecutor, RowType, Active
  <2>4. CASE FinalizeRun(e) /\ job' # job
    <3>1. /\ local[e].want \in {"completed", "failed"}
          /\ CanFinalize(job, Handle(e), local[e].want)
          /\ \E x : job' = Finalize(job, local[e].want, x, local[e].manifest)
      BY <2>4 DEF FinalizeRun, TypeInv, OutcomeKnown
    <3>2. CASE local[e].want = "completed"
      <4>1. Running(e)
        BY <3>1, <3>2 DEF CanFinalize, Owned, Handle, Running
      <4>2. job'.accepted = local[e].manifest /\ job'.status = "completed"
        BY <1>0, <3>1, <3>2 DEF Finalize, ClearExecutor, RowType
      <4>. QED  BY <2>4, <3>2, <4>1, <4>2, AcceptGrows
    <3>. QED  BY <2>2, <2>3, <3>1, <3>2
  <2>5. CASE ResolveFinalize(e) /\ job' # job
    <3>1. local[e].want \in {"failed", "canceled"}
      BY <2>5 DEF ResolveFinalize, TypeInv, OutcomeKnown
    <3>. QED  BY <2>2, <2>3, <2>5, <3>1 DEF ResolveFinalize
  <2>6. CASE ResolveReread(e) /\ job' # job
    BY <2>2, <2>3, <2>6 DEF ResolveReread
  <2>. QED  BY <1>8, <2>1, <2>4, <2>5, <2>6
<1>9. ASSUME NEW s \in Sup, EscalationClaim(s) \/ EscalationComplete(s) PROVE AcceptInv'
  <2>1. /\ job'.accepted = job.accepted /\ job'.token = job.token /\ acked' = acked
        /\ job'.status \in {job.status, "canceled"}
    BY <1>0, <1>9 DEF EscalationClaim, ClaimEscalation, EscalationComplete, CompleteEscalation,
       ClearExecutor, RowType
  <2>. QED  BY <1>0, <2>1, AcceptShrinks DEF Running, Active
<1>10. CASE Reconcile
  <2>1. job'.accepted = {} /\ job'.status \in {"failed", "canceled"} /\ acked' = acked
    BY <1>0, <1>10 DEF Reconcile, Expire, ClearExecutor, RowType
  <2>. QED  BY <2>1, AcceptShrinks DEF Running, Active
<1>. QED  BY RowMoves, <1>1, <1>2, <1>3, <1>4, <1>5, <1>6, <1>7, <1>8, <1>9, <1>10

LEMMA AcceptInvInductive ==
    /\ Init => AcceptInv
    /\ TypeInv /\ StopInv /\ AcceptInv /\ [Next]_vars => AcceptInv'
<1>1. ASSUME Init PROVE AcceptInv
  BY <1>1 DEF Init, AcceptInv, FreshRow, CancelNeverAccepted, OneRunPerPhase, Closing
<1>2. ASSUME TypeInv, StopInv, AcceptInv, [Next]_vars PROVE AcceptInv'
  BY <1>2, CallsAge, AcceptKept
<1>. QED  BY <1>1, <1>2

\* The directory of an accepted run is there as long as it is accepted, whoever
\* cleans up meanwhile (cleanup_private_run, _reap_expired_receipts).
THEOREM AcceptedRunsStay == Spec => []AcceptedRunsKept
<1>1. AcceptInv => AcceptedRunsKept
  BY DEF AcceptInv, AcceptedRunsKept
<1>. QED  BY <1>1, TypeInvInductive, StopInvInductive, AcceptInvInductive, PTL DEF Spec

\* A run whose cancellation was granted is never accepted, whoever writes the
\* row (request_cancel, finalize_owned_job).
THEOREM CancellationsHold == Spec => []CancelNeverAccepted
<1>1. AcceptInv => CancelNeverAccepted
  BY DEF AcceptInv
<1>. QED  BY <1>1, TypeInvInductive, StopInvInductive, AcceptInvInductive, PTL DEF Spec

\* The accepted manifest keeps one run per phase, although it is put together
\* before the update that accepts it (finalize_owned_job, candidate manifest).
THEOREM PhasesHaveOneRun == Spec => []OneRunPerPhase
<1>1. AcceptInv => OneRunPerPhase
  BY DEF AcceptInv
<1>. QED  BY <1>1, TypeInvInductive, StopInvInductive, AcceptInvInductive, PTL DEF Spec

-----------------------------------------------------------------------------
(* The abstract life of a job: every step of the runtime is one of its     *)
(* steps or leaves it unchanged.                                           *)

Used == {e \in Run : Claimed(e)}

\* A run joins those that have owned the job by its claim and by nothing else.
LEMMA UsedKept ==
    ASSUME TypeInv, [Next]_vars
    PROVE  Used' = Used \/ \E t \in Task, e \in Run : ClaimJob(t, e)
  BY OtherSteps DEF OtherEffect, DispatchAssign, Reanalyze, runVars, Used, Claimed

LEMMA StepMaps ==
    ASSUME TypeInv, StopInv, AcceptInv, IdentityInv, [Next]_vars
    PROVE  [Lifecycle!Next]_(Lifecycle!vars)
<1>. DEFINE Goal == [Lifecycle!Next]_(Lifecycle!vars)
<1>0. /\ job \in RowType /\ RowInv /\ OwnerKnown
      /\ job.status \in Active => job.token \notin job.accepted
  BY DEF StopInv, AcceptInv, TypeInv, TypeOK
<1>1. ASSUME NEW t \in Task, NEW e \in Run, ClaimJob(t, e) PROVE Goal
  <2>1. /\ job.status = "queued" /\ job'.status = "running" /\ job'.token = e
        /\ job'.accepted = job.accepted
    BY <1>0, <1>1 DEF ClaimJob, CanClaim, Claim, RowType
  <2>2. e \notin Used
    BY <1>1 DEF ClaimJob, IdentityInv, IdleUnclaimed, Used
  <2>3. Used' = Used \union {e}
    BY <1>0, <1>1 DEF ClaimJob, Used, Claimed, TypeInv, TypeOK, RowType
  <2>4. Lifecycle!Start(e)
    BY <2>1, <2>2, <2>3 DEF Lifecycle!Start, Used
  <2>. QED  BY <2>4 DEF Lifecycle!Next
<1>. SUFFICES ASSUME Used' = Used PROVE Goal
  BY <1>1, UsedKept
<1>2. ASSUME job'.status = job.status, job'.token = job.token, job'.accepted = job.accepted
      PROVE  Goal
  BY <1>2 DEF Lifecycle!vars, Used
<1>3. CASE RowStays
  BY <1>2, <1>3 DEF RowStays
<1>4. ASSUME job.status \in {"queued", "running"}, job'.status = "failed",
             job'.token = job.token, job'.accepted \in {job.accepted, {}}
      PROVE  Goal
  BY <1>4 DEF Lifecycle!Next, Lifecycle!Fail, Used
<1>5. ASSUME job.status = "canceling", job'.status = "canceled",
             job'.token = job.token, job'.accepted \in {job.accepted, {}}
      PROVE  Goal
  BY <1>5 DEF Lifecycle!Next, Lifecycle!CancelEnds, Used
<1>6. ASSUME NEW t \in Task, DispatchSettle(t) PROVE Goal
  <2>1. CASE job' = job \/ job' = MarkDispatched(job)
    BY <1>0, <1>2, <2>1 DEF MarkDispatched, RowType
  <2>2. CASE CanMarkDispatchFailed(job, t) /\ job' = MarkDispatchFailed(job)
    BY <1>0, <1>4, <2>2 DEF CanMarkDispatchFailed, MarkDispatchFailed, RowType
  <2>. QED  BY <1>6, <2>1, <2>2 DEF DispatchSettle
<1>7. CASE CancelJob
  <2>1. Lifecycle!Cancel
    BY <1>0, <1>7 DEF CancelJob, CanCancelQueued, CancelQueued, CanCancelRunning, CancelRunning,
       RowType, Lifecycle!Cancel, Used
  <2>. QED  BY <2>1 DEF Lifecycle!Next
<1>8. ASSUME NEW t \in Task, Reanalyze(t) PROVE Goal
  <2>1. Lifecycle!Requeue
    BY <1>0, <1>8 DEF Reanalyze, CanRequeue, Requeue, ClearExecutor, RowType, Lifecycle!Requeue, Used
  <2>. QED  BY <2>1 DEF Lifecycle!Next
<1>9. CASE DeleteWrite
  <2>1. Lifecycle!Delete
    BY <1>0, <1>9 DEF DeleteWrite, Delete, RowType, Lifecycle!Delete, Used
  <2>. QED  BY <2>1 DEF Lifecycle!Next
<1>10. ASSUME NEW e \in Run, RegisterExecutor(e) PROVE Goal
  BY <1>0, <1>2, <1>10 DEF RegisterExecutor, Register, RowType
<1>11. ASSUME NEW w \in {"failed", "canceled"}, NEW x, NEW m,
              job' = Finalize(job, w, x, m),
              job.status = (IF w = "failed" THEN "running" ELSE "canceling")
       PROVE  Goal
  <2>1. job'.status = w /\ job'.token = job.token /\ job'.accepted = {}
    BY <1>0, <1>11 DEF Finalize, ClearExecutor, RowType
  <2>. QED  BY <1>4, <1>5, <1>11, <2>1
<1>12. ASSUME NEW e \in Run, FinalizeRun(e) PROVE Goal
  <2>1. CASE job' = job
    BY <1>2, <2>1
  <2>2. CASE job' # job
    <3>1. /\ local[e].want \in {"completed", "failed"} /\ pc[e] \in Closing
          /\ CanFinalize(job, Handle(e), local[e].want)
          /\ \E x : job' = Finalize(job, local[e].want, x, local[e].manifest)
      BY <1>12, <2>2 DEF FinalizeRun, TypeInv, OutcomeKnown, Closing
    <3>2. job.status = "running" /\ job.token = e
      BY <3>1 DEF CanFinalize, Owned, Handle
    <3>3. CASE local[e].want = "completed"
      <4>1. job'.status = "completed" /\ job'.token = e /\ job'.accepted = local[e].manifest
        BY <1>0, <3>1, <3>2, <3>3 DEF Finalize, ClearExecutor, RowType
      <4>2. e \in local[e].manifest /\ local[e].manifest \subseteq job.accepted \union {e}
        BY <3>1, <3>2, <3>3 DEF AcceptInv, Running, Closing, CandidateManifest
      <4>3. Lifecycle!Accept
        BY <3>2, <4>1, <4>2 DEF Lifecycle!Accept, Used
      <4>. QED  BY <4>3 DEF Lifecycle!Next
    <3>. QED  BY <1>11, <3>1, <3>2, <3>3
  <2>. QED  BY <2>1, <2>2
<1>13. ASSUME NEW e \in Run, ResolveFinalize(e) PROVE Goal
  <2>1. CASE job' = job
    BY <1>2, <2>1
  <2>2. CASE job' # job
    <3>1. /\ local[e].want \in {"failed", "canceled"} /\ pc[e] = "resolving"
          /\ CanFinalize(job, Handle(e), local[e].want)
          /\ \E x : job' = Finalize(job, local[e].want, x, {})
      BY <1>13, <2>2 DEF ResolveFinalize, TypeInv, OutcomeKnown
    <3>2. job.status = IF local[e].want = "failed" THEN "running" ELSE "canceling"
      BY <3>1 DEF CanFinalize, Owned, Handle, AcceptInv, Running, Active
    <3>. QED  BY <1>11, <3>1, <3>2
  <2>. QED  BY <2>1, <2>2
<1>14. ASSUME NEW e \in Run, ResolveReread(e) PROVE Goal
  BY <1>2, <1>11, <1>14 DEF ResolveReread
<1>15. ASSUME NEW s \in Sup, EscalationClaim(s) PROVE Goal
  BY <1>0, <1>2, <1>15 DEF EscalationClaim, ClaimEscalation, RowType
<1>16. ASSUME NEW s \in Sup, EscalationComplete(s) PROVE Goal
  <2>1. CASE job' = job
    BY <1>2, <2>1
  <2>2. CASE HoldsEscalation(job, seen[s], s) /\ job' = CompleteEscalation(job)
    BY <1>0, <1>5, <2>2 DEF HoldsEscalation, CompleteEscalation, ClearExecutor, RowType
  <2>. QED  BY <1>16, <2>1, <2>2 DEF EscalationComplete
<1>17. CASE Reconcile
  <2>1. CASE CanExpireCanceling(job) /\ job' = Expire(job, "canceled", "none")
    BY <1>0, <1>5, <2>1 DEF CanExpireCanceling, Expire, ClearExecutor, RowType
  <2>2. CASE CanExpireRunning(job) /\ job' = Expire(job, "failed", "expired")
    BY <1>0, <1>4, <2>2 DEF CanExpireRunning, Expire, ClearExecutor, RowType
  <2>3. CASE CanExpireQueued(job) /\ job' = Expire(job, "failed", "other")
    BY <1>0, <1>4, <2>3 DEF CanExpireQueued, Expire, ClearExecutor, RowType
  <2>. QED  BY <1>17, <2>1, <2>2, <2>3 DEF Reconcile
<1>. QED
  BY RowMoves, <1>1, <1>3, <1>6, <1>7, <1>8, <1>9, <1>10, <1>12, <1>13, <1>14, <1>15, <1>16, <1>17

LEMMA InitMaps == Init => Lifecycle!Init
  BY DEF Init, FreshRow, Lifecycle!Init, Claimed

\* The runtime keeps the promise of the API: each of its steps is a step of the
\* abstract job or is not seen in it (job_lifecycle.py, job_runtime.py).
THEOREM RuntimeKeepsThePromise == Spec => LifecycleSpec
  BY InitMaps, StepMaps, TypeInvInductive, StopInvInductive, AcceptInvInductive, IdentityInductive,
     PTL DEF Spec, LifecycleSpec, Lifecycle!Spec
==============================================================================
