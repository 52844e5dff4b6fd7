-------------------------- MODULE JobRuntime_proofs --------------------------
(***************************************************************************)
(* Theorems about JobRuntime, for any sets of dispatches, runs and         *)
(* supervisors.                                                            *)
(***************************************************************************)
EXTENDS JobRuntime, TLAPS

-----------------------------------------------------------------------------
(* Rows.  Each update of the row, given arguments of its types, is a row.  *)

LEMMA Cleared ==
    ASSUME NEW r \in RowType
    PROVE  ClearExecutor(r) \in RowType
  BY DEF RowType, ClearExecutor

LEMMA DispatchRows ==
    ASSUME NEW r \in RowType, NEW t \in Task
    PROVE  /\ Assign(r, t) \in RowType
           /\ MarkDispatched(r) \in RowType
           /\ MarkDispatchFailed(r) \in RowType
<1>1. Assign(r, t) \in RowType
  BY DEF RowType, Assign
<1>2. MarkDispatched(r) \in RowType
  BY DEF RowType, MarkDispatched
<1>3. MarkDispatchFailed(r) \in RowType
  BY DEF RowType, Status, MarkDispatchFailed
<1>. QED  BY <1>1, <1>2, <1>3

LEMMA RequestRows ==
    ASSUME NEW r \in RowType
    PROVE  /\ CancelQueued(r) \in RowType
           /\ CancelRunning(r) \in RowType
           /\ Requeue(r) \in RowType
           /\ Delete(r) \in RowType
<1>1. CancelQueued(r) \in RowType
  BY DEF RowType, Status, CancelQueued
<1>2. CancelRunning(r) \in RowType
  BY DEF RowType, Status, CancelRunning
<1>3. Requeue(r) \in RowType
  BY Cleared, ZenonT(40) DEF RowType, Status, Requeue
<1>4. Delete(r) \in RowType
  BY DEF RowType, Status, Delete
<1>. QED  BY <1>1, <1>2, <1>3, <1>4

LEMMA ExecutionRows ==
    ASSUME NEW r \in RowType, NEW e \in Run
    PROVE  /\ Claim(r, e) \in RowType
           /\ Register(r, Handle(e)) \in RowType
           /\ Heartbeat(r) \in RowType
<1>1. Claim(r, e) \in RowType
  <2>1. r.attempt + 1 \in Nat
    BY DEF RowType
  <2>. QED  BY <2>1 DEF RowType, Status, Claim
<1>2. Register(r, Handle(e)) \in RowType
  BY DEF RowType, Register, Handle
<1>3. Heartbeat(r) \in RowType
  BY DEF RowType, Heartbeat
<1>. QED  BY <1>1, <1>2, <1>3

LEMMA FinalizedRow ==
    ASSUME NEW r \in RowType, NEW outcome \in {"completed", "failed", "canceled"},
           NEW error \in {"none", "expired", "other"}, NEW m \in SUBSET Run
    PROVE  Finalize(r, outcome, error, m) \in RowType
<1>1. (IF outcome = "completed" THEN m ELSE {}) \in SUBSET Run
  OBVIOUS
<1>2. outcome \in Status
  BY DEF Status
<1>. QED  BY <1>1, <1>2, Cleared, ZenonT(40) DEF RowType, Finalize

LEMMA EscalationRows ==
    ASSUME NEW r \in RowType, NEW s \in Sup
    PROVE  /\ ClaimEscalation(r, s) \in RowType
           /\ CompleteEscalation(r) \in RowType
           /\ RecordEscalationError(r) \in RowType
<1>1. ClaimEscalation(r, s) \in RowType
  BY DEF RowType, ClaimEscalation
<1>2. CompleteEscalation(r) \in RowType
  BY Cleared DEF RowType, Status, CompleteEscalation
<1>3. RecordEscalationError(r) \in RowType
  BY DEF RowType, RecordEscalationError
<1>. QED  BY <1>1, <1>2, <1>3

LEMMA ExpiredRow ==
    ASSUME NEW r \in RowType, NEW outcome \in {"failed", "canceled"},
           NEW error \in {"none", "expired", "other"}
    PROVE  Expire(r, outcome, error) \in RowType
<1>1. outcome \in Status
  BY DEF Status
<1>. QED  BY <1>1, Cleared DEF RowType, Expire

-----------------------------------------------------------------------------
(* Calls.  The ways an execute_job call moves on keep its types.           *)

PcType == [Run -> Live \union {"idle", "ended"}]

CallOK ==
    /\ pc \in PcType
    /\ local \in [Run -> LocalType]
    /\ flag \in [Run -> SUBSET {"cancel", "lost"}]

LEMMA Locals ==
    ASSUME NEW l \in [Run -> LocalType], NEW e \in Run, NEW m \in SUBSET Run,
           NEW w \in {"completed", "failed", "canceled", "superseded"}
    PROVE  [l EXCEPT ![e].want = w, ![e].manifest = m] \in [Run -> LocalType]
<1>1. l[e] \in LocalType
  OBVIOUS
<1>2. [l[e] EXCEPT !.want = w] \in LocalType
  BY <1>1 DEF LocalType
<1>3. [[l[e] EXCEPT !.want = w] EXCEPT !.manifest = m] \in LocalType
  BY <1>2 DEF LocalType
<1>4. [l EXCEPT ![e].want = w, ![e].manifest = m]
        = [l EXCEPT ![e] = [[l[e] EXCEPT !.want = w] EXCEPT !.manifest = m]]
  OBVIOUS
<1>. QED  BY <1>3, <1>4

LEMMA CallSteps ==
    ASSUME TypeOK, NEW e \in Run
    PROVE  /\ \A step \in Live : Goto(e, step) => pc' \in PcType
           /\ \A kind \in {"canceled", "lost", "error"} : Interrupt(e, kind) => CallOK'
           /\ End(e) => CallOK'
           /\ Return(e) => CallOK' /\ broker' \in SUBSET Task
<1>. CallOK
  BY DEF TypeOK, CallOK, PcType
<1>. NoLocal \in LocalType
  BY DEF NoLocal, LocalType
<1>1. \A step \in Live : Goto(e, step) => pc' \in PcType
  BY DEF Goto, CallOK, PcType
<1>2. ASSUME NEW kind \in {"canceled", "lost", "error"}, Interrupt(e, kind)
      PROVE  CallOK'
  <2>1. "interrupted" \in Live
    BY DEF Live
  <2>2. pc' \in PcType
    BY <1>2, <1>1, <2>1 DEF Interrupt
  <2>3. [NoLocal EXCEPT !.why = kind] \in LocalType
    BY DEF LocalType
  <2>. QED  BY <1>2, <2>2, <2>3 DEF CallOK, Interrupt
<1>3. ASSUME End(e) PROVE CallOK'
  BY <1>3 DEF End, CallOK, PcType
<1>4. ASSUME Return(e) PROVE CallOK' /\ broker' \in SUBSET Task
  BY <1>4, <1>3 DEF Return, TypeOK
<1>. QED  BY <1>1, <1>2, <1>3, <1>4

LEMMA SupervisorSteps ==
    ASSUME TypeOK, NEW s \in Sup
    PROVE  /\ \A step \in SupState : SupGoto(s, step) => spc' \in [Sup -> SupState]
           /\ SupReturn(s) => spc' \in [Sup -> SupState] /\ seen' \in [Sup -> SeenType]
<1>1. NoRow \in SeenType
  BY DEF NoRow, SeenType
<1>2. \A step \in SupState : SupGoto(s, step) => spc' \in [Sup -> SupState]
  BY DEF TypeOK, SupGoto
<1>3. "idle" \in SupState
  BY DEF SupState
<1>. QED  BY <1>1, <1>2, <1>3 DEF TypeOK, SupReturn

-----------------------------------------------------------------------------
(* Types.                                                                  *)

\* Types alone are not inductive: a cancellation is recorded under the token of
\* a running row, and an outcome is written that an earlier step has chosen.
OwnerKnown == job.status \in Active => job.token \in Run

OutcomeKnown ==
    \A e \in Run :
        /\ pc[e] \in {"stopping", "finalizing"} => local[e].want \in {"completed", "failed"}
        /\ pc[e] = "resolving" => local[e].want \in {"failed", "canceled"}

ReapKnown == \A s \in Sup : reap[s].step # "idle" => reap[s].run \in Run

TypeInv == TypeOK /\ OwnerKnown /\ OutcomeKnown /\ ReapKnown

LEMMA InitTypes == Init => TypeOK
<1>. SUFFICES ASSUME Init PROVE TypeOK
  OBVIOUS
<1>1. job \in RowType
  BY DEF Init, RowType, FreshRow, Status
<1>2. disp \in [Task -> DispState] /\ broker \in SUBSET Task
  BY DEF Init, DispState
<1>3. CallOK
  BY DEF Init, CallOK, PcType, LocalType, NoLocal
<1>4. spc \in [Sup -> SupState] /\ seen \in [Sup -> SeenType]
  BY DEF Init, SupState, SeenType, NoRow
<1>5. reap \in [Sup -> [step : {"idle", "stop", "clean"}, run : Run \union {None}]]
  BY DEF Init, Idle
<1>. QED  BY <1>1, <1>2, <1>3, <1>4, <1>5 DEF Init, TypeOK, CallOK, PcType

LEMMA TypeStep == TypeInv /\ [Next]_vars => TypeOK'
<1>. SUFFICES ASSUME TypeInv, [Next]_vars PROVE TypeOK'
  OBVIOUS
<1>. TypeOK /\ job \in RowType
  BY DEF TypeInv, TypeOK
<1>1. ASSUME NEW t \in Task, DispatchAssign(t) PROVE TypeOK'
  <2>1. job' \in RowType
    BY <1>1, DispatchRows DEF DispatchAssign, CanAssign
  <2>2. disp' \in [Task -> DispState]
    BY <1>1 DEF TypeOK, DispatchAssign, DispState
  <2>. QED
    BY <1>1, <2>1, <2>2 DEF TypeOK, DispatchAssign, dispatchVars, runVars, supVars
<1>2. ASSUME NEW t \in Task, PublishConfirmed(t) PROVE TypeOK'
  BY <1>2
  DEF TypeOK, PublishConfirmed, dispatchVars, runVars, supVars, DispState
<1>3. ASSUME NEW t \in Task, PublishRaised(t) PROVE TypeOK'
  BY <1>3
  DEF TypeOK, PublishRaised, dispatchVars, runVars, supVars, DispState
<1>4. ASSUME NEW t \in Task, DispatchSettle(t) PROVE TypeOK'
  BY <1>4, DispatchRows
  DEF TypeOK, DispatchSettle, dispatchVars, runVars, supVars, DispState
<1>5. CASE CancelJob
  <2>1. job' \in RowType
    BY <1>5, RequestRows DEF CancelJob
  <2>2. acked' \in SUBSET Run
    BY <1>5 DEF TypeInv, TypeOK, OwnerKnown, Active, CancelJob, CanCancelRunning
  <2>. QED
    BY <1>5, <2>1, <2>2 DEF TypeOK, CancelJob, dispatchVars, runVars, supVars
<1>6. ASSUME NEW t \in Task, Reanalyze(t) PROVE TypeOK'
  BY <1>6, RequestRows
  DEF TypeOK, Reanalyze, dispatchVars, runVars, supVars, DispState
<1>7. CASE DeleteCheck
  BY <1>7
  DEF TypeOK, DeleteCheck, dispatchVars, runVars, supVars
<1>8. CASE DeleteWrite
  BY <1>8, RequestRows
  DEF TypeOK, DeleteWrite, dispatchVars, runVars, supVars
<1>9. ASSUME NEW t \in Task, NEW e \in Run, ClaimJob(t, e) PROVE TypeOK'
  <2>1. job' \in RowType
    BY <1>9, ExecutionRows DEF ClaimJob
  <2>2. pc' \in PcType
    BY <1>9, CallSteps DEF ClaimJob, Live
  <2>3. attemptOf' \in [Run -> Nat]
    BY <1>9 DEF TypeOK, RowType, ClaimJob
  <2>4. taskOf' \in [Run -> Task \union {None}]
    BY <1>9 DEF TypeOK, ClaimJob
  <2>. QED
    BY <1>9, <2>1, <2>2, <2>3, <2>4 DEF TypeOK, ClaimJob, dispatchVars, runVars, supVars, PcType, CallOK
<1>10. ASSUME NEW t \in Task, ClaimLost(t) PROVE TypeOK'
  BY <1>10
  DEF TypeOK, ClaimLost, dispatchVars, runVars, supVars
<1>11. ASSUME NEW e \in Run, PrepareRun(e) PROVE TypeOK'
  BY <1>11, CallSteps, SMTT(30)
  DEF TypeOK, PrepareRun, dispatchVars, runVars, supVars, Live, CallOK, PcType
<1>12. ASSUME NEW e \in Run, RegisterExecutor(e) PROVE TypeOK'
  <2>1. job' \in RowType
    BY <1>12, ExecutionRows DEF RegisterExecutor
  <2>2. CallOK'
    BY <1>12, CallSteps DEF TypeOK, CallOK, PcType, Live, RegisterExecutor
  <2>. QED
    BY <1>12, <2>1, <2>2 DEF TypeOK, RegisterExecutor, dispatchVars, runVars, supVars, PcType, CallOK
<1>13. ASSUME NEW e \in Run, StartControl(e) PROVE TypeOK'
  BY <1>13, ExecutionRows, CallSteps
  DEF TypeOK, StartControl, dispatchVars, runVars, supVars, Live, BeatenRow, Beaten, Checkpoint, CallOK, PcType
<1>14. ASSUME NEW e \in Run, HeartbeatOnce(e) PROVE TypeOK'
  BY <1>14, ExecutionRows
  DEF TypeOK, HeartbeatOnce, dispatchVars, runVars, supVars, BeatenRow, Beaten
<1>15. ASSUME NEW e \in Run, LaunchChild(e) PROVE TypeOK'
  BY <1>15
  DEF TypeOK, LaunchChild, dispatchVars, runVars, supVars
<1>16. ASSUME NEW e \in Run, ChildExits(e) PROVE TypeOK'
  BY <1>16
  DEF TypeOK, ChildExits, dispatchVars, runVars, supVars
<1>17. ASSUME NEW e \in Run, CommitRefused(e) PROVE TypeOK'
  BY <1>17, CallSteps
  DEF TypeOK, CommitRefused, dispatchVars, runVars, supVars, CallOK, PcType, FenceError
<1>18. ASSUME NEW e \in Run, CheckpointRaises(e) PROVE TypeOK'
  BY <1>18, CallSteps
  DEF TypeOK, CheckpointRaises, dispatchVars, runVars, supVars, CallOK, PcType, Checkpoint
<1>19. ASSUME NEW e \in Run, TaskRaises(e) PROVE TypeOK'
  BY <1>19, CallSteps
  DEF TypeOK, TaskRaises, dispatchVars, runVars, supVars, CallOK, PcType
<1>20. ASSUME NEW e \in Run, PipelineReturns(e) PROVE TypeOK'
  <2>1. pc' \in PcType
    BY <1>20, CallSteps DEF Live, PipelineReturns
  <2>2. CandidateManifest(e) \in SUBSET Run
    BY <1>20 DEF RowType, CandidateManifest
  <2>3. PICK w \in {"completed", "failed"} :
         local' = [local EXCEPT ![e].want = w, ![e].manifest = CandidateManifest(e)]
    BY <1>20 DEF PipelineReturns
  <2>4. local' \in [Run -> LocalType]
    BY <1>20, <2>2, <2>3, Locals DEF TypeOK
  <2>. QED
    BY <1>20, <2>1, <2>2, <2>3, <2>4 DEF TypeOK, PipelineReturns, dispatchVars, runVars, supVars, PcType, CallOK
<1>21. ASSUME NEW e \in Run, StopControl(e) PROVE TypeOK'
  BY <1>21, CallSteps
  DEF TypeOK, StopControl, dispatchVars, runVars, supVars, Live, PcType
<1>22. ASSUME NEW e \in Run, FinalizeRun(e) PROVE TypeOK'
  <2>1. local[e].want \in {"completed", "failed"} /\ local[e].manifest \in SUBSET Run
    BY <1>22 DEF TypeInv, OutcomeKnown, TypeOK, LocalType, FinalizeRun
  <2>2. job' \in RowType
    BY <1>22, <2>1, FinalizedRow DEF FinalizeRun
  <2>3. CallOK'
    BY <1>22, CallSteps DEF TypeOK, CallOK, PcType, Live, FinalizeRun
  <2>4. broker' \in SUBSET Task
    BY <1>22, CallSteps DEF TypeOK, FinalizeRun
  <2>. QED
    BY <1>22, <2>1, <2>2, <2>3, <2>4 DEF TypeOK, FinalizeRun, dispatchVars, runVars, supVars, PcType, CallOK
<1>23. ASSUME NEW e \in Run, StopInterrupted(e) PROVE TypeOK'
  BY <1>23, CallSteps
  DEF TypeOK, StopInterrupted, dispatchVars, runVars, supVars, Live, CallOK, PcType
<1>24. ASSUME NEW e \in Run, ResolveRead(e) PROVE TypeOK'
  <2>1. pc' \in PcType
    BY <1>24, CallSteps DEF Live, ResolveRead
  <2>2. WantedOutcome(job, e) \in {"superseded", "canceled", "failed"}
    BY <1>24 DEF WantedOutcome
  <2>3. local' \in [Run -> LocalType]
    BY <1>24, <2>2, Locals DEF TypeOK, ResolveRead
  <2>. QED
    BY <1>24, <2>1, <2>2, <2>3 DEF TypeOK, ResolveRead, dispatchVars, runVars, supVars, PcType, CallOK
<1>25. ASSUME NEW e \in Run, ResolveFinalize(e) PROVE TypeOK'
  <2>1. local[e].want \in {"failed", "canceled"}
    BY <1>25 DEF TypeInv, OutcomeKnown, ResolveFinalize
  <2>2. job' \in RowType
    BY <1>25, <2>1, FinalizedRow DEF ResolveFinalize
  <2>3. pc' \in PcType
    BY <1>25, CallSteps DEF Live, ResolveFinalize
  <2>. QED
    BY <1>25, <2>1, <2>2, <2>3 DEF TypeOK, ResolveFinalize, dispatchVars, runVars, supVars, PcType, CallOK
<1>26. ASSUME NEW e \in Run, ResolveReread(e) PROVE TypeOK'
  BY <1>26, FinalizedRow, CallSteps
  DEF TypeOK, ResolveReread, dispatchVars, runVars, supVars, Live, PcType
<1>27. ASSUME NEW e \in Run, CleanupPrivateRun(e) PROVE TypeOK'
  BY <1>27, CallSteps
  DEF TypeOK, CleanupPrivateRun, dispatchVars, runVars, supVars, CallOK, PcType
<1>28. ASSUME NEW e \in Run, Crash(e) PROVE TypeOK'
  BY <1>28, CallSteps
  DEF TypeOK, Crash, dispatchVars, runVars, supVars, CallOK, PcType
<1>29. ASSUME NEW s \in Sup, EscalationRead(s) PROVE TypeOK'
  BY <1>29, SupervisorSteps
  DEF TypeOK, EscalationRead, dispatchVars, runVars, supVars, SupState, SeenType, RowType
<1>30. ASSUME NEW s \in Sup, EscalationClaim(s) PROVE TypeOK'
  <2>1. job' \in RowType
    BY <1>30, EscalationRows DEF EscalationClaim
  <2>2. spc' \in [Sup -> SupState] /\ seen' \in [Sup -> SeenType]
    BY <1>30, SupervisorSteps DEF TypeOK, SupState, EscalationClaim
  <2>. QED
    BY <1>30, <2>1, <2>2 DEF TypeOK, EscalationClaim, dispatchVars, runVars, supVars
<1>31. ASSUME NEW s \in Sup, OwnsCancel(s) PROVE TypeOK'
  BY <1>31, SupervisorSteps
  DEF TypeOK, OwnsCancel, dispatchVars, runVars, supVars, SupState
<1>32. ASSUME NEW s \in Sup, StopUnregistered(s) PROVE TypeOK'
  BY <1>32, SupervisorSteps
  DEF TypeOK, StopUnregistered, dispatchVars, runVars, supVars, SupState
<1>33. ASSUME NEW s \in Sup, StopExecutor(s) PROVE TypeOK'
  BY <1>33, CallSteps, SupervisorSteps
  DEF TypeOK, StopExecutor, dispatchVars, runVars, supVars, SupState, Killed, SeenType, CallOK, PcType
<1>34. ASSUME NEW s \in Sup, StopFails(s) PROVE TypeOK'
  BY <1>34, CallSteps, SupervisorSteps
  DEF TypeOK, StopFails, dispatchVars, runVars, supVars, SupState, SeenType, CallOK, PcType
<1>35. ASSUME NEW s \in Sup, EscalationError(s) PROVE TypeOK'
  BY <1>35, EscalationRows, SupervisorSteps
  DEF TypeOK, EscalationError, dispatchVars, runVars, supVars
<1>36. ASSUME NEW s \in Sup, EscalationComplete(s) PROVE TypeOK'
  BY <1>36, EscalationRows, SupervisorSteps
  DEF TypeOK, EscalationComplete, dispatchVars, runVars, supVars
<1>37. ASSUME NEW s \in Sup, ReapFind(s) PROVE TypeOK'
  BY <1>37
  DEF TypeOK, ReapFind, dispatchVars, runVars, supVars, RowType
<1>38. ASSUME NEW s \in Sup, ReapStop(s) PROVE TypeOK'
  <2>1. reap[s].run \in Run
    BY <1>38 DEF TypeInv, ReapKnown, ReapStop
  <2>2. CallOK'
    BY <1>38, <2>1, CallSteps DEF ReapStop, Killed
  <2>3. child' \in [Run -> BOOLEAN]
    BY <1>38 DEF TypeOK, ReapStop, Killed
  <2>4. reap' \in [Sup -> [step : {"idle", "stop", "clean"}, run : Run \union {None}]]
    BY <1>38 DEF TypeOK, ReapStop
  <2>. QED
    BY <1>38, <2>1, <2>2, <2>3, <2>4 DEF TypeOK, ReapStop, dispatchVars, runVars, supVars, PcType, CallOK
<1>39. ASSUME NEW s \in Sup, ReapDeferred(s) PROVE TypeOK'
  BY <1>39
  DEF TypeOK, ReapDeferred, dispatchVars, runVars, supVars, Idle
<1>40. ASSUME NEW s \in Sup, ReapClean(s) PROVE TypeOK'
  BY <1>40
  DEF TypeOK, ReapClean, dispatchVars, runVars, supVars, Idle
<1>41. ASSUME NEW s \in Sup, SupervisorDies(s) PROVE TypeOK'
  BY <1>41, SupervisorSteps
  DEF TypeOK, SupervisorDies, dispatchVars, runVars, supVars, Idle
<1>42. CASE Reconcile
  BY <1>42, ExpiredRow
  DEF TypeOK, Reconcile, dispatchVars, runVars, supVars
<1>43. CASE RowAges
  BY <1>43
  DEF TypeOK, RowAges, dispatchVars, runVars, supVars, RowType
<1>44. CASE ForceTimePasses
  BY <1>44
  DEF TypeOK, ForceTimePasses, dispatchVars, runVars, supVars, RowType
<1>45. CASE LeaseRunsOut
  BY <1>45
  DEF TypeOK, LeaseRunsOut, dispatchVars, runVars, supVars, RowType
<1>46. CASE UNCHANGED vars
  BY <1>46 DEF TypeOK, vars, dispatchVars, runVars, supVars
<1>. QED
  BY <1>1, <1>2, <1>3, <1>4, <1>5, <1>6, <1>7, <1>8, <1>9, <1>10, <1>11,
     <1>12, <1>13, <1>14, <1>15, <1>16, <1>17, <1>18, <1>19, <1>20, <1>21,
     <1>22, <1>23, <1>24, <1>25, <1>26, <1>27, <1>28, <1>29, <1>30, <1>31,
     <1>32, <1>33, <1>34, <1>35, <1>36, <1>37, <1>38, <1>39, <1>40, <1>41,
     <1>42, <1>43, <1>44, <1>45, <1>46
  DEF Next, Dispatcher, User, Delivery, Worker, Escalator, Reaper, Clock

-----------------------------------------------------------------------------
(* Identities.                                                             *)

\* What every step does that is no assignment, claim or re-analysis: the row
\* keeps its identity, no run gets one, and no dispatch goes back to its start.
OtherEffect ==
    /\ job'.task = job.task /\ job'.token = job.token /\ job'.attempt = job.attempt
    /\ job'.status \in Active => job.status \in Active
    /\ taskOf' = taskOf /\ attemptOf' = attemptOf
    /\ \A t \in Task : disp'[t] \in {"idle", "called"} => disp[t] \in {"idle", "called"}
    /\ \A t \in broker' : t \in broker \/ disp[t] = "assigned"
    /\ \A e \in Run : pc'[e] = "idle" => pc[e] = "idle"

\* Updates that keep the identity in the row and activate nothing.
SameRow(r, q) ==
    /\ q.task = r.task /\ q.token = r.token /\ q.attempt = r.attempt
    /\ q.status \in Active => r.status \in Active

LEMMA SameRows ==
    ASSUME NEW r \in RowType, NEW h, NEW s, NEW error, NEW m
    PROVE  /\ SameRow(r, r)
           /\ SameRow(r, MarkDispatched(r))
           /\ SameRow(r, MarkDispatchFailed(r))
           /\ SameRow(r, CancelQueued(r))
           /\ r.status = "running" => SameRow(r, CancelRunning(r))
           /\ SameRow(r, Delete(r))
           /\ SameRow(r, Register(r, h))
           /\ SameRow(r, Heartbeat(r))
           /\ \A outcome \in {"completed", "failed", "canceled"} :
                SameRow(r, Finalize(r, outcome, error, m))
           /\ SameRow(r, ClaimEscalation(r, s))
           /\ SameRow(r, RecordEscalationError(r))
           /\ SameRow(r, CompleteEscalation(r))
           /\ \A outcome \in {"failed", "canceled"} : SameRow(r, Expire(r, outcome, error))
           /\ SameRow(r, [r EXCEPT !.aged = TRUE])
           /\ SameRow(r, [r EXCEPT !.forceDue = TRUE])
           /\ SameRow(r, [r EXCEPT !.leaseUp = TRUE])
<1>1. SameRow(r, r)
  BY DEF SameRow, RowType, Active
<1>2. SameRow(r, MarkDispatched(r))
  BY DEF SameRow, RowType, Active, MarkDispatched
<1>3. SameRow(r, MarkDispatchFailed(r))
  BY DEF SameRow, RowType, Active, MarkDispatchFailed
<1>4. SameRow(r, CancelQueued(r))
  BY DEF SameRow, RowType, Active, CancelQueued
<1>5. r.status = "running" => SameRow(r, CancelRunning(r))
  BY DEF SameRow, RowType, Active, CancelRunning
<1>6. SameRow(r, Delete(r))
  BY DEF SameRow, RowType, Active, Delete
<1>7. SameRow(r, Register(r, h))
  BY DEF SameRow, RowType, Active, Register
<1>8. SameRow(r, Heartbeat(r))
  BY DEF SameRow, RowType, Active, Heartbeat
<1>9. ASSUME NEW outcome \in {"completed", "failed", "canceled"}
      PROVE  SameRow(r, Finalize(r, outcome, error, m))
  BY DEF SameRow, RowType, Active, Finalize, ClearExecutor
<1>10. SameRow(r, ClaimEscalation(r, s))
  BY DEF SameRow, RowType, Active, ClaimEscalation
<1>11. SameRow(r, RecordEscalationError(r))
  BY DEF SameRow, RowType, Active, RecordEscalationError
<1>12. SameRow(r, CompleteEscalation(r))
  BY DEF SameRow, RowType, Active, CompleteEscalation, ClearExecutor
<1>13. ASSUME NEW outcome \in {"failed", "canceled"}
      PROVE  SameRow(r, Expire(r, outcome, error))
  BY DEF SameRow, RowType, Active, Expire, ClearExecutor
<1>14. /\ SameRow(r, [r EXCEPT !.aged = TRUE])
      /\ SameRow(r, [r EXCEPT !.forceDue = TRUE])
      /\ SameRow(r, [r EXCEPT !.leaseUp = TRUE])
  BY DEF SameRow, RowType, Active
<1>. QED
  BY <1>1, <1>2, <1>3, <1>4, <1>5, <1>6, <1>7, <1>8, <1>9, <1>10, <1>11,
     <1>12, <1>13, <1>14

LEMMA OtherSteps ==
    ASSUME TypeInv, [Next]_vars
    PROVE  \/ \E t \in Task : DispatchAssign(t)
           \/ \E t \in Task : Reanalyze(t)
           \/ \E t \in Task, e \in Run : ClaimJob(t, e)
           \/ OtherEffect
<1>. SUFFICES ASSUME ~ \E t \in Task : DispatchAssign(t),
                     ~ \E t \in Task : Reanalyze(t),
                     ~ \E t \in Task, e \in Run : ClaimJob(t, e)
              PROVE  OtherEffect
  OBVIOUS
<1>. /\ job \in RowType
     /\ disp \in [Task -> DispState]
     /\ pc \in [Run -> Live \union {"idle", "ended"}]
  BY DEF TypeInv, TypeOK
<1>0. OutcomeKnown
  BY DEF TypeInv
<1>1. ASSUME NEW t \in Task, PublishConfirmed(t) PROVE OtherEffect
  BY <1>1 DEF PublishConfirmed, OtherEffect, SameRow, dispatchVars, runVars,
     supVars
<1>2. ASSUME NEW t \in Task, PublishRaised(t) PROVE OtherEffect
  BY <1>2 DEF PublishRaised, OtherEffect, SameRow, dispatchVars, runVars,
     supVars
<1>3. ASSUME NEW t \in Task, DispatchSettle(t) PROVE OtherEffect
  BY <1>3, SameRows DEF DispatchSettle, OtherEffect, SameRow, dispatchVars,
     runVars, supVars
<1>4. CASE CancelJob
  BY <1>4, SameRows DEF CancelJob, OtherEffect, SameRow, dispatchVars,
     runVars, supVars, CanCancelRunning
<1>5. CASE DeleteCheck
  BY <1>5 DEF DeleteCheck, OtherEffect, SameRow, dispatchVars, runVars,
     supVars
<1>6. CASE DeleteWrite
  BY <1>6, SameRows DEF DeleteWrite, OtherEffect, SameRow, dispatchVars,
     runVars, supVars
<1>7. ASSUME NEW t \in Task, ClaimLost(t) PROVE OtherEffect
  BY <1>7 DEF ClaimLost, OtherEffect, SameRow, dispatchVars, runVars,
     supVars
<1>8. ASSUME NEW e \in Run, PrepareRun(e) PROVE OtherEffect
  BY <1>8 DEF PrepareRun, OtherEffect, SameRow, dispatchVars, runVars,
     supVars, Interrupt, Goto
<1>9. ASSUME NEW e \in Run, RegisterExecutor(e) PROVE OtherEffect
  BY <1>9, SameRows DEF RegisterExecutor, OtherEffect, SameRow,
     dispatchVars, runVars, supVars, Interrupt, Goto
<1>10. ASSUME NEW e \in Run, StartControl(e) PROVE OtherEffect
  BY <1>10, SameRows DEF StartControl, OtherEffect, SameRow, dispatchVars,
     runVars, supVars, BeatenRow, Interrupt, Goto
<1>11. ASSUME NEW e \in Run, HeartbeatOnce(e) PROVE OtherEffect
  BY <1>11, SameRows DEF HeartbeatOnce, OtherEffect, SameRow, dispatchVars,
     runVars, supVars, BeatenRow
<1>12. ASSUME NEW e \in Run, LaunchChild(e) PROVE OtherEffect
  BY <1>12 DEF LaunchChild, OtherEffect, SameRow, dispatchVars, runVars,
     supVars
<1>13. ASSUME NEW e \in Run, ChildExits(e) PROVE OtherEffect
  BY <1>13 DEF ChildExits, OtherEffect, SameRow, dispatchVars, runVars,
     supVars
<1>14. ASSUME NEW e \in Run, CommitRefused(e) PROVE OtherEffect
  BY <1>14 DEF CommitRefused, OtherEffect, SameRow, dispatchVars, runVars,
     supVars, Interrupt, Goto
<1>15. ASSUME NEW e \in Run, CheckpointRaises(e) PROVE OtherEffect
  BY <1>15 DEF CheckpointRaises, OtherEffect, SameRow, dispatchVars,
     runVars, supVars, Interrupt, Goto
<1>16. ASSUME NEW e \in Run, TaskRaises(e) PROVE OtherEffect
  BY <1>16 DEF TaskRaises, OtherEffect, SameRow, dispatchVars, runVars,
     supVars, Interrupt, Goto
<1>17. ASSUME NEW e \in Run, PipelineReturns(e) PROVE OtherEffect
  BY <1>17 DEF PipelineReturns, OtherEffect, SameRow, dispatchVars, runVars,
     supVars, Goto
<1>18. ASSUME NEW e \in Run, StopControl(e) PROVE OtherEffect
  BY <1>18 DEF StopControl, OtherEffect, SameRow, dispatchVars, runVars,
     supVars, Goto
<1>19. ASSUME NEW e \in Run, FinalizeRun(e) PROVE OtherEffect
  BY <1>19, SameRows, <1>0 DEF FinalizeRun, OtherEffect, SameRow,
     dispatchVars, runVars, supVars, Interrupt, Goto, Return, End,
     OutcomeKnown
<1>20. ASSUME NEW e \in Run, StopInterrupted(e) PROVE OtherEffect
  BY <1>20 DEF StopInterrupted, OtherEffect, SameRow, dispatchVars, runVars,
     supVars, Goto, Return, End
<1>21. ASSUME NEW e \in Run, ResolveRead(e) PROVE OtherEffect
  BY <1>21 DEF ResolveRead, OtherEffect, SameRow, dispatchVars, runVars,
     supVars, Goto
<1>22. ASSUME NEW e \in Run, ResolveFinalize(e) PROVE OtherEffect
  BY <1>22, SameRows, <1>0 DEF ResolveFinalize, OtherEffect, SameRow,
     dispatchVars, runVars, supVars, Goto, OutcomeKnown
<1>23. ASSUME NEW e \in Run, ResolveReread(e) PROVE OtherEffect
  BY <1>23, SameRows DEF ResolveReread, OtherEffect, SameRow, dispatchVars,
     runVars, supVars, Goto
<1>24. ASSUME NEW e \in Run, CleanupPrivateRun(e) PROVE OtherEffect
  BY <1>24 DEF CleanupPrivateRun, OtherEffect, SameRow, dispatchVars,
     runVars, supVars, Return, End
<1>25. ASSUME NEW e \in Run, Crash(e) PROVE OtherEffect
  BY <1>25 DEF Crash, OtherEffect, SameRow, dispatchVars, runVars, supVars,
     End
<1>26. ASSUME NEW s \in Sup, EscalationRead(s) PROVE OtherEffect
  BY <1>26 DEF EscalationRead, OtherEffect, SameRow, dispatchVars, runVars,
     supVars
<1>27. ASSUME NEW s \in Sup, EscalationClaim(s) PROVE OtherEffect
  BY <1>27, SameRows DEF EscalationClaim, OtherEffect, SameRow,
     dispatchVars, runVars, supVars
<1>28. ASSUME NEW s \in Sup, OwnsCancel(s) PROVE OtherEffect
  BY <1>28 DEF OwnsCancel, OtherEffect, SameRow, dispatchVars, runVars,
     supVars
<1>29. ASSUME NEW s \in Sup, StopUnregistered(s) PROVE OtherEffect
  BY <1>29 DEF StopUnregistered, OtherEffect, SameRow, dispatchVars,
     runVars, supVars
<1>30. ASSUME NEW s \in Sup, StopExecutor(s) PROVE OtherEffect
  BY <1>30 DEF StopExecutor, OtherEffect, SameRow, dispatchVars, runVars,
     supVars, Killed, End
<1>31. ASSUME NEW s \in Sup, StopFails(s) PROVE OtherEffect
  BY <1>31 DEF StopFails, OtherEffect, SameRow, dispatchVars, runVars,
     supVars, End
<1>32. ASSUME NEW s \in Sup, EscalationError(s) PROVE OtherEffect
  BY <1>32, SameRows DEF EscalationError, OtherEffect, SameRow,
     dispatchVars, runVars, supVars
<1>33. ASSUME NEW s \in Sup, EscalationComplete(s) PROVE OtherEffect
  BY <1>33, SameRows DEF EscalationComplete, OtherEffect, SameRow,
     dispatchVars, runVars, supVars
<1>34. ASSUME NEW s \in Sup, ReapFind(s) PROVE OtherEffect
  BY <1>34 DEF ReapFind, OtherEffect, SameRow, dispatchVars, runVars,
     supVars
<1>35. ASSUME NEW s \in Sup, ReapStop(s) PROVE OtherEffect
  BY <1>35 DEF ReapStop, OtherEffect, SameRow, dispatchVars, runVars,
     supVars, Killed, End
<1>36. ASSUME NEW s \in Sup, ReapDeferred(s) PROVE OtherEffect
  BY <1>36 DEF ReapDeferred, OtherEffect, SameRow, dispatchVars, runVars,
     supVars
<1>37. ASSUME NEW s \in Sup, ReapClean(s) PROVE OtherEffect
  BY <1>37 DEF ReapClean, OtherEffect, SameRow, dispatchVars, runVars,
     supVars
<1>38. ASSUME NEW s \in Sup, SupervisorDies(s) PROVE OtherEffect
  BY <1>38 DEF SupervisorDies, OtherEffect, SameRow, dispatchVars, runVars,
     supVars
<1>39. CASE Reconcile
  BY <1>39, SameRows DEF Reconcile, OtherEffect, SameRow, dispatchVars,
     runVars, supVars
<1>40. CASE RowAges
  BY <1>40, SameRows DEF RowAges, OtherEffect, SameRow, dispatchVars,
     runVars, supVars
<1>41. CASE ForceTimePasses
  BY <1>41, SameRows DEF ForceTimePasses, OtherEffect, SameRow,
     dispatchVars, runVars, supVars
<1>42. CASE LeaseRunsOut
  BY <1>42, SameRows DEF LeaseRunsOut, OtherEffect, SameRow, dispatchVars,
     runVars, supVars
<1>43. CASE UNCHANGED vars
  BY <1>43 DEF vars, dispatchVars, runVars, supVars, OtherEffect
<1>. QED
  BY <1>1, <1>2, <1>3, <1>4, <1>5, <1>6, <1>7, <1>8, <1>9, <1>10, <1>11,
     <1>12, <1>13, <1>14, <1>15, <1>16, <1>17, <1>18, <1>19, <1>20, <1>21,
     <1>22, <1>23, <1>24, <1>25, <1>26, <1>27, <1>28, <1>29, <1>30, <1>31,
     <1>32, <1>33, <1>34, <1>35, <1>36, <1>37, <1>38, <1>39, <1>40, <1>41,
     <1>42, <1>43
  DEF Next, Dispatcher, User, Delivery, Worker, Escalator, Reaper, Clock

-----------------------------------------------------------------------------
(* The strengthening of the type invariant.                                *)

\* Who moves a call, and who moves a reaper.
LEMMA CallMoves ==
    ASSUME [Next]_vars
    PROVE  \/ UNCHANGED <<pc, local>>
           \/ \E t \in Task, e \in Run : ClaimJob(t, e)
           \/ \E e \in Run : PrepareRun(e)
           \/ \E e \in Run : RegisterExecutor(e)
           \/ \E e \in Run : StartControl(e)
           \/ \E e \in Run : CommitRefused(e)
           \/ \E e \in Run : CheckpointRaises(e)
           \/ \E e \in Run : TaskRaises(e)
           \/ \E e \in Run : PipelineReturns(e)
           \/ \E e \in Run : StopControl(e)
           \/ \E e \in Run : FinalizeRun(e)
           \/ \E e \in Run : StopInterrupted(e)
           \/ \E e \in Run : ResolveRead(e)
           \/ \E e \in Run : ResolveFinalize(e)
           \/ \E e \in Run : ResolveReread(e)
           \/ \E e \in Run : CleanupPrivateRun(e)
           \/ \E e \in Run : Crash(e)
           \/ \E s \in Sup : StopExecutor(s)
           \/ \E s \in Sup : StopFails(s)
           \/ \E s \in Sup : ReapStop(s)
  BY DEF Next, Dispatcher, User, Delivery, Worker, Escalator, Reaper, Clock,
     vars, dispatchVars, runVars, supVars, DispatchAssign, PublishConfirmed,
     PublishRaised, DispatchSettle, CancelJob, Reanalyze, DeleteCheck,
     DeleteWrite, ClaimLost, HeartbeatOnce, LaunchChild, ChildExits,
     EscalationRead, EscalationClaim, OwnsCancel, StopUnregistered,
     EscalationError, EscalationComplete, ReapFind, ReapDeferred, ReapClean,
     SupervisorDies, Reconcile, RowAges, ForceTimePasses, LeaseRunsOut

LEMMA ReaperMoves ==
    ASSUME [Next]_vars
    PROVE  \/ UNCHANGED reap
           \/ \E s \in Sup : ReapFind(s)
           \/ \E s \in Sup : ReapStop(s)
           \/ \E s \in Sup : ReapDeferred(s)
           \/ \E s \in Sup : ReapClean(s)
           \/ \E s \in Sup : SupervisorDies(s)
  BY DEF Next, Dispatcher, User, Delivery, Worker, Escalator, Reaper, Clock,
     vars, dispatchVars, runVars, supVars, DispatchAssign, PublishConfirmed,
     PublishRaised, DispatchSettle, CancelJob, Reanalyze, DeleteCheck,
     DeleteWrite, ClaimJob, ClaimLost, PrepareRun, RegisterExecutor,
     StartControl, HeartbeatOnce, LaunchChild, ChildExits, CommitRefused,
     CheckpointRaises, TaskRaises, PipelineReturns, StopControl,
     FinalizeRun, StopInterrupted, ResolveRead, ResolveFinalize,
     ResolveReread, CleanupPrivateRun, Crash, EscalationRead,
     EscalationClaim, OwnsCancel, StopUnregistered, StopExecutor, StopFails,
     EscalationError, EscalationComplete, Reconcile, RowAges,
     ForceTimePasses, LeaseRunsOut

LEMMA OwnerStep == TypeInv /\ [Next]_vars => OwnerKnown'
<1>. SUFFICES ASSUME TypeInv, [Next]_vars PROVE OwnerKnown'
  OBVIOUS
<1>. job \in RowType /\ OwnerKnown
  BY DEF TypeInv, TypeOK
<1>1. ASSUME NEW t \in Task, DispatchAssign(t) PROVE OwnerKnown'
  BY <1>1 DEF DispatchAssign, CanAssign, Assign, OwnerKnown, Active, RowType
<1>2. ASSUME NEW t \in Task, Reanalyze(t) PROVE OwnerKnown'
  <2>1. job'.status = "queued"
    BY <1>2, Cleared DEF Reanalyze, Requeue, RowType
  <2>. QED  BY <2>1 DEF OwnerKnown, Active
<1>3. ASSUME NEW t \in Task, NEW e \in Run, ClaimJob(t, e) PROVE OwnerKnown'
  <2>1. job'.token = e
    BY <1>3 DEF ClaimJob, Claim, RowType
  <2>. QED  BY <2>1 DEF OwnerKnown
<1>4. CASE OtherEffect
  BY <1>4 DEF OtherEffect, OwnerKnown
<1>. QED  BY OtherSteps, <1>1, <1>2, <1>3, <1>4

LEMMA OutcomeStep == TypeInv /\ [Next]_vars => OutcomeKnown'
<1>. SUFFICES ASSUME TypeInv, [Next]_vars PROVE OutcomeKnown'
  OBVIOUS
<1>. /\ OutcomeKnown
     /\ pc \in [Run -> Live \union {"idle", "ended"}]
     /\ local \in [Run -> LocalType]
  BY DEF TypeInv, TypeOK
<1>1. ASSUME NEW t \in Task, NEW e \in Run, ClaimJob(t, e) PROVE OutcomeKnown'
  BY <1>1 DEF ClaimJob, LocalType, OutcomeKnown, Goto
<1>2. ASSUME NEW e \in Run, PrepareRun(e) PROVE OutcomeKnown'
  BY <1>2 DEF PrepareRun, LocalType, OutcomeKnown, Interrupt, Goto
<1>3. ASSUME NEW e \in Run, RegisterExecutor(e) PROVE OutcomeKnown'
  BY <1>3 DEF RegisterExecutor, LocalType, OutcomeKnown, Interrupt, Goto
<1>4. ASSUME NEW e \in Run, StartControl(e) PROVE OutcomeKnown'
  BY <1>4 DEF StartControl, LocalType, OutcomeKnown, Interrupt, Goto
<1>5. ASSUME NEW e \in Run, CommitRefused(e) PROVE OutcomeKnown'
  BY <1>5 DEF CommitRefused, LocalType, OutcomeKnown, Interrupt, Goto
<1>6. ASSUME NEW e \in Run, CheckpointRaises(e) PROVE OutcomeKnown'
  BY <1>6 DEF CheckpointRaises, LocalType, OutcomeKnown, Interrupt, Goto
<1>7. ASSUME NEW e \in Run, TaskRaises(e) PROVE OutcomeKnown'
  BY <1>7 DEF TaskRaises, LocalType, OutcomeKnown, Interrupt, Goto
<1>8. ASSUME NEW e \in Run, PipelineReturns(e) PROVE OutcomeKnown'
  BY <1>8 DEF PipelineReturns, LocalType, OutcomeKnown, Goto
<1>9. ASSUME NEW e \in Run, StopControl(e) PROVE OutcomeKnown'
  BY <1>9 DEF StopControl, LocalType, OutcomeKnown, Goto
<1>10. ASSUME NEW e \in Run, FinalizeRun(e) PROVE OutcomeKnown'
  BY <1>10 DEF FinalizeRun, LocalType, OutcomeKnown, Interrupt, Goto,
     Return, End
<1>11. ASSUME NEW e \in Run, StopInterrupted(e) PROVE OutcomeKnown'
  BY <1>11 DEF StopInterrupted, LocalType, OutcomeKnown, Goto, Return, End
<1>12. ASSUME NEW e \in Run, ResolveRead(e) PROVE OutcomeKnown'
  BY <1>12 DEF ResolveRead, LocalType, OutcomeKnown, Goto, WantedOutcome
<1>13. ASSUME NEW e \in Run, ResolveFinalize(e) PROVE OutcomeKnown'
  BY <1>13 DEF ResolveFinalize, LocalType, OutcomeKnown, Goto
<1>14. ASSUME NEW e \in Run, ResolveReread(e) PROVE OutcomeKnown'
  BY <1>14 DEF ResolveReread, LocalType, OutcomeKnown, Goto
<1>15. ASSUME NEW e \in Run, CleanupPrivateRun(e) PROVE OutcomeKnown'
  BY <1>15 DEF CleanupPrivateRun, LocalType, OutcomeKnown, Return, End
<1>16. ASSUME NEW e \in Run, Crash(e) PROVE OutcomeKnown'
  BY <1>16 DEF Crash, LocalType, OutcomeKnown, End
<1>17. ASSUME NEW s \in Sup, StopExecutor(s) PROVE OutcomeKnown'
  BY <1>17 DEF StopExecutor, LocalType, OutcomeKnown, Killed, End
<1>18. ASSUME NEW s \in Sup, StopFails(s) PROVE OutcomeKnown'
  BY <1>18 DEF StopFails, LocalType, OutcomeKnown, End
<1>19. ASSUME NEW s \in Sup, ReapStop(s) PROVE OutcomeKnown'
  BY <1>19 DEF ReapStop, LocalType, OutcomeKnown, Killed, End
<1>20. CASE UNCHANGED <<pc, local>>
  BY <1>20 DEF OutcomeKnown
<1>. QED
  BY CallMoves, <1>1, <1>2, <1>3, <1>4, <1>5, <1>6, <1>7, <1>8, <1>9, <1>10,
     <1>11, <1>12, <1>13, <1>14, <1>15, <1>16, <1>17, <1>18, <1>19, <1>20

LEMMA ReapStep == TypeInv /\ [Next]_vars => ReapKnown'
<1>. SUFFICES ASSUME TypeInv, [Next]_vars PROVE ReapKnown'
  OBVIOUS
<1>. /\ ReapKnown
     /\ job \in RowType
     /\ reap \in [Sup -> [step : {"idle", "stop", "clean"}, run : Run \union {None}]]
  BY DEF TypeInv, TypeOK
<1>1. ASSUME NEW s \in Sup, ReapFind(s) PROVE ReapKnown'
  BY <1>1 DEF ReapFind, ReapKnown, Idle, RowType
<1>2. ASSUME NEW s \in Sup, ReapStop(s) PROVE ReapKnown'
  BY <1>2 DEF ReapStop, ReapKnown, Idle, RowType
<1>3. ASSUME NEW s \in Sup, ReapDeferred(s) PROVE ReapKnown'
  BY <1>3 DEF ReapDeferred, ReapKnown, Idle, RowType
<1>4. ASSUME NEW s \in Sup, ReapClean(s) PROVE ReapKnown'
  BY <1>4 DEF ReapClean, ReapKnown, Idle, RowType
<1>5. ASSUME NEW s \in Sup, SupervisorDies(s) PROVE ReapKnown'
  BY <1>5 DEF SupervisorDies, ReapKnown, Idle, RowType
<1>6. CASE UNCHANGED reap
  BY <1>6 DEF ReapKnown
<1>. QED
  BY ReaperMoves, <1>1, <1>2, <1>3, <1>4, <1>5, <1>6

LEMMA TypeInvInductive == (Init => TypeInv) /\ (TypeInv /\ [Next]_vars => TypeInv')
<1>1. Init => TypeInv
  <2>1. Init => OwnerKnown /\ OutcomeKnown /\ ReapKnown
    BY DEF Init, FreshRow, Active, OwnerKnown, OutcomeKnown, ReapKnown, Idle
  <2>. QED  BY <2>1, InitTypes DEF TypeInv
<1>2. TypeInv /\ [Next]_vars => TypeInv'
  BY TypeStep, OwnerStep, OutcomeStep, ReapStep DEF TypeInv
<1>. QED  BY <1>1, <1>2

\* The columns, the calls and the supervisors only ever hold values of their
\* types, whatever the interleaving (job_runtime.py, worker.py).
THEOREM TypeCorrect == Spec => []TypeOK
<1>1. TypeInv => TypeOK
  BY DEF TypeInv
<1>. QED  BY <1>1, TypeInvInductive, PTL DEF Spec

-----------------------------------------------------------------------------
(* Identities are used once.                                               *)
(* A dispatch identity is spent from its assignment on, and so never comes *)
(* back; a claim needs a row that holds the identity and no token, and no  *)
(* earlier claim of that identity can have left such a row.                *)

Begun(t) == disp[t] \notin {"idle", "called"}

BegunOnce ==
    /\ \A t \in broker : Begun(t)
    /\ job.task # None => Begun(job.task)
    /\ \A e \in Run : Claimed(e) => taskOf[e] \in Task /\ Begun(taskOf[e])

ClaimSpent == \A e \in Run : Claimed(e) /\ taskOf[e] = job.task => job.token # None

AttemptBound == \A e \in Run : attemptOf[e] <= job.attempt

IdleUnclaimed == \A e \in Run : pc[e] = "idle" => ~Claimed(e)

IdentityInv ==
    /\ BegunOnce /\ ClaimSpent /\ AttemptBound /\ IdleUnclaimed
    /\ OneExecutionPerTask /\ AttemptsDistinct

LEMMA IdentityOther ==
    ASSUME TypeInv, IdentityInv, OtherEffect, TypeOK' PROVE IdentityInv'
<1>. job \in RowType /\ broker' \in SUBSET Task /\ taskOf \in [Run -> Task \union {None}]
  BY DEF TypeInv, TypeOK
<1>1. \A t \in Task : Begun(t) => Begun(t)'
  BY DEF OtherEffect, Begun
<1>2. \A e \in Run : Claimed(e)' <=> Claimed(e)
  BY DEF OtherEffect, Claimed
<1>3. BegunOnce'
  <2>1. \A t \in broker' : Begun(t)'
    BY <1>1 DEF IdentityInv, BegunOnce, OtherEffect, Begun
  <2>2. job'.task # None => Begun(job.task)'
    BY <1>1 DEF IdentityInv, BegunOnce, OtherEffect, RowType
  <2>3. \A e \in Run : Claimed(e)' => taskOf'[e] \in Task /\ Begun(taskOf[e])'
    BY <1>1, <1>2 DEF IdentityInv, BegunOnce, OtherEffect
  <2>. QED  BY <2>1, <2>2, <2>3 DEF BegunOnce, OtherEffect
<1>4. ClaimSpent'
  BY <1>2 DEF IdentityInv, ClaimSpent, OtherEffect
<1>5. AttemptBound'
  BY DEF IdentityInv, AttemptBound, OtherEffect
<1>6. IdleUnclaimed'
  BY <1>2 DEF IdentityInv, IdleUnclaimed, OtherEffect
<1>7. OneExecutionPerTask' /\ AttemptsDistinct'
  BY <1>2 DEF IdentityInv, OneExecutionPerTask, AttemptsDistinct, OtherEffect
<1>. QED  BY <1>3, <1>4, <1>5, <1>6, <1>7 DEF IdentityInv

LEMMA IdentityAssign ==
    ASSUME TypeInv, IdentityInv, NEW t \in Task, DispatchAssign(t) PROVE IdentityInv'
<1>. job \in RowType /\ disp \in [Task -> DispState]
  BY DEF TypeInv, TypeOK
<1>1. /\ job'.token = job.token /\ job'.attempt = job.attempt
      /\ job'.task = job.task \/ job'.task = t
      /\ UNCHANGED <<broker, pc, taskOf, attemptOf>>
  BY DEF DispatchAssign, CanAssign, Assign, RowType, runVars
<1>2. /\ Begun(t)' /\ ~Begun(t)
      /\ \A u \in Task : Begun(u) => Begun(u)'
  BY DEF DispatchAssign, Begun
<1>3. \A e \in Run : Claimed(e)' <=> Claimed(e)
  BY <1>1 DEF Claimed
<1>4. BegunOnce'
  BY <1>1, <1>2, <1>3 DEF IdentityInv, BegunOnce, TypeInv, TypeOK, RowType
<1>5. ClaimSpent'
  BY <1>1, <1>2, <1>3 DEF IdentityInv, BegunOnce, ClaimSpent
<1>6. AttemptBound' /\ IdleUnclaimed' /\ OneExecutionPerTask' /\ AttemptsDistinct'
  BY <1>1, <1>3 DEF IdentityInv, AttemptBound, IdleUnclaimed, OneExecutionPerTask,
     AttemptsDistinct
<1>. QED  BY <1>4, <1>5, <1>6 DEF IdentityInv

LEMMA IdentityReanalyze ==
    ASSUME TypeInv, IdentityInv, NEW t \in Task, Reanalyze(t) PROVE IdentityInv'
<1>. job \in RowType /\ disp \in [Task -> DispState]
  BY DEF TypeInv, TypeOK
<1>1. job'.task = None /\ job'.attempt = job.attempt
  BY Cleared DEF Reanalyze, Requeue, ClearExecutor, RowType
<1>2. UNCHANGED <<broker, pc, taskOf, attemptOf>>
  BY DEF Reanalyze, runVars
<1>3. \A u \in Task : Begun(u) => Begun(u)'
  BY DEF Reanalyze, Begun
<1>4. \A e \in Run : Claimed(e)' <=> Claimed(e)
  BY <1>2 DEF Claimed
<1>5. BegunOnce'
  BY <1>1, <1>2, <1>3, <1>4 DEF IdentityInv, BegunOnce, TypeInv, TypeOK
<1>6. ClaimSpent'
  BY <1>1, <1>2, <1>4, ConstantsOK DEF IdentityInv, BegunOnce, ClaimSpent
<1>7. AttemptBound' /\ IdleUnclaimed' /\ OneExecutionPerTask' /\ AttemptsDistinct'
  BY <1>1, <1>2, <1>4 DEF IdentityInv, AttemptBound, IdleUnclaimed, OneExecutionPerTask,
     AttemptsDistinct
<1>. QED  BY <1>5, <1>6, <1>7 DEF IdentityInv

\* The one step that uses an identity up.
LEMMA IdentityClaim ==
    ASSUME TypeInv, IdentityInv, NEW t \in Task, NEW e \in Run, ClaimJob(t, e)
    PROVE  IdentityInv'
<1>. /\ job \in RowType
     /\ pc \in [Run -> Live \union {"idle", "ended"}]
     /\ taskOf \in [Run -> Task \union {None}]
     /\ attemptOf \in [Run -> Nat]
  BY DEF TypeInv, TypeOK
<1>1. /\ job.task = t /\ job.token = None /\ pc[e] = "idle" /\ t \in broker
      /\ job'.task = t /\ job'.token = e /\ job'.attempt = job.attempt + 1
  BY DEF ClaimJob, CanClaim, Claim, RowType
<1>2. /\ taskOf' = [taskOf EXCEPT ![e] = t]
      /\ attemptOf' = [attemptOf EXCEPT ![e] = job.attempt + 1]
      /\ pc' = [pc EXCEPT ![e] = "claimed"]
      /\ UNCHANGED <<disp, broker>>
  BY DEF ClaimJob, Goto, dispatchVars
<1>3. job.attempt \in Nat /\ \A f \in Run : attemptOf[f] \in Nat
  BY DEF RowType
<1>4. \A f \in Run : f # e => taskOf'[f] = taskOf[f] /\ attemptOf'[f] = attemptOf[f]
  BY <1>2
<1>5. taskOf'[e] = t /\ attemptOf'[e] = job.attempt + 1
  BY <1>2
<1>6. \A f \in Run : f # e => (Claimed(f)' <=> Claimed(f))
  BY <1>4 DEF Claimed
<1>7. \A f \in Run : f # e /\ Claimed(f) => taskOf[f] # t
  BY <1>1 DEF IdentityInv, ClaimSpent
<1>8. BegunOnce'
  BY <1>1, <1>2, <1>4, <1>5, <1>6 DEF IdentityInv, BegunOnce, Begun
<1>9. ClaimSpent'
  BY <1>1, ConstantsOK DEF ClaimSpent
<1>10. AttemptBound'
  BY <1>1, <1>3, <1>4, <1>5 DEF IdentityInv, AttemptBound
<1>11. IdleUnclaimed'
  BY <1>2, <1>6 DEF IdentityInv, IdleUnclaimed
<1>12. OneExecutionPerTask'
  BY <1>4, <1>5, <1>6, <1>7 DEF IdentityInv, OneExecutionPerTask
<1>13. AttemptsDistinct'
  <2>1. \A f \in Run : f # e => attemptOf'[f] # attemptOf'[e]
    BY <1>3, <1>4, <1>5 DEF IdentityInv, AttemptBound
  <2>. QED  BY <2>1, <1>4, <1>6 DEF IdentityInv, AttemptsDistinct
<1>. QED  BY <1>8, <1>9, <1>10, <1>11, <1>12, <1>13 DEF IdentityInv

LEMMA IdentityInductive ==
    (Init => IdentityInv) /\ (TypeInv /\ IdentityInv /\ [Next]_vars => IdentityInv')
<1>1. Init => IdentityInv
  BY ConstantsOK DEF Init, FreshRow, IdentityInv, BegunOnce, ClaimSpent, AttemptBound,
     IdleUnclaimed, OneExecutionPerTask, AttemptsDistinct, Claimed
<1>2. TypeInv /\ IdentityInv /\ [Next]_vars => IdentityInv'
  BY OtherSteps, TypeStep, IdentityOther, IdentityAssign, IdentityReanalyze, IdentityClaim
<1>. QED  BY <1>1, <1>2

\* No two runs ever execute one dispatch: neither duplicates nor redelivery nor
\* an ambiguous publication make a message count twice (claim_job).
THEOREM ExecutedOnce == Spec => []OneExecutionPerTask
<1>1. IdentityInv => OneExecutionPerTask
  BY DEF IdentityInv
<1>. QED  BY <1>1, TypeInvInductive, IdentityInductive, PTL DEF Spec

\* No two runs ever hold the same attempt, so that the fencing tuple of a late
\* worker never fits a later execution (_owned, reanalyze_job).
THEOREM AttemptsUnique == Spec => []AttemptsDistinct
<1>1. IdentityInv => AttemptsDistinct
  BY DEF IdentityInv
<1>. QED  BY <1>1, TypeInvInductive, IdentityInductive, PTL DEF Spec

=============================================================================
