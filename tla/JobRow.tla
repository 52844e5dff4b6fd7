------------------------------- MODULE JobRow -------------------------------
(***************************************************************************)
(* The durable row of one job and the conditional updates made on it.      *)
(*                                                                         *)
(* backend/app/services/job_runtime.py and job_lifecycle.py never read,    *)
(* decide and write: every change of a lifecycle column is one UPDATE ...  *)
(* WHERE whose row count says who won.  Each of them is a pair here:       *)
(* CanX(r, ..) is the WHERE clause, X(r, ..) the row its VALUES leave.     *)
(*                                                                         *)
(* Time is a pair of booleans: "aged" says that the clock reconciliation   *)
(* reads in this status (heartbeat_at of an active row, queued_at of a     *)
(* queued one) is past its threshold, "leaseUp" that the escalation lease  *)
(* has run out.  The seven executor columns are written and cleared        *)
(* together, so they are one field: the run whose process they identify.   *)
(***************************************************************************)
EXTENDS Naturals

CONSTANT None   \* SQL NULL

Status == {"queued", "running", "canceling",
           "completed", "failed", "canceled", "deleted"}

Active == {"running", "canceling"}

\* completed_with_errors is "completed" here: no update tells them apart.
Terminal == {"completed", "failed", "canceled", "deleted"}

\* A row as job creation leaves it: queued and not yet assigned a delivery.
FreshRow == [status |-> "queued", task |-> None, token |-> None, attempt |-> 0,
             dispatched |-> FALSE, aged |-> FALSE, cancelAsked |-> FALSE,
             forceDue |-> FALSE, executor |-> None, escToken |-> None,
             leaseUp |-> FALSE, error |-> "none", accepted |-> {}]

\* A handle is any record with task, token and attempt fields.
Owned(r, h) ==
    /\ r.task = h.task
    /\ r.token = h.token
    /\ r.attempt = h.attempt

ClearExecutor(r) ==
    [r EXCEPT !.executor = None, !.escToken = None, !.leaseUp = FALSE]

-----------------------------------------------------------------------------
(* Dispatch *)

CanAssign(r) == r.status = "queued" /\ r.task = None

Assign(r, t) == [r EXCEPT !.task = t]

\* A worker may already have claimed the job when the publisher records success.
CanMarkDispatched(r, t) ==
    /\ r.task = t
    /\ ~r.dispatched
    /\ r.status \in {"queued", "running"}

MarkDispatched(r) == [r EXCEPT !.dispatched = TRUE]

\* Mutant: the publisher fails whatever still carries its task.
CanMarkDispatchFailed_AnyStatus(r, t) == r.task = t /\ ~r.dispatched

CanMarkDispatchFailed(r, t) ==
    /\ r.task = t
    /\ r.status = "queued"
    /\ ~r.dispatched

\* Mutant: the reason of the failure is written as the status.
MarkDispatchFailed_Reason(r) == [r EXCEPT !.status = "dispatch_failed", !.error = "other"]

MarkDispatchFailed(r) == [r EXCEPT !.status = "failed", !.error = "other"]

-----------------------------------------------------------------------------
(* Execution *)

\* Mutant: a redelivered message may take over the execution it started.
CanClaim_Resume(r, t) ==
    /\ r.task = t
    /\ r.status \in {"queued", "running"}
    /\ ~r.cancelAsked

CanClaim(r, t) ==
    /\ r.task = t
    /\ r.status = "queued"
    /\ r.token = None
    /\ ~r.cancelAsked

Claim(r, e) ==
    [r EXCEPT !.status = "running", !.token = e, !.attempt = @ + 1, !.aged = FALSE]

\* Mutant: an escalation under way does not refuse the registration.
CanRegister_Escalated(r, h) == Owned(r, h) /\ r.status \in Active

CanRegister(r, h) ==
    /\ Owned(r, h)
    /\ r.status \in Active
    /\ r.escToken = None

Register(r, h) == [r EXCEPT !.executor = h.token]

CanHeartbeat(r, h) == Owned(r, h) /\ r.status \in Active

Heartbeat(r) == [r EXCEPT !.aged = FALSE]

\* The commit fence of analysis sessions.
CanCommit(r, h) == Owned(r, h) /\ r.status = "running"

\* Mutant: any outcome may end an active job.
CanFinalize_Active(r, h, outcome) == Owned(r, h) /\ r.status \in Active

CanFinalize(r, h, outcome) ==
    /\ Owned(r, h)
    /\ r.status \in IF outcome = "canceled" THEN Active ELSE {"running"}

\* Every outcome but success drops the manifest, an earlier phase's included.
Finalize(r, outcome, error, manifest) ==
    [ClearExecutor(r) EXCEPT
        !.status = outcome,
        !.error = error,
        !.accepted = IF outcome = "completed" THEN manifest ELSE {}]

-----------------------------------------------------------------------------
(* Cancellation and escalation *)

CanCancelQueued(r) == r.status = "queued"

CancelQueued(r) == [r EXCEPT !.status = "canceled", !.cancelAsked = TRUE]

CanCancelRunning(r) == r.status = "running"

CancelRunning(r) ==
    [r EXCEPT !.status = "canceling", !.cancelAsked = TRUE, !.forceDue = FALSE]

\* Mutant: an escalation that was claimed is never claimed again.
CanClaimEscalation_Once(r, seen) ==
    /\ Owned(r, seen)
    /\ r.status = "canceling"
    /\ r.executor = seen.executor
    /\ r.forceDue
    /\ r.escToken = None

\* "seen" is the row as read before the update: the update demands that the
\* identity it is about to stop and the lease it is about to take are unchanged.
CanClaimEscalation(r, seen) ==
    /\ Owned(r, seen)
    /\ r.status = "canceling"
    /\ r.executor = seen.executor
    /\ r.escToken = seen.escToken
    /\ r.forceDue
    /\ r.escToken = None \/ r.leaseUp

ClaimEscalation(r, s) == [r EXCEPT !.escToken = s, !.leaseUp = FALSE]

HoldsEscalation(r, h, s) ==
    /\ Owned(r, h)
    /\ r.status = "canceling"
    /\ r.escToken = s

CompleteEscalation(r) == [ClearExecutor(r) EXCEPT !.status = "canceled"]

RecordEscalationError(r) == [r EXCEPT !.error = "other"]

-----------------------------------------------------------------------------
(* Reconciliation of rows nobody keeps alive *)

CanExpireRunning(r) == r.status = "running" /\ r.aged

\* A recorded writer is left to the supervisor, which must first stop it.
CanExpireCanceling(r) ==
    /\ r.status = "canceling"
    /\ r.aged
    /\ r.executor = None
    /\ r.error = "none"

\* Mutant: only a row some dispatcher has assigned is given up.
CanExpireQueued_Assigned(r) ==
    r.status = "queued" /\ r.aged /\ ~r.dispatched /\ r.task # None

CanExpireQueued(r) == r.status = "queued" /\ r.aged /\ ~r.dispatched

Expire(r, outcome, error) ==
    [ClearExecutor(r) EXCEPT !.status = outcome, !.error = error, !.accepted = {}]

-----------------------------------------------------------------------------
(* Re-analysis and deletion *)

CanRequeue(r) == r.status \in {"completed", "failed"}

\* Mutant: re-analysis counts its attempts from zero again.
Requeue_FromZero(r) ==
    [ClearExecutor(r) EXCEPT
        !.status = "queued", !.task = None, !.token = None, !.dispatched = FALSE,
        !.aged = FALSE, !.cancelAsked = FALSE, !.forceDue = FALSE, !.error = "none",
        !.attempt = 0]

\* A fresh delivery identity; the accepted manifest and the attempt are kept.
Requeue(r) ==
    [ClearExecutor(r) EXCEPT
        !.status = "queued", !.task = None, !.token = None, !.dispatched = FALSE,
        !.aged = FALSE, !.cancelAsked = FALSE, !.forceDue = FALSE, !.error = "none"]

MayDelete(r) == r.status \notin Active

\* Written by primary key, whatever the status has become since it was checked.
Delete(r) == [r EXCEPT !.status = "deleted"]
=============================================================================
