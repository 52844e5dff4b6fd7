---------------------------- MODULE JobLifecycle ----------------------------
(***************************************************************************)
(* What the API promises of one job, without the machinery that keeps the  *)
(* promise: the statuses a reader sees, the run that owns the job while it *)
(* is executed, and the runs whose results are accepted.  A run owns the   *)
(* job once and never again; only the owner of a running job is accepted;  *)
(* a job that has ended stays as it ended until it is re-analysed or       *)
(* deleted; a cancellation, once shown, ends in "canceled".                *)
(***************************************************************************)
CONSTANTS Run, None

VARIABLES status,   \* the status column
          owner,    \* the run whose token the row holds
          used,     \* runs that have owned the job
          accepted  \* runs whose results readers resolve

vars == <<status, owner, used, accepted>>

Init ==
    /\ status = "queued"
    /\ owner = None
    /\ used = {}
    /\ accepted = {}

Start(e) ==
    /\ status = "queued"
    /\ e \notin used
    /\ status' = "running"
    /\ owner' = e
    /\ used' = used \union {e}
    /\ UNCHANGED accepted

\* The owner's results join accepted ones, or replace some of them.
Accept ==
    /\ status = "running"
    /\ status' = "completed"
    /\ accepted' \in SUBSET (accepted \union {owner})
    /\ owner \in accepted'
    /\ UNCHANGED <<owner, used>>

Fail ==
    /\ status \in {"queued", "running"}
    /\ status' = "failed"
    /\ accepted' \in {accepted, {}}
    /\ UNCHANGED <<owner, used>>

Cancel ==
    /\ \/ status = "queued" /\ status' = "canceled"
       \/ status = "running" /\ status' = "canceling"
    /\ UNCHANGED <<owner, used, accepted>>

CancelEnds ==
    /\ status = "canceling"
    /\ status' = "canceled"
    /\ accepted' \in {accepted, {}}
    /\ UNCHANGED <<owner, used>>

Requeue ==
    /\ status \in {"completed", "failed"}
    /\ status' = "queued"
    /\ owner' = None
    /\ UNCHANGED <<used, accepted>>

\* From any status: the check that precedes the deletion may be out of date.
Delete ==
    /\ status' = "deleted"
    /\ UNCHANGED <<owner, used, accepted>>

Next ==
    \/ \E e \in Run : Start(e)
    \/ Accept \/ Fail \/ Cancel \/ CancelEnds \/ Requeue \/ Delete

Spec == Init /\ [][Next]_vars
=============================================================================
