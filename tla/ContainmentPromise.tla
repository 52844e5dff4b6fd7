------------------------- MODULE ContainmentPromise -------------------------
(***************************************************************************)
(* What the executor and its supervisor promise about the processes of one *)
(* execution, seen as sessions.                                            *)
(*                                                                         *)
(* A session comes to work once and is over once.  The executor, while it  *)
(* lives, may give the verdict that the handlers' sessions are reaped, and *)
(* a supervisor that all of them are stopped; neither is given while such  *)
(* a session works, and no session comes to work after one.                *)
(* ProcessContainment implements this without ever seeing a session: from  *)
(* receipts, a list of children and scans of /proc.                        *)
(***************************************************************************)
CONSTANTS Executor, Handler

Session == {Executor} \cup Handler

VARIABLES life,     \* of each session: "new", "live" or "over"
          reaped,   \* the verdict of reap_run_processes
          stopped   \* the verdict of stop_executor

vars == <<life, reaped, stopped>>

Init ==
    /\ life = [s \in Session |-> IF s = Executor THEN "live" ELSE "new"]
    /\ reaped = FALSE
    /\ stopped = FALSE

Begins(h) ==
    /\ life[h] = "new"
    /\ ~reaped /\ ~stopped
    /\ life' = [life EXCEPT ![h] = "live"]
    /\ UNCHANGED <<reaped, stopped>>

(* One signal may end several. *)
Ends(S) ==
    /\ life' = [s \in Session |-> IF s \in S THEN "over" ELSE life[s]]
    /\ UNCHANGED <<reaped, stopped>>

Reap ==
    /\ life[Executor] = "live"
    /\ \A h \in Handler : life[h] # "live"
    /\ reaped' = TRUE
    /\ UNCHANGED <<life, stopped>>

Stop ==
    /\ \A s \in Session : life[s] # "live"
    /\ stopped' = TRUE
    /\ UNCHANGED <<life, reaped>>

Next ==
    \/ \E S \in SUBSET {s \in Session : life[s] = "live"} : Ends(S)
    \/ \E h \in Handler : Begins(h)
    \/ Reap \/ Stop

Spec == Init /\ [][Next]_vars
==============================================================================
