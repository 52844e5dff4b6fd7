------------------------ MODULE MCProcessContainment ------------------------
(***************************************************************************)
(* An executor, a handler it launches, and an analyzer that the handler    *)
(* launches; or a handler alone.                                           *)
(***************************************************************************)
EXTENDS ProcessContainment, TLC

CONSTANTS handler, analyzer

Launches == handler :> Executor @@ analyzer :> handler

LaunchesOne == handler :> Executor
==============================================================================
