---------------------------- MODULE MCJobRuntime ----------------------------
(* Instances of JobRuntime for TLC. *)
EXTENDS JobRuntime, TLC

CONSTANTS t1, t2, whole, after

MCPhaseOf == t1 :> whole @@ t2 :> after

MCPhaseOfOne == t1 :> whole

RunSymmetry == Permutations(Run)
=============================================================================
