-------------------------- MODULE MCPhaseAnalysis --------------------------
(* Instances of PhaseAnalysis for TLC. *)
EXTENDS PhaseAnalysis, TLC

\* Two labels that are spelled alike once sanitised, and the default one.
MCLabel == {"before", "week 1", "week_1"}

MCStem == [l \in MCLabel |-> IF l = "before" THEN << "before" >> ELSE << "week_1" >>]

CaptureSymmetry == Permutations(Capture)
=============================================================================
