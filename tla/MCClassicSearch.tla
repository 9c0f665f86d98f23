--------------------------- MODULE MCClassicSearch ---------------------------
(***************************************************************************)
(* Instances of ClassicSearch for TLC: addresses that match every target,  *)
(* the last one only, or none.                                             *)
(***************************************************************************)
EXTENDS ClassicSearch, TLC

MCOverlap == {Targets, {NTargets}, {}}

\* Workers run the same code on the same state.
WorkerSymmetry == Permutations(Workers)
=============================================================================
