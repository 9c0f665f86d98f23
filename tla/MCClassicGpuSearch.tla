-------------------------- MODULE MCClassicGpuSearch --------------------------
(***************************************************************************)
(* Instances of ClassicGpuSearch for TLC: addresses that match one target  *)
(* or all of them, and, when the device may be wrong, none.                *)
(***************************************************************************)
EXTENDS ClassicGpuSearch

MCOverlap == {{}, {1}, {NTargets}, Targets}

\* A limit of two batches or none, siblings refused or allowed.
MCOptions == [allowSiblings : BOOLEAN, batches : {0, 2}]
=============================================================================
