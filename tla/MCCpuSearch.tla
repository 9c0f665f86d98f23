----------------------------- MODULE MCCpuSearch -----------------------------
(***************************************************************************)
(* Instances of CpuSearch for TLC.  Two salts; a key that matches both     *)
(* targets with its canonical salt 0, and a key whose salt 0 matches the   *)
(* first target without being compliant and whose salt 1 is canonical and  *)
(* matches the last target.                                                *)
(***************************************************************************)
EXTENDS CpuSearch, TLC

MCKeys == {"both", "late"}

MCMatches == [both |-> [s \in {0, 1} |-> Targets],
              late |-> [s \in {0, 1} |-> IF s = 0 THEN {1} ELSE {NTargets}]]

MCCompliant == [both |-> {0, 1}, late |-> {1}]

\* Workers run the same code on the same state.
WorkerSymmetry == Permutations(Workers)
=============================================================================
