----------------------------- MODULE MCGpuSearch -----------------------------
(***************************************************************************)
(* Instances of GpuSearch for TLC.  Two salts; a key that matches every    *)
(* target with either salt, a key whose salt 0 matches the first target    *)
(* without being compliant and whose canonical salt 1 matches the last     *)
(* target, and a key that matches but that keygen would not return.        *)
(***************************************************************************)
EXTENDS GpuSearch

MCKeys == {"both", "late", "doomed"}

MCDoomed == {"doomed"}

MCMatches == [k \in MCKeys |->
                [s \in {0, 1} |-> IF k # "late" THEN Targets
                                  ELSE IF s = 0 THEN {1} ELSE {NTargets}]]

MCCompliant == [k \in MCKeys |-> IF k = "late" THEN {1} ELSE {0, 1}]

\* A limit of two batches or none, with every choice of the other options.
MCOptions == [canonicalOnly : BOOLEAN, allowSiblings : BOOLEAN, batches : {0, 2}]

\* The default options, for one batch.
MCCanonical == [canonicalOnly : {TRUE}, allowSiblings : {FALSE}, batches : {1}]
=============================================================================
