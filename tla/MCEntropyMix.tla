---------------------------- MODULE MCEntropyMix ----------------------------
(***************************************************************************)
(* Instances of EntropyMix for TLC: contributions of two bytes and replies *)
(* of up to three, so that a reply may be short, exact or too long.        *)
(***************************************************************************)
EXTENDS EntropyMix, TLC
=============================================================================
