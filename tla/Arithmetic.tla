------------------------------ MODULE Arithmetic ------------------------------
(***************************************************************************)
(* Integer arithmetic that more than one module needs.                     *)
(***************************************************************************)
EXTENDS Naturals

\* div_ceil
CeilDiv(a, b) == (a + b - 1) \div b
=============================================================================
