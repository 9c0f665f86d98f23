--------------------------- MODULE MCDeviceKernel ---------------------------
(***************************************************************************)
(* An instance of DeviceKernel for TLC: one key per thread and several,    *)
(* so that the last thread and the last block may be partly empty; and     *)
(* integers so narrow that counts, blocks and sums reach their width.      *)
(***************************************************************************)
EXTENDS DeviceKernel, TLC
=============================================================================
