---------------------------- MODULE MCDetModelGC ----------------------------
(***************************************************************************)
(* A replica on small instances.  MaxSweeps is the only bound that is not  *)
(* a parameter of the program; m is not a multiple of s, so that the       *)
(* highest block is shorter than the others.                               *)
(***************************************************************************)
EXTENDS DetModelGC

ASSUME ShortBlock == m % s # 0
=============================================================================
