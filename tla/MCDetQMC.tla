------------------------------ MODULE MCDetQMC ------------------------------
(***************************************************************************)
(* The serial driver on small instances.  MaxSessions is the only bound    *)
(* that is not a parameter of the program.                                 *)
(***************************************************************************)
EXTENDS DetQMC
=============================================================================
