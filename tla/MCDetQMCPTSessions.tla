------------------------- MODULE MCDetQMCPTSessions -------------------------
(***************************************************************************)
(* Several sessions of the parallel driver on small instances.  The only   *)
(* bound that is not a parameter of the program is MaxSessions.            *)
(***************************************************************************)
EXTENDS DetQMCPTSessions
=============================================================================
