----------------------------- MODULE MCDetQMCPT -----------------------------
(***************************************************************************)
(* The driver DetQMCPT on small instances.  The bounds are the constants   *)
(* of the configurations: the counters of run() stop at Thermalization and *)
(* Sweeps by themselves, so no constraint is needed.                       *)
(***************************************************************************)
EXTENDS DetQMCPT

(* StreamsComplete counts the due sweeps in steps of ConfigInterval, which *)
(* they are if no save lets swCounter start anew in between.               *)
ASSUME SaveInterval % ConfigInterval = 0
=============================================================================
