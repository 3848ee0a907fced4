------------------------- MODULE MCDetSDWAdjustment -------------------------
(***************************************************************************)
(* Step size adaptation on small instances: windows of a few samples in    *)
(* place of a hundred, with a number of slices that is no multiple of it.  *)
(***************************************************************************)
EXTENDS DetSDWAdjustment

(* Windows that straddle two sweeps occur. *)
ASSUME m % AccRatioAdjustmentSamples # 0
=============================================================================
