--------------------------- MODULE ReplicaEnsemble ---------------------------
(***************************************************************************)
(* What the parallel driver promises to the evaluation of its output: the  *)
(* ladder of control parameters is simulated by one replica per parameter  *)
(* at all times, replicas change places with neighbours only, and every    *)
(* parameter collects an uninterrupted time series of its own, one value   *)
(* for each sweep in which a measurement is due, whichever replicas the    *)
(* values came from.                                                       *)
(***************************************************************************)
EXTENDS Integers, Sequences

CONSTANTS
  NumProcesses,      \* number of control parameters and of replicas
  Sweeps,            \* number of sweeps in the measurement stage
  MeasureInterval,   \* sweeps between two measurements
  SaveInterval       \* sweeps after which their count starts anew

VARIABLES
  owner,             \* the replica that simulates each parameter
  series             \* the time series of each parameter

Ladder == 0..(NumProcesses - 1)

Init ==
  /\ owner = [c \in Ladder |-> c]
  /\ series = [c \in Ladder |-> <<>>]

(* The replicas at c and c + 1 change places. *)
SwapNeighbours(c) ==
  /\ c + 1 \in Ladder
  /\ owner' = [owner EXCEPT ![c] = owner[c + 1], ![c + 1] = owner[c]]
  /\ UNCHANGED series

(* Sweeps are counted from the last save; every MeasureInterval-th of them *)
(* is followed by a measurement.                                           *)
Due(w) == ((w % SaveInterval) + 1) % MeasureInterval = 0

MeasuredAt(c) ==
  {w \in 0..(Sweeps - 1) :
     \E i \in 1..Len(series[c]) : series[c][i] = {[par |-> c, sweep |-> w]}}

(* Every parameter receives the value measured at it in the next sweep due:*)
(* sweep w, when just the sweeps due before it have been recorded.         *)
Measure(w) ==
  /\ Due(w)
  /\ \A c \in Ladder : MeasuredAt(c) = {v \in 0..(w - 1) : Due(v)}
  /\ series' = [c \in Ladder |-> Append(series[c], {[par |-> c, sweep |-> w]})]
  /\ UNCHANGED owner

Next ==
  \/ \E w \in 0..(Sweeps - 1) : Measure(w)
  \/ \E c \in Ladder : SwapNeighbours(c)

Spec == Init /\ [][Next]_<<owner, series>>
=============================================================================
