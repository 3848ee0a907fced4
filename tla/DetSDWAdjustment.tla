-------------------------- MODULE DetSDWAdjustment --------------------------
(***************************************************************************)
(* How a replica of the SDW model adapts its Monte Carlo step sizes while  *)
(* it thermalizes (DetSDW::updateInSliceThermalization in src/src/         *)
(* detsdwopdim.cpp, AdjustmentData in src/src/detsdwopdim.h, RunningAverage*)
(* in src/src/RunningAverage.h).  Every slice of every sweep gives one     *)
(* acceptance ratio; after AccRatioAdjustmentSamples of them the average   *)
(* is compared with the target and a step size is changed.                 *)
(*                                                                         *)
(* An acceptance ratio is 0 or 1 and the target is one half, so that an    *)
(* average is below, at or above it.  angleDelta and scaleDelta are exact: *)
(* they are integers in units of 1/Unit, where Unit is divided by two as   *)
(* often as step sizes are changed.  phiDelta is the number of times it    *)
(* has grown and shrunk.                                                   *)
(***************************************************************************)
EXTENDS Integers, Sequences, FiniteSets

CONSTANTS
  m,                          \* number of imaginary time slices
  AccRatioAdjustmentSamples,  \* samples an average is taken over
  adaptScaleVariance,         \* pars.adaptScaleVariance
  MaxSweeps,                  \* bound on performedSweeps
  MaxHalvings                 \* bound on the changes of one step size

Methods == {"BOX", "ROTATE_THEN_SCALE", "ROTATE_AND_SCALE"}

ASSUME ParametersAssumption ==
  /\ m \in Nat \ {0}
  /\ AccRatioAdjustmentSamples \in Nat \ {0}
  /\ adaptScaleVariance \in BOOLEAN
  /\ MaxSweeps \in Nat
  /\ MaxHalvings \in Nat /\ MaxHalvings * AccRatioAdjustmentSamples >= MaxSweeps * m

(* Arithmetic that the proofs cite: a power of two is twice the one before.*)
ASSUME PowersOfTwo ==
  \A k \in 0..MaxHalvings : 2^k \in Nat \ {0} /\ 2^(k + 1) = 2 * 2^k

VARIABLES
  spinProposalMethod,  \* pars.spinProposalMethod
  performedSweeps,
  timeslice,           \* slices updated in the current sweep
  phiDelta,            \* step size of box moves: times it has grown and shrunk
  angleDelta,          \* step size of rotations, with its bracket
  scaleDelta,          \* step size of scalings, with its bracket
  accRatioLocal_RA,    \* the running average of each move
  tooLow,              \* history: step sizes judged to give too small ratios
  tooHigh              \* history: step sizes judged to give too large ratios

position == <<performedSweeps, timeslice>>
ad       == <<phiDelta, angleDelta, scaleDelta, accRatioLocal_RA>>
history  == <<tooLow, tooHigh>>
vars     == <<spinProposalMethod, position, ad, history>>

Moves == {"box", "rotate", "scale"}

Unit == 10 * 2^MaxHalvings
MinAngleDelta == -Unit
MaxAngleDelta == Unit
MinScaleDelta == 0
MaxScaleDelta == Unit

InitialAngleDelta == [value |-> 0, curmin |-> MinAngleDelta, curmax |-> MaxAngleDelta]
InitialScaleDelta == [value |-> Unit \div 10, curmin |-> MinScaleDelta, curmax |-> MaxScaleDelta]

Init ==
  /\ spinProposalMethod \in Methods
  /\ performedSweeps = 0 /\ timeslice = 0
  /\ phiDelta = [grown |-> 0, shrunk |-> 0]
  /\ angleDelta = InitialAngleDelta /\ scaleDelta = InitialScaleDelta
  /\ accRatioLocal_RA =
       [move \in Moves |-> [samplesAdded |-> 0, values |-> <<>>, sum |-> 0]]
  /\ tooLow = [move \in Moves |-> {}] /\ tooHigh = [move \in Moves |-> {}]

-----------------------------------------------------------------------------
(* updateInSlice: the moves a sweep proposes, and the step sizes they use. *)

ProposedMoves ==
  CASE spinProposalMethod = "BOX" -> {"box"}
    [] spinProposalMethod = "ROTATE_AND_SCALE" -> {"rotate", "scale"}
    [] spinProposalMethod = "ROTATE_THEN_SCALE" ->
         IF performedSweeps % 2 = 0 THEN {"rotate"} ELSE {"scale"}

StepSize(move) ==
  CASE move = "box"    -> phiDelta
    [] move = "rotate" -> angleDelta.value
    [] move = "scale"  -> scaleDelta.value

(* A sample remembers the step sizes of the moves it was taken from. *)
Sample(ratio) == [ratio |-> ratio, steps |-> [move \in ProposedMoves |-> StepSize(move)]]

-----------------------------------------------------------------------------
(* RunningAverage: the sum, here of whole numbers and not yet divided by   *)
(* the number of samples, is kept along with the window.                   *)

(* Mistake: the oldest value is taken out of the window only. *)
AddValueKept(ra, v) ==
  [samplesAdded |-> ra.samplesAdded + 1,
   values |-> IF ra.samplesAdded < AccRatioAdjustmentSamples
                THEN Append(ra.values, v) ELSE Append(Tail(ra.values), v),
   sum |-> ra.sum + v.ratio]
AddValue(ra, v) ==
  LET full == ra.samplesAdded >= AccRatioAdjustmentSamples
  IN  [samplesAdded |-> ra.samplesAdded + 1,
       values |-> Append(IF full THEN Tail(ra.values) ELSE ra.values, v),
       sum |-> ra.sum + v.ratio - (IF full THEN Head(ra.values).ratio ELSE 0)]

Below(ra) == 2 * ra.sum < AccRatioAdjustmentSamples
Above(ra) == 2 * ra.sum > AccRatioAdjustmentSamples

-----------------------------------------------------------------------------
(* updateInSliceThermalization *)

(* The move whose step size is adapted.  Rotations and scalings that are   *)
(* proposed together take turns.  (Mistake: turns of one sweep.)           *)
AdaptingWhatEverySweep ==
  IF spinProposalMethod = "BOX" THEN "box"
  ELSE IF performedSweeps % 2 = 0 THEN "rotate" ELSE "scale"
AdaptingWhat ==
  CASE spinProposalMethod = "BOX" -> "box"
    [] spinProposalMethod = "ROTATE_THEN_SCALE" ->
         IF performedSweeps % 2 = 0 THEN "rotate" ELSE "scale"
    [] spinProposalMethod = "ROTATE_AND_SCALE" ->
         IF performedSweeps % (2 * AccRatioAdjustmentSamples) < AccRatioAdjustmentSamples
           THEN "rotate" ELSE "scale"

(* A step size moves halfway towards the end of its bracket on one side,   *)
(* and where it was becomes the end on the other side.                     *)
(* (Mistakes: the end on the other side stays; half of the end is added.)  *)
RaisedOnly(delta) == [delta EXCEPT !.value = @ + (delta.curmax - @) \div 2]
RaisedByHalfTheEnd(delta) ==
  [delta EXCEPT !.curmin = delta.value, !.value = @ + delta.curmax \div 2]
Raised(delta) ==
  [delta EXCEPT !.curmin = delta.value, !.value = @ + (delta.curmax - @) \div 2]
Lowered(delta) ==
  [delta EXCEPT !.curmax = delta.value, !.value = @ - (@ - delta.curmin) \div 2]

AdaptedPhi(ra) ==
  CASE Below(ra) -> [phiDelta EXCEPT !.shrunk = @ + 1]
    [] Above(ra) -> [phiDelta EXCEPT !.grown = @ + 1]
    [] OTHER -> phiDelta

(* angleDelta is the smallest cosine of the angle: raising it raises the   *)
(* acceptance ratio.                                                       *)
AdaptedAngle(ra) ==
  CASE Below(ra) /\ angleDelta.value < MaxAngleDelta -> Raised(angleDelta)
    [] Above(ra) /\ angleDelta.value > MinAngleDelta -> Lowered(angleDelta)
    [] OTHER -> angleDelta

(* Both branches of the code ask for a ratio above the target, and the     *)
(* second is left for a scaleDelta that cannot be raised any more.         *)
AdaptedScale(ra) ==
  CASE adaptScaleVariance /\ Above(ra) /\ scaleDelta.value < MaxScaleDelta -> Raised(scaleDelta)
    [] adaptScaleVariance /\ Above(ra) /\ scaleDelta.value = MaxScaleDelta -> Lowered(scaleDelta)
    [] OTHER -> scaleDelta

Due(ra) == ra.samplesAdded % AccRatioAdjustmentSamples = 0

Judge(move, ra) ==
  /\ tooLow'  = IF Due(ra) /\ Below(ra) THEN [tooLow EXCEPT ![move] = @ \cup {StepSize(move)}]
                ELSE tooLow
  /\ tooHigh' = IF Due(ra) /\ Above(ra) THEN [tooHigh EXCEPT ![move] = @ \cup {StepSize(move)}]
                ELSE tooHigh

UpdateInSliceThermalization(ratio) ==
  /\ performedSweeps < MaxSweeps /\ timeslice < m
  /\ LET move == AdaptingWhat
         ra   == AddValue(accRatioLocal_RA[move], Sample(ratio))
     IN  /\ accRatioLocal_RA' = [accRatioLocal_RA EXCEPT ![move] = ra]
         /\ phiDelta'   = IF Due(ra) /\ move = "box" THEN AdaptedPhi(ra) ELSE phiDelta
         /\ angleDelta' = IF Due(ra) /\ move = "rotate" THEN AdaptedAngle(ra) ELSE angleDelta
         /\ scaleDelta' = IF Due(ra) /\ move = "scale" THEN AdaptedScale(ra) ELSE scaleDelta
         /\ Judge(move, ra)
  /\ timeslice' = timeslice + 1
  /\ UNCHANGED <<spinProposalMethod, performedSweeps>>

FinishSweep ==
  /\ timeslice = m
  /\ timeslice' = 0 /\ performedSweeps' = performedSweeps + 1
  /\ UNCHANGED <<spinProposalMethod, ad, history>>

(* The driver goes on to the measurement stage, which adapts nothing. *)
Thermalized == performedSweeps = MaxSweeps /\ UNCHANGED vars

Next ==
  \/ \E ratio \in {0, 1} : UpdateInSliceThermalization(ratio)
  \/ FinishSweep \/ Thermalized

Spec == Init /\ [][Next]_vars

-----------------------------------------------------------------------------
(* Properties *)

Bracketed(low, high) == [value : low..high, curmin : low..high, curmax : low..high]

(* Every variable stays in its range, and a step size within its bracket.  *)
TypeOK ==
  /\ spinProposalMethod \in Methods
  /\ performedSweeps \in 0..MaxSweeps /\ timeslice \in 0..m
  /\ phiDelta \in [grown : Nat, shrunk : Nat]
  /\ angleDelta \in Bracketed(MinAngleDelta, MaxAngleDelta)
  /\ scaleDelta \in Bracketed(MinScaleDelta, MaxScaleDelta)
  /\ \A delta \in {angleDelta, scaleDelta} :
       delta.curmin <= delta.value /\ delta.value <= delta.curmax
  /\ \A move \in Moves : accRatioLocal_RA[move].samplesAdded \in 0..(MaxSweeps * m)

(* What get() returns is the number of accepted samples in the window, the *)
(* sum of its zeros and ones, and the window holds as many as it may.      *)
AverageOfWindow ==
  \A move \in Moves :
    LET ra == accRatioLocal_RA[move]
    IN  /\ Len(ra.values) = IF ra.samplesAdded < AccRatioAdjustmentSamples
                              THEN ra.samplesAdded ELSE AccRatioAdjustmentSamples
        /\ ra.sum = Cardinality({i \in 1..Len(ra.values) : ra.values[i].ratio = 1})

(* A step size is changed upon the acceptance of moves that used it, all   *)
(* of them with the step sizes still in force: "the following needs to     *)
(* match the order of moves as used in updateInSlice()" (detsdwopdim.cpp:  *)
(* 3303), and the windows begin and end with the turns of ROTATE_AND_SCALE.*)
JudgedByOwnSamples(move) ==
  /\ move \in ProposedMoves
  /\ LET ra == accRatioLocal_RA'[move]
     IN  /\ Len(ra.values) = AccRatioAdjustmentSamples
         /\ \A i \in 1..Len(ra.values) :
              ra.values[i].steps = [other \in ProposedMoves |-> StepSize(other)]
ChangedByOwnSamples ==
  [][/\ phiDelta' # phiDelta => JudgedByOwnSamples("box")
     /\ angleDelta' # angleDelta => JudgedByOwnSamples("rotate")
     /\ scaleDelta' # scaleDelta => JudgedByOwnSamples("scale")]_vars

(* The bisection for the angle never forgets: an angle at which too much   *)
(* was accepted stays above it, one at which too little was below, and the *)
(* step size in force is the middle of the bracket between them.  A scale  *)
(* at which too much was accepted stays below the one in force.            *)
BisectionRemembers ==
  /\ 2 * angleDelta.value = angleDelta.curmin + angleDelta.curmax
  /\ \A angle \in tooLow["rotate"] : angle <= angleDelta.curmin
  /\ \A angle \in tooHigh["rotate"] : angle >= angleDelta.curmax
  /\ adaptScaleVariance =>
       \A scale \in tooHigh["scale"] : scale <= scaleDelta.curmin /\ scale < scaleDelta.value

(* "reducing scaleDelta <=> increasing acceptance ratio" (detsdwopdim.cpp: *)
(* 3361): a scale at which too little was accepted stays above the one in  *)
(* force.                                                                  *)
ScaleBelowTooLow ==
  adaptScaleVariance => \A scale \in tooLow["scale"] : scaleDelta.value < scale
=============================================================================
