----------------------------- MODULE DetModelGC -----------------------------
(***************************************************************************)
(* One replica (src/src/detmodel.h with the global moves and the           *)
(* serialization of src/src/detsdwopdim.cpp): sweeps go down and up through*)
(* the m imaginary time slices.  In each slice the auxiliary field is      *)
(* updated with the Green's function of that slice at hand, which is       *)
(* wrapped from slice to slice and recomputed every s slices from products *)
(* of B-matrices that the previous sweep left in UdVStorage.  Before a     *)
(* downward sweep global moves may change all slices at once, to be undone *)
(* from a backup.                                                          *)
(*                                                                         *)
(* Matrices are words: a product of B-matrices is the sequence of its      *)
(* factors, and what distinguishes the factors is the state of the field   *)
(* they were computed from.  green is the word W of G = [1 + W]^{-1}; a    *)
(* UdV decomposition is the word it decomposes.  Rounding is left out: two *)
(* matrices are equal when they would be in exact arithmetic.              *)
(***************************************************************************)
EXTENDS Integers, Sequences

CONSTANTS
  m,                     \* number of imaginary time slices
  s,                     \* slices between computations of green from scratch
  GreenComponents,       \* 1 for DetSDW, 2 for DetHubbard
  GlobalMoves,           \* enabled ones of "shift", "wolff", "wolffShift"
  globalUpdateInterval,  \* sweeps between global moves
  Assertions,            \* built without NDEBUG
  MaxSweeps              \* bound on performedSweeps

(* updateTemperatureParameters() and ModelParams<DetSDW>::check()          *)
ASSUME ParametersAssumption ==
  /\ m \in Nat /\ s \in Nat /\ 0 < s /\ s < m
  /\ GreenComponents \in {1, 2}
  /\ GlobalMoves \subseteq {"shift", "wolff"} \/ GlobalMoves = {"wolffShift"}
  /\ globalUpdateInterval \in Nat \ {0}
  /\ Assertions \in BOOLEAN
  /\ MaxSweeps \in Nat

VARIABLES
  pc,                \* where sweep() stands
  k,                 \* loop index of the sweep: time slice
  l,                 \* loop index of the sweep: block of s time slices
  gc,                \* loop index of the sweep: green component
  pending,           \* global moves still to be attempted before the sweep
  takeMeasurements,  \* argument of the current sweep
  measured,          \* samples accumulated in the current sweep, by slice
  phi,               \* the auxiliary field in each slice
  coshTermPhi,       \* terms of the B-matrices that were computed from phi
  green,             \* Green's function of each component
  green_inv_sv,      \* singular values of its inverse, when last computed
  currentTimeslice,  \* green is valid for this slice
  UdVStorage,        \* stored products of each component
  lastSweepDir,
  gmd,               \* GlobalMoveData: the backup
  performedSweeps

loop     == <<pc, k, l, gc>>
samples  == <<takeMeasurements, measured>>
field    == <<phi, coshTermPhi>>
fermions == <<green, green_inv_sv, currentTimeslice, UdVStorage, lastSweepDir>>
vars == <<loop, pending, samples, field, fermions, gmd, performedSweeps>>

Slices     == 1..m
Components == 0..(GreenComponents - 1)
Bit        == {0, 1}

n == (m + s - 1) \div s

(* the uppermost slice of the first b blocks *)
BlockTop(b) == IF b < n THEN s * b ELSE m

-----------------------------------------------------------------------------
(* Products of B-matrices *)

Factor(slice, value, term) == [slice |-> slice, phi |-> value, cosh |-> term, power |-> 1]
B(slice) == Factor(slice, phi[slice], coshTermPhi[slice])
InverseOf(x) == [x EXCEPT !.power = -@]

LeftTimes(x, word) ==
  IF word # <<>> /\ Head(word) = InverseOf(x) THEN Tail(word) ELSE <<x>> \o word
RightTimes(word, x) ==
  IF word # <<>> /\ word[Len(word)] = InverseOf(x)
    THEN SubSeq(word, 1, Len(word) - 1) ELSE Append(word, x)

(* B(k2, k1) = B_k2 ... B_{k1+1} *)
Bmat(k2, k1) == [i \in 1..(k2 - k1) |-> B(k2 + 1 - i)]

leftMultiplyBmat(word, k2, k1)  == Bmat(k2, k1) \o word
rightMultiplyBmat(word, k2, k1) == word \o Bmat(k2, k1)

-----------------------------------------------------------------------------
(* setupUdVStorage_and_calculateGreen: the products up to each block from  *)
(* the bottom, and the Green's function at beta.                           *)

BottomProducts == [b \in 0..n |-> Bmat(BlockTop(b), 0)]

SetupUdVStorage ==
  /\ UdVStorage' = [c \in Components |-> BottomProducts]
  /\ green' = [c \in Components |-> BottomProducts[n]]
  /\ green_inv_sv' = [c \in Components |-> BottomProducts[n]]
  /\ currentTimeslice' = m
  /\ lastSweepDir' = "Up"

NoBackup ==
  [phi |-> [i \in Slices |-> 0], coshTermPhi |-> [i \in Slices |-> 0],
   green |-> [c \in Components |-> <<>>], green_inv_sv |-> [c \in Components |-> <<>>],
   UdVStorage |-> [c \in Components |-> [b \in 0..n |-> <<>>]]]

(* The constructor: a random field, everything else computed from it. *)
Init ==
  /\ pc = "idle" /\ k = m /\ l = n /\ gc = 0 /\ pending = <<>>
  /\ takeMeasurements = FALSE /\ measured = [i \in Slices |-> 0]
  /\ phi \in [Slices -> Bit] /\ coshTermPhi = phi
  /\ UdVStorage = [c \in Components |-> BottomProducts]
  /\ green = [c \in Components |-> BottomProducts[n]]
  /\ green_inv_sv = green
  /\ currentTimeslice = m /\ lastSweepDir = "Up"
  /\ gmd = NoBackup /\ performedSweeps = 0

-----------------------------------------------------------------------------
(* The slice that the next step asserts to be the current one.             *)
Downwards == lastSweepDir = "Up"
AssertedTimeslice ==
  CASE pc = "globalMove" -> m
    [] pc = "update"  -> k
    [] pc = "wrap"    -> IF Downwards THEN k ELSE k - 1
    [] pc = "advance" -> IF Downwards THEN BlockTop(l - 1) ELSE BlockTop(l + 1)

Goto(label) ==
  pc' = IF Assertions /\ currentTimeslice # AssertedTimeslice THEN "aborted" ELSE label

(* The end of a loop body over the green components, or its next turn.     *)
NextComponent == gc + 1 < GreenComponents

-----------------------------------------------------------------------------
(* sweep(): the global moves come before a downward sweep.                 *)

(* Mistake: the accumulators are not cleared. *)
AccumulatorsKept(take) == measured
InitMeasurements(take) == IF take THEN [i \in Slices |-> 0] ELSE measured

IfEnabled(move) == IF move \in GlobalMoves THEN <<move>> ELSE <<>>
EnabledMoves == IfEnabled("shift") \o IfEnabled("wolff") \o IfEnabled("wolffShift")

StartSweepDown(take) ==
  /\ pc = "idle" /\ performedSweeps < MaxSweeps /\ lastSweepDir = "Up"
  /\ pending' = IF performedSweeps % globalUpdateInterval = 0 THEN EnabledMoves ELSE <<>>
  /\ takeMeasurements' = take /\ measured' = InitMeasurements(take)
  /\ pc' = "globalMove" /\ k' = m /\ l' = n /\ gc' = 0
  /\ UNCHANGED <<field, fermions, gmd, performedSweeps>>

(* The lowest entry of the storage becomes unity for the upward sweep.     *)
StartSweepUp(take) ==
  /\ pc = "idle" /\ performedSweeps < MaxSweeps /\ lastSweepDir = "Down"
  /\ UdVStorage' = [c \in Components |-> [UdVStorage[c] EXCEPT ![0] = <<>>]]
  /\ takeMeasurements' = take /\ measured' = InitMeasurements(take)
  /\ pc' = "wrap" /\ k' = 1 /\ l' = 0 /\ gc' = 0
  /\ UNCHANGED <<pending, field, green, green_inv_sv, currentTimeslice, lastSweepDir,
                 gmd, performedSweeps>>

-----------------------------------------------------------------------------
(* Global moves *)

(* A displacement changes every slice, a cluster any of them. *)
MovedFields(move) ==
  IF move = "shift" THEN {[i \in Slices |-> 1 - phi[i]]} ELSE [Slices -> Bit]

(* Every move recomputes the terms, the cluster and shift move only after  *)
(* both of its parts.  (Mistake: the shift does not.)                      *)
TermsForgotten(move, moved) == IF move = "shift" THEN coshTermPhi ELSE moved
TermsOf(move, moved) == moved

(* globalMoveStoreBackups copies the field and swaps everything that the   *)
(* move computes anew.  (Mistake: the singular values are left in place.)  *)
StoreBackupsPartly ==
  [phi |-> phi, coshTermPhi |-> coshTermPhi, green |-> green,
   green_inv_sv |-> gmd.green_inv_sv, UdVStorage |-> UdVStorage]
StoreBackups ==
  [phi |-> phi, coshTermPhi |-> coshTermPhi, green |-> green,
   green_inv_sv |-> green_inv_sv, UdVStorage |-> UdVStorage]

AttemptMove ==
  /\ pc = "globalMove" /\ pending # <<>>
  /\ \E moved \in MovedFields(Head(pending)) :
       phi' = moved /\ coshTermPhi' = TermsOf(Head(pending), moved)
  /\ gmd' = StoreBackups
  /\ green' = gmd.green /\ green_inv_sv' = gmd.green_inv_sv /\ UdVStorage' = gmd.UdVStorage
  /\ Goto("recompute")
  /\ UNCHANGED <<k, l, gc, pending, samples, currentTimeslice, lastSweepDir, performedSweeps>>

RecomputeGreen ==
  /\ pc = "recompute"
  /\ SetupUdVStorage
  /\ pc' = "decide"
  /\ UNCHANGED <<k, l, gc, pending, samples, field, gmd, performedSweeps>>

AcceptMove ==
  /\ pc = "decide"
  /\ pending' = Tail(pending) /\ pc' = "globalMove"
  /\ UNCHANGED <<k, l, gc, samples, field, fermions, gmd, performedSweeps>>

(* globalMoveRestoreBackups swaps everything back. *)
RejectMove ==
  /\ pc = "decide"
  /\ phi' = gmd.phi /\ coshTermPhi' = gmd.coshTermPhi
  /\ green' = gmd.green /\ green_inv_sv' = gmd.green_inv_sv
  /\ UdVStorage' = gmd.UdVStorage
  /\ gmd' = [phi |-> phi, coshTermPhi |-> coshTermPhi, green |-> green,
             green_inv_sv |-> green_inv_sv, UdVStorage |-> UdVStorage]
  /\ pending' = Tail(pending) /\ pc' = "globalMove"
  /\ UNCHANGED <<k, l, gc, samples, currentTimeslice, lastSweepDir, performedSweeps>>

BeginDown ==
  /\ pc = "globalMove" /\ pending = <<>>
  /\ pc' = "update"
  /\ UNCHANGED <<k, l, gc, pending, samples, field, fermions, gmd, performedSweeps>>

-----------------------------------------------------------------------------
(* updateInSliceAndMaybeMeasure: an accepted update replaces B_k in green. *)

Replaced(word, old, new) == LeftTimes(new, LeftTimes(InverseOf(old), word))

UpdateField(accept) ==
  IF accept
    THEN /\ phi' = [phi EXCEPT ![k] = 1 - @]
         /\ coshTermPhi' = [coshTermPhi EXCEPT ![k] = 1 - phi[k]]
         /\ green' = [c \in Components |->
              Replaced(green[c], B(k), Factor(k, 1 - phi[k], 1 - phi[k]))]
    ELSE UNCHANGED <<phi, coshTermPhi, green>>

(* Mistake: not in the highest slice. *)
MeasureBelowTop ==
  measured' = IF takeMeasurements /\ k < m THEN [measured EXCEPT ![k] = @ + 1] ELSE measured
Measure == measured' = IF takeMeasurements THEN [measured EXCEPT ![k] = @ + 1] ELSE measured

UpdateInSliceDown(accept) ==
  /\ pc = "update" /\ Downwards
  /\ UpdateField(accept) /\ Measure
  /\ Goto("wrap") /\ gc' = 0
  /\ UNCHANGED <<k, l, pending, takeMeasurements, green_inv_sv, currentTimeslice,
                 UdVStorage, lastSweepDir, gmd, performedSweeps>>

UpdateInSliceUp(accept) ==
  /\ pc = "update" /\ ~Downwards
  /\ UpdateField(accept) /\ Measure
  /\ gc' = 0
  /\ IF k = BlockTop(l + 1)
       THEN Goto("advance") /\ UNCHANGED k
       ELSE Goto("wrap") /\ k' = k + 1
  /\ UNCHANGED <<l, pending, takeMeasurements, green_inv_sv, currentTimeslice,
                 UdVStorage, lastSweepDir, gmd, performedSweeps>>

-----------------------------------------------------------------------------
(* Wrapping green to the neighbouring slice *)

(* Mistake: B_{k-1} instead of B_k. *)
WrappedDownBelow(word) ==
  RightTimes(LeftTimes(InverseOf(B(IF k > 1 THEN k - 1 ELSE m)), word),
             B(IF k > 1 THEN k - 1 ELSE m))
WrappedDown(word) == RightTimes(LeftTimes(InverseOf(B(k)), word), B(k))
WrappedUp(word)   == LeftTimes(B(k), RightTimes(word, InverseOf(B(k))))

(* The slice wrapped up to, one above the one wrapped from.  (Mistake: not.)*)
SliceNotRaised == k - 1
SliceAbove == k

WrapDownGreen ==
  /\ pc = "wrap" /\ Downwards
  /\ green' = [green EXCEPT ![gc] = WrappedDown(@)]
  /\ currentTimeslice' = k - 1
  /\ IF NextComponent
       THEN Goto("wrap") /\ gc' = gc + 1 /\ UNCHANGED k
       ELSE /\ Goto(IF k - 1 = BlockTop(l - 1) THEN "advance" ELSE "update")
            /\ gc' = 0 /\ k' = k - 1
  /\ UNCHANGED <<l, pending, samples, field, green_inv_sv, UdVStorage, lastSweepDir,
                 gmd, performedSweeps>>

WrapUpGreen ==
  /\ pc = "wrap" /\ ~Downwards
  /\ green' = [green EXCEPT ![gc] = WrappedUp(@)]
  /\ currentTimeslice' = SliceAbove
  /\ IF NextComponent
       THEN Goto("wrap") /\ gc' = gc + 1
       ELSE Goto("update") /\ gc' = 0
  /\ UNCHANGED <<k, l, pending, samples, field, green_inv_sv, UdVStorage, lastSweepDir,
                 gmd, performedSweeps>>

-----------------------------------------------------------------------------
(* Computing green from scratch at the end of a block *)

ComputeGreen(word) ==
  /\ green' = [green EXCEPT ![gc] = word]
  /\ green_inv_sv' = [green_inv_sv EXCEPT ![gc] = word]

(* The product stays in the storage.  (Mistake: one block too low.)        *)
StoredBelow(entry, product) ==
  UdVStorage' = [UdVStorage EXCEPT ![gc][IF entry = 0 THEN 0 ELSE entry - 1] = product]
Store(entry, product) == UdVStorage' = [UdVStorage EXCEPT ![gc][entry] = product]

AdvanceDownGreen ==
  /\ pc = "advance" /\ Downwards
  /\ LET above == IF l < n THEN UdVStorage[gc][l] ELSE <<>>
         UdV_L == rightMultiplyBmat(above, BlockTop(l), BlockTop(l - 1))
     IN  /\ ComputeGreen(IF l - 1 > 0 THEN UdVStorage[gc][l - 1] \o UdV_L ELSE UdV_L)
         /\ Store(l - 1, UdV_L)
  /\ currentTimeslice' = BlockTop(l - 1)
  /\ IF NextComponent
       THEN Goto("advance") /\ gc' = gc + 1 /\ UNCHANGED l
       ELSE /\ Goto(IF l > 1 THEN "update" ELSE "finish")
            /\ gc' = 0 /\ l' = l - 1
  /\ UNCHANGED <<k, pending, samples, field, lastSweepDir, gmd, performedSweeps>>

AdvanceUpGreen ==
  /\ pc = "advance" /\ ~Downwards
  /\ LET UdV_temp == leftMultiplyBmat(UdVStorage[gc][l], BlockTop(l + 1), BlockTop(l))
     IN  /\ ComputeGreen(IF BlockTop(l + 1) # m THEN UdV_temp \o UdVStorage[gc][l + 1]
                                                 ELSE UdV_temp)
         /\ Store(l + 1, UdV_temp)
  /\ currentTimeslice' = BlockTop(l + 1)
  /\ IF NextComponent
       THEN Goto("advance") /\ gc' = gc + 1 /\ UNCHANGED <<k, l>>
       ELSE /\ Goto(IF l < n - 1 THEN "wrap" ELSE "finish")
            /\ gc' = 0 /\ l' = l + 1 /\ k' = k + 1
  /\ UNCHANGED <<pending, samples, field, lastSweepDir, gmd, performedSweeps>>

-----------------------------------------------------------------------------
(* The end of a sweep: consistencyCheck throws when a cached term does not *)
(* belong to the field.                                                    *)
FinishSweep ==
  /\ pc = "finish"
  /\ pc' = IF coshTermPhi = phi THEN "idle" ELSE "error"
  /\ lastSweepDir' = IF Downwards THEN "Down" ELSE "Up"
  /\ performedSweeps' = performedSweeps + 1
  /\ UNCHANGED <<k, l, gc, pending, samples, field, green, green_inv_sv, currentTimeslice,
                 UdVStorage, gmd>>

(* Saving and resuming: the driver saves after an even number of sweeps,   *)
(* only the field is serialized, and a new process computes the rest from  *)
(* it.  (Mistake: it saves after any sweep.)                               *)
SavedAnytime == TRUE
SavedHere == performedSweeps % 2 = 0

Reload ==
  /\ pc = "idle" /\ SavedHere
  /\ SetupUdVStorage
  /\ gmd' = NoBackup
  /\ UNCHANGED <<loop, pending, samples, field, performedSweeps>>

(* The driver asks for no further sweep. *)
Halt == pc = "idle" /\ performedSweeps = MaxSweeps /\ UNCHANGED vars

Next ==
  \/ \E take \in BOOLEAN : StartSweepDown(take) \/ StartSweepUp(take)
  \/ AttemptMove \/ RecomputeGreen \/ AcceptMove \/ RejectMove \/ BeginDown
  \/ \E accept \in BOOLEAN : UpdateInSliceDown(accept) \/ UpdateInSliceUp(accept)
  \/ WrapDownGreen \/ WrapUpGreen \/ AdvanceDownGreen \/ AdvanceUpGreen
  \/ FinishSweep \/ Reload \/ Halt

Spec == Init /\ [][Next]_vars

-----------------------------------------------------------------------------
(* Properties *)

Factors == [slice : Slices, phi : Bit, cosh : Bit, power : {1, -1}]
Words   == Seq(Factors)
Storage == [Components -> [0..n -> Words]]
Greens  == [Components -> Words]

(* Every variable stays in its range; no slice is sampled twice a sweep.   *)
TypeOK ==
  /\ pc \in {"idle", "globalMove", "recompute", "decide", "update", "wrap", "advance",
             "finish", "aborted", "error"}
  /\ k \in 0..(m + 1) /\ l \in 0..n /\ gc \in Components
  /\ pending \in Seq({"shift", "wolff", "wolffShift"})
  /\ takeMeasurements \in BOOLEAN /\ measured \in [Slices -> Bit]
  /\ phi \in [Slices -> Bit] /\ coshTermPhi \in [Slices -> Bit]
  /\ green \in Greens /\ green_inv_sv \in Greens /\ UdVStorage \in Storage
  /\ currentTimeslice \in 0..m /\ lastSweepDir \in {"Up", "Down"}
  /\ gmd \in [phi : [Slices -> Bit], coshTermPhi : [Slices -> Bit], green : Greens,
              green_inv_sv : Greens, UdVStorage : Storage]
  /\ performedSweeps \in 0..MaxSweeps

(* The Green's function of a slice for the current field *)
GreenAt(slice) == Bmat(slice, 0) \o Bmat(m, slice)

(* Whenever a slice is updated or measured, green is the Green's function  *)
(* of that slice for the current field in all slices, whatever was updated *)
(* since the stored products were computed.                                *)
GreenIsCurrent ==
  pc = "update" => \A c \in Components : green[c] = GreenAt(k)

(* The preconditions that advanceDownGreen and advanceUpGreen state        *)
(* (detmodel.h:948 and 1101): the stored products they combine are         *)
(* those of the current field.                                             *)
AdvancePreconditions ==
  pc = "advance" =>
    IF Downwards
      THEN /\ l < n => UdVStorage[gc][l] = Bmat(m, BlockTop(l))
           /\ UdVStorage[gc][l - 1] = Bmat(BlockTop(l - 1), 0)
      ELSE /\ l + 1 < n => UdVStorage[gc][l + 1] = Bmat(m, BlockTop(l + 1))
           /\ UdVStorage[gc][l] = Bmat(BlockTop(l), 0)

(* No assert() on currentTimeslice fails. *)
NoAssertionFails == pc # "aborted"

(* consistencyCheck never throws "coshTermPhi is inconsistent".            *)
TermsConsistent == pc # "error"

(* A global move is decided upon with the determinants of the field before *)
(* it and after it, and what a rejection restores is a complete and        *)
(* coherent state.                                                         *)
BackupProduct(b) ==
  [i \in 1..BlockTop(b) |->
     LET slice == BlockTop(b) + 1 - i
     IN  Factor(slice, gmd.phi[slice], gmd.coshTermPhi[slice])]
MoveDecidedOnCurrentDeterminants ==
  pc = "decide" => \A c \in Components :
    /\ green_inv_sv[c] = GreenAt(m)
    /\ gmd.green[c] = BackupProduct(n) /\ gmd.green_inv_sv[c] = BackupProduct(n)
    /\ \A b \in 1..n : gmd.UdVStorage[c][b] = BackupProduct(b)

(* A sweep that measures samples every slice exactly once.                 *)
EverySliceMeasured ==
  pc = "finish" /\ takeMeasurements => measured = [i \in Slices |-> 1]

(* "we no longer serialize [green, UdVStorage, lastSweepDir] as they can   *)
(* be reconstructed from the field configuration" (detmodel.h:496): a      *)
(* resumed simulation continues exactly as the interrupted one would have. *)
ResumeIsSeamless == [][Reload => UNCHANGED <<field, fermions>>]_vars
=============================================================================
