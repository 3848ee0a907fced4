------------------------- MODULE DetQMCPT_lockstep -------------------------
(***************************************************************************)
(* All processes of DetQMCPT execute one program.  Apart from what only    *)
(* the root keeps, a process is a projection of a point of that program,   *)
(* and at any moment the processes stand at points of one history of it,   *)
(* with exactly the messages between them that the program sends between   *)
(* these points: Lockstep is inductive.  So the collectives match, the     *)
(* checkpoints are coherent and the streams are complete.                  *)
(***************************************************************************)
EXTENDS DetQMCPT_proofs

-----------------------------------------------------------------------------
(* The program: a point holds the control of run() with, for all processes *)
(* together, the assignment of parameters in force (table), the            *)
(* configurations in memory (buffered) and what was last saved.            *)
(* ups and downs count the messages of a worker to the root and back.  The *)
(* walk of the root is part of its scatter.                                *)

Tables == {t \in [Proc -> Par] : \A c \in Par : \E p \in Proc : \A r \in Proc : t[r] = c <=> r = p}
Kept   == [sweep : Nat, table : Tables]
Saved  == [therm : Nat, sweeps : Nat, counter : Nat, table : Tables]
Points ==
  [label : Labels \ {"walk", "error"}, stage : {"T", "M", "F"}, therm : Nat, sweeps : Nat,
   counter : Nat, exiting : BOOLEAN, table : Tables, buffered : Seq(Kept),
   saves : Nat, saved : Saved, ups : Nat, downs : Nat]

Flushes(c) == c.label = "save" /\ c.stage = "M" /\ c.buffered # <<>>
Writes(c)  == c.label = "save" /\ ~Flushes(c)
Fills(c) ==
  \/ c.label = "sweep" /\ c.stage = "T" /\ c.counter + 1 = SaveInterval
  \/ c.label = "countSweep" /\ c.counter = SaveInterval
Keeps(c)     == c.label = "insertValue" /\ c.counter % ConfigInterval = 0
Exchanges(c) == ExchangeInterval # 0 /\ (c.sweeps + c.therm) % ExchangeInterval = 0

(* What a worker sends to the root there, and what the root sends then.    *)
UpOp(c) ==
  IF Flushes(c) THEN "configuration"
  ELSE IF c.label \in {"insertValue", "barrier", "exchange", "check"} THEN c.label ELSE "none"
DownOp(c) ==
  IF c.label = "top" THEN "stop_now"
  ELSE IF c.label = "inBarrier" THEN "barrier"
  ELSE IF c.label = "assign" THEN "assign" ELSE "none"
Count(op) == IF op = "none" THEN 0 ELSE 1

StageAfter(c) ==
  IF c.label # "endSweep" THEN c.stage
  ELSE IF c.stage = "T" /\ c.therm = Thermalization THEN "M"
  ELSE IF c.stage = "M" /\ c.sweeps = Sweeps THEN "F"
  ELSE c.stage
CounterAfter(c) ==
  IF Fills(c) \/ StageAfter(c) # c.stage THEN 0
  ELSE IF c.label = "sweep" THEN c.counter + 1 ELSE c.counter
LabelAfter(c, stop) ==
  IF c.label = "top" THEN IF stop THEN "save" ELSE "sweep"
  ELSE IF c.label = "sweep" /\ c.stage = "M"
    THEN IF (c.counter + 1) % MeasureInterval = 0 THEN "insertValue" ELSE "countSweep"
  ELSE IF c.label = "insertValue" THEN "countSweep"
  ELSE IF c.label \in {"sweep", "countSweep"} THEN IF Fills(c) THEN "save" ELSE "endSweep"
  ELSE IF c.label = "save"
    THEN IF Flushes(c) THEN "save" ELSE IF c.exiting THEN "done" ELSE "barrier"
  ELSE IF c.label = "barrier" THEN "inBarrier"
  ELSE IF c.label = "inBarrier" THEN "endSweep"
  ELSE IF c.label = "endSweep"
    THEN IF StageAfter(c) = "F" THEN "done" ELSE IF Exchanges(c) THEN "exchange" ELSE "check"
  ELSE IF c.label = "exchange" THEN "assign"
  ELSE IF c.label = "assign" THEN "check"
  ELSE IF c.counter % 2 = 0 THEN "top" ELSE "sweep"

(* The point that follows: stop and table are what the root says.          *)
After(c, stop, table) ==
  [label |-> LabelAfter(c, stop), stage |-> StageAfter(c),
   therm |-> IF c.label = "sweep" /\ c.stage = "T" THEN c.therm + 1 ELSE c.therm,
   sweeps |-> IF c.label = "countSweep" THEN c.sweeps + 1 ELSE c.sweeps,
   counter |-> CounterAfter(c),
   exiting |-> IF c.label = "top" THEN stop ELSE c.exiting,
   table |-> IF c.label = "assign" THEN table ELSE c.table,
   buffered |-> IF Flushes(c) THEN Tail(c.buffered)
                ELSE IF Keeps(c)
                  THEN Append(c.buffered, [sweep |-> c.sweeps, table |-> c.table])
                ELSE c.buffered,
   saves |-> IF Writes(c) THEN c.saves + 1 ELSE c.saves,
   saved |-> IF Writes(c) THEN [therm |-> c.therm, sweeps |-> c.sweeps, counter |-> c.counter,
                                table |-> c.table]
             ELSE c.saved,
   ups |-> c.ups + Count(UpOp(c)), downs |-> c.downs + Count(DownOp(c))]

Identity == [p \in Proc |-> p]
Start ==
  [label |-> "top", stage |-> FirstStage, therm |-> 0, sweeps |-> 0, counter |-> 0,
   exiting |-> FALSE, table |-> Identity, buffered |-> <<>>, saves |-> 0,
   saved |-> [therm |-> 0, sweeps |-> 0, counter |-> 0, table |-> Identity],
   ups |-> 0, downs |-> 0]

-----------------------------------------------------------------------------
(* What holds at every point of the program                                *)

InSweep(c)       == c.label \in {"insertValue", "countSweep"}
Begun(c)         == c.sweeps + (IF InSweep(c) THEN 1 ELSE 0)
ProgressAt(c)    == c.therm + c.sweeps
SavedProgress(c) == c.saved.therm + c.saved.sweeps
AtBarrier(c) == c.label \in {"barrier", "inBarrier"} \/ (c.label = "done" /\ c.exiting)

JustSaved(c) ==
  AtBarrier(c) \/ c.label = "done" \/ (c.label = "endSweep" /\ c.counter = 0)

StageSound(c) ==
  /\ c.stage = "F" => c.label = "done"
  /\ InSweep(c) => c.stage = "M"
  /\ c.stage = "T" => c.sweeps = 0 /\ c.buffered = <<>>
  /\ c.exiting => c.label \in {"save", "done"}
CounterSound(c) ==
  /\ IF InSweep(c) THEN c.counter \in 1..SaveInterval ELSE c.counter \in 0..(SaveInterval - 1)
  /\ c.label \in {"top", "save"} => c.counter % 2 = 0
  /\ c.label = "save" /\ ~c.exiting => c.counter = 0
  /\ c.label \in {"barrier", "inBarrier"} => c.counter = 0
  /\ c.stage = "M" => c.counter % SaveInterval = Begun(c) % SaveInterval
SaveSound(c) ==
  /\ c.saves = 0 => SavedProgress(c) = 0
  /\ SavedProgress(c) <= ProgressAt(c)
  /\ c.label = "save" /\ ~c.exiting => SavedProgress(c) < ProgressAt(c)
  /\ JustSaved(c) => c.saves # 0 /\ c.saved.therm = c.therm /\ c.saved.sweeps = c.sweeps

(* The configurations in memory are the last ones that were due.           *)
Due(c)        == (IF c.label = "countSweep" THEN c.sweeps + 1 ELSE c.sweeps) \div ConfigInterval
KeptAt(k)     == k * ConfigInterval - 1
Consecutive(b, n) == \A i \in 1..Len(b) : b[i].sweep = KeptAt(n - Len(b) + i)
StreamSound(c) ==
  /\ c.stage = "M" => c.counter % ConfigInterval = Begun(c) % ConfigInterval
  /\ Len(c.buffered) <= Due(c) /\ Consecutive(c.buffered, Due(c))
  /\ ~InSweep(c) /\ c.label # "save" /\ c.counter = 0 => c.buffered = <<>>
  /\ c.label = "done" => c.buffered = <<>>
StreamsInStep == SaveInterval % ConfigInterval = 0

Sound(c) ==
  /\ StageSound(c) /\ CounterSound(c) /\ SaveSound(c)
  /\ StreamsInStep => StreamSound(c)
SoundPoints == {c \in Points : Sound(c)}

(* How a point is related to the later ones.  A save has been met when     *)
(* every process has entered the barrier that follows, and left behind     *)
(* when that barrier was opened.                                           *)
Met(c) ==
  IF c.label = "barrier" \/ (c.label = "done" /\ c.exiting) THEN c.saves - 1 ELSE c.saves
Opened(c) == IF AtBarrier(c) THEN c.saves - 1 ELSE c.saves
Later(c, d) ==
  /\ c.ups <= d.ups /\ c.downs <= d.downs /\ c.saves <= d.saves
  /\ Met(c) <= Met(d) /\ Opened(c) <= Opened(d)
  /\ c.ups = d.ups => Met(c) = Met(d)
  /\ c.downs = d.downs => Opened(c) = Opened(d) /\ c.exiting = d.exiting
  /\ c.exiting => d.exiting
  /\ SavedProgress(c) <= SavedProgress(d)
  /\ c.saves = d.saves => c.saved = d.saved
  /\ c.saves < d.saves => SavedProgress(c) < SavedProgress(d) \/ d.exiting

-----------------------------------------------------------------------------
(* The program keeps them.                                                 *)

LEMMA Intervals ==
  /\ SaveInterval \in Nat \ {0} /\ Sweeps \in Nat \ {0} /\ ConfigInterval \in Nat \ {0}
  /\ MeasureInterval \in Nat \ {0} /\ Thermalization \in Nat
  /\ Sweeps % SaveInterval = 0 /\ ConfigInterval % MeasureInterval = 0
  /\ SaveInterval % 2 = 0
  /\ \A k \in Nat \ {0} : 0 % k = 0 /\ k % k = 0 /\ 0 \div k = 0
  /\ \A k \in Nat \ {0} : \A n \in 0..(k - 1) : n % k = n
<1>1. /\ SaveInterval \in Nat \ {0} /\ Sweeps \in Nat \ {0} /\ ConfigInterval \in Nat \ {0}
      /\ MeasureInterval \in Nat \ {0} /\ Thermalization \in Nat
      /\ Sweeps % SaveInterval = 0 /\ ConfigInterval % MeasureInterval = 0
      /\ SaveInterval % 2 = 0
  BY ParametersAssumption
<1>2. ASSUME NEW k \in Nat \ {0}, NEW n \in 0..(k - 1) PROVE n % k = n /\ n \div k = 0
  <2>1. n \div k \in Int /\ n % k \in 0..(k - 1) /\ n = k * (n \div k) + (n % k)
    BY Division
  <2>2. n = k * 0 + n
    OBVIOUS
  <2> QED
    BY <2>1, <2>2, DivisionUnique
<1>3. ASSUME NEW k \in Nat \ {0} PROVE k % k = 0
  <2>1. k \div k \in Int /\ k % k \in 0..(k - 1) /\ k = k * (k \div k) + (k % k)
    BY Division
  <2>2. k = k * 1 + 0 /\ 0 \in 0..(k - 1)
    OBVIOUS
  <2> QED
    BY <2>1, <2>2, DivisionUnique
<1>4. \A k \in Nat \ {0} : 0 \in 0..(k - 1)
  OBVIOUS
<1> QED
  BY <1>1, <1>2, <1>3, <1>4

LEMMA PointFields ==
  ASSUME NEW c \in Points
  PROVE  /\ c.label \in Labels \ {"walk", "error"} /\ c.stage \in {"T", "M", "F"}
         /\ c.therm \in Nat /\ c.sweeps \in Nat /\ c.counter \in Nat /\ c.exiting \in BOOLEAN
         /\ c.table \in Tables /\ c.buffered \in Seq(Kept)
         /\ c.saves \in Nat /\ c.saved \in Saved /\ c.ups \in Nat /\ c.downs \in Nat
         /\ c.saved.therm \in Nat /\ c.saved.sweeps \in Nat /\ c.saved.counter \in Nat
         /\ c.saved.table \in Tables /\ SavedProgress(c) \in Nat /\ ProgressAt(c) \in Nat
BY DEF Points, Saved, SavedProgress, ProgressAt

LEMMA AfterTypes ==
  ASSUME NEW c \in Points, NEW stop \in BOOLEAN, NEW table \in Tables
  PROVE  After(c, stop, table) \in Points
<1> USE PointFields
<1>1. LabelAfter(c, stop) \in Labels \ {"walk", "error"}
  BY DEF LabelAfter, Labels
<1>2. StageAfter(c) \in {"T", "M", "F"} /\ CounterAfter(c) \in Nat
  BY DEF StageAfter, CounterAfter
<1>3. Flushes(c) => Tail(c.buffered) \in Seq(Kept) /\ Head(c.buffered) \in Kept
  BY DEF Flushes
<1>5. [sweep |-> c.sweeps, table |-> c.table] \in Kept
  BY DEF Kept
<1>6. Append(c.buffered, [sweep |-> c.sweeps, table |-> c.table]) \in Seq(Kept)
  BY <1>5
<1>7. [therm |-> c.therm, sweeps |-> c.sweeps, counter |-> c.counter, table |-> c.table] \in Saved
  BY DEF Saved
<1>8. c.ups + Count(UpOp(c)) \in Nat /\ c.downs + Count(DownOp(c)) \in Nat
  BY DEF Count
<1> QED
  BY <1>1, <1>2, <1>3, <1>6, <1>7, <1>8 DEF After, Points

LEMMA AfterStageSound ==
  ASSUME NEW c \in SoundPoints, NEW stop \in BOOLEAN, NEW table \in Tables, c.label # "done"
  PROVE  StageSound(After(c, stop, table))
<1> DEFINE d == After(c, stop, table)
<1>0. c \in Points /\ StageSound(c) /\ CounterSound(c)
  BY DEF SoundPoints, Sound
<1>1. d.label = LabelAfter(c, stop) /\ d.stage = StageAfter(c)
      /\ d.sweeps = (IF c.label = "countSweep" THEN c.sweeps + 1 ELSE c.sweeps)
  BY DEF After
<1>x. (c.label = "top" => d.exiting = stop) /\ (c.label # "top" => d.exiting = c.exiting)
  BY DEF After
<1>2. c.stage = "T" => d.buffered = <<>>
  BY <1>0 DEF After, StageSound, Flushes, Keeps, InSweep
<1> HIDE DEF d
<1>3. d.stage = "F" => d.label = "done"
  BY <1>0, <1>1 DEF StageSound, StageAfter, LabelAfter
<1>4. InSweep(d) => d.stage = "M"
  BY <1>0, <1>1, PointFields DEF StageSound, StageAfter, LabelAfter, InSweep
<1>5. d.stage = "T" => d.sweeps = 0 /\ d.buffered = <<>>
  BY <1>0, <1>1, <1>2 DEF StageSound, StageAfter, InSweep
<1>6. d.exiting => d.label \in {"save", "done"}
  BY <1>0, <1>1, <1>x DEF StageSound, LabelAfter
<1> QED
  BY <1>3, <1>4, <1>5, <1>6 DEF StageSound, d

LEMMA AfterCounterSound ==
  ASSUME NEW c \in SoundPoints, NEW stop \in BOOLEAN, NEW table \in Tables, c.label # "done"
  PROVE  CounterSound(After(c, stop, table))
<1> DEFINE d == After(c, stop, table)
<1>0. c \in Points /\ StageSound(c) /\ CounterSound(c)
  BY DEF SoundPoints, Sound
<1>1. d.label = LabelAfter(c, stop) /\ d.stage = StageAfter(c) /\ d.counter = CounterAfter(c)
      /\ d.sweeps = (IF c.label = "countSweep" THEN c.sweeps + 1 ELSE c.sweeps)
  BY DEF After
<1>x. (c.label = "top" => d.exiting = stop) /\ (c.label # "top" => d.exiting = c.exiting)
  BY DEF After
<1> HIDE DEF d
<1>f. /\ c.label \in Labels \ {"walk", "error"} /\ c.stage \in {"T", "M", "F"}
      /\ c.sweeps \in Nat /\ c.counter \in Nat
  BY <1>0, PointFields
<1>i. SaveInterval \in Nat \ {0} /\ SaveInterval % 2 = 0
  BY Intervals
<1>2. IF InSweep(d) THEN d.counter \in 1..SaveInterval ELSE d.counter \in 0..(SaveInterval - 1)
  <2>1. CASE InSweep(c)
    <3>1. c.counter \in 1..SaveInterval /\ c.stage = "M"
      BY <1>0, <2>1 DEF CounterSound, StageSound
    <3> QED
      BY <1>1, <1>i, <2>1, <3>1 DEF CounterAfter, LabelAfter, StageAfter, InSweep, Fills
  <2>2. CASE c.label = "sweep"
    <3>1. c.counter \in 0..(SaveInterval - 1) /\ c.stage \in {"T", "M"}
      BY <1>0, <1>f, <2>2 DEF CounterSound, StageSound, InSweep
    <3>2. CASE c.stage = "T"
      BY <1>1, <1>i, <2>2, <3>1, <3>2 DEF CounterAfter, LabelAfter, StageAfter, InSweep, Fills
    <3>3. CASE c.stage = "M"
      BY <1>1, <1>i, <2>2, <3>1, <3>3 DEF CounterAfter, LabelAfter, StageAfter, InSweep, Fills
    <3> QED
      BY <3>1, <3>2, <3>3
  <2>3. CASE ~InSweep(c) /\ c.label # "sweep"
    <3>1. c.counter \in 0..(SaveInterval - 1)
      BY <1>0, <2>3 DEF CounterSound
    <3>2. d.counter \in {c.counter, 0}
      BY <1>1, <2>3 DEF CounterAfter
    <3>3. ~InSweep(d)
      BY <1>1, <1>f, <2>3 DEF LabelAfter, InSweep
    <3> QED
      BY <1>i, <3>1, <3>2, <3>3
  <2> QED
    BY <2>1, <2>2, <2>3
<1>3. d.label \in {"top", "save"} => d.counter % 2 = 0
  BY <1>0, <1>1, <1>f, <1>i DEF CounterSound, CounterAfter, LabelAfter, StageAfter, Fills, Labels
<1>4. /\ d.label = "save" /\ ~d.exiting => d.counter = 0
      /\ d.label \in {"barrier", "inBarrier"} => d.counter = 0
  BY <1>0, <1>1, <1>x, <1>f DEF CounterSound, CounterAfter, LabelAfter, StageAfter, Fills, Labels,
     StageSound
<1>5. d.stage = "M" => d.counter % SaveInterval = Begun(d) % SaveInterval
  <2> SUFFICES ASSUME d.stage = "M" PROVE d.counter % SaveInterval = Begun(d) % SaveInterval
    OBVIOUS
  <2>z. 0 % SaveInterval = 0 /\ SaveInterval % SaveInterval = 0
    BY Intervals
  <2>1. CASE c.label = "sweep"
    <3>1. c.stage = "M" /\ d.counter = c.counter + 1 /\ Begun(c) = c.sweeps
            /\ Begun(d) = c.sweeps + 1
      BY <1>1, <1>f, <2>1 DEF StageAfter, Fills, CounterAfter, LabelAfter, Begun, InSweep
    <3>2. c.counter % SaveInterval = c.sweeps % SaveInterval
      BY <1>0, <3>1 DEF CounterSound
    <3> QED
      BY <1>f, <1>i, <3>1, <3>2, InStepModulo
  <2>2. CASE c.label # "sweep" /\ c.stage # "M"
    <3>0. c.label = "endSweep" /\ c.stage = "T" /\ c.sweeps = 0
      BY <1>0, <1>1, <1>f, <2>2 DEF StageAfter, StageSound
    <3>1. d.counter = 0 /\ Begun(d) = 0
      BY <1>1, <1>f, <2>2, <3>0 DEF StageAfter, CounterAfter, LabelAfter, Begun, InSweep
    <3> QED
      BY <3>1
  <2>3. CASE c.label # "sweep" /\ c.stage = "M"
    <3>1. Begun(d) = Begun(c)
            /\ (d.counter = c.counter \/ (c.counter = SaveInterval /\ d.counter = 0))
      BY <1>0, <1>1, <1>f, <2>3 DEF StageAfter, CounterAfter, LabelAfter, Begun, InSweep, Fills,
         Labels
    <3>2. c.counter % SaveInterval = Begun(c) % SaveInterval
      BY <1>0, <2>3 DEF CounterSound
    <3> QED
      BY <2>z, <3>1, <3>2
  <2> QED
    BY <2>1, <2>2, <2>3
<1> QED
  BY <1>2, <1>3, <1>4, <1>5 DEF CounterSound, d

LEMMA AfterSaveSound ==
  ASSUME NEW c \in SoundPoints, NEW stop \in BOOLEAN, NEW table \in Tables, c.label # "done"
  PROVE  SaveSound(After(c, stop, table))
<1> DEFINE d == After(c, stop, table)
<1>0. c \in Points /\ StageSound(c) /\ CounterSound(c) /\ SaveSound(c)
  BY DEF SoundPoints, Sound
<1>1. /\ d.label = LabelAfter(c, stop) /\ d.stage = StageAfter(c) /\ d.counter = CounterAfter(c)
      /\ d.therm = IF c.label = "sweep" /\ c.stage = "T" THEN c.therm + 1 ELSE c.therm
      /\ d.sweeps = IF c.label = "countSweep" THEN c.sweeps + 1 ELSE c.sweeps
  BY DEF After
<1>x. (c.label = "top" => d.exiting = stop) /\ (c.label # "top" => d.exiting = c.exiting)
  BY DEF After
<1>2. /\ Writes(c) => /\ d.saved.therm = c.therm /\ d.saved.sweeps = c.sweeps
                      /\ SavedProgress(d) = ProgressAt(c) /\ d.saves = c.saves + 1
      /\ ~Writes(c) => d.saved = c.saved /\ d.saves = c.saves /\ SavedProgress(d) = SavedProgress(c)
  BY DEF After, SavedProgress, ProgressAt
<1> HIDE DEF d
<1>f. /\ c.label \in Labels \ {"walk", "error"} /\ c.stage \in {"T", "M", "F"}
      /\ c.sweeps \in Nat /\ c.therm \in Nat /\ c.counter \in Nat /\ c.saves \in Nat
      /\ SavedProgress(c) \in Nat /\ ProgressAt(c) = c.therm + c.sweeps
  BY <1>0, PointFields DEF ProgressAt
<1>i. SaveInterval \in Nat \ {0}
  BY Intervals
<1>p. /\ ProgressAt(d) = d.therm + d.sweeps
      /\ SavedProgress(c) <= ProgressAt(c)
  BY <1>0 DEF SaveSound, ProgressAt
<1>3. d.saves = 0 => SavedProgress(d) = 0
  BY <1>0, <1>2, <1>f DEF SaveSound
<1>4. SavedProgress(d) <= ProgressAt(d)
  <2>1. ProgressAt(c) <= ProgressAt(d)
    BY <1>1, <1>f, <1>p
  <2>2. SavedProgress(d) \in {SavedProgress(c), ProgressAt(c)}
    BY <1>2
  <2>3. ProgressAt(c) \in Nat /\ ProgressAt(d) \in Nat
    BY <1>1, <1>f, <1>p
  <2> QED
    BY <1>f, <1>p, <2>1, <2>2, <2>3
<1>5. CASE Writes(c)
  <2>1. c.label = "save" /\ d.label \in {"done", "barrier"}
    BY <1>1, <1>5 DEF Writes, LabelAfter
  <2>2. d.saves # 0 /\ d.saved.therm = d.therm /\ d.saved.sweeps = d.sweeps
    BY <1>1, <1>2, <1>5, <1>f, <2>1
  <2> QED
    BY <1>3, <1>4, <2>1, <2>2 DEF SaveSound, d
<1>6. CASE ~Writes(c)
  <2>1. d.saves = c.saves /\ d.saved = c.saved /\ SavedProgress(d) = SavedProgress(c)
    BY <1>2, <1>6
  <2>2. ASSUME d.label = "save", ~d.exiting PROVE SavedProgress(d) < ProgressAt(d)
    <3>1. CASE c.label = "save"
      <4>1. ProgressAt(d) = ProgressAt(c) /\ ~c.exiting
        BY <1>1, <1>x, <1>p, <1>f, <2>2, <3>1
      <4> QED
        BY <1>0, <2>1, <3>1, <4>1 DEF SaveSound
    <3>2. CASE c.label # "save"
      <4>1. (c.label = "sweep" /\ c.stage = "T") \/ c.label = "countSweep"
        BY <1>1, <1>x, <1>f, <2>2, <3>2 DEF LabelAfter, Fills, Labels
      <4>2. ProgressAt(d) = ProgressAt(c) + 1
        BY <1>1, <1>f, <1>p, <4>1
      <4> QED
        BY <1>f, <1>p, <2>1, <4>2
    <3> QED
      BY <3>1, <3>2
  <2>3. ASSUME JustSaved(d)
        PROVE  d.saves # 0 /\ d.saved.therm = d.therm /\ d.saved.sweeps = d.sweeps
    <3>1. c.label \in {"barrier", "inBarrier"} \/ (c.label = "endSweep" /\ c.counter = 0)
      <4>1. d.label \in {"barrier", "inBarrier", "done", "endSweep"}
        BY <2>3 DEF JustSaved, AtBarrier
      <4>2. CASE d.label \in {"barrier", "inBarrier"}
        BY <1>1, <1>6, <1>f, <4>2 DEF LabelAfter, Writes, Labels
      <4>3. CASE d.label = "done"
        <5>1. c.label = "endSweep" /\ c.stage = "M" /\ c.sweeps = Sweeps
          BY <1>0, <1>1, <1>6, <1>f, <4>3 DEF LabelAfter, StageAfter, Writes, Labels, StageSound
        <5>2. c.counter % SaveInterval = 0 /\ c.counter \in 0..(SaveInterval - 1)
          BY <1>0, <5>1, Intervals DEF CounterSound, Begun, InSweep
        <5>3. c.counter = 0
          BY <1>i, <5>2, Intervals
        <5> QED
          BY <5>1, <5>3
      <4>4. CASE d.label = "endSweep"
        <5>1. d.counter = 0
          BY <2>3, <4>4 DEF JustSaved, AtBarrier
        <5>2. c.label \in {"inBarrier", "sweep", "countSweep"}
          BY <1>1, <1>f, <4>4 DEF LabelAfter, Labels
        <5>3. CASE c.label = "sweep"
          BY <1>1, <1>f, <4>4, <5>1, <5>3 DEF LabelAfter, CounterAfter, StageAfter, Fills
        <5>4. CASE c.label = "countSweep"
          <6>1. c.counter \in 1..SaveInterval
            BY <1>0, <5>4 DEF CounterSound, InSweep
          <6> QED
            BY <1>1, <1>f, <4>4, <5>1, <5>4, <6>1 DEF LabelAfter, CounterAfter, StageAfter, Fills
        <5> QED
          BY <5>2, <5>3, <5>4
      <4> QED
        BY <4>1, <4>2, <4>3, <4>4
    <3>2. JustSaved(c) /\ d.therm = c.therm /\ d.sweeps = c.sweeps
      BY <1>1, <3>1 DEF JustSaved, AtBarrier
    <3> QED
      BY <1>0, <2>1, <3>2 DEF SaveSound
  <2> QED
    BY <1>3, <1>4, <2>2, <2>3 DEF SaveSound, d
<1> QED
  BY <1>5, <1>6

(* Configurations stay consecutive when one is flushed or another is kept. *)
LEMMA FlushedIsConsecutive ==
  ASSUME NEW b \in Seq(Kept), b # <<>>, NEW n \in Nat, Consecutive(b, n), Len(b) <= n
  PROVE  Consecutive(Tail(b), n) /\ Len(Tail(b)) <= n
<1> DEFINE r == Tail(b)
<1>1. /\ Len(r) = Len(b) - 1 /\ Len(b) \in Nat \ {0}
      /\ \A i \in 1..Len(r) : r[i] = b[i + 1]
  OBVIOUS
<1> HIDE DEF r
<1>2. ASSUME NEW i \in 1..Len(r) PROVE r[i].sweep = KeptAt(n - Len(r) + i)
  <2>1. i + 1 \in 1..Len(b) /\ n - Len(b) + (i + 1) = n - Len(r) + i
    BY <1>1
  <2> QED
    BY <1>1, <2>1 DEF Consecutive
<1>3. Len(r) <= n
  BY <1>1
<1> QED
  BY <1>2, <1>3 DEF Consecutive, r

LEMMA KeptIsConsecutive ==
  ASSUME NEW b \in Seq(Kept), NEW n \in Nat, Consecutive(b, n), Len(b) <= n,
         NEW e \in Kept, e.sweep = KeptAt(n + 1)
  PROVE  Consecutive(Append(b, e), n + 1) /\ Len(Append(b, e)) <= n + 1
<1>1. /\ Len(Append(b, e)) = Len(b) + 1 /\ Len(b) \in Nat
      /\ \A i \in 1..Len(b) : Append(b, e)[i] = b[i]
      /\ Append(b, e)[Len(b) + 1] = e
  OBVIOUS
<1>2. ASSUME NEW i \in 1..Len(Append(b, e))
      PROVE  Append(b, e)[i].sweep = KeptAt(n + 1 - Len(Append(b, e)) + i)
  <2>0. n + 1 - Len(Append(b, e)) + i = n - Len(b) + i
    BY <1>1
  <2>1. CASE i \in 1..Len(b)
    BY <1>1, <2>0, <2>1 DEF Consecutive
  <2>2. CASE i = Len(b) + 1
    <3>1. n - Len(b) + i = n + 1
      BY <1>1, <2>2
    <3> QED
      BY <1>1, <2>0, <2>2, <3>1
  <2> QED
    BY <1>1, <2>1, <2>2
<1> QED
  BY <1>1, <1>2 DEF Consecutive

LEMMA DueIsNat == \A n \in Nat, k \in Nat \ {0} : n \div k \in Nat
OBVIOUS

LEMMA AfterStreamSound ==
  ASSUME StreamsInStep,
         NEW c \in SoundPoints, NEW stop \in BOOLEAN, NEW table \in Tables, c.label # "done"
  PROVE  StreamSound(After(c, stop, table))
<1> DEFINE d == After(c, stop, table)
<1>0. c \in Points /\ StageSound(c) /\ CounterSound(c) /\ StreamSound(c)
  BY DEF SoundPoints, Sound
<1>1. /\ d.label = LabelAfter(c, stop) /\ d.stage = StageAfter(c) /\ d.counter = CounterAfter(c)
      /\ d.sweeps = IF c.label = "countSweep" THEN c.sweeps + 1 ELSE c.sweeps
  BY DEF After
<1>b. /\ Flushes(c) => d.buffered = Tail(c.buffered)
      /\ Keeps(c) => d.buffered = Append(c.buffered, [sweep |-> c.sweeps, table |-> c.table])
      /\ ~Flushes(c) /\ ~Keeps(c) => d.buffered = c.buffered
  BY DEF After, Flushes, Keeps
<1>s. StreamSound(After(c, stop, table)) <=> StreamSound(d)
  OBVIOUS
<1> HIDE DEF d
<1>f. /\ c.label \in Labels \ {"walk", "error"} /\ c.stage \in {"T", "M", "F"}
      /\ c.sweeps \in Nat /\ c.counter \in Nat /\ c.table \in Tables
      /\ c.buffered \in Seq(Kept)
  BY <1>0, PointFields
<1>i. /\ ConfigInterval \in Nat \ {0} /\ MeasureInterval \in Nat \ {0}
      /\ SaveInterval \in Nat \ {0} /\ SaveInterval % ConfigInterval = 0
      /\ 0 % ConfigInterval = 0 /\ ConfigInterval % MeasureInterval = 0
  BY Intervals DEF StreamsInStep
<1>n. c.sweeps \in Nat /\ c.sweeps \in Int /\ ConfigInterval \in Nat \ {0}
  BY <1>f, <1>i
<1>2. d.stage = "M" => d.counter % ConfigInterval = Begun(d) % ConfigInterval
  <2> SUFFICES ASSUME d.stage = "M" PROVE d.counter % ConfigInterval = Begun(d) % ConfigInterval
    OBVIOUS
  <2>1. CASE c.label = "sweep"
    <3>1. c.stage = "M" /\ d.counter = c.counter + 1 /\ Begun(c) = c.sweeps
            /\ Begun(d) = c.sweeps + 1
      BY <1>1, <1>f, <2>1 DEF StageAfter, Fills, CounterAfter, LabelAfter, Begun, InSweep
    <3>2. c.counter % ConfigInterval = c.sweeps % ConfigInterval
      BY <1>0, <3>1 DEF StreamSound
    <3> QED
      BY <1>f, <1>i, <3>1, <3>2, InStepModulo
  <2>2. CASE c.label # "sweep" /\ c.stage # "M"
    <3>1. d.counter = 0 /\ Begun(d) = 0
      BY <1>0, <1>1, <1>f, <2>2 DEF StageAfter, CounterAfter, LabelAfter, Begun, InSweep, StageSound
    <3> QED
      BY <3>1
  <2>3. CASE c.label # "sweep" /\ c.stage = "M"
    <3>1. Begun(d) = Begun(c)
            /\ (d.counter = c.counter \/ (c.counter = SaveInterval /\ d.counter = 0))
      BY <1>0, <1>1, <1>f, <2>3 DEF StageAfter, CounterAfter, LabelAfter, Begun, InSweep, Fills,
         Labels
    <3>2. c.counter % ConfigInterval = Begun(c) % ConfigInterval
      BY <1>0, <2>3 DEF StreamSound
    <3> QED
      BY <1>i, <3>1, <3>2
  <2> QED
    BY <2>1, <2>2, <2>3
<1>m. Len(c.buffered) <= Due(c) /\ Consecutive(c.buffered, Due(c))
  BY <1>0 DEF StreamSound
<1>3. Len(d.buffered) <= Due(d) /\ Consecutive(d.buffered, Due(d))
  <2>1. CASE Flushes(c)
    <3>1. d.buffered = Tail(c.buffered) /\ c.buffered # <<>>
      BY <1>b, <2>1 DEF Flushes
    <3>2. Due(d) = Due(c) /\ Due(c) \in Nat
      <4>1. Due(c) = c.sweeps \div ConfigInterval /\ Due(d) = Due(c)
        BY <1>1, <2>1 DEF Due, Flushes, LabelAfter
      <4> QED
        BY <1>n, <4>1, DueIsNat
    <3> QED
      BY <1>f, <1>m, <3>1, <3>2, FlushedIsConsecutive
  <2>2. CASE Keeps(c)
    <3>1. /\ c.label = "insertValue" /\ c.counter % ConfigInterval = 0 /\ ~Flushes(c)
          /\ c.stage = "M" /\ Begun(c) = c.sweeps + 1
      BY <1>0, <2>2 DEF Keeps, Flushes, StageSound, InSweep, Begun
    <3>2. (c.sweeps + 1) % ConfigInterval = 0
      BY <1>0, <3>1 DEF StreamSound
    <3>3. Due(d) = (c.sweeps + 1) \div ConfigInterval /\ Due(c) = c.sweeps \div ConfigInterval
      BY <1>1, <3>1 DEF Due, LabelAfter
    <3>4. /\ (c.sweeps + 1) \div ConfigInterval = (c.sweeps \div ConfigInterval) + 1
          /\ ConfigInterval * ((c.sweeps + 1) \div ConfigInterval) = c.sweeps + 1
      <4>1. c.sweeps % ConfigInterval = ConfigInterval - 1
        <5>1. c.sweeps % ConfigInterval # ConfigInterval - 1 =>
                (c.sweeps + 1) % ConfigInterval = (c.sweeps % ConfigInterval) + 1
          BY <1>n, OneMore
        <5>2. c.sweeps % ConfigInterval \in 0..(ConfigInterval - 1)
          BY <1>n, Division
        <5> QED
          BY <3>2, <5>1, <5>2
      <4> QED
        BY <1>n, <4>1, OneMore
    <3>5. PICK x \in Int : x = (c.sweeps + 1) \div ConfigInterval
      <4>1. c.sweeps + 1 \in Int
        BY <1>n
      <4> QED
        BY <1>n, <4>1, Division
    <3>6. PICK y \in Int : y = c.sweeps \div ConfigInterval
      BY <1>n, Division
    <3>7. x = y + 1 /\ Due(d) = x /\ Due(c) = y /\ ConfigInterval * x = c.sweeps + 1
      BY <3>3, <3>4, <3>5, <3>6
    <3>8. Len(c.buffered) <= y /\ y \in Nat
      BY <1>m, <1>n, <3>3, <3>7, DueIsNat
    <3>9. KeptAt(x) = c.sweeps
      BY <1>n, <3>7 DEF KeptAt
    <3>10. [sweep |-> c.sweeps, table |-> c.table] \in Kept
      BY <1>f DEF Kept
    <3>11. d.buffered = Append(c.buffered, [sweep |-> c.sweeps, table |-> c.table]) 
      BY <1>b, <2>2, <3>1
    <3>12. Consecutive(d.buffered, y + 1) /\ Len(d.buffered) <= y + 1
      BY <1>f, <1>m, <3>7, <3>8, <3>9, <3>10, <3>11, KeptIsConsecutive
    <3> QED
      BY <3>7, <3>8, <3>12
  <2>3. CASE ~Flushes(c) /\ ~Keeps(c)
    <3>1. d.buffered = c.buffered
      BY <1>b, <2>3
    <3>2. Due(d) = Due(c)
      <4>1. CASE c.label = "insertValue" \/ (c.label = "sweep" /\ d.label = "countSweep")
        <5>1. Due(c) = c.sweeps \div ConfigInterval /\ Due(d) = (c.sweeps + 1) \div ConfigInterval
          BY <1>1, <4>1 DEF Due, LabelAfter
        <5>2. (c.sweeps + 1) % ConfigInterval # 0
          <6>1. CASE c.label = "insertValue"
            <7>1. c.counter % ConfigInterval # 0 /\ c.stage = "M" /\ Begun(c) = c.sweeps + 1
              BY <1>0, <2>3, <6>1 DEF Keeps, StageSound, Begun, InSweep
            <7> QED
              BY <1>0, <7>1 DEF StreamSound
          <6>2. CASE c.label = "sweep" /\ d.label = "countSweep"
            <7>1. /\ c.stage = "M" /\ (c.counter + 1) % MeasureInterval # 0
                  /\ Begun(c) = c.sweeps
              BY <1>1, <1>n, <6>2 DEF LabelAfter, Begun, InSweep
            <7>2. (c.counter + 1) % ConfigInterval # 0
              <8>1. c.counter + 1 \in Nat
                BY <1>f
              <8> QED
                BY <1>i, <7>1, <8>1, DueOften
            <7>3. c.counter % ConfigInterval = c.sweeps % ConfigInterval
              BY <1>0, <7>1 DEF StreamSound
            <7>4. (c.counter + 1) % ConfigInterval = (c.sweeps + 1) % ConfigInterval
              BY <1>f, <1>i, <7>3, InStepModulo
            <7> QED
              BY <7>2, <7>4
          <6> QED
            BY <4>1, <6>1, <6>2
        <5>3. c.sweeps % ConfigInterval # ConfigInterval - 1
          BY <1>f, <1>i, <5>2, OneMore
        <5> QED
          BY <1>f, <1>i, <5>1, <5>3, OneMore
      <4>2. CASE ~(c.label = "insertValue" \/ (c.label = "sweep" /\ d.label = "countSweep"))
        BY <1>1, <1>f, <4>2 DEF Due, LabelAfter, Labels
      <4> QED
        BY <4>1, <4>2
    <3> QED
      BY <1>m, <3>1, <3>2
  <2> QED
    BY <2>1, <2>2, <2>3
<1>4. d.label = "done" => d.buffered = <<>>
  <2> SUFFICES ASSUME d.label = "done" PROVE d.buffered = <<>>
    OBVIOUS
  <2>1. CASE c.label = "save"
    BY <1>0, <1>1, <1>b, <1>f, <2>1 DEF LabelAfter, Flushes, Keeps, StageSound
  <2>2. CASE c.label # "save"
    <3>1. c.label = "endSweep" /\ c.stage = "M" /\ c.sweeps = Sweeps
      BY <1>0, <1>1, <1>f, <2>2 DEF LabelAfter, StageAfter, Labels, StageSound
    <3>2. c.counter % SaveInterval = 0 /\ c.counter \in 0..(SaveInterval - 1)
      BY <1>0, <3>1, Intervals DEF CounterSound, Begun, InSweep
    <3>3. c.counter = 0
      BY <1>i, <3>2, Intervals
    <3>4. c.buffered = <<>> /\ ~Flushes(c) /\ ~Keeps(c)
      BY <1>0, <3>1, <3>3 DEF StreamSound, Flushes, Keeps, InSweep
    <3> QED
      BY <1>b, <3>4
  <2> QED
    BY <2>1, <2>2
<1>5. ~InSweep(d) /\ d.label # "save" /\ d.counter = 0 => d.buffered = <<>>
  <2> SUFFICES ASSUME ~InSweep(d), d.label # "save", d.counter = 0 PROVE d.buffered = <<>>
    OBVIOUS
  <2>1. CASE c.label = "save"
    BY <1>0, <1>1, <1>b, <1>f, <2>1 DEF LabelAfter, Flushes, Keeps, StageSound
  <2>2. CASE c.label # "save" /\ ~InSweep(c) /\ c.counter = 0
    <3>1. c.buffered = <<>> /\ ~Flushes(c) /\ ~Keeps(c)
      BY <1>0, <2>2 DEF StreamSound, Flushes, Keeps, InSweep
    <3> QED
      BY <1>b, <3>1
  <2>3. CASE c.label # "save" /\ ~InSweep(c) /\ c.counter # 0
    <3>1. c.stage = "T" \/ d.label = "done"
      BY <1>0, <1>1, <1>f, <2>3 DEF CounterAfter, StageAfter, LabelAfter, Fills, InSweep,
         StageSound, Labels
    <3>2. CASE c.stage = "T"
      BY <1>0, <1>b, <2>3, <3>2 DEF StageSound, Flushes, Keeps, InSweep
    <3> QED
      BY <1>4, <3>1, <3>2
  <2>4. CASE InSweep(c)
    BY <1>0, <1>1, <1>f, <2>4 DEF CounterAfter, StageAfter, LabelAfter, Fills, InSweep, CounterSound
  <2> QED
    BY <2>1, <2>2, <2>3, <2>4
<1> QED
  BY <1>s, <1>2, <1>3, <1>4, <1>5 DEF StreamSound

LEMMA AfterSound ==
  ASSUME NEW c \in SoundPoints, NEW stop \in BOOLEAN, NEW table \in Tables, c.label # "done"
  PROVE  After(c, stop, table) \in SoundPoints
<1>1. c \in Points
  BY DEF SoundPoints
<1> QED
  BY <1>1, AfterTypes, AfterStageSound, AfterCounterSound, AfterSaveSound, AfterStreamSound
     DEF SoundPoints, Sound

LEMMA StartSound == Start \in SoundPoints
<1>t. Identity \in Tables
  BY Constants DEF Identity, Tables
<1>i. /\ SaveInterval \in Nat \ {0} /\ ConfigInterval \in Nat \ {0}
      /\ 0 % SaveInterval = 0 /\ 0 % ConfigInterval = 0 /\ 0 \div ConfigInterval = 0 /\ 0 % 2 = 0
  BY Intervals
<1>1. Start \in Points
  BY <1>t DEF Start, Points, Saved, Labels, FirstStage
<1>2. StageSound(Start)
  BY DEF Start, StageSound, FirstStage, InSweep
<1>3. CounterSound(Start)
  BY <1>i DEF Start, CounterSound, FirstStage, InSweep, Begun
<1>4. SaveSound(Start)
  BY <1>i DEF Start, SaveSound, JustSaved, AtBarrier, SavedProgress, ProgressAt
<1>5. StreamSound(Start)
  BY <1>i DEF Start, StreamSound, InSweep, Begun, Due, Consecutive
<1> QED
  BY <1>1, <1>2, <1>3, <1>4, <1>5 DEF SoundPoints, Sound

LEMMA LaterIsTransitive ==
  ASSUME NEW c \in Points, NEW d \in Points, NEW e \in Points, Later(c, d), Later(d, e)
  PROVE  Later(c, e)
<1>1. /\ c.ups \in Nat /\ c.downs \in Nat /\ c.saves \in Nat /\ c.exiting \in BOOLEAN
      /\ Met(c) \in Int /\ Opened(c) \in Int /\ SavedProgress(c) \in Nat
  BY PointFields DEF Met, Opened
<1>2. /\ d.ups \in Nat /\ d.downs \in Nat /\ d.saves \in Nat /\ d.exiting \in BOOLEAN
      /\ Met(d) \in Int /\ Opened(d) \in Int /\ SavedProgress(d) \in Nat
  BY PointFields DEF Met, Opened
<1>3. /\ e.ups \in Nat /\ e.downs \in Nat /\ e.saves \in Nat /\ e.exiting \in BOOLEAN
      /\ Met(e) \in Int /\ Opened(e) \in Int /\ SavedProgress(e) \in Nat
  BY PointFields DEF Met, Opened
<1>4. c.saves = e.saves => c.saved = e.saved
  BY <1>1, <1>2, <1>3 DEF Later
<1>5. c.saves < e.saves => SavedProgress(c) < SavedProgress(e) \/ e.exiting
  BY <1>1, <1>2, <1>3 DEF Later
<1>6. /\ c.ups <= e.ups /\ c.downs <= e.downs /\ c.saves <= e.saves
      /\ Met(c) <= Met(e) /\ Opened(c) <= Opened(e)
      /\ SavedProgress(c) <= SavedProgress(e)
  BY <1>1, <1>2, <1>3 DEF Later
<1>7. c.ups = e.ups => Met(c) = Met(e)
  BY <1>1, <1>2, <1>3 DEF Later
<1>8. c.downs = e.downs => Opened(c) = Opened(e) /\ c.exiting = e.exiting
  BY <1>1, <1>2, <1>3 DEF Later
<1>9. c.exiting => e.exiting
  BY DEF Later
<1> QED
  BY <1>4, <1>5, <1>6, <1>7, <1>8, <1>9 DEF Later

LEMMA LaterAfter ==
  ASSUME NEW c \in SoundPoints, NEW stop \in BOOLEAN, NEW table \in Tables, c.label # "done"
  PROVE  Later(c, After(c, stop, table))
<1> DEFINE d == After(c, stop, table)
<1>0. c \in Points /\ StageSound(c) /\ SaveSound(c)
  BY DEF SoundPoints, Sound
<1>1. /\ d.label = LabelAfter(c, stop)
      /\ d.ups = c.ups + Count(UpOp(c)) /\ d.downs = c.downs + Count(DownOp(c))
  BY DEF After
<1>x. (c.label = "top" => d.exiting = stop) /\ (c.label # "top" => d.exiting = c.exiting)
  BY DEF After
<1>2. /\ Writes(c) => SavedProgress(d) = ProgressAt(c) /\ d.saves = c.saves + 1
      /\ ~Writes(c) => d.saved = c.saved /\ d.saves = c.saves /\ SavedProgress(d) = SavedProgress(c)
  BY DEF After, SavedProgress, ProgressAt
<1>l. Later(c, After(c, stop, table)) <=> Later(c, d)
  OBVIOUS
<1> HIDE DEF d
<1>f. /\ c.label \in Labels \ {"walk", "error"} /\ c.exiting \in BOOLEAN
           /\ c.stage \in {"T", "M", "F"}
      /\ c.ups \in Nat /\ c.downs \in Nat /\ c.saves \in Nat
      /\ SavedProgress(c) \in Nat /\ ProgressAt(c) \in Nat
  BY <1>0, PointFields
<1>3. c.ups <= d.ups /\ c.downs <= d.downs
  BY <1>1, <1>f DEF Count
<1>e. c.exiting => c.label = "save"
  BY <1>0 DEF StageSound
<1>4. c.saves <= d.saves /\ SavedProgress(c) <= SavedProgress(d)
  <2>1. Writes(c) => SavedProgress(c) <= ProgressAt(c)
    <3>1. Writes(c) => c.label = "save"
      BY DEF Writes
    <3> QED
      BY <1>0, <3>1 DEF SaveSound
  <2> QED
    BY <1>2, <1>f, <2>1
<1>5. /\ c.saves = d.saves => c.saved = d.saved
      /\ c.saves < d.saves => SavedProgress(c) < SavedProgress(d) \/ d.exiting
  BY <1>0, <1>2, <1>x, <1>f DEF SaveSound, Writes
<1>6. /\ c.exiting => d.exiting
      /\ c.downs = d.downs => c.exiting = d.exiting
  BY <1>1, <1>x, <1>f, <1>e DEF Count, DownOp
<1>7. /\ Met(c) <= Met(d)
      /\ c.ups = d.ups => Met(c) = Met(d)
  <2>1. CASE c.label = "save"
    BY <1>1, <1>2, <1>x, <1>f, <2>1 DEF Met, LabelAfter, Writes
  <2>2. CASE c.label = "barrier"
    BY <1>1, <1>2, <1>x, <1>f, <2>2 DEF Met, LabelAfter, Writes, UpOp, Count, Flushes
  <2>3. CASE c.label # "save" /\ c.label # "barrier"
    <3>1. Met(c) = c.saves /\ d.saves = c.saves
      BY <1>2, <2>3 DEF Met, Writes
    <3>2. d.label # "barrier" /\ ~(d.label = "done" /\ d.exiting)
      BY <1>1, <1>x, <1>f, <1>e, <2>3 DEF LabelAfter
    <3> QED
      BY <1>f, <3>1, <3>2 DEF Met
  <2> QED
    BY <2>1, <2>2, <2>3
<1>8. /\ Opened(c) <= Opened(d)
      /\ c.downs = d.downs => Opened(c) = Opened(d)
  <2>1. CASE c.label = "save"
    BY <1>1, <1>2, <1>x, <1>f, <2>1 DEF Opened, AtBarrier, LabelAfter, Writes
  <2>2. CASE c.label \in {"barrier", "inBarrier"}
    BY <1>1, <1>2, <1>x, <1>f, <2>2 DEF Opened, AtBarrier, LabelAfter, Writes, DownOp, Count
  <2>3. CASE c.label \notin {"save", "barrier", "inBarrier"}
    <3>1. Opened(c) = c.saves /\ d.saves = c.saves
      BY <1>2, <2>3 DEF Opened, AtBarrier, Writes
    <3>2. ~AtBarrier(d)
      BY <1>1, <1>x, <1>f, <1>e, <2>3 DEF LabelAfter, AtBarrier
    <3> QED
      BY <1>f, <3>1, <3>2 DEF Opened
  <2> QED
    BY <2>1, <2>2, <2>3
<1> QED
  BY <1>l, <1>3, <1>4, <1>5, <1>6, <1>7, <1>8 DEF Later

-----------------------------------------------------------------------------
(* A history is a sequence of points up to n.  E says where on it a        *)
(* message is sent, V what it may be, and K counts them.  The sequence s   *)
(* is on its way from a process that stands at b to one that stands at a   *)
(* when it holds what is sent from a on and before b.                      *)

History(n, F) ==
  /\ \A i \in Nat : i < n => /\ F[i].label # "done"
                             /\ F[i + 1] = After(F[i], F[i + 1].exiting, F[i + 1].table)
  /\ \A j \in 0..n : \A i \in 0..j : Later(F[i], F[j])

Counts(n, E, K) ==
  /\ \A i \in Nat : i < n => K[i + 1] = K[i] + E[i]
  /\ \A j \in 0..n : \A i \in 0..j : K[i] <= K[j]
OnTheWay(s, E, V, K, a, b) ==
  /\ Len(s) = K[b] - K[a]
  /\ \A i \in Nat : a <= i /\ i < b /\ E[i] = 1 => s[K[i] - K[a] + 1] \in V[i]

(* What a step does to a channel                                           *)
Sends(s, t, e, W)  == IF e = 0 THEN t = s ELSE \E m \in W : t = Append(s, m)
Receives(s, t, e)  == IF e = 0 THEN t = s ELSE s # <<>> /\ t = Tail(s)

LEMMA Counted ==
  ASSUME NEW n \in Nat, NEW E \in [Nat -> {0, 1}], NEW K \in [Nat -> Nat], Counts(n, E, K),
         NEW a \in 0..n, NEW b \in 0..n, NEW i \in Nat, a <= i, i < b, E[i] = 1
  PROVE  K[a] <= K[i] /\ K[i] + 1 <= K[b]
<1>1. i \in 0..n /\ i < n /\ i + 1 \in 0..b /\ a \in 0..i
  OBVIOUS
<1>2. K[i + 1] = K[i] + 1
  BY <1>1 DEF Counts
<1>3. K[a] <= K[i]
  BY <1>1 DEF Counts
<1>4. K[i + 1] <= K[b]
  BY <1>1 DEF Counts
<1> QED
  BY <1>2, <1>3, <1>4

(* Something is sent at point b.                                           *)
LEMMA Posted ==
  ASSUME NEW M, NEW s \in Seq(M), NEW t \in Seq(M),
         NEW n \in Nat, NEW E \in [Nat -> {0, 1}], NEW V \in [Nat -> SUBSET M], NEW K \in [Nat -> Nat],
         NEW a \in 0..n, NEW b \in 0..(n - 1),
         Counts(n, E, K), OnTheWay(s, E, V, K, a, b), Sends(s, t, E[b], V[b])
  PROVE  OnTheWay(t, E, V, K, a, b + 1)
<1>n. b \in Nat /\ b < n /\ a \in Nat /\ K[b] \in Nat /\ K[a] \in Nat /\ Len(s) \in Nat
  OBVIOUS
<1>e. E[b] \in {0, 1}
  BY <1>n
<1>k. K[b + 1] = K[b] + E[b]
  BY <1>n DEF Counts
<1>l. Len(s) = K[b] - K[a]
  BY DEF OnTheWay
<1>2. Len(t) = Len(s) + E[b]
  <2>1. CASE E[b] = 0
    BY <1>n, <2>1 DEF Sends
  <2>2. CASE E[b] = 1
    <3>1. PICK m \in V[b] : t = Append(s, m)
      BY <2>2 DEF Sends
    <3> QED
      BY <1>n, <2>2, <3>1
  <2> QED
    BY <1>e, <2>1, <2>2
<1>3. Len(t) = K[b + 1] - K[a]
  <2>1. PICK e \in {0, 1} : e = E[b]
    BY <1>e
  <2>2. K[b + 1] = K[b] + e /\ Len(t) = Len(s) + e
    BY <1>k, <1>2, <2>1
  <2> QED
    BY <1>n, <1>l, <2>2
<1>4. ASSUME NEW i \in Nat, a <= i, i < b + 1, E[i] = 1
      PROVE  t[K[i] - K[a] + 1] \in V[i]
  <2>1. CASE i = b
    <3>1. PICK m \in V[b] : t = Append(s, m)
      BY <1>4, <2>1 DEF Sends
    <3>2. t[Len(s) + 1] = m
      BY <3>1
    <3> QED
      BY <1>l, <2>1, <3>1, <3>2
  <2>2. CASE i # b
    <3>1. i < b /\ a \in 0..n /\ b \in 0..n
      BY <1>4, <2>2
    <3>2. K[a] <= K[i] /\ K[i] + 1 <= K[b]
      BY <1>4, <3>1, Counted
    <3>3. PICK k \in 1..Len(s) : k = K[i] - K[a] + 1
      <4>a. K[i] \in Nat
        OBVIOUS
      <4>1. PICK x \in Nat, y \in Nat, z \in Nat : x = K[a] /\ y = K[i] /\ z = K[b]
        BY <1>n, <4>a
      <4>2. x <= y /\ y + 1 <= z /\ Len(s) = z - x
        BY <1>l, <3>2, <4>1
      <4>3. y - x + 1 \in 1..Len(s)
        BY <4>2
      <4> QED
        BY <4>1, <4>3
    <3>4. t[k] = s[k]
      <4>1. t = s \/ \E m \in V[b] : t = Append(s, m)
        BY DEF Sends
      <4>2. ASSUME NEW m \in V[b], t = Append(s, m) PROVE t[k] = s[k]
        <5>1. m \in M
          BY <1>n
        <5>2. Append(s, m)[k] = s[k]
          BY <3>3, <5>1, AppendProperties
        <5> QED
          BY <4>2, <5>2
      <4> QED
        BY <4>1, <4>2
    <3>5. s[k] \in V[i]
      BY <1>4, <3>1, <3>3 DEF OnTheWay
    <3> QED
      BY <3>3, <3>4, <3>5
  <2> QED
    BY <2>1, <2>2
<1> QED
  BY <1>3, <1>4 DEF OnTheWay

(* What arrives at point a is what is sent there.                          *)
LEMMA Arrives ==
  ASSUME NEW M, NEW s \in Seq(M), s # <<>>,
         NEW n \in Nat, NEW E \in [Nat -> {0, 1}], NEW V, NEW K \in [Nat -> Nat],
         NEW a \in 0..n, NEW b \in 0..n,
         Counts(n, E, K), OnTheWay(s, E, V, K, a, b)
  PROVE  a < b /\ (E[a] = 1 => Head(s) \in V[a])
<1>1. Len(s) \in Nat \ {0} /\ K[a] \in Nat /\ K[b] \in Nat
  OBVIOUS
<1>2. a < b
  <2>1. CASE b <= a
    <3>1. b \in 0..a
      BY <2>1
    <3>2. K[b] <= K[a]
      BY <3>1 DEF Counts
    <3> QED
      BY <1>1, <3>2 DEF OnTheWay
  <2> QED
    BY <2>1
<1>3. K[a] - K[a] + 1 = 1 /\ Head(s) = s[1]
  BY <1>1
<1>4. E[a] = 1 => s[K[a] - K[a] + 1] \in V[a]
  <2>1. a \in Nat /\ a <= a
    OBVIOUS
  <2>2. \A i \in Nat : a <= i /\ i < b /\ E[i] = 1 => s[K[i] - K[a] + 1] \in V[i]
    BY DEF OnTheWay
  <2> HIDE DEF OnTheWay
  <2> QED
    BY <1>2, <2>1, <2>2
<1> QED
  BY <1>2, <1>3, <1>4

LEMMA Taken ==
  ASSUME NEW M, NEW s \in Seq(M), NEW t \in Seq(M),
         NEW n \in Nat, NEW E \in [Nat -> {0, 1}], NEW V, NEW K \in [Nat -> Nat],
         NEW a \in 0..(n - 1), NEW b \in 0..n,
         Counts(n, E, K), OnTheWay(s, E, V, K, a, b), Receives(s, t, E[a])
  PROVE  OnTheWay(t, E, V, K, a + 1, b)
<1>n. a \in Nat /\ a < n /\ b \in Nat /\ K[b] \in Nat /\ K[a] \in Nat /\ Len(s) \in Nat
  OBVIOUS
<1>e. E[a] \in {0, 1}
  BY <1>n
<1>k. K[a + 1] = K[a] + E[a]
  BY <1>n DEF Counts
<1>l. Len(s) = K[b] - K[a]
  BY DEF OnTheWay
<1>2. Len(t) = Len(s) - E[a]
  <2>1. CASE E[a] = 0
    BY <1>n, <2>1 DEF Receives
  <2>2. CASE E[a] = 1
    <3>1. s # <<>> /\ t = Tail(s)
      BY <2>2 DEF Receives
    <3> QED
      BY <1>n, <2>2, <3>1
  <2> QED
    BY <1>e, <2>1, <2>2
<1>3. Len(t) = K[b] - K[a + 1]
  <2>1. PICK e \in {0, 1} : e = E[a]
    BY <1>e
  <2>2. K[a + 1] = K[a] + e /\ Len(t) = Len(s) - e
    BY <1>k, <1>2, <2>1
  <2> QED
    BY <1>n, <1>l, <2>2
<1>4. ASSUME NEW i \in Nat, a + 1 <= i, i < b, E[i] = 1
      PROVE  t[K[i] - K[a + 1] + 1] \in V[i]
  <2>1. s[K[i] - K[a] + 1] \in V[i]
    <3>1. a <= i
      BY <1>n, <1>4
    <3> QED
      BY <1>4, <3>1 DEF OnTheWay
  <2>2. CASE E[a] = 0
    <3>1. t = s /\ K[a + 1] = K[a]
      BY <1>n, <1>k, <2>2 DEF Receives
    <3> QED
      BY <2>1, <3>1
  <2>3. CASE E[a] = 1
    <3>1. a + 1 \in 0..n
      BY <1>n
    <3>2. K[a + 1] <= K[i] /\ K[i] + 1 <= K[b]
      BY <1>4, <3>1, Counted
    <3>3. K[a + 1] = K[a] + 1
      BY <1>k, <2>3
    <3>4. PICK k \in 1..(Len(s) - 1) : k = K[i] - K[a] /\ K[i] - K[a + 1] + 1 = k
      <4>a. K[i] \in Nat
        OBVIOUS
      <4>1. PICK x \in Nat, y \in Nat, z \in Nat : x = K[a] /\ y = K[i] /\ z = K[b]
        BY <1>n, <4>a
      <4>2. x + 1 <= y /\ y + 1 <= z /\ Len(s) = z - x /\ K[a + 1] = x + 1
        BY <1>l, <3>2, <3>3, <4>1
      <4>3. y - x \in 1..(Len(s) - 1) /\ y - (x + 1) + 1 = y - x
        BY <4>2
      <4> QED
        BY <4>1, <4>2, <4>3
    <3>5. t[k] = s[k + 1]
      <4>1. s # <<>> /\ t = Tail(s)
        BY <2>3 DEF Receives
      <4> QED
        BY <3>4, <4>1
    <3>6. K[i] - K[a] + 1 = k + 1
      BY <3>4
    <3> QED
      BY <2>1, <3>4, <3>5, <3>6
  <2> QED
    BY <1>e, <2>2, <2>3
<1> QED
  BY <1>3, <1>4 DEF OnTheWay

-----------------------------------------------------------------------------
(* The processes along a history: p is what Projected(p, F[pos[p]]) says,  *)
(* and what was sent and not yet received is on its way.                   *)

Own(p, e) == [conf |-> [par |-> e.table[p], sweep |-> e.sweep], cpi |-> e.table[p]]
OwnAll(p, b) == [i \in 1..Len(b) |-> Own(p, b[i])]
FileOf(p, c) ==
  IF c.saves = 0 THEN NoFile
  ELSE [therm |-> c.saved.therm, sweeps |-> c.saved.sweeps, counter |-> c.saved.counter,
        par |-> c.saved.table[p], ctrl |-> c.saved.table[p]]
Projected(p, c) ==
  [label |-> c.label, stage |-> c.stage, therm |-> c.therm, sweeps |-> c.sweeps,
   counter |-> c.counter, exiting |-> c.exiting,
   par |-> c.table[p], rpar |-> c.table[p], ctrl |-> c.table[p],
   buffered |-> OwnAll(p, c.buffered), file |-> FileOf(p, c),
   fits |-> TRUE, rootTable |-> IF p = Root /\ c.label # "assign" THEN c.table ELSE <<>>,
   kept |-> IF p = Root THEN c.saved.table ELSE <<>>]

UpSays(q, c) ==
  {m \in UpMessage : /\ m.op = UpOp(c)
                     /\ m.op = "insertValue" => m.value = [par |-> c.table[q], sweep |-> c.sweeps]
                     /\ m.op = "configuration" => m.item = Own(q, Head(c.buffered))
                     /\ m.op = "exchange" => m.ctrl = c.table[q]
                     /\ m.op = "check" => m.par = c.table[q]}
DownSays(q, c, d) ==
  {m \in DownMessage : /\ m.op = DownOp(c)
                       /\ m.op = "stop_now" => m.value = d.exiting
                       /\ m.op = "assign" => m.par = d.table[q] /\ m.ctrl = d.table[q]}

UpAt(F)      == [i \in Nat |-> Count(UpOp(F[i]))]
DownAt(F)    == [i \in Nat |-> Count(DownOp(F[i]))]
UpSaid(q, F)   == [i \in Nat |-> UpSays(q, F[i])]
DownSaid(q, F) == [i \in Nat |-> DownSays(q, F[i], F[i + 1])]
UpBefore(F)   == [i \in Nat |-> F[i].ups]
DownBefore(F) == [i \in Nat |-> F[i].downs]

Along(n, F, pos, view, u, d) ==
  /\ History(n, F)
  /\ \A p \in Proc : pos[p] \in 0..n /\ view[p] = Projected(p, F[pos[p]])
  /\ \A q \in Workers :
       /\ OnTheWay(u[q], UpAt(F), UpSaid(q, F), UpBefore(F), pos[Root], pos[q])
       /\ OnTheWay(d[q], DownAt(F), DownSaid(q, F), DownBefore(F), pos[q], pos[Root])

(* Nobody has gone on where the root has not spoken yet.                   *)
InLockstep(view, u, d) ==
  \E n \in Nat, F \in [Nat -> SoundPoints], pos \in [Proc -> Nat] :
    Along(n, F, pos, view, u, d) /\ F[n].downs = F[pos[Root]].downs

LEMMA HistoryCounts ==
  ASSUME NEW n \in Nat, NEW F \in [Nat -> SoundPoints], History(n, F)
  PROVE  /\ Counts(n, UpAt(F), UpBefore(F)) /\ Counts(n, DownAt(F), DownBefore(F))
         /\ UpAt(F) \in [Nat -> {0, 1}] /\ DownAt(F) \in [Nat -> {0, 1}]
         /\ UpBefore(F) \in [Nat -> Nat] /\ DownBefore(F) \in [Nat -> Nat]
         /\ \A q \in Workers : /\ UpSaid(q, F) \in [Nat -> SUBSET UpMessage]
                               /\ DownSaid(q, F) \in [Nat -> SUBSET DownMessage]
<1>1. ASSUME NEW i \in Nat, i < n
      PROVE  /\ UpBefore(F)[i + 1] = UpBefore(F)[i] + UpAt(F)[i]
             /\ DownBefore(F)[i + 1] = DownBefore(F)[i] + DownAt(F)[i]
  <2>1. F[i + 1] = After(F[i], F[i + 1].exiting, F[i + 1].table) /\ i + 1 \in Nat
    BY <1>1 DEF History
  <2>2. /\ F[i + 1].ups = F[i].ups + Count(UpOp(F[i]))
        /\ F[i + 1].downs = F[i].downs + Count(DownOp(F[i]))
    BY <2>1 DEF After
  <2> QED
    BY <2>1, <2>2 DEF UpBefore, DownBefore, UpAt, DownAt
<1>2. ASSUME NEW j \in 0..n, NEW i \in 0..j
      PROVE  UpBefore(F)[i] <= UpBefore(F)[j] /\ DownBefore(F)[i] <= DownBefore(F)[j]
  <2>1. Later(F[i], F[j]) /\ i \in Nat /\ j \in Nat
    BY DEF History
  <2> QED
    BY <2>1 DEF Later, UpBefore, DownBefore
<1>3. \A i \in Nat : F[i].ups \in Nat /\ F[i].downs \in Nat
  BY PointFields DEF SoundPoints
<1>4. /\ UpAt(F) \in [Nat -> {0, 1}] /\ DownAt(F) \in [Nat -> {0, 1}]
      /\ UpBefore(F) \in [Nat -> Nat] /\ DownBefore(F) \in [Nat -> Nat]
  BY <1>3 DEF UpAt, DownAt, UpBefore, DownBefore, Count
<1>5. \A q \in Workers : /\ UpSaid(q, F) \in [Nat -> SUBSET UpMessage]
                         /\ DownSaid(q, F) \in [Nat -> SUBSET DownMessage]
  BY DEF UpSaid, DownSaid, UpSays, DownSays
<1> QED
  BY <1>1, <1>2, <1>4, <1>5 DEF Counts

LEMMA LaterReflexive ==
  ASSUME NEW c \in SoundPoints
  PROVE  Later(c, c)
<1>1. /\ c.ups \in Nat /\ c.downs \in Nat /\ c.saves \in Nat
      /\ Met(c) \in Int /\ Opened(c) \in Int /\ SavedProgress(c) \in Nat
  BY PointFields DEF Met, Opened, SoundPoints
<1> QED
  BY <1>1 DEF Later

(* The history reaches beyond the point where the foremost goes on.        *)
LEMMA HistoryExtends ==
  ASSUME NEW n \in Nat, NEW F \in [Nat -> SoundPoints], History(n, F), F[n].label # "done",
         NEW stop \in BOOLEAN, NEW table \in Tables
  PROVE  \E F2 \in [Nat -> SoundPoints] :
           /\ History(n + 1, F2)
           /\ \A i \in 0..n : F2[i] = F[i]
           /\ F2[n + 1] = After(F[n], stop, table)
<1> DEFINE c == After(F[n], stop, table)
<1>0. c = After(F[n], stop, table)
  OBVIOUS
<1>1. c \in SoundPoints /\ Later(F[n], c)
  BY AfterSound, LaterAfter
<1>2. c = After(F[n], c.exiting, c.table)
  BY DEF After, LabelAfter
<1> HIDE DEF c
<1>3. PICK F2 \in [Nat -> SoundPoints] : F2 = [F EXCEPT ![n + 1] = c]
  BY <1>1
<1>4. F2[n + 1] = c /\ \A i \in Nat : i <= n => F2[i] = F[i]
  BY <1>3
<1>5. ASSUME NEW i \in Nat, i < n + 1
      PROVE  /\ F2[i].label # "done"
             /\ F2[i + 1] = After(F2[i], F2[i + 1].exiting, F2[i + 1].table)
  <2>1. CASE i = n
    BY <1>2, <1>4, <2>1
  <2>2. CASE i # n
    <3>1. i < n /\ i <= n /\ i + 1 <= n /\ i + 1 \in Nat
      BY <1>5, <2>2
    <3> QED
      BY <1>4, <3>1 DEF History
  <2> QED
    BY <2>1, <2>2
<1>6. ASSUME NEW j \in 0..(n + 1), NEW i \in 0..j
      PROVE  Later(F2[i], F2[j])
  <2>1. CASE j <= n
    <3>1. j \in 0..n /\ i \in 0..n /\ i \in Nat /\ j \in Nat
      BY <2>1
    <3> QED
      BY <1>4, <1>6, <2>1, <3>1 DEF History
  <2>2. CASE j = n + 1 /\ i <= n
    <3>1. n \in 0..n /\ i \in 0..n /\ i \in Nat
      BY <2>2
    <3>2. Later(F[i], F[n])
      BY <3>1 DEF History
    <3>3. F[i] \in Points /\ F[n] \in Points /\ c \in Points
      BY <1>1, <3>1 DEF SoundPoints
    <3> QED
      BY <1>1, <1>4, <2>2, <3>1, <3>2, <3>3, LaterIsTransitive
  <2>3. CASE j = n + 1 /\ i = n + 1
    BY <1>1, <1>4, <2>3, LaterReflexive
  <2> QED
    BY <1>6, <2>1, <2>2, <2>3
<1>7. History(n + 1, F2)
  BY <1>5, <1>6 DEF History
<1>8. \A i \in 0..n : F2[i] = F[i]
  BY <1>4
<1> WITNESS F2 \in [Nat -> SoundPoints]
<1> QED
  BY <1>0, <1>4, <1>7, <1>8

LEMMA SameWay ==
  ASSUME NEW n \in Nat, NEW F \in [Nat -> SoundPoints], NEW F2 \in [Nat -> SoundPoints],
         NEW a \in 0..n, NEW b \in 0..n, \A i \in 0..n : F2[i] = F[i], NEW s, NEW q
  PROVE  /\ OnTheWay(s, UpAt(F), UpSaid(q, F), UpBefore(F), a, b)
            => OnTheWay(s, UpAt(F2), UpSaid(q, F2), UpBefore(F2), a, b)
         /\ OnTheWay(s, DownAt(F), DownSaid(q, F), DownBefore(F), a, b)
            => OnTheWay(s, DownAt(F2), DownSaid(q, F2), DownBefore(F2), a, b)
<1>1. ASSUME NEW i \in Nat, a <= i, i < b
      PROVE  /\ UpAt(F2)[i] = UpAt(F)[i] /\ UpSaid(q, F2)[i] = UpSaid(q, F)[i]
             /\ DownAt(F2)[i] = DownAt(F)[i] /\ DownSaid(q, F2)[i] = DownSaid(q, F)[i]
             /\ UpBefore(F2)[i] = UpBefore(F)[i] /\ DownBefore(F2)[i] = DownBefore(F)[i]
  <2>1. i \in 0..n /\ i + 1 \in 0..n
    BY <1>1
  <2> QED
    BY <2>1 DEF UpAt, DownAt, UpSaid, DownSaid, UpBefore, DownBefore
<1>2. /\ UpBefore(F2)[a] = UpBefore(F)[a] /\ UpBefore(F2)[b] = UpBefore(F)[b]
      /\ DownBefore(F2)[a] = DownBefore(F)[a] /\ DownBefore(F2)[b] = DownBefore(F)[b]
  BY DEF UpBefore, DownBefore
<1> QED
  BY <1>1, <1>2 DEF OnTheWay

LEMMA Beyond ==
  ASSUME NEW n \in Nat, NEW F \in [Nat -> SoundPoints], NEW pos \in [Proc -> Nat],
         NEW view, NEW u, NEW d, Along(n, F, pos, view, u, d),
         F[n].label # "done", NEW stop \in BOOLEAN, NEW table \in Tables
  PROVE  \E F2 \in [Nat -> SoundPoints] :
           /\ Along(n + 1, F2, pos, view, u, d)
           /\ \A i \in 0..n : F2[i] = F[i]
           /\ F2[n + 1] = After(F[n], stop, table)
<1>1. History(n, F)
  BY DEF Along
<1>2. PICK F2 \in [Nat -> SoundPoints] :
        /\ History(n + 1, F2)
        /\ \A i \in 0..n : F2[i] = F[i]
        /\ F2[n + 1] = After(F[n], stop, table)
  BY <1>1, HistoryExtends
<1>3. \A p \in Proc : pos[p] \in 0..n /\ view[p] = Projected(p, F[pos[p]])
  BY DEF Along
<1>4. ASSUME NEW p \in Proc
      PROVE  pos[p] \in 0..(n + 1) /\ view[p] = Projected(p, F2[pos[p]])
  <2>1. F2[pos[p]] = F[pos[p]]
    BY <1>2, <1>3
  <2> QED
    BY <1>3, <2>1
<1>5. ASSUME NEW q \in Workers
      PROVE  /\ OnTheWay(u[q], UpAt(F2), UpSaid(q, F2), UpBefore(F2), pos[Root], pos[q])
             /\ OnTheWay(d[q], DownAt(F2), DownSaid(q, F2), DownBefore(F2), pos[q], pos[Root])
  <2>1. pos[q] \in 0..n /\ pos[Root] \in 0..n
    BY <1>3, Constants
  <2>2. /\ OnTheWay(u[q], UpAt(F), UpSaid(q, F), UpBefore(F), pos[Root], pos[q])
        /\ OnTheWay(d[q], DownAt(F), DownSaid(q, F), DownBefore(F), pos[q], pos[Root])
    BY DEF Along
  <2>3. \A i \in 0..n : F2[i] = F[i]
    BY <1>2
  <2>4. OnTheWay(u[q], UpAt(F2), UpSaid(q, F2), UpBefore(F2), pos[Root], pos[q])
    BY <2>1, <2>2, <2>3, SameWay
  <2>5. OnTheWay(d[q], DownAt(F2), DownSaid(q, F2), DownBefore(F2), pos[q], pos[Root])
    BY <2>1, <2>2, <2>3, SameWay
  <2> QED
    BY <2>4, <2>5
<1>6. Along(n + 1, F2, pos, view, u, d)
  BY <1>2, <1>4, <1>5 DEF Along
<1> WITNESS F2 \in [Nat -> SoundPoints]
<1> QED
  BY <1>2, <1>6

(* What a step of worker q, and of the root, must do to the views and the  *)
(* channels to be a step of the program.                                   *)
Heard(q, view, d) ==
  \A c \in SoundPoints : view[q] = Projected(q, c) /\ DownOp(c) # "none" => d[q] # <<>>
WorkerMoves(q, view, view2, u, u2, d, d2) ==
  /\ view[q].label # "done"
  /\ \A p \in Proc \ {q} : view2[p] = view[p]
  /\ \A r \in Workers \ {q} : u2[r] = u[r] /\ d2[r] = d[r]
  /\ Heard(q, view, d)
  /\ \A c \in SoundPoints, stop \in BOOLEAN, table \in Tables :
       /\ view[q] = Projected(q, c)
       /\ DownOp(c) # "none" => Head(d[q]) \in DownSays(q, c, After(c, stop, table))
       => /\ view2[q] = Projected(q, After(c, stop, table))
          /\ Sends(u[q], u2[q], Count(UpOp(c)), UpSays(q, c))
          /\ Receives(d[q], d2[q], Count(DownOp(c)))

RootMovesTo(stop, table, view, view2, u, u2, d, d2) ==
  \A c \in SoundPoints :
    /\ view[Root] = Projected(Root, c)
    /\ UpOp(c) # "none" => \A q \in Workers : Head(u[q]) \in UpSays(q, c)
    => /\ view2[Root] = Projected(Root, After(c, stop, table))
       /\ \A q \in Workers :
            /\ Receives(u[q], u2[q], Count(UpOp(c)))
            /\ Sends(d[q], d2[q], Count(DownOp(c)), DownSays(q, c, After(c, stop, table)))
RootMoves(view, view2, u, u2, d, d2) ==
  /\ view[Root].label # "done"
  /\ \A p \in Workers : view2[p] = view[p]
  /\ \A c \in SoundPoints :
       view[Root] = Projected(Root, c) /\ UpOp(c) # "none" => \A q \in Workers : u[q] # <<>>
  /\ \E stop \in BOOLEAN, table \in Tables : RootMovesTo(stop, table, view, view2, u, u2, d, d2)

ChannelsOf(u, d) == \A q \in Workers : u[q] \in Seq(UpMessage) /\ d[q] \in Seq(DownMessage)

(* There is a history that reaches beyond a worker that moves.             *)
LEMMA WorkerHasRoom ==
  ASSUME NEW view, NEW u, NEW d, InLockstep(view, u, d),
         NEW q \in Workers, ChannelsOf(u, d), view[q].label # "done", Heard(q, view, d)
  PROVE  \E n \in Nat, F \in [Nat -> SoundPoints], pos \in [Proc -> Nat] :
           /\ Along(n, F, pos, view, u, d) /\ F[n].downs = F[pos[Root]].downs
           /\ pos[q] < n
<1>c. Root \in Proc /\ q \in Proc
  BY Constants
<1>1. PICK n \in Nat, F \in [Nat -> SoundPoints], pos \in [Proc -> Nat] :
        Along(n, F, pos, view, u, d) /\ F[n].downs = F[pos[Root]].downs
  BY DEF InLockstep
<1>2. /\ pos[q] \in 0..n /\ view[q] = Projected(q, F[pos[q]]) /\ pos[Root] \in 0..n
      /\ OnTheWay(d[q], DownAt(F), DownSaid(q, F), DownBefore(F), pos[q], pos[Root])
      /\ History(n, F)
  BY <1>1, <1>c DEF Along
<1>3. CASE pos[q] < n
  BY <1>1, <1>3
<1>4. CASE pos[q] = n
  <2>1. F[n] \in SoundPoints /\ F[n].table \in Tables /\ F[n].label # "done" /\ F[n].downs \in Nat
    <3>1. F[n] \in SoundPoints /\ F[n] \in Points
      BY DEF SoundPoints
    <3>2. view[q].label = F[n].label
      BY <1>2, <1>4 DEF Projected
    <3> QED
      BY <3>1, <3>2, PointFields
  <2>2. DownOp(F[n]) = "none"
    <3> SUFFICES ASSUME DownOp(F[n]) # "none" PROVE FALSE
      OBVIOUS
    <3>1. d[q] # <<>> /\ d[q] \in Seq(DownMessage)
      BY <1>2, <1>4, <2>1 DEF Heard, ChannelsOf
    <3>2. /\ Counts(n, DownAt(F), DownBefore(F))
          /\ DownAt(F) \in [Nat -> {0, 1}] /\ DownBefore(F) \in [Nat -> Nat]
      BY <1>2, HistoryCounts
    <3>3. pos[q] < pos[Root]
      BY <1>2, <3>1, <3>2, Arrives
    <3> QED
      BY <1>2, <1>4, <3>3
  <2>3. PICK F2 \in [Nat -> SoundPoints] :
          /\ Along(n + 1, F2, pos, view, u, d)
          /\ \A i \in 0..n : F2[i] = F[i]
          /\ F2[n + 1] = After(F[n], FALSE, F[n].table)
    <3>1. FALSE \in BOOLEAN /\ F[n].table \in Tables /\ F[n].label # "done"
      BY <2>1
    <3>2. Along(n, F, pos, view, u, d)
      BY <1>1
    <3>3. PICK stop \in BOOLEAN, table \in Tables : stop = FALSE /\ table = F[n].table
      BY <3>1
    <3>4. \E F2 \in [Nat -> SoundPoints] :
            /\ Along(n + 1, F2, pos, view, u, d)
            /\ \A i \in 0..n : F2[i] = F[i]
            /\ F2[n + 1] = After(F[n], stop, table)
      BY <3>1, <3>2, Beyond
    <3> QED
      BY <3>3, <3>4
  <2>4. F2[n + 1].downs = F2[pos[Root]].downs
    <3>1. F2[n + 1].downs = F[n].downs + Count(DownOp(F[n]))
      BY <2>3 DEF After
    <3>2. Count(DownOp(F[n])) = 0
      BY <2>2 DEF Count
    <3>3. F2[pos[Root]] = F[pos[Root]]
      BY <1>2, <2>3
    <3> QED
      BY <1>1, <2>1, <3>1, <3>2, <3>3
  <2>5. n + 1 \in Nat /\ pos[q] < n + 1
    BY <1>4
  <2> QED
    BY <2>3, <2>4, <2>5
<1>5. pos[q] < n \/ pos[q] = n
  <2>1. pos[q] \in 0..n
    BY <1>2
  <2> QED
    BY <2>1
<1> QED
  BY <1>3, <1>4, <1>5

LEMMA WorkerStaysInLockstep ==
  ASSUME NEW view, NEW view2,
         NEW u, NEW u2, NEW d, NEW d2, ChannelsOf(u, d), ChannelsOf(u2, d2),
         InLockstep(view, u, d), NEW q \in Workers, WorkerMoves(q, view, view2, u, u2, d, d2)
  PROVE  InLockstep(view2, u2, d2)
<1>c. Root \in Proc /\ q \in Proc /\ Root # q
  BY Constants DEF Workers
<1>1. PICK n \in Nat, F \in [Nat -> SoundPoints], pos \in [Proc -> Nat] :
        /\ Along(n, F, pos, view, u, d) /\ F[n].downs = F[pos[Root]].downs
        /\ pos[q] < n
  BY WorkerHasRoom DEF WorkerMoves
<1>a. /\ pos[q] \in 0..(n - 1) /\ pos[q] \in 0..n /\ pos[q] \in Nat /\ pos[Root] \in 0..n
      /\ view[q] = Projected(q, F[pos[q]]) /\ History(n, F)
      /\ OnTheWay(u[q], UpAt(F), UpSaid(q, F), UpBefore(F), pos[Root], pos[q])
      /\ OnTheWay(d[q], DownAt(F), DownSaid(q, F), DownBefore(F), pos[q], pos[Root])
  BY <1>1, <1>c DEF Along
<1>k. /\ Counts(n, UpAt(F), UpBefore(F)) /\ Counts(n, DownAt(F), DownBefore(F))
      /\ UpAt(F) \in [Nat -> {0, 1}] /\ DownAt(F) \in [Nat -> {0, 1}]
      /\ UpBefore(F) \in [Nat -> Nat] /\ DownBefore(F) \in [Nat -> Nat]
      /\ UpSaid(q, F) \in [Nat -> SUBSET UpMessage]
           /\ DownSaid(q, F) \in [Nat -> SUBSET DownMessage]
  BY <1>a, HistoryCounts
<1>2. PICK c \in SoundPoints, e \in SoundPoints, stop \in BOOLEAN, table \in Tables :
        /\ c = F[pos[q]] /\ e = F[pos[q] + 1] /\ e = After(c, stop, table)
  <2>1. F[pos[q]] \in SoundPoints /\ F[pos[q] + 1] \in SoundPoints
    BY <1>a
  <2>2. F[pos[q] + 1] = After(F[pos[q]], F[pos[q] + 1].exiting, F[pos[q] + 1].table)
    BY <1>1, <1>a DEF History
  <2>3. F[pos[q] + 1].exiting \in BOOLEAN /\ F[pos[q] + 1].table \in Tables
    BY <2>1, PointFields DEF SoundPoints
  <2> QED
    BY <2>1, <2>2, <2>3
<1>3. /\ UpAt(F)[pos[q]] = Count(UpOp(c)) /\ DownAt(F)[pos[q]] = Count(DownOp(c))
      /\ UpSaid(q, F)[pos[q]] = UpSays(q, c) /\ DownSaid(q, F)[pos[q]] = DownSays(q, c, e)
  BY <1>a, <1>2 DEF UpAt, DownAt, UpSaid, DownSaid
<1>4. DownOp(c) # "none" => Head(d[q]) \in DownSays(q, c, e)
  <2> SUFFICES ASSUME DownOp(c) # "none" PROVE Head(d[q]) \in DownSays(q, c, e)
    OBVIOUS
  <2>1. d[q] # <<>> /\ d[q] \in Seq(DownMessage)
    BY <1>a, <1>2 DEF WorkerMoves, Heard, ChannelsOf
  <2>2. DownAt(F)[pos[q]] = 1
    BY <1>3 DEF Count
  <2>3. Head(d[q]) \in DownSaid(q, F)[pos[q]]
    BY <1>a, <1>k, <2>1, <2>2, Arrives
  <2> QED
    BY <1>3, <2>3
<1>5. /\ view2[q] = Projected(q, e)
      /\ Sends(u[q], u2[q], UpAt(F)[pos[q]], UpSaid(q, F)[pos[q]])
      /\ Receives(d[q], d2[q], DownAt(F)[pos[q]])
  BY <1>a, <1>2, <1>3, <1>4 DEF WorkerMoves
<1>6. /\ u[q] \in Seq(UpMessage) /\ u2[q] \in Seq(UpMessage)
      /\ d[q] \in Seq(DownMessage) /\ d2[q] \in Seq(DownMessage)
  BY DEF ChannelsOf
<1>7. OnTheWay(u2[q], UpAt(F), UpSaid(q, F), UpBefore(F), pos[Root], pos[q] + 1)
  BY <1>a, <1>k, <1>5, <1>6, Posted
<1>8. OnTheWay(d2[q], DownAt(F), DownSaid(q, F), DownBefore(F), pos[q] + 1, pos[Root])
  BY <1>a, <1>k, <1>5, <1>6, Taken
<1>9. PICK pos2 \in [Proc -> Nat] :
        pos2[q] = pos[q] + 1 /\ \A p \in Proc \ {q} : pos2[p] = pos[p]
  <2>1. pos[q] + 1 \in Nat
    BY <1>a
  <2>2. PICK x \in Nat : x = pos[q] + 1
    BY <2>1
  <2>3. /\ [pos EXCEPT ![q] = x] \in [Proc -> Nat] /\ [pos EXCEPT ![q] = x][q] = x
        /\ \A p \in Proc \ {q} : [pos EXCEPT ![q] = x][p] = pos[p]
    BY <1>c
  <2> QED
    BY <2>2, <2>3
<1>10. ASSUME NEW p \in Proc PROVE pos2[p] \in 0..n /\ view2[p] = Projected(p, F[pos2[p]])
  <2>1. CASE p = q
    <3>1. pos[q] + 1 \in 0..n
      BY <1>a
    <3>2. view2[q] = Projected(q, F[pos[q] + 1])
      BY <1>2, <1>5
    <3> QED
      BY <1>9, <2>1, <3>1, <3>2
  <2>2. CASE p # q
    BY <1>1, <1>9, <2>2 DEF WorkerMoves, Along
  <2> QED
    BY <2>1, <2>2
<1>11. ASSUME NEW r \in Workers
       PROVE  /\ OnTheWay(u2[r], UpAt(F), UpSaid(r, F), UpBefore(F), pos2[Root], pos2[r])
              /\ OnTheWay(d2[r], DownAt(F), DownSaid(r, F), DownBefore(F), pos2[r], pos2[Root])
  <2>1. CASE r = q
    BY <1>c, <1>7, <1>8, <1>9, <2>1
  <2>2. CASE r # q
    <3>1. r \in Proc \ {q} /\ pos2[r] = pos[r] /\ pos2[Root] = pos[Root] /\ u2[r] = u[r]
            /\ d2[r] = d[r]
      BY <1>c, <1>9, <2>2, Constants DEF WorkerMoves
    <3> QED
      BY <1>1, <3>1 DEF Along
  <2> QED
    BY <2>1, <2>2
<1>12. Along(n, F, pos2, view2, u2, d2) /\ F[n].downs = F[pos2[Root]].downs
  BY <1>1, <1>a, <1>c, <1>9, <1>10, <1>11 DEF Along
<1> QED
  BY <1>12 DEF InLockstep

LEMMA RootHasRoom ==
  ASSUME NEW view, NEW u, NEW d, InLockstep(view, u, d), view[Root].label # "done",
         NEW stop \in BOOLEAN, NEW table \in Tables
  PROVE  \E n \in Nat, F \in [Nat -> SoundPoints], pos \in [Proc -> Nat] :
           /\ Along(n, F, pos, view, u, d)
           /\ pos[Root] < n /\ F[n].downs = F[pos[Root] + 1].downs
           /\ F[pos[Root] + 1] = After(F[pos[Root]], stop, table)
<1>c. Root \in Proc
  BY Constants
<1>1. PICK n \in Nat, F \in [Nat -> SoundPoints], pos \in [Proc -> Nat] :
        Along(n, F, pos, view, u, d) /\ F[n].downs = F[pos[Root]].downs
  BY DEF InLockstep
<1>2. pos[Root] \in 0..n /\ view[Root] = Projected(Root, F[pos[Root]]) /\ History(n, F)
  BY <1>1, <1>c DEF Along
<1>3. CASE pos[Root] = n
  <2>1. F[n].label # "done"
    BY <1>2, <1>3 DEF Projected
  <2>2. PICK F2 \in [Nat -> SoundPoints] :
          /\ Along(n + 1, F2, pos, view, u, d)
          /\ \A i \in 0..n : F2[i] = F[i]
          /\ F2[n + 1] = After(F[n], stop, table)
    BY <1>1, <2>1, Beyond
  <2>3. /\ n + 1 \in Nat /\ pos[Root] < n + 1 /\ F2[n + 1].downs = F2[pos[Root] + 1].downs
        /\ F2[pos[Root] + 1] = After(F2[pos[Root]], stop, table)
    BY <1>3, <2>2
  <2> QED
    BY <2>2, <2>3
<1>4. CASE pos[Root] # n
  <2>1. PICK a \in Nat : a = pos[Root] /\ a < n /\ a + 1 \in 0..n /\ a \in 0..n /\ n \in 0..n
          /\ a \in 0..(a + 1)
    BY <1>2, <1>4
  <2>2. F[a + 1] = After(F[a], F[a + 1].exiting, F[a + 1].table)
    BY <1>2, <2>1 DEF History
  <2>3. F[a + 1].downs = F[a].downs + Count(DownOp(F[a]))
    BY <2>2 DEF After
  <2>4. F[a + 1].downs <= F[n].downs /\ F[a].downs \in Nat
    <3>1. Later(F[a + 1], F[n]) /\ F[a] \in Points
      BY <1>2, <2>1 DEF History, SoundPoints
    <3> QED
      BY <3>1, PointFields DEF Later
  <2>5. DownOp(F[a]) = "none" /\ F[n].downs = F[a + 1].downs
    <3>1. F[n].downs = F[a].downs
      BY <1>1, <2>1
    <3> QED
      BY <2>3, <2>4, <3>1 DEF Count
  <2>6. F[a + 1] = After(F[a], stop, table)
    <3>1. F[a].label # "top" /\ F[a].label # "assign"
      BY <2>5 DEF DownOp
    <3> QED
      BY <2>2, <3>1 DEF After, LabelAfter
  <2> QED
    BY <1>1, <2>1, <2>5, <2>6
<1> QED
  BY <1>3, <1>4

LEMMA RootStaysInLockstep ==
  ASSUME NEW view, NEW view2,
         NEW u, NEW u2, NEW d, NEW d2, ChannelsOf(u, d), ChannelsOf(u2, d2),
         InLockstep(view, u, d), RootMoves(view, view2, u, u2, d, d2)
  PROVE  InLockstep(view2, u2, d2)
<1>c. Root \in Proc /\ Root \notin Workers /\ Workers \subseteq Proc
  BY Constants DEF Workers
<1>0. PICK stop \in BOOLEAN, table \in Tables : RootMovesTo(stop, table, view, view2, u, u2, d, d2)
  BY DEF RootMoves
<1>1. PICK n \in Nat, F \in [Nat -> SoundPoints], pos \in [Proc -> Nat] :
        /\ Along(n, F, pos, view, u, d)
        /\ pos[Root] < n /\ F[n].downs = F[pos[Root] + 1].downs
        /\ F[pos[Root] + 1] = After(F[pos[Root]], stop, table)
  <2>1. view[Root].label # "done"
    BY DEF RootMoves
  <2>2. stop \in BOOLEAN /\ table \in Tables /\ InLockstep(view, u, d)
    BY <1>0
  <2>3. \E n \in Nat, F \in [Nat -> SoundPoints], pos \in [Proc -> Nat] :
           /\ Along(n, F, pos, view, u, d)
           /\ pos[Root] < n /\ F[n].downs = F[pos[Root] + 1].downs
           /\ F[pos[Root] + 1] = After(F[pos[Root]], stop, table)
    BY <2>1, <2>2, RootHasRoom
  <2> QED
    BY <2>3
<1>a. /\ pos[Root] \in 0..(n - 1) /\ pos[Root] \in 0..n /\ pos[Root] \in Nat
      /\ view[Root] = Projected(Root, F[pos[Root]]) /\ History(n, F)
  BY <1>1, <1>c DEF Along
<1>2. PICK c \in SoundPoints, e \in SoundPoints :
        c = F[pos[Root]] /\ e = F[pos[Root] + 1] /\ e = After(c, stop, table)
  BY <1>a, <1>1
<1>k. /\ Counts(n, UpAt(F), UpBefore(F)) /\ Counts(n, DownAt(F), DownBefore(F))
      /\ UpAt(F) \in [Nat -> {0, 1}] /\ DownAt(F) \in [Nat -> {0, 1}]
      /\ UpBefore(F) \in [Nat -> Nat] /\ DownBefore(F) \in [Nat -> Nat]
      /\ \A q \in Workers : /\ UpSaid(q, F) \in [Nat -> SUBSET UpMessage]
                            /\ DownSaid(q, F) \in [Nat -> SUBSET DownMessage]
  BY <1>a, HistoryCounts
<1>w. ASSUME NEW q \in Workers
      PROVE  /\ pos[q] \in 0..n
             /\ OnTheWay(u[q], UpAt(F), UpSaid(q, F), UpBefore(F), pos[Root], pos[q])
             /\ OnTheWay(d[q], DownAt(F), DownSaid(q, F), DownBefore(F), pos[q], pos[Root])
             /\ u[q] \in Seq(UpMessage) /\ u2[q] \in Seq(UpMessage)
             /\ d[q] \in Seq(DownMessage) /\ d2[q] \in Seq(DownMessage)
  BY <1>1, <1>c DEF Along, ChannelsOf
<1>3. ASSUME NEW q \in Workers
      PROVE  /\ UpAt(F)[pos[Root]] = Count(UpOp(c)) /\ DownAt(F)[pos[Root]] = Count(DownOp(c))
             /\ UpSaid(q, F)[pos[Root]] = UpSays(q, c)
             /\ DownSaid(q, F)[pos[Root]] = DownSays(q, c, e)
  BY <1>a, <1>2 DEF UpAt, DownAt, UpSaid, DownSaid
<1>4. UpOp(c) # "none" => \A q \in Workers : Head(u[q]) \in UpSays(q, c)
  <2> SUFFICES ASSUME UpOp(c) # "none", NEW q \in Workers PROVE Head(u[q]) \in UpSays(q, c)
    OBVIOUS
  <2>1. u[q] # <<>> /\ u[q] \in Seq(UpMessage)
    BY <1>a, <1>2 DEF RootMoves, ChannelsOf
  <2>2. UpAt(F)[pos[Root]] = 1
    BY <1>3 DEF Count
  <2>3. Head(u[q]) \in UpSaid(q, F)[pos[Root]]
    BY <1>a, <1>k, <1>w, <2>1, <2>2, Arrives
  <2> QED
    BY <1>3, <2>3
<1>5. /\ view2[Root] = Projected(Root, e)
      /\ \A q \in Workers : /\ Receives(u[q], u2[q], Count(UpOp(c)))
                            /\ Sends(d[q], d2[q], Count(DownOp(c)), DownSays(q, c, e))
  BY <1>0, <1>a, <1>2, <1>4 DEF RootMovesTo
<1>7. ASSUME NEW q \in Workers
      PROVE  OnTheWay(u2[q], UpAt(F), UpSaid(q, F), UpBefore(F), pos[Root] + 1, pos[q])
  <2>1. Receives(u[q], u2[q], UpAt(F)[pos[Root]])
    BY <1>3, <1>5
  <2> QED
    BY <1>a, <1>k, <1>w, <2>1, Taken
<1>8. ASSUME NEW q \in Workers
      PROVE  OnTheWay(d2[q], DownAt(F), DownSaid(q, F), DownBefore(F), pos[q], pos[Root] + 1)
  <2>1. Sends(d[q], d2[q], DownAt(F)[pos[Root]], DownSaid(q, F)[pos[Root]])
    BY <1>3, <1>5
  <2>2. DownSaid(q, F) \in [Nat -> SUBSET DownMessage]
    BY <1>k
  <2> QED
    BY <1>a, <1>k, <1>w, <2>1, <2>2, Posted
<1>9. PICK pos2 \in [Proc -> Nat] :
        pos2[Root] = pos[Root] + 1 /\ \A p \in Workers : pos2[p] = pos[p]
  <2>1. pos[Root] + 1 \in Nat
    BY <1>a
  <2>2. PICK x \in Nat : x = pos[Root] + 1
    BY <2>1
  <2>3. /\ [pos EXCEPT ![Root] = x] \in [Proc -> Nat] /\ [pos EXCEPT ![Root] = x][Root] = x
        /\ \A p \in Workers : [pos EXCEPT ![Root] = x][p] = pos[p]
    BY <1>c
  <2> QED
    BY <2>2, <2>3
<1>10. ASSUME NEW p \in Proc PROVE pos2[p] \in 0..n /\ view2[p] = Projected(p, F[pos2[p]])
  <2>1. CASE p = Root
    <3>1. pos[Root] + 1 \in 0..n
      BY <1>a
    <3>2. view2[Root] = Projected(Root, F[pos[Root] + 1])
      BY <1>2, <1>5
    <3> QED
      BY <1>9, <2>1, <3>1, <3>2
  <2>2. CASE p # Root
    <3>1. p \in Workers
      BY <2>2 DEF Workers
    <3> QED
      BY <1>1, <1>9, <3>1 DEF RootMoves, Along
  <2> QED
    BY <2>1, <2>2
<1>11. ASSUME NEW r \in Workers
       PROVE  /\ OnTheWay(u2[r], UpAt(F), UpSaid(r, F), UpBefore(F), pos2[Root], pos2[r])
              /\ OnTheWay(d2[r], DownAt(F), DownSaid(r, F), DownBefore(F), pos2[r], pos2[Root])
  BY <1>7, <1>8, <1>9
<1>12. Along(n, F, pos2, view2, u2, d2) /\ F[n].downs = F[pos2[Root]].downs
  BY <1>1, <1>a, <1>9, <1>10, <1>11 DEF Along
<1> QED
  BY <1>12 DEF InLockstep

-----------------------------------------------------------------------------
(* How processes in lockstep stand to each other                           *)

LEMMA SoundFields ==
  ASSUME NEW c \in SoundPoints
  PROVE  /\ c \in Points /\ c.ups \in Nat /\ c.downs \in Nat /\ c.saves \in Nat
         /\ c.exiting \in BOOLEAN /\ SavedProgress(c) \in Nat /\ ProgressAt(c) \in Nat
         /\ Met(c) \in Int /\ Opened(c) \in Int
         /\ StageSound(c) /\ CounterSound(c) /\ SaveSound(c)
BY PointFields DEF SoundPoints, Sound, Met, Opened

LEMMA DoneIsLast ==
  ASSUME NEW n \in Nat, NEW F \in [Nat -> SoundPoints], History(n, F),
         NEW i \in 0..n, F[i].label = "done"
  PROVE  i = n
<1>1. i \in Nat /\ (i < n \/ i = n)
  OBVIOUS
<1> QED
  BY <1>1 DEF History

(* All at one point, with nothing on its way: the start of a run.          *)
LEMMA StartsInLockstep ==
  ASSUME NEW c \in SoundPoints, NEW view, NEW u, NEW d,
         \A p \in Proc : view[p] = Projected(p, c),
         \A q \in Workers : u[q] = <<>> /\ d[q] = <<>>
  PROVE  InLockstep(view, u, d)
<1>1. PICK F \in [Nat -> SoundPoints] : \A i \in Nat : F[i] = c
  <2>1. [i \in Nat |-> c] \in [Nat -> SoundPoints] /\ \A i \in Nat : [j \in Nat |-> c][i] = c
    OBVIOUS
  <2> QED
    BY <2>1
<1>2. PICK pos \in [Proc -> Nat] : \A p \in Proc : pos[p] = 0
  <2>1. [p \in Proc |-> 0] \in [Proc -> Nat]
    OBVIOUS
  <2> QED
    BY <2>1
<1>3. History(0, F)
  <2>1. \A j \in 0..0 : \A i \in 0..j : Later(F[i], F[j])
    BY <1>1, LaterReflexive
  <2> QED
    BY <2>1 DEF History
<1>4. \A p \in Proc : pos[p] \in 0..0 /\ view[p] = Projected(p, F[pos[p]])
  BY <1>1, <1>2
<1>5. \A s, E, V, K : s = <<>> /\ K[0] \in Nat => OnTheWay(s, E, V, K, 0, 0)
  BY DEF OnTheWay
<1>6. UpBefore(F)[0] \in Nat /\ DownBefore(F)[0] \in Nat
  BY <1>3, HistoryCounts
<1>7. ASSUME NEW q \in Workers
      PROVE  /\ OnTheWay(u[q], UpAt(F), UpSaid(q, F), UpBefore(F), pos[Root], pos[q])
             /\ OnTheWay(d[q], DownAt(F), DownSaid(q, F), DownBefore(F), pos[q], pos[Root])
  <2>1. pos[q] = 0 /\ pos[Root] = 0
    BY <1>2, Constants
  <2> QED
    BY <1>5, <1>6, <2>1
<1>8. Along(0, F, pos, view, u, d)
  BY <1>3, <1>4, <1>7 DEF Along
<1>9. F[0].downs = F[pos[Root]].downs
  BY <1>2, Constants
<1> QED
  BY <1>8, <1>9 DEF InLockstep

(* The points where the processes stand, how they are related, and what    *)
(* arrives there.                                                          *)
Standing(at, view) ==
  /\ \A p \in Proc : view[p] = Projected(p, at[p])
  /\ \A p, q \in Proc : Later(at[p], at[q]) \/ Later(at[q], at[p])
  /\ \A q \in Workers : at[Root].ups <= at[q].ups /\ at[q].downs <= at[Root].downs
  /\ (\A p \in Proc : at[p].label = "done") => \A p \in Proc : at[p] = at[Root]
Arriving(at, u, d) ==
  \A q \in Workers :
    /\ u[q] = <<>> /\ d[q] = <<>> => UpOp(at[Root]) = "none" \/ DownOp(at[q]) = "none"
    /\ u[q] # <<>> /\ UpOp(at[Root]) # "none" => Head(u[q]) \in UpSays(q, at[Root])
    /\ d[q] # <<>> /\ DownOp(at[q]) # "none" =>
         \E e \in SoundPoints : Head(d[q]) \in DownSays(q, at[q], e)
    /\ (\A p \in Proc : at[p].label = "done") => u[q] = <<>> /\ d[q] = <<>>

LEMMA ArrivingStep ==
  ASSUME NEW n \in Nat, NEW F \in [Nat -> SoundPoints], History(n, F),
         NEW q \in Workers, NEW s \in Seq(UpMessage), NEW t \in Seq(DownMessage),
         NEW r \in 0..n, NEW w \in 0..n,
         OnTheWay(s, UpAt(F), UpSaid(q, F), UpBefore(F), r, w),
         OnTheWay(t, DownAt(F), DownSaid(q, F), DownBefore(F), w, r)
  PROVE  /\ s = <<>> /\ t = <<>> => UpOp(F[r]) = "none" \/ DownOp(F[w]) = "none"
         /\ s # <<>> /\ UpOp(F[r]) # "none" => Head(s) \in UpSays(q, F[r])
         /\ t # <<>> /\ DownOp(F[w]) # "none" => Head(t) \in DownSays(q, F[w], F[w + 1])
         /\ r = w => s = <<>> /\ t = <<>>
         /\ F[r].ups <= F[w].ups /\ F[w].downs <= F[r].downs
<1>k. /\ Counts(n, UpAt(F), UpBefore(F)) /\ Counts(n, DownAt(F), DownBefore(F))
      /\ UpAt(F) \in [Nat -> {0, 1}] /\ DownAt(F) \in [Nat -> {0, 1}]
      /\ UpBefore(F) \in [Nat -> Nat] /\ DownBefore(F) \in [Nat -> Nat]
  BY HistoryCounts
<1>1. PICK c \in SoundPoints, e \in SoundPoints : c = F[r] /\ e = F[w]
  OBVIOUS
<1>6. /\ UpAt(F)[r] = Count(UpOp(c)) /\ DownAt(F)[w] = Count(DownOp(e))
      /\ UpSaid(q, F)[r] = UpSays(q, c) /\ DownSaid(q, F)[w] = DownSays(q, e, F[w + 1])
  BY <1>1 DEF UpAt, DownAt, UpSaid, DownSaid
<1>7. /\ Len(s) = UpBefore(F)[w] - UpBefore(F)[r]
      /\ Len(t) = DownBefore(F)[r] - DownBefore(F)[w]
  BY DEF OnTheWay
<1>n. /\ UpBefore(F)[w] \in Nat /\ UpBefore(F)[r] \in Nat
      /\ DownBefore(F)[w] \in Nat /\ DownBefore(F)[r] \in Nat
  BY <1>k
<1>l. Len(s) \in Nat /\ Len(t) \in Nat
  OBVIOUS
<1>8. ASSUME s = <<>>, t = <<>>, UpOp(c) # "none", DownOp(e) # "none" PROVE FALSE
  <2>1. UpAt(F)[r] = 1 /\ DownAt(F)[w] = 1
    BY <1>6, <1>8 DEF Count
  <2>3. UpBefore(F)[w] = UpBefore(F)[r] /\ DownBefore(F)[w] = DownBefore(F)[r]
    BY <1>7, <1>8, <1>n
  <2>4. ~(r < w)
    <3> SUFFICES ASSUME r < w PROVE FALSE
      OBVIOUS
    <3>1. r \in Nat /\ r <= r
      OBVIOUS
    <3>2. UpBefore(F)[r] + 1 <= UpBefore(F)[w]
      BY <1>k, <2>1, <3>1, Counted
    <3> QED
      BY <1>n, <2>3, <3>2
  <2>5. ~(w < r)
    <3> SUFFICES ASSUME w < r PROVE FALSE
      OBVIOUS
    <3>1. w \in Nat /\ w <= w
      OBVIOUS
    <3>2. DownBefore(F)[w] + 1 <= DownBefore(F)[r]
      BY <1>k, <2>1, <3>1, Counted
    <3> QED
      BY <1>n, <2>3, <3>2
  <2>6. c = e
    BY <1>1, <2>4, <2>5
  <2> QED
    BY <1>8, <2>6 DEF UpOp, DownOp, Flushes
<1>9. s # <<>> /\ UpOp(c) # "none" => Head(s) \in UpSays(q, c)
  <2>1. s # <<>> /\ UpAt(F)[r] = 1 => Head(s) \in UpSaid(q, F)[r]
    BY <1>k, Arrives
  <2> QED
    BY <1>6, <2>1 DEF Count
<1>10. t # <<>> /\ DownOp(e) # "none" => Head(t) \in DownSays(q, e, F[w + 1])
  <2>1. t # <<>> /\ DownAt(F)[w] = 1 => Head(t) \in DownSaid(q, F)[w]
    BY <1>k, Arrives
  <2> QED
    BY <1>6, <2>1 DEF Count
<1>11. r = w => s = <<>> /\ t = <<>>
  <2>1. r = w => Len(s) = 0 /\ Len(t) = 0
    BY <1>7, <1>n
  <2> QED
    BY <2>1
<1>12. F[r].ups <= F[w].ups /\ F[w].downs <= F[r].downs
  <2>1. /\ UpBefore(F)[w] = F[w].ups /\ UpBefore(F)[r] = F[r].ups
        /\ DownBefore(F)[w] = F[w].downs /\ DownBefore(F)[r] = F[r].downs
    BY DEF UpBefore, DownBefore
  <2>2. PICK x \in Nat, y \in Nat : x = Len(s) /\ y = Len(t)
    BY <1>l
  <2>3. x = F[w].ups - F[r].ups /\ y = F[r].downs - F[w].downs
    BY <1>7, <2>1, <2>2
  <2>4. F[r].ups \in Nat /\ F[w].ups \in Nat /\ F[r].downs \in Nat /\ F[w].downs \in Nat
    BY <1>n, <2>1
  <2>5. PICK i \in Nat, j \in Nat, k \in Nat, l \in Nat :
          i = F[r].ups /\ j = F[w].ups /\ k = F[r].downs /\ l = F[w].downs
    BY <2>4
  <2>6. x = j - i /\ y = k - l
    BY <2>3, <2>5
  <2>7. i <= j /\ l <= k
    BY <2>6
  <2> QED
    BY <2>5, <2>7
<1> QED
  BY <1>1, <1>8, <1>9, <1>10, <1>11, <1>12

LEMMA Relative ==
  ASSUME NEW view, NEW u, NEW d, InLockstep(view, u, d), ChannelsOf(u, d)
  PROVE  \E at \in [Proc -> SoundPoints] : Standing(at, view) /\ Arriving(at, u, d)
<1>c. Root \in Proc /\ \A q \in Workers : q \in Proc
  BY Constants DEF Workers
<1>1. PICK n \in Nat, F \in [Nat -> SoundPoints], pos \in [Proc -> Nat] :
        Along(n, F, pos, view, u, d)
  BY DEF InLockstep
<1>h. /\ History(n, F)
      /\ \A p \in Proc : pos[p] \in 0..n /\ view[p] = Projected(p, F[pos[p]])
      /\ \A q \in Workers :
           /\ OnTheWay(u[q], UpAt(F), UpSaid(q, F), UpBefore(F), pos[Root], pos[q])
           /\ OnTheWay(d[q], DownAt(F), DownSaid(q, F), DownBefore(F), pos[q], pos[Root])
  BY <1>1 DEF Along
<1>2. PICK at \in [Proc -> SoundPoints] : \A p \in Proc : at[p] = F[pos[p]]
  <2>1. [p \in Proc |-> F[pos[p]]] \in [Proc -> SoundPoints]
    OBVIOUS
  <2> QED
    BY <2>1
<1>4. ASSUME NEW p \in Proc, NEW q \in Proc
      PROVE  Later(at[p], at[q]) \/ Later(at[q], at[p])
  <2>1. PICK i \in 0..n, j \in 0..n : i = pos[p] /\ j = pos[q]
    BY <1>h
  <2>2. i \in 0..j \/ j \in 0..i
    OBVIOUS
  <2>3. Later(F[i], F[j]) \/ Later(F[j], F[i])
    BY <1>h, <2>2 DEF History
  <2> QED
    BY <1>2, <2>1, <2>3
<1>5. ASSUME NEW q \in Workers
      PROVE  /\ u[q] = <<>> /\ d[q] = <<>> => UpOp(at[Root]) = "none" \/ DownOp(at[q]) = "none"
             /\ u[q] # <<>> /\ UpOp(at[Root]) # "none" => Head(u[q]) \in UpSays(q, at[Root])
             /\ d[q] # <<>> /\ DownOp(at[q]) # "none" =>
                  \E e \in SoundPoints : Head(d[q]) \in DownSays(q, at[q], e)
             /\ pos[q] = pos[Root] => u[q] = <<>> /\ d[q] = <<>>
             /\ at[Root].ups <= at[q].ups /\ at[q].downs <= at[Root].downs
  <2>1. PICK r \in 0..n, w \in 0..n : r = pos[Root] /\ w = pos[q]
    BY <1>c, <1>h
  <2>2. at[Root] = F[r] /\ at[q] = F[w] /\ F[w + 1] \in SoundPoints
    BY <1>c, <1>2, <2>1
  <2>3. u[q] \in Seq(UpMessage) /\ d[q] \in Seq(DownMessage)
    BY DEF ChannelsOf
  <2>4. /\ OnTheWay(u[q], UpAt(F), UpSaid(q, F), UpBefore(F), r, w)
        /\ OnTheWay(d[q], DownAt(F), DownSaid(q, F), DownBefore(F), w, r)
    BY <1>h, <2>1
  <2>5. /\ u[q] = <<>> /\ d[q] = <<>> => UpOp(F[r]) = "none" \/ DownOp(F[w]) = "none"
        /\ u[q] # <<>> /\ UpOp(F[r]) # "none" => Head(u[q]) \in UpSays(q, F[r])
        /\ d[q] # <<>> /\ DownOp(F[w]) # "none" => Head(d[q]) \in DownSays(q, F[w], F[w + 1])
        /\ r = w => u[q] = <<>> /\ d[q] = <<>>
        /\ F[r].ups <= F[w].ups /\ F[w].downs <= F[r].downs
    BY <1>h, <2>3, <2>4, ArrivingStep
  <2> QED
    BY <2>1, <2>2, <2>5
<1>6. ASSUME \A p \in Proc : at[p].label = "done", NEW p \in Proc
      PROVE  pos[p] = n /\ at[p] = at[Root]
  <2>1. \A r \in Proc : F[pos[r]].label = "done"
    BY <1>2, <1>6
  <2>2. \A r \in Proc : pos[r] = n
    BY <1>h, <2>1, DoneIsLast
  <2> QED
    BY <1>c, <1>2, <2>2
<1>7. Standing(at, view)
  BY <1>2, <1>h, <1>4, <1>5, <1>6 DEF Standing
<1>8. Arriving(at, u, d)
  BY <1>c, <1>5, <1>6 DEF Arriving
<1> QED
  BY <1>7, <1>8

(* Nobody outruns a save that the root has not seen everyone finish.       *)
LEMMA SavesMeet ==
  ASSUME NEW view, NEW at \in [Proc -> SoundPoints], Standing(at, view), NEW p \in Proc,
         NEW q \in Proc
  PROVE  Opened(at[p]) <= at[q].saves /\ (~at[Root].exiting => ~at[p].exiting)
<1>c. Root \in Proc
  BY Constants
<1>1. PICK c \in SoundPoints, d \in SoundPoints, r \in SoundPoints :
        c = at[p] /\ d = at[q] /\ r = at[Root]
  BY <1>c
<1>f. /\ c.downs \in Nat /\ Opened(c) \in Int /\ c.exiting \in BOOLEAN
      /\ d.ups \in Nat /\ d.saves \in Nat /\ Met(d) \in Int
      /\ r.ups \in Nat /\ r.downs \in Nat /\ r.saves \in Nat /\ r.exiting \in BOOLEAN
      /\ Met(r) \in Int /\ Opened(r) \in Int
  BY SoundFields
<1>2. c.downs <= r.downs /\ r.ups <= d.ups
  <2>1. p = Root => c.downs <= r.downs
    BY <1>1, <1>f
  <2>2. q = Root => r.ups <= d.ups
    BY <1>1, <1>f
  <2>3. p # Root => c.downs <= r.downs
    BY <1>1 DEF Standing, Workers
  <2>4. q # Root => r.ups <= d.ups
    BY <1>1 DEF Standing, Workers
  <2> QED
    BY <2>1, <2>2, <2>3, <2>4
<1>3. Opened(c) <= Opened(r) /\ (~r.exiting => ~c.exiting)
  <2>1. Later(c, r) \/ Later(r, c)
    BY <1>c, <1>1 DEF Standing
  <2>2. CASE Later(c, r)
    BY <2>2 DEF Later
  <2>3. CASE Later(r, c)
    <3>1. r.downs = c.downs
      BY <1>2, <1>f, <2>3 DEF Later
    <3> QED
      BY <1>f, <2>3, <3>1 DEF Later
  <2> QED
    BY <2>1, <2>2, <2>3
<1>4. Met(r) <= Met(d)
  <2>1. Later(d, r) \/ Later(r, d)
    BY <1>c, <1>1 DEF Standing
  <2>2. CASE Later(r, d)
    BY <2>2 DEF Later
  <2>3. CASE Later(d, r)
    <3>1. r.ups = d.ups
      BY <1>2, <1>f, <2>3 DEF Later
    <3> QED
      BY <1>f, <2>3, <3>1 DEF Later
  <2> QED
    BY <2>1, <2>2, <2>3
<1>5. Opened(r) <= Met(r) /\ Met(d) <= d.saves
  BY <1>f DEF Opened, Met, AtBarrier
<1>6. Opened(c) <= d.saves
  BY <1>f, <1>3, <1>4, <1>5
<1> QED
  BY <1>1, <1>3, <1>6

(* A step between two processes' collectives: nobody else sees it.         *)
LEMMA QuietStep ==
  ASSUME NEW view, NEW view2, NEW u, NEW d, ChannelsOf(u, d), InLockstep(view, u, d),
         NEW p \in Proc, view[p].label # "done", \A r \in Proc \ {p} : view2[r] = view[r],
         \A c \in SoundPoints, stop \in BOOLEAN, table \in Tables :
           view[p] = Projected(p, c) => /\ UpOp(c) = "none" /\ DownOp(c) = "none"
                                        /\ view2[p] = Projected(p, After(c, stop, table))
  PROVE  InLockstep(view2, u, d)
<1>1. PICK stop \in BOOLEAN, table \in Tables : TRUE
  BY StartSound, PointFields DEF SoundPoints
<1>2. Count("none") = 0 /\ \A s, W : Sends(s, s, 0, W) /\ Receives(s, s, 0)
  BY DEF Count, Sends, Receives
<1>3. CASE p \in Workers
  <2>1. Heard(p, view, d)
    BY <1>1 DEF Heard
  <2>2. WorkerMoves(p, view, view2, u, u, d, d)
    BY <1>2, <1>3, <2>1 DEF WorkerMoves
  <2> QED
    BY <1>3, <2>2, WorkerStaysInLockstep
<1>4. CASE p = Root
  <2>1. RootMovesTo(stop, table, view, view2, u, u, d, d)
    BY <1>1, <1>2, <1>4 DEF RootMovesTo
  <2>2. \A c \in SoundPoints : view[Root] = Projected(Root, c) => UpOp(c) = "none"
    BY <1>1, <1>4
  <2>3. \A q \in Workers : view2[q] = view[q]
    BY <1>4 DEF Workers
  <2>4. RootMoves(view, view2, u, u, d, d)
    BY <1>1, <1>4, <2>1, <2>2, <2>3 DEF RootMoves
  <2> QED
    BY <2>4, RootStaysInLockstep
<1> QED
  BY <1>3, <1>4 DEF Workers

(* What else the root shows of a point than its label.                     *)
Agree(c, e) ==
  /\ c.stage = e.stage /\ c.counter = e.counter /\ c.therm = e.therm /\ c.sweeps = e.sweeps
  /\ c.exiting = e.exiting /\ c.table = e.table /\ FileOf(Root, c) = FileOf(Root, e)
  /\ OwnAll(Root, c.buffered) = OwnAll(Root, e.buffered) /\ c.saved.table = e.saved.table

LEMMA ShownByRoot ==
  ASSUME NEW c, NEW e, c.label # "assign", e.label # "assign"
  PROVE  Projected(Root, c) = Projected(Root, e) <=> c.label = e.label /\ Agree(c, e)
<1>1. ASSUME Projected(Root, c) = Projected(Root, e) PROVE c.label = e.label /\ Agree(c, e)
  BY <1>1 DEF Projected, Agree
<1>2. ASSUME c.label = e.label, Agree(c, e) PROVE Projected(Root, c) = Projected(Root, e)
  BY <1>2 DEF Projected, Agree
<1> QED
  BY <1>1, <1>2

LEMMA BarrierPoints ==
  ASSUME NEW c, c.label \in {"barrier", "inBarrier"}, NEW stop, NEW table
  PROVE  /\ Agree(c, After(c, stop, table))
         /\ After(c, stop, table).label = IF c.label = "barrier" THEN "inBarrier" ELSE "endSweep"
         /\ UpOp(c) = IF c.label = "barrier" THEN "barrier" ELSE "none"
         /\ DownOp(c) = IF c.label = "barrier" THEN "none" ELSE "barrier"
<1> DEFINE e == After(c, stop, table)
<1>1. ~Flushes(c) /\ ~Keeps(c) /\ ~Writes(c)
  BY DEF Flushes, Keeps, Writes
<1>2. /\ e.label = IF c.label = "barrier" THEN "inBarrier" ELSE "endSweep"
      /\ e.stage = c.stage /\ e.counter = c.counter
      /\ e.therm = c.therm /\ e.sweeps = c.sweeps /\ e.exiting = c.exiting /\ e.table = c.table
      /\ e.buffered = c.buffered /\ e.saves = c.saves /\ e.saved = c.saved
  BY <1>1 DEF After, LabelAfter, StageAfter, CounterAfter, Fills
<1>3. /\ UpOp(c) = IF c.label = "barrier" THEN "barrier" ELSE "none"
      /\ DownOp(c) = IF c.label = "barrier" THEN "none" ELSE "barrier"
  BY <1>1 DEF UpOp, DownOp
<1>s. Agree(c, After(c, stop, table)) <=> Agree(c, e)
  OBVIOUS
<1>l. After(c, stop, table).label = e.label
  OBVIOUS
<1> HIDE DEF e
<1>4. FileOf(Root, e) = FileOf(Root, c)
  BY <1>2 DEF FileOf
<1> QED
  BY <1>2, <1>3, <1>4, <1>s, <1>l DEF Agree

(* A barrier is two steps of the root: it enters, then it leaves.          *)
LEMMA BarrierStep ==
  ASSUME NEW view, NEW view2, NEW u, NEW u2, NEW d, NEW d2,
         ChannelsOf(u, d), ChannelsOf(u2, d2), InLockstep(view, u, d),
         view[Root].label = "barrier",
         \A c, e : view[Root] = Projected(Root, c) /\ Agree(c, e) /\ e.label = "endSweep"
                     => view2[Root] = Projected(Root, e),
         \A q \in Workers : /\ view2[q] = view[q]
                            /\ u[q] # <<>> /\ u2[q] = Tail(u[q])
                            /\ \E m \in DownMessage : m.op = "barrier" /\ d2[q] = Append(d[q], m)
  PROVE  InLockstep(view2, u2, d2)
<1>c. Root \in Proc /\ Root \notin Workers
  BY Constants DEF Workers
<1>1. PICK stop \in BOOLEAN, table \in Tables : TRUE
  BY StartSound, PointFields DEF SoundPoints
<1>2. /\ Count("none") = 0 /\ Count("barrier") = 1
      /\ \A s, W : Sends(s, s, 0, W) /\ Receives(s, s, 0)
      /\ \A q \in Workers : Receives(u[q], u2[q], 1)
  BY DEF Count, Sends, Receives
<1>b. PICK b \in SoundPoints : view[Root] = Projected(Root, b)
  BY <1>c, Relative DEF Standing
<1>l. b.label = "barrier"
  BY <1>b DEF Projected
<1>3. PICK mid : /\ \A q \in Workers : mid[q] = view[q]
                 /\ mid[Root] = Projected(Root, After(b, stop, table))
  <2> DEFINE new == Projected(Root, After(b, stop, table))
             f == [p \in Proc |-> IF p = Root THEN new ELSE view[p]]
  <2> HIDE DEF new
  <2>1. (\A q \in Workers : f[q] = view[q]) /\ f[Root] = new
    BY <1>c DEF Workers
  <2> QED
    BY <2>1 DEF new
<1>m. /\ After(b, stop, table).label = "inBarrier" /\ Agree(b, After(b, stop, table))
  BY <1>l, BarrierPoints
<1>4. ASSUME NEW c \in SoundPoints, view[Root] = Projected(Root, c)
      PROVE  /\ UpOp(c) = "barrier" /\ DownOp(c) = "none"
             /\ mid[Root] = Projected(Root, After(c, stop, table))
  <2>1. c.label = "barrier" /\ Agree(b, c)
    <3>1. c.label = "barrier"
      BY <1>4 DEF Projected
    <3> QED
      BY <1>4, <1>b, <1>l, <3>1, ShownByRoot
  <2>2. /\ Agree(c, After(c, stop, table)) /\ After(c, stop, table).label = "inBarrier"
        /\ UpOp(c) = "barrier" /\ DownOp(c) = "none"
    BY <2>1, BarrierPoints
  <2>3. Agree(After(b, stop, table), After(c, stop, table))
    BY <1>m, <2>1, <2>2 DEF Agree
  <2>4. Projected(Root, After(b, stop, table)) = Projected(Root, After(c, stop, table))
    BY <1>m, <2>2, <2>3, ShownByRoot
  <2> QED
    BY <1>3, <2>2, <2>4
<1>5. InLockstep(mid, u2, d)
  <2>1. ChannelsOf(u2, d)
    BY DEF ChannelsOf
  <2>2. RootMovesTo(stop, table, view, mid, u, u2, d, d)
    BY <1>2, <1>4 DEF RootMovesTo
  <2>3. RootMoves(view, mid, u, u2, d, d)
    BY <1>1, <1>3, <2>2 DEF RootMoves
  <2> QED
    BY <2>1, <2>3, RootStaysInLockstep
<1>6. ASSUME NEW c \in SoundPoints, mid[Root] = Projected(Root, c)
      PROVE  /\ UpOp(c) = "none" /\ DownOp(c) = "barrier"
             /\ view2[Root] = Projected(Root, After(c, stop, table))
  <2>0. Projected(Root, c) = Projected(Root, After(b, stop, table))
    BY <1>3, <1>6
  <2>1. c.label = "inBarrier"
    BY <1>m, <2>0 DEF Projected
  <2>2. Agree(c, After(b, stop, table))
    BY <1>m, <2>0, <2>1, ShownByRoot
  <2>3. /\ Agree(c, After(c, stop, table)) /\ After(c, stop, table).label = "endSweep"
        /\ UpOp(c) = "none" /\ DownOp(c) = "barrier"
    BY <2>1, BarrierPoints
  <2>4. Agree(b, After(c, stop, table))
    BY <1>m, <2>2, <2>3 DEF Agree
  <2> QED
    BY <1>b, <2>3, <2>4
<1>7. RootMoves(mid, view2, u2, u2, d, d2)
  <2>1. ASSUME NEW q \in Workers, NEW c \in SoundPoints, DownOp(c) = "barrier", NEW e
        PROVE  Sends(d[q], d2[q], 1, DownSays(q, c, e))
    <3>1. PICK m \in DownMessage : m.op = "barrier" /\ d2[q] = Append(d[q], m)
      OBVIOUS
    <3>2. m \in DownSays(q, c, e)
      BY <2>1, <3>1 DEF DownSays
    <3> QED
      BY <3>1, <3>2 DEF Sends
  <2>2. RootMovesTo(stop, table, mid, view2, u2, u2, d, d2)
    BY <1>2, <1>6, <2>1 DEF RootMovesTo
  <2>3. mid[Root].label # "done" /\ \A q \in Workers : view2[q] = mid[q]
    <3>1. mid[Root].label = "inBarrier"
      BY <1>3, <1>m DEF Projected
    <3> QED
      BY <1>3, <3>1
  <2> QED
    BY <1>1, <1>6, <2>2, <2>3 DEF RootMoves
<1>8. ChannelsOf(u2, d)
  BY DEF ChannelsOf
<1> QED
  BY <1>5, <1>7, <1>8, RootStaysInLockstep

-----------------------------------------------------------------------------
(* The views of the processes of DetQMCPT.  What only the root keeps fits  *)
(* what it shows: the tables are inverse to each other, and while it walks *)
(* the gathered control data are permuted along.                           *)

RootFits ==
  /\ TablesInverse
  /\ pc[Root] = "walk" => process_control_data_buffer = current_process_par

LabelOf(p) == IF pc[p] = "walk" THEN "assign" ELSE pc[p]
ViewAs(p, label, par, file, kept) ==
  [label |-> label, stage |-> stage[p],
   therm |-> sweepsDoneThermalization[p], sweeps |-> sweepsDone[p],
   counter |-> swCounter[p], exiting |-> exiting[p],
   par |-> local_current_parameter_index[p], rpar |-> par, ctrl |-> replica_ctrl[p],
   buffered |-> buffered[p], file |-> file,
   fits |-> (p = Root => RootFits),
   rootTable |-> IF p = Root /\ label # "assign" THEN current_process_par ELSE <<>>,
   kept |-> IF p = Root THEN kept ELSE <<>>]
View(p, kept) == ViewAs(p, LabelOf(p), replica_par[p], stateFile[p], kept)
Views(kept)   == [p \in Proc |-> View(p, kept)]
Lockstep      == \E kept : InLockstep(Views(kept), up, down)

(* ViewAs(...) = Projected(p, c), field by field *)
ShowsAs(p, c, label, par, file) ==
  /\ c.label = label
  /\ c.stage = stage[p] /\ c.therm = sweepsDoneThermalization[p]
  /\ c.sweeps = sweepsDone[p] /\ c.counter = swCounter[p]
  /\ exiting[p] = c.exiting
  /\ c.table[p] = local_current_parameter_index[p] /\ c.table[p] = par
  /\ c.table[p] = replica_ctrl[p]
  /\ buffered[p] = OwnAll(p, c.buffered)
  /\ file = FileOf(p, c)
  /\ p = Root => RootFits /\ (label # "assign" => current_process_par = c.table)
Shows(p, c) == ShowsAs(p, c, LabelOf(p), replica_par[p], stateFile[p])

LEMMA ShowsAsIsView ==
  ASSUME NEW p, NEW c, NEW label, NEW par, NEW file, NEW kept
  PROVE  ViewAs(p, label, par, file, kept) = Projected(p, c)
           <=> ShowsAs(p, c, label, par, file) /\ (p = Root => kept = c.saved.table)
<1>1. ASSUME ViewAs(p, label, par, file, kept) = Projected(p, c)
      PROVE  ShowsAs(p, c, label, par, file) /\ (p = Root => kept = c.saved.table)
  BY <1>1 DEF ViewAs, Projected, ShowsAs
<1>2. ASSUME ShowsAs(p, c, label, par, file), p = Root => kept = c.saved.table
      PROVE  ViewAs(p, label, par, file, kept) = Projected(p, c)
  <2>1. (p = Root => RootFits) = TRUE
    BY <1>2 DEF ShowsAs
  <2> QED
    BY <1>2, <2>1 DEF ViewAs, Projected, ShowsAs
<1> QED
  BY <1>1, <1>2

LEMMA ShowsIsView ==
  ASSUME NEW p, NEW c, NEW kept
  PROVE  View(p, kept) = Projected(p, c) <=> Shows(p, c) /\ (p = Root => kept = c.saved.table)
BY ShowsAsIsView DEF View, Shows

LEMMA OwnConfigurations ==
  ASSUME NEW p \in Proc, NEW b \in Seq(Kept)
  PROVE  /\ OwnAll(p, b) = <<>> <=> b = <<>>
         /\ b # <<>> => /\ Head(OwnAll(p, b)) = Own(p, Head(b))
                        /\ Tail(OwnAll(p, b)) = OwnAll(p, Tail(b))
         /\ \A e \in Kept : OwnAll(p, Append(b, e)) = Append(OwnAll(p, b), Own(p, e))
<1>1. \A e \in Kept : Own(p, e) \in [conf : [par : Par, sweep : Nat], cpi : Par]
  BY DEF Own, Kept, Tables
<1> DEFINE M == [conf : [par : Par, sweep : Nat], cpi : Par]
<1>2. OwnAll(p, b) \in Seq(M) /\ Len(OwnAll(p, b)) = Len(b)
      /\ \A i \in 1..Len(b) : OwnAll(p, b)[i] = Own(p, b[i])
  BY <1>1 DEF OwnAll
<1>3. ASSUME b # <<>> PROVE Tail(OwnAll(p, b)) = OwnAll(p, Tail(b))
  <2>1. /\ Tail(b) \in Seq(Kept) /\ Len(Tail(b)) = Len(b) - 1 /\ Len(b) \in Nat \ {0}
        /\ \A i \in 1..Len(Tail(b)) : Tail(b)[i] = b[i + 1]
    BY <1>3
  <2>2. /\ Tail(OwnAll(p, b)) \in Seq(M) /\ Len(Tail(OwnAll(p, b))) = Len(b) - 1
        /\ \A i \in 1..(Len(b) - 1) : Tail(OwnAll(p, b))[i] = OwnAll(p, b)[i + 1]
    <3> HIDE DEF M
    <3> QED
      BY <1>2, <2>1
  <2>3. OwnAll(p, Tail(b)) \in Seq(M) /\ Len(OwnAll(p, Tail(b))) = Len(b) - 1
        /\ \A i \in 1..(Len(b) - 1) : OwnAll(p, Tail(b))[i] = Own(p, b[i + 1])
    BY <1>1, <2>1 DEF OwnAll
  <2>4. \A i \in 1..(Len(b) - 1) : i + 1 \in 1..Len(b)
    BY <2>1
  <2> HIDE DEF M
  <2> QED
    BY <1>2, <2>2, <2>3, <2>4, SeqEqual
<1>4. ASSUME NEW e \in Kept PROVE OwnAll(p, Append(b, e)) = Append(OwnAll(p, b), Own(p, e))
  <2>1. /\ Append(b, e) \in Seq(Kept) /\ Len(Append(b, e)) = Len(b) + 1 /\ Len(b) \in Nat
        /\ \A i \in 1..Len(b) : Append(b, e)[i] = b[i]
        /\ Append(b, e)[Len(b) + 1] = e
    OBVIOUS
  <2>2. OwnAll(p, Append(b, e)) \in Seq(M) /\ Len(OwnAll(p, Append(b, e))) = Len(b) + 1
        /\ \A i \in 1..(Len(b) + 1) : OwnAll(p, Append(b, e))[i] = Own(p, Append(b, e)[i])
    BY <1>1, <2>1 DEF OwnAll
  <2>3. Own(p, e) \in M
    BY <1>1
  <2> HIDE DEF M
  <2>4. /\ Append(OwnAll(p, b), Own(p, e)) \in Seq(M)
        /\ Len(Append(OwnAll(p, b), Own(p, e))) = Len(b) + 1
        /\ \A i \in 1..Len(b) : Append(OwnAll(p, b), Own(p, e))[i] = OwnAll(p, b)[i]
        /\ Append(OwnAll(p, b), Own(p, e))[Len(b) + 1] = Own(p, e)
    BY <1>2, <2>1, <2>3, AppendProperties
  <2>5. \A i \in 1..(Len(b) + 1) : i \in 1..Len(b) \/ i = Len(b) + 1
    BY <2>1
  <2> QED
    BY <1>2, <2>1, <2>2, <2>4, <2>5, SeqEqual
<1>5. OwnAll(p, b) = <<>> <=> b = <<>>
  BY <1>2
<1>6. b # <<>> => Head(OwnAll(p, b)) = Own(p, Head(b))
  BY <1>2
<1> QED
  BY <1>3, <1>4, <1>5, <1>6

(* What one process does leaves alone what the others show.                *)
Untouched(r) ==
  /\ pc'[r] = pc[r] /\ stage'[r] = stage[r] /\ swCounter'[r] = swCounter[r]
  /\ sweepsDoneThermalization'[r] = sweepsDoneThermalization[r]
  /\ sweepsDone'[r] = sweepsDone[r] /\ exiting'[r] = exiting[r]
  /\ local_current_parameter_index'[r] = local_current_parameter_index[r]
  /\ replica_par'[r] = replica_par[r] /\ replica_ctrl'[r] = replica_ctrl[r]
  /\ buffered'[r] = buffered[r] /\ stateFile'[r] = stateFile[r]
  /\ r = Root => UNCHANGED <<current_process_par, current_par_process, process_control_data_buffer>>

LEMMA UntouchedView ==
  ASSUME NEW r, Untouched(r), NEW kept
  PROVE  /\ View(r, kept)' = View(r, kept)
         /\ \A label, par, file :
              ViewAs(r, label, par, file, kept)' = ViewAs(r, label, par, file, kept)
<1>1. (r = Root => RootFits') = (r = Root => RootFits)
  BY DEF Untouched, RootFits, TablesInverse
<1>2. \A label : (IF r = Root /\ label # "assign" THEN current_process_par' ELSE <<>>)
                 = (IF r = Root /\ label # "assign" THEN current_process_par ELSE <<>>)
  BY DEF Untouched
<1>3. LabelOf(r)' = LabelOf(r)
  BY DEF Untouched, LabelOf
<1>4. ASSUME NEW label, NEW par, NEW file
      PROVE  ViewAs(r, label, par, file, kept)' = ViewAs(r, label, par, file, kept)
  BY <1>1, <1>2 DEF ViewAs, Untouched
<1>5. View(r, kept)' = View(r, kept)
  <2>1. View(r, kept)' = ViewAs(r, LabelOf(r), replica_par[r], stateFile[r], kept)'
    BY DEF View
  <2>2. ViewAs(r, LabelOf(r), replica_par[r], stateFile[r], kept)'
          = ViewAs(r, LabelOf(r), replica_par[r], stateFile[r], kept)
    BY <1>1, <1>2, <1>3 DEF ViewAs, Untouched
  <2> QED
    BY <2>1, <2>2 DEF View
<1> QED
  BY <1>4, <1>5

Counting(p) == SweepThermalization(p) \/ Sweep(p) \/ CountSweep(p) \/ EndSweep(p)
Driven(p)   == Counting(p) \/ (p \in Workers /\ Worker(p)) \/ (p = Root /\ Master)

LEMMA OthersKeepTheirs ==
  ASSUME NEW L, NEW F, NEW D, TypesAmong(L, F, D), NEW p \in Proc, Driven(p)
  PROVE  pc[p] # "done" /\ \A r \in Proc \ {p} : Untouched(r)
<1>t. /\ pc \in [Proc -> L] /\ stage \in [Proc -> {"T", "M", "F"}]
      /\ sweepsDoneThermalization \in [Proc -> Nat] /\ sweepsDone \in [Proc -> Nat]
      /\ swCounter \in [Proc -> Nat] /\ exiting \in [Proc -> BOOLEAN]
      /\ local_current_parameter_index \in [Proc -> Par]
      /\ replica_par \in [Proc -> Par] /\ replica_ctrl \in [Proc -> Par]
      /\ buffered \in [Proc -> Seq(BufferedConfiguration)]
      /\ stateFile \in [Proc -> State \cup F]
  BY DEF TypesAmong, ControlAmong, FilesAmong, BufferTypes, ReplicaTypes
<1>1. ASSUME Counting(p) PROVE pc[p] # "done" /\ \A r \in Proc \ {p} : Untouched(r)
  <2>1. CASE SweepThermalization(p)
    BY <1>t, <2>1 DEF SweepThermalization, Goto, files, replicas, tables, Untouched
  <2>2. CASE Sweep(p)
    BY <1>t, <2>2 DEF Sweep, Goto, files, replicas, tables, Untouched
  <2>3. CASE CountSweep(p)
    BY <1>t, <2>3 DEF CountSweep, Goto, files, replicas, tables, Untouched
  <2>4. CASE EndSweep(p)
    BY <1>t, <2>4 DEF EndSweep, Goto, files, replicas, tables, Untouched
  <2> QED
    BY <1>1, <2>1, <2>2, <2>3, <2>4 DEF Counting
<1>2. ASSUME p \in Workers, Worker(p) PROVE pc[p] # "done" /\ \A r \in Proc \ {p} : Untouched(r)
  <2>1. CASE HearStop(p)
    BY <1>t, <2>1 DEF HearStop, AfterStopCheck, Goto, files, replicas, counters, tables, Untouched
  <2>2. CASE SendValue(p)
    BY <1>t, <2>2 DEF SendValue, BufferConfiguration, Goto, files, replicas, counters, tables,
       Untouched
  <2>3. CASE SendConfiguration(p)
    BY <1>t, <2>3 DEF SendConfiguration, Flushing, PopConfiguration, files, replicas, counters,
       tables, Untouched
  <2>4. CASE EnterBarrier(p)
    BY <1>t, <2>4 DEF EnterBarrier, Goto, files, replicas, counters, tables, Untouched
  <2>5. CASE LeaveBarrier(p)
    BY <1>t, <2>5 DEF LeaveBarrier, Goto, files, replicas, counters, tables, Untouched
  <2>6. CASE SendControlData(p)
    BY <1>t, <2>6 DEF SendControlData, Goto, files, replicas, counters, tables, Untouched
  <2>7. CASE HearAssignment(p)
    BY <1>t, <2>7 DEF HearAssignment, TakeAssignment, Goto, files, counters, tables, Untouched
  <2>8. CASE SendCheck(p)
    BY <1>t, <2>8 DEF SendCheck, Goto, files, replicas, counters, tables, Untouched
  <2> QED
    BY <1>2, <2>1, <2>2, <2>3, <2>4, <2>5, <2>6, <2>7, <2>8 DEF Worker
<1>3. ASSUME p = Root, Master PROVE pc[p] # "done" /\ \A r \in Proc \ {p} : Untouched(r)
  <2>1. CASE \E stop \in BOOLEAN : BroadcastStop(stop)
    BY <1>t, <1>3, <2>1 DEF BroadcastStop, AfterStopCheck, Goto, files, replicas, counters,
       SendAll, Untouched
  <2>2. CASE GatherValues
    BY <1>t, <1>3, <2>2 DEF GatherValues, BufferConfiguration, Goto, replicas, counters, Untouched
  <2>3. CASE GatherConfigurations
    BY <1>t, <1>3, <2>3 DEF GatherConfigurations, Flushing, PopConfiguration, replicas, counters,
       Untouched
  <2>4. CASE OpenBarrier
    BY <1>t, <1>3, <2>4 DEF OpenBarrier, Goto, files, replicas, counters, SendAll, Untouched
  <2>5. CASE GatherControlData
    BY <1>t, <1>3, <2>5 DEF GatherControlData, Goto, files, replicas, counters, Untouched
  <2>6. CASE \E accept \in BOOLEAN : ProposeExchange(accept)
    BY <1>t, <1>3, <2>6 DEF ProposeExchange, files, replicas, counters, Untouched
  <2>7. CASE ScatterAssignment
    BY <1>t, <1>3, <2>7 DEF ScatterAssignment, TakeAssignment, Goto, files, counters, SendAll,
       Untouched
  <2>8. CASE GatherCheck
    BY <1>t, <1>3, <2>8 DEF GatherCheck, Goto, files, replicas, counters, Untouched
  <2> QED
    BY <1>3, <2>1, <2>2, <2>3, <2>4, <2>5, <2>6, <2>7, <2>8 DEF Master
<1> QED
  BY <1>1, <1>2, <1>3 DEF Driven

(* What a process counts on its own is a step of the program.              *)
LEMMA CountingShows ==
  ASSUME NEW L, NEW F, NEW D, TypesAmong(L, F, D), NEW p \in Proc, Counting(p),
         NEW c \in SoundPoints, Shows(p, c), NEW stop \in BOOLEAN, NEW table \in Tables
  PROVE  /\ UpOp(c) = "none" /\ DownOp(c) = "none"
         /\ Shows(p, After(c, stop, table))' /\ After(c, stop, table).saved = c.saved
<1> DEFINE e == After(c, stop, table)
<1>0. c \in Points
  BY DEF SoundPoints
<1>t. /\ pc \in [Proc -> L] /\ stage \in [Proc -> {"T", "M", "F"}]
      /\ sweepsDoneThermalization \in [Proc -> Nat] /\ sweepsDone \in [Proc -> Nat]
      /\ swCounter \in [Proc -> Nat]
  BY DEF TypesAmong, ControlAmong
<1>s. /\ Shows(p, e)' <=> Shows(p, After(c, stop, table))'
      /\ e.saved = After(c, stop, table).saved
  OBVIOUS
<1>1. /\ e.label = LabelAfter(c, stop) /\ e.stage = StageAfter(c) /\ e.counter = CounterAfter(c)
      /\ e.therm = IF c.label = "sweep" /\ c.stage = "T" THEN c.therm + 1 ELSE c.therm
      /\ e.sweeps = IF c.label = "countSweep" THEN c.sweeps + 1 ELSE c.sweeps
      /\ c.label # "assign" => e.table = c.table
      /\ ~Flushes(c) /\ ~Keeps(c) => e.buffered = c.buffered
      /\ ~Writes(c) => e.saves = c.saves /\ e.saved = c.saved
      /\ c.label # "top" => e.exiting = c.exiting
  BY DEF After
<1> HIDE DEF e
<1>p. c.label = LabelOf(p)
  BY DEF Shows, ShowsAs
<1>2. /\ pc[p] \in {"sweep", "countSweep", "endSweep"} /\ c.label = pc[p]
  BY <1>p DEF Counting, SweepThermalization, Sweep, CountSweep, EndSweep, LabelOf
<1>3. ~Flushes(c) /\ ~Keeps(c) /\ ~Writes(c) /\ UpOp(c) = "none" /\ DownOp(c) = "none"
  BY <1>2 DEF Flushes, Keeps, Writes, UpOp, DownOp
<1>4. /\ UNCHANGED <<exiting, replicas, buffered, stateFile, current_process_par,
                     current_par_process,
                     process_control_data_buffer>>
  BY DEF Counting, SweepThermalization, Sweep, CountSweep, EndSweep, tables, files
<1>5. /\ e.exiting = c.exiting /\ e.table = c.table /\ e.buffered = c.buffered
      /\ e.saves = c.saves /\ e.saved = c.saved /\ FileOf(p, e) = FileOf(p, c)
  BY <1>1, <1>2, <1>3 DEF FileOf
<1>6. /\ pc'[p] = e.label /\ stage'[p] = e.stage /\ swCounter'[p] = e.counter
      /\ sweepsDoneThermalization'[p] = e.therm /\ sweepsDone'[p] = e.sweeps
      /\ pc'[p] \notin {"walk", "assign"}
  <2>h. /\ c.stage = stage[p] /\ c.therm = sweepsDoneThermalization[p]
        /\ c.sweeps = sweepsDone[p] /\ c.counter = swCounter[p]
    BY DEF Shows, ShowsAs
  <2>1. CASE SweepThermalization(p)
    BY <1>1, <1>2, <1>t, <2>h, <2>1
       DEF SweepThermalization, Goto, SaveDue, LabelAfter, StageAfter, CounterAfter, Fills
  <2>2. CASE Sweep(p)
    BY <1>1, <1>2, <1>t, <2>h, <2>2 DEF Sweep, Goto, LabelAfter, StageAfter, CounterAfter, Fills
  <2>3. CASE CountSweep(p)
    BY <1>1, <1>2, <1>t, <2>h, <2>3
       DEF CountSweep, Goto, SaveDue, LabelAfter, StageAfter, CounterAfter, Fills
  <2>4. CASE EndSweep(p)
    <3>1. NextStage(p) = StageAfter(c) /\ (ExchangeDue(p) <=> Exchanges(c)) /\ c.label = "endSweep"
      BY <1>2, <2>h, <2>4 DEF EndSweep, NextStage, StageAfter, ExchangeDue, Exchanges
    <3> QED
      BY <1>1, <1>2, <1>t, <2>h, <2>4, <3>1
         DEF EndSweep, Goto, CounterOfStage, LabelAfter, CounterAfter, Fills
  <2> QED
    BY <2>1, <2>2, <2>3, <2>4 DEF Counting
<1>7. Shows(p, e)'
  <2>1. /\ c.table[p] = local_current_parameter_index[p] /\ c.table[p] = replica_par[p]
        /\ c.table[p] = replica_ctrl[p] /\ exiting[p] = c.exiting
        /\ buffered[p] = OwnAll(p, c.buffered) /\ stateFile[p] = FileOf(p, c)
        /\ p = Root => RootFits /\ current_process_par = c.table
    BY <1>2, <1>p DEF Shows, ShowsAs
  <2>2. LabelOf(p)' = e.label
    BY <1>6 DEF LabelOf
  <2>3. p = Root => RootFits'
    BY <1>4, <1>6, <2>1 DEF RootFits, TablesInverse
  <2> QED
    BY <1>4, <1>5, <1>6, <2>1, <2>2, <2>3 DEF Shows, ShowsAs, replicas
<1> QED
  BY <1>3, <1>5, <1>7, <1>s

LEMMA CountingStep ==
  ASSUME NEW L, NEW F, NEW D, TypesAmong(L, F, D), NEW p \in Proc, Counting(p),
         NEW view, NEW view2, NEW d, NEW kept, ChannelsOf(up, d), InLockstep(view, up, d),
         view[p] = View(p, kept), view2[p] = View(p, kept)',
         \A r \in Proc \ {p} : view2[r] = view[r]
  PROVE  InLockstep(view2, up, d)
<1>1. ASSUME NEW c \in SoundPoints, NEW stop \in BOOLEAN, NEW table \in Tables,
             view[p] = Projected(p, c)
      PROVE  /\ UpOp(c) = "none" /\ DownOp(c) = "none"
             /\ view2[p] = Projected(p, After(c, stop, table))
  <2>0. View(p, kept) = Projected(p, c)
    BY <1>1
  <2>1. Shows(p, c) /\ (p = Root => kept = c.saved.table)
    BY <2>0, ShowsIsView
  <2>2. /\ UpOp(c) = "none" /\ DownOp(c) = "none"
        /\ Shows(p, After(c, stop, table))' /\ After(c, stop, table).saved = c.saved
    BY <2>1, CountingShows
  <2>3. PICK e \in Points : e = After(c, stop, table)
    BY AfterTypes DEF SoundPoints
  <2>4. Shows(p, e)' /\ (p = Root => kept = e.saved.table)
    BY <2>1, <2>2, <2>3
  <2>5. (p = Root => RootFits') = TRUE
    BY <2>4 DEF Shows, ShowsAs
  <2>6. View(p, kept)' = Projected(p, e)
    BY <2>4, <2>5 DEF View, ViewAs, Projected, Shows, ShowsAs
  <2> QED
    BY <2>2, <2>3, <2>6
<1>2. view[p].label # "done"
  BY DEF View, ViewAs, LabelOf, Counting, SweepThermalization, Sweep, CountSweep, EndSweep
<1> QED
  BY <1>1, <1>2, QuietStep

(* So is a save, once the configurations are flushed.                      *)
LEMMA SavingShows ==
  ASSUME NEW L, NEW F, NEW D, TypesAmong(L, F, D), NEW p \in Proc,
         stage[p] # "M" \/ buffered[p] = <<>>, NEW file,
         NEW c \in SoundPoints, ShowsAs(p, c, "save", replica_par[p], file),
         NEW stop \in BOOLEAN, NEW table \in Tables
  PROVE  /\ UpOp(c) = "none" /\ DownOp(c) = "none"
         /\ ShowsAs(p, After(c, stop, table), AfterSave(p), replica_par[p], CurrentState(p))
         /\ p = Root => After(c, stop, table).saved.table = current_process_par
<1> DEFINE e == After(c, stop, table)
<1>1. /\ e.label = LabelAfter(c, stop) /\ e.stage = StageAfter(c) /\ e.counter = CounterAfter(c)
      /\ e.therm = IF c.label = "sweep" /\ c.stage = "T" THEN c.therm + 1 ELSE c.therm
      /\ e.sweeps = IF c.label = "countSweep" THEN c.sweeps + 1 ELSE c.sweeps
      /\ c.label # "assign" => e.table = c.table
      /\ ~Flushes(c) /\ ~Keeps(c) => e.buffered = c.buffered
      /\ Writes(c) => /\ e.saves = c.saves + 1
                      /\ e.saved = [therm |-> c.therm, sweeps |-> c.sweeps,
                                    counter |-> c.counter, table |-> c.table]
      /\ c.label # "top" => e.exiting = c.exiting
  BY DEF After
<1>s. /\ ShowsAs(p, e, AfterSave(p), replica_par[p], CurrentState(p))
           <=> ShowsAs(p, After(c, stop, table), AfterSave(p), replica_par[p], CurrentState(p))
      /\ e.saved.table = After(c, stop, table).saved.table
  OBVIOUS
<1> HIDE DEF e
<1>f. c.saves \in Nat /\ c.buffered \in Seq(Kept)
  BY PointFields DEF SoundPoints
<1>2. c.label = "save" /\ c.stage = stage[p] /\ buffered[p] = OwnAll(p, c.buffered)
  BY DEF ShowsAs
<1>3. Writes(c) /\ ~Flushes(c) /\ ~Keeps(c)
  BY <1>f, <1>2, OwnConfigurations DEF Flushes, Keeps, Writes
<1>4. UpOp(c) = "none" /\ DownOp(c) = "none"
  BY <1>2, <1>3 DEF UpOp, DownOp
<1>5. /\ e.label = (IF c.exiting THEN "done" ELSE "barrier") /\ e.stage = c.stage
      /\ e.counter = c.counter /\ e.therm = c.therm /\ e.sweeps = c.sweeps
      /\ e.exiting = c.exiting /\ e.table = c.table /\ e.buffered = c.buffered
      /\ e.saved.table = c.table
  BY <1>1, <1>2, <1>3 DEF LabelAfter, StageAfter, CounterAfter, Fills
<1>6. FileOf(p, e) = CurrentState(p)
  <2>1. e.saves # 0
    BY <1>1, <1>3, <1>f
  <2> QED
    BY <1>1, <1>3, <2>1 DEF FileOf, CurrentState, ShowsAs
<1>7. e.label = AfterSave(p)
  BY <1>5 DEF AfterSave, ShowsAs
<1>8. AfterSave(p) # "assign" /\ (p = Root => current_process_par = c.table)
  BY DEF AfterSave, ShowsAs
<1>9. ShowsAs(p, e, AfterSave(p), replica_par[p], CurrentState(p))
  BY <1>5, <1>6, <1>7, <1>8 DEF ShowsAs
<1> QED
  BY <1>4, <1>5, <1>8, <1>9, <1>s

LEMMA SavingStep ==
  ASSUME NEW L, NEW F, NEW D, TypesAmong(L, F, D), NEW p \in Proc,
         stage[p] # "M" \/ buffered[p] = <<>>, NEW file,
         NEW view, NEW view2, NEW u, NEW d, NEW kept, NEW kept2, ChannelsOf(u, d), InLockstep(view, u, d),
         view[p] = ViewAs(p, "save", replica_par[p], file, kept),
         view2[p] = ViewAs(p, AfterSave(p), replica_par[p], CurrentState(p), kept2),
         p = Root => kept2 = current_process_par,
         \A r \in Proc \ {p} : view2[r] = view[r]
  PROVE  InLockstep(view2, u, d)
<1>1. ASSUME NEW c \in SoundPoints, NEW stop \in BOOLEAN, NEW table \in Tables,
             view[p] = Projected(p, c)
      PROVE  /\ UpOp(c) = "none" /\ DownOp(c) = "none"
             /\ view2[p] = Projected(p, After(c, stop, table))
  <2>1. ShowsAs(p, c, "save", replica_par[p], file)
    BY <1>1, ShowsAsIsView
  <2>2. /\ UpOp(c) = "none" /\ DownOp(c) = "none"
        /\ ShowsAs(p, After(c, stop, table), AfterSave(p), replica_par[p], CurrentState(p))
        /\ p = Root => kept2 = After(c, stop, table).saved.table
    BY <2>1, SavingShows
  <2> QED
    BY <2>2, ShowsAsIsView
<1>2. view[p].label # "done"
  BY DEF ViewAs
<1> QED
  BY <1>1, <1>2, QuietStep


(* What a worker tells the root, or hears from it, is what the program     *)
(* sends there.                                                            *)
LEMMA WorkerHears ==
  ASSUME NEW q \in Workers, Worker(q), NEW c \in SoundPoints, Shows(q, c), DownOp(c) # "none"
  PROVE  down[q] # <<>>
<1>1. c.label = pc[q] \/ (pc[q] = "walk" /\ c.label = "assign")
  BY DEF Shows, ShowsAs, LabelOf
<1>2. c.label \in {"top", "inBarrier", "assign"}
  BY DEF DownOp
<1> QED
  BY <1>1, <1>2 DEF Worker, HearStop, SendValue, SendConfiguration, EnterBarrier, LeaveBarrier,
     SendControlData, HearAssignment, SendCheck, Told, Flushing

LEMMA PostTo ==
  ASSUME NEW D, ChannelsAmong(D), NEW q \in Workers, NEW m, Post(q, m), NEW W, m \in W
  PROVE  Sends(up[q], up'[q], 1, W)
<1>1. up \in [Workers -> Seq(UpMessage)]
  BY DEF ChannelsAmong
<1>2. up'[q] = Append(up[q], m)
  BY <1>1 DEF Post
<1> QED
  BY <1>2 DEF Sends

LEMMA HearFrom ==
  ASSUME NEW D, ChannelsAmong(D), NEW q \in Workers, NEW op, Told(q, op), Hear(q)
  PROVE  Receives(down[q], down'[q], 1)
<1>1. down \in [Workers -> Seq(DownMessage \cup D)]
  BY DEF ChannelsAmong
<1>2. down'[q] = Tail(down[q]) /\ down[q] # <<>>
  BY <1>1 DEF Hear, Told
<1> QED
  BY <1>2 DEF Receives

LEMMA Quiet ==
  /\ Count("none") = 0
  /\ \A op : op # "none" => Count(op) = 1
  /\ \A s, W : Sends(s, s, 0, W) /\ Receives(s, s, 0)
BY DEF Sends, Receives, Count

(* A configuration is kept alike by every process.                         *)
LEMMA BufferingShows ==
  ASSUME BufferTypes, NEW p \in Proc, pc[p] = "insertValue", BufferConfiguration(p),
         NEW c \in SoundPoints, Shows(p, c), NEW stop, NEW table
  PROVE  buffered'[p] = OwnAll(p, After(c, stop, table).buffered)
<1>1. c.label = "insertValue" /\ c.buffered \in Seq(Kept) /\ c.table \in Tables /\ c.sweeps \in Nat
  BY PointFields DEF Shows, ShowsAs, LabelOf, SoundPoints
<1>2. buffered \in [Proc -> Seq(BufferedConfiguration)] /\ ~Flushes(c)
  BY <1>1 DEF BufferTypes, Flushes
<1>3. After(c, stop, table).buffered =
        IF Keeps(c) THEN Append(c.buffered, [sweep |-> c.sweeps, table |-> c.table]) ELSE c.buffered
  BY <1>2 DEF After
<1>4. Keeps(c) <=> swCounter[p] % ConfigInterval = 0
  BY <1>1 DEF Keeps, Shows, ShowsAs
<1>5. CASE Keeps(c)
  <2>1. [sweep |-> c.sweeps, table |-> c.table] \in Kept
    BY <1>1 DEF Kept
  <2>2. Own(p, [sweep |-> c.sweeps, table |-> c.table])
          = [conf |-> Measured(p), cpi |-> local_current_parameter_index[p]]
    BY DEF Own, Measured, Shows, ShowsAs
  <2>3. buffered'[p] = Append(buffered[p], [conf |-> Measured(p),
                                            cpi |-> local_current_parameter_index[p]])
    BY <1>2, <1>4, <1>5 DEF BufferConfiguration
  <2>4. buffered[p] = OwnAll(p, c.buffered)
    BY DEF Shows, ShowsAs
  <2> QED
    BY <1>1, <1>3, <1>5, <2>1, <2>2, <2>3, <2>4, OwnConfigurations
<1>6. CASE ~Keeps(c)
  BY <1>3, <1>4, <1>6 DEF BufferConfiguration, Shows, ShowsAs
<1> QED
  BY <1>5, <1>6

(* ... and flushed alike.                                                  *)
LEMMA FlushingShows ==
  ASSUME BufferTypes, NEW p \in Proc, NEW c \in SoundPoints, Shows(p, c)
  PROVE  /\ Flushing(p) <=> Flushes(c)
         /\ Flushes(c) => /\ Head(buffered[p]) = Own(p, Head(c.buffered))
                          /\ Head(c.buffered) \in Kept
         /\ Flushes(c) /\ PopConfiguration(p) =>
              \A stop, table : buffered'[p] = OwnAll(p, After(c, stop, table).buffered)
<1>1. c.buffered \in Seq(Kept) /\ buffered[p] = OwnAll(p, c.buffered)
  BY PointFields DEF Shows, ShowsAs, SoundPoints
<1>2. buffered \in [Proc -> Seq(BufferedConfiguration)]
  BY DEF BufferTypes
<1>3. Flushing(p) <=> Flushes(c)
  BY <1>1, OwnConfigurations DEF Flushing, Flushes, Shows, ShowsAs, LabelOf
<1>4. Flushes(c) => /\ Head(buffered[p]) = Own(p, Head(c.buffered)) /\ Head(c.buffered) \in Kept
                    /\ Tail(buffered[p]) = OwnAll(p, Tail(c.buffered))
  BY <1>1, OwnConfigurations DEF Flushes
<1>5. ASSUME Flushes(c), PopConfiguration(p), NEW stop, NEW table
      PROVE  buffered'[p] = OwnAll(p, After(c, stop, table).buffered)
  <2>1. After(c, stop, table).buffered = Tail(c.buffered)
    BY <1>5 DEF After
  <2>2. buffered'[p] = Tail(buffered[p])
    BY <1>2, <1>5 DEF PopConfiguration
  <2> QED
    BY <1>4, <1>5, <2>1, <2>2
<1> QED
  BY <1>3, <1>4, <1>5

LEMMA WorkerShows ==
  ASSUME NEW L, NEW F, NEW D, TypesAmong(L, F, D), NEW q \in Workers, Worker(q),
         NEW c \in SoundPoints, Shows(q, c), NEW stop \in BOOLEAN, NEW table \in Tables,
         DownOp(c) # "none" => Head(down[q]) \in DownSays(q, c, After(c, stop, table))
  PROVE  /\ Shows(q, After(c, stop, table))'
         /\ Sends(up[q], up'[q], Count(UpOp(c)), UpSays(q, c))
         /\ Receives(down[q], down'[q], Count(DownOp(c)))
<1> DEFINE e == After(c, stop, table)
<1>c. q \in Proc /\ q # Root
  BY DEF Workers
<1>0. c \in Points
  BY DEF SoundPoints
<1>t. /\ pc \in [Proc -> L] /\ stage \in [Proc -> {"T", "M", "F"}]
      /\ sweepsDoneThermalization \in [Proc -> Nat] /\ sweepsDone \in [Proc -> Nat]
      /\ swCounter \in [Proc -> Nat] /\ exiting \in [Proc -> BOOLEAN]
      /\ replica_par \in [Proc -> Par] /\ replica_ctrl \in [Proc -> Par]
      /\ local_current_parameter_index \in [Proc -> Par]
      /\ up \in [Workers -> Seq(UpMessage)] /\ down \in [Workers -> Seq(DownMessage \cup D)]
      /\ ChannelsAmong(D) /\ BufferTypes
  BY DEF TypesAmong, ControlAmong, ReplicaTypes, ChannelsAmong
<1>s. Shows(q, e)' <=> Shows(q, After(c, stop, table))'
  OBVIOUS
<1>d. DownOp(c) # "none" => Head(down[q]) \in DownSays(q, c, e)
  OBVIOUS
<1>1. /\ e.label = LabelAfter(c, stop) /\ e.stage = StageAfter(c) /\ e.counter = CounterAfter(c)
      /\ e.therm = IF c.label = "sweep" /\ c.stage = "T" THEN c.therm + 1 ELSE c.therm
      /\ e.sweeps = IF c.label = "countSweep" THEN c.sweeps + 1 ELSE c.sweeps
      /\ c.label # "assign" => e.table = c.table
      /\ ~Flushes(c) /\ ~Keeps(c) => e.buffered = c.buffered
      /\ ~Writes(c) => e.saves = c.saves /\ e.saved = c.saved
  BY DEF After
<1>x. (c.label = "top" => e.exiting = stop) /\ (c.label # "top" => e.exiting = c.exiting)
  BY DEF After
<1>v. buffered'[q] = OwnAll(q, After(c, stop, table).buffered) =>
        buffered'[q] = OwnAll(q, e.buffered)
  OBVIOUS
<1> HIDE DEF e
<1>m. \A par \in Par, n \in Nat : [par |-> par, sweep |-> n] \in Sample
  BY DEF Sample
<1>h. /\ c.stage = stage[q] /\ c.therm = sweepsDoneThermalization[q]
      /\ c.sweeps = sweepsDone[q] /\ c.counter = swCounter[q]
      /\ exiting[q] = c.exiting
      /\ c.table[q] = local_current_parameter_index[q] /\ c.table[q] = replica_par[q]
      /\ c.table[q] = replica_ctrl[q]
      /\ buffered[q] = OwnAll(q, c.buffered)
      /\ stateFile[q] = FileOf(q, c)
  BY DEF Shows, ShowsAs
<1>f. FileOf(q, e) = FileOf(q, c) \/ Writes(c)
  BY <1>1 DEF FileOf
<1>2. CASE HearStop(q)
  <2>1. pc[q] = "top" /\ c.label = "top" /\ Told(q, "stop_now") /\ Hear(q) /\ up' = up
    BY <1>2 DEF HearStop, Shows, ShowsAs, LabelOf
  <2>2. ~Flushes(c) /\ ~Keeps(c) /\ ~Writes(c)
    BY <2>1 DEF Flushes, Keeps, Writes
  <2>3. UpOp(c) = "none" /\ DownOp(c) = "stop_now"
    BY <2>1, <2>2 DEF UpOp, DownOp
  <2>4. Head(down[q]).value = stop
    BY <1>d, <1>x, <2>1, <2>3 DEF DownSays, Told
  <2>5. /\ exiting'[q] = stop /\ pc'[q] = IF stop THEN "save" ELSE "sweep"
    BY <1>c, <1>t, <1>2, <2>4 DEF HearStop, AfterStopCheck, Goto
  <2>6. Shows(q, e)'
    BY <1>c, <1>1, <1>x, <1>h, <1>f, <1>2, <2>1, <2>2, <2>5
       DEF HearStop, Shows, ShowsAs, LabelOf, LabelAfter, StageAfter, CounterAfter, Fills, files,
          replicas, counters
  <2> QED
    BY <1>t, <1>s, <2>1, <2>3, <2>6, Quiet, HearFrom
<1>3. CASE SendValue(q)
  <2>1. pc[q] = "insertValue" /\ c.label = "insertValue" /\ down' = down /\ BufferConfiguration(q)
    BY <1>3 DEF SendValue, Shows, ShowsAs, LabelOf
  <2>2. ~Flushes(c) /\ ~Writes(c)
    BY <2>1 DEF Flushes, Writes
  <2>3. UpOp(c) = "insertValue" /\ DownOp(c) = "none"
    BY <2>1, <2>2 DEF UpOp, DownOp
  <2>4. buffered'[q] = OwnAll(q, e.buffered)
    BY <1>c, <1>t, <1>v, <2>1, BufferingShows
  <2>5. [op |-> "insertValue", value |-> Measured(q)] \in UpSays(q, c)
    <3>1. Measured(q) \in Sample /\ Measured(q) = [par |-> c.table[q], sweep |-> c.sweeps]
      BY <1>c, <1>t, <1>m, <1>h DEF Measured
    <3> QED
      BY <2>3, <3>1 DEF UpSays, UpMessage
  <2>6. Sends(up[q], up'[q], 1, UpSays(q, c))
    BY <1>t, <1>3, <2>5, PostTo DEF SendValue
  <2>7. Shows(q, e)'
    BY <1>c, <1>t, <1>1, <1>x, <1>h, <1>f, <1>3, <2>1, <2>2, <2>4
       DEF SendValue, Goto, Shows, ShowsAs, LabelOf, LabelAfter, StageAfter, CounterAfter, Fills,
          files, replicas, counters
  <2> QED
    BY <1>s, <2>1, <2>3, <2>6, <2>7, Quiet
<1>4. CASE SendConfiguration(q)
  <2>1. /\ Flushing(q) /\ Flushes(c) /\ down' = down /\ PopConfiguration(q)
        /\ Head(buffered[q]) = Own(q, Head(c.buffered)) /\ Head(c.buffered) \in Kept
    BY <1>c, <1>t, <1>4, FlushingShows DEF SendConfiguration
  <2>2. ~Keeps(c) /\ ~Writes(c) /\ c.label = "save"
    BY <2>1 DEF Flushes, Keeps, Writes
  <2>3. UpOp(c) = "configuration" /\ DownOp(c) = "none"
    BY <2>1, <2>2 DEF UpOp, DownOp
  <2>4. buffered'[q] = OwnAll(q, e.buffered)
    BY <1>c, <1>t, <1>v, <2>1, FlushingShows
  <2>5. [op |-> "configuration", item |-> Head(buffered[q])] \in UpSays(q, c)
    <3>1. Own(q, Head(c.buffered)) \in BufferedConfiguration
      BY <1>c, <1>m, <2>1 DEF Own, Kept, Tables, BufferedConfiguration
    <3> QED
      BY <2>1, <2>3, <3>1 DEF UpSays, UpMessage
  <2>6. Sends(up[q], up'[q], 1, UpSays(q, c))
    BY <1>t, <1>4, <2>5, PostTo DEF SendConfiguration
  <2>7. Shows(q, e)'
    BY <1>c, <1>1, <1>x, <1>h, <1>f, <1>4, <2>1, <2>2, <2>4
       DEF SendConfiguration, Shows, ShowsAs, LabelOf, LabelAfter, StageAfter, CounterAfter, Fills,
          files, replicas, counters
  <2> QED
    BY <1>s, <2>1, <2>3, <2>6, <2>7, Quiet
<1>5. CASE EnterBarrier(q)
  <2>1. pc[q] = "barrier" /\ c.label = "barrier" /\ down' = down
    BY <1>5 DEF EnterBarrier, Shows, ShowsAs, LabelOf
  <2>2. ~Flushes(c) /\ ~Keeps(c) /\ ~Writes(c)
    BY <2>1 DEF Flushes, Keeps, Writes
  <2>3. UpOp(c) = "barrier" /\ DownOp(c) = "none"
    BY <2>1, <2>2 DEF UpOp, DownOp
  <2>4. [op |-> "barrier"] \in UpSays(q, c)
    BY <2>3 DEF UpSays, UpMessage
  <2>5. Sends(up[q], up'[q], 1, UpSays(q, c))
    BY <1>t, <1>5, <2>4, PostTo DEF EnterBarrier
  <2>6. Shows(q, e)'
    BY <1>c, <1>t, <1>1, <1>x, <1>h, <1>f, <1>5, <2>1, <2>2
       DEF EnterBarrier, Goto, Shows, ShowsAs, LabelOf, LabelAfter, StageAfter, CounterAfter,
          Fills, files, replicas, counters
  <2> QED
    BY <1>s, <2>1, <2>3, <2>5, <2>6, Quiet
<1>6. CASE LeaveBarrier(q)
  <2>1. pc[q] = "inBarrier" /\ c.label = "inBarrier" /\ Told(q, "barrier") /\ Hear(q) /\ up' = up
    BY <1>6 DEF LeaveBarrier, Shows, ShowsAs, LabelOf
  <2>2. ~Flushes(c) /\ ~Keeps(c) /\ ~Writes(c)
    BY <2>1 DEF Flushes, Keeps, Writes
  <2>3. UpOp(c) = "none" /\ DownOp(c) = "barrier"
    BY <2>1, <2>2 DEF UpOp, DownOp
  <2>4. Shows(q, e)'
    BY <1>c, <1>t, <1>1, <1>x, <1>h, <1>f, <1>6, <2>1, <2>2
       DEF LeaveBarrier, Goto, Shows, ShowsAs, LabelOf, LabelAfter, StageAfter, CounterAfter,
          Fills, files, replicas, counters
  <2> QED
    BY <1>t, <1>s, <2>1, <2>3, <2>4, Quiet, HearFrom
<1>7. CASE SendControlData(q)
  <2>1. pc[q] = "exchange" /\ c.label = "exchange" /\ down' = down
    BY <1>7 DEF SendControlData, Shows, ShowsAs, LabelOf
  <2>2. ~Flushes(c) /\ ~Keeps(c) /\ ~Writes(c)
    BY <2>1 DEF Flushes, Keeps, Writes
  <2>3. UpOp(c) = "exchange" /\ DownOp(c) = "none"
    BY <2>1, <2>2 DEF UpOp, DownOp
  <2>4. [op |-> "exchange", ctrl |-> replica_ctrl[q]] \in UpSays(q, c)
    <3>1. replica_ctrl[q] \in Par /\ replica_ctrl[q] = c.table[q]
      BY <1>c, <1>t, <1>h
    <3> QED
      BY <2>3, <3>1 DEF UpSays, UpMessage
  <2>5. Sends(up[q], up'[q], 1, UpSays(q, c))
    BY <1>t, <1>7, <2>4, PostTo DEF SendControlData
  <2>6. Shows(q, e)'
    BY <1>c, <1>t, <1>1, <1>x, <1>h, <1>f, <1>7, <2>1, <2>2
       DEF SendControlData, Goto, Shows, ShowsAs, LabelOf, LabelAfter, StageAfter, CounterAfter,
          Fills, files, replicas, counters
  <2> QED
    BY <1>s, <2>1, <2>3, <2>5, <2>6, Quiet
<1>8. CASE HearAssignment(q)
  <2>1. pc[q] = "assign" /\ c.label = "assign" /\ Told(q, "assign") /\ Hear(q) /\ up' = up
    BY <1>8 DEF HearAssignment, Shows, ShowsAs, LabelOf
  <2>2. ~Flushes(c) /\ ~Keeps(c) /\ ~Writes(c)
    BY <2>1 DEF Flushes, Keeps, Writes
  <2>3. UpOp(c) = "none" /\ DownOp(c) = "assign"
    BY <2>1, <2>2 DEF UpOp, DownOp
  <2>4. Head(down[q]).par = e.table[q] /\ Head(down[q]).ctrl = e.table[q]
    BY <1>d, <2>1, <2>3 DEF DownSays, Told
  <2>5. /\ local_current_parameter_index'[q] = e.table[q] /\ replica_par'[q] = e.table[q]
        /\ replica_ctrl'[q] = e.table[q]
    BY <1>c, <1>t, <1>8, <2>4 DEF HearAssignment, TakeAssignment
  <2>6. Shows(q, e)'
    BY <1>c, <1>t, <1>1, <1>x, <1>h, <1>f, <1>8, <2>1, <2>2, <2>5
       DEF HearAssignment, Goto, Shows, ShowsAs, LabelOf, LabelAfter, StageAfter, CounterAfter,
          Fills, files, counters
  <2> QED
    BY <1>t, <1>s, <2>1, <2>3, <2>6, Quiet, HearFrom
<1>9. CASE SendCheck(q)
  <2>0. ~LocalMismatch(q)
    BY <1>c, <1>h DEF LocalMismatch
  <2>1. pc[q] = "check" /\ c.label = "check" /\ down' = down
    BY <1>9 DEF SendCheck, Shows, ShowsAs, LabelOf
  <2>2. ~Flushes(c) /\ ~Keeps(c) /\ ~Writes(c)
    BY <2>1 DEF Flushes, Keeps, Writes
  <2>3. UpOp(c) = "check" /\ DownOp(c) = "none"
    BY <2>1, <2>2 DEF UpOp, DownOp
  <2>4. [op |-> "check", par |-> replica_par[q]] \in UpSays(q, c)
    <3>1. replica_par[q] \in Par /\ replica_par[q] = c.table[q]
      BY <1>c, <1>t, <1>h
    <3> QED
      BY <2>3, <3>1 DEF UpSays, UpMessage
  <2>5. Sends(up[q], up'[q], 1, UpSays(q, c))
    BY <1>t, <1>9, <2>0, <2>4, PostTo DEF SendCheck
  <2>6. Shows(q, e)'
    BY <1>c, <1>t, <1>1, <1>x, <1>h, <1>f, <1>9, <2>0, <2>1, <2>2
       DEF SendCheck, LoopTop, Goto, Shows, ShowsAs, LabelOf, LabelAfter, StageAfter, CounterAfter,
          Fills, files, replicas, counters
  <2> QED
    BY <1>s, <2>1, <2>3, <2>5, <2>6, Quiet
<1> QED
  BY <1>2, <1>3, <1>4, <1>5, <1>6, <1>7, <1>8, <1>9 DEF Worker

LEMMA WorkerStep ==
  ASSUME NEW L, NEW F, NEW D, TypesAmong(L, F, D), NEW q \in Workers, Worker(q),
         NEW view, NEW view2, NEW d, NEW d2, NEW kept,
         ChannelsOf(up, d), ChannelsOf(up', d2), InLockstep(view, up, d),
         view[q] = View(q, kept), view2[q] = View(q, kept)',
         \A r \in Proc \ {q} : view2[r] = view[r],
         d[q] = down[q], d2[q] = down'[q], \A r \in Workers \ {q} : d2[r] = d[r]
  PROVE  InLockstep(view2, up', d2)
<1>c. q \in Proc /\ q # Root
  BY DEF Workers
<1>1. view[q].label # "done"
  BY DEF View, ViewAs, LabelOf, Worker, HearStop, SendValue, SendConfiguration, EnterBarrier,
     LeaveBarrier, SendControlData, HearAssignment, SendCheck, Flushing
<1>2. \A r \in Workers \ {q} : up'[r] = up[r]
  <2>1. up \in [Workers -> Seq(UpMessage)]
    BY DEF TypesAmong, ChannelsAmong
  <2> QED
    BY <2>1 DEF Worker, HearStop, SendValue, SendConfiguration, EnterBarrier, LeaveBarrier,
       SendControlData, HearAssignment, SendCheck, Post
<1>3. ASSUME NEW c \in SoundPoints, view[q] = Projected(q, c) PROVE Shows(q, c)
  <2>1. View(q, kept) = Projected(q, c)
    BY <1>3
  <2> QED
    BY <2>1, ShowsIsView
<1>4. Heard(q, view, d)
  <2>1. ASSUME NEW c \in SoundPoints, view[q] = Projected(q, c), DownOp(c) # "none"
        PROVE  d[q] # <<>>
    BY <1>3, <2>1, WorkerHears
  <2> QED
    BY <2>1 DEF Heard
<1>5. ASSUME NEW c \in SoundPoints, view[q] = Projected(q, c), NEW stop \in BOOLEAN,
             NEW table \in Tables,
             DownOp(c) # "none" => Head(d[q]) \in DownSays(q, c, After(c, stop, table))
      PROVE  /\ view2[q] = Projected(q, After(c, stop, table))
             /\ Sends(up[q], up'[q], Count(UpOp(c)), UpSays(q, c))
             /\ Receives(d[q], d2[q], Count(DownOp(c)))
  <2>1. Shows(q, c)
    BY <1>3, <1>5
  <2>2. DownOp(c) # "none" => Head(down[q]) \in DownSays(q, c, After(c, stop, table))
    BY <1>5
  <2>3. /\ Shows(q, After(c, stop, table))'
        /\ Sends(up[q], up'[q], Count(UpOp(c)), UpSays(q, c))
        /\ Receives(down[q], down'[q], Count(DownOp(c)))
    BY <2>1, <2>2, WorkerShows
  <2>4. PICK e \in Points : e = After(c, stop, table)
    BY AfterTypes DEF SoundPoints
  <2>5. Shows(q, e)'
    BY <2>3, <2>4
  <2>6. View(q, kept)' = Projected(q, e)
    BY <1>c, <2>5 DEF View, ViewAs, Projected, Shows, ShowsAs
  <2> QED
    BY <2>3, <2>4, <2>6
<1>6. WorkerMoves(q, view, view2, up, up', d, d2)
  BY <1>1, <1>2, <1>4, <1>5 DEF WorkerMoves
<1> QED
  BY <1>6, WorkerStaysInLockstep

-----------------------------------------------------------------------------
(* The root's side of the collectives                                      *)

LEMMA TakenFrom ==
  ASSUME NEW op, Gathered(op), TakeGathered
  PROVE  \A q \in Workers : up[q] # <<>> /\ Receives(up[q], up'[q], 1)
<1>1. \A q \in Workers : up'[q] = Tail(up[q]) /\ up[q] # <<>>
  BY DEF TakeGathered, Gathered
<1> QED
  BY <1>1 DEF Receives

LEMMA RootTakes ==
  ASSUME BufferTypes, Master, NEW c \in SoundPoints, Shows(Root, c), UpOp(c) # "none"
  PROVE  \A q \in Workers : up[q] # <<>>
<1>0. Root \in Proc
  BY Constants
<1>1. c.label = LabelOf(Root) /\ ~LocalMismatch(Root)
  BY DEF Shows, ShowsAs, LocalMismatch
<1>2. Flushing(Root) \/ c.label \in {"insertValue", "barrier", "exchange", "check"}
  BY <1>0, FlushingShows DEF UpOp
<1>3. Flushing(Root) => pc[Root] = "save"
  BY DEF Flushing
<1>4. Flushing(Root) \/ pc[Root] \in {"insertValue", "barrier", "exchange", "check"}
  BY <1>1, <1>2 DEF LabelOf
<1> QED
  BY <1>1, <1>3, <1>4 DEF Master, BroadcastStop, GatherValues, GatherConfigurations, OpenBarrier,
     GatherControlData, ProposeExchange, ScatterAssignment, GatherCheck, Gathered, Flushing, SendAll

(* What the root does is what the program does at the root's point.        *)
RootAnswers(c, stop, table) ==
  /\ Shows(Root, After(c, stop, table))' /\ After(c, stop, table).saved = c.saved
  /\ \A q \in Workers :
       /\ Receives(up[q], up'[q], Count(UpOp(c)))
       /\ Sends(down[q], down'[q], Count(DownOp(c)), DownSays(q, c, After(c, stop, table)))

LEMMA SentTo ==
  ASSUME NEW q \in Workers, NEW m, down'[q] = Append(down[q], m), NEW W, m \in W
  PROVE  Sends(down[q], down'[q], 1, W)
BY DEF Sends

LEMMA FitsStill ==
  ASSUME RootFits, UNCHANGED <<current_process_par, current_par_process>>, pc'[Root] # "walk"
  PROVE  RootFits'
BY DEF RootFits, TablesInverse

LEMMA TablesOfExchange ==
  ASSUME TableTypes, TablesInverse
  PROVE  current_process_par \in Tables
<1>1. current_process_par \in [Proc -> Par] /\ current_par_process \in [Par -> Proc]
  BY DEF TableTypes
<1>2. ASSUME NEW k \in Par
      PROVE  \E p \in Proc : \A r \in Proc : current_process_par[r] = k <=> r = p
  <2>1. current_par_process[k] \in Proc
    BY <1>1
  <2>2. \A r \in Proc : current_process_par[r] = k <=> r = current_par_process[k]
    BY DEF TablesInverse
  <2> QED
    BY <2>1, <2>2
<1> QED
  BY <1>1, <1>2 DEF Tables

LEMMA BroadcastAnswers ==
  ASSUME NEW L, NEW F, NEW D, TypesAmong(L, F, D), NEW stop \in BOOLEAN, NEW table \in Tables,
         BroadcastStop(stop), NEW c \in SoundPoints, Shows(Root, c)
  PROVE  RootAnswers(c, stop, table)
<1> DEFINE e == After(c, stop, table)
<1>c. Root \in Proc
  BY Constants
<1>t. /\ pc \in [Proc -> L] /\ exiting \in [Proc -> BOOLEAN]
      /\ down \in [Workers -> Seq(DownMessage \cup D)]
  BY DEF TypesAmong, ControlAmong, ChannelsAmong
<1>s. RootAnswers(c, stop, table) <=>
        /\ Shows(Root, e)' /\ e.saved = c.saved
        /\ \A q \in Workers : /\ Receives(up[q], up'[q], Count(UpOp(c)))
                              /\ Sends(down[q], down'[q], Count(DownOp(c)), DownSays(q, c, e))
  BY DEF RootAnswers
<1>1. pc[Root] = "top" /\ c.label = "top" /\ up' = up
  BY DEF BroadcastStop, SendAll, Shows, ShowsAs, LabelOf
<1>2. ~Flushes(c) /\ ~Keeps(c) /\ ~Writes(c)
  BY <1>1 DEF Flushes, Keeps, Writes
<1>3. UpOp(c) = "none" /\ DownOp(c) = "stop_now"
  BY <1>1, <1>2 DEF UpOp, DownOp
<1>4. /\ e.label = IF stop THEN "save" ELSE "sweep"
      /\ e.stage = c.stage /\ e.counter = c.counter
      /\ e.therm = c.therm /\ e.sweeps = c.sweeps /\ e.exiting = stop /\ e.table = c.table
      /\ e.buffered = c.buffered /\ e.saves = c.saves /\ e.saved = c.saved
  BY <1>1, <1>2 DEF After, LabelAfter, StageAfter, CounterAfter, Fills
<1> HIDE DEF e
<1>5. FileOf(Root, e) = FileOf(Root, c)
  BY <1>4 DEF FileOf
<1>6. exiting'[Root] = stop /\ pc'[Root] = IF stop THEN "save" ELSE "sweep"
  BY <1>c, <1>t DEF BroadcastStop, SendAll, AfterStopCheck, Goto
<1>r. RootFits'
  <2>1. RootFits
    BY DEF Shows, ShowsAs
  <2>2. UNCHANGED <<current_process_par, current_par_process>> /\ pc'[Root] # "walk"
    BY <1>c, <1>1, <1>6 DEF BroadcastStop, SendAll, Goto, tables
  <2> QED
    BY <2>1, <2>2, FitsStill
<1>7. Shows(Root, e)'
  BY <1>c, <1>r, <1>1, <1>4, <1>5, <1>6 DEF BroadcastStop, SendAll, Shows, ShowsAs, LabelOf, files,
     replicas, counters, tables
<1>8. ASSUME NEW q \in Workers PROVE Sends(down[q], down'[q], 1, DownSays(q, c, e))
  <2>1. down'[q] = Append(down[q], [op |-> "stop_now", value |-> stop])
    BY DEF BroadcastStop, SendAll
  <2>2. [op |-> "stop_now", value |-> stop] \in DownSays(q, c, e)
    BY <1>3, <1>4 DEF DownSays, DownMessage
  <2> QED
    BY <2>1, <2>2, SentTo
<1> QED
  BY <1>s, <1>1, <1>3, <1>4, <1>7, <1>8, Quiet

LEMMA ValuesAnswers ==
  ASSUME NEW L, NEW F, NEW D, TypesAmong(L, F, D), GatherValues,
         NEW c \in SoundPoints, Shows(Root, c), NEW stop \in BOOLEAN, NEW table \in Tables
  PROVE  RootAnswers(c, stop, table)
<1> DEFINE e == After(c, stop, table)
<1>c. Root \in Proc
  BY Constants
<1>t. pc \in [Proc -> L] /\ BufferTypes
  BY DEF TypesAmong, ControlAmong
<1>s. RootAnswers(c, stop, table) <=>
        /\ Shows(Root, e)' /\ e.saved = c.saved
        /\ \A q \in Workers : /\ Receives(up[q], up'[q], Count(UpOp(c)))
                              /\ Sends(down[q], down'[q], Count(DownOp(c)), DownSays(q, c, e))
  BY DEF RootAnswers
<1>1. pc[Root] = "insertValue" /\ c.label = "insertValue" /\ down' = down
        /\ BufferConfiguration(Root)
  BY DEF GatherValues, Shows, ShowsAs, LabelOf
<1>2. ~Flushes(c) /\ ~Writes(c)
  BY <1>1 DEF Flushes, Writes
<1>3. UpOp(c) = "insertValue" /\ DownOp(c) = "none"
  BY <1>1, <1>2 DEF UpOp, DownOp
<1>4. /\ e.label = "countSweep" /\ e.stage = c.stage /\ e.counter = c.counter
      /\ e.therm = c.therm /\ e.sweeps = c.sweeps /\ e.exiting = c.exiting /\ e.table = c.table
      /\ e.saves = c.saves /\ e.saved = c.saved
  BY <1>1, <1>2 DEF After, LabelAfter, StageAfter, CounterAfter, Fills
<1>b. buffered'[Root] = OwnAll(Root, e.buffered)
  BY <1>c, <1>t, <1>1, BufferingShows
<1> HIDE DEF e
<1>5. FileOf(Root, e) = FileOf(Root, c)
  BY <1>4 DEF FileOf
<1>r. RootFits'
  <2>1. RootFits
    BY DEF Shows, ShowsAs
  <2>2. UNCHANGED <<current_process_par, current_par_process>> /\ pc'[Root] # "walk"
    BY <1>c, <1>1, <1>t DEF GatherValues, Goto, tables
  <2> QED
    BY <2>1, <2>2, FitsStill
<1>7. Shows(Root, e)'
  BY <1>c, <1>r, <1>t, <1>1, <1>4, <1>5, <1>b DEF GatherValues, Goto, Shows, ShowsAs, LabelOf,
     replicas, counters, tables
<1>8. \A q \in Workers : Receives(up[q], up'[q], 1)
  BY TakenFrom DEF GatherValues
<1> QED
  BY <1>s, <1>1, <1>3, <1>4, <1>7, <1>8, Quiet

LEMMA ConfigurationsAnswers ==
  ASSUME NEW L, NEW F, NEW D, TypesAmong(L, F, D), GatherConfigurations,
         NEW c \in SoundPoints, Shows(Root, c), NEW stop \in BOOLEAN, NEW table \in Tables
  PROVE  RootAnswers(c, stop, table)
<1> DEFINE e == After(c, stop, table)
<1>c. Root \in Proc
  BY Constants
<1>t. BufferTypes
  BY DEF TypesAmong
<1>s. RootAnswers(c, stop, table) <=>
        /\ Shows(Root, e)' /\ e.saved = c.saved
        /\ \A q \in Workers : /\ Receives(up[q], up'[q], Count(UpOp(c)))
                              /\ Sends(down[q], down'[q], Count(DownOp(c)), DownSays(q, c, e))
  BY DEF RootAnswers
<1>1. /\ Flushing(Root) /\ Flushes(c) /\ down' = down /\ PopConfiguration(Root)
      /\ Head(buffered[Root]) = Own(Root, Head(c.buffered)) /\ Head(c.buffered) \in Kept
  BY <1>c, <1>t, FlushingShows DEF GatherConfigurations
<1>2. ~Keeps(c) /\ ~Writes(c) /\ c.label = "save"
  BY <1>1 DEF Flushes, Keeps, Writes
<1>3. UpOp(c) = "configuration" /\ DownOp(c) = "none"
  BY <1>1, <1>2 DEF UpOp, DownOp
<1>4. /\ e.label = "save" /\ e.stage = c.stage /\ e.counter = c.counter
      /\ e.therm = c.therm /\ e.sweeps = c.sweeps /\ e.exiting = c.exiting /\ e.table = c.table
      /\ e.saves = c.saves /\ e.saved = c.saved
  BY <1>1, <1>2 DEF After, LabelAfter, StageAfter, CounterAfter, Fills
<1>b. buffered'[Root] = OwnAll(Root, e.buffered)
  BY <1>c, <1>t, <1>1, FlushingShows
<1> HIDE DEF e
<1>5. FileOf(Root, e) = FileOf(Root, c)
  BY <1>4 DEF FileOf
<1>r. RootFits'
  <2>1. RootFits
    BY DEF Shows, ShowsAs
  <2>2. UNCHANGED <<current_process_par, current_par_process>> /\ pc'[Root] # "walk"
    BY <1>c, <1>1, <1>2 DEF GatherConfigurations, Flushing, tables
  <2> QED
    BY <2>1, <2>2, FitsStill
<1>7. Shows(Root, e)'
  BY <1>c, <1>r, <1>1, <1>2, <1>4, <1>5, <1>b DEF GatherConfigurations, Shows, ShowsAs, LabelOf,
     replicas, counters, tables
<1>8. \A q \in Workers : Receives(up[q], up'[q], 1)
  BY TakenFrom DEF GatherConfigurations
<1> QED
  BY <1>s, <1>1, <1>3, <1>4, <1>7, <1>8, Quiet

LEMMA ControlDataAnswers ==
  ASSUME NEW L, NEW F, NEW D, TypesAmong(L, F, D), GatherControlData,
         NEW c \in SoundPoints, Shows(Root, c), \A q \in Workers : Head(up[q]) \in UpSays(q, c),
         NEW stop \in BOOLEAN, NEW table \in Tables
  PROVE  RootAnswers(c, stop, table)
<1> DEFINE e == After(c, stop, table)
<1>c. Root \in Proc
  BY Constants
<1>t. pc \in [Proc -> L] /\ BufferTypes
  BY DEF TypesAmong, ControlAmong
<1>s. RootAnswers(c, stop, table) <=>
        /\ Shows(Root, e)' /\ e.saved = c.saved
        /\ \A q \in Workers : /\ Receives(up[q], up'[q], Count(UpOp(c)))
                              /\ Sends(down[q], down'[q], Count(DownOp(c)), DownSays(q, c, e))
  BY DEF RootAnswers
<1>1. pc[Root] = "exchange" /\ c.label = "exchange" /\ down' = down
  BY DEF GatherControlData, Shows, ShowsAs, LabelOf
<1>2. ~Flushes(c) /\ ~Keeps(c) /\ ~Writes(c)
  BY <1>1 DEF Flushes, Keeps, Writes
<1>3. UpOp(c) = "exchange" /\ DownOp(c) = "none"
  BY <1>1, <1>2 DEF UpOp, DownOp
<1>4. /\ e.label = "assign" /\ e.stage = c.stage /\ e.counter = c.counter
      /\ e.therm = c.therm /\ e.sweeps = c.sweeps /\ e.exiting = c.exiting /\ e.table = c.table
      /\ e.buffered = c.buffered /\ e.saves = c.saves /\ e.saved = c.saved
  BY <1>1, <1>2 DEF After, LabelAfter, StageAfter, CounterAfter, Fills
<1> HIDE DEF e
<1>5. FileOf(Root, e) = FileOf(Root, c)
  BY <1>4 DEF FileOf
<1>r. RootFits'
  <2>1. TablesInverse /\ current_process_par = c.table /\ c.table[Root] = replica_ctrl[Root]
    BY <1>1 DEF Shows, ShowsAs, LabelOf, RootFits
  <2>2. \A q \in Workers : Head(up[q]).ctrl = c.table[q]
    BY <1>3 DEF UpSays
  <2>3. \A p \in Proc : process_control_data_buffer'[p] = c.table[p]
    BY <2>1, <2>2 DEF GatherControlData, Workers
  <2>4. c.table \in [Proc -> Par]
    BY PointFields DEF SoundPoints, Tables
  <2>5. process_control_data_buffer' = c.table
    BY <2>3, <2>4 DEF GatherControlData
  <2> QED
    BY <2>1, <2>5 DEF GatherControlData, RootFits, TablesInverse
<1>7. Shows(Root, e)'
  BY <1>c, <1>r, <1>t, <1>1, <1>4, <1>5 DEF GatherControlData, Goto, Shows, ShowsAs, LabelOf,
     files, replicas, counters, tables
<1>8. \A q \in Workers : Receives(up[q], up'[q], 1)
  BY TakenFrom DEF GatherControlData
<1> QED
  BY <1>s, <1>1, <1>3, <1>4, <1>7, <1>8, Quiet

LEMMA AssignmentAnswers ==
  ASSUME NEW L, NEW F, NEW D, TypesAmong(L, F, D), ScatterAssignment,
         NEW c \in SoundPoints, Shows(Root, c), NEW stop \in BOOLEAN, NEW table \in Tables,
         table = current_process_par
  PROVE  RootAnswers(c, stop, table)
<1> DEFINE e == After(c, stop, table)
<1>c. Root \in Proc
  BY Constants
<1>t. /\ pc \in [Proc -> L] /\ local_current_parameter_index \in [Proc -> Par]
      /\ current_process_par \in [Proc -> Par] /\ process_control_data_buffer \in [Proc -> Par]
      /\ replica_par \in [Proc -> Par] /\ replica_ctrl \in [Proc -> Par]
  BY DEF TypesAmong, ControlAmong, ReplicaTypes, TableTypes
<1>s. RootAnswers(c, stop, table) <=>
        /\ Shows(Root, e)' /\ e.saved = c.saved
        /\ \A q \in Workers : /\ Receives(up[q], up'[q], Count(UpOp(c)))
                              /\ Sends(down[q], down'[q], Count(DownOp(c)), DownSays(q, c, e))
  BY DEF RootAnswers
<1>1. pc[Root] = "walk" /\ c.label = "assign" /\ up' = up
  BY DEF ScatterAssignment, SendAll, Shows, ShowsAs, LabelOf
<1>2. ~Flushes(c) /\ ~Keeps(c) /\ ~Writes(c)
  BY <1>1 DEF Flushes, Keeps, Writes
<1>3. UpOp(c) = "none" /\ DownOp(c) = "assign"
  BY <1>1, <1>2 DEF UpOp, DownOp
<1>4. /\ e.label = "check" /\ e.stage = c.stage /\ e.counter = c.counter
      /\ e.therm = c.therm /\ e.sweeps = c.sweeps /\ e.exiting = c.exiting /\ e.table = table
      /\ e.buffered = c.buffered /\ e.saves = c.saves /\ e.saved = c.saved
  BY <1>1, <1>2 DEF After, LabelAfter, StageAfter, CounterAfter, Fills
<1> HIDE DEF e
<1>5. FileOf(Root, e) = FileOf(Root, c)
  BY <1>4 DEF FileOf
<1>w. process_control_data_buffer = current_process_par
  BY <1>1 DEF Shows, ShowsAs, RootFits
<1>6. /\ local_current_parameter_index'[Root] = e.table[Root] /\ replica_par'[Root] = e.table[Root]
      /\ replica_ctrl'[Root] = e.table[Root] /\ current_process_par' = e.table
  BY <1>c, <1>t, <1>4, <1>w DEF tables, ScatterAssignment, SendAll, TakeAssignment
<1>r. RootFits'
  <2>1. RootFits
    BY DEF Shows, ShowsAs
  <2>2. UNCHANGED <<current_process_par, current_par_process>> /\ pc'[Root] # "walk"
    BY <1>c, <1>1, <1>t DEF ScatterAssignment, SendAll, Goto, tables
  <2> QED
    BY <2>1, <2>2, FitsStill
<1>7. Shows(Root, e)'
  BY <1>c, <1>r, <1>t, <1>1, <1>4, <1>5, <1>6 DEF ScatterAssignment, SendAll, Goto, Shows, ShowsAs,
     LabelOf, files, counters, tables
<1>8. ASSUME NEW q \in Workers PROVE Sends(down[q], down'[q], 1, DownSays(q, c, e))
  <2> DEFINE m == [op |-> "assign", par |-> current_process_par[q],
                   ctrl |-> process_control_data_buffer[q]]
  <2>1. down'[q] = Append(down[q], m)
    BY DEF ScatterAssignment, SendAll
  <2>2. /\ current_process_par[q] \in Par /\ process_control_data_buffer[q] \in Par 
        /\ e.table[q] = current_process_par[q]
    BY <1>t, <1>4, <1>w DEF Workers
  <2>3. m \in DownSays(q, c, e)
    BY <1>3, <1>w, <2>2 DEF DownSays, DownMessage
  <2> HIDE DEF m
  <2> QED
    BY <2>1, <2>3, SentTo
<1> QED
  BY <1>s, <1>1, <1>3, <1>4, <1>7, <1>8, Quiet

LEMMA CheckAnswers ==
  ASSUME NEW L, NEW F, NEW D, TypesAmong(L, F, D), GatherCheck,
         NEW c \in SoundPoints, Shows(Root, c), \A q \in Workers : Head(up[q]) \in UpSays(q, c),
         NEW stop \in BOOLEAN, NEW table \in Tables
  PROVE  RootAnswers(c, stop, table)
<1> DEFINE e == After(c, stop, table)
<1>c. Root \in Proc
  BY Constants
<1>t. pc \in [Proc -> L] /\ BufferTypes
  BY DEF TypesAmong, ControlAmong
<1>s. RootAnswers(c, stop, table) <=>
        /\ Shows(Root, e)' /\ e.saved = c.saved
        /\ \A q \in Workers : /\ Receives(up[q], up'[q], Count(UpOp(c)))
                              /\ Sends(down[q], down'[q], Count(DownOp(c)), DownSays(q, c, e))
  BY DEF RootAnswers
<1>1. pc[Root] = "check" /\ c.label = "check" /\ down' = down
  BY DEF GatherCheck, Shows, ShowsAs, LabelOf
<1>2. ~Flushes(c) /\ ~Keeps(c) /\ ~Writes(c)
  BY <1>1 DEF Flushes, Keeps, Writes
<1>3. UpOp(c) = "check" /\ DownOp(c) = "none"
  BY <1>1, <1>2 DEF UpOp, DownOp
<1>4. /\ e.label = (IF c.counter % 2 = 0 THEN "top" ELSE "sweep")
      /\ e.stage = c.stage /\ e.counter = c.counter
      /\ e.therm = c.therm /\ e.sweeps = c.sweeps /\ e.exiting = c.exiting /\ e.table = c.table
      /\ e.buffered = c.buffered /\ e.saves = c.saves /\ e.saved = c.saved
  BY <1>1, <1>2 DEF After, LabelAfter, StageAfter, CounterAfter, Fills
<1> HIDE DEF e
<1>5. FileOf(Root, e) = FileOf(Root, c)
  BY <1>4 DEF FileOf
<1>6. ~LocalMismatch(Root) /\ replica_par[Root] = current_process_par[Root]
        /\ current_process_par = c.table
  BY <1>1 DEF Shows, ShowsAs, LabelOf, LocalMismatch
<1>7. pc'[Root] = LoopTop(Root) /\ Gathered("check") /\ TakeGathered
  <2>1. \A q \in Workers : Head(up[q]).par = current_process_par[q]
    BY <1>3, <1>6 DEF UpSays
  <2> QED
    BY <1>c, <1>t, <1>6, <2>1 DEF GatherCheck, Goto
<1>9. LoopTop(Root) = e.label /\ LoopTop(Root) # "walk"
  BY <1>4 DEF LoopTop, Shows, ShowsAs
<1>r. RootFits'
  <2>1. RootFits
    BY DEF Shows, ShowsAs
  <2>2. UNCHANGED <<current_process_par, current_par_process>> /\ pc'[Root] # "walk"
    BY <1>c, <1>1, <1>7, <1>9 DEF GatherCheck, tables
  <2> QED
    BY <2>1, <2>2, FitsStill
<1>8. Shows(Root, e)'
  BY <1>c, <1>r, <1>1, <1>4, <1>5, <1>7, <1>9 DEF GatherCheck, Shows, ShowsAs, LabelOf, files,
     replicas, counters, tables
<1>10. \A q \in Workers : Receives(up[q], up'[q], 1)
  BY <1>7, TakenFrom
<1> QED
  BY <1>s, <1>1, <1>3, <1>4, <1>8, <1>10, Quiet

(* A worker may not yet have taken a message from before the loop; what    *)
(* the root sends is then behind it.                                       *)
Behind(d, d2) ==
  \A q \in Workers : \/ d[q] = down[q] /\ d2[q] = down'[q]
                     \/ down[q] # <<>> /\ d[q] = Tail(down[q]) /\ d2[q] = Tail(down'[q])

LEMMA SentBehind ==
  ASSUME NEW S, NEW s \in Seq(S), s # <<>>, NEW t, NEW n, NEW W, W \subseteq S, Sends(s, t, n, W)
  PROVE  Sends(Tail(s), Tail(t), n, W)
<1>1. CASE n = 0
  BY <1>1 DEF Sends
<1>2. CASE n # 0
  <2>1. PICK m \in W : t = Append(s, m)
    BY <1>2 DEF Sends
  <2>2. Tail(Append(s, m)) = Append(Tail(s), m)
    BY HeadTailAppend
  <2> QED
    BY <1>2, <2>1, <2>2 DEF Sends
<1> QED
  BY <1>1, <1>2

LEMMA AnsweringStep ==
  ASSUME NEW L, NEW F, NEW D, TypesAmong(L, F, D), Master,
         NEW view, NEW view2, NEW d, NEW d2, NEW kept,
         ChannelsOf(up, d), ChannelsOf(up', d2), InLockstep(view, up, d), Behind(d, d2),
         view[Root] = View(Root, kept), view2[Root] = View(Root, kept)',
         \A q \in Workers : view2[q] = view[q],
         NEW stop \in BOOLEAN, NEW table \in Tables,
         \A c \in SoundPoints :
           /\ Shows(Root, c)
           /\ UpOp(c) # "none" => \A q \in Workers : Head(up[q]) \in UpSays(q, c)
           => RootAnswers(c, stop, table)
  PROVE  InLockstep(view2, up', d2)
<1>t. BufferTypes /\ down \in [Workers -> Seq(DownMessage \cup D)]
  BY DEF TypesAmong, ChannelsAmong
<1>1. view[Root].label # "done"
  <2>1. pc[Root] # "done"
    BY DEF Master, BroadcastStop, GatherValues, GatherConfigurations, OpenBarrier,
       GatherControlData, ProposeExchange, ScatterAssignment, GatherCheck, Flushing, SendAll
  <2> QED
    BY <2>1 DEF View, ViewAs, LabelOf
<1>2. ASSUME NEW c \in SoundPoints, view[Root] = Projected(Root, c)
      PROVE  Shows(Root, c) /\ kept = c.saved.table
  <2>1. View(Root, kept) = Projected(Root, c)
    BY <1>2
  <2> QED
    BY <2>1, ShowsIsView
<1>3. ASSUME NEW c \in SoundPoints, view[Root] = Projected(Root, c), UpOp(c) # "none"
      PROVE  \A q \in Workers : up[q] # <<>>
  BY <1>t, <1>2, <1>3, RootTakes
<1>4. RootMovesTo(stop, table, view, view2, up, up', d, d2)
  <2> SUFFICES ASSUME NEW c \in SoundPoints, view[Root] = Projected(Root, c),
                      UpOp(c) # "none" => \A q \in Workers : Head(up[q]) \in UpSays(q, c)
               PROVE  /\ view2[Root] = Projected(Root, After(c, stop, table))
                      /\ \A q \in Workers :
                           /\ Receives(up[q], up'[q], Count(UpOp(c)))
                           /\ Sends(d[q], d2[q], Count(DownOp(c)), DownSays(q, c, After(c, stop, table)))
    BY DEF RootMovesTo
  <2>1. Shows(Root, c) /\ kept = c.saved.table
    BY <1>2
  <2>2. RootAnswers(c, stop, table)
    BY <2>1
  <2>3. PICK e \in Points : e = After(c, stop, table)
    BY AfterTypes DEF SoundPoints
  <2>4. /\ Shows(Root, e)' /\ e.saved = c.saved
        /\ \A q \in Workers : /\ Receives(up[q], up'[q], Count(UpOp(c)))
                              /\ Sends(down[q], down'[q], Count(DownOp(c)), DownSays(q, c, e))
    BY <2>2, <2>3 DEF RootAnswers
  <2>5. (Root = Root => RootFits') = TRUE
    BY <2>4 DEF Shows, ShowsAs
  <2>6. View(Root, kept)' = Projected(Root, e)
    BY <2>1, <2>4, <2>5 DEF View, ViewAs, Projected, Shows, ShowsAs
  <2>7. ASSUME NEW q \in Workers PROVE Sends(d[q], d2[q], Count(DownOp(c)), DownSays(q, c, e))
    <3>1. CASE d[q] = down[q] /\ d2[q] = down'[q]
      BY <2>4, <3>1
    <3>2. CASE down[q] # <<>> /\ d[q] = Tail(down[q]) /\ d2[q] = Tail(down'[q])
      <4>1. DownSays(q, c, e) \subseteq DownMessage \cup D
        BY DEF DownSays
      <4>2. down[q] \in Seq(DownMessage \cup D)
        BY <1>t
      <4>3. Sends(Tail(down[q]), Tail(down'[q]), Count(DownOp(c)), DownSays(q, c, e))
        BY <2>4, <3>2, <4>1, <4>2, SentBehind
      <4> QED
        BY <3>2, <4>3
    <3> QED
      BY <3>1, <3>2 DEF Behind
  <2> QED
    BY <2>3, <2>4, <2>6, <2>7
<1>5. RootMoves(view, view2, up, up', d, d2)
  BY <1>1, <1>3, <1>4 DEF RootMoves
<1> QED
  BY <1>5, RootStaysInLockstep

(* Opening the barrier is two steps of the program.                        *)
LEMMA OpeningStep ==
  ASSUME NEW L, NEW F, NEW D, TypesAmong(L, F, D), OpenBarrier,
         NEW view, NEW view2, NEW d, NEW d2, NEW kept,
         ChannelsOf(up, d), ChannelsOf(up', d2), InLockstep(view, up, d), Behind(d, d2),
         view[Root] = View(Root, kept), view2[Root] = View(Root, kept)',
         \A q \in Workers : view2[q] = view[q]
  PROVE  InLockstep(view2, up', d2)
<1>c. Root \in Proc
  BY Constants
<1>t. pc \in [Proc -> L] /\ down \in [Workers -> Seq(DownMessage \cup D)]
  BY DEF TypesAmong, ControlAmong, ChannelsAmong
<1>1. pc[Root] = "barrier" /\ pc'[Root] = "endSweep"
  BY <1>c, <1>t DEF OpenBarrier, Goto, SendAll
<1>2. view[Root].label = "barrier"
  BY <1>1 DEF View, ViewAs, LabelOf
<1>3. ASSUME NEW c, NEW e, view[Root] = Projected(Root, c), Agree(c, e), e.label = "endSweep"
      PROVE  view2[Root] = Projected(Root, e)
  <2>1. View(Root, kept) = Projected(Root, c)
    BY <1>3
  <2>2. Shows(Root, c) /\ kept = c.saved.table
    BY <2>1, ShowsIsView
  <2>3. RootFits'
    <3>1. RootFits
      BY <2>2 DEF Shows, ShowsAs
    <3>2. UNCHANGED <<current_process_par, current_par_process>> /\ pc'[Root] # "walk"
      BY <1>1 DEF OpenBarrier, SendAll, tables
    <3> QED
      BY <3>1, <3>2, FitsStill
  <2>4. Shows(Root, e)' /\ kept = e.saved.table
    BY <1>1, <1>3, <2>2, <2>3
       DEF OpenBarrier, SendAll, Agree, Shows, ShowsAs, LabelOf, files, replicas, counters, tables
  <2>5. (Root = Root => RootFits') = TRUE
    BY <2>3
  <2>6. View(Root, kept)' = Projected(Root, e)
    BY <2>4, <2>5 DEF View, ViewAs, Projected, Shows, ShowsAs
  <2> QED
    BY <2>6
<1>4. ASSUME NEW q \in Workers
      PROVE  /\ view2[q] = view[q] /\ up[q] # <<>> /\ up'[q] = Tail(up[q])
             /\ \E m \in DownMessage : m.op = "barrier" /\ d2[q] = Append(d[q], m)
  <2>1. up[q] # <<>> /\ up'[q] = Tail(up[q])
    BY DEF OpenBarrier, SendAll, Gathered, TakeGathered
  <2>2. PICK m \in DownMessage : m.op = "barrier" /\ down'[q] = Append(down[q], m)
    <3>1. [op |-> "barrier"] \in DownMessage
      BY DEF DownMessage
    <3> QED
      BY <3>1 DEF OpenBarrier, SendAll
  <2>3. Sends(down[q], down'[q], 1, {m}) /\ {m} \subseteq DownMessage \cup D
    BY <2>2 DEF Sends
  <2>4. down[q] # <<>> => Sends(Tail(down[q]), Tail(down'[q]), 1, {m})
    <3>1. down[q] \in Seq(DownMessage \cup D)
      BY <1>t
    <3> QED
      BY <2>3, <3>1, SentBehind
  <2>5. Sends(d[q], d2[q], 1, {m})
    BY <2>3, <2>4 DEF Behind
  <2> QED
    BY <2>1, <2>2, <2>5 DEF Sends
<1> QED
  BY <1>2, <1>3, <1>4, BarrierStep

(* Only what the processes show, and what is on its way, matters.          *)
LEMMA SameLockstep ==
  ASSUME NEW view, NEW view2, NEW u, NEW d, NEW d2, InLockstep(view, u, d),
         \A p \in Proc : view2[p] = view[p], \A q \in Workers : d2[q] = d[q]
  PROVE  InLockstep(view2, u, d2)
BY DEF InLockstep, Along

(* The walk permutes the tables and the gathered control data alike.       *)
LEMMA WalkFits ==
  ASSUME TableTypes, RootFits, NEW accept \in BOOLEAN, ProposeExchange(accept)
  PROVE  RootFits'
BY WalkPermutes DEF RootFits, ProposeExchange

LEMMA RootFitsInLockstep ==
  ASSUME NEW view, NEW d, NEW kept, ChannelsOf(up, d), InLockstep(view, up, d),
         view[Root] = View(Root, kept)
  PROVE  RootFits
<1>c. Root \in Proc
  BY Constants
<1>1. PICK at \in [Proc -> SoundPoints] : Standing(at, view)
  BY Relative
<1>2. View(Root, kept) = Projected(Root, at[Root])
  BY <1>c, <1>1 DEF Standing
<1>3. Shows(Root, at[Root])
  BY <1>2, ShowsIsView
<1> QED
  BY <1>3 DEF Shows, ShowsAs

LEMMA MasterStep ==
  ASSUME NEW L, NEW F, NEW D, TypesAmong(L, F, D), Master,
         NEW view, NEW view2, NEW d, NEW d2, NEW kept,
         ChannelsOf(up, d), ChannelsOf(up', d2), InLockstep(view, up, d), Behind(d, d2),
         view[Root] = View(Root, kept), view2[Root] = View(Root, kept)',
         \A r \in Proc \ {Root} : view2[r] = view[r]
  PROVE  InLockstep(view2, up', d2)
<1>c. Root \in Proc /\ \A q \in Workers : q \in Proc \ {Root}
  BY Constants DEF Workers
<1>t. TableTypes
  BY DEF TypesAmong
<1>v. \A q \in Workers : view2[q] = view[q]
  BY <1>c
<1>f. RootFits
  BY RootFitsInLockstep
<1>0. PICK table \in Tables : table = current_process_par
  BY <1>f, <1>t, TablesOfExchange DEF RootFits
<1>1. ASSUME NEW stop \in BOOLEAN, BroadcastStop(stop) PROVE InLockstep(view2, up', d2)
  <2>1. \A c \in SoundPoints : Shows(Root, c) => RootAnswers(c, stop, table)
    BY <1>1, BroadcastAnswers
  <2> QED
    BY <1>v, <2>1, AnsweringStep
<1>2. CASE GatherValues
  <2>1. \A c \in SoundPoints : Shows(Root, c) => RootAnswers(c, TRUE, table)
    BY <1>2, ValuesAnswers
  <2> QED
    BY <1>v, <2>1, AnsweringStep
<1>3. CASE GatherConfigurations
  <2>1. \A c \in SoundPoints : Shows(Root, c) => RootAnswers(c, TRUE, table)
    BY <1>3, ConfigurationsAnswers
  <2> QED
    BY <1>v, <2>1, AnsweringStep
<1>4. CASE OpenBarrier
  BY <1>v, <1>4, OpeningStep
<1>5. CASE GatherControlData
  <2>1. ASSUME NEW c \in SoundPoints, Shows(Root, c),
               UpOp(c) # "none" => \A q \in Workers : Head(up[q]) \in UpSays(q, c)
        PROVE  RootAnswers(c, TRUE, table)
    <3>1. c.label = "exchange"
      BY <1>5, <2>1 DEF GatherControlData, Shows, ShowsAs, LabelOf
    <3>2. UpOp(c) # "none"
      BY <3>1 DEF UpOp, Flushes
    <3> QED
      BY <1>5, <2>1, <3>2, ControlDataAnswers
  <2> QED
    BY <1>v, <2>1, AnsweringStep
<1>6. ASSUME NEW accept \in BOOLEAN, ProposeExchange(accept) PROVE InLockstep(view2, up', d2)
  <2>1. RootFits'
    BY <1>f, <1>t, <1>6, WalkFits
  <2>2. (Root = Root => RootFits') = (Root = Root => RootFits)
    BY <1>f, <2>1
  <2>3. LabelOf(Root) = "assign" /\ LabelOf(Root)' = "assign"
    BY <1>6 DEF ProposeExchange, LabelOf
  <2>4. View(Root, kept)' = View(Root, kept)
    BY <1>6, <2>2, <2>3 DEF View, ViewAs, ProposeExchange, files, replicas, counters
  <2>5. up' = up /\ down' = down
    BY <1>6 DEF ProposeExchange
  <2>6. \A p \in Proc : view2[p] = view[p]
    BY <1>v, <2>4 DEF Workers
  <2>7. \A q \in Workers : d2[q] = d[q]
    BY <2>5 DEF Behind
  <2> QED
    BY <2>5, <2>6, <2>7, SameLockstep
<1>7. CASE ScatterAssignment
  <2>1. \A c \in SoundPoints : Shows(Root, c) => RootAnswers(c, TRUE, table)
    BY <1>0, <1>7, AssignmentAnswers
  <2> QED
    BY <1>v, <2>1, AnsweringStep
<1>8. CASE GatherCheck
  <2>1. ASSUME NEW c \in SoundPoints, Shows(Root, c),
               UpOp(c) # "none" => \A q \in Workers : Head(up[q]) \in UpSays(q, c)
        PROVE  RootAnswers(c, TRUE, table)
    <3>1. c.label = "check"
      BY <1>8, <2>1 DEF GatherCheck, Shows, ShowsAs, LabelOf
    <3>2. UpOp(c) # "none"
      BY <3>1 DEF UpOp, Flushes
    <3> QED
      BY <1>8, <2>1, <3>2, CheckAnswers
  <2> QED
    BY <1>v, <2>1, AnsweringStep
<1> QED
  BY <1>1, <1>2, <1>3, <1>4, <1>5, <1>6, <1>7, <1>8 DEF Master

-----------------------------------------------------------------------------
(* The runs of DetQMCPT are in lockstep.                                   *)

LEMMA ViewOfEach ==
  ASSUME NEW kept, NEW r \in Proc
  PROVE  Views(kept)[r] = View(r, kept) /\ Views(kept)'[r] = View(r, kept)'
<1>1. Views(kept)[r] = View(r, kept)
  BY DEF Views
<1>2. Views(kept)'[r] = View(r, kept)'
  BY DEF Views, View, ViewAs, LabelOf
<1> QED
  BY <1>1, <1>2

LEMMA InitialLockstep == Init => Lockstep
<1> SUFFICES ASSUME Init PROVE Lockstep
  OBVIOUS
<1>1. PICK c \in SoundPoints : c = Start
  BY StartSound
<1>2. PICK kept : kept = Identity
  OBVIOUS
<1>f. RootFits
  BY Constants DEF Init, RootFits, TablesInverse
<1>3. ASSUME NEW p \in Proc PROVE Views(kept)[p] = Projected(p, c)
  <2>1. OwnAll(p, <<>>) = <<>>
    BY DEF OwnAll
  <2>2. Shows(p, Start)
    BY <1>f, <2>1 DEF Init, Shows, ShowsAs, LabelOf, Start, Identity, FileOf
  <2>3. kept = c.saved.table
    BY <1>1, <1>2 DEF Start
  <2> QED
    BY <1>1, <2>2, <2>3, ShowsIsView, ViewOfEach
<1>4. \A q \in Workers : up[q] = <<>> /\ down[q] = <<>>
  BY DEF Init
<1> QED
  BY <1>3, <1>4, StartsInLockstep DEF Lockstep

LEMMA NextLockstep ==
  ASSUME TypeOK, TypeOK', Lockstep, [Next]_vars
  PROVE  Lockstep'
<1>c. Root \in Proc /\ \A q \in Workers : q \in Proc
  BY Constants DEF Workers
<1>t. TypesAmong(Labels, {NoFile}, {}) /\ ChannelsOf(up, down) /\ ChannelsOf(up', down')
  BY TypesOfARun DEF TypeOK, ChannelTypes, ChannelsOf
<1>1. PICK kept : InLockstep(Views(kept), up, down)
  BY DEF Lockstep
<1> SUFFICES \E kept2 : InLockstep(Views(kept2)', up', down')
  BY DEF Lockstep
<1>2. CASE \E p \in Proc : Save(p)
  <2>1. PICK p \in Proc : Save(p)
    BY <1>2
  <2>2. PICK kept2 : kept2 = IF p = Root THEN current_process_par ELSE kept
    OBVIOUS
  <2>f. stage[p] # "M" \/ buffered[p] = <<>>
    BY <2>1 DEF Save, Flushing
  <2>3. Views(kept)[p] = ViewAs(p, "save", replica_par[p], stateFile[p], kept)
    BY <2>1, ViewOfEach DEF Save, View, LabelOf
  <2>4. Views(kept2)'[p] = ViewAs(p, AfterSave(p), replica_par[p], CurrentState(p), kept2)
    <3>1. pc'[p] = AfterSave(p) /\ stateFile'[p] = CurrentState(p)
      BY <1>t, <2>1 DEF Save, Goto, TypesAmong, ControlAmong, FilesAmong
    <3>2. LabelOf(p)' = AfterSave(p) /\ AfterSave(p) # "walk"
      BY <3>1 DEF LabelOf, AfterSave
    <3>3. (p = Root => RootFits') = (p = Root => RootFits)
      BY <2>1, <3>1 DEF Save, RootFits, TablesInverse, tables, AfterSave
    <3>4. View(p, kept2)' = ViewAs(p, AfterSave(p), replica_par[p], CurrentState(p), kept2)
      BY <2>1, <3>1, <3>2, <3>3 DEF View, ViewAs, Save, tables, replicas, counters
    <3> QED
      BY <3>4, ViewOfEach
  <2>5. ASSUME NEW r \in Proc \ {p} PROVE Views(kept2)'[r] = Views(kept)[r]
    <3>1. Untouched(r)
      BY <1>t, <2>1 DEF Save, Goto, Untouched, TypesAmong, ControlAmong, FilesAmong, tables,
         replicas, counters
    <3>2. View(r, kept2)' = View(r, kept2)
      BY <3>1, UntouchedView
    <3>3. View(r, kept2) = View(r, kept)
      BY <2>2 DEF View, ViewAs
    <3> QED
      BY <3>2, <3>3, ViewOfEach
  <2>6. p = Root => kept2 = current_process_par
    BY <2>2
  <2>7. up' = up /\ down' = down
    BY <2>1 DEF Save
  <2>8. InLockstep(Views(kept2)', up, down)
    BY <1>t, <1>1, <2>f, <2>3, <2>4, <2>5, <2>6, SavingStep
  <2> QED
    BY <2>7, <2>8
<1>3. ASSUME NEW p \in Proc, Driven(p) PROVE InLockstep(Views(kept)', up', down')
  <2>1. \A r \in Proc \ {p} : Untouched(r)
    BY <1>t, <1>3, OthersKeepTheirs
  <2>2. ASSUME NEW r \in Proc \ {p} PROVE Views(kept)'[r] = Views(kept)[r]
    BY <2>1, UntouchedView, ViewOfEach
  <2>3. Views(kept)[p] = View(p, kept) /\ Views(kept)'[p] = View(p, kept)'
    BY ViewOfEach
  <2>4. CASE Counting(p)
    <3>1. up' = up /\ down' = down
      BY <2>4 DEF Counting, SweepThermalization, Sweep, CountSweep, EndSweep
    <3>2. InLockstep(Views(kept)', up, down)
      BY <1>t, <1>1, <2>2, <2>3, <2>4, CountingStep
    <3> QED
      BY <3>1, <3>2
  <2>5. CASE p \in Workers /\ Worker(p)
    <3>1. \A r \in Workers \ {p} : down'[r] = down[r]
      BY <1>t, <2>5 DEF Worker, HearStop, SendValue, SendConfiguration, EnterBarrier, LeaveBarrier,
         SendControlData, HearAssignment, SendCheck, Hear, TypesAmong, ChannelsAmong
    <3> QED
      BY <1>t, <1>1, <2>2, <2>3, <2>5, <3>1, WorkerStep
  <2>6. CASE p = Root /\ Master
    <3>1. Behind(down, down')
      BY DEF Behind
    <3> QED
      BY <1>t, <1>1, <2>2, <2>3, <2>6, <3>1, MasterStep
  <2> QED
    BY <1>3, <2>4, <2>5, <2>6 DEF Driven
<1>4. CASE UNCHANGED vars
  <2>1. ASSUME NEW r \in Proc PROVE Views(kept)'[r] = Views(kept)[r]
    <3>1. Untouched(r)
      BY <1>4 DEF vars, Untouched, files, replicas, counters, tables
    <3> QED
      BY <3>1, UntouchedView, ViewOfEach
  <2>2. up' = up /\ down' = down
    BY <1>4 DEF vars
  <2>3. InLockstep(Views(kept)', up, down)
    BY <1>1, <2>1, SameLockstep
  <2> QED
    BY <2>2, <2>3
<1> QED
  BY <1>c, <1>2, <1>3, <1>4 DEF Next, Terminated, Local, Driven, Counting

(* The processes are in lockstep: each stands at a point of one history of *)
(* the program, and what is on its way between the root and a worker is    *)
(* what the program sends between the points where the two stand.          *)
THEOREM ProcessesInLockstep == Spec => []Lockstep
<1>1. TypeOK /\ TypeOK' /\ Lockstep /\ [Next]_vars => Lockstep'
  BY NextLockstep
<1> QED
  BY <1>1, InitialLockstep, TypeCorrect, PTL DEF Spec

-----------------------------------------------------------------------------
(* What lockstep means for the collectives, between the root and a worker  *)
(* that show what they are                                                 *)

LEMMA Matching ==
  ASSUME BufferTypes, NEW view, NEW d, NEW kept, ChannelsOf(up, d),
         NEW at \in [Proc -> SoundPoints], Standing(at, view), Arriving(at, up, d), NEW q \in Workers
  PROVE  /\ view[Root] = View(Root, kept) /\ up[q] # <<>> => Head(up[q]).op \in ExpectedAtRoot
         /\ view[q] = View(q, kept) /\ d[q] # <<>> =>
              /\ Head(d[q]) \in DownMessage
              /\ \/ pc[q] \notin {"top", "inBarrier", "assign"}
                 \/ pc[q] = "top" /\ Head(d[q]).op = "stop_now"
                 \/ pc[q] = "inBarrier" /\ Head(d[q]).op = "barrier"
                 \/ pc[q] = "assign" /\ Head(d[q]).op = "assign"
         /\ view[Root] = View(Root, kept) /\ view[q] = View(q, kept) /\ d[q] = <<>> =>
              ~(RootWaitsFor(q) /\ pc[q] \in {"top", "inBarrier", "assign"})
<1>c. Root \in Proc /\ q \in Proc /\ q # Root
  BY Constants DEF Workers
<1>t. up[q] \in Seq(UpMessage) /\ d[q] \in Seq(DownMessage)
  BY DEF ChannelsOf
<1>1. PICK c \in SoundPoints, e \in SoundPoints : c = at[Root] /\ e = at[q]
  BY <1>c
<1>2. ASSUME view[Root] = View(Root, kept) PROVE Shows(Root, c) /\ (Flushing(Root) <=> Flushes(c))
  <2>1. View(Root, kept) = Projected(Root, c)
    BY <1>c, <1>1, <1>2 DEF Standing
  <2>2. Shows(Root, c)
    BY <2>1, ShowsIsView
  <2> QED
    BY <1>c, <2>2, FlushingShows
<1>3. ASSUME view[q] = View(q, kept) PROVE Shows(q, e)
  <2>1. View(q, kept) = Projected(q, e)
    BY <1>c, <1>1, <1>3 DEF Standing
  <2> QED
    BY <2>1, ShowsIsView
<1>4. /\ up[q] = <<>> /\ d[q] = <<>> => UpOp(c) = "none" \/ DownOp(e) = "none"
      /\ up[q] # <<>> /\ UpOp(c) # "none" => Head(up[q]).op = UpOp(c)
      /\ d[q] # <<>> /\ DownOp(e) # "none" => Head(d[q]).op = DownOp(e)
  BY <1>1 DEF Arriving, UpSays, DownSays
<1>5. ASSUME view[Root] = View(Root, kept), up[q] # <<>> PROVE Head(up[q]).op \in ExpectedAtRoot
  <2>3. Head(up[q]).op \in {"insertValue", "configuration", "barrier", "exchange", "check"}
    <3>1. Head(up[q]) \in UpMessage
      BY <1>t, <1>5
    <3> QED
      BY <3>1 DEF UpMessage
  <2>4. CASE Flushing(Root)
    <3>1. UpOp(c) = "configuration" /\ pc[Root] = "save"
      BY <1>2, <1>5, <2>4 DEF UpOp, Flushing
    <3> QED
      BY <1>4, <1>5, <2>4, <3>1 DEF ExpectedAtRoot
  <2>5. CASE ~Flushing(Root)
    <3>1. pc[Root] \in {"insertValue", "barrier", "exchange", "check"} => UpOp(c) = pc[Root]
      BY <1>2, <1>5, <2>5 DEF UpOp, Shows, ShowsAs, LabelOf
    <3> QED
      BY <1>4, <1>5, <2>3, <2>5, <3>1 DEF ExpectedAtRoot
  <2> QED
    BY <2>4, <2>5
<1>6. ASSUME view[q] = View(q, kept)
      PROVE  /\ pc[q] = "top" => DownOp(e) = "stop_now"
             /\ pc[q] = "inBarrier" => DownOp(e) = "barrier"
             /\ pc[q] = "assign" => DownOp(e) = "assign"
  BY <1>3, <1>6 DEF DownOp, Shows, ShowsAs, LabelOf
<1>7. ASSUME view[q] = View(q, kept), d[q] # <<>>
      PROVE  /\ Head(d[q]) \in DownMessage
             /\ \/ pc[q] \notin {"top", "inBarrier", "assign"}
                \/ pc[q] = "top" /\ Head(d[q]).op = "stop_now"
                \/ pc[q] = "inBarrier" /\ Head(d[q]).op = "barrier"
                \/ pc[q] = "assign" /\ Head(d[q]).op = "assign"
  <2>1. Head(d[q]) \in DownMessage
    BY <1>t, <1>7
  <2> QED
    BY <1>4, <1>6, <1>7, <2>1
<1>8. ASSUME view[Root] = View(Root, kept), view[q] = View(q, kept), d[q] = <<>>,
             RootWaitsFor(q), pc[q] \in {"top", "inBarrier", "assign"}
      PROVE  FALSE
  <2>1. UpOp(c) # "none" /\ up[q] = <<>>
    BY <1>2, <1>8 DEF RootWaitsFor, UpOp, Shows, ShowsAs, LabelOf
  <2>2. DownOp(e) # "none"
    BY <1>6, <1>8
  <2> QED
    BY <1>4, <1>8, <2>1, <2>2
<1> QED
  BY <1>5, <1>7, <1>8

(* The points where the processes of a run stand.                          *)
LEMMA StandingOfARun ==
  ASSUME TypeOK, Lockstep
  PROVE  \E at \in [Proc -> SoundPoints] : \E kept :
           /\ Standing(at, Views(kept)) /\ Arriving(at, up, down)
           /\ \A p \in Proc : Shows(p, at[p])
<1>1. PICK kept : InLockstep(Views(kept), up, down)
  BY DEF Lockstep
<1>2. ChannelsOf(up, down)
  BY DEF TypeOK, ChannelTypes, ChannelsOf
<1>3. PICK at \in [Proc -> SoundPoints] : Standing(at, Views(kept)) /\ Arriving(at, up, down)
  BY <1>1, <1>2, Relative
<1>4. ASSUME NEW p \in Proc PROVE Shows(p, at[p])
  <2>1. View(p, kept) = Projected(p, at[p])
    BY <1>3, ViewOfEach DEF Standing
  <2> QED
    BY <2>1, ShowsIsView
<1> QED
  BY <1>3, <1>4

LEMMA MatchingStep ==
  ASSUME TypeOK, Lockstep
  PROVE  CollectivesMatch
<1>a. PICK at \in [Proc -> SoundPoints] : \E kept :
        /\ Standing(at, Views(kept)) /\ Arriving(at, up, down)
        /\ \A p \in Proc : Shows(p, at[p])
  BY StandingOfARun
<1>1. PICK kept : /\ Standing(at, Views(kept)) /\ Arriving(at, up, down)
                  /\ \A p \in Proc : Shows(p, at[p])
  BY <1>a
<1>t. BufferTypes /\ ChannelsOf(up, down)
  BY DEF TypeOK, ChannelTypes, ChannelsOf
<1> SUFFICES ASSUME NEW q \in Workers
             PROVE  /\ ~(RootWaitsFor(q) /\ WaitsForRoot(q))
                    /\ up[q] # <<>> => Head(up[q]).op \in ExpectedAtRoot
                    /\ down[q] # <<>> => Head(down[q]).op \in ExpectedAt(q)
                    /\ AllDone => up[q] = <<>> /\ down[q] = <<>>
  BY DEF CollectivesMatch
<1>2. Views(kept)[Root] = View(Root, kept) /\ Views(kept)[q] = View(q, kept)
  BY Constants, ViewOfEach DEF Workers
<1>3. /\ up[q] # <<>> => Head(up[q]).op \in ExpectedAtRoot
      /\ down[q] # <<>> =>
           /\ Head(down[q]) \in DownMessage
           /\ \/ pc[q] \notin {"top", "inBarrier", "assign"}
              \/ pc[q] = "top" /\ Head(down[q]).op = "stop_now"
              \/ pc[q] = "inBarrier" /\ Head(down[q]).op = "barrier"
              \/ pc[q] = "assign" /\ Head(down[q]).op = "assign"
      /\ down[q] = <<>> => ~(RootWaitsFor(q) /\ pc[q] \in {"top", "inBarrier", "assign"})
  BY <1>1, <1>2, <1>t, Matching
<1>4. down[q] # <<>> => Head(down[q]).op \in ExpectedAt(q)
  <2>1. Head(down[q]) \in DownMessage => Head(down[q]).op \in {"stop_now", "barrier", "assign"}
    BY DEF DownMessage
  <2> QED
    BY <1>3, <2>1 DEF ExpectedAt
<1>5. AllDone => up[q] = <<>> /\ down[q] = <<>>
  <2>1. AllDone => \A p \in Proc : at[p].label = "done"
    BY <1>1 DEF AllDone, Shows, ShowsAs, LabelOf
  <2> QED
    BY <1>1, <2>1 DEF Arriving
<1> QED
  BY <1>3, <1>4, <1>5 DEF WaitsForRoot

(* The collectives match: what arrives is for the collective its receiver  *)
(* is in, the root and a worker never wait for each other, and nothing is  *)
(* left unheard when run() has returned everywhere.                        *)
THEOREM CollectivesAlwaysMatch == Spec => []CollectivesMatch
<1>1. TypeOK /\ Lockstep => CollectivesMatch
  BY MatchingStep
<1> QED
  BY <1>1, TypeCorrect, ProcessesInLockstep, PTL

-----------------------------------------------------------------------------
(* What lockstep means for the files                                       *)

LEMMA CheckpointOf ==
  ASSUME NEW p \in Proc, NEW c \in SoundPoints, Shows(p, c)
  PROVE  /\ Checkpoint(p) = SavedProgress(c) /\ Progress(p) = ProgressAt(c)
         /\ stateFile[p] # NoFile =>
              /\ stateFile[p].par = c.saved.table[p] /\ stateFile[p].ctrl = c.saved.table[p]
              /\ stateFile[p].counter = c.saved.counter
<1>1. /\ c.saves \in Nat /\ c.saved.therm \in Nat /\ c.saved.sweeps \in Nat
      /\ c.saved.counter \in Nat /\ c.saved.table \in Tables
  BY PointFields DEF SoundPoints
<1>2. stateFile[p] = FileOf(p, c)
  BY DEF Shows, ShowsAs
<1>3. CASE c.saves = 0
  <2>1. SavedProgress(c) = 0
    BY <1>3, SoundFields DEF SaveSound
  <2>2. stateFile[p] = NoFile
    BY <1>2, <1>3 DEF FileOf
  <2> QED
    BY <2>1, <2>2 DEF Checkpoint, Progress, ProgressAt, Shows, ShowsAs
<1>4. CASE c.saves # 0
  <2>1. stateFile[p] = [therm |-> c.saved.therm, sweeps |-> c.saved.sweeps,
                        counter |-> c.saved.counter, par |-> c.saved.table[p],
                        ctrl |-> c.saved.table[p]]
    BY <1>2, <1>4 DEF FileOf
  <2>2. c.saved.table[p] \in Nat
    <3>1. \A table \in Tables : table[p] \in Par
      BY DEF Tables
    <3>2. c.saved.table[p] \in Par
      BY <1>1, <3>1
    <3> QED
      BY <3>2, ParametersAssumption DEF Par
  <2>3. stateFile[p] # NoFile
    BY <1>1, <2>1, <2>2, ParametersAssumption
  <2> QED
    BY <2>1, <2>3 DEF Checkpoint, SavedProgress, Progress, ProgressAt, Shows, ShowsAs
<1> QED
  BY <1>3, <1>4

(* A process saves when swCounter is even.                                 *)
EvenStates == \A p \in Proc : stateFile[p] # NoFile => stateFile[p].counter % 2 = 0

LEMMA NextEvenStates ==
  ASSUME TypeOK, Lockstep, EvenStates, [Next]_vars
  PROVE  EvenStates'
<1>t. TypesAmong(Labels, {NoFile}, {})
  BY TypesOfARun
<1>1. CASE \E p \in Proc : Save(p)
  <2>1. PICK p \in Proc : Save(p)
    BY <1>1
  <2>2. PICK at \in [Proc -> SoundPoints] : \A r \in Proc : Shows(r, at[r])
    BY StandingOfARun
  <2>3. PICK c \in SoundPoints : c = at[p]
    OBVIOUS
  <2>4. c.label = "save" /\ c.counter = swCounter[p]
    BY <2>1, <2>2, <2>3 DEF Save, Shows, ShowsAs, LabelOf
  <2>5. CounterSound(c)
    BY SoundFields
  <2>6. swCounter[p] % 2 = 0
    BY <2>4, <2>5 DEF CounterSound
  <2>7. \A r \in Proc : stateFile'[r] = IF r = p THEN CurrentState(p) ELSE stateFile[r]
    BY <1>t, <2>1 DEF Save, TypesAmong, FilesAmong
  <2> QED
    BY <2>6, <2>7 DEF EvenStates, CurrentState
<1>2. ASSUME NEW p \in Proc, Driven(p) PROVE EvenStates'
  <2>1. UNCHANGED stateFile
    BY <1>2 DEF Driven, Counting, SweepThermalization, Sweep, CountSweep, EndSweep, Worker,
       HearStop, SendValue, SendConfiguration, EnterBarrier, LeaveBarrier, SendControlData,
       HearAssignment, SendCheck, Master, BroadcastStop, GatherValues, GatherConfigurations,
       OpenBarrier, GatherControlData, ProposeExchange, ScatterAssignment, GatherCheck, SendAll,
       files
  <2> QED
    BY <2>1 DEF EvenStates
<1>3. CASE UNCHANGED vars
  BY <1>3 DEF vars, files, EvenStates
<1> QED
  BY Constants, <1>1, <1>2, <1>3 DEF Next, Terminated, Local, Driven, Counting, Workers

LEMMA CoherenceStep ==
  ASSUME TypeOK, Lockstep, EvenStates
  PROVE  CheckpointsCoherent
<1>c. Root \in Proc
  BY Constants
<1>0. PICK at \in [Proc -> SoundPoints] :
        (\E kept : Standing(at, Views(kept))) /\ \A p \in Proc : Shows(p, at[p])
  BY StandingOfARun
<1>k. PICK kept : Standing(at, Views(kept))
  BY <1>0
<1>1. Standing(at, Views(kept)) /\ \A p \in Proc : Shows(p, at[p])
  BY <1>0, <1>k
<1>2. \A p \in Proc : /\ Checkpoint(p) = SavedProgress(at[p]) /\ Progress(p) = ProgressAt(at[p])
                      /\ stateFile[p] # NoFile =>
                           /\ stateFile[p].par = at[p].saved.table[p]
                           /\ stateFile[p].ctrl = at[p].saved.table[p]
                           /\ stateFile[p].counter = at[p].saved.counter
  <2>1. \A p \in Proc : at[p] \in SoundPoints /\ Shows(p, at[p])
    BY <1>1
  <2> QED
    BY <2>1, CheckpointOf
<1>3. ASSUME NEW p \in Proc, NEW q \in Proc, Checkpoint(p) > Checkpoint(q)
      PROVE  Progress(p) = Checkpoint(p)
  <2>1. PICK c \in SoundPoints, d \in SoundPoints : c = at[p] /\ d = at[q]
    OBVIOUS
  <2>2. /\ c.saves \in Nat /\ d.saves \in Nat /\ SavedProgress(c) \in Nat
             /\ SavedProgress(d) \in Nat
        /\ SaveSound(c)
    BY SoundFields
  <2>3. SavedProgress(c) > SavedProgress(d)
    BY <1>2, <1>3, <2>1
  <2>4. Later(d, c)
    <3>1. Later(c, d) \/ Later(d, c)
      BY <1>1, <2>1 DEF Standing
    <3>2. ~Later(c, d)
      BY <2>2, <2>3 DEF Later
    <3> QED
      BY <3>1, <3>2
  <2>5. d.saves < c.saves
    <3>1. d.saves <= c.saves /\ (d.saves = c.saves => d.saved = c.saved)
      BY <2>4 DEF Later
    <3>2. d.saved # c.saved
      BY <2>2, <2>3 DEF SavedProgress
    <3> QED
      BY <2>2, <3>1, <3>2
  <2>6. Opened(c) <= d.saves
    BY <1>1, <2>1, SavesMeet
  <2>7. AtBarrier(c)
    BY <2>2, <2>5, <2>6 DEF Opened
  <2>8. SavedProgress(c) = ProgressAt(c)
    BY <2>2, <2>7 DEF SaveSound, JustSaved, SavedProgress, ProgressAt
  <2> QED
    BY <1>2, <2>1, <2>8
<1>4. ASSUME AllDone \/ ~exiting[Root],
             \A p \in Proc : stateFile[p] # NoFile /\ Checkpoint(p) = Checkpoint(Root)
      PROVE  FilesFitTogether
  <2>1. PICK r \in SoundPoints : r = at[Root]
    BY <1>c
  <2>2. ASSUME NEW p \in Proc PROVE at[p].saved = r.saved
    <3>1. CASE AllDone
      <4>1. \A s \in Proc : at[s].label = "done"
        BY <1>1, <3>1 DEF AllDone, Shows, ShowsAs, LabelOf
      <4> QED
        BY <1>1, <2>1, <4>1 DEF Standing
    <3>2. CASE ~exiting[Root]
      <4>1. PICK c \in SoundPoints : c = at[p]
        OBVIOUS
      <4>2. /\ c.saves \in Nat /\ r.saves \in Nat /\ SavedProgress(c) \in Nat
                 /\ SavedProgress(r) \in Nat
        BY SoundFields
      <4>3. SavedProgress(c) = SavedProgress(r)
        BY <1>c, <1>2, <1>4, <2>1, <4>1
      <4>4. ~r.exiting
        BY <1>1, <1>c, <2>1, <3>2 DEF Shows, ShowsAs
      <4>5. ~c.exiting
        BY <1>1, <1>c, <2>1, <4>1, <4>4, SavesMeet
      <4>6. Later(c, r) \/ Later(r, c)
        BY <1>1, <1>c, <2>1, <4>1 DEF Standing
      <4>7. c.saved = r.saved
        BY <4>2, <4>3, <4>4, <4>5, <4>6 DEF Later
      <4> QED
        BY <4>1, <4>7
    <3> QED
      BY <1>4, <3>1, <3>2
  <2>3. r.saved.table \in Tables
    BY SoundFields, PointFields
  <2>4. \A p \in Proc :
          /\ stateFile[p].par = r.saved.table[p] /\ stateFile[p].ctrl = r.saved.table[p]
          /\ stateFile[p].counter % 2 = 0
    BY <1>2, <1>4, <2>2 DEF EvenStates
  <2>5. {stateFile[p].par : p \in Proc} = Par
    <3>1. ASSUME NEW k \in Par PROVE \E p \in Proc : stateFile[p].par = k
      <4>1. PICK p \in Proc : \A s \in Proc : r.saved.table[s] = k <=> s = p
        BY <2>3 DEF Tables
      <4>2. r.saved.table[p] = k
        BY <4>1
      <4> QED
        BY <2>4, <4>2
    <3>2. \A p \in Proc : stateFile[p].par \in Par
      BY <2>3, <2>4 DEF Tables
    <3> QED
      BY <3>1, <3>2
  <2> QED
    BY <2>3, <2>4, <2>5 DEF FilesFitTogether
<1> QED
  BY <1>3, <1>4 DEF CheckpointsCoherent, NobodyOutrunsACheckpoint

(* Checkpoints are coherent: nobody sweeps on from a checkpoint that is    *)
(* not yet written everywhere, and the files of a checkpoint fit together. *)
THEOREM CheckpointsAreCoherent == Spec => []CheckpointsCoherent
<1>1. Init => EvenStates
  BY DEF Init, EvenStates
<1>2. TypeOK /\ Lockstep /\ EvenStates /\ [Next]_vars => EvenStates'
  BY NextEvenStates
<1>3. TypeOK /\ Lockstep /\ EvenStates => CheckpointsCoherent
  BY CoherenceStep
<1> QED
  BY <1>1, <1>2, <1>3, TypeCorrect, ProcessesInLockstep, PTL DEF Spec

-----------------------------------------------------------------------------
(* What is due every k sweeps at the root: a measurement, a configuration. *)

DueAtRoot(k) ==
  (IF pc[Root] = "countSweep" THEN sweepsDone[Root] + 1 ELSE sweepsDone[Root]) \div k
WrittenAtRoot == DueAtRoot(ConfigInterval) - Len(buffered[Root])

LEMMA DueSteps ==
  ASSUME NEW L, NEW F, NEW D, TypesAmong(L, F, D), NEW p \in Proc, Driven(p),
         NEW k \in Nat \ {0}, k % MeasureInterval = 0, SaveInterval % k = 0,
         MidSweep(Root) => stage[Root] = "M",
         stage[Root] = "M" => swCounter[Root] % SaveInterval = SweepsBegun(Root) % SaveInterval
  PROVE  IF p = Root /\ GatherValues /\ swCounter[Root] % k = 0
           THEN /\ DueAtRoot(k)' = DueAtRoot(k) + 1 /\ DueAtRoot(k) \in Nat
                /\ k * (DueAtRoot(k) + 1) - 1 = sweepsDone[Root]
           ELSE DueAtRoot(k)' = DueAtRoot(k)
<1>c. Root \in Proc
  BY Constants
<1>t. /\ pc \in [Proc -> L] /\ sweepsDone \in [Proc -> Nat] /\ sweepsDone[Root] \in Nat
      /\ swCounter[Root] \in Nat
  BY <1>c DEF TypesAmong, ControlAmong
<1>i. SaveInterval \in Nat \ {0} /\ MeasureInterval \in Nat \ {0}
  BY Intervals
<1>1. PICK n \in Nat : n = sweepsDone[Root]
  BY <1>t
<1>n. n \in Int /\ n \div k \in Nat
  BY DueIsNat
<1>2. ASSUME n % k # k - 1 PROVE (n + 1) \div k = n \div k
  BY <1>2, OneMore
<1>3. ASSUME n % k = k - 1 PROVE (n + 1) \div k = (n \div k) + 1 /\ k * ((n + 1) \div k) = n + 1
  BY <1>3, OneMore
<1>4. (n + 1) % k = 0 <=> n % k = k - 1
  <2>1. n % k # k - 1 => (n + 1) % k = (n % k) + 1
    BY OneMore
  <2>2. n % k = k - 1 => (n + 1) % k = 0
    BY OneMore
  <2>3. n % k \in 0..(k - 1)
    BY <1>n, Division
  <2> QED
    BY <2>1, <2>2, <2>3
<1>5. CASE p # Root
  <2>1. Untouched(Root)
    BY <1>c, <1>5, OthersKeepTheirs
  <2> QED
    BY <1>5, <2>1 DEF Untouched, DueAtRoot
<1>6. CASE p = Root /\ Sweep(Root)
  <2>1. /\ pc[Root] = "sweep" /\ stage[Root] = "M" /\ sweepsDone' = sweepsDone
        /\ pc'[Root] = IF (swCounter[Root] + 1) % MeasureInterval = 0 THEN "insertValue"
                       ELSE "countSweep"
    BY <1>c, <1>t, <1>6 DEF Sweep, Goto
  <2>2. ~GatherValues
    BY <2>1 DEF GatherValues
  <2>3. CASE (swCounter[Root] + 1) % MeasureInterval = 0
    BY <2>1, <2>2, <2>3 DEF DueAtRoot
  <2>4. CASE (swCounter[Root] + 1) % MeasureInterval # 0
    <3>1. SweepsBegun(Root) = n
      BY <1>1, <2>1 DEF SweepsBegun, MidSweep
    <3>2. swCounter[Root] % k = n % k
      BY <1>t, <1>i, <2>1, <3>1, SameRemainder
    <3>3. (swCounter[Root] + 1) % k = (n + 1) % k
      BY <1>t, <3>2, InStepModulo
    <3>4. (swCounter[Root] + 1) % k # 0
      <4>1. swCounter[Root] + 1 \in Nat
        BY <1>t
      <4> QED
        BY <1>i, <2>4, <4>1, DueOften
    <3>5. (n + 1) \div k = n \div k
      BY <1>2, <1>4, <3>3, <3>4
    <3> QED
      BY <1>1, <2>1, <2>2, <2>4, <3>5 DEF DueAtRoot
  <2> QED
    BY <2>3, <2>4
<1>7. CASE p = Root /\ GatherValues
  <2>1. pc[Root] = "insertValue" /\ pc'[Root] = "countSweep" /\ sweepsDone' = sweepsDone
    BY <1>c, <1>t, <1>7 DEF GatherValues, Goto, counters
  <2>2. SweepsBegun(Root) = n + 1 /\ stage[Root] = "M"
    BY <1>1, <2>1 DEF SweepsBegun, MidSweep
  <2>3. swCounter[Root] % k = (n + 1) % k
    BY <1>t, <1>i, <2>2, SameRemainder
  <2>4. DueAtRoot(k) = n \div k /\ DueAtRoot(k)' = (n + 1) \div k
    BY <1>1, <2>1 DEF DueAtRoot
  <2>5. CASE swCounter[Root] % k = 0
    <3>1. (n + 1) \div k = (n \div k) + 1 /\ k * ((n + 1) \div k) = n + 1
      BY <1>3, <1>4, <2>3, <2>5
    <3>2. PICK x \in Nat : x = n \div k
      BY <1>n
    <3>3. DueAtRoot(k)' = x + 1 /\ DueAtRoot(k) = x /\ k * (x + 1) = n + 1
      BY <2>4, <3>1, <3>2
    <3>4. k * (x + 1) - 1 = n
      BY <3>3
    <3> QED
      BY <1>1, <1>7, <2>5, <3>3, <3>4
  <2>6. CASE swCounter[Root] % k # 0
    BY <1>2, <1>4, <2>3, <2>4, <2>6
  <2> QED
    BY <2>5, <2>6
<1>8. CASE p = Root /\ ~Sweep(Root) /\ ~GatherValues
  <2>1. \/ CountSweep(Root)
        \/ sweepsDone' = sweepsDone /\ pc[Root] # "countSweep" /\ pc'[Root] # "countSweep"
    <3>1. CASE Counting(Root)
      BY <1>c, <1>t, <1>8, <3>1 DEF Counting, SweepThermalization, EndSweep, Goto
    <3>2. CASE Master
      BY <1>c, <1>t, <1>8, <3>2 DEF Master, BroadcastStop, AfterStopCheck, GatherConfigurations,
         OpenBarrier, GatherControlData, ProposeExchange, ScatterAssignment, GatherCheck, Goto,
         Flushing, LoopTop, SendAll, counters
    <3> QED
      BY <1>8, <3>1, <3>2 DEF Driven, Workers
  <2>2. CASE CountSweep(Root)
    <3>1. /\ pc[Root] = "countSweep" /\ pc'[Root] # "countSweep"
          /\ sweepsDone'[Root] = sweepsDone[Root] + 1
      BY <1>c, <1>t, <2>2 DEF CountSweep, Goto
    <3> QED
      BY <1>8, <3>1 DEF DueAtRoot
  <2>3. CASE sweepsDone' = sweepsDone /\ pc[Root] # "countSweep" /\ pc'[Root] # "countSweep"
    BY <1>8, <2>3 DEF DueAtRoot
  <2> QED
    BY <2>1, <2>2, <2>3
<1> QED
  BY <1>5, <1>6, <1>7, <1>8

LEMMA DueAtRootIsNat ==
  ASSUME NEW L, NEW F, NEW D, TypesAmong(L, F, D), NEW k \in Nat \ {0}
  PROVE  DueAtRoot(k) \in Nat
<1>1. sweepsDone[Root] \in Nat /\ sweepsDone[Root] + 1 \in Nat
  BY Constants DEF TypesAmong, ControlAmong
<1>2. sweepsDone[Root] \div k \in Nat /\ (sweepsDone[Root] + 1) \div k \in Nat
  BY <1>1, DueIsNat
<1> QED
  BY <1>2 DEF DueAtRoot

(* A configuration that is due is kept, and written at the next save.      *)
LEMMA WrittenSteps ==
  ASSUME StreamsInStep, NEW L, NEW F, NEW D, TypesAmong(L, F, D), NEW p \in Proc, Driven(p),
         MidSweep(Root) => stage[Root] = "M",
         stage[Root] = "M" => swCounter[Root] % SaveInterval = SweepsBegun(Root) % SaveInterval
  PROVE  IF p = Root /\ GatherConfigurations
           THEN WrittenAtRoot' = WrittenAtRoot + 1
           ELSE WrittenAtRoot' = WrittenAtRoot /\ streamFile' = streamFile
<1>c. Root \in Proc
  BY Constants
<1>t. /\ buffered \in [Proc -> Seq(BufferedConfiguration)]
      /\ buffered[Root] \in Seq(BufferedConfiguration) /\ Len(buffered[Root]) \in Nat
      /\ pc \in [Proc -> L]
  <2>1. buffered \in [Proc -> Seq(BufferedConfiguration)] /\ pc \in [Proc -> L]
    BY DEF TypesAmong, ControlAmong, BufferTypes
  <2>2. buffered[Root] \in Seq(BufferedConfiguration)
    BY <1>c, <2>1
  <2> QED
    BY <2>1, <2>2
<1>k. DueAtRoot(ConfigInterval) \in Nat
  BY DueAtRootIsNat, Intervals
<1>d. IF p = Root /\ GatherValues /\ swCounter[Root] % ConfigInterval = 0
        THEN DueAtRoot(ConfigInterval)' = DueAtRoot(ConfigInterval) + 1
        ELSE DueAtRoot(ConfigInterval)' = DueAtRoot(ConfigInterval)
  <2>1. ConfigInterval \in Nat \ {0} /\ ConfigInterval % MeasureInterval = 0
          /\ SaveInterval % ConfigInterval = 0
    BY Intervals DEF StreamsInStep
  <2> QED
    BY <2>1, DueSteps
<1>w. /\ WrittenAtRoot = DueAtRoot(ConfigInterval) - Len(buffered[Root])
      /\ WrittenAtRoot' = DueAtRoot(ConfigInterval)' - Len(buffered'[Root])
  BY DEF WrittenAtRoot
<1>1. CASE p = Root /\ GatherConfigurations
  <2>1. ~GatherValues
    BY <1>1 DEF GatherValues, GatherConfigurations, Flushing
  <2>2. buffered[Root] # <<>> /\ buffered'[Root] = Tail(buffered[Root])
    BY <1>c, <1>t, <1>1 DEF GatherConfigurations, Flushing, PopConfiguration
  <2>3. Len(buffered'[Root]) = Len(buffered[Root]) - 1
    BY <1>t, <2>2
  <2> QED
    BY <1>t, <1>k, <1>d, <1>w, <1>1, <2>1, <2>3
<1>2. CASE p = Root /\ GatherValues
  <2>1. ~GatherConfigurations
    BY <1>2 DEF GatherValues, GatherConfigurations, Flushing
  <2>2. streamFile' = streamFile /\ BufferConfiguration(Root)
    BY <1>2 DEF GatherValues
  <2>3. CASE swCounter[Root] % ConfigInterval = 0
    <3>1. \E x \in BufferedConfiguration : buffered'[Root] = Append(buffered[Root], x)
      <4>1. Measured(Root) \in Sample
        BY <1>c DEF TypesAmong, ControlAmong, ReplicaTypes, Measured, Sample
      <4>2. [conf |-> Measured(Root), cpi |-> local_current_parameter_index[Root]] \in BufferedConfiguration
        BY <1>c, <4>1 DEF TypesAmong, ReplicaTypes, BufferedConfiguration
      <4>3. buffered'[Root] = Append(buffered[Root],
                                     [conf |-> Measured(Root),
                                      cpi |-> local_current_parameter_index[Root]])
        BY <1>c, <1>t, <2>2, <2>3 DEF BufferConfiguration
      <4> QED
        BY <4>2, <4>3
    <3>2. Len(buffered'[Root]) = Len(buffered[Root]) + 1
      BY <1>t, <3>1
    <3> QED
      BY <1>t, <1>k, <1>d, <1>w, <1>2, <2>1, <2>2, <2>3, <3>2
  <2>4. CASE swCounter[Root] % ConfigInterval # 0
    <3>1. buffered' = buffered
      BY <2>2, <2>4 DEF BufferConfiguration
    <3> QED
      BY <1>d, <1>w, <1>2, <2>1, <2>2, <2>4, <3>1
  <2> QED
    BY <2>3, <2>4
<1>3. CASE p = Root /\ ~GatherConfigurations /\ ~GatherValues
  <2>1. buffered' = buffered /\ streamFile' = streamFile
    <3>1. CASE Counting(Root)
      BY <3>1 DEF Counting, SweepThermalization, Sweep, CountSweep, EndSweep, files
    <3>2. CASE Master
      BY <1>3, <3>2 DEF Master, BroadcastStop, OpenBarrier, GatherControlData, ProposeExchange,
         ScatterAssignment, GatherCheck, SendAll, files
    <3> QED
      BY <1>3, <3>1, <3>2 DEF Driven, Workers
  <2> QED
    BY <1>3, <1>d, <1>w, <2>1
<1>4. CASE p # Root
  <2>1. Untouched(Root)
    BY <1>c, <1>4, OthersKeepTheirs
  <2>2. streamFile' = streamFile
    BY <1>4 DEF Driven, Counting, SweepThermalization, Sweep, CountSweep, EndSweep, Worker,
       HearStop, SendValue, SendConfiguration, EnterBarrier, LeaveBarrier, SendControlData,
       HearAssignment, SendCheck, files
  <2> QED
    BY <1>d, <1>w, <1>4, <2>1, <2>2 DEF Untouched
<1> QED
  BY <1>1, <1>2, <1>3, <1>4

(* The configurations of one sweep, one of each parameter, go each to the  *)
(* stream of its parameter.                                                *)
LEMMA FiledByParameter ==
  ASSUME NEW table \in Tables, NEW sweep \in Nat, NEW index, NEW value,
         \A p \in Proc : index[p] = table[p] /\ value[p] = [par |-> table[p], sweep |-> sweep],
         NEW k \in Par
  PROVE  FiledUnder(k, index, value) = {[par |-> k, sweep |-> sweep]}
<1>1. PICK p \in Proc : \A r \in Proc : table[r] = k <=> r = p
  BY DEF Tables
<1>2. {r \in Proc : index[r] = k} = {p}
  BY <1>1
<1>3. value[p] = [par |-> k, sweep |-> sweep]
  BY <1>1
<1> QED
  BY <1>2, <1>3 DEF FiledUnder

(* The root writes the configurations that are next in every stream.       *)
LEMMA StreamsGrow ==
  ASSUME StreamsInStep, NEW L, NEW F, NEW D, TypesAmong(L, F, D), GatherConfigurations,
         NEW view, NEW d, NEW kept, ChannelsOf(up, d), InLockstep(view, up, d),
         view[Root] = View(Root, kept)
  PROVE  /\ WrittenAtRoot \in Nat
         /\ \A k \in Par : streamFile'[k] =
              Append(streamFile[k], {[par |-> k, sweep |-> KeptAt(WrittenAtRoot + 1)]})
<1>c. Root \in Proc
  BY Constants
<1>1. PICK at \in [Proc -> SoundPoints] : Standing(at, view) /\ Arriving(at, up, d)
  BY Relative
<1>2. PICK c \in SoundPoints : c = at[Root]
  BY <1>c
<1>3. Shows(Root, c)
  <2>1. View(Root, kept) = Projected(Root, c)
    BY <1>c, <1>1, <1>2 DEF Standing
  <2> QED
    BY <2>1, ShowsIsView
<1>4. pc[Root] = "save" /\ c.label = "save" /\ Flushes(c) /\ UpOp(c) = "configuration"
  <2>1. Flushing(Root) /\ pc[Root] = "save"
    BY DEF GatherConfigurations, Flushing
  <2>2. Flushes(c)
    BY <1>c, <1>3, <2>1, FlushingShows DEF TypesAmong
  <2> QED
    BY <2>1, <2>2 DEF Flushes, UpOp
<1>5. /\ c.buffered \in Seq(Kept) /\ c.buffered # <<>> /\ StreamSound(c)
      /\ c.sweeps = sweepsDone[Root] /\ Len(buffered[Root]) = Len(c.buffered)
      /\ Head(buffered[Root]) = Own(Root, Head(c.buffered))
  <2>1. c.buffered \in Seq(Kept) /\ c.buffered # <<>> /\ StreamSound(c)
    BY <1>4, PointFields DEF Flushes, SoundPoints, Sound
  <2>2. buffered[Root] = OwnAll(Root, c.buffered) /\ c.sweeps = sweepsDone[Root]
    BY <1>3 DEF Shows, ShowsAs
  <2>3. Len(OwnAll(Root, c.buffered)) = Len(c.buffered)
          /\ Head(OwnAll(Root, c.buffered)) = Own(Root, Head(c.buffered))
    <3>1. PICK b \in Seq(Kept) : b = c.buffered
      BY <2>1
    <3>2. b # <<>> /\ Len(b) \in Nat \ {0}
      BY <2>1, <3>1
    <3>3. Len(OwnAll(Root, b)) = Len(b) /\ OwnAll(Root, b)[1] = Own(Root, b[1])
      BY <3>2 DEF OwnAll
    <3> QED
      BY <3>1, <3>3
  <2> QED
    BY <2>1, <2>2, <2>3
<1>6. PICK b \in Kept : b = Head(c.buffered)
  BY <1>5
<1>7. b.table \in Tables /\ b.sweep \in Nat
  BY DEF Kept
<1>8. WrittenAtRoot \in Nat /\ b.sweep = KeptAt(WrittenAtRoot + 1)
  <2>1. WrittenAtRoot = Due(c) - Len(c.buffered)
    BY <1>4, <1>5 DEF WrittenAtRoot, DueAtRoot, Due
  <2>2. Len(c.buffered) <= Due(c) /\ Consecutive(c.buffered, Due(c))
    BY <1>5 DEF StreamSound
  <2>3. Due(c) \in Nat
    BY <1>4, DueIsNat, Intervals, PointFields DEF Due, SoundPoints
  <2>4. PICK l \in Nat \ {0}, m \in Nat : l = Len(c.buffered) /\ m = Due(c)
    BY <1>5, <2>3
  <2>5. 1 \in 1..l
    OBVIOUS
  <2>6. c.buffered[1].sweep = KeptAt(m - l + 1)
    BY <2>2, <2>4, <2>5 DEF Consecutive
  <2>7. m - l \in Nat
    BY <2>2, <2>4
  <2> QED
    BY <1>5, <1>6, <2>1, <2>4, <2>6, <2>7
<1>9. \A q \in Workers : Head(up[q]).item = Own(q, b)
  <2>1. \A q \in Workers : up[q] # <<>>
    BY DEF GatherConfigurations, Gathered
  <2>2. \A q \in Workers : Head(up[q]) \in UpSays(q, c)
    BY <1>1, <1>2, <1>4, <2>1 DEF Arriving
  <2>3. \A q \in Workers : Head(up[q]).op = "configuration"
    BY DEF GatherConfigurations, Gathered
  <2> QED
    BY <1>6, <2>2, <2>3 DEF UpSays
<1> DEFINE item == [p \in Proc |-> IF p = Root THEN Head(buffered[Root]) ELSE Head(up[p]).item]
<1>10. \A p \in Proc : item[p] = Own(p, b)
  BY <1>5, <1>6, <1>9 DEF Workers
<1>11. streamFile' = [k \in Par |->
         Append(streamFile[k], FiledUnder(k, [r \in Proc |-> item[r].cpi],
                                          [r \in Proc |-> item[r].conf]))]
  BY DEF GatherConfigurations, WriteConfigurations
<1> HIDE DEF item
<1>12. PICK now \in Tables, sweep \in Nat : now = b.table /\ sweep = b.sweep
  BY <1>7
<1>13. PICK index, value : /\ index = [r \in Proc |-> item[r].cpi]
                           /\ value = [r \in Proc |-> item[r].conf]
  OBVIOUS
<1>14. \A p \in Proc : index[p] = now[p] /\ value[p] = [par |-> now[p], sweep |-> sweep]
  <2>1. \A p \in Proc : /\ Own(p, b).cpi = b.table[p]
                        /\ Own(p, b).conf = [par |-> b.table[p], sweep |-> b.sweep]
    BY DEF Own
  <2> QED
    BY <1>10, <1>12, <1>13, <2>1
<1>15. \A k \in Par : FiledUnder(k, index, value) = {[par |-> k, sweep |-> sweep]}
  BY <1>14, FiledByParameter
<1>16. \A k \in Par : streamFile'[k] = Append(streamFile[k], {[par |-> k, sweep |-> b.sweep]})
  BY <1>11, <1>12, <1>13, <1>15
<1> QED
  BY <1>8, <1>16

-----------------------------------------------------------------------------
(* The record of a parameter: an entry for each of the first n times that  *)
(* something was due every k sweeps.                                       *)

Entry(c, k, i)  == {[par |-> c, sweep |-> i * k - 1]}
Record(c, k, n) == [i \in 1..n |-> Entry(c, k, i)]

LEMMA RecordGrows ==
  ASSUME NEW c \in Par, NEW k \in Nat \ {0}, NEW n \in Nat
  PROVE  /\ Len(Record(c, k, n)) = n /\ Record(c, k, 0) = <<>>
         /\ Append(Record(c, k, n), Entry(c, k, n + 1)) = Record(c, k, n + 1)
<1> DEFINE M == {Entry(c, k, i) : i \in Nat}
           old == Record(c, k, n)
           new == Record(c, k, n + 1)
           last == Entry(c, k, n + 1)
<1>1. (\A i \in Nat : Entry(c, k, i) \in M) /\ last \in M
  OBVIOUS
<1> HIDE DEF M
<1>2. /\ old \in Seq(M) /\ Len(old) = n
      /\ \A i \in 1..n : old[i] = Entry(c, k, i)
  BY <1>1 DEF Record
<1>3. /\ new \in Seq(M) /\ Len(new) = n + 1
      /\ \A i \in 1..(n + 1) : new[i] = Entry(c, k, i)
  BY <1>1 DEF Record
<1>4. Record(c, k, 0) = <<>>
  BY DEF Record
<1> HIDE DEF old, new, last
<1>5. /\ Append(old, last) \in Seq(M) /\ Len(Append(old, last)) = n + 1
      /\ \A i \in 1..n : Append(old, last)[i] = old[i]
      /\ Append(old, last)[n + 1] = last
  BY <1>1, <1>2, AppendProperties
<1>6. \A i \in 1..(n + 1) : i \in 1..n \/ i = n + 1
  OBVIOUS
<1>7. new[n + 1] = last
  BY <1>3 DEF last
<1>8. new = Append(old, last)
  BY <1>2, <1>3, <1>5, <1>6, <1>7, SeqEqual
<1> QED
  BY <1>2, <1>4, <1>8 DEF old, new, last

StreamInv == \A c \in Par : streamFile[c] = Record(c, ConfigInterval, WrittenAtRoot)

LEMMA InitialStreamInv == Init => StreamInv
<1> SUFFICES ASSUME Init, NEW c \in Par
             PROVE  streamFile[c] = Record(c, ConfigInterval, WrittenAtRoot)
  BY DEF StreamInv
<1>1. WrittenAtRoot = 0
  <2>1. 0 \div ConfigInterval = 0
    BY Intervals
  <2>2. sweepsDone[Root] = 0 /\ pc[Root] = "top" /\ buffered[Root] = <<>>
    BY Constants DEF Init
  <2> QED
    BY <2>1, <2>2 DEF WrittenAtRoot, DueAtRoot
<1> QED
  BY <1>1, Intervals, RecordGrows DEF Init

LEMMA RootCounted ==
  ASSUME NEW c \in SoundPoints, Shows(Root, c), NEW L, NEW F, NEW D, TypesAmong(L, F, D)
  PROVE  /\ MidSweep(Root) => stage[Root] = "M"
         /\ stage[Root] = "M" => swCounter[Root] % SaveInterval = SweepsBegun(Root) % SaveInterval
<1>1. c.label = LabelOf(Root) /\ c.stage = stage[Root] /\ c.sweeps = sweepsDone[Root]
      /\ c.counter = swCounter[Root] /\ sweepsDone[Root] \in Nat
  BY Constants DEF Shows, ShowsAs, TypesAmong, ControlAmong
<1>2. InSweep(c) <=> MidSweep(Root)
  BY <1>1 DEF InSweep, MidSweep, LabelOf
<1>3. Begun(c) = SweepsBegun(Root)
  BY <1>1, <1>2 DEF Begun, SweepsBegun
<1> QED
  BY <1>1, <1>2, <1>3, SoundFields DEF StageSound, CounterSound

LEMMA NextStreamInv ==
  ASSUME StreamsInStep, TypeOK, Lockstep, StreamInv, [Next]_vars
  PROVE  StreamInv'
<1>c. Root \in Proc
  BY Constants
<1>t. TypesAmong(Labels, {NoFile}, {}) /\ ChannelsOf(up, down)
  BY TypesOfARun DEF TypeOK, ChannelTypes, ChannelsOf
<1>1. CASE (\E p \in Proc : Save(p)) \/ UNCHANGED vars
  <2>1. UNCHANGED <<sweepsDone, buffered, streamFile>>
    BY <1>1 DEF Save, vars, counters, files
  <2>2. pc'[Root] = pc[Root] \/ (pc[Root] = "save" /\ pc'[Root] \in {"barrier", "done"})
    BY <1>c, <1>t, <1>1 DEF Save, Goto, AfterSave, vars, TypesAmong, ControlAmong
  <2>3. WrittenAtRoot' = WrittenAtRoot
    BY <2>1, <2>2 DEF WrittenAtRoot, DueAtRoot
  <2> QED
    BY <2>1, <2>3 DEF StreamInv
<1>2. ASSUME NEW p \in Proc, Driven(p) PROVE StreamInv'
  <2>1. PICK at \in [Proc -> SoundPoints] : \A r \in Proc : Shows(r, at[r])
    BY StandingOfARun
  <2>2. /\ MidSweep(Root) => stage[Root] = "M"
        /\ stage[Root] = "M" => swCounter[Root] % SaveInterval = SweepsBegun(Root) % SaveInterval
    <3>1. at[Root] \in SoundPoints /\ Shows(Root, at[Root])
      BY <1>c, <2>1
    <3> QED
      BY <1>t, <3>1, RootCounted
  <2>3. IF p = Root /\ GatherConfigurations
          THEN WrittenAtRoot' = WrittenAtRoot + 1
          ELSE WrittenAtRoot' = WrittenAtRoot /\ streamFile' = streamFile
    BY <1>t, <1>2, <2>2, WrittenSteps
  <2>4. CASE p = Root /\ GatherConfigurations
    <3>1. PICK kept : InLockstep(Views(kept), up, down)
      BY DEF Lockstep
    <3>2. Views(kept)[Root] = View(Root, kept)
      BY <1>c, ViewOfEach
    <3>3. /\ WrittenAtRoot \in Nat
          /\ \A k \in Par : streamFile'[k] =
               Append(streamFile[k], {[par |-> k, sweep |-> KeptAt(WrittenAtRoot + 1)]})
      BY <1>t, <2>4, <3>1, <3>2, StreamsGrow
    <3>4. ASSUME NEW c \in Par PROVE streamFile'[c] = Record(c, ConfigInterval, WrittenAtRoot + 1)
      <4>1. streamFile'[c] = Append(streamFile[c], Entry(c, ConfigInterval, WrittenAtRoot + 1))
        BY <3>3 DEF Entry, KeptAt
      <4>2. PICK n \in Nat : n = WrittenAtRoot
        BY <3>3
      <4>3. streamFile[c] = Record(c, ConfigInterval, n)
        BY <4>2 DEF StreamInv
      <4>4. Append(Record(c, ConfigInterval, n), Entry(c, ConfigInterval, n + 1)) =
              Record(c, ConfigInterval, n + 1)
        BY RecordGrows, Intervals
      <4> QED
        BY <4>1, <4>2, <4>3, <4>4
    <3> QED
      BY <2>3, <2>4, <3>4 DEF StreamInv
  <2>5. CASE ~(p = Root /\ GatherConfigurations)
    BY <2>3, <2>5 DEF StreamInv
  <2> QED
    BY <2>4, <2>5
<1> QED
  BY <1>c, <1>1, <1>2 DEF Next, Terminated, Local, Driven, Counting, Workers

LEMMA StreamsStep ==
  ASSUME StreamsInStep, TypeOK, Lockstep, StreamInv
  PROVE  StreamsComplete
<1>c. Root \in Proc
  BY Constants
<1>1. PICK at \in [Proc -> SoundPoints] : \A r \in Proc : Shows(r, at[r])
  BY StandingOfARun
<1>2. PICK c \in SoundPoints : c = at[Root]
  BY <1>c
<1>3. /\ c.label = LabelOf(Root) /\ c.sweeps = sweepsDone[Root]
      /\ buffered[Root] = OwnAll(Root, c.buffered)
      /\ c.buffered \in Seq(Kept) /\ Len(c.buffered) \in Nat /\ StreamSound(c)
  BY <1>1, <1>2, <1>c, PointFields DEF Shows, ShowsAs, SoundPoints, Sound
<1>4. /\ WrittenAtRoot = Due(c) - Len(c.buffered)
      /\ Len(c.buffered) <= Due(c) /\ Due(c) \in Nat
  <2>1. Len(OwnAll(Root, c.buffered)) = Len(c.buffered)
    BY <1>3 DEF OwnAll
  <2>2. Due(c) = DueAtRoot(ConfigInterval)
    BY <1>3 DEF Due, DueAtRoot, LabelOf
  <2>3. Due(c) \in Nat
    BY <2>2, DueAtRootIsNat, TypesOfARun, Intervals
  <2> QED
    BY <1>3, <2>1, <2>2, <2>3 DEF WrittenAtRoot, StreamSound
<1>5. PICK n \in Nat : n = WrittenAtRoot
  BY <1>3, <1>4
<1>6. \A k \in Par : streamFile[k] = Record(k, ConfigInterval, n) /\ Len(streamFile[k]) = n
  BY <1>5, Intervals, RecordGrows DEF StreamInv
<1>7. ASSUME AllDone PROVE n = sweepsDone[Root] \div ConfigInterval
  <2>1. c.label = "done"
    BY <1>3, <1>7, <1>c DEF AllDone, LabelOf
  <2>2. Len(c.buffered) = 0 /\ Due(c) = sweepsDone[Root] \div ConfigInterval
    BY <1>3, <2>1 DEF StreamSound, Due
  <2> QED
    BY <1>4, <1>5, <2>2
<1>8. \A k \in Par : streamFile[k] =
        [i \in 1..Len(streamFile[k]) |-> {[par |-> k, sweep |-> i * ConfigInterval - 1]}]
  BY <1>6 DEF Record, Entry
<1> QED
  BY <1>6, <1>7, <1>8 DEF StreamsComplete

(* The configuration streams are complete, if the interval between two     *)
(* saves is a multiple of the streams' interval: the counter that decides  *)
(* what is due starts anew with every save.                                *)
THEOREM StreamsAreComplete ==
  ASSUME StreamsInStep
  PROVE  Spec => []StreamsComplete
<1>1. TypeOK /\ Lockstep /\ StreamInv /\ [Next]_vars => StreamInv'
  BY NextStreamInv
<1>2. TypeOK /\ Lockstep /\ StreamInv => StreamsComplete
  BY StreamsStep
<1> QED
  BY <1>1, <1>2, InitialStreamInv, TypeCorrect, ProcessesInLockstep, PTL DEF Spec
=============================================================================
