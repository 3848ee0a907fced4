------------------------ MODULE DetQMCPT_refinement ------------------------
(***************************************************************************)
(* The driver implements the ensemble, for every number of processes and   *)
(* every setting of the intervals: whatever a parameter is credited with   *)
(* was measured at it, once, in every sweep that is due.                   *)
(*                                                                         *)
(* The processes count their sweeps on their own, and a worker may be some *)
(* measurements ahead of the root.  The invariant says that the values on  *)
(* their way to the root are those of consecutive due sweeps, from the one *)
(* the root measures next to the one before the one the worker measures    *)
(* next, and that they were measured at the parameter that the root's      *)
(* table still holds for the worker.  Since the count of sweeps starts     *)
(* anew at every save, and need not be at a measurement then, there is no  *)
(* formula for the next due sweep, nor need there be one: what lies ahead  *)
(* of a process is a set, that of all due sweeps from where it is.         *)
(***************************************************************************)
EXTENDS DetQMCPT_proofs

(* A measurement is due in sweep w; the due sweeps from w on               *)
Due(w)   == ((w % SaveInterval) + 1) % MeasureInterval = 0
Ahead(w) == {v \in Nat : v >= w /\ Due(v)}

(* A process within a measurement sweep has counted it in swCounter but    *)
(* not in sweepsDone.                                                      *)
Mid(p)     == pc[p] \in {"insertValue", "countSweep"}
Looping(p) == pc[p] \in {"top", "sweep", "exchange", "walk", "assign", "check", "error"}
Counted(p) == IF Mid(p) THEN (sweepsDone[p] % SaveInterval) + 1 ELSE sweepsDone[p] % SaveInterval
CountInv(p) ==
  /\ stage[p] = "T" => sweepsDone[p] = 0
  /\ stage[p] = "F" => pc[p] = "done"
  /\ Mid(p) => stage[p] = "M"
  /\ sweepsDone[p] <= Sweeps
  /\ stage[p] = "M" /\ (Looping(p) \/ Mid(p)) => sweepsDone[p] < Sweeps
  /\ stage[p] = "M" => swCounter[p] = Counted(p)
  /\ pc[p] = "insertValue" => Due(sweepsDone[p])

(* What a process has yet to measure                                       *)
Recorded(p) == IF pc[p] = "countSweep" THEN sweepsDone[p] + 1 ELSE sweepsDone[p]
NextOf(p)   == Ahead(Recorded(p))

IsValue(m) == m.op = "insertValue"
ValueInv(q) ==
  /\ \A i \in 1..Len(up[q]) : IsValue(up[q][i]) =>
       /\ up[q][i].value.par = current_process_par[q] /\ Due(up[q][i].value.sweep)
       /\ (\A j \in 1..(i - 1) : ~IsValue(up[q][j])) => Ahead(up[q][i].value.sweep) = NextOf(Root)
       /\ (\A j \in (i + 1)..Len(up[q]) : ~IsValue(up[q][j])) =>
            NextOf(q) = Ahead(up[q][i].value.sweep + 1)
  /\ \A i, j \in 1..Len(up[q]) :
       /\ i < j /\ IsValue(up[q][i]) /\ IsValue(up[q][j])
       /\ \A h \in (i + 1)..(j - 1) : ~IsValue(up[q][h])
       => Ahead(up[q][j].value.sweep) = Ahead(up[q][i].value.sweep + 1)
  /\ (\A i \in 1..Len(up[q]) : ~IsValue(up[q][i])) => NextOf(q) = NextOf(Root)

(* The series of every parameter holds what the root has measured.         *)
Series(c) == seriesFile[c] \o timeseriesBuffer[c]
Holds(c)  == {w \in 0..(Sweeps - 1) :
                \E i \in 1..Len(Series(c)) : Series(c)[i] = {[par |-> c, sweep |-> w]}}
SeriesInv ==
  \A c \in Par : Holds(c) = {w \in 0..(Sweeps - 1) : Due(w)} \ NextOf(Root)

RecordInv ==
  /\ \A p \in Proc : CountInv(p)
  /\ \A q \in Workers : ValueInv(q)
  /\ SeriesInv

LEMMA Intervals ==
  /\ MeasureInterval \in Nat \ {0} /\ Sweeps \in Nat \ {0} /\ SaveInterval \in Nat \ {0}
  /\ 0 % SaveInterval = 0
<1>1. MeasureInterval \in Nat \ {0} /\ Sweeps \in Nat \ {0} /\ SaveInterval \in Nat \ {0}
  BY ParametersAssumption
<1>2. 0 = SaveInterval * 0 + 0 /\ 0 \in 0..(SaveInterval - 1)
  BY <1>1
<1>3. 0 % SaveInterval = 0
  BY <1>1, <1>2, RemainderIs
<1> QED
  BY <1>1, <1>3

(* The due sweeps ahead begin with this one, or go on after it; a due      *)
(* sweep is known by what is ahead of it.                                  *)
LEMMA AheadNow ==
  ASSUME NEW w \in Nat
  PROVE  /\ Due(w) => Ahead(w) = Ahead(w + 1) \cup {w}
         /\ ~Due(w) => Ahead(w) = Ahead(w + 1)
         /\ \A v \in Nat : Due(v) /\ Due(w) /\ Ahead(v) = Ahead(w) => v = w
<1>1. \A v \in Nat : v >= w <=> v >= w + 1 \/ v = w
  OBVIOUS
<1>2. ASSUME NEW v \in Nat, Due(v), Due(w), Ahead(v) = Ahead(w) PROVE v = w
  <2>1. v \in Ahead(v) /\ w \in Ahead(w)
    BY <1>2 DEF Ahead
  <2>2. v >= w /\ w >= v
    BY <1>2, <2>1 DEF Ahead
  <2> QED
    BY <2>2
<1>3. ~Due(w) => Ahead(w) = Ahead(w + 1)
  BY <1>1 DEF Ahead
<1>4. Due(w) => Ahead(w) = Ahead(w + 1) \cup {w}
  BY <1>1 DEF Ahead
<1> QED
  BY <1>2, <1>3, <1>4

LEMMA InitialRecordInv == Init => RecordInv
<1> SUFFICES ASSUME Init PROVE RecordInv
  OBVIOUS
<1> USE Constants, Intervals DEF Init
<1>1. \A p \in Proc : CountInv(p)
  BY DEF CountInv, Mid, Looping, Counted, FirstStage
<1>2. \A p \in Proc : NextOf(p) = Ahead(0)
  BY DEF NextOf, Recorded
<1>3. \A q \in Workers : ValueInv(q)
  BY <1>2 DEF ValueInv, Workers
<1>4. SeriesInv
  <2>1. \A c \in Par : Series(c) = <<>>
    BY DEF Series
  <2>2. \A c \in Par : Holds(c) = {}
    BY <2>1 DEF Holds
  <2> QED
    BY <1>2, <2>2 DEF SeriesInv, Ahead
<1> QED
  BY <1>1, <1>3, <1>4 DEF RecordInv

-----------------------------------------------------------------------------
(* The counters of one process *)

(* A step that moves a process on and leaves its counters alone.           *)
LEMMA MoveOn ==
  ASSUME TypeOK, NEW p \in Proc, CountInv(p), NEW label, pc'[p] = label,
         UNCHANGED <<stage[p], sweepsDone[p], swCounter[p]>>,
         \/ Looping(p) /\ label \in {"top", "sweep", "exchange", "walk", "assign", "check", "error",
                                      "save"}
         \/ /\ pc[p] \in {"save", "barrier", "inBarrier"}
            /\ label \in {"save", "barrier", "inBarrier", "endSweep", "done"}
         \/ pc[p] = "insertValue" /\ label = "countSweep"
  PROVE  CountInv(p)'
<1>1. stage'[p] = stage[p] /\ sweepsDone'[p] = sweepsDone[p] /\ swCounter'[p] = swCounter[p]
  OBVIOUS
<1>2. stage[p] # "F"
  BY DEF CountInv, Looping
<1>3. stage[p] = "M" /\ label # "countSweep" => Counted(p)' = Counted(p)
  BY <1>1 DEF Counted, Mid, Looping
<1>4. label = "countSweep" => Mid(p) /\ Mid(p)' /\ Counted(p)' = Counted(p)
  BY <1>1 DEF Counted, Mid, Looping
<1> QED
  BY <1>1, <1>2, <1>3, <1>4 DEF CountInv, Mid, Looping

(* The steps that count.  A saved process starts counting from zero again. *)
LEMMA CountOn ==
  ASSUME TypeOK, NEW p \in Proc, CountInv(p),
         SweepThermalization(p) \/ Sweep(p) \/ CountSweep(p) \/ EndSweep(p)
  PROVE  CountInv(p)'
<1> USE Constants, Intervals
<1>t. /\ stage \in [Proc -> {"T", "M", "F"}] /\ pc \in [Proc -> Labels]
      /\ sweepsDone \in [Proc -> Nat] /\ swCounter \in [Proc -> Nat]
      /\ sweepsDone[p] \in Nat /\ swCounter[p] \in Nat
  BY DEF TypeOK, ControlTypes
<1>1. CASE SweepThermalization(p)
  <2>1. /\ stage'[p] = "T" /\ sweepsDone'[p] = sweepsDone[p] /\ stage[p] = "T"
        /\ pc'[p] \in {"save", "endSweep"}
    BY <1>1, <1>t DEF SweepThermalization, Goto
  <2> QED
    BY <2>1, <1>t DEF CountInv, Mid
<1>2. CASE Sweep(p)
  <2>1. /\ stage'[p] = "M" /\ stage[p] = "M" /\ sweepsDone'[p] = sweepsDone[p]
        /\ swCounter'[p] = swCounter[p] + 1 /\ pc[p] = "sweep"
        /\ pc'[p] = IF (swCounter[p] + 1) % MeasureInterval = 0 THEN "insertValue"
                                                               ELSE "countSweep"
    BY <1>2, <1>t DEF Sweep, Goto
  <2>2. swCounter[p] = sweepsDone[p] % SaveInterval
    BY <2>1 DEF CountInv, Counted, Mid
  <2>3. Due(sweepsDone[p]) <=> (swCounter[p] + 1) % MeasureInterval = 0
    BY <2>2 DEF Due
  <2>4. /\ Mid(p)' /\ Counted(p)' = (sweepsDone[p] % SaveInterval) + 1
        /\ sweepsDone[p] < Sweeps
    BY <2>1 DEF CountInv, Mid, Counted, Looping
  <2> QED
    BY <2>1, <2>2, <2>3, <2>4, <1>t DEF CountInv
<1>3. CASE CountSweep(p)
  <2>1. /\ stage'[p] = stage[p] /\ stage[p] = "M" /\ sweepsDone'[p] = sweepsDone[p] + 1
        /\ swCounter'[p] = (IF swCounter[p] = SaveInterval THEN 0 ELSE swCounter[p])
        /\ pc[p] = "countSweep" /\ pc'[p] \in {"save", "endSweep"} /\ sweepsDone[p] < Sweeps
    BY <1>3, <1>t DEF CountSweep, Goto, SaveDue, CountInv, Mid
  <2>2. swCounter[p] = (sweepsDone[p] % SaveInterval) + 1
    BY <2>1 DEF CountInv, Counted, Mid
  <2>3. swCounter'[p] = (sweepsDone[p] + 1) % SaveInterval
    <3>1. PICK n \in Nat : n = sweepsDone[p]
      BY <1>t
    <3>2. /\ n % SaveInterval = SaveInterval - 1 => (n + 1) % SaveInterval = 0
          /\ n % SaveInterval # SaveInterval - 1 =>
               (n + 1) % SaveInterval = (n % SaveInterval) + 1
      BY OneMore
    <3>3. PICK r \in 0..(SaveInterval - 1) : r = n % SaveInterval
      <4>1. n % SaveInterval \in 0..(SaveInterval - 1)
        BY Division
      <4> QED
        BY <4>1
    <3>4. swCounter[p] = r + 1 /\ (r + 1 = SaveInterval <=> r = SaveInterval - 1)
      BY <2>2, <3>1, <3>3
    <3> QED
      BY <2>1, <3>1, <3>2, <3>3, <3>4
  <2>4. ~Mid(p)' /\ ~Looping(p)' /\ Counted(p)' = (sweepsDone[p] + 1) % SaveInterval
    BY <2>1 DEF Mid, Counted, Looping
  <2> QED
    BY <2>1, <2>3, <2>4, <1>t DEF CountInv
<1>4. CASE EndSweep(p)
  <2>1. /\ stage'[p] = NextStage(p) /\ sweepsDone'[p] = sweepsDone[p]
        /\ swCounter'[p] = (IF NextStage(p) # stage[p] THEN 0 ELSE swCounter[p])
        /\ pc[p] = "endSweep" /\ stage[p] # "F"
        /\ pc'[p] \in {"done", "exchange", "check"} /\ (NextStage(p) = "F" => pc'[p] = "done")
    BY <1>4, <1>t DEF EndSweep, Goto, CounterOfStage, CountInv
  <2>2. ~Mid(p)' /\ Counted(p)' = sweepsDone[p] % SaveInterval /\ Counted(p)' = Counted(p)
    BY <2>1 DEF Mid, Counted
  <2>3. CASE NextStage(p) = stage[p]
    <3>1. stage[p] = "M" => sweepsDone[p] < Sweeps
      BY <2>3, <1>t DEF NextStage, CountInv
    <3> QED
      BY <2>1, <2>2, <2>3, <3>1 DEF CountInv, Mid
  <2>4. CASE NextStage(p) = "M" /\ stage[p] = "T"
    <3>1. sweepsDone[p] = 0
      BY <2>4 DEF CountInv
    <3> QED
      BY <2>1, <2>2, <2>4, <3>1 DEF CountInv, Mid
  <2>5. CASE NextStage(p) = "F" /\ stage[p] = "M"
    BY <2>1, <2>2, <2>5 DEF CountInv, Mid, Looping
  <2> QED
    BY <2>3, <2>4, <2>5, <1>t DEF NextStage
<1> QED
  BY <1>1, <1>2, <1>3, <1>4

-----------------------------------------------------------------------------
(* The values on their way from one worker *)

LEMMA ValuesAside ==
  ASSUME NEW q \in Workers, ValueInv(q), up'[q] = up[q],
         current_process_par'[q] = current_process_par[q],
         NextOf(q)' = NextOf(q), NextOf(Root)' = NextOf(Root)
  PROVE  ValueInv(q)'
BY DEF ValueInv, IsValue

LEMMA NextValue ==
  ASSUME NEW q \in Workers, ValueInv(q), NEW i \in 1..Len(up[q]), NEW j \in 1..Len(up[q]), i < j,
         IsValue(up[q][i]), IsValue(up[q][j]), \A h \in (i + 1)..(j - 1) : ~IsValue(up[q][h])
  PROVE  Ahead(up[q][j].value.sweep) = Ahead(up[q][i].value.sweep + 1)
BY DEF ValueInv

LEMMA PostOther ==
  ASSUME NEW q \in Workers, ValueInv(q), up[q] \in Seq(UpMessage), NEW m \in UpMessage,
         ~IsValue(m), up'[q] = Append(up[q], m),
         current_process_par'[q] = current_process_par[q],
         NextOf(q)' = NextOf(q), NextOf(Root)' = NextOf(Root)
  PROVE  ValueInv(q)'
<1>1. /\ Len(up[q]) \in Nat /\ Len(up'[q]) = Len(up[q]) + 1 /\ up'[q][Len(up[q]) + 1] = m
      /\ \A i \in 1..Len(up[q]) : up'[q][i] = up[q][i]
  BY Entries
<1>2. \A i \in 1..Len(up'[q]) : IsValue(up'[q][i]) => i \in 1..Len(up[q])
  BY <1>1
<1>3. ASSUME NEW i \in 1..Len(up'[q]), IsValue(up'[q][i])
      PROVE  /\ up'[q][i].value.par = current_process_par'[q] /\ Due(up'[q][i].value.sweep)
             /\ (\A j \in 1..(i - 1) : ~IsValue(up'[q][j])) =>
                   Ahead(up'[q][i].value.sweep) = NextOf(Root)'
             /\ (\A j \in (i + 1)..Len(up'[q]) : ~IsValue(up'[q][j])) =>
                   NextOf(q)' = Ahead(up'[q][i].value.sweep + 1)
  <2>1. i \in 1..Len(up[q]) /\ up'[q][i] = up[q][i] /\ IsValue(up[q][i])
    BY <1>1, <1>2, <1>3
  <2>2. \A j \in 1..(i - 1) : up'[q][j] = up[q][j]
    BY <1>1, <2>1
  <2>3. \A j \in (i + 1)..Len(up[q]) : j \in (i + 1)..Len(up'[q]) /\ up'[q][j] = up[q][j]
    BY <1>1, <2>1
  <2> QED
    BY <2>1, <2>2, <2>3 DEF ValueInv
<1>4. ASSUME NEW i \in 1..Len(up'[q]), NEW j \in 1..Len(up'[q]), i < j,
             IsValue(up'[q][i]), IsValue(up'[q][j]),
             \A h \in (i + 1)..(j - 1) : ~IsValue(up'[q][h])
      PROVE  Ahead(up'[q][j].value.sweep) = Ahead(up'[q][i].value.sweep + 1)
  <2>1. /\ i \in 1..Len(up[q]) /\ j \in 1..Len(up[q])
        /\ \A h \in i..j : up'[q][h] = up[q][h]
    BY <1>1, <1>2, <1>4
  <2>2. /\ IsValue(up[q][i]) /\ IsValue(up[q][j])
        /\ \A h \in (i + 1)..(j - 1) : ~IsValue(up[q][h])
    BY <1>4, <2>1
  <2>3. Ahead(up[q][j].value.sweep) = Ahead(up[q][i].value.sweep + 1)
    BY <1>4, <2>1, <2>2, NextValue
  <2> QED
    BY <2>1, <2>3
<1>5. (\A i \in 1..Len(up'[q]) : ~IsValue(up'[q][i])) => NextOf(q)' = NextOf(Root)'
  BY <1>1 DEF ValueInv
<1> QED
  BY <1>3, <1>4, <1>5 DEF ValueInv

LEMMA Shifted ==
  ASSUME NEW n \in Nat, NEW i \in Nat, NEW j \in Nat, 1 <= i, j + 1 \in 1..n,
         NEW h \in ((i + 1) + 1)..((j + 1) - 1)
  PROVE  h \in 2..n /\ h - 1 \in (i + 1)..(j - 1)
OBVIOUS

LEMMA TakeOther ==
  ASSUME NEW q \in Workers, ValueInv(q), Len(up[q]) \in Nat \ {0}, ~IsValue(up[q][1]),
         Len(up'[q]) = Len(up[q]) - 1,
         \A i \in 1..Len(up'[q]) : i + 1 \in 1..Len(up[q]) /\ up'[q][i] = up[q][i + 1],
         current_process_par'[q] = current_process_par[q],
         NextOf(q)' = NextOf(q), NextOf(Root)' = NextOf(Root)
  PROVE  ValueInv(q)'
<1>1. \A i \in 2..Len(up[q]) : i - 1 \in 1..Len(up'[q]) /\ up'[q][i - 1] = up[q][i]
  OBVIOUS
<1>2. ASSUME NEW i \in 1..Len(up'[q]), IsValue(up'[q][i])
      PROVE  /\ up'[q][i].value.par = current_process_par'[q] /\ Due(up'[q][i].value.sweep)
             /\ (\A j \in 1..(i - 1) : ~IsValue(up'[q][j])) =>
                   Ahead(up'[q][i].value.sweep) = NextOf(Root)'
             /\ (\A j \in (i + 1)..Len(up'[q]) : ~IsValue(up'[q][j])) =>
                   NextOf(q)' = Ahead(up'[q][i].value.sweep + 1)
  <2>1. i + 1 \in 1..Len(up[q]) /\ up'[q][i] = up[q][i + 1] /\ IsValue(up[q][i + 1])
    BY <1>2
  <2>2. ASSUME \A j \in 1..(i - 1) : ~IsValue(up'[q][j])
        PROVE  \A j \in 1..((i + 1) - 1) : ~IsValue(up[q][j])
    <3> TAKE j \in 1..((i + 1) - 1)
    <3>1. CASE j = 1
      BY <3>1
    <3>2. CASE j # 1
      <4>1. j \in 2..Len(up[q]) /\ j - 1 \in 1..(i - 1)
        BY <2>1, <3>2
      <4> QED
        BY <1>1, <2>2, <4>1
    <3> QED
      BY <3>1, <3>2
  <2>3. ASSUME \A j \in (i + 1)..Len(up'[q]) : ~IsValue(up'[q][j])
        PROVE  \A j \in ((i + 1) + 1)..Len(up[q]) : ~IsValue(up[q][j])
    <3> TAKE j \in ((i + 1) + 1)..Len(up[q])
    <3>1. j \in 2..Len(up[q]) /\ j - 1 \in (i + 1)..Len(up'[q])
      OBVIOUS
    <3> QED
      BY <1>1, <2>3, <3>1
  <2> QED
    BY <2>1, <2>2, <2>3 DEF ValueInv
<1>3. ASSUME NEW i \in 1..Len(up'[q]), NEW j \in 1..Len(up'[q]), i < j,
             IsValue(up'[q][i]), IsValue(up'[q][j]),
             \A h \in (i + 1)..(j - 1) : ~IsValue(up'[q][h])
      PROVE  Ahead(up'[q][j].value.sweep) = Ahead(up'[q][i].value.sweep + 1)
  <2>1. /\ i + 1 \in 1..Len(up[q]) /\ j + 1 \in 1..Len(up[q]) /\ i + 1 < j + 1
        /\ up'[q][i] = up[q][i + 1] /\ up'[q][j] = up[q][j + 1]
    <3>1. i + 1 \in 1..Len(up[q]) /\ up'[q][i] = up[q][i + 1]
      OBVIOUS
    <3>2. j + 1 \in 1..Len(up[q]) /\ up'[q][j] = up[q][j + 1]
      OBVIOUS
    <3>3. i + 1 < j + 1
      BY <1>3
    <3> QED
      BY <3>1, <3>2, <3>3
  <2>2. \A h \in ((i + 1) + 1)..((j + 1) - 1) : ~IsValue(up[q][h])
    <3> TAKE h \in ((i + 1) + 1)..((j + 1) - 1)
    <3>1. h \in 2..Len(up[q]) /\ h - 1 \in (i + 1)..(j - 1)
      BY <2>1, Shifted
    <3> QED
      BY <1>1, <1>3, <3>1
  <2> QED
    <3>1. /\ IsValue(up[q][i + 1]) /\ IsValue(up[q][j + 1])
          /\ Ahead(up[q][j + 1].value.sweep) = Ahead(up[q][i + 1].value.sweep + 1)
      BY <1>3, <2>1, <2>2, NextValue
    <3> QED
      BY <2>1, <3>1
<1>4. (\A i \in 1..Len(up'[q]) : ~IsValue(up'[q][i])) => NextOf(q)' = NextOf(Root)'
  <2>1. ASSUME \A i \in 1..Len(up'[q]) : ~IsValue(up'[q][i])
        PROVE  \A i \in 1..Len(up[q]) : ~IsValue(up[q][i])
    <3> TAKE i \in 1..Len(up[q])
    <3>1. CASE i = 1
      BY <3>1
    <3>2. CASE i # 1
      <4>1. i \in 2..Len(up[q])
        BY <3>2
      <4> QED
        BY <1>1, <2>1, <4>1
    <3> QED
      BY <3>1, <3>2
  <2> QED
    BY <2>1 DEF ValueInv
<1> QED
  BY <1>2, <1>3, <1>4 DEF ValueInv

(* The worker measures in its next due sweep, at its parameter.            *)
LEMMA PostValue ==
  ASSUME NEW q \in Workers, ValueInv(q), up[q] \in Seq(UpMessage), NEW m \in UpMessage,
         IsValue(m), m.value.par = current_process_par[q], Due(m.value.sweep),
         Ahead(m.value.sweep) = NextOf(q),
         up'[q] = Append(up[q], m), current_process_par'[q] = current_process_par[q],
         NextOf(q)' = Ahead(m.value.sweep + 1), NextOf(Root)' = NextOf(Root)
  PROVE  ValueInv(q)'
<1> DEFINE last == Len(up[q]) + 1
<1>1. /\ Len(up[q]) \in Nat /\ Len(up'[q]) = last /\ up'[q][last] = m
      /\ \A i \in 1..Len(up[q]) : up'[q][i] = up[q][i]
  BY Entries
<1>2. ASSUME NEW i \in 1..Len(up'[q]), IsValue(up'[q][i])
      PROVE  /\ up'[q][i].value.par = current_process_par'[q] /\ Due(up'[q][i].value.sweep)
             /\ (\A j \in 1..(i - 1) : ~IsValue(up'[q][j])) =>
                   Ahead(up'[q][i].value.sweep) = NextOf(Root)'
             /\ (\A j \in (i + 1)..Len(up'[q]) : ~IsValue(up'[q][j])) =>
                   NextOf(q)' = Ahead(up'[q][i].value.sweep + 1)
  <2>1. CASE i = last
    <3>1. ASSUME \A j \in 1..(i - 1) : ~IsValue(up'[q][j]) PROVE NextOf(q) = NextOf(Root)
      <4>1. \A j \in 1..Len(up[q]) : ~IsValue(up[q][j])
        BY <1>1, <2>1, <3>1
      <4> QED
        BY <4>1 DEF ValueInv
    <3> QED
      BY <1>1, <2>1, <3>1
  <2>2. CASE i \in 1..Len(up[q])
    <3>1. up'[q][i] = up[q][i] /\ \A j \in 1..(i - 1) : up'[q][j] = up[q][j]
      BY <1>1, <2>2
    <3>2. last \in (i + 1)..Len(up'[q]) /\ IsValue(up'[q][last])
      BY <1>1, <2>2
    <3> QED
      BY <1>2, <2>2, <3>1, <3>2 DEF ValueInv
  <2> QED
    BY <1>1, <2>1, <2>2
<1>3. ASSUME NEW i \in 1..Len(up'[q]), NEW j \in 1..Len(up'[q]), i < j,
             IsValue(up'[q][i]), IsValue(up'[q][j]),
             \A h \in (i + 1)..(j - 1) : ~IsValue(up'[q][h])
      PROVE  Ahead(up'[q][j].value.sweep) = Ahead(up'[q][i].value.sweep + 1)
  <2>1. i \in 1..Len(up[q]) /\ up'[q][i] = up[q][i]
    BY <1>1, <1>3
  <2>2. CASE j = last
    <3>1. \A h \in (i + 1)..Len(up[q]) : ~IsValue(up[q][h])
      BY <1>1, <1>3, <2>2
    <3>2. NextOf(q) = Ahead(up[q][i].value.sweep + 1)
      BY <1>3, <2>1, <3>1 DEF ValueInv
    <3> QED
      BY <1>1, <2>1, <2>2, <3>2
  <2>3. CASE j \in 1..Len(up[q])
    <3>1. \A h \in i..j : up'[q][h] = up[q][h]
      BY <1>1, <2>1, <2>3
    <3>2. \A h \in (i + 1)..(j - 1) : ~IsValue(up[q][h])
      BY <1>3, <2>1, <2>3, <3>1
    <3>3. up'[q][j] = up[q][j] /\ IsValue(up[q][i]) /\ IsValue(up[q][j])
      BY <1>3, <2>1, <2>3, <3>1
    <3> QED
      BY <1>3, <2>1, <2>3, <3>2, <3>3, NextValue
  <2> QED
    BY <1>1, <2>2, <2>3
<1>4. last \in 1..Len(up'[q]) /\ IsValue(up'[q][last])
  BY <1>1
<1> QED
  BY <1>2, <1>3, <1>4 DEF ValueInv

(* The root takes the value of the sweep it measures in.                   *)
LEMMA TakeValue ==
  ASSUME NEW q \in Workers, ValueInv(q), Len(up[q]) \in Nat \ {0}, IsValue(up[q][1]),
         Len(up'[q]) = Len(up[q]) - 1,
         \A i \in 1..Len(up'[q]) : i + 1 \in 1..Len(up[q]) /\ up'[q][i] = up[q][i + 1],
         current_process_par'[q] = current_process_par[q],
         NextOf(q)' = NextOf(q), NextOf(Root)' = Ahead(up[q][1].value.sweep + 1)
  PROVE  /\ ValueInv(q)'
         /\ up[q][1].value.par = current_process_par[q]
         /\ Ahead(up[q][1].value.sweep) = NextOf(Root)
<1>0. 1 \in 1..Len(up[q]) /\ \A j \in 1..(1 - 1) : ~IsValue(up[q][j])
  OBVIOUS
<1>f. up[q][1].value.par = current_process_par[q] /\ Ahead(up[q][1].value.sweep) = NextOf(Root)
  BY <1>0 DEF ValueInv
<1>1. \A i \in 2..Len(up[q]) : i - 1 \in 1..Len(up'[q]) /\ up'[q][i - 1] = up[q][i]
  OBVIOUS
<1>2. ASSUME NEW i \in 1..Len(up'[q]), IsValue(up'[q][i])
      PROVE  /\ up'[q][i].value.par = current_process_par'[q] /\ Due(up'[q][i].value.sweep)
             /\ (\A j \in 1..(i - 1) : ~IsValue(up'[q][j])) =>
                   Ahead(up'[q][i].value.sweep) = NextOf(Root)'
             /\ (\A j \in (i + 1)..Len(up'[q]) : ~IsValue(up'[q][j])) =>
                   NextOf(q)' = Ahead(up'[q][i].value.sweep + 1)
  <2>1. i + 1 \in 1..Len(up[q]) /\ up'[q][i] = up[q][i + 1] /\ IsValue(up[q][i + 1])
    BY <1>2
  <2>2. ASSUME \A j \in 1..(i - 1) : ~IsValue(up'[q][j])
        PROVE  Ahead(up[q][i + 1].value.sweep) = Ahead(up[q][1].value.sweep + 1)
    <3>1. \A h \in (1 + 1)..((i + 1) - 1) : ~IsValue(up[q][h])
      <4> TAKE h \in (1 + 1)..((i + 1) - 1)
      <4>1. h \in 2..Len(up[q]) /\ h - 1 \in 1..(i - 1)
        BY <2>1
      <4> QED
        BY <1>1, <2>2, <4>1
    <3>2. 1 < i + 1
      OBVIOUS
    <3> QED
      BY <1>0, <2>1, <3>1, <3>2, NextValue
  <2>3. ASSUME \A j \in (i + 1)..Len(up'[q]) : ~IsValue(up'[q][j])
        PROVE  \A j \in ((i + 1) + 1)..Len(up[q]) : ~IsValue(up[q][j])
    <3> TAKE j \in ((i + 1) + 1)..Len(up[q])
    <3>1. j \in 2..Len(up[q]) /\ j - 1 \in (i + 1)..Len(up'[q])
      OBVIOUS
    <3> QED
      BY <1>1, <2>3, <3>1
  <2> QED
    BY <1>f, <2>1, <2>2, <2>3 DEF ValueInv
<1>3. ASSUME NEW i \in 1..Len(up'[q]), NEW j \in 1..Len(up'[q]), i < j,
             IsValue(up'[q][i]), IsValue(up'[q][j]),
             \A h \in (i + 1)..(j - 1) : ~IsValue(up'[q][h])
      PROVE  Ahead(up'[q][j].value.sweep) = Ahead(up'[q][i].value.sweep + 1)
  <2>1. /\ i + 1 \in 1..Len(up[q]) /\ j + 1 \in 1..Len(up[q]) /\ i + 1 < j + 1
        /\ up'[q][i] = up[q][i + 1] /\ up'[q][j] = up[q][j + 1]
    <3>1. i + 1 \in 1..Len(up[q]) /\ up'[q][i] = up[q][i + 1]
      OBVIOUS
    <3>2. j + 1 \in 1..Len(up[q]) /\ up'[q][j] = up[q][j + 1]
      OBVIOUS
    <3>3. i + 1 < j + 1
      BY <1>3
    <3> QED
      BY <3>1, <3>2, <3>3
  <2>2. \A h \in ((i + 1) + 1)..((j + 1) - 1) : ~IsValue(up[q][h])
    <3> TAKE h \in ((i + 1) + 1)..((j + 1) - 1)
    <3>1. h \in 2..Len(up[q]) /\ h - 1 \in (i + 1)..(j - 1)
      BY <2>1, Shifted
    <3> QED
      BY <1>1, <1>3, <3>1
  <2> QED
    <3>1. /\ IsValue(up[q][i + 1]) /\ IsValue(up[q][j + 1])
          /\ Ahead(up[q][j + 1].value.sweep) = Ahead(up[q][i + 1].value.sweep + 1)
      BY <1>3, <2>1, <2>2, NextValue
    <3> QED
      BY <2>1, <3>1
<1>4. ASSUME \A i \in 1..Len(up'[q]) : ~IsValue(up'[q][i])
      PROVE  NextOf(q)' = NextOf(Root)'
  <2>1. \A j \in (1 + 1)..Len(up[q]) : ~IsValue(up[q][j])
    <3> TAKE j \in (1 + 1)..Len(up[q])
    <3>1. j \in 2..Len(up[q])
      OBVIOUS
    <3> QED
      BY <1>1, <1>4, <3>1
  <2> QED
    BY <1>0, <1>f, <2>1 DEF ValueInv
<1> QED
  BY <1>f, <1>2, <1>3, <1>4 DEF ValueInv

-----------------------------------------------------------------------------
(* The sweep in which a process measures next *)

LEMMA Bystander ==
  ASSUME NEW p \in Proc, CountInv(p),
         UNCHANGED <<pc[p], stage[p], sweepsDone[p], swCounter[p]>>
  PROVE  CountInv(p)' /\ NextOf(p)' = NextOf(p)
BY DEF CountInv, Mid, Looping, Counted, NextOf, Recorded

LEMMA NotRecording ==
  ASSUME NEW p \in Proc, sweepsDone'[p] = sweepsDone[p],
         pc[p] # "countSweep", pc'[p] # "countSweep"
  PROVE  NextOf(p)' = NextOf(p)
BY DEF NextOf, Recorded

(* A process at its measurement is in the sweep that is due next.          *)
LEMMA Measuring ==
  ASSUME TypeOK, NEW p \in Proc, CountInv(p), pc[p] = "insertValue"
  PROVE  /\ NextOf(p) = Ahead(sweepsDone[p]) /\ Due(sweepsDone[p])
         /\ sweepsDone[p] \in 0..(Sweeps - 1)
         /\ pc'[p] = "countSweep" /\ sweepsDone'[p] = sweepsDone[p] =>
              NextOf(p)' = Ahead(sweepsDone[p] + 1)
<1>1. sweepsDone[p] \in Nat /\ Sweeps \in Nat
  BY Intervals DEF TypeOK, ControlTypes
<1>2. Due(sweepsDone[p]) /\ sweepsDone[p] < Sweeps
  BY DEF CountInv, Mid
<1> QED
  BY <1>1, <1>2 DEF NextOf, Recorded

LEMMA LocalNext ==
  ASSUME TypeOK, NEW p \in Proc, CountInv(p), Local(p)
  PROVE  NextOf(p)' = NextOf(p)
<1> USE Constants, Intervals
<1>t. /\ pc \in [Proc -> Labels] /\ sweepsDone \in [Proc -> Nat] /\ swCounter \in [Proc -> Nat]
      /\ sweepsDone[p] \in Nat /\ swCounter[p] \in Nat
  BY DEF TypeOK, ControlTypes
<1>1. CASE SweepThermalization(p) \/ EndSweep(p) \/ Save(p)
  <2>1. sweepsDone'[p] = sweepsDone[p] /\ pc[p] # "countSweep" /\ pc'[p] # "countSweep"
    BY <1>1, <1>t DEF SweepThermalization, EndSweep, Save, AfterSave, Goto, counters
  <2> QED
    BY <2>1, NotRecording
<1>2. CASE CountSweep(p)
  <2>1. /\ pc[p] = "countSweep" /\ pc'[p] # "countSweep" /\ sweepsDone'[p] = sweepsDone[p] + 1
    BY <1>2, <1>t DEF CountSweep, Goto
  <2> QED
    BY <2>1 DEF NextOf, Recorded
<1>3. CASE Sweep(p)
  <2>1. /\ sweepsDone'[p] = sweepsDone[p] /\ pc[p] = "sweep" /\ stage[p] = "M"
        /\ pc'[p] = IF (swCounter[p] + 1) % MeasureInterval = 0 THEN "insertValue"
                                                               ELSE "countSweep"
    BY <1>3, <1>t DEF Sweep, Goto
  <2>2. swCounter[p] = sweepsDone[p] % SaveInterval
    BY <2>1 DEF CountInv, Counted, Mid
  <2>3. Due(sweepsDone[p]) <=> (swCounter[p] + 1) % MeasureInterval = 0
    BY <2>2 DEF Due
  <2>4. CASE pc'[p] = "insertValue"
    BY <2>1, <2>4 DEF NextOf, Recorded
  <2>5. CASE pc'[p] = "countSweep"
    <3>1. ~Due(sweepsDone[p])
      BY <2>1, <2>3, <2>5
    <3>2. Ahead(sweepsDone[p] + 1) = Ahead(sweepsDone[p])
      BY <1>t, <3>1, AheadNow
    <3> QED
      BY <2>1, <2>5, <3>2 DEF NextOf, Recorded
  <2> QED
    BY <2>1, <2>4, <2>5
<1> QED
  BY <1>1, <1>2, <1>3 DEF Local

-----------------------------------------------------------------------------
(* RecordInv is inductive *)

LEMMA SeriesAside ==
  ASSUME SeriesInv, UNCHANGED <<seriesFile, timeseriesBuffer>>, NextOf(Root)' = NextOf(Root)
  PROVE  SeriesInv'
BY DEF SeriesInv, Holds, Series

LEMMA LocalRecordInv ==
  ASSUME TypeOK, RecordInv, NEW p \in Proc, Local(p)
  PROVE  RecordInv' /\ \A c \in Par : Series(c)' = Series(c)
<1> USE Constants
<1>t. /\ pc \in [Proc -> Labels] /\ stage \in [Proc -> {"T", "M", "F"}]
      /\ sweepsDone \in [Proc -> Nat] /\ swCounter \in [Proc -> Nat]
  BY DEF TypeOK, ControlTypes
<1>1. CountInv(p)'
  <2>1. CountInv(p)
    BY DEF RecordInv
  <2>2. CASE Save(p)
    <3>1. /\ UNCHANGED <<stage[p], sweepsDone[p], swCounter[p]>>
          /\ pc[p] = "save" /\ pc'[p] \in {"barrier", "done"}
      BY <2>2, <1>t DEF Save, AfterSave, Goto, counters
    <3>2. PICK label : label = pc'[p]
      OBVIOUS
    <3> QED
      BY <2>1, <3>1, <3>2, MoveOn
  <2> QED
    BY <2>1, <2>2, CountOn DEF Local
<1>2. \A r \in Proc \ {p} : CountInv(r)' /\ NextOf(r)' = NextOf(r)
  <2>1. \A r \in Proc \ {p} : UNCHANGED <<pc[r], stage[r], sweepsDone[r], swCounter[r]>>
    BY <1>t DEF Local, SweepThermalization, Sweep, CountSweep, Save, EndSweep, Goto, counters
  <2> QED
    BY <2>1, Bystander DEF RecordInv
<1>3. NextOf(p)' = NextOf(p)
  BY LocalNext DEF RecordInv
<1>4. \A r \in Proc : NextOf(r)' = NextOf(r)
  BY <1>2, <1>3
<1>5. UNCHANGED <<up, current_process_par>>
  BY DEF Local, SweepThermalization, Sweep, CountSweep, Save, EndSweep, tables
<1>6. \A q \in Workers : ValueInv(q)'
  BY <1>4, <1>5, ValuesAside DEF RecordInv
<1>7. \A c \in Par : Series(c)' = Series(c)
  <2>1. CASE seriesFile' = [c \in Par |-> seriesFile[c] \o timeseriesBuffer[c]]
             /\ timeseriesBuffer' = [c \in Par |-> <<>>]
    <3> TAKE c \in Par
    <3>1. seriesFile[c] \o timeseriesBuffer[c] \in Seq(SUBSET Sample)
      BY ConcatProperties DEF TypeOK, FileTypes
    <3>2. (seriesFile[c] \o timeseriesBuffer[c]) \o <<>> = seriesFile[c] \o timeseriesBuffer[c]
      BY <3>1, ConcatEmptySeq
    <3> QED
      BY <2>1, <3>2 DEF Series
  <2>2. CASE UNCHANGED <<seriesFile, timeseriesBuffer>>
    BY <2>2 DEF Series
  <2> QED
    BY <2>1, <2>2 DEF Local, SweepThermalization, Sweep, CountSweep, Save, OutputTimeseries,
       EndSweep, files
<1>8. SeriesInv'
  BY <1>4, <1>7 DEF SeriesInv, Holds, RecordInv
<1> QED
  BY <1>1, <1>2, <1>6, <1>7, <1>8 DEF RecordInv

(* A step of one process within its loop that counts nothing; what it does *)
(* to its channel is judged by ValueInv.                                   *)
LEMMA UncountedStep ==
  ASSUME TypeOK, RecordInv, NEW p \in Proc, NEW label, Goto(p, label), UNCHANGED counters,
         \/ Looping(p) /\ label \in {"top", "sweep", "exchange", "walk", "assign", "check", "error",
                                      "save"}
         \/ /\ pc[p] \in {"save", "barrier", "inBarrier"}
            /\ label \in {"save", "barrier", "inBarrier", "endSweep", "done"}
  PROVE  \A r \in Proc : CountInv(r)' /\ NextOf(r)' = NextOf(r)
<1> USE DEF counters
<1>1. pc'[p] = label /\ \A r \in Proc \ {p} : pc'[r] = pc[r]
  BY DEF Goto, TypeOK, ControlTypes
<1>2. CountInv(p)'
  BY <1>1, MoveOn DEF RecordInv
<1>3. NextOf(p)' = NextOf(p)
  BY <1>1, NotRecording DEF Looping
<1>4. \A r \in Proc \ {p} : CountInv(r)' /\ NextOf(r)' = NextOf(r)
  BY <1>1, Bystander DEF RecordInv
<1> QED
  BY <1>2, <1>3, <1>4

(* The same for a worker that sends nothing or something else than a value.*)
LEMMA UncountedWorkerStep ==
  ASSUME TypeOK, RecordInv, NEW q \in Workers, NEW label, Goto(q, label), UNCHANGED counters,
         \/ Looping(q) /\ label \in {"top", "sweep", "exchange", "walk", "assign", "check", "error",
                                      "save"}
         \/ /\ pc[q] \in {"save", "barrier", "inBarrier"}
            /\ label \in {"save", "barrier", "inBarrier", "endSweep", "done"},
         UNCHANGED <<current_process_par, seriesFile, timeseriesBuffer>>,
         UNCHANGED up \/ \E m \in UpMessage : ~IsValue(m) /\ Post(q, m)
  PROVE  RecordInv'
<1> USE Constants
<1>1. \A r \in Proc : CountInv(r)' /\ NextOf(r)' = NextOf(r)
  BY UncountedStep
<1>2. ASSUME NEW r \in Workers PROVE ValueInv(r)'
  <2>0. ValueInv(r) /\ r \in Proc
    BY DEF RecordInv
  <2>1. CASE up'[r] = up[r]
    BY <1>1, <2>0, <2>1, ValuesAside
  <2>2. CASE up'[r] # up[r]
    <3>1. PICK m \in UpMessage : ~IsValue(m) /\ Post(q, m)
      BY <2>2
    <3>2. r = q /\ up[q] \in Seq(UpMessage) /\ up'[q] = Append(up[q], m)
      BY <2>2, <3>1 DEF Post, TypeOK, ChannelTypes
    <3> QED
      BY <1>1, <2>0, <3>1, <3>2, PostOther
  <2> QED
    BY <2>1, <2>2
<1>3. SeriesInv'
  BY <1>1, SeriesAside DEF RecordInv
<1> QED
  BY <1>1, <1>2, <1>3 DEF RecordInv

LEMMA SendValueRecordInv ==
  ASSUME TypeOK, ExchangeInv, RecordInv, NEW q \in Workers, SendValue(q)
  PROVE  RecordInv'
<1> USE Constants
<1> USE DEF counters
<1>1. /\ pc[q] = "insertValue" /\ pc'[q] = "countSweep" /\ sweepsDone'[q] = sweepsDone[q]
      /\ UNCHANGED <<stage, sweepsDone, swCounter>>
      /\ \A r \in Proc \ {q} : pc'[r] = pc[r]
  BY DEF SendValue, Goto, TypeOK, ControlTypes
<1>2. CountInv(q) /\ ValueInv(q)
  BY DEF RecordInv
<1>3. CountInv(q)'
  BY <1>1, <1>2, MoveOn
<1>4. /\ NextOf(q) = Ahead(sweepsDone[q]) /\ Due(sweepsDone[q])
      /\ NextOf(q)' = Ahead(sweepsDone[q] + 1)
  BY <1>1, <1>2, Measuring
<1>5. \A r \in Proc \ {q} : CountInv(r)' /\ NextOf(r)' = NextOf(r)
  BY <1>1, Bystander DEF RecordInv
<1> DEFINE m == [op |-> "insertValue", value |-> Measured(q)]
<1>6. m \in UpMessage
  BY BufferingTypes, TypesOfARun DEF TypeOK, TypesAmong, UpMessage
<1>7. m.value.par = current_process_par[q] /\ m.value.sweep = sweepsDone[q] /\ IsValue(m)
  BY <1>1, NotWaiting DEF Measured, IsValue
<1>8. /\ up[q] \in Seq(UpMessage) /\ up'[q] = Append(up[q], m)
      /\ \A r \in Workers \ {q} : up'[r] = up[r]
  BY DEF SendValue, Post, TypeOK, ChannelTypes
<1> HIDE DEF m
<1>9. UNCHANGED <<current_process_par, seriesFile, timeseriesBuffer>>
  BY DEF SendValue, tables, files
<1>10. ValueInv(q)'
  BY <1>2, <1>4, <1>5, <1>6, <1>7, <1>8, <1>9, PostValue DEF Workers
<1>11. \A r \in Workers \ {q} : ValueInv(r)'
  BY <1>5, <1>8, <1>9, ValuesAside DEF RecordInv, Workers
<1>12. SeriesInv'
  BY <1>5, <1>9, SeriesAside DEF RecordInv, Workers
<1> QED
  BY <1>3, <1>5, <1>10, <1>11, <1>12 DEF RecordInv

LEMMA WorkerRecordInv ==
  ASSUME TypeOK, ExchangeInv, RecordInv, NEW q \in Workers, Worker(q)
  PROVE  RecordInv'
<1>t. q \in Proc /\ ControlTypes /\ ReplicaTypes /\ BufferTypes /\ ChannelTypes
  BY Constants DEF TypeOK
<1> USE DEF tables, files
<1>1. CASE HearStop(q)
  <2>1. PICK label \in {"save", "sweep"} : Goto(q, label) /\ Looping(q)
    BY <1>1 DEF HearStop, AfterStopCheck, Looping
  <2> QED
    BY <1>1, <2>1, UncountedWorkerStep DEF HearStop
<1>2. CASE SendValue(q)
  BY <1>2, SendValueRecordInv
<1>3. CASE SendConfiguration(q)
  <2>1. /\ [op |-> "configuration", item |-> Head(buffered[q])] \in UpMessage
        /\ ~IsValue([op |-> "configuration", item |-> Head(buffered[q])])
    BY <1>t, <1>3, BufferingTypes, TypesOfARun
       DEF SendConfiguration, TypesAmong, UpMessage, IsValue
  <2>2. Goto(q, "save") /\ pc[q] = "save"
    BY <1>t, <1>3 DEF SendConfiguration, Flushing, Goto, ControlTypes
  <2> QED
    BY <1>3, <2>1, <2>2, UncountedWorkerStep DEF SendConfiguration
<1>4. CASE EnterBarrier(q)
  <2>1. [op |-> "barrier"] \in UpMessage /\ ~IsValue([op |-> "barrier"])
    BY DEF UpMessage, IsValue
  <2> QED
    BY <1>4, <2>1, UncountedWorkerStep DEF EnterBarrier
<1>5. CASE LeaveBarrier(q)
  BY <1>5, UncountedWorkerStep DEF LeaveBarrier
<1>6. CASE SendControlData(q)
  <2>1. /\ [op |-> "exchange", ctrl |-> replica_ctrl[q]] \in UpMessage
        /\ ~IsValue([op |-> "exchange", ctrl |-> replica_ctrl[q]])
    BY <1>t DEF UpMessage, ReplicaTypes, IsValue
  <2>2. Looping(q)
    BY <1>6 DEF SendControlData, Looping
  <2> QED
    BY <1>6, <2>1, <2>2, UncountedWorkerStep DEF SendControlData
<1>7. CASE HearAssignment(q)
  <2>1. Looping(q)
    BY <1>7 DEF HearAssignment, Looping
  <2> QED
    BY <1>7, <2>1, UncountedWorkerStep DEF HearAssignment
<1>8. CASE SendCheck(q)
  <2>1. /\ [op |-> "check", par |-> replica_par[q]] \in UpMessage
        /\ ~IsValue([op |-> "check", par |-> replica_par[q]])
    BY <1>t DEF UpMessage, ReplicaTypes, IsValue
  <2>2. PICK label \in {"top", "sweep", "error"} : Goto(q, label)
    BY <1>8 DEF SendCheck, LoopTop
  <2>3. Looping(q)
    BY <1>8 DEF SendCheck, Looping
  <2>4. UNCHANGED up \/ \E m \in UpMessage : ~IsValue(m) /\ Post(q, m)
    BY <1>8, <2>1 DEF SendCheck
  <2> QED
    BY <1>8, <2>2, <2>3, <2>4, UncountedWorkerStep DEF SendCheck
<1> QED
  BY <1>1, <1>2, <1>3, <1>4, <1>5, <1>6, <1>7, <1>8 DEF Worker

LEMMA AppendToSecond ==
  ASSUME NEW S, NEW s \in Seq(S), NEW t \in Seq(S), NEW x \in S
  PROVE  s \o Append(t, x) = Append(s \o t, x)
<1> DEFINE u == <<x>>
<1>1. s \o t \in Seq(S) /\ u \in Seq(S)
  BY ConcatProperties
<1>2. Append(t, x) = t \o u /\ Append(s \o t, x) = (s \o t) \o u
  BY <1>1, AppendIsConcat
<1> HIDE DEF u
<1>3. (s \o t) \o u = s \o (t \o u)
  BY <1>1, ConcatAssociative
<1> QED
  BY <1>2, <1>3

LEMMA SeriesGrows ==
  ASSUME TypeOK, NEW c \in Par, NEW x \in SUBSET Sample
  PROVE  /\ Series(c) \in Seq(SUBSET Sample)
         /\ seriesFile[c] \o Append(timeseriesBuffer[c], x) = Append(Series(c), x)
<1>1. PICK s \in Seq(SUBSET Sample), t \in Seq(SUBSET Sample) :
        s = seriesFile[c] /\ t = timeseriesBuffer[c]
  BY DEF TypeOK, FileTypes
<1>2. s \o t \in Seq(SUBSET Sample)
  BY ConcatProperties
<1>3. s \o Append(t, x) = Append(s \o t, x)
  BY AppendToSecond
<1> QED
  BY <1>1, <1>2, <1>3 DEF Series

(* What the root files under a parameter is the one value measured at it,  *)
(* in the sweep that is due: by TablesInverse one process holds it.        *)
LEMMA CreditedValue ==
  ASSUME TypeOK, ExchangeInv, RecordInv, GatherValues
  PROVE  /\ sweepsDone[Root] \in 0..(Sweeps - 1) /\ Due(sweepsDone[Root])
         /\ timeseriesBuffer' = [c \in Par |->
              Append(timeseriesBuffer[c], {[par |-> c, sweep |-> sweepsDone[Root]]})]
         /\ \A q \in Workers : /\ ValueInv(q) /\ Len(up[q]) \in Nat \ {0} /\ IsValue(up[q][1])
                                /\ up[q][1].value.sweep = sweepsDone[Root]
<1> USE Constants
<1> DEFINE value == [p \in Proc |-> IF p = Root THEN Measured(Root) ELSE Head(up[p]).value]
<1>1. pc[Root] = "insertValue" /\ CountInv(Root)
  BY DEF GatherValues, RecordInv
<1>2. /\ NextOf(Root) = Ahead(sweepsDone[Root]) /\ Due(sweepsDone[Root])
      /\ sweepsDone[Root] \in 0..(Sweeps - 1)
  BY <1>1, Measuring
<1>3. value[Root] = [par |-> current_process_par[Root], sweep |-> sweepsDone[Root]]
  <2>1. replica_par[Root] = current_process_par[Root]
    BY <1>1 DEF ExchangeInv, WalkInv
  <2> QED
    BY <2>1 DEF Measured
<1>4. ASSUME NEW q \in Workers
      PROVE  /\ value[q] = [par |-> current_process_par[q], sweep |-> sweepsDone[Root]]
             /\ ValueInv(q) /\ Len(up[q]) \in Nat \ {0} /\ IsValue(up[q][1])
             /\ up[q][1].value.sweep = sweepsDone[Root]
  <2>1. /\ Len(up[q]) \in Nat \ {0} /\ Head(up[q]) = up[q][1] /\ IsValue(up[q][1])
        /\ ValueInv(q)
    BY TakenEntries DEF GatherValues, IsValue, RecordInv
  <2>2. 1 \in 1..Len(up[q]) /\ \A j \in 1..(1 - 1) : ~IsValue(up[q][j])
    BY <2>1
  <2>3. /\ up[q][1].value.par = current_process_par[q] /\ Due(up[q][1].value.sweep)
        /\ Ahead(up[q][1].value.sweep) = Ahead(sweepsDone[Root])
    BY <1>2, <2>1, <2>2 DEF ValueInv
  <2>4. Head(up[q]).value \in Sample
    BY ArrivedTypes, TypesOfARun DEF GatherValues, TypesAmong
  <2>5. up[q][1].value.sweep = sweepsDone[Root]
    BY <1>2, <2>1, <2>3, <2>4, AheadNow DEF Sample
  <2>6. value[q] = Head(up[q]).value
    BY DEF Workers
  <2> HIDE DEF value
  <2> QED
    BY <2>1, <2>3, <2>4, <2>5, <2>6 DEF Sample
<1>5. \A p \in Proc : value[p] = [par |-> current_process_par[p], sweep |-> sweepsDone[Root]]
  BY <1>3, <1>4 DEF Workers
<1>6. HandleValues(value)
  BY DEF GatherValues
<1> HIDE DEF value
<1>7. ASSUME NEW c \in Par
      PROVE  FiledUnder(c, current_process_par, value) =
               {[par |-> c, sweep |-> sweepsDone[Root]]}
  <2>1. /\ current_par_process[c] \in Proc
        /\ current_process_par[current_par_process[c]] = c
        /\ \A p \in Proc : current_process_par[p] = c => p = current_par_process[c]
    BY DEF ExchangeInv, TablesInverse, TypeOK, TableTypes
  <2>2. {r \in Proc : current_process_par[r] = c} = {current_par_process[c]}
    BY <2>1
  <2>3. FiledUnder(c, current_process_par, value) = {value[current_par_process[c]]}
    BY <2>2 DEF FiledUnder
  <2> QED
    BY <1>5, <2>1, <2>3
<1>8. timeseriesBuffer' = [c \in Par |->
              Append(timeseriesBuffer[c], {[par |-> c, sweep |-> sweepsDone[Root]]})]
  BY <1>6, <1>7 DEF HandleValues
<1> QED
  BY <1>2, <1>4, <1>8

LEMMA GatherValuesRecordInv ==
  ASSUME TypeOK, ExchangeInv, RecordInv, GatherValues
  PROVE  /\ RecordInv'
         /\ \A c \in Par : Series(c)' =
              Append(Series(c), {[par |-> c, sweep |-> sweepsDone[Root]]})
<1> USE Constants
<1> USE DEF counters
<1>1. /\ pc[Root] = "insertValue" /\ pc'[Root] = "countSweep"
      /\ UNCHANGED <<stage, sweepsDone, swCounter, current_process_par, seriesFile>>
      /\ \A r \in Proc \ {Root} : pc'[r] = pc[r]
  BY DEF GatherValues, Goto, TypeOK, ControlTypes, tables
<1>2. /\ CountInv(Root)' /\ NextOf(Root) = Ahead(sweepsDone[Root])
      /\ NextOf(Root)' = Ahead(sweepsDone[Root] + 1)
      /\ sweepsDone[Root] \in 0..(Sweeps - 1) /\ Due(sweepsDone[Root])
  BY <1>1, MoveOn, Measuring DEF RecordInv
<1>3. \A r \in Proc \ {Root} : CountInv(r)' /\ NextOf(r)' = NextOf(r)
  BY <1>1, Bystander DEF RecordInv
<1>4. ASSUME NEW q \in Workers PROVE ValueInv(q)'
  <2>1. /\ Len(up[q]) \in Nat \ {0} /\ Len(up'[q]) = Len(up[q]) - 1
        /\ \A i \in 1..Len(up'[q]) : i + 1 \in 1..Len(up[q]) /\ up'[q][i] = up[q][i + 1]
    BY TakenEntries DEF GatherValues
  <2>2. ValueInv(q) /\ IsValue(up[q][1]) /\ up[q][1].value.sweep = sweepsDone[Root]
    BY CreditedValue
  <2>3. current_process_par'[q] = current_process_par[q] /\ NextOf(q)' = NextOf(q)
    BY <1>1, <1>3 DEF Workers
  <2> QED
    BY <1>2, <2>1, <2>2, <2>3, TakeValue
<1>5. ASSUME NEW c \in Par
      PROVE  /\ Series(c)' = Append(Series(c), {[par |-> c, sweep |-> sweepsDone[Root]]})
             /\ Holds(c)' = Holds(c) \cup {sweepsDone[Root]}
  <2> DEFINE x == {[par |-> c, sweep |-> sweepsDone[Root]]}
             S == SUBSET Sample
  <2>1. x \in S /\ seriesFile[c] \in Seq(S) /\ timeseriesBuffer[c] \in Seq(S)
    <3>1. [par |-> c, sweep |-> sweepsDone[Root]] \in Sample
      BY <1>2 DEF Sample
    <3> QED
      BY <3>1 DEF TypeOK, FileTypes
  <2>2. timeseriesBuffer'[c] = Append(timeseriesBuffer[c], x)
    BY CreditedValue
  <2>x. ASSUME NEW w \in Nat, x = {[par |-> c, sweep |-> w]} PROVE w = sweepsDone[Root]
    <3>1. [par |-> c, sweep |-> w] = [par |-> c, sweep |-> sweepsDone[Root]]
      BY <2>x
    <3>2. [par |-> c, sweep |-> w].sweep = [par |-> c, sweep |-> sweepsDone[Root]].sweep
      BY <3>1
    <3> QED
      BY <3>2
  <2> HIDE DEF x, S
  <2>3. /\ Series(c) \in Seq(S)
        /\ seriesFile[c] \o Append(timeseriesBuffer[c], x) = Append(Series(c), x)
    BY <2>1, SeriesGrows DEF S
  <2>4. Series(c)' = Append(Series(c), x)
    BY <1>1, <2>2, <2>3 DEF Series
  <2>5. /\ Len(Series(c)') = Len(Series(c)) + 1 /\ Len(Series(c)) \in Nat
        /\ Series(c)'[Len(Series(c)) + 1] = x
        /\ \A i \in 1..Len(Series(c)) : Series(c)'[i] = Series(c)[i]
    BY <2>1, <2>3, <2>4
  <2>6. ASSUME NEW w \in 0..(Sweeps - 1)
        PROVE  (\E i \in 1..Len(Series(c)') : Series(c)'[i] = {[par |-> c, sweep |-> w]}) <=>
                 \/ \E i \in 1..Len(Series(c)) : Series(c)[i] = {[par |-> c, sweep |-> w]}
                 \/ w = sweepsDone[Root]
    <3>1. 1..Len(Series(c)') = (1..Len(Series(c))) \cup {Len(Series(c)) + 1}
      BY <2>5
    <3>2. x = {[par |-> c, sweep |-> w]} <=> w = sweepsDone[Root]
      BY <2>x DEF x
    <3> QED
      BY <2>5, <3>1, <3>2
  <2>7. Holds(c)' = Holds(c) \cup {sweepsDone[Root]}
    BY <1>2, <2>6 DEF Holds
  <2> QED
    BY <2>4, <2>7 DEF x
<1>6. SeriesInv'
  <2>1. NextOf(Root) = NextOf(Root)' \cup {sweepsDone[Root]} /\ sweepsDone[Root] \notin NextOf(Root)'
    BY <1>2, AheadNow DEF Ahead
  <2> QED
    BY <1>2, <1>5, <2>1 DEF SeriesInv, RecordInv
<1> QED
  BY <1>2, <1>3, <1>4, <1>5, <1>6 DEF RecordInv

(* A step of the root that counts nothing and takes no values.             *)
LEMMA UncountedRootStep ==
  ASSUME TypeOK, RecordInv, NEW label, Goto(Root, label), UNCHANGED counters,
         \/ Looping(Root) /\ label \in {"top", "sweep", "exchange", "walk", "assign", "check",
                                         "error", "save"}
         \/ /\ pc[Root] \in {"save", "barrier", "inBarrier"}
            /\ label \in {"save", "barrier", "inBarrier", "endSweep", "done"},
         UNCHANGED <<current_process_par, seriesFile, timeseriesBuffer>>,
         UNCHANGED up \/ \E op : op # "insertValue" /\ Gathered(op) /\ TakeGathered
  PROVE  RecordInv'
<1> USE Constants
<1>1. \A r \in Proc : CountInv(r)' /\ NextOf(r)' = NextOf(r)
  BY UncountedStep
<1>2. ASSUME NEW q \in Workers PROVE ValueInv(q)'
  <2>0. ValueInv(q) /\ q \in Proc
    BY DEF RecordInv
  <2>1. CASE UNCHANGED up
    BY <1>1, <2>0, <2>1, ValuesAside
  <2>2. ASSUME NEW op, op # "insertValue", Gathered(op), TakeGathered PROVE ValueInv(q)'
    <3>1. /\ Len(up[q]) \in Nat \ {0} /\ ~IsValue(up[q][1]) /\ Len(up'[q]) = Len(up[q]) - 1
          /\ \A i \in 1..Len(up'[q]) : i + 1 \in 1..Len(up[q]) /\ up'[q][i] = up[q][i + 1]
      BY <2>2, TakenEntries DEF IsValue
    <3> QED
      BY <1>1, <2>0, <3>1, TakeOther
  <2> QED
    BY <2>1, <2>2
<1>3. SeriesInv'
  BY <1>1, SeriesAside DEF RecordInv
<1> QED
  BY <1>1, <1>2, <1>3 DEF RecordInv

(* The table changes only while nothing is on its way to the root.         *)
LEMMA ProposalRecordInv ==
  ASSUME TypeOK, ExchangeInv, RecordInv, NEW accept \in BOOLEAN, ProposeExchange(accept)
  PROVE  RecordInv'
<1> USE Constants
<1> USE DEF counters, files
<1>1. UNCHANGED <<pc, stage, sweepsDone, swCounter, up, seriesFile, timeseriesBuffer>>
  BY DEF ProposeExchange
<1>2. \A r \in Proc : CountInv(r)' /\ NextOf(r)' = NextOf(r)
  BY <1>1, Bystander DEF RecordInv
<1>3. ASSUME NEW q \in Workers PROVE ValueInv(q)'
  <2>1. up[q] = <<>> /\ Len(up[q]) = 0 /\ up'[q] = <<>> /\ Len(up'[q]) = 0
    BY <1>1 DEF ProposeExchange, ExchangeInv, WalkInv
  <2>2. NextOf(q)' = NextOf(Root)'
    <3>1. ValueInv(q) /\ 1..Len(up[q]) = {} /\ q \in Proc
      BY <2>1 DEF RecordInv
    <3>2. NextOf(q) = NextOf(Root)
      BY <3>1 DEF ValueInv
    <3> QED
      BY <1>2, <3>1, <3>2
  <2>3. 1..Len(up'[q]) = {}
    BY <2>1
  <2> QED
    BY <2>2, <2>3 DEF ValueInv
<1>4. SeriesInv'
  BY <1>1, <1>2, SeriesAside DEF RecordInv
<1> QED
  BY <1>2, <1>3, <1>4 DEF RecordInv

LEMMA MasterRecordInv ==
  ASSUME TypeOK, ExchangeInv, RecordInv, Master
  PROVE  RecordInv'
<1> USE DEF tables, files
<1>1. CASE \E stop \in BOOLEAN : BroadcastStop(stop)
  <2>1. PICK stop \in BOOLEAN : BroadcastStop(stop)
    BY <1>1
  <2>2. PICK label \in {"save", "sweep"} : Goto(Root, label) /\ Looping(Root)
    BY <2>1 DEF BroadcastStop, AfterStopCheck, Looping
  <2> QED
    BY <2>1, <2>2, UncountedRootStep DEF BroadcastStop
<1>2. CASE GatherValues
  BY <1>2, GatherValuesRecordInv
<1>3. CASE GatherConfigurations
  <2>1. Goto(Root, "save") /\ pc[Root] = "save"
    BY <1>3, Constants DEF GatherConfigurations, Flushing, Goto, TypeOK, ControlTypes
  <2>2. "configuration" # "insertValue"
    OBVIOUS
  <2> QED
    BY <1>3, <2>1, <2>2, UncountedRootStep DEF GatherConfigurations
<1>4. CASE OpenBarrier
  <2>1. "barrier" # "insertValue"
    OBVIOUS
  <2> QED
    BY <1>4, <2>1, UncountedRootStep DEF OpenBarrier
<1>5. CASE GatherControlData
  <2>1. Looping(Root) /\ "exchange" # "insertValue"
    BY <1>5 DEF GatherControlData, Looping
  <2> QED
    BY <1>5, <2>1, UncountedRootStep DEF GatherControlData
<1>6. CASE \E accept \in BOOLEAN : ProposeExchange(accept)
  BY <1>6, ProposalRecordInv
<1>7. CASE ScatterAssignment
  <2>1. Looping(Root)
    BY <1>7 DEF ScatterAssignment, Looping
  <2> QED
    BY <1>7, <2>1, UncountedRootStep DEF ScatterAssignment
<1>8. CASE GatherCheck
  <2>1. Looping(Root) /\ "check" # "insertValue"
    BY <1>8 DEF GatherCheck, Looping
  <2>2. PICK label \in {"top", "sweep", "error"} : Goto(Root, label)
    BY <1>8 DEF GatherCheck, LoopTop
  <2>3. UNCHANGED up \/ \E op : op # "insertValue" /\ Gathered(op) /\ TakeGathered
    BY <1>8, <2>1 DEF GatherCheck
  <2> QED
    BY <1>8, <2>1, <2>2, <2>3, UncountedRootStep DEF GatherCheck
<1> QED
  BY <1>1, <1>2, <1>3, <1>4, <1>5, <1>6, <1>7, <1>8 DEF Master

(* RecordInv is an invariant of the driver.                                *)
LEMMA Recording == Spec => []RecordInv
<1>1. TypeOK /\ ExchangeInv /\ RecordInv /\ [Next]_vars => RecordInv'
  <2> SUFFICES ASSUME TypeOK, ExchangeInv, RecordInv, [Next]_vars PROVE RecordInv'
    OBVIOUS
  <2>1. CASE UNCHANGED vars
    <3>1. \A p \in Proc : CountInv(p)' /\ NextOf(p)' = NextOf(p)
      BY <2>1, Bystander DEF vars, counters, RecordInv
    <3>2. \A q \in Workers : ValueInv(q)'
      BY <2>1, <3>1, Constants, ValuesAside DEF vars, tables, RecordInv
    <3>3. SeriesInv'
      BY <2>1, <3>1, Constants, SeriesAside DEF vars, files, RecordInv
    <3> QED
      BY <3>1, <3>2, <3>3 DEF RecordInv
  <2>2. CASE \E p \in Proc : Local(p)
    BY <2>2, LocalRecordInv
  <2>3. CASE \E q \in Workers : Worker(q)
    BY <2>3, WorkerRecordInv
  <2>4. CASE Master
    BY <2>4, MasterRecordInv
  <2>5. CASE Terminated
    BY <2>1, <2>5 DEF Terminated
  <2> QED
    BY <2>1, <2>2, <2>3, <2>4, <2>5 DEF Next
<1> QED
  BY <1>1, InitialRecordInv, TypeCorrect, ExchangeSafe, PTL DEF Spec

-----------------------------------------------------------------------------
(* The refinement *)

SeriesOfAll == [c \in Par |-> seriesFile[c] \o timeseriesBuffer[c]]
Stutters    == UNCHANGED <<current_par_process, SeriesOfAll>>

LEMMA Unchanged ==
  ASSUME \A c \in Par : Series(c)' = Series(c), UNCHANGED current_par_process
  PROVE  Stutters
BY DEF Stutters, SeriesOfAll, Series

LEMMA InitialEnsemble == Init => Ensemble!Init
<1> SUFFICES ASSUME Init PROVE Ensemble!Init
  OBVIOUS
<1>1. Ensemble!Ladder = Par
  BY DEF Ensemble!Ladder, Par
<1>2. \A c \in Par : seriesFile[c] \o timeseriesBuffer[c] = <<>>
  BY DEF Init
<1> QED
  BY <1>1, <1>2 DEF Init, Ensemble!Init

(* A gather of values is a measurement of the ensemble.                    *)
LEMMA GatherIsMeasurement ==
  ASSUME TypeOK, ExchangeInv, RecordInv, GatherValues
  PROVE  \E w \in 0..(Sweeps - 1) : Ensemble!Measure(w)
<1>1. Ensemble!Ladder = Par
  BY DEF Ensemble!Ladder, Par
<1>2. sweepsDone[Root] \in 0..(Sweeps - 1) /\ Due(sweepsDone[Root])
  BY CreditedValue
<1>3. \A c \in Par : Series(c)' = Append(Series(c), {[par |-> c, sweep |-> sweepsDone[Root]]})
  BY GatherValuesRecordInv
<1>4. NextOf(Root) = Ahead(sweepsDone[Root])
  BY DEF GatherValues, NextOf, Recorded
<1>5. UNCHANGED current_par_process
  BY DEF GatherValues, tables
<1>6. \A v : Ensemble!Due(v) <=> Due(v)
  BY DEF Ensemble!Due, Due
<1>7. ASSUME NEW c \in Par
      PROVE  Ensemble!MeasuredAt(c) = {v \in 0..(sweepsDone[Root] - 1) : Ensemble!Due(v)}
  <2>1. Ensemble!MeasuredAt(c) = Holds(c)
    BY DEF Ensemble!MeasuredAt, Holds, Series
  <2>2. Holds(c) = {w \in 0..(Sweeps - 1) : Due(w)} \ Ahead(sweepsDone[Root])
    BY <1>4 DEF RecordInv, SeriesInv
  <2>3. \A v : v \in Holds(c) <=> v \in 0..(sweepsDone[Root] - 1) /\ Due(v)
    BY <1>2, <2>2, Intervals DEF Ahead
  <2> QED
    BY <1>6, <2>1, <2>3
<1>8. PICK w \in 0..(Sweeps - 1) : w = sweepsDone[Root]
  BY <1>2
<1>9. Ensemble!Measure(w)
  BY <1>1, <1>2, <1>3, <1>5, <1>6, <1>7, <1>8 DEF Ensemble!Measure, Series
<1> QED
  BY <1>9

(* An accepted proposal swaps neighbours of the ensemble, another nothing. *)
LEMMA ProposalIsSwap ==
  ASSUME TypeOK, NEW accept \in BOOLEAN, ProposeExchange(accept)
  PROVE  Stutters \/ Ensemble!SwapNeighbours(cpi1)
<1>1. \A c \in Par : Series(c)' = Series(c)
  BY DEF ProposeExchange, files, Series
<1>2. CASE ~accept
  BY <1>1, <1>2, Unchanged DEF ProposeExchange
<1>3. CASE accept
  <2>1. cpi1 + 1 \in Ensemble!Ladder
    BY Constants DEF ProposeExchange, Ensemble!Ladder, TypeOK, TableTypes, Par
  <2>2. current_par_process' = [current_par_process EXCEPT ![cpi1] = current_par_process[cpi1 + 1],
                                                          ![cpi1 + 1] = current_par_process[cpi1]]
    BY <1>3 DEF ProposeExchange, SwapReplicas, Exchanged
  <2> QED
    BY <1>1, <2>1, <2>2 DEF Ensemble!SwapNeighbours, Series
<1> QED
  BY <1>2, <1>3

LEMMA EveryStepMaps ==
  ASSUME TypeOK, ExchangeInv, RecordInv, [Next]_vars
  PROVE  Stutters \/ Ensemble!Next
<1>1. CASE UNCHANGED vars
  BY <1>1 DEF vars, tables, files, Stutters, SeriesOfAll
<1>2. CASE \E p \in Proc : Local(p)
  <2>1. UNCHANGED current_par_process
    BY <1>2 DEF Local, SweepThermalization, Sweep, CountSweep, Save, EndSweep, tables
  <2> QED
    BY <1>2, <2>1, LocalRecordInv, Unchanged
<1>3. CASE \E q \in Workers : Worker(q)
  BY <1>3 DEF Worker, HearStop, SendValue, SendConfiguration, EnterBarrier, LeaveBarrier,
     SendControlData, HearAssignment, SendCheck, tables, files, Stutters, SeriesOfAll
<1>4. CASE GatherValues
  BY <1>4, GatherIsMeasurement DEF Ensemble!Next
<1>5. CASE \E accept \in BOOLEAN : ProposeExchange(accept)
  <2>1. cpi1 \in Ensemble!Ladder
    BY DEF TypeOK, TableTypes, Ensemble!Ladder, Par
  <2> QED
    BY <1>5, <2>1, ProposalIsSwap DEF Ensemble!Next
<1>6. CASE \/ \E stop \in BOOLEAN : BroadcastStop(stop)
           \/ GatherConfigurations \/ OpenBarrier \/ GatherControlData
           \/ ScatterAssignment \/ GatherCheck
  BY <1>6 DEF BroadcastStop, GatherConfigurations, OpenBarrier, GatherControlData,
     ScatterAssignment, GatherCheck, tables, files, Stutters, SeriesOfAll
<1>7. CASE Terminated
  BY <1>1, <1>7 DEF Terminated
<1> QED
  BY <1>1, <1>2, <1>3, <1>4, <1>5, <1>6, <1>7 DEF Next, Master

(* Whatever the order in which the processes proceed, whatever the walks   *)
(* of replicaExchangeStep accept, and whether or not saveInterval is a     *)
(* multiple of measureInterval: handleValues credits every                 *)
(* parameter with exactly one value for each sweep that is due, in order,  *)
(* measured at that parameter, and replicas only change places with        *)
(* neighbours.                                                             *)
THEOREM DriverImplementsEnsemble == Spec => ImplementsEnsemble
<1>1. TypeOK /\ ExchangeInv /\ RecordInv /\ [Next]_vars => Stutters \/ Ensemble!Next
  BY EveryStepMaps
<1>2. TypeOK /\ ExchangeInv /\ RecordInv /\ [Next]_vars
        => [Ensemble!Next]_<<current_par_process,
                             [c \in Par |-> seriesFile[c] \o timeseriesBuffer[c]]>>
  BY <1>1 DEF Stutters, SeriesOfAll
<1>3. Spec => []RecordInv
  BY Recording
<1> QED
  BY <1>2, <1>3, InitialEnsemble, TypeCorrect, ExchangeSafe, PTL
     DEF Spec, ImplementsEnsemble, Ensemble!Spec
=============================================================================
