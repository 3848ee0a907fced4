---------------------------- MODULE DetQMC_proofs ----------------------------
(***************************************************************************)
(* Proofs about the serial driver, for all run lengths and intervals, any  *)
(* number of sessions and any point at which sessions are killed.          *)
(***************************************************************************)
EXTENDS DetQMC, IntervalArithmetic, SequenceTheorems

-----------------------------------------------------------------------------
(* Type correctness and the parity of the sweeps                           *)

Parameters == [sweeps : Nat, saveInterval : Nat, sweepsHasChanged : BOOLEAN]
Progress   == [therm : Nat, sweeps : Nat, counter : Nat]
Handlers   == [lastSweepLogged : Nat, total : Seq(Nat), jkBlockValues : [Blocks -> Seq(Nat)],
               timeseriesBuffer : Seq(Nat), storageFileStarted : BOOLEAN]
Saving     == {"saveResults", "saveState", "writeState"}

TypesInv ==
  /\ pc \in {"off", "top", "sweep", "endSweep", "saveResults", "saveState",
             "writeState", "finished"}
  /\ stage \in {"T", "M", "F"} /\ exiting \in BOOLEAN /\ storage \in BOOLEAN
  /\ parsmc \in Parameters /\ progress \in Progress /\ handler \in Handlers
  /\ Saved => stateFile \in StateFiles
  /\ seriesFile \in Seq(Nat) /\ streamFile \in Seq(Nat)
  /\ sessions \in 0..MaxSessions
  /\ wasKilled \in BOOLEAN /\ wasRetimed \in BOOLEAN /\ wasMisaligned \in BOOLEAN

(* Counters stay below their targets, measurement sweeps come after the    *)
(* thermalization, and swCounter, which every save and every new stage     *)
(* resets after an even number of sweeps, has the parity of all sweeps.    *)
Sound(par, prog) ==
  /\ prog.therm <= Thermalization /\ prog.sweeps <= par.sweeps
  /\ prog.therm < Thermalization => prog.sweeps = 0
  /\ prog.counter <= prog.therm + prog.sweeps
  /\ (prog.therm + prog.sweeps + prog.counter) % 2 = 0

StageInv ==
  /\ Sound(parsmc, progress)
  /\ Saved => /\ Sound(stateFile.parsmc, stateFile.progress)
              /\ stateFile.progress.counter % 2 = 0
  /\ pc = "off" <=> stage = "F" /\ pc # "finished"
  /\ pc # "off" => Checked(parsmc)
  /\ pc # "off" => (stage = "F" <=> pc = "finished")
  /\ stage = "T" => progress.sweeps = 0
  /\ stage = "T" /\ pc \in {"top", "sweep"} => progress.therm < Thermalization
  /\ stage = "M" => progress.therm = Thermalization
  /\ stage = "M" /\ pc \in {"top", "sweep"} => progress.sweeps < parsmc.sweeps
  /\ pc = "finished" => progress.therm = Thermalization /\ progress.sweeps = parsmc.sweeps
  /\ pc = "saveResults" => stage = "M"
  /\ pc \in Saving \cup {"top"} => progress.counter % 2 = 0

BasicInv == TypesInv /\ StageInv

LEMMA StateFilesAre ==
  /\ StateFiles = [parsmc : Parameters, progress : Progress, handler : Handlers]
  /\ \A par \in Parameters, prog \in Progress, hand \in Handlers :
       [parsmc |-> par, progress |-> prog, handler |-> hand] \in StateFiles
BY DEF StateFiles, Parameters, Progress, Handlers

LEMMA FreshTypes ==
  FreshHandler \in Handlers /\ FreshProgress \in Progress /\ NoParameters \in Parameters
<1>1. <<>> \in Seq(Nat)
  OBVIOUS
<1>2. FreshHandler \in Handlers
  BY <1>1 DEF FreshHandler, Handlers
<1> QED
  BY <1>2 DEF FreshProgress, Progress, NoParameters, Parameters

LEMMA FreshIsSound ==
  ASSUME NEW par \in Parameters
  PROVE  Sound(par, FreshProgress)
BY ParametersAssumption DEF Sound, FreshProgress, Parameters

(* Nothing of a session that ended stays in memory. *)
LEMMA BasicEnd ==
  ASSUME BasicInv, EndSession, UNCHANGED <<sessions, wasRetimed, wasMisaligned>>,
         wasKilled' \in BOOLEAN,
         seriesFile' \in Seq(Nat), streamFile' \in Seq(Nat),
         Saved' => /\ stateFile' \in StateFiles
                   /\ Sound(stateFile'.parsmc, stateFile'.progress)
                   /\ stateFile'.progress.counter % 2 = 0
  PROVE  BasicInv'
<1>1. TypesInv'
  BY FreshTypes DEF BasicInv, TypesInv, EndSession
<1>2. Sound(parsmc, progress)'
  <2>1. Sound(NoParameters, FreshProgress)
    BY FreshTypes, FreshIsSound
  <2> QED
    BY <2>1 DEF EndSession, Sound
<1>3. StageInv'
  BY <1>2 DEF StageInv, EndSession, Saving, Sound
<1> QED
  BY <1>1, <1>3 DEF BasicInv

LEMMA BasicInit == Init => BasicInv
<1> SUFFICES ASSUME Init PROVE BasicInv
  OBVIOUS
<1>1. ~Saved
  BY DEF Init, Saved
<1>2. TypesInv
  <2>1. <<>> \in Seq(Nat) /\ 0 \in 0..MaxSessions
    BY ParametersAssumption
  <2> QED
    BY <1>1, <2>1, FreshTypes DEF Init, Idle, TypesInv
<1>3. Sound(parsmc, progress)
  BY FreshTypes, FreshIsSound DEF Init, Idle
<1>4. StageInv
  BY <1>1, <1>3 DEF Init, Idle, StageInv, Saving
<1> QED
  BY <1>2, <1>4 DEF BasicInv

LEMMA BasicEnter ==
  ASSUME BasicInv, pc = "off", UNCHANGED <<disk, wasKilled>>, sessions' = sessions + 1,
         sessions < MaxSessions, wasRetimed' \in BOOLEAN, wasMisaligned \in BOOLEAN,
         NEW par \in Parameters, NEW prog \in Progress, NEW hand \in Handlers,
         Sound(par, prog), prog.counter % 2 = 0, EnterRun(par, prog, hand)
  PROVE  BasicInv'
<1>1. parsmc' = par /\ progress' = prog /\ handler' = hand /\ Checked(par)
      /\ exiting' = FALSE /\ storage' = FALSE /\ stage' = FirstStage(par, prog)
      /\ pc' = LoopTop(FirstStage(par, prog), prog.counter) /\ wasMisaligned' \in BOOLEAN
  BY DEF EnterRun
<1>2. pc' = IF stage' = "F" THEN "finished" ELSE "top"
  BY <1>1 DEF LoopTop
<1>3. stage' \in {"T", "M", "F"}
  BY <1>1 DEF FirstStage
<1>4. (Saved' <=> Saved) /\ stateFile' = stateFile
  BY DEF Saved, disk
<1>5. TypesInv'
  <2>1. sessions' \in 0..MaxSessions
    BY ParametersAssumption DEF BasicInv, TypesInv
  <2>2. seriesFile' = seriesFile /\ streamFile' = streamFile
    BY DEF disk
  <2> QED
    BY <1>1, <1>2, <1>3, <1>4, <2>1, <2>2 DEF BasicInv, TypesInv
<1>6. Sound(parsmc, progress)' /\ (Saved => Sound(stateFile.parsmc, stateFile.progress)')
  BY <1>1, <1>4 DEF Sound, BasicInv, StageInv
<1>7. Checked(parsmc)'
  BY <1>1 DEF Checked
<1>8. /\ prog.therm <= Thermalization /\ prog.sweeps <= par.sweeps
      /\ prog.therm < Thermalization => prog.sweeps = 0
      /\ prog.therm \in Nat /\ prog.sweeps \in Nat /\ par.sweeps \in Nat
  BY DEF Sound, Parameters, Progress
<1>9. /\ stage' = "T" => prog.sweeps = 0 /\ prog.therm < Thermalization
      /\ stage' = "M" => prog.therm = Thermalization /\ prog.sweeps < par.sweeps
      /\ stage' = "F" => prog.therm = Thermalization /\ prog.sweeps = par.sweeps
  BY <1>1, <1>8, ParametersAssumption DEF FirstStage
<1>10. StageInv'
  BY <1>1, <1>2, <1>3, <1>4, <1>6, <1>7, <1>9 DEF BasicInv, StageInv, Saving
<1> QED
  BY <1>5, <1>10 DEF BasicInv

LEMMA BasicStart ==
  ASSUME BasicInv, NEW sweeps \in TargetSweeps, NEW saveInterval \in SaveIntervals,
         Start(sweeps, saveInterval)
  PROVE  BasicInv'
<1>1. sweeps \in Nat /\ saveInterval \in Nat
  BY ParametersAssumption
<1>2. CASE StartFresh(sweeps, saveInterval)
  <2> DEFINE par == [sweeps |-> sweeps, sweepsHasChanged |-> FALSE,
               saveInterval |-> IF saveInterval = Unspecified THEN sweeps ELSE saveInterval]
  <2>1. par \in Parameters
    BY <1>1 DEF Parameters
  <2>2. /\ pc = "off" /\ EnterRun(par, FreshProgress, FreshHandler) /\ sessions < MaxSessions
        /\ UNCHANGED <<disk, wasKilled>> /\ sessions' = sessions + 1 /\ wasRetimed' \in BOOLEAN
        /\ wasMisaligned \in BOOLEAN
    BY <1>2 DEF StartFresh, BasicInv, TypesInv
  <2>3. Sound(par, FreshProgress) /\ FreshProgress.counter % 2 = 0
    BY <2>1, FreshIsSound DEF FreshProgress
  <2> HIDE DEF par
  <2> QED
    BY <2>1, <2>2, <2>3, FreshTypes, BasicEnter
<1>3. CASE Resume(sweeps, saveInterval)
  <2> DEFINE par == ResumedParameters(stateFile.parsmc, sweeps, saveInterval)
  <2>1. /\ Saved /\ stateFile.parsmc \in Parameters /\ stateFile.progress \in Progress
        /\ stateFile.handler \in Handlers
    BY <1>3, StateFilesAre DEF Resume, Saved, BasicInv, TypesInv
  <2>2. /\ pc = "off" /\ EnterRun(par, stateFile.progress, stateFile.handler)
        /\ sessions < MaxSessions
        /\ UNCHANGED <<disk, wasKilled>> /\ sessions' = sessions + 1 /\ wasRetimed' \in BOOLEAN
        /\ wasMisaligned \in BOOLEAN
    BY <1>3 DEF Resume, BasicInv, TypesInv, LoadedHandler
  <2>3. par \in Parameters /\ par.sweeps >= stateFile.parsmc.sweeps
    BY <1>1, <2>1 DEF ResumedParameters, Parameters
  <2> HIDE DEF par
  <2>4. Sound(par, stateFile.progress) /\ stateFile.progress.counter % 2 = 0
    BY <2>1, <2>3 DEF BasicInv, StageInv, Sound, Parameters, Progress
  <2> QED
    BY <2>1, <2>2, <2>3, <2>4, BasicEnter
<1> QED
  BY <1>2, <1>3 DEF Start

LEMMA BasicStop ==
  ASSUME BasicInv, NEW stop \in BOOLEAN, CheckStop(stop)
  PROVE  BasicInv'
<1> USE DEF disk, past
<1>1. /\ pc = "top" /\ pc' \in {"saveResults", "saveState", "sweep"}
      /\ UNCHANGED <<stage, parsmc, progress, handler, storage, disk, past>>
      /\ exiting' \in BOOLEAN /\ (pc' = "saveResults" => stage = "M") /\ (Saved' <=> Saved)
  BY DEF CheckStop, StartOfSave, Saved
<1>2. TypesInv'
  BY <1>1 DEF BasicInv, TypesInv
<1>3. StageInv'
  BY <1>1 DEF BasicInv, StageInv, Sound, Checked, Saving
<1> QED
  BY <1>2, <1>3 DEF BasicInv

(* One more sweep: a counter that is reset is even then. *)
LEMMA CounterParity ==
  ASSUME NEW a \in Nat, NEW b \in Nat, (a + b) % 2 = 0
  PROVE  /\ (a + 1 + b + 1) % 2 = 0
         /\ (b + 1) % 2 = 0 => (a + 1) % 2 = 0
OBVIOUS

LEMMA EvenSum ==
  ASSUME NEW a \in Nat, NEW b \in Nat, a % 2 = 0, b % 2 = 0
  PROVE  (a + b + 0) % 2 = 0
OBVIOUS

LEMMA BasicThermalization ==
  ASSUME BasicInv, SweepThermalization
  PROVE  BasicInv'
<1> USE DEF disk, past
<1>1. PICK a \in Nat, c \in Nat, r \in Nat :
        /\ progress = [therm |-> a, sweeps |-> 0, counter |-> c]
        /\ progress' = [therm |-> a + 1, sweeps |-> 0, counter |-> r]
        /\ a < Thermalization /\ c <= a /\ (a + c) % 2 = 0
        /\ r = IF c + 1 = parsmc.saveInterval THEN 0 ELSE c + 1
        /\ pc' = IF c + 1 = parsmc.saveInterval THEN "saveState" ELSE "endSweep"
  <2>1. progress \in Progress /\ progress.sweeps = 0 /\ stage = "T" /\ pc = "sweep"
    BY DEF SweepThermalization, BasicInv, TypesInv, StageInv
  <2>2. /\ progress.therm < Thermalization /\ progress.counter <= progress.therm + 0
        /\ (progress.therm + 0 + progress.counter) % 2 = 0
    BY <2>1 DEF BasicInv, StageInv, Sound
  <2>3. PICK a \in Nat, c \in Nat : progress = [therm |-> a, sweeps |-> 0, counter |-> c]
    BY <2>1 DEF Progress
  <2>4. a < Thermalization /\ c <= a /\ (a + c) % 2 = 0
    BY <2>2, <2>3
  <2>5. /\ progress' = [therm |-> a + 1, sweeps |-> 0,
                        counter |-> IF c + 1 = parsmc.saveInterval THEN 0 ELSE c + 1]
        /\ pc' = IF c + 1 = parsmc.saveInterval THEN "saveState" ELSE "endSweep"
    <3>1. PICK r \in Nat : r = IF c + 1 = parsmc.saveInterval THEN 0 ELSE c + 1
      OBVIOUS
    <3>2. progress' = [progress EXCEPT !.therm = a + 1, !.counter = r]
      BY <2>1, <2>3, <3>1 DEF SweepThermalization, SaveDue, ResetIfSaved
    <3>3. progress' = [therm |-> a + 1, sweeps |-> 0, counter |-> r]
      BY <2>3, <3>2
    <3>4. pc' = IF c + 1 = parsmc.saveInterval THEN "saveState" ELSE "endSweep"
      BY <2>1, <2>3 DEF SweepThermalization, SaveDue, StartOfSave
    <3> QED
      BY <3>1, <3>3, <3>4
  <2>6. PICK r \in Nat : r = IF c + 1 = parsmc.saveInterval THEN 0 ELSE c + 1
    OBVIOUS
  <2> QED
    BY <2>3, <2>4, <2>5, <2>6
<1>2. /\ UNCHANGED <<stage, exiting, parsmc, handler, storage, disk, past>>
      /\ stage = "T" /\ pc = "sweep" /\ (Saved' <=> Saved)
      /\ Checked(parsmc) /\ parsmc.saveInterval % 2 = 0
  BY DEF SweepThermalization, Saved, BasicInv, StageInv, Checked
<1>3. TypesInv'
  BY <1>1, <1>2 DEF BasicInv, TypesInv, Progress
<1>4. Sound(parsmc, progress)'
  <2>1. /\ (a + 1 + c + 1) % 2 = 0
        /\ (c + 1) % 2 = 0 => (a + 1) % 2 = 0
    BY <1>1, CounterParity
  <2>2. (a + 1 + 0 + r) % 2 = 0 /\ r <= a + 1 + 0 /\ a + 1 <= Thermalization
    BY <1>1, <1>2, <2>1, ParametersAssumption
  <2>3. parsmc.sweeps \in Nat
    BY DEF BasicInv, TypesInv, Parameters
  <2> QED
    BY <1>1, <1>2, <2>2, <2>3 DEF Sound
<1>5. StageInv'
  BY <1>1, <1>2, <1>4 DEF BasicInv, StageInv, Sound, Checked, Saving
<1> QED
  BY <1>3, <1>5 DEF BasicInv

LEMMA InsertType ==
  ASSUME handler \in Handlers, NEW curSweep \in Nat
  PROVE  InsertValue(curSweep) \in Handlers
<1>1. IntoJkBlocks(curSweep) \in [Blocks -> Seq(Nat)]
  <2>1. \A b \in Blocks : handler.jkBlockValues[b] \in Seq(Nat)
    BY DEF Handlers
  <2>2. \A b \in Blocks : Append(handler.jkBlockValues[b], curSweep) \in Seq(Nat)
    BY <2>1
  <2> QED
    BY <2>1, <2>2 DEF IntoJkBlocks
<1>2. /\ Append(handler.total, curSweep) \in Seq(Nat)
      /\ Append(handler.timeseriesBuffer, curSweep) \in Seq(Nat)
  BY DEF Handlers
<1>3. InsertValue(curSweep) =
        [lastSweepLogged |-> curSweep, total |-> Append(handler.total, curSweep),
         jkBlockValues |-> IntoJkBlocks(curSweep),
         timeseriesBuffer |-> Append(handler.timeseriesBuffer, curSweep),
         storageFileStarted |-> handler.storageFileStarted]
  <2>1. PICK x, y, z, u, v : handler = [lastSweepLogged |-> x, total |-> y, jkBlockValues |-> z,
                                        timeseriesBuffer |-> u, storageFileStarted |-> v]
    BY DEF Handlers
  <2>2. PICK w : w = IntoJkBlocks(curSweep)
    OBVIOUS
  <2>3. InsertValue(curSweep) = [handler EXCEPT !.lastSweepLogged = curSweep,
          !.total = Append(y, curSweep), !.jkBlockValues = w,
          !.timeseriesBuffer = Append(u, curSweep)]
    BY <2>1, <2>2 DEF InsertValue
  <2>4. InsertValue(curSweep) = [lastSweepLogged |-> curSweep, total |-> Append(y, curSweep),
          jkBlockValues |-> w, timeseriesBuffer |-> Append(u, curSweep), storageFileStarted |-> v]
    BY <2>1, <2>3
  <2> QED
    BY <2>1, <2>2, <2>4
<1> QED
  BY <1>1, <1>2, <1>3 DEF Handlers

(* What a measurement sweep does, in terms of its number and its counter *)
MeasurementSweep(b, c) ==
  /\ progress = [therm |-> Thermalization, sweeps |-> b, counter |-> c]
  /\ progress' = [therm |-> Thermalization, sweeps |-> b + 1,
                  counter |-> IF c + 1 = parsmc.saveInterval THEN 0 ELSE c + 1]
  /\ pc' = IF c + 1 = parsmc.saveInterval THEN "saveResults" ELSE "endSweep"
  /\ b < parsmc.sweeps /\ c <= Thermalization + b /\ (Thermalization + b + c) % 2 = 0

LEMMA SweepIs ==
  ASSUME BasicInv, Sweep
  PROVE  \E b \in Nat, c \in Nat : MeasurementSweep(b, c)
<1>1. progress \in Progress /\ progress.therm = Thermalization /\ stage = "M" /\ pc = "sweep"
  BY DEF Sweep, BasicInv, TypesInv, StageInv
<1>2. /\ progress.sweeps < parsmc.sweeps /\ progress.counter <= Thermalization + progress.sweeps
      /\ (Thermalization + progress.sweeps + progress.counter) % 2 = 0
  BY <1>1 DEF BasicInv, StageInv, Sound
<1>3. PICK b \in Nat, c \in Nat : progress = [therm |-> Thermalization, sweeps |-> b, counter |-> c]
  BY <1>1 DEF Progress
<1>4. /\ progress' = [therm |-> Thermalization, sweeps |-> b + 1,
                      counter |-> IF c + 1 = parsmc.saveInterval THEN 0 ELSE c + 1]
      /\ pc' = IF c + 1 = parsmc.saveInterval THEN "saveResults" ELSE "endSweep"
  <2>1. PICK r \in Nat : r = IF c + 1 = parsmc.saveInterval THEN 0 ELSE c + 1
    OBVIOUS
  <2>2. progress' = [progress EXCEPT !.sweeps = b + 1, !.counter = r]
    BY <1>1, <1>3, <2>1 DEF Sweep, SaveDue, ResetIfSaved
  <2>3. progress' = [therm |-> Thermalization, sweeps |-> b + 1, counter |-> r]
    BY <1>3, <2>2
  <2>4. pc' = IF c + 1 = parsmc.saveInterval THEN "saveResults" ELSE "endSweep"
    BY <1>1, <1>3 DEF Sweep, SaveDue, StartOfSave
  <2> QED
    BY <2>1, <2>3, <2>4
<1> QED
  BY <1>2, <1>3, <1>4 DEF MeasurementSweep

LEMMA BasicSweep ==
  ASSUME BasicInv, Sweep
  PROVE  BasicInv'
<1>1. PICK b \in Nat, c \in Nat : MeasurementSweep(b, c)
  BY SweepIs
<1> DEFINE r == IF c + 1 = parsmc.saveInterval THEN 0 ELSE c + 1
<1>2. /\ UNCHANGED <<stage, exiting, parsmc, storage, stateFile, seriesFile, resultsFile, past>>
      /\ stage = "M" /\ pc = "sweep" /\ (Saved' <=> Saved)
      /\ Checked(parsmc) /\ parsmc.saveInterval % 2 = 0 /\ parsmc \in Parameters
  BY DEF Sweep, Saved, BasicInv, StageInv, TypesInv, Checked
<1>3. handler' \in Handlers
  <2>1. handler \in Handlers /\ progress.sweeps \in Nat
    BY <1>1 DEF BasicInv, TypesInv, MeasurementSweep
  <2> QED
    BY <2>1, InsertType DEF Sweep
<1>4. streamFile' \in Seq(Nat)
  <2>1. streamFile \in Seq(Nat) /\ progress.sweeps \in Nat
    BY <1>1 DEF BasicInv, TypesInv, MeasurementSweep
  <2>2. Append(streamFile, progress.sweeps) \in Seq(Nat)
    BY <2>1
  <2> QED
    BY <2>1, <2>2 DEF Sweep
<1>5. r \in Nat /\ progress' = [therm |-> Thermalization, sweeps |-> b + 1, counter |-> r]
  BY <1>1 DEF MeasurementSweep
<1>6. TypesInv'
  BY <1>1, <1>2, <1>3, <1>4, <1>5, ParametersAssumption
     DEF BasicInv, TypesInv, Progress, MeasurementSweep, past
<1>7. Sound(parsmc, progress)'
  <2>1. (Thermalization + b + c) % 2 = 0 /\ Thermalization + b \in Nat
    BY <1>1, ParametersAssumption DEF MeasurementSweep
  <2>2. /\ (Thermalization + b + 1 + c + 1) % 2 = 0
        /\ (c + 1) % 2 = 0 => (Thermalization + b + 1) % 2 = 0
    BY <2>1, CounterParity
  <2>3. /\ (Thermalization + (b + 1) + r) % 2 = 0
        /\ r <= Thermalization + (b + 1) /\ b + 1 <= parsmc.sweeps
    BY <1>1, <1>2, <2>1, <2>2, ParametersAssumption DEF MeasurementSweep, Parameters
  <2> HIDE DEF r
  <2> QED
    BY <1>1, <1>2, <1>5, <2>3, ParametersAssumption DEF Sound
<1>8. StageInv'
  BY <1>1, <1>2, <1>7 DEF BasicInv, StageInv, Sound, Checked, Saving, MeasurementSweep
<1> QED
  BY <1>6, <1>8 DEF BasicInv

LEMMA BasicEndSweep ==
  ASSUME BasicInv, EndSweep
  PROVE  BasicInv'
<1> USE DEF disk, past
<1>1. PICK a \in Nat, b \in Nat, c \in Nat :
        /\ progress = [therm |-> a, sweeps |-> b, counter |-> c]
        /\ Sound(parsmc, progress)
  BY DEF BasicInv, TypesInv, StageInv, Progress
<1>2. PICK next \in {"T", "M", "F"}, r \in Nat :
        /\ next = IF stage = "T" /\ a = Thermalization THEN "M"
                  ELSE IF stage = "M" /\ b = parsmc.sweeps THEN "F" ELSE stage
        /\ r = IF next # stage THEN 0 ELSE c
        /\ stage' = next /\ pc' = LoopTop(next, r)
        /\ progress' = [therm |-> a, sweeps |-> b, counter |-> r]
  <2>1. PICK next : next = IF stage = "T" /\ a = Thermalization THEN "M"
                           ELSE IF stage = "M" /\ b = parsmc.sweeps THEN "F" ELSE stage
    OBVIOUS
  <2>2. next \in {"T", "M", "F"}
    BY <2>1 DEF BasicInv, TypesInv
  <2>3. PICK r \in Nat : r = IF next # stage THEN 0 ELSE c
    OBVIOUS
  <2>4. CounterIn(next) = r
    BY <1>1, <2>3 DEF CounterIn
  <2>5. progress.therm = a /\ progress.sweeps = b
    BY <1>1
  <2>6. /\ stage' = next /\ pc' = LoopTop(next, r)
        /\ progress' = [progress EXCEPT !.counter = r]
    BY <2>1, <2>4, <2>5 DEF EndSweep
  <2>7. progress' = [therm |-> a, sweeps |-> b, counter |-> r]
    BY <1>1, <2>6
  <2> QED
    BY <2>1, <2>2, <2>3, <2>6, <2>7
<1>3. /\ UNCHANGED <<exiting, parsmc, handler, storage, disk, past>>
      /\ pc = "endSweep" /\ (Saved' <=> Saved) /\ stage \in {"T", "M", "F"} /\ stage # "F"
      /\ Checked(parsmc) /\ parsmc.sweeps % 2 = 0 /\ parsmc \in Parameters
  BY DEF EndSweep, Saved, BasicInv, StageInv, TypesInv, Checked
<1>4. pc' \in {"finished", "top", "sweep"} /\ (pc' = "finished" <=> next = "F")
      /\ (pc' = "top" => r % 2 = 0)
  BY <1>2 DEF LoopTop
<1>5. TypesInv'
  BY <1>2, <1>3, <1>4 DEF BasicInv, TypesInv, Progress
<1>6. /\ a <= Thermalization /\ b <= parsmc.sweeps /\ (a < Thermalization => b = 0)
      /\ c <= a + b /\ (a + b + c) % 2 = 0
      /\ stage = "T" => b = 0
      /\ stage = "M" => a = Thermalization
  BY <1>1 DEF Sound, BasicInv, StageInv
<1>7. Sound(parsmc, progress)'
  <2>1. (a + b + r) % 2 = 0
    <3>1. CASE next = stage
      BY <1>2, <1>6, <3>1
    <3>2. CASE stage = "T" /\ next # stage
      BY <1>2, <1>6, <3>2, ParametersAssumption
    <3>3. CASE stage = "M" /\ next # stage
      <4>1. a = Thermalization /\ b = parsmc.sweeps /\ r = 0
        BY <1>2, <1>6, <3>3
      <4>2. b % 2 = 0 /\ a % 2 = 0
        BY <1>3, <4>1, ParametersAssumption
      <4>3. (a + b + 0) % 2 = 0
        BY <4>2, EvenSum
      <4> QED
        BY <4>1, <4>3
    <3> QED
      BY <1>3, <3>1, <3>2, <3>3
  <2>2. r <= a + b
    BY <1>2, <1>6
  <2> QED
    BY <1>2, <1>3, <1>6, <2>1, <2>2 DEF Sound
<1>8. /\ next = "T" => b = 0 /\ a < Thermalization
      /\ next = "M" => a = Thermalization /\ b < parsmc.sweeps
      /\ next = "F" => a = Thermalization /\ b = parsmc.sweeps
  <2>1. parsmc.sweeps \in Nat \ {0}
    BY <1>3, ParametersAssumption DEF Checked, Parameters
  <2> QED
    BY <1>2, <1>3, <1>6, <2>1, ParametersAssumption
<1>9. StageInv'
  BY <1>2, <1>3, <1>4, <1>7, <1>8 DEF BasicInv, StageInv, Sound, Checked, Saving
<1> QED
  BY <1>5, <1>9 DEF BasicInv

LEMMA SeriesType ==
  ASSUME BasicInv
  PROVE  SeriesBefore \o handler.timeseriesBuffer \in Seq(Nat)
<1>1. SeriesBefore \in Seq(Nat) /\ handler.timeseriesBuffer \in Seq(Nat)
  <2>1. <<>> \in Seq(Nat)
    OBVIOUS
  <2> QED
    BY <2>1 DEF SeriesBefore, BasicInv, TypesInv, Handlers
<1> QED
  BY <1>1

LEMMA WrittenHandlerIs ==
  ASSUME handler \in Handlers
  PROVE  WrittenHandler = [lastSweepLogged |-> handler.lastSweepLogged, total |-> handler.total,
                           jkBlockValues |-> handler.jkBlockValues,
                           timeseriesBuffer |-> <<>>, storageFileStarted |-> TRUE]
<1>1. PICK x, y, z, u, v : handler = [lastSweepLogged |-> x, total |-> y, jkBlockValues |-> z,
                                      timeseriesBuffer |-> u, storageFileStarted |-> v]
  BY DEF Handlers
<1>2. PICK e : e = <<>>
  OBVIOUS
<1>3. WrittenHandler = [handler EXCEPT !.storageFileStarted = TRUE, !.timeseriesBuffer = e]
  BY <1>2 DEF WrittenHandler
<1>4. WrittenHandler = [lastSweepLogged |-> x, total |-> y, jkBlockValues |-> z,
                        timeseriesBuffer |-> e, storageFileStarted |-> TRUE]
  BY <1>1, <1>3
<1>5. handler.lastSweepLogged = x /\ handler.total = y /\ handler.jkBlockValues = z
  BY <1>1
<1> QED
  BY <1>2, <1>4, <1>5

LEMMA BasicSaveResults ==
  ASSUME BasicInv, SaveResults
  PROVE  BasicInv'
<1> USE DEF past
<1>1. /\ pc = "saveResults" /\ pc' = "saveState"
      /\ UNCHANGED <<stage, exiting, parsmc, progress, stateFile, streamFile, past>>
      /\ (Saved' <=> Saved) /\ storage' = TRUE
  BY DEF SaveResults, Saved
<1>2. handler' \in Handlers
  <2>1. handler \in Handlers /\ <<>> \in Seq(Nat)
    BY DEF BasicInv, TypesInv
  <2>2. handler' = [lastSweepLogged |-> handler.lastSweepLogged, total |-> handler.total,
                    jkBlockValues |-> handler.jkBlockValues,
                    timeseriesBuffer |-> <<>>, storageFileStarted |-> TRUE]
    BY <2>1, WrittenHandlerIs DEF SaveResults
  <2> QED
    BY <2>1, <2>2 DEF Handlers
<1>3. seriesFile' \in Seq(Nat)
  BY SeriesType DEF SaveResults
<1>4. TypesInv'
  BY <1>1, <1>2, <1>3 DEF BasicInv, TypesInv
<1>5. StageInv'
  BY <1>1 DEF BasicInv, StageInv, Sound, Checked, Saving
<1> QED
  BY <1>4, <1>5 DEF BasicInv

LEMMA BasicOpen ==
  ASSUME BasicInv, OpenStateFile
  PROVE  BasicInv'
<1>1. /\ pc = "saveState" /\ pc' = "writeState" /\ ~Saved'
      /\ UNCHANGED <<stage, exiting, parsmc, progress, handler, storage,
                     seriesFile, streamFile, past>>
  BY DEF OpenStateFile, Saved
<1>2. TypesInv'
  BY <1>1 DEF BasicInv, TypesInv, past
<1>3. StageInv'
  BY <1>1 DEF BasicInv, StageInv, Sound, Checked, Saving
<1> QED
  BY <1>2, <1>3 DEF BasicInv

(* What a written state file holds *)
LEMMA WrittenState ==
  ASSUME BasicInv, WriteStateFile
  PROVE  /\ stateFile' = [parsmc |-> parsmc, progress |-> progress, handler |-> handler]
         /\ stateFile' \in StateFiles
         /\ Sound(stateFile'.parsmc, stateFile'.progress)
         /\ stateFile'.progress.counter % 2 = 0
<1>1. stateFile' = [parsmc |-> parsmc, progress |-> progress, handler |-> handler]
  BY DEF WriteStateFile
<1>2. parsmc \in Parameters /\ progress \in Progress /\ handler \in Handlers
  BY DEF BasicInv, TypesInv
<1>3. stateFile' \in StateFiles
  BY <1>1, <1>2, StateFilesAre
<1>4. Sound(parsmc, progress) /\ progress.counter % 2 = 0
  BY DEF BasicInv, StageInv, WriteStateFile, Saving
<1>5. stateFile'.parsmc = parsmc /\ stateFile'.progress = progress
  BY <1>1
<1> QED
  BY <1>1, <1>3, <1>4, <1>5

LEMMA BasicWrite ==
  ASSUME BasicInv, WriteStateFile
  PROVE  BasicInv'
<1>1. /\ stateFile' \in StateFiles /\ Sound(stateFile'.parsmc, stateFile'.progress)
      /\ stateFile'.progress.counter % 2 = 0
  BY WrittenState
<1>2. pc = "writeState" /\ UNCHANGED <<seriesFile, streamFile, past>>
  BY DEF WriteStateFile
<1>3. seriesFile' \in Seq(Nat) /\ streamFile' \in Seq(Nat) /\ wasKilled' \in BOOLEAN
      /\ UNCHANGED <<sessions, wasRetimed, wasMisaligned>>
  BY <1>2 DEF BasicInv, TypesInv, past
<1>4. CASE exiting
  BY <1>1, <1>3, <1>4, BasicEnd DEF WriteStateFile
<1>5. CASE ~exiting
  <2>1. pc' = "endSweep" /\ UNCHANGED <<stage, exiting, parsmc, progress, handler, storage>>
    BY <1>5 DEF WriteStateFile
  <2>2. TypesInv'
    BY <1>1, <1>2, <2>1 DEF BasicInv, TypesInv, past
  <2>3. (Saved => /\ Sound(stateFile.parsmc, stateFile.progress)
                  /\ stateFile.progress.counter % 2 = 0)'
    BY <1>1 DEF Sound
  <2>4. Sound(parsmc, progress)'
    BY <2>1 DEF BasicInv, StageInv, Sound
  <2>5. StageInv'
    BY <1>2, <2>1, <2>3, <2>4 DEF BasicInv, StageInv, Checked, Saving
  <2> QED
    BY <2>2, <2>5 DEF BasicInv
<1> QED
  BY <1>4, <1>5

LEMMA BasicOver ==
  ASSUME BasicInv, Finish \/ Killed
  PROVE  BasicInv'
<1>1. /\ EndSession /\ UNCHANGED <<disk, sessions, wasRetimed, wasMisaligned>> /\ wasKilled' \in BOOLEAN
  BY DEF Finish, Killed, past, BasicInv, TypesInv
<1>2. seriesFile' \in Seq(Nat) /\ streamFile' \in Seq(Nat)
  BY <1>1 DEF disk, BasicInv, TypesInv
<1>3. Saved' => /\ stateFile' \in StateFiles
                /\ Sound(stateFile'.parsmc, stateFile'.progress)
                /\ stateFile'.progress.counter % 2 = 0
  BY <1>1 DEF disk, Saved, Sound, BasicInv, TypesInv, StageInv
<1> QED
  BY <1>1, <1>2, <1>3, BasicEnd

LEMMA BasicNext == BasicInv /\ [Next]_vars => BasicInv'
<1> SUFFICES ASSUME BasicInv, [Next]_vars PROVE BasicInv'
  OBVIOUS
<1>1. ASSUME NEW sweeps \in TargetSweeps, NEW saveInterval \in SaveIntervals,
             Start(sweeps, saveInterval)
      PROVE  BasicInv'
  BY <1>1, BasicStart
<1>2. ASSUME NEW stop \in BOOLEAN, CheckStop(stop) PROVE BasicInv'
  BY <1>2, BasicStop
<1>3. CASE SweepThermalization \/ Sweep \/ EndSweep
  BY <1>3, BasicThermalization, BasicSweep, BasicEndSweep
<1>4. CASE SaveResults \/ OpenStateFile \/ WriteStateFile
  BY <1>4, BasicSaveResults, BasicOpen, BasicWrite
<1>5. CASE Finish \/ Killed
  BY <1>5, BasicOver
<1>6. CASE UNCHANGED vars
  BY <1>6 DEF vars, memory, disk, past, BasicInv, TypesInv, StageInv, Saved, Sound, Checked, Saving
<1> QED
  BY <1>1, <1>2, <1>3, <1>4, <1>5, <1>6 DEF Next, Rest

LEMMA BasicAlways == Spec => []BasicInv
BY BasicInit, BasicNext, PTL DEF Spec

(* All variables of the serial driver stay in their ranges and its         *)
(* counters below the targets its loop compares them to.                   *)
THEOREM SerialTypeCorrect == Spec => []TypeOK
<1>1. BasicInv => TypeOK
  <2> SUFFICES ASSUME BasicInv PROVE TypeOK
    OBVIOUS
  <2>1. [parsmc |-> parsmc, progress |-> progress, handler |-> handler] \in StateFiles
    BY StateFilesAre DEF BasicInv, TypesInv
  <2>2. /\ progress.therm <= Thermalization /\ progress.sweeps <= parsmc.sweeps
        /\ progress.counter <= progress.therm + progress.sweeps
        /\ progress \in Progress /\ parsmc.sweeps \in Nat
    BY DEF BasicInv, TypesInv, StageInv, Sound, Parameters
  <2>3. progress.counter <= parsmc.sweeps + Thermalization
    BY <2>2, ParametersAssumption DEF Progress
  <2> QED
    BY <2>1, <2>2, <2>3 DEF BasicInv, TypesInv, TypeOK
<1> QED
  BY <1>1, BasicAlways, PTL

(* A state file always holds an even number of sweeps.                     *)
THEOREM SavesAreEven == Spec => []EvenSweepsSaved
<1>1. BasicInv => EvenSweepsSaved
  <2> SUFFICES ASSUME BasicInv, Saved
               PROVE  (stateFile.progress.therm + stateFile.progress.sweeps) % 2 = 0
    BY DEF EvenSweepsSaved
  <2>1. stateFile.progress \in Progress
    BY StateFilesAre DEF BasicInv, TypesInv
  <2>2. PICK a \in Nat, b \in Nat, c \in Nat : stateFile.progress = [therm |-> a, sweeps |-> b, counter |-> c]
    BY <2>1 DEF Progress
  <2>3. (a + b + c) % 2 = 0 /\ c % 2 = 0
    BY <2>2 DEF BasicInv, StageInv, Sound
  <2>4. (a + b) % 2 = 0
    BY <2>3
  <2> QED
    BY <2>2, <2>4
<1> QED
  BY <1>1, BasicAlways, PTL

-----------------------------------------------------------------------------
(* What the steps do, for the invariants below                             *)

LEMMA StartIs ==
  ASSUME BasicInv, NEW sweeps \in TargetSweeps, NEW saveInterval \in SaveIntervals,
         Start(sweeps, saveInterval)
  PROVE  /\ pc = "off" /\ pc' \in {"top", "finished"} /\ Checked(parsmc') /\ storage' = FALSE
         /\ pc' = "finished" <=> stage' = "F"
         /\ UNCHANGED <<stateFile, seriesFile, streamFile, resultsFile, wasKilled>>
         /\ sessions' = sessions + 1
         /\ ~wasMisaligned' =>
              ~wasMisaligned /\ parsmc'.saveInterval % MeasureInterval = 0
         /\ \/ /\ stateFile = NoFile /\ progress' = FreshProgress /\ handler' = FreshHandler
               /\ parsmc'.saveInterval \in {sweeps, saveInterval} /\ parsmc'.sweeps = sweeps
               /\ wasRetimed' = wasRetimed
            \/ /\ Saved /\ progress' = stateFile.progress /\ handler' = stateFile.handler
               /\ parsmc'.saveInterval \in {saveInterval, stateFile.parsmc.saveInterval}
               /\ ~wasRetimed' => /\ ~wasRetimed
                                  /\ parsmc'.saveInterval = stateFile.parsmc.saveInterval
<1> USE DEF disk
<1>1. CASE StartFresh(sweeps, saveInterval)
  <2>1. LoopTop(FirstStage(parsmc', FreshProgress), FreshProgress.counter) \in {"top", "finished"}
        /\ (LoopTop(FirstStage(parsmc', FreshProgress), FreshProgress.counter) = "finished"
              <=> FirstStage(parsmc', FreshProgress) = "F")
    BY DEF LoopTop, FreshProgress
  <2> QED
    BY <1>1, <2>1 DEF StartFresh, EnterRun
<1>2. CASE Resume(sweeps, saveInterval)
  <2>1. Saved /\ stateFile.progress.counter % 2 = 0
    BY <1>2 DEF Resume, Saved, BasicInv, StageInv
  <2>2. LoopTop(FirstStage(parsmc', stateFile.progress), stateFile.progress.counter)
          \in {"top", "finished"}
        /\ (LoopTop(FirstStage(parsmc', stateFile.progress), stateFile.progress.counter) = "finished"
              <=> FirstStage(parsmc', stateFile.progress) = "F")
    BY <2>1 DEF LoopTop
  <2>3. parsmc' = ResumedParameters(stateFile.parsmc, sweeps, saveInterval)
    BY <1>2 DEF Resume, EnterRun
  <2>4. parsmc'.saveInterval =
          IF saveInterval # Unspecified THEN saveInterval ELSE stateFile.parsmc.saveInterval
    BY <2>3 DEF ResumedParameters
  <2>5. wasRetimed' = (wasRetimed \/ saveInterval \notin {Unspecified, stateFile.parsmc.saveInterval})
    BY <1>2 DEF Resume
  <2>6. ~wasRetimed' => ~wasRetimed /\ parsmc'.saveInterval = stateFile.parsmc.saveInterval
    BY <2>4, <2>5
  <2> QED
    BY <1>2, <2>1, <2>2, <2>4, <2>6 DEF Resume, EnterRun, LoadedHandler
<1> QED
  BY <1>1, <1>2 DEF Start

LEMMA ThermalizationIs ==
  ASSUME BasicInv, SweepThermalization
  PROVE  /\ pc = "sweep" /\ stage = "T" /\ stage' = "T" /\ pc' \in {"saveState", "endSweep"}
         /\ progress.sweeps = 0 /\ progress'.sweeps = 0 /\ progress.therm < Thermalization
         /\ pc' = "saveState" => progress'.counter = 0
         /\ UNCHANGED <<parsmc, handler, storage, stateFile, seriesFile, streamFile, resultsFile,
                        sessions, wasKilled, wasRetimed,
                        wasMisaligned>>
<1>1. progress \in Progress /\ progress.sweeps = 0 /\ progress.therm < Thermalization /\ stage = "T"
      /\ pc = "sweep"
  BY DEF SweepThermalization, BasicInv, TypesInv, StageInv
<1>2. PICK a \in Nat, c \in Nat : progress = [therm |-> a, sweeps |-> 0, counter |-> c]
  BY <1>1 DEF Progress
<1>3. PICK r \in Nat : r = IF c + 1 = parsmc.saveInterval THEN 0 ELSE c + 1
  OBVIOUS
<1>4. progress' = [progress EXCEPT !.therm = a + 1, !.counter = r]
  BY <1>2, <1>3 DEF SweepThermalization, SaveDue, ResetIfSaved
<1>5. progress' = [therm |-> a + 1, sweeps |-> 0, counter |-> r]
  BY <1>2, <1>4
<1>6. pc' = IF c + 1 = parsmc.saveInterval THEN "saveState" ELSE "endSweep"
  BY <1>1, <1>2 DEF SweepThermalization, SaveDue, StartOfSave
<1>7. pc' = "saveState" => r = 0
  BY <1>3, <1>6
<1>8. /\ stage' = "T"
      /\ UNCHANGED <<parsmc, handler, storage, stateFile, seriesFile, streamFile, resultsFile,
                     sessions, wasKilled, wasRetimed,
                        wasMisaligned>>
  BY <1>1 DEF SweepThermalization, disk, past
<1>9. progress'.sweeps = 0 /\ progress'.counter = r
  BY <1>5
<1> QED
  BY <1>1, <1>6, <1>7, <1>8, <1>9

LEMMA EndSweepIs ==
  ASSUME BasicInv, EndSweep
  PROVE  /\ pc = "endSweep" /\ pc' \in {"top", "sweep", "finished"} /\ stage' \in {"T", "M", "F"}
         /\ pc' = "finished" <=> stage' = "F"
         /\ progress'.sweeps = progress.sweeps /\ progress'.therm = progress.therm
         /\ \/ stage = "T" /\ stage' = "T"
            \/ stage = "T" /\ stage' = "M" /\ progress'.sweeps = 0 /\ progress'.counter = 0
            \/ stage = "M" /\ stage' = "M" /\ progress'.counter = progress.counter
            \/ stage = "M" /\ stage' = "F" /\ progress.sweeps = parsmc.sweeps
         /\ UNCHANGED <<parsmc, handler, storage, stateFile, seriesFile, streamFile, resultsFile,
                        sessions, wasKilled, wasRetimed,
                        wasMisaligned>>
<1>1. /\ progress \in Progress /\ stage \in {"T", "M"}
      /\ stage = "T" => progress.sweeps = 0
  BY DEF EndSweep, BasicInv, TypesInv, StageInv
<1>2. PICK next : next = IF stage = "T" /\ progress.therm = Thermalization THEN "M"
                         ELSE IF stage = "M" /\ progress.sweeps = parsmc.sweeps THEN "F" ELSE stage
  OBVIOUS
<1>3. PICK r \in Nat : r = CounterIn(next)
  BY <1>1 DEF CounterIn, Progress
<1>4. stage' = next /\ progress' = [progress EXCEPT !.counter = r] /\ pc' = LoopTop(next, r)
  BY <1>2, <1>3 DEF EndSweep
<1>5. progress'.sweeps = progress.sweeps /\ progress'.therm = progress.therm /\ progress'.counter = r
  BY <1>1, <1>4 DEF Progress
<1>6. r = IF next # stage THEN 0 ELSE progress.counter
  BY <1>3 DEF CounterIn
<1>7. pc' \in {"top", "sweep", "finished"} /\ (pc' = "finished" <=> stage' = "F")
  BY <1>4 DEF LoopTop
<1> QED
  BY <1>1, <1>2, <1>4, <1>5, <1>6, <1>7 DEF EndSweep, disk, past

(* The steps that leave the progress of a running session alone            *)
LEMMA SavingIs ==
  ASSUME BasicInv
  PROVE  /\ SaveResults =>
              /\ pc = "saveResults" /\ pc' = "saveState" /\ storage' = TRUE
              /\ handler'.total = handler.total /\ handler'.timeseriesBuffer = <<>>
              /\ handler'.storageFileStarted = TRUE
              /\ UNCHANGED <<stage, parsmc, progress, stateFile, streamFile,
                             sessions, wasKilled, wasRetimed,
                        wasMisaligned>>
         /\ OpenStateFile =>
              /\ pc = "saveState" /\ pc' = "writeState" /\ stateFile' = Torn
              /\ UNCHANGED <<stage, parsmc, progress, handler, storage, seriesFile, streamFile,
                             resultsFile, sessions, wasKilled, wasRetimed,
                        wasMisaligned>>
         /\ WriteStateFile =>
              /\ pc = "writeState"
              /\ stateFile'.parsmc = parsmc /\ stateFile'.progress = progress
              /\ stateFile'.handler = handler
              /\ UNCHANGED <<seriesFile, streamFile, resultsFile, sessions, wasKilled, wasRetimed,
                        wasMisaligned>>
              /\ \/ EndSession
                 \/ /\ pc' = "endSweep"
                    /\ UNCHANGED <<stage, parsmc, progress, handler, storage>>
<1>1. ASSUME SaveResults
      PROVE  /\ handler'.total = handler.total /\ handler'.timeseriesBuffer = <<>>
             /\ handler'.storageFileStarted = TRUE
  <2>1. handler' = [lastSweepLogged |-> handler.lastSweepLogged, total |-> handler.total,
                    jkBlockValues |-> handler.jkBlockValues,
                    timeseriesBuffer |-> <<>>, storageFileStarted |-> TRUE]
    BY <1>1, WrittenHandlerIs DEF SaveResults, BasicInv, TypesInv
  <2> QED
    BY <2>1
<1>2. ASSUME WriteStateFile
      PROVE  /\ stateFile'.parsmc = parsmc /\ stateFile'.progress = progress
             /\ stateFile'.handler = handler
  BY <1>2, WrittenState
<1> QED
  BY <1>1, <1>2 DEF SaveResults, OpenStateFile, WriteStateFile, past

LEMMA OverIs ==
  ASSUME Finish \/ Killed
  PROVE  /\ EndSession /\ pc # "off"
         /\ UNCHANGED <<stateFile, seriesFile, streamFile, resultsFile, sessions, wasRetimed,
                      wasMisaligned>>
         /\ \/ pc = "finished" /\ wasKilled' = wasKilled
            \/ wasKilled' = TRUE
<1>1. CASE Finish
  BY <1>1 DEF Finish, disk, past
<1>2. CASE Killed
  BY <1>2 DEF Killed, disk, past
<1> QED
  BY <1>1, <1>2

-----------------------------------------------------------------------------
(* What is due                                                             *)

Schedule(interval, saveInterval) == {w \in Nat : Due(w, interval, saveInterval)}
Among(due, x, n) == {w \in due : x <= w /\ w < n}

LEMMA DueBeforeIs ==
  ASSUME NEW n \in Nat, NEW interval, NEW saveInterval
  PROVE  DueBefore(n, interval, saveInterval) = Among(Schedule(interval, saveInterval), 0, n)
BY DEF DueBefore, Among, Schedule

LEMMA ListsNone ==
  ASSUME NEW s \in Seq(Nat)
  PROVE  Lists(s, {}) <=> s = <<>>
<1>1. s = <<>> <=> Len(s) = 0
  BY EmptySeq
<1>2. Len(s) \in Nat /\ (Len(s) # 0 => s[1] \in {s[i] : i \in 1..Len(s)})
  OBVIOUS
<1>3. Len(s) = 0 => {s[i] : i \in 1..Len(s)} = {}
  OBVIOUS
<1> QED
  BY <1>1, <1>2, <1>3 DEF Lists

(* A list goes on with the sweep that follows, if that is due.             *)
LEMMA ListsMore ==
  ASSUME NEW s \in Seq(Nat), NEW due \in SUBSET Nat, NEW x \in Nat, NEW b \in Nat, x <= b,
         Lists(s, Among(due, x, b))
  PROVE  /\ b \in due => Lists(Append(s, b), Among(due, x, b + 1))
         /\ b \notin due => Lists(s, Among(due, x, b + 1))
<1>1. PICK n \in Nat : n = Len(s)
  OBVIOUS
<1>2. PICK t \in Seq(Nat) : /\ t = Append(s, b) /\ Len(t) = n + 1 /\ t[n + 1] = b
                            /\ \A i \in 1..n : t[i] = s[i]
  <2>1. /\ Append(s, b) \in Seq(Nat) /\ Len(Append(s, b)) = Len(s) + 1
        /\ Append(s, b)[Len(s) + 1] = b
        /\ \A i \in 1..Len(s) : Append(s, b)[i] = s[i]
    BY AppendProperties
  <2>2. Len(Append(s, b)) = n + 1 /\ Append(s, b)[n + 1] = b
        /\ \A i \in 1..n : Append(s, b)[i] = s[i]
    BY <1>1, <2>1
  <2> QED
    BY <2>1, <2>2
<1>3. /\ {s[i] : i \in 1..n} = Among(due, x, b)
      /\ \A i, j \in 1..n : i < j => s[i] < s[j]
  BY <1>1 DEF Lists
<1>4. \A i \in 1..n : s[i] \in Nat /\ s[i] < b
  <2> TAKE i \in 1..n
  <2>1. s[i] \in {s[h] : h \in 1..n}
    OBVIOUS
  <2>2. s[i] \in Among(due, x, b)
    BY <1>3, <2>1
  <2> QED
    BY <2>2 DEF Among
<1>5. \A i, j \in 1..(n + 1) : i < j => t[i] < t[j]
  <2> SUFFICES ASSUME NEW i \in 1..(n + 1), NEW j \in 1..(n + 1), i < j PROVE t[i] < t[j]
    OBVIOUS
  <2>1. i \in 1..n /\ t[i] = s[i]
    BY <1>2
  <2>2. CASE j = n + 1
    BY <1>2, <1>4, <2>1, <2>2
  <2>3. CASE j # n + 1
    <3>1. j \in 1..n
      BY <2>3
    <3> QED
      BY <1>2, <1>3, <2>1, <3>1
  <2> QED
    BY <2>2, <2>3
<1>6. {t[i] : i \in 1..(n + 1)} = {s[i] : i \in 1..n} \cup {b}
  <2>1. 1..(n + 1) = (1..n) \cup {n + 1}
    OBVIOUS
  <2> QED
    BY <1>2, <2>1
<1>a. \A w \in due : x <= w /\ w < b + 1 <=> (x <= w /\ w < b) \/ w = b
  <2> TAKE w \in due
  <2>1. w \in Nat
    OBVIOUS
  <2> QED
    BY <2>1
<1>7. b \in due => Among(due, x, b + 1) = Among(due, x, b) \cup {b}
  BY <1>a DEF Among
<1>8. b \notin due => Among(due, x, b + 1) = Among(due, x, b)
  BY <1>a DEF Among
<1>9. b \in due => Lists(t, Among(due, x, b + 1))
  BY <1>2, <1>3, <1>5, <1>6, <1>7 DEF Lists
<1> QED
  BY <1>2, <1>8, <1>9

LEMMA AlignedDue ==
  ASSUME NEW w \in Nat, NEW S \in Nat \ {0}, NEW k \in Nat \ {0}, S % k = 0
  PROVE  ((w % S) + 1) % k = 0 <=> (w + 1) % k = 0
<1>0. w \in Int /\ S \in Int
  OBVIOUS
<1>a. \E q \in Int : w = S * q + (w % S) /\ w % S \in 0..(S - 1)
  BY <1>0, Quotient
<1>b. \E a \in Int : S = k * a + (S % k) /\ S % k \in 0..(k - 1)
  BY <1>0, Quotient
<1>c. PICK a \in Int : S = k * a
  <2>1. PICK a \in Int : S = k * a + (S % k)
    BY <1>b
  <2>2. S = k * a + 0
    BY <2>1
  <2>3. S = k * a
    BY <2>2
  <2> QED
    BY <2>3
<1>1. PICK q \in Int, r \in 0..(S - 1) : r = w % S /\ w = S * q + r
  BY <1>a
<1>d. r \in Int
  OBVIOUS
<1>e. \E t \in Int : r = k * t + (r % k) /\ r % k \in 0..(k - 1)
  BY <1>d, Quotient
<1>2. PICK t \in Int, u \in 0..(k - 1) : r = k * t + u /\ u = r % k
  BY <1>e
<1>3. PICK c \in Int : c = a * q
  OBVIOUS
<1>4. S * q = k * c
  BY <1>c, <1>3
<1>5. w = k * (c + t) + u
  <2>1. w = k * c + (k * t + u)
    BY <1>1, <1>2, <1>4
  <2>2. k * c + (k * t + u) = k * (c + t) + u
    OBVIOUS
  <2> QED
    BY <2>1, <2>2
<1>6. w % k = r % k
  <2>1. c + t \in Int /\ w \in Int
    OBVIOUS
  <2>2. w % k = u
    BY <1>5, <2>1, RemainderIs
  <2> QED
    BY <1>2, <2>2
<1>7. r \in Nat
  OBVIOUS
<1>8. (r + 1) % k = (w + 1) % k
  BY <1>6, <1>7, InStepModulo
<1> QED
  BY <1>1, <1>8

(* Intervals between saves that are multiples of measureInterval all have  *)
(* the same measurements.                                                  *)
LEMMA SameSchedule ==
  ASSUME NEW S \in Nat \ {0}, NEW R \in Nat \ {0},
         S = R \/ (S % MeasureInterval = 0 /\ R % MeasureInterval = 0)
  PROVE  Schedule(MeasureInterval, S) = Schedule(MeasureInterval, R)
<1>1. CASE S = R
  BY <1>1
<1>2. CASE S % MeasureInterval = 0 /\ R % MeasureInterval = 0
  <2>1. PICK k \in Nat \ {0} : k = MeasureInterval
    BY ParametersAssumption
  <2>2. \A w \in Nat : /\ ((w % S) + 1) % k = 0 <=> (w + 1) % k = 0
                       /\ ((w % R) + 1) % k = 0 <=> (w + 1) % k = 0
    BY <1>2, <2>1, AlignedDue
  <2> QED
    BY <2>1, <2>2 DEF Schedule, Due
<1> QED
  BY <1>1, <1>2

-----------------------------------------------------------------------------
(* swCounter counts the sweeps since the last save, or since the stage     *)
(* began; it is a multiple of measureInterval sweeps old when the number   *)
(* of measurement sweeps is, if that divides all intervals between saves.  *)

Counting == stage = "M" \/ (pc \in Saving /\ progress.therm = Thermalization)

CounterInv ==
  /\ Saved => stateFile.parsmc.saveInterval # 0
  /\ ~wasMisaligned =>
       /\ pc # "off" => parsmc.saveInterval % MeasureInterval = 0
       /\ Counting => progress.counter % MeasureInterval = progress.sweeps % MeasureInterval
       /\ Saved => /\ stateFile.parsmc.saveInterval % MeasureInterval = 0
                   /\ stateFile.progress.therm = Thermalization =>
                        stateFile.progress.counter % MeasureInterval
                          = stateFile.progress.sweeps % MeasureInterval

LEMMA NoRemainder ==
  ASSUME NEW k \in Nat \ {0}
  PROVE  0 % k = 0
<1>1. 0 = k * 0 + 0 /\ 0 \in 0..(k - 1) /\ 0 \in Int
  OBVIOUS
<1> QED
  BY <1>1, Division, DivisionUnique

LEMMA CounterStart ==
  ASSUME BasicInv, BasicInv', CounterInv,
         NEW sweeps \in TargetSweeps, NEW saveInterval \in SaveIntervals,
         Start(sweeps, saveInterval)
  PROVE  CounterInv'
<1>1. /\ pc = "off" /\ pc' \in {"top", "finished"}
      /\ stateFile' = stateFile /\ (Saved' <=> Saved)
      /\ ~wasMisaligned' => ~wasMisaligned /\ parsmc'.saveInterval % MeasureInterval = 0
      /\ \/ progress' = FreshProgress
         \/ Saved /\ progress' = stateFile.progress
  BY StartIs DEF Saved
<1>2. Counting' => progress'.therm = Thermalization
  BY <1>1 DEF Counting, Saving, BasicInv, StageInv
<1>3. Counting' /\ ~wasMisaligned' =>
        progress'.counter % MeasureInterval = progress'.sweeps % MeasureInterval
  <2>1. CASE progress' = FreshProgress
    BY <2>1 DEF FreshProgress
  <2>2. CASE Saved /\ progress' = stateFile.progress
    BY <1>1, <1>2, <2>2 DEF CounterInv
  <2> QED
    BY <1>1, <2>1, <2>2
<1> QED
  BY <1>1, <1>3 DEF CounterInv

LEMMA CounterSweep ==
  ASSUME BasicInv, CounterInv, Sweep
  PROVE  CounterInv'
<1>1. PICK b \in Nat, c \in Nat : MeasurementSweep(b, c)
  BY SweepIs
<1>2. /\ stage = "M" /\ pc = "sweep" /\ parsmc' = parsmc /\ stateFile' = stateFile
      /\ wasMisaligned' = wasMisaligned
  BY DEF Sweep, past
<1>3. PICK k \in Nat \ {0} : k = MeasureInterval
  BY ParametersAssumption
<1>4. PICK r \in Nat : r = IF c + 1 = parsmc.saveInterval THEN 0 ELSE c + 1
  OBVIOUS
<1>5. ASSUME ~wasMisaligned PROVE r % k = (b + 1) % k
  <2>1. c % k = b % k /\ parsmc.saveInterval % k = 0
    BY <1>1, <1>2, <1>3, <1>5 DEF CounterInv, Counting, MeasurementSweep
  <2>2. (c + 1) % k = (b + 1) % k
    BY <2>1, InStepModulo
  <2>3. 0 % k = 0
    BY NoRemainder
  <2>4. CASE c + 1 = parsmc.saveInterval
    BY <1>4, <2>1, <2>2, <2>3, <2>4
  <2>5. CASE c + 1 # parsmc.saveInterval
    BY <1>4, <2>2, <2>5
  <2> QED
    BY <2>4, <2>5
<1>6. progress' = [therm |-> Thermalization, sweeps |-> b + 1, counter |-> r]
      /\ pc' \in {"saveResults", "endSweep"}
  BY <1>1, <1>4 DEF MeasurementSweep
<1>7. ~wasMisaligned => progress'.counter % k = progress'.sweeps % k
  BY <1>5, <1>6
<1> QED
  BY <1>2, <1>3, <1>6, <1>7 DEF CounterInv, Saved

LEMMA CounterNext == BasicInv /\ BasicInv' /\ CounterInv /\ [Next]_vars => CounterInv'
<1> SUFFICES ASSUME BasicInv, BasicInv', CounterInv, [Next]_vars PROVE CounterInv'
  OBVIOUS
<1> USE DEF Saved
<1>1. ASSUME NEW sweeps \in TargetSweeps, NEW saveInterval \in SaveIntervals,
             Start(sweeps, saveInterval)
      PROVE  CounterInv'
  BY <1>1, CounterStart
<1>2. ASSUME NEW stop \in BOOLEAN, CheckStop(stop) PROVE CounterInv'
  <2>1. /\ pc = "top" /\ pc' \in {"saveResults", "saveState", "sweep"}
        /\ UNCHANGED <<stage, parsmc, progress, stateFile, wasMisaligned>>
    BY <1>2 DEF CheckStop, StartOfSave, disk, past
  <2>2. stage = "M" \/ progress.therm < Thermalization
    BY <2>1 DEF BasicInv, StageInv, TypesInv
  <2>3. Counting' => Counting
    BY <2>1, <2>2, ParametersAssumption DEF Counting
  <2> QED
    BY <2>1, <2>3 DEF CounterInv
<1>3. CASE SweepThermalization
  <2>1. /\ pc = "sweep" /\ stage' = "T" /\ pc' \in {"saveState", "endSweep"}
        /\ progress'.sweeps = 0 /\ (pc' = "saveState" => progress'.counter = 0)
        /\ parsmc' = parsmc /\ stateFile' = stateFile /\ wasMisaligned' = wasMisaligned
    BY <1>3, ThermalizationIs
  <2> QED
    BY <2>1 DEF CounterInv, Counting, Saving
<1>4. CASE Sweep
  BY <1>4, CounterSweep
<1>5. CASE EndSweep
  <2>1. /\ pc = "endSweep" /\ pc' \in {"top", "sweep", "finished"}
        /\ (pc' = "finished" <=> stage' = "F") /\ progress'.sweeps = progress.sweeps
        /\ parsmc' = parsmc /\ stateFile' = stateFile /\ wasMisaligned' = wasMisaligned
        /\ stage' = "M" => \/ progress'.sweeps = 0 /\ progress'.counter = 0
                           \/ stage = "M" /\ progress'.counter = progress.counter
    BY <1>5, EndSweepIs
  <2>2. Counting' /\ ~wasMisaligned =>
          progress'.counter % MeasureInterval = progress'.sweeps % MeasureInterval
    BY <2>1 DEF CounterInv, Counting, Saving
  <2> QED
    BY <2>1, <2>2 DEF CounterInv
<1>6. CASE SaveResults
  BY <1>6, SavingIs DEF CounterInv, Counting, Saving
<1>7. CASE OpenStateFile
  BY <1>7, SavingIs DEF CounterInv, Counting, Saving
<1>8. CASE WriteStateFile
  <2>1. /\ pc = "writeState" /\ stateFile'.parsmc = parsmc /\ stateFile'.progress = progress
        /\ wasMisaligned' = wasMisaligned
        /\ \/ pc' = "off" /\ stage' = "F"
           \/ pc' = "endSweep" /\ UNCHANGED <<stage, parsmc, progress>>
    BY <1>8, SavingIs DEF EndSession
  <2>2. parsmc.saveInterval # 0
    BY <2>1 DEF BasicInv, StageInv, Checked
  <2> QED
    BY <2>1, <2>2 DEF CounterInv, Counting, Saving
<1>9. CASE Finish \/ Killed
  BY <1>9, OverIs DEF CounterInv, Counting, EndSession, Saving
<1>10. CASE UNCHANGED vars
  BY <1>10 DEF vars, memory, disk, past, CounterInv, Counting
<1> QED
  BY <1>1, <1>2, <1>3, <1>4, <1>5, <1>6, <1>7, <1>8, <1>9, <1>10 DEF Next, Rest

LEMMA CounterAlways == Spec => []CounterInv
<1>1. Init => CounterInv
  BY DEF Init, Idle, CounterInv, Counting, Saving, Saved
<1> QED
  BY <1>1, CounterNext, BasicAlways, PTL DEF Spec

-----------------------------------------------------------------------------
(* Simulations that keep their saveInterval                                *)

(* Of a simulation that kept its saveInterval swCounter is the remainder   *)
(* of the sweeps, so that the last sweep of all is always saved.           *)
TimedInv ==
  ~wasRetimed =>
    /\ Counting => progress.counter = progress.sweeps % parsmc.saveInterval
    /\ Saved /\ stateFile.progress.therm = Thermalization =>
         stateFile.progress.counter = stateFile.progress.sweeps % stateFile.parsmc.saveInterval
    /\ pc # "off" /\ Saved => parsmc.saveInterval = stateFile.parsmc.saveInterval

LEMMA TimedStart ==
  ASSUME BasicInv, BasicInv', TimedInv,
         NEW sweeps \in TargetSweeps, NEW saveInterval \in SaveIntervals,
         Start(sweeps, saveInterval)
  PROVE  TimedInv'
<1> SUFFICES ASSUME ~wasRetimed' PROVE TimedInv'
  BY DEF TimedInv
<1>1. /\ pc' \in {"top", "finished"} /\ Checked(parsmc') /\ stateFile' = stateFile
      /\ (Saved' <=> Saved)
      /\ \/ progress' = FreshProgress /\ ~wasRetimed /\ ~Saved
         \/ /\ Saved /\ progress' = stateFile.progress /\ ~wasRetimed
            /\ parsmc'.saveInterval = stateFile.parsmc.saveInterval
  BY StartIs DEF Saved
<1>2. Counting' => progress'.therm = Thermalization
  BY <1>1 DEF Counting, Saving, BasicInv, StageInv
<1>3. parsmc'.saveInterval \in Nat \ {0}
  BY <1>1 DEF Checked, BasicInv, TypesInv, Parameters
<1>4. Counting' => progress'.counter = progress'.sweeps % parsmc'.saveInterval
  <2>1. CASE progress' = FreshProgress
    BY <1>3, <2>1, NoRemainder DEF FreshProgress
  <2>2. CASE Saved /\ progress' = stateFile.progress
              /\ parsmc'.saveInterval = stateFile.parsmc.saveInterval /\ ~wasRetimed
    BY <1>2, <2>2 DEF TimedInv
  <2> QED
    BY <1>1, <2>1, <2>2
<1> QED
  BY <1>1, <1>4 DEF TimedInv

LEMMA TimedSweep ==
  ASSUME BasicInv, TimedInv, Sweep
  PROVE  TimedInv'
<1>1. PICK b \in Nat, c \in Nat : MeasurementSweep(b, c)
  BY SweepIs
<1>2. /\ stage = "M" /\ pc = "sweep" /\ parsmc' = parsmc /\ stateFile' = stateFile
      /\ wasRetimed' = wasRetimed
  BY DEF Sweep, past
<1>3. PICK s \in Nat \ {0} : s = parsmc.saveInterval
  BY <1>2 DEF BasicInv, TypesInv, StageInv, Parameters, Checked
<1>4. ASSUME ~wasRetimed
      PROVE  (IF c + 1 = s THEN 0 ELSE c + 1) = (b + 1) % s
  <2>1. c = b % s
    BY <1>1, <1>2, <1>3, <1>4 DEF TimedInv, Counting, MeasurementSweep
  <2>2. /\ b % s = s - 1 => (b + 1) % s = 0
        /\ b % s # s - 1 => (b + 1) % s = (b % s) + 1
    BY <1>3, OneMore
  <2> QED
    BY <1>3, <2>1, <2>2
<1>5. /\ progress' = [therm |-> Thermalization, sweeps |-> b + 1,
                      counter |-> IF c + 1 = s THEN 0 ELSE c + 1]
      /\ pc' \in {"saveResults", "endSweep"}
  BY <1>1, <1>3 DEF MeasurementSweep
<1>6. progress'.sweeps = b + 1 /\ progress'.counter = IF c + 1 = s THEN 0 ELSE c + 1
  BY <1>5
<1>7. ~wasRetimed => progress'.counter = progress'.sweeps % s
  BY <1>4, <1>6
<1> QED
  BY <1>2, <1>3, <1>5, <1>7 DEF TimedInv, Saved

LEMMA TimedNext == BasicInv /\ BasicInv' /\ TimedInv /\ [Next]_vars => TimedInv'
<1> SUFFICES ASSUME BasicInv, BasicInv', TimedInv, [Next]_vars PROVE TimedInv'
  OBVIOUS
<1> USE DEF Saved
<1>1. ASSUME NEW sweeps \in TargetSweeps, NEW saveInterval \in SaveIntervals,
             Start(sweeps, saveInterval)
      PROVE  TimedInv'
  BY <1>1, TimedStart
<1>2. ASSUME NEW stop \in BOOLEAN, CheckStop(stop) PROVE TimedInv'
  <2>1. /\ pc = "top" /\ pc' \in {"saveResults", "saveState", "sweep"}
        /\ UNCHANGED <<stage, parsmc, progress, stateFile, wasRetimed>>
    BY <1>2 DEF CheckStop, StartOfSave, disk, past
  <2>2. stage = "M" \/ progress.therm < Thermalization
    BY <2>1 DEF BasicInv, StageInv, TypesInv
  <2>3. Counting' => Counting
    BY <2>1, <2>2, ParametersAssumption DEF Counting
  <2> QED
    BY <2>1, <2>3 DEF TimedInv
<1>e. 0 % parsmc.saveInterval = 0 \/ pc = "off"
  <2>1. pc # "off" => parsmc.saveInterval \in Nat \ {0}
    BY DEF BasicInv, TypesInv, StageInv, Parameters, Checked
  <2> QED
    BY <2>1, NoRemainder
<1>3. CASE SweepThermalization
  <2>1. /\ pc = "sweep" /\ stage' = "T" /\ pc' \in {"saveState", "endSweep"}
        /\ progress'.sweeps = 0 /\ (pc' = "saveState" => progress'.counter = 0)
        /\ parsmc' = parsmc /\ stateFile' = stateFile /\ wasRetimed' = wasRetimed
    BY <1>3, ThermalizationIs
  <2> QED
    BY <1>e, <2>1 DEF TimedInv, Counting, Saving
<1>4. CASE Sweep
  BY <1>4, TimedSweep
<1>5. CASE EndSweep
  <2>1. /\ pc = "endSweep" /\ pc' \in {"top", "sweep", "finished"}
        /\ (pc' = "finished" <=> stage' = "F") /\ progress'.sweeps = progress.sweeps
        /\ parsmc' = parsmc /\ stateFile' = stateFile /\ wasRetimed' = wasRetimed
        /\ stage' = "M" => \/ progress'.sweeps = 0 /\ progress'.counter = 0
                           \/ stage = "M" /\ progress'.counter = progress.counter
    BY <1>5, EndSweepIs
  <2>2. Counting' /\ ~wasRetimed => progress'.counter = progress'.sweeps % parsmc.saveInterval
    BY <1>e, <2>1 DEF TimedInv, Counting, Saving
  <2> QED
    BY <2>1, <2>2 DEF TimedInv
<1>6. CASE SaveResults
  BY <1>6, SavingIs DEF TimedInv, Counting, Saving
<1>7. CASE OpenStateFile
  BY <1>7, SavingIs DEF TimedInv, Counting, Saving
<1>8. CASE WriteStateFile
  <2>1. /\ pc = "writeState" /\ stateFile'.parsmc = parsmc /\ stateFile'.progress = progress
        /\ wasRetimed' = wasRetimed
        /\ \/ pc' = "off" /\ stage' = "F"
           \/ pc' = "endSweep" /\ UNCHANGED <<stage, parsmc, progress>>
    BY <1>8, SavingIs DEF EndSession
  <2> QED
    BY <2>1 DEF TimedInv, Counting, Saving
<1>9. CASE Finish \/ Killed
  BY <1>9, OverIs DEF TimedInv, Counting, EndSession, Saving
<1>10. CASE UNCHANGED vars
  BY <1>10 DEF vars, memory, disk, past, TimedInv, Counting
<1> QED
  BY <1>1, <1>2, <1>3, <1>4, <1>5, <1>6, <1>7, <1>8, <1>9, <1>10 DEF Next, Rest

LEMMA TimedAlways == Spec => []TimedInv
<1>1. Init => TimedInv
  BY DEF Init, Idle, TimedInv, Counting, Saving, Saved
<1> QED
  BY <1>1, TimedNext, BasicAlways, PTL DEF Spec

-----------------------------------------------------------------------------
(* Statistics                                                              *)

LEMMA SeriesTypes ==
  ASSUME BasicInv
  PROVE  /\ progress.sweeps \in Nat /\ seriesFile \in Seq(Nat) /\ streamFile \in Seq(Nat)
         /\ handler.timeseriesBuffer \in Seq(Nat) /\ handler.total \in Seq(Nat)
         /\ parsmc.saveInterval \in Nat
         /\ Saved => /\ stateFile.progress.sweeps \in Nat
                     /\ stateFile.handler.total \in Seq(Nat)
                     /\ stateFile.parsmc.saveInterval \in Nat
<1>1. Saved => /\ stateFile.progress \in Progress /\ stateFile.handler \in Handlers
               /\ stateFile.parsmc \in Parameters
  BY StateFilesAre DEF BasicInv, TypesInv
<1> QED
  BY <1>1 DEF BasicInv, TypesInv, Progress, Handlers, Parameters

(* The sweeps that are due for a session are those due for its state file. *)
FileSchedule ==
  Predictable /\ pc # "off" /\ Saved =>
    Schedule(MeasureInterval, parsmc.saveInterval)
      = Schedule(MeasureInterval, stateFile.parsmc.saveInterval)

LEMMA ScheduleOfFile == BasicInv /\ CounterInv /\ TimedInv => FileSchedule
<1> SUFFICES ASSUME BasicInv, CounterInv, TimedInv, Predictable, pc # "off", Saved
             PROVE  Schedule(MeasureInterval, parsmc.saveInterval)
                      = Schedule(MeasureInterval, stateFile.parsmc.saveInterval)
  BY DEF FileSchedule
<1>1. parsmc.saveInterval \in Nat \ {0} /\ stateFile.parsmc.saveInterval \in Nat \ {0}
  BY SeriesTypes DEF BasicInv, StageInv, Checked, CounterInv
<1>2. \/ parsmc.saveInterval = stateFile.parsmc.saveInterval
      \/ /\ parsmc.saveInterval % MeasureInterval = 0
         /\ stateFile.parsmc.saveInterval % MeasureInterval = 0
  BY DEF Predictable, TimedInv, CounterInv
<1>3. PICK S \in Nat \ {0}, R \in Nat \ {0} :
        S = parsmc.saveInterval /\ R = stateFile.parsmc.saveInterval
  BY <1>1
<1> QED
  BY <1>2, <1>3, SameSchedule

(* swCounter samples the sweeps that are due.                              *)
LEMMA SampledWhenDue ==
  ASSUME BasicInv, CounterInv, TimedInv, Sweep,
         NEW b \in Nat, NEW c \in Nat, MeasurementSweep(b, c)
  PROVE  /\ Predictable => ((c + 1) % MeasureInterval = 0
                              <=> b \in Schedule(MeasureInterval, parsmc.saveInterval))
         /\ ~wasRetimed => ((c + 1) % ConfigInterval = 0
                              <=> b \in Schedule(ConfigInterval, parsmc.saveInterval))
<1>1. stage = "M" /\ pc = "sweep" /\ progress.counter = c /\ progress.sweeps = b
  BY DEF Sweep, MeasurementSweep
<1>2. PICK S \in Nat \ {0} : S = parsmc.saveInterval
  BY <1>1, SeriesTypes DEF BasicInv, StageInv, Checked
<1>3. ~wasRetimed => c = b % S
  BY <1>1, <1>2 DEF TimedInv, Counting
<1>4. CASE ~wasRetimed
  BY <1>2, <1>3, <1>4 DEF Schedule, Due
<1>5. CASE wasRetimed /\ Predictable
  <2>1. PICK k \in Nat \ {0} : k = MeasureInterval
    BY ParametersAssumption
  <2>2. S % k = 0 /\ c % k = b % k
    BY <1>1, <1>2, <1>5, <2>1 DEF Predictable, CounterInv, Counting
  <2>3. (c + 1) % k = (b + 1) % k
    BY <2>2, InStepModulo
  <2>4. ((b % S) + 1) % k = 0 <=> (b + 1) % k = 0
    BY <2>2, AlignedDue
  <2> QED
    BY <1>2, <1>5, <2>1, <2>3, <2>4 DEF Schedule, Due
<1> QED
  BY <1>4, <1>5

LEMMA Inserted ==
  ASSUME BasicInv, Sweep, NEW b \in Nat, NEW c \in Nat, MeasurementSweep(b, c)
  PROVE  /\ (c + 1) % MeasureInterval = 0 =>
              /\ handler'.total = Append(handler.total, b)
              /\ handler'.timeseriesBuffer = Append(handler.timeseriesBuffer, b)
         /\ (c + 1) % MeasureInterval # 0 => handler' = handler
         /\ handler'.storageFileStarted = handler.storageFileStarted
         /\ streamFile' = IF (c + 1) % MeasureInterval = 0 /\ (c + 1) % ConfigInterval = 0
                            THEN Append(streamFile, b) ELSE streamFile
<1>1. progress.counter = c /\ progress.sweeps = b
  BY DEF MeasurementSweep
<1>2. /\ handler' = IF (c + 1) % MeasureInterval = 0 THEN InsertValue(b) ELSE handler
      /\ streamFile' = IF (c + 1) % MeasureInterval = 0 /\ (c + 1) % ConfigInterval = 0
                         THEN Append(streamFile, b) ELSE streamFile
  BY <1>1 DEF Sweep
<1>3. PICK x, y, z, u, v : handler = [lastSweepLogged |-> x, total |-> y, jkBlockValues |-> z,
                                      timeseriesBuffer |-> u, storageFileStarted |-> v]
  BY DEF Handlers, BasicInv, TypesInv
<1>4. PICK w : w = IntoJkBlocks(b)
  OBVIOUS
<1>5. PICK y1, u1 : y1 = Append(handler.total, b) /\ u1 = Append(handler.timeseriesBuffer, b)
  OBVIOUS
<1>6. InsertValue(b) = [handler EXCEPT !.lastSweepLogged = b, !.total = y1,
                                       !.jkBlockValues = w, !.timeseriesBuffer = u1]
  BY <1>4, <1>5 DEF InsertValue
<1>7. InsertValue(b) = [lastSweepLogged |-> b, total |-> y1, jkBlockValues |-> w,
                        timeseriesBuffer |-> u1, storageFileStarted |-> v]
  BY <1>3, <1>6
<1>8. /\ InsertValue(b).total = y1 /\ InsertValue(b).timeseriesBuffer = u1
      /\ InsertValue(b).storageFileStarted = handler.storageFileStarted
  BY <1>3, <1>7
<1> QED
  BY <1>2, <1>5, <1>8

StatInv ==
  Predictable =>
    /\ pc # "off" =>
         Lists(handler.total,
               Among(Schedule(MeasureInterval, parsmc.saveInterval), 0, progress.sweeps))
    /\ Saved =>
         Lists(stateFile.handler.total,
               Among(Schedule(MeasureInterval, stateFile.parsmc.saveInterval),
                     0, stateFile.progress.sweeps))

LEMMA NoneAmong ==
  ASSUME NEW due \in SUBSET Nat, NEW x \in Nat
  PROVE  Among(due, x, x) = {}
<1>1. \A w \in Nat : ~(x <= w /\ w < x)
  OBVIOUS
<1> QED
  BY <1>1 DEF Among

LEMMA ScheduleType ==
  ASSUME NEW interval, NEW saveInterval
  PROVE  Schedule(interval, saveInterval) \in SUBSET Nat
BY DEF Schedule

LEMMA StatSweep ==
  ASSUME BasicInv, CounterInv, TimedInv, StatInv, Sweep
  PROVE  StatInv'
<1>1. PICK b \in Nat, c \in Nat : MeasurementSweep(b, c)
  BY SweepIs
<1>2. /\ pc = "sweep" /\ UNCHANGED <<parsmc, stateFile, wasRetimed, wasMisaligned>>
      /\ progress.sweeps = b /\ progress'.sweeps = b + 1
      /\ (Predictable' <=> Predictable) /\ (Saved' <=> Saved)
  BY <1>1 DEF Sweep, past, MeasurementSweep, Predictable, Saved
<1> SUFFICES ASSUME Predictable PROVE StatInv'
  BY <1>2 DEF StatInv
<1>3. PICK due \in SUBSET Nat : due = Schedule(MeasureInterval, parsmc.saveInterval)
  BY ScheduleType
<1>4. PICK s \in Seq(Nat) : s = handler.total
  BY SeriesTypes
<1>5. Lists(s, Among(due, 0, b))
  BY <1>2, <1>3, <1>4 DEF StatInv
<1>6. /\ b \in due => Lists(Append(s, b), Among(due, 0, b + 1))
      /\ b \notin due => Lists(s, Among(due, 0, b + 1))
  BY <1>5, ListsMore
<1>7. /\ b \in due => handler'.total = Append(s, b)
      /\ b \notin due => handler'.total = s
  BY <1>1, <1>3, <1>4, Inserted, SampledWhenDue
<1>8. Lists(handler'.total, Among(due, 0, b + 1))
  BY <1>6, <1>7
<1> QED
  BY <1>2, <1>3, <1>8 DEF StatInv

LEMMA StatNext ==
  /\ BasicInv /\ CounterInv /\ TimedInv /\ FileSchedule' /\ StatInv /\ [Next]_vars
  => StatInv'
<1> SUFFICES ASSUME BasicInv, CounterInv, TimedInv, FileSchedule', StatInv, [Next]_vars
             PROVE  StatInv'
  OBVIOUS
<1> USE DEF Saved
<1>1. ASSUME NEW sweeps \in TargetSweeps, NEW saveInterval \in SaveIntervals,
             Start(sweeps, saveInterval)
      PROVE  StatInv'
  <2>1. /\ stateFile' = stateFile /\ pc' # "off" /\ (Predictable' => Predictable)
        /\ \/ progress' = FreshProgress /\ handler' = FreshHandler
           \/ Saved /\ progress' = stateFile.progress /\ handler' = stateFile.handler
    BY <1>1, StartIs DEF Predictable
  <2>2. CASE progress' = FreshProgress /\ handler' = FreshHandler
    <3>1. progress'.sweeps = 0 /\ handler'.total = <<>>
      BY <2>2 DEF FreshProgress, FreshHandler
    <3>2. Among(Schedule(MeasureInterval, parsmc'.saveInterval), 0, 0) = {}
      BY ScheduleType, NoneAmong
    <3>3. <<>> \in Seq(Nat)
      OBVIOUS
    <3>4. Lists(<<>>, {})
      BY <3>3, ListsNone
    <3> QED
      BY <2>1, <3>1, <3>2, <3>4 DEF StatInv
  <2>3. CASE Saved /\ progress' = stateFile.progress /\ handler' = stateFile.handler
    BY <2>1, <2>3 DEF StatInv, FileSchedule
  <2> QED
    BY <2>1, <2>2, <2>3
<1>2. ASSUME NEW stop \in BOOLEAN, CheckStop(stop) PROVE StatInv'
  BY <1>2 DEF CheckStop, disk, past, StatInv, Predictable
<1>3. CASE SweepThermalization
  BY <1>3, ThermalizationIs DEF StatInv, Predictable
<1>4. CASE Sweep
  BY <1>4, StatSweep
<1>5. CASE EndSweep
  BY <1>5, EndSweepIs DEF StatInv, Predictable
<1>6. CASE SaveResults \/ OpenStateFile \/ WriteStateFile
  BY <1>6, SavingIs DEF StatInv, EndSession, Predictable
<1>7. CASE Finish \/ Killed
  BY <1>7, OverIs DEF StatInv, EndSession, Predictable
<1>8. CASE UNCHANGED vars
  BY <1>8 DEF vars, memory, disk, past, StatInv, Predictable
<1> QED
  BY <1>1, <1>2, <1>3, <1>4, <1>5, <1>6, <1>7, <1>8 DEF Next, Rest

LEMMA StatAlways == Spec => []StatInv
<1>1. Init => StatInv
  BY DEF Init, Idle, StatInv, Saved
<1> QED
  BY <1>1, StatNext, ScheduleOfFile, BasicAlways, CounterAlways, TimedAlways, PTL DEF Spec

(* Whatever the intervals, whenever sessions are stopped or killed, and    *)
(* however the user changes sweeps meanwhile, the statistics in the state  *)
(* file hold every measurement that was due before it exactly once, in     *)
(* order.  They do so under changes of saveInterval, too, if every one is  *)
(* a multiple of measureInterval.                                          *)
THEOREM StatisticsAreExact == Spec => []StatisticsExact
<1>1. BasicInv /\ StatInv => StatisticsExact
  <2> SUFFICES ASSUME BasicInv, StatInv, Saved, Predictable
               PROVE  Lists(stateFile.handler.total,
                            DueBefore(stateFile.progress.sweeps, MeasureInterval,
                                      stateFile.parsmc.saveInterval))
    BY DEF StatisticsExact
  <2> QED
    BY SeriesTypes, DueBeforeIs DEF StatInv
<1> QED
  BY <1>1, BasicAlways, StatAlways, PTL

-----------------------------------------------------------------------------
(* A finished simulation is on disk                                        *)

LEMMA QuotientNat ==
  ASSUME NEW n \in Nat, NEW k \in Nat \ {0}
  PROVE  n \div k \in Nat
<1>1. n \div k \in Int /\ n % k \in 0..(k - 1) /\ n = k * (n \div k) + (n % k)
  BY Division
<1>2. PICK q \in Int, r \in 0..(k - 1) : q = n \div k /\ r = n % k /\ n = k * q + r
  BY <1>1
<1>3. ~(-q >= 1)
  <2> SUFFICES ASSUME -q >= 1 PROVE FALSE
    OBVIOUS
  <2>1. k * (-q) >= k
    BY <1>2, ProductAtLeast
  <2>2. n - r = k * q /\ k * (-q) = -(k * q)
    BY <1>2
  <2> QED
    BY <1>2, <2>1, <2>2
<1> QED
  BY <1>2, <1>3

(* Results never lag behind the state file, and a session never behind it. *)
KeptInv ==
  /\ pc # "off" /\ Saved => /\ stateFile.progress.sweeps <= progress.sweeps
                            /\ Len(stateFile.handler.total) <= Len(handler.total)
  /\ Saved /\ stateFile.progress.sweeps > 0 =>
       /\ resultsFile # NoFile
       /\ resultsFile.countValues >= Len(stateFile.handler.total)
  /\ pc \in {"saveState", "writeState"} /\ progress.sweeps > 0 =>
       /\ resultsFile # NoFile
       /\ resultsFile.countValues = Len(handler.total)
  /\ ~wasRetimed =>
       /\ pc = "endSweep" /\ stage = "M" /\ progress.counter = 0 =>
            Saved /\ stateFile.progress.sweeps = progress.sweeps
       /\ pc = "finished" => Saved /\ stateFile.progress.sweeps = progress.sweeps

(* A written file is not a missing one. *)
LEMMA FilesAreThere ==
  ASSUME BasicInv
  PROVE  /\ SaveResults => /\ resultsFile' # NoFile
                           /\ resultsFile'.countValues = Len(handler.total)
         /\ WriteStateFile => Saved'
<1>1. ASSUME SaveResults
      PROVE  resultsFile' # NoFile /\ resultsFile'.countValues = Len(handler.total)
  <2>1. handler \in Handlers
    BY DEF BasicInv, TypesInv
  <2>2. Len(handler.total) \in Nat /\ \A b \in Blocks : Len(handler.jkBlockValues[b]) \in Nat
    <3>1. handler.total \in Seq(Nat) /\ \A b \in Blocks : handler.jkBlockValues[b] \in Seq(Nat)
      BY <2>1 DEF Handlers
    <3> QED
      BY <3>1
  <2>3. Len(handler.total) - Len(handler.total) \div JkBlocks \in Int
    <3>1. \A n \in Nat : n \div JkBlocks \in Nat
      BY QuotientNat, ParametersAssumption
    <3>2. PICK n \in Nat, q \in Nat : n = Len(handler.total) /\ q = n \div JkBlocks
      BY <2>2, <3>1
    <3>3. n - q \in Int
      OBVIOUS
    <3> QED
      BY <3>2, <3>3
  <2>4. [b \in Blocks |-> Len(handler.jkBlockValues[b])] \in [Blocks -> Nat]
    BY <2>2
  <2>5. PICK n \in Nat, t \in Int, j \in [Blocks -> Nat], e \in BOOLEAN :
          /\ n = Len(handler.total) /\ t = n - n \div JkBlocks
          /\ j = [b \in Blocks |-> Len(handler.jkBlockValues[b])]
          /\ e = (AtTheEnd /\ JkBlocks > 1 /\ ~parsmc.sweepsHasChanged)
    <3>1. (AtTheEnd /\ JkBlocks > 1 /\ ~parsmc.sweepsHasChanged) \in BOOLEAN
      OBVIOUS
    <3> QED
      BY <2>2, <2>3, <2>4, <3>1
  <2>6. resultsFile' = [countValues |-> n, errorEstimate |-> e, jkTotalSamples |-> t, jkSamples |-> j]
    BY <1>1, <2>5 DEF SaveResults, EvaluateJackknife
  <2>7. resultsFile' \in ResultsFiles /\ resultsFile'.countValues = n
    BY <2>6 DEF ResultsFiles
  <2> QED
    BY <2>5, <2>7, FilesAssumption
<1>2. ASSUME WriteStateFile PROVE Saved'
  BY <1>2, WrittenState, FilesAssumption DEF Saved
<1> QED
  BY <1>1, <1>2

LEMMA KeptStart ==
  ASSUME BasicInv, BasicInv', KeptInv,
         NEW sweeps \in TargetSweeps, NEW saveInterval \in SaveIntervals,
         Start(sweeps, saveInterval)
  PROVE  KeptInv'
<1>1. /\ pc' \in {"top", "finished"} /\ Checked(parsmc') /\ stateFile' = stateFile
      /\ resultsFile' = resultsFile /\ (Saved' <=> Saved)
      /\ \/ ~Saved /\ progress' = FreshProgress
         \/ Saved /\ progress' = stateFile.progress /\ handler' = stateFile.handler
  BY StartIs DEF Saved
<1>2. CASE ~Saved /\ progress' = FreshProgress
  <2>1. pc' # "finished"
    <3>1. progress'.sweeps = 0 /\ parsmc'.sweeps \in Nat /\ MeasureInterval <= parsmc'.sweeps
      BY <1>1, <1>2 DEF FreshProgress, Checked, BasicInv, TypesInv, Parameters
    <3>2. pc' = "finished" => progress'.sweeps = parsmc'.sweeps
      BY DEF BasicInv, StageInv
    <3> QED
      BY <3>1, <3>2, ParametersAssumption
  <2> QED
    BY <1>1, <1>2, <2>1 DEF KeptInv
<1>3. CASE Saved /\ progress' = stateFile.progress /\ handler' = stateFile.handler
  <2>1. stateFile.progress.sweeps \in Nat /\ Len(stateFile.handler.total) \in Nat
    <3>1. stateFile.progress.sweeps \in Nat /\ stateFile.handler.total \in Seq(Nat)
      BY <1>3, SeriesTypes
    <3> QED
      BY <3>1
  <2> QED
    BY <1>1, <1>3, <2>1 DEF KeptInv
<1> QED
  BY <1>1, <1>2, <1>3

LEMMA KeptSweep ==
  ASSUME BasicInv, KeptInv, Sweep
  PROVE  KeptInv'
<1>1. PICK b \in Nat, c \in Nat : MeasurementSweep(b, c)
  BY SweepIs
<1>2. PICK r \in Nat : r = IF c + 1 = parsmc.saveInterval THEN 0 ELSE c + 1
  OBVIOUS
<1>3. progress' = [therm |-> Thermalization, sweeps |-> b + 1, counter |-> r]
      /\ pc' = (IF c + 1 = parsmc.saveInterval THEN "saveResults" ELSE "endSweep")
  BY <1>1, <1>2 DEF MeasurementSweep
<1>4. progress'.sweeps = b + 1 /\ progress.sweeps = b
      /\ (pc' = "endSweep" => progress'.counter # 0) /\ pc' \in {"saveResults", "endSweep"}
  BY <1>1, <1>2, <1>3 DEF MeasurementSweep
<1>5. UNCHANGED <<stateFile, resultsFile>> /\ (Saved' <=> Saved) /\ pc # "off"
  BY DEF Sweep, Saved
<1>6. Saved => stateFile.progress.sweeps \in Nat /\ stateFile.progress.sweeps <= b
  BY <1>4, <1>5, SeriesTypes DEF KeptInv
<1>7. Len(handler'.total) >= Len(handler.total) /\ Len(handler'.total) \in Nat
      /\ Len(handler.total) \in Nat
  <2>1. PICK s \in Seq(Nat) : s = handler.total
    BY SeriesTypes
  <2>2. handler'.total = s \/ handler'.total = Append(s, b)
    BY <1>1, <2>1, Inserted
  <2> QED
    BY <2>1, <2>2
<1>8. Saved => /\ Len(stateFile.handler.total) <= Len(handler.total)
               /\ Len(stateFile.handler.total) \in Nat
  <2>1. Saved => stateFile.handler.total \in Seq(Nat)
    BY SeriesTypes
  <2> QED
    BY <1>5, <2>1 DEF KeptInv
<1>9. Saved => Len(stateFile.handler.total) <= Len(handler'.total)
  BY <1>7, <1>8
<1> QED
  BY <1>4, <1>5, <1>6, <1>9 DEF KeptInv

LEMMA KeptNext ==
  BasicInv /\ BasicInv' /\ TimedInv /\ KeptInv /\ [Next]_vars => KeptInv'
<1> SUFFICES ASSUME BasicInv, BasicInv', TimedInv, KeptInv, [Next]_vars PROVE KeptInv'
  OBVIOUS
<1>a. /\ progress.sweeps \in Nat /\ Len(handler.total) \in Nat
      /\ Saved => stateFile.progress.sweeps \in Nat /\ Len(stateFile.handler.total) \in Nat
  <2>1. /\ progress.sweeps \in Nat /\ handler.total \in Seq(Nat)
        /\ Saved => stateFile.progress.sweeps \in Nat /\ stateFile.handler.total \in Seq(Nat)
    BY SeriesTypes
  <2> QED
    BY <2>1
<1>1. ASSUME NEW sweeps \in TargetSweeps, NEW saveInterval \in SaveIntervals,
             Start(sweeps, saveInterval)
      PROVE  KeptInv'
  BY <1>1, KeptStart
<1>2. ASSUME NEW stop \in BOOLEAN, CheckStop(stop) PROVE KeptInv'
  <2>1. /\ pc = "top" /\ pc' \in {"saveResults", "saveState", "sweep"}
        /\ (pc' = "saveState" => stage # "M")
        /\ UNCHANGED <<stage, parsmc, progress, handler, stateFile, resultsFile, wasRetimed>>
    BY <1>2 DEF CheckStop, StartOfSave, disk, past
  <2>2. pc' = "saveState" => progress.sweeps = 0
    BY <2>1 DEF BasicInv, StageInv, TypesInv
  <2> QED
    BY <2>1, <2>2 DEF KeptInv, Saved
<1>3. CASE SweepThermalization
  <2>1. /\ pc = "sweep" /\ stage' = "T" /\ pc' \in {"saveState", "endSweep"}
        /\ progress.sweeps = 0 /\ progress'.sweeps = 0
        /\ UNCHANGED <<handler, stateFile, resultsFile, wasRetimed>>
    BY <1>3, ThermalizationIs
  <2> QED
    BY <2>1 DEF KeptInv, Saved
<1>4. CASE Sweep
  BY <1>4, KeptSweep
<1>5. CASE EndSweep
  <2>1. /\ pc = "endSweep" /\ pc' \in {"top", "sweep", "finished"}
        /\ progress'.sweeps = progress.sweeps
        /\ pc' = "finished" => stage = "M" /\ progress.sweeps = parsmc.sweeps
        /\ UNCHANGED <<parsmc, handler, stateFile, resultsFile, wasRetimed>>
    BY <1>5, EndSweepIs
  <2>2. ASSUME pc' = "finished", ~wasRetimed
        PROVE  Saved /\ stateFile.progress.sweeps = progress.sweeps
    <3>1. progress.counter = progress.sweeps % parsmc.saveInterval
      BY <2>1, <2>2 DEF TimedInv, Counting
    <3>2. parsmc.sweeps % parsmc.saveInterval = 0
      BY <2>1 DEF BasicInv, StageInv, Checked
    <3> QED
      BY <2>1, <2>2, <3>1, <3>2 DEF KeptInv
  <2> QED
    BY <2>1, <2>2 DEF KeptInv, Saved
<1>6. CASE SaveResults
  <2>1. /\ pc = "saveResults" /\ pc' = "saveState" /\ UNCHANGED <<progress, stateFile, wasRetimed>>
        /\ handler'.total = handler.total
    BY <1>6, SavingIs
  <2>2. resultsFile' # NoFile /\ resultsFile'.countValues = Len(handler.total)
    BY <1>6, FilesAreThere
  <2> QED
    BY <1>a, <2>1, <2>2 DEF KeptInv, Saved
<1>7. CASE OpenStateFile
  BY <1>7, SavingIs DEF KeptInv, Saved
<1>8. CASE WriteStateFile
  <2>1. /\ pc = "writeState" /\ stateFile'.progress = progress /\ stateFile'.handler = handler
        /\ UNCHANGED <<resultsFile, wasRetimed>> /\ Saved'
        /\ \/ pc' = "off"
           \/ pc' = "endSweep" /\ UNCHANGED <<progress, handler>>
    BY <1>8, SavingIs, FilesAreThere DEF EndSession
  <2> QED
    BY <1>a, <2>1 DEF KeptInv
<1>9. CASE Finish \/ Killed
  BY <1>9, OverIs DEF KeptInv, EndSession, Saved
<1>10. CASE UNCHANGED vars
  BY <1>10 DEF vars, memory, disk, past, KeptInv, Saved
<1> QED
  BY <1>1, <1>2, <1>3, <1>4, <1>5, <1>6, <1>7, <1>8, <1>9, <1>10 DEF Next, Rest

LEMMA KeptAlways == Spec => []KeptInv
<1>1. Init => KeptInv
  BY DEF Init, Idle, KeptInv, Saved
<1> QED
  BY <1>1, KeptNext, BasicAlways, TimedAlways, PTL DEF Spec

(* However often a simulation was killed, once it is found finished all of *)
(* its sweeps are in the state file, and the results count at least as     *)
(* many measurements, provided that its saveInterval was kept.             *)
THEOREM FinishedIsOnDisk == Spec => []FinishedIsSavedUnlessRetimed
<1>1. BasicInv /\ KeptInv => FinishedIsSavedUnlessRetimed
  <2> SUFFICES ASSUME BasicInv, KeptInv, ~wasRetimed, pc = "finished"
               PROVE  /\ Saved /\ stateFile.progress.sweeps = parsmc.sweeps
                      /\ resultsFile # NoFile
                      /\ resultsFile.countValues >= Len(stateFile.handler.total)
    BY DEF FinishedIsSavedUnlessRetimed, FinishedIsSaved
  <2>1. Saved /\ stateFile.progress.sweeps = parsmc.sweeps
    BY DEF KeptInv, BasicInv, StageInv
  <2>2. parsmc.sweeps > 0
    <3>1. MeasureInterval <= parsmc.sweeps /\ parsmc.sweeps \in Nat
      BY DEF BasicInv, StageInv, TypesInv, Parameters, Checked
    <3> QED
      BY <3>1, ParametersAssumption
  <2> QED
    BY <2>1, <2>2 DEF KeptInv
<1> QED
  BY <1>1, BasicAlways, KeptAlways, PTL

-----------------------------------------------------------------------------
(* The time series and the stream of configurations                        *)

SessionRecord ==
  /\ Lists(seriesFile \o handler.timeseriesBuffer,
           Among(Schedule(MeasureInterval, parsmc.saveInterval), 0, progress.sweeps))
  /\ Lists(streamFile, Among(Schedule(ConfigInterval, parsmc.saveInterval), 0, progress.sweeps))
  /\ storage \/ handler.storageFileStarted \/ seriesFile = <<>>
  /\ pc \in {"saveState", "writeState", "finished"} => handler.timeseriesBuffer = <<>>
  /\ pc \in {"saveState", "writeState"} /\ progress.sweeps > 0 => handler.storageFileStarted
  /\ pc = "endSweep" /\ stage = "M" /\ progress.counter = 0 => handler.timeseriesBuffer = <<>>
DiskRecord ==
  /\ Saved =>
       /\ Lists(seriesFile, Among(Schedule(MeasureInterval, stateFile.parsmc.saveInterval),
                                  0, stateFile.progress.sweeps))
       /\ Lists(streamFile, Among(Schedule(ConfigInterval, stateFile.parsmc.saveInterval),
                                  0, stateFile.progress.sweeps))
  /\ ~Saved => stateFile = NoFile /\ seriesFile = <<>> /\ streamFile = <<>>
SeriesInv ==
  ~wasKilled /\ ~wasRetimed =>
    /\ pc # "off" => SessionRecord
    /\ pc = "off" => DiskRecord
    /\ Saved => /\ stateFile.handler.timeseriesBuffer = <<>>
                /\ stateFile.progress.sweeps > 0 => stateFile.handler.storageFileStarted

LEMMA Divisible ==
  ASSUME NEW n \in Nat, NEW c \in Nat \ {0}, NEW m \in Nat \ {0}, n % c = 0, c % m = 0
  PROVE  n % m = 0
<1>1. PICK q \in Int, p \in Int : n = c * q /\ c = m * p
  <2>1. n \div c \in Int /\ n = c * (n \div c) + (n % c)
    BY Division
  <2>2. PICK q \in Int : n = c * q + 0
    BY <2>1
  <2>3. c \div m \in Int /\ c = m * (c \div m) + (c % m)
    BY Division
  <2>4. PICK p \in Int : c = m * p + 0
    BY <2>3
  <2>5. n = c * q /\ c = m * p
    BY <2>2, <2>4
  <2> QED
    BY <2>5
<1>2. n = m * (p * q) + 0 /\ p * q \in Int /\ 0 \in 0..(m - 1)
  BY <1>1
<1> QED
  BY <1>2, Division, DivisionUnique

LEMMA ConcatEmpty ==
  ASSUME NEW s \in Seq(Nat)
  PROVE  s \o <<>> = s /\ <<>> \o s = s
BY ConcatEmptySeq

LEMMA AppendToSecond ==
  ASSUME NEW s \in Seq(Nat), NEW t \in Seq(Nat), NEW n \in Nat
  PROVE  s \o Append(t, n) = Append(s \o t, n)
BY AppendProperties, ConcatProperties

LEMMA ListsBeforeFirst ==
  ASSUME NEW s \in Seq(Nat), NEW interval, NEW saveInterval
  PROVE  Lists(s, Among(Schedule(interval, saveInterval), 0, 0)) <=> s = <<>>
<1>1. Among(Schedule(interval, saveInterval), 0, 0) = {}
  BY ScheduleType, NoneAmong
<1> QED
  BY <1>1, ListsNone

LEMMA SeriesStart ==
  ASSUME BasicInv, BasicInv', SeriesInv,
         NEW sweeps \in TargetSweeps, NEW saveInterval \in SaveIntervals,
         Start(sweeps, saveInterval)
  PROVE  SeriesInv'
<1> SUFFICES ASSUME ~wasKilled', ~wasRetimed' PROVE SeriesInv'
  BY DEF SeriesInv
<1>1. /\ pc = "off" /\ pc' \in {"top", "finished"} /\ (Saved' <=> Saved)
      /\ UNCHANGED <<stateFile, seriesFile, streamFile>> /\ ~wasKilled /\ ~wasRetimed
      /\ \/ stateFile = NoFile /\ ~Saved /\ progress' = FreshProgress /\ handler' = FreshHandler
         \/ /\ Saved /\ progress' = stateFile.progress /\ handler' = stateFile.handler
            /\ parsmc'.saveInterval = stateFile.parsmc.saveInterval
  BY StartIs DEF Saved
<1>2. DiskRecord
  BY <1>1 DEF SeriesInv
<1>3. seriesFile \in Seq(Nat) /\ streamFile \in Seq(Nat) /\ <<>> \in Seq(Nat)
  BY SeriesTypes
<1>4. SessionRecord'
  <2>1. CASE ~Saved /\ progress' = FreshProgress /\ handler' = FreshHandler
    <3>1. progress'.sweeps = 0 /\ handler'.timeseriesBuffer = <<>>
      BY <2>1 DEF FreshProgress, FreshHandler
    <3>2. seriesFile' = <<>> /\ streamFile' = <<>>
      BY <1>1, <1>2, <2>1 DEF DiskRecord
    <3>3. seriesFile' \o handler'.timeseriesBuffer = <<>>
      BY <1>3, <3>1, <3>2, ConcatEmpty
    <3>4. /\ Lists(<<>>, Among(Schedule(MeasureInterval, parsmc'.saveInterval), 0, 0))
          /\ Lists(<<>>, Among(Schedule(ConfigInterval, parsmc'.saveInterval), 0, 0))
      BY <1>3, ListsBeforeFirst
    <3> QED
      BY <1>1, <3>1, <3>2, <3>3, <3>4 DEF SessionRecord
  <2>2. CASE /\ Saved /\ progress' = stateFile.progress /\ handler' = stateFile.handler
             /\ parsmc'.saveInterval = stateFile.parsmc.saveInterval
    <3>1. /\ handler'.timeseriesBuffer = <<>>
          /\ progress'.sweeps > 0 => handler'.storageFileStarted
      BY <1>1, <2>2 DEF SeriesInv
    <3>2. /\ Lists(seriesFile', Among(Schedule(MeasureInterval, parsmc'.saveInterval),
                                      0, progress'.sweeps))
          /\ Lists(streamFile', Among(Schedule(ConfigInterval, parsmc'.saveInterval),
                                      0, progress'.sweeps))
      BY <1>1, <1>2, <2>2 DEF DiskRecord
    <3>3. seriesFile' \o handler'.timeseriesBuffer = seriesFile'
      BY <1>1, <1>3, <3>1, ConcatEmpty
    <3>4. handler'.storageFileStarted \/ seriesFile' = <<>>
      <4>1. progress'.sweeps \in Nat
        BY <2>2, SeriesTypes
      <4>2. CASE progress'.sweeps > 0
        BY <3>1, <4>2
      <4>3. CASE progress'.sweeps = 0
        BY <1>1, <1>3, <3>2, <4>3, ListsBeforeFirst
      <4> QED
        BY <4>1, <4>2, <4>3
    <3> QED
      BY <1>1, <3>1, <3>2, <3>3, <3>4 DEF SessionRecord
  <2> QED
    BY <1>1, <2>1, <2>2
<1> QED
  BY <1>1, <1>4 DEF SeriesInv

LEMMA SeriesSweep ==
  ASSUME BasicInv, CounterInv, TimedInv, SeriesInv, Sweep
  PROVE  SeriesInv'
<1>1. PICK b \in Nat, c \in Nat : MeasurementSweep(b, c)
  BY SweepIs
<1>2. /\ pc = "sweep" /\ (Saved' <=> Saved)
      /\ UNCHANGED <<parsmc, storage, stateFile, seriesFile, wasKilled, wasRetimed>>
  BY DEF Sweep, past, Saved
<1> SUFFICES ASSUME ~wasKilled, ~wasRetimed PROVE SeriesInv'
  BY <1>2 DEF SeriesInv
<1>3. PICK r \in Nat : r = IF c + 1 = parsmc.saveInterval THEN 0 ELSE c + 1
  OBVIOUS
<1>4. progress' = [therm |-> Thermalization, sweeps |-> b + 1, counter |-> r]
      /\ pc' = (IF c + 1 = parsmc.saveInterval THEN "saveResults" ELSE "endSweep")
      /\ progress.sweeps = b
  BY <1>1, <1>3 DEF MeasurementSweep
<1>5. progress'.sweeps = b + 1 /\ pc' \in {"saveResults", "endSweep"}
      /\ (pc' = "endSweep" => progress'.counter # 0)
  BY <1>3, <1>4
<1>6. PICK s \in Seq(Nat), t \in Seq(Nat), u \in Seq(Nat) :
        s = seriesFile /\ t = handler.timeseriesBuffer /\ u = streamFile
  BY SeriesTypes
<1>7. PICK due \in SUBSET Nat, kept \in SUBSET Nat :
        /\ due = Schedule(MeasureInterval, parsmc.saveInterval)
        /\ kept = Schedule(ConfigInterval, parsmc.saveInterval)
  BY ScheduleType
<1>8. /\ (c + 1) % MeasureInterval = 0 <=> b \in due
      /\ (c + 1) % ConfigInterval = 0 <=> b \in kept
  BY <1>1, <1>7, SampledWhenDue DEF Predictable
<1>v. PICK v \in Seq(Nat) : v = s \o t
  BY ConcatProperties
<1>9. /\ Lists(v, Among(due, 0, b)) /\ Lists(u, Among(kept, 0, b))
      /\ storage \/ handler.storageFileStarted \/ seriesFile = <<>>
  BY <1>2, <1>4, <1>6, <1>7, <1>v DEF SeriesInv, SessionRecord
<1>10. Lists(seriesFile' \o handler'.timeseriesBuffer, Among(due, 0, b + 1))
  <2>1. CASE b \in due
    <3>1. handler'.timeseriesBuffer = Append(t, b)
      BY <1>1, <1>6, <1>8, <2>1, Inserted
    <3>2. s \o Append(t, b) = Append(v, b)
      BY <1>v, AppendToSecond
    <3>3. Lists(Append(v, b), Among(due, 0, b + 1))
      BY <1>9, <2>1, ListsMore
    <3> QED
      BY <1>2, <1>6, <3>1, <3>2, <3>3
  <2>2. CASE b \notin due
    <3>1. handler' = handler
      BY <1>1, <1>8, <2>2, Inserted
    <3>2. Lists(v, Among(due, 0, b + 1))
      BY <1>9, <2>2, ListsMore
    <3> QED
      BY <1>2, <1>6, <1>v, <3>1, <3>2
  <2> QED
    BY <2>1, <2>2
<1>11. Lists(streamFile', Among(kept, 0, b + 1))
  <2>1. CASE b \in kept
    <3>1. (c + 1) % MeasureInterval = 0
      <4>1. c + 1 \in Nat /\ (c + 1) % ConfigInterval = 0
        BY <1>8, <2>1
      <4> QED
        BY <4>1, Divisible, ParametersAssumption
    <3>2. streamFile' = Append(u, b)
      BY <1>1, <1>6, <1>8, <2>1, <3>1, Inserted
    <3> QED
      BY <1>9, <2>1, <3>2, ListsMore
  <2>2. CASE b \notin kept
    <3>1. streamFile' = u
      BY <1>1, <1>6, <1>8, <2>2, Inserted
    <3> QED
      BY <1>9, <2>2, <3>1, ListsMore
  <2> QED
    BY <2>1, <2>2
<1>12. handler'.storageFileStarted = handler.storageFileStarted
  BY <1>1, Inserted
<1>13. SessionRecord'
  BY <1>2, <1>5, <1>7, <1>9, <1>10, <1>11, <1>12 DEF SessionRecord
<1> QED
  BY <1>2, <1>5, <1>13 DEF SeriesInv

LEMMA SeriesSaveResults ==
  ASSUME BasicInv, SeriesInv, SaveResults
  PROVE  SeriesInv'
<1>1. /\ pc = "saveResults" /\ pc' = "saveState" /\ storage' = TRUE
      /\ handler'.timeseriesBuffer = <<>> /\ handler'.storageFileStarted = TRUE
      /\ UNCHANGED <<stage, parsmc, progress, stateFile, streamFile, wasKilled, wasRetimed>>
      /\ (Saved' <=> Saved)
  BY SavingIs DEF Saved
<1> SUFFICES ASSUME ~wasKilled, ~wasRetimed PROVE SeriesInv'
  BY <1>1 DEF SeriesInv
<1>2. SessionRecord
  BY <1>1 DEF SeriesInv
<1>3. SeriesBefore = seriesFile
  BY <1>2 DEF SeriesBefore, SessionRecord
<1>4. seriesFile' = seriesFile \o handler.timeseriesBuffer
  BY <1>3 DEF SaveResults
<1>5. seriesFile' \in Seq(Nat)
  BY <1>4, SeriesTypes, ConcatProperties
<1>6. seriesFile' \o handler'.timeseriesBuffer = seriesFile'
  BY <1>1, <1>5, ConcatEmpty
<1>7. SessionRecord'
  BY <1>1, <1>2, <1>4, <1>6 DEF SessionRecord
<1> QED
  BY <1>1, <1>7 DEF SeriesInv

LEMMA SeriesWrite ==
  ASSUME BasicInv, SeriesInv, WriteStateFile
  PROVE  SeriesInv'
<1>1. /\ pc = "writeState" /\ Saved'
      /\ stateFile'.progress = progress /\ stateFile'.handler = handler
      /\ stateFile'.parsmc = parsmc
      /\ UNCHANGED <<seriesFile, streamFile, wasKilled, wasRetimed>>
      /\ \/ pc' = "off"
         \/ pc' = "endSweep" /\ UNCHANGED <<stage, parsmc, progress, handler, storage>>
  BY SavingIs, FilesAreThere DEF EndSession
<1> SUFFICES ASSUME ~wasKilled, ~wasRetimed PROVE SeriesInv'
  BY <1>1 DEF SeriesInv
<1>2. /\ SessionRecord /\ handler.timeseriesBuffer = <<>>
      /\ progress.sweeps > 0 => handler.storageFileStarted
  BY <1>1 DEF SeriesInv, SessionRecord
<1>3. Lists(seriesFile, Among(Schedule(MeasureInterval, parsmc.saveInterval), 0, progress.sweeps))
  <2>1. seriesFile \o <<>> = seriesFile
    BY SeriesTypes, ConcatEmpty
  <2> QED
    BY <1>2, <2>1 DEF SessionRecord
<1>4. CASE pc' = "off"
  <2>1. DiskRecord'
    BY <1>1, <1>2, <1>3 DEF DiskRecord, SessionRecord
  <2> QED
    BY <1>1, <1>2, <1>4, <2>1 DEF SeriesInv
<1>5. CASE pc' = "endSweep" /\ UNCHANGED <<stage, parsmc, progress, handler, storage>>
  <2>1. SessionRecord'
    BY <1>1, <1>2, <1>5 DEF SessionRecord
  <2> QED
    BY <1>1, <1>2, <1>5, <2>1 DEF SeriesInv
<1> QED
  BY <1>1, <1>4, <1>5

LEMMA SeriesNext ==
  /\ BasicInv /\ BasicInv' /\ CounterInv /\ TimedInv /\ KeptInv /\ SeriesInv /\ [Next]_vars
  => SeriesInv'
<1> SUFFICES ASSUME BasicInv, BasicInv', CounterInv, TimedInv, KeptInv, SeriesInv, [Next]_vars
             PROVE  SeriesInv'
  OBVIOUS
<1>1. ASSUME NEW sweeps \in TargetSweeps, NEW saveInterval \in SaveIntervals,
             Start(sweeps, saveInterval)
      PROVE  SeriesInv'
  BY <1>1, SeriesStart
<1>2. ASSUME NEW stop \in BOOLEAN, CheckStop(stop) PROVE SeriesInv'
  <2>1. /\ pc = "top" /\ pc' \in {"saveResults", "saveState", "sweep"}
        /\ (pc' = "saveState" => stage # "M")
        /\ UNCHANGED <<stage, parsmc, progress, handler, storage, stateFile, seriesFile,
                       streamFile, wasKilled, wasRetimed>>
    BY <1>2 DEF CheckStop, StartOfSave, disk, past
  <2>2. pc' = "saveState" => progress.sweeps = 0
    BY <2>1 DEF BasicInv, StageInv, TypesInv
  <2>3. ASSUME ~wasKilled, ~wasRetimed, pc' = "saveState"
        PROVE  handler.timeseriesBuffer = <<>>
    <3>1. PICK s \in Seq(Nat), t \in Seq(Nat) : s = seriesFile /\ t = handler.timeseriesBuffer
      BY SeriesTypes
    <3>2. Lists(s \o t, Among(Schedule(MeasureInterval, parsmc.saveInterval), 0, 0))
      BY <2>1, <2>2, <2>3, <3>1 DEF SeriesInv, SessionRecord
    <3>4. s \o t = <<>>
      BY <3>2, ListsBeforeFirst, ConcatProperties
    <3>3. t = <<>>
      BY <3>4
    <3> QED
      BY <3>1, <3>3
  <2> QED
    BY <2>1, <2>2, <2>3 DEF SeriesInv, SessionRecord, Saved
<1>3. CASE SweepThermalization
  <2>1. /\ pc = "sweep" /\ stage' = "T" /\ pc' \in {"saveState", "endSweep"}
        /\ progress.sweeps = 0 /\ progress'.sweeps = 0
        /\ UNCHANGED <<parsmc, handler, storage, stateFile, seriesFile, streamFile,
                       wasKilled, wasRetimed>>
    BY <1>3, ThermalizationIs
  <2>2. ASSUME ~wasKilled, ~wasRetimed PROVE handler.timeseriesBuffer = <<>>
    <3>1. PICK s \in Seq(Nat), t \in Seq(Nat) : s = seriesFile /\ t = handler.timeseriesBuffer
      BY SeriesTypes
    <3>2. Lists(s \o t, Among(Schedule(MeasureInterval, parsmc.saveInterval), 0, 0))
      BY <2>1, <2>2, <3>1 DEF SeriesInv, SessionRecord
    <3>4. s \o t = <<>>
      BY <3>2, ListsBeforeFirst, ConcatProperties
    <3>3. t = <<>>
      BY <3>4
    <3> QED
      BY <3>1, <3>3
  <2> QED
    BY <2>1, <2>2 DEF SeriesInv, SessionRecord, Saved
<1>4. CASE Sweep
  BY <1>4, SeriesSweep
<1>5. CASE EndSweep
  <2>1. /\ pc = "endSweep" /\ pc' \in {"top", "sweep", "finished"}
        /\ progress'.sweeps = progress.sweeps
        /\ pc' = "finished" => stage = "M" /\ progress.sweeps = parsmc.sweeps
        /\ UNCHANGED <<parsmc, handler, storage, stateFile, seriesFile, streamFile,
                       wasKilled, wasRetimed>>
    BY <1>5, EndSweepIs
  <2>2. ASSUME pc' = "finished", ~wasRetimed PROVE progress.counter = 0
    <3>1. progress.counter = progress.sweeps % parsmc.saveInterval
      BY <2>1, <2>2 DEF TimedInv, Counting
    <3>2. parsmc.sweeps % parsmc.saveInterval = 0
      BY <2>1 DEF BasicInv, StageInv, Checked
    <3> QED
      BY <2>1, <2>2, <3>1, <3>2
  <2> QED
    BY <2>1, <2>2 DEF SeriesInv, SessionRecord, Saved
<1>6. CASE SaveResults
  BY <1>6, SeriesSaveResults
<1>7. CASE OpenStateFile
  BY <1>7, SavingIs DEF SeriesInv, SessionRecord, Saved
<1>8. CASE WriteStateFile
  BY <1>8, SeriesWrite
<1>9. CASE Finish \/ Killed
  <2>1. /\ pc # "off" /\ pc' = "off"
        /\ UNCHANGED <<stateFile, seriesFile, streamFile, wasRetimed>> /\ (Saved' <=> Saved)
        /\ \/ pc = "finished" /\ wasKilled' = wasKilled
           \/ wasKilled' = TRUE
    BY <1>9, OverIs DEF EndSession, Saved
  <2>2. ASSUME ~wasKilled, ~wasRetimed, pc = "finished"
        PROVE  DiskRecord
    <3>1. SessionRecord /\ handler.timeseriesBuffer = <<>>
      BY <2>2 DEF SeriesInv, SessionRecord
    <3>2. Saved /\ stateFile.progress.sweeps = progress.sweeps
      BY <2>2 DEF KeptInv
    <3>3. seriesFile \o <<>> = seriesFile
      BY SeriesTypes, ConcatEmpty
    <3>4. parsmc.saveInterval = stateFile.parsmc.saveInterval
      BY <2>2, <3>2 DEF TimedInv
    <3> QED
      BY <3>1, <3>2, <3>3, <3>4 DEF SessionRecord, DiskRecord
  <2>3. DiskRecord' <=> DiskRecord
    BY <2>1 DEF DiskRecord
  <2> QED
    BY <2>1, <2>2, <2>3 DEF SeriesInv
<1>10. CASE UNCHANGED vars
  <2>1. /\ SessionRecord' <=> SessionRecord
        /\ DiskRecord' <=> DiskRecord
    BY <1>10 DEF vars, memory, disk, past, SessionRecord, DiskRecord, Saved
  <2> QED
    BY <1>10, <2>1 DEF vars, memory, disk, past, SeriesInv, Saved
<1> QED
  BY <1>1, <1>2, <1>3, <1>4, <1>5, <1>6, <1>7, <1>8, <1>9, <1>10 DEF Next, Rest

(* Without kills, and as long as saveInterval is kept, stopping, resuming  *)
(* and raising sweeps leave no trace in the series and the stream, whether *)
(* or not the intervals divide each other.                                 *)
THEOREM SeriesIsExact == Spec => []SeriesExact
<1>1. Init => SeriesInv
  BY DEF Init, Idle, SeriesInv, DiskRecord, Saved
<1>2. BasicInv /\ SeriesInv => SeriesExact
  <2> SUFFICES ASSUME BasicInv, SeriesInv PROVE SeriesExact
    OBVIOUS
  <2>1. \A interval, saveInterval :
          /\ DueBefore(progress.sweeps, interval, saveInterval)
               = Among(Schedule(interval, saveInterval), 0, progress.sweeps)
          /\ Saved => DueBefore(stateFile.progress.sweeps, interval, saveInterval)
               = Among(Schedule(interval, saveInterval), 0, stateFile.progress.sweeps)
    BY SeriesTypes, DueBeforeIs
  <2> QED
    BY <2>1 DEF SeriesInv, SessionRecord, DiskRecord, SeriesExact
<1> QED
  BY <1>1, <1>2, SeriesNext, BasicAlways, CounterAlways, TimedAlways, KeptAlways, PTL DEF Spec

-----------------------------------------------------------------------------
(* The series file when sessions are killed                                *)

Gapless(s, due) == \A i \in 1..Len(s) : \A w \in due : w < s[i] => i > 1 /\ w <= s[i - 1]
Covers(s, due, x) == \A w \in due : w < x => \E i \in 1..Len(s) : s[i] = w
Reaches(s, due, x) == \A w \in due : w < x => Len(s) > 0 /\ w <= s[Len(s)]

DueHere   == Schedule(MeasureInterval, parsmc.saveInterval)
DueInFile == Schedule(MeasureInterval, stateFile.parsmc.saveInterval)

(* Of the measurements of a session's simulation those due before sweep x  *)
(* are in the series file and the others still in memory.                  *)
SeriesHas(x) ==
  /\ x <= progress.sweeps
  /\ Lists(handler.timeseriesBuffer, Among(DueHere, x, progress.sweeps))
  /\ Covers(seriesFile, DueHere, x) /\ Reaches(seriesFile, DueHere, x)
  /\ x > 0 => storage \/ handler.storageFileStarted
  /\ storage \/ handler.storageFileStarted => Gapless(seriesFile, DueHere)
  /\ pc \in {"saveState", "writeState"} =>
       /\ x = progress.sweeps /\ handler.timeseriesBuffer = <<>>
       /\ progress.sweeps > 0 => handler.storageFileStarted
HolesInv ==
  Predictable =>
    /\ pc # "off" => \E x \in Nat : SeriesHas(x)
    /\ Saved => /\ Covers(seriesFile, DueInFile, stateFile.progress.sweeps)
                /\ Reaches(seriesFile, DueInFile, stateFile.progress.sweeps)
                /\ stateFile.handler.timeseriesBuffer = <<>>
                /\ stateFile.progress.sweeps > 0 => stateFile.handler.storageFileStarted
                /\ stateFile.handler.storageFileStarted => Gapless(seriesFile, DueInFile)

LEMMA FewerCovered ==
  ASSUME NEW s \in Seq(Nat), NEW due \in SUBSET Nat, NEW x \in Nat, NEW h \in Nat, h <= x,
         Covers(s, due, x), Reaches(s, due, x)
  PROVE  Covers(s, due, h) /\ Reaches(s, due, h)
<1>1. \A w \in due : w < h => w < x
  <2> TAKE w \in due
  <2>1. w \in Nat
    OBVIOUS
  <2> QED
    BY <2>1
<1> QED
  BY <1>1 DEF Covers, Reaches

(* The measurements in memory go on where those in the file end.           *)
LEMMA Extended ==
  ASSUME NEW s \in Seq(Nat), NEW t \in Seq(Nat), NEW due \in SUBSET Nat,
         NEW x \in Nat, NEW n \in Nat, x <= n,
         Gapless(s, due), Covers(s, due, x), Reaches(s, due, x), Lists(t, Among(due, x, n))
  PROVE  /\ Gapless(s \o t, due) /\ Covers(s \o t, due, n) /\ Reaches(s \o t, due, n)
<1> DEFINE u == s \o t
<1>1. /\ u \in Seq(Nat) /\ Len(u) = Len(s) + Len(t)
      /\ \A i \in 1..Len(s) : u[i] = s[i]
      /\ \A j \in 1..Len(t) : u[Len(s) + j] = t[j]
  OBVIOUS
<1> HIDE DEF u
<1>2. PICK a \in Nat, b \in Nat : a = Len(s) /\ b = Len(t)
  OBVIOUS
<1>3. /\ Len(u) = a + b
      /\ \A i \in 1..a : u[i] = s[i] /\ s[i] \in Nat
      /\ \A j \in 1..b : u[a + j] = t[j]
  BY <1>1, <1>2
<1>4. /\ {t[j] : j \in 1..b} = Among(due, x, n)
      /\ \A i, j \in 1..b : i < j => t[i] < t[j]
  BY <1>2 DEF Lists
<1>5. \A j \in 1..b : t[j] \in Nat /\ x <= t[j] /\ t[j] < n
  <2> TAKE j \in 1..b
  <2>1. t[j] \in {t[h] : h \in 1..b}
    OBVIOUS
  <2>2. t[j] \in Among(due, x, n)
    BY <1>4, <2>1
  <2> QED
    BY <2>2 DEF Among
<1>6. \A w \in due : x <= w /\ w < n => \E j \in 1..b : t[j] = w
  <2> SUFFICES ASSUME NEW w \in due, x <= w, w < n PROVE \E j \in 1..b : t[j] = w
    OBVIOUS
  <2>1. w \in Among(due, x, n)
    BY DEF Among
  <2>2. w \in {t[j] : j \in 1..b}
    BY <1>4, <2>1
  <2> QED
    BY <2>2
<1>7. \A w \in due : w < x => a > 0 /\ w <= s[a]
  BY <1>2 DEF Reaches
<1>8. Gapless(u, due)
  <2> SUFFICES ASSUME NEW i \in 1..(a + b), NEW w \in due, w < u[i]
               PROVE  i > 1 /\ w <= u[i - 1]
    BY <1>3 DEF Gapless
  <2>w. w \in Nat
    OBVIOUS
  <2>1. CASE i <= a
    <3>1. i \in 1..a /\ w < s[i]
      BY <1>3, <2>1
    <3>2. i > 1 /\ w <= s[i - 1]
      BY <1>2, <3>1 DEF Gapless
    <3>3. i - 1 \in 1..a
      BY <3>1, <3>2
    <3> QED
      BY <1>3, <3>2, <3>3
  <2>2. CASE i = a + 1
    <3>1. 1 \in 1..b /\ u[i] = t[1]
      BY <1>3, <2>2
    <3>2. w < x
      <4> SUFFICES ASSUME ~(w < x) PROVE FALSE
        OBVIOUS
      <4>1. t[1] \in Nat /\ t[1] < n
        BY <1>5, <3>1
      <4>2. PICK j \in 1..b : t[j] = w
        BY <1>6, <2>w, <3>1, <4>1
      <4>3. j = 1 \/ t[1] < t[j]
        BY <1>4, <3>1
      <4> QED
        BY <2>w, <3>1, <4>1, <4>2, <4>3
    <3>3. a > 0 /\ w <= s[a] /\ u[a] = s[a]
      BY <1>3, <1>7, <3>2
    <3> QED
      BY <2>2, <3>3
  <2>3. CASE i > a + 1
    <3>1. PICK j \in 2..b : i = a + j
      <4>1. i - a \in 2..b /\ i = a + (i - a)
        BY <2>3
      <4> QED
        BY <4>1
    <3>2. PICK h \in 1..b : h = j - 1 /\ i - 1 = a + h
      BY <3>1
    <3>3. u[i] = t[j] /\ u[i - 1] = t[h] /\ t[j] \in Nat /\ t[h] \in Nat /\ x <= t[h] /\ t[j] < n
      BY <1>3, <1>5, <3>1, <3>2
    <3>4. CASE w < x
      BY <2>w, <2>3, <3>3, <3>4
    <3>5. CASE x <= w
      <4>1. PICK g \in 1..b : t[g] = w
        BY <1>6, <2>w, <3>3, <3>5
      <4>2. g < j
        <5>1. j \in 1..b /\ (j < g => t[j] < t[g])
          BY <1>4
        <5>2. t[g] < t[j]
          BY <2>w, <3>3, <4>1
        <5>3. ~(t[j] < t[g]) /\ g # j
          BY <3>3, <4>1, <5>2
        <5> QED
          BY <5>1, <5>3
      <4>3. g = h \/ g < h
        BY <3>2, <4>2
      <4>4. t[g] <= t[h]
        BY <1>4, <2>w, <3>3, <4>1, <4>3
      <4> QED
        BY <2>3, <3>3, <4>1, <4>4
    <3> QED
      BY <2>w, <3>4, <3>5
  <2> QED
    BY <2>1, <2>2, <2>3
<1>9. Covers(u, due, n)
  <2> SUFFICES ASSUME NEW w \in due, w < n PROVE \E i \in 1..(a + b) : u[i] = w
    BY <1>3 DEF Covers
  <2>w. w \in Nat
    OBVIOUS
  <2>1. CASE w < x
    <3>1. PICK i \in 1..a : s[i] = w
      BY <1>2, <2>1 DEF Covers
    <3>2. u[i] = w /\ i \in 1..(a + b)
      BY <1>3, <3>1
    <3> QED
      BY <3>2
  <2>2. CASE x <= w
    <3>1. PICK j \in 1..b : t[j] = w
      BY <1>6, <2>2
    <3>2. u[a + j] = w /\ a + j \in 1..(a + b)
      BY <1>3, <3>1
    <3> QED
      BY <3>2
  <2> QED
    BY <2>w, <2>1, <2>2
<1>10. Reaches(u, due, n)
  <2> SUFFICES ASSUME NEW w \in due, w < n PROVE a + b > 0 /\ w <= u[a + b]
    BY <1>3 DEF Reaches
  <2>w. w \in Nat
    OBVIOUS
  <2>1. CASE b = 0
    <3>1. w < x
      BY <1>6, <2>w, <2>1
    <3>2. a > 0 /\ w <= s[a] /\ u[a] = s[a]
      BY <1>3, <1>7, <3>1
    <3> QED
      BY <2>1, <3>2
  <2>2. CASE b > 0
    <3>1. b \in 1..b /\ u[a + b] = t[b] /\ t[b] \in Nat /\ x <= t[b]
      BY <1>3, <1>5, <2>2
    <3>2. CASE w < x
      BY <2>w, <2>2, <3>1, <3>2
    <3>3. CASE x <= w
      <4>1. PICK g \in 1..b : t[g] = w
        BY <1>6, <3>3
      <4>2. g = b \/ g < b
        OBVIOUS
      <4>3. t[g] <= t[b]
        BY <1>4, <2>w, <3>1, <4>1, <4>2
      <4> QED
        BY <2>2, <3>1, <4>1, <4>3
    <3> QED
      BY <2>w, <3>2, <3>3
  <2> QED
    BY <2>1, <2>2
<1> QED
  BY <1>8, <1>9, <1>10 DEF u

LEMMA HolesStart ==
  ASSUME BasicInv, BasicInv', FileSchedule', HolesInv,
         NEW sweeps \in TargetSweeps, NEW saveInterval \in SaveIntervals,
         Start(sweeps, saveInterval)
  PROVE  HolesInv'
<1>1. /\ pc = "off" /\ pc' \in {"top", "finished"} /\ (Saved' <=> Saved)
      /\ UNCHANGED <<stateFile, seriesFile>> /\ storage' = FALSE /\ (Predictable' => Predictable)
      /\ \/ stateFile = NoFile /\ ~Saved /\ progress' = FreshProgress /\ handler' = FreshHandler
         \/ Saved /\ progress' = stateFile.progress /\ handler' = stateFile.handler
  BY StartIs DEF Saved, Predictable
<1> SUFFICES ASSUME Predictable' PROVE HolesInv'
  BY DEF HolesInv
<1>2. PICK due \in SUBSET Nat : due = DueHere'
  BY ScheduleType DEF DueHere
<1>3. DueInFile' = DueInFile
  BY <1>1 DEF DueInFile
<1>4. <<>> \in Seq(Nat) /\ \A x \in Nat : Lists(<<>>, Among(due, x, x))
  <2>1. <<>> \in Seq(Nat)
    OBVIOUS
  <2> QED
    BY <2>1, ListsNone, NoneAmong
<1>5. \E x \in Nat : SeriesHas(x)'
  <2>1. CASE progress' = FreshProgress /\ handler' = FreshHandler
    <3>1. progress'.sweeps = 0 /\ handler'.timeseriesBuffer = <<>> /\ ~handler'.storageFileStarted
      BY <2>1 DEF FreshProgress, FreshHandler
    <3>2. \A w \in due : ~(w < 0)
      OBVIOUS
    <3>3. Covers(seriesFile', due, 0) /\ Reaches(seriesFile', due, 0)
      BY <3>2 DEF Covers, Reaches
    <3>4. Lists(handler'.timeseriesBuffer, Among(due, 0, 0))
      BY <1>4, <3>1
    <3>5. SeriesHas(0)'
      BY <1>1, <1>2, <3>1, <3>3, <3>4 DEF SeriesHas
    <3> QED
      BY <3>5
  <2>2. CASE Saved /\ progress' = stateFile.progress /\ handler' = stateFile.handler
    <3>1. PICK n \in Nat : n = stateFile.progress.sweeps
      BY <2>2, SeriesTypes
    <3>2. due = DueInFile
      BY <1>1, <1>2, <2>2 DEF FileSchedule, DueHere, DueInFile
    <3>3. /\ Covers(seriesFile, due, n) /\ Reaches(seriesFile, due, n)
          /\ stateFile.handler.timeseriesBuffer = <<>>
          /\ n > 0 => stateFile.handler.storageFileStarted
          /\ stateFile.handler.storageFileStarted => Gapless(seriesFile, due)
      BY <1>1, <2>2, <3>1, <3>2 DEF HolesInv
    <3>4. SeriesHas(n)'
      BY <1>1, <1>2, <1>4, <2>2, <3>1, <3>3 DEF SeriesHas
    <3> QED
      BY <3>4
  <2> QED
    BY <1>1, <2>1, <2>2
<1> QED
  BY <1>1, <1>3, <1>5 DEF HolesInv

LEMMA HolesSweep ==
  ASSUME BasicInv, CounterInv, TimedInv, HolesInv, Sweep
  PROVE  HolesInv'
<1>1. PICK b \in Nat, c \in Nat : MeasurementSweep(b, c)
  BY SweepIs
<1>2. /\ pc = "sweep" /\ (Saved' <=> Saved)
      /\ UNCHANGED <<parsmc, storage, stateFile, seriesFile, wasRetimed, wasMisaligned>>
  BY DEF Sweep, Saved, past
<1>3. progress'.sweeps = b + 1 /\ progress.sweeps = b /\ pc' \in {"saveResults", "endSweep"}
  BY <1>1 DEF MeasurementSweep
<1> SUFFICES ASSUME Predictable PROVE HolesInv'
  BY <1>2 DEF HolesInv, Predictable
<1>4. PICK due \in SUBSET Nat : due = DueHere
  BY ScheduleType DEF DueHere
<1>5. DueHere' = due /\ DueInFile' = DueInFile
  BY <1>2, <1>4 DEF DueHere, DueInFile
<1>6. PICK x \in Nat : SeriesHas(x)
  BY <1>2 DEF HolesInv
<1>7. PICK t \in Seq(Nat) : t = handler.timeseriesBuffer
  BY SeriesTypes
<1>8. x <= b /\ Lists(t, Among(due, x, b))
  BY <1>3, <1>4, <1>6, <1>7 DEF SeriesHas
<1>9. /\ b \in due => handler'.timeseriesBuffer = Append(t, b)
      /\ b \notin due => handler'.timeseriesBuffer = t
  BY <1>1, <1>4, <1>7, Inserted, SampledWhenDue DEF DueHere
<1>10. Lists(handler'.timeseriesBuffer, Among(due, x, b + 1))
  BY <1>8, <1>9, ListsMore
<1>11. handler'.storageFileStarted = handler.storageFileStarted
  BY <1>1, Inserted
<1>12. SeriesHas(x)'
  BY <1>2, <1>3, <1>4, <1>5, <1>6, <1>8, <1>10, <1>11 DEF SeriesHas
<1> QED
  BY <1>2, <1>5, <1>12 DEF HolesInv

LEMMA HolesSaveResults ==
  ASSUME BasicInv, FileSchedule, KeptInv, HolesInv, SaveResults
  PROVE  HolesInv'
<1>1. /\ pc = "saveResults" /\ pc' = "saveState" /\ storage' = TRUE
      /\ handler'.timeseriesBuffer = <<>> /\ handler'.storageFileStarted = TRUE
      /\ UNCHANGED <<parsmc, progress, stateFile, wasRetimed, wasMisaligned>> /\ (Saved' <=> Saved)
  BY SavingIs DEF Saved
<1> SUFFICES ASSUME Predictable PROVE HolesInv'
  BY <1>1 DEF HolesInv, Predictable
<1>2. PICK due \in SUBSET Nat : due = DueHere
  BY ScheduleType DEF DueHere
<1>3. DueHere' = due /\ DueInFile' = DueInFile /\ (Saved => DueInFile = due)
  BY <1>1, <1>2 DEF DueHere, DueInFile, FileSchedule
<1>4. PICK x \in Nat, n \in Nat : n = progress.sweeps /\ SeriesHas(x)
  BY <1>1, SeriesTypes DEF HolesInv
<1>5. PICK s \in Seq(Nat), t \in Seq(Nat) : s = SeriesBefore /\ t = handler.timeseriesBuffer
  <2>1. SeriesBefore \in Seq(Nat)
    <3>1. <<>> \in Seq(Nat)
      OBVIOUS
    <3> QED
      BY <3>1, SeriesTypes DEF SeriesBefore
  <2> QED
    BY <2>1, SeriesTypes
<1>6. Gapless(s, due) /\ Covers(s, due, x) /\ Reaches(s, due, x)
  <2>1. CASE storage \/ handler.storageFileStarted
    BY <1>2, <1>4, <1>5, <2>1 DEF SeriesBefore, SeriesHas
  <2>2. CASE ~(storage \/ handler.storageFileStarted)
    <3>1. x = 0 /\ s = <<>>
      BY <1>4, <1>5, <2>2 DEF SeriesBefore, SeriesHas
    <3>2. \A w \in due : ~(w < 0)
      OBVIOUS
    <3> QED
      BY <3>1, <3>2 DEF Gapless, Covers, Reaches
  <2> QED
    BY <2>1, <2>2
<1>7. x <= n /\ Lists(t, Among(due, x, n))
  BY <1>2, <1>4, <1>5 DEF SeriesHas
<1>8. PICK u \in Seq(Nat) : u = s \o t /\ u = seriesFile'
  <2>1. s \o t \in Seq(Nat)
    BY ConcatProperties
  <2>2. seriesFile' = s \o t
    BY <1>5 DEF SaveResults
  <2> QED
    BY <2>1, <2>2
<1>9. Gapless(u, due) /\ Covers(u, due, n) /\ Reaches(u, due, n)
  BY <1>6, <1>7, <1>8, Extended
<1>10. SeriesHas(n)'
  <2>1. Lists(<<>>, Among(due, n, n))
    <3>1. <<>> \in Seq(Nat)
      OBVIOUS
    <3> QED
      BY <3>1, ListsNone, NoneAmong
  <2> QED
    BY <1>1, <1>3, <1>4, <1>8, <1>9, <2>1 DEF SeriesHas
<1>11. Saved => /\ Covers(u, due, stateFile.progress.sweeps)
                /\ Reaches(u, due, stateFile.progress.sweeps)
  <2> SUFFICES ASSUME Saved
               PROVE  /\ Covers(u, due, stateFile.progress.sweeps)
                      /\ Reaches(u, due, stateFile.progress.sweeps)
    OBVIOUS
  <2>1. PICK h \in Nat : h = stateFile.progress.sweeps
    BY SeriesTypes
  <2>2. h <= n
    BY <1>1, <1>4, <2>1 DEF KeptInv
  <2> QED
    BY <1>9, <2>1, <2>2, FewerCovered
<1> QED
  BY <1>1, <1>3, <1>8, <1>9, <1>10, <1>11 DEF HolesInv

LEMMA HolesWrite ==
  ASSUME BasicInv, HolesInv, WriteStateFile
  PROVE  HolesInv'
<1>1. /\ pc = "writeState" /\ Saved' /\ UNCHANGED <<seriesFile, wasRetimed, wasMisaligned>>
      /\ stateFile'.progress = progress /\ stateFile'.handler = handler
      /\ stateFile'.parsmc = parsmc
      /\ \/ pc' = "off"
         \/ pc' = "endSweep" /\ UNCHANGED <<parsmc, progress, handler, storage>>
  BY SavingIs, FilesAreThere DEF EndSession
<1> SUFFICES ASSUME Predictable PROVE HolesInv'
  BY <1>1 DEF HolesInv, Predictable
<1>2. PICK x \in Nat : SeriesHas(x)
  BY <1>1 DEF HolesInv
<1>3. DueInFile' = DueHere
  BY <1>1 DEF DueInFile, DueHere
<1>4. pc' # "off" => SeriesHas(x)'
  BY <1>1, <1>2 DEF SeriesHas, DueHere
<1>5. /\ Covers(seriesFile, DueHere, progress.sweeps)
      /\ Reaches(seriesFile, DueHere, progress.sweeps)
      /\ handler.timeseriesBuffer = <<>>
      /\ progress.sweeps > 0 => handler.storageFileStarted
      /\ handler.storageFileStarted => Gapless(seriesFile, DueHere)
  BY <1>1, <1>2 DEF SeriesHas
<1> QED
  BY <1>1, <1>3, <1>4, <1>5 DEF HolesInv

(* A step that moves the session on with its progress and series unchanged *)
LEMMA HolesAside ==
  ASSUME BasicInv, HolesInv, pc # "off", pc' # "off",
         progress'.sweeps = progress.sweeps,
         UNCHANGED <<parsmc, handler, storage, stateFile, seriesFile, wasRetimed, wasMisaligned>>,
         pc' \in {"saveState", "writeState"} =>
           progress.sweeps = 0 \/ pc \in {"saveState", "writeState"}
  PROVE  HolesInv'
<1> SUFFICES ASSUME Predictable PROVE HolesInv'
  BY DEF HolesInv, Predictable
<1>1. PICK x \in Nat : SeriesHas(x)
  BY DEF HolesInv
<1>2. pc' \in {"saveState", "writeState"} =>
        /\ x = progress.sweeps /\ handler.timeseriesBuffer = <<>>
        /\ progress.sweeps > 0 => handler.storageFileStarted
  <2>1. CASE progress.sweeps = 0
    <3>1. x = 0
      BY <1>1, <2>1 DEF SeriesHas
    <3>2. Lists(handler.timeseriesBuffer, Among(DueHere, 0, 0))
      BY <1>1, <2>1, <3>1 DEF SeriesHas
    <3>3. handler.timeseriesBuffer = <<>>
      BY <3>2, SeriesTypes, ListsBeforeFirst DEF DueHere
    <3> QED
      BY <2>1, <3>1, <3>3
  <2>2. CASE pc \in {"saveState", "writeState"}
    BY <1>1, <2>2 DEF SeriesHas
  <2> QED
    BY <2>1, <2>2
<1>3. SeriesHas(x)'
  BY <1>1, <1>2 DEF SeriesHas, DueHere
<1> QED
  BY <1>3 DEF HolesInv, Saved, DueInFile

LEMMA HolesNext ==
  /\ BasicInv /\ BasicInv' /\ CounterInv /\ TimedInv /\ FileSchedule /\ FileSchedule'
  /\ KeptInv /\ HolesInv /\ [Next]_vars
  => HolesInv'
<1> SUFFICES ASSUME BasicInv, BasicInv', CounterInv, TimedInv, FileSchedule, FileSchedule',
                    KeptInv, HolesInv, [Next]_vars
             PROVE  HolesInv'
  OBVIOUS
<1>1. ASSUME NEW sweeps \in TargetSweeps, NEW saveInterval \in SaveIntervals,
             Start(sweeps, saveInterval)
      PROVE  HolesInv'
  BY <1>1, HolesStart
<1>2. ASSUME NEW stop \in BOOLEAN, CheckStop(stop) PROVE HolesInv'
  <2>1. /\ pc = "top" /\ pc' \in {"saveResults", "saveState", "sweep"}
        /\ (pc' = "saveState" => stage # "M")
        /\ UNCHANGED <<parsmc, progress, handler, storage, stateFile, seriesFile,
                       wasRetimed, wasMisaligned>>
    BY <1>2 DEF CheckStop, StartOfSave, disk, past
  <2>2. pc' = "saveState" => progress.sweeps = 0
    BY <2>1 DEF BasicInv, StageInv, TypesInv
  <2> QED
    BY <2>1, <2>2, HolesAside
<1>3. CASE SweepThermalization
  <2>1. /\ pc = "sweep" /\ pc' \in {"saveState", "endSweep"}
        /\ progress.sweeps = 0 /\ progress'.sweeps = 0
        /\ UNCHANGED <<parsmc, handler, storage, stateFile, seriesFile,
                       wasRetimed, wasMisaligned>>
    BY <1>3, ThermalizationIs
  <2> QED
    BY <2>1, HolesAside
<1>4. CASE Sweep
  BY <1>4, HolesSweep
<1>5. CASE EndSweep
  <2>1. /\ pc = "endSweep" /\ pc' \in {"top", "sweep", "finished"}
        /\ progress'.sweeps = progress.sweeps
        /\ UNCHANGED <<parsmc, handler, storage, stateFile, seriesFile,
                       wasRetimed, wasMisaligned>>
    BY <1>5, EndSweepIs
  <2> QED
    BY <2>1, HolesAside
<1>6. CASE SaveResults
  BY <1>6, HolesSaveResults
<1>7. CASE OpenStateFile
  <2>1. /\ pc = "saveState" /\ pc' = "writeState" /\ ~Saved'
        /\ UNCHANGED <<parsmc, progress, handler, storage, seriesFile,
                       wasRetimed, wasMisaligned>>
    BY <1>7, SavingIs DEF Saved
  <2> SUFFICES ASSUME Predictable PROVE HolesInv'
    BY <2>1 DEF HolesInv, Predictable
  <2>2. PICK x \in Nat : SeriesHas(x)
    BY <2>1 DEF HolesInv
  <2>3. SeriesHas(x)'
    BY <2>1, <2>2 DEF SeriesHas, DueHere
  <2> QED
    BY <2>1, <2>3 DEF HolesInv
<1>8. CASE WriteStateFile
  BY <1>8, HolesWrite
<1>9. CASE Finish \/ Killed
  <2>1. pc' = "off" /\ UNCHANGED <<stateFile, seriesFile, wasRetimed, wasMisaligned>>
    BY <1>9, OverIs DEF EndSession
  <2> QED
    BY <2>1 DEF HolesInv, Saved, Predictable, DueInFile
<1>10. CASE UNCHANGED vars
  <2>1. UNCHANGED <<pc, parsmc, progress, handler, storage, stateFile, seriesFile,
                    wasRetimed, wasMisaligned>>
    BY <1>10 DEF vars, memory, disk, past
  <2>2. \A x \in Nat : SeriesHas(x)' <=> SeriesHas(x)
    BY <2>1 DEF SeriesHas, DueHere
  <2> QED
    BY <2>1, <2>2 DEF HolesInv, Saved, Predictable, DueInFile
<1> QED
  BY <1>1, <1>2, <1>3, <1>4, <1>5, <1>6, <1>7, <1>8, <1>9, <1>10 DEF Next, Rest

(* Wherever sessions are killed, and whatever the intervals, the series    *)
(* file holds every measurement that was due before the state file and, if *)
(* this simulation started it, never skips one that was due.  It does so   *)
(* under changes of saveInterval, too, if every one is a multiple of       *)
(* measureInterval.                                                        *)
THEOREM SeriesIsWhole == Spec => []SeriesHasNoHoles
<1>1. Init => HolesInv
  BY DEF Init, Idle, HolesInv, Saved
<1>2. BasicInv /\ HolesInv => SeriesHasNoHoles
  <2> SUFFICES ASSUME BasicInv, HolesInv, Saved, Predictable
               PROVE  /\ DueBefore(stateFile.progress.sweeps, MeasureInterval,
                                   stateFile.parsmc.saveInterval)
                           \subseteq {seriesFile[i] : i \in 1..Len(seriesFile)}
                      /\ stateFile.handler.storageFileStarted =>
                           \A i \in 1..Len(seriesFile) :
                             \A w \in DueBefore(seriesFile[i], MeasureInterval,
                                                stateFile.parsmc.saveInterval) :
                               i > 1 /\ w <= seriesFile[i - 1]
    BY DEF SeriesHasNoHoles
  <2>1. \A n \in Nat : DueBefore(n, MeasureInterval, stateFile.parsmc.saveInterval)
                         = Among(DueInFile, 0, n)
    BY DueBeforeIs DEF DueInFile
  <2>2. /\ Covers(seriesFile, DueInFile, stateFile.progress.sweeps)
        /\ stateFile.handler.storageFileStarted => Gapless(seriesFile, DueInFile)
    BY DEF HolesInv
  <2>3. /\ stateFile.progress.sweeps \in Nat
        /\ \A i \in 1..Len(seriesFile) : seriesFile[i] \in Nat
    BY SeriesTypes
  <2>4. DueBefore(stateFile.progress.sweeps, MeasureInterval, stateFile.parsmc.saveInterval)
          \subseteq {seriesFile[i] : i \in 1..Len(seriesFile)}
    BY <2>1, <2>2, <2>3 DEF Covers, Among
  <2>5. ASSUME stateFile.handler.storageFileStarted, NEW i \in 1..Len(seriesFile),
               NEW w \in DueBefore(seriesFile[i], MeasureInterval, stateFile.parsmc.saveInterval)
        PROVE  i > 1 /\ w <= seriesFile[i - 1]
    BY <2>1, <2>2, <2>3, <2>5 DEF Gapless, Among
  <2> QED
    BY <2>4, <2>5
<1> QED
  BY <1>1, <1>2, HolesNext, ScheduleOfFile, BasicAlways, CounterAlways, TimedAlways, KeptAlways, PTL
     DEF Spec

-----------------------------------------------------------------------------
(* Jackknife blocks                                                        *)

(* How many of the first q measurements are not among the d that come      *)
(* after the first x.                                                      *)
Outside(q, x, d) == IF q <= x THEN q ELSE IF x + d <= q THEN q - d ELSE x

(* With d measurements to each of the JkBlocks blocks, block number b      *)
(* holds all samples of the n sweeps done but those of its own sweeps, as  *)
(* long as every sweep whose number measureInterval divides is measured.   *)
EvenBlocks(par, n, hand, d) ==
  /\ par.sweeps = JkBlocks * (MeasureInterval * d)
  /\ hand.lastSweepLogged = (IF n \div MeasureInterval = 0 THEN 0
                             ELSE MeasureInterval * (n \div MeasureInterval) - 1)
  /\ Len(hand.total) = n \div MeasureInterval
  /\ \A b \in Blocks : Len(hand.jkBlockValues[b]) = Outside(n \div MeasureInterval, b * d, d)

BlocksAreEven(par, n, hand) ==
  ~par.sweepsHasChanged => \E d \in Nat \ {0} : EvenBlocks(par, n, hand, d)

JackknifeInv ==
  /\ ~wasMisaligned =>
       /\ pc # "off" => BlocksAreEven(parsmc, progress.sweeps, handler)
       /\ Saved => BlocksAreEven(stateFile.parsmc, stateFile.progress.sweeps, stateFile.handler)
  /\ JackknifeNormalised

LEMMA PositiveFactor ==
  ASSUME NEW k \in Nat \ {0}, NEW d \in Int, k * d > 0
  PROVE  d > 0
<1> SUFFICES ASSUME ~(d > 0) PROVE FALSE
  OBVIOUS
<1>1. CASE d = 0
  BY <1>1
<1>2. CASE d # 0
  <2>1. -d \in Int /\ -d >= 1 /\ k * (-d) = -(k * d)
    BY <1>2
  <2>2. k * (-d) >= k
    BY <2>1, ProductAtLeast
  <2> QED
    BY <2>1, <2>2
<1> QED
  BY <1>1, <1>2

LEMMA QuotientIs ==
  ASSUME NEW n \in Nat, NEW m \in Nat \ {0}, NEW e \in Int, NEW s \in 0..(m - 1), n = m * e + s
  PROVE  n \div m = e
<1>1. PICK f \in Int, t \in 0..(m - 1) : f = n \div m /\ n = m * f + t
  BY Division
<1>2. f = e
  BY <1>1, DivisionUnique
<1> QED
  BY <1>1, <1>2

(* In whose block a measured sweep lies                                    *)
LEMMA BlockOfSweep ==
  ASSUME NEW k \in Nat \ {0}, NEW d \in Nat \ {0}, NEW q \in Nat, NEW b \in Nat,
         NEW m \in Nat \ {0}, m = k * d,
         NEW n \in Nat, n = k * q + (k - 1)
  PROVE  b = n \div m <=> b * d <= q /\ q < b * d + d
<1>1. PICK e \in Int, r \in 0..(d - 1) : e = q \div d /\ q = d * e + r
  BY Division
<1>2. PICK s \in Int : s = k * r + (k - 1)
  OBVIOUS
<1>3. s \in 0..(m - 1)
  <2>1. k * (d - r) >= k /\ k * (d - r) = k * d - k * r
    <3>1. d - r \in Int /\ d - r >= 1
      OBVIOUS
    <3> QED
      BY <3>1, ProductAtLeast
  <2>2. k * r >= 0
    OBVIOUS
  <2> QED
    BY <1>2, <2>1, <2>2
<1>4. n = m * e + s
  <2>1. k * q = k * (d * e) + k * r
    BY <1>1
  <2>2. k * (d * e) = m * e
    OBVIOUS
  <2>3. PICK u \in Int, v \in Int, w \in Int : u = k * q /\ v = m * e /\ w = k * r
    OBVIOUS
  <2>4. u = v + w
    BY <2>1, <2>2, <2>3
  <2>5. n = u + (k - 1) /\ s = w + (k - 1)
    BY <1>2, <2>3
  <2>6. n = v + s
    BY <2>3, <2>4, <2>5
  <2> QED
    BY <2>3, <2>6
<1>5. n \div m = e
  BY <1>3, <1>4, QuotientIs
<1>6. b = e => b * d <= q /\ q < b * d + d
  <2>1. d * e = e * d
    OBVIOUS
  <2> QED
    BY <1>1, <2>1
<1>7. b * d <= q /\ q < b * d + d => b = e
  <2> SUFFICES ASSUME b * d <= q, q < b * d + d PROVE b = e
    OBVIOUS
  <2>1. b * d = d * b
    OBVIOUS
  <2>2. PICK t \in 0..(d - 1) : t = q - d * b
    BY <2>1
  <2>3. d * b + t = d * e + r
    BY <1>1, <2>2
  <2> QED
    BY <2>3, DivisionUnique
<1> QED
  BY <1>5, <1>6, <1>7

(* A measurement beyond the first q is outside of the block or not.        *)
LEMMA OutsideMore ==
  ASSUME NEW q \in Nat, NEW x \in Nat, NEW d \in Nat \ {0}
  PROVE  /\ x <= q /\ q < x + d => Outside(q + 1, x, d) = Outside(q, x, d)
         /\ ~(x <= q /\ q < x + d) => Outside(q + 1, x, d) = Outside(q, x, d) + 1
BY DEF Outside

LEMMA MeasuringSweep ==
  ASSUME BasicInv, CounterInv, ~wasMisaligned, NEW b \in Nat, NEW c \in Nat,
         MeasurementSweep(b, c), Sweep
  PROVE  (c + 1) % MeasureInterval = (b + 1) % MeasureInterval
<1>1. PICK k \in Nat \ {0} : k = MeasureInterval
  BY ParametersAssumption
<1>2. c % k = b % k
  BY <1>1 DEF CounterInv, Counting, MeasurementSweep, Sweep
<1>3. (c + 1) % k = (b + 1) % k
  BY <1>2, InStepModulo
<1> QED
  BY <1>1, <1>3

LEMMA LoggedHandler ==
  ASSUME BasicInv, Sweep, NEW n \in Nat, NEW c \in Nat, MeasurementSweep(n, c)
  PROVE  /\ (c + 1) % MeasureInterval = 0 =>
              handler'.lastSweepLogged = n /\ handler'.jkBlockValues = IntoJkBlocks(n)
         /\ (c + 1) % MeasureInterval # 0 => handler' = handler
<1>1. handler' = IF (c + 1) % MeasureInterval = 0 THEN InsertValue(n) ELSE handler
  BY DEF Sweep, MeasurementSweep
<1>2. PICK x, y, z, u, v : handler = [lastSweepLogged |-> x, total |-> y, jkBlockValues |-> z,
                                      timeseriesBuffer |-> u, storageFileStarted |-> v]
  BY DEF Handlers, BasicInv, TypesInv
<1>3. PICK w, y1, u1 : /\ w = IntoJkBlocks(n) /\ y1 = Append(handler.total, n)
                       /\ u1 = Append(handler.timeseriesBuffer, n)
  OBVIOUS
<1>4. InsertValue(n) = [handler EXCEPT !.lastSweepLogged = n, !.total = y1,
                                       !.jkBlockValues = w, !.timeseriesBuffer = u1]
  BY <1>3 DEF InsertValue
<1>5. InsertValue(n) = [lastSweepLogged |-> n, total |-> y1, jkBlockValues |-> w,
                        timeseriesBuffer |-> u1, storageFileStarted |-> v]
  BY <1>2, <1>4
<1>6. InsertValue(n).lastSweepLogged = n /\ InsertValue(n).jkBlockValues = w
  BY <1>5
<1> QED
  BY <1>1, <1>3, <1>6

LEMMA BlocksStart ==
  ASSUME \A n \in TargetSweeps : (n \div JkBlocks) % MeasureInterval = 0,
         BasicInv, JackknifeInv,
         NEW sweeps \in TargetSweeps, NEW saveInterval \in SaveIntervals,
         Start(sweeps, saveInterval)
  PROVE  JackknifeInv'
<1>1. /\ pc = "off" /\ UNCHANGED <<stateFile, resultsFile>> /\ (~wasMisaligned' => ~wasMisaligned)
      /\ \/ /\ stateFile = NoFile /\ progress' = FreshProgress /\ handler' = FreshHandler
            /\ parsmc'.sweeps = sweeps /\ Checked(parsmc')
         \/ Saved /\ progress' = stateFile.progress /\ handler' = stateFile.handler
  BY StartIs
<1>2. CASE StartFresh(sweeps, saveInterval)
  <2>1. /\ progress'.sweeps = 0 /\ handler'.lastSweepLogged = 0 /\ handler'.total = <<>>
        /\ \A b \in Blocks : handler'.jkBlockValues[b] = <<>>
        /\ parsmc'.sweeps = sweeps /\ sweeps % JkBlocks = 0
    BY <1>2 DEF StartFresh, EnterRun, FreshProgress, FreshHandler, Checked
  <2>2. 0 \div MeasureInterval = 0
    <3>1. PICK k \in Nat \ {0} : k = MeasureInterval
      BY ParametersAssumption
    <3>2. 0 = k * 0 + 0 /\ 0 \in 0..(k - 1) /\ 0 \in Int
      OBVIOUS
    <3>3. 0 \div k = 0
      BY <3>2, QuotientIs
    <3> QED
      BY <3>1, <3>3
  <2>3. PICK k \in Nat \ {0}, j \in Nat \ {0}, n \in Nat \ {0} :
          k = MeasureInterval /\ j = JkBlocks /\ n = sweeps
    BY ParametersAssumption
  <2>4. n = j * (n \div j) + 0 /\ n \div j \in Int /\ (n \div j) % k = 0
    BY <2>1, <2>3, Division
  <2>5. PICK m \in Int : m = n \div j /\ n = j * m /\ m % k = 0
    BY <2>4
  <2>6. m > 0
    BY <2>5, PositiveFactor
  <2>7. m = k * (m \div k) + 0 /\ m \div k \in Int
    BY <2>5, Division
  <2>8. PICK d \in Int : m = k * d
    BY <2>7
  <2>9. d \in Nat \ {0}
    <3>1. d > 0
      BY <2>6, <2>8, PositiveFactor
    <3> QED
      BY <3>1
  <2>10. \A b \in Blocks : Outside(0, b * d, d) = 0
    <3> TAKE b \in Blocks
    <3>1. b \in Nat
      BY ParametersAssumption DEF Blocks
    <3>2. b * d >= 0
      BY <2>9, <3>1
    <3> QED
      BY <3>2 DEF Outside
  <2>11. sweeps = JkBlocks * (MeasureInterval * d)
    BY <2>3, <2>5, <2>8
  <2>12. EvenBlocks(parsmc', progress'.sweeps, handler', d)
    BY <2>1, <2>2, <2>10, <2>11 DEF EvenBlocks
  <2> QED
    BY <1>1, <2>9, <2>12 DEF JackknifeInv, BlocksAreEven, JackknifeNormalised, Saved
<1>3. CASE Resume(sweeps, saveInterval)
  <2>1. /\ Saved /\ progress' = stateFile.progress /\ handler' = stateFile.handler
        /\ parsmc' = ResumedParameters(stateFile.parsmc, sweeps, saveInterval)
    BY <1>3 DEF Resume, EnterRun, LoadedHandler, Saved
  <2>2. /\ stateFile.parsmc.sweepsHasChanged \in BOOLEAN
        /\ stateFile.parsmc.sweeps \in Nat /\ sweeps \in Nat
    BY <2>1, StateFilesAre, ParametersAssumption DEF BasicInv, TypesInv, Parameters
  <2>3. ~parsmc'.sweepsHasChanged =>
          ~stateFile.parsmc.sweepsHasChanged /\ parsmc'.sweeps = stateFile.parsmc.sweeps
    BY <2>1, <2>2 DEF ResumedParameters
  <2>4. ~wasMisaligned =>
          BlocksAreEven(stateFile.parsmc, stateFile.progress.sweeps, stateFile.handler)
    BY <2>1 DEF JackknifeInv
  <2>5. ~wasMisaligned => BlocksAreEven(parsmc', progress'.sweeps, handler')
    BY <2>1, <2>3, <2>4 DEF BlocksAreEven, EvenBlocks
  <2> QED
    BY <1>1, <2>4, <2>5 DEF JackknifeInv, JackknifeNormalised, Saved
<1> QED
  BY <1>2, <1>3 DEF Start

LEMMA BlocksSweep ==
  ASSUME BasicInv, CounterInv, JackknifeInv, Sweep
  PROVE  JackknifeInv'
<1>1. PICK n \in Nat, c \in Nat : MeasurementSweep(n, c)
  BY SweepIs
<1>2. PICK k \in Nat \ {0}, j \in Nat \ {0} : k = MeasureInterval /\ j = JkBlocks
  BY ParametersAssumption
<1>3. ~wasMisaligned => (c + 1) % k = (n + 1) % k
  BY <1>1, <1>2, MeasuringSweep
<1>4. /\ progress.sweeps = n /\ progress'.sweeps = n + 1
      /\ pc # "off" /\ UNCHANGED <<parsmc, stateFile, resultsFile, wasMisaligned>>
  BY <1>1 DEF Sweep, MeasurementSweep, past
<1>5. ASSUME ~parsmc.sweepsHasChanged, ~wasMisaligned
      PROVE  \E d \in Nat \ {0} : EvenBlocks(parsmc, n + 1, handler', d)
  <2>1. PICK d \in Nat \ {0} : EvenBlocks(parsmc, n, handler, d)
    BY <1>4, <1>5 DEF JackknifeInv, BlocksAreEven
  <2>2. PICK q \in Nat : q = n \div k
    BY QuotientNat
  <2>3. CASE (c + 1) % k # 0
    <3>1. (n + 1) \div k = n \div k
      BY <1>3, <1>5, <2>3, OneMore
    <3>2. handler' = handler
      BY <1>1, <1>2, <2>3, LoggedHandler
    <3>3. EvenBlocks(parsmc, n + 1, handler', d)
      BY <1>2, <2>1, <3>1, <3>2 DEF EvenBlocks
    <3> QED
      BY <3>3
  <2>4. CASE (c + 1) % k = 0
    <3>1. n % k = k - 1
      <4>1. n % k \in 0..(k - 1)
        BY Division
      <4>2. n % k # k - 1 => (n + 1) % k = (n % k) + 1
        BY OneMore
      <4> QED
        BY <1>3, <1>5, <2>4, <4>1, <4>2
    <3>2. n = k * q + (k - 1) /\ (n + 1) \div k = q + 1 /\ k * (q + 1) = n + 1
      <4>1. n = k * (n \div k) + (n % k)
        BY Division
      <4>2. (n + 1) \div k = n \div k + 1 /\ k * ((n + 1) \div k) = n + 1
        BY <3>1, OneMore
      <4> QED
        BY <2>2, <3>1, <4>1, <4>2
    <3>3. PICK m \in Nat \ {0} : m = k * d
      <4>1. k * d >= k
        BY ProductAtLeast
      <4>2. k * d \in Int
        OBVIOUS
      <4>3. k * d \in Nat \ {0}
        BY <4>1, <4>2
      <4> QED
        BY <4>3
    <3>4. parsmc.sweeps = j * m /\ parsmc.sweeps \in Nat
      BY <1>2, <2>1, <3>3 DEF EvenBlocks, BasicInv, TypesInv, Parameters
    <3>5. JkBlockSizeSweeps = m
      <4>1. parsmc.sweeps = j * m + 0 /\ 0 \in 0..(j - 1)
        BY <3>4
      <4>2. parsmc.sweeps \div j = m
        BY <3>4, <4>1, QuotientIs
      <4> QED
        BY <1>2, <4>2 DEF JkBlockSizeSweeps
    <3>6. handler'.lastSweepLogged = n /\ handler'.jkBlockValues = IntoJkBlocks(n)
      BY <1>1, <1>2, <2>4, LoggedHandler
    <3>7. \A b \in Blocks : Len(handler'.jkBlockValues[b]) = Outside(q + 1, b * d, d)
      <4> TAKE b \in Blocks
      <4>1. b \in Nat /\ handler.jkBlockValues[b] \in Seq(Nat)
        BY ParametersAssumption DEF Blocks, BasicInv, TypesInv, Handlers
      <4>2. PICK x \in Nat : x = b * d
        <5>1. b * d \in Nat
          BY <4>1
        <5> QED
          BY <5>1
      <4>3. b = n \div m <=> x <= q /\ q < x + d
        BY <3>2, <3>3, <4>1, <4>2, BlockOfSweep
      <4>4. Len(handler.jkBlockValues[b]) = Outside(q, x, d)
        BY <1>2, <2>1, <2>2, <4>2 DEF EvenBlocks
      <4>5. handler'.jkBlockValues[b] = IF b # n \div m THEN Append(handler.jkBlockValues[b], n)
                                                        ELSE handler.jkBlockValues[b]
        BY <3>5, <3>6 DEF IntoJkBlocks
      <4>6. Len(Append(handler.jkBlockValues[b], n)) = Len(handler.jkBlockValues[b]) + 1
        BY <4>1
      <4>7. CASE b = n \div m
        BY <4>2, <4>3, <4>4, <4>5, <4>7, OutsideMore
      <4>8. CASE b # n \div m
        BY SMTT(30), <4>2, <4>3, <4>4, <4>5, <4>6, <4>8, OutsideMore
      <4> QED
        BY <4>7, <4>8
    <3>8. q + 1 # 0 /\ k * (q + 1) - 1 = n
      BY <3>2
    <3>9. Len(handler'.total) = q + 1
      <4>1. handler'.total = Append(handler.total, n) /\ handler.total \in Seq(Nat)
        BY <1>1, <1>2, <2>4, Inserted DEF BasicInv, TypesInv, Handlers
      <4>2. Len(handler.total) = q
        BY <1>2, <2>1, <2>2 DEF EvenBlocks
      <4> QED
        BY <4>1, <4>2
    <3>10. EvenBlocks(parsmc, n + 1, handler', d)
      BY <1>2, <2>1, <3>2, <3>6, <3>7, <3>8, <3>9 DEF EvenBlocks
    <3> QED
      BY <3>10
  <2> QED
    BY <2>3, <2>4
<1> QED
  BY <1>4, <1>5 DEF JackknifeInv, BlocksAreEven, JackknifeNormalised, Saved

(* The samples of a complete simulation, evenly spread                     *)
LEMMA LastSample ==
  ASSUME NEW k \in Nat \ {0}, NEW d \in Nat \ {0}, NEW j \in Nat \ {0}, NEW q \in Nat,
         NEW n \in Nat, n \div k = q, n <= j * (k * d)
  PROVE  q <= j * d
<1>1. PICK r \in 0..(k - 1) : n = k * q + r
  BY Division
<1>2. PICK e \in Int : e = j * d /\ j * (k * d) = k * e
  OBVIOUS
<1>3. ~(q - e >= 1)
  <2> SUFFICES ASSUME q - e >= 1 PROVE FALSE
    OBVIOUS
  <2>1. q - e \in Int /\ k * (q - e) >= k /\ k * (q - e) = k * q - k * e
    BY ProductAtLeast
  <2>2. PICK u \in Int, v \in Int : u = k * q /\ v = k * e
    OBVIOUS
  <2>3. u - v >= k /\ n = u + r /\ n <= v
    BY <1>1, <1>2, <2>1, <2>2
  <2> QED
    BY <2>3
<1> QED
  BY <1>2, <1>3

LEMMA NoneMissing ==
  ASSUME NEW k \in Nat \ {0}, NEW d \in Nat \ {0}, NEW j \in Nat \ {0}, j > 1, NEW q \in Nat,
         j * (k * d) - (IF q = 0 THEN 0 ELSE k * q - 1) <= k
  PROVE  q >= j * d
<1>1. PICK e \in Int : e = j * d /\ j * (k * d) = k * e
  OBVIOUS
<1>2. PICK u \in Int, v \in Int : u = k * e /\ v = k * q
  OBVIOUS
<1>3. CASE q = 0
  <2>1. e >= 2
    <3>1. d * (j - 1) >= d /\ d * (j - 1) = j * d - d
      <4>1. j - 1 \in Int /\ j - 1 >= 1
        OBVIOUS
      <4> QED
        BY <4>1, ProductAtLeast
    <3> QED
      BY <1>1, <3>1
  <2>2. k * (e - 1) >= k /\ k * (e - 1) = u - k
    <3>1. e - 1 \in Int /\ e - 1 >= 1
      BY <2>1
    <3> QED
      BY <1>2, <3>1, ProductAtLeast
  <2>3. u <= k
    BY <1>1, <1>2, <1>3
  <2> QED
    BY <2>2, <2>3
<1>4. CASE q # 0
  <2> SUFFICES ASSUME ~(q >= e) PROVE FALSE
    BY <1>1
  <2>1. k * (e - q) >= k /\ k * (e - q) = u - v
    <3>1. e - q \in Int /\ e - q >= 1
      OBVIOUS
    <3> QED
      BY <1>2, <3>1, ProductAtLeast
  <2>2. u - (v - 1) <= k
    BY <1>1, <1>2, <1>4
  <2> QED
    BY <2>1, <2>2
<1> QED
  BY <1>3, <1>4

LEMMA BlocksSaveResults ==
  ASSUME BasicInv, JackknifeInv, SaveResults
  PROVE  JackknifeInv'
<1>1. /\ pc = "saveResults" /\ UNCHANGED <<parsmc, progress, stateFile, wasMisaligned>>
      /\ resultsFile' = EvaluateJackknife
  BY SavingIs DEF SaveResults
<1>2. handler' = [lastSweepLogged |-> handler.lastSweepLogged, total |-> handler.total,
                  jkBlockValues |-> handler.jkBlockValues,
                  timeseriesBuffer |-> <<>>, storageFileStarted |-> TRUE]
  BY WrittenHandlerIs DEF SaveResults, BasicInv, TypesInv
<1>3. /\ handler'.lastSweepLogged = handler.lastSweepLogged
      /\ handler'.jkBlockValues = handler.jkBlockValues
      /\ handler'.total = handler.total
  BY <1>2
<1>4. ~wasMisaligned => BlocksAreEven(parsmc, progress.sweeps, handler)
  BY <1>1 DEF JackknifeInv
<1>5. ~wasMisaligned => BlocksAreEven(parsmc', progress'.sweeps, handler')
  BY <1>1, <1>3, <1>4 DEF BlocksAreEven, EvenBlocks
<1>6. ASSUME ~wasMisaligned, AtTheEnd, JkBlocks > 1, ~parsmc.sweepsHasChanged, NEW b \in Blocks
      PROVE  Len(handler.jkBlockValues[b]) = Len(handler.total) - Len(handler.total) \div JkBlocks
  <2>1. PICK d \in Nat \ {0} : EvenBlocks(parsmc, progress.sweeps, handler, d)
    BY <1>4, <1>6 DEF BlocksAreEven
  <2>2. PICK k \in Nat \ {0}, j \in Nat \ {0}, n \in Nat :
          k = MeasureInterval /\ j = JkBlocks /\ n = progress.sweeps
    BY ParametersAssumption, SeriesTypes
  <2>3. PICK q \in Nat : q = n \div k
    BY QuotientNat
  <2>4. Len(handler.total) = q
    BY <2>1, <2>2, <2>3 DEF EvenBlocks
  <2>5. n <= j * (k * d)
    BY <2>1, <2>2 DEF EvenBlocks, BasicInv, StageInv, Sound
  <2>6. j * (k * d) - (IF q = 0 THEN 0 ELSE k * q - 1) <= k
    BY <1>6, <2>1, <2>2, <2>3 DEF EvenBlocks, AtTheEnd
  <2>7. q = j * d
    <3>1. PICK e \in Int : e = j * d
      OBVIOUS
    <3>2. q <= e
      BY <2>3, <2>5, <3>1, LastSample
    <3>3. q >= e
      BY <1>6, <2>2, <2>6, <3>1, NoneMissing
    <3> QED
      BY <3>1, <3>2, <3>3
  <2>8. q \div j = d
    <3>1. q = j * d + 0 /\ 0 \in 0..(j - 1)
      BY <2>7
    <3> QED
      BY <3>1, QuotientIs
  <2>9. b \in Nat /\ b < j
    BY <2>2 DEF Blocks
  <2>10. PICK x \in Nat : x = b * d /\ x + d <= q
    <3>1. d * (j - b) >= d /\ d * (j - b) = j * d - b * d
      <4>1. j - b \in Int /\ j - b >= 1
        BY <2>9
      <4> QED
        BY <2>9, <4>1, ProductAtLeast
    <3>2. b * d \in Nat
      BY <2>9
    <3>3. b * d + d <= q
      BY <2>7, <3>1, <3>2
    <3> QED
      BY <3>2, <3>3
  <2>11. Outside(q, x, d) = q - d
    BY <2>10 DEF Outside
  <2>12. Len(handler.jkBlockValues[b]) = Outside(q, x, d)
    BY <2>1, <2>2, <2>3, <2>10 DEF EvenBlocks
  <2> QED
    BY <2>2, <2>4, <2>8, <2>11, <2>12
<1>7. JackknifeNormalised'
  <2> SUFFICES ASSUME ~wasMisaligned, EvaluateJackknife.errorEstimate, NEW b \in Blocks
               PROVE  EvaluateJackknife.jkSamples[b] = EvaluateJackknife.jkTotalSamples
    BY <1>1 DEF JackknifeNormalised
  <2>1. AtTheEnd /\ JkBlocks > 1 /\ ~parsmc.sweepsHasChanged
    BY DEF EvaluateJackknife
  <2>2. /\ EvaluateJackknife.jkSamples[b] = Len(handler.jkBlockValues[b])
        /\ EvaluateJackknife.jkTotalSamples = Len(handler.total) - Len(handler.total) \div JkBlocks
    BY DEF EvaluateJackknife
  <2> QED
    BY <1>6, <2>1, <2>2
<1> QED
  BY <1>1, <1>5, <1>7 DEF JackknifeInv, Saved

LEMMA BlocksNext ==
  ASSUME \A n \in TargetSweeps : (n \div JkBlocks) % MeasureInterval = 0
  PROVE  BasicInv /\ CounterInv /\ JackknifeInv /\ [Next]_vars => JackknifeInv'
<1> SUFFICES ASSUME BasicInv, CounterInv, JackknifeInv, [Next]_vars PROVE JackknifeInv'
  OBVIOUS
<1>1. ASSUME NEW sweeps \in TargetSweeps, NEW saveInterval \in SaveIntervals,
             Start(sweeps, saveInterval)
      PROVE  JackknifeInv'
  BY <1>1, BlocksStart
<1>2. ASSUME NEW stop \in BOOLEAN, CheckStop(stop) PROVE JackknifeInv'
  BY <1>2 DEF CheckStop, disk, past, JackknifeInv, JackknifeNormalised, Saved
<1>3. CASE SweepThermalization
  BY <1>3, ThermalizationIs DEF JackknifeInv, JackknifeNormalised, Saved
<1>4. CASE Sweep
  BY <1>4, BlocksSweep
<1>5. CASE EndSweep
  BY <1>5, EndSweepIs DEF JackknifeInv, JackknifeNormalised, Saved
<1>6. CASE SaveResults
  BY <1>6, BlocksSaveResults
<1>7. CASE OpenStateFile
  BY <1>7, SavingIs DEF JackknifeInv, JackknifeNormalised, Saved
<1>8. CASE WriteStateFile
  BY <1>8, SavingIs DEF JackknifeInv, JackknifeNormalised, Saved, EndSession
<1>9. CASE Finish \/ Killed
  BY <1>9, OverIs DEF JackknifeInv, JackknifeNormalised, Saved, EndSession
<1>10. CASE UNCHANGED vars
  BY <1>10 DEF vars, memory, disk, past, JackknifeInv, JackknifeNormalised, Saved
<1> QED
  BY <1>1, <1>2, <1>3, <1>4, <1>5, <1>6, <1>7, <1>8, <1>9, <1>10 DEF Next, Rest

(* If measureInterval divides the size of the jackknife blocks, the        *)
(* averages evaluateJackknife gives errors from are divided by the number  *)
(* of their samples, over any sessions, stopped or killed, that were given *)
(* no saveInterval that shifts the measurements.                           *)
THEOREM JackknifeIsNormalised ==
  ASSUME \A n \in TargetSweeps : (n \div JkBlocks) % MeasureInterval = 0
  PROVE  Spec => []JackknifeNormalised
<1>1. Init => JackknifeInv
  BY DEF Init, Idle, JackknifeInv, JackknifeNormalised, Saved
<1>2. BasicInv /\ CounterInv /\ JackknifeInv /\ [Next]_vars => JackknifeInv'
  BY BlocksNext
<1>3. JackknifeInv => JackknifeNormalised
  BY DEF JackknifeInv
<1> QED
  BY <1>1, <1>2, <1>3, BasicAlways, CounterAlways, PTL DEF Spec
=============================================================================
