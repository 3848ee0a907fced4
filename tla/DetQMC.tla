------------------------------- MODULE DetQMC -------------------------------
(***************************************************************************)
(* The serial driver DetQMC (src/src/detqmc.h) over several sessions: a    *)
(* session starts afresh or resumes from the state file, sweeps, saves     *)
(* periodically, and ends because it is finished, because it was asked to  *)
(* stop, or because the process is killed.  Between sessions the user may  *)
(* change the number of sweeps and the save interval.                      *)
(*                                                                         *)
(* A measured value, and a configuration in the configuration stream, is   *)
(* represented by the number of the sweep it was taken in; one observable  *)
(* stands for all of them.                                                 *)
(***************************************************************************)
EXTENDS Integers, Sequences, FiniteSets

CONSTANTS
  Thermalization,   \* parsmc.thermalization
  MeasureInterval,  \* parsmc.measureInterval
  ConfigInterval,   \* parsmc.saveConfigurationStreamInterval
  JkBlocks,         \* parsmc.jkBlocks
  TargetSweeps,     \* values the user gives for sweeps
  SaveIntervals,    \* values the user gives for saveInterval
  Unspecified,      \* member of SaveIntervals: the user gives none
  MayBeKilled,      \* whether sessions may be killed
  MaxSessions,      \* bound on the number of sessions
  NoFile,           \* the state file or results file does not exist
  Torn              \* the state file was opened but not written

ASSUME ParametersAssumption ==
  /\ Thermalization \in Nat /\ Thermalization % 2 = 0
  /\ MeasureInterval \in Nat \ {0}
  /\ ConfigInterval \in Nat \ {0} /\ ConfigInterval % MeasureInterval = 0
  /\ JkBlocks \in Nat \ {0}
  /\ TargetSweeps \subseteq Nat \ {0}
  /\ SaveIntervals \subseteq Nat /\ Unspecified = 0
  /\ MayBeKilled \in BOOLEAN
  /\ MaxSessions \in Nat

VARIABLES
  pc,                       \* where the session stands, "off" outside of one
  stage,                    \* T thermalization, M measurement, F finished
  exiting,                  \* the session was asked to stop
  parsmc,                   \* sweeps, saveInterval, sweepsHasChanged
  progress,                 \* sweepsDoneThermalization, sweepsDone, swCounter
  handler,                  \* the observable handler, see FreshHandler
  storage,                  \* the time series file is open
  stateFile,                \* disk: what DetQMC::saveState wrote
  seriesFile,               \* disk: the .series file
  streamFile,               \* disk: the configuration stream
  resultsFile,              \* disk: results.values
  sessions,
  wasKilled,                \* history: a session of this simulation was killed
  wasRetimed,               \* history: it resumed with another saveInterval
  wasMisaligned             \* history: of a saveInterval measureInterval does not divide

memory == <<pc, stage, exiting, parsmc, progress, handler, storage>>
disk   == <<stateFile, seriesFile, streamFile, resultsFile>>
past   == <<sessions, wasKilled, wasRetimed, wasMisaligned>>
vars   == <<memory, disk, past>>

Blocks == 0..(JkBlocks - 1)

FreshProgress == [therm |-> 0, sweeps |-> 0, counter |-> 0]

FreshHandler ==
  [lastSweepLogged    |-> 0,
   total              |-> <<>>,                     \* countValues is its length
   jkBlockValues      |-> [b \in Blocks |-> <<>>],
   timeseriesBuffer   |-> <<>>,
   storageFileStarted |-> FALSE]

NoParameters == [sweeps |-> 1, saveInterval |-> 1, sweepsHasChanged |-> FALSE]

Idle ==
  /\ pc = "off" /\ stage = "F" /\ exiting = FALSE /\ parsmc = NoParameters
  /\ progress = FreshProgress /\ handler = FreshHandler /\ storage = FALSE

Init ==
  /\ Idle
  /\ stateFile = NoFile /\ seriesFile = <<>> /\ streamFile = <<>> /\ resultsFile = NoFile
  /\ sessions = 0 /\ wasKilled = FALSE /\ wasRetimed = FALSE /\ wasMisaligned = FALSE

-----------------------------------------------------------------------------
(* Starting a session *)

(* DetQMCParams::check() for the parameters that can change. *)
Checked(par) ==
  /\ par.sweeps % 2 = 0 /\ par.saveInterval % 2 = 0
  /\ par.sweeps % JkBlocks = 0
  /\ MeasureInterval <= par.sweeps /\ par.sweeps % MeasureInterval = 0
  /\ par.saveInterval # 0 /\ par.sweeps % par.saveInterval = 0

(* Mistake: a finished simulation is not recognized. *)
FirstStageInclusive(par, prog) ==
  IF prog.therm < Thermalization THEN "T"
  ELSE IF prog.sweeps <= par.sweeps THEN "M" ELSE "F"
FirstStage(par, prog) ==
  IF prog.therm < Thermalization THEN "T"
  ELSE IF prog.sweeps < par.sweeps THEN "M" ELSE "F"

(* run() skips its loop when everything is finished; swCounter decides     *)
(* whether its first iteration looks at the wall time and the ABORT files. *)
(* (Mistake: every iteration looks.)                                       *)
LoopTopAlways(st, counter) == IF st = "F" THEN "finished" ELSE "top"
LoopTop(st, counter) ==
  IF st = "F" THEN "finished" ELSE IF counter % 2 = 0 THEN "top" ELSE "sweep"

EnterRun(par, prog, hand) ==
  /\ Checked(par)
  /\ parsmc' = par /\ progress' = prog /\ handler' = hand
  /\ stage' = FirstStage(par, prog)
  /\ pc' = LoopTop(FirstStage(par, prog), prog.counter)
  /\ exiting' = FALSE /\ storage' = FALSE
  /\ wasMisaligned' = (wasMisaligned \/ par.saveInterval % MeasureInterval # 0)

(* No state file: a new simulation.  An unspecified saveInterval means to  *)
(* save at the end only.                                                   *)
StartFresh(sweeps, saveInterval) ==
  /\ pc = "off" /\ sessions < MaxSessions
  /\ stateFile = NoFile
  /\ EnterRun([sweeps |-> sweeps, sweepsHasChanged |-> FALSE,
               saveInterval |-> IF saveInterval = Unspecified THEN sweeps ELSE saveInterval],
              FreshProgress, FreshHandler)
  /\ sessions' = sessions + 1
  /\ UNCHANGED <<disk, wasKilled, wasRetimed>>

(* The parameters of a resumed session: sweeps may grow, saveInterval may  *)
(* change.  (Mistake: sweepsHasChanged only tells of this session.)        *)
ResumedParametersForgetful(par, sweeps, saveInterval) ==
  [sweeps |-> IF sweeps > par.sweeps THEN sweeps ELSE par.sweeps,
   saveInterval |-> IF saveInterval # Unspecified THEN saveInterval ELSE par.saveInterval,
   sweepsHasChanged |-> sweeps > par.sweeps]
ResumedParameters(par, sweeps, saveInterval) ==
  [sweeps |-> IF sweeps > par.sweeps THEN sweeps ELSE par.sweeps,
   saveInterval |-> IF saveInterval # Unspecified THEN saveInterval ELSE par.saveInterval,
   sweepsHasChanged |-> par.sweepsHasChanged \/ sweeps > par.sweeps]

(* A state file: the simulation it holds is continued.  (Mistake: whether  *)
(* the series file was started is not serialized; no statistics are.)      *)
LoadedHandlerForgotten == FreshHandler
LoadedHandlerUnstarted == [stateFile.handler EXCEPT !.storageFileStarted = FALSE]
LoadedHandler == stateFile.handler

Resume(sweeps, saveInterval) ==
  /\ pc = "off" /\ sessions < MaxSessions
  /\ stateFile \notin {NoFile, Torn}
  /\ EnterRun(ResumedParameters(stateFile.parsmc, sweeps, saveInterval),
              stateFile.progress, LoadedHandler)
  /\ sessions' = sessions + 1
  /\ wasRetimed' = (wasRetimed \/ saveInterval \notin {Unspecified, stateFile.parsmc.saveInterval})
  /\ UNCHANGED <<disk, wasKilled>>

-----------------------------------------------------------------------------
(* Ending a session *)

EndSession ==
  /\ pc' = "off" /\ stage' = "F" /\ exiting' = FALSE /\ parsmc' = NoParameters
  /\ progress' = FreshProgress /\ handler' = FreshHandler /\ storage' = FALSE

Finish == pc = "finished" /\ EndSession /\ UNCHANGED <<disk, past>>

(* The process dies: what is on disk stays, everything else is lost. *)
Killed ==
  /\ MayBeKilled /\ pc # "off"
  /\ EndSession
  /\ wasKilled' = TRUE
  /\ UNCHANGED <<disk, sessions, wasRetimed, wasMisaligned>>

-----------------------------------------------------------------------------
(* run() *)

(* Saving starts with the results in the measurement stage only. *)
StartOfSave == IF stage = "M" THEN "saveResults" ELSE "saveState"

CheckStop(stop) ==
  /\ pc = "top"
  /\ exiting' = stop
  /\ pc' = IF stop THEN StartOfSave ELSE "sweep"
  /\ UNCHANGED <<stage, parsmc, progress, handler, storage, disk, past>>

SaveDue(counter) == counter = parsmc.saveInterval
ResetIfSaved(counter) == IF SaveDue(counter) THEN 0 ELSE counter

SweepThermalization ==
  /\ pc = "sweep" /\ stage = "T"
  /\ LET counter == progress.counter + 1 IN
       /\ progress' = [progress EXCEPT !.therm = @ + 1, !.counter = ResetIfSaved(counter)]
       /\ pc' = IF SaveDue(counter) THEN StartOfSave ELSE "endSweep"
  /\ UNCHANGED <<stage, exiting, parsmc, handler, storage, disk, past>>

(* A sample enters all jackknife blocks but that of its sweep.             *)
JkBlockSizeSweeps == parsmc.sweeps \div JkBlocks
IntoJkBlocks(curSweep) ==
  [b \in Blocks |-> IF b # curSweep \div JkBlockSizeSweeps
                      THEN Append(handler.jkBlockValues[b], curSweep) ELSE handler.jkBlockValues[b]]

InsertValue(curSweep) ==
  [handler EXCEPT !.lastSweepLogged = curSweep,
                  !.total = Append(@, curSweep),
                  !.jkBlockValues = IntoJkBlocks(curSweep),
                  !.timeseriesBuffer = Append(@, curSweep)]

Sweep ==
  /\ pc = "sweep" /\ stage = "M"
  /\ LET counter == progress.counter + 1
         takeMeasurementNow == counter % MeasureInterval = 0
     IN  /\ handler' = IF takeMeasurementNow THEN InsertValue(progress.sweeps) ELSE handler
         /\ streamFile' = IF takeMeasurementNow /\ counter % ConfigInterval = 0
                            THEN Append(streamFile, progress.sweeps) ELSE streamFile
         /\ progress' = [progress EXCEPT !.sweeps = @ + 1, !.counter = ResetIfSaved(counter)]
         /\ pc' = IF SaveDue(counter) THEN StartOfSave ELSE "endSweep"
  /\ UNCHANGED <<stage, exiting, parsmc, storage, stateFile, seriesFile, resultsFile, past>>

(* swCounter starts anew with a stage.  (Mistake: it runs on.) *)
CounterKept(next) == progress.counter
CounterIn(next)   == IF next # stage THEN 0 ELSE progress.counter

EndSweep ==
  /\ pc = "endSweep"
  /\ LET next == IF stage = "T" /\ progress.therm = Thermalization THEN "M"
                 ELSE IF stage = "M" /\ progress.sweeps = parsmc.sweeps THEN "F"
                 ELSE stage
     IN  /\ stage' = next
         /\ progress' = [progress EXCEPT !.counter = CounterIn(next)]
         /\ pc' = LoopTop(next, CounterIn(next))
  /\ UNCHANGED <<exiting, parsmc, handler, storage, disk, past>>

-----------------------------------------------------------------------------
(* Saving *)

(* evaluateJackknife: an error estimate is only given at the end of a      *)
(* simulation whose number of sweeps never changed.                        *)
AtTheEnd == parsmc.sweeps - handler.lastSweepLogged <= MeasureInterval
EvaluateJackknife ==
  LET countValues == Len(handler.total)
  IN  [countValues    |-> countValues,
       errorEstimate  |-> AtTheEnd /\ JkBlocks > 1 /\ ~parsmc.sweepsHasChanged,
       jkTotalSamples |-> countValues - countValues \div JkBlocks,
       jkSamples      |-> [b \in Blocks |-> Len(handler.jkBlockValues[b])]]

(* outputTimeseries: a handler that never wrote starts a new file, else    *)
(* the batch is appended.  (Mistake: the batch is kept in memory.)         *)
SeriesBefore == IF storage \/ handler.storageFileStarted THEN seriesFile ELSE <<>>
WrittenHandlerKept == [handler EXCEPT !.storageFileStarted = TRUE]
WrittenHandler == [handler EXCEPT !.storageFileStarted = TRUE, !.timeseriesBuffer = <<>>]

SaveResults ==
  /\ pc = "saveResults"
  /\ resultsFile' = EvaluateJackknife
  /\ seriesFile' = SeriesBefore \o handler.timeseriesBuffer
  /\ handler' = WrittenHandler
  /\ storage' = TRUE
  /\ pc' = "saveState"
  /\ UNCHANGED <<stage, exiting, parsmc, progress, stateFile, streamFile, past>>

(* saveState opens, and thereby empties, the one state file it then writes.*)
OpenStateFile ==
  /\ pc = "saveState"
  /\ stateFile' = Torn
  /\ pc' = "writeState"
  /\ UNCHANGED <<stage, exiting, parsmc, progress, handler, storage,
                 seriesFile, streamFile, resultsFile, past>>

WriteStateFile ==
  /\ pc = "writeState"
  /\ stateFile' = [parsmc |-> parsmc, progress |-> progress, handler |-> handler]
  /\ IF exiting
       THEN EndSession
       ELSE pc' = "endSweep" /\ UNCHANGED <<stage, exiting, parsmc, progress, handler, storage>>
  /\ UNCHANGED <<seriesFile, streamFile, resultsFile, past>>

-----------------------------------------------------------------------------
Start(sweeps, saveInterval) == StartFresh(sweeps, saveInterval) \/ Resume(sweeps, saveInterval)

(* Between sessions nothing need happen. *)
Rest == pc = "off" /\ UNCHANGED vars

Next ==
  \/ \E sweeps \in TargetSweeps, saveInterval \in SaveIntervals : Start(sweeps, saveInterval)
  \/ \E stop \in BOOLEAN : CheckStop(stop)
  \/ SweepThermalization \/ Sweep \/ EndSweep
  \/ SaveResults \/ OpenStateFile \/ WriteStateFile
  \/ Finish \/ Killed
  \/ Rest

Spec == Init /\ [][Next]_vars

-----------------------------------------------------------------------------
(* Properties *)

StateFiles ==
  [parsmc : [sweeps : Nat, saveInterval : Nat, sweepsHasChanged : BOOLEAN],
   progress : [therm : Nat, sweeps : Nat, counter : Nat],
   handler : [lastSweepLogged : Nat, total : Seq(Nat), jkBlockValues : [Blocks -> Seq(Nat)],
              timeseriesBuffer : Seq(Nat), storageFileStarted : BOOLEAN]]
ResultsFiles ==
  [countValues : Nat, errorEstimate : BOOLEAN, jkTotalSamples : Int, jkSamples : [Blocks -> Nat]]

(* A file that is there is told from one that is not. *)
ASSUME FilesAssumption ==
  NoFile \notin StateFiles /\ Torn \notin StateFiles /\ NoFile \notin ResultsFiles

Saved == stateFile \notin {NoFile, Torn}

(* Every variable stays in its range; counters stay below their targets,   *)
(* which the loop only compares for equality.                              *)
TypeOK ==
  /\ pc \in {"off", "top", "sweep", "endSweep", "saveResults", "saveState",
             "writeState", "finished"}
  /\ stage \in {"T", "M", "F"} /\ exiting \in BOOLEAN /\ storage \in BOOLEAN
  /\ [parsmc |-> parsmc, progress |-> progress, handler |-> handler] \in StateFiles
  /\ progress.therm <= Thermalization /\ progress.sweeps <= parsmc.sweeps
  /\ progress.counter <= parsmc.sweeps + Thermalization
  /\ Saved => stateFile \in StateFiles
  /\ seriesFile \in Seq(Nat) /\ streamFile \in Seq(Nat)
  /\ sessions \in 0..MaxSessions
  /\ wasKilled \in BOOLEAN /\ wasRetimed \in BOOLEAN /\ wasMisaligned \in BOOLEAN

(* swCounter starts anew with every periodic save, and run() samples every *)
(* interval-th sweep it counts: the sweeps due among the first n of a      *)
(* simulation that saves every saveInterval sweeps.                        *)
Due(w, interval, saveInterval) == ((w % saveInterval) + 1) % interval = 0
DueBefore(n, interval, saveInterval) == {w \in 0..(n - 1) : Due(w, interval, saveInterval)}

(* Another saveInterval finds swCounter as the old one left it: what is    *)
(* due is only known if no saveInterval shifts the measurements.           *)
Predictable == ~wasRetimed \/ ~wasMisaligned

Lists(seq, due) ==
  /\ {seq[i] : i \in 1..Len(seq)} = due
  /\ \A i, j \in 1..Len(seq) : i < j => seq[i] < seq[j]

(* However often a simulation is stopped and resumed, and whenever the     *)
(* user raises its sweeps meanwhile, the time series and the stream of     *)
(* configurations are those of one uninterrupted simulation, as long as no *)
(* session was killed and the save interval was kept.                      *)
SeriesExact ==
  ~wasKilled /\ ~wasRetimed =>
    /\ pc # "off" =>
         /\ Lists(seriesFile \o handler.timeseriesBuffer,
                  DueBefore(progress.sweeps, MeasureInterval, parsmc.saveInterval))
         /\ Lists(streamFile, DueBefore(progress.sweeps, ConfigInterval, parsmc.saveInterval))
    /\ pc = "off" /\ Saved =>
         LET n == stateFile.progress.sweeps
             saveInterval == stateFile.parsmc.saveInterval
         IN  /\ Lists(seriesFile, DueBefore(n, MeasureInterval, saveInterval))
             /\ Lists(streamFile, DueBefore(n, ConfigInterval, saveInterval))

(* When a simulation is found finished, all of it is on disk; a killed     *)
(* session that was to do more sweeps may have left results of more.       *)
FinishedIsSaved ==
  pc = "finished" /\ sessions > 0 =>
    /\ Saved /\ stateFile.progress.sweeps = parsmc.sweeps
    /\ resultsFile # NoFile
    /\ resultsFile.countValues >= Len(stateFile.handler.total)

(* Whenever sessions are killed: a simulation that kept its save interval  *)
(* is found finished only once all of it is on disk.                       *)
FinishedIsSavedUnlessRetimed == ~wasRetimed => FinishedIsSaved

(* "only save state and exit if we have done an even number of sweeps for  *)
(* ('economic') serialization guarantee" (detqmc.h:420): a simulation      *)
(* always resumes in the sweep direction a fresh replica starts with.      *)
EvenSweepsSaved ==
  Saved => (stateFile.progress.therm + stateFile.progress.sweeps) % 2 = 0

(* Where results.values gives an error estimate, every jackknife block     *)
(* holds as many samples as its average is divided by, if no save interval *)
(* shifted the measurements.                                               *)
JackknifeNormalised ==
  resultsFile # NoFile /\ resultsFile.errorEstimate /\ ~wasMisaligned =>
    \A b \in Blocks : resultsFile.jkSamples[b] = resultsFile.jkTotalSamples

(* Whenever sessions are killed: the statistics in the state file count    *)
(* every measurement before it exactly once.                               *)
StatisticsExact ==
  Saved /\ Predictable =>
    Lists(stateFile.handler.total,
          DueBefore(stateFile.progress.sweeps, MeasureInterval, stateFile.parsmc.saveInterval))

(* Whenever sessions are killed: no measurement is missing from the series *)
(* file up to the state file, though some may be repeated, and none is     *)
(* skipped in a file this simulation started.                              *)
SeriesHasNoHoles ==
  Saved /\ Predictable =>
    /\ DueBefore(stateFile.progress.sweeps, MeasureInterval, stateFile.parsmc.saveInterval)
         \subseteq {seriesFile[i] : i \in 1..Len(seriesFile)}
    /\ stateFile.handler.storageFileStarted =>
         \A i \in 1..Len(seriesFile) :
           \A w \in DueBefore(seriesFile[i], MeasureInterval, stateFile.parsmc.saveInterval) :
             i > 1 /\ w <= seriesFile[i - 1]
=============================================================================
