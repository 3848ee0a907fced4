----------------------- MODULE DetQMCPTSessions_proofs -----------------------
(***************************************************************************)
(* Proofs about several sessions of the parallel driver, for every number  *)
(* of processes, every setting of the intervals and any number of          *)
(* sessions: counters stay in their ranges whatever is read from disk, and *)
(* without kills no exchange step is left out or done twice.  A session    *)
(* that starts from coherent files starts in lockstep, and each save       *)
(* leaves coherent files: so every session stays in step, whatever was     *)
(* sampled before a save is kept, and sessions that were only ever stopped *)
(* leave the record of a single session.                                   *)
(***************************************************************************)
EXTENDS DetQMCPTSessions, DetQMCPT_lockstep

SessionLabels == Labels \cup {"off", "setup", "load", "open", "saveState",
                              "writeState", "unreadable"}
NoState == {NoFile, Torn}
LoadMessage == [op : {"load"}, par : Par]

(* What only the root's state file holds. *)
RootRecord ==
  [current_process_par : [Proc -> Par], current_par_process : [Par -> Proc],
   es : Statistics, timeseriesBuffer : [Par -> Seq(SUBSET Sample)],
   storageFileStarted : BOOLEAN]

(* The types of SessionsTypeOK, but for the ranges of the counters, and    *)
(* that the root's tables can be read when its state can.                  *)
SessionTypes ==
  /\ TypesAmong(SessionLabels, NoState, LoadMessage)
  /\ {storageFileStarted, storage, wasKilled, inStep} \subseteq BOOLEAN
  /\ streamStart \in [Par -> {"absent", "bare", "header"}]
  /\ sessions \in 0..MaxSessions
  /\ ~Unwritten(Root) => rootFile \in RootRecord

LEMMA NoStateIsNone ==
  /\ NoFile \notin State /\ Torn \notin State
  /\ \A m \in LoadMessage : m.op \notin {"stop_now", "barrier", "assign"}
<1>1. Par \subseteq Nat
  BY Constants DEF Par
<1>2. State \subseteq [therm : Nat, sweeps : Nat, counter : Nat, par : Nat, ctrl : Nat]
  BY <1>1 DEF State
<1> QED
  BY <1>2, ParametersAssumption, SessionsAssumption DEF LoadMessage

LEMMA FreshTypes ==
  /\ InitialStatistics \in Statistics /\ FreshRoot \in RootRecord
  /\ \A p \in Proc : FreshState(p) \in State
<1> USE Constants
<1>1. InitialStatistics \in Statistics
  BY DEF InitialStatistics, Statistics, Direction
<1>2. FreshRoot \in RootRecord
  BY <1>1 DEF FreshRoot, RootRecord
<1> QED
  BY <1>1, <1>2 DEF FreshState, State

LEMMA InitialSessionTypes == SessionsInit => SessionTypes
<1> SUFFICES ASSUME SessionsInit PROVE SessionTypes
  OBVIOUS
<1> USE Constants, NoStateIsNone DEF SessionsInit, Idle
<1>1. ControlAmong(SessionLabels)
  BY DEF ControlAmong, SessionLabels
<1>2. ReplicaTypes /\ BufferTypes
  BY DEF ReplicaTypes, BufferTypes
<1>3. TableTypes
  BY FreshTypes DEF TableTypes, Proc, Par
<1>4. FilesAmong(NoState)
  BY DEF FilesAmong, NoState
<1>5. ChannelsAmong(LoadMessage)
  BY DEF ChannelsAmong
<1>6. Unwritten(Root)
  BY DEF Unwritten
<1>7. /\ {storageFileStarted, storage, wasKilled, inStep} \subseteq BOOLEAN
      /\ streamStart \in [Par -> {"absent", "bare", "header"}]
      /\ sessions \in 0..MaxSessions
  <2>1. storageFileStarted = FALSE /\ storage = FALSE /\ wasKilled = FALSE /\ inStep = TRUE
    OBVIOUS
  <2>2. {storageFileStarted, storage, wasKilled, inStep} \subseteq BOOLEAN
    BY <2>1, Zenon
  <2>3. sessions = 0 /\ MaxSessions \in Nat
    BY SessionsAssumption
  <2> QED
    BY <2>2, <2>3
<1>8. TypesAmong(SessionLabels, NoState, LoadMessage)
  BY <1>1, <1>2, <1>3, <1>4, <1>5 DEF TypesAmong
<1> QED
  BY <1>6, <1>7, <1>8 DEF SessionTypes

-----------------------------------------------------------------------------
(* Types: the steps of this module *)

LEMMA StartJobTypes ==
  ASSUME SessionTypes, StartJob
  PROVE  SessionTypes'
<1> USE Constants, NoStateIsNone
<1>t. /\ stateFile \in [Proc -> State \cup NoState] /\ streamStart' = streamStart
      /\ UNCHANGED <<seriesFile, streamFile, stateFile, rootFile>>
  BY DEF SessionTypes, TypesAmong, FilesAmong, StartJob
<1>s. \A p \in Proc : LoadedState(p) \in State
  BY <1>t, FreshTypes DEF LoadedState, Unwritten, NoState
<1>r. LoadedRoot \in RootRecord
  BY FreshTypes DEF LoadedRoot, SessionTypes
<1>1. ControlAmong(SessionLabels)'
  <2>1. \A p \in Proc : StageOf(LoadedState(p)) \in {"T", "M", "F"}
    BY DEF StageOf
  <2> QED
    BY <1>s, <2>1 DEF StartJob, ControlAmong, SessionLabels, State
<1>2. ReplicaTypes' /\ BufferTypes'
  BY <1>s DEF StartJob, ReplicaTypes, BufferTypes, State
<1>3. TableTypes'
  <2>1. 0 \in Par
    BY DEF Root
  <2> QED
    BY <1>r, <2>1 DEF StartJob, TableTypes, RootRecord
<1>4. FilesAmong(NoState)'
  BY <1>t, <1>r DEF StartJob, SessionTypes, TypesAmong, FilesAmong, RootRecord
<1>5. ChannelsAmong(LoadMessage)'
  BY DEF StartJob, ChannelsAmong
<1>6. sessions' \in 0..MaxSessions
  BY SessionsAssumption DEF StartJob, SessionTypes
<1>7. {storageFileStarted, storage, wasKilled, inStep}' \subseteq BOOLEAN
  <2>1. storageFileStarted' \in BOOLEAN /\ storage' \in BOOLEAN
    BY <1>r DEF StartJob, RootRecord
  <2>2. inStep' \in BOOLEAN
    BY DEF StartJob, FilesFit
  <2>3. wasKilled' \in BOOLEAN
    BY DEF StartJob, SessionTypes
  <2> QED
    BY <2>1, <2>2, <2>3
<1>8. ~Unwritten(Root)' => rootFile' \in RootRecord
  BY <1>t DEF SessionTypes, Unwritten
<1> QED
  BY <1>t, <1>1, <1>2, <1>3, <1>4, <1>5, <1>6, <1>7, <1>8 DEF TypesAmong, SessionTypes

(* Starting and saving: steps to another label that change little else.    *)
LEMMA EntersLoop == \A p \in Proc : EnterLoop(p) \in {"done", "top", "sweep"}
BY DEF EnterLoop, LoopTop

LEMMA StartingTypes ==
  ASSUME SessionTypes, NEW p \in Proc, Starting(p)
  PROVE  SessionTypes'
<1> USE Constants, NoStateIsNone, EntersLoop
<1>t. /\ ControlAmong(SessionLabels) /\ ReplicaTypes /\ TableTypes
      /\ FilesAmong(NoState) /\ BufferTypes /\ ChannelsAmong(LoadMessage)
  BY DEF SessionTypes, TypesAmong
<1>u. UNCHANGED <<counters, exiting, buffered, tables, files, up, storageFileStarted,
                  storage, rootFile, sessions, wasKilled, inStep>>
  BY DEF Starting, WriteHeader, ScatterLoaded, HearLoaded, OpenStreams, sessionVars
<1>1. ControlAmong(SessionLabels)'
  <2>1. PICK label \in SessionLabels : Goto(p, label)
    BY DEF Starting, WriteHeader, ScatterLoaded, HearLoaded, OpenStreams, SessionLabels, Labels
  <2> QED
    BY <1>t, <1>u, <2>1 DEF ControlAmong, Goto, counters
<1>2. TableTypes' /\ BufferTypes' /\ FilesAmong(NoState)'
  BY <1>t, <1>u DEF TableTypes, BufferTypes, FilesAmong, tables, files
<1>3. ReplicaTypes' /\ ChannelsAmong(LoadMessage)'
  <2>1. CASE WriteHeader(p) \/ OpenStreams
    BY <1>t, <1>u, <2>1 DEF WriteHeader, OpenStreams, replicas, ReplicaTypes, ChannelsAmong
  <2>2. CASE ScatterLoaded
    <3>1. \A q \in Proc : current_process_par[q] \in Par
      BY <1>t DEF TableTypes
    <3>2. \A q \in Workers : [op |-> "load", par |-> current_process_par[q]] \in LoadMessage
      BY <3>1 DEF LoadMessage
    <3>3. down' \in [Workers -> Seq(DownMessage \cup LoadMessage)]
      BY <1>t, <2>2, <3>2 DEF ScatterLoaded, SendAll, ChannelsAmong
    <3> QED
      BY <1>t, <1>u, <2>2, <3>1, <3>3
         DEF ScatterLoaded, TakeLoadedParameter, ReplicaTypes, ChannelsAmong
  <2>3. CASE p \in Workers /\ HearLoaded(p)
    <3>1. Head(down[p]).par \in Par
      <4>1. down[p] \in Seq(DownMessage \cup LoadMessage) /\ down[p] # <<>>
            /\ Head(down[p]).op = "load"
        BY <1>t, <2>3 DEF ChannelsAmong, HearLoaded, Told
      <4>2. Head(down[p]) \in DownMessage \cup LoadMessage
        BY <4>1
      <4> QED
        BY <4>1, <4>2 DEF DownMessage, LoadMessage
    <3>2. down' \in [Workers -> Seq(DownMessage \cup LoadMessage)]
      BY <1>t, <2>3, HearTypes DEF HearLoaded
    <3> QED
      BY <1>t, <1>u, <2>3, <3>1, <3>2
         DEF HearLoaded, TakeLoadedParameter, ReplicaTypes, ChannelsAmong
  <2> QED
    BY <2>1, <2>2, <2>3 DEF Starting
<1>4. streamStart' \in [Par -> {"absent", "bare", "header"}]
  BY DEF SessionTypes, Starting, WriteHeader, ScatterLoaded, HearLoaded, OpenStreams, sessionVars
<1>5. ~Unwritten(Root)' => rootFile' \in RootRecord
  BY <1>u DEF SessionTypes, Unwritten, files
<1> QED
  BY <1>u, <1>1, <1>2, <1>3, <1>4, <1>5 DEF SessionTypes, TypesAmong

LEMMA SavingTypes ==
  ASSUME SessionTypes, NEW p \in Proc, Saving(p)
  PROVE  SessionTypes'
<1> USE Constants, NoStateIsNone
<1>t. /\ ControlAmong(SessionLabels) /\ ReplicaTypes /\ TableTypes
      /\ FilesAmong(NoState) /\ BufferTypes /\ ChannelsAmong(LoadMessage)
  BY DEF SessionTypes, TypesAmong
<1>u. UNCHANGED <<counters, exiting, replicas, buffered, tables, streamFile, up, down,
                  streamStart, sessions, wasKilled, inStep>>
  BY DEF Saving, SaveResults, OpenStateFile, WriteStateFile, sessionVars
<1>1. ControlAmong(SessionLabels)'
  <2>1. PICK label \in SessionLabels : Goto(p, label)
    BY DEF Saving, SaveResults, OpenStateFile, WriteStateFile, AfterSave, SessionLabels, Labels
  <2> QED
    BY <1>t, <1>u, <2>1 DEF ControlAmong, Goto, counters
<1>2. TableTypes' /\ BufferTypes' /\ ReplicaTypes' /\ ChannelsAmong(LoadMessage)'
  BY <1>t, <1>u DEF TableTypes, BufferTypes, ReplicaTypes, ChannelsAmong, tables, replicas
<1>3. CurrentState(p) \in State
  BY <1>t DEF CurrentState, State, ControlAmong, ReplicaTypes
<1>4. FilesAmong(NoState)'
  <2>1. CASE SaveResults
    <3>1. \A c \in Par : SeriesBefore(c) \in Seq(SUBSET Sample)
      BY <1>t DEF SeriesBefore, FilesAmong
    <3>2. \A c \in Par : SeriesBefore(c) \o timeseriesBuffer[c] \in Seq(SUBSET Sample)
      BY <1>t, <3>1, ConcatProperties DEF FilesAmong
    <3>3. seriesFile' = [c \in Par |-> SeriesBefore(c) \o timeseriesBuffer[c]]
          /\ timeseriesBuffer' = [c \in Par |-> <<>>]
      BY <2>1 DEF SaveResults
    <3>4. seriesFile' \in [Par -> Seq(SUBSET Sample)]
          /\ timeseriesBuffer' \in [Par -> Seq(SUBSET Sample)]
      BY <3>2, <3>3
    <3> QED
      BY <1>t, <1>u, <2>1, <3>4 DEF SaveResults, FilesAmong
  <2>2. CASE OpenStateFile(p)
    BY <1>t, <1>u, <2>2 DEF OpenStateFile, FilesAmong, NoState
  <2>3. CASE WriteStateFile(p)
    BY <1>t, <1>u, <2>3, <1>3 DEF WriteStateFile, FilesAmong, NoState
  <2> QED
    BY <2>1, <2>2, <2>3 DEF Saving
<1>5. storageFileStarted' \in BOOLEAN /\ storage' \in BOOLEAN
  BY DEF SessionTypes, Saving, SaveResults, OpenStateFile, WriteStateFile, sessionVars
<1>6. ~Unwritten(Root)' => rootFile' \in RootRecord
  <2>1. CASE SaveResults \/ OpenStateFile(p)
    <3>1. rootFile' = rootFile /\ (~Unwritten(Root)' => ~Unwritten(Root))
      BY <1>t, <2>1 DEF SaveResults, OpenStateFile, Unwritten, sessionVars, FilesAmong
    <3> QED
      BY <3>1 DEF SessionTypes
  <2>2. CASE WriteStateFile(p) /\ p # Root
    <3>1. rootFile' = rootFile /\ (~Unwritten(Root)' => ~Unwritten(Root))
      BY <1>t, <2>2 DEF WriteStateFile, Unwritten, FilesAmong
    <3> QED
      BY <3>1 DEF SessionTypes
  <2>3. CASE WriteStateFile(p) /\ p = Root
    <3>1. RootState \in RootRecord
      BY <1>t DEF RootState, RootRecord, TableTypes, FilesAmong, SessionTypes
    <3> QED
      BY <2>3, <3>1 DEF WriteStateFile
  <2> QED
    BY <2>1, <2>2, <2>3 DEF Saving
<1> QED
  BY <1>u, <1>1, <1>2, <1>4, <1>5, <1>6 DEF SessionTypes, TypesAmong

LEMMA DriverTypes ==
  ASSUME SessionTypes, NEW p \in Proc, DriverStep(p)
  PROVE  SessionTypes'
<1>1. TypesAmong(SessionLabels, NoState, LoadMessage)'
  BY LocalTypes, WorkerTypes, MasterTypes DEF SessionTypes, DriverStep, Local
<1>2. UNCHANGED <<sessionVars, stateFile>>
  BY DEF DriverStep, SweepThermalization, Sweep, CountSweep, EndSweep, Worker, HearStop,
     SendValue, SendConfiguration, EnterBarrier, LeaveBarrier, SendControlData, HearAssignment,
     SendCheck, Master, BroadcastStop, GatherValues, GatherConfigurations, OpenBarrier,
     GatherControlData, ProposeExchange, ScatterAssignment, GatherCheck, files
<1> QED
  BY <1>1, <1>2 DEF SessionTypes, sessionVars, Unwritten

LEMMA NextSessionTypes ==
  ASSUME SessionTypes, [SessionsNext]_allVars
  PROVE  SessionTypes'
<1>1. CASE KillJob \/ Rest \/ UNCHANGED allVars
  <2>1. ControlAmong(SessionLabels)'
    BY <1>1 DEF KillJob, Rest, allVars, vars, counters, SessionTypes, TypesAmong, ControlAmong,
       SessionLabels
  <2>2. UNCHANGED <<counters, exiting, replicas, buffered, tables, files, up, down,
                    storageFileStarted, storage, rootFile, streamStart, sessions, inStep>>
    BY <1>1 DEF KillJob, Rest, allVars, vars, sessionVars
  <2>3. wasKilled' \in BOOLEAN
    BY <1>1 DEF KillJob, Rest, allVars, sessionVars, SessionTypes
  <2>4. TypesAmong(SessionLabels, NoState, LoadMessage)'
    BY <2>1, <2>2 DEF SessionTypes, TypesAmong, ReplicaTypes, TableTypes, FilesAmong, BufferTypes,
       ChannelsAmong, replicas, tables, files
  <2> QED
    BY <2>2, <2>3, <2>4 DEF SessionTypes, Unwritten, files
<1> QED
  BY <1>1, StartJobTypes, StartingTypes, DriverTypes, SavingTypes DEF SessionsNext, ProcessStep

-----------------------------------------------------------------------------
(* What a step does to the process that takes it, and to the others *)

SweepCounts(p) == <<stage[p], sweepsDoneThermalization[p], sweepsDone[p], swCounter[p]>>

(* The steps of a process that count no sweep lead from label to label. *)
Moves(p) ==
  \/ pc'[p] = pc[p] /\ exiting'[p] = exiting[p]
  \/ pc[p] = "top" /\ pc'[p] = IF exiting'[p] THEN "save" ELSE "sweep"
  \/ /\ exiting'[p] = exiting[p]
     /\ \/ pc[p] = "insertValue" /\ pc'[p] = "countSweep"
        \/ pc[p] = "save" /\ pc'[p] \in {"saveState", "writeState"}
        \/ pc[p] = "saveState" /\ pc'[p] = "writeState"
        \/ pc[p] = "writeState" /\ pc'[p] = AfterSave(p)
        \/ pc[p] = "barrier" /\ pc'[p] \in {"inBarrier", "endSweep"}
        \/ pc[p] = "inBarrier" /\ pc'[p] = "endSweep"
        \/ pc[p] = "exchange" /\ pc'[p] \in {"walk", "assign"}
        \/ pc[p] \in {"walk", "assign"} /\ pc'[p] = "check"
        \/ pc[p] = "check" /\ pc'[p] \in {LoopTop(p), "error"}
        \/ pc[p] = "setup" /\ pc'[p] \in {"load", "open", EnterLoop(p)}
        \/ pc[p] = "load" /\ pc'[p] \in {"open", EnterLoop(p)}
        \/ pc[p] = "open" /\ pc'[p] = EnterLoop(p)

LEMMA StepMoves ==
  ASSUME SessionTypes, NEW p \in Proc, ProcessStep(p), ~Counting(p)
  PROVE  UNCHANGED SweepCounts(p) /\ Moves(p)
<1> USE Constants DEF Goto, counters, SweepCounts
<1>t. pc \in [Proc -> SessionLabels] /\ exiting \in [Proc -> BOOLEAN]
  BY DEF SessionTypes, TypesAmong, ControlAmong
<1>1. CASE Starting(p)
  BY <1>t, <1>1 DEF Starting, WriteHeader, ScatterLoaded, OpenStreams, HearLoaded, Moves
<1>2. CASE Saving(p)
  <2>1. exiting' = exiting /\ UNCHANGED counters
    BY <1>2 DEF Saving, SaveResults, OpenStateFile, WriteStateFile
  <2>2. \/ pc[p] = "save" /\ pc'[p] \in {"saveState", "writeState"}
        \/ pc[p] = "saveState" /\ pc'[p] = "writeState"
        \/ pc[p] = "writeState" /\ pc'[p] = AfterSave(p)
    BY <1>t, <1>2 DEF Saving, SaveResults, OpenStateFile, WriteStateFile
  <2> QED
    BY <2>1, <2>2 DEF Moves
<1>3. CASE p \in Workers /\ Worker(p)
  <2>1. UNCHANGED counters
    BY <1>3 DEF Worker, HearStop, SendValue, SendConfiguration, EnterBarrier, LeaveBarrier,
       SendControlData, HearAssignment, SendCheck
  <2>2. CASE HearStop(p)
    BY <1>t, <2>2 DEF HearStop, AfterStopCheck, Moves
  <2>3. CASE ~HearStop(p)
    BY <1>t, <1>3, <2>3 DEF Worker, SendValue, SendConfiguration, EnterBarrier, LeaveBarrier,
       SendControlData, HearAssignment, SendCheck, Moves
  <2> QED
    BY <2>1, <2>2, <2>3
<1>4. CASE p = Root /\ Master
  <2>1. UNCHANGED counters
    BY <1>4 DEF Master, BroadcastStop, GatherValues, GatherConfigurations, OpenBarrier,
       GatherControlData, ProposeExchange, ScatterAssignment, GatherCheck
  <2>2. ASSUME NEW stop \in BOOLEAN, BroadcastStop(stop) PROVE Moves(Root)
    BY <1>t, <2>2 DEF BroadcastStop, AfterStopCheck, Moves
  <2>3. CASE ~\E stop \in BOOLEAN : BroadcastStop(stop)
    BY <1>t, <1>4, <2>3 DEF Master, GatherValues, GatherConfigurations, OpenBarrier,
       GatherControlData, ProposeExchange, ScatterAssignment, GatherCheck, Moves
  <2> QED
    BY <1>4, <2>1, <2>2, <2>3
<1> QED
  BY <1>1, <1>2, <1>3, <1>4 DEF ProcessStep, DriverStep, Counting

OwnControl(p) == <<pc[p], SweepCounts(p), exiting[p], stateFile[p]>>
OfTheRoot == <<timeseriesBuffer, tables, rootFile>>

LEMMA OthersKeepTheirOwn ==
  ASSUME SessionTypes, NEW p \in Proc, ProcessStep(p), NEW r \in Proc \ {p}
  PROVE  UNCHANGED OwnControl(r) /\ (r = Root => UNCHANGED OfTheRoot)
<1> USE Constants DEF Goto, counters, files, OwnControl, SweepCounts, OfTheRoot
<1>t. /\ pc \in [Proc -> SessionLabels] /\ exiting \in [Proc -> BOOLEAN]
      /\ stage \in [Proc -> {"T", "M", "F"}] /\ sweepsDoneThermalization \in [Proc -> Nat]
      /\ sweepsDone \in [Proc -> Nat] /\ swCounter \in [Proc -> Nat]
      /\ stateFile \in [Proc -> State \cup NoState]
  BY DEF SessionTypes, TypesAmong, ControlAmong, FilesAmong
<1>1. CASE Starting(p)
  BY <1>t, <1>1 DEF Starting, WriteHeader, ScatterLoaded, OpenStreams, HearLoaded, sessionVars
<1>2. CASE Saving(p)
  BY <1>t, <1>2 DEF Saving, SaveResults, OpenStateFile, WriteStateFile, sessionVars
<1>3. CASE Counting(p) /\ UNCHANGED sessionVars
  BY <1>t, <1>3 DEF Counting, SweepThermalization, Sweep, CountSweep, EndSweep, sessionVars
<1>4. CASE p \in Workers /\ Worker(p) /\ UNCHANGED sessionVars
  BY <1>t, <1>4 DEF Worker, HearStop, AfterStopCheck, SendValue, SendConfiguration, EnterBarrier,
     LeaveBarrier, SendControlData, HearAssignment, SendCheck, sessionVars
<1>5. CASE p = Root /\ Master
  BY <1>t, <1>5 DEF Master, BroadcastStop, AfterStopCheck, GatherValues, GatherConfigurations,
     OpenBarrier, GatherControlData, ProposeExchange, ScatterAssignment, GatherCheck
<1> QED
  BY <1>1, <1>2, <1>3, <1>4, <1>5 DEF ProcessStep, DriverStep, Counting

(* The own state file changes only while the process saves.                *)
LEMMA OwnFile ==
  ASSUME SessionTypes, NEW p \in Proc, ProcessStep(p)
  PROVE  \/ stateFile'[p] = stateFile[p] /\ (p = Root => rootFile' = rootFile)
            /\ pc[p] # "writeState"
         \/ stateFile'[p] = Torn /\ pc'[p] = "writeState" /\ rootFile' = rootFile
         \/ /\ stateFile'[p] = CurrentState(p) /\ WriteStateFile(p)
            /\ pc[p] = "writeState" /\ pc'[p] = AfterSave(p)
<1> USE Constants DEF Goto, files
<1>t. /\ pc \in [Proc -> SessionLabels] /\ stateFile \in [Proc -> State \cup NoState]
  BY DEF SessionTypes, TypesAmong, ControlAmong, FilesAmong
<1>1. CASE Starting(p)
  BY <1>1 DEF Starting, WriteHeader, ScatterLoaded, OpenStreams, HearLoaded, sessionVars
<1>2. CASE Saving(p)
  BY <1>t, <1>2 DEF Saving, SaveResults, OpenStateFile, WriteStateFile, sessionVars
<1>3. CASE DriverStep(p)
  <2>1. UNCHANGED <<stateFile, rootFile>>
    BY <1>3 DEF DriverStep, SweepThermalization, Sweep, CountSweep, EndSweep, Worker, HearStop,
       SendValue, SendConfiguration, EnterBarrier, LeaveBarrier, SendControlData, HearAssignment,
       SendCheck, Master, BroadcastStop, GatherValues, GatherConfigurations, OpenBarrier,
       GatherControlData, ProposeExchange, ScatterAssignment, GatherCheck, sessionVars
  <2>2. pc[p] # "writeState"
    BY <1>3 DEF DriverStep, SweepThermalization, Sweep, CountSweep, EndSweep, Worker, HearStop,
       SendValue, SendConfiguration, Flushing, EnterBarrier, LeaveBarrier, SendControlData,
       HearAssignment, SendCheck, Master, BroadcastStop, GatherValues, GatherConfigurations,
       OpenBarrier, GatherControlData, ProposeExchange, ScatterAssignment, GatherCheck
  <2> QED
    BY <2>1, <2>2
<1> QED
  BY <1>1, <1>2, <1>3 DEF ProcessStep

-----------------------------------------------------------------------------
(* The counters stay in their ranges, because what a process reads from    *)
(* its state file, and the stage it starts in, are what a process that     *)
(* runs could have: a stage is left, or saved for the last time, when its  *)
(* sweeps are done.                                                        *)

InSave(p)     == pc[p] \in {"save", "saveState", "writeState"}
SweepEnded(p) == InSave(p) \/ pc[p] \in {"barrier", "inBarrier", "endSweep", "done"}

CountersSound(p) ==
  /\ MidSweep(p) => stage[p] = "M" /\ swCounter[p] \in 1..SaveInterval
  /\ ~MidSweep(p) => swCounter[p] \in 0..(SaveInterval - 1)
  /\ stage[p] = "T" =>
       /\ sweepsDone[p] = 0
       /\ sweepsDoneThermalization[p] = Thermalization =>
            SweepEnded(p) /\ (InSave(p) => swCounter[p] = 0)
  /\ stage[p] # "T" => sweepsDoneThermalization[p] = Thermalization
  /\ stage[p] = "M" =>
       /\ swCounter[p] % SaveInterval = SweepsBegun(p) % SaveInterval
       /\ sweepsDone[p] = Sweeps => SweepEnded(p)
  /\ stage[p] = "F" =>
       sweepsDone[p] = Sweeps /\ pc[p] \in {"setup", "load", "open", "done", "unreadable"}

StateSound(state) ==
  /\ state.therm \in 0..Thermalization /\ state.sweeps \in 0..Sweeps
  /\ state.counter \in 0..(SaveInterval - 1)
  /\ state.therm # Thermalization => state.sweeps = 0
  /\ state.therm = Thermalization =>
       state.counter % SaveInterval = state.sweeps % SaveInterval

SessionCounts(p) ==
  /\ sweepsDoneThermalization[p] \in 0..Thermalization
  /\ sweepsDone[p] \in 0..Sweeps /\ swCounter[p] \in 0..SaveInterval
  /\ pc[p] # "off" => CountersSound(p)
  /\ ~Unwritten(p) => StateSound(stateFile[p])

(* A step that counts no sweep and does not bring the process back into    *)
(* the loop when its stage is done.                                        *)
LEMMA UncountedKeeps ==
  ASSUME NEW p \in Proc, CountersSound(p), UNCHANGED SweepCounts(p),
         MidSweep(p)' <=> MidSweep(p),
         SweepEnded(p) => SweepEnded(p)',
         InSave(p)' => InSave(p) \/ ~SweepEnded(p),
         stage[p] = "F" => pc'[p] \in {"setup", "load", "open", "done", "unreadable"}
  PROVE  CountersSound(p)'
<1>1. SweepsBegun(p)' = SweepsBegun(p)
  BY DEF SweepsBegun, SweepCounts
<1> QED
  BY <1>1 DEF CountersSound, SweepCounts

LEMMA MovesKeepCounts ==
  ASSUME SessionTypes, NEW p \in Proc, CountersSound(p), UNCHANGED SweepCounts(p), Moves(p)
  PROVE  CountersSound(p)'
<1>1. MidSweep(p)' <=> MidSweep(p)
  BY DEF Moves, MidSweep, AfterSave, LoopTop, EnterLoop
<1>2. SweepEnded(p) => SweepEnded(p)'
  BY DEF Moves, SweepEnded, InSave, AfterSave
<1>3. InSave(p)' => InSave(p) \/ ~SweepEnded(p)
  BY DEF Moves, SweepEnded, InSave, AfterSave, LoopTop, EnterLoop
<1>4. stage[p] = "F" => pc'[p] \in {"setup", "load", "open", "done", "unreadable"}
  BY DEF Moves, CountersSound, EnterLoop
<1> QED
  BY <1>1, <1>2, <1>3, <1>4, UncountedKeeps

LEMMA CountingKeepsCounts ==
  ASSUME SessionTypes, NEW p \in Proc, CountersSound(p), SessionCounts(p), Counting(p)
  PROVE  /\ CountersSound(p)'
         /\ sweepsDoneThermalization'[p] \in 0..Thermalization /\ sweepsDone'[p] \in 0..Sweeps
<1> USE Constants, SaveIntervals
<1>t. /\ pc \in [Proc -> SessionLabels] /\ sweepsDone \in [Proc -> Nat]
      /\ sweepsDoneThermalization \in [Proc -> Nat] /\ swCounter \in [Proc -> Nat]
      /\ stage \in [Proc -> {"T", "M", "F"}] /\ stage[p] \in {"T", "M", "F"}
      /\ sweepsDone[p] \in Nat /\ swCounter[p] \in Nat /\ sweepsDoneThermalization[p] \in Nat
  BY DEF SessionTypes, TypesAmong, ControlAmong
<1>c. /\ sweepsDoneThermalization[p] \in 0..Thermalization /\ sweepsDone[p] \in 0..Sweeps
      /\ Thermalization \in Nat
  BY ParametersAssumption DEF SessionCounts
<1>1. CASE SweepThermalization(p)
  <2>1. /\ stage[p] = "T" /\ stage'[p] = "T" /\ sweepsDone'[p] = sweepsDone[p] /\ pc[p] = "sweep"
        /\ sweepsDoneThermalization'[p] = sweepsDoneThermalization[p] + 1
        /\ swCounter'[p] = IF swCounter[p] + 1 = SaveInterval THEN 0 ELSE swCounter[p] + 1
        /\ pc'[p] = IF swCounter[p] + 1 = SaveInterval THEN "save" ELSE "endSweep"
    BY <1>1, <1>t DEF SweepThermalization, Goto, SaveDue
  <2>2. swCounter[p] \in 0..(SaveInterval - 1) /\ sweepsDone[p] = 0
        /\ sweepsDoneThermalization[p] # Thermalization
    BY <2>1 DEF CountersSound, MidSweep, SweepEnded, InSave
  <2>3. swCounter'[p] \in 0..(SaveInterval - 1) /\ (pc'[p] = "save" => swCounter'[p] = 0)
    BY <2>1, <2>2
  <2>4. ~MidSweep(p)' /\ SweepEnded(p)' /\ (InSave(p)' => pc'[p] = "save")
    BY <2>1 DEF MidSweep, SweepEnded, InSave
  <2>5. CountersSound(p)'
    BY <2>1, <2>2, <2>3, <2>4 DEF CountersSound
  <2> QED
    BY <1>c, <2>1, <2>2, <2>5
<1>2. CASE Sweep(p)
  <2>1. /\ stage[p] = "M" /\ stage'[p] = "M" /\ sweepsDone'[p] = sweepsDone[p] /\ pc[p] = "sweep"
        /\ sweepsDoneThermalization'[p] = sweepsDoneThermalization[p]
        /\ swCounter'[p] = swCounter[p] + 1 /\ pc'[p] \in {"insertValue", "countSweep"}
    BY <1>2, <1>t DEF Sweep, Goto
  <2>2. /\ swCounter[p] \in 0..(SaveInterval - 1) /\ sweepsDone[p] # Sweeps
        /\ swCounter[p] % SaveInterval = sweepsDone[p] % SaveInterval
        /\ sweepsDoneThermalization[p] = Thermalization
    BY <2>1 DEF CountersSound, MidSweep, SweepsBegun, SweepEnded, InSave
  <2>3. (swCounter[p] + 1) % SaveInterval = (sweepsDone[p] + 1) % SaveInterval
    BY <1>t, <2>2, InStepModulo
  <2>4. swCounter'[p] \in 1..SaveInterval
    BY <2>1, <2>2
  <2>5. MidSweep(p)' /\ SweepsBegun(p)' = sweepsDone[p] + 1
    BY <2>1 DEF MidSweep, SweepsBegun
  <2>6. CountersSound(p)'
    BY <2>1, <2>2, <2>3, <2>4, <2>5 DEF CountersSound
  <2> QED
    BY <1>c, <2>1, <2>6
<1>3. CASE CountSweep(p)
  <2>1. /\ pc[p] = "countSweep" /\ sweepsDone'[p] = sweepsDone[p] + 1
        /\ sweepsDoneThermalization'[p] = sweepsDoneThermalization[p] /\ stage'[p] = stage[p]
        /\ swCounter'[p] = IF swCounter[p] = SaveInterval THEN 0 ELSE swCounter[p]
        /\ pc'[p] = IF swCounter[p] = SaveInterval THEN "save" ELSE "endSweep"
    BY <1>3, <1>t DEF CountSweep, Goto, SaveDue
  <2>2. /\ stage[p] = "M" /\ swCounter[p] \in 1..SaveInterval /\ sweepsDone[p] # Sweeps
        /\ swCounter[p] % SaveInterval = (sweepsDone[p] + 1) % SaveInterval
        /\ sweepsDoneThermalization[p] = Thermalization
    BY <2>1 DEF CountersSound, MidSweep, SweepsBegun, SweepEnded, InSave
  <2>3. swCounter'[p] % SaveInterval = (sweepsDone[p] + 1) % SaveInterval
    BY <2>1, <2>2
  <2>4. swCounter'[p] \in 0..(SaveInterval - 1)
    BY <2>1, <2>2
  <2>5. ~MidSweep(p)' /\ SweepsBegun(p)' = sweepsDone[p] + 1 /\ SweepEnded(p)'
    BY <2>1 DEF MidSweep, SweepsBegun, SweepEnded, InSave
  <2>6. CountersSound(p)'
    BY <2>1, <2>2, <2>3, <2>4, <2>5 DEF CountersSound
  <2>7. sweepsDone'[p] \in 0..Sweeps
    BY <1>c, <2>1, <2>2
  <2> QED
    BY <1>c, <2>1, <2>6, <2>7
<1>4. CASE EndSweep(p)
  <2>1. /\ pc[p] = "endSweep" /\ stage'[p] = NextStage(p)
        /\ swCounter'[p] = (IF NextStage(p) # stage[p] THEN 0 ELSE swCounter[p])
        /\ sweepsDone'[p] = sweepsDone[p]
        /\ sweepsDoneThermalization'[p] = sweepsDoneThermalization[p]
        /\ pc'[p] \in {"done", "exchange", "check"} /\ (NextStage(p) = "F" => pc'[p] = "done")
    BY <1>4, <1>t DEF EndSweep, Goto, CounterOfStage
  <2>2. stage[p] # "F" /\ ~MidSweep(p) /\ swCounter[p] \in 0..(SaveInterval - 1)
    BY <2>1 DEF CountersSound, MidSweep
  <2>3. ~MidSweep(p)' /\ SweepsBegun(p)' = sweepsDone[p] /\ SweepsBegun(p) = sweepsDone[p]
        /\ ~InSave(p)'
    BY <2>1, <2>2 DEF MidSweep, SweepsBegun, InSave
  <2>4. CASE NextStage(p) = "F"
    <3>1. stage[p] = "M" /\ sweepsDone[p] = Sweeps
          /\ sweepsDoneThermalization[p] = Thermalization
      BY <1>t, <2>2, <2>4 DEF NextStage, CountersSound
    <3>2. stage'[p] = "F" /\ pc'[p] = "done" /\ swCounter'[p] = 0
      BY <2>1, <2>2, <2>4
    <3> QED
      BY <1>c, <2>1, <2>3, <3>1, <3>2 DEF CountersSound
  <2>5. CASE NextStage(p) = "M" /\ stage[p] = "T"
    <3>1. sweepsDone[p] = 0 /\ sweepsDoneThermalization[p] = Thermalization
      BY <1>t, <2>5 DEF CountersSound, NextStage
    <3>2. stage'[p] = "M" /\ swCounter'[p] = 0 /\ SweepsBegun(p)' = 0 /\ sweepsDone'[p] # Sweeps
      BY <2>1, <2>3, <2>5, <3>1
    <3> QED
      BY <1>c, <2>1, <2>3, <3>1, <3>2 DEF CountersSound
  <2>6. CASE NextStage(p) = stage[p]
    <3>1. /\ stage[p] = "T" => sweepsDoneThermalization[p] # Thermalization
          /\ stage[p] = "M" => sweepsDone[p] # Sweeps
      BY <2>6 DEF NextStage
    <3> QED
      BY <1>c, <2>1, <2>2, <2>3, <2>6, <3>1 DEF CountersSound
  <2> QED
    BY <1>t, <2>2, <2>4, <2>5, <2>6 DEF NextStage
<1> QED
  BY <1>1, <1>2, <1>3, <1>4 DEF Counting

(* What a new simulation starts with, and what a state file holds.         *)
LEMMA FreshStateSound == \A p \in Proc : StateSound(FreshState(p))
BY ParametersAssumption, SaveIntervals DEF StateSound, FreshState

LEMMA CurrentStateSound ==
  ASSUME NEW p \in Proc, SessionCounts(p), CountersSound(p), pc[p] = "writeState",
         stage[p] \in {"T", "M", "F"}
  PROVE  StateSound(CurrentState(p))
<1>1. ~MidSweep(p) /\ InSave(p) /\ SweepsBegun(p) = sweepsDone[p]
  BY DEF MidSweep, InSave, SweepsBegun
<1>2. stage[p] # "F"
  BY DEF CountersSound
<1> QED
  BY <1>1, <1>2, SaveIntervals DEF StateSound, CurrentState, SessionCounts, CountersSound

(* A process that read a state file, or found none, may start.             *)
LEMMA StartJobCounts ==
  ASSUME SessionTypes, \A p \in Proc : SessionCounts(p), StartJob, NEW p \in Proc
  PROVE  SessionCounts(p)'
<1> USE Constants
<1> DEFINE s == LoadedState(p)
<1>1. StateSound(s)
  BY FreshStateSound DEF LoadedState, SessionCounts
<1>2. /\ stage'[p] = StageOf(s) /\ sweepsDoneThermalization'[p] = s.therm
      /\ sweepsDone'[p] = s.sweeps /\ swCounter'[p] = s.counter
      /\ pc'[p] \in {"setup", "unreadable"} /\ stateFile' = stateFile
  BY DEF StartJob
<1> HIDE DEF s
<1>3. /\ stage'[p] = "T" => s.therm # Thermalization /\ s.sweeps = 0
      /\ stage'[p] # "T" => s.therm = Thermalization
      /\ stage'[p] = "M" => s.sweeps # Sweeps
      /\ stage'[p] = "F" => s.sweeps = Sweeps
  BY <1>1, <1>2, ParametersAssumption DEF StateSound, StageOf
<1>4. ~MidSweep(p)' /\ SweepsBegun(p)' = s.sweeps
  BY <1>2 DEF MidSweep, SweepsBegun
<1>5. CountersSound(p)'
  BY <1>1, <1>2, <1>3, <1>4 DEF CountersSound, StateSound
<1>6. s.counter \in 0..SaveInterval
  BY <1>1, SaveIntervals DEF StateSound
<1> QED
  BY <1>1, <1>2, <1>5, <1>6 DEF SessionCounts, StateSound, Unwritten

LEMMA InitialSessionCounts == SessionsInit => \A p \in Proc : SessionCounts(p)
BY ParametersAssumption, SaveIntervals DEF SessionsInit, Idle, SessionCounts, Unwritten

LEMMA SameCounts ==
  ASSUME NEW p \in Proc, SessionCounts(p), UNCHANGED OwnControl(p)
  PROVE  SessionCounts(p)'
BY DEF SessionCounts, CountersSound, MidSweep, SweepsBegun, SweepEnded, InSave, Unwritten,
   OwnControl, SweepCounts

LEMMA StepCounts ==
  ASSUME SessionTypes, NEW p \in Proc, SessionCounts(p), ProcessStep(p)
  PROVE  SessionCounts(p)' /\ pc[p] # "off"
<1> USE Constants
<1>t. /\ stage[p] \in {"T", "M", "F"} /\ swCounter'[p] \in Nat
      /\ stateFile \in [Proc -> State \cup NoState]
  BY NextSessionTypes DEF SessionTypes, TypesAmong, ControlAmong, FilesAmong, SessionsNext
<1>0. pc[p] # "off" /\ CountersSound(p)
  <2>1. pc[p] # "off"
    BY DEF ProcessStep, Starting, WriteHeader, ScatterLoaded, OpenStreams, HearLoaded,
       Saving, SaveResults, OpenStateFile, WriteStateFile, DriverStep, SweepThermalization,
       Sweep, CountSweep, EndSweep, Worker, HearStop, SendValue, SendConfiguration, Flushing,
       EnterBarrier, LeaveBarrier, SendControlData, HearAssignment, SendCheck, Master,
       BroadcastStop, GatherValues, GatherConfigurations, OpenBarrier, GatherControlData,
       ProposeExchange, ScatterAssignment, GatherCheck
  <2> QED
    BY <2>1 DEF SessionCounts
<1>1. /\ CountersSound(p)'
      /\ sweepsDoneThermalization'[p] \in 0..Thermalization /\ sweepsDone'[p] \in 0..Sweeps
  <2>1. CASE Counting(p)
    BY <1>0, <2>1, CountingKeepsCounts
  <2>2. CASE ~Counting(p)
    BY <1>0, <2>2, StepMoves, MovesKeepCounts DEF SessionCounts, SweepCounts
  <2> QED
    BY <2>1, <2>2
<1>2. swCounter'[p] \in 0..SaveInterval
  BY <1>1, SaveIntervals DEF CountersSound
<1>3. ~Unwritten(p)' => StateSound(stateFile'[p])
  <2>1. CASE stateFile'[p] \in {stateFile[p], Torn}
    BY <2>1 DEF Unwritten, SessionCounts
  <2>2. CASE stateFile'[p] = CurrentState(p) /\ pc[p] = "writeState"
    BY <1>0, <1>t, <2>2, CurrentStateSound
  <2> QED
    BY <2>1, <2>2, OwnFile
<1> QED
  BY <1>0, <1>1, <1>2, <1>3 DEF SessionCounts, Unwritten

LEMMA NextSessionCounts ==
  ASSUME SessionTypes, \A p \in Proc : SessionCounts(p), [SessionsNext]_allVars, NEW p \in Proc
  PROVE  SessionCounts(p)'
<1>1. CASE StartJob
  BY <1>1, StartJobCounts
<1>2. ASSUME NEW r \in Proc, ProcessStep(r) PROVE SessionCounts(p)'
  <2>1. CASE r = p
    BY <1>2, <2>1, StepCounts
  <2>2. CASE r # p
    BY <1>2, <2>2, OthersKeepTheirOwn, SameCounts
  <2> QED
    BY <2>1, <2>2
<1>3. CASE KillJob
  BY <1>3 DEF KillJob, SessionCounts, Unwritten, counters, files
<1>4. CASE Rest \/ UNCHANGED allVars
  BY <1>4, SameCounts DEF Rest, allVars, vars, counters, files, OwnControl, SweepCounts
<1> QED
  BY <1>1, <1>2, <1>3, <1>4 DEF SessionsNext

SessionInv == SessionTypes /\ \A p \in Proc : SessionCounts(p)

LEMMA SessionsKeepInv == SessionsSpec => []SessionInv
<1>1. SessionsInit => SessionInv
  BY InitialSessionTypes, InitialSessionCounts DEF SessionInv
<1>2. SessionInv /\ [SessionsNext]_allVars => SessionInv'
  BY NextSessionTypes, NextSessionCounts DEF SessionInv
<1> QED
  BY <1>1, <1>2, PTL DEF SessionsSpec

(* However often a job is started, stopped or killed, and whichever of its *)
(* state files were written, every process starts with counters and in a   *)
(* stage that it could have reached by itself: saveInterval and the        *)
(* numbers of sweeps bound the counters, and what is read from disk        *)
(* (loadContents, detqmcpt.h) is in range for the tables it is read into.  *)
THEOREM SessionTypesCorrect == SessionsSpec => []SessionsTypeOK
<1>1. SessionInv => SessionsTypeOK
  <2> SUFFICES ASSUME SessionInv PROVE SessionsTypeOK
    OBVIOUS
  <2>1. TypesAmong(SessionLabels, NoState, LoadMessage)
    BY DEF SessionInv, SessionTypes
  <2>2. /\ sweepsDoneThermalization \in [Proc -> 0..Thermalization]
        /\ sweepsDone \in [Proc -> 0..Sweeps] /\ swCounter \in [Proc -> 0..SaveInterval]
    BY <2>1 DEF TypesAmong, ControlAmong, SessionInv, SessionCounts
  <2>3. stateFile \in [Proc -> State \cup {NoFile, Torn}]
    BY <2>1 DEF TypesAmong, FilesAmong, NoState
  <2> QED
    BY <2>1, <2>2, <2>3 DEF TypesAmong, ControlAmong, FilesAmong, ChannelsAmong, SessionLabels,
       LoadMessage, SessionInv, SessionTypes, SessionsTypeOK
<1> QED
  BY <1>1, SessionsKeepInv, PTL

-----------------------------------------------------------------------------
(* The pace of the exchange.  The exchange of an iteration comes after its *)
(* save, so that a save in the middle of a session is one exchange step    *)
(* behind the sweeps it counts, while the save on exit is not: that is the *)
(* one a session without kills resumes from.                               *)

Proposed  == es.swapUpProposed[0]
AllSweeps == sweepsDoneThermalization[Root] + sweepsDone[Root]

(* A sweep is counted, and the exchange that may be due after it is to     *)
(* come.                                                                   *)
ExchangeToCome ==
  \/ SweepEnded(Root) /\ pc[Root] # "done" /\ ~exiting[Root]
  \/ pc[Root] = "exchange"
  \/ pc[Root] = "walk" /\ cpi1 = 0

SavedHere ==
  /\ ~Unwritten(Root)
  /\ stateFile[Root].therm = sweepsDoneThermalization[Root]
  /\ stateFile[Root].sweeps = sweepsDone[Root]

PaceOfRoot ==
  /\ exiting[Root] => InSave(Root) \/ pc[Root] = "done"
  /\ pc[Root] \in {"exchange", "walk"} => AllSweeps % ExchangeInterval = 0
  /\ stage[Root] # "F" =>
       IF ExchangeToCome
         THEN AllSweeps >= 1 /\ Proposed = (AllSweeps - 1) \div ExchangeInterval
         ELSE Proposed = AllSweeps \div ExchangeInterval
FilesOfRoot ==
  /\ \/ pc[Root] \in {"barrier", "inBarrier", "done"}
     \/ pc[Root] = "endSweep" /\ swCounter[Root] = 0
     \/ stage[Root] = "F"
     => SavedHere
  /\ pc[Root] = "done" /\ stage[Root] # "F" =>
       rootFile.es.swapUpProposed[0] = AllSweeps \div ExchangeInterval
PaceInv ==
  ~wasKilled =>
    IF pc[Root] = "off" THEN stateFile[Root] = NoFile ELSE PaceOfRoot /\ FilesOfRoot

Exchanging == ExchangeInterval # 0 /\ NumProcesses > 1

(* An exchange step is due after every ExchangeInterval-th sweep.          *)
LEMMA ExchangeSteps ==
  ASSUME Exchanging, NEW n \in Nat, n >= 1
  PROVE  /\ n % ExchangeInterval = 0 =>
              n \div ExchangeInterval = (n - 1) \div ExchangeInterval + 1
         /\ n % ExchangeInterval # 0 =>
              n \div ExchangeInterval = (n - 1) \div ExchangeInterval
<1> DEFINE k == ExchangeInterval
           m == n - 1
<1>1. k \in Nat \ {0} /\ m \in Nat /\ n = m + 1
  BY ParametersAssumption DEF Exchanging
<1>2. m % k \in 0..(k - 1)
  BY <1>1, Division
<1> HIDE DEF k, m
<1>3. /\ m % k = k - 1 => (m + 1) % k = 0 /\ (m + 1) \div k = m \div k + 1
      /\ m % k # k - 1 => (m + 1) % k = (m % k) + 1 /\ (m + 1) \div k = m \div k
  BY <1>1, OneMore
<1>4. m % k # k - 1 => (m + 1) % k # 0
  BY <1>2, <1>3
<1>5. /\ n % k = 0 => n \div k = m \div k + 1
      /\ n % k # 0 => n \div k = m \div k
  BY <1>1, <1>3, <1>4
<1> QED
  BY <1>5 DEF k, m

LEMMA NothingProposedYet == Exchanging => 0 \div ExchangeInterval = 0
<1> SUFFICES ASSUME Exchanging PROVE 0 \div ExchangeInterval = 0
  OBVIOUS
<1> DEFINE k == ExchangeInterval
           d == 0 \div k
           r == 0 % k
<1>1. k \in Nat \ {0}
  BY ParametersAssumption DEF Exchanging
<1>2. d \in Int /\ r \in 0..(k - 1) /\ 0 = k * d + r
  BY <1>1, Division
<1>3. 0 = k * 0 + 0 /\ 0 \in 0..(k - 1)
  BY <1>1
<1> HIDE DEF k, d, r
<1>4. d = 0
  BY <1>1, <1>2, <1>3, DivisionUnique
<1> QED
  BY <1>4 DEF d, k

LEMMA StartJobPace ==
  ASSUME SessionInv, PaceInv, Exchanging, StartJob
  PROVE  PaceInv'
<1> SUFFICES ASSUME ~wasKilled PROVE PaceOfRoot' /\ FilesOfRoot' /\ pc'[Root] # "off"
  BY DEF PaceInv, StartJob
<1> USE Constants
<1> DEFINE s == LoadedState(Root)
<1>1. /\ stage'[Root] = StageOf(s) /\ sweepsDoneThermalization'[Root] = s.therm
      /\ sweepsDone'[Root] = s.sweeps /\ exiting'[Root] = FALSE
      /\ stateFile' = stateFile /\ es' = LoadedRoot.es
      /\ pc'[Root] = IF stateFile[Root] = Torn THEN "unreadable" ELSE "setup"
  BY DEF StartJob
<1>2. pc[Root] \in {"done", "off"}
  BY DEF StartJob, JobOver
<1>3. s.therm \in Nat /\ s.sweeps \in Nat
  <2>1. StateSound(s)
    BY FreshStateSound DEF LoadedState, SessionInv, SessionCounts
  <2> QED
    BY <2>1, ParametersAssumption DEF StateSound
<1>4. CASE pc[Root] = "off"
  <2>1. stateFile[Root] = NoFile /\ NoFile # Torn
    BY <1>4, SessionsAssumption DEF PaceInv
  <2>2. s = FreshState(Root) /\ LoadedRoot = FreshRoot /\ 0 \in Par
    BY <2>1 DEF LoadedState, LoadedRoot, Unwritten, Root
  <2>3. s.therm = 0 /\ s.sweeps = 0 /\ es'.swapUpProposed[0] = 0
    BY <1>1, <2>2 DEF FreshState, FreshRoot, InitialStatistics
  <2>4. stage'[Root] # "F" /\ pc'[Root] = "setup"
    BY <1>1, <2>1, <2>3, ParametersAssumption DEF StageOf
  <2>5. ~ExchangeToCome' /\ AllSweeps' = 0
    BY <1>1, <2>3, <2>4 DEF ExchangeToCome, SweepEnded, InSave, AllSweeps
  <2> QED
    BY <1>1, <2>3, <2>4, <2>5, NothingProposedYet DEF PaceOfRoot, FilesOfRoot, Proposed
<1>5. CASE pc[Root] = "done"
  <2>1. PaceOfRoot /\ FilesOfRoot /\ SavedHere
    BY <1>5 DEF PaceInv, FilesOfRoot
  <2>2. s = stateFile[Root] /\ LoadedRoot = rootFile /\ pc'[Root] = "setup"
    BY <1>1, <2>1 DEF SavedHere, LoadedState, LoadedRoot, Unwritten
  <2>3. s.therm = sweepsDoneThermalization[Root] /\ s.sweeps = sweepsDone[Root]
    BY <2>1, <2>2 DEF SavedHere
  <2>4. SavedHere' /\ AllSweeps' = AllSweeps
    BY <1>1, <2>1, <2>3 DEF SavedHere, AllSweeps, Unwritten
  <2>5. ~ExchangeToCome'
    BY <1>1, <2>2 DEF ExchangeToCome, SweepEnded, InSave
  <2>6. stage'[Root] # "F" => stage[Root] # "F"
    <3> SUFFICES ASSUME stage[Root] = "F" PROVE StageOf(s) = "F"
      BY <1>1
    <3>1. CountersSound(Root) /\ Thermalization \in Nat /\ Sweeps \in Nat
      BY <1>5, ParametersAssumption DEF SessionInv, SessionCounts
    <3> QED
      BY <2>3, <3>1 DEF CountersSound, StageOf
  <2>7. stage'[Root] # "F" => Proposed' = AllSweeps' \div ExchangeInterval
    BY <1>1, <1>5, <2>1, <2>2, <2>4, <2>6 DEF FilesOfRoot, Proposed
  <2> QED
    BY <1>1, <2>2, <2>4, <2>5, <2>7 DEF PaceOfRoot, FilesOfRoot
<1> QED
  BY <1>2, <1>4, <1>5

LEMMA SweepsOfRoot ==
  ASSUME SessionInv
  PROVE  /\ AllSweeps \in Nat /\ sweepsDone[Root] \in Nat
         /\ sweepsDoneThermalization[Root] \in Nat /\ es \in Statistics
         /\ Proposed \in Nat /\ 0 \in Par
         /\ stage[Root] \in {"T", "M", "F"}
BY Constants DEF SessionInv, SessionTypes, TypesAmong, ControlAmong, TableTypes, Statistics,
   AllSweeps, Proposed, Root

LEMMA CountingPace ==
  ASSUME SessionInv, PaceOfRoot, FilesOfRoot, Exchanging, Counting(Root), pc[Root] # "off",
         rootFile' = rootFile
  PROVE  PaceOfRoot' /\ FilesOfRoot'
<1> USE Constants, SaveIntervals
<1>t. /\ pc \in [Proc -> SessionLabels] /\ sweepsDone \in [Proc -> Nat]
      /\ sweepsDoneThermalization \in [Proc -> Nat] /\ swCounter \in [Proc -> Nat]
      /\ stage \in [Proc -> {"T", "M", "F"}]
  BY DEF SessionInv, SessionTypes, TypesAmong, ControlAmong
<1>s. CountersSound(Root) /\ AllSweeps \in Nat /\ stage[Root] \in {"T", "M", "F"}
  BY SweepsOfRoot DEF SessionInv, SessionCounts
<1>e. UNCHANGED <<exiting, es, cpi1, stateFile, rootFile>>
  <2>1. UNCHANGED <<exiting, tables, files>>
    BY DEF Counting, SweepThermalization, Sweep, CountSweep, EndSweep
  <2> QED
    BY <2>1 DEF tables, files
<1>1. CASE SweepThermalization(Root) \/ CountSweep(Root)
  <2>1. /\ pc[Root] \in {"sweep", "countSweep"} /\ AllSweeps' = AllSweeps + 1
        /\ pc'[Root] = "save" \/ (pc'[Root] = "endSweep" /\ swCounter'[Root] # 0)
        /\ stage'[Root] = stage[Root] /\ stage[Root] # "F"
    <3>1. CASE SweepThermalization(Root)
      BY <1>t, <3>1 DEF SweepThermalization, Goto, SaveDue, AllSweeps
    <3>2. CASE CountSweep(Root)
      <4>1. swCounter[Root] # 0 /\ stage[Root] = "M"
        BY <1>s, <3>2 DEF CountSweep, CountersSound, MidSweep
      <4> QED
        BY <1>t, <3>2, <4>1 DEF CountSweep, Goto, SaveDue, AllSweeps
    <3> QED
      BY <1>1, <3>1, <3>2
  <2>2. ~exiting[Root] /\ ~ExchangeToCome
    BY <2>1 DEF PaceOfRoot, InSave, ExchangeToCome, SweepEnded
  <2>3. ExchangeToCome'
    BY <1>e, <2>1, <2>2 DEF InSave, ExchangeToCome, SweepEnded
  <2>4. AllSweeps' >= 1 /\ AllSweeps' - 1 = AllSweeps /\ Proposed' = Proposed
    BY <1>s, <1>e, <2>1 DEF Proposed
  <2> QED
    BY <1>e, <2>1, <2>2, <2>3, <2>4 DEF PaceOfRoot, FilesOfRoot
<1>2. CASE Sweep(Root)
  <2>1. /\ pc[Root] = "sweep" /\ pc'[Root] \in {"insertValue", "countSweep"}
        /\ AllSweeps' = AllSweeps /\ stage'[Root] = stage[Root] /\ stage[Root] = "M"
    BY <1>2, <1>t DEF Sweep, Goto, AllSweeps
  <2>2. ~exiting[Root] /\ ~ExchangeToCome /\ ~ExchangeToCome'
    BY <2>1 DEF PaceOfRoot, InSave, ExchangeToCome, SweepEnded
  <2> QED
    BY <1>e, <2>1, <2>2 DEF PaceOfRoot, FilesOfRoot, Proposed
<1>3. CASE EndSweep(Root)
  <2>1. /\ pc[Root] = "endSweep" /\ stage'[Root] = NextStage(Root) /\ AllSweeps' = AllSweeps
        /\ UNCHANGED <<sweepsDone, sweepsDoneThermalization>>
        /\ pc'[Root] = IF NextStage(Root) = "F" THEN "done"
                       ELSE IF ExchangeDue(Root) THEN "exchange" ELSE "check"
    BY <1>3, <1>t DEF EndSweep, Goto, AllSweeps
  <2>2. ~exiting[Root] /\ ExchangeToCome
    BY <2>1 DEF PaceOfRoot, InSave, ExchangeToCome, SweepEnded
  <2>3. stage[Root] # "F"
    BY <1>s, <2>1 DEF CountersSound
  <2>4. AllSweeps >= 1 /\ Proposed = (AllSweeps - 1) \div ExchangeInterval
        /\ Proposed' = Proposed
    BY <1>e, <2>2, <2>3 DEF PaceOfRoot, Proposed
  <2>5. CASE NextStage(Root) = "F"
    <3>1. stage[Root] = "M" /\ sweepsDone[Root] = Sweeps
      BY <1>s, <2>3, <2>5 DEF NextStage
    <3>2. swCounter[Root] \in 0..(SaveInterval - 1) /\ swCounter[Root] % SaveInterval = 0
      BY <1>s, <2>1, <3>1 DEF CountersSound, MidSweep, SweepsBegun
    <3>3. SavedHere
      BY <2>1, <3>2 DEF FilesOfRoot
    <3>4. SavedHere' /\ stage'[Root] = "F" /\ pc'[Root] = "done"
      BY <1>e, <2>1, <2>5, <3>3 DEF SavedHere, Unwritten
    <3> QED
      BY <1>e, <2>2, <3>4 DEF PaceOfRoot, FilesOfRoot
  <2>6. CASE NextStage(Root) # "F" /\ ExchangeDue(Root)
    <3>1. pc'[Root] = "exchange" /\ AllSweeps % ExchangeInterval = 0 /\ stage'[Root] # "F"
      BY <1>t, <2>1, <2>6 DEF ExchangeDue, AllSweeps
    <3> QED
      BY <1>e, <2>1, <2>2, <2>4, <3>1 DEF PaceOfRoot, FilesOfRoot, ExchangeToCome
  <2>7. CASE NextStage(Root) # "F" /\ ~ExchangeDue(Root)
    <3>1. pc'[Root] = "check" /\ AllSweeps % ExchangeInterval # 0 /\ stage'[Root] # "F"
      BY <1>t, <2>1, <2>7 DEF ExchangeDue, AllSweeps, Exchanging
    <3>2. ~ExchangeToCome'
      BY <3>1 DEF ExchangeToCome, SweepEnded, InSave
    <3>3. Proposed' = AllSweeps' \div ExchangeInterval
      BY <1>s, <2>1, <2>4, <3>1, ExchangeSteps
    <3> QED
      BY <1>e, <2>1, <2>2, <3>1, <3>2, <3>3 DEF PaceOfRoot, FilesOfRoot
  <2> QED
    BY <2>5, <2>6, <2>7
<1> QED
  BY <1>1, <1>2, <1>3 DEF Counting

(* The exchange step itself: the walk proposes the lowest pair first.      *)
LEMMA WalkPace ==
  ASSUME SessionInv, PaceOfRoot, FilesOfRoot, Exchanging,
         \/ GatherControlData \/ ScatterAssignment
         \/ \E accept \in BOOLEAN : ProposeExchange(accept)
  PROVE  PaceOfRoot' /\ FilesOfRoot'
<1> USE Constants
<1>t. pc \in [Proc -> SessionLabels] /\ cpi1 \in Nat
  BY DEF SessionInv, SessionTypes, TypesAmong, ControlAmong, TableTypes, Par
<1>s. CountersSound(Root) \/ pc[Root] = "off"
  BY DEF SessionInv, SessionCounts
<1>e. UNCHANGED <<exiting, stage, sweepsDone, sweepsDoneThermalization, swCounter, stateFile>>
      /\ pc[Root] \in {"exchange", "walk"} /\ pc'[Root] \in {"walk", "check"}
  BY <1>t DEF GatherControlData, ScatterAssignment, ProposeExchange, counters, files, Goto
<1>n. /\ stage[Root] # "F" /\ ~exiting[Root] /\ AllSweeps % ExchangeInterval = 0
      /\ AllSweeps' = AllSweeps
  BY <1>s, <1>e DEF CountersSound, PaceOfRoot, InSave, AllSweeps
<1>f. FilesOfRoot'
  BY <1>e, <1>n DEF FilesOfRoot
<1>1. CASE GatherControlData
  <2>1. pc[Root] = "exchange" /\ pc'[Root] = "walk" /\ cpi1' = 0
    BY <1>1, <1>t DEF GatherControlData, Goto
  <2>2. Proposed' = Proposed
    BY <1>1, SweepsOfRoot DEF GatherControlData, UpdateHistograms, Proposed, Statistics
  <2> QED
    BY <1>e, <1>n, <1>f, <2>1, <2>2 DEF PaceOfRoot, ExchangeToCome
<1>2. CASE ScatterAssignment
  <2>n. NumProcesses - 1 # 0
    BY DEF Exchanging
  <2>1. pc[Root] = "walk" /\ cpi1 # 0 /\ pc'[Root] = "check" /\ UNCHANGED tables
    BY <1>2, <1>t, <2>n DEF ScatterAssignment, Goto
  <2>2. ~ExchangeToCome /\ ~ExchangeToCome' /\ Proposed' = Proposed
    BY <2>1 DEF ExchangeToCome, SweepEnded, InSave, Proposed, tables
  <2> QED
    BY <1>e, <1>n, <1>f, <2>1, <2>2 DEF PaceOfRoot
<1>3. ASSUME NEW accept \in BOOLEAN, ProposeExchange(accept)
      PROVE  PaceOfRoot' /\ FilesOfRoot'
  <2>1. pc[Root] = "walk" /\ pc'[Root] = "walk" /\ cpi1' # 0 /\ cpi1 \in Par
    BY <1>3, <1>t DEF ProposeExchange, SessionInv, SessionTypes, TypesAmong, TableTypes
  <2>2. ~ExchangeToCome' /\ (ExchangeToCome <=> cpi1 = 0)
    BY <2>1 DEF ExchangeToCome, SweepEnded, InSave
  <2>3. es' = [es EXCEPT !.swapUpProposed[cpi1] = @ + 1,
                         !.swapUpAccepted[cpi1] = IF accept THEN @ + 1 ELSE @]
    BY <1>3 DEF ProposeExchange, CountProposal
  <2>4. Proposed' = IF cpi1 = 0 THEN Proposed + 1 ELSE Proposed
    BY <2>1, <2>3, SweepsOfRoot DEF Proposed, Statistics
  <2>5. Proposed' = AllSweeps \div ExchangeInterval
    <3>1. CASE cpi1 = 0
      <4>1. AllSweeps >= 1 /\ Proposed = (AllSweeps - 1) \div ExchangeInterval
        BY <1>n, <2>2, <3>1 DEF PaceOfRoot
      <4> QED
        BY <1>n, <2>4, <3>1, <4>1, SweepsOfRoot, ExchangeSteps
    <3>2. CASE cpi1 # 0
      BY <1>n, <2>2, <2>4, <3>2 DEF PaceOfRoot
    <3> QED
      BY <3>1, <3>2
  <2> QED
    BY <1>e, <1>n, <1>f, <2>1, <2>2, <2>5 DEF PaceOfRoot
<1> QED
  BY <1>1, <1>2, <1>3

(* The other steps of the root leave the statistics alone.                 *)
AtExchange ==
  \/ GatherControlData \/ ScatterAssignment
  \/ \E accept \in BOOLEAN : ProposeExchange(accept)

LEMMA AsideOfExchange ==
  ASSUME ProcessStep(Root), ~Counting(Root), ~AtExchange
  PROVE  UNCHANGED <<es, cpi1>> /\ pc[Root] \notin {"exchange", "walk"}
<1>1. CASE Starting(Root) \/ Saving(Root)
  BY <1>1 DEF Starting, WriteHeader, ScatterLoaded, OpenStreams, HearLoaded, Saving, SaveResults,
     OpenStateFile, WriteStateFile, tables
<1>2. CASE Master
  <2>1. CASE \/ \E stop \in BOOLEAN : BroadcastStop(stop)
             \/ GatherValues \/ GatherConfigurations \/ OpenBarrier \/ GatherCheck
    BY <2>1 DEF BroadcastStop, GatherValues, GatherConfigurations, Flushing, OpenBarrier,
       GatherCheck, tables
  <2> QED
    BY <1>2, <2>1 DEF Master, AtExchange
<1> QED
  BY <1>1, <1>2 DEF ProcessStep, DriverStep, Counting, Workers

LEMMA AsidePace ==
  ASSUME SessionInv, PaceOfRoot, FilesOfRoot, pc[Root] # "off",
         ProcessStep(Root), ~Counting(Root), ~AtExchange
  PROVE  PaceOfRoot' /\ FilesOfRoot'
<1> USE Constants
<1>1. UNCHANGED SweepCounts(Root) /\ Moves(Root)
  BY StepMoves DEF SessionInv
<1>2. UNCHANGED <<es, cpi1>> /\ pc[Root] \notin {"exchange", "walk"}
  BY AsideOfExchange
<1>3. CountersSound(Root) /\ CountersSound(Root)'
  BY <1>1, MovesKeepCounts DEF SessionInv, SessionCounts
<1>4. AllSweeps' = AllSweeps /\ Proposed' = Proposed /\ stage'[Root] = stage[Root]
  BY <1>1, <1>2 DEF SweepCounts, AllSweeps, Proposed
<1>5. pc'[Root] \in {"exchange", "walk"} => FALSE
  BY <1>1, <1>2 DEF Moves, AfterSave, LoopTop, EnterLoop
<1>6. exiting'[Root] => InSave(Root)' \/ pc'[Root] = "done"
  BY <1>1, <1>2 DEF PaceOfRoot, Moves, InSave, AfterSave, LoopTop, EnterLoop
<1>7. stage[Root] # "F" => (ExchangeToCome' <=> ExchangeToCome)
  BY <1>1, <1>2, <1>5 DEF Moves, ExchangeToCome, SweepEnded, InSave, PaceOfRoot,
     AfterSave, LoopTop, EnterLoop
<1>8. PaceOfRoot'
  BY <1>4, <1>5, <1>6, <1>7 DEF PaceOfRoot
<1>9. FilesOfRoot'
  <2>1. CASE /\ stateFile'[Root] = CurrentState(Root) /\ WriteStateFile(Root)
             /\ pc[Root] = "writeState" /\ pc'[Root] = AfterSave(Root)
    <3>1. ~Unwritten(Root)'
      <4>1. CurrentState(Root) \in State
        BY DEF CurrentState, State, SessionInv, SessionTypes, TypesAmong, ControlAmong,
           ReplicaTypes
      <4> QED
        BY <2>1, <4>1, NoStateIsNone DEF Unwritten
    <3>2. SavedHere'
      BY <1>1, <2>1, <3>1 DEF SavedHere, CurrentState, SweepCounts
    <3>3. pc'[Root] = "done" /\ stage[Root] # "F" =>
            rootFile'.es.swapUpProposed[0] = AllSweeps' \div ExchangeInterval
      <4> SUFFICES ASSUME pc'[Root] = "done", stage[Root] # "F"
                   PROVE  rootFile'.es.swapUpProposed[0] = AllSweeps' \div ExchangeInterval
        OBVIOUS
      <4>1. exiting[Root] /\ ~ExchangeToCome
        BY <2>1 DEF AfterSave, ExchangeToCome
      <4>2. rootFile'.es = es
        BY <2>1 DEF WriteStateFile, RootState
      <4> QED
        BY <1>4, <4>1, <4>2 DEF PaceOfRoot, Proposed
    <3> QED
      BY <1>4, <3>2, <3>3 DEF FilesOfRoot
  <2>2. CASE stateFile'[Root] = Torn /\ pc'[Root] = "writeState"
    <3>1. stage'[Root] # "F"
      BY <1>3, <2>2 DEF CountersSound
    <3> QED
      BY <2>2, <3>1 DEF FilesOfRoot
  <2>3. CASE stateFile'[Root] = stateFile[Root] /\ rootFile' = rootFile
             /\ pc[Root] # "writeState"
    <3>1. \/ pc'[Root] \in {"barrier", "inBarrier", "done"}
          \/ pc'[Root] = "endSweep" /\ swCounter'[Root] = 0
          \/ stage'[Root] = "F"
          => SavedHere
      <4>1. CASE stage[Root] = "F"
        BY <4>1 DEF FilesOfRoot
      <4>2. CASE stage[Root] # "F"
        BY <1>1, <1>4, <2>3, <4>2 DEF Moves, FilesOfRoot, LoopTop, EnterLoop, SweepCounts
      <4> QED
        BY <4>1, <4>2
    <3>2. SavedHere => SavedHere'
      BY <1>1, <2>3 DEF SavedHere, Unwritten, SweepCounts
    <3>3. pc'[Root] = "done" /\ stage[Root] # "F" => pc[Root] = "done"
      BY <1>1, <2>3 DEF Moves, LoopTop, EnterLoop
    <3> QED
      BY <1>4, <2>3, <3>1, <3>2, <3>3 DEF FilesOfRoot
  <2> QED
    BY <2>1, <2>2, <2>3, OwnFile DEF SessionInv
<1> QED
  BY <1>8, <1>9

LEMMA SamePace ==
  ASSUME PaceInv, UNCHANGED <<OwnControl(Root), es, cpi1, rootFile, wasKilled>>
  PROVE  PaceInv'
<1>1. /\ AllSweeps' = AllSweeps /\ Proposed' = Proposed /\ stage'[Root] = stage[Root]
      /\ (ExchangeToCome' <=> ExchangeToCome) /\ (SavedHere' <=> SavedHere)
      /\ (InSave(Root)' <=> InSave(Root))
  BY DEF AllSweeps, Proposed, ExchangeToCome, SweepEnded, InSave, SavedHere, Unwritten, OwnControl,
     SweepCounts
<1> QED
  BY <1>1 DEF PaceInv, PaceOfRoot, FilesOfRoot, OwnControl, SweepCounts

LEMMA NextPace ==
  ASSUME SessionInv, PaceInv, Exchanging, [SessionsNext]_allVars
  PROVE  PaceInv'
<1> USE Constants
<1>1. CASE StartJob
  BY <1>1, StartJobPace
<1>2. ASSUME NEW p \in Proc, ProcessStep(p) PROVE PaceInv'
  <2>0. wasKilled' = wasKilled
    BY <1>2 DEF ProcessStep, Starting, WriteHeader, ScatterLoaded, OpenStreams, HearLoaded,
       Saving, SaveResults, OpenStateFile, WriteStateFile, DriverStep, sessionVars
  <2>1. CASE p # Root
    BY <1>2, <2>0, <2>1, OthersKeepTheirOwn, SamePace DEF SessionInv, OfTheRoot, tables
  <2>2. CASE p = Root
    <3> SUFFICES ASSUME ~wasKilled PROVE PaceInv'
      BY <2>0 DEF PaceInv
    <3>1. pc[Root] # "off"
      BY <1>2, <2>2, StepCounts DEF SessionInv
    <3>2. PaceOfRoot /\ FilesOfRoot
      BY <3>1 DEF PaceInv
    <3>3. pc'[Root] # "off"
      <4>1. CASE Counting(Root)
        <5>1. PICK label \in Labels : Goto(Root, label)
          BY <4>1 DEF Counting, SweepThermalization, Sweep, CountSweep, EndSweep, Labels
        <5> QED
          BY <5>1 DEF Goto, Labels, SessionInv, SessionTypes, TypesAmong, ControlAmong
      <4>2. CASE ~Counting(Root)
        <5>1. Moves(Root)
          BY <1>2, <2>2, <4>2, StepMoves DEF SessionInv
        <5> QED
          BY <3>1, <5>1 DEF Moves, AfterSave, LoopTop, EnterLoop
      <4> QED
        BY <4>1, <4>2
    <3>4. PaceOfRoot' /\ FilesOfRoot'
      <4>1. CASE Counting(Root)
        <5>1. rootFile' = rootFile
          BY <1>2, <2>2, <4>1, OwnFile DEF SessionInv, Counting, SweepThermalization, Sweep,
             CountSweep, EndSweep, WriteStateFile
        <5> QED
          BY <3>1, <3>2, <4>1, <5>1, CountingPace
      <4>2. CASE AtExchange
        BY <3>2, <4>2, WalkPace DEF AtExchange
      <4>3. CASE ~Counting(Root) /\ ~AtExchange
        BY <1>2, <2>2, <3>1, <3>2, <4>3, AsidePace
      <4> QED
        BY <4>1, <4>2, <4>3
    <3> QED
      BY <3>3, <3>4 DEF PaceInv
  <2> QED
    BY <2>1, <2>2
<1>3. CASE KillJob
  BY <1>3 DEF KillJob, PaceInv
<1>4. CASE Rest \/ UNCHANGED allVars
  BY <1>4, SamePace DEF Rest, allVars, vars, sessionVars, counters, tables, files, OwnControl,
     SweepCounts
<1> QED
  BY <1>1, <1>2, <1>3, <1>4 DEF SessionsNext

(* Without kills no exchange step is left out or done twice, however often *)
(* the run is stopped and resumed and wherever the stops fall: at every    *)
(* sweep the lowest pair of parameters was proposed once per               *)
(* exchangeInterval sweeps done since the simulation began.                *)
THEOREM ExchangeStaysOnPace == SessionsSpec => []ExchangeKeepsPace
<1>1. SessionsInit => (Exchanging => PaceInv)
  BY Constants DEF SessionsInit, Idle, PaceInv
<1>2. SessionInv /\ (Exchanging => PaceInv) /\ [SessionsNext]_allVars => (Exchanging => PaceInv)'
  BY NextPace DEF Exchanging
<1>3. (Exchanging => PaceInv) /\ SessionInv => ExchangeKeepsPace
  <2> SUFFICES ASSUME Exchanging => PaceInv, SessionInv, ~wasKilled, Exchanging,
                      pc[Root] \in {"top", "sweep"}
               PROVE  Proposed = AllSweeps \div ExchangeInterval
    BY DEF ExchangeKeepsPace, Exchanging, Proposed, AllSweeps
  <2>1. PaceOfRoot /\ ~ExchangeToCome
    BY DEF PaceInv, ExchangeToCome, SweepEnded, InSave
  <2>2. stage[Root] # "F"
    BY Constants DEF SessionInv, SessionCounts, CountersSound
  <2> QED
    BY <2>1, <2>2 DEF PaceOfRoot
<1> QED
  BY <1>1, <1>2, <1>3, SessionsKeepInv, PTL DEF SessionsSpec

-----------------------------------------------------------------------------
(* Sessions in lockstep.  A session that starts from fitting files starts  *)
(* at one point of the program: setup, and hearing the table, is not part  *)
(* of it.  A save is one step of the program, taken when the state file is *)
(* opened.                                                                 *)

SessionLabel(p) ==
  IF pc[p] \in {"setup", "load", "open"} THEN EnterLoop(p)
  ELSE IF pc[p] = "saveState" THEN "save"
  ELSE IF pc[p] = "writeState" THEN AfterSave(p) ELSE LabelOf(p)
SessionPar(p) ==
  IF pc[p] \in {"setup", "load"} THEN local_current_parameter_index[p] ELSE replica_par[p]
SessionFile(p) == IF pc[p] = "writeState" THEN CurrentState(p) ELSE stateFile[p]
SessionKept ==
  IF pc[Root] = "writeState" THEN current_process_par
  ELSE IF Unwritten(Root) THEN Identity ELSE rootFile.current_process_par
SessionView(p) == ViewAs(p, SessionLabel(p), SessionPar(p), SessionFile(p), SessionKept)
SessionViews   == [p \in Proc |-> SessionView(p)]

(* A worker that has a state file hears the root's table before anything   *)
(* else.                                                                   *)
Loads(q)   == pc[q] \in {"setup", "load"} /\ Found(q)
Pended(q)  == IF Loads(q) /\ down[q] # <<>> THEN Tail(down[q]) ELSE down[q]
SessionNet == [q \in Workers |-> Pended(q)]

LoadsAlike(q) ==
  IF pc[Root] \in {"setup", "load"}
    THEN /\ down[q] = <<>> /\ (Loads(q) <=> Found(Root))
         /\ Found(Root) => local_current_parameter_index[q] = current_process_par[q]
    ELSE /\ Loads(q) => /\ down[q] # <<>>
                        /\ Head(down[q]) = [op |-> "load", par |-> local_current_parameter_index[q]]
         /\ Pended(q) \in Seq(DownMessage)
LoadSound ==
  /\ \A p \in Proc :
       /\ pc[p] = "load" => Found(p)
       /\ pc[p] = "setup" /\ ~Found(p) =>
            EnterLoop(p) = "top" /\ replica_par[p] = local_current_parameter_index[p]
       /\ pc[p] = "saveState" => buffered[p] = <<>>
  /\ \A q \in Workers : LoadsAlike(q)

Running         == inStep /\ pc[Root] # "off"
SessionLockstep == Running => LoadSound /\ InLockstep(SessionViews, up, SessionNet)

(* The tables in the root's state file are inverse to each other.          *)
RootFileInverse ==
  inStep /\ ~Unwritten(Root) =>
    /\ \A p \in Proc : rootFile.current_par_process[rootFile.current_process_par[p]] = p
    /\ \A c \in Par : rootFile.current_process_par[rootFile.current_par_process[c]] = c

LEMMA SessionViewOfEach ==
  ASSUME NEW r \in Proc
  PROVE  /\ SessionViews[r] = SessionView(r)
         /\ SessionViews'[r] =
              ViewAs(r, SessionLabel(r), SessionPar(r), SessionFile(r), SessionKept)'
<1>1. SessionViews[r] = SessionView(r)
  BY DEF SessionViews
<1>2. SessionViews'[r] = ViewAs(r, SessionLabel(r), SessionPar(r), SessionFile(r), SessionKept)'
  BY DEF SessionViews, SessionView, ViewAs, SessionLabel, SessionPar, SessionFile, LabelOf,
     EnterLoop, LoopTop, AfterSave, CurrentState
<1> QED
  BY <1>1, <1>2

LEMMA PendedOfEach ==
  ASSUME NEW q \in Workers
  PROVE  SessionNet[q] = Pended(q) /\ SessionNet'[q] = Pended(q)'
<1>1. SessionNet[q] = Pended(q)
  BY DEF SessionNet
<1>2. SessionNet'[q] = Pended(q)'
  BY DEF SessionNet, Pended, Loads, Found
<1> QED
  BY <1>1, <1>2

LEMMA SessionChannels ==
  ASSUME SessionTypes, LoadSound
  PROVE  ChannelsOf(up, SessionNet)
<1> SUFFICES ASSUME NEW q \in Workers
             PROVE  up[q] \in Seq(UpMessage) /\ SessionNet[q] \in Seq(DownMessage)
  BY DEF ChannelsOf
<1>1. up[q] \in Seq(UpMessage)
  BY DEF SessionTypes, TypesAmong, ChannelsAmong
<1>2. Pended(q) \in Seq(DownMessage)
  <2>1. LoadsAlike(q)
    BY DEF LoadSound
  <2>2. CASE down[q] = <<>>
    BY <2>2 DEF Pended
  <2>3. CASE down[q] # <<>>
    BY <2>1, <2>3 DEF LoadsAlike
  <2> QED
    BY <2>2, <2>3
<1> QED
  BY <1>1, <1>2, PendedOfEach

LEMMA SessionChannelsNext ==
  ASSUME SessionTypes', LoadSound'
  PROVE  ChannelsOf(up', SessionNet')
<1> SUFFICES ASSUME NEW q \in Workers
             PROVE  up'[q] \in Seq(UpMessage) /\ SessionNet'[q] \in Seq(DownMessage)
  BY DEF ChannelsOf
<1>1. up'[q] \in Seq(UpMessage)
  BY DEF SessionTypes, TypesAmong, ChannelsAmong
<1>2. Pended(q)' \in Seq(DownMessage)
  <2>1. LoadsAlike(q)'
    BY DEF LoadSound
  <2>2. CASE down'[q] = <<>>
    BY <2>2 DEF Pended
  <2>3. CASE down'[q] # <<>>
    BY <2>1, <2>3 DEF LoadsAlike
  <2> QED
    BY <2>2, <2>3
<1> QED
  BY <1>1, <1>2, PendedOfEach

(* A job that starts from fitting files starts at one point.               *)
LEMMA InverseIsTable ==
  ASSUME NEW t \in [Proc -> Par], NEW u \in [Par -> Proc],
         \A p \in Proc : u[t[p]] = p, \A c \in Par : t[u[c]] = c
  PROVE  t \in Tables
<1>1. ASSUME NEW k \in Par
      PROVE  \E p \in Proc : \A r \in Proc : t[r] = k <=> r = p
  <2>1. u[k] \in Proc /\ \A r \in Proc : t[r] = k <=> r = u[k]
    OBVIOUS
  <2> QED
    BY <2>1
<1> QED
  BY <1>1 DEF Tables

LoadedLabel(state) ==
  IF StageOf(state) = "F" THEN "done" ELSE IF state.counter % 2 = 0 THEN "top" ELSE "sweep"
LoadedPoint(state, table, saves) ==
  [label |-> LoadedLabel(state), stage |-> StageOf(state), therm |-> state.therm,
   sweeps |-> state.sweeps, counter |-> state.counter, exiting |-> FALSE,
   table |-> table, buffered |-> <<>>, saves |-> saves,
   saved |-> [therm |-> state.therm, sweeps |-> state.sweeps, counter |-> state.counter,
              table |-> table],
   ups |-> 0, downs |-> 0]

LEMMA LoadedPointSound ==
  ASSUME NEW state \in State, StateSound(state), NEW table \in Tables, NEW saves \in {0, 1},
         saves = 0 => state.therm = 0 /\ state.sweeps = 0
  PROVE  LoadedPoint(state, table, saves) \in SoundPoints
<1> DEFINE c == LoadedPoint(state, table, saves)
<1>i. /\ SaveInterval \in Nat \ {0} /\ ConfigInterval \in Nat \ {0} /\ Sweeps \in Nat \ {0}
      /\ Thermalization \in Nat
  BY Intervals
<1>s. /\ state.therm \in Nat /\ state.sweeps \in Nat /\ state.counter \in 0..(SaveInterval - 1)
      /\ state.counter \in Nat
      /\ state.therm # Thermalization => state.sweeps = 0 /\ state.therm < Thermalization
      /\ state.therm = Thermalization => state.counter % SaveInterval = state.sweeps % SaveInterval
      /\ state.sweeps <= Sweeps
  BY <1>i DEF State, StateSound
<1>g. /\ StageOf(state) = "T" => state.sweeps = 0
      /\ StageOf(state) = "M" => state.therm = Thermalization
      /\ StageOf(state) = "F" => state.sweeps = Sweeps
      /\ StageOf(state) \in {"T", "M", "F"}
  BY <1>i, <1>s DEF StageOf
<1>l. /\ LoadedLabel(state) \in {"done", "top", "sweep"}
      /\ LoadedLabel(state) = "done" <=> StageOf(state) = "F"
      /\ LoadedLabel(state) = "top" => state.counter % 2 = 0
  BY DEF LoadedLabel
<1>c. /\ c.label = LoadedLabel(state) /\ c.stage = StageOf(state) /\ c.therm = state.therm
      /\ c.sweeps = state.sweeps /\ c.counter = state.counter /\ c.exiting = FALSE
      /\ c.table = table /\ c.buffered = <<>> /\ c.saves = saves
      /\ c.saved.therm = state.therm /\ c.saved.sweeps = state.sweeps
      /\ c.ups = 0 /\ c.downs = 0
  BY DEF LoadedPoint
<1>1. c \in Points
  BY <1>s, <1>g, <1>l DEF LoadedPoint, Points, Saved, Labels
<1> HIDE DEF c
<1>2. StageSound(c)
  BY <1>c, <1>g, <1>l DEF StageSound, InSweep
<1>3. CounterSound(c)
  BY <1>c, <1>s, <1>g, <1>l DEF CounterSound, InSweep, Begun
<1>4. SaveSound(c)
  BY <1>c, <1>s, <1>i, <1>g, <1>l DEF SaveSound, JustSaved, AtBarrier, SavedProgress, ProgressAt
<1>5. ASSUME StreamsInStep PROVE StreamSound(c)
  <2>1. c.stage = "M" => c.counter % ConfigInterval = Begun(c) % ConfigInterval
    <3> SUFFICES ASSUME c.stage = "M"
                 PROVE  state.counter % ConfigInterval = state.sweeps % ConfigInterval
      BY <1>c, <1>l, <1>s DEF Begun, InSweep
    <3>1. state.counter % SaveInterval = state.sweeps % SaveInterval
      BY <1>c, <1>g, <1>s
    <3> QED
      BY <1>i, <1>s, <1>5, <3>1, SameRemainder DEF StreamsInStep
  <2>2. Len(c.buffered) <= Due(c) /\ Consecutive(c.buffered, Due(c))
    <3>1. Due(c) = state.sweeps \div ConfigInterval
      BY <1>c, <1>l DEF Due
    <3>2. Due(c) \in Nat
      BY <1>i, <1>s, <3>1, DueIsNat
    <3>3. Len(c.buffered) = 0
      BY <1>c
    <3> QED
      BY <3>2, <3>3 DEF Consecutive
  <2> QED
    BY <2>1, <2>2, <1>c DEF StreamSound
<1>6. c \in SoundPoints
  BY <1>1, <1>2, <1>3, <1>4, <1>5 DEF SoundPoints, Sound
<1> QED
  BY <1>6 DEF c

(* What fitting files hold: nothing, or one moment of one simulation.      *)
FilesHold(state, table, saves) ==
  /\ StateSound(state) /\ (saves = 0 => state = FreshState(Root) /\ table = Identity)
  /\ table = LoadedRoot.current_process_par
  /\ \A p \in Proc :
       /\ LoadedState(p) = [therm |-> state.therm, sweeps |-> state.sweeps,
                            counter |-> state.counter, par |-> table[p], ctrl |-> table[p]]
       /\ stateFile[p] = IF saves = 0 THEN NoFile ELSE LoadedState(p)

LEMMA FittingFilesHold ==
  ASSUME SessionInv, RootFileInverse, inStep, FilesFit
  PROVE  \E state \in State, table \in Tables, saves \in {0, 1} :
           /\ FilesHold(state, table, saves)
           /\ \A p \in Proc : LoadedRoot.current_par_process[table[p]] = p
           /\ \A c \in Par : table[LoadedRoot.current_par_process[c]] = c
<1>c. Root \in Proc
  BY Constants
<1>i. Identity \in Tables
  BY Constants DEF Identity, Tables
<1>t. /\ \A p \in Proc : stateFile[p] \in State \cup {NoFile, Torn}
      /\ ~Unwritten(Root) => rootFile \in RootRecord
      /\ \A p \in Proc : ~Unwritten(p) => StateSound(stateFile[p])
  BY DEF SessionInv, SessionTypes, SessionCounts, TypesAmong, FilesAmong, NoState
<1>1. CASE \A p \in Proc : stateFile[p] = NoFile
  <2>1. \A p \in Proc : LoadedState(p) = FreshState(p) /\ Unwritten(p)
    BY <1>1 DEF LoadedState, Unwritten
  <2>2. LoadedRoot = FreshRoot
    BY <1>c, <2>1 DEF LoadedRoot
  <2>3. FreshRoot.current_process_par = Identity
    BY DEF FreshRoot, Identity
  <2>4. FreshState(Root) \in State /\ StateSound(FreshState(Root))
    BY <1>c, FreshTypes, FreshStateSound
  <2>5. /\ FreshState(Root).therm = 0 /\ FreshState(Root).sweeps = 0 /\ FreshState(Root).counter = 0
        /\ \A p \in Proc : FreshState(p) = [therm |-> 0, sweeps |-> 0, counter |-> 0,
                                             par |-> Identity[p], ctrl |-> Identity[p]]
    BY DEF FreshState, Identity
  <2>6. FilesHold(FreshState(Root), Identity, 0)
    BY <1>1, <2>1, <2>2, <2>3, <2>4, <2>5 DEF FilesHold
  <2>7. /\ \A p \in Proc : FreshRoot.current_par_process[Identity[p]] = p
        /\ \A c \in Par : Identity[FreshRoot.current_par_process[c]] = c
    BY DEF FreshRoot, Identity, Proc, Par
  <2> QED
    BY <1>i, <2>2, <2>4, <2>6, <2>7
<1>2. CASE ~\A p \in Proc : stateFile[p] = NoFile
  <2>1. \A p \in Proc :
          /\ stateFile[p] \notin {NoFile, Torn}
          /\ stateFile[p].therm = stateFile[Root].therm
          /\ stateFile[p].sweeps = stateFile[Root].sweeps
          /\ stateFile[p].counter = stateFile[Root].counter
          /\ stateFile[p].par = rootFile.current_process_par[p]
          /\ stateFile[p].ctrl = rootFile.current_process_par[p]
    BY <1>2 DEF FilesFit
  <2>2. ~Unwritten(Root) /\ \A p \in Proc : ~Unwritten(p) /\ LoadedState(p) = stateFile[p]
    BY <1>c, <2>1 DEF Unwritten, LoadedState
  <2>3. LoadedRoot = rootFile /\ rootFile \in RootRecord
    BY <1>t, <2>2 DEF LoadedRoot
  <2> DEFINE table == rootFile.current_process_par
             owner == rootFile.current_par_process
  <2>4. table \in [Proc -> Par] /\ owner \in [Par -> Proc]
    BY <2>3 DEF RootRecord
  <2>5. (\A p \in Proc : owner[table[p]] = p) /\ (\A c \in Par : table[owner[c]] = c)
    BY <2>2 DEF RootFileInverse
  <2>6. table \in Tables
    BY <2>4, <2>5, InverseIsTable
  <2>7. PICK state \in State : state = stateFile[Root]
    BY <1>c, <1>t, <2>1
  <2>8. \A p \in Proc : LoadedState(p) = [therm |-> state.therm, sweeps |-> state.sweeps,
                            counter |-> state.counter, par |-> table[p], ctrl |-> table[p]]
    <3> SUFFICES ASSUME NEW p \in Proc
                 PROVE  LoadedState(p) = [therm |-> state.therm, sweeps |-> state.sweeps,
                            counter |-> state.counter, par |-> table[p], ctrl |-> table[p]]
      OBVIOUS
    <3>1. stateFile[p] \in State
      BY <1>t, <2>1
    <3>2. PICK s \in State : s = stateFile[p]
      BY <3>1
    <3>3. /\ s.therm = state.therm /\ s.sweeps = state.sweeps /\ s.counter = state.counter
          /\ s.par = table[p] /\ s.ctrl = table[p]
      BY <2>1, <2>7, <3>2
    <3>4. s = [therm |-> s.therm, sweeps |-> s.sweeps, counter |-> s.counter,
               par |-> s.par, ctrl |-> s.ctrl]
      BY DEF State
    <3> QED
      BY <2>2, <3>2, <3>3, <3>4
  <2>9. StateSound(state)
    BY <1>c, <1>t, <2>2, <2>7
  <2>10. FilesHold(state, table, 1)
    BY <2>2, <2>3, <2>8, <2>9 DEF FilesHold
  <2> QED
    BY <2>3, <2>5, <2>6, <2>10
<1> QED
  BY <1>1, <1>2

LEMMA StartJobLockstep ==
  ASSUME SessionInv, RootFileInverse, StartJob, inStep'
  PROVE  LoadSound' /\ InLockstep(SessionViews', up', SessionNet')
<1>c. Root \in Proc /\ \A q \in Workers : q \in Proc
  BY Constants DEF Workers
<1>0. inStep /\ FilesFit
  BY DEF StartJob, SessionInv, SessionTypes
<1>1. PICK state \in State, table \in Tables, saves \in {0, 1} :
        /\ FilesHold(state, table, saves)
        /\ \A p \in Proc : LoadedRoot.current_par_process[table[p]] = p
        /\ \A c \in Par : table[LoadedRoot.current_par_process[c]] = c
  BY <1>0, FittingFilesHold
<1>2. \A p \in Proc :
        /\ LoadedState(p) = [therm |-> state.therm, sweeps |-> state.sweeps,
                             counter |-> state.counter, par |-> table[p], ctrl |-> table[p]]
        /\ stateFile[p] = IF saves = 0 THEN NoFile ELSE LoadedState(p)
        /\ LoadedState(p).therm = state.therm /\ LoadedState(p).sweeps = state.sweeps
        /\ LoadedState(p).counter = state.counter
        /\ LoadedState(p).par = table[p] /\ LoadedState(p).ctrl = table[p]
  BY <1>1 DEF FilesHold
<1>3. /\ StateSound(state) /\ table = LoadedRoot.current_process_par
      /\ saves = 0 => state.therm = 0 /\ state.sweeps = 0 /\ state.counter = 0 /\ table = Identity
  BY <1>1 DEF FilesHold, FreshState
<1>4. PICK c \in SoundPoints : c = LoadedPoint(state, table, saves)
  BY <1>3, LoadedPointSound
<1>5. \A p \in Proc : saves = 1 => stateFile[p] # NoFile /\ stateFile[p] # Torn
  <2>1. \A p \in Proc : LoadedState(p) \in State
    BY <1>2, FreshTypes DEF LoadedState, Unwritten, SessionInv, SessionTypes, TypesAmong,
       FilesAmong, NoState
  <2> QED
    BY <1>2, <2>1, NoStateIsNone
<1>6. ASSUME NEW p \in Proc
      PROVE  /\ pc'[p] = "setup" /\ stage'[p] = StageOf(state)
                  /\ sweepsDoneThermalization'[p] = state.therm
             /\ sweepsDone'[p] = state.sweeps /\ swCounter'[p] = state.counter
                  /\ exiting'[p] = FALSE
             /\ local_current_parameter_index'[p] = table[p] /\ replica_par'[p] = p
             /\ replica_ctrl'[p] = table[p] /\ buffered'[p] = <<>> /\ stateFile'[p] = stateFile[p]
             /\ EnterLoop(p)' = LoadedLabel(state)
  <2>1. stateFile[p] # Torn
    BY <1>2, <1>5, SessionsAssumption
  <2>2. StageOf(LoadedState(p)) = StageOf(state)
    BY <1>2 DEF StageOf
  <2>3. /\ pc'[p] = "setup" /\ stage'[p] = StageOf(state)
             /\ sweepsDoneThermalization'[p] = state.therm
        /\ sweepsDone'[p] = state.sweeps /\ swCounter'[p] = state.counter /\ exiting'[p] = FALSE
        /\ local_current_parameter_index'[p] = table[p] /\ replica_par'[p] = p
        /\ replica_ctrl'[p] = table[p] /\ buffered'[p] = <<>> /\ stateFile'[p] = stateFile[p]
    BY <1>2, <2>1, <2>2 DEF StartJob
  <2> QED
    BY <2>3 DEF EnterLoop, LoopTop, LoadedLabel
<1>7. /\ current_process_par' = table /\ up' = [q \in Workers |-> <<>>]
      /\ down' = [q \in Workers |-> <<>>] /\ rootFile' = rootFile
      /\ current_par_process' = LoadedRoot.current_par_process
  BY <1>3 DEF StartJob
<1>8. \A p \in Proc : Found(p)' <=> saves = 1
  BY <1>2, <1>5, <1>6 DEF Found
<1>9. SessionKept' = table
  <2>1. CASE saves = 0
    BY <1>c, <1>2, <1>3, <1>6, <2>1 DEF SessionKept, Unwritten
  <2>2. CASE saves = 1
    <3>1. ~Unwritten(Root) /\ ~Unwritten(Root)'
      BY <1>c, <1>5, <1>6, <2>2 DEF Unwritten
    <3> QED
      BY <1>c, <1>3, <1>6, <1>7, <3>1 DEF SessionKept, LoadedRoot
  <2> QED
    BY <2>1, <2>2
<1>10. RootFits'
  BY <1>c, <1>1, <1>6, <1>7 DEF RootFits, TablesInverse
<1>11. ASSUME NEW p \in Proc PROVE SessionViews'[p] = Projected(p, c)
  <2>1. /\ SessionLabel(p)' = LoadedLabel(state) /\ SessionPar(p)' = table[p]
        /\ SessionFile(p)' = stateFile[p]
    BY <1>6 DEF SessionLabel, SessionPar, SessionFile
  <2>2. (p = Root => RootFits') = TRUE
    BY <1>10
  <2>3. OwnAll(p, <<>>) = <<>>
    BY DEF OwnAll
  <2>4. FileOf(p, c) = stateFile[p]
    BY <1>2, <1>4 DEF FileOf, LoadedPoint
  <2>5. LoadedLabel(state) # "assign"
    BY DEF LoadedLabel
  <2>6. ViewAs(p, SessionLabel(p), SessionPar(p), SessionFile(p), SessionKept)' = Projected(p, c)
    BY <1>4, <1>6, <1>7, <1>9, <2>1, <2>2, <2>3, <2>4, <2>5 DEF ViewAs, Projected, LoadedPoint
  <2> QED
    BY <2>6, SessionViewOfEach
<1>12. ASSUME NEW q \in Workers PROVE up'[q] = <<>> /\ down'[q] = <<>> /\ SessionNet'[q] = <<>>
  <2>1. up'[q] = <<>> /\ down'[q] = <<>>
    BY <1>7
  <2>2. Pended(q)' = <<>>
    BY <2>1 DEF Pended
  <2> QED
    BY <2>1, <2>2, PendedOfEach
<1>13. LoadSound'
  <2>1. ASSUME NEW q \in Workers PROVE LoadsAlike(q)'
    <3>1. Loads(q)' <=> Found(Root)'
      BY <1>c, <1>6, <1>8 DEF Loads
    <3> QED
      BY <1>c, <1>6, <1>7, <1>12, <3>1 DEF LoadsAlike
  <2>2. ASSUME NEW p \in Proc, ~Found(p)'
        PROVE  EnterLoop(p)' = "top" /\ replica_par'[p] = local_current_parameter_index'[p]
    <3>1. saves = 0
      BY <1>8, <2>2
    <3>2. /\ stage'[p] = StageOf(state) /\ swCounter'[p] = state.counter
          /\ replica_par'[p] = p /\ local_current_parameter_index'[p] = table[p]
      BY <1>6
    <3>3. StageOf(state) # "F" /\ state.counter % 2 = 0
      BY <1>3, <3>1, Intervals DEF StageOf
    <3>4. EnterLoop(p)' = "top"
      BY <3>2, <3>3 DEF EnterLoop, LoopTop
    <3>5. table[p] = p
      BY <1>3, <3>1 DEF Identity
    <3> QED
      BY <3>2, <3>4, <3>5
  <2> QED
    BY <1>6, <2>1, <2>2 DEF LoadSound
<1> QED
  BY <1>11, <1>12, <1>13, StartsInLockstep

(* A step of a process leaves alone what the others show.                  *)
LEMMA SessionUntouched ==
  ASSUME SessionTypes, NEW p \in Proc, ProcessStep(p), NEW r \in Proc \ {p}
  PROVE  Untouched(r)
<1>t. /\ TypesAmong(SessionLabels, NoState, LoadMessage)
      /\ pc \in [Proc -> SessionLabels] /\ stateFile \in [Proc -> State \cup NoState]
      /\ local_current_parameter_index \in [Proc -> Par] /\ replica_par \in [Proc -> Par]
  BY DEF SessionTypes, TypesAmong, ControlAmong, FilesAmong, ReplicaTypes
<1>1. CASE Starting(p)
  BY <1>t, <1>1 DEF Starting, WriteHeader, ScatterLoaded, OpenStreams, HearLoaded,
     TakeLoadedParameter, SendAll, Goto, Untouched, counters, replicas, tables, files
<1>2. CASE Saving(p)
  BY <1>t, <1>2 DEF Saving, SaveResults, OpenStateFile, WriteStateFile, Goto, Untouched, counters,
     replicas, tables
<1>3. CASE DriverStep(p)
  <2>1. Driven(p)
    BY <1>3 DEF DriverStep, Driven, Counting
  <2> QED
    BY <1>t, <2>1, OthersKeepTheirs
<1> QED
  BY <1>1, <1>2, <1>3 DEF ProcessStep

LEMMA KeptByOthers ==
  ASSUME SessionTypes, NEW p \in Proc \ {Root}, ProcessStep(p)
  PROVE  SessionKept' = SessionKept /\ Found(Root)' = Found(Root)
<1>1. UNCHANGED OwnControl(Root) /\ UNCHANGED OfTheRoot
  BY Constants, OthersKeepTheirOwn
<1>2. /\ pc'[Root] = pc[Root] /\ stateFile'[Root] = stateFile[Root] /\ rootFile' = rootFile
      /\ current_process_par' = current_process_par
  BY <1>1 DEF OwnControl, OfTheRoot, tables
<1> QED
  BY <1>2 DEF SessionKept, Unwritten, Found

LEMMA OtherViews ==
  ASSUME SessionTypes, NEW p \in Proc, ProcessStep(p), NEW r \in Proc \ {p}
  PROVE  SessionViews'[r] = SessionViews[r]
<1>1. Untouched(r)
  BY SessionUntouched
<1>2. SessionLabel(r)' = SessionLabel(r) /\ SessionPar(r)' = SessionPar(r)
        /\ SessionFile(r)' = SessionFile(r)
  BY <1>1 DEF Untouched, SessionLabel, SessionPar, SessionFile, LabelOf, EnterLoop, LoopTop,
     AfterSave, CurrentState
<1>3. (r = Root => RootFits') = (r = Root => RootFits)
  BY <1>1 DEF Untouched, RootFits, TablesInverse
<1>4. r = Root => SessionKept' = SessionKept
  BY KeptByOthers
<1>5. ViewAs(r, SessionLabel(r), SessionPar(r), SessionFile(r), SessionKept)' = SessionView(r)
  BY <1>1, <1>2, <1>3, <1>4 DEF SessionView, ViewAs, Untouched
<1> QED
  BY <1>5, SessionViewOfEach

(* What a worker does with its messages, and what the root sends.          *)
LoadOwn(p) ==
  /\ pc[p] = "load" => Found(p)
  /\ pc[p] = "setup" /\ ~Found(p) =>
       EnterLoop(p) = "top" /\ replica_par[p] = local_current_parameter_index[p]
  /\ pc[p] = "saveState" => buffered[p] = <<>>

LEMMA LoadSoundOfEach ==
  /\ LoadSound <=> (\A p \in Proc : LoadOwn(p)) /\ \A q \in Workers : LoadsAlike(q)
  /\ LoadSound' <=> (\A p \in Proc : LoadOwn(p)') /\ \A q \in Workers : LoadsAlike(q)'
<1>1. LoadSound <=> (\A p \in Proc : LoadOwn(p)) /\ \A q \in Workers : LoadsAlike(q)
  BY DEF LoadSound, LoadOwn
<1>2. LoadSound' <=> (\A p \in Proc : LoadOwn(p)') /\ \A q \in Workers : LoadsAlike(q)'
  BY DEF LoadSound, LoadOwn
<1> QED
  BY <1>1, <1>2

LEMMA OthersLoad ==
  ASSUME SessionTypes, NEW p \in Proc, ProcessStep(p), NEW r \in Proc \ {p}
  PROVE  /\ LoadOwn(r) => LoadOwn(r)'
         /\ Found(r)' = Found(r) /\ Loads(r)' = Loads(r)
<1>1. Untouched(r)
  BY SessionUntouched
<1>2. Found(r)' = Found(r) /\ Loads(r)' = Loads(r)
  BY <1>1 DEF Untouched, Found, Loads
<1> QED
  BY <1>1, <1>2 DEF Untouched, LoadOwn, EnterLoop, LoopTop

LEMMA WorkersChannel ==
  ASSUME SessionTypes, NEW p \in Workers, ProcessStep(p), NEW q \in Workers \ {p}
  PROVE  /\ down'[q] = down[q] /\ Pended(q)' = Pended(q)
         /\ LoadsAlike(q) => LoadsAlike(q)'
<1>c. p \in Proc /\ q \in Proc /\ p # Root /\ q # Root /\ Root \in Proc
  BY Constants DEF Workers
<1>1. down'[q] = down[q]
  <2>t. down \in [Workers -> Seq(DownMessage \cup LoadMessage)]
    BY DEF SessionTypes, TypesAmong, ChannelsAmong
  <2> QED
    BY <1>c, <2>t DEF ProcessStep, Starting, WriteHeader, HearLoaded, Saving, OpenStateFile,
       WriteStateFile, DriverStep, SweepThermalization, Sweep, CountSweep, EndSweep, Worker,
       HearStop, SendValue, SendConfiguration, EnterBarrier, LeaveBarrier, SendControlData,
       HearAssignment, SendCheck, Hear
<1>2. Untouched(q) /\ Untouched(Root)
  BY <1>c, SessionUntouched
<1>3. Loads(q)' = Loads(q) /\ Found(Root)' = Found(Root)
  BY <1>c, OthersLoad
<1>4. Pended(q)' = Pended(q)
  BY <1>1, <1>3 DEF Pended
<1> QED
  BY <1>1, <1>2, <1>3, <1>4 DEF Untouched, LoadsAlike

(* Steps at the start and the end of which the processes show the same.    *)
LEMMA UnseenStep ==
  ASSUME SessionTypes, InLockstep(SessionViews, up, SessionNet), NEW p \in Proc, ProcessStep(p),
         up' = up, SessionViews'[p] = SessionViews[p],
         \A q \in Workers : SessionNet'[q] = SessionNet[q]
  PROVE  InLockstep(SessionViews', up', SessionNet')
<1>1. ASSUME NEW r \in Proc PROVE SessionViews'[r] = SessionViews[r]
  <2>1. CASE r = p
    BY <2>1
  <2>2. CASE r # p
    BY <2>2, OtherViews
  <2> QED
    BY <2>1, <2>2
<1>2. InLockstep(SessionViews', up, SessionNet')
  BY <1>1, SameLockstep
<1> QED
  BY <1>2

LEMMA SameView ==
  ASSUME NEW p \in Proc,
         SessionLabel(p)' = SessionLabel(p), SessionPar(p)' = SessionPar(p),
         SessionFile(p)' = SessionFile(p), SessionKept' = SessionKept,
         stage'[p] = stage[p], swCounter'[p] = swCounter[p],
         sweepsDoneThermalization'[p] = sweepsDoneThermalization[p],
         sweepsDone'[p] = sweepsDone[p], exiting'[p] = exiting[p],
         local_current_parameter_index'[p] = local_current_parameter_index[p],
         replica_ctrl'[p] = replica_ctrl[p], buffered'[p] = buffered[p],
         UNCHANGED <<current_process_par, current_par_process, process_control_data_buffer>>,
         p = Root => pc[Root] # "walk" /\ pc'[Root] # "walk"
  PROVE  SessionViews'[p] = SessionViews[p]
<1>1. (p = Root => RootFits') = (p = Root => RootFits)
  BY DEF RootFits, TablesInverse
<1>2. ViewAs(p, SessionLabel(p), SessionPar(p), SessionFile(p), SessionKept)' = SessionView(p)
  BY <1>1 DEF SessionView, ViewAs
<1> QED
  BY <1>2, SessionViewOfEach

(* A worker's step concerns no other channel, the root's no other process. *)
LEMMA LoadSoundNext ==
  ASSUME SessionTypes, LoadSound, NEW p \in Proc, ProcessStep(p), LoadOwn(p)',
         p = Root => \A q \in Workers : LoadsAlike(q)',
         p # Root => LoadsAlike(p)'
  PROVE  LoadSound'
<1>1. \A r \in Proc : LoadOwn(r)'
  <2> SUFFICES ASSUME NEW r \in Proc PROVE LoadOwn(r)'
    OBVIOUS
  <2>1. LoadOwn(r)
    BY LoadSoundOfEach
  <2> QED
    BY <2>1, OthersLoad
<1>2. ASSUME p # Root, NEW q \in Workers PROVE LoadsAlike(q)'
  <2>1. p \in Workers /\ LoadsAlike(q)
    BY <1>2, LoadSoundOfEach DEF Workers
  <2> QED
    BY <1>2, <2>1, WorkersChannel
<1>3. ASSUME NEW q \in Workers PROVE LoadsAlike(q)'
  BY <1>2
<1> QED
  BY <1>1, <1>3, LoadSoundOfEach

(* The root's table says which parameter the root has.                     *)
LEMMA RootsParameter ==
  ASSUME SessionTypes, LoadSound, InLockstep(SessionViews, up, SessionNet)
  PROVE  SessionLabel(Root) # "assign" =>
           current_process_par[Root] = local_current_parameter_index[Root]
<1>1. PICK at \in [Proc -> SoundPoints] : Standing(at, SessionViews)
  BY SessionChannels, Relative
<1>2. SessionView(Root) = Projected(Root, at[Root])
  BY <1>1, SessionViewOfEach, Constants DEF Standing
<1>3. ShowsAs(Root, at[Root], SessionLabel(Root), SessionPar(Root), SessionFile(Root))
  BY <1>2, ShowsAsIsView DEF SessionView
<1> QED
  BY <1>3 DEF ShowsAs

LEMMA WriteHeaderLockstep ==
  ASSUME SessionInv, LoadSound, InLockstep(SessionViews, up, SessionNet), NEW p \in Proc,
         WriteHeader(p)
  PROVE  LoadSound' /\ InLockstep(SessionViews', up', SessionNet')
<1>c. Root \in Proc /\ \A q \in Workers : q \in Proc /\ q # Root
  BY Constants DEF Workers
<1>t. SessionTypes /\ pc \in [Proc -> SessionLabels]
  BY DEF SessionInv, SessionTypes, TypesAmong, ControlAmong
<1>p. ProcessStep(p)
  BY DEF ProcessStep, Starting
<1>1. /\ pc[p] = "setup" /\ \A r \in Proc \ {p} : pc'[r] = pc[r]
      /\ pc'[p] = IF Found(p) THEN "load" ELSE IF p = Root THEN "open" ELSE EnterLoop(p)
      /\ UNCHANGED <<stage, sweepsDoneThermalization, sweepsDone, swCounter, exiting,
           local_current_parameter_index, replica_par, replica_ctrl, buffered, current_process_par,
           current_par_process, process_control_data_buffer, stateFile, rootFile, up, down>>
  BY <1>t DEF WriteHeader, Goto, counters, replicas, tables, files
<1>2. LoadOwn(p) /\ \A q \in Workers : LoadsAlike(q)
  BY LoadSoundOfEach
<1>3. LoadOwn(p)'
  BY <1>1, EntersLoop DEF LoadOwn, Found
<1>4. \A r \in Proc : Found(r)' = Found(r) /\ Loads(r)' = Loads(r)
  BY <1>1, EntersLoop DEF Found, Loads
<1>5. \A q \in Workers : Pended(q)' = Pended(q)
  BY <1>c, <1>1, <1>4 DEF Pended
<1>6. ASSUME NEW q \in Workers PROVE LoadsAlike(q)'
  <2>1. CASE p = Root /\ ~Found(Root)
    <3>1. down[q] = <<>> /\ ~Loads(q) /\ pc'[Root] = "open"
      BY <1>1, <1>2, <2>1 DEF LoadsAlike
    <3>2. ~Loads(q)' /\ Pended(q)' = <<>>
      BY <1>1, <1>c, <1>4, <3>1 DEF Pended
    <3> QED
      BY <3>1, <3>2 DEF LoadsAlike
  <2>2. CASE ~(p = Root /\ ~Found(Root))
    <3>1. pc'[Root] \in {"setup", "load"} <=> pc[Root] \in {"setup", "load"}
      BY <1>c, <1>1, <2>2
    <3> QED
      BY <1>c, <1>1, <1>2, <1>4, <1>5, <3>1 DEF LoadsAlike
  <2> QED
    BY <2>1, <2>2
<1>7. LoadSound'
  <2>1. p # Root => p \in Workers
    BY DEF Workers
  <2> QED
    BY <1>t, <1>p, <1>3, <1>6, <2>1, LoadSoundNext
<1>8. EnterLoop(p)' = EnterLoop(p)
  BY <1>1 DEF EnterLoop, LoopTop
<1>9. SessionLabel(p)' = SessionLabel(p) /\ SessionPar(p)' = SessionPar(p)
  BY <1>1, <1>2, <1>8, EntersLoop DEF SessionLabel, SessionPar, LabelOf, LoadOwn
<1>10. SessionFile(p)' = SessionFile(p)
  BY <1>1, EntersLoop DEF SessionFile
<1>11. SessionKept' = SessionKept
  BY <1>c, <1>1, EntersLoop DEF SessionKept, Unwritten
<1>12. SessionViews'[p] = SessionViews[p]
  BY <1>1, <1>9, <1>10, <1>11, EntersLoop, SameView
<1>13. \A q \in Workers : SessionNet'[q] = SessionNet[q]
  BY <1>5, PendedOfEach
<1> QED
  BY <1>t, <1>p, <1>1, <1>7, <1>12, <1>13, UnseenStep

LEMMA ScatterLoadedLockstep ==
  ASSUME SessionInv, LoadSound, InLockstep(SessionViews, up, SessionNet), ScatterLoaded
  PROVE  LoadSound' /\ InLockstep(SessionViews', up', SessionNet')
<1>c. Root \in Proc /\ \A q \in Workers : q \in Proc /\ q # Root
  BY Constants DEF Workers
<1>t. /\ SessionTypes /\ pc \in [Proc -> SessionLabels] /\ replica_par \in [Proc -> Par]
      /\ local_current_parameter_index \in [Proc -> Par]
  BY DEF SessionInv, SessionTypes, TypesAmong, ControlAmong, ReplicaTypes
<1>p. ProcessStep(Root)
  BY DEF ProcessStep, Starting
<1>1. /\ pc[Root] = "load" /\ pc'[Root] = "open" /\ \A r \in Proc \ {Root} : pc'[r] = pc[r]
      /\ local_current_parameter_index'[Root] = current_process_par[Root]
      /\ replica_par'[Root] = current_process_par[Root]
      /\ \A q \in Workers : local_current_parameter_index'[q] = local_current_parameter_index[q]
      /\ UNCHANGED <<stage, sweepsDoneThermalization, sweepsDone, swCounter, exiting,
           replica_ctrl, buffered, current_process_par,
           current_par_process, process_control_data_buffer, stateFile, rootFile, up>>
  BY <1>c, <1>t DEF ScatterLoaded, TakeLoadedParameter, Goto, counters, tables, files, sessionVars
<1>2. LoadOwn(Root) /\ \A q \in Workers : LoadsAlike(q)
  BY <1>c, LoadSoundOfEach
<1>3. Found(Root) /\ \A q \in Workers : /\ down[q] = <<>> /\ Loads(q)
                                        /\ local_current_parameter_index[q] = current_process_par[q]
  BY <1>1, <1>2 DEF LoadOwn, LoadsAlike
<1>4. ASSUME NEW q \in Workers
      PROVE  down'[q] = <<[op |-> "load", par |-> current_process_par[q]]>>
  <2>1. PICK m : m = [op |-> "load", par |-> current_process_par[q]]
    OBVIOUS
  <2>2. down'[q] = Append(down[q], m)
    BY <2>1 DEF ScatterLoaded, SendAll
  <2>3. Append(<<>>, m) = <<m>>
    OBVIOUS
  <2> QED
    BY <1>3, <2>1, <2>2, <2>3
<1>5. \A r \in Workers : Loads(r)'
  BY <1>c, <1>1, <1>3 DEF Found, Loads
<1>6. ASSUME NEW q \in Workers PROVE Pended(q) = <<>> /\ Pended(q)' = <<>>
  <2>1. Pended(q) = <<>>
    BY <1>3 DEF Pended
  <2>2. PICK m : down'[q] = <<m>>
    BY <1>4
  <2>4. <<m>> # <<>> /\ Tail(<<m>>) = <<>>
    OBVIOUS
  <2>3. Pended(q)' = <<>>
    BY <1>5, <2>2, <2>4 DEF Pended
  <2> QED
    BY <2>1, <2>3
<1>7. ASSUME NEW q \in Workers PROVE LoadsAlike(q)'
  <2>1. down'[q] # <<>>
          /\ Head(down'[q]) = [op |-> "load", par |-> local_current_parameter_index'[q]]
    BY <1>1, <1>3, <1>4
  <2>2. Pended(q)' \in Seq(DownMessage)
    <3>1. Pended(q)' = <<>>
      BY <1>6
    <3>2. <<>> \in Seq(DownMessage)
      OBVIOUS
    <3> QED
      BY <3>1, <3>2
  <2> QED
    BY <1>1, <1>5, <2>1, <2>2 DEF LoadsAlike
<1>8. LoadOwn(Root)'
  BY <1>1 DEF LoadOwn
<1>9. LoadSound'
  BY <1>c, <1>t, <1>p, <1>7, <1>8, LoadSoundNext
<1>10. SessionLabel(Root)' = SessionLabel(Root) /\ SessionLabel(Root) # "assign"
  BY <1>1, EntersLoop, <1>c DEF SessionLabel, EnterLoop, LoopTop
<1>11. current_process_par[Root] = local_current_parameter_index[Root]
  BY <1>t, <1>10, RootsParameter
<1>12. SessionPar(Root)' = SessionPar(Root) /\ SessionFile(Root)' = SessionFile(Root)
       /\ SessionKept' = SessionKept
  BY <1>1, <1>11 DEF SessionPar, SessionFile, SessionKept, Unwritten
<1>13. SessionViews'[Root] = SessionViews[Root]
  BY <1>c, <1>1, <1>10, <1>11, <1>12, SameView
<1>14. \A q \in Workers : SessionNet'[q] = SessionNet[q]
  BY <1>6, PendedOfEach
<1> QED
  BY <1>c, <1>t, <1>p, <1>1, <1>9, <1>13, <1>14, UnseenStep

LEMMA HearLoadedLockstep ==
  ASSUME SessionInv, LoadSound, InLockstep(SessionViews, up, SessionNet), NEW q \in Workers,
         HearLoaded(q)
  PROVE  LoadSound' /\ InLockstep(SessionViews', up', SessionNet')
<1>c. Root \in Proc /\ \A r \in Workers : r \in Proc /\ r # Root
  BY Constants DEF Workers
<1>t. /\ SessionTypes /\ pc \in [Proc -> SessionLabels] /\ replica_par \in [Proc -> Par]
      /\ local_current_parameter_index \in [Proc -> Par]
      /\ down \in [Workers -> Seq(DownMessage \cup LoadMessage)]
  BY DEF SessionInv, SessionTypes, TypesAmong, ControlAmong, ReplicaTypes, ChannelsAmong
<1>p. ProcessStep(q)
  BY DEF ProcessStep, Starting
<1>1. /\ pc[q] = "load" /\ pc'[q] = EnterLoop(q) /\ \A r \in Proc \ {q} : pc'[r] = pc[r]
      /\ down[q] # <<>> /\ down'[q] = Tail(down[q])
      /\ local_current_parameter_index'[q] = Head(down[q]).par
      /\ replica_par'[q] = Head(down[q]).par
      /\ UNCHANGED <<stage, sweepsDoneThermalization, sweepsDone, swCounter, exiting,
           replica_ctrl, buffered, current_process_par,
           current_par_process, process_control_data_buffer, stateFile, rootFile, up>>
  BY <1>c, <1>t DEF HearLoaded, TakeLoadedParameter, Told, Hear, Goto, counters, tables, files,
     sessionVars
<1>2. LoadOwn(q) /\ LoadsAlike(q)
  BY <1>c, LoadSoundOfEach
<1>3. /\ Loads(q) /\ pc[Root] \notin {"setup", "load"} /\ Pended(q) \in Seq(DownMessage)
      /\ Head(down[q]).par = local_current_parameter_index[q]
  BY <1>1, <1>2 DEF LoadOwn, LoadsAlike, Loads
<1>4. ~Loads(q)' /\ pc'[q] \in {"top", "sweep", "done"}
  BY <1>c, <1>1, EntersLoop DEF Loads
<1>5. Pended(q)' = Pended(q)
  <2>1. Pended(q) = Tail(down[q])
    BY <1>1, <1>3 DEF Pended
  <2>2. Pended(q)' = down'[q]
    BY <1>4 DEF Pended
  <2> QED
    BY <1>1, <2>1, <2>2
<1>6. ASSUME NEW r \in Workers PROVE SessionNet'[r] = SessionNet[r]
  <2>1. CASE r = q
    BY <1>5, <2>1, PendedOfEach
  <2>2. CASE r # q
    <3>1. Pended(r)' = Pended(r)
      BY <1>t, <1>p, <2>2, WorkersChannel
    <3> QED
      BY <3>1, PendedOfEach
  <2> QED
    BY <2>1, <2>2
<1>7. LoadsAlike(q)'
  <2>1. pc'[Root] \notin {"setup", "load"}
    BY <1>c, <1>1, <1>3
  <2> QED
    BY <1>3, <1>4, <1>5, <2>1 DEF LoadsAlike
<1>8. LoadOwn(q)'
  BY <1>4 DEF LoadOwn
<1>9. LoadSound'
  BY <1>c, <1>t, <1>p, <1>7, <1>8, LoadSoundNext
<1>10. EnterLoop(q)' = EnterLoop(q)
  BY <1>1 DEF EnterLoop, LoopTop
<1>11. SessionLabel(q)' = SessionLabel(q)
  BY <1>1, <1>4, <1>10 DEF SessionLabel, LabelOf
<1>12. SessionPar(q)' = SessionPar(q) /\ SessionFile(q)' = SessionFile(q)
  BY <1>1, <1>3, <1>4 DEF SessionPar, SessionFile
<1>13. SessionKept' = SessionKept
  BY <1>c, <1>1 DEF SessionKept, Unwritten
<1>14. SessionViews'[q] = SessionViews[q]
  BY <1>c, <1>1, <1>3, <1>11, <1>12, <1>13, SameView
<1> QED
  BY <1>c, <1>t, <1>p, <1>1, <1>6, <1>9, <1>14, UnseenStep

LEMMA OpenStreamsLockstep ==
  ASSUME SessionInv, LoadSound, InLockstep(SessionViews, up, SessionNet), OpenStreams
  PROVE  LoadSound' /\ InLockstep(SessionViews', up', SessionNet')
<1>c. Root \in Proc /\ \A q \in Workers : q \in Proc /\ q # Root
  BY Constants DEF Workers
<1>t. SessionTypes /\ pc \in [Proc -> SessionLabels]
  BY DEF SessionInv, SessionTypes, TypesAmong, ControlAmong
<1>p. ProcessStep(Root)
  BY DEF ProcessStep, Starting
<1>1. /\ pc[Root] = "open" /\ pc'[Root] = EnterLoop(Root) /\ \A r \in Proc \ {Root} : pc'[r] = pc[r]
      /\ UNCHANGED <<stage, sweepsDoneThermalization, sweepsDone, swCounter, exiting,
           local_current_parameter_index, replica_par, replica_ctrl, buffered, current_process_par,
           current_par_process, process_control_data_buffer, stateFile, rootFile, up, down>>
  BY <1>c, <1>t DEF OpenStreams, Goto, counters, replicas, tables, files
<1>2. \A q \in Workers : LoadsAlike(q)
  BY LoadSoundOfEach
<1>3. \A q \in Workers : Loads(q)' = Loads(q)
  BY <1>c, <1>1 DEF Found, Loads
<1>4. ASSUME NEW q \in Workers PROVE LoadsAlike(q)' /\ Pended(q)' = Pended(q)
  <2>1. Pended(q)' = Pended(q)
    BY <1>1, <1>3 DEF Pended
  <2>2. pc[Root] \notin {"setup", "load"} /\ pc'[Root] \notin {"setup", "load"}
    BY <1>c, <1>1, EntersLoop
  <2> QED
    BY <1>c, <1>1, <1>2, <1>3, <2>1, <2>2 DEF LoadsAlike
<1>5. LoadOwn(Root)'
  BY <1>c, <1>1, EntersLoop DEF LoadOwn
<1>6. LoadSound'
  BY <1>c, <1>t, <1>p, <1>4, <1>5, LoadSoundNext
<1>7. EnterLoop(Root)' = EnterLoop(Root)
  BY <1>1 DEF EnterLoop, LoopTop
<1>8. /\ SessionLabel(Root)' = SessionLabel(Root) /\ SessionPar(Root)' = SessionPar(Root)
      /\ SessionFile(Root)' = SessionFile(Root) /\ SessionKept' = SessionKept
  BY <1>c, <1>1, <1>7, EntersLoop DEF SessionLabel, SessionPar, SessionFile, SessionKept, LabelOf,
     Unwritten
<1>9. SessionViews'[Root] = SessionViews[Root]
  BY <1>c, <1>1, <1>8, EntersLoop, SameView
<1>10. \A q \in Workers : SessionNet'[q] = SessionNet[q]
  BY <1>4, PendedOfEach
<1> QED
  BY <1>c, <1>t, <1>p, <1>1, <1>6, <1>9, <1>10, UnseenStep

(* Who saves neither starts nor hears anything.                            *)
LEMMA SavingLoadSound ==
  ASSUME SessionInv, LoadSound, NEW p \in Proc, Saving(p)
  PROVE  LoadSound' /\ UNCHANGED <<up, down>> /\ \A q \in Workers : SessionNet'[q] = SessionNet[q]
<1>c. Root \in Proc /\ \A q \in Workers : q \in Proc /\ q # Root
  BY Constants DEF Workers
<1>t. SessionTypes /\ pc \in [Proc -> SessionLabels]
  BY DEF SessionInv, SessionTypes, TypesAmong, ControlAmong
<1>p. ProcessStep(p)
  BY DEF ProcessStep
<1>1. /\ pc[p] \in {"save", "saveState", "writeState"}
      /\ pc'[p] \in {"saveState", "writeState", "done", "barrier"}
      /\ pc'[p] = "saveState" => buffered'[p] = <<>>
      /\ up' = up /\ down' = down
  BY <1>t DEF Saving, SaveResults, SavesResults, Flushing, OpenStateFile, WriteStateFile,
     AfterSave, Goto, sessionVars
<1>2. LoadOwn(p)'
  BY <1>1 DEF LoadOwn
<1>3. \A q \in Workers : Loads(q)' = Loads(q)
  <2> SUFFICES ASSUME NEW q \in Workers PROVE Loads(q)' = Loads(q)
    OBVIOUS
  <2>1. CASE q = p
    BY <1>1, <2>1 DEF Loads
  <2>2. CASE q # p
    BY <1>c, <1>t, <1>p, <2>2, OthersLoad
  <2> QED
    BY <2>1, <2>2
<1>4. \A q \in Workers : LoadsAlike(q)
  BY LoadSoundOfEach
<1>5. ASSUME NEW q \in Workers PROVE Pended(q)' = Pended(q)
  BY <1>1, <1>3 DEF Pended
<1>6. ASSUME p = Root, NEW q \in Workers PROVE LoadsAlike(q)'
  <2>1. Loads(q)' = Loads(q) /\ LoadsAlike(q)
    BY <1>c, <1>t, <1>p, <1>4, <1>6, OthersLoad
  <2>2. Pended(q)' = Pended(q)
    BY <1>1, <2>1 DEF Pended
  <2>3. pc[Root] \notin {"setup", "load"} /\ pc'[Root] \notin {"setup", "load"}
    BY <1>1, <1>6
  <2>4. local_current_parameter_index'[q] = local_current_parameter_index[q] /\ down'[q] = down[q]
    BY <1>1, <1>c, <1>t, <1>p, <1>6, SessionUntouched DEF Untouched
  <2> QED
    BY <2>1, <2>2, <2>3, <2>4 DEF LoadsAlike
<1>7. ASSUME p # Root PROVE LoadsAlike(p)'
  <2>1. p \in Workers /\ LoadsAlike(p) /\ Untouched(Root)
    BY <1>4, <1>7, <1>c, <1>t, <1>p, SessionUntouched DEF Workers
  <2>2. Found(Root)' = Found(Root) /\ pc'[Root] = pc[Root]
    BY <2>1 DEF Untouched, Found
  <2>3. Loads(p)' = Loads(p) /\ ~Loads(p) /\ Pended(p)' = Pended(p)
    BY <1>1, <1>3, <1>5, <2>1 DEF Loads
  <2>4. CASE pc[Root] \in {"setup", "load"}
    <3>1. ~Found(Root) /\ down[p] = <<>>
      BY <2>1, <2>3, <2>4 DEF LoadsAlike
    <3> QED
      BY <1>1, <2>2, <2>3, <2>4, <3>1 DEF LoadsAlike
  <2>5. CASE pc[Root] \notin {"setup", "load"}
    BY <1>1, <2>1, <2>2, <2>3, <2>5 DEF LoadsAlike
  <2> QED
    BY <2>4, <2>5
<1>8. LoadSound'
  BY <1>t, <1>p, <1>2, <1>6, <1>7, LoadSoundNext
<1> QED
  BY <1>1, <1>5, <1>8, PendedOfEach

LEMMA SaveResultsLockstep ==
  ASSUME SessionInv, LoadSound, InLockstep(SessionViews, up, SessionNet), SaveResults
  PROVE  InLockstep(SessionViews', up', SessionNet')
<1>c. Root \in Proc
  BY Constants
<1>t. SessionTypes /\ pc \in [Proc -> SessionLabels]
  BY DEF SessionInv, SessionTypes, TypesAmong, ControlAmong
<1>p. ProcessStep(Root) /\ Saving(Root)
  BY DEF ProcessStep, Saving
<1>1. /\ pc[Root] = "save" /\ pc'[Root] = "saveState"
      /\ UNCHANGED <<stage, sweepsDoneThermalization, sweepsDone, swCounter, exiting,
           local_current_parameter_index, replica_par, replica_ctrl, buffered, current_process_par,
           current_par_process, process_control_data_buffer, stateFile, rootFile, up>>
  BY <1>c, <1>t DEF SaveResults, Goto, counters, replicas, tables
<1>2. /\ SessionLabel(Root)' = SessionLabel(Root) /\ SessionPar(Root)' = SessionPar(Root)
      /\ SessionFile(Root)' = SessionFile(Root) /\ SessionKept' = SessionKept
  BY <1>1 DEF SessionLabel, SessionPar, SessionFile, SessionKept, LabelOf, Unwritten
<1>3. SessionViews'[Root] = SessionViews[Root]
  BY <1>c, <1>1, <1>2, SameView
<1>4. \A q \in Workers : SessionNet'[q] = SessionNet[q]
  BY <1>c, <1>p, SavingLoadSound
<1> QED
  BY <1>c, <1>t, <1>p, <1>1, <1>3, <1>4, UnseenStep

LEMMA OpenStateFileLockstep ==
  ASSUME SessionInv, LoadSound, InLockstep(SessionViews, up, SessionNet), NEW p \in Proc,
         OpenStateFile(p)
  PROVE  InLockstep(SessionViews', up', SessionNet')
<1>t. /\ SessionTypes /\ pc \in [Proc -> SessionLabels]
      /\ TypesAmong(SessionLabels, NoState, LoadMessage)
      /\ stateFile \in [Proc -> State \cup NoState]
  BY DEF SessionInv, SessionTypes, TypesAmong, ControlAmong, FilesAmong
<1>p. ProcessStep(p) /\ Saving(p)
  BY DEF ProcessStep, Saving
<1>1. /\ pc[p] \in {"save", "saveState"} /\ pc'[p] = "writeState"
      /\ stage[p] # "M" \/ buffered[p] = <<>>
      /\ UNCHANGED <<stage, sweepsDoneThermalization, sweepsDone, swCounter, exiting,
           local_current_parameter_index, replica_par, replica_ctrl, buffered, current_process_par,
           current_par_process, process_control_data_buffer, rootFile, up, down>>
  <2>1. pc[p] = "saveState" => buffered[p] = <<>>
    BY DEF LoadSound
  <2> QED
    BY <1>t, <2>1 DEF OpenStateFile, Flushing, Goto, counters, replicas, tables, sessionVars
<1>2. SessionLabel(p) = "save" /\ SessionPar(p) = replica_par[p] /\ SessionFile(p) = stateFile[p]
  BY <1>1 DEF SessionLabel, SessionPar, SessionFile, LabelOf
<1>3. SessionViews[p] = ViewAs(p, "save", replica_par[p], stateFile[p], SessionKept)
  BY <1>2, SessionViewOfEach DEF SessionView
<1>4. /\ SessionLabel(p)' = AfterSave(p) /\ SessionPar(p)' = replica_par[p]
      /\ SessionFile(p)' = CurrentState(p)
      /\ p = Root => SessionKept' = current_process_par
  BY <1>1 DEF SessionLabel, SessionPar, SessionFile, SessionKept, AfterSave, CurrentState
<1>5. (p = Root => RootFits') = (p = Root => RootFits)
  BY <1>1 DEF RootFits, TablesInverse
<1>6. PICK kept2 : kept2 = SessionKept'
  OBVIOUS
<1>7. SessionViews'[p] = ViewAs(p, AfterSave(p), replica_par[p], CurrentState(p), kept2)
  <2>1. ViewAs(p, SessionLabel(p), SessionPar(p), SessionFile(p), SessionKept)'
          = ViewAs(p, AfterSave(p), replica_par[p], CurrentState(p), kept2)
    BY <1>1, <1>4, <1>5, <1>6 DEF ViewAs
  <2> QED
    BY <2>1, SessionViewOfEach
<1>8. \A r \in Proc \ {p} : SessionViews'[r] = SessionViews[r]
  BY <1>t, <1>p, OtherViews
<1>9. PICK d : d = SessionNet
  OBVIOUS
<1>10. ChannelsOf(up, d) /\ InLockstep(SessionViews, up, d)
  BY <1>t, <1>9, SessionChannels
<1>11. InLockstep(SessionViews', up, d)
  BY <1>1, <1>t, <1>3, <1>4, <1>6, <1>7, <1>8, <1>10, SavingStep
<1>12. \A q \in Workers : SessionNet'[q] = d[q]
  BY <1>p, <1>9, SavingLoadSound
<1>13. InLockstep(SessionViews', up, SessionNet')
  BY <1>11, <1>12, SameLockstep
<1> QED
  BY <1>1, <1>13

LEMMA WriteStateFileLockstep ==
  ASSUME SessionInv, LoadSound, InLockstep(SessionViews, up, SessionNet), NEW p \in Proc,
         WriteStateFile(p)
  PROVE  InLockstep(SessionViews', up', SessionNet')
<1>t. /\ SessionTypes /\ pc \in [Proc -> SessionLabels]
      /\ stateFile \in [Proc -> State \cup NoState]
      /\ stage[p] \in {"T", "M", "F"} /\ SessionTypes'
  BY NextSessionTypes DEF SessionInv, SessionTypes, TypesAmong, ControlAmong, FilesAmong,
     SessionsNext, ProcessStep, Saving
<1>p. ProcessStep(p) /\ Saving(p)
  BY DEF ProcessStep, Saving
<1>1. /\ pc[p] = "writeState" /\ pc'[p] = AfterSave(p) /\ \A r \in Proc \ {p} : pc'[r] = pc[r]
      /\ stateFile'[p] = CurrentState(p) /\ rootFile' = IF p = Root THEN RootState ELSE rootFile
      /\ UNCHANGED <<stage, sweepsDoneThermalization, sweepsDone, swCounter, exiting,
           local_current_parameter_index, replica_par, replica_ctrl, buffered, current_process_par,
           current_par_process, process_control_data_buffer, up, down>>
  BY <1>t DEF WriteStateFile, Goto, counters, replicas, tables
<1>2. pc'[p] \in {"done", "barrier"}
  BY <1>1 DEF AfterSave
<1>3. CurrentState(p) \in State
  BY DEF SessionInv, SessionTypes, TypesAmong, ControlAmong, ReplicaTypes, CurrentState, State
<1>4. /\ SessionLabel(p)' = SessionLabel(p) /\ SessionPar(p)' = SessionPar(p)
      /\ SessionFile(p)' = SessionFile(p)
  BY <1>1, <1>2 DEF SessionLabel, SessionPar, SessionFile, LabelOf
<1>5. SessionKept' = SessionKept
  <2>1. CASE p = Root
    <3>1. ~Unwritten(Root)' /\ rootFile'.current_process_par = current_process_par
      BY <1>1, <1>3, <2>1, NoStateIsNone DEF Unwritten, RootState
    <3> QED
      BY <1>1, <1>2, <2>1, <3>1 DEF SessionKept
  <2>2. CASE p # Root
    BY <1>t, <1>p, <2>2, KeptByOthers
  <2> QED
    BY <2>1, <2>2
<1>6. SessionViews'[p] = SessionViews[p]
  BY <1>1, <1>2, <1>4, <1>5, SameView
<1>7. \A q \in Workers : SessionNet'[q] = SessionNet[q]
  BY <1>p, SavingLoadSound
<1> QED
  BY <1>t, <1>p, <1>1, <1>6, <1>7, UnseenStep

LEMMA SavingLockstep ==
  ASSUME SessionInv, LoadSound, InLockstep(SessionViews, up, SessionNet), NEW p \in Proc, Saving(p)
  PROVE  LoadSound' /\ InLockstep(SessionViews', up', SessionNet')
BY SavingLoadSound, SaveResultsLockstep, OpenStateFileLockstep, WriteStateFileLockstep DEF Saving

LEMMA StartingLockstep ==
  ASSUME SessionInv, LoadSound, InLockstep(SessionViews, up, SessionNet), NEW p \in Proc,
         Starting(p)
  PROVE  LoadSound' /\ InLockstep(SessionViews', up', SessionNet')
BY WriteHeaderLockstep, ScatterLoadedLockstep, OpenStreamsLockstep, HearLoadedLockstep DEF Starting

(* The steps of the loop lead from label to label of the loop.             *)
LEMMA DriverLabels ==
  ASSUME SessionTypes, NEW p \in Proc, Driven(p)
  PROVE  pc[p] \in Labels /\ pc'[p] \in Labels /\ stateFile' = stateFile
<1>t. pc \in [Proc -> SessionLabels]
  BY DEF SessionTypes, TypesAmong, ControlAmong
<1> USE DEF Goto, files, Labels
<1>1. CASE Counting(p)
  BY <1>t, <1>1 DEF Counting, SweepThermalization, Sweep, CountSweep, EndSweep
<1>2. CASE p \in Workers /\ Worker(p)
  BY <1>t, <1>2 DEF Worker, HearStop, AfterStopCheck, SendValue, SendConfiguration, Flushing,
     EnterBarrier, LeaveBarrier, SendControlData, HearAssignment, SendCheck, LoopTop
<1>3. CASE p = Root /\ Master
  <2>1. ASSUME NEW stop \in BOOLEAN, BroadcastStop(stop)
        PROVE  pc[p] \in Labels /\ pc'[p] \in Labels /\ stateFile' = stateFile
    BY <1>t, <1>3, <2>1 DEF BroadcastStop, AfterStopCheck
  <2>2. ASSUME NEW accept \in BOOLEAN, ProposeExchange(accept)
        PROVE  pc[p] \in Labels /\ pc'[p] \in Labels /\ stateFile' = stateFile
    BY <1>t, <1>3, <2>2 DEF ProposeExchange
  <2>3. CASE GatherValues \/ GatherConfigurations \/ OpenBarrier \/ GatherControlData
              \/ ScatterAssignment \/ GatherCheck
    BY <1>t, <1>3, <2>3 DEF GatherValues, GatherConfigurations, Flushing, OpenBarrier,
       GatherControlData, ScatterAssignment, GatherCheck, LoopTop
  <2> QED
    BY <1>3, <2>1, <2>2, <2>3 DEF Master
<1> QED
  BY <1>1, <1>2, <1>3 DEF Driven

(* What the root sends goes to every worker alike.                         *)
LEMMA RootSends ==
  ASSUME NEW L, NEW F, NEW D, TypesAmong(L, F, D), Master, NEW q \in Workers
  PROVE  down'[q] = down[q] \/ \E m \in DownMessage : down'[q] = Append(down[q], m)
<1>c. q \in Proc
  BY DEF Workers
<1>1. ASSUME NEW stop \in BOOLEAN, BroadcastStop(stop)
      PROVE  \E m \in DownMessage : down'[q] = Append(down[q], m)
  <2>1. PICK m : m = [op |-> "stop_now", value |-> stop]
    OBVIOUS
  <2>2. m \in DownMessage /\ down'[q] = Append(down[q], m)
    BY <1>1, <2>1 DEF BroadcastStop, SendAll, DownMessage
  <2> QED
    BY <2>2
<1>2. ASSUME OpenBarrier
      PROVE  \E m \in DownMessage : down'[q] = Append(down[q], m)
  <2>1. PICK m : m = [op |-> "barrier"]
    OBVIOUS
  <2>2. m \in DownMessage /\ down'[q] = Append(down[q], m)
    BY <1>2, <2>1 DEF OpenBarrier, SendAll, DownMessage
  <2> QED
    BY <2>2
<1>3. ASSUME ScatterAssignment
      PROVE  \E m \in DownMessage : down'[q] = Append(down[q], m)
  <2>1. PICK m : m = [op |-> "assign", par |-> current_process_par[q],
                      ctrl |-> process_control_data_buffer[q]]
    OBVIOUS
  <2>t. current_process_par[q] \in Par /\ process_control_data_buffer[q] \in Par
    BY <1>c DEF TypesAmong, TableTypes
  <2>2. m \in DownMessage
    BY <2>t, <2>1 DEF DownMessage
  <2>3. down'[q] = Append(down[q], m)
    BY <1>3, <2>1 DEF ScatterAssignment, SendAll
  <2> QED
    BY <2>2, <2>3
<1>4. CASE ~(\E stop \in BOOLEAN : BroadcastStop(stop)) /\ ~OpenBarrier /\ ~ScatterAssignment
  BY <1>4 DEF Master, GatherValues, GatherConfigurations, GatherControlData, ProposeExchange,
     GatherCheck
<1> QED
  BY <1>1, <1>2, <1>3, <1>4

LEMMA DriverLoads ==
  ASSUME SessionTypes, LoadSound, NEW p \in Proc, DriverStep(p)
  PROVE  /\ LoadSound'
         /\ p = Root => Behind(SessionNet, SessionNet')
         /\ p # Root => SessionNet[p] = down[p] /\ SessionNet'[p] = down'[p]
<1>c. Root \in Proc /\ \A q \in Workers : q \in Proc /\ q # Root
  BY Constants DEF Workers
<1>t. /\ TypesAmong(SessionLabels, NoState, LoadMessage)
      /\ down \in [Workers -> Seq(DownMessage \cup LoadMessage)]
  BY DEF SessionTypes, TypesAmong, ChannelsAmong
<1>p. ProcessStep(p) /\ Driven(p)
  BY DEF ProcessStep, DriverStep, Driven, Counting
<1>1. pc[p] \in Labels /\ pc'[p] \in Labels /\ stateFile' = stateFile
  BY <1>p, DriverLabels
<1>2. Labels \cap {"setup", "load", "saveState"} = {}
  BY DEF Labels
<1>3. LoadOwn(p)'
  BY <1>1, <1>2 DEF LoadOwn
<1>4. \A q \in Workers : LoadsAlike(q)
  BY LoadSoundOfEach
<1>5. CASE p # Root
  <2>1. p \in Workers /\ LoadsAlike(p) /\ Untouched(Root)
    BY <1>c, <1>p, <1>4, <1>5, SessionUntouched DEF Workers
  <2>2. ~Loads(p) /\ ~Loads(p)' /\ pc'[Root] = pc[Root] /\ Found(Root)' = Found(Root)
    BY <1>1, <1>2, <2>1 DEF Loads, Untouched, Found
  <2>3. Pended(p) = down[p] /\ Pended(p)' = down'[p]
    BY <2>2 DEF Pended
  <2>4. down'[p] = down[p] \/ (down[p] # <<>> /\ down'[p] = Tail(down[p]))
    BY <1>t, <1>c, <1>p, <1>5, <2>1 DEF Driven, Counting, SweepThermalization, Sweep, CountSweep,
       EndSweep, Worker, HearStop, SendValue, SendConfiguration, EnterBarrier, LeaveBarrier,
       SendControlData, HearAssignment, SendCheck, Told, Hear
  <2>5. LoadsAlike(p)'
    <3>1. CASE pc[Root] \in {"setup", "load"}
      BY <2>1, <2>2, <2>4, <3>1 DEF LoadsAlike
    <3>2. CASE pc[Root] \notin {"setup", "load"}
      <4>1. down[p] \in Seq(DownMessage)
        BY <2>1, <2>3, <3>2 DEF LoadsAlike
      <4>2. down'[p] \in Seq(DownMessage)
        BY <2>4, <4>1, HeadTailProperties
      <4> QED
        BY <2>2, <2>3, <3>2, <4>2 DEF LoadsAlike
    <3> QED
      BY <3>1, <3>2
  <2>6. LoadSound'
    BY <1>p, <1>3, <1>5, <2>5, LoadSoundNext
  <2> QED
    BY <1>5, <2>1, <2>3, <2>6, PendedOfEach
<1>6. CASE p = Root
  <2>0. pc[Root] \notin {"setup", "load"} /\ pc'[Root] \notin {"setup", "load"}
    BY <1>1, <1>2, <1>6
  <2>1. ASSUME NEW q \in Workers
        PROVE  /\ LoadsAlike(q)'
               /\ \/ SessionNet[q] = down[q] /\ SessionNet'[q] = down'[q]
                  \/ /\ down[q] # <<>> /\ SessionNet[q] = Tail(down[q])
                     /\ SessionNet'[q] = Tail(down'[q])
    <3>1. LoadsAlike(q) /\ Untouched(q) /\ Loads(q)' = Loads(q)
      BY <1>4, <1>6, <1>c, <1>p, SessionUntouched, OthersLoad
    <3>2. down[q] \in Seq(DownMessage \cup LoadMessage)
      BY <1>t
    <3>3. \/ down'[q] = down[q]
          \/ \E m \in DownMessage : down'[q] = Append(down[q], m)
      <4>1. Counting(Root) => down' = down
        BY DEF Counting, SweepThermalization, Sweep, CountSweep, EndSweep
      <4> QED
        BY <1>t, <1>c, <1>p, <1>6, <4>1, RootSends DEF Driven
    <3>4. local_current_parameter_index'[q] = local_current_parameter_index[q]
      BY <3>1 DEF Untouched
    <3>5. CASE Loads(q)
      <4>1. /\ down[q] # <<>> /\ Pended(q) = Tail(down[q]) /\ Pended(q) \in Seq(DownMessage)
            /\ Head(down[q]) = [op |-> "load", par |-> local_current_parameter_index[q]]
        BY <2>0, <3>1, <3>5 DEF LoadsAlike, Pended
      <4>2. /\ down'[q] # <<>> /\ Head(down'[q]) = Head(down[q])
            /\ Tail(down'[q]) \in Seq(DownMessage)
        <5>1. CASE down'[q] = down[q]
          BY <4>1, <5>1
        <5>2. ASSUME NEW m \in DownMessage, down'[q] = Append(down[q], m)
              PROVE  /\ down'[q] # <<>> /\ Head(down'[q]) = Head(down[q])
                     /\ Tail(down'[q]) \in Seq(DownMessage)
          <6>1. /\ Append(down[q], m) # <<>> /\ Head(Append(down[q], m)) = Head(down[q])
                /\ Tail(Append(down[q], m)) = Append(Tail(down[q]), m)
            BY <3>2, <4>1, HeadTailAppend
          <6> QED
            BY <4>1, <5>2, <6>1
        <5> QED
          BY <3>3, <5>1, <5>2
      <4>3. Pended(q)' = Tail(down'[q])
        BY <3>1, <3>5, <4>2 DEF Pended
      <4>4. LoadsAlike(q)'
        BY <2>0, <3>4, <4>1, <4>2, <4>3 DEF LoadsAlike
      <4> QED
        BY <4>1, <4>3, <4>4, PendedOfEach
    <3>6. CASE ~Loads(q)
      <4>1. Pended(q) = down[q] /\ Pended(q)' = down'[q] /\ down[q] \in Seq(DownMessage)
        BY <2>0, <3>1, <3>6 DEF LoadsAlike, Pended
      <4>2. down'[q] \in Seq(DownMessage)
        BY SMTT(30), <3>3, <4>1
      <4>3. LoadsAlike(q)'
        BY <2>0, <3>1, <3>6, <4>1, <4>2 DEF LoadsAlike
      <4> QED
        BY <4>1, <4>3, PendedOfEach
    <3> QED
      BY <3>5, <3>6
  <2>2. LoadSound'
    BY <1>p, <1>3, <1>6, <2>1, LoadSoundNext
  <2> QED
    BY <1>6, <2>1, <2>2 DEF Behind
<1> QED
  BY <1>5, <1>6

LEMMA DriverLockstep ==
  ASSUME SessionInv, LoadSound, InLockstep(SessionViews, up, SessionNet), NEW p \in Proc,
         DriverStep(p)
  PROVE  LoadSound' /\ InLockstep(SessionViews', up', SessionNet')
<1>c. Root \in Proc /\ \A q \in Workers : q \in Proc /\ q # Root
  BY Constants DEF Workers
<1>p. ProcessStep(p) /\ Driven(p)
  BY DEF ProcessStep, DriverStep, Driven, Counting
<1>t. SessionTypes /\ SessionTypes' /\ TypesAmong(SessionLabels, NoState, LoadMessage)
  BY <1>p, NextSessionTypes DEF SessionInv, SessionTypes, SessionsNext
<1>1. /\ LoadSound'
      /\ p = Root => Behind(SessionNet, SessionNet')
      /\ p # Root => SessionNet[p] = down[p] /\ SessionNet'[p] = down'[p]
  BY <1>t, DriverLoads
<1>2. pc[p] \in Labels /\ pc'[p] \in Labels /\ stateFile' = stateFile
  BY <1>t, <1>p, DriverLabels
<1>3. Labels \cap {"setup", "load", "open", "saveState", "writeState"} = {}
  BY DEF Labels
<1>4. SessionLabel(p) = LabelOf(p) /\ SessionPar(p) = replica_par[p]
        /\ SessionFile(p) = stateFile[p]
  BY <1>2, <1>3 DEF SessionLabel, SessionPar, SessionFile
<1>5. /\ SessionLabel(p)' = LabelOf(p)' /\ SessionPar(p)' = replica_par'[p]
      /\ SessionFile(p)' = stateFile'[p]
  BY <1>2, <1>3 DEF SessionLabel, SessionPar, SessionFile
<1>6. SessionKept' = SessionKept
  <2>1. CASE p = Root
    <3>1. rootFile' = rootFile
      BY DEF DriverStep, sessionVars
    <3> QED
      BY <1>2, <1>3, <2>1, <3>1 DEF SessionKept, Unwritten
  <2>2. CASE p # Root
    BY <1>t, <1>p, <2>2, KeptByOthers
  <2> QED
    BY <2>1, <2>2
<1>k. PICK kept : kept = SessionKept
  OBVIOUS
<1>d. PICK d : d = SessionNet
  OBVIOUS
<1>v. PICK view : view = SessionViews
  OBVIOUS
<1>7. view[p] = View(p, kept)
  BY <1>4, <1>k, <1>v, SessionViewOfEach DEF SessionView, View
<1>8. SessionViews'[p] = View(p, kept)'
  <2>1. ViewAs(p, SessionLabel(p), SessionPar(p), SessionFile(p), SessionKept)' = View(p, kept)'
    BY <1>5, <1>6, <1>k DEF ViewAs, View
  <2> QED
    BY <2>1, SessionViewOfEach
<1>9. \A r \in Proc \ {p} : SessionViews'[r] = view[r]
  BY <1>t, <1>p, <1>v, OtherViews
<1>10. InLockstep(view, up, d) /\ ChannelsOf(up, d) /\ ChannelsOf(up', SessionNet')
  BY <1>t, <1>1, <1>d, <1>v, SessionChannels, SessionChannelsNext
<1>11. p # Root => \A r \in Workers \ {p} : SessionNet'[r] = d[r]
  <2> SUFFICES ASSUME p # Root, NEW r \in Workers \ {p} PROVE SessionNet'[r] = SessionNet[r]
    BY <1>d
  <2>1. p \in Workers
    BY DEF Workers
  <2>2. Pended(r)' = Pended(r)
    BY <1>t, <1>p, <2>1, WorkersChannel
  <2> QED
    BY <2>2, PendedOfEach
<1>12. CASE Counting(p)
  <2>1. up' = up /\ down' = down
    BY <1>12 DEF Counting, SweepThermalization, Sweep, CountSweep, EndSweep
  <2>2. InLockstep(SessionViews', up, d)
    BY <1>t, <1>7, <1>8, <1>9, <1>10, <1>12, CountingStep
  <2>3. \A q \in Workers : SessionNet'[q] = d[q]
    <3> SUFFICES ASSUME NEW q \in Workers PROVE SessionNet'[q] = d[q]
      OBVIOUS
    <3>1. CASE p = Root
      BY <1>1, <1>d, <2>1, <3>1 DEF Behind
    <3>2. CASE p # Root /\ q = p
      BY <1>1, <1>d, <2>1, <3>2
    <3>3. CASE p # Root /\ q # p
      BY <1>11, <3>3
    <3> QED
      BY <3>1, <3>2, <3>3
  <2>4. InLockstep(SessionViews', up, SessionNet')
    BY <2>2, <2>3, SameLockstep
  <2> QED
    BY <1>1, <2>1, <2>4
<1>13. CASE p \in Workers /\ Worker(p)
  <2>1. p # Root /\ d[p] = down[p] /\ SessionNet'[p] = down'[p]
    BY <1>c, <1>1, <1>13, <1>d
  <2>2. InLockstep(SessionViews', up', SessionNet')
    BY <1>t, <1>7, <1>8, <1>9, <1>10, <1>11, <1>13, <2>1, WorkerStep
  <2> QED
    BY <1>1, <2>2
<1>14. CASE p = Root /\ Master
  <2>1. Behind(d, SessionNet')
    BY <1>1, <1>14, <1>d
  <2>2. InLockstep(SessionViews', up', SessionNet')
    BY <1>t, <1>7, <1>8, <1>9, <1>10, <1>14, <2>1, MasterStep
  <2> QED
    BY <1>1, <2>2
<1> QED
  BY <1>p, <1>12, <1>13, <1>14 DEF Driven

(* The points where the processes of a session stand.                      *)
LEMMA StandingOfASession ==
  ASSUME SessionInv, SessionLockstep, Running
  PROVE  \E at \in [Proc -> SoundPoints] :
           /\ Standing(at, SessionViews) /\ Arriving(at, up, SessionNet)
           /\ \A p \in Proc : ShowsAs(p, at[p], SessionLabel(p), SessionPar(p), SessionFile(p))
           /\ SessionKept = at[Root].saved.table
<1>t. SessionTypes /\ LoadSound /\ InLockstep(SessionViews, up, SessionNet)
  BY DEF SessionInv, SessionLockstep
<1>1. PICK at \in [Proc -> SoundPoints] : Standing(at, SessionViews) /\ Arriving(at, up, SessionNet)
  BY <1>t, SessionChannels, Relative
<1>2. ASSUME NEW p \in Proc
      PROVE  /\ ShowsAs(p, at[p], SessionLabel(p), SessionPar(p), SessionFile(p))
             /\ p = Root => SessionKept = at[Root].saved.table
  <2>1. SessionViews[p] = Projected(p, at[p])
    BY <1>1 DEF Standing
  <2>2. ViewAs(p, SessionLabel(p), SessionPar(p), SessionFile(p), SessionKept) = Projected(p, at[p])
    BY <2>1, SessionViewOfEach DEF SessionView
  <2> QED
    BY <2>2, ShowsAsIsView
<1> QED
  BY <1>1, <1>2, Constants

(* Processes run on in the session that they are in.                       *)
LEMMA SessionGoesOn ==
  ASSUME SessionInv, NEW p \in Proc, ProcessStep(p)
  PROVE  /\ UNCHANGED <<sessions, wasKilled, inStep>>
         /\ pc[Root] = "off" <=> pc'[Root] = "off"
<1>c. Root \in Proc
  BY Constants
<1>1. UNCHANGED <<sessions, wasKilled, inStep>>
  BY DEF ProcessStep, Starting, WriteHeader, ScatterLoaded, OpenStreams, HearLoaded, DriverStep,
     Saving, SaveResults, OpenStateFile, WriteStateFile, sessionVars
<1>2. CASE p # Root
  BY <1>c, <1>1, <1>2, OthersKeepTheirOwn DEF SessionInv, OwnControl
<1>3. CASE p = Root
  <2>1. pc[Root] # "off"
    BY <1>3, StepCounts DEF SessionInv
  <2>2. pc'[Root] # "off"
    <3>1. CASE Starting(Root)
      BY <1>c, <2>1, <3>1, EntersLoop
         DEF SessionInv, SessionTypes, TypesAmong, ControlAmong, Starting, WriteHeader,
            ScatterLoaded, OpenStreams, HearLoaded, Goto
    <3>2. CASE Saving(Root)
      BY <1>c, <3>2
         DEF SessionInv, SessionTypes, TypesAmong, ControlAmong, Saving, SaveResults, OpenStateFile,
             WriteStateFile, AfterSave, Goto
    <3>3. CASE DriverStep(Root)
      <4>1. pc'[Root] \in Labels
        BY <1>c, <3>3, DriverLabels DEF SessionInv, DriverStep, Driven, Counting
      <4> QED
        BY <4>1 DEF Labels
    <3> QED
      BY <1>3, <3>1, <3>2, <3>3 DEF ProcessStep
  <2> QED
    BY <1>1, <2>1, <2>2
<1> QED
  BY <1>2, <1>3

LEMMA NextSessionLockstep ==
  ASSUME SessionInv, RootFileInverse, SessionLockstep, [SessionsNext]_allVars
  PROVE  SessionLockstep'
<1> SUFFICES ASSUME Running' PROVE LoadSound' /\ InLockstep(SessionViews', up', SessionNet')
  BY DEF SessionLockstep
<1>c. Root \in Proc
  BY Constants
<1>1. CASE StartJob
  BY <1>1, StartJobLockstep DEF Running
<1>2. ASSUME NEW p \in Proc, ProcessStep(p)
      PROVE  LoadSound' /\ InLockstep(SessionViews', up', SessionNet')
  <2>1. Running
    BY <1>2, SessionGoesOn DEF Running
  <2>2. LoadSound /\ InLockstep(SessionViews, up, SessionNet)
    BY <2>1 DEF SessionLockstep
  <2> QED
    BY <1>2, <2>2, StartingLockstep, SavingLockstep, DriverLockstep DEF ProcessStep
<1>3. CASE KillJob
  BY <1>3, <1>c DEF KillJob, Running
<1>4. CASE Rest \/ UNCHANGED allVars
  <2>1. UNCHANGED allVars
    BY <1>4 DEF Rest
  <2>2. Running /\ SessionLockstep'
    BY <2>1 DEF allVars, vars, sessionVars, counters, replicas, tables, files, Running,
       SessionLockstep, LoadSound, LoadsAlike, Pended, Loads, Found, EnterLoop, LoopTop,
       SessionViews, SessionView, ViewAs, SessionLabel, SessionPar, SessionFile, SessionKept,
       SessionNet, LabelOf, AfterSave, CurrentState, RootFits, TablesInverse, Unwritten
  <2> QED
    BY <2>2 DEF SessionLockstep
<1> QED
  BY <1>1, <1>2, <1>3, <1>4 DEF SessionsNext

LEMMA NextRootFileInverse ==
  ASSUME SessionInv, RootFileInverse, SessionLockstep, [SessionsNext]_allVars
  PROVE  RootFileInverse'
<1>c. Root \in Proc
  BY Constants
<1>1. CASE UNCHANGED <<stateFile, rootFile>> /\ (inStep' => inStep)
  BY <1>1 DEF RootFileInverse, Unwritten
<1>2. CASE StartJob \/ KillJob \/ Rest \/ UNCHANGED allVars
  <2>1. UNCHANGED <<stateFile, rootFile>> /\ (inStep' => inStep)
    BY <1>2 DEF StartJob, KillJob, Rest, allVars, vars, sessionVars, files, SessionInv, SessionTypes
  <2> QED
    BY <1>1, <2>1
<1>3. ASSUME NEW p \in Proc, ProcessStep(p) PROVE RootFileInverse'
  <2>1. inStep' = inStep /\ (pc[Root] = "off" <=> pc'[Root] = "off")
    BY <1>3, SessionGoesOn
  <2>2. CASE p # Root
    <3>1. stateFile'[Root] = stateFile[Root] /\ rootFile' = rootFile
      BY <1>c, <1>3, <2>2, OthersKeepTheirOwn DEF SessionInv, OwnControl, OfTheRoot
    <3> QED
      BY <2>1, <3>1 DEF RootFileInverse, Unwritten
  <2>3. CASE p = Root
    <3>1. CASE stateFile'[Root] = stateFile[Root] /\ rootFile' = rootFile
      BY <2>1, <3>1 DEF RootFileInverse, Unwritten
    <3>2. CASE stateFile'[Root] = Torn
      BY <3>2 DEF RootFileInverse, Unwritten
    <3>3. CASE WriteStateFile(Root)
      <4> SUFFICES ASSUME inStep'
                   PROVE  /\ \A r \in Proc : rootFile'.current_par_process[rootFile'.current_process_par[r]] = r
                          /\ \A k \in Par : rootFile'.current_process_par[rootFile'.current_par_process[k]] = k
        BY DEF RootFileInverse
      <4>1. Running
        BY <2>1, <3>3 DEF Running, WriteStateFile
      <4>2. PICK at \in [Proc -> SoundPoints] :
              ShowsAs(Root, at[Root], SessionLabel(Root), SessionPar(Root), SessionFile(Root))
        BY <1>c, <4>1, StandingOfASession
      <4>3. TablesInverse
        BY <4>2 DEF ShowsAs, RootFits
      <4>4. /\ rootFile'.current_par_process = current_par_process
            /\ rootFile'.current_process_par = current_process_par
        BY <3>3 DEF WriteStateFile, RootState
      <4> QED
        BY <4>3, <4>4 DEF TablesInverse
    <3> QED
      BY <1>3, <2>3, <3>1, <3>2, <3>3, OwnFile DEF SessionInv
  <2> QED
    BY <2>2, <2>3
<1> QED
  BY <1>2, <1>3 DEF SessionsNext

LockstepInv == SessionInv /\ RootFileInverse /\ SessionLockstep

LEMMA SessionsKeepLockstep == SessionsSpec => []LockstepInv
<1>1. SessionsInit => RootFileInverse /\ SessionLockstep
  BY Constants DEF SessionsInit, Idle, RootFileInverse, Unwritten, SessionLockstep, Running
<1>2. SessionInv /\ SessionInv' /\ RootFileInverse /\ SessionLockstep /\ [SessionsNext]_allVars
        => RootFileInverse' /\ SessionLockstep'
  BY NextSessionLockstep, NextRootFileInverse
<1>3. SessionInv /\ RootFileInverse /\ SessionLockstep <=> LockstepInv
  BY DEF LockstepInv
<1> QED
  BY <1>1, <1>2, <1>3, SessionsKeepInv, PTL DEF SessionsSpec

(* A session that started from fitting files is in lockstep, as a run of   *)
(* DetQMCPT is: what the processes load, and what they save in steps that  *)
(* a kill can separate, does not put them out of step.                     *)
THEOREM SessionsInLockstep == SessionsSpec => []SessionLockstep
<1>1. LockstepInv => SessionLockstep
  BY DEF LockstepInv
<1> QED
  BY <1>1, SessionsKeepLockstep, PTL

LEMMA LoopViews ==
  ASSUME NEW p \in Proc, pc[p] \notin {"setup", "load", "open", "saveState", "writeState"}
  PROVE  SessionViews[p] = View(p, SessionKept)
<1>1. SessionLabel(p) = LabelOf(p) /\ SessionPar(p) = replica_par[p]
        /\ SessionFile(p) = stateFile[p]
  BY DEF SessionLabel, SessionPar, SessionFile
<1> QED
  BY <1>1, SessionViewOfEach DEF SessionView, View

LEMMA StaysInStepInLockstep ==
  ASSUME SessionInv, SessionLockstep
  PROVE  StaysInStep
<1> SUFFICES ASSUME Running
             PROVE  /\ NoMismatch /\ TablesInverse
                    /\ \A q \in Workers :
                         /\ ~(RootWaitsFor(q) /\ (WaitsForRoot(q) \/ (pc[q] = "load" /\ down[q] = <<>>)))
                         /\ up[q] # <<>> => Head(up[q]).op \in ExpectedAtRoot
                         /\ down[q] # <<>> => Head(down[q]).op \in ExpectedNow(q)
                         /\ AllDone => up[q] = <<>> /\ down[q] = <<>>
                    /\ \A p \in Proc : InTheLoop(p) =>
                         replica_ctrl[p] = replica_par[p] /\ ~LocalMismatch(p)
  BY DEF StaysInStep, Running
<1>c. Root \in Proc /\ \A q \in Workers : q \in Proc /\ q # Root
  BY Constants DEF Workers
<1>t. /\ SessionTypes /\ BufferTypes /\ LoadSound /\ ChannelsOf(up, SessionNet)
      /\ \A q \in Workers : up[q] \in Seq(UpMessage)
  BY SessionChannels DEF SessionInv, SessionTypes, TypesAmong, SessionLockstep, ChannelsAmong
<1>1. PICK at \in [Proc -> SoundPoints] :
        /\ Standing(at, SessionViews) /\ Arriving(at, up, SessionNet)
        /\ \A p \in Proc : ShowsAs(p, at[p], SessionLabel(p), SessionPar(p), SessionFile(p))
  BY StandingOfASession
<1>2. ASSUME NEW p \in Proc
      PROVE  at[p].label = SessionLabel(p) /\ at[p].label \in Labels \ {"error", "walk"}
  BY <1>1, PointFields DEF ShowsAs, SoundPoints
<1>3. NoMismatch
  BY <1>2 DEF NoMismatch, SessionLabel, LabelOf
<1>4. TablesInverse
  BY <1>c, <1>1 DEF ShowsAs, RootFits
<1>5. ASSUME NEW p \in Proc, InTheLoop(p)
      PROVE  replica_ctrl[p] = replica_par[p] /\ ~LocalMismatch(p)
  <2>1. SessionPar(p) = replica_par[p]
    BY <1>5 DEF InTheLoop, SessionPar
  <2> QED
    BY <1>1, <2>1 DEF ShowsAs, LocalMismatch
<1>6. ASSUME NEW q \in Workers
      PROVE  /\ ~(RootWaitsFor(q) /\ (WaitsForRoot(q) \/ (pc[q] = "load" /\ down[q] = <<>>)))
             /\ up[q] # <<>> => Head(up[q]).op \in ExpectedAtRoot
             /\ down[q] # <<>> => Head(down[q]).op \in ExpectedNow(q)
             /\ AllDone => up[q] = <<>> /\ down[q] = <<>>
  <2>0. LoadsAlike(q) /\ LoadOwn(q) /\ Pended(q) = SessionNet[q]
    BY <1>c, <1>t, <1>6, LoadSoundOfEach, PendedOfEach
  <2>1. /\ ~Loads(q) => SessionNet[q] = down[q] /\ down[q] \in Seq(DownMessage)
        /\ Loads(q) /\ down[q] # <<>> => Head(down[q]).op = "load"
        /\ Loads(q) /\ pc[Root] \notin {"setup", "load"} => down[q] # <<>>
    <3>1. ~Loads(q) => Pended(q) = down[q]
      BY DEF Pended
    <3>2. down[q] = <<>> => down[q] \in Seq(DownMessage)
      OBVIOUS
    <3>3. pc[Root] \in {"setup", "load"} => down[q] = <<>>
      BY <2>0 DEF LoadsAlike
    <3>4. /\ Loads(q) /\ down[q] # <<>> => Head(down[q]).op = "load"
          /\ Loads(q) /\ pc[Root] \notin {"setup", "load"} => down[q] # <<>>
          /\ pc[Root] \notin {"setup", "load"} => Pended(q) \in Seq(DownMessage)
      BY <2>0, <3>3 DEF LoadsAlike
    <3> QED
      BY <2>0, <3>1, <3>2, <3>3, <3>4
  <2>2. Root \in Proc /\ pc[Root] \notin {"setup", "load", "open", "saveState", "writeState"} =>
          SessionViews[Root] = View(Root, SessionKept)
    BY LoopViews
  <2>3. pc[q] \notin {"setup", "load", "open", "saveState", "writeState"} =>
          SessionViews[q] = View(q, SessionKept)
    BY <1>c, LoopViews
  <2>4. /\ SessionViews[Root] = View(Root, SessionKept) /\ up[q] # <<>> =>
             Head(up[q]).op \in ExpectedAtRoot
        /\ SessionViews[q] = View(q, SessionKept) /\ SessionNet[q] # <<>> =>
             \/ pc[q] \notin {"top", "inBarrier", "assign"}
             \/ pc[q] = "top" /\ Head(SessionNet[q]).op = "stop_now"
             \/ pc[q] = "inBarrier" /\ Head(SessionNet[q]).op = "barrier"
             \/ pc[q] = "assign" /\ Head(SessionNet[q]).op = "assign"
        /\ SessionViews[Root] = View(Root, SessionKept) /\ SessionViews[q] = View(q, SessionKept)
             /\ SessionNet[q] = <<>> =>
                  ~(RootWaitsFor(q) /\ pc[q] \in {"top", "inBarrier", "assign"})
    BY <1>t, <1>1, Matching
  <2>5. RootWaitsFor(q) => pc[Root] \notin {"setup", "load", "open", "saveState", "writeState"}
    BY DEF RootWaitsFor, Flushing
  <2>6. ~(RootWaitsFor(q) /\ WaitsForRoot(q))
    <3> SUFFICES ASSUME RootWaitsFor(q), WaitsForRoot(q) PROVE FALSE
      OBVIOUS
    <3>1. ~Loads(q) /\ pc[q] \in {"top", "inBarrier", "assign"} /\ down[q] = <<>>
      BY DEF WaitsForRoot, Loads
    <3> QED
      BY <1>c, <2>1, <2>2, <2>3, <2>4, <2>5, <3>1
  <2>7. ~(RootWaitsFor(q) /\ pc[q] = "load" /\ down[q] = <<>>)
    BY <2>0, <2>1, <2>5 DEF LoadOwn, Loads
  <2>8. up[q] # <<>> => Head(up[q]).op \in ExpectedAtRoot
    <3>1. CASE pc[Root] \in {"setup", "load", "open", "saveState", "writeState"}
      <4>1. up[q] # <<>> => Head(up[q]) \in UpMessage
        BY <1>t
      <4>2. ExpectedAtRoot = {"insertValue", "configuration", "barrier", "exchange", "check"}
        BY <3>1 DEF ExpectedAtRoot, Flushing
      <4> QED
        BY <4>1, <4>2 DEF UpMessage
    <3>2. CASE pc[Root] \notin {"setup", "load", "open", "saveState", "writeState"}
      BY <1>c, <2>2, <2>4, <3>2
    <3> QED
      BY <3>1, <3>2
  <2>9. ASSUME down[q] # <<>> PROVE Head(down[q]).op \in ExpectedNow(q)
    <3>1. CASE Loads(q)
      BY <2>1, <2>9, <3>1 DEF Loads, ExpectedNow
    <3>2. CASE ~Loads(q)
      <4>1. Head(down[q]) \in DownMessage
        BY <2>1, <2>9, <3>2
      <4>2. Head(down[q]).op \in {"stop_now", "barrier", "assign"}
        BY <4>1 DEF DownMessage
      <4>3. CASE pc[q] = "setup"
        <5>1. SessionLabel(q) = "top"
          BY <2>0, <3>2, <4>3 DEF LoadOwn, Loads, SessionLabel
        <5>2. DownOp(at[q]) = "stop_now"
          BY <1>c, <1>2, <5>1 DEF DownOp
        <5>3. Head(SessionNet[q]).op = "stop_now"
          BY <1>1, <2>1, <2>9, <3>2, <5>2 DEF Arriving, DownSays
        <5> QED
          BY <2>1, <3>2, <4>3, <5>3 DEF ExpectedNow
      <4>4. CASE pc[q] = "load"
        BY <2>0, <3>2, <4>4 DEF LoadOwn, Loads
      <4>5. CASE pc[q] \in {"top", "inBarrier", "assign"}
        BY <2>1, <2>3, <2>4, <2>9, <3>2, <4>5 DEF ExpectedNow, ExpectedAt
      <4>6. CASE pc[q] \notin {"setup", "load", "top", "inBarrier", "assign"}
        BY <4>2, <4>6 DEF ExpectedNow, ExpectedAt
      <4> QED
        BY <4>3, <4>4, <4>5, <4>6
    <3> QED
      BY <3>1, <3>2
  <2>10. AllDone => up[q] = <<>> /\ down[q] = <<>>
    <3> SUFFICES ASSUME AllDone PROVE up[q] = <<>> /\ down[q] = <<>>
      OBVIOUS
    <3>1. \A p \in Proc : SessionLabel(p) = "done"
      BY DEF AllDone, SessionLabel, LabelOf
    <3>2. \A p \in Proc : at[p].label = "done"
      BY <1>2, <3>1
    <3>3. ~Loads(q)
      BY <1>c DEF AllDone, Loads
    <3> QED
      BY <1>1, <2>1, <3>2, <3>3 DEF Arriving
  <2> QED
    BY <2>6, <2>7, <2>8, <2>9, <2>10
<1> QED
  BY <1>3, <1>4, <1>5, <1>6

(* Sessions that start from fitting files keep in step, however many there *)
(* are and wherever they are killed: the scatter of loadContents and the   *)
(* collectives of the loop match, no consistency check throws, and each    *)
(* process has the parameter that the root's table says, with that         *)
(* parameter's control data.                                               *)
THEOREM SessionsStayInStep == SessionsSpec => []StaysInStep
<1>1. LockstepInv => StaysInStep
  BY StaysInStepInLockstep DEF LockstepInv
<1> QED
  BY <1>1, SessionsKeepLockstep, PTL

(* Nobody has saved more than the others when no save is under way.        *)
LEMMA SavedAlike ==
  ASSUME SessionInv, SessionLockstep, Running, ~SaveUnderway,
         NEW at \in [Proc -> SoundPoints], Standing(at, SessionViews),
         \A p \in Proc : ShowsAs(p, at[p], SessionLabel(p), SessionPar(p), SessionFile(p)),
         NEW p \in Proc
  PROVE  at[p].saves = at[Root].saves /\ at[p].saved = at[Root].saved
<1>c. Root \in Proc
  BY Constants
<1>1. CASE JobOver
  <2>1. ASSUME NEW r \in Proc PROVE at[r].label = "done"
    <3>1. at[r].label = pc[r]
      BY <1>1 DEF JobOver, ShowsAs, SessionLabel, LabelOf
    <3>2. at[r].label \in Labels
      BY PointFields DEF SoundPoints
    <3> QED
      BY <1>1, <3>1, <3>2 DEF JobOver, Labels
  <2> QED
    BY <2>1 DEF Standing
<1>2. CASE ~JobOver
  <2>1. ~at[Root].exiting
    BY <1>c, <1>2 DEF SaveUnderway, ShowsAs
  <2>2. ASSUME NEW r \in Proc PROVE Opened(at[r]) = at[r].saves
    <3>1. ~at[r].exiting
      BY <1>c, <2>1, SavesMeet
    <3>2. at[r].label = SessionLabel(r)
      BY DEF ShowsAs
    <3>3. SessionLabel(r) \notin {"barrier", "inBarrier"}
      BY EntersLoop DEF SaveUnderway, SessionLabel, LabelOf
    <3> QED
      BY <3>1, <3>2, <3>3 DEF Opened, AtBarrier
  <2>3. at[p].saves <= at[Root].saves /\ at[Root].saves <= at[p].saves
    <3>1. Opened(at[p]) <= at[Root].saves /\ Opened(at[Root]) <= at[p].saves
      BY <1>c, SavesMeet
    <3> QED
      BY <1>c, <2>2, <3>1
  <2>4. at[p].saves = at[Root].saves
    BY <1>c, <2>3, SoundFields
  <2> QED
    BY <1>c, <2>4 DEF Standing, Later
<1> QED
  BY <1>1, <1>2

LEMMA OnlySavesAreFragileInLockstep ==
  ASSUME SessionInv, SessionLockstep
  PROVE  OnlySavesAreFragile
<1> SUFFICES ASSUME Running, ~SaveUnderway PROVE FilesFit
  BY DEF OnlySavesAreFragile, Running
<1>c. Root \in Proc
  BY Constants
<1>1. PICK at \in [Proc -> SoundPoints] :
        /\ Standing(at, SessionViews)
        /\ \A p \in Proc : ShowsAs(p, at[p], SessionLabel(p), SessionPar(p), SessionFile(p))
        /\ SessionKept = at[Root].saved.table
  BY StandingOfASession
<1>2. PICK c \in SoundPoints : c = at[Root]
  BY <1>c
<1>3. ASSUME NEW p \in Proc PROVE stateFile[p] = FileOf(p, c)
  <2>1. stateFile[p] = FileOf(p, at[p])
    BY <1>1 DEF ShowsAs, SessionFile, SaveUnderway
  <2>2. at[p].saves = c.saves /\ at[p].saved = c.saved
    BY <1>1, <1>2, SavedAlike
  <2> QED
    BY <2>1, <2>2 DEF FileOf
<1>4. CASE c.saves = 0
  BY <1>3, <1>4 DEF FileOf, FilesFit
<1>5. CASE c.saves # 0
  <2>1. ASSUME NEW p \in Proc
        PROVE  stateFile[p] = [therm |-> c.saved.therm, sweeps |-> c.saved.sweeps,
                 counter |-> c.saved.counter, par |-> c.saved.table[p], ctrl |-> c.saved.table[p]]
    BY <1>3, <1>5 DEF FileOf
  <2>2. ASSUME NEW p \in Proc PROVE stateFile[p] \notin {NoFile, Torn}
    <3>1. /\ c.saved.therm \in Nat /\ c.saved.sweeps \in Nat /\ c.saved.counter \in Nat
          /\ c.saved.table[p] \in Par
      BY PointFields DEF SoundPoints, Tables
    <3>2. [therm |-> c.saved.therm, sweeps |-> c.saved.sweeps, counter |-> c.saved.counter,
           par |-> c.saved.table[p], ctrl |-> c.saved.table[p]] \in State
      BY <3>1 DEF State
    <3> QED
      BY <2>1, <3>2, NoStateIsNone
  <2>3. rootFile.current_process_par = c.saved.table
    BY <1>c, <1>1, <1>2, <2>2 DEF SessionKept, Unwritten, SaveUnderway
  <2>4. ASSUME NEW p \in Proc
        PROVE  /\ stateFile[p].therm = c.saved.therm /\ stateFile[p].sweeps = c.saved.sweeps
               /\ stateFile[p].counter = c.saved.counter
               /\ stateFile[p].par = c.saved.table[p] /\ stateFile[p].ctrl = c.saved.table[p]
    <3>1. PICK therm, sweeps, counter, par :
            /\ therm = c.saved.therm /\ sweeps = c.saved.sweeps /\ counter = c.saved.counter
            /\ par = c.saved.table[p]
      OBVIOUS
    <3>2. stateFile[p] = [therm |-> therm, sweeps |-> sweeps, counter |-> counter,
                          par |-> par, ctrl |-> par]
      BY <2>1, <3>1
    <3>3. /\ stateFile[p].therm = therm /\ stateFile[p].sweeps = sweeps
          /\ stateFile[p].counter = counter /\ stateFile[p].par = par /\ stateFile[p].ctrl = par
      BY <3>2
    <3> QED
      BY <3>1, <3>3
  <2> QED
    BY <1>c, <2>2, <2>3, <2>4 DEF FilesFit
<1> QED
  BY <1>4, <1>5

(* A kill while no save is under way leaves files that fit together: only  *)
(* a kill between the steps of a save can put the next session out of      *)
(* step, however many sessions there were.                                 *)
THEOREM KillsBetweenSavesAreHarmless == SessionsSpec => []OnlySavesAreFragile
<1>1. LockstepInv => OnlySavesAreFragile
  BY OnlySavesAreFragileInLockstep DEF LockstepInv
<1> QED
  BY <1>1, SessionsKeepLockstep, PTL

-----------------------------------------------------------------------------
(* The results of the root: what was measured and is not in the series     *)
(* files yet, and what the root's state file says of them.                 *)

Unfilled(buffer) == \A c \in Par : buffer[c] = <<>>

(* The buffers are empty from the save of the results on, until something  *)
(* is measured, which happens in the measurement stage only.               *)
ResultsOfRoot ==
  /\ stage[Root] \in {"T", "F"} => Unfilled(timeseriesBuffer)
  /\ pc[Root] \in {"saveState", "writeState", "barrier", "inBarrier", "done"} =>
       Unfilled(timeseriesBuffer)
  /\ pc[Root] = "endSweep" /\ swCounter[Root] = 0 => Unfilled(timeseriesBuffer)
  /\ pc[Root] \in {"saveState", "writeState"} /\ stage[Root] = "M" =>
       storageFileStarted /\ buffered[Root] = <<>>
  /\ pc[Root] = "insertValue" => swCounter[Root] % MeasureInterval = 0
  /\ ~Unwritten(Root) /\ rootFile.storageFileStarted => storageFileStarted
FilesOfResults ==
  ~Unwritten(Root) =>
    /\ Unfilled(rootFile.timeseriesBuffer)
    /\ stateFile[Root].sweeps # 0 => rootFile.storageFileStarted
ResultsInv == (pc[Root] # "off" => ResultsOfRoot) /\ FilesOfResults

LEMMA StartJobResults ==
  ASSUME SessionInv, ResultsInv, StartJob
  PROVE  ResultsInv'
<1>c. Root \in Proc
  BY Constants
<1>1. /\ timeseriesBuffer' = LoadedRoot.timeseriesBuffer
      /\ storageFileStarted' = LoadedRoot.storageFileStarted
      /\ stateFile' = stateFile /\ rootFile' = rootFile /\ pc'[Root] \in {"unreadable", "setup"}
  BY <1>c DEF StartJob
<1>2. Unfilled(LoadedRoot.timeseriesBuffer)
  BY DEF LoadedRoot, FreshRoot, Unfilled, ResultsInv, FilesOfResults
<1>3. Unfilled(timeseriesBuffer)'
  BY <1>1, <1>2 DEF Unfilled
<1>4. ~Unwritten(Root)' /\ rootFile'.storageFileStarted => storageFileStarted'
  BY <1>1 DEF LoadedRoot, Unwritten
<1>5. FilesOfResults'
  BY <1>1 DEF ResultsInv, FilesOfResults, Unfilled, Unwritten
<1> QED
  BY <1>1, <1>3, <1>4, <1>5 DEF ResultsInv, ResultsOfRoot

(* Only the root writes results.                                           *)
LEMMA ResultsOfOthers ==
  ASSUME SessionInv, NEW p \in Proc \ {Root}, ProcessStep(p)
  PROVE  UNCHANGED <<timeseriesBuffer, seriesFile, streamFile, storageFileStarted, storage>>
<1>1. CASE Starting(p)
  BY <1>1 DEF Starting, WriteHeader, HearLoaded, files, sessionVars
<1>2. CASE Saving(p)
  BY <1>2 DEF Saving, OpenStateFile, WriteStateFile, sessionVars
<1>3. CASE DriverStep(p)
  BY <1>3 DEF DriverStep, SweepThermalization, Sweep, CountSweep, EndSweep, Worker, HearStop,
     SendValue, SendConfiguration, EnterBarrier, LeaveBarrier, SendControlData, HearAssignment,
     SendCheck, files, sessionVars
<1> QED
  BY <1>1, <1>2, <1>3 DEF ProcessStep

LEMMA OthersResults ==
  ASSUME SessionInv, ResultsInv, NEW p \in Proc \ {Root}, ProcessStep(p)
  PROVE  ResultsInv'
<1>c. Root \in Proc
  BY Constants
<1>1. UNCHANGED OwnControl(Root) /\ UNCHANGED OfTheRoot /\ Untouched(Root)
  BY <1>c, OthersKeepTheirOwn, SessionUntouched DEF SessionInv
<1>2. storageFileStarted' = storageFileStarted
  BY ResultsOfOthers
<1> QED
  BY <1>1, <1>2 DEF ResultsInv, ResultsOfRoot, FilesOfResults, Unfilled, Unwritten, OwnControl,
     SweepCounts, OfTheRoot, Untouched

LEMMA StartingResults ==
  ASSUME SessionInv, ResultsOfRoot, FilesOfResults, Starting(Root)
  PROVE  ResultsOfRoot' /\ FilesOfResults'
<1>c. Root \in Proc
  BY Constants
<1>1. /\ UNCHANGED <<stage, swCounter, buffered, timeseriesBuffer, stateFile, storageFileStarted,
                     rootFile>>
      /\ pc'[Root] \in {"load", "open", EnterLoop(Root)}
  BY <1>c DEF Starting, WriteHeader, ScatterLoaded, OpenStreams, Goto, Workers, counters, files,
     sessionVars, SessionInv, SessionTypes, TypesAmong, ControlAmong
<1>2. EnterLoop(Root) = "done" => stage[Root] = "F"
  BY DEF EnterLoop, LoopTop
<1> QED
  BY <1>c, <1>1, <1>2, EntersLoop DEF ResultsOfRoot, FilesOfResults, Unfilled, Unwritten

LEMMA SavingResults ==
  ASSUME SessionInv, ResultsOfRoot, FilesOfResults, Saving(Root)
  PROVE  ResultsOfRoot' /\ FilesOfResults'
<1>c. Root \in Proc
  BY Constants
<1>t. /\ pc \in [Proc -> SessionLabels] /\ stateFile \in [Proc -> State \cup NoState]
      /\ stage[Root] \in {"T", "M", "F"} /\ CountersSound(Root)
  <2>1. pc[Root] # "off"
    BY DEF Saving, SaveResults, OpenStateFile, WriteStateFile
  <2> QED
    BY <1>c, <2>1 DEF SessionInv, SessionTypes, SessionCounts, TypesAmong, ControlAmong, FilesAmong
<1>1. CASE SaveResults
  <2>1. /\ UNCHANGED <<stage, swCounter, buffered, stateFile, rootFile>>
             /\ storageFileStarted' = TRUE
        /\ pc'[Root] = "saveState" /\ timeseriesBuffer' = [c \in Par |-> <<>>]
        /\ buffered[Root] = <<>>
    BY <1>c, <1>t, <1>1 DEF SaveResults, Goto, counters, Flushing, SavesResults
  <2>2. Unfilled(timeseriesBuffer)'
    BY <2>1 DEF Unfilled
  <2> QED
    BY <2>1, <2>2 DEF ResultsOfRoot, FilesOfResults, Unfilled, Unwritten
<1>2. CASE OpenStateFile(Root)
  <2>1. /\ UNCHANGED <<stage, swCounter, buffered, timeseriesBuffer, rootFile, storageFileStarted>>
        /\ pc'[Root] = "writeState" /\ stateFile'[Root] = Torn
        /\ pc[Root] = "saveState" \/ (pc[Root] = "save" /\ stage[Root] # "M")
    BY <1>c, <1>t, <1>2 DEF OpenStateFile, Goto, counters, sessionVars, SavesResults
  <2> QED
    BY <1>t, <2>1 DEF ResultsOfRoot, FilesOfResults, Unfilled, Unwritten
<1>3. CASE WriteStateFile(Root)
  <2>1. /\ UNCHANGED <<stage, swCounter, buffered, timeseriesBuffer, storageFileStarted>>
        /\ pc[Root] = "writeState" /\ pc'[Root] \in {"done", "barrier"}
        /\ stateFile'[Root].sweeps = sweepsDone[Root]
        /\ rootFile'.storageFileStarted = storageFileStarted
        /\ rootFile'.timeseriesBuffer = timeseriesBuffer
    BY <1>c, <1>t, <1>3 DEF WriteStateFile, Goto, counters, AfterSave, CurrentState, RootState
  <2>2. stage[Root] \in {"T", "M"} /\ (stage[Root] = "T" => sweepsDone[Root] = 0)
    BY <1>t, <2>1 DEF CountersSound
  <2>3. FilesOfResults'
    BY <2>1, <2>2 DEF ResultsOfRoot, FilesOfResults, Unfilled
  <2> QED
    BY <2>1, <2>3 DEF ResultsOfRoot, Unfilled
<1> QED
  BY <1>1, <1>2, <1>3 DEF Saving

LEMMA DriverResults ==
  ASSUME SessionInv, ResultsOfRoot, FilesOfResults, DriverStep(Root)
  PROVE  ResultsOfRoot' /\ FilesOfResults'
<1>c. Root \in Proc
  BY Constants
<1>t. /\ pc \in [Proc -> SessionLabels] /\ stage \in [Proc -> {"T", "M", "F"}]
      /\ swCounter \in [Proc -> Nat] /\ swCounter[Root] \in Nat /\ pc[Root] \in Labels
      /\ CountersSound(Root)
  <2>1. pc[Root] \in Labels
    BY <1>c, DriverLabels DEF SessionInv, DriverStep, Driven, Counting
  <2> QED
    BY <1>c, <2>1 DEF SessionInv, SessionTypes, SessionCounts, TypesAmong, ControlAmong, Labels
<1>1. /\ stateFile' = stateFile /\ rootFile' = rootFile /\ storageFileStarted' = storageFileStarted
      /\ FilesOfResults'
  <2>1. stateFile' = stateFile
    BY <1>c, DriverLabels DEF SessionInv, DriverStep, Driven, Counting
  <2>2. rootFile' = rootFile /\ storageFileStarted' = storageFileStarted
    BY DEF DriverStep, sessionVars
  <2> QED
    BY <2>1, <2>2 DEF FilesOfResults, Unfilled, Unwritten
<1>2. CASE SweepThermalization(Root)
  <2>1. /\ stage[Root] = "T" /\ stage' = stage /\ timeseriesBuffer' = timeseriesBuffer
        /\ pc'[Root] \in {"save", "endSweep"}
    BY <1>c, <1>t, <1>2 DEF SweepThermalization, Goto, files
  <2> QED
    BY <1>1, <2>1 DEF ResultsOfRoot, Unfilled, Unwritten
<1>3. CASE Sweep(Root)
  <2>1. /\ stage[Root] = "M" /\ stage' = stage /\ timeseriesBuffer' = timeseriesBuffer
        /\ swCounter'[Root] = swCounter[Root] + 1
        /\ pc'[Root] = IF (swCounter[Root] + 1) % MeasureInterval = 0 THEN "insertValue"
                       ELSE "countSweep"
    BY <1>c, <1>t, <1>3 DEF Sweep, Goto, files
  <2> QED
    BY <1>1, <2>1 DEF ResultsOfRoot, Unfilled, Unwritten
<1>4. CASE CountSweep(Root)
  <2>1. /\ stage' = stage /\ timeseriesBuffer' = timeseriesBuffer
        /\ pc'[Root] = "save" \/ (pc'[Root] = "endSweep" /\ swCounter'[Root] = swCounter[Root])
    BY <1>c, <1>t, <1>4 DEF CountSweep, Goto, counters, files
  <2>2. swCounter[Root] # 0 /\ stage[Root] = "M"
    BY <1>t, <1>4 DEF CountersSound, MidSweep, CountSweep
  <2> QED
    BY <1>1, <2>1, <2>2 DEF ResultsOfRoot, Unfilled, Unwritten
<1>5. CASE EndSweep(Root)
  <2>1. /\ timeseriesBuffer' = timeseriesBuffer /\ pc[Root] = "endSweep"
        /\ stage'[Root] = NextStage(Root)
        /\ pc'[Root] = IF NextStage(Root) = "F" THEN "done"
                       ELSE IF ExchangeDue(Root) THEN "exchange" ELSE "check"
    BY <1>c, <1>t, <1>5 DEF EndSweep, Goto, files
  <2>2. CASE NextStage(Root) = "F"
    <3>1. Unfilled(timeseriesBuffer)
      <4>1. CASE stage[Root] \in {"T", "F"}
        BY <4>1 DEF ResultsOfRoot
      <4>2. CASE stage[Root] = "M"
        <5>1. sweepsDone[Root] = Sweeps /\ ~MidSweep(Root)
          BY <2>1, <2>2, <4>2 DEF NextStage, MidSweep
        <5>2. swCounter[Root] % SaveInterval = Sweeps % SaveInterval
                /\ swCounter[Root] \in 0..(SaveInterval - 1)
          BY <1>t, <4>2, <5>1 DEF CountersSound, SweepsBegun
        <5>3. swCounter[Root] % SaveInterval = swCounter[Root]
          BY <5>2, Intervals
        <5>4. swCounter[Root] = 0
          BY <5>2, <5>3, Intervals
        <5> QED
          BY <2>1, <5>4 DEF ResultsOfRoot
      <4> QED
        BY <1>c, <1>t, <4>1, <4>2
    <3>2. Unfilled(timeseriesBuffer)'
      BY <2>1, <3>1 DEF Unfilled
    <3> QED
      BY <1>1, <2>1, <2>2, <3>2 DEF ResultsOfRoot, Unwritten
  <2>3. CASE NextStage(Root) # "F"
    <3>1. stage'[Root] = "T" => stage[Root] = "T"
      BY <2>1 DEF NextStage
    <3> QED
      BY <1>1, <2>1, <2>3, <3>1 DEF ResultsOfRoot, Unfilled, Unwritten
  <2> QED
    BY <2>2, <2>3
<1>6. CASE GatherValues
  <2>1. stage[Root] = "M" /\ stage' = stage /\ pc'[Root] = "countSweep"
    BY <1>c, <1>t, <1>6 DEF GatherValues, Goto, counters, CountersSound, MidSweep
  <2> QED
    BY <1>1, <2>1 DEF ResultsOfRoot, Unwritten
<1>7. CASE Master /\ ~GatherValues
  <2>1. /\ UNCHANGED <<stage, swCounter, timeseriesBuffer>>
        /\ pc'[Root] = pc[Root] \/ (pc[Root] = "barrier" /\ pc'[Root] = "endSweep")
             \/ pc'[Root] \in {"save", "sweep", "walk", "check", "top", "error"}
    BY <1>c, <1>t, <1>7 DEF Master, BroadcastStop, AfterStopCheck, GatherConfigurations,
       OpenBarrier, GatherControlData, ProposeExchange, ScatterAssignment, GatherCheck, Goto,
       LoopTop, counters, files
  <2>2. pc'[Root] \notin {"saveState", "writeState"}
    BY <1>t, <2>1 DEF Labels
  <2>3. \/ pc'[Root] = pc[Root] \/ pc[Root] = "barrier"
        \/ pc'[Root] \in {"save", "sweep", "walk", "check", "top", "error"}
    BY <2>1
  <2>4. pc'[Root] = "insertValue" => pc[Root] = "insertValue"
    BY <2>1
  <2>5. pc'[Root] \in {"barrier", "inBarrier", "done"} =>
          pc[Root] \in {"barrier", "inBarrier", "done"}
    BY <2>1
  <2>6. pc'[Root] = "endSweep" => pc[Root] \in {"barrier", "endSweep"}
    BY <2>1
  <2> QED
    BY <1>1, <2>1, <2>2, <2>4, <2>5, <2>6 DEF ResultsOfRoot, Unfilled, Unwritten
<1> QED
  BY <1>2, <1>3, <1>4, <1>5, <1>6, <1>7 DEF DriverStep, Workers

LEMMA NextResults ==
  ASSUME SessionInv, ResultsInv, [SessionsNext]_allVars
  PROVE  ResultsInv'
<1>c. Root \in Proc
  BY Constants
<1>1. CASE StartJob
  BY <1>1, StartJobResults
<1>2. CASE KillJob
  <2>1. pc'[Root] = "off" /\ UNCHANGED <<stateFile, rootFile>>
    BY <1>c, <1>2 DEF KillJob, files
  <2> QED
    BY <2>1 DEF ResultsInv, FilesOfResults, Unfilled, Unwritten
<1>3. CASE Rest \/ UNCHANGED allVars
  BY <1>3 DEF Rest, allVars, vars, sessionVars, counters, files, ResultsInv, ResultsOfRoot,
     FilesOfResults, Unfilled, Unwritten
<1>4. ASSUME NEW p \in Proc, ProcessStep(p) PROVE ResultsInv'
  <2>1. CASE p # Root
    BY <1>4, <2>1, OthersResults
  <2>2. CASE p = Root
    <3>1. pc[Root] # "off" /\ ResultsOfRoot /\ FilesOfResults
      BY <1>4, <2>2, StepCounts DEF SessionInv, ResultsInv
    <3> QED
      BY <1>4, <2>2, <3>1, StartingResults, SavingResults, DriverResults DEF ProcessStep, ResultsInv
  <2> QED
    BY <2>1, <2>2
<1> QED
  BY <1>1, <1>2, <1>3, <1>4 DEF SessionsNext

LEMMA SessionsKeepResults == SessionsSpec => []ResultsInv
<1>1. SessionsInit => ResultsInv
  BY Constants DEF SessionsInit, Idle, ResultsInv, FilesOfResults, Unwritten
<1>2. SessionInv /\ ResultsInv /\ [SessionsNext]_allVars => ResultsInv'
  BY NextResults
<1> QED
  BY <1>1, <1>2, SessionsKeepInv, PTL DEF SessionsSpec

-----------------------------------------------------------------------------
(* The root files what is measured under the parameter it was measured at. *)
LEMMA ValuesGrow ==
  ASSUME NEW L, NEW F, NEW D, TypesAmong(L, F, D), GatherValues,
         NEW view, NEW d, NEW kept, ChannelsOf(up, d), InLockstep(view, up, d),
         view[Root] = View(Root, kept)
  PROVE  \A k \in Par : timeseriesBuffer'[k] =
              Append(timeseriesBuffer[k], {[par |-> k, sweep |-> sweepsDone[Root]]})
<1>c. Root \in Proc
  BY Constants
<1>1. PICK at \in [Proc -> SoundPoints] : Standing(at, view) /\ Arriving(at, up, d)
  BY Relative
<1>2. PICK c \in SoundPoints : c = at[Root]
  BY <1>c
<1>3. Shows(Root, c)
  <2>1. View(Root, kept) = Projected(Root, c)
    BY <1>c, <1>1, <1>2 DEF Standing
  <2> QED
    BY <2>1, ShowsIsView
<1>4. /\ c.label = "insertValue" /\ UpOp(c) = "insertValue"
      /\ c.sweeps = sweepsDone[Root] /\ sweepsDone[Root] \in Nat
      /\ current_process_par = c.table /\ c.table[Root] = replica_par[Root]
  <2>1. c.label = "insertValue" /\ c.sweeps = sweepsDone[Root] /\ c.table[Root] = replica_par[Root]
    BY <1>3 DEF Shows, ShowsAs, LabelOf, GatherValues
  <2>2. current_process_par = c.table
    BY <1>3, <2>1 DEF Shows, ShowsAs, LabelOf, GatherValues
  <2>3. sweepsDone[Root] \in Nat
    BY <1>c DEF TypesAmong, ControlAmong
  <2> QED
    BY <2>1, <2>2, <2>3 DEF UpOp, Flushes
<1>5. PICK now \in Tables, sweep \in Nat : now = c.table /\ sweep = sweepsDone[Root]
  BY <1>4, PointFields DEF SoundPoints
<1>6. \A q \in Workers : Head(up[q]).value = [par |-> now[q], sweep |-> sweep]
  <2>1. \A q \in Workers : up[q] # <<>> /\ Head(up[q]).op = "insertValue"
    BY DEF GatherValues, Gathered
  <2>2. \A q \in Workers : Head(up[q]) \in UpSays(q, c)
    BY <1>1, <1>2, <1>4, <2>1 DEF Arriving
  <2> QED
    BY <1>4, <1>5, <2>1, <2>2 DEF UpSays
<1>7. PICK value : value = [p \in Proc |-> IF p = Root THEN Measured(Root) ELSE Head(up[p]).value]
  OBVIOUS
<1>8. \A p \in Proc : value[p] = [par |-> now[p], sweep |-> sweep]
  <2>1. Measured(Root) = [par |-> now[Root], sweep |-> sweep]
    BY <1>4, <1>5 DEF Measured
  <2> QED
    BY <1>6, <1>7, <2>1 DEF Workers
<1>9. \A k \in Par : FiledUnder(k, now, value) = {[par |-> k, sweep |-> sweep]}
  <2>1. PICK index : index = now
    OBVIOUS
  <2>2. \A p \in Proc : index[p] = now[p] /\ value[p] = [par |-> now[p], sweep |-> sweep]
    BY <1>8, <2>1
  <2>3. \A k \in Par : FiledUnder(k, index, value) = {[par |-> k, sweep |-> sweep]}
    BY <2>2, FiledByParameter
  <2> QED
    BY <2>1, <2>3
<1>10. timeseriesBuffer' = [k \in Par |->
         Append(timeseriesBuffer[k], FiledUnder(k, current_process_par, value))]
  BY <1>7 DEF GatherValues, HandleValues
<1> QED
  BY <1>4, <1>5, <1>9, <1>10

(* The time series of every parameter: what is in its file, and what is to *)
(* be appended to it.                                                      *)
AllSeries == [c \in Par |-> SeriesBefore(c) \o timeseriesBuffer[c]]

LEMMA SeriesTypes ==
  ASSUME SessionTypes, NEW c \in Par
  PROVE  /\ seriesFile[c] \in Seq(SUBSET Sample) /\ timeseriesBuffer[c] \in Seq(SUBSET Sample)
         /\ streamFile[c] \in Seq(SUBSET Sample) /\ SeriesBefore(c) \in Seq(SUBSET Sample)
         /\ AllSeries[c] = SeriesBefore(c) \o timeseriesBuffer[c]
<1>1. /\ seriesFile[c] \in Seq(SUBSET Sample) /\ timeseriesBuffer[c] \in Seq(SUBSET Sample)
      /\ streamFile[c] \in Seq(SUBSET Sample)
  BY DEF SessionTypes, TypesAmong, FilesAmong
<1>2. <<>> \in Seq(SUBSET Sample)
  OBVIOUS
<1> QED
  BY <1>1, <1>2 DEF SeriesBefore, AllSeries

LEMMA SaveKeepsSeries ==
  ASSUME SessionTypes, SaveResults
  PROVE  AllSeries' = AllSeries /\ streamFile' = streamFile
<1>1. \A c \in Par : seriesFile'[c] = AllSeries[c] /\ timeseriesBuffer'[c] = <<>>
  BY DEF SaveResults, AllSeries
<1>2. storage' = TRUE /\ streamFile' = streamFile
  BY DEF SaveResults
<1>3. ASSUME NEW c \in Par PROVE seriesFile'[c] \o timeseriesBuffer'[c] = AllSeries[c]
  <2>1. AllSeries[c] \in Seq(SUBSET Sample)
    <3>1. PICK s \in Seq(SUBSET Sample), t \in Seq(SUBSET Sample) :
            s = SeriesBefore(c) /\ t = timeseriesBuffer[c]
      BY SeriesTypes
    <3>2. s \o t \in Seq(SUBSET Sample)
      OBVIOUS
    <3> QED
      BY <3>1, <3>2, SeriesTypes
  <2>2. PICK s \in Seq(SUBSET Sample) : s = AllSeries[c]
    BY <2>1
  <2>3. s \o <<>> = s
    OBVIOUS
  <2> QED
    BY <1>1, <2>2, <2>3
<1>4. AllSeries' = [c \in Par |-> seriesFile'[c] \o timeseriesBuffer'[c]]
  BY <1>2 DEF AllSeries, SeriesBefore
<1>5. AllSeries = [c \in Par |-> AllSeries[c]]
  BY DEF AllSeries
<1> QED
  BY <1>2, <1>3, <1>4, <1>5

LEMMA AppendedToSeries ==
  ASSUME NEW s \in Seq(SUBSET Sample), NEW t \in Seq(SUBSET Sample), NEW x \in SUBSET Sample
  PROVE  s \o Append(t, x) = Append(s \o t, x)
<1> DEFINE left == s \o Append(t, x)
           right == Append(s \o t, x)
<1>0. s \o t \in Seq(SUBSET Sample) /\ Append(t, x) \in Seq(SUBSET Sample)
  OBVIOUS
<1>1. /\ left \in Seq(SUBSET Sample) /\ right \in Seq(SUBSET Sample)
      /\ Len(left) = Len(s) + Len(t) + 1 /\ Len(right) = Len(s) + Len(t) + 1
  BY <1>0
<1>2. ASSUME NEW i \in 1..(Len(s) + Len(t) + 1) PROVE left[i] = right[i]
  <2>1. CASE i <= Len(s)
    BY <1>0, <2>1
  <2>2. CASE i > Len(s) /\ i <= Len(s) + Len(t)
    BY <1>0, <2>2
  <2>3. CASE i = Len(s) + Len(t) + 1
    BY <1>0, <2>3
  <2> QED
    BY <2>1, <2>2, <2>3
<1> HIDE DEF left, right
<1>3. left = right
  BY <1>1, <1>2, SeqEqual
<1> QED
  BY <1>3 DEF left, right

MeasuredAtRoot == DueAtRoot(MeasureInterval)

LEMMA CountedAtRoot ==
  ASSUME SessionInv, pc[Root] # "off"
  PROVE  /\ MidSweep(Root) => stage[Root] = "M"
         /\ stage[Root] = "M" => swCounter[Root] % SaveInterval = SweepsBegun(Root) % SaveInterval
         /\ MeasuredAtRoot \in Nat
<1>c. Root \in Proc
  BY Constants
<1>1. CountersSound(Root)
  BY <1>c DEF SessionInv, SessionCounts
<1>2. MeasuredAtRoot \in Nat
  BY DueAtRootIsNat, Intervals DEF MeasuredAtRoot, SessionInv, SessionTypes
<1> QED
  BY <1>1, <1>2 DEF CountersSound

(* A session starts, and saves, without counting or measuring.             *)
LEMMA StillSteps ==
  ASSUME SessionInv, NEW p \in Proc, ProcessStep(p), ~DriverStep(p) \/ p # Root
  PROVE  /\ MeasuredAtRoot' = MeasuredAtRoot /\ WrittenAtRoot' = WrittenAtRoot
         /\ AllSeries' = AllSeries /\ streamFile' = streamFile
<1>c. Root \in Proc /\ pc \in [Proc -> SessionLabels]
  BY Constants DEF SessionInv, SessionTypes, TypesAmong, ControlAmong
<1>1. CASE p # Root
  <2>1. Untouched(Root)
    BY <1>c, <1>1, SessionUntouched DEF SessionInv
  <2>2. UNCHANGED <<timeseriesBuffer, seriesFile, streamFile, storageFileStarted, storage>>
    BY <1>1, ResultsOfOthers
  <2> QED
    BY <2>1, <2>2 DEF Untouched, MeasuredAtRoot, WrittenAtRoot, DueAtRoot, AllSeries, SeriesBefore
<1>2. CASE p = Root
  <2>1. Starting(Root) \/ Saving(Root)
    BY <1>2 DEF ProcessStep
  <2>2. /\ sweepsDone' = sweepsDone /\ buffered' = buffered
        /\ pc[Root] # "countSweep" /\ pc'[Root] # "countSweep"
    <3>1. CASE Starting(Root)
      BY <1>c, <3>1, EntersLoop DEF Starting, WriteHeader, ScatterLoaded, OpenStreams, Goto,
         Workers, counters
    <3>2. CASE Saving(Root)
      BY <1>c, <3>2 DEF Saving, SaveResults, OpenStateFile, WriteStateFile, AfterSave, Goto,
         counters
    <3> QED
      BY <2>1, <3>1, <3>2
  <2>3. MeasuredAtRoot' = MeasuredAtRoot /\ WrittenAtRoot' = WrittenAtRoot
    BY <2>2 DEF MeasuredAtRoot, WrittenAtRoot, DueAtRoot
  <2>4. AllSeries' = AllSeries /\ streamFile' = streamFile
    <3>1. CASE SaveResults
      BY <3>1, SaveKeepsSeries DEF SessionInv
    <3>2. CASE OpenStateFile(Root) \/ WriteStateFile(Root) \/ Starting(Root)
      <4>1. UNCHANGED <<timeseriesBuffer, seriesFile, streamFile, storageFileStarted, storage>>
        BY <3>2 DEF Starting, WriteHeader, ScatterLoaded, OpenStreams, OpenStateFile,
           WriteStateFile, Workers, files, sessionVars
      <4> QED
        BY <4>1 DEF AllSeries, SeriesBefore
    <3> QED
      BY <2>1, <3>1, <3>2 DEF Saving
  <2> QED
    BY <2>3, <2>4
<1> QED
  BY <1>1, <1>2

(* A value that is due is measured, and goes to the series of the          *)
(* parameter.                                                              *)
LEMMA SeriesSteps ==
  ASSUME StreamsInStep, SessionInv, SessionLockstep, Running, ResultsInv,
         NEW p \in Proc, ProcessStep(p)
  PROVE  \/ MeasuredAtRoot' = MeasuredAtRoot /\ AllSeries' = AllSeries
         \/ /\ MeasuredAtRoot' = MeasuredAtRoot + 1
            /\ \A c \in Par : AllSeries'[c] =
                 Append(AllSeries[c], Entry(c, MeasureInterval, MeasuredAtRoot + 1))
<1>c. Root \in Proc
  BY Constants
<1>t. SessionTypes /\ TypesAmong(SessionLabels, NoState, LoadMessage)
        /\ MeasureInterval \in Nat \ {0}
  BY Intervals DEF SessionInv, SessionTypes
<1>1. CASE ~DriverStep(p) \/ p # Root
  BY <1>1, StillSteps
<1>2. CASE p = Root /\ DriverStep(Root)
  <2>1. Driven(Root) /\ UNCHANGED <<storage, storageFileStarted>>
    BY <1>2 DEF DriverStep, Driven, Counting, sessionVars
  <2>2. SaveInterval % MeasureInterval = 0
    <3>1. PICK n \in Nat : n = SaveInterval
      BY Intervals
    <3>2. n % ConfigInterval = 0
      BY <3>1 DEF StreamsInStep
    <3>3. n % MeasureInterval = 0
      BY <3>2, Intervals, DueOften
    <3> QED
      BY <3>1, <3>3
  <2>3. IF GatherValues /\ swCounter[Root] % MeasureInterval = 0
          THEN /\ MeasuredAtRoot' = MeasuredAtRoot + 1 /\ MeasuredAtRoot \in Nat
               /\ MeasureInterval * (MeasuredAtRoot + 1) - 1 = sweepsDone[Root]
          ELSE MeasuredAtRoot' = MeasuredAtRoot
    <3>1. MeasureInterval % MeasureInterval = 0
      BY Intervals
    <3>2. /\ MidSweep(Root) => stage[Root] = "M"
          /\ stage[Root] = "M" => swCounter[Root] % SaveInterval = SweepsBegun(Root) % SaveInterval
      BY CountedAtRoot DEF Running
    <3> QED
      BY <1>c, <1>t, <2>1, <2>2, <3>1, <3>2, DueSteps DEF MeasuredAtRoot
  <2>4. CASE GatherValues
    <3>1. pc[Root] = "insertValue" /\ seriesFile' = seriesFile
      BY <2>4 DEF GatherValues
    <3>2. swCounter[Root] % MeasureInterval = 0
      BY <3>1 DEF ResultsInv, ResultsOfRoot, Running
    <3>3. SessionViews[Root] = View(Root, SessionKept)
      BY <1>c, <3>1, LoopViews
    <3>4. ChannelsOf(up, SessionNet) /\ InLockstep(SessionViews, up, SessionNet)
      BY <1>t, SessionChannels DEF SessionLockstep
    <3>5. \A k \in Par : timeseriesBuffer'[k] =
            Append(timeseriesBuffer[k], {[par |-> k, sweep |-> sweepsDone[Root]]})
      BY <1>t, <2>4, <3>3, <3>4, ValuesGrow
    <3>6. PICK n \in Nat : n = MeasuredAtRoot
      BY <2>3, <2>4, <3>2
    <3>7. sweepsDone[Root] = (n + 1) * MeasureInterval - 1
      <4>1. MeasureInterval * (n + 1) - 1 = sweepsDone[Root]
        BY <2>3, <2>4, <3>2, <3>6
      <4>2. PICK k \in Nat : k = MeasureInterval
        BY <1>t
      <4>3. k * (n + 1) = (n + 1) * k
        OBVIOUS
      <4> QED
        BY <4>1, <4>2, <4>3
    <3>8. ASSUME NEW c \in Par
          PROVE  AllSeries'[c] = Append(AllSeries[c], Entry(c, MeasureInterval, n + 1))
      <4>1. PICK s \in Seq(SUBSET Sample), t \in Seq(SUBSET Sample) :
              s = SeriesBefore(c) /\ t = timeseriesBuffer[c]
        BY <1>t, SeriesTypes
      <4>2. PICK x \in SUBSET Sample : x = Entry(c, MeasureInterval, n + 1)
        <5>1. Entry(c, MeasureInterval, n + 1) = {[par |-> c, sweep |-> sweepsDone[Root]]}
          BY <3>7 DEF Entry
        <5>2. sweepsDone[Root] \in Nat
          BY <1>c, <1>t DEF TypesAmong, ControlAmong
        <5> QED
          BY <5>1, <5>2 DEF Sample
      <4>3. timeseriesBuffer'[c] = Append(t, x)
        BY <3>5, <3>7, <4>1, <4>2 DEF Entry
      <4>4. AllSeries'[c] = s \o Append(t, x)
        BY <2>1, <3>1, <4>1, <4>3 DEF AllSeries, SeriesBefore
      <4>5. AllSeries[c] = s \o t
        BY <4>1 DEF AllSeries
      <4> QED
        BY <4>2, <4>4, <4>5, AppendedToSeries
    <3> QED
      BY <2>3, <2>4, <3>2, <3>6, <3>8
  <2>5. CASE ~GatherValues
    <3>1. UNCHANGED <<timeseriesBuffer, seriesFile>>
      <4>1. CASE Counting(Root)
        BY <4>1 DEF Counting, SweepThermalization, Sweep, CountSweep, EndSweep, files
      <4>2. CASE Master
        BY <2>5, <4>2 DEF Master, BroadcastStop, GatherConfigurations, OpenBarrier,
           GatherControlData, ProposeExchange, ScatterAssignment, GatherCheck, SendAll, files
      <4> QED
        BY <2>1, <4>1, <4>2 DEF Driven, Workers
    <3>2. AllSeries' = AllSeries
      BY <2>1, <3>1 DEF AllSeries, SeriesBefore
    <3> QED
      BY <2>3, <2>5, <3>2
  <2> QED
    BY <2>4, <2>5
<1> QED
  BY <1>1, <1>2

(* A configuration that is due is written, in its turn.                    *)
LEMMA StreamSteps ==
  ASSUME StreamsInStep, SessionInv, SessionLockstep, Running, NEW p \in Proc, ProcessStep(p)
  PROVE  \/ WrittenAtRoot' = WrittenAtRoot /\ streamFile' = streamFile
         \/ /\ WrittenAtRoot' = WrittenAtRoot + 1 /\ WrittenAtRoot \in Nat
            /\ \A c \in Par : streamFile'[c] =
                 Append(streamFile[c], Entry(c, ConfigInterval, WrittenAtRoot + 1))
<1>c. Root \in Proc
  BY Constants
<1>t. SessionTypes /\ TypesAmong(SessionLabels, NoState, LoadMessage)
  BY DEF SessionInv, SessionTypes
<1>1. CASE ~DriverStep(p) \/ p # Root
  BY <1>1, StillSteps
<1>2. CASE p = Root /\ DriverStep(Root)
  <2>1. Driven(Root)
    BY <1>2 DEF DriverStep, Driven, Counting
  <2>2. /\ MidSweep(Root) => stage[Root] = "M"
        /\ stage[Root] = "M" => swCounter[Root] % SaveInterval = SweepsBegun(Root) % SaveInterval
    BY CountedAtRoot DEF Running
  <2>3. IF GatherConfigurations
          THEN WrittenAtRoot' = WrittenAtRoot + 1
          ELSE WrittenAtRoot' = WrittenAtRoot /\ streamFile' = streamFile
    BY <1>c, <1>t, <2>1, <2>2, WrittenSteps
  <2>4. CASE GatherConfigurations
    <3>1. pc[Root] = "save"
      BY <2>4 DEF GatherConfigurations, Flushing
    <3>2. SessionViews[Root] = View(Root, SessionKept)
      BY <1>c, <3>1, LoopViews
    <3>3. ChannelsOf(up, SessionNet) /\ InLockstep(SessionViews, up, SessionNet)
      BY <1>t, SessionChannels DEF SessionLockstep
    <3>4. /\ WrittenAtRoot \in Nat
          /\ \A k \in Par : streamFile'[k] =
               Append(streamFile[k], {[par |-> k, sweep |-> KeptAt(WrittenAtRoot + 1)]})
      BY <1>t, <2>4, <3>2, <3>3, StreamsGrow
    <3> QED
      BY <2>3, <2>4, <3>4 DEF Entry, KeptAt
  <2>5. CASE ~GatherConfigurations
    BY <2>3, <2>5
  <2> QED
    BY <2>4, <2>5
<1> QED
  BY <1>1, <1>2

-----------------------------------------------------------------------------
(* What was due so far is on record, some of it perhaps twice: in memory   *)
(* and in the files what the root has done, in the files what its state    *)
(* file says that it has done.                                             *)

UpTo(file, c, k, n) == \A i \in 1..n : Recorded(file, c, i * k - 1)
MemoryRecorded ==
  \A c \in Par : /\ UpTo(AllSeries[c], c, MeasureInterval, MeasuredAtRoot)
                 /\ UpTo(streamFile[c], c, ConfigInterval, WrittenAtRoot)
DiskRecorded ==
  ~Unwritten(Root) =>
    \A c \in Par :
      /\ UpTo(seriesFile[c], c, MeasureInterval, stateFile[Root].sweeps \div MeasureInterval)
      /\ UpTo(streamFile[c], c, ConfigInterval, stateFile[Root].sweeps \div ConfigInterval)
RecordedInv == inStep => (pc[Root] # "off" => MemoryRecorded) /\ DiskRecorded

LEMMA RecordedStays ==
  ASSUME NEW s \in Seq(SUBSET Sample), NEW t \in Seq(SUBSET Sample), NEW x \in SUBSET Sample,
         NEW c, NEW w, Recorded(s, c, w)
  PROVE  Recorded(s \o t, c, w) /\ Recorded(Append(s, x), c, w)
<1>1. PICK i \in 1..Len(s) : s[i] = {[par |-> c, sweep |-> w]}
  BY DEF Recorded
<1>2. i \in 1..Len(s \o t) /\ (s \o t)[i] = s[i]
  OBVIOUS
<1>3. i \in 1..Len(Append(s, x)) /\ Append(s, x)[i] = s[i]
  OBVIOUS
<1> QED
  BY <1>1, <1>2, <1>3 DEF Recorded

LEMMA UpToStays ==
  ASSUME NEW s \in Seq(SUBSET Sample), NEW t \in Seq(SUBSET Sample), NEW x \in SUBSET Sample,
         NEW c, NEW k, NEW n, UpTo(s, c, k, n)
  PROVE  UpTo(s \o t, c, k, n) /\ UpTo(Append(s, x), c, k, n)
BY RecordedStays DEF UpTo

LEMMA EntryIsSamples ==
  ASSUME NEW c \in Par, NEW k \in Nat \ {0}, NEW n \in Nat
  PROVE  Entry(c, k, n + 1) \in SUBSET Sample
<1>1. (n + 1) * k - 1 \in Nat
  BY ProductAtLeast
<1>2. PICK w \in Nat : w = (n + 1) * k - 1
  BY <1>1
<1>3. {[par |-> c, sweep |-> w]} \in SUBSET Sample
  BY DEF Sample
<1> QED
  BY <1>2, <1>3 DEF Entry

LEMMA UpToGrows ==
  ASSUME NEW s \in Seq(SUBSET Sample), NEW c \in Par, NEW k \in Nat \ {0}, NEW n \in Nat,
         UpTo(s, c, k, n)
  PROVE  UpTo(Append(s, Entry(c, k, n + 1)), c, k, n + 1)
<1>1. PICK x \in SUBSET Sample : x = Entry(c, k, n + 1)
  BY EntryIsSamples
<1>2. UpTo(Append(s, x), c, k, n)
  BY UpToStays
<1>3. Recorded(Append(s, x), c, (n + 1) * k - 1)
  <2>1. Len(s) + 1 \in 1..Len(Append(s, x)) /\ Append(s, x)[Len(s) + 1] = x
    OBVIOUS
  <2> QED
    BY <1>1, <2>1 DEF Recorded, Entry
<1>4. \A i \in 1..(n + 1) : i \in 1..n \/ i = n + 1
  OBVIOUS
<1> QED
  BY <1>1, <1>2, <1>3, <1>4 DEF UpTo

LEMMA NothingUpToNone ==
  ASSUME NEW s, NEW c, NEW k \in Nat \ {0}
  PROVE  UpTo(s, c, k, 0 \div k) /\ UpTo(s, c, k, 0)
<1>1. 0 \div k = 0
  BY Intervals
<1> QED
  BY <1>1 DEF UpTo

LEMMA StepMemoryRecorded ==
  ASSUME StreamsInStep, SessionInv, SessionLockstep, Running, ResultsInv, MemoryRecorded,
         NEW p \in Proc, ProcessStep(p)
  PROVE  MemoryRecorded'
<1>t. SessionTypes /\ MeasureInterval \in Nat \ {0} /\ ConfigInterval \in Nat \ {0}
  BY Intervals DEF SessionInv
<1>1. ASSUME NEW c \in Par PROVE UpTo(AllSeries'[c], c, MeasureInterval, MeasuredAtRoot')
  <2>1. CASE MeasuredAtRoot' = MeasuredAtRoot /\ AllSeries' = AllSeries
    BY <2>1 DEF MemoryRecorded
  <2>2. CASE /\ MeasuredAtRoot' = MeasuredAtRoot + 1
             /\ \A k \in Par : AllSeries'[k] =
                  Append(AllSeries[k], Entry(k, MeasureInterval, MeasuredAtRoot + 1))
    <3>1. PICK n \in Nat : n = MeasuredAtRoot
      BY CountedAtRoot DEF Running
    <3>2. PICK s \in Seq(SUBSET Sample) : s = AllSeries[c]
      <4>1. PICK a \in Seq(SUBSET Sample), b \in Seq(SUBSET Sample) : AllSeries[c] = a \o b
        BY <1>t, SeriesTypes
      <4>2. a \o b \in Seq(SUBSET Sample)
        OBVIOUS
      <4> QED
        BY <4>1, <4>2
    <3>3. UpTo(s, c, MeasureInterval, n)
      BY <3>1, <3>2 DEF MemoryRecorded
    <3>4. UpTo(Append(s, Entry(c, MeasureInterval, n + 1)), c, MeasureInterval, n + 1)
      BY <1>t, <3>3, UpToGrows
    <3> QED
      BY <2>2, <3>1, <3>2, <3>4
  <2> QED
    BY <2>1, <2>2, SeriesSteps
<1>2. ASSUME NEW c \in Par PROVE UpTo(streamFile'[c], c, ConfigInterval, WrittenAtRoot')
  <2>1. CASE WrittenAtRoot' = WrittenAtRoot /\ streamFile' = streamFile
    BY <2>1 DEF MemoryRecorded
  <2>2. CASE /\ WrittenAtRoot' = WrittenAtRoot + 1 /\ WrittenAtRoot \in Nat
             /\ \A k \in Par : streamFile'[k] =
                  Append(streamFile[k], Entry(k, ConfigInterval, WrittenAtRoot + 1))
    <3>1. PICK n \in Nat : n = WrittenAtRoot
      BY <2>2
    <3>2. PICK s \in Seq(SUBSET Sample) : s = streamFile[c]
      BY <1>t, SeriesTypes
    <3>3. UpTo(s, c, ConfigInterval, n)
      BY <3>1, <3>2 DEF MemoryRecorded
    <3>4. UpTo(Append(s, Entry(c, ConfigInterval, n + 1)), c, ConfigInterval, n + 1)
      BY <1>t, <3>3, UpToGrows
    <3> QED
      BY <2>2, <3>1, <3>2, <3>4
  <2> QED
    BY <2>1, <2>2, StreamSteps
<1> QED
  BY <1>1, <1>2 DEF MemoryRecorded

LEMMA SeriesFileSteps ==
  ASSUME SessionInv, NEW p \in Proc, ProcessStep(p)
  PROVE  SaveResults \/ UNCHANGED <<seriesFile, storage, storageFileStarted>>
<1>1. CASE p # Root
  BY <1>1, ResultsOfOthers
<1>2. CASE Starting(p)
  BY <1>2 DEF Starting, WriteHeader, ScatterLoaded, OpenStreams, HearLoaded, files, sessionVars
<1>3. CASE Saving(p)
  BY <1>3 DEF Saving, OpenStateFile, WriteStateFile, sessionVars
<1>4. CASE p = Root /\ DriverStep(p)
  BY <1>4 DEF DriverStep, SweepThermalization, Sweep, CountSweep, EndSweep, Workers, Master,
     BroadcastStop, GatherValues, GatherConfigurations, OpenBarrier, GatherControlData,
     ProposeExchange, ScatterAssignment, GatherCheck, files, sessionVars
<1> QED
  BY <1>1, <1>2, <1>3, <1>4 DEF ProcessStep

(* No step takes from the files what the state file says is there.         *)
LEMMA FilesKeepRecord ==
  ASSUME StreamsInStep, SessionInv, SessionLockstep, Running, ResultsInv, DiskRecorded,
         NEW p \in Proc, ProcessStep(p), stateFile'[Root] = stateFile[Root]
  PROVE  DiskRecorded'
<1>t. SessionTypes /\ MeasureInterval \in Nat \ {0} /\ ConfigInterval \in Nat \ {0} /\ Root \in Proc
  BY Intervals, Constants DEF SessionInv
<1>0. SUFFICES ASSUME ~Unwritten(Root), NEW c \in Par
               PROVE /\ UpTo(seriesFile'[c], c, MeasureInterval,
                             stateFile[Root].sweeps \div MeasureInterval)
                     /\ UpTo(streamFile'[c], c, ConfigInterval,
                             stateFile[Root].sweeps \div ConfigInterval)
  BY DEF DiskRecorded, Unwritten
<1>1. PICK n, m : /\ n = stateFile[Root].sweeps \div MeasureInterval
                  /\ m = stateFile[Root].sweeps \div ConfigInterval
  OBVIOUS
<1>2. UpTo(seriesFile[c], c, MeasureInterval, n) /\ UpTo(streamFile[c], c, ConfigInterval, m)
  BY <1>0, <1>1 DEF DiskRecorded
<1>3. UpTo(streamFile'[c], c, ConfigInterval, m)
  <2>1. CASE streamFile' = streamFile
    BY <1>2, <2>1
  <2>2. CASE /\ WrittenAtRoot \in Nat
             /\ \A k \in Par : streamFile'[k] =
                  Append(streamFile[k], Entry(k, ConfigInterval, WrittenAtRoot + 1))
    <3>1. PICK i \in Nat : i = WrittenAtRoot
      BY <2>2
    <3>2. PICK x \in SUBSET Sample : x = Entry(c, ConfigInterval, i + 1)
      BY <1>t, EntryIsSamples
    <3>3. PICK s \in Seq(SUBSET Sample) : s = streamFile[c]
      BY <1>t, SeriesTypes
    <3>4. UpTo(Append(s, x), c, ConfigInterval, m)
      BY <1>2, <3>3, UpToStays
    <3> QED
      BY <2>2, <3>1, <3>2, <3>3, <3>4
  <2> QED
    BY <2>1, <2>2, StreamSteps
<1>4. UpTo(seriesFile'[c], c, MeasureInterval, n)
  <2>1. CASE seriesFile' = seriesFile
    BY <1>2, <2>1
  <2>2. CASE SaveResults
    <3>1. CASE stateFile[Root].sweeps = 0
      BY <1>t, <1>1, <3>1, NothingUpToNone
    <3>2. CASE stateFile[Root].sweeps # 0
      <4>1. storageFileStarted
        <5>1. pc[Root] # "off"
          BY <2>2 DEF SaveResults
        <5> QED
          BY <1>0, <3>2, <5>1 DEF ResultsInv, ResultsOfRoot, FilesOfResults
      <4>2. PICK s \in Seq(SUBSET Sample), t \in Seq(SUBSET Sample) :
              s = seriesFile[c] /\ t = timeseriesBuffer[c]
        BY <1>t, SeriesTypes
      <4>3. seriesFile'[c] = s \o t
        BY <2>2, <4>1, <4>2 DEF SaveResults, SeriesBefore
      <4>4. UpTo(s \o t, c, MeasureInterval, n)
        BY <1>2, <4>2, UpToStays
      <4> QED
        BY <4>3, <4>4
    <3> QED
      BY <3>1, <3>2
  <2>3. seriesFile' = seriesFile \/ SaveResults
    BY SeriesFileSteps
  <2> QED
    BY <2>1, <2>2, <2>3
<1> QED
  BY <1>1, <1>3, <1>4

(* What a session loads is on record.                                      *)
LEMMA StartJobRecorded ==
  ASSUME SessionInv, ResultsInv, RecordedInv, StartJob
  PROVE  RecordedInv'
<1>t. /\ SessionTypes /\ Root \in Proc
      /\ MeasureInterval \in Nat \ {0} /\ ConfigInterval \in Nat \ {0}
  BY Intervals, Constants DEF SessionInv
<1>1. /\ seriesFile' = seriesFile /\ streamFile' = streamFile /\ stateFile' = stateFile
      /\ storage' = FALSE /\ storageFileStarted' = LoadedRoot.storageFileStarted
      /\ timeseriesBuffer' = LoadedRoot.timeseriesBuffer
      /\ sweepsDone'[Root] = LoadedState(Root).sweeps /\ buffered'[Root] = <<>>
      /\ pc'[Root] # "countSweep" /\ (inStep' => inStep)
  BY <1>t DEF StartJob
<1>2. /\ MeasuredAtRoot' = LoadedState(Root).sweeps \div MeasureInterval
      /\ WrittenAtRoot' = LoadedState(Root).sweeps \div ConfigInterval
  <2>1. PICK m \in Nat : m = LoadedState(Root).sweeps \div ConfigInterval
    <3>1. LoadedState(Root).sweeps \in Nat
      BY <1>t, FreshTypes DEF SessionTypes, TypesAmong, FilesAmong, LoadedState, Unwritten, State,
         NoState
    <3> QED
      BY <1>t, <3>1, DueIsNat
  <2>2. MeasuredAtRoot' = LoadedState(Root).sweeps \div MeasureInterval
    BY <1>1 DEF MeasuredAtRoot, DueAtRoot
  <2>3. WrittenAtRoot' = LoadedState(Root).sweeps \div ConfigInterval - 0
    BY <1>1 DEF WrittenAtRoot, DueAtRoot
  <2> QED
    BY <2>1, <2>2, <2>3
<1>3. SUFFICES ASSUME inStep' PROVE MemoryRecorded' /\ DiskRecorded'
  BY DEF RecordedInv
<1>4. DiskRecorded
  BY <1>1, <1>3 DEF RecordedInv
<1>5. DiskRecorded'
  BY <1>1, <1>4 DEF DiskRecorded, Unwritten
<1>6. ASSUME NEW c \in Par
      PROVE /\ UpTo(AllSeries'[c], c, MeasureInterval, MeasuredAtRoot')
            /\ UpTo(streamFile'[c], c, ConfigInterval, WrittenAtRoot')
  <2>1. CASE LoadedState(Root).sweeps = 0
    BY <1>t, <1>2, <2>1, NothingUpToNone
  <2>2. CASE LoadedState(Root).sweeps # 0
    <3>1. ~Unwritten(Root) /\ LoadedState(Root) = stateFile[Root] /\ LoadedRoot = rootFile
      BY <2>2 DEF LoadedState, LoadedRoot, FreshState
    <3>2. storageFileStarted' /\ timeseriesBuffer'[c] = <<>>
      BY <1>1, <2>2, <3>1 DEF ResultsInv, FilesOfResults, Unfilled
    <3>3. PICK s \in Seq(SUBSET Sample) : s = seriesFile[c]
      BY <1>t, SeriesTypes
    <3>4. AllSeries'[c] = s \o <<>>
      BY <1>1, <3>2, <3>3 DEF AllSeries, SeriesBefore
    <3>5. s \o <<>> = s
      OBVIOUS
    <3> QED
      BY <1>1, <1>2, <1>4, <3>1, <3>3, <3>4, <3>5 DEF DiskRecorded
  <2> QED
    BY <2>1, <2>2
<1>7. MemoryRecorded'
  BY <1>6 DEF MemoryRecorded
<1> QED
  BY <1>5, <1>7

(* What the root writes into its state file is on record: it has saved the *)
(* results and written the configurations before.                          *)
LEMMA WrittenRecorded ==
  ASSUME SessionInv, ResultsOfRoot, MemoryRecorded, WriteStateFile(Root)
  PROVE  DiskRecorded'
<1>t. /\ SessionTypes /\ Root \in Proc
      /\ MeasureInterval \in Nat \ {0} /\ ConfigInterval \in Nat \ {0}
  BY Intervals, Constants DEF SessionInv
<1>1. /\ seriesFile' = seriesFile /\ streamFile' = streamFile
      /\ stateFile'[Root].sweeps = sweepsDone[Root] /\ pc[Root] = "writeState"
  <2>1. stateFile \in [Proc -> State \cup NoState]
    BY <1>t DEF SessionTypes, TypesAmong, FilesAmong
  <2> QED
    BY <1>t, <2>1 DEF WriteStateFile, CurrentState
<1>2. stage[Root] \in {"T", "M"} /\ (stage[Root] = "T" => sweepsDone[Root] = 0)
  <2>1. CountersSound(Root) /\ stage[Root] \in {"T", "M", "F"}
    BY <1>t, <1>1 DEF SessionInv, SessionCounts, SessionTypes, TypesAmong, ControlAmong
  <2> QED
    BY <1>1, <2>1 DEF CountersSound
<1>3. ASSUME NEW c \in Par
      PROVE /\ UpTo(seriesFile[c], c, MeasureInterval, sweepsDone[Root] \div MeasureInterval)
            /\ UpTo(streamFile[c], c, ConfigInterval, sweepsDone[Root] \div ConfigInterval)
  <2>1. CASE stage[Root] = "T"
    BY <1>t, <1>2, <2>1, NothingUpToNone
  <2>2. CASE stage[Root] = "M"
    <3>1. storageFileStarted /\ buffered[Root] = <<>> /\ timeseriesBuffer[c] = <<>>
      BY <1>1, <2>2 DEF ResultsOfRoot, Unfilled
    <3>2. PICK s \in Seq(SUBSET Sample) : s = seriesFile[c]
      BY <1>t, SeriesTypes
    <3>3. AllSeries[c] = s
      <4>1. AllSeries[c] = s \o <<>>
        BY <3>1, <3>2 DEF AllSeries, SeriesBefore
      <4>2. s \o <<>> = s
        OBVIOUS
      <4> QED
        BY <4>1, <4>2
    <3>4. PICK m \in Nat : m = sweepsDone[Root] \div ConfigInterval
      BY <1>t, DueIsNat DEF SessionTypes, TypesAmong, ControlAmong
    <3>5. MeasuredAtRoot = sweepsDone[Root] \div MeasureInterval /\ WrittenAtRoot = m - 0
      BY <1>1, <3>1, <3>4 DEF MeasuredAtRoot, WrittenAtRoot, DueAtRoot
    <3>6. /\ UpTo(AllSeries[c], c, MeasureInterval, MeasuredAtRoot)
          /\ UpTo(streamFile[c], c, ConfigInterval, WrittenAtRoot)
      BY DEF MemoryRecorded
    <3>7. WrittenAtRoot = m
      BY <3>5
    <3> QED
      BY <3>2, <3>3, <3>4, <3>5, <3>6, <3>7
  <2> QED
    BY <1>2, <2>1, <2>2
<1> QED
  BY <1>1, <1>3 DEF DiskRecorded

LEMMA NextRecorded ==
  ASSUME StreamsInStep, SessionInv, SessionLockstep, ResultsInv, RecordedInv, [SessionsNext]_allVars
  PROVE  RecordedInv'
<1>c. Root \in Proc
  BY Constants
<1>1. CASE StartJob
  BY <1>1, StartJobRecorded
<1>2. CASE KillJob
  <2>1. pc'[Root] = "off" /\ UNCHANGED <<inStep, seriesFile, streamFile, stateFile>>
    BY <1>c, <1>2 DEF KillJob, files
  <2> QED
    BY <2>1 DEF RecordedInv, DiskRecorded, Unwritten
<1>3. CASE Rest \/ UNCHANGED allVars
  <2>1. /\ UNCHANGED <<pc, sweepsDone, buffered, timeseriesBuffer, seriesFile, streamFile,
                       stateFile>>
        /\ UNCHANGED <<storage, storageFileStarted, inStep>>
    BY <1>3 DEF Rest, allVars, vars, sessionVars, counters, files
  <2>2. AllSeries' = AllSeries /\ MeasuredAtRoot' = MeasuredAtRoot /\ WrittenAtRoot' = WrittenAtRoot
    BY <2>1 DEF AllSeries, SeriesBefore, MeasuredAtRoot, WrittenAtRoot, DueAtRoot
  <2> QED
    BY <2>1, <2>2 DEF RecordedInv, MemoryRecorded, DiskRecorded, Unwritten
<1>4. ASSUME NEW p \in Proc, ProcessStep(p) PROVE RecordedInv'
  <2>1. inStep' = inStep /\ (pc[Root] = "off" <=> pc'[Root] = "off")
    BY <1>4, SessionGoesOn
  <2>2. SUFFICES ASSUME inStep PROVE (pc[Root] # "off" => MemoryRecorded') /\ DiskRecorded'
    BY <2>1 DEF RecordedInv
  <2>3. DiskRecorded /\ (pc[Root] # "off" => MemoryRecorded)
    BY <2>2 DEF RecordedInv
  <2>4. CASE pc[Root] # "off"
    <3>1. Running /\ MemoryRecorded /\ ResultsOfRoot
      BY <2>2, <2>3, <2>4 DEF Running, ResultsInv
    <3>2. MemoryRecorded'
      BY <1>4, <3>1, StepMemoryRecorded
    <3>3. CASE stateFile'[Root] = stateFile[Root]
      BY <1>4, <2>3, <3>1, <3>2, <3>3, FilesKeepRecord
    <3>4. CASE stateFile'[Root] # stateFile[Root]
      <4>1. p = Root
        BY <1>c, <1>4, <3>4, OthersKeepTheirOwn DEF SessionInv, OwnControl
      <4>2. stateFile'[Root] = Torn \/ WriteStateFile(Root)
        BY <1>4, <3>4, <4>1, OwnFile DEF SessionInv
      <4>3. DiskRecorded'
        <5>1. CASE stateFile'[Root] = Torn
          BY <5>1 DEF DiskRecorded, Unwritten
        <5>2. CASE WriteStateFile(Root)
          BY <3>1, <5>2, WrittenRecorded
        <5> QED
          BY <4>2, <5>1, <5>2
      <4> QED
        BY <3>2, <4>3
    <3> QED
      BY <3>3, <3>4
  <2>5. CASE pc[Root] = "off"
    <3>1. p # Root
      BY <1>4, <2>5, StepCounts DEF SessionInv
    <3>2. UNCHANGED <<seriesFile, streamFile>> /\ stateFile'[Root] = stateFile[Root]
      BY <1>c, <1>4, <3>1, ResultsOfOthers, OthersKeepTheirOwn DEF SessionInv, OwnControl
    <3> QED
      BY <2>3, <2>5, <3>2 DEF DiskRecorded, Unwritten
  <2> QED
    BY <2>4, <2>5
<1> QED
  BY <1>1, <1>2, <1>3, <1>4 DEF SessionsNext

LEMMA RecordedSweeps ==
  ASSUME SessionInv, RecordedInv
  PROVE  SavedSweepsAreRecorded
<1> SUFFICES ASSUME inStep, ~Unwritten(Root), NEW c \in Par
             PROVE  /\ \A w \in DueUpTo(stateFile[Root].sweeps, MeasureInterval) :
                         Recorded(seriesFile[c], c, w)
                    /\ \A w \in DueUpTo(stateFile[Root].sweeps, ConfigInterval) :
                         Recorded(streamFile[c], c, w)
  BY DEF SavedSweepsAreRecorded
<1> QED
  BY DEF RecordedInv, DiskRecorded, UpTo, DueUpTo

(* Nothing that was saved is lost, however often jobs are killed and       *)
(* started again, as long as they start from files that fit together: what *)
(* the root's state file has done is in the time series and in the         *)
(* configuration streams, under the parameter it was measured at.  The     *)
(* interval between two saves is to be a multiple of that of the streams:  *)
(* otherwise the counter that decides what is due starts anew in between.  *)
THEOREM SavedSweepsAreKept ==
  ASSUME StreamsInStep
  PROVE  SessionsSpec => []SavedSweepsAreRecorded
<1>1. SessionsInit => RecordedInv
  <2> SUFFICES ASSUME SessionsInit PROVE RecordedInv
    OBVIOUS
  <2>1. pc[Root] = "off" /\ Unwritten(Root)
    BY Constants DEF SessionsInit, Idle, Unwritten
  <2> QED
    BY <2>1 DEF RecordedInv, DiskRecorded
<1>2. LockstepInv /\ ResultsInv /\ RecordedInv /\ [SessionsNext]_allVars => RecordedInv'
  BY NextRecorded DEF LockstepInv
<1>3. LockstepInv /\ RecordedInv => SavedSweepsAreRecorded
  BY RecordedSweeps DEF LockstepInv
<1> QED
  BY <1>1, <1>2, <1>3, SessionsKeepLockstep, SessionsKeepResults, PTL DEF SessionsSpec

-----------------------------------------------------------------------------
(* Stopping and resuming: without kills the record is always that of a run *)
(* that was never stopped.                                                 *)

MemoryExact ==
  \A c \in Par : /\ AllSeries[c] = Record(c, MeasureInterval, MeasuredAtRoot)
                 /\ streamFile[c] = Record(c, ConfigInterval, WrittenAtRoot)
                 /\ ~storageFileStarted /\ ~storage => seriesFile[c] = <<>>
NothingYet ==
  /\ sessions = 0
  /\ \A p \in Proc : pc[p] = "off" /\ stateFile[p] = NoFile
  /\ \A c \in Par : seriesFile[c] = <<>> /\ streamFile[c] = <<>> /\ timeseriesBuffer[c] = <<>>
TraceInv ==
  ~wasKilled => inStep /\ IF pc[Root] = "off" THEN NothingYet ELSE MemoryExact

(* The configurations that are due are written or in memory; when run()    *)
(* has returned all of them are written, and all that was done is saved.   *)
LEMMA StreamOfRoot ==
  ASSUME StreamsInStep, SessionInv, SessionLockstep, Running
  PROVE  /\ WrittenAtRoot \in Nat
         /\ pc[Root] = "done" =>
              /\ buffered[Root] = <<>> /\ WrittenAtRoot = sweepsDone[Root] \div ConfigInterval
              /\ ~Unwritten(Root) /\ stateFile[Root].sweeps = sweepsDone[Root]
<1>c. Root \in Proc
  BY Constants
<1>1. PICK at \in [Proc -> SoundPoints] :
        ShowsAs(Root, at[Root], SessionLabel(Root), SessionPar(Root), SessionFile(Root))
  BY <1>c, StandingOfASession
<1>2. PICK c \in SoundPoints : c = at[Root]
  BY <1>c
<1>3. /\ c.label = SessionLabel(Root) /\ c.sweeps = sweepsDone[Root]
      /\ buffered[Root] = OwnAll(Root, c.buffered) /\ SessionFile(Root) = FileOf(Root, c)
      /\ c.buffered \in Seq(Kept) /\ Len(c.buffered) \in Nat /\ StreamSound(c) /\ SaveSound(c)
  BY <1>1, <1>2, PointFields DEF ShowsAs, SoundPoints, Sound
<1>4. Len(buffered[Root]) = Len(c.buffered)
  BY <1>3 DEF OwnAll
<1>5. c.label = "countSweep" <=> pc[Root] = "countSweep"
  BY <1>3, EntersLoop, <1>c DEF SessionLabel, AfterSave, LabelOf
<1>6. Due(c) = DueAtRoot(ConfigInterval) /\ Due(c) \in Nat
  <2>1. Due(c) = DueAtRoot(ConfigInterval)
    BY <1>3, <1>5 DEF Due, DueAtRoot
  <2> QED
    BY <2>1, DueAtRootIsNat, Intervals DEF SessionInv, SessionTypes
<1>7. PICK m \in Nat, l \in Nat : m = Due(c) /\ l = Len(c.buffered)
  BY <1>3, <1>6
<1>8. WrittenAtRoot = m - l /\ l <= m
  BY <1>3, <1>4, <1>6, <1>7 DEF WrittenAtRoot, StreamSound
<1>9. ASSUME pc[Root] = "done"
      PROVE /\ buffered[Root] = <<>> /\ WrittenAtRoot = sweepsDone[Root] \div ConfigInterval
            /\ ~Unwritten(Root) /\ stateFile[Root].sweeps = sweepsDone[Root]
  <2>1. c.label = "done" /\ SessionFile(Root) = stateFile[Root]
    BY <1>3, <1>9 DEF SessionLabel, LabelOf, SessionFile
  <2>2. c.buffered = <<>>
    BY <1>3, <2>1 DEF StreamSound
  <2>3. buffered[Root] = <<>>
    BY <1>3, <2>2 DEF OwnAll
  <2>4. l = 0 /\ m = sweepsDone[Root] \div ConfigInterval
    BY <1>3, <1>7, <2>1, <2>2 DEF Due
  <2>5. c.saves # 0 /\ c.saved.sweeps = sweepsDone[Root]
    BY <1>3, <2>1 DEF SaveSound, JustSaved
  <2>6. stateFile[Root] =
          [therm |-> c.saved.therm, sweeps |-> c.saved.sweeps, counter |-> c.saved.counter,
                           par |-> c.saved.table[Root], ctrl |-> c.saved.table[Root]]
    BY <1>3, <2>1, <2>5 DEF FileOf
  <2>7. stateFile[Root] \in State
    <3>1. c.saved.table \in [Proc -> Par]
      BY PointFields DEF SoundPoints, Tables
    <3>2. c.saved.therm \in Nat /\ c.saved.sweeps \in Nat /\ c.saved.counter \in Nat
      BY PointFields DEF SoundPoints
    <3> QED
      BY <1>c, <2>6, <3>1, <3>2 DEF State
  <2> QED
    BY <1>8, <2>3, <2>4, <2>5, <2>6, <2>7, NoStateIsNone DEF Unwritten
<1> QED
  BY <1>8, <1>9

LEMMA FileAndBuffer ==
  ASSUME SessionTypes, MemoryExact, NEW c \in Par
  PROVE  /\ seriesFile[c] \o timeseriesBuffer[c] = AllSeries[c]
         /\ timeseriesBuffer[c] = <<>> => seriesFile[c] = AllSeries[c]
<1>1. seriesFile[c] = SeriesBefore(c)
  BY DEF MemoryExact, SeriesBefore
<1>2. PICK s \in Seq(SUBSET Sample) : s = seriesFile[c]
  BY SeriesTypes
<1>3. s \o <<>> = s
  OBVIOUS
<1> QED
  BY <1>1, <1>2, <1>3, SeriesTypes

LEMMA StepExact ==
  ASSUME StreamsInStep, SessionInv, SessionLockstep, Running, ResultsInv, MemoryExact,
         NEW p \in Proc, ProcessStep(p)
  PROVE  MemoryExact'
<1>t. MeasureInterval \in Nat \ {0} /\ ConfigInterval \in Nat \ {0}
  BY Intervals
<1>1. ASSUME NEW c \in Par PROVE AllSeries'[c] = Record(c, MeasureInterval, MeasuredAtRoot')
  <2>1. CASE MeasuredAtRoot' = MeasuredAtRoot /\ AllSeries' = AllSeries
    BY <2>1 DEF MemoryExact
  <2>2. CASE /\ MeasuredAtRoot' = MeasuredAtRoot + 1
             /\ \A k \in Par : AllSeries'[k] =
                  Append(AllSeries[k], Entry(k, MeasureInterval, MeasuredAtRoot + 1))
    <3>1. PICK n \in Nat : n = MeasuredAtRoot
      BY CountedAtRoot DEF Running
    <3>2. AllSeries[c] = Record(c, MeasureInterval, n)
      BY <3>1 DEF MemoryExact
    <3>3. Append(Record(c, MeasureInterval, n), Entry(c, MeasureInterval, n + 1)) =
            Record(c, MeasureInterval, n + 1)
      BY <1>t, RecordGrows
    <3> QED
      BY <2>2, <3>1, <3>2, <3>3
  <2> QED
    BY <2>1, <2>2, SeriesSteps
<1>2. ASSUME NEW c \in Par PROVE streamFile'[c] = Record(c, ConfigInterval, WrittenAtRoot')
  <2>1. CASE WrittenAtRoot' = WrittenAtRoot /\ streamFile' = streamFile
    BY <2>1 DEF MemoryExact
  <2>2. CASE /\ WrittenAtRoot' = WrittenAtRoot + 1 /\ WrittenAtRoot \in Nat
             /\ \A k \in Par : streamFile'[k] =
                  Append(streamFile[k], Entry(k, ConfigInterval, WrittenAtRoot + 1))
    <3>1. PICK n \in Nat : n = WrittenAtRoot
      BY <2>2
    <3>2. streamFile[c] = Record(c, ConfigInterval, n)
      BY <3>1 DEF MemoryExact
    <3>3. Append(Record(c, ConfigInterval, n), Entry(c, ConfigInterval, n + 1)) =
            Record(c, ConfigInterval, n + 1)
      BY <1>t, RecordGrows
    <3> QED
      BY <2>2, <3>1, <3>2, <3>3
  <2> QED
    BY <2>1, <2>2, StreamSteps
<1>3. ASSUME NEW c \in Par PROVE ~storageFileStarted' /\ ~storage' => seriesFile'[c] = <<>>
  <2>1. SaveResults => storage'
    BY DEF SaveResults
  <2> QED
    BY <2>1, SeriesFileSteps DEF MemoryExact
<1> QED
  BY <1>1, <1>2, <1>3 DEF MemoryExact

(* The record of the first session starts empty.                           *)
LEMMA FirstStartTrace ==
  ASSUME SessionInv, ~wasKilled, TraceInv, pc[Root] = "off", StartJob
  PROVE  MemoryExact' /\ inStep'
<1>t. Root \in Proc /\ MeasureInterval \in Nat \ {0} /\ ConfigInterval \in Nat \ {0}
  BY Intervals, Constants
<1>1. inStep /\ NothingYet
  BY DEF TraceInv
<1>2. FilesFit /\ Unwritten(Root)
  BY <1>t, <1>1 DEF NothingYet, FilesFit, Unwritten
<1>3. /\ seriesFile' = seriesFile /\ streamFile' = streamFile /\ inStep'
      /\ storage' = FALSE /\ storageFileStarted' = FALSE
      /\ timeseriesBuffer' = [c \in Par |-> <<>>]
      /\ sweepsDone'[Root] = 0 /\ buffered'[Root] = <<>> /\ pc'[Root] # "countSweep"
  BY <1>t, <1>1, <1>2 DEF StartJob, LoadedRoot, FreshRoot, LoadedState, FreshState
<1>4. MeasuredAtRoot' = 0
  BY <1>3, Intervals DEF MeasuredAtRoot, DueAtRoot
<1>5. WrittenAtRoot' = 0
  <2>1. 0 \div ConfigInterval = 0
    BY Intervals
  <2> QED
    BY <1>3, <2>1 DEF WrittenAtRoot, DueAtRoot
<1>6. ASSUME NEW c \in Par
      PROVE  AllSeries'[c] = <<>> /\ streamFile'[c] = <<>> /\ seriesFile'[c] = <<>>
  <2>1. AllSeries'[c] = <<>> \o <<>>
    BY <1>3 DEF AllSeries, SeriesBefore
  <2>2. <<>> \o <<>> = <<>>
    OBVIOUS
  <2> QED
    BY <1>1, <1>3, <2>1, <2>2 DEF NothingYet
<1>7. ASSUME NEW c \in Par
      PROVE  Record(c, MeasureInterval, 0) = <<>> /\ Record(c, ConfigInterval, 0) = <<>>
  BY <1>t, RecordGrows
<1> QED
  BY <1>3, <1>4, <1>5, <1>6, <1>7 DEF MemoryExact

(* A further session goes on where the last one has stopped.               *)
LEMMA ResumedTrace ==
  ASSUME StreamsInStep, SessionInv, SessionLockstep, ResultsInv, ~wasKilled, TraceInv,
         pc[Root] # "off", StartJob
  PROVE  MemoryExact' /\ inStep'
<1>t. /\ SessionTypes /\ Root \in Proc
      /\ MeasureInterval \in Nat \ {0} /\ ConfigInterval \in Nat \ {0}
  BY Intervals, Constants DEF SessionInv
<1>1. inStep /\ MemoryExact /\ Running /\ ResultsOfRoot /\ FilesOfResults
  BY DEF TraceInv, Running, ResultsInv
<1>2. JobOver /\ pc[Root] = "done"
  BY <1>t DEF StartJob, JobOver
<1>3. FilesFit
  <2>1. ~SaveUnderway
    BY <1>2 DEF SaveUnderway, JobOver
  <2> QED
    BY <1>1, <2>1, OnlySavesAreFragileInLockstep DEF OnlySavesAreFragile
<1>4. /\ buffered[Root] = <<>> /\ WrittenAtRoot = sweepsDone[Root] \div ConfigInterval
      /\ WrittenAtRoot \in Nat
      /\ ~Unwritten(Root) /\ stateFile[Root].sweeps = sweepsDone[Root]
  BY <1>1, <1>2, StreamOfRoot
<1>5. MeasuredAtRoot = sweepsDone[Root] \div MeasureInterval
  BY <1>2 DEF MeasuredAtRoot, DueAtRoot
<1>6. /\ seriesFile' = seriesFile /\ streamFile' = streamFile /\ inStep'
      /\ storage' = FALSE /\ storageFileStarted' = rootFile.storageFileStarted
      /\ timeseriesBuffer' = rootFile.timeseriesBuffer
      /\ sweepsDone'[Root] = sweepsDone[Root] /\ buffered'[Root] = <<>> /\ pc'[Root] # "countSweep"
  BY <1>t, <1>1, <1>3, <1>4 DEF StartJob, LoadedRoot, LoadedState
<1>7. MeasuredAtRoot' = MeasuredAtRoot
  BY <1>5, <1>6 DEF MeasuredAtRoot, DueAtRoot
<1>8. WrittenAtRoot' = WrittenAtRoot
  <2>1. WrittenAtRoot' = (sweepsDone[Root] \div ConfigInterval) - 0
    BY <1>6 DEF WrittenAtRoot, DueAtRoot
  <2>2. PICK m \in Nat : m = WrittenAtRoot
    BY <1>4
  <2> QED
    BY <1>4, <2>1, <2>2
<1>9. ASSUME NEW c \in Par
      PROVE  /\ AllSeries'[c] = Record(c, MeasureInterval, MeasuredAtRoot)
             /\ ~storageFileStarted' => seriesFile[c] = <<>>
  <2>1. timeseriesBuffer[c] = <<>> /\ timeseriesBuffer'[c] = <<>>
    BY <1>1, <1>2, <1>4, <1>6 DEF ResultsOfRoot, FilesOfResults, Unfilled
  <2>2. seriesFile[c] = Record(c, MeasureInterval, MeasuredAtRoot)
    BY <1>1, <1>t, <2>1, FileAndBuffer DEF MemoryExact
  <2>3. ASSUME ~storageFileStarted' PROVE MeasuredAtRoot = 0
    <3>1. sweepsDone[Root] = 0
      BY <1>1, <1>4, <1>6, <2>3 DEF FilesOfResults
    <3> QED
      BY <1>5, <3>1, Intervals
  <2>4. Record(c, MeasureInterval, 0) = <<>>
    BY <1>t, RecordGrows
  <2>5. AllSeries'[c] = (IF storageFileStarted' THEN seriesFile[c] ELSE <<>>) \o <<>>
    BY <1>6, <2>1 DEF AllSeries, SeriesBefore
  <2>6. PICK s \in Seq(SUBSET Sample) : s = seriesFile[c]
    BY <1>t, SeriesTypes
  <2>7. s \o <<>> = s /\ <<>> \o <<>> = <<>>
    OBVIOUS
  <2>8. AllSeries'[c] = IF storageFileStarted' THEN seriesFile[c] ELSE <<>>
    BY <2>5, <2>6, <2>7
  <2> QED
    BY <2>2, <2>3, <2>4, <2>8
<1> QED
  BY <1>1, <1>6, <1>7, <1>8, <1>9 DEF MemoryExact

LEMMA NextTrace ==
  ASSUME StreamsInStep, SessionInv, SessionLockstep, ResultsInv, TraceInv, [SessionsNext]_allVars
  PROVE  TraceInv'
<1>c. Root \in Proc
  BY Constants
<1>1. CASE StartJob
  <2>1. wasKilled' = wasKilled /\ pc'[Root] # "off"
    BY <1>c, <1>1 DEF StartJob
  <2> QED
    BY <1>1, <2>1, FirstStartTrace, ResumedTrace DEF TraceInv
<1>2. CASE KillJob
  BY <1>2 DEF KillJob, TraceInv
<1>3. CASE Rest \/ UNCHANGED allVars
  <2>1. /\ UNCHANGED <<pc, sweepsDone, buffered, timeseriesBuffer, seriesFile, streamFile,
                       stateFile>>
        /\ UNCHANGED <<storage, storageFileStarted, inStep, wasKilled, sessions>>
    BY <1>3 DEF Rest, allVars, vars, sessionVars, counters, files
  <2>2. AllSeries' = AllSeries /\ MeasuredAtRoot' = MeasuredAtRoot /\ WrittenAtRoot' = WrittenAtRoot
    BY <2>1 DEF AllSeries, SeriesBefore, MeasuredAtRoot, WrittenAtRoot, DueAtRoot
  <2> QED
    BY <2>1, <2>2 DEF TraceInv, NothingYet, MemoryExact
<1>4. ASSUME NEW p \in Proc, ProcessStep(p) PROVE TraceInv'
  <2>1. UNCHANGED <<wasKilled, inStep>> /\ (pc[Root] = "off" <=> pc'[Root] = "off")
    BY <1>4, SessionGoesOn
  <2>2. SUFFICES ASSUME ~wasKilled PROVE inStep' /\ pc'[Root] # "off" /\ MemoryExact'
    BY <2>1 DEF TraceInv
  <2>3. pc[p] # "off"
    BY <1>4, StepCounts DEF SessionInv
  <2>4. inStep /\ pc[Root] # "off" /\ MemoryExact
    BY <2>2, <2>3 DEF TraceInv, NothingYet
  <2> QED
    BY <1>4, <2>1, <2>4, StepExact DEF Running
<1> QED
  BY <1>1, <1>2, <1>3, <1>4 DEF SessionsNext

LEMMA ExactIsUninterrupted ==
  ASSUME NEW c \in Par, NEW k \in Nat \ {0}, NEW n \in Nat
  PROVE  Uninterrupted(Record(c, k, n), c, k) /\ Len(Record(c, k, n)) = n
BY RecordGrows DEF Uninterrupted, Record, Entry

LEMMA NoTrace ==
  ASSUME StreamsInStep, SessionInv, SessionLockstep, ResultsInv, TraceInv
  PROVE  StoppingLeavesNoTrace
<1>t. /\ SessionTypes /\ Root \in Proc
      /\ MeasureInterval \in Nat \ {0} /\ ConfigInterval \in Nat \ {0}
  BY Intervals, Constants DEF SessionInv
<1> SUFFICES ASSUME ~wasKilled, NEW c \in Par
             PROVE  /\ Uninterrupted(seriesFile[c] \o timeseriesBuffer[c], c, MeasureInterval)
                    /\ Uninterrupted(streamFile[c], c, ConfigInterval)
                    /\ JobOver /\ sessions > 0 =>
                         /\ Len(seriesFile[c]) = sweepsDone[Root] \div MeasureInterval
                         /\ Len(streamFile[c]) = sweepsDone[Root] \div ConfigInterval
  BY DEF StoppingLeavesNoTrace
<1>1. CASE pc[Root] = "off"
  <2>1. NothingYet
    BY <1>1 DEF TraceInv
  <2>2. /\ seriesFile[c] = <<>> /\ timeseriesBuffer[c] = <<>> /\ streamFile[c] = <<>>
        /\ ~(sessions > 0)
    BY <2>1 DEF NothingYet
  <2>3. <<>> \o <<>> = <<>>
    OBVIOUS
  <2>4. /\ Record(c, MeasureInterval, 0) = <<>> /\ Record(c, ConfigInterval, 0) = <<>>
    BY <1>t, RecordGrows
  <2>5. Uninterrupted(<<>>, c, MeasureInterval) /\ Uninterrupted(<<>>, c, ConfigInterval)
    <3>1. 0 \in Nat
      OBVIOUS
    <3>2. Uninterrupted(Record(c, MeasureInterval, 0), c, MeasureInterval)
      BY <1>t, <3>1, ExactIsUninterrupted
    <3>3. Uninterrupted(Record(c, ConfigInterval, 0), c, ConfigInterval)
      BY <1>t, <3>1, ExactIsUninterrupted
    <3> QED
      BY <2>4, <3>2, <3>3
  <2> QED
    BY <2>2, <2>3, <2>5
<1>2. CASE pc[Root] # "off"
  <2>1. MemoryExact /\ Running /\ ResultsOfRoot
    BY <1>2 DEF TraceInv, Running, ResultsInv
  <2>2. PICK m \in Nat, n \in Nat : m = MeasuredAtRoot /\ n = WrittenAtRoot
    BY <1>2, <2>1, CountedAtRoot, StreamOfRoot
  <2>3. /\ seriesFile[c] \o timeseriesBuffer[c] = Record(c, MeasureInterval, m)
        /\ streamFile[c] = Record(c, ConfigInterval, n)
    BY <1>t, <2>1, <2>2, FileAndBuffer DEF MemoryExact
  <2>4. ASSUME JobOver
        PROVE  /\ Len(seriesFile[c]) = sweepsDone[Root] \div MeasureInterval
               /\ Len(streamFile[c]) = sweepsDone[Root] \div ConfigInterval
    <3>1. pc[Root] = "done"
      BY <1>t, <1>2, <2>4 DEF JobOver
    <3>2. m = sweepsDone[Root] \div MeasureInterval
      BY <2>2, <3>1 DEF MeasuredAtRoot, DueAtRoot
    <3>3. n = sweepsDone[Root] \div ConfigInterval
      BY <2>1, <2>2, <3>1, StreamOfRoot
    <3>4. timeseriesBuffer[c] = <<>>
      BY <2>1, <3>1 DEF ResultsOfRoot, Unfilled
    <3>5. seriesFile[c] = Record(c, MeasureInterval, m)
      BY <1>t, <2>1, <2>2, <3>4, FileAndBuffer DEF MemoryExact
    <3>6. Len(Record(c, MeasureInterval, m)) = m /\ Len(Record(c, ConfigInterval, n)) = n
      BY <1>t, ExactIsUninterrupted
    <3> QED
      BY <2>3, <3>2, <3>3, <3>5, <3>6
  <2>5. /\ Uninterrupted(Record(c, MeasureInterval, m), c, MeasureInterval)
        /\ Uninterrupted(Record(c, ConfigInterval, n), c, ConfigInterval)
    BY <1>t, ExactIsUninterrupted
  <2> QED
    BY <2>3, <2>4, <2>5
<1> QED
  BY <1>1, <1>2

(* Without kills a record that was made in several sessions is that of a   *)
(* single one: every value that was due once, in order, under the          *)
(* parameter it was measured at, and nothing is missing when run() has     *)
(* returned everywhere.                                                    *)
THEOREM StoppedSessionsLeaveNoTrace ==
  ASSUME StreamsInStep
  PROVE  SessionsSpec => []StoppingLeavesNoTrace
<1>1. SessionsInit => TraceInv
  BY Constants DEF SessionsInit, Idle, TraceInv, NothingYet
<1>2. LockstepInv /\ ResultsInv /\ TraceInv /\ [SessionsNext]_allVars => TraceInv'
  BY NextTrace DEF LockstepInv
<1>3. LockstepInv /\ ResultsInv /\ TraceInv => StoppingLeavesNoTrace
  BY NoTrace DEF LockstepInv
<1> QED
  BY <1>1, <1>2, <1>3, SessionsKeepLockstep, SessionsKeepResults, PTL DEF SessionsSpec
=============================================================================
