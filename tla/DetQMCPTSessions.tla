-------------------------- MODULE DetQMCPTSessions --------------------------
(***************************************************************************)
(* The parallel driver over several sessions.  When a job is started, each *)
(* process looks for its own state file and decides on its own whether it  *)
(* resumes or starts afresh (mpimaindetqmcptsdwopdim.cpp).  A session ends *)
(* because run() returns, or because the job is killed between two steps.  *)
(*                                                                         *)
(* Within a session the processes take the steps of DetQMCPT; saving is    *)
(* split into the steps a kill can separate.  What is on disk survives,    *)
(* everything else is lost.                                                *)
(***************************************************************************)
EXTENDS DetQMCPT

CONSTANTS
  MayBeKilled,       \* whether jobs may be killed
  MaxSessions,       \* bound on the number of sessions
  Torn               \* the state file was opened but not written

ASSUME SessionsAssumption ==
  /\ MayBeKilled \in BOOLEAN
  /\ MaxSessions \in Nat \ {0}
  /\ Torn \notin [therm : Nat, sweeps : Nat, counter : Nat, par : Nat, ctrl : Nat]
  /\ Torn # NoFile

VARIABLES
  storageFileStarted,  \* root: par_storageFileStarted, the same for all parameters
  storage,             \* root: par_storage, the series files are open
  rootFile,            \* disk: what only the root's state file holds
  streamStart,         \* disk: how the configuration stream of each parameter starts
  sessions,            \* how many sessions were started
  wasKilled,           \* history: some session was killed
  inStep               \* history: every session so far started from fitting files

sessionVars == <<storageFileStarted, storage, rootFile, streamStart,
                 sessions, wasKilled, inStep>>
allVars == <<vars, sessionVars>>

Found(p) == stateFile[p] # NoFile

-----------------------------------------------------------------------------
(* Starting a job *)

(* No process runs. *)
Idle ==
  /\ pc = [p \in Proc |-> "off"] /\ stage = [p \in Proc |-> "F"]
  /\ sweepsDoneThermalization = [p \in Proc |-> 0]
  /\ sweepsDone = [p \in Proc |-> 0] /\ swCounter = [p \in Proc |-> 0]
  /\ exiting = [p \in Proc |-> FALSE]
  /\ local_current_parameter_index = [p \in Proc |-> p]
  /\ replica_par = [p \in Proc |-> p] /\ replica_ctrl = [p \in Proc |-> p]
  /\ buffered = [p \in Proc |-> <<>>]
  /\ current_process_par = [p \in Proc |-> p] /\ current_par_process = [c \in Par |-> c]
  /\ process_control_data_buffer = [p \in Proc |-> p] /\ cpi1 = 0
  /\ es = InitialStatistics
  /\ timeseriesBuffer = [c \in Par |-> <<>>]
  /\ storageFileStarted = FALSE /\ storage = FALSE
  /\ up = [q \in Workers |-> <<>>] /\ down = [q \in Workers |-> <<>>]

SessionsInit ==
  /\ Idle
  /\ seriesFile = [c \in Par |-> <<>>] /\ streamFile = [c \in Par |-> <<>>]
  /\ stateFile = [p \in Proc |-> NoFile] /\ rootFile = NoFile
  /\ streamStart = [c \in Par |-> "absent"]
  /\ sessions = 0 /\ wasKilled = FALSE /\ inStep = TRUE

JobOver == \A p \in Proc : pc[p] \in {"done", "off"}

FreshState(p) == [therm |-> 0, sweeps |-> 0, counter |-> 0, par |-> p, ctrl |-> p]

FreshRoot ==
  [current_process_par |-> [p \in Proc |-> p],
   current_par_process |-> [c \in Par |-> c],
   es |-> InitialStatistics,
   timeseriesBuffer |-> [c \in Par |-> <<>>],
   storageFileStarted |-> FALSE]

(* run() starts with the stage that the counters call for. *)
StageOf(state) ==
  IF state.therm < Thermalization THEN "T"
  ELSE IF state.sweeps < Sweeps THEN "M" ELSE "F"

(* The files fit together: none was written yet, or they hold one moment   *)
(* of one simulation, in which the processes share the parameters as the   *)
(* root's table says and have the control data of theirs.                  *)
FilesFit ==
  \/ \A p \in Proc : stateFile[p] = NoFile
  \/ \A p \in Proc :
       /\ stateFile[p] \notin {NoFile, Torn}
       /\ stateFile[p].therm = stateFile[Root].therm
       /\ stateFile[p].sweeps = stateFile[Root].sweeps
       /\ stateFile[p].counter = stateFile[Root].counter
       /\ stateFile[p].par = rootFile.current_process_par[p]
       /\ stateFile[p].ctrl = rootFile.current_process_par[p]

(* A process without a state file constructs a new simulation, the others  *)
(* read theirs.  (Mistake: a resumed root does not read the tables.)       *)
Unwritten(p) == stateFile[p] \in {NoFile, Torn}
LoadedRootForgotten == FreshRoot
LoadedRoot     == IF Unwritten(Root) THEN FreshRoot ELSE rootFile
LoadedState(p) == IF Unwritten(p) THEN FreshState(p) ELSE stateFile[p]

StartJob ==
  /\ JobOver /\ sessions < MaxSessions
  /\ pc' = [p \in Proc |-> IF stateFile[p] = Torn THEN "unreadable" ELSE "setup"]
  /\ stage' = [p \in Proc |-> StageOf(LoadedState(p))]
  /\ sweepsDoneThermalization' = [p \in Proc |-> LoadedState(p).therm]
  /\ sweepsDone' = [p \in Proc |-> LoadedState(p).sweeps]
  /\ swCounter' = [p \in Proc |-> LoadedState(p).counter]
  /\ exiting' = [p \in Proc |-> FALSE]
  /\ local_current_parameter_index' = [p \in Proc |-> LoadedState(p).par]
  /\ replica_par' = [p \in Proc |-> p]
  /\ replica_ctrl' = [p \in Proc |-> LoadedState(p).ctrl]
  /\ buffered' = [p \in Proc |-> <<>>]
  /\ current_process_par' = LoadedRoot.current_process_par
  /\ current_par_process' = LoadedRoot.current_par_process
  /\ process_control_data_buffer' = [p \in Proc |-> p] /\ cpi1' = 0
  /\ es' = LoadedRoot.es
  /\ timeseriesBuffer' = LoadedRoot.timeseriesBuffer
  /\ storageFileStarted' = LoadedRoot.storageFileStarted /\ storage' = FALSE
  /\ up' = [q \in Workers |-> <<>>] /\ down' = [q \in Workers |-> <<>>]
  /\ sessions' = sessions + 1
  /\ inStep' = (inStep /\ FilesFit)
  /\ UNCHANGED <<seriesFile, streamFile, stateFile, rootFile, streamStart, wasKilled>>

(* run() skips its loop when everything is done already. *)
EnterLoop(p) == IF stage[p] = "F" THEN "done" ELSE LoopTop(p)

(* initFromParameters: each process starts the stream of the parameter of  *)
(* its rank with a header, unless the file exists.                         *)
WriteHeader(p) ==
  /\ pc[p] = "setup"
  /\ streamStart' = [streamStart EXCEPT ![p] = IF @ = "absent" THEN "header" ELSE @]
  /\ Goto(p, IF Found(p) THEN "load" ELSE IF p = Root THEN "open" ELSE EnterLoop(p))
  /\ UNCHANGED <<counters, exiting, replicas, buffered, tables, files, up, down,
                 storageFileStarted, storage, rootFile, sessions, wasKilled, inStep>>

(* loadContents ends with a scatter: the root's table says who simulates   *)
(* what.                                                                   *)
TakeLoadedParameter(p, par) ==
  /\ local_current_parameter_index' = [local_current_parameter_index EXCEPT ![p] = par]
  /\ replica_par' = [replica_par EXCEPT ![p] = par]

ScatterLoaded ==
  /\ pc[Root] = "load"
  /\ SendAll(LAMBDA q : [op |-> "load", par |-> current_process_par[q]])
  /\ TakeLoadedParameter(Root, current_process_par[Root])
  /\ Goto(Root, "open")
  /\ UNCHANGED <<counters, exiting, replica_ctrl, buffered, tables, files, up, sessionVars>>

HearLoaded(q) ==
  /\ pc[q] = "load"
  /\ Told(q, "load")
  /\ TakeLoadedParameter(q, Head(down[q]).par)
  /\ Hear(q)
  /\ Goto(q, EnterLoop(q))
  /\ UNCHANGED <<counters, exiting, replica_ctrl, buffered, tables, files, up, sessionVars>>

(* setup_SaveConfigurations at the root: open all streams for appending.   *)
OpenStreams ==
  /\ pc[Root] = "open"
  /\ streamStart' = [c \in Par |-> IF streamStart[c] = "absent" THEN "bare" ELSE streamStart[c]]
  /\ Goto(Root, EnterLoop(Root))
  /\ UNCHANGED <<counters, exiting, replicas, buffered, tables, files, up, down,
                 storageFileStarted, storage, rootFile, sessions, wasKilled, inStep>>

-----------------------------------------------------------------------------
(* save() in the steps a kill can separate, after the configurations *)

SavesResults(p) == p = Root /\ stage[p] = "M"

(* outputTimeseries: a handler that never wrote creates the file, else it  *)
(* appends.  (Mistake: each session creates the file.)                     *)
SeriesBeforeSession(c) == IF storage THEN seriesFile[c] ELSE <<>>
SeriesBefore(c) == IF storage \/ storageFileStarted THEN seriesFile[c] ELSE <<>>

SaveResults ==
  /\ pc[Root] = "save" /\ ~Flushing(Root) /\ SavesResults(Root)
  /\ seriesFile' = [c \in Par |-> SeriesBefore(c) \o timeseriesBuffer[c]]
  /\ timeseriesBuffer' = [c \in Par |-> <<>>]
  /\ storageFileStarted' = TRUE /\ storage' = TRUE
  /\ Goto(Root, "saveState")
  /\ UNCHANGED <<counters, exiting, replicas, buffered, tables, streamFile, stateFile,
                 up, down, rootFile, streamStart, sessions, wasKilled, inStep>>

OpenStateFile(p) ==
  /\ \/ pc[p] = "saveState"
     \/ pc[p] = "save" /\ ~Flushing(p) /\ ~SavesResults(p)
  /\ stateFile' = [stateFile EXCEPT ![p] = Torn]
  /\ Goto(p, "writeState")
  /\ UNCHANGED <<counters, exiting, replicas, buffered, tables, timeseriesBuffer,
                 seriesFile, streamFile, up, down, sessionVars>>

(* Mistake: whether the series files were started is not written. *)
RootStateUnstarted ==
  [current_process_par |-> current_process_par, current_par_process |-> current_par_process,
   es |-> es, timeseriesBuffer |-> timeseriesBuffer, storageFileStarted |-> FALSE]
RootState ==
  [current_process_par |-> current_process_par, current_par_process |-> current_par_process,
   es |-> es, timeseriesBuffer |-> timeseriesBuffer,
   storageFileStarted |-> storageFileStarted]

WriteStateFile(p) ==
  /\ pc[p] = "writeState"
  /\ stateFile' = [stateFile EXCEPT ![p] = CurrentState(p)]
  /\ rootFile' = IF p = Root THEN RootState ELSE rootFile
  /\ Goto(p, AfterSave(p))
  /\ UNCHANGED <<counters, exiting, replicas, buffered, tables, timeseriesBuffer,
                 seriesFile, streamFile, up, down, storageFileStarted, storage,
                 streamStart, sessions, wasKilled, inStep>>

-----------------------------------------------------------------------------
(* The job is killed, or aborted because a process failed: what was in     *)
(* memory does not matter any more, the next job overwrites all of it.     *)
KillJob ==
  /\ MayBeKilled /\ ~JobOver
  /\ pc' = [p \in Proc |-> "off"]
  /\ wasKilled' = TRUE
  /\ UNCHANGED <<counters, exiting, replicas, buffered, tables, files, up, down,
                 storageFileStarted, storage, rootFile, streamStart, sessions, inStep>>

-----------------------------------------------------------------------------
(* The steps of a process that DetQMCPT describes, all but its save *)
DriverStep(p) ==
  /\ \/ SweepThermalization(p) \/ Sweep(p) \/ CountSweep(p) \/ EndSweep(p)
     \/ p \in Workers /\ Worker(p)
     \/ p = Root /\ Master
  /\ UNCHANGED sessionVars

Saving(p) == (p = Root /\ SaveResults) \/ OpenStateFile(p) \/ WriteStateFile(p)

Starting(p) ==
  \/ WriteHeader(p)
  \/ p = Root /\ (ScatterLoaded \/ OpenStreams)
  \/ p \in Workers /\ HearLoaded(p)

ProcessStep(p) == Starting(p) \/ DriverStep(p) \/ Saving(p)

(* Between jobs nothing need happen. *)
Rest == JobOver /\ UNCHANGED allVars

SessionsNext == StartJob \/ (\E p \in Proc : ProcessStep(p)) \/ KillJob \/ Rest

(* Every process keeps executing; nobody need start or kill a job. *)
SessionsSpec ==
  /\ SessionsInit /\ [][SessionsNext]_allVars
  /\ \A p \in Proc : WF_allVars(ProcessStep(p))

-----------------------------------------------------------------------------
(* Properties *)

(* Every variable stays in its range; what DetQMCPT says of its variables  *)
(* holds but for the labels, the messages and the files of this module.    *)
SessionsTypeOK ==
  /\ pc \in [Proc -> Labels \cup {"off", "setup", "load", "open", "saveState",
                                  "writeState", "unreadable"}]
  /\ stage \in [Proc -> {"T", "M", "F"}] /\ exiting \in [Proc -> BOOLEAN]
  /\ sweepsDoneThermalization \in [Proc -> 0..Thermalization]
  /\ sweepsDone \in [Proc -> 0..Sweeps] /\ swCounter \in [Proc -> 0..SaveInterval]
  /\ ReplicaTypes /\ TableTypes /\ BufferTypes
  /\ timeseriesBuffer \in [Par -> Seq(SUBSET Sample)]
  /\ seriesFile \in [Par -> Seq(SUBSET Sample)] /\ streamFile \in [Par -> Seq(SUBSET Sample)]
  /\ stateFile \in [Proc -> State \cup {NoFile, Torn}]
  /\ up \in [Workers -> Seq(UpMessage)]
  /\ down \in [Workers -> Seq(DownMessage \cup [op : {"load"}, par : Par])]
  /\ {storageFileStarted, storage, wasKilled, inStep} \subseteq BOOLEAN
  /\ streamStart \in [Par -> {"absent", "bare", "header"}]
  /\ sessions \in 0..MaxSessions

(* Sessions that start from files that fit together keep in step, however  *)
(* many there are: the collectives of the start and of the loop match, no  *)
(* consistency check throws, and each process has the parameter that the   *)
(* root's table says, with that parameter's control data.                  *)
ExpectedNow(q) ==
  CASE pc[q] = "load"  -> {"load"}
    [] pc[q] = "setup" -> {"load", "stop_now"}
    [] OTHER           -> ExpectedAt(q)
InTheLoop(p) == pc[p] \notin {"off", "setup", "load", "open", "unreadable"}
StaysInStep ==
  inStep /\ pc[Root] # "off" =>
    /\ NoMismatch /\ TablesInverse
    /\ \A q \in Workers :
         /\ ~(RootWaitsFor(q) /\ (WaitsForRoot(q) \/ (pc[q] = "load" /\ down[q] = <<>>)))
         /\ up[q] # <<>> => Head(up[q]).op \in ExpectedAtRoot
         /\ down[q] # <<>> => Head(down[q]).op \in ExpectedNow(q)
         /\ AllDone => up[q] = <<>> /\ down[q] = <<>>
    /\ \A p \in Proc : InTheLoop(p) => replica_ctrl[p] = replica_par[p] /\ ~LocalMismatch(p)

(* A kill while no save is under way leaves files that fit together, so    *)
(* that only a kill during a save can put sessions out of step.            *)
SaveUnderway ==
  \/ exiting[Root] /\ ~JobOver
  \/ \E p \in Proc : pc[p] \in {"save", "saveState", "writeState", "barrier", "inBarrier"}
OnlySavesAreFragile == inStep /\ pc[Root] # "off" /\ ~SaveUnderway => FilesFit

(* Nothing that was saved is lost: what the root's state file has done is  *)
(* in the time series and in the configuration streams, each value under   *)
(* the parameter it was measured at, after any number of kills.  (Sweeps   *)
(* that are done again after a kill may be there twice.)                   *)
DueUpTo(n, interval) == {i * interval - 1 : i \in 1..(n \div interval)}
Recorded(file, c, sweep) == \E i \in 1..Len(file) : file[i] = {[par |-> c, sweep |-> sweep]}
SavedSweepsAreRecorded ==
  inStep /\ ~Unwritten(Root) =>
    \A c \in Par :
      /\ \A w \in DueUpTo(stateFile[Root].sweeps, MeasureInterval) : Recorded(seriesFile[c], c, w)
      /\ \A w \in DueUpTo(stateFile[Root].sweeps, ConfigInterval) : Recorded(streamFile[c], c, w)

(* Without kills the record of several sessions is that of a single one.   *)
Uninterrupted(file, c, interval) ==
  file = [i \in 1..Len(file) |-> {[par |-> c, sweep |-> i * interval - 1]}]
StoppingLeavesNoTrace ==
  ~wasKilled =>
    \A c \in Par :
      /\ Uninterrupted(seriesFile[c] \o timeseriesBuffer[c], c, MeasureInterval)
      /\ Uninterrupted(streamFile[c], c, ConfigInterval)
      /\ JobOver /\ sessions > 0 =>
           /\ Len(seriesFile[c]) = sweepsDone[Root] \div MeasureInterval
           /\ Len(streamFile[c]) = sweepsDone[Root] \div ConfigInterval

(* Without kills no exchange step is left out or done twice: the save of   *)
(* an iteration precedes its exchange, and yet the save that a stopped     *)
(* session resumes from is the one on exit, made after it.                 *)
ExchangeKeepsPace ==
  ~wasKilled /\ ExchangeInterval # 0 /\ NumProcesses > 1 /\ pc[Root] \in {"top", "sweep"} =>
    es.swapUpProposed[0] =
      (sweepsDoneThermalization[Root] + sweepsDone[Root]) \div ExchangeInterval

(* "setup files for system configuration streams [if files do not exist    *)
(* already] ... Afterwards only the master process will continue to write  *)
(* to these files" (detqmcpt.h:368): a stream starts with its header.      *)
StreamsStartWithHeader ==
  pc[Root] # "off" /\ InTheLoop(Root) => \A c \in Par : streamStart[c] = "header"

(* A session that started in step ends by itself. *)
SessionsEnd == []<>(JobOver \/ ~inStep)
=============================================================================
