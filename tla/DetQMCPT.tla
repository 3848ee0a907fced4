------------------------------ MODULE DetQMCPT ------------------------------
(***************************************************************************)
(* The parallel driver DetQMCPT (src/src/detqmcpt.h): NumProcesses MPI     *)
(* processes, one replica each, run the same sweep loop and meet only in   *)
(* collective calls.  Process 0 is the root: it collects measurements and  *)
(* configurations, decides which replicas exchange their control           *)
(* parameters, and stops the run.                                          *)
(*                                                                         *)
(* Control parameter values are represented by their index in              *)
(* controlParameterValues.  A blob of control data (update statistics and  *)
(* step sizes) is represented by the index of the parameter it was         *)
(* collected for.  A measured value or a system configuration is           *)
(* represented by the parameter its replica had and the sweep it was taken *)
(* in.                                                                     *)
(*                                                                         *)
(* Collectives are those MPI guarantees and no stronger: a gather lets a   *)
(* sender go on at once while the root waits for everyone; a broadcast or  *)
(* scatter lets the root go on at once while a receiver waits for it;      *)
(* messages between two processes are not overtaken.                       *)
(***************************************************************************)
EXTENDS Integers, Sequences, FiniteSets

CONSTANTS
  NumProcesses,      \* size of the MPI world = number of control parameter values
  Thermalization,    \* parsmc.thermalization
  Sweeps,            \* parsmc.sweeps
  MeasureInterval,   \* parsmc.measureInterval
  SaveInterval,      \* parsmc.saveInterval
  ConfigInterval,    \* parsmc.saveConfigurationStreamInterval
  ExchangeInterval,  \* parspt.exchangeInterval, 0: never exchange
  NoFile             \* no state file was written yet

(* What DetQMCParams::check() and initFromParameters let through.          *)
ASSUME ParametersAssumption ==
  /\ NumProcesses \in Nat \ {0}
  /\ Thermalization \in Nat /\ Thermalization % 2 = 0
  /\ Sweeps \in Nat \ {0} /\ Sweeps % 2 = 0
  /\ MeasureInterval \in 1..Sweeps /\ Sweeps % MeasureInterval = 0
  /\ SaveInterval \in 1..Sweeps /\ Sweeps % SaveInterval = 0 /\ SaveInterval % 2 = 0
  /\ ConfigInterval \in Nat \ {0} /\ ConfigInterval % MeasureInterval = 0
  /\ ExchangeInterval \in Nat
  /\ NoFile \notin [therm : Nat, sweeps : Nat, counter : Nat, par : Nat, ctrl : Nat]

Proc    == 0..(NumProcesses - 1)
Root    == 0
Workers == Proc \ {Root}
Par     == 0..(NumProcesses - 1)
MaxPar  == NumProcesses - 1

VARIABLES
  pc,                         \* where each process stands in run()
  stage,                      \* T thermalization, M measurement, F finished
  sweepsDoneThermalization,
  sweepsDone,
  swCounter,
  exiting,                    \* the root told this process to stop
  local_current_parameter_index,
  replica_par,                \* exchange parameter the replica simulates with
  replica_ctrl,               \* control data in the replica
  buffered,                   \* local_bufferedConfigurations with their indices
  current_process_par,        \* root: process -> parameter
  current_par_process,        \* root: parameter -> process
  process_control_data_buffer,\* root: gathered control data
  cpi1,                       \* root: loop index of the walk over parameters
  es,                         \* root: ExchangeStatistics
  timeseriesBuffer,           \* root: par_timeseriesBuffer, in batches of a gather
  seriesFile,                 \* disk: the .series file of each parameter
  streamFile,                 \* disk: configuration stream of each parameter
  stateFile,                  \* disk: state file of each process
  up,                         \* messages on their way from a worker to the root
  down                        \* messages on their way from the root to a worker

counters   == <<stage, sweepsDoneThermalization, sweepsDone, swCounter>>
replicas   == <<local_current_parameter_index, replica_par, replica_ctrl>>
tables     == <<current_process_par, current_par_process,
                process_control_data_buffer, cpi1, es>>
files      == <<timeseriesBuffer, seriesFile, streamFile, stateFile>>
vars == <<pc, counters, exiting, replicas, buffered, tables, files, up, down>>

Sample == [par : Par, sweep : Nat]
BufferedConfiguration == [conf : Sample, cpi : Par]
State  == [therm : Nat, sweeps : Nat, counter : Nat, par : Par, ctrl : Par]
Direction == {"NONE_P", "UP_P", "DOWN_P"}

UpMessage ==
       [op : {"insertValue"}, value : Sample]
  \cup [op : {"configuration"}, item : BufferedConfiguration]
  \cup [op : {"barrier"}]
  \cup [op : {"exchange"}, ctrl : Par]
  \cup [op : {"check"}, par : Par]

DownMessage ==
       [op : {"stop_now"}, value : BOOLEAN]
  \cup [op : {"barrier"}]
  \cup [op : {"assign"}, par : Par, ctrl : Par]

-----------------------------------------------------------------------------
(* Message passing underneath the collectives                              *)

Post(q, m) == up' = [up EXCEPT ![q] = Append(@, m)]

(* The root returns from a gather when the next message of every worker is *)
(* its contribution to that gather.                                        *)
Gathered(op) == \A q \in Workers : up[q] # <<>> /\ Head(up[q]).op = op
TakeGathered == up' = [q \in Workers |-> Tail(up[q])]

SendAll(msg(_)) == down' = [q \in Workers |-> Append(down[q], msg(q))]

Told(q, op)  == down[q] # <<>> /\ Head(down[q]).op = op
Hear(q)      == down' = [down EXCEPT ![q] = Tail(@)]

Goto(p, label) == pc' = [pc EXCEPT ![p] = label]

-----------------------------------------------------------------------------
(* The start of a fresh run *)

FirstStage == IF Thermalization > 0 THEN "T" ELSE "M"

InitialStatistics ==
  [swapUpProposed |-> [c \in Par |-> 0],
   swapUpAccepted |-> [c \in Par |-> 0],
   goingWhere     |-> [p \in Proc |-> "NONE_P"],
   countGoingUp   |-> [c \in Par |-> 0],
   countGoingDown |-> [c \in Par |-> 0]]

Init ==
  /\ pc = [p \in Proc |-> "top"]
  /\ stage = [p \in Proc |-> FirstStage]
  /\ sweepsDoneThermalization = [p \in Proc |-> 0]
  /\ sweepsDone = [p \in Proc |-> 0]
  /\ swCounter = [p \in Proc |-> 0]
  /\ exiting = [p \in Proc |-> FALSE]
  /\ local_current_parameter_index = [p \in Proc |-> p]
  /\ replica_par = [p \in Proc |-> p]
  /\ replica_ctrl = [p \in Proc |-> p]
  /\ buffered = [p \in Proc |-> <<>>]
  /\ current_process_par = [p \in Proc |-> p]
  /\ current_par_process = [c \in Par |-> c]
  /\ process_control_data_buffer = [p \in Proc |-> p]
  /\ cpi1 = 0
  /\ es = InitialStatistics
  /\ timeseriesBuffer = [c \in Par |-> <<>>]
  /\ seriesFile = [c \in Par |-> <<>>]
  /\ streamFile = [c \in Par |-> <<>>]
  /\ stateFile = [p \in Proc |-> NoFile]
  /\ up = [q \in Workers |-> <<>>]
  /\ down = [q \in Workers |-> <<>>]

-----------------------------------------------------------------------------
(* Top of the big loop: every second sweep the root looks at the wall time *)
(* and at the ABORT files and broadcasts whether to stop.                  *)

(* (Mistake: a process that has just saved does not save again.) *)
AfterStopCheckUnlessSaved(p, stop) ==
  /\ exiting' = [exiting EXCEPT ![p] = stop]
  /\ Goto(p, IF ~stop THEN "sweep" ELSE IF swCounter[p] = 0 THEN "done" ELSE "save")
AfterStopCheck(p, stop) ==
  /\ exiting' = [exiting EXCEPT ![p] = stop]
  /\ Goto(p, IF stop THEN "save" ELSE "sweep")

BroadcastStop(stop) ==
  /\ pc[Root] = "top"
  /\ AfterStopCheck(Root, stop)
  /\ SendAll(LAMBDA q : [op |-> "stop_now", value |-> stop])
  /\ UNCHANGED <<counters, replicas, buffered, tables, files, up>>

HearStop(q) ==
  /\ pc[q] = "top"
  /\ Told(q, "stop_now")
  /\ AfterStopCheck(q, Head(down[q]).value)
  /\ Hear(q)
  /\ UNCHANGED <<counters, replicas, buffered, tables, files, up>>

(* Mistake: only the root counts modulo 2, the others ask every time. *)
LoopTopByRank(p) == IF p # Root \/ swCounter[p] % 2 = 0 THEN "top" ELSE "sweep"

(* The next iteration asks only when swCounter is even. *)
LoopTop(p) == IF swCounter[p] % 2 = 0 THEN "top" ELSE "sweep"

-----------------------------------------------------------------------------
(* One sweep *)

SaveDue(p, counter) == counter = SaveInterval

(* case T: count the sweep; save when the interval is full. *)
SweepThermalization(p) ==
  /\ pc[p] = "sweep" /\ stage[p] = "T"
  /\ LET counter == swCounter[p] + 1 IN
       /\ swCounter' = [swCounter EXCEPT ![p] = IF SaveDue(p, counter) THEN 0 ELSE counter]
       /\ Goto(p, IF SaveDue(p, counter) THEN "save" ELSE "endSweep")
  /\ sweepsDoneThermalization' = [sweepsDoneThermalization EXCEPT ![p] = @ + 1]
  /\ UNCHANGED <<stage, sweepsDone, exiting, replicas, buffered, tables, files, up, down>>

(* case M, up to the measurement. *)
Sweep(p) ==
  /\ pc[p] = "sweep" /\ stage[p] = "M"
  /\ LET counter == swCounter[p] + 1 IN
       /\ swCounter' = [swCounter EXCEPT ![p] = counter]
       /\ Goto(p, IF counter % MeasureInterval = 0 THEN "insertValue" ELSE "countSweep")
  /\ UNCHANGED <<stage, sweepsDoneThermalization, sweepsDone, exiting, replicas,
                 buffered, tables, files, up, down>>

Measured(p) == [par |-> replica_par[p], sweep |-> sweepsDone[p]]

(* buffer_local_system_configuration, due every ConfigInterval sweeps. *)
BufferConfiguration(p) ==
  buffered' = IF swCounter[p] % ConfigInterval = 0
                THEN [buffered EXCEPT ![p] =
                       Append(@, [conf |-> Measured(p),
                                  cpi  |-> local_current_parameter_index[p]])]
                ELSE buffered

SendValue(q) ==
  /\ pc[q] = "insertValue"
  /\ Post(q, [op |-> "insertValue", value |-> Measured(q)])
  /\ BufferConfiguration(q)
  /\ Goto(q, "countSweep")
  /\ UNCHANGED <<counters, exiting, replicas, tables, files, down>>

(* What the processes contributed for parameter c; one batch per gather.   *)
FiledUnder(c, index, value) == {value[p] : p \in {r \in Proc : index[r] = c}}

(* Mistake: values are credited by rank, as if replicas never moved.       *)
HandleValuesByRank(value) ==
  timeseriesBuffer' = [c \in Par |->
    Append(timeseriesBuffer[c], FiledUnder(c, [p \in Proc |-> p], value))]

(* handleValues: a process's value is credited to the parameter the root's *)
(* table holds for it.                                                     *)
HandleValues(value) ==
  timeseriesBuffer' = [c \in Par |->
    Append(timeseriesBuffer[c], FiledUnder(c, current_process_par, value))]

GatherValues ==
  /\ pc[Root] = "insertValue"
  /\ Gathered("insertValue")
  /\ HandleValues([p \in Proc |-> IF p = Root THEN Measured(Root) ELSE Head(up[p]).value])
  /\ TakeGathered
  /\ BufferConfiguration(Root)
  /\ Goto(Root, "countSweep")
  /\ UNCHANGED <<counters, exiting, replicas, tables, seriesFile, streamFile,
                 stateFile, down>>

CountSweep(p) ==
  /\ pc[p] = "countSweep"
  /\ sweepsDone' = [sweepsDone EXCEPT ![p] = @ + 1]
  /\ IF SaveDue(p, swCounter[p])
       THEN swCounter' = [swCounter EXCEPT ![p] = 0] /\ Goto(p, "save")
       ELSE UNCHANGED swCounter /\ Goto(p, "endSweep")
  /\ UNCHANGED <<stage, sweepsDoneThermalization, exiting, replicas, buffered,
                 tables, files, up, down>>

-----------------------------------------------------------------------------
(* save() *)

Flushing(p) == pc[p] = "save" /\ stage[p] = "M" /\ buffered[p] # <<>>

PopConfiguration(p) == buffered' = [buffered EXCEPT ![p] = Tail(@)]

SendConfiguration(q) ==
  /\ Flushing(q)
  /\ Post(q, [op |-> "configuration", item |-> Head(buffered[q])])
  /\ PopConfiguration(q)
  /\ UNCHANGED <<pc, counters, exiting, replicas, tables, files, down>>

(* Mistake: configurations are written to the stream of the parameter that *)
(* their process has when they are flushed.                                *)
WriteConfigurationsByTable(item) ==
  streamFile' = [c \in Par |->
    Append(streamFile[c], FiledUnder(c, current_process_par,
                                        [p \in Proc |-> item[p].conf]))]

(* A configuration goes to the stream of the index buffered with it. *)
WriteConfigurations(item) ==
  streamFile' = [c \in Par |->
    Append(streamFile[c], FiledUnder(c, [p \in Proc |-> item[p].cpi],
                                        [p \in Proc |-> item[p].conf]))]

GatherConfigurations ==
  /\ Flushing(Root)
  /\ Gathered("configuration")
  /\ WriteConfigurations([p \in Proc |-> IF p = Root THEN Head(buffered[Root])
                                                     ELSE Head(up[p]).item])
  /\ TakeGathered
  /\ PopConfiguration(Root)
  /\ UNCHANGED <<pc, counters, exiting, replicas, tables, timeseriesBuffer,
                 seriesFile, stateFile, down>>

CurrentState(p) ==
  [therm |-> sweepsDoneThermalization[p], sweeps |-> sweepsDone[p],
   counter |-> swCounter[p], par |-> local_current_parameter_index[p],
   ctrl |-> replica_ctrl[p]]

(* outputTimeseries at the root, in the measurement stage only. *)
OutputTimeseries(p) ==
  IF p = Root /\ stage[p] = "M"
    THEN /\ seriesFile' = [c \in Par |-> seriesFile[c] \o timeseriesBuffer[c]]
         /\ timeseriesBuffer' = [c \in Par |-> <<>>]
    ELSE UNCHANGED <<seriesFile, timeseriesBuffer>>

(* A process that was told to stop leaves run() at once, the others meet   *)
(* at a barrier.  (Mistakes: a save that is not the last one starts over;  *)
(* there is no barrier.)                                                   *)
AfterSaveUnmet(p)     == IF exiting[p] THEN "done" ELSE "endSweep"
AfterSaveAgain(p)     == IF exiting[p] THEN "done" ELSE "save"
AfterSave(p)          == IF exiting[p] THEN "done" ELSE "barrier"

(* saveResults and saveState *)
Save(p) ==
  /\ pc[p] = "save" /\ ~Flushing(p)
  /\ OutputTimeseries(p)
  /\ stateFile' = [stateFile EXCEPT ![p] = CurrentState(p)]
  /\ Goto(p, AfterSave(p))
  /\ UNCHANGED <<counters, exiting, replicas, buffered, tables, streamFile, up, down>>

EnterBarrier(q) ==
  /\ pc[q] = "barrier"
  /\ Post(q, [op |-> "barrier"])
  /\ Goto(q, "inBarrier")
  /\ UNCHANGED <<counters, exiting, replicas, buffered, tables, files, down>>

OpenBarrier ==
  /\ pc[Root] = "barrier"
  /\ Gathered("barrier")
  /\ TakeGathered
  /\ SendAll(LAMBDA q : [op |-> "barrier"])
  /\ Goto(Root, "endSweep")
  /\ UNCHANGED <<counters, exiting, replicas, buffered, tables, files>>

LeaveBarrier(q) ==
  /\ pc[q] = "inBarrier"
  /\ Told(q, "barrier")
  /\ Hear(q)
  /\ Goto(q, "endSweep")
  /\ UNCHANGED <<counters, exiting, replicas, buffered, tables, files, up>>

-----------------------------------------------------------------------------
(* The end of the iteration: a full stage gives way to the next one, and   *)
(* unless that is F the replicas may exchange and are checked.             *)

NextStage(p) ==
  CASE stage[p] = "T" /\ sweepsDoneThermalization[p] = Thermalization -> "M"
    [] stage[p] = "M" /\ sweepsDone[p] = Sweeps -> "F"
    [] OTHER -> stage[p]

ExchangeDue(p) ==
  /\ ExchangeInterval # 0
  /\ (sweepsDone[p] + sweepsDoneThermalization[p]) % ExchangeInterval = 0

(* swCounter starts anew with a stage.  (Mistake: it runs on.) *)
CounterKept(p)     == swCounter[p]
CounterOfStage(p)  == IF NextStage(p) # stage[p] THEN 0 ELSE swCounter[p]

EndSweep(p) ==
  /\ pc[p] = "endSweep"
  /\ stage' = [stage EXCEPT ![p] = NextStage(p)]
  /\ swCounter' = [swCounter EXCEPT ![p] = CounterOfStage(p)]
  /\ Goto(p, IF NextStage(p) = "F" THEN "done"
             ELSE IF ExchangeDue(p) THEN "exchange" ELSE "check")
  /\ UNCHANGED <<sweepsDoneThermalization, sweepsDone, exiting, replicas, buffered,
                 tables, files, up, down>>

-----------------------------------------------------------------------------
(* replicaExchangeStep *)

(* The gathers of control data and of the exchange action follow each      *)
(* other without a change of state in between: one message stands for both.*)
SendControlData(q) ==
  /\ pc[q] = "exchange"
  /\ Post(q, [op |-> "exchange", ctrl |-> replica_ctrl[q]])
  /\ Goto(q, "assign")
  /\ UNCHANGED <<counters, exiting, replicas, buffered, tables, files, down>>

(* The direction histograms, updated before any exchange is proposed. *)
NewDirection(p) ==
  IF current_process_par[p] = MaxPar THEN "DOWN_P"
  ELSE IF current_process_par[p] = 0 THEN "UP_P"
  ELSE es.goingWhere[p]

(* Mistake: the histograms are indexed by the process.                     *)
HeadedThereByProcess(c, direction) ==
  {p \in Proc : p = c /\ NewDirection(p) = direction}
HeadedThere(c, direction) ==
  {p \in Proc : current_process_par[p] = c /\ NewDirection(p) = direction}

UpdateHistograms ==
  es' = [es EXCEPT
    !.goingWhere = [p \in Proc |-> NewDirection(p)],
    !.countGoingUp = [c \in Par |-> @[c] + Cardinality(HeadedThere(c, "UP_P"))],
    !.countGoingDown = [c \in Par |-> @[c] + Cardinality(HeadedThere(c, "DOWN_P"))]]

GatherControlData ==
  /\ pc[Root] = "exchange"
  /\ Gathered("exchange")
  /\ process_control_data_buffer' =
       [p \in Proc |-> IF p = Root THEN replica_ctrl[Root] ELSE Head(up[p]).ctrl]
  /\ TakeGathered
  /\ UpdateHistograms
  /\ cpi1' = 0
  /\ Goto(Root, "walk")
  /\ UNCHANGED <<counters, exiting, replicas, buffered, current_process_par,
                 current_par_process, files, down>>

(* Mistake: exchanging without keeping the first entry. *)
Overwritten(f, p, q) == [f EXCEPT ![p] = f[q]]

(* f with the entries of p and q exchanged *)
Exchanged(f, p, q) == [f EXCEPT ![p] = f[q], ![q] = f[p]]

(* The replicas at parameters c and c + 1 change places.  (Mistake: the    *)
(* control data stay with the processes.)                                  *)
SwapTablesOnly(c) ==
  LET indexProc1 == current_par_process[c]
      indexProc2 == current_par_process[c + 1]
  IN  /\ current_process_par' =
           [current_process_par EXCEPT ![indexProc1] = c + 1, ![indexProc2] = c]
      /\ current_par_process' = Exchanged(current_par_process, c, c + 1)
      /\ UNCHANGED process_control_data_buffer
SwapReplicas(c) ==
  LET indexProc1 == current_par_process[c]
      indexProc2 == current_par_process[c + 1]
  IN  /\ current_process_par' =
           [current_process_par EXCEPT ![indexProc1] = c + 1, ![indexProc2] = c]
      /\ current_par_process' = Exchanged(current_par_process, c, c + 1)
      /\ process_control_data_buffer' =
           Exchanged(process_control_data_buffer, indexProc1, indexProc2)

CountProposal(c, accept) ==
  es' = [es EXCEPT !.swapUpProposed[c] = @ + 1,
                   !.swapUpAccepted[c] = IF accept THEN @ + 1 ELSE @]

(* Mistake: the walk starts at the upper end of the ladder.                *)
ProposeExchangeDownwards(accept) ==
  /\ pc[Root] = "walk" /\ cpi1 < NumProcesses - 1
  /\ IF accept
       THEN SwapReplicas(MaxPar - 1 - cpi1)
       ELSE UNCHANGED <<current_process_par, current_par_process,
                        process_control_data_buffer>>
  /\ CountProposal(MaxPar - 1 - cpi1, accept)
  /\ cpi1' = cpi1 + 1
  /\ UNCHANGED <<pc, counters, exiting, replicas, buffered, files, up, down>>

(* The walk proposes to exchange the replicas at cpi1 and cpi1 + 1; the    *)
(* draw of the random number decides.                                      *)
ProposeExchange(accept) ==
  /\ pc[Root] = "walk" /\ cpi1 < NumProcesses - 1
  /\ IF accept
       THEN SwapReplicas(cpi1)
       ELSE UNCHANGED <<current_process_par, current_par_process,
                        process_control_data_buffer>>
  /\ CountProposal(cpi1, accept)
  /\ cpi1' = cpi1 + 1
  /\ UNCHANGED <<pc, counters, exiting, replicas, buffered, files, up, down>>

(* Mistakes: the replica keeps its old control data; the process keeps its *)
(* old index; indices are counted from 1.                                  *)
TakeParameterOnly(p, par, ctrl) ==
  /\ replica_par' = [replica_par EXCEPT ![p] = par]
  /\ local_current_parameter_index' = [local_current_parameter_index EXCEPT ![p] = par]
  /\ UNCHANGED replica_ctrl
KeepIndex(p, par, ctrl) ==
  /\ replica_par' = [replica_par EXCEPT ![p] = par]
  /\ UNCHANGED local_current_parameter_index
  /\ replica_ctrl' = [replica_ctrl EXCEPT ![p] = ctrl]
TakeAssignmentFromOne(p, par, ctrl) ==
  /\ replica_par' = [replica_par EXCEPT ![p] = par + 1]
  /\ local_current_parameter_index' = [local_current_parameter_index EXCEPT ![p] = par + 1]
  /\ replica_ctrl' = [replica_ctrl EXCEPT ![p] = ctrl]

TakeAssignment(p, par, ctrl) ==
  /\ replica_par' = [replica_par EXCEPT ![p] = par]
  /\ local_current_parameter_index' = [local_current_parameter_index EXCEPT ![p] = par]
  /\ replica_ctrl' = [replica_ctrl EXCEPT ![p] = ctrl]

(* The scatters of parameter index and control data, also one message.     *)
ScatterAssignment ==
  /\ pc[Root] = "walk" /\ cpi1 = NumProcesses - 1
  /\ SendAll(LAMBDA q : [op |-> "assign", par |-> current_process_par[q],
                         ctrl |-> process_control_data_buffer[q]])
  /\ TakeAssignment(Root, current_process_par[Root], process_control_data_buffer[Root])
  /\ Goto(Root, "check")
  /\ UNCHANGED <<counters, exiting, buffered, tables, files, up>>

HearAssignment(q) ==
  /\ pc[q] = "assign"
  /\ Told(q, "assign")
  /\ TakeAssignment(q, Head(down[q]).par, Head(down[q]).ctrl)
  /\ Hear(q)
  /\ Goto(q, "check")
  /\ UNCHANGED <<counters, exiting, buffered, tables, files, up>>

-----------------------------------------------------------------------------
(* replicaExchangeConsistencyCheck: "error" is the thrown GeneralError.    *)

LocalMismatch(p) == replica_par[p] # local_current_parameter_index[p]

SendCheck(q) ==
  /\ pc[q] = "check"
  /\ IF LocalMismatch(q)
       THEN Goto(q, "error") /\ UNCHANGED up
       ELSE /\ Goto(q, LoopTop(q))
            /\ Post(q, [op |-> "check", par |-> replica_par[q]])
  /\ UNCHANGED <<counters, exiting, replicas, buffered, tables, files, down>>

GatherCheck ==
  /\ pc[Root] = "check"
  /\ IF LocalMismatch(Root)
       THEN Goto(Root, "error") /\ UNCHANGED up
       ELSE /\ Gathered("check")
            /\ TakeGathered
            /\ Goto(Root, IF /\ replica_par[Root] = current_process_par[Root]
                             /\ \A q \in Workers : Head(up[q]).par = current_process_par[q]
                            THEN LoopTop(Root) ELSE "error")
  /\ UNCHANGED <<counters, exiting, replicas, buffered, tables, files, down>>

-----------------------------------------------------------------------------
Worker(q) ==
  \/ HearStop(q) \/ SendValue(q) \/ SendConfiguration(q)
  \/ EnterBarrier(q) \/ LeaveBarrier(q)
  \/ SendControlData(q) \/ HearAssignment(q) \/ SendCheck(q)

Master ==
  \/ \E stop \in BOOLEAN : BroadcastStop(stop)
  \/ GatherValues \/ GatherConfigurations \/ OpenBarrier
  \/ GatherControlData
  \/ \E accept \in BOOLEAN : ProposeExchange(accept)
  \/ ScatterAssignment \/ GatherCheck

Local(p) == SweepThermalization(p) \/ Sweep(p) \/ CountSweep(p) \/ Save(p) \/ EndSweep(p)

AllDone == \A p \in Proc : pc[p] = "done"

(* run() has returned everywhere. *)
Terminated == AllDone /\ UNCHANGED vars

Next ==
  \/ \E p \in Proc : Local(p)
  \/ \E q \in Workers : Worker(q)
  \/ Master
  \/ Terminated

(* Every process keeps executing: nothing in run() waits except for a      *)
(* collective.                                                             *)
Fairness ==
  /\ \A p \in Proc : WF_vars(Local(p))
  /\ \A q \in Workers : WF_vars(Worker(q))
  /\ WF_vars(Master)

Spec == Init /\ [][Next]_vars /\ Fairness

-----------------------------------------------------------------------------
(* Properties *)

Labels == {"top", "sweep", "insertValue", "countSweep", "save", "barrier",
           "inBarrier", "endSweep", "exchange", "walk", "assign", "check",
           "error", "done"}

Statistics ==
  [swapUpProposed : [Par -> Nat], swapUpAccepted : [Par -> Nat],
   goingWhere : [Proc -> Direction],
   countGoingUp : [Par -> Nat], countGoingDown : [Par -> Nat]]

(* Every variable stays in its range. *)
ControlTypes ==
  /\ pc \in [Proc -> Labels]
  /\ stage \in [Proc -> {"T", "M", "F"}]
  /\ sweepsDoneThermalization \in [Proc -> Nat]
  /\ sweepsDone \in [Proc -> Nat]
  /\ swCounter \in [Proc -> Nat]
  /\ exiting \in [Proc -> BOOLEAN]
ReplicaTypes ==
  /\ local_current_parameter_index \in [Proc -> Par]
  /\ replica_par \in [Proc -> Par]
  /\ replica_ctrl \in [Proc -> Par]
TableTypes ==
  /\ current_process_par \in [Proc -> Par]
  /\ current_par_process \in [Par -> Proc]
  /\ process_control_data_buffer \in [Proc -> Par]
  /\ cpi1 \in Par
  /\ es \in Statistics
FileTypes ==
  /\ timeseriesBuffer \in [Par -> Seq(SUBSET Sample)]
  /\ seriesFile \in [Par -> Seq(SUBSET Sample)]
  /\ streamFile \in [Par -> Seq(SUBSET Sample)]
  /\ stateFile \in [Proc -> State \cup {NoFile}]
BufferTypes == buffered \in [Proc -> Seq(BufferedConfiguration)]
ChannelTypes ==
  /\ up \in [Workers -> Seq(UpMessage)]
  /\ down \in [Workers -> Seq(DownMessage)]
TypeOK == /\ ControlTypes /\ ReplicaTypes /\ TableTypes
          /\ FileTypes /\ BufferTypes /\ ChannelTypes

(* current_process_par and current_par_process ("the reverse association", *)
(* detqmcpt.h:141) are inverse to each other at every moment of the walk,  *)
(* so that no parameter is simulated twice and none is lost.               *)
TablesInverse ==
  /\ \A p \in Proc : current_par_process[current_process_par[p]] = p
  /\ \A c \in Par : current_process_par[current_par_process[c]] = c

(* replicaExchangeConsistencyCheck never throws: neither "local_current_   *)
(* parameter_index mismatch!" nor "Exchange parameter value mismatch!".    *)
NoMismatch == \A p \in Proc : pc[p] # "error"

(* Control data stays with its parameter: a replica adjusts its step sizes *)
(* with data collected at the parameter it simulates, and while the root   *)
(* walks, its buffer is permuted along with the table.                     *)
ControlDataFollowsParameter ==
  /\ \A p \in Proc : replica_ctrl[p] = replica_par[p]
  /\ pc[Root] = "walk" => process_control_data_buffer = current_process_par

(* Why these hold: the inductive invariant of the exchange.  A worker that *)
(* has contributed to an exchange sends nothing until it has its new       *)
(* parameter, so the root walks with all channels empty; an assignment on  *)
(* its way, and a check on its way, carry what the root's table says.      *)
IsAssignment(m) == m.op = "assign"
Pending(q) == \E i \in 1..Len(down[q]) : IsAssignment(down[q][i])
WalkInv ==
  IF pc[Root] = "walk"
    THEN /\ process_control_data_buffer = current_process_par
         /\ \A q \in Workers : up[q] = <<>> /\ pc[q] = "assign" /\ ~Pending(q)
    ELSE /\ replica_par[Root] = current_process_par[Root]
         /\ \A q \in Workers : ~Pending(q) => replica_par[q] = current_process_par[q]
ReplicaInv ==
  \A p \in Proc : replica_ctrl[p] = replica_par[p] /\ ~LocalMismatch(p)
DownInv(q) ==
  \A i \in 1..Len(down[q]) : IsAssignment(down[q][i]) =>
    /\ pc[q] = "assign"
    /\ down[q][i].par = current_process_par[q] /\ down[q][i].ctrl = current_process_par[q]
    /\ \A j \in 1..Len(down[q]) : IsAssignment(down[q][j]) => j = i
UpInv(q) ==
  \A i \in 1..Len(up[q]) :
    /\ up[q][i].op = "check" => up[q][i].par = current_process_par[q]
    /\ up[q][i].op = "exchange" =>
         /\ i = Len(up[q]) /\ pc[q] = "assign" /\ ~Pending(q)
         /\ up[q][i].ctrl = replica_ctrl[q]
ExchangeInv ==
  /\ TablesInverse /\ NoMismatch /\ ReplicaInv /\ WalkInv
  /\ \A q \in Workers : DownInv(q) /\ UpInv(q)

(* The processes decide on their own, from their own counters, which       *)
(* collective is next, and always decide alike: messages arrive for the    *)
(* collective their receiver is in, the root and a worker never wait for   *)
(* each other, and nothing is left unheard.                                *)
ExpectedAtRoot ==
  CASE pc[Root] = "insertValue" -> {"insertValue"}
    [] Flushing(Root)           -> {"configuration"}
    [] pc[Root] = "barrier"     -> {"barrier"}
    [] pc[Root] = "exchange"    -> {"exchange"}
    [] pc[Root] = "check"       -> {"check"}
    [] OTHER -> {"insertValue", "configuration", "barrier", "exchange", "check"}
ExpectedAt(q) ==
  CASE pc[q] = "top"       -> {"stop_now"}
    [] pc[q] = "inBarrier" -> {"barrier"}
    [] pc[q] = "assign"    -> {"assign"}
    [] OTHER -> {"stop_now", "barrier", "assign"}
RootWaitsFor(q) ==
  /\ pc[Root] \in {"insertValue", "barrier", "exchange", "check"} \/ Flushing(Root)
  /\ up[q] = <<>>
WaitsForRoot(q) == pc[q] \in {"top", "inBarrier", "assign"} /\ down[q] = <<>>
CollectivesMatch ==
  \A q \in Workers :
    /\ ~(RootWaitsFor(q) /\ WaitsForRoot(q))
    /\ up[q] # <<>> => Head(up[q]).op \in ExpectedAtRoot
    /\ down[q] # <<>> => Head(down[q]).op \in ExpectedAt(q)
    /\ AllDone => up[q] = <<>> /\ down[q] = <<>>

(* What is credited to a parameter was measured at it: the driver is an    *)
(* implementation of the ensemble that ReplicaEnsemble describes.  The     *)
(* root's table says who simulates what, and the series of a parameter is  *)
(* what is on disk followed by what still is in memory.                    *)
Ensemble == INSTANCE ReplicaEnsemble WITH
  owner  <- current_par_process,
  series <- [c \in Par |-> seriesFile[c] \o timeseriesBuffer[c]]
ImplementsEnsemble == Ensemble!Spec

(* The configuration streams: each holds a configuration of its parameter  *)
(* per due sweep, in order, although replicas moved on between buffering   *)
(* and writing.                                                            *)
StreamsComplete ==
  /\ \A c \in Par : streamFile[c] =
       [i \in 1..Len(streamFile[c]) |-> {[par |-> c, sweep |-> i * ConfigInterval - 1]}]
  /\ AllDone => \A c \in Par : Len(streamFile[c]) = sweepsDone[Root] \div ConfigInterval

(* When run() returns everywhere the series on disk are complete too: the  *)
(* last save covers the last measurement.                                  *)
ResultsSaved ==
  AllDone => /\ \A c \in Par : timeseriesBuffer[c] = <<>>
             /\ \A p \in Proc : /\ stateFile[p].sweeps = sweepsDone[p]
                                 /\ stateFile[p].therm = sweepsDoneThermalization[p]

(* Checkpoints are coherent: a process only sweeps on from a checkpoint    *)
(* when the state file of every other process is as recent, and the files  *)
(* of a checkpoint hold each parameter, with its control data, once.  (The *)
(* save on exit is exempt while it lasts: it may rewrite the files of the  *)
(* last checkpoint, at the same sweep, after an exchange.)                 *)
Progress(p)   == sweepsDoneThermalization[p] + sweepsDone[p]
Checkpoint(p) == IF stateFile[p] = NoFile THEN 0 ELSE stateFile[p].therm + stateFile[p].sweeps
NobodyOutrunsACheckpoint ==
  \A p, q \in Proc : Checkpoint(p) > Checkpoint(q) => Progress(p) = Checkpoint(p)
FilesFitTogether ==
  /\ {stateFile[p].par : p \in Proc} = Par
  /\ \A p \in Proc : /\ stateFile[p].ctrl = stateFile[p].par
                      /\ stateFile[p].counter % 2 = 0
CheckpointsCoherent ==
  /\ NobodyOutrunsACheckpoint
  /\ /\ AllDone \/ ~exiting[Root]
     /\ \A p \in Proc : stateFile[p] # NoFile /\ Checkpoint(p) = Checkpoint(Root)
     => FilesFitTogether

(* The walk goes upwards, so one exchange step can carry a replica up by   *)
(* many parameters but down by one at most.                                *)
DownByOneAtMost ==
  [][\A p \in Proc : replica_par'[p] >= replica_par[p] - 1]_vars

(* The exchange statistics count what happened, whichever end of the       *)
(* ladder a direction is named after: a step proposes every neighbouring   *)
(* pair once and counts one replica at the lower end, and since a replica  *)
(* comes down by one at most, those that are counted as coming from the    *)
(* upper end leave no gap on their way.                                    *)
NoGapBelowTop(count) ==
  count[MaxPar] > 0 => \A c, d \in Par : c <= d /\ count[c] > 0 => count[d] > 0
StatisticsSound ==
  /\ NoGapBelowTop(es.countGoingUp) /\ NoGapBelowTop(es.countGoingDown)
  /\ \A c \in Par : es.swapUpAccepted[c] <= es.swapUpProposed[c]
  /\ es.swapUpProposed[MaxPar] = 0
  /\ pc[Root] # "walk" => \A c \in Par \ {MaxPar} :
       es.swapUpProposed[c] = es.countGoingUp[0] + es.countGoingDown[0]

(* par_countGoingUp "at each attempted parameter swap: if replica at       *)
(* current parameter has visited parMax last (and not parMin) increase"    *)
(* (detqmcpt.h:160).  A replica that is at parMax has just visited it.     *)
GoingUpComesFromTheTop == pc[Root] = "walk" => es.countGoingUp[MaxPar] > 0

(* run() returns on every process.                                         *)
Termination == <>AllDone
=============================================================================
