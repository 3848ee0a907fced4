--------------------------- MODULE DetQMCPT_proofs ---------------------------
(***************************************************************************)
(* Proofs about DetQMCPT, for every number of processes and every setting  *)
(* of the intervals: types, that the results of a run are saved, that the  *)
(* replica exchange is consistent, and what its statistics count.          *)
(***************************************************************************)
EXTENDS DetQMCPT, IntervalArithmetic, FiniteSetTheorems, SequenceTheorems, TLAPS

(* What the constants give: process 0 exists, sets of processes are finite.*)
LEMMA Constants ==
  /\ NumProcesses \in Nat \ {0} /\ Root \in Proc /\ Workers \subseteq Proc
  /\ Proc = Par /\ Proc \subseteq Int /\ MaxPar \in Par
  /\ \A S \in SUBSET Proc : Cardinality(S) \in Nat
<1>1. NumProcesses \in Nat \ {0}
  BY ParametersAssumption
<1>2. IsFiniteSet(Proc)
  BY <1>1, FS_Interval DEF Proc
<1>3. \A S \in SUBSET Proc : Cardinality(S) \in Nat
  BY <1>2, FS_Subset, FS_CardinalityType
<1> QED
  BY <1>1, <1>3 DEF Proc, Par, Root, Workers, MaxPar

LEMMA InitialTypes == Init => TypeOK
<1> SUFFICES ASSUME Init PROVE TypeOK
  OBVIOUS
<1> USE Constants DEF Init
<1>1. ControlTypes
  BY DEF ControlTypes, Labels, FirstStage
<1>2. ReplicaTypes /\ BufferTypes
  BY DEF ReplicaTypes, BufferTypes
<1>3. TableTypes
  <2>1. es \in Statistics
    BY DEF InitialStatistics, Statistics, Direction
  <2> QED
    BY <2>1 DEF TableTypes, Proc, Par
<1>4. FileTypes
  BY DEF FileTypes
<1>5. ChannelTypes
  BY DEF ChannelTypes
<1> QED
  BY <1>1, <1>2, <1>3, <1>4, <1>5 DEF TypeOK

(* What the driver's steps keep in range when processes may also be at     *)
(* other labels than those of run(), read other files and hear other       *)
(* messages: several sessions of the driver take the same steps.           *)
ControlAmong(L) ==
  /\ Labels \subseteq L /\ pc \in [Proc -> L]
  /\ stage \in [Proc -> {"T", "M", "F"}]
  /\ sweepsDoneThermalization \in [Proc -> Nat]
  /\ sweepsDone \in [Proc -> Nat]
  /\ swCounter \in [Proc -> Nat]
  /\ exiting \in [Proc -> BOOLEAN]
FilesAmong(F) ==
  /\ timeseriesBuffer \in [Par -> Seq(SUBSET Sample)]
  /\ seriesFile \in [Par -> Seq(SUBSET Sample)]
  /\ streamFile \in [Par -> Seq(SUBSET Sample)]
  /\ stateFile \in [Proc -> State \cup F]
ChannelsAmong(D) ==
  /\ \A m \in D : m.op \notin {"stop_now", "barrier", "assign"}
  /\ up \in [Workers -> Seq(UpMessage)]
  /\ down \in [Workers -> Seq(DownMessage \cup D)]
TypesAmong(L, F, D) == /\ ControlAmong(L) /\ ReplicaTypes /\ TableTypes
                       /\ FilesAmong(F) /\ BufferTypes /\ ChannelsAmong(D)

LEMMA TypesOfARun ==
  /\ TypeOK <=> TypesAmong(Labels, {NoFile}, {})
  /\ TypeOK' <=> TypesAmong(Labels, {NoFile}, {})'
BY DEF TypeOK, TypesAmong, ControlTypes, ControlAmong, FileTypes, FilesAmong,
   ChannelTypes, ChannelsAmong

(* A contribution that arrived carries the field its collective asks for.  *)
LEMMA ArrivedTypes ==
  ASSUME NEW D, ChannelsAmong(D), NEW op, Gathered(op), NEW q \in Workers
  PROVE  /\ up[q] \in Seq(UpMessage) /\ up[q] # <<>>
         /\ Head(up[q]) \in UpMessage /\ Tail(up[q]) \in Seq(UpMessage)
         /\ op = "insertValue" => Head(up[q]).value \in Sample
         /\ op = "configuration" => Head(up[q]).item \in BufferedConfiguration
         /\ op = "exchange" => Head(up[q]).ctrl \in Par
         /\ op = "check" => Head(up[q]).par \in Par
<1>1. up[q] \in Seq(UpMessage) /\ up[q] # <<>> /\ Head(up[q]).op = op
  BY DEF ChannelsAmong, Gathered
<1>2. Head(up[q]) \in UpMessage /\ Tail(up[q]) \in Seq(UpMessage)
  BY <1>1
<1> QED
  BY <1>1, <1>2 DEF UpMessage

LEMMA ToldTypes ==
  ASSUME NEW D, ChannelsAmong(D), NEW q \in Workers, NEW op, Told(q, op)
  PROVE  /\ down[q] \in Seq(DownMessage \cup D) /\ down[q] # <<>>
         /\ Tail(down[q]) \in Seq(DownMessage \cup D)
         /\ op = "stop_now" => Head(down[q]).value \in BOOLEAN
         /\ op = "assign" => Head(down[q]).par \in Par /\ Head(down[q]).ctrl \in Par
<1>1. down[q] \in Seq(DownMessage \cup D) /\ down[q] # <<>> /\ Head(down[q]).op = op
  BY DEF ChannelsAmong, Told
<1>2. Head(down[q]) \in DownMessage \cup D /\ Tail(down[q]) \in Seq(DownMessage \cup D)
  BY <1>1
<1>3. op \in {"stop_now", "assign"} => Head(down[q]) \in DownMessage
  BY <1>1, <1>2 DEF ChannelsAmong
<1> QED
  BY <1>1, <1>2, <1>3 DEF DownMessage

LEMMA LocalTypes ==
  ASSUME NEW L, NEW F, NEW D, TypesAmong(L, F, D), NEW p \in Proc, Local(p)
  PROVE  TypesAmong(L, F, D)'
<1> USE Constants
<1> USE DEF Goto, Labels
<1>t. ControlAmong(L) /\ ReplicaTypes /\ TableTypes /\ FilesAmong(F) /\ BufferTypes
        /\ ChannelsAmong(D)
  BY DEF TypesAmong
<1>c. ControlAmong(L)'
  <2>1. CASE SweepThermalization(p)
    BY <1>t, <2>1 DEF SweepThermalization, ControlAmong
  <2>2. CASE Sweep(p)
    BY <1>t, <2>2 DEF Sweep, ControlAmong
  <2>3. CASE CountSweep(p)
    BY <1>t, <2>3 DEF CountSweep, ControlAmong
  <2>4. CASE Save(p)
    BY <1>t, <2>4 DEF Save, AfterSave, counters, ControlAmong
  <2>5. CASE EndSweep(p)
    <3>1. NextStage(p) \in {"T", "M", "F"}
      BY <1>t DEF NextStage, ControlAmong
    <3> QED
      BY <1>t, <2>5, <3>1 DEF EndSweep, CounterOfStage, ControlAmong
  <2> QED
    BY <2>1, <2>2, <2>3, <2>4, <2>5 DEF Local
<1>f. FilesAmong(F)'
  <2>1. CASE Save(p)
    <3>1. CurrentState(p) \in State
      BY <1>t DEF CurrentState, State, ControlAmong, ReplicaTypes
    <3>a. \A c \in Par : seriesFile[c] \o timeseriesBuffer[c] \in Seq(SUBSET Sample)
      BY <1>t, ConcatProperties DEF FilesAmong
    <3>b. \A c \in Par : <<>> \in Seq(SUBSET Sample)
      OBVIOUS
    <3>2. seriesFile' \in [Par -> Seq(SUBSET Sample)]
            /\ timeseriesBuffer' \in [Par -> Seq(SUBSET Sample)]
      BY <1>t, <2>1, <3>a, <3>b DEF Save, OutputTimeseries, FilesAmong
    <3> QED
      BY <1>t, <2>1, <3>1, <3>2 DEF Save, FilesAmong
  <2>2. CASE ~Save(p)
    BY <1>t, <2>2 DEF Local, SweepThermalization, Sweep, CountSweep, EndSweep, files, FilesAmong
  <2> QED
    BY <2>1, <2>2
<1>r. UNCHANGED <<replicas, tables, buffered, up, down>>
  BY DEF Local, SweepThermalization, Sweep, CountSweep, Save, AfterSave, EndSweep
<1> QED
  BY <1>t, <1>c, <1>f, <1>r DEF TypesAmong, ReplicaTypes, TableTypes, BufferTypes, ChannelsAmong,
     replicas, tables

(* A post appends one more message of the right kind.                      *)
LEMMA PostTypes ==
  ASSUME NEW D, ChannelsAmong(D), NEW q \in Workers, NEW m \in UpMessage, Post(q, m)
  PROVE  up' \in [Workers -> Seq(UpMessage)]
<1>1. Append(up[q], m) \in Seq(UpMessage)
  BY DEF ChannelsAmong
<1> QED
  BY <1>1 DEF ChannelsAmong, Post

LEMMA HearTypes ==
  ASSUME NEW D, ChannelsAmong(D), NEW q \in Workers, NEW op, Told(q, op), Hear(q)
  PROVE  down' \in [Workers -> Seq(DownMessage \cup D)]
BY ToldTypes DEF ChannelsAmong, Hear

LEMMA BufferingTypes ==
  ASSUME NEW L, ControlAmong(L), ReplicaTypes, BufferTypes, NEW p \in Proc
  PROVE  /\ Measured(p) \in Sample
         /\ BufferConfiguration(p) => BufferTypes'
         /\ Flushing(p) => Head(buffered[p]) \in BufferedConfiguration
         /\ Flushing(p) /\ PopConfiguration(p) => BufferTypes'
<1>1. Measured(p) \in Sample
  BY DEF Measured, Sample, ControlAmong, ReplicaTypes
<1>2. [conf |-> Measured(p), cpi |-> local_current_parameter_index[p]] \in BufferedConfiguration
  BY <1>1 DEF BufferedConfiguration, ReplicaTypes
<1>3. buffered[p] \in Seq(BufferedConfiguration)
  BY DEF BufferTypes
<1>4. Append(buffered[p], [conf |-> Measured(p), cpi |-> local_current_parameter_index[p]])
        \in Seq(BufferedConfiguration)
  BY <1>2, <1>3
<1>5. BufferConfiguration(p) => BufferTypes'
  BY <1>4 DEF BufferConfiguration, BufferTypes
<1>6. Flushing(p) => /\ Head(buffered[p]) \in BufferedConfiguration
                     /\ Tail(buffered[p]) \in Seq(BufferedConfiguration)
  BY <1>3 DEF Flushing
<1> QED
  BY <1>1, <1>5, <1>6 DEF PopConfiguration, BufferTypes

LEMMA AssignmentTypes ==
  ASSUME ReplicaTypes, NEW p \in Proc, NEW c \in Par, NEW d \in Par, TakeAssignment(p, c, d)
  PROVE  ReplicaTypes'
BY DEF ReplicaTypes, TakeAssignment

LEMMA WorkerTypes ==
  ASSUME NEW L, NEW F, NEW D, TypesAmong(L, F, D), NEW q \in Workers, Worker(q)
  PROVE  TypesAmong(L, F, D)'
<1> USE Constants
<1> USE DEF Goto, Labels
<1>t. ControlAmong(L) /\ ReplicaTypes /\ TableTypes /\ FilesAmong(F) /\ BufferTypes
        /\ ChannelsAmong(D)
  BY DEF TypesAmong
<1>q. q \in Proc
  OBVIOUS
<1>c. UNCHANGED <<counters, tables, files>>
  BY DEF Worker, HearStop, SendValue, SendConfiguration, EnterBarrier, LeaveBarrier,
     SendControlData, HearAssignment, SendCheck
<1>u. TableTypes' /\ FilesAmong(F)'
  BY <1>t, <1>c DEF tables, files, TableTypes, FilesAmong
<1> USE DEF counters
<1>1. CASE HearStop(q)
  <2>1. down' \in [Workers -> Seq(DownMessage \cup D)] /\ Head(down[q]).value \in BOOLEAN
    BY <1>t, <1>1, HearTypes, ToldTypes DEF HearStop
  <2>2. ControlAmong(L)'
    BY <1>t, <1>1, <2>1 DEF HearStop, AfterStopCheck, ControlAmong
  <2> QED
    BY <1>t, <1>u, <1>1, <2>1, <2>2
       DEF HearStop, replicas, TypesAmong, ReplicaTypes, BufferTypes, ChannelsAmong
<1>2. CASE SendValue(q)
  <2>1. BufferTypes' /\ Measured(q) \in Sample
    BY <1>t, <1>q, <1>2, BufferingTypes DEF SendValue
  <2>2. [op |-> "insertValue", value |-> Measured(q)] \in UpMessage
    BY <2>1 DEF UpMessage
  <2>3. up' \in [Workers -> Seq(UpMessage)]
    BY <1>t, <1>2, <2>2, PostTypes DEF SendValue
  <2> QED
    BY <1>t, <1>u, <1>2, <2>1, <2>3
       DEF SendValue, replicas, TypesAmong, ControlAmong, ReplicaTypes, ChannelsAmong
<1>3. CASE SendConfiguration(q)
  <2>1. BufferTypes' /\ Head(buffered[q]) \in BufferedConfiguration
    BY <1>t, <1>q, <1>3, BufferingTypes DEF SendConfiguration
  <2>2. [op |-> "configuration", item |-> Head(buffered[q])] \in UpMessage
    BY <2>1 DEF UpMessage
  <2>3. up' \in [Workers -> Seq(UpMessage)]
    BY <1>t, <1>3, <2>2, PostTypes DEF SendConfiguration
  <2> QED
    BY <1>t, <1>u, <1>3, <2>1, <2>3
       DEF SendConfiguration, replicas, TypesAmong, ControlAmong, ReplicaTypes, ChannelsAmong
<1>4. CASE EnterBarrier(q)
  <2>1. [op |-> "barrier"] \in UpMessage
    BY DEF UpMessage
  <2>2. up' \in [Workers -> Seq(UpMessage)]
    BY <1>t, <1>4, <2>1, PostTypes DEF EnterBarrier
  <2> QED
    BY <1>t, <1>u, <1>4, <2>2
       DEF EnterBarrier, replicas, TypesAmong, ControlAmong, ReplicaTypes, BufferTypes,
          ChannelsAmong
<1>5. CASE LeaveBarrier(q)
  <2>1. down' \in [Workers -> Seq(DownMessage \cup D)]
    BY <1>t, <1>5, HearTypes DEF LeaveBarrier
  <2> QED
    BY <1>t, <1>u, <1>5, <2>1
       DEF LeaveBarrier, replicas, TypesAmong, ControlAmong, ReplicaTypes, BufferTypes,
          ChannelsAmong
<1>6. CASE SendControlData(q)
  <2>1. [op |-> "exchange", ctrl |-> replica_ctrl[q]] \in UpMessage
    BY <1>t DEF UpMessage, ReplicaTypes
  <2>2. up' \in [Workers -> Seq(UpMessage)]
    BY <1>t, <1>6, <2>1, PostTypes DEF SendControlData
  <2> QED
    BY <1>t, <1>u, <1>6, <2>2
       DEF SendControlData, replicas, TypesAmong, ControlAmong, ReplicaTypes, BufferTypes,
          ChannelsAmong
<1>7. CASE HearAssignment(q)
  <2>1. /\ down' \in [Workers -> Seq(DownMessage \cup D)]
        /\ Head(down[q]).par \in Par /\ Head(down[q]).ctrl \in Par
    BY <1>t, <1>7, HearTypes, ToldTypes DEF HearAssignment
  <2>2. ReplicaTypes'
    BY <1>t, <1>7, <1>q, <2>1, AssignmentTypes DEF HearAssignment
  <2> QED
    BY <1>t, <1>u, <1>7, <2>1, <2>2
       DEF HearAssignment, TypesAmong, ControlAmong, BufferTypes, ChannelsAmong
<1>8. CASE SendCheck(q)
  <2>1. [op |-> "check", par |-> replica_par[q]] \in UpMessage
    BY <1>t DEF UpMessage, ReplicaTypes
  <2>2. up' \in [Workers -> Seq(UpMessage)]
    BY <1>t, <1>8, <2>1, PostTypes DEF SendCheck, ChannelsAmong
  <2>3. ControlAmong(L)'
    <3>1. PICK label \in {"top", "sweep", "error"} : pc' = [pc EXCEPT ![q] = label]
      BY <1>8 DEF SendCheck, LoopTop
    <3> QED
      BY <1>t, <1>8, <3>1 DEF SendCheck, ControlAmong
  <2> QED
    BY <1>t, <1>u, <1>8, <2>2, <2>3
       DEF SendCheck, replicas, TypesAmong, ReplicaTypes, BufferTypes, ChannelsAmong
<1> QED
  BY <1>1, <1>2, <1>3, <1>4, <1>5, <1>6, <1>7, <1>8 DEF Worker

LEMMA TakeGatheredTypes ==
  ASSUME NEW D, ChannelsAmong(D), NEW op, Gathered(op), TakeGathered
  PROVE  up' \in [Workers -> Seq(UpMessage)]
BY ArrivedTypes DEF TakeGathered

LEMMA FilingTypes ==
  ASSUME NEW index, NEW value \in [Proc -> Sample], NEW c \in Par, NEW s \in Seq(SUBSET Sample)
  PROVE  Append(s, FiledUnder(c, index, value)) \in Seq(SUBSET Sample)
<1>1. FiledUnder(c, index, value) \in SUBSET Sample
  BY DEF FiledUnder
<1> QED
  BY <1>1

(* The histograms count processes, of which there are finitely many.       *)
LEMMA HistogramTypes ==
  ASSUME TableTypes, UpdateHistograms
  PROVE  es' \in Statistics
<1> USE Constants
<1>1. \A c \in Par : \A d \in Direction : Cardinality(HeadedThere(c, d)) \in Nat
  BY DEF HeadedThere
<1>2. \A p \in Proc : NewDirection(p) \in Direction
  BY DEF NewDirection, TableTypes, Statistics, Direction
<1>3. \A c \in Par : /\ es.countGoingUp[c] + Cardinality(HeadedThere(c, "UP_P")) \in Nat
                     /\ es.countGoingDown[c] + Cardinality(HeadedThere(c, "DOWN_P")) \in Nat
  BY <1>1 DEF TableTypes, Statistics, Direction
<1> DEFINE up2   == [c \in Par |-> es.countGoingUp[c] + Cardinality(HeadedThere(c, "UP_P"))]
           down2 == [c \in Par |-> es.countGoingDown[c] + Cardinality(HeadedThere(c, "DOWN_P"))]
<1>4. es' = [es EXCEPT !.goingWhere = [p \in Proc |-> NewDirection(p)],
                       !.countGoingUp = up2, !.countGoingDown = down2]
  BY DEF UpdateHistograms, TableTypes, Statistics
<1>5. up2 \in [Par -> Nat] /\ down2 \in [Par -> Nat]
  BY <1>3
<1> HIDE DEF up2, down2
<1> QED
  BY <1>2, <1>4, <1>5 DEF TableTypes, Statistics

LEMMA ProposalTypes ==
  ASSUME TableTypes, NEW accept \in BOOLEAN, ProposeExchange(accept)
  PROVE  TableTypes'
<1> USE Constants
<1>1. cpi1 \in Par /\ cpi1 + 1 \in Par
  BY DEF TableTypes, ProposeExchange, Par
<1>2. cpi1' \in Par
  BY <1>1 DEF ProposeExchange
<1>3. /\ current_process_par' \in [Proc -> Par]
      /\ current_par_process' \in [Par -> Proc]
      /\ process_control_data_buffer' \in [Proc -> Par]
  <2>1. CASE accept
    <3> DEFINE p1 == current_par_process[cpi1]
               p2 == current_par_process[cpi1 + 1]
    <3>1. p1 \in Proc /\ p2 \in Proc
      BY <1>1 DEF TableTypes
    <3>2. /\ current_process_par' = [current_process_par EXCEPT ![p1] = cpi1 + 1, ![p2] = cpi1]
          /\ current_par_process' = [current_par_process EXCEPT ![cpi1] = p2, ![cpi1 + 1] = p1]
          /\ process_control_data_buffer' =
               [process_control_data_buffer EXCEPT ![p1] = process_control_data_buffer[p2],
                                                   ![p2] = process_control_data_buffer[p1]]
      BY <2>1 DEF ProposeExchange, SwapReplicas, Exchanged
    <3> HIDE DEF p1, p2
    <3> QED
      BY <1>1, <3>1, <3>2 DEF TableTypes
  <2>2. CASE ~accept
    BY <1>1, <2>2 DEF TableTypes, ProposeExchange
  <2> QED
    BY <2>1, <2>2
<1> DEFINE proposed == [es.swapUpProposed EXCEPT ![cpi1] = @ + 1]
           accepted == [es.swapUpAccepted EXCEPT ![cpi1] = IF accept THEN @ + 1 ELSE @]
<1>4. es' = [es EXCEPT !.swapUpProposed = proposed, !.swapUpAccepted = accepted]
  BY <1>1 DEF TableTypes, ProposeExchange, CountProposal, Statistics
<1>5. proposed \in [Par -> Nat] /\ accepted \in [Par -> Nat]
  BY <1>1 DEF TableTypes, Statistics
<1> HIDE DEF proposed, accepted
<1>6. es' \in Statistics
  BY <1>4, <1>5 DEF TableTypes, Statistics
<1> QED
  BY <1>2, <1>3, <1>6 DEF TableTypes

LEMMA MasterTypes ==
  ASSUME NEW L, NEW F, NEW D, TypesAmong(L, F, D), Master
  PROVE  TypesAmong(L, F, D)'
<1> USE Constants
<1> USE DEF Goto, Labels, counters
<1>t. ControlAmong(L) /\ ReplicaTypes /\ TableTypes /\ FilesAmong(F) /\ BufferTypes
        /\ ChannelsAmong(D)
  BY DEF TypesAmong
<1>1. ASSUME NEW stop \in BOOLEAN, BroadcastStop(stop) PROVE TypesAmong(L, F, D)'
  <2>1. [op |-> "stop_now", value |-> stop] \in DownMessage
    BY DEF DownMessage
  <2>2. down' \in [Workers -> Seq(DownMessage \cup D)]
    BY <1>t, <1>1, <2>1 DEF BroadcastStop, SendAll, ChannelsAmong
  <2> QED
    BY <1>t, <1>1, <2>2 DEF BroadcastStop, AfterStopCheck, replicas, tables, files, TypesAmong,
       ControlAmong, ReplicaTypes, TableTypes, FilesAmong, BufferTypes, ChannelsAmong
<1>2. CASE GatherValues
  <2> DEFINE value == [p \in Proc |-> IF p = Root THEN Measured(Root) ELSE Head(up[p]).value]
  <2>1. BufferTypes' /\ Measured(Root) \in Sample
    BY <1>t, <1>2, BufferingTypes DEF GatherValues
  <2>2. value \in [Proc -> Sample]
    BY <1>t, <1>2, <2>1, ArrivedTypes DEF GatherValues, Workers
  <2>3. up' \in [Workers -> Seq(UpMessage)]
    BY <1>t, <1>2, TakeGatheredTypes DEF GatherValues
  <2>4. HandleValues(value)
    BY <1>2 DEF GatherValues
  <2> HIDE DEF value
  <2>5. timeseriesBuffer' \in [Par -> Seq(SUBSET Sample)]
    BY <1>t, <2>2, <2>4, FilingTypes DEF HandleValues, FilesAmong
  <2> QED
    BY <1>t, <1>2, <2>1, <2>3, <2>5 DEF GatherValues, replicas, tables, TypesAmong,
       ControlAmong, ReplicaTypes, TableTypes, FilesAmong, ChannelsAmong
<1>3. CASE GatherConfigurations
  <2> DEFINE item == [p \in Proc |-> IF p = Root THEN Head(buffered[Root]) ELSE Head(up[p]).item]
  <2>1. BufferTypes' /\ Head(buffered[Root]) \in BufferedConfiguration
    BY <1>t, <1>3, BufferingTypes DEF GatherConfigurations
  <2>2. item \in [Proc -> BufferedConfiguration]
    BY <1>t, <1>3, <2>1, ArrivedTypes DEF GatherConfigurations, Workers
  <2>3. up' \in [Workers -> Seq(UpMessage)]
    BY <1>t, <1>3, TakeGatheredTypes DEF GatherConfigurations
  <2>4. WriteConfigurations(item)
    BY <1>3 DEF GatherConfigurations
  <2> HIDE DEF item
  <2>5. [p \in Proc |-> item[p].conf] \in [Proc -> Sample]
    BY <2>2 DEF BufferedConfiguration
  <2>6. streamFile' \in [Par -> Seq(SUBSET Sample)]
    BY <1>t, <2>4, <2>5, FilingTypes DEF WriteConfigurations, FilesAmong
  <2> QED
    BY <1>t, <1>3, <2>1, <2>3, <2>6 DEF GatherConfigurations, replicas, tables, TypesAmong,
       ControlAmong, ReplicaTypes, TableTypes, FilesAmong, ChannelsAmong
<1>4. CASE OpenBarrier
  <2>1. [op |-> "barrier"] \in DownMessage
    BY DEF DownMessage
  <2>2. down' \in [Workers -> Seq(DownMessage \cup D)]
    BY <1>t, <1>4, <2>1 DEF OpenBarrier, SendAll, ChannelsAmong
  <2>3. up' \in [Workers -> Seq(UpMessage)]
    BY <1>t, <1>4, TakeGatheredTypes DEF OpenBarrier
  <2> QED
    BY <1>t, <1>4, <2>2, <2>3 DEF OpenBarrier, replicas, tables, files, TypesAmong,
       ControlAmong, ReplicaTypes, TableTypes, FilesAmong, BufferTypes, ChannelsAmong
<1>5. CASE GatherControlData
  <2>1. process_control_data_buffer' \in [Proc -> Par]
    BY <1>t, <1>5, ArrivedTypes DEF GatherControlData, Workers, ReplicaTypes
  <2>2. es' \in Statistics
    BY <1>t, <1>5, HistogramTypes DEF GatherControlData
  <2>3. up' \in [Workers -> Seq(UpMessage)]
    BY <1>t, <1>5, TakeGatheredTypes DEF GatherControlData
  <2>4. cpi1' \in Par
    BY <1>5 DEF GatherControlData, Par
  <2> QED
    BY <1>t, <1>5, <2>1, <2>2, <2>3, <2>4 DEF GatherControlData, replicas, files, TypesAmong,
       ControlAmong, ReplicaTypes, TableTypes, FilesAmong, BufferTypes, ChannelsAmong
<1>6. ASSUME NEW accept \in BOOLEAN, ProposeExchange(accept) PROVE TypesAmong(L, F, D)'
  BY <1>t, <1>6, ProposalTypes DEF ProposeExchange, replicas, files, TypesAmong,
     ControlAmong, ReplicaTypes, FilesAmong, BufferTypes, ChannelsAmong
<1>7. CASE ScatterAssignment
  <2>1. \A q \in Workers : [op |-> "assign", par |-> current_process_par[q],
                           ctrl |-> process_control_data_buffer[q]] \in DownMessage
    BY <1>t DEF DownMessage, TableTypes
  <2>2. down' \in [Workers -> Seq(DownMessage \cup D)]
    BY <1>t, <1>7, <2>1 DEF ScatterAssignment, SendAll, ChannelsAmong
  <2>3. ReplicaTypes'
    BY <1>t, <1>7, AssignmentTypes DEF ScatterAssignment, TableTypes
  <2> QED
    BY <1>t, <1>7, <2>2, <2>3 DEF ScatterAssignment, tables, files, TypesAmong,
       ControlAmong, TableTypes, FilesAmong, BufferTypes, ChannelsAmong
<1>8. CASE GatherCheck
  <2>1. up' \in [Workers -> Seq(UpMessage)]
    BY <1>t, <1>8, TakeGatheredTypes DEF GatherCheck, ChannelsAmong
  <2>2. ControlAmong(L)'
    <3>1. PICK label \in {"top", "sweep", "error"} : pc' = [pc EXCEPT ![Root] = label]
      BY <1>8 DEF GatherCheck, LoopTop
    <3> QED
      BY <1>t, <1>8, <3>1 DEF GatherCheck, ControlAmong
  <2> QED
    BY <1>t, <1>8, <2>1, <2>2 DEF GatherCheck, replicas, tables, files, TypesAmong,
       ReplicaTypes, TableTypes, FilesAmong, BufferTypes, ChannelsAmong
<1> QED
  BY <1>1, <1>2, <1>3, <1>4, <1>5, <1>6, <1>7, <1>8 DEF Master

(* Whatever the number of processes and the intervals, every variable      *)
(* stays in its range: no index leaves the tables of detqmcpt.h:139-146.   *)
THEOREM TypeCorrect == Spec => []TypeOK
<1>1. TypeOK /\ [Next]_vars => TypeOK'
  <2> SUFFICES ASSUME TypeOK, [Next]_vars PROVE TypeOK'
    OBVIOUS
  <2>1. CASE UNCHANGED vars
    BY <2>1 DEF vars, counters, replicas, tables, files, TypeOK,
       ControlTypes, ReplicaTypes, TableTypes, FileTypes, BufferTypes, ChannelTypes
  <2>2. CASE Terminated
    BY <2>1, <2>2 DEF Terminated
  <2> QED
    BY <2>1, <2>2, TypesOfARun, LocalTypes, WorkerTypes, MasterTypes DEF Next
<1> QED
  BY <1>1, InitialTypes, PTL DEF Spec

-----------------------------------------------------------------------------
(* Nothing measured is lost at a regular end of the driver: the last save  *)
(* of every process comes after its last sweep, because a stage ends on a  *)
(* save and a process that is told to stop saves before it leaves.         *)

(* What process p did so far is on disk.                                   *)
SeriesFlushed == \A c \in Par : timeseriesBuffer[c] = <<>>
OnDisk(p) ==
  /\ stateFile[p].sweeps = sweepsDone[p]
  /\ stateFile[p].therm = sweepsDoneThermalization[p]
  /\ p = Root => SeriesFlushed

MidSweep(p)  == pc[p] \in {"insertValue", "countSweep"}
SweepsBegun(p)  == IF MidSweep(p) THEN sweepsDone[p] + 1 ELSE sweepsDone[p]

(* swCounter is zero at the end of a sweep only after a save, and it is    *)
(* the number of sweeps of the stage modulo saveInterval.                  *)
StageInv(p) ==
  /\ stage[p] = "F" => pc[p] = "done"
  /\ MidSweep(p) => stage[p] = "M" /\ swCounter[p] \in 1..SaveInterval
  /\ ~MidSweep(p) => swCounter[p] \in 0..(SaveInterval - 1)
  /\ stage[p] = "T" => /\ sweepsDone[p] = 0
                       /\ p = Root => SeriesFlushed
  /\ stage[p] = "M" => swCounter[p] % SaveInterval = SweepsBegun(p) % SaveInterval
SavedInv(p) ==
  /\ StageInv(p)
  /\ pc[p] \in {"barrier", "inBarrier", "done"} => OnDisk(p)
  /\ pc[p] = "endSweep" /\ swCounter[p] = 0 => OnDisk(p)

LEMMA SaveIntervals ==
  /\ SaveInterval \in Nat \ {0} /\ Sweeps \in Nat \ {0} /\ Sweeps % SaveInterval = 0
  /\ 0 % SaveInterval = 0 /\ SaveInterval % SaveInterval = 0
  /\ \A n \in 0..(SaveInterval - 1) : n % SaveInterval = 0 => n = 0
<1>1. SaveInterval \in Nat \ {0} /\ Sweeps \in Nat \ {0} /\ Sweeps % SaveInterval = 0
  BY ParametersAssumption
<1>2. ASSUME NEW n \in 0..(SaveInterval - 1) PROVE n % SaveInterval = n
  <2>1. /\ n \div SaveInterval \in Int /\ n % SaveInterval \in 0..(SaveInterval - 1)
        /\ n = SaveInterval * (n \div SaveInterval) + (n % SaveInterval)
    BY <1>1, <1>2, Division
  <2>2. n = SaveInterval * 0 + n
    BY <1>1
  <2> QED
    BY <1>1, <2>1, <2>2, DivisionUnique
<1>3. SaveInterval % SaveInterval = 0
  <2> DEFINE k == SaveInterval
             d == k \div k
             r == k % k
  <2>1. d \in Int /\ r \in 0..(k - 1) /\ k = k * d + r
    BY <1>1, Division
  <2>2. k = k * 1 + 0 /\ 0 \in 0..(k - 1) /\ k \in Nat \ {0}
    BY <1>1
  <2> HIDE DEF k, d, r
  <2>3. r = 0
    BY <2>1, <2>2, DivisionUnique
  <2> QED
    BY <2>3 DEF r, k
<1> QED
  BY <1>1, <1>2, <1>3

LEMMA InitialSavedInv == Init => \A p \in Proc : SavedInv(p)
<1> SUFFICES ASSUME Init, NEW p \in Proc PROVE SavedInv(p)
  OBVIOUS
<1> USE Constants, SaveIntervals DEF Init
<1>1. pc[p] = "top" /\ swCounter[p] = 0 /\ sweepsDone[p] = 0 /\ stage[p] \in {"T", "M"}
      /\ SeriesFlushed
  BY DEF FirstStage, SeriesFlushed
<1> QED
  BY <1>1 DEF SavedInv, StageInv, MidSweep, SweepsBegun

-----------------------------------------------------------------------------
(* Steps that count no sweep of p *)

OwnState(p) == <<stage[p], sweepsDoneThermalization[p], sweepsDone[p], swCounter[p], stateFile[p]>>

(* Between two sweeps nothing is lost on the way from a save to the end.   *)
LEMMA NothingCounted ==
  ASSUME TypeOK, NEW p \in Proc, SavedInv(p), UNCHANGED OwnState(p),
         p = Root => UNCHANGED timeseriesBuffer,
         \/ pc'[p] = pc[p]
         \/ /\ pc[p] \in {"top", "sweep", "exchange", "walk", "assign", "check"}
            /\ pc'[p] \in {"save", "top", "sweep", "exchange", "walk", "assign", "check", "error"}
         \/ /\ pc[p] \in {"barrier", "inBarrier"}
            /\ pc'[p] \in {"inBarrier", "endSweep"}
  PROVE  SavedInv(p)'
<1>1. OnDisk(p) => OnDisk(p)'
  BY DEF OnDisk, OwnState, SeriesFlushed
<1>2. p = Root => (SeriesFlushed' <=> SeriesFlushed)
  BY DEF SeriesFlushed
<1>3. MidSweep(p)' = MidSweep(p) /\ SweepsBegun(p)' = SweepsBegun(p)
  BY DEF MidSweep, SweepsBegun, OwnState
<1>4. StageInv(p)'
  BY <1>2, <1>3 DEF SavedInv, StageInv, OwnState
<1> QED
  BY <1>1, <1>4 DEF SavedInv, OwnState

(* The measurement of a sweep, on p or at the root.                        *)
LEMMA MeasurementKeeps ==
  ASSUME TypeOK, NEW p \in Proc, SavedInv(p), UNCHANGED OwnState(p),
         pc[p] = "insertValue", pc'[p] = "countSweep"
  PROVE  SavedInv(p)'
BY DEF SavedInv, StageInv, MidSweep, SweepsBegun, OwnState

-----------------------------------------------------------------------------
(* Steps of the sweep loop of p *)

LEMMA SweepKeeps ==
  ASSUME TypeOK, NEW p \in Proc, SavedInv(p),
         SweepThermalization(p) \/ Sweep(p) \/ CountSweep(p)
  PROVE  SavedInv(p)'
<1> USE Constants, SaveIntervals
<1>t. /\ pc \in [Proc -> Labels] /\ sweepsDone \in [Proc -> Nat] /\ swCounter \in [Proc -> Nat]
      /\ sweepsDone[p] \in Nat /\ swCounter[p] \in Nat /\ stage \in [Proc -> {"T", "M", "F"}]
  BY DEF TypeOK, ControlTypes
<1>i. StageInv(p)
  BY DEF SavedInv
<1>f. UNCHANGED <<timeseriesBuffer, stage>> /\ (SeriesFlushed' <=> SeriesFlushed)
  BY DEF SweepThermalization, Sweep, CountSweep, files, SeriesFlushed
<1>1. CASE SweepThermalization(p)
  <2>1. /\ stage[p] = "T" /\ sweepsDone'[p] = sweepsDone[p] /\ pc[p] = "sweep"
        /\ swCounter'[p] = IF swCounter[p] + 1 = SaveInterval THEN 0 ELSE swCounter[p] + 1
        /\ pc'[p] = IF swCounter[p] + 1 = SaveInterval THEN "save" ELSE "endSweep"
    BY <1>1, <1>t DEF SweepThermalization, Goto, SaveDue
  <2>2. swCounter[p] \in 0..(SaveInterval - 1)
    BY <1>i, <2>1 DEF StageInv, MidSweep
  <2>3. swCounter'[p] \in 0..(SaveInterval - 1) /\ (pc'[p] = "endSweep" => swCounter'[p] # 0)
    BY <2>1, <2>2
  <2> QED
    BY <1>f, <1>i, <2>1, <2>3 DEF SavedInv, StageInv, MidSweep
<1>2. CASE Sweep(p)
  <2>1. /\ stage[p] = "M" /\ sweepsDone'[p] = sweepsDone[p] /\ pc[p] = "sweep"
        /\ swCounter'[p] = swCounter[p] + 1 /\ pc'[p] \in {"insertValue", "countSweep"}
    BY <1>2, <1>t DEF Sweep, Goto
  <2>2. /\ swCounter[p] \in 0..(SaveInterval - 1)
        /\ swCounter[p] % SaveInterval = sweepsDone[p] % SaveInterval
    BY <1>i, <2>1 DEF StageInv, MidSweep, SweepsBegun
  <2>3. (swCounter[p] + 1) % SaveInterval = (sweepsDone[p] + 1) % SaveInterval
    BY <1>t, <2>2, InStepModulo
  <2>4. swCounter[p] + 1 \in 1..SaveInterval
    BY <2>2
  <2> QED
    BY <1>f, <2>1, <2>3, <2>4 DEF SavedInv, StageInv, MidSweep, SweepsBegun
<1>3. CASE CountSweep(p)
  <2>1. /\ pc[p] = "countSweep" /\ sweepsDone'[p] = sweepsDone[p] + 1
        /\ swCounter'[p] = IF swCounter[p] = SaveInterval THEN 0 ELSE swCounter[p]
        /\ pc'[p] = IF swCounter[p] = SaveInterval THEN "save" ELSE "endSweep"
    BY <1>3, <1>t DEF CountSweep, Goto, SaveDue
  <2>2. /\ stage[p] = "M" /\ swCounter[p] \in 1..SaveInterval
        /\ swCounter[p] % SaveInterval = (sweepsDone[p] + 1) % SaveInterval
    BY <1>i, <2>1 DEF StageInv, MidSweep, SweepsBegun
  <2>3. swCounter'[p] % SaveInterval = (sweepsDone[p] + 1) % SaveInterval
    BY <2>1, <2>2
  <2>4. swCounter'[p] \in 0..(SaveInterval - 1) /\ (pc'[p] = "endSweep" => swCounter'[p] # 0)
    BY <2>1, <2>2
  <2>5. ~MidSweep(p)' /\ SweepsBegun(p)' = sweepsDone[p] + 1 /\ stage'[p] = "M"
    BY <1>f, <2>1, <2>2 DEF MidSweep, SweepsBegun
  <2> QED
    BY <2>1, <2>3, <2>4, <2>5 DEF SavedInv, StageInv
<1> QED
  BY <1>1, <1>2, <1>3

LEMMA SaveKeeps ==
  ASSUME TypeOK, NEW p \in Proc, SavedInv(p), Save(p)
  PROVE  SavedInv(p)'
<1> USE Constants
<1>t. /\ pc \in [Proc -> Labels] /\ stateFile \in [Proc -> State \cup {NoFile}]
      /\ stage[p] \in {"T", "M", "F"}
  BY DEF TypeOK, ControlTypes, FileTypes
<1>1. /\ pc[p] = "save" /\ pc'[p] \in {"barrier", "done"} /\ UNCHANGED counters
      /\ stateFile'[p] = CurrentState(p)
  BY <1>t DEF Save, AfterSave, Goto
<1>2. StageInv(p) /\ stage[p] # "F"
  BY <1>1 DEF SavedInv, StageInv
<1>3. p = Root => SeriesFlushed'
  <2>1. CASE p = Root /\ stage[p] = "M"
    BY <2>1 DEF Save, OutputTimeseries, SeriesFlushed
  <2>2. CASE p = Root /\ stage[p] = "T"
    BY <1>2, <2>2 DEF Save, OutputTimeseries, SeriesFlushed, StageInv
  <2> QED
    BY <1>2, <1>t, <2>1, <2>2
<1>4. OnDisk(p)'
  BY <1>1, <1>3 DEF OnDisk, CurrentState, counters
<1>5. StageInv(p)'
  BY <1>1, <1>2, <1>3 DEF StageInv, MidSweep, SweepsBegun, counters
<1> QED
  BY <1>4, <1>5 DEF SavedInv

(* The measurement stage ends on a save, since saveInterval divides sweeps.*)
LEMMA EndSweepKeeps ==
  ASSUME TypeOK, NEW p \in Proc, SavedInv(p), EndSweep(p)
  PROVE  SavedInv(p)'
<1> USE Constants, SaveIntervals
<1>t. /\ pc \in [Proc -> Labels] /\ sweepsDone[p] \in Nat /\ swCounter[p] \in Nat
      /\ stage \in [Proc -> {"T", "M", "F"}] /\ swCounter \in [Proc -> Nat]
  BY DEF TypeOK, ControlTypes
<1>1. /\ pc[p] = "endSweep" /\ stage'[p] = NextStage(p)
      /\ swCounter'[p] = (IF NextStage(p) # stage[p] THEN 0 ELSE swCounter[p])
      /\ UNCHANGED <<sweepsDone, sweepsDoneThermalization, stateFile, timeseriesBuffer>>
      /\ pc'[p] = (IF NextStage(p) = "F" THEN "done" ELSE pc'[p])
      /\ pc'[p] \in {"done", "exchange", "check"} /\ (pc'[p] = "done" => NextStage(p) = "F")
  BY <1>t DEF EndSweep, Goto, CounterOfStage, files
<1>2. StageInv(p) /\ stage[p] # "F" /\ ~MidSweep(p) /\ swCounter[p] \in 0..(SaveInterval - 1)
  BY <1>1 DEF SavedInv, StageInv, MidSweep
<1>3. ~MidSweep(p)' /\ SweepsBegun(p)' = sweepsDone[p] /\ (SeriesFlushed' <=> SeriesFlushed)
  BY <1>1 DEF MidSweep, SweepsBegun, SeriesFlushed
<1>4. NextStage(p) = "F" => OnDisk(p)'
  <2> SUFFICES ASSUME NextStage(p) = "F" PROVE OnDisk(p)'
    OBVIOUS
  <2>1. stage[p] = "M" /\ sweepsDone[p] = Sweeps
    BY <1>2, <1>t DEF NextStage
  <2>2. swCounter[p] % SaveInterval = 0
    BY <1>2, <2>1 DEF StageInv, SweepsBegun
  <2>3. swCounter[p] = 0
    BY <1>2, <2>2
  <2> QED
    BY <1>1, <1>3, <2>3 DEF SavedInv, OnDisk
<1>5. StageInv(p)'
  <2>1. CASE NextStage(p) = "F"
    <3>1. stage'[p] = "F" /\ pc'[p] = "done" /\ swCounter'[p] = 0
      BY <1>1, <1>2, <2>1
    <3> QED
      BY <1>3, <3>1 DEF StageInv
  <2>2. CASE NextStage(p) = "M" /\ stage[p] = "T"
    <3>1. sweepsDone[p] = 0
      BY <1>2, <2>2 DEF StageInv
    <3>2. stage'[p] = "M" /\ swCounter'[p] = 0 /\ SweepsBegun(p)' = 0
      BY <1>1, <1>3, <2>2, <3>1
    <3> QED
      BY <1>3, <3>2 DEF StageInv
  <2>3. CASE NextStage(p) = stage[p]
    BY <1>1, <1>2, <1>3, <2>3 DEF StageInv, SweepsBegun
  <2> QED
    BY <1>2, <1>t, <2>1, <2>2, <2>3 DEF NextStage
<1> QED
  BY <1>1, <1>4, <1>5 DEF SavedInv

-----------------------------------------------------------------------------
LEMMA NextSavedInv ==
  ASSUME TypeOK, \A p \in Proc : SavedInv(p), [Next]_vars, NEW p \in Proc
  PROVE  SavedInv(p)'
<1> USE Constants
<1> USE DEF counters, files, OwnState
<1>t. /\ pc \in [Proc -> Labels] /\ stage \in [Proc -> {"T", "M", "F"}]
      /\ sweepsDone \in [Proc -> Nat] /\ sweepsDoneThermalization \in [Proc -> Nat]
      /\ swCounter \in [Proc -> Nat] /\ stateFile \in [Proc -> State \cup {NoFile}]
  BY DEF TypeOK, ControlTypes, FileTypes
<1>1. CASE UNCHANGED vars \/ Terminated
  BY <1>1, NothingCounted DEF vars, Terminated
<1>2. ASSUME NEW r \in Proc, Local(r), r # p PROVE SavedInv(p)'
  <2>1. pc'[p] = pc[p] /\ UNCHANGED OwnState(p)
    BY <1>2, <1>t DEF Local, SweepThermalization, Sweep, CountSweep, Save, EndSweep, Goto
  <2>2. p = Root => UNCHANGED timeseriesBuffer
    BY <1>2 DEF Local, SweepThermalization, Sweep, CountSweep, Save, OutputTimeseries, EndSweep
  <2> QED
    BY <2>1, <2>2, NothingCounted
<1>3. CASE Local(p)
  BY <1>3, SweepKeeps, SaveKeeps, EndSweepKeeps DEF Local
<1>4. ASSUME NEW q \in Workers, Worker(q) PROVE SavedInv(p)'
  <2>1. UNCHANGED <<counters, files>>
    BY <1>4 DEF Worker, HearStop, SendValue, SendConfiguration, EnterBarrier, LeaveBarrier,
       SendControlData, HearAssignment, SendCheck
  <2>2. CASE p # q
    <3>1. pc'[p] = pc[p]
      BY <1>4, <1>t, <2>2 DEF Worker, HearStop, AfterStopCheck, SendValue, SendConfiguration,
         EnterBarrier, LeaveBarrier, SendControlData, HearAssignment, SendCheck, Goto
    <3> QED
      BY <2>1, <3>1, NothingCounted
  <2>3. CASE p = q /\ SendValue(p)
    <3>1. pc[p] = "insertValue" /\ pc'[p] = "countSweep"
      BY <1>t, <2>3 DEF SendValue, Goto
    <3> QED
      BY <2>1, <3>1, MeasurementKeeps
  <2>4. CASE p = q /\ ~SendValue(p)
    <3>1. \/ pc'[p] = pc[p]
          \/ /\ pc[p] \in {"top", "sweep", "exchange", "walk", "assign", "check"}
             /\ pc'[p] \in {"save", "top", "sweep", "exchange", "walk", "assign", "check", "error"}
          \/ /\ pc[p] \in {"barrier", "inBarrier"}
             /\ pc'[p] \in {"inBarrier", "endSweep"}
      BY <1>4, <1>t, <2>4 DEF Worker, HearStop, AfterStopCheck, SendConfiguration, EnterBarrier,
         LeaveBarrier, SendControlData, HearAssignment, SendCheck, LoopTop, Goto
    <3> QED
      BY <2>1, <3>1, NothingCounted
  <2> QED
    BY <2>2, <2>3, <2>4
<1>5. CASE Master
  <2>1. UNCHANGED <<counters, stateFile>> /\ (UNCHANGED timeseriesBuffer \/ GatherValues)
    BY <1>5 DEF Master, BroadcastStop, GatherValues, GatherConfigurations, OpenBarrier,
       GatherControlData, ProposeExchange, ScatterAssignment, GatherCheck
  <2>2. CASE p # Root
    <3>1. pc'[p] = pc[p]
      BY <1>5, <1>t, <2>2 DEF Master, BroadcastStop, AfterStopCheck, GatherValues,
         GatherConfigurations, OpenBarrier, GatherControlData, ProposeExchange,
         ScatterAssignment, GatherCheck, Goto
    <3> QED
      BY <2>1, <2>2, <3>1, NothingCounted
  <2>3. CASE p = Root /\ GatherValues
    <3>1. pc[p] = "insertValue" /\ pc'[p] = "countSweep"
      BY <1>t, <2>3 DEF GatherValues, Goto
    <3> QED
      BY <2>1, <3>1, MeasurementKeeps
  <2>4. CASE p = Root /\ ~GatherValues
    <3>1. \/ pc'[p] = pc[p]
          \/ /\ pc[p] \in {"top", "sweep", "exchange", "walk", "assign", "check"}
             /\ pc'[p] \in {"save", "top", "sweep", "exchange", "walk", "assign", "check", "error"}
          \/ /\ pc[p] \in {"barrier", "inBarrier"}
             /\ pc'[p] \in {"inBarrier", "endSweep"}
      BY <1>5, <1>t, <2>4 DEF Master, BroadcastStop, AfterStopCheck, GatherConfigurations,
         OpenBarrier, GatherControlData, ProposeExchange, ScatterAssignment, GatherCheck,
         LoopTop, Goto
    <3> QED
      BY <2>1, <2>4, <3>1, NothingCounted
  <2> QED
    BY <2>2, <2>3, <2>4
<1> QED
  BY <1>1, <1>2, <1>3, <1>4, <1>5 DEF Next

(* When run() has returned everywhere, every value that was measured is in *)
(* a .series file and every process's state file is that of its last       *)
(* sweep, whether the run was complete or was told to stop.                *)
THEOREM ResultsAreSaved == Spec => []ResultsSaved
<1>1. (\A p \in Proc : SavedInv(p)) => ResultsSaved
  BY Constants DEF SavedInv, OnDisk, SeriesFlushed, ResultsSaved, AllDone
<1>2. TypeOK /\ (\A p \in Proc : SavedInv(p)) /\ [Next]_vars => (\A p \in Proc : SavedInv(p))'
  BY NextSavedInv
<1> QED
  BY <1>1, <1>2, InitialSavedInv, TypeCorrect, PTL DEF Spec

-----------------------------------------------------------------------------
(* The replica exchange is consistent, for every number of processes,      *)
(* every order in which they proceed and every outcome of the random       *)
(* numbers: ExchangeInv is inductive relative to TypeOK.                   *)

(* The entries of a sequence after Append and Tail.                        *)
LEMMA Entries ==
  ASSUME NEW S, NEW s \in Seq(S), NEW m \in S
  PROVE  /\ Len(Append(s, m)) = Len(s) + 1
         /\ \A i \in 1..Len(s) : Append(s, m)[i] = s[i]
         /\ Append(s, m)[Len(s) + 1] = m
         /\ s # <<>> => /\ Len(s) \in Nat \ {0} /\ Head(s) = s[1]
                        /\ Len(Tail(s)) = Len(s) - 1
                        /\ \A i \in 1..Len(Tail(s)) : Tail(s)[i] = s[i + 1]
OBVIOUS

LEMMA InitialExchangeInv == Init => ExchangeInv
<1> SUFFICES ASSUME Init PROVE ExchangeInv
  OBVIOUS
<1> USE Constants DEF Init
<1>1. TablesInverse /\ NoMismatch /\ ReplicaInv
  BY DEF TablesInverse, NoMismatch, ReplicaInv, LocalMismatch
<1>2. \A q \in Workers : ~Pending(q) /\ DownInv(q) /\ UpInv(q)
  BY DEF Pending, DownInv, UpInv
<1>3. WalkInv
  BY <1>2 DEF WalkInv
<1> QED
  BY <1>1, <1>2, <1>3 DEF ExchangeInv

(* A step of one process outside the exchange, that leaves replicas, table *)
(* and channels alone.                                                     *)
LEMMA AsideStep ==
  ASSUME TypeOK, ExchangeInv, NEW p \in Proc, NEW label,
         label \notin {"walk", "error"}, pc[p] \notin {"walk", "assign"}, Goto(p, label),
         UNCHANGED <<replicas, tables, up, down>>
  PROVE  ExchangeInv'
<1> USE Constants DEF replicas, tables
<1>1. /\ pc'[p] = label /\ \A r \in Proc \ {p} : pc'[r] = pc[r]
      /\ pc'[Root] = "walk" <=> pc[Root] = "walk"
      /\ \A q \in Workers : pc[q] = "assign" => pc'[q] = "assign"
  BY DEF Goto, TypeOK, ControlTypes
<1>2. TablesInverse' /\ NoMismatch' /\ ReplicaInv'
  BY <1>1 DEF ExchangeInv, TablesInverse, NoMismatch, ReplicaInv, LocalMismatch
<1>3. \A q \in Workers : Pending(q)' = Pending(q)
  BY DEF Pending, IsAssignment
<1>4. \A q \in Workers : DownInv(q)' /\ UpInv(q)'
  BY <1>1, <1>3 DEF ExchangeInv, DownInv, UpInv, IsAssignment
<1>5. WalkInv'
  BY <1>1, <1>3 DEF ExchangeInv, WalkInv
<1> QED
  BY <1>2, <1>4, <1>5 DEF ExchangeInv

LEMMA LocalExchangeInv ==
  ASSUME TypeOK, ExchangeInv, NEW p \in Proc, Local(p)
  PROVE  ExchangeInv'
<1>1. UNCHANGED <<replicas, tables, up, down>>
  BY DEF Local, SweepThermalization, Sweep, CountSweep, Save, AfterSave, EndSweep
<1>2. PICK label \in {"save", "endSweep", "insertValue", "countSweep", "done", "barrier",
                      "exchange", "check"} :
        Goto(p, label) /\ pc[p] \notin {"walk", "assign"}
  BY DEF Local, SweepThermalization, Sweep, CountSweep, Save, AfterSave, EndSweep
<1> QED
  BY <1>1, <1>2, AsideStep

(* A worker that does not wait for its assignment has none on its way, has *)
(* no contribution to an exchange under way, and is in step with the table.*)
LEMMA NotWaiting ==
  ASSUME ExchangeInv, NEW q \in Workers, pc[q] # "assign"
  PROVE  /\ pc[Root] # "walk" /\ ~Pending(q)
         /\ \A i \in 1..Len(up[q]) : up[q][i].op # "exchange"
         /\ replica_par[q] = current_process_par[q]
         /\ replica_ctrl[q] = current_process_par[q]
BY Constants DEF ExchangeInv, WalkInv, DownInv, UpInv, Pending, IsAssignment, ReplicaInv

LEMMA PostStep ==
  ASSUME TypeOK, ExchangeInv, NEW q \in Workers, NEW m \in UpMessage, Post(q, m),
         NEW label, label \notin {"walk", "error", "assign"}, Goto(q, label),
         pc[q] \notin {"walk", "assign"},
         m.op # "exchange", m.op = "check" => m.par = replica_par[q],
         UNCHANGED <<replicas, tables, down>>
  PROVE  ExchangeInv'
<1> USE Constants DEF replicas, tables
<1>n. /\ pc[Root] # "walk" /\ ~Pending(q)
      /\ \A i \in 1..Len(up[q]) : up[q][i].op # "exchange"
      /\ replica_par[q] = current_process_par[q]
  BY NotWaiting
<1>1. pc'[q] = label /\ \A r \in Proc \ {q} : pc'[r] = pc[r]
  BY DEF Goto, TypeOK, ControlTypes
<1>2. TablesInverse' /\ NoMismatch' /\ ReplicaInv'
  BY <1>1 DEF ExchangeInv, TablesInverse, NoMismatch, ReplicaInv, LocalMismatch
<1>3. \A r \in Workers : Pending(r)' = Pending(r)
  BY DEF Pending, IsAssignment
<1>4. /\ \A r \in Workers \ {q} : up'[r] = up[r]
      /\ Len(up'[q]) = Len(up[q]) + 1 /\ up'[q][Len(up[q]) + 1] = m
      /\ \A i \in 1..Len(up[q]) : up'[q][i] = up[q][i]
      /\ Len(up[q]) \in Nat
  <2>1. up[q] \in Seq(UpMessage)
    BY DEF TypeOK, ChannelTypes
  <2> QED
    BY <2>1, Entries DEF Post, TypeOK, ChannelTypes
<1>5. \A r \in Workers : DownInv(r)'
  BY <1>1, <1>n DEF ExchangeInv, DownInv, Pending, IsAssignment
<1>6. UpInv(q)'
  <2> SUFFICES ASSUME NEW i \in 1..Len(up'[q])
               PROVE  /\ up'[q][i].op # "exchange"
                      /\ up'[q][i].op = "check" => up'[q][i].par = current_process_par[q]
    BY DEF UpInv
  <2>1. CASE i \in 1..Len(up[q])
    BY <2>1, <1>4, <1>n DEF ExchangeInv, UpInv
  <2>2. CASE i = Len(up[q]) + 1
    BY <2>2, <1>4, <1>n
  <2> QED
    BY <2>1, <2>2, <1>4
<1>7. ASSUME NEW r \in Workers \ {q} PROVE UpInv(r)'
  <2>1. /\ UpInv(r) /\ up'[r] = up[r] /\ pc'[r] = pc[r] /\ Pending(r)' = Pending(r)
        /\ current_process_par' = current_process_par /\ replica_ctrl' = replica_ctrl
    BY <1>1, <1>3, <1>4 DEF ExchangeInv
  <2> QED
    BY <2>1 DEF UpInv
<1>8. WalkInv'
  BY <1>1, <1>n, <1>3 DEF ExchangeInv, WalkInv
<1> QED
  BY <1>2, <1>5, <1>6, <1>7, <1>8 DEF ExchangeInv

LEMMA HearStep ==
  ASSUME TypeOK, ExchangeInv, NEW q \in Workers, NEW op, Told(q, op), Hear(q),
         NEW label, label \notin {"walk", "error", "assign"}, Goto(q, label),
         pc[q] \notin {"walk", "assign"},
         UNCHANGED <<replicas, tables, up>>
  PROVE  ExchangeInv'
<1> USE Constants DEF replicas, tables
<1>n. pc[Root] # "walk" /\ ~Pending(q) /\ \A i \in 1..Len(up[q]) : up[q][i].op # "exchange"
  BY NotWaiting
<1>1. pc'[q] = label /\ \A r \in Proc \ {q} : pc'[r] = pc[r]
  BY DEF Goto, TypeOK, ControlTypes
<1>2. TablesInverse' /\ NoMismatch' /\ ReplicaInv'
  BY <1>1 DEF ExchangeInv, TablesInverse, NoMismatch, ReplicaInv, LocalMismatch
<1>3. /\ \A r \in Workers \ {q} : down'[r] = down[r]
      /\ \A i \in 1..Len(down'[q]) : i + 1 \in 1..Len(down[q]) /\ down'[q][i] = down[q][i + 1]
  <2>1. down[q] \in Seq(DownMessage) /\ down[q] # <<>>
    BY DEF TypeOK, ChannelTypes, Told
  <2> QED
    BY <2>1 DEF Hear, TypeOK, ChannelTypes
<1>4. ~Pending(q)' /\ \A r \in Workers \ {q} : Pending(r)' = Pending(r)
  BY <1>n, <1>3 DEF Pending, IsAssignment
<1>5. \A r \in Workers : DownInv(r)'
  <2>1. DownInv(q)'
    BY <1>4 DEF DownInv, Pending, IsAssignment
  <2>2. \A r \in Workers \ {q} : DownInv(r)'
    BY <1>1, <1>3 DEF ExchangeInv, DownInv, IsAssignment
  <2> QED
    BY <2>1, <2>2
<1>6. \A r \in Workers : UpInv(r)'
  BY <1>1, <1>n, <1>4 DEF ExchangeInv, UpInv
<1>7. WalkInv'
  BY <1>1, <1>n, <1>4 DEF ExchangeInv, WalkInv
<1> QED
  BY <1>2, <1>5, <1>6, <1>7 DEF ExchangeInv

(* The contribution to an exchange carries the control data the replica    *)
(* has now, which is that of its parameter.                                *)
LEMMA ContributionStep ==
  ASSUME TypeOK, ExchangeInv, NEW q \in Workers, SendControlData(q)
  PROVE  ExchangeInv'
<1> USE Constants DEF replicas, tables
<1>n. /\ pc[Root] # "walk" /\ ~Pending(q)
      /\ \A i \in 1..Len(up[q]) : up[q][i].op # "exchange"
  BY NotWaiting DEF SendControlData
<1>1. pc'[q] = "assign" /\ \A r \in Proc \ {q} : pc'[r] = pc[r]
  BY DEF SendControlData, Goto, TypeOK, ControlTypes
<1>u. UNCHANGED <<replica_par, replica_ctrl, local_current_parameter_index,
                  current_process_par, current_par_process, process_control_data_buffer, down>>
  BY DEF SendControlData
<1>2. TablesInverse' /\ NoMismatch' /\ ReplicaInv'
  BY <1>1, <1>u DEF ExchangeInv, TablesInverse, NoMismatch, ReplicaInv, LocalMismatch
<1>3. \A r \in Workers : Pending(r)' = Pending(r)
  BY <1>u DEF Pending, IsAssignment
<1> DEFINE m == [op |-> "exchange", ctrl |-> replica_ctrl[q]]
<1>4. /\ \A r \in Workers \ {q} : up'[r] = up[r]
      /\ Len(up'[q]) = Len(up[q]) + 1 /\ up'[q][Len(up[q]) + 1] = m
      /\ \A i \in 1..Len(up[q]) : up'[q][i] = up[q][i]
      /\ Len(up[q]) \in Nat
  <2>1. up[q] \in Seq(UpMessage) /\ m \in UpMessage
    BY DEF TypeOK, ChannelTypes, ReplicaTypes, UpMessage
  <2> QED
    BY <2>1, Entries DEF SendControlData, Post, TypeOK, ChannelTypes
<1>5. \A r \in Workers : DownInv(r)'
  BY <1>1, <1>n, <1>u DEF ExchangeInv, DownInv, Pending, IsAssignment
<1>6. UpInv(q)'
  <2> SUFFICES ASSUME NEW i \in 1..Len(up'[q])
               PROVE  /\ up'[q][i].op = "check" => up'[q][i].par = current_process_par[q]
                      /\ up'[q][i].op = "exchange" => /\ i = Len(up'[q])
                                                     /\ up'[q][i].ctrl = replica_ctrl[q]
    BY <1>1, <1>n, <1>3, <1>u DEF UpInv
  <2>1. CASE i \in 1..Len(up[q])
    BY <2>1, <1>4, <1>n DEF ExchangeInv, UpInv
  <2>2. CASE i = Len(up[q]) + 1
    BY <2>2, <1>4
  <2> QED
    BY <2>1, <2>2, <1>4
<1>7. \A r \in Workers \ {q} : UpInv(r)'
  BY <1>1, <1>3, <1>4, <1>u DEF ExchangeInv, UpInv
<1>8. WalkInv'
  BY <1>1, <1>n, <1>3, <1>u DEF ExchangeInv, WalkInv
<1> QED
  BY <1>2, <1>5, <1>6, <1>7, <1>8 DEF ExchangeInv

(* Taking the assignment brings the replica in step with the table.        *)
LEMMA AssignmentStep ==
  ASSUME TypeOK, ExchangeInv, NEW q \in Workers, HearAssignment(q)
  PROVE  ExchangeInv'
<1> USE Constants DEF tables
<1>1. pc'[q] = "check" /\ \A r \in Proc \ {q} : pc'[r] = pc[r]
  BY DEF HearAssignment, Goto, TypeOK, ControlTypes
<1>u. UNCHANGED <<current_process_par, current_par_process, process_control_data_buffer, up>>
  BY DEF HearAssignment
<1>s. down[q] \in Seq(DownMessage) /\ down[q] # <<>>
  BY DEF HearAssignment, TypeOK, ChannelTypes, Told
<1>h. /\ IsAssignment(down[q][1]) /\ 1 \in 1..Len(down[q])
      /\ Head(down[q]) = down[q][1]
  BY <1>s DEF HearAssignment, Told, IsAssignment
<1>a. /\ Pending(q) /\ pc[Root] # "walk"
      /\ down[q][1].par = current_process_par[q] /\ down[q][1].ctrl = current_process_par[q]
      /\ \A j \in 1..Len(down[q]) : IsAssignment(down[q][j]) => j = 1
  BY <1>h DEF ExchangeInv, DownInv, WalkInv, Pending
<1>3. /\ \A r \in Workers \ {q} : down'[r] = down[r]
      /\ \A i \in 1..Len(down'[q]) : i + 1 \in 1..Len(down[q]) /\ down'[q][i] = down[q][i + 1]
  BY <1>s DEF HearAssignment, Hear, TypeOK, ChannelTypes
<1>4. ~Pending(q)' /\ \A r \in Workers \ {q} : Pending(r)' = Pending(r)
  <2>1. \A i \in 1..Len(down'[q]) : i + 1 # 1
    OBVIOUS
  <2>2. ~Pending(q)'
    BY <1>a, <1>3, <2>1 DEF Pending, IsAssignment
  <2> QED
    BY <1>3, <2>2 DEF Pending, IsAssignment
<1>5. /\ replica_par' = [replica_par EXCEPT ![q] = current_process_par[q]]
      /\ replica_ctrl' = [replica_ctrl EXCEPT ![q] = current_process_par[q]]
      /\ local_current_parameter_index' =
           [local_current_parameter_index EXCEPT ![q] = current_process_par[q]]
  BY <1>h, <1>a DEF HearAssignment, TakeAssignment
<1>6. TablesInverse' /\ NoMismatch' /\ ReplicaInv'
  BY <1>1, <1>u, <1>5 DEF ExchangeInv, TablesInverse, NoMismatch, ReplicaInv, LocalMismatch,
     TypeOK, ReplicaTypes
<1>7. \A r \in Workers : DownInv(r)'
  <2>1. DownInv(q)'
    BY <1>4 DEF DownInv, Pending, IsAssignment
  <2>2. \A r \in Workers \ {q} : DownInv(r)'
    BY <1>1, <1>3, <1>u DEF ExchangeInv, DownInv, IsAssignment
  <2> QED
    BY <2>1, <2>2
<1>8. \A r \in Workers : UpInv(r)'
  <2>1. UpInv(q)'
    BY <1>a, <1>u DEF ExchangeInv, UpInv
  <2>2. \A r \in Workers \ {q} : UpInv(r)'
    BY <1>1, <1>4, <1>5, <1>u DEF ExchangeInv, UpInv, TypeOK, ReplicaTypes
  <2> QED
    BY <2>1, <2>2
<1>9. WalkInv'
  BY <1>1, <1>a, <1>4, <1>5, <1>u DEF ExchangeInv, WalkInv, TypeOK, ReplicaTypes, Workers
<1> QED
  BY <1>6, <1>7, <1>8, <1>9 DEF ExchangeInv

LEMMA WorkerExchangeInv ==
  ASSUME TypeOK, ExchangeInv, NEW q \in Workers, Worker(q)
  PROVE  ExchangeInv'
<1>t. /\ q \in Proc /\ ControlTypes /\ ReplicaTypes /\ BufferTypes
      /\ ControlAmong(Labels)
  BY Constants, TypesOfARun DEF TypeOK, TypesAmong
<1>1. CASE HearStop(q)
  <2>1. PICK label \in {"save", "sweep"} : Goto(q, label)
    BY <1>1 DEF HearStop, AfterStopCheck
  <2> QED
    BY <1>1, <2>1, HearStep DEF HearStop
<1>2. CASE SendValue(q)
  <2>1. [op |-> "insertValue", value |-> Measured(q)] \in UpMessage
    BY <1>t, BufferingTypes DEF UpMessage
  <2> QED
    BY <1>2, <2>1, PostStep DEF SendValue
<1>3. CASE SendConfiguration(q)
  <2>1. [op |-> "configuration", item |-> Head(buffered[q])] \in UpMessage
    BY <1>t, <1>3, BufferingTypes DEF SendConfiguration, UpMessage
  <2>2. Goto(q, "save") /\ pc[q] = "save"
    BY <1>t, <1>3 DEF SendConfiguration, Flushing, Goto, ControlTypes
  <2> QED
    BY <1>3, <2>1, <2>2, PostStep DEF SendConfiguration
<1>4. CASE EnterBarrier(q)
  <2>1. [op |-> "barrier"] \in UpMessage
    BY DEF UpMessage
  <2> QED
    BY <1>4, <2>1, PostStep DEF EnterBarrier
<1>5. CASE LeaveBarrier(q)
  BY <1>5, HearStep DEF LeaveBarrier
<1>6. CASE SendControlData(q)
  BY <1>6, ContributionStep
<1>7. CASE HearAssignment(q)
  BY <1>7, AssignmentStep
<1>8. CASE SendCheck(q)
  <2>1. [op |-> "check", par |-> replica_par[q]] \in UpMessage
    BY <1>t DEF UpMessage, ReplicaTypes
  <2>2. ~LocalMismatch(q)
    BY <1>t DEF ExchangeInv, ReplicaInv
  <2>3. LoopTop(q) \in {"top", "sweep"} /\ Goto(q, LoopTop(q))
    BY <1>8, <2>2 DEF SendCheck, LoopTop
  <2> QED
    BY <1>8, <2>1, <2>2, <2>3, PostStep DEF SendCheck
<1> QED
  BY <1>1, <1>2, <1>3, <1>4, <1>5, <1>6, <1>7, <1>8 DEF Worker

(* What the root takes from the channels leaves the rest in order.         *)
LEMMA TakenEntries ==
  ASSUME TypeOK, NEW op, Gathered(op), TakeGathered, NEW q \in Workers
  PROVE  /\ Len(up[q]) \in Nat \ {0} /\ Head(up[q]) = up[q][1] /\ up[q][1].op = op
         /\ Len(up'[q]) = Len(up[q]) - 1
         /\ \A i \in 1..Len(up'[q]) : i + 1 \in 1..Len(up[q]) /\ up'[q][i] = up[q][i + 1]
<1>1. up[q] \in Seq(UpMessage) /\ up[q] # <<>> /\ up'[q] = Tail(up[q]) /\ Head(up[q]).op = op
  BY DEF TypeOK, ChannelTypes, Gathered, TakeGathered
<1> QED
  BY <1>1

LEMMA SentEntries ==
  ASSUME TypeOK, NEW m \in DownMessage, NEW q \in Workers, down'[q] = Append(down[q], m)
  PROVE  /\ Len(down[q]) \in Nat /\ Len(down'[q]) = Len(down[q]) + 1
         /\ down'[q][Len(down[q]) + 1] = m
         /\ \A i \in 1..Len(down[q]) : down'[q][i] = down[q][i]
<1>1. down[q] \in Seq(DownMessage)
  BY DEF TypeOK, ChannelTypes
<1> QED
  BY <1>1, Entries

(* A step of the root outside the exchange: it may take the contributions  *)
(* to a gather and may send to everyone.                                   *)
LEMMA RootStep ==
  ASSUME TypeOK, ExchangeInv, pc[Root] # "walk",
         NEW label, label \notin {"walk", "error"}, Goto(Root, label),
         UNCHANGED <<replicas, tables>>,
         UNCHANGED up \/ \E op : Gathered(op) /\ TakeGathered,
         UNCHANGED down \/ \E m \in DownMessage : m.op # "assign" /\
                                \A q \in Workers : down'[q] = Append(down[q], m)
  PROVE  ExchangeInv'
<1> USE Constants DEF replicas, tables
<1>1. pc'[Root] = label /\ \A r \in Proc \ {Root} : pc'[r] = pc[r]
  BY DEF Goto, TypeOK, ControlTypes
<1>2. TablesInverse' /\ NoMismatch' /\ ReplicaInv'
  BY <1>1 DEF ExchangeInv, TablesInverse, NoMismatch, ReplicaInv, LocalMismatch
<1>3. \A q \in Workers : Pending(q)' <=> Pending(q)
  <2>1. CASE UNCHANGED down
    BY <2>1 DEF Pending, IsAssignment
  <2>2. ASSUME NEW m \in DownMessage, m.op # "assign",
               \A q \in Workers : down'[q] = Append(down[q], m), NEW q \in Workers
        PROVE  Pending(q)' <=> Pending(q)
    <3>1. /\ Len(down[q]) \in Nat /\ Len(down'[q]) = Len(down[q]) + 1
          /\ down'[q][Len(down[q]) + 1] = m
          /\ \A i \in 1..Len(down[q]) : down'[q][i] = down[q][i]
      BY <2>2, SentEntries
    <3>2. ASSUME NEW i \in 1..Len(down'[q]), IsAssignment(down'[q][i])
          PROVE  i \in 1..Len(down[q]) /\ IsAssignment(down[q][i])
      BY <2>2, <3>1, <3>2 DEF IsAssignment
    <3>3. ASSUME NEW i \in 1..Len(down[q]), IsAssignment(down[q][i])
          PROVE  i \in 1..Len(down'[q]) /\ IsAssignment(down'[q][i])
      BY <3>1, <3>3
    <3> QED
      BY <3>2, <3>3 DEF Pending, IsAssignment
  <2> QED
    BY <2>1, <2>2
<1>4. ASSUME NEW q \in Workers PROVE DownInv(q)'
  <2>1. CASE UNCHANGED down
    BY <1>1, <2>1 DEF ExchangeInv, DownInv, IsAssignment, Workers
  <2>2. ASSUME NEW m \in DownMessage, m.op # "assign", down'[q] = Append(down[q], m)
        PROVE  DownInv(q)'
    <3>1. \A i \in 1..Len(down'[q]) : IsAssignment(down'[q][i]) =>
             i \in 1..Len(down[q]) /\ down'[q][i] = down[q][i]
      BY <2>2, SentEntries DEF IsAssignment
    <3>2. DownInv(q) /\ pc'[q] = pc[q]
      BY <1>1 DEF ExchangeInv, Workers
    <3> QED
      BY <3>1, <3>2 DEF DownInv, IsAssignment
  <2> QED
    BY <2>1, <2>2
<1>5. ASSUME NEW q \in Workers PROVE UpInv(q)'
  <2>1. CASE UNCHANGED up
    BY <1>1, <1>3, <2>1 DEF ExchangeInv, UpInv, Workers
  <2>2. ASSUME NEW op, Gathered(op), TakeGathered PROVE UpInv(q)'
    <3>1. /\ Len(up[q]) \in Nat \ {0} /\ Len(up'[q]) = Len(up[q]) - 1
          /\ \A i \in 1..Len(up'[q]) : i + 1 \in 1..Len(up[q]) /\ up'[q][i] = up[q][i + 1]
      BY <2>2, TakenEntries
    <3> QED
      BY <1>1, <1>3, <3>1 DEF ExchangeInv, UpInv, Workers
  <2> QED
    BY <2>1, <2>2
<1>6. WalkInv'
  BY <1>1, <1>3 DEF ExchangeInv, WalkInv
<1> QED
  BY <1>2, <1>4, <1>5, <1>6 DEF ExchangeInv

(* When the exchange is gathered everyone waits, with empty channels, and  *)
(* the gathered control data are those of the parameters in the table.     *)
LEMMA GatherStep ==
  ASSUME TypeOK, ExchangeInv, GatherControlData
  PROVE  ExchangeInv'
<1> USE Constants
<1>1. pc'[Root] = "walk" /\ \A r \in Proc \ {Root} : pc'[r] = pc[r]
  BY DEF GatherControlData, Goto, TypeOK, ControlTypes
<1>u. UNCHANGED <<replica_par, replica_ctrl, local_current_parameter_index,
                  current_process_par, current_par_process, down>>
  BY DEF GatherControlData, replicas
<1>2. TablesInverse' /\ NoMismatch' /\ ReplicaInv'
  BY <1>1, <1>u DEF ExchangeInv, TablesInverse, NoMismatch, ReplicaInv, LocalMismatch
<1>3. \A q \in Workers : Pending(q)' = Pending(q)
  BY <1>u DEF Pending, IsAssignment
<1>4. ASSUME NEW q \in Workers
      PROVE  /\ up'[q] = <<>> /\ pc[q] = "assign" /\ ~Pending(q)
             /\ Head(up[q]).ctrl = current_process_par[q]
  <2>1. /\ Len(up[q]) \in Nat \ {0} /\ Head(up[q]) = up[q][1] /\ up[q][1].op = "exchange"
        /\ Len(up'[q]) = Len(up[q]) - 1
    BY TakenEntries DEF GatherControlData
  <2>2. /\ 1 = Len(up[q]) /\ pc[q] = "assign" /\ ~Pending(q)
        /\ up[q][1].ctrl = replica_ctrl[q]
    <3>1. UpInv(q) /\ 1 \in 1..Len(up[q])
      BY <2>1 DEF ExchangeInv
    <3> QED
      BY <2>1, <3>1 DEF UpInv
  <2>3. replica_ctrl[q] = current_process_par[q]
    BY <2>2 DEF GatherControlData, ExchangeInv, WalkInv, ReplicaInv
  <2>4. up'[q] = Tail(up[q]) /\ up[q] \in Seq(UpMessage)
    BY DEF GatherControlData, TakeGathered, TypeOK, ChannelTypes
  <2>5. up'[q] = <<>>
    <3>1. up'[q] \in Seq(UpMessage) /\ Len(up'[q]) = 0
      BY <2>1, <2>2, <2>4
    <3> QED
      BY <3>1, EmptySeq
  <2> QED
    BY <2>1, <2>2, <2>3, <2>5
<1>5. process_control_data_buffer' = current_process_par
  <2>1. replica_ctrl[Root] = current_process_par[Root]
    BY DEF GatherControlData, ExchangeInv, WalkInv, ReplicaInv
  <2>2. process_control_data_buffer' = [p \in Proc |-> current_process_par[p]]
    BY <1>4, <2>1 DEF GatherControlData, Workers
  <2> QED
    BY <2>2 DEF TypeOK, TableTypes
<1>6. WalkInv'
  BY <1>1, <1>3, <1>4, <1>5, <1>u DEF WalkInv, Workers
<1>7. \A q \in Workers : DownInv(q)' /\ UpInv(q)'
  BY <1>3, <1>4 DEF DownInv, UpInv, Pending
<1> QED
  BY <1>2, <1>6, <1>7 DEF ExchangeInv

(* An accepted proposal swaps the same two processes in both tables and in *)
(* the control data.                                                       *)
LEMMA WalkPermutes ==
  ASSUME TableTypes, TablesInverse, process_control_data_buffer = current_process_par,
         NEW accept \in BOOLEAN, ProposeExchange(accept)
  PROVE  TablesInverse' /\ process_control_data_buffer' = current_process_par'
<1> USE Constants
<1>c. cpi1 \in Par /\ cpi1 + 1 \in Par /\ cpi1 # cpi1 + 1
  BY DEF ProposeExchange, TableTypes, Par
<1>t. /\ current_process_par \in [Proc -> Par] /\ current_par_process \in [Par -> Proc]
      /\ process_control_data_buffer = current_process_par /\ TablesInverse
  BY DEF TableTypes
<1>1. CASE ~accept
  BY <1>1, <1>t DEF ProposeExchange, TablesInverse
<1>2. CASE accept
  <2> DEFINE p1 == current_par_process[cpi1]
             p2 == current_par_process[cpi1 + 1]
  <2>1. /\ p1 \in Proc /\ p2 \in Proc /\ p1 # p2
        /\ current_process_par[p1] = cpi1 /\ current_process_par[p2] = cpi1 + 1
    BY <1>c, <1>t DEF TablesInverse
  <2>2. /\ current_process_par' = [current_process_par EXCEPT ![p1] = cpi1 + 1, ![p2] = cpi1]
        /\ current_par_process' = [current_par_process EXCEPT ![cpi1] = p2, ![cpi1 + 1] = p1]
        /\ process_control_data_buffer' =
             [process_control_data_buffer EXCEPT ![p1] = process_control_data_buffer[p2],
                                                 ![p2] = process_control_data_buffer[p1]]
    BY <1>2 DEF ProposeExchange, SwapReplicas, Exchanged
  <2> HIDE DEF p1, p2
  <2>3. process_control_data_buffer' = current_process_par'
    BY <1>t, <2>1, <2>2
  <2>4. TablesInverse'
    <3>1. \A p \in Proc \ {p1, p2} : /\ current_process_par'[p] = current_process_par[p]
                                     /\ current_process_par[p] \in Par \ {cpi1, cpi1 + 1}
      BY <1>c, <1>t, <2>1, <2>2 DEF TablesInverse, p1, p2
    <3>2. \A c \in Par \ {cpi1, cpi1 + 1} : /\ current_par_process'[c] = current_par_process[c]
                                            /\ current_par_process[c] \in Proc \ {p1, p2}
      BY <1>c, <1>t, <2>1, <2>2 DEF TablesInverse
    <3>3. /\ current_process_par'[p1] = cpi1 + 1 /\ current_process_par'[p2] = cpi1
          /\ current_par_process'[cpi1] = p2 /\ current_par_process'[cpi1 + 1] = p1
      BY <1>c, <1>t, <2>1, <2>2
    <3>4. ASSUME NEW p \in Proc PROVE current_par_process'[current_process_par'[p]] = p
      <4>1. CASE p \notin {p1, p2}
        BY <1>t, <3>1, <3>2, <4>1 DEF TablesInverse
      <4>2. CASE p \in {p1, p2}
        BY <3>3, <4>2
      <4> QED
        BY <4>1, <4>2
    <3>5. ASSUME NEW c \in Par PROVE current_process_par'[current_par_process'[c]] = c
      <4>1. CASE c \notin {cpi1, cpi1 + 1}
        BY <1>t, <3>1, <3>2, <4>1 DEF TablesInverse
      <4>2. CASE c \in {cpi1, cpi1 + 1}
        BY <3>3, <4>2
      <4> QED
        BY <4>1, <4>2
    <3> QED
      BY <3>4, <3>5 DEF TablesInverse
  <2> QED
    BY <2>3, <2>4
<1> QED
  BY <1>1, <1>2

LEMMA ProposalStep ==
  ASSUME TypeOK, ExchangeInv, NEW accept \in BOOLEAN, ProposeExchange(accept)
  PROVE  ExchangeInv'
<1>u. UNCHANGED <<pc, replica_par, replica_ctrl, local_current_parameter_index, up, down>>
  BY DEF ProposeExchange, replicas
<1>1. pc[Root] = "walk"
  BY DEF ProposeExchange
<1>2. TablesInverse' /\ process_control_data_buffer' = current_process_par'
  BY <1>1, WalkPermutes DEF TypeOK, ExchangeInv, WalkInv
<1>3. NoMismatch' /\ ReplicaInv'
  BY <1>u DEF ExchangeInv, NoMismatch, ReplicaInv, LocalMismatch
<1>4. \A q \in Workers : Pending(q)' = Pending(q)
  BY <1>u DEF Pending, IsAssignment
<1>5. \A q \in Workers : up[q] = <<>> /\ pc[q] = "assign" /\ ~Pending(q)
  BY <1>1 DEF ExchangeInv, WalkInv
<1>6. WalkInv'
  BY <1>1, <1>2, <1>4, <1>5, <1>u DEF WalkInv
<1>7. \A q \in Workers : DownInv(q)' /\ UpInv(q)'
  BY <1>4, <1>5, <1>u DEF DownInv, UpInv, Pending
<1> QED
  BY <1>2, <1>3, <1>6, <1>7 DEF ExchangeInv

(* The scatter sends every worker, which waits with an empty channel, what *)
(* the table holds for it; the root is in step at once.                    *)
LEMMA ScatterStep ==
  ASSUME TypeOK, ExchangeInv, ScatterAssignment
  PROVE  ExchangeInv'
<1> USE Constants
<1> DEFINE m(q) == [op |-> "assign", par |-> current_process_par[q],
                    ctrl |-> process_control_data_buffer[q]]
<1>1. pc'[Root] = "check" /\ \A r \in Proc \ {Root} : pc'[r] = pc[r]
  BY DEF ScatterAssignment, Goto, TypeOK, ControlTypes
<1>u. UNCHANGED <<current_process_par, current_par_process, process_control_data_buffer, up>>
  BY DEF ScatterAssignment, tables
<1>2. /\ process_control_data_buffer = current_process_par
      /\ \A q \in Workers : up[q] = <<>> /\ pc[q] = "assign" /\ ~Pending(q)
  BY DEF ScatterAssignment, ExchangeInv, WalkInv
<1>3. ASSUME NEW q \in Workers
      PROVE  /\ Len(down[q]) \in Nat /\ Len(down'[q]) = Len(down[q]) + 1
             /\ down'[q][Len(down[q]) + 1] = m(q)
             /\ \A i \in 1..Len(down[q]) : down'[q][i] = down[q][i]
  <2>1. m(q) \in DownMessage
    BY DEF DownMessage, TypeOK, TableTypes
  <2>2. down'[q] = Append(down[q], m(q))
    BY DEF ScatterAssignment, SendAll
  <2> HIDE DEF m
  <2> QED
    BY <2>1, <2>2, SentEntries
<1>4. ASSUME NEW q \in Workers
      PROVE  /\ Pending(q)'
             /\ \A i \in 1..Len(down'[q]) : IsAssignment(down'[q][i]) =>
                  i = Len(down'[q]) /\ down'[q][i] = m(q)
  <2>1. Len(down'[q]) \in 1..Len(down'[q]) /\ IsAssignment(down'[q][Len(down'[q])])
    <3>1. m(q).op = "assign"
      OBVIOUS
    <3> HIDE DEF m
    <3>2. /\ Len(down'[q]) \in 1..Len(down'[q])
          /\ down'[q][Len(down'[q])] = m(q)
      BY <1>3
    <3> QED
      BY <3>1, <3>2 DEF IsAssignment
  <2>2. Pending(q)'
    BY <2>1 DEF Pending, IsAssignment
  <2>3. ASSUME NEW i \in 1..Len(down'[q]), IsAssignment(down'[q][i])
        PROVE  i = Len(down'[q]) /\ down'[q][i] = m(q)
    <3>1. i \notin 1..Len(down[q])
      <4> HIDE DEF m
      <4>1. \A j \in 1..Len(down[q]) : down[q][j].op # "assign"
        BY <1>2 DEF Pending, IsAssignment
      <4>2. \A j \in 1..Len(down[q]) : down'[q][j] = down[q][j]
        BY <1>3
      <4>3. down'[q][i].op = "assign"
        BY <2>3 DEF IsAssignment
      <4> QED
        BY <4>1, <4>2, <4>3
    <3> QED
      BY <1>3, <3>1
  <2> QED
    BY <2>2, <2>3
<1>5. /\ replica_par' = [replica_par EXCEPT ![Root] = current_process_par[Root]]
      /\ replica_ctrl' = [replica_ctrl EXCEPT ![Root] = current_process_par[Root]]
      /\ local_current_parameter_index' =
           [local_current_parameter_index EXCEPT ![Root] = current_process_par[Root]]
  BY <1>2 DEF ScatterAssignment, TakeAssignment
<1>6. TablesInverse' /\ NoMismatch' /\ ReplicaInv'
  BY <1>1, <1>u, <1>5 DEF ExchangeInv, TablesInverse, NoMismatch, ReplicaInv, LocalMismatch,
     TypeOK, ReplicaTypes
<1>7. WalkInv'
  BY <1>1, <1>4, <1>5, <1>u DEF WalkInv, TypeOK, ReplicaTypes
<1>8. ASSUME NEW q \in Workers PROVE DownInv(q)' /\ UpInv(q)'
  <2>1. pc'[q] = "assign" /\ up'[q] = <<>> /\ m(q).par = current_process_par'[q]
        /\ m(q).ctrl = current_process_par'[q]
    BY <1>1, <1>2, <1>u DEF Workers
  <2> HIDE DEF m
  <2>2. DownInv(q)'
    BY <1>4, <2>1 DEF DownInv, IsAssignment
  <2>3. UpInv(q)'
    BY <2>1 DEF UpInv
  <2> QED
    BY <2>2, <2>3
<1> QED
  BY <1>6, <1>7, <1>8 DEF ExchangeInv

LEMMA MasterExchangeInv ==
  ASSUME TypeOK, ExchangeInv, Master
  PROVE  ExchangeInv'
<1>1. CASE \E stop \in BOOLEAN : BroadcastStop(stop)
  <2>1. PICK stop \in BOOLEAN : BroadcastStop(stop)
    BY <1>1
  <2>2. PICK label \in {"save", "sweep"} : Goto(Root, label)
    BY <2>1 DEF BroadcastStop, AfterStopCheck
  <2>3. [op |-> "stop_now", value |-> stop] \in DownMessage
    BY DEF DownMessage
  <2>4. \E m \in DownMessage : m.op # "assign" /\
           \A q \in Workers : down'[q] = Append(down[q], m)
    <3> WITNESS [op |-> "stop_now", value |-> stop] \in DownMessage
    <3> QED
      BY <2>1 DEF BroadcastStop, SendAll
  <2> QED
    BY <2>1, <2>2, <2>4, RootStep DEF BroadcastStop
<1>2. CASE GatherValues
  BY <1>2, RootStep DEF GatherValues
<1>3. CASE GatherConfigurations
  <2>1. Goto(Root, "save") /\ pc[Root] = "save"
    BY <1>3, Constants DEF GatherConfigurations, Flushing, Goto, TypeOK, ControlTypes
  <2> QED
    BY <1>3, <2>1, RootStep DEF GatherConfigurations
<1>4. CASE OpenBarrier
  <2>1. \E m \in DownMessage : m.op # "assign" /\
           \A q \in Workers : down'[q] = Append(down[q], m)
    <3>1. [op |-> "barrier"] \in DownMessage
      BY DEF DownMessage
    <3> WITNESS [op |-> "barrier"] \in DownMessage
    <3> QED
      BY <1>4 DEF OpenBarrier, SendAll
  <2> QED
    BY <1>4, <2>1, RootStep DEF OpenBarrier
<1>5. CASE GatherControlData
  BY <1>5, GatherStep
<1>6. CASE \E accept \in BOOLEAN : ProposeExchange(accept)
  BY <1>6, ProposalStep
<1>7. CASE ScatterAssignment
  BY <1>7, ScatterStep
<1>8. CASE GatherCheck
  <2>1. /\ pc[Root] = "check" /\ ~LocalMismatch(Root)
        /\ replica_par[Root] = current_process_par[Root]
    BY <1>8, Constants DEF GatherCheck, ExchangeInv, ReplicaInv, WalkInv
  <2>2. Gathered("check") /\ TakeGathered /\ UNCHANGED <<replicas, tables, down>>
    BY <1>8, <2>1 DEF GatherCheck
  <2>3. \A q \in Workers : Head(up[q]).par = current_process_par[q]
    BY <2>2, TakenEntries DEF ExchangeInv, UpInv
  <2>4. LoopTop(Root) \in {"top", "sweep"} /\ Goto(Root, LoopTop(Root))
    BY <1>8, <2>1, <2>3 DEF GatherCheck, LoopTop
  <2> QED
    BY <2>1, <2>2, <2>4, RootStep
<1> QED
  BY <1>1, <1>2, <1>3, <1>4, <1>5, <1>6, <1>7, <1>8 DEF Master

(* ExchangeInv is an invariant of the driver.                              *)
THEOREM ExchangeSafe == Spec => []ExchangeInv
<1>1. TypeOK /\ ExchangeInv /\ [Next]_vars => ExchangeInv'
  <2> SUFFICES ASSUME TypeOK, ExchangeInv, [Next]_vars PROVE ExchangeInv'
    OBVIOUS
  <2>1. CASE UNCHANGED vars
    BY <2>1 DEF vars, replicas, tables, ExchangeInv, TablesInverse, NoMismatch, ReplicaInv,
       LocalMismatch, WalkInv, Pending, DownInv, UpInv, IsAssignment
  <2>2. CASE \E p \in Proc : Local(p)
    BY <2>2, LocalExchangeInv
  <2>3. CASE \E q \in Workers : Worker(q)
    BY <2>3, WorkerExchangeInv
  <2>4. CASE Master
    BY <2>4, MasterExchangeInv
  <2>5. CASE Terminated
    BY <2>1, <2>5 DEF Terminated
  <2> QED
    BY <2>1, <2>2, <2>3, <2>4, <2>5 DEF Next
<1> QED
  BY <1>1, InitialExchangeInv, TypeCorrect, PTL DEF Spec

(* No parameter is ever held by two processes or by none, whatever the     *)
(* walk of replicaExchangeStep accepts.                                    *)
THEOREM TablesStayInverse == Spec => []TablesInverse
<1>1. ExchangeInv => TablesInverse
  BY DEF ExchangeInv
<1> QED
  BY <1>1, ExchangeSafe, PTL

(* replicaExchangeConsistencyCheck never throws.                           *)
THEOREM CheckNeverThrows == Spec => []NoMismatch
<1>1. ExchangeInv => NoMismatch
  BY DEF ExchangeInv
<1> QED
  BY <1>1, ExchangeSafe, PTL

(* Step sizes and update statistics travel with their control parameter.   *)
THEOREM ControlDataStays == Spec => []ControlDataFollowsParameter
<1>1. ExchangeInv => ControlDataFollowsParameter
  BY DEF ExchangeInv, ReplicaInv, WalkInv, ControlDataFollowsParameter
<1> QED
  BY <1>1, ExchangeSafe, PTL

-----------------------------------------------------------------------------
(* How far the walk carries a replica: what it has passed has gone down by *)
(* one at most, the replica it stands at has not gone down, and what it    *)
(* has yet to reach is where it was.                                       *)
WalkedInv ==
  \A p \in Proc :
    /\ current_process_par[p] >= replica_par[p] - 1
    /\ pc[Root] = "walk" =>
         /\ current_process_par[p] = cpi1 => current_process_par[p] >= replica_par[p]
         /\ current_process_par[p] > cpi1 => current_process_par[p] = replica_par[p]

(* Most steps are not part of an exchange.                                 *)
Elsewhere ==
  /\ UNCHANGED <<current_process_par, replica_par, es>>
  /\ pc'[Root] = "walk" <=> pc[Root] = "walk"
  /\ pc'[Root] = "walk" => cpi1' = cpi1

LEMMA StepsElsewhere ==
  ASSUME TypeOK, [Next]_vars
  PROVE  \/ Elsewhere
         \/ GatherControlData
         \/ \E accept \in BOOLEAN : ProposeExchange(accept)
         \/ ScatterAssignment
         \/ \E q \in Workers : HearAssignment(q)
<1> USE Constants DEF Goto, TypeOK, ControlTypes, replicas, tables
<1>1. CASE \E p \in Proc : Local(p)
  BY <1>1 DEF Local, SweepThermalization, Sweep, CountSweep, Save, AfterSave, EndSweep, Elsewhere
<1>2. CASE \E q \in Workers : Worker(q)
  <2>1. PICK q \in Workers : Worker(q)
    BY <1>2
  <2>2. CASE HearAssignment(q)
    BY <2>2
  <2>3. CASE HearStop(q) \/ SendValue(q) \/ SendConfiguration(q)
    BY <2>3 DEF HearStop, AfterStopCheck, SendValue, SendConfiguration, Elsewhere, Workers
  <2>4. CASE EnterBarrier(q) \/ LeaveBarrier(q) \/ SendControlData(q)
    BY <2>4 DEF EnterBarrier, LeaveBarrier, SendControlData, Elsewhere, Workers
  <2>5. CASE SendCheck(q)
    BY <2>5 DEF SendCheck, LoopTop, Elsewhere, Workers
  <2> QED
    BY <2>1, <2>2, <2>3, <2>4, <2>5 DEF Worker
<1>3. CASE \E stop \in BOOLEAN : BroadcastStop(stop)
  BY <1>3 DEF BroadcastStop, AfterStopCheck, Elsewhere
<1>4. CASE GatherValues \/ GatherConfigurations \/ OpenBarrier
  BY <1>4 DEF GatherValues, GatherConfigurations, Flushing, OpenBarrier, Elsewhere
<1>5. CASE GatherCheck
  BY <1>5 DEF GatherCheck, LoopTop, Elsewhere
<1>6. CASE Terminated \/ UNCHANGED vars
  BY <1>6 DEF Terminated, vars, Elsewhere
<1> QED
  BY <1>1, <1>2, <1>3, <1>4, <1>5, <1>6 DEF Next, Master

(* A worker is assigned what the table says.                               *)
LEMMA AssignedByTable ==
  ASSUME TypeOK, ExchangeInv, NEW q \in Workers, HearAssignment(q)
  PROVE  /\ pc'[Root] # "walk" /\ UNCHANGED current_process_par
         /\ replica_par' = [replica_par EXCEPT ![q] = current_process_par[q]]
<1> USE Constants
<1>1. down[q] \in Seq(DownMessage) /\ down[q] # <<>> /\ Head(down[q]).op = "assign"
  BY DEF TypeOK, ChannelTypes, HearAssignment, Told
<1>2. 1 \in 1..Len(down[q]) /\ Head(down[q]) = down[q][1]
  BY <1>1
<1>3. Pending(q) /\ Head(down[q]).par = current_process_par[q]
  BY <1>1, <1>2 DEF ExchangeInv, DownInv, IsAssignment, Pending
<1>4. pc[Root] # "walk"
  BY <1>3 DEF ExchangeInv, WalkInv
<1> QED
  BY <1>3, <1>4 DEF HearAssignment, TakeAssignment, Goto, tables, TypeOK, ControlTypes

(* When a walk begins everybody is where the table says.                   *)
LEMMA WalkBegins ==
  ASSUME TypeOK, ExchangeInv, GatherControlData
  PROVE  /\ UNCHANGED <<current_process_par, replica_par>>
         /\ \A p \in Proc : current_process_par[p] = replica_par[p]
<1> USE Constants
<1>1. UNCHANGED <<current_process_par, replica_par>> /\ pc[Root] = "exchange"
  BY DEF GatherControlData, replicas
<1>2. \A q \in Workers : ~Pending(q)
  <2> TAKE q \in Workers
  <2>1. Gathered("exchange") /\ TakeGathered
    BY DEF GatherControlData
  <2>2. 1 \in 1..Len(up[q]) /\ up[q][1].op = "exchange"
    BY <2>1, TakenEntries
  <2> QED
    BY <2>2 DEF ExchangeInv, UpInv
<1>3. /\ replica_par[Root] = current_process_par[Root]
      /\ \A q \in Workers : replica_par[q] = current_process_par[q]
  BY <1>1, <1>2 DEF ExchangeInv, WalkInv
<1> QED
  BY <1>1, <1>3 DEF Workers

LEMMA WalkProceeds ==
  ASSUME TypeOK, TablesInverse, WalkedInv, NEW accept \in BOOLEAN, ProposeExchange(accept)
  PROVE  WalkedInv' /\ UNCHANGED replica_par
<1> USE Constants
<1>1. /\ pc[Root] = "walk" /\ cpi1 \in Par /\ cpi1 + 1 \in Par /\ cpi1' = cpi1 + 1
      /\ UNCHANGED <<pc, replica_par>>
  BY DEF ProposeExchange, replicas, TypeOK, TableTypes, Par
<1>2. /\ current_process_par \in [Proc -> Par] /\ current_par_process \in [Par -> Proc]
      /\ replica_par \in [Proc -> Par]
  BY DEF TypeOK, TableTypes, ReplicaTypes
<1> DEFINE p1 == current_par_process[cpi1]
           p2 == current_par_process[cpi1 + 1]
<1>3. /\ p1 \in Proc /\ p2 \in Proc
      /\ current_process_par[p1] = cpi1 /\ current_process_par[p2] = cpi1 + 1
      /\ \A p \in Proc \ {p1, p2} : current_process_par[p] \notin {cpi1, cpi1 + 1}
  BY <1>1, <1>2 DEF TablesInverse
<1>4. CASE ~accept
  <2>1. UNCHANGED current_process_par
    BY <1>4 DEF ProposeExchange
  <2>2. ASSUME NEW p \in Proc
        PROVE  /\ current_process_par[p] >= replica_par[p] - 1
               /\ current_process_par[p] = cpi1 + 1 => current_process_par[p] >= replica_par[p]
               /\ current_process_par[p] > cpi1 + 1 => current_process_par[p] = replica_par[p]
    <3>1. cpi1 \in Int /\ current_process_par[p] \in Int /\ replica_par[p] \in Int
      BY <1>1, <1>2
    <3> QED
      BY <1>1, <3>1 DEF WalkedInv
  <2> QED
    BY <1>1, <2>1, <2>2 DEF WalkedInv
<1>5. CASE accept
  <2>1. current_process_par' = [current_process_par EXCEPT ![p1] = cpi1 + 1, ![p2] = cpi1]
    BY <1>5 DEF ProposeExchange, SwapReplicas
  <2>2. /\ current_process_par'[p1] = cpi1 + 1 /\ current_process_par'[p2] = cpi1
        /\ \A p \in Proc \ {p1, p2} : current_process_par'[p] = current_process_par[p]
    BY <1>2, <1>3, <2>1
  <2>3. /\ cpi1 >= replica_par[p1] /\ cpi1 + 1 = replica_par[p2]
    <3>1. cpi1 \in Int /\ cpi1 + 1 > cpi1
      BY <1>1
    <3> QED
      BY <1>1, <1>3, <3>1 DEF WalkedInv
  <2> SUFFICES ASSUME NEW p \in Proc
               PROVE  /\ current_process_par'[p] >= replica_par[p] - 1
                      /\ current_process_par'[p] = cpi1 + 1 =>
                           current_process_par'[p] >= replica_par[p]
                      /\ current_process_par'[p] > cpi1 + 1 =>
                           current_process_par'[p] = replica_par[p]
    BY <1>1 DEF WalkedInv
  <2>4. replica_par[p] \in Int /\ cpi1 \in Int /\ current_process_par[p] \in Int
    BY <1>1, <1>2
  <2>5. CASE p = p1
    BY <2>2, <2>3, <2>4, <2>5
  <2>6. CASE p = p2
    BY <2>2, <2>3, <2>4, <2>6
  <2>7. CASE p \notin {p1, p2}
    BY <1>1, <1>3, <2>2, <2>4, <2>7 DEF WalkedInv
  <2> QED
    BY <2>5, <2>6, <2>7
<1> QED
  BY <1>1, <1>4, <1>5

LEMMA WalkedStep ==
  ASSUME TypeOK, ExchangeInv, WalkedInv, [Next]_vars
  PROVE  WalkedInv' /\ \A p \in Proc : replica_par'[p] >= replica_par[p] - 1
<1> USE Constants
<1>t. /\ current_process_par \in [Proc -> Par] /\ replica_par \in [Proc -> Par]
      /\ \A p \in Proc : current_process_par[p] \in Int /\ replica_par[p] \in Int
  BY DEF TypeOK, TableTypes, ReplicaTypes
<1>1. CASE Elsewhere
  BY <1>1, <1>t DEF Elsewhere, WalkedInv
<1>2. CASE GatherControlData
  BY <1>2, <1>t, WalkBegins DEF WalkedInv
<1>3. CASE \E accept \in BOOLEAN : ProposeExchange(accept)
  BY <1>3, <1>t, WalkProceeds DEF ExchangeInv
<1>4. CASE ScatterAssignment
  <2>1. /\ UNCHANGED current_process_par /\ pc'[Root] # "walk"
        /\ replica_par' = [replica_par EXCEPT ![Root] = current_process_par[Root]]
    BY <1>4 DEF ScatterAssignment, TakeAssignment, Goto, tables, TypeOK, ControlTypes
  <2> QED
    BY <2>1, <1>t DEF WalkedInv
<1>5. CASE \E q \in Workers : HearAssignment(q)
  <2>1. PICK q \in Workers : HearAssignment(q)
    BY <1>5
  <2>2. /\ pc'[Root] # "walk" /\ UNCHANGED current_process_par
        /\ replica_par' = [replica_par EXCEPT ![q] = current_process_par[q]]
    BY <2>1, AssignedByTable
  <2> QED
    BY <2>2, <1>t DEF WalkedInv
<1> QED
  BY <1>1, <1>2, <1>3, <1>4, <1>5, StepsElsewhere

(* An exchange step can carry a replica up by many parameters but down by  *)
(* one at most, since replicaExchangeStep walks upwards.                   *)
THEOREM WalkGoesDownByOne == Spec => DownByOneAtMost
<1>1. Init => WalkedInv
  BY Constants DEF Init, WalkedInv
<1>2. TypeOK /\ ExchangeInv /\ WalkedInv /\ [Next]_vars =>
        WalkedInv' /\ [\A p \in Proc : replica_par'[p] >= replica_par[p] - 1]_vars
  BY WalkedStep
<1> QED
  BY <1>1, <1>2, TypeCorrect, ExchangeSafe, PTL DEF Spec, DownByOneAtMost

-----------------------------------------------------------------------------
(* The exchange statistics of the root count what happened, for every     *)
(* number of processes: the walk proposes every neighbouring pair once per *)
(* exchange step, and one replica counts at the lower end, as coming from  *)
(* there.                                                                  *)

(* While the root walks, the pairs it has passed are one proposal ahead of *)
(* those that are still to come.                                           *)
ToCome(c) == pc[Root] = "walk" /\ c >= cpi1
CountedInv ==
  /\ NumProcesses > 1 => es.countGoingUp[MaxPar] = 0 /\ es.countGoingDown[0] = 0
  /\ \A c \in Par : es.swapUpAccepted[c] <= es.swapUpProposed[c]
  /\ es.swapUpProposed[MaxPar] = 0
  /\ \A c \in Par \ {MaxPar} :
       es.countGoingUp[0] = IF ToCome(c) THEN es.swapUpProposed[c] + 1
                                         ELSE es.swapUpProposed[c]

LEMMA InitialCountedInv == Init => CountedInv
BY Constants DEF Init, InitialStatistics, CountedInv, ToCome, MaxPar, Par

(* At the lower end there is one process, and it is headed upwards; at the *)
(* upper end none is, and at the lower end none is headed downwards.       *)
LEMMA EndsOfLadder ==
  ASSUME TypeOK, ExchangeInv, NumProcesses > 1
  PROVE  /\ Cardinality(HeadedThere(0, "UP_P")) = 1
         /\ Cardinality(HeadedThere(0, "DOWN_P")) = 0
         /\ Cardinality(HeadedThere(MaxPar, "UP_P")) = 0
<1> USE Constants
<1>0. 0 \in Par /\ MaxPar \in Par /\ MaxPar # 0
  BY DEF MaxPar, Par
<1> DEFINE p == current_par_process[0]
<1>1. /\ p \in Proc /\ current_process_par[p] = 0
      /\ \A r \in Proc : current_process_par[r] = 0 => r = p
  BY <1>0 DEF ExchangeInv, TablesInverse, TypeOK, TableTypes
<1> HIDE DEF p
<1>2. HeadedThere(0, "UP_P") = {p}
  BY <1>0, <1>1 DEF HeadedThere, NewDirection
<1>3. HeadedThere(0, "DOWN_P") = {} /\ HeadedThere(MaxPar, "UP_P") = {}
  BY <1>0 DEF HeadedThere, NewDirection
<1> QED
  BY <1>2, <1>3, FS_Singleton, FS_EmptySet

LEMMA GatherCountedInv ==
  ASSUME TypeOK, ExchangeInv, CountedInv, GatherControlData
  PROVE  CountedInv'
<1> USE Constants
<1>1. pc[Root] # "walk" /\ pc'[Root] = "walk" /\ cpi1' = 0
  BY DEF GatherControlData, Goto, TypeOK, ControlTypes
<1>2. es \in Statistics
  BY DEF TypeOK, TableTypes
<1>3. /\ es'.swapUpProposed = es.swapUpProposed /\ es'.swapUpAccepted = es.swapUpAccepted
      /\ \A c \in Par :
           /\ es'.countGoingUp[c] = es.countGoingUp[c] + Cardinality(HeadedThere(c, "UP_P"))
           /\ es'.countGoingDown[c] = es.countGoingDown[c] + Cardinality(HeadedThere(c, "DOWN_P"))
  BY <1>2 DEF GatherControlData, UpdateHistograms, Statistics
<1>4. CASE NumProcesses > 1
  <2>1. /\ es'.countGoingUp[0] = es.countGoingUp[0] + 1
        /\ es'.countGoingUp[MaxPar] = 0 /\ es'.countGoingDown[0] = 0
    <3>1. 0 \in Par /\ MaxPar \in Par
      BY DEF Par
    <3>2. /\ Cardinality(HeadedThere(0, "UP_P")) = 1
          /\ Cardinality(HeadedThere(0, "DOWN_P")) = 0
          /\ Cardinality(HeadedThere(MaxPar, "UP_P")) = 0
      BY <1>4, EndsOfLadder
    <3>3. es.countGoingUp[MaxPar] = 0 /\ es.countGoingDown[0] = 0
      BY <1>4 DEF CountedInv
    <3>4. /\ es'.countGoingUp[0] = es.countGoingUp[0] + Cardinality(HeadedThere(0, "UP_P"))
          /\ es'.countGoingUp[MaxPar] =
               es.countGoingUp[MaxPar] + Cardinality(HeadedThere(MaxPar, "UP_P"))
          /\ es'.countGoingDown[0] = es.countGoingDown[0] + Cardinality(HeadedThere(0, "DOWN_P"))
      BY <1>3, <3>1
    <3> QED
      BY <3>2, <3>3, <3>4
  <2>2. ASSUME NEW c \in Par \ {MaxPar}
        PROVE  /\ ToCome(c)' /\ es.countGoingUp[0] = es.swapUpProposed[c]
    <3>1. c >= 0
      BY DEF Par
    <3> QED
      BY <1>1, <3>1 DEF CountedInv, ToCome
  <2> QED
    BY <1>2, <1>3, <2>1, <2>2 DEF CountedInv, Statistics
<1>5. CASE ~(NumProcesses > 1)
  <2>1. Par \ {MaxPar} = {}
    BY <1>5 DEF Par, MaxPar
  <2> QED
    BY <1>3, <1>5, <2>1 DEF CountedInv
<1> QED
  BY <1>4, <1>5

LEMMA ProposalCountedInv ==
  ASSUME TypeOK, CountedInv, NEW accept \in BOOLEAN, ProposeExchange(accept)
  PROVE  CountedInv'
<1> USE Constants
<1>1. /\ pc[Root] = "walk" /\ UNCHANGED pc /\ cpi1 \in Par /\ cpi1 < MaxPar /\ cpi1' = cpi1 + 1
  BY DEF ProposeExchange, TypeOK, TableTypes, MaxPar
<1>2. es \in Statistics
  BY DEF TypeOK, TableTypes
<1>3. /\ es'.countGoingUp = es.countGoingUp /\ es'.countGoingDown = es.countGoingDown
      /\ es'.swapUpProposed = [es.swapUpProposed EXCEPT ![cpi1] = @ + 1]
      /\ es'.swapUpAccepted = [es.swapUpAccepted EXCEPT ![cpi1] = IF accept THEN @ + 1 ELSE @]
  BY <1>1, <1>2 DEF ProposeExchange, CountProposal, Statistics
<1>4. \A c \in Par : es'.swapUpAccepted[c] <= es'.swapUpProposed[c]
  <2> TAKE c \in Par
  <2>1. es.swapUpAccepted[c] <= es.swapUpProposed[c]
    BY DEF CountedInv
  <2>2. es.swapUpAccepted[c] \in Nat /\ es.swapUpProposed[c] \in Nat
    BY <1>2 DEF Statistics
  <2>3. CASE c = cpi1
    BY <1>2, <1>3, <2>1, <2>2, <2>3 DEF Statistics
  <2>4. CASE c # cpi1
    BY <1>2, <1>3, <2>1, <2>4 DEF Statistics
  <2> QED
    BY <2>3, <2>4
<1>5. ASSUME NEW c \in Par \ {MaxPar}
      PROVE  es'.countGoingUp[0] = IF ToCome(c)' THEN es'.swapUpProposed[c] + 1
                                                ELSE es'.swapUpProposed[c]
  <2>1. es.countGoingUp[0] = IF ToCome(c) THEN es.swapUpProposed[c] + 1
                                          ELSE es.swapUpProposed[c]
    BY DEF CountedInv
  <2>2. CASE c = cpi1
    <3>1. ToCome(c) /\ ~ToCome(c)' /\ es'.swapUpProposed[c] = es.swapUpProposed[c] + 1
      BY <1>1, <1>2, <1>3, <2>2 DEF ToCome, Statistics
    <3> QED
      BY <1>3, <2>1, <3>1
  <2>3. CASE c # cpi1
    <3>1. (ToCome(c)' <=> ToCome(c)) /\ es'.swapUpProposed[c] = es.swapUpProposed[c]
      BY <1>1, <1>2, <1>3, <2>3 DEF ToCome, Statistics
    <3> QED
      BY <1>3, <2>1, <3>1
  <2> QED
    BY <2>2, <2>3
<1>6. es'.swapUpProposed[MaxPar] = 0
  BY <1>1, <1>2, <1>3 DEF CountedInv, Statistics
<1> QED
  BY <1>3, <1>4, <1>5, <1>6 DEF CountedInv

(* The walk ends when the last pair has had its turn.                      *)
LEMMA ScatterCountedInv ==
  ASSUME TypeOK, CountedInv, ScatterAssignment
  PROVE  CountedInv'
<1> USE Constants
<1>1. cpi1 = MaxPar /\ pc'[Root] = "check" /\ UNCHANGED <<es, cpi1>>
  BY DEF ScatterAssignment, Goto, TypeOK, ControlTypes, MaxPar, tables
<1>2. \A c \in Par \ {MaxPar} : ~ToCome(c) /\ ~ToCome(c)'
  BY <1>1 DEF ToCome, Par, MaxPar
<1> QED
  BY <1>1, <1>2 DEF CountedInv

LEMMA AsideCountedInv ==
  ASSUME CountedInv, UNCHANGED <<es, cpi1>>, pc'[Root] = "walk" <=> pc[Root] = "walk"
  PROVE  CountedInv'
BY DEF CountedInv, ToCome

LEMMA NextCountedInv ==
  ASSUME TypeOK, ExchangeInv, CountedInv, [Next]_vars
  PROVE  CountedInv'
<1> USE Constants
<1> USE DEF tables
<1>t. pc \in [Proc -> Labels]
  BY DEF TypeOK, ControlTypes
<1>1. CASE UNCHANGED vars \/ Terminated
  BY <1>1, AsideCountedInv DEF vars, Terminated
<1>2. ASSUME NEW p \in Proc, Local(p) PROVE CountedInv'
  <2>1. UNCHANGED <<es, cpi1>>
    BY <1>2 DEF Local, SweepThermalization, Sweep, CountSweep, Save, EndSweep
  <2>2. pc'[Root] = "walk" <=> pc[Root] = "walk"
    BY <1>2, <1>t DEF Local, SweepThermalization, Sweep, CountSweep, Save, AfterSave, EndSweep, Goto
  <2> QED
    BY <2>1, <2>2, AsideCountedInv
<1>3. ASSUME NEW q \in Workers, Worker(q) PROVE CountedInv'
  <2>1. UNCHANGED <<es, cpi1>>
    BY <1>3 DEF Worker, HearStop, SendValue, SendConfiguration, EnterBarrier, LeaveBarrier,
       SendControlData, HearAssignment, SendCheck
  <2>2. pc'[Root] = pc[Root]
    BY <1>3, <1>t DEF Worker, HearStop, AfterStopCheck, SendValue, SendConfiguration,
       EnterBarrier, LeaveBarrier, SendControlData, HearAssignment, SendCheck, Goto, Workers
  <2> QED
    BY <2>1, <2>2, AsideCountedInv
<1>4. CASE \/ \E stop \in BOOLEAN : BroadcastStop(stop)
           \/ GatherValues \/ GatherConfigurations \/ OpenBarrier \/ GatherCheck
  <2>1. UNCHANGED <<es, cpi1>>
    BY <1>4 DEF BroadcastStop, GatherValues, GatherConfigurations, OpenBarrier, GatherCheck
  <2>2. pc[Root] # "walk" /\ pc'[Root] # "walk"
    BY <1>4, <1>t DEF BroadcastStop, AfterStopCheck, GatherValues, GatherConfigurations,
       Flushing, OpenBarrier, GatherCheck, LoopTop, Goto
  <2> QED
    BY <2>1, <2>2, AsideCountedInv
<1> QED
  BY <1>1, <1>2, <1>3, <1>4, GatherCountedInv, ProposalCountedInv, ScatterCountedInv
     DEF Next, Master

(* A replica counted as coming from the upper end has been counted at      *)
(* every parameter above it: the walk brings it down by one at most, and   *)
(* the next exchange step counts it there.                                 *)
Above(p) == IF pc[Root] = "walk" THEN replica_par[p] ELSE current_process_par[p] + 1
FromTopInv ==
  /\ \A p \in Proc, d \in Par :
       es.goingWhere[p] = "DOWN_P" /\ d >= Above(p) => es.countGoingDown[d] > 0
  /\ \A c, d \in Par : c <= d /\ es.countGoingDown[c] > 0 => es.countGoingDown[d] > 0

LEMMA GatherFromTopInv ==
  ASSUME TypeOK, ExchangeInv, FromTopInv, GatherControlData
  PROVE  FromTopInv'
<1> USE Constants
<1>1. pc[Root] # "walk" /\ pc'[Root] = "walk"
  BY DEF GatherControlData, Goto, TypeOK, ControlTypes
<1>2. es \in Statistics /\ current_process_par \in [Proc -> Par]
  BY DEF TypeOK, TableTypes
<1>3. \A p \in Proc : replica_par'[p] = current_process_par[p]
  BY WalkBegins
<1>4. /\ \A p \in Proc : es'.goingWhere[p] = NewDirection(p)
      /\ \A c \in Par : es'.countGoingDown[c] =
                         es.countGoingDown[c] + Cardinality(HeadedThere(c, "DOWN_P"))
  BY <1>2 DEF GatherControlData, UpdateHistograms, Statistics
<1>5. ASSUME NEW c \in Par
      PROVE  /\ es.countGoingDown[c] > 0 => es'.countGoingDown[c] > 0
             /\ es'.countGoingDown[c] > 0 =>
                  es.countGoingDown[c] > 0 \/ HeadedThere(c, "DOWN_P") # {}
             /\ HeadedThere(c, "DOWN_P") # {} => es'.countGoingDown[c] > 0
  <2>1. IsFiniteSet(Proc) /\ HeadedThere(c, "DOWN_P") \subseteq Proc
    BY FS_Interval DEF Proc, HeadedThere
  <2>2. IsFiniteSet(HeadedThere(c, "DOWN_P"))
    BY <2>1, FS_Subset
  <2>3. /\ Cardinality(HeadedThere(c, "DOWN_P")) \in Nat
        /\ Cardinality(HeadedThere(c, "DOWN_P")) = 0 <=> HeadedThere(c, "DOWN_P") = {}
    BY <2>2, FS_CardinalityType, FS_EmptySet
  <2>4. es.countGoingDown[c] \in Nat
    BY <1>2 DEF Statistics
  <2> QED
    BY <1>4, <2>3, <2>4
<1>6. ASSUME NEW p \in Proc, NEW d \in Par, NewDirection(p) = "DOWN_P",
             d >= current_process_par[p]
      PROVE  es'.countGoingDown[d] > 0
  <2>1. CASE d = current_process_par[p]
    <3>1. p \in HeadedThere(d, "DOWN_P")
      BY <1>6, <2>1 DEF HeadedThere
    <3> QED
      BY <1>5, <3>1
  <2>2. CASE d # current_process_par[p]
    <3>1. current_process_par[p] # MaxPar /\ d >= current_process_par[p] + 1
      BY <1>2, <1>6, <2>2 DEF Par, MaxPar
    <3>2. es.goingWhere[p] = "DOWN_P"
      BY <1>6, <3>1 DEF NewDirection
    <3>3. es.countGoingDown[d] > 0
      BY <1>1, <3>1, <3>2 DEF FromTopInv, Above
    <3> QED
      BY <1>5, <3>3
  <2> QED
    BY <2>1, <2>2
<1>7. ASSUME NEW c \in Par, NEW d \in Par, c <= d, es'.countGoingDown[c] > 0
      PROVE  es'.countGoingDown[d] > 0
  <2>1. CASE es.countGoingDown[c] > 0
    BY <1>5, <1>7, <2>1 DEF FromTopInv
  <2>2. CASE HeadedThere(c, "DOWN_P") # {}
    <3>1. PICK p \in Proc : current_process_par[p] = c /\ NewDirection(p) = "DOWN_P"
      BY <2>2 DEF HeadedThere
    <3> QED
      BY <1>6, <1>7, <3>1
  <2> QED
    BY <1>5, <1>7, <2>1, <2>2
<1> QED
  BY <1>1, <1>3, <1>4, <1>6, <1>7 DEF FromTopInv, Above

LEMMA NextFromTopInv ==
  ASSUME TypeOK, ExchangeInv, WalkedInv, FromTopInv, [Next]_vars
  PROVE  FromTopInv'
<1> USE Constants
<1>t. /\ es \in Statistics /\ pc \in [Proc -> Labels]
      /\ \A p \in Proc : current_process_par[p] \in Int /\ replica_par[p] \in Int
      /\ Par \subseteq Int
  BY DEF TypeOK, TableTypes, ReplicaTypes, ControlTypes, Par
<1>1. CASE GatherControlData
  BY <1>1, GatherFromTopInv
<1>2. ASSUME /\ es'.goingWhere = es.goingWhere /\ es'.countGoingDown = es.countGoingDown
             /\ \A p \in Proc : Above(p)' >= Above(p) /\ Above(p)' \in Int /\ Above(p) \in Int
      PROVE  FromTopInv'
  BY <1>t, <1>2 DEF FromTopInv
<1>3. CASE \E accept \in BOOLEAN : ProposeExchange(accept)
  <2>1. PICK accept \in BOOLEAN : ProposeExchange(accept)
    BY <1>3
  <2>2. es'.goingWhere = es.goingWhere /\ es'.countGoingDown = es.countGoingDown
    BY <1>t, <2>1 DEF ProposeExchange, CountProposal, Statistics
  <2>3. pc' = pc /\ replica_par' = replica_par /\ pc[Root] = "walk"
    BY <2>1 DEF ProposeExchange, replicas
  <2>4. ASSUME NEW p \in Proc
        PROVE  Above(p)' >= Above(p) /\ Above(p)' \in Int /\ Above(p) \in Int
    <3>1. Above(p)' = replica_par[p] /\ Above(p) = replica_par[p]
      BY <2>3 DEF Above
    <3> QED
      BY <1>t, <3>1
  <2> QED
    BY <1>2, <2>2, <2>4
<1>4. CASE ScatterAssignment
  <2>1. /\ UNCHANGED <<current_process_par, es>>
        /\ pc[Root] = "walk" /\ pc'[Root] = "check"
    BY <1>4, <1>t DEF ScatterAssignment, Goto, tables
  <2> QED
    BY <1>t, <1>2, <2>1 DEF Above, WalkedInv
<1>5. CASE \E q \in Workers : HearAssignment(q)
  <2>1. PICK q \in Workers : HearAssignment(q)
    BY <1>5
  <2>2. UNCHANGED es /\ pc'[Root] = pc[Root]
    BY <1>t, <2>1 DEF HearAssignment, Goto, tables, Workers
  <2>3. pc'[Root] # "walk" /\ UNCHANGED current_process_par
    BY <2>1, AssignedByTable
  <2> QED
    BY <1>t, <1>2, <2>2, <2>3 DEF Above
<1>6. CASE Elsewhere
  BY <1>t, <1>2, <1>6 DEF Elsewhere, Above
<1> QED
  BY <1>1, <1>3, <1>4, <1>5, <1>6, StepsElsewhere

(* The exchange statistics count what happened: at every moment outside    *)
(* the walk of an exchange step every neighbouring pair has been proposed  *)
(* as often as a replica was counted at the lower end, no more exchanges   *)
(* were accepted than proposed, and the counts of replicas that come from  *)
(* the upper end have no gap.                                              *)
THEOREM StatisticsCount == Spec => []StatisticsSound
<1>1. TypeOK /\ CountedInv /\ FromTopInv => StatisticsSound
  <2> SUFFICES ASSUME TypeOK, CountedInv, FromTopInv
               PROVE  StatisticsSound
    OBVIOUS
  <2> USE Constants
  <2>1. es \in Statistics /\ 0 \in Par /\ MaxPar \in Par
    BY DEF TypeOK, TableTypes, Par, MaxPar
  <2>2. NoGapBelowTop(es.countGoingDown)
    BY DEF FromTopInv, NoGapBelowTop
  <2>3. NoGapBelowTop(es.countGoingUp)
    <3>1. CASE NumProcesses > 1
      BY <3>1 DEF CountedInv, NoGapBelowTop
    <3>2. CASE ~(NumProcesses > 1)
      BY <3>2 DEF NoGapBelowTop, Par
    <3> QED
      BY <3>1, <3>2
  <2>4. ASSUME pc[Root] # "walk", NEW c \in Par \ {MaxPar}
        PROVE  es.swapUpProposed[c] = es.countGoingUp[0] + es.countGoingDown[0]
    <3>1. NumProcesses > 1
      BY <2>4 DEF Par, MaxPar
    <3>2. es.countGoingDown[0] = 0 /\ es.countGoingUp[0] = es.swapUpProposed[c]
      BY <2>4, <3>1 DEF CountedInv, ToCome
    <3>3. es.swapUpProposed[c] \in Nat
      BY <2>1 DEF Statistics
    <3> QED
      BY <3>2, <3>3
  <2> QED
    BY <2>2, <2>3, <2>4 DEF CountedInv, StatisticsSound
<1>2. Init => WalkedInv /\ FromTopInv
  BY Constants DEF Init, InitialStatistics, WalkedInv, FromTopInv
<1>3. TypeOK /\ ExchangeInv /\ WalkedInv /\ [Next]_vars => WalkedInv'
  BY WalkedStep
<1> QED
  BY <1>1, <1>2, <1>3, NextFromTopInv, NextCountedInv, InitialCountedInv, TypeCorrect,
     ExchangeSafe, PTL DEF Spec
=============================================================================
