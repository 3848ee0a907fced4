# A TLA+ verification of detqmc

detqmc runs determinantal quantum Monte Carlo simulations of lattice electrons (a Hubbard model and a
spin-density-wave model, "SDW").  A simulation is a long loop of *sweeps* over a space-time lattice that is
interrupted by measurements, by saving results and state, by exchanges between replicas that run on different
MPI processes, and by a batch system that stops it and later resumes it.  Its numerics cannot be checked by a
model checker.  Its control can: which process talks to which and when, what is on disk after which step, which
cached matrix belongs to which field.  That control is what a test hardly reaches (the repository has none) and
where an error would not crash but give wrong physics.

All sources are below `src/src/`.

## Inventory

| component | state it keeps | operations | hard behaviour | correct when |
|---|---|---|---|---|
| **Replica-exchange driver** `detqmcpt.h` | per process: stage, sweep counters, `swCounter`, parameter index; root: `current_process_par`, `current_par_process`, gathered control data, `ExchangeStatistics`; state file per process | `run` loop, `save`, `replicaExchangeStep`, `replicaExchangeConsistencyCheck`, `gather_and_output_buffered_system_configurations`, resume | processes run at their own speed and meet in collectives only; each decides by itself which collective comes next, and at the start of a job whether it resumes; a kill in the middle of a save | every parameter is simulated by exactly one replica; data is filed under the parameter it was taken at; nobody waits for ever |
| **its observable handlers** `mpiobservablehandlerpt.*` | per parameter: jackknife blocks, time series batch, series file | gather a value from every process, credit it, write | credited by the table of the root at that time | one value per parameter and due sweep |
| **Serial driver** `detqmc.h` | stage, counters, parameters; state file, results, series | construct, resume with changed parameters, `run`, `saveResults`, `saveState` | stopped, killed, resumed, `sweeps` and `saveInterval` changed in between | the output is that of one uninterrupted simulation |
| **Serial observable handlers** `observablehandler.*` | jackknife blocks, total, time series batch | `insertValue`, `evaluateJackknife`, `outputTimeseries` | serialized half way, block size derived from changed parameters | statistics and series agree, error estimates are normalised |
| **Parameter checking** `detqmcparams.*`, `detmodelparams.h`, ... | none | `check`, `updateTemperatureParameters` | boundaries | what the loop relies on |
| **Program starts** `maindetqmc*.cpp`, `mpimain*.cpp` | none | new simulation or resume | a look at the file system by every process | |
| **Sweeps of a replica** `detmodel.h`, `udv.h` | `green`, `UdVStorage`, `currentTimeslice`, `lastSweepDir` | `sweepUp`, `sweepDown`, `wrap*Green`, `advance*Green`, `setupUdVStorage_and_calculateGreen` | each sweep consumes what the previous one stored and replaces it in place | `green` is the Green's function of the slice and field at hand |
| **SDW model** `detsdwopdim.*` | field `phi`, cached `coshTermPhi`/`sinhTermPhi`, backup `gmd`, step sizes `ad` | local updates, global moves with backup and restore, step size adaptation, serialization | stale caches, half undone moves | caches follow the field |
| **Hubbard model** `dethubbard.*` | auxiliary field, two green components | local updates, measurements | | as above |
| **Running averages** `RunningAverage.h` | window of values, their average | `addValue`, `get` | read only when the window is full of samples of one step size | the average is that of the window |
| Neighbour tables, random numbers, statistics and histograms, numerics, output and metadata, system configuration files, serialization helpers, reweighting (`mrpt*`), evaluation tools, tools and timing, scripts, vendored libraries | | | sequential, mostly floating point or text | |

How they interact: a program start constructs a driver (or resumes one from a state file); the driver owns a
replica (a `DetModel`), calls its `sweep`, reads its observables by reference through the handlers, and saves
all three together.  The replica calls back from the sweep skeleton of `detmodel.h` into its own update and
measurement functions.  Under MPI one driver per process does the same, and its calls into `boost::mpi` are the
only way processes affect each other.

`PROJECT.json` lists every component with its status, every definition with the lines it models, and under
`hazards` what can go wrong where.

## Modules

| module | models |
|---|---|
| `DetQMCPT` | the parallel driver with its handlers: `run()`, all processes, one session |
| `ReplicaEnsemble` | what the parallel driver promises: the abstract specification |
| `DetQMCPTSessions` | EXTENDS `DetQMCPT`: jobs that start, resume, stop and are killed; saves in steps |
| `DetQMC` | the serial driver with its handlers, across sessions |
| `DetModelGC` | the sweeps of one replica, with the global moves and caches of the SDW model |
| `DetSDWAdjustment` | how a replica of the SDW model adapts its step sizes while it thermalizes, with `RunningAverage` |
| `MC*` | the small instances for TLC; the constants are in the `.cfg` of each run |
| `DetQMCPT_proofs`, `DetQMCPT_refinement`, `DetQMCPT_lockstep` | proofs about `DetQMCPT`: types, the last save, the exchange and its statistics; the refinement; collectives with checkpoints and streams |
| `DetQMCPTSessions_proofs` | proofs about `DetQMCPTSessions`: ranges after any restart, the pace of the exchange, sessions in lockstep, what saves keep |
| `DetQMC_proofs`, `DetModelGC_proofs`, `DetSDWAdjustment_proofs` | proofs about the serial driver, a replica and the step sizes |
| `IntervalArithmetic` | lemmas about quotients and remainders of a counter by an interval |

Some definitions are followed or preceded by a mistaken variant, marked `Mistake`.  Nothing uses it: it is there
to be put in the place of the definition, to see that the property that is meant to notice does notice.

### DetQMCPT

`pc[p]` is the position of process `p` in `run()`; the other variables are the members of the class, as
functions of the process where every process has its own and plain where only the root uses it.

A collective call is two actions or more, one for each side, connected by the FIFO channels `up[q]` (worker to
root) and `down[q]` (root to worker).  A gather is a send that does not wait and a receipt by the root that
waits for all; a broadcast or scatter is the opposite; a barrier is both.  This is the weakest thing MPI
promises, so an ordering error that a synchronizing implementation would hide is visible.  A process that
reaches the wrong collective finds a foreign message at the head of its channel, or none while the other side
waits for it: `CollectivesMatch` says that neither happens.

| code | actions |
|---|---|
| top of the loop: wall time, ABORT files, `broadcast(stop_now)` | `BroadcastStop`, `HearStop` |
| `case T` | `SweepThermalization` |
| `case M` up to `insertValue` | `Sweep`, then `SendValue` / `GatherValues` (with `buffer_local_system_configuration`), then `CountSweep` |
| `save()` | `SendConfiguration` / `GatherConfigurations` until the buffer is empty, then `Save` |
| `world.barrier()` | `EnterBarrier`, `OpenBarrier`, `LeaveBarrier` |
| end of the stage | `EndSweep` |
| `replicaExchangeStep` | `SendControlData` / `GatherControlData` (with the direction histograms), `ProposeExchange` once for each pair, `ScatterAssignment` / `HearAssignment` |
| `replicaExchangeConsistencyCheck` | `SendCheck` / `GatherCheck` |

`CheckpointsCoherent` does not need the barrier after a save: the consistency check makes the root wait for every
process and the next broadcast of `stop_now` makes every process wait for the root.  What the barrier gives is an
end of the save: a process that is past it knows that all files are written (`OnlySavesAreFragile` fails without
it).

Abstractions: the decision whether to stop and the draw that accepts an exchange are nondeterministic; a
parameter value is its index; a measured value or configuration is (parameter the replica really had, sweep), so
that it shows when it is filed in the wrong place; control data is the parameter it was collected for; one
observable stands for all; two collectives that follow each other with no change of state in between share one
message.  Resuming and kills are in `DetQMCPTSessions`.

### ReplicaEnsemble

Two variables: who simulates each parameter, and the series of each parameter.  Neighbours change places;

a measurement appends, to the series of *every* parameter, the value measured *at that parameter* in the next due
sweep.  Sweeps are counted from the last save, as `swCounter` counts them, so that the intervals need not divide each
other.  `DetQMCPT` implements it with the root's table as `owner` and series file plus buffered batch as `series`
(`ImplementsEnsemble`).

### DetQMCPTSessions

A job is all processes together.  At `StartJob` each looks for its own state file (`mpimaindetqmcptsdwopdim.cpp:203`)
and starts with what the file holds or afresh; what only the root's file holds (tables, exchange statistics, batches
of the time series, whether the series files were started) is `rootFile`.  Then:

| code | actions |
|---|---|
| `initFromParameters`, the header of the configuration stream of its own parameter | `WriteHeader` |
| `loadContents`, the scatter of the root's table | `ScatterLoaded`, `HearLoaded` |
| `setup_SaveConfigurations`, the root opens all streams | `OpenStreams` |
| `run()` but for the saves | the actions of `DetQMCPT` |
| `save()` after the configurations: results and series, opening the state file, writing it | `SaveResults`, `OpenStateFile`, `WriteStateFile` |
| the batch system kills the job, or MPI aborts it after an error | `KillJob` |

A kill falls between any two steps of any processes.  It leaves the files as they are: state files may be torn
(opened, not written), missing at some processes, or of different sweeps.  A torn file makes its process fail when it
reads (label `unreadable`); the job then waits until it is killed.  `inStep` records whether all sessions so far
started from files that fit together.  A session that starts from files that do not is modelled too, but no document
says what should come of it, and all sorts of things do: processes that meet in different collectives for ever, an
exception from the consistency check, or, when a job is killed in its save on exit, after an exchange at the sweep of
the last checkpoint, a simulation that goes on, without noticing, with the parameters of one moment and the control
data of another.  `OnlySavesAreFragile` says how large the danger is: files fit together except while a save is under
way.

The seed is taken to be specified; otherwise a broadcast of it precedes `WriteHeader`, for which the root does not
wait either.  `sweeps` and `saveInterval` stay the same between jobs; changing them is modelled in `DetQMC`, whose
constructor does it in the same way.

### DetQMC

One simulation directory and a succession of processes.  The variables in `memory` are lost at the end of a
session; those in `disk` survive.  A session starts afresh (`StartFresh`) or from the state file (`Resume`, with
other `sweeps` and `saveInterval` as far as the constructor allows), runs `CheckStop`, `SweepThermalization`,
`Sweep`, `EndSweep`, saves in the steps `SaveResults`, `OpenStateFile`, `WriteStateFile` (a kill between the last
two leaves a torn file), and ends by finishing, by being asked to stop, or by `Killed` at any step.  A sample is
the sweep it was taken in; a jackknife block, the series and the stream are sequences of samples.  Three history
variables remember whether a session was killed, whether one resumed with another `saveInterval`, and whether one had
a `saveInterval` that `measureInterval` does not divide: several properties hold only without the one or the other,
and one run contains all combinations.

`swCounter` counts the sweeps since the last save, and a measurement is due when it is a multiple of
`measureInterval`.  If `measureInterval` does not divide `saveInterval`, which `check()` accepts, the sweeps measured
are therefore not every `measureInterval`-th of the simulation, but still known: `Due` counts from the last save.
Only when such an interval is combined with another `saveInterval` on resuming does it depend on the past what is due
(`Predictable`).

### DetModelGC

The loops of `sweepDown` and `sweepUp`, one action per turn of an inner loop.  Matrices are *words*: the product of
B-matrices is the sequence of its factors, a factor is (slice, value of the field, value of the cached term,
power), adjacent inverse factors cancel.  `green` is the word `W` of `G = [1 + W]^-1`, an entry of `UdVStorage` is
the word it decomposes, the singular values are those of a word.  Two matrices are equal exactly when they would
be equal without rounding for arbitrary fields, which is what the stabilization must preserve.  The field has two
values per slice; a local update flips one, an accepted one exchanges a factor of `green`; the global moves
change all slices, recompute and keep or swap back.  `Reload` is saving, ending and resuming in one step.
Left out: `sweepSimple` (recomputes everything in each slice), boson-only runs, logging of singular values.

### DetSDWAdjustment

Each slice of each thermalization sweep gives one acceptance ratio to the running average of the move whose turn it is
(`UpdateInSliceThermalization`); when a window is full the step size of that move is changed.  A ratio is 0 or 1 and
the target one half.  `angleDelta` and `scaleDelta` are exact, integers in units small enough to be halved as often as
they can be in a run (`MaxHalvings`); `phiDelta` is the number of times it grew and shrank.  A sample remembers the
step sizes it was taken with, so that it shows when a step size is judged by others.  Left out: `phiFixed`, which
turns the adaptation off, and `repeatUpdateInSlice`, of which only the last repetition counts.  That step sizes stay
with their parameter in an exchange is `ControlDataFollowsParameter` of `DetQMCPT`.

## Runs

| run | instance | shows |
|---|---|---|
| `loop` | 4 processes, 6+4 sweeps, measure 1, stream 2, exchange 4, save 4 | the implementation of `ReplicaEnsemble`; with intervals out of phase all processes agree on the next collective (`CollectivesMatch`) and every process returns (`Termination`); a configuration stream holds one entry of its own parameter per due sweep (`StreamsComplete`); nobody sweeps on before all state files of a checkpoint are written, and these fit together (`CheckpointsCoherent`); results are complete at the end (`ResultsSaved`); the two tables stay inverse in the middle of a walk; the consistency check never throws; control data stays with its parameter; the inductive invariant of the proof (`ExchangeInv`); a step proposes each pair once and the direction counts leave no gap below the end they come from (`StatisticsSound`); no replica moves down by more than one place in an exchange |
| `sessions` | 3 processes, 4 sweeps, measure, stream and save 2, exchange 1, two jobs, killed or stopped anywhere | sessions that start from fitting files keep in step (`StaysInStep`); only a kill during a save leaves files that do not fit (`OnlySavesAreFragile`); what the root's state file has done is on record, under the right parameter (`SavedSweepsAreRecorded`); without kills, stopping and resuming leaves no trace in series and streams and no exchange is skipped or repeated (`StoppingLeavesNoTrace`, `ExchangeKeepsPace`); every session that started in step ends (`SessionsEnd`) |
| `serial` | 2+12 then up to 24 sweeps, measure 4, stream 8, save 6, 12 or 24, three jackknife blocks, 4 sessions, killed anywhere | a state is saved after an even number of sweeps only; the statistics in it are exact and the series has no holes up to it, whatever was killed; without kills and with the same save interval series and stream are those of one uninterrupted simulation; finished means saved as long as the save interval is kept; error estimates are normalised or withheld.  The save interval 6 shifts the measurements, 12 the entries of the stream |
| `sdw` | m=5, s=2, one component, shift and cluster move before every second sweep, 4 sweeps, assertions on | `green` is current in every slice that is updated or measured; each measuring sweep samples each slice once; moves are decided on the determinants of the old and the new field, and what a rejection restores is complete; no assertion fails; a resumed replica continues as the interrupted one would have |
| `hubbard` | m=5, s=2, two components, assertions off | the documented preconditions of `advanceDownGreen` and `advanceUpGreen` hold for both components |
| `stepsize` | 3 slices, windows of 2 samples, 8 sweeps, every method, every sequence of ratios | the running average is that of its window (`AverageOfWindow`); a step size is changed only upon a full window of samples of its own move, all taken with the step sizes in force (`ChangedByOwnSamples`); the bisection of the angle forgets nothing and stays in the middle of its bracket (`BisectionRemembers`) |
| `direction`, `header`, `unsaved`, `uneven`, `asserted`, `scale` | smallest that show it | disagreements, see below |

**Why these bounds are enough.** Four processes are the least with a pair in the middle of the ladder, that has
neither end in it; there are workers that can overtake each other, and one walk can carry a replica up by one, two or
three places.  Six thermalization sweeps are one and a half exchange intervals: the first exchange falls on the fourth
of them, the second on the second measurement sweep, between two measurements, when configurations are buffered that
the save after the fourth has to write, so that the table changes between buffering and writing.  `sessions` has three
processes, the least with a middle parameter, and a checkpoint in the middle, at which an exchange is due.  Two jobs
are a new and a resumed one; a third would find the same kinds of files on disk, since a job remembers nothing else.
`m % s` is 1, so that the highest block is shorter; m=5, s=2 has a highest, a middle and a lowest block, the three
cases of the code.  Four sweeps of a replica are two in each direction, so that what one round trip leaves behind is
consumed by another; of the moves the code enables together, both are on.  Four serial sessions are a first, an
interrupted, a resumed one and one that finds everything finished; of the three save intervals the first is no
multiple of `measureInterval`, and the second none of the interval of the stream.  Three slices and windows of two
make windows straddle sweeps, and eight sweeps are two turns of each move.  Bounds that are no parameters of the
program are `MaxSessions`, `MaxSweeps` (of `DetModelGC` and `DetSDWAdjustment`, where it is the length of the
thermalization) and `MaxHalvings` (resolution, never reached).  Deadlock is checked in every run; the stuttering steps
`Terminated`, `Rest`, `Halt`, `Thermalized` mark the places where the program may rest.

**Fairness.**  `Termination` and `SessionsEnd` assume weak fairness of the steps of each process and nothing more: a
process whose next step is possible takes it.  The code justifies it: `run()` waits for nothing but collectives, MPI
delivers messages, and there are no locks or conditions.  It is not assumed that the root is ever told to stop, that
an exchange is ever accepted, or that a job is ever started or killed.  The other modules are checked for safety
only: their loops are counted.

## What is proved

The proofs are checked by TLAPS, for every value of the constants: any number of processes, slices, sweeps, sessions,
any intervals.  They rest on the `ParametersAssumption` of the module (what the code's parameter checks let through)
and, in `DetQMC`, on `FilesAssumption` (a missing or torn file is not mistaken for one with contents); TLC evaluates
both in the runs.  What a theorem needs beyond that stands in its `ASSUME` and is named here.

| theorem | property | further assumption |
|---|---|---|
| `DetQMCPT_proofs!TypeCorrect`, `ResultsAreSaved` | `TypeOK`, `ResultsSaved` | |
| `DetQMCPT_proofs!ExchangeSafe`, `TablesStayInverse`, `CheckNeverThrows`, `ControlDataStays`, `WalkGoesDownByOne` | `ExchangeInv`, `TablesInverse`, `NoMismatch`, `ControlDataFollowsParameter`, `DownByOneAtMost` | |
| `DetQMCPT_refinement!DriverImplementsEnsemble` | `ImplementsEnsemble` | |
| `DetQMCPT_proofs!StatisticsCount` | `StatisticsSound` | |
| `DetQMCPT_lockstep!ProcessesInLockstep`, `CollectivesAlwaysMatch`, `CheckpointsAreCoherent` | the inductive invariant `Lockstep`, `CollectivesMatch`, `CheckpointsCoherent` | |
| `DetQMCPT_lockstep!StreamsAreComplete` | `StreamsComplete` | `saveInterval` is a multiple of `saveConfigurationStreamInterval` |
| `DetQMCPTSessions_proofs!SessionTypesCorrect`, `ExchangeStaysOnPace` | `SessionsTypeOK`, `ExchangeKeepsPace` | |
| `DetQMCPTSessions_proofs!SessionsInLockstep`, `SessionsStayInStep`, `KillsBetweenSavesAreHarmless` | the inductive invariant `SessionLockstep`, `StaysInStep`, `OnlySavesAreFragile` | |
| `DetQMCPTSessions_proofs!SavedSweepsAreKept`, `StoppedSessionsLeaveNoTrace` | `SavedSweepsAreRecorded`, `StoppingLeavesNoTrace` | `saveInterval` is a multiple of `saveConfigurationStreamInterval` |
| `DetQMC_proofs!SerialTypeCorrect`, `SavesAreEven` | `TypeOK`, `EvenSweepsSaved` | |
| `DetQMC_proofs!StatisticsAreExact`, `SeriesIsWhole`, `FinishedIsOnDisk` | `StatisticsExact`, `SeriesHasNoHoles`, `FinishedIsSavedUnlessRetimed` | |
| `DetQMC_proofs!SeriesIsExact` | `SeriesExact` | |
| `DetQMC_proofs!JackknifeIsNormalised` | `JackknifeNormalised` | every jackknife block is a multiple of `measureInterval` (without it it is false, see `uneven`) |
| `DetModelGC_proofs!ReplicaTypeCorrect`, `TermsStayConsistent`, `SlicesAreMeasured`, `GreenStaysCurrent`, `AdvanceFindsItsProducts`, `MovesAreDecidedCorrectly`, `ResumingIsSeamless` | `TypeOK`, `TermsConsistent`, `EverySliceMeasured`, `GreenIsCurrent`, `AdvancePreconditions`, `MoveDecidedOnCurrentDeterminants`, `ResumeIsSeamless` | |
| `DetModelGC_proofs!OneComponentNeverAborts` | `NoAssertionFails` | one green component (with two it is false, see below) |
| `DetSDWAdjustment_proofs!StepSizesInBrackets`, `AveragesAreOfWindows`, `BisectionsRemember`, `OnlyOwnSamplesCount` | `TypeOK`, `AverageOfWindow`, `BisectionRemembers`, `ChangedByOwnSamples` | |

Where no assumption is named the theorem is about every setting of the intervals that `check()` accepts; there are no
hidden multiples.  The price is in the statements: what is due is a formula of the sweep and of `saveInterval` (`Due`),
and the properties of the serial driver say for which histories it is known (`Predictable`, `wasRetimed`).
For the configuration streams of the parallel driver the properties count due sweeps in steps of
`saveConfigurationStreamInterval`, and three theorems assume accordingly that `saveInterval` is a multiple of it;
without that they are false, since the counter that decides what is due starts anew at a save.

**The exchange.**  `TablesInverse`, `NoMismatch` and `ControlDataFollowsParameter` are not inductive.  That the
consistency check does not throw depends on what is on its way: a worker's answer was composed earlier and is
compared later with a table that might have changed in between.  The strengthening `ExchangeInv` says why it has not.
`WalkInv`: while the root walks, every worker waits for its assignment, all channels to the root are empty, and no
assignment is under way; outside of the walk a worker without an assignment under way agrees with the root's table.
`DownInv`: an assignment under way carries what the table says now, there is at most one per worker, and its receiver
waits for it.  `UpInv`: a check under way carries what the table says now, and control data under way is the last thing
its sender has sent and still what it has.  `ReplicaInv`: index, parameter and control data of a replica agree.
`DownByOneAtMost` adds `WalkedInv`: during the walk the process at the parameter the root stands at has not gone down,
those at higher parameters are where they were, and all have gone down by one at most.

**Lockstep.**  That collectives match is a statement about the future as much as about the present: a worker can be far
ahead of the root (it sends and does not wait), and what it does there must be what the root will ask for.  No relation
between two values of `pc` says that.  The invariant `Lockstep` therefore speaks of one *program*, the loop of `run()`
without what only the root keeps: a point of it is a label with stage, counters, table in force, buffered and written
configurations and the last save (`Points`), and the next one is a function of it, of the stop decision and of the table
that the root sends (`After`).  There is a history of points such that every process is the projection of one of them
(`Shows`), no worker is further than the root where it has to hear it first, and the messages on their way
between a worker and the root are, in order and in content, those that the program sends between the points where the
two stand.  A step of a worker moves it along the history; a step of whoever is in front extends the history by what
follows from its last point.  The theorem `ProcessesInLockstep` rests on two lemmas, one for a step of any worker
(`WorkerStaysInLockstep`) and one for the root (`RootStaysInLockstep`), and on the actions being such steps.
What holds at each point of the program (`Sound`: counters, what a save covers, what is buffered) and between a point
and a later one (`Later`: saves met at the barrier, progress) is proved of the program alone, where nothing runs
concurrently, and carries over.  `CollectivesMatch` then follows since a message is received at the point whose
operation it belongs to; `CheckpointsCoherent` since a process cannot pass a barrier that others have not reached;
`StreamsComplete` since the streams are those of the root's point.  The invariant quantifies over histories, which TLC
cannot enumerate; TLC checks its consequences.

**The refinement.** `RecordInv` adds three parts to `ExchangeInv`.  `CountInv`: within the measurement stage
`swCounter` is the remainder of `sweepsDone` by `saveInterval`.  `ValueInv`: the values on their way from a worker are
those of consecutive due sweeps, from the one the root measures next to the one before the worker's next, and were
measured at the parameter that the root's table still holds for it (no exchange can have come in between).  As the
intervals may be in any relation there is no formula for the next due sweep; what is ahead of a process is the set of
all due sweeps from its own on (`Ahead`), and two processes have the same next one when these sets are equal.
`SeriesInv`: the series of each parameter holds the due sweeps that are not ahead of the root.  Then the root's gather
is `Measure` of `ReplicaEnsemble`, an accepted exchange is `SwapNeighbours`, all else stutters.

**Statistics and results.** `CountedInv`: in the middle of a walk the pairs it has passed are one proposal ahead of
those to come; whoever is at an end of the ladder has just turned round.  `FromTopInv`: since a replica comes down by
one at most, a replica that is headed down has been counted at every parameter above it.  `SavedInv`: `swCounter` is
the number of sweeps of the stage modulo `saveInterval` and is 0 at the end of a sweep only after a save, and the
number of sweeps is a multiple of it.

**Several sessions.**  `SessionCounts` says of each process, and of what is in its state file, what a process that runs
could have: in which stage it is with which counters, and that a stage is left, or saved for the last time, when its
sweeps are done.  So a process that resumes is where it could have come by itself.  `PaceInv` says how far the exchange
steps are behind the sweeps at each label of the root (`ExchangeToCome`) and in its state file: by one in a save in the
middle of a session, by none in the save on exit, from which a session without kills resumes.

**Sessions in lockstep.** A session is shown as a run of the program of `DetQMCPT_lockstep` by looking at each process
in a way that hides what the program does not have (`SessionViews`, `SessionNet`). Starting (`setup`, `load`, `open`)
is seen as the point at which the loop will be entered; the message with a worker's parameter that `loadContents`
scatters is not one of the program's, and `LoadSound` says which processes have found a state file, what is still on
its way to them and that it is what they would have read themselves. A save in steps is seen as one step, taken when
the state file is opened: from there on the view shows the file that is about to be written, while the disk holds none
that could be read. With these views the two lemmas about a step of a worker and of the root serve again, and
everything else a session does leaves the views alone. A start has to show that some point of the program looks like
what was read. If the files fit together (`FilesFit`) it is the point that the root's file describes, since all files
have the same counters and the root's table is a permutation (`RootFileInverse`, an invariant of its own). So
`SessionLockstep` is inductive from one session to the next, kills included, as long as the files fit;
`OnlySavesAreFragile` says that they do unless the kill came in the middle of a save: processes that are all outside
of a save have saved equally often.

**What saves keep.**  `SavedSweepsAreRecorded` and `StoppingLeavesNoTrace` need to know where the results are.
`ResultsInv`: the buffers of the root are empty from the save of the results until something is measured, the files of
the series exist once sweeps of the measurement stage were saved, and a state file holds no series to be appended.
`RecordedInv`: file and buffer of a series together have whatever was due up to where the root is, and the files alone
whatever was due up to the root's state file; a session that was killed leaves a tail behind it, which the next one
repeats, so entries may be there twice but none is missing.  `TraceInv`: without kills file and buffer are exactly the
record, each due sweep once and in order.  In both the root's measurement is one step from a record to the next
(`StepExact`), for which the values that the workers sent must be those of the same sweep, taken at the parameter that
the root's table holds for them: that is what lockstep gives.  With a `saveInterval` that is no multiple of
`saveConfigurationStreamInterval` both properties fail for the reason given above.

**The serial driver.** `BasicInv` (types, and by label what the stage allows) gives types and parity: a save only
happens where the counter is even.  `TimedInv`: unless `saveInterval` was changed, `swCounter` is the remainder of the
sweeps by it.  `CounterInv`: while no `saveInterval` shifted the measurements, the two are congruent modulo
`measureInterval`, however often it was changed.  Either is enough to know that `run()` samples just the sweeps that
are due (`Predictable`), and the lemmas about `Lists` say that a list of due sweeps stays one when the next is
appended.  `StatInv` then says that the statistics in memory and on disk list the due sweeps up to theirs.  `KeptInv`
(results on disk never lag behind the state file, a stage ends where a save is due) gives
`FinishedIsSavedUnlessRetimed`.  `SeriesInv` describes series and stream of the session and of the disk without kills,
`HolesInv` with them: the file is gapless, covers the sweeps of the state file, reaches up to what memory counts as
written, and memory holds the rest.  `JackknifeInv` gives the number of samples in each block as a function of the
measurements so far (those before the block, while in it none, those after it), as long as the number of sweeps was
never changed and no `saveInterval` shifted the measurements.

**A replica.**  `IndexInv` ties `pc`, `k`, `l`, `gc`, `lastSweepDir` and `currentTimeslice` together; `WordTypes`
gives types of words; `WordInv` says what `green`, the singular values, the storage and the backup are at each label,
block by block: which entries still hold the previous sweep's products and which already this one's.  That cancelling
adjacent inverse factors restores a product is a lemma about words.

**Step sizes.** `ChangedByOwnSamples` depends on when a running average is full.  `TurnsOfWholeWindows`: a turn of
`ROTATE_AND_SCALE` is as many sweeps as a window has samples, so a move that is not adapted has stopped at a whole
number of windows, and the samples of the one that is are those and the slices since its turn began.  So the samples
since the step size of a move was last considered were all taken with the step sizes in force (`SampledInForce`), and
when it is considered next they are the whole window.  `AngleBisected`: the bracket is the range halved a number of
times that the samples so far bound (`OneSampleASlice`), hence exactly divisible for as long as `MaxHalvings` allows,
its middle is in force and each judged angle lies outside of it; `ScaleRaised` says that `scaleDelta` only ever grows.
The assumption `PowersOfTwo` is a fact of arithmetic, stated because the provers do not know exponentiation.

**Only model-checked.**  Liveness (`Termination`, `SessionsEnd`) is out of the prover's reach.  All invariants and
action properties of the passing runs, and the refinement, are proved.  What the runs that end in a violation show is a
counterexample, and needs no proof.

## Disagreements found

Each has a run that shows it.

1. `header`: a configuration stream may be without its header.  Each process writes the header of the stream of its
   parameter "only if the file does not exist yet" (`detsdwopdim.cpp:5042`); the root, once in `run()`, opens the
   streams of all parameters for appending (`detqmcpt.h:669-690`).  No collective lies in between in a new simulation,
   so that the root may create the file before the worker looks.
2. `unsaved`: after `saveInterval` was changed on resuming, a simulation can finish without saving its last sweeps.
   `swCounter` comes from the state file and is compared with `==` (`detqmc.h:449, 495`), it can be past the new
   interval or out of phase with the number of sweeps.
3. `uneven`: when `measureInterval` does not divide the jackknife block size (which `check()` accepts), blocks hold
   different numbers of samples and are divided by the same number (`observablehandler.h:100-105`).
4. `asserted`: with two green components (`DetHubbard`) `assert(currentTimeslice == k)` fails for the second
   component, since the first one has already moved `currentTimeslice`.  Release builds do not evaluate it, and the
   run `hubbard` shows that they are right in what they compute.
5. `scale`: "reducing scaleDelta <=> increasing acceptance ratio" (`detsdwopdim.cpp:3361`), but both branches below ask
   for an acceptance above the target (3362, 3367), so that a `scaleDelta` at which too little is accepted is kept.

6. `direction`: the comment on `par_countGoingUp` says "if replica at current parameter has visited parMax last (and
   not parMin) increase", that on `par_countGoingDown` "vice versa" (`detqmcpt.h:160-161`).  But a replica at the
   highest parameter is marked as going down (1019-1020), one at the lowest as going up (1021-1022), and each is
   counted so (1024-1027).

Read but not run: `detqmc.h:66` says that only larger values of `saveInterval` are taken on resuming, the code takes
any; `maindetqmcsdwopdim.cpp:190` looks for the state file before the configuration file, which may name it, is read;
measurements are not "every measureInterval sweeps" (`detqmcparams.h:46`) when `saveInterval` is no
multiple of it; `detsdwopdim.h:1115` says that after loading a sweep must precede any measurement, since the Green
function were not valid, but the function below recomputes it (`ResumeIsSeamless`).

**Hazards no property covers.**  A property would have to say what ought to happen, and for some hazards in
`PROJECT.json` nothing in the repository says that: what sessions do that start from files of a kill in the middle of
a save, or of which only some processes have one (`StaysInStep` and `OnlySavesAreFragile` say when such files can
come about, not what follows); the exchange that is left out when a killed job resumes from a periodic save, which is
made before the exchange (`ExchangeKeepsPace` is about sessions that end with the save on exit); the state that is lost
when a kill leaves a torn file (the properties of the state file are about files that were written).  The models
contain all of these behaviours.

## What is not modelled

* **The numerics.**  Entries of B-matrices, UdV decompositions, Sherman-Morrison, Woodbury and delayed updates,
  acceptance probabilities, observables, reweighting (`mrpt*`), error estimates as numbers: floating point linear
  algebra, about which a model over words or counters says nothing.
* **Straight-line programs.**  Evaluation tools, joining of series, scripts: each reads finished files and writes
  others, with no state that survives a run.
* **Formats.**  Option parsing, metadata, text and binary layouts, serialization wrappers.  Models keep what is
  written and when.
* **Simple variants of what is modelled.**  `sweepSimple` recomputes the Green function in every slice; boson-only
  runs have none; the time-displaced code is commented out.
* **Neighbour tables.**  Filled once in nested loops by the formula that defines them.
* **Vendored libraries** (armadillo, boost, boost-mpi, dlib, dsfmt, cnpy and others).  They are over two million lines
  of the 2.14 million below `src/`, so that the share of mapped lines in the whole tree is small whatever is modelled
  of the program itself, which has about 30,000.  The collectives of `boost::mpi` are modelled from their use.

What could still be added: resuming the parallel driver with changed `sweeps` and `saveInterval`, as `DetQMC` does for
the serial one; sessions of the step size adaptation, whose step sizes, brackets and averages are saved with the fields.
