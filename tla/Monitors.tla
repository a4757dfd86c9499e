------------------------------ MODULE Monitors ------------------------------
(***************************************************************************)
(* Recording in CARLsim.  The simulation keeps what a group does in each   *)
(* millisecond of the running second: its spikes (SpikeMonitor), neuron    *)
(* states (NeuronMonitor) or neuromodulators (GroupMonitor).  A monitor    *)
(* fetches what is new since its last update at the end of each second,    *)
(* most of them at the end of runNetwork, and when recording starts and    *)
(* stops; it appends it to its vectors while recording and to its log file *)
(* at all times.  Between two calls of runNetwork the user may call the    *)
(* methods of the monitor in any order.                                    *)
(*                                                                         *)
(* Monitors do not influence each other: kind is the kind of the one that  *)
(* is watched.  A sample is a pair: the time a millisecond is given when   *)
(* it is fetched, and the millisecond whose data the buffer held.          *)
(***************************************************************************)
EXTENDS Integers, Sequences

CONSTANTS
  MsPerSec,    \* 1000
  Durations,   \* of calls of runNetwork, in ms
  TimeBound,   \* bounds the simulated time
  Files,       \* log files
  Null,        \* no log file
  Kinds        \* of monitors

ASSUME MonitorAssumption ==
  /\ MsPerSec \in Nat \ {0}
  /\ Durations \subseteq Nat
  /\ TimeBound \in Nat
  /\ Null \notin Files

VARIABLES
  kind,
  phase,           \* idle, running, second (one is over), deleted
  simTime, simTimeMs, simTimeSec,
  simTimeRunStop,
  buffer,          \* per ms of the second, the ms whose data it holds
  mon,             \* the fields of the monitor's core object
  data,            \* its vectors
  rates,           \* a SpikeMonitor's cached firing rates
  logFile, files,  \* the log file in use; what was written to each
  window,          \* history: the ms recorded since the vectors were cleared
  logged,          \* history: per file, the ms simulated while it was in use
  cut              \* history: a log file was taken away with ms not fetched

clock == <<simTime, simTimeMs, simTimeSec, simTimeRunStop>>
logs  == <<logFile, files, logged, cut>>
vars  == <<kind, phase, clock, buffer, mon, data, rates, logs, window>>

Empty == -1    \* nothing in the buffer: no spikes in that ms
Unset == -1    \* a time that is not set

(* A firing rate is kept as number of ms with data and ms recorded.         *)
NoRate == <<0, 0>>

ClearedRates ==
  [needToCalculate |-> TRUE, needToSort |-> TRUE, firing |-> NoRate, sorted |-> NoRate]

NewMonitor ==
  [recordSet |-> FALSE, persistentData |-> FALSE, lastUpdated |-> 0,
   startTime |-> Unset, startTimeLast |-> Unset, accumTime |-> 0, totalTime |-> Unset]

Init ==
  /\ kind \in Kinds
  /\ phase = "idle"
  /\ simTime = 0 /\ simTimeMs = 0 /\ simTimeSec = 0 /\ simTimeRunStop = 0
  /\ buffer = [t \in 0 .. MsPerSec - 1 |-> Empty]
  /\ mon = NewMonitor
  /\ data = <<>>
  /\ rates = ClearedRates
  /\ logFile \in (IF kind \in {"spike", "neuron"} THEN Files \union {Null} ELSE {Null})
  /\ files = [f \in Files |-> <<>>]
  /\ window = <<>>
  /\ logged = [f \in Files |-> <<>>]
  /\ cut = FALSE

-----------------------------------------------------------------------------
(* updateSpikeMonitor, updateNeuronMonitor, updateGroupMonitor *)

numMsMin == mon.lastUpdated % MsPerSec
numMsMax == IF simTimeMs = 0 THEN MsPerSec ELSE simTimeMs

currentTimeSec == IF simTimeMs = 0 THEN simTimeSec - 1 ELSE simTimeSec

NothingNew == simTime <= mon.lastUpdated

(* What an update reads from the buffer.                                    *)
Fetched ==
  IF NothingNew THEN <<>>
  ELSE [i \in 1 .. numMsMax - numMsMin |->
          LET t == numMsMin + i - 1
          IN  <<currentTimeSec * MsPerSec + t, buffer[t]>>]

(* An update of a monitor with the fields m and the vectors d: its fields,  *)
(* its vectors and the log files afterwards.                                *)
Updated(m)   == [m EXCEPT !.lastUpdated = simTime]
Pushed(m, d) == IF m.recordSet THEN d \o Fetched ELSE d
Written      == IF logFile = Null THEN files ELSE [files EXCEPT ![logFile] = @ \o Fetched]

UpdateMonitor ==
  /\ mon'   = Updated(mon)
  /\ data'  = Pushed(mon, data)
  /\ files' = Written

-----------------------------------------------------------------------------
(* The simulation.  The connection monitors, see ConnectionMonitor, add     *)
(* conjuncts to these actions.                                              *)

RunNetwork(d) ==
  /\ phase = "idle"
  /\ simTime + d <= TimeBound
  /\ simTimeRunStop' = simTime + d
  /\ phase' = "running"
  /\ UNCHANGED <<kind, simTime, simTimeMs, simTimeSec, buffer, mon, data, rates, logs, window>>

(* One pass of the loop of runNetwork: advSimStep and updateTime.           *)
Step ==
  /\ phase = "running"
  /\ simTime < simTimeRunStop
  /\ buffer' = [buffer EXCEPT ![simTimeMs] = simTime]
  /\ simTime' = simTime + 1
  /\ IF simTimeMs + 1 = MsPerSec
     THEN simTimeMs' = 0 /\ simTimeSec' = simTimeSec + 1 /\ phase' = "second"
     ELSE simTimeMs' = simTimeMs + 1 /\ UNCHANGED <<simTimeSec, phase>>
  /\ window' = IF mon.recordSet THEN Append(window, simTime) ELSE window
  /\ logged' = IF logFile = Null THEN logged
               ELSE [logged EXCEPT ![logFile] = Append(@, simTime)]
  /\ UNCHANGED <<kind, simTimeRunStop, mon, data, rates, logFile, files, cut>>

(* The end of a second: all monitors are updated, and shiftSpikeTables      *)
(* takes the spikes of the second out of the tables.                        *)
FinishSecond ==
  /\ phase = "second"
  /\ UpdateMonitor
  /\ buffer' = IF kind = "spike" THEN [t \in DOMAIN buffer |-> Empty] ELSE buffer
  /\ phase' = "running"
  /\ UNCHANGED <<kind, clock, rates, logFile, logged, cut, window>>

(* The end of runNetwork fetches what is left, except neuron states.        *)
(* Slip: it does not.                                                       *)
UpdatedAtEnd_None == {}
UpdatedAtEnd == {"spike", "group"}

FinishRun ==
  /\ phase = "running"
  /\ simTime = simTimeRunStop
  /\ IF kind \in UpdatedAtEnd THEN UpdateMonitor ELSE UNCHANGED <<mon, data, files>>
  /\ phase' = "idle"
  /\ UNCHANGED <<kind, clock, buffer, rates, logFile, logged, cut, window>>
-----------------------------------------------------------------------------
(* The methods of the monitors.  Each is refused while it may not be called *)
(* (UserErrors::assertTrue, assert), which ends the program.                *)

Cleared(m) ==
  [m EXCEPT !.startTime = Unset, !.startTimeLast = Unset, !.accumTime = 0, !.totalTime = Unset]

(* The clock of a recording that starts now.                                *)
Started(m) ==
  [m EXCEPT !.recordSet = TRUE,
            !.startTime = IF m.persistentData /\ @ # Unset THEN @ ELSE simTime,
            !.startTimeLast = simTime,
            !.accumTime = IF m.persistentData /\ m.totalTime > 0 THEN m.totalTime ELSE 0]

(* Slip: the cached rates are taken for those of the new recording.         *)
RatesOnStart_Kept == rates
RatesOnStart == [rates EXCEPT !.needToCalculate = TRUE, !.needToSort = TRUE]

(* Not persistent: clear.  Then the update, which must not record yet.      *)
StartRecording ==
  /\ phase = "idle"
  /\ kind \in {"spike", "neuron", "group"}
  /\ ~mon.recordSet
  /\ LET kept == mon.persistentData
         m    == IF kept THEN mon ELSE Cleared(mon)
     IN  /\ mon' = Started(Updated(m))
         /\ data' = Pushed(m, IF kept THEN data ELSE <<>>)
         /\ rates' = IF kept THEN RatesOnStart ELSE ClearedRates
         /\ window' = IF kept THEN window ELSE <<>>
  /\ files' = Written
  /\ UNCHANGED <<kind, phase, clock, buffer, logFile, logged, cut>>

(* Slip: recording is switched off before the update.                       *)
LastPushed_Off == data
LastPushed == Pushed(mon, data)

(* The update comes first, so that it still records.                        *)
StopRecording ==
  /\ phase = "idle"
  /\ mon.recordSet
  /\ mon' = [Updated(mon) EXCEPT
               !.recordSet = FALSE,
               !.totalTime = simTime - mon.startTimeLast + mon.accumTime]
  /\ data' = LastPushed
  /\ files' = Written
  /\ UNCHANGED <<kind, phase, clock, buffer, rates, logFile, logged, cut, window>>

(* A GroupMonitor has no clear.                                             *)
Clear ==
  /\ phase = "idle"
  /\ kind \in {"spike", "neuron"}
  /\ ~mon.recordSet
  /\ mon' = Cleared(mon)
  /\ data' = <<>>
  /\ rates' = ClearedRates
  /\ window' = <<>>
  /\ UNCHANGED <<kind, phase, clock, buffer, logs>>

(* A NeuronMonitor has no setPersistentData; the others take it also while  *)
(* they are recording.                                                      *)
SetPersistentData(p) ==
  /\ phase = "idle"
  /\ kind \in {"spike", "group"}
  /\ mon' = [mon EXCEPT !.persistentData = p]
  /\ UNCHANGED <<kind, phase, clock, buffer, data, rates, logs, window>>

(* fopen empties the file; what is not fetched stays in the buffer.         *)
SetLogFile(f) ==
  /\ phase = "idle"
  /\ kind \in {"spike", "neuron"}
  /\ ~mon.recordSet
  /\ logFile' = f
  /\ files' = [g \in Files |-> IF g = f THEN <<>> ELSE files[g]]
  /\ logged' = [g \in Files |-> IF g = f THEN <<>> ELSE logged[g]]
  /\ cut' = (cut \/ ~NothingNew)
  /\ UNCHANGED <<kind, phase, clock, buffer, mon, data, rates, window>>

(* calculateFiringRates: without a recording it fails an assertion, after   *)
(* one of no duration it answers zeros and stays to be done.                *)
Rates == <<Len(data), mon.totalTime>>

Calculated ==
  IF ~rates.needToCalculate THEN rates
  ELSE IF mon.totalTime = 0 THEN [rates EXCEPT !.firing = NoRate, !.sorted = NoRate]
  ELSE [rates EXCEPT !.firing = Rates, !.sorted = NoRate, !.needToCalculate = FALSE]

GetAllFiringRates ==
  /\ phase = "idle"
  /\ kind = "spike"
  /\ ~mon.recordSet
  /\ mon.totalTime >= 0
  /\ rates' = Calculated
  /\ UNCHANGED <<kind, phase, clock, buffer, mon, data, logs, window>>

(* The maximum, the minimum and the counts of neurons by rate read these.   *)
GetAllFiringRatesSorted ==
  /\ phase = "idle"
  /\ kind = "spike"
  /\ ~mon.recordSet
  /\ mon.totalTime >= 0
  /\ rates' = IF ~rates.needToSort THEN rates
              ELSE [Calculated EXCEPT !.sorted = Calculated.firing, !.needToSort = FALSE]
  /\ UNCHANGED <<kind, phase, clock, buffer, mon, data, logs, window>>

(* The end of the simulation closes the log file.                           *)
Delete ==
  /\ phase = "idle"
  /\ phase' = "deleted"
  /\ logFile' = Null
  /\ cut' = (cut \/ ~NothingNew)
  /\ UNCHANGED <<kind, clock, buffer, mon, data, rates, files, logged, window>>

Next ==
  \/ \E d \in Durations : RunNetwork(d)
  \/ Step \/ FinishSecond \/ FinishRun
  \/ StartRecording \/ StopRecording \/ Clear
  \/ \E p \in BOOLEAN : SetPersistentData(p)
  \/ \E f \in Files \union {Null} : SetLogFile(f)
  \/ GetAllFiringRates \/ GetAllFiringRatesSorted
  \/ Delete

Spec == Init /\ [][Next]_vars

-----------------------------------------------------------------------------
Time   == Nat \union {Unset}
Sample == Nat \X (Nat \union {Empty})
Rate   == Nat \X Time

Monitor ==
  [recordSet : BOOLEAN, persistentData : BOOLEAN, lastUpdated : Nat,
   startTime : Time, startTimeLast : Time, accumTime : Nat, totalTime : Time]

CachedRates ==
  [needToCalculate : BOOLEAN, needToSort : BOOLEAN, firing : Rate, sorted : Rate]

(* The fields of the simulation, of the monitor and of its files are of     *)
(* their types.                                                             *)
TypeOK ==
  /\ kind \in Kinds
  /\ phase \in {"idle", "running", "second", "deleted"}
  /\ simTime \in Nat /\ simTimeMs \in 0 .. MsPerSec - 1 /\ simTimeSec \in Nat
  /\ simTimeRunStop \in Nat
  /\ buffer \in [0 .. MsPerSec - 1 -> Nat \union {Empty}]
  /\ mon \in Monitor
  /\ data \in Seq(Sample) /\ window \in Seq(Nat)
  /\ logFile \in Files \union {Null} /\ cut \in BOOLEAN
  /\ files \in [Files -> Seq(Sample)] /\ logged \in [Files -> Seq(Nat)]
  /\ rates \in CachedRates

(* The samples of the milliseconds of w, each labelled with its own time.   *)
Whole(w) == [i \in DOMAIN w |-> <<w[i], w[i]>>]

(* What a monitor has recorded, with what an update would still fetch, is   *)
(* each millisecond of its recordings once, in order, with its own data and *)
(* time, and the recording time it reports is their number: however the     *)
(* ends of seconds, the ends of runs, recordings and switches of persistent *)
(* mode fall (update...Monitor, startRecording, stopRecording).             *)
RecordingWhole ==
  /\ Pushed(mon, data) = Whole(window)
  /\ IF mon.recordSet
     THEN simTime - mon.startTimeLast + mon.accumTime = Len(window)
     ELSE mon.totalTime = (IF mon.startTime = Unset THEN Unset ELSE Len(window))

(* A log file of a SpikeMonitor holds exactly the milliseconds simulated    *)
(* while it was the log file, whenever the user takes another one; that of  *)
(* a NeuronMonitor does if the file is changed only when nothing is left to *)
(* fetch, which the end of runNetwork does not see to.                      *)
LogsWhole ==
  kind = "spike" \/ (kind = "neuron" /\ ~cut) =>
    \A f \in Files :
      files[f] \o (IF f = logFile THEN Fetched ELSE <<>>) = Whole(logged[f])

(* The firing rates a SpikeMonitor has cached are those of the spikes and   *)
(* the time recorded now, also when a persistent recording was resumed      *)
(* after they were computed (needToCalculateFiringRates_).                  *)
RatesFresh ==
  /\ ~rates.needToCalculate => rates.firing = Rates
  /\ ~rates.needToSort => rates.sorted = IF mon.totalTime = 0 THEN NoRate ELSE Rates
=============================================================================
