-------------------------- MODULE ConnectionMonitor --------------------------
(***************************************************************************)
(* Snapshots of the weights of a connection.  The simulation writes one to *)
(* the file of the monitor at its start and every so many seconds; the     *)
(* user takes more, asks for the changes between the last two, changes     *)
(* weights between two runs and deletes the simulation, which writes the   *)
(* last.  The weights are a version number, raised by every change.  The   *)
(* clock, and the other kinds of monitors, are those of Monitors.          *)
(***************************************************************************)
EXTENDS Monitors

CONSTANTS
  Intervals,    \* for setUpdateTimeIntervalSec, in seconds
  WeightBound   \* bounds the changes of weights

ASSUME IntervalAssumption ==
  /\ \A i \in Intervals : i = -1 \/ i \in Nat \ {0}
  /\ WeightBound \in Nat

VARIABLES
  weights,   \* of the connection now
  conn,      \* the fields of the core object, and its file: pairs of time and weights
  held,      \* history: the pairs of a time and weights that were so then
  edited,    \* history: the user changed weights since those of this time were stored
  due        \* history: the snapshots asked for, the first of each time

weightVars == <<weights, conn, held, edited, due>>
allVars    == <<vars, weightVars>>

NAN == -1

(* setConnectionMonitor, which the user calls before the first run, stores  *)
(* the weights of time 0.                                                   *)
InitAll ==
  /\ Init
  /\ weights = 0
  /\ conn = [interval |-> 1, wtTime |-> 0, wtMat |-> 0, wtTimeLast |-> -1, wtMatLast |-> NAN,
             wtTimeWrite |-> -1, snapshots |-> <<>>]
  /\ held = {<<0, 0>>}
  /\ edited = FALSE
  /\ due = {}

(* writeConnectFileSnapshot: a time is written once.                        *)
(* Slip: the time written last is written again.                            *)
AlreadyWritten_Earlier(c, t) == t < c.wtTimeWrite
AlreadyWritten(c, t) == t <= c.wtTimeWrite

WriteSnapshot(c, t, w) ==
  IF AlreadyWritten(c, t) THEN c
  ELSE [c EXCEPT !.wtTimeWrite = t, !.snapshots = Append(@, <<t, w>>)]

(* Once per time, so that all questions about changes at one time speak of  *)
(* the same two snapshots.                                                  *)
UpdateStoredWeights(c) ==
  IF simTime <= c.wtTime THEN c
  ELSE [c EXCEPT !.wtMatLast = c.wtMat, !.wtTimeLast = c.wtTime,
                 !.wtMat = weights,     !.wtTime = simTime]

(* updateConnectionMonitor takes the time in ms modulo an interval in s.    *)
WantsSnapshot ==
  conn.interval = 1 \/ (conn.interval > 1 /\ simTime % conn.interval = 0)

UpdateConnectionMonitor ==
  IF WantsSnapshot THEN WriteSnapshot(conn, simTime, weights) ELSE conn

-----------------------------------------------------------------------------
(* A snapshot of the weights of this moment, with who asked for it.  A time *)
(* is in the file once, so that only the first one of a time counts.        *)
Asked(by) ==
  IF \E o \in due : o.time = simTime THEN due
  ELSE due \union {[time |-> simTime, weights |-> weights, by |-> by]}

(* By schedule a snapshot is due at the start and every interval seconds;   *)
(* another that the code writes comes early.                                *)
OnSchedule == conn.interval # -1 /\ simTimeSec % conn.interval = 0

AskedOnSecond ==
  IF OnSchedule THEN Asked("schedule")
  ELSE IF WantsSnapshot THEN Asked("early") ELSE due

Run(d) ==
  /\ RunNetwork(d)
  /\ IF simTime = 0
     THEN conn' = UpdateConnectionMonitor /\ due' = AskedOnSecond
     ELSE UNCHANGED <<conn, due>>
  /\ UNCHANGED <<weights, held, edited>>

(* updateWeights may change the weights in any millisecond.                 *)
Advance ==
  /\ Step
  /\ weights' \in (IF kind = "connection" THEN {weights, weights + 1} ELSE {weights})
                  \intersect 0 .. WeightBound
  /\ held' = held \union {<<simTime', weights'>>}
  /\ edited' = FALSE
  /\ UNCHANGED <<conn, due>>

UpdateAll ==
  /\ FinishSecond
  /\ conn' = UpdateConnectionMonitor
  /\ due' = AskedOnSecond
  /\ UNCHANGED <<weights, held, edited>>

Return == FinishRun /\ UNCHANGED weightVars

(* takeSnapshot writes the stored weights: stale, if the user changed some  *)
(* since at the same time.                                                  *)
TakeSnapshot ==
  /\ kind = "connection" /\ phase = "idle"
  /\ LET c == UpdateStoredWeights(conn)
     IN  conn' = WriteSnapshot(c, c.wtTime, c.wtMat)
  /\ due' = Asked(IF edited THEN "stale" ELSE "user")
  /\ UNCHANGED <<vars, weights, held, edited>>

(* calcWeightChanges and all that reads the stored weights.                 *)
CalcWeightChanges ==
  /\ kind = "connection" /\ phase = "idle"
  /\ conn' = UpdateStoredWeights(conn)
  /\ UNCHANGED <<vars, weights, held, edited, due>>

SetUpdateTimeIntervalSec(i) ==
  /\ kind = "connection" /\ phase = "idle"
  /\ conn' = [conn EXCEPT !.interval = i]
  /\ UNCHANGED <<vars, weights, held, edited, due>>

(* setWeight, scaleWeights, biasWeights *)
ChangeWeights ==
  /\ kind = "connection" /\ phase = "idle"
  /\ weights < WeightBound
  /\ weights' = weights + 1
  /\ held' = held \union {<<simTime, weights'>>}
  /\ edited' = (edited \/ conn.wtTime = simTime)
  /\ UNCHANGED <<vars, conn, due>>

(* ~ConnectionMonitorCore *)
DeleteAll ==
  /\ Delete
  /\ IF conn.interval > 0
     THEN conn' = WriteSnapshot(conn, simTime, weights) /\ due' = Asked("end")
     ELSE UNCHANGED <<conn, due>>
  /\ UNCHANGED <<weights, held, edited>>

(* The methods of the other monitors. *)
Recording ==
  /\ \/ StartRecording \/ StopRecording \/ Clear
     \/ \E p \in BOOLEAN : SetPersistentData(p)
     \/ \E f \in Files \union {Null} : SetLogFile(f)
     \/ GetAllFiringRates \/ GetAllFiringRatesSorted
  /\ UNCHANGED weightVars

NextAll ==
  \/ \E d \in Durations : Run(d)
  \/ Advance \/ UpdateAll \/ Return
  \/ TakeSnapshot \/ CalcWeightChanges \/ ChangeWeights
  \/ \E i \in Intervals : SetUpdateTimeIntervalSec(i)
  \/ DeleteAll
  \/ Recording

SpecAll == InitAll /\ [][NextAll]_allVars

-----------------------------------------------------------------------------
(* An early snapshot is one of a second that is no multiple of an interval  *)
(* although its milliseconds are: the code counts the seconds of the        *)
(* interval in milliseconds.                                                *)
OnlyInMs(t) ==
  \E i \in Intervals, s \in 0 .. TimeBound :
    i > 1 /\ t = s * MsPerSec /\ s % i # 0 /\ t % i = 0

(* The file has one snapshot for every time for which one was asked: by     *)
(* schedule, "at time t=0, and every intervalSec seconds later"             *)
(* (connection_monitor.h:475), by the user, and for the end; in order of    *)
(* time, with the weights of the moment it was first asked for.  The two    *)
(* snapshots between which changes are computed are weights of two times,   *)
(* the later one the current weights if it is of this time                  *)
(* (updateConnectionMonitor, updateStoredWeights).                          *)
(* The code keeps less than its comments promise in two cases, which the    *)
(* property names.  It writes early snapshots (OnlyInMs; 2 s is 2 ms).  And *)
(* "a snapshot of the current weight matrix" (connection_monitor.h:493) or  *)
(* a change against "the current state of the weight matrix" (172) has      *)
(* stale weights if the user changed weights after those of the same time   *)
(* were stored: then it has only some weights the connection had before at  *)
(* that time (edited), also if the schedule asks for that time later.       *)
WeightsOverTime ==
  LET file == { conn.snapshots[k] : k \in DOMAIN conn.snapshots } IN
  /\ \A j, k \in DOMAIN conn.snapshots : j < k => conn.snapshots[j][1] < conn.snapshots[k][1]
  /\ { e[1] : e \in file } = { o.time : o \in due }
  /\ \A o \in due : /\ o.by # "stale" => <<o.time, o.weights>> \in file
                    /\ o.by = "early" => OnlyInMs(o.time)
  /\ file \subseteq held
  /\ <<conn.wtTime, conn.wtMat>> \in held
  /\ conn.wtTime = simTime /\ ~edited => conn.wtMat = weights
  /\ conn.wtTimeLast < conn.wtTime
  /\ conn.wtTimeLast # -1 => <<conn.wtTimeLast, conn.wtMatLast>> \in held
=============================================================================
