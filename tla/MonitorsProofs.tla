--------------------------- MODULE MonitorsProofs ---------------------------
(***************************************************************************)
(* Monitors record everything once, for every length of a second, sequence *)
(* of runs and order of calls of the user.                                 *)
(*                                                                         *)
(* The argument: what a monitor has not fetched yet is the milliseconds    *)
(* since its last update, all of one second and still in the buffer        *)
(* (FetchInv), so that an update fetches just these (FetchedPending).  On  *)
(* that rest what has been recorded (RecordInv), what the log files hold   *)
(* (LogsInv) and the cached rates (RatesInv).  A connection monitor shares *)
(* only the clock; its invariant (WeightsInv) orders the time written      *)
(* last, the time of the stored weights and now.                           *)
(***************************************************************************)
EXTENDS ConnectionMonitor, TLAPS

-----------------------------------------------------------------------------
(* The clock.                                                               *)

(* The first millisecond of the second an update fetches from. *)
base == currentTimeSec * MsPerSec

(* The total time is seconds and milliseconds.                              *)
ClockInv == simTime = simTimeSec * MsPerSec + simTimeMs

(* The times of the monitor are past, and what it has not fetched is in the *)
(* buffer, in one second.                                                   *)
FetchInv ==
  /\ mon.lastUpdated <= simTime /\ mon.startTimeLast <= simTime
  /\ phase # "second" /\ simTimeMs = 0 => NothingNew
  /\ ~NothingNew =>
       /\ base <= mon.lastUpdated
       /\ \A t \in mon.lastUpdated .. simTime - 1 : buffer[t - base] = t

Pending ==
  [i \in 1 .. simTime - mon.lastUpdated |->
     <<mon.lastUpdated + i - 1, mon.lastUpdated + i - 1>>]

(* The remainder of a sum of a multiple and a number below the divisor.     *)
LEMMA Remainder ==
  ASSUME NEW M \in Nat \ {0}, NEW q \in Nat, NEW r \in 0 .. M - 1
  PROVE  (q * M + r) % M = r
OBVIOUS

(* A multiple of MsPerSec is an integer.                                    *)
LEMMA BaseInt == TypeOK => /\ simTimeSec * MsPerSec \in Nat
                           /\ (simTimeSec + 1) * MsPerSec = simTimeSec * MsPerSec + MsPerSec
                           /\ (simTimeSec - 1) * MsPerSec = simTimeSec * MsPerSec - MsPerSec
BY MonitorAssumption DEF TypeOK

(* What an update fetches are the milliseconds since the last one, each     *)
(* with its own data.                                                       *)
LEMMA FetchedPending == TypeOK /\ ClockInv /\ FetchInv => Fetched = Pending
<1> SUFFICES ASSUME TypeOK, ClockInv, FetchInv PROVE Fetched = Pending
  OBVIOUS
<1> DEFINE lu == mon.lastUpdated
<1>t. lu \in Nat /\ simTime \in Nat /\ simTimeMs \in 0 .. MsPerSec - 1 /\ simTimeSec \in Nat
      /\ MsPerSec \in Nat \ {0}
  BY MonitorAssumption DEF TypeOK, Monitor
<1>1. CASE NothingNew
  <2>1. lu = simTime
    BY <1>1, <1>t DEF NothingNew, FetchInv
  <2>2. 1 .. simTime - lu = {}
    BY <2>1, <1>t
  <2> QED  BY <1>1, <2>2 DEF Fetched, Pending
<1>2. CASE ~NothingNew
  <2>1. lu < simTime /\ base <= lu
    BY <1>2, <1>t DEF NothingNew, FetchInv
  <2>2. base \in Int /\ numMsMax = simTime - base /\ simTime <= base + MsPerSec
    BY <1>t, BaseInt DEF base, currentTimeSec, numMsMax, ClockInv
  <2>3. numMsMin = lu - base
    <3>1. lu - base \in 0 .. MsPerSec - 1
      BY <2>1, <2>2, <1>t
    <3>2. currentTimeSec \in Int /\ currentTimeSec * MsPerSec = base
      BY <1>t DEF currentTimeSec, base
    <3>3. currentTimeSec \in Nat
      <4>1. CASE simTimeMs = 0
        <5>1. simTimeSec # 0
          BY <4>1, <2>1, <1>t DEF ClockInv
        <5> QED  BY <4>1, <5>1, <1>t DEF currentTimeSec
      <4>2. CASE simTimeMs # 0
        BY <4>2, <1>t DEF currentTimeSec
      <4> QED  BY <4>1, <4>2
    <3>4. (currentTimeSec * MsPerSec + (lu - base)) % MsPerSec = lu - base
      BY <3>1, <3>3, <1>t, Remainder
    <3> QED  BY <3>2, <3>4, <1>t, <2>2 DEF numMsMin
  <2>4. \A i \in 1 .. simTime - lu : buffer[numMsMin + i - 1] = lu + i - 1
    <3> SUFFICES ASSUME NEW i \in 1 .. simTime - lu PROVE buffer[numMsMin + i - 1] = lu + i - 1
      OBVIOUS
    <3>1. lu + i - 1 \in lu .. simTime - 1
      BY <1>t
    <3>2. buffer[(lu + i - 1) - base] = lu + i - 1
      BY <3>1, <1>2 DEF FetchInv
    <3>3. (lu + i - 1) - base = numMsMin + i - 1
      BY <2>3, <2>2, <1>t
    <3> QED  BY <3>2, <3>3
  <2>5. numMsMax - numMsMin = simTime - lu
    BY <2>2, <2>3, <1>t
  <2>6. \A i \in 1 .. simTime - lu :
          currentTimeSec * MsPerSec + (numMsMin + i - 1) = lu + i - 1
    BY <2>2, <2>3, <1>t DEF base
  <2>7. Fetched = [i \in 1 .. simTime - lu |->
                     <<currentTimeSec * MsPerSec + (numMsMin + i - 1), buffer[numMsMin + i - 1]>>]
    BY <1>2, <2>5 DEF Fetched
  <2> QED  BY <2>4, <2>6, <2>7 DEF Pending
<1> QED  BY <1>1, <1>2

(* What an update reads are samples, and it leaves samples.                 *)
LEMMA UpdateTypes ==
  ASSUME TypeOK, ClockInv, FetchInv
  PROVE  /\ Fetched \in Seq(Sample)
         /\ Written \in [Files -> Seq(Sample)]
         /\ \A m, d : d \in Seq(Sample) => Pushed(m, d) \in Seq(Sample)
<1>1. Fetched \in Seq(Sample)
  <2> DEFINE n == simTime - mon.lastUpdated
             P == [i \in 1 .. n |-> <<mon.lastUpdated + i - 1, mon.lastUpdated + i - 1>>]
  <2>1. mon.lastUpdated \in Nat /\ n \in Nat
    BY DEF TypeOK, FetchInv, Monitor
  <2>2. \A i \in 1 .. n : <<mon.lastUpdated + i - 1, mon.lastUpdated + i - 1>> \in Sample
    BY <2>1 DEF Sample
  <2>3. P \in Seq(Sample)
    BY <2>1, <2>2
  <2> QED  BY <2>3, FetchedPending DEF Pending
<1>2. Written \in [Files -> Seq(Sample)]
  BY <1>1 DEF Written, TypeOK
<1>3. \A m, d : d \in Seq(Sample) => Pushed(m, d) \in Seq(Sample)
  BY <1>1 DEF Pushed
<1> QED  BY <1>1, <1>2, <1>3

(* What an update changes.                                                  *)
LEMMA UpdateMonitorTypes ==
  ASSUME TypeOK, ClockInv, FetchInv, UpdateMonitor
  PROVE  /\ mon' = [mon EXCEPT !.lastUpdated = simTime]
         /\ mon' \in Monitor
         /\ mon'.lastUpdated = simTime
         /\ data' \in Seq(Sample)
         /\ files' \in [Files -> Seq(Sample)]
BY UpdateTypes DEF UpdateMonitor, Updated, TypeOK, Monitor

(* An update at this time has nothing left to fetch, and the clock stands.  *)
LEMMA NothingLeft ==
  ASSUME TypeOK, ClockInv, mon'.lastUpdated = simTime, UNCHANGED clock,
         mon'.startTimeLast <= simTime
  PROVE  NothingNew' /\ ClockInv' /\ FetchInv'
BY DEF TypeOK, ClockInv, FetchInv, NothingNew, clock

(* Nothing of the clock, the buffer and the time of the last update changes. *)
LEMMA FetchStutter ==
  ASSUME ClockInv, FetchInv, UNCHANGED <<clock, buffer, mon.lastUpdated>>,
         mon'.startTimeLast <= simTime,
         phase' # "second" => phase # "second"
  PROVE  ClockInv' /\ FetchInv'
BY DEF ClockInv, FetchInv, NothingNew, clock, base, currentTimeSec

(* The operations on the fields leave fields.                               *)
LEMMA FieldTypes ==
  ASSUME NEW m \in Monitor, simTime \in Nat
  PROVE  /\ Updated(m) \in Monitor /\ Updated(m).lastUpdated = simTime
         /\ Cleared(m) \in Monitor /\ Cleared(m).lastUpdated = m.lastUpdated
         /\ Started(m) \in Monitor /\ Started(m).lastUpdated = m.lastUpdated
<1>1. Updated(m) \in Monitor /\ Updated(m).lastUpdated = simTime
  BY DEF Updated, Monitor
<1>2. Unset \in Time /\ simTime \in Time /\ 0 \in Nat
  BY DEF Time
<1>3. Cleared(m) \in Monitor /\ Cleared(m).lastUpdated = m.lastUpdated
  BY <1>2 DEF Cleared, Monitor
<1>4. Started(m) \in Monitor /\ Started(m).lastUpdated = m.lastUpdated
  <2> DEFINE st == IF m.persistentData /\ m.startTime # Unset THEN m.startTime ELSE simTime
             at == IF m.persistentData /\ m.totalTime > 0 THEN m.totalTime ELSE 0
  <2>1. m.startTime \in Time /\ m.totalTime \in Nat \union {-1}
    BY DEF Monitor, Time, Unset
  <2>2. st \in Time
    BY <1>2, <2>1
  <2>3. at \in Nat
    BY <2>1
  <2>4. Started(m) = [m EXCEPT !.recordSet = TRUE, !.startTime = st,
                               !.startTimeLast = simTime, !.accumTime = at]
    BY DEF Started, Monitor
  <2> HIDE DEF st, at
  <2> QED  BY <1>2, <2>2, <2>3, <2>4 DEF Monitor
<1> QED  BY <1>1, <1>3, <1>4

(* The cached rates stay of their type.                                     *)
LEMMA RateTypes ==
  ASSUME TypeOK
  PROVE  /\ ClearedRates \in CachedRates
         /\ RatesOnStart \in CachedRates
         /\ Calculated \in CachedRates
<1>1. NoRate \in Rate /\ Rates \in Rate
  BY DEF NoRate, Rates, Rate, Time, TypeOK, Monitor
<1>2. rates \in CachedRates
  BY DEF TypeOK
<1>3. ClearedRates \in CachedRates
  BY <1>1 DEF ClearedRates, CachedRates
<1>4. RatesOnStart \in CachedRates
  BY <1>2 DEF RatesOnStart, CachedRates
<1>5. Calculated \in CachedRates
  BY <1>1, <1>2 DEF Calculated, CachedRates
<1> QED  BY <1>3, <1>4, <1>5

(* Every step leaves the state of its type.                                 *)
LEMMA TypeStep ==
  ASSUME TypeOK, ClockInv, FetchInv, [Next]_vars
  PROVE  TypeOK'
<1> USE MonitorAssumption
<1>1. ASSUME NEW d \in Durations, RunNetwork(d) PROVE TypeOK'
  BY <1>1 DEF RunNetwork, TypeOK, logs
<1>2. CASE Step
  <2>1. simTime' \in Nat /\ simTimeMs' \in 0 .. MsPerSec - 1 /\ simTimeSec' \in Nat
        /\ phase' \in {"idle", "running", "second", "deleted"}
    BY <1>2 DEF Step, TypeOK
  <2>2. buffer' \in [0 .. MsPerSec - 1 -> Nat \union {Empty}]
    BY <1>2 DEF Step, TypeOK
  <2>3. window' \in Seq(Nat) /\ logged' \in [Files -> Seq(Nat)]
    BY <1>2 DEF Step, TypeOK
  <2> QED  BY <1>2, <2>1, <2>2, <2>3 DEF Step, TypeOK
<1>3. CASE FinishSecond
  <2>1. buffer' \in [0 .. MsPerSec - 1 -> Nat \union {Empty}]
    BY <1>3 DEF FinishSecond, TypeOK
  <2> QED  BY <1>3, <2>1, UpdateMonitorTypes DEF FinishSecond, TypeOK, clock
<1>4. CASE FinishRun
  <2>1. /\ data' \in Seq(Sample) /\ files' \in [Files -> Seq(Sample)]
        /\ mon' \in Monitor
    <3>1. CASE kind \in UpdatedAtEnd
      BY <1>4, <3>1, UpdateMonitorTypes DEF FinishRun
    <3>2. CASE kind \notin UpdatedAtEnd
      BY <1>4, <3>2 DEF FinishRun, TypeOK
    <3> QED  BY <3>1, <3>2
  <2> QED  BY <1>4, <2>1 DEF FinishRun, TypeOK, clock
<1>5. CASE StartRecording
  <2> DEFINE m == IF mon.persistentData THEN mon ELSE Cleared(mon)
  <2>1. m \in Monitor
    BY FieldTypes DEF TypeOK
  <2>2. mon' = Started(Updated(m)) /\ files' = Written
    BY <1>5 DEF StartRecording
  <2>3. mon' \in Monitor
    BY <2>1, <2>2, FieldTypes DEF TypeOK
  <2>4. data' \in Seq(Sample)
    <3>1. (IF mon.persistentData THEN data ELSE <<>>) \in Seq(Sample)
      BY DEF TypeOK
    <3> QED  BY <3>1, <1>5, UpdateTypes DEF StartRecording
  <2>5. files' \in [Files -> Seq(Sample)]
    BY <2>2, UpdateTypes
  <2>6. window' \in Seq(Nat)
    BY <1>5 DEF StartRecording, TypeOK
  <2>7. rates' \in CachedRates
    BY <1>5, RateTypes DEF StartRecording
  <2> QED  BY <1>5, <2>3, <2>4, <2>5, <2>6, <2>7 DEF StartRecording, TypeOK, clock
<1>6. CASE StopRecording
  <2>1. data' \in Seq(Sample) /\ files' \in [Files -> Seq(Sample)]
    BY <1>6, UpdateTypes DEF StopRecording, LastPushed, TypeOK
  <2>2. mon' \in Monitor
    <3>1. Updated(mon) \in Monitor /\ simTime \in Nat
      BY FieldTypes DEF TypeOK
    <3>2. mon.startTimeLast \in Int /\ mon.accumTime \in Nat
      BY DEF TypeOK, Monitor, Time, Unset
    <3>3. simTime - mon.startTimeLast + mon.accumTime \in Time
      BY <3>1, <3>2 DEF FetchInv, Time
    <3> QED  BY <1>6, <3>1, <3>3 DEF StopRecording, Monitor
  <2> QED  BY <1>6, <2>1, <2>2 DEF StopRecording, TypeOK, clock
<1>7. CASE Clear
  BY <1>7, FieldTypes, RateTypes DEF Clear, TypeOK, clock, logs
<1>8. ASSUME NEW p \in BOOLEAN, SetPersistentData(p) PROVE TypeOK'
  BY <1>8 DEF SetPersistentData, TypeOK, clock, logs, Monitor
<1>9. ASSUME NEW f \in Files \union {Null}, SetLogFile(f) PROVE TypeOK'
  BY <1>9 DEF SetLogFile, TypeOK, clock
<1>10. CASE GetAllFiringRates
  BY <1>10, RateTypes DEF GetAllFiringRates, TypeOK, clock, logs
<1>11. CASE GetAllFiringRatesSorted
  <2>1. rates' \in CachedRates
    BY <1>11, RateTypes DEF GetAllFiringRatesSorted, TypeOK, CachedRates
  <2> QED  BY <1>11, <2>1 DEF GetAllFiringRatesSorted, TypeOK, clock, logs
<1>12. CASE Delete
  BY <1>12 DEF Delete, TypeOK, clock
<1>13. CASE UNCHANGED vars
  BY <1>13 DEF vars, TypeOK, clock, logs
<1> QED  BY <1>1, <1>2, <1>3, <1>4, <1>5, <1>6, <1>7, <1>8, <1>9, <1>10, <1>11, <1>12, <1>13 DEF Next

(* Every step leaves what no update has fetched in the buffer.              *)
LEMMA FetchStep ==
  ASSUME TypeOK, ClockInv, FetchInv, [Next]_vars
  PROVE  ClockInv' /\ FetchInv'
<1> USE MonitorAssumption
<1>0. mon.startTimeLast <= simTime /\ mon \in Monitor /\ simTime \in Nat
  BY DEF FetchInv, TypeOK
<1>1. ASSUME NEW d \in Durations, RunNetwork(d) PROVE ClockInv' /\ FetchInv'
  BY <1>0, <1>1, FetchStutter DEF RunNetwork, FetchInv, ClockInv, NothingNew, base, currentTimeSec
<1>2. CASE Step
  <2>1. ClockInv'
    <3>1. simTimeMs \in Nat /\ simTimeSec \in Nat /\ simTime \in Nat /\ simTime' = simTime + 1
      BY <1>2 DEF Step, TypeOK
    <3>2. CASE simTimeMs + 1 = MsPerSec
      <4>1. simTimeMs' = 0 /\ simTimeSec' = simTimeSec + 1
        BY <1>2, <3>2 DEF Step
      <4> QED  BY <3>1, <3>2, <4>1, BaseInt DEF ClockInv
    <3>3. CASE simTimeMs + 1 # MsPerSec
      <4>1. simTimeMs' = simTimeMs + 1 /\ simTimeSec' = simTimeSec
        BY <1>2, <3>3 DEF Step
      <4> QED  BY <3>1, <4>1, BaseInt DEF ClockInv
    <3> QED  BY <3>2, <3>3
  <2>2. currentTimeSec' = simTimeSec
    <3>1. simTimeMs \in Nat /\ simTimeSec \in Nat
      BY DEF TypeOK
    <3>2. CASE simTimeMs + 1 = MsPerSec
      <4>1. simTimeMs' = 0 /\ simTimeSec' = simTimeSec + 1
        BY <1>2, <3>2 DEF Step
      <4> QED  BY <3>1, <4>1 DEF currentTimeSec
    <3>3. CASE simTimeMs + 1 # MsPerSec
      <4>1. simTimeMs' = simTimeMs + 1 /\ simTimeSec' = simTimeSec
        BY <1>2, <3>3 DEF Step
      <4> QED  BY <3>1, <4>1 DEF currentTimeSec
    <3> QED  BY <3>2, <3>3
  <2>3. base' = simTime - simTimeMs
    BY <2>2, BaseInt DEF base, ClockInv, TypeOK
  <2>4. mon'.lastUpdated = mon.lastUpdated /\ simTime' = simTime + 1
    BY <1>2 DEF Step
  <2>5. mon.lastUpdated \in Nat /\ simTimeMs \in 0 .. MsPerSec - 1
    BY DEF TypeOK, Monitor
  <2>6. ~NothingNew => simTimeMs # 0 /\ base = simTime - simTimeMs
    <3>1. simTimeMs = 0 => NothingNew
      BY <1>2 DEF FetchInv, Step
    <3>2. simTimeMs # 0 => base = simTime - simTimeMs
      BY BaseInt DEF base, currentTimeSec, ClockInv, TypeOK
    <3> QED  BY <3>1, <3>2
  <2>7. base' <= mon.lastUpdated
    BY <1>0, <2>3, <2>5, <2>6 DEF FetchInv, NothingNew
  <2>8. ASSUME NEW t \in mon.lastUpdated .. simTime PROVE buffer'[t - base'] = t
    <3>1. CASE t = simTime
      <4>1. t - base' = simTimeMs
        BY <3>1, <2>3, <2>5, <1>0
      <4>2. buffer'[simTimeMs] = simTime
        BY <1>2 DEF Step, TypeOK
      <4> QED  BY <3>1, <4>1, <4>2
    <3>2. CASE t # simTime
      <4>1. ~NothingNew /\ t \in mon.lastUpdated .. simTime - 1
        BY <3>2, <2>5, <1>0 DEF NothingNew
      <4>2. buffer[t - base] = t /\ base <= mon.lastUpdated
        BY <4>1 DEF FetchInv
      <4>3. t - base \in 0 .. simTimeMs - 1
        BY <4>1, <4>2, <2>5, <2>6, <1>0
      <4>4. buffer'[t - base] = buffer[t - base]
        BY <4>3, <2>5, <1>2 DEF Step, TypeOK
      <4> QED  BY <4>1, <4>2, <4>4, <2>3, <2>6
    <3> QED  BY <3>1, <3>2
  <2>9. phase' # "second" /\ simTimeMs' = 0 => NothingNew'
    BY <1>2, <2>5 DEF Step
  <2>10. mon'.lastUpdated <= simTime' /\ mon'.startTimeLast <= simTime'
    <3>1. mon.startTimeLast \in Int
      BY <1>0 DEF Monitor, Time, Unset
    <3> QED  BY <1>2, <1>0, <2>5, <3>1 DEF Step, FetchInv
  <2>11. \A t \in mon'.lastUpdated .. simTime' - 1 : buffer'[t - base'] = t
    BY <2>4, <2>8, <1>0
  <2> QED  BY <2>1, <2>4, <2>7, <2>9, <2>10, <2>11 DEF FetchInv
<1>3. CASE FinishSecond
  <2>1. mon'.lastUpdated = simTime /\ mon'.startTimeLast = mon.startTimeLast
    BY <1>0, <1>3, UpdateMonitorTypes DEF FinishSecond, Monitor
  <2> QED  BY <1>0, <1>3, <2>1, NothingLeft DEF FinishSecond
<1>4. CASE FinishRun
  <2>1. CASE kind \in UpdatedAtEnd
    <3>1. mon'.lastUpdated = simTime /\ mon'.startTimeLast = mon.startTimeLast
      BY <1>0, <1>4, <2>1, UpdateMonitorTypes DEF FinishRun, Monitor
    <3> QED  BY <1>0, <1>4, <3>1, NothingLeft DEF FinishRun
  <2>2. CASE kind \notin UpdatedAtEnd
    BY <1>0, <1>4, <2>2, FetchStutter DEF FinishRun
  <2> QED  BY <2>1, <2>2
<1>5. CASE StartRecording
  <2> DEFINE m == IF mon.persistentData THEN mon ELSE Cleared(mon)
  <2>1. m \in Monitor
    BY <1>0, FieldTypes
  <2>2. Updated(m) \in Monitor /\ Updated(m).lastUpdated = simTime
    BY <1>0, <2>1, FieldTypes
  <2>3. mon' = Started(Updated(m))
    BY <1>5 DEF StartRecording
  <2>4. mon'.lastUpdated = simTime
    BY <1>0, <2>2, <2>3, FieldTypes
  <2>5. mon'.startTimeLast = simTime
    <3> HIDE DEF m
    <3> QED  BY <2>2, <2>3 DEF Started, Monitor
  <2> QED  BY <1>0, <1>5, <2>4, <2>5, NothingLeft DEF StartRecording
<1>6. CASE StopRecording
  <2>1. mon'.lastUpdated = simTime /\ mon'.startTimeLast = mon.startTimeLast
    BY <1>0, <1>6 DEF StopRecording, Updated, Monitor
  <2> QED  BY <1>0, <1>6, <2>1, NothingLeft DEF StopRecording
<1>7. CASE Clear
  <2>1. mon'.lastUpdated = mon.lastUpdated /\ mon'.startTimeLast <= simTime
    BY <1>0, <1>7 DEF Clear, Cleared, Monitor, Unset
  <2> QED  BY <1>7, <2>1, FetchStutter DEF Clear
<1>8. ASSUME NEW p \in BOOLEAN, SetPersistentData(p) PROVE ClockInv' /\ FetchInv'
  <2>1. mon'.lastUpdated = mon.lastUpdated /\ mon'.startTimeLast <= simTime
    BY <1>0, <1>8 DEF SetPersistentData, Monitor
  <2> QED  BY <1>8, <2>1, FetchStutter DEF SetPersistentData
<1>9. ASSUME NEW f \in Files \union {Null}, SetLogFile(f) PROVE ClockInv' /\ FetchInv'
  BY <1>0, <1>9, FetchStutter DEF SetLogFile
<1>10. CASE GetAllFiringRates
  BY <1>0, <1>10, FetchStutter DEF GetAllFiringRates
<1>11. CASE GetAllFiringRatesSorted
  BY <1>0, <1>11, FetchStutter DEF GetAllFiringRatesSorted
<1>12. CASE Delete
  BY <1>0, <1>12, FetchStutter DEF Delete
<1>13. CASE UNCHANGED vars
  BY <1>0, <1>13, FetchStutter DEF vars
<1> QED  BY <1>1, <1>2, <1>3, <1>4, <1>5, <1>6, <1>7, <1>8, <1>9, <1>10, <1>11, <1>12, <1>13 DEF Next

ClockOK == TypeOK /\ ClockInv /\ FetchInv

(* The state is of its type, the clock adds up and what no update has       *)
(* fetched is still in the buffer (updateTime, runNetwork).                 *)
THEOREM ClockAlwaysOK == Spec => []ClockOK
<1>1. Init => ClockOK
  <2> SUFFICES ASSUME Init PROVE ClockOK
    OBVIOUS
  <2>1. NewMonitor \in Monitor /\ mon = NewMonitor
    BY DEF Init, NewMonitor, Monitor, Time
  <2>2. ClearedRates \in CachedRates
    BY DEF ClearedRates, CachedRates, NoRate, Rate, Time
  <2>3. TypeOK
    <3>1. 0 \in 0 .. MsPerSec - 1
      BY MonitorAssumption
    <3>2. buffer \in [0 .. MsPerSec - 1 -> Nat \union {Empty}]
      BY DEF Init
    <3>3. logFile \in Files \union {Null}
      BY DEF Init
    <3>4. files \in [Files -> Seq(Sample)] /\ logged \in [Files -> Seq(Nat)]
      BY DEF Init
    <3>5. data \in Seq(Sample) /\ window \in Seq(Nat)
      BY DEF Init
    <3>6. cut \in BOOLEAN
      BY Zenon DEF Init
    <3> QED  BY <2>1, <2>2, <3>1, <3>2, <3>3, <3>4, <3>5, <3>6 DEF Init, TypeOK
  <2>4. mon.lastUpdated = 0 /\ mon.startTimeLast = -1
    BY <2>1 DEF NewMonitor, Unset
  <2>5. ClockInv
    BY MonitorAssumption DEF Init, ClockInv
  <2>6. FetchInv
    BY <2>4 DEF Init, FetchInv, NothingNew
  <2> QED  BY <2>3, <2>5, <2>6 DEF ClockOK
<1>2. ClockOK /\ [Next]_vars => ClockOK'
  BY TypeStep, FetchStep DEF ClockOK
<1> QED  BY <1>1, <1>2, PTL DEF Spec

-----------------------------------------------------------------------------
(* Recording.                                                               *)

(* The same of the state after a step.                                      *)
LEMMA FetchedPendingNext == ClockOK' => Fetched' = Pending'
<1> DEFINE P == ClockOK => Fetched = Pending
<1>1. P
  BY FetchedPending DEF ClockOK
<1>2. P'
  BY <1>1, PTL
<1> QED  BY <1>2

(* An element appended to the second of two sequences that are put          *)
(* together.                                                                *)
LEMMA ConcatAppend ==
  ASSUME NEW S, NEW s \in Seq(S), NEW t \in Seq(S), NEW e \in S
  PROVE  s \o Append(t, e) = Append(s \o t, e)
OBVIOUS

(* One more millisecond is one more sample.                                 *)
LEMMA WholeAppend ==
  ASSUME NEW w \in Seq(Nat), NEW x \in Nat
  PROVE  Whole(Append(w, x)) = Append(Whole(w), <<x, x>>)
BY DEF Whole

(* No milliseconds, no samples.                                             *)
LEMMA WholeEmpty == Whole(<<>>) = <<>>
BY DEF Whole

(* A millisecond adds one sample to what is left to fetch.                  *)
LEMMA StepPending ==
  ASSUME ClockOK, ClockOK', Step
  PROVE  /\ Fetched \in Seq(Sample)
         /\ <<simTime, simTime>> \in Sample
         /\ Fetched' = Append(Fetched, <<simTime, simTime>>)
<1>1. Fetched \in Seq(Sample)
  BY UpdateTypes DEF ClockOK
<1>2. /\ simTime \in Nat /\ mon.lastUpdated \in Nat /\ mon.lastUpdated <= simTime
      /\ simTime' = simTime + 1 /\ mon' = mon
  BY DEF ClockOK, TypeOK, FetchInv, Step, Monitor
<1>3. <<simTime, simTime>> \in Sample
  BY <1>2 DEF Sample
<1> DEFINE lu == mon.lastUpdated
           P(n) == [i \in 1 .. n |-> <<lu + i - 1, lu + i - 1>>]
<1>4. Fetched = P(simTime - lu)
  BY FetchedPending DEF ClockOK, Pending
<1>5. Fetched' = P(simTime + 1 - lu)
  <2>1. Fetched' = Pending'
    BY FetchedPendingNext
  <2>2. mon'.lastUpdated = lu /\ simTime' - mon'.lastUpdated = simTime + 1 - lu
    BY <1>2
  <2> QED  BY <2>1, <2>2 DEF Pending
<1>6. ASSUME NEW n \in Nat PROVE P(n + 1) = Append(P(n), <<lu + n, lu + n>>)
  <2>1. P(n) \in Seq(Nat \X Nat) /\ Len(P(n)) = n
    BY <1>2
  <2>2. P(n + 1) \in Seq(Nat \X Nat) /\ Len(P(n + 1)) = n + 1
    BY <1>2
  <2>3. Append(P(n), <<lu + n, lu + n>>)
          = [i \in 1 .. n + 1 |-> IF i = n + 1 THEN <<lu + n, lu + n>> ELSE P(n)[i]]
    BY <2>1
  <2>4. \A i \in 1 .. n + 1 : <<lu + i - 1, lu + i - 1>>
                             = IF i = n + 1 THEN <<lu + n, lu + n>> ELSE P(n)[i]
    BY <1>2
  <2> HIDE DEF P
  <2>5. P(n + 1) = [i \in 1 .. n + 1 |-> <<lu + i - 1, lu + i - 1>>]
    BY DEF P
  <2> QED  BY <2>3, <2>4, <2>5
<1> DEFINE k == simTime - lu
<1>7. k \in Nat /\ simTime + 1 - lu = k + 1 /\ lu + k = simTime
  BY <1>2
<1>8. Fetched' = Append(Fetched, <<simTime, simTime>>)
  <2> HIDE DEF P, lu, k
  <2>1. P(k + 1) = Append(P(k), <<lu + k, lu + k>>)
    BY <1>6, <1>7
  <2>2. Fetched' = P(k + 1)
    BY <1>5, <1>7
  <2>3. Fetched = P(k)
    BY <1>4 DEF k
  <2> QED  BY <1>7, <2>1, <2>2, <2>3
<1> QED  BY <1>1, <1>3, <1>8

(* Whether recording goes on, and what was recorded, is told by the start   *)
(* time.                                                                    *)
RecordInv ==
  /\ mon.recordSet => mon.startTime # Unset
  /\ mon.startTime = Unset => window = <<>>
  /\ RecordingWhole

(* The times of a recording stay. *)
SameRecording ==
  /\ mon'.recordSet = mon.recordSet
  /\ mon'.startTime = mon.startTime /\ mon'.startTimeLast = mon.startTimeLast
  /\ mon'.accumTime = mon.accumTime /\ mon'.totalTime = mon.totalTime
  /\ simTime' = simTime /\ window' = window

(* After an update nothing is fetched.                                      *)
LEMMA FetchedNothing == (NothingNew => Fetched = <<>>) /\ (NothingNew' => Fetched' = <<>>)
BY DEF Fetched

(* An update moves what is left to fetch into the vectors.                  *)
LEMMA RecordUpdate ==
  ASSUME ClockOK, NothingNew', RecordInv, SameRecording, data' = Pushed(mon, data)
  PROVE  RecordInv'
<1>1. data' \in Seq(Sample)
  BY UpdateTypes DEF ClockOK, TypeOK
<1>2. Pushed(mon, data)' = data'
  BY <1>1, FetchedNothing DEF Pushed
<1>3. Whole(window)' = Pushed(mon, data)
  BY DEF RecordInv, RecordingWhole, SameRecording, Whole
<1>4. RecordingWhole'
  BY <1>2, <1>3 DEF RecordInv, RecordingWhole, SameRecording
<1> QED  BY <1>4 DEF RecordInv, SameRecording

(* Steps that touch neither clock nor vectors.                              *)
LEMMA RecordStutter ==
  ASSUME RecordInv, SameRecording, UNCHANGED <<clock, buffer, data, mon.lastUpdated>>
  PROVE  RecordInv'
<1>1. Fetched' = Fetched
  BY DEF Fetched, NothingNew, numMsMax, numMsMin, currentTimeSec, clock
<1>2. Pushed(mon, data)' = Pushed(mon, data)
  BY <1>1 DEF Pushed, SameRecording
<1>3. RecordingWhole'
  BY <1>2 DEF RecordInv, RecordingWhole, SameRecording, Whole
<1> QED  BY <1>3 DEF RecordInv, SameRecording

(* Every step keeps the recording whole.                                    *)
LEMMA RecordStep ==
  ASSUME ClockOK, ClockOK', RecordInv, [Next]_vars
  PROVE  RecordInv'
<1>0. mon \in Monitor /\ data \in Seq(Sample) /\ window \in Seq(Nat) /\ simTime \in Nat
  BY DEF ClockOK, TypeOK
<1>u. ASSUME UpdateMonitor, UNCHANGED <<clock, window>> PROVE RecordInv'
  <2>1. mon' = [mon EXCEPT !.lastUpdated = simTime] /\ data' = Pushed(mon, data)
    BY <1>u DEF UpdateMonitor, Updated
  <2>2. NothingNew'
    BY <1>0, <1>u, <2>1 DEF NothingNew, clock, Monitor
  <2>3. SameRecording
    BY <1>0, <1>u, <2>1 DEF SameRecording, clock, Monitor
  <2> QED  BY <2>1, <2>2, <2>3, RecordUpdate
<1>1. ASSUME NEW d \in Durations, RunNetwork(d) PROVE RecordInv'
  <2>1. RunNetwork(d) => /\ UNCHANGED <<simTime, simTimeMs, simTimeSec, buffer, data, mon, window>>
    BY DEF RunNetwork
  <2>2. Fetched' = Fetched
    BY <1>1, <2>1 DEF Fetched, NothingNew, numMsMax, numMsMin, currentTimeSec
  <2> QED  BY <1>1, <2>1, <2>2 DEF RecordInv, RecordingWhole, Pushed, Whole
<1>2. CASE Step
  <2>1. mon' = mon /\ data' = data /\ simTime' = simTime + 1
    BY <1>2 DEF Step
  <2>2. CASE mon.recordSet
    <3>1. window' = Append(window, simTime)
      BY <1>2, <2>2 DEF Step
    <3>2. data' \o Fetched' = Append(data \o Fetched, <<simTime, simTime>>)
      <4> DEFINE e == <<simTime, simTime>>
      <4>1. Fetched \in Seq(Sample) /\ e \in Sample /\ Fetched' = Append(Fetched, e)
        BY <1>2, StepPending
      <4> HIDE DEF e
      <4>2. data \o Append(Fetched, e) = Append(data \o Fetched, e)
        BY <1>0, <4>1, ConcatAppend
      <4> QED  BY <2>1, <4>1, <4>2 DEF e
    <3>3. data \o Fetched = Whole(window)
      BY <2>2 DEF RecordInv, RecordingWhole, Pushed
    <3>4. Whole(window') = Append(Whole(window), <<simTime, simTime>>)
      BY <1>0, <3>1, WholeAppend
    <3>5. Pushed(mon, data)' = Whole(window')
      BY <2>1, <2>2, <3>2, <3>3, <3>4 DEF Pushed
    <3>6. simTime' - mon'.startTimeLast + mon'.accumTime = Len(window')
      <4>1. Len(window') = Len(window) + 1 /\ Len(window) \in Nat
        BY <1>0, <3>1
      <4>2. simTime - mon.startTimeLast + mon.accumTime = Len(window)
        BY <2>2 DEF RecordInv, RecordingWhole
      <4>3. mon.startTimeLast \in Int /\ mon.accumTime \in Nat
        BY <1>0 DEF Monitor, Time, Unset
      <4> QED  BY <1>0, <2>1, <4>1, <4>2, <4>3
    <3>7. mon.startTime # Unset
      BY <2>2 DEF RecordInv
    <3> QED  BY <2>1, <2>2, <3>5, <3>6, <3>7 DEF RecordInv, RecordingWhole, Whole
  <2>3. CASE ~mon.recordSet
    <3>1. window' = window
      BY <1>2, <2>3 DEF Step
    <3> QED  BY <2>1, <2>3, <3>1 DEF RecordInv, RecordingWhole, Pushed, Whole
  <2> QED  BY <2>2, <2>3
<1>3. CASE FinishSecond
  BY <1>3, <1>u DEF FinishSecond
<1>4. CASE FinishRun
  <2>1. CASE kind \in UpdatedAtEnd
    BY <1>4, <2>1, <1>u DEF FinishRun
  <2>2. CASE kind \notin UpdatedAtEnd
    BY <1>4, <2>2, RecordStutter DEF FinishRun, SameRecording, clock
  <2> QED  BY <2>1, <2>2
<1>5. CASE StartRecording
  <2> DEFINE kept == mon.persistentData
             m == IF kept THEN mon ELSE Cleared(mon)
             d == IF kept THEN data ELSE <<>>
             w == IF kept THEN window ELSE <<>>
  <2>1. /\ ~mon.recordSet /\ mon' = Started(Updated(m)) /\ data' = Pushed(m, d) /\ window' = w
        /\ simTime' = simTime
    BY <1>5 DEF StartRecording, clock
  <2>2. m \in Monitor /\ ~m.recordSet
    BY <1>0, <2>1, FieldTypes DEF Cleared, Monitor
  <2>3. d = Whole(w)
    BY <2>1, WholeEmpty DEF RecordInv, RecordingWhole, Pushed, Whole
  <2>4. /\ m.startTime = Unset => w = <<>>
        /\ m.totalTime = IF m.startTime = Unset THEN Unset ELSE Len(w)
    <3>1. CASE kept
      BY <2>1, <3>1 DEF RecordInv, RecordingWhole
    <3>2. CASE ~kept
      BY <1>0, <3>2 DEF Cleared, Monitor
    <3> QED  BY <3>1, <3>2
  <2>5. w \in Seq(Nat) /\ d \in Seq(Sample)
    BY <1>0
  <2>6. m.persistentData = kept /\ (~kept => w = <<>>)
    BY <1>0 DEF Cleared, Monitor
  <2> HIDE DEF m, d, w, kept
  <2>7. /\ mon'.recordSet /\ mon'.startTimeLast = simTime /\ mon'.lastUpdated = simTime
        /\ mon'.startTime = IF m.persistentData /\ m.startTime # Unset THEN m.startTime ELSE simTime
        /\ mon'.accumTime = IF m.persistentData /\ m.totalTime > 0 THEN m.totalTime ELSE 0
    BY <2>1, <2>2 DEF Started, Updated, Monitor
  <2>8. mon'.startTime # Unset
    BY <1>0, <2>7 DEF Unset
  <2>9. data' = d
    BY <2>1, <2>2 DEF Pushed
  <2>10. Pushed(mon, data)' = Whole(w)
    <3>1. NothingNew'
      BY <2>1, <2>7, <1>0 DEF NothingNew
    <3> QED  BY <2>3, <2>5, <2>9, <3>1, FetchedNothing DEF Pushed
  <2>11. mon'.accumTime = Len(w)
    <3>1. Len(w) \in Nat /\ (w = <<>> => Len(w) = 0)
      BY <2>5
    <3>2. CASE ~m.persistentData
      BY <2>6, <2>7, <3>1, <3>2
    <3>3. CASE m.persistentData /\ m.startTime = Unset
      BY <2>4, <2>7, <3>1, <3>3 DEF Unset
    <3>4. CASE m.persistentData /\ m.startTime # Unset
      BY <2>4, <2>7, <3>1, <3>4
    <3> QED  BY <3>2, <3>3, <3>4
  <2>12. simTime' - mon'.startTimeLast + mon'.accumTime = Len(window')
    <3>1. Len(w) \in Nat
      BY <2>5
    <3> QED  BY <1>0, <2>1, <2>7, <2>11, <3>1
  <2>13. Whole(window)' = Whole(w)
    BY <2>1 DEF Whole
  <2> QED  BY <2>7, <2>8, <2>10, <2>12, <2>13 DEF RecordInv, RecordingWhole
<1>6. CASE StopRecording
  <2>1. /\ mon.recordSet /\ window' = window /\ simTime' = simTime
        /\ mon' = [Updated(mon) EXCEPT !.recordSet = FALSE,
                     !.totalTime = simTime - mon.startTimeLast + mon.accumTime]
        /\ data' = data \o Fetched
    BY <1>6 DEF StopRecording, LastPushed, Pushed, clock
  <2>2. ~mon'.recordSet /\ mon'.startTime = mon.startTime
        /\ mon'.totalTime = simTime - mon.startTimeLast + mon.accumTime
    BY <1>0, <2>1 DEF Updated, Monitor
  <2>3. data \o Fetched = Whole(window) /\ mon'.totalTime = Len(window) /\ mon.startTime # Unset
    BY <2>1, <2>2 DEF RecordInv, RecordingWhole, Pushed
  <2>4. RecordingWhole'
    BY <2>1, <2>2, <2>3 DEF RecordingWhole, Pushed, Whole
  <2> QED  BY <2>2, <2>3, <2>4 DEF RecordInv
<1>7. CASE Clear
  <2>1. mon' = Cleared(mon) /\ data' = <<>> /\ window' = <<>> /\ ~mon.recordSet
    BY <1>7 DEF Clear
  <2>2. ~mon'.recordSet /\ mon'.startTime = Unset /\ mon'.totalTime = Unset
    BY <1>0, <2>1 DEF Cleared, Monitor
  <2>3. Whole(window)' = <<>>
    BY <2>1, WholeEmpty DEF Whole
  <2> QED  BY <2>1, <2>2, <2>3 DEF RecordInv, RecordingWhole, Pushed
<1>8. ASSUME NEW p \in BOOLEAN, SetPersistentData(p) PROVE RecordInv'
  <2>1. SameRecording /\ mon'.lastUpdated = mon.lastUpdated
    BY <1>0, <1>8 DEF SetPersistentData, SameRecording, Monitor, clock
  <2> QED  BY <1>8, <2>1, RecordStutter DEF SetPersistentData
<1>9. ASSUME NEW f \in Files \union {Null}, SetLogFile(f) PROVE RecordInv'
  BY <1>9, RecordStutter DEF SetLogFile, SameRecording, clock
<1>10. CASE GetAllFiringRates
  BY <1>10, RecordStutter DEF GetAllFiringRates, SameRecording, clock
<1>11. CASE GetAllFiringRatesSorted
  BY <1>11, RecordStutter DEF GetAllFiringRatesSorted, SameRecording, clock
<1>12. CASE Delete
  BY <1>12, RecordStutter DEF Delete, SameRecording, clock
<1>13. CASE UNCHANGED vars
  BY <1>13, RecordStutter DEF vars, SameRecording, clock
<1> QED  BY <1>1, <1>2, <1>3, <1>4, <1>5, <1>6, <1>7, <1>8, <1>9, <1>10, <1>11, <1>12, <1>13 DEF Next

(* What a monitor holds is each millisecond of its recordings once, in      *)
(* order, with its data and its time (startRecording, stopRecording).       *)
THEOREM RecordingAlwaysWhole == Spec => []RecordingWhole
<1>1. Init => RecordInv
  <2> SUFFICES ASSUME Init PROVE RecordInv
    OBVIOUS
  <2>1. /\ ~mon.recordSet /\ mon.startTime = Unset /\ mon.totalTime = Unset
        /\ data = <<>> /\ window = <<>>
    BY DEF Init, NewMonitor
  <2>2. Whole(window) = <<>>
    BY <2>1, WholeEmpty
  <2> QED  BY <2>1, <2>2 DEF RecordInv, RecordingWhole, Pushed
<1>2. ClockOK /\ ClockOK' /\ RecordInv /\ [Next]_vars => RecordInv'
  BY RecordStep
<1>3. RecordInv => RecordingWhole
  BY DEF RecordInv
<1> QED  BY <1>1, <1>2, <1>3, ClockAlwaysOK, PTL DEF Spec

-----------------------------------------------------------------------------
(* Log files.                                                               *)

(* The log files that are promised whole, and when one is.                  *)
LogPromised == kind = "spike" \/ (kind = "neuron" /\ ~cut)
LogWhole(f) == files[f] \o (IF f = logFile THEN Fetched ELSE <<>>) = Whole(logged[f])

(* A run leaves no spikes behind, so another file may be taken after it.    *)
LogsInv ==
  /\ LogPromised => \A f \in Files : LogWhole(f)
  /\ kind = "spike" /\ phase = "idle" => NothingNew

(* An update moves what is left to fetch to the log file.                   *)
LEMMA LogUpdate ==
  ASSUME ClockOK, LogsInv, NothingNew', files' = Written,
         UNCHANGED <<kind, logFile, logged, cut>>
  PROVE  LogsInv'
<1>1. Fetched' = <<>>
  BY FetchedNothing
<1>2. /\ files \in [Files -> Seq(Sample)] /\ Null \notin Files
      /\ Fetched \in Seq(Sample)
  BY MonitorAssumption, UpdateTypes DEF ClockOK, TypeOK
<1>3. ASSUME LogPromised, NEW f \in Files PROVE LogWhole(f)'
  <2>1. LogWhole(f)
    BY <1>3 DEF LogsInv
  <2>2. files'[f] = files[f] \o (IF f = logFile THEN Fetched ELSE <<>>)
    <3>1. CASE f = logFile
      BY <1>2, <3>1 DEF Written
    <3>2. CASE f # logFile
      <4>1. files'[f] = files[f]
        BY <1>2, <3>2 DEF Written
      <4>2. files[f] \o <<>> = files[f]
        BY <1>2
      <4> QED  BY <3>2, <4>1, <4>2
    <3> QED  BY <3>1, <3>2
  <2>3. files'[f] \o <<>> = files'[f]
    <3>1. (IF f = logFile THEN Fetched ELSE <<>>) \in Seq(Sample) /\ files[f] \in Seq(Sample)
      BY <1>2
    <3>2. files'[f] \in Seq(Sample)
      BY <2>2, <3>1
    <3> QED  BY <3>2
  <2>4. Whole(logged[f])' = Whole(logged[f])
    BY DEF Whole
  <2> QED  BY <1>1, <2>1, <2>2, <2>3, <2>4 DEF LogWhole
<1> QED  BY <1>3 DEF LogsInv, LogPromised

(* Steps that touch neither clock nor log files.                            *)
LEMMA LogStutter ==
  ASSUME LogsInv, UNCHANGED <<kind, clock, buffer, logs, mon.lastUpdated>>,
         phase' = "idle" => phase = "idle"
  PROVE  LogsInv'
<1>1. Fetched' = Fetched /\ NothingNew' = NothingNew
  BY DEF Fetched, NothingNew, numMsMax, numMsMin, currentTimeSec, clock
<1>2. UNCHANGED <<kind, logFile, files, logged, cut>>
  BY DEF logs
<1> QED  BY <1>1, <1>2 DEF LogsInv, LogPromised, LogWhole, Whole

(* Every step keeps the log files whole.                                    *)
LEMMA LogsStep ==
  ASSUME ClockOK, ClockOK', LogsInv, [Next]_vars
  PROVE  LogsInv'
<1>0. mon \in Monitor /\ simTime \in Nat /\ Null \notin Files
      /\ files \in [Files -> Seq(Sample)] /\ logged \in [Files -> Seq(Nat)]
  BY MonitorAssumption DEF ClockOK, TypeOK
<1>u. ASSUME UpdateMonitor, UNCHANGED <<kind, clock, logFile, logged, cut>> PROVE LogsInv'
  <2>1. mon'.lastUpdated = simTime /\ files' = Written
    BY <1>0, <1>u, FieldTypes DEF UpdateMonitor
  <2>2. NothingNew'
    BY <1>0, <1>u, <2>1 DEF NothingNew, clock
  <2> QED  BY <1>u, <2>1, <2>2, LogUpdate
<1>1. ASSUME NEW d \in Durations, RunNetwork(d) PROVE LogsInv'
  <2>1. UNCHANGED <<kind, simTime, simTimeMs, simTimeSec, buffer, mon, logs>> /\ phase' # "idle"
    BY <1>1 DEF RunNetwork
  <2>2. Fetched' = Fetched
    BY <2>1 DEF Fetched, NothingNew, numMsMax, numMsMin, currentTimeSec
  <2> QED  BY <2>1, <2>2 DEF logs, LogsInv, LogPromised, LogWhole, Whole
<1>2. CASE Step
  <2>1. UNCHANGED <<kind, logFile, files, cut>> /\ phase' # "idle"
        /\ logged' = IF logFile = Null THEN logged
                     ELSE [logged EXCEPT ![logFile] = Append(@, simTime)]
    BY <1>2 DEF Step
  <2>2. ASSUME LogPromised, NEW f \in Files PROVE LogWhole(f)'
    <3>1. LogWhole(f)
      BY <2>2 DEF LogsInv
    <3>2. CASE f = logFile
      <4> DEFINE e == <<simTime, simTime>>
      <4>1. Fetched \in Seq(Sample) /\ e \in Sample /\ Fetched' = Append(Fetched, e)
        BY <1>2, StepPending
      <4> HIDE DEF e
      <4>2. files[f] \o Append(Fetched, e) = Append(files[f] \o Fetched, e)
        BY <1>0, <4>1, ConcatAppend
      <4>3. logged'[f] = Append(logged[f], simTime)
        BY <1>0, <2>1, <3>2
      <4>4. Whole(logged'[f]) = Append(Whole(logged[f]), e)
        BY <1>0, <4>3, WholeAppend DEF e
      <4>5. files[f] \o Fetched = Whole(logged[f])
        BY <3>1, <3>2 DEF LogWhole
      <4>6. files'[f] \o Fetched' = Whole(logged'[f])
        BY <2>1, <4>1, <4>2, <4>4, <4>5
      <4> QED  BY <2>1, <3>2, <4>6 DEF LogWhole, Whole
    <3>3. CASE f # logFile
      <4>1. logged'[f] = logged[f]
        BY <1>0, <2>1, <3>3
      <4> QED  BY <2>1, <3>1, <3>3, <4>1 DEF LogWhole, Whole
    <3> QED  BY <3>2, <3>3
  <2> QED  BY <2>1, <2>2 DEF LogsInv, LogPromised
<1>3. CASE FinishSecond
  BY <1>3, <1>u DEF FinishSecond
<1>4. CASE FinishRun
  <2>1. CASE kind \in UpdatedAtEnd
    BY <1>4, <2>1, <1>u DEF FinishRun
  <2>2. CASE kind \notin UpdatedAtEnd
    <3>1. kind # "spike" /\ UNCHANGED <<kind, clock, buffer, mon, logFile, files, logged, cut>>
      BY <1>4, <2>2 DEF FinishRun, UpdatedAtEnd
    <3>2. Fetched' = Fetched
      BY <3>1 DEF Fetched, NothingNew, numMsMax, numMsMin, currentTimeSec, clock
    <3> QED  BY <3>1, <3>2 DEF LogsInv, LogPromised, LogWhole, Whole
  <2> QED  BY <2>1, <2>2
<1>5. CASE StartRecording
  <2> DEFINE m == IF mon.persistentData THEN mon ELSE Cleared(mon)
  <2>1. m \in Monitor
    BY <1>0, FieldTypes
  <2>2. Updated(m) \in Monitor /\ Updated(m).lastUpdated = simTime
    BY <1>0, <2>1, FieldTypes
  <2>3. mon' = Started(Updated(m)) /\ files' = Written
        /\ UNCHANGED <<kind, clock, logFile, logged, cut>>
    BY <1>5 DEF StartRecording
  <2>4. mon'.lastUpdated = simTime
    BY <1>0, <2>2, <2>3, FieldTypes
  <2>5. NothingNew'
    BY <1>0, <2>3, <2>4 DEF NothingNew, clock
  <2> QED  BY <2>3, <2>5, LogUpdate
<1>6. CASE StopRecording
  <2>1. mon'.lastUpdated = simTime
    BY <1>0, <1>6 DEF StopRecording, Updated, Monitor
  <2>2. NothingNew'
    BY <1>0, <1>6, <2>1 DEF NothingNew, clock, StopRecording
  <2> QED  BY <1>6, <2>2, LogUpdate DEF StopRecording
<1>7. CASE Clear
  <2>1. mon'.lastUpdated = mon.lastUpdated
    BY <1>0, <1>7, FieldTypes DEF Clear
  <2> QED  BY <1>7, <2>1, LogStutter DEF Clear
<1>8. ASSUME NEW p \in BOOLEAN, SetPersistentData(p) PROVE LogsInv'
  <2>1. mon'.lastUpdated = mon.lastUpdated
    BY <1>0, <1>8 DEF SetPersistentData, Monitor
  <2> QED  BY <1>8, <2>1, LogStutter DEF SetPersistentData
<1>9. ASSUME NEW f \in Files \union {Null}, SetLogFile(f) PROVE LogsInv'
  <2>1. /\ phase = "idle" /\ UNCHANGED <<kind, phase, clock, buffer, mon>>
        /\ files' = [g \in Files |-> IF g = f THEN <<>> ELSE files[g]]
        /\ logged' = [g \in Files |-> IF g = f THEN <<>> ELSE logged[g]]
        /\ logFile' = f
    BY <1>9 DEF SetLogFile
  <2>2. LogPromised' => NothingNew /\ LogPromised
    BY <1>9, <2>1 DEF SetLogFile, LogPromised, LogsInv
  <2>3. NothingNew' = NothingNew
    BY <2>1 DEF NothingNew, clock
  <2>4. ASSUME LogPromised', NEW g \in Files PROVE LogWhole(g)'
    <3>1. Fetched = <<>> /\ Fetched' = <<>>
      BY <2>2, <2>3, <2>4, FetchedNothing
    <3>2. files[g] \o <<>> = Whole(logged[g])
      BY <2>2, <2>4, <3>1 DEF LogsInv, LogWhole
    <3>3. files'[g] \o <<>> = Whole(logged'[g])
      <4>1. CASE g = f
        <5>1. files'[g] = <<>> /\ logged'[g] = <<>>
          BY <2>1, <4>1
        <5>2. <<>> \o <<>> = <<>>
          OBVIOUS
        <5> QED  BY <5>1, <5>2, WholeEmpty
      <4>2. CASE g # f
        BY <2>1, <3>2, <4>2
      <4> QED  BY <4>1, <4>2
    <3> QED  BY <3>1, <3>3 DEF LogWhole, Whole
  <2> QED  BY <2>1, <2>3, <2>4 DEF LogsInv
<1>10. CASE GetAllFiringRates
  BY <1>10, LogStutter DEF GetAllFiringRates
<1>11. CASE GetAllFiringRatesSorted
  BY <1>11, LogStutter DEF GetAllFiringRatesSorted
<1>12. CASE Delete
  <2>1. /\ phase = "idle" /\ phase' # "idle" /\ UNCHANGED <<kind, clock, buffer, mon, files, logged>>
        /\ logFile' = Null
    BY <1>12 DEF Delete
  <2>2. LogPromised' => NothingNew /\ LogPromised
    BY <1>12, <2>1 DEF Delete, LogPromised, LogsInv
  <2>3. ASSUME LogPromised', NEW g \in Files PROVE LogWhole(g)'
    <3>1. Fetched = <<>>
      BY <2>2, <2>3, FetchedNothing
    <3>2. files[g] \o <<>> = Whole(logged[g])
      BY <2>2, <2>3, <3>1 DEF LogsInv, LogWhole
    <3> QED  BY <1>0, <2>1, <3>2 DEF LogWhole, Whole
  <2> QED  BY <2>1, <2>3 DEF LogsInv
<1>13. CASE UNCHANGED vars
  BY <1>13, LogStutter DEF vars
<1> QED  BY <1>1, <1>2, <1>3, <1>4, <1>5, <1>6, <1>7, <1>8, <1>9, <1>10, <1>11, <1>12, <1>13 DEF Next

(* A log file of a SpikeMonitor holds what was simulated while it was in    *)
(* use, and that of a NeuronMonitor unless one was taken away with states   *)
(* not fetched (updateSpikeMonitor, updateNeuronMonitor, setLogFile).       *)
THEOREM LogsAlwaysWhole == Spec => []LogsWhole
<1>1. Init => LogsInv
  <2> SUFFICES ASSUME Init PROVE LogsInv
    OBVIOUS
  <2>1. simTime = 0 /\ mon.lastUpdated = 0
    BY DEF Init, NewMonitor
  <2>2. NothingNew /\ Fetched = <<>>
    BY <2>1, FetchedNothing DEF NothingNew
  <2>3. ASSUME NEW f \in Files PROVE LogWhole(f)
    <3>1. files[f] = <<>> /\ logged[f] = <<>> /\ <<>> \o <<>> = <<>>
      BY DEF Init
    <3> QED  BY <2>2, <3>1, WholeEmpty DEF LogWhole
  <2> QED  BY <2>2, <2>3 DEF LogsInv
<1>2. ClockOK /\ ClockOK' /\ LogsInv /\ [Next]_vars => LogsInv'
  BY LogsStep
<1>3. LogsInv => LogsWhole
  BY DEF LogsInv, LogsWhole, LogPromised, LogWhole
<1> QED  BY <1>1, <1>2, <1>3, ClockAlwaysOK, PTL DEF Spec

-----------------------------------------------------------------------------
(* Firing rates.                                                            *)

(* While the rates are to be computed they may only be taken for sorted     *)
(* after a recording of no time, and a recording makes both stale.          *)
RatesInv ==
  /\ mon.recordSet => rates.needToCalculate /\ rates.needToSort
  /\ rates.needToCalculate /\ ~rates.needToSort => mon.totalTime = 0
  /\ ~rates.needToCalculate => mon.totalTime # 0
  /\ RatesFresh

(* Steps that touch no rates, and no vectors unless recording.              *)
LEMMA RatesStutter ==
  ASSUME RatesInv, UNCHANGED <<mon.recordSet, mon.totalTime, rates>>,
         mon.recordSet \/ data' = data
  PROVE  RatesInv'
BY DEF RatesInv, RatesFresh, Rates

(* Every step keeps the cached rates fresh or marked as stale.              *)
LEMMA RatesStep ==
  ASSUME ClockOK, RatesInv, [Next]_vars
  PROVE  RatesInv'
<1>0. mon \in Monitor /\ rates \in CachedRates
  BY DEF ClockOK, TypeOK
<1>1. ASSUME NEW d \in Durations, RunNetwork(d) PROVE RatesInv'
  BY <1>1, RatesStutter DEF RunNetwork
<1>2. CASE Step
  BY <1>2, RatesStutter DEF Step
<1>u. ASSUME UpdateMonitor, UNCHANGED rates PROVE RatesInv'
  <2>1. UNCHANGED <<mon.recordSet, mon.totalTime>>
    BY <1>0, <1>u DEF UpdateMonitor, Updated, Monitor
  <2>2. mon.recordSet \/ data' = data
    BY <1>u DEF UpdateMonitor, Pushed
  <2> QED  BY <1>u, <2>1, <2>2, RatesStutter
<1>3. CASE FinishSecond
  BY <1>3, <1>u DEF FinishSecond
<1>4. CASE FinishRun
  <2>1. CASE kind \in UpdatedAtEnd
    BY <1>4, <2>1, <1>u DEF FinishRun
  <2>2. CASE kind \notin UpdatedAtEnd
    BY <1>4, <2>2, RatesStutter DEF FinishRun
  <2> QED  BY <2>1, <2>2
<1>5. CASE StartRecording
  <2>1. rates'.needToCalculate /\ rates'.needToSort
    BY <1>0, <1>5 DEF StartRecording, RatesOnStart, ClearedRates, CachedRates
  <2> QED  BY <2>1 DEF RatesInv, RatesFresh
<1>6. CASE StopRecording
  <2>1. rates'.needToCalculate /\ rates'.needToSort
    BY <1>6 DEF StopRecording, RatesInv
  <2> QED  BY <2>1 DEF RatesInv, RatesFresh
<1>7. CASE Clear
  <2>1. rates'.needToCalculate /\ rates'.needToSort
    BY <1>7 DEF Clear, ClearedRates
  <2> QED  BY <2>1 DEF RatesInv, RatesFresh
<1>8. ASSUME NEW p \in BOOLEAN, SetPersistentData(p) PROVE RatesInv'
  <2>1. UNCHANGED <<mon.recordSet, mon.totalTime, rates, data>>
    BY <1>0, <1>8 DEF SetPersistentData, Monitor
  <2> QED  BY <2>1, RatesStutter
<1>9. ASSUME NEW f \in Files \union {Null}, SetLogFile(f) PROVE RatesInv'
  BY <1>9, RatesStutter DEF SetLogFile
<1>c. /\ Calculated.needToSort = rates.needToSort
      /\ ~Calculated.needToCalculate => Calculated.firing = Rates /\ mon.totalTime # 0
      /\ Calculated.needToCalculate => mon.totalTime = 0 /\ Calculated.firing = NoRate
                                       /\ Calculated.sorted = NoRate
      /\ ~rates.needToSort => Calculated.sorted = IF mon.totalTime = 0 THEN NoRate ELSE Rates
  <2>1. CASE ~rates.needToCalculate
    BY <2>1 DEF Calculated, RatesInv, RatesFresh
  <2>2. CASE rates.needToCalculate /\ mon.totalTime = 0
    BY <1>0, <2>2 DEF Calculated, CachedRates
  <2>3. CASE rates.needToCalculate /\ mon.totalTime # 0
    BY <1>0, <2>3 DEF Calculated, CachedRates, RatesInv
  <2> QED  BY <2>1, <2>2, <2>3
<1>10. CASE GetAllFiringRates
  <2>1. rates' = Calculated /\ mon' = mon /\ data' = data /\ ~mon.recordSet
    BY <1>10 DEF GetAllFiringRates
  <2>2. Rates' = Rates
    BY <2>1 DEF Rates
  <2> QED  BY <1>c, <2>1, <2>2 DEF RatesInv, RatesFresh
<1>11. CASE GetAllFiringRatesSorted
  <2>1. mon' = mon /\ data' = data /\ ~mon.recordSet
        /\ rates' = IF ~rates.needToSort THEN rates
                    ELSE [Calculated EXCEPT !.sorted = Calculated.firing, !.needToSort = FALSE]
    BY <1>11 DEF GetAllFiringRatesSorted
  <2>2. CASE ~rates.needToSort
    BY <2>1, <2>2, RatesStutter
  <2>3. CASE rates.needToSort
    <3>1. Calculated \in CachedRates
      BY RateTypes DEF ClockOK
    <3>2. /\ rates'.needToCalculate = Calculated.needToCalculate /\ ~rates'.needToSort
          /\ rates'.firing = Calculated.firing /\ rates'.sorted = Calculated.firing
      BY <2>1, <2>3, <3>1 DEF CachedRates
    <3>3. Rates' = Rates
      BY <2>1 DEF Rates
    <3> QED  BY <1>c, <2>1, <3>2, <3>3 DEF RatesInv, RatesFresh
  <2> QED  BY <2>2, <2>3
<1>12. CASE Delete
  BY <1>12, RatesStutter DEF Delete
<1>13. CASE UNCHANGED vars
  BY <1>13, RatesStutter DEF vars
<1> QED  BY <1>1, <1>2, <1>3, <1>4, <1>5, <1>6, <1>7, <1>8, <1>9, <1>10, <1>11, <1>12, <1>13 DEF Next

(* The cached firing rates are those of what is recorded now                *)
(* (calculateFiringRates, startRecording).                                  *)
THEOREM RatesAlwaysFresh == Spec => []RatesFresh
<1>1. Init => RatesInv
  BY DEF Init, NewMonitor, ClearedRates, RatesInv, RatesFresh
<1>2. ClockOK /\ RatesInv /\ [Next]_vars => RatesInv'
  BY RatesStep
<1>3. RatesInv => RatesFresh
  BY DEF RatesInv
<1> QED  BY <1>1, <1>2, <1>3, ClockAlwaysOK, PTL DEF Spec

-----------------------------------------------------------------------------
(* Connection monitors.                                                     *)

(* They add to the steps of the other monitors and change none of these.    *)
LEMMA StepsOfMonitors == [NextAll]_allVars => [Next]_vars
<1>1. ASSUME NEW d \in Durations, Run(d) PROVE Next
  BY <1>1 DEF Run, Next
<1>2. Advance \/ UpdateAll \/ Return \/ DeleteAll => Next
  BY DEF Advance, UpdateAll, Return, DeleteAll, Next
<1>3. TakeSnapshot \/ CalcWeightChanges \/ ChangeWeights => UNCHANGED vars
  BY DEF TakeSnapshot, CalcWeightChanges, ChangeWeights
<1>4. ASSUME NEW i \in Intervals, SetUpdateTimeIntervalSec(i) PROVE UNCHANGED vars
  BY <1>4 DEF SetUpdateTimeIntervalSec
<1>5. Recording => Next
  BY DEF Recording, Next
<1>6. UNCHANGED allVars => UNCHANGED vars
  BY DEF allVars
<1> QED  BY <1>1, <1>2, <1>3, <1>4, <1>5, <1>6 DEF NextAll

(* Nor do their behaviours differ.                                          *)
LEMMA SpecOfMonitors == SpecAll => Spec
<1>1. InitAll => Init
  BY DEF InitAll
<1> QED  BY <1>1, StepsOfMonitors, PTL DEF SpecAll, Spec

(* With the steps of the connection monitors in runNetwork, the others keep *)
(* their promises.                                                          *)
THEOREM MonitorsAlwaysWhole == SpecAll => [](RecordingWhole /\ LogsWhole /\ RatesFresh)
BY SpecOfMonitors, RecordingAlwaysWhole, LogsAlwaysWhole, RatesAlwaysFresh, PTL

(* The types of the fields of a connection monitor; times as in Monitors.   *)
Interval  == Intervals \union {1}
Snapshots == Seq(Nat \X Nat)

Connection ==
  [interval : Interval, wtTime : Nat, wtMat : Nat, wtTimeLast : Time, wtMatLast : Time,
   wtTimeWrite : Time, snapshots : Snapshots]

(* The times of the snapshots of c.                                         *)
TimesOf(c) == { c.snapshots[k][1] : k \in DOMAIN c.snapshots }

(* The file of c.                                                           *)
FileOf(c) == { c.snapshots[k] : k \in DOMAIN c.snapshots }

(* The snapshots of c are in order of time, up to the time written last,    *)
(* and of weights that were.                                                *)
SnapshotsOK(c, was, now) ==
  /\ c \in Connection
  /\ \A k \in DOMAIN c.snapshots : c.snapshots[k] \in was
  /\ \A j, k \in DOMAIN c.snapshots : j < k => c.snapshots[j][1] < c.snapshots[k][1]
  /\ c.wtTimeWrite <= now
  /\ \A k \in DOMAIN c.snapshots : c.snapshots[k][1] <= c.wtTimeWrite
  /\ c.wtTimeWrite = -1 \/ c.wtTimeWrite \in TimesOf(c)

(* The stored weights are those of two times.                               *)
StoredOK(c, was, now) ==
  /\ <<c.wtTime, c.wtMat>> \in was
  /\ c.wtTimeLast < c.wtTime /\ c.wtTime <= now
  /\ c.wtTimeLast # -1 => <<c.wtTimeLast, c.wtMatLast>> \in was

(* The file of c has what was asked for in d.                               *)
DueOK(c, d) ==
  /\ TimesOf(c) = { o.time : o \in d }
  /\ \A o \in d : /\ o.by # "stale" => <<o.time, o.weights>> \in FileOf(c)
                  /\ o.by = "early" => OnlyInMs(o.time)

(* Weights stored at this time are the current ones, unless changed since.  *)
EditedOK(c) ==
  /\ edited \in BOOLEAN
  /\ c.wtTime = simTime /\ ~edited => c.wtMat = weights

(* The updates of these fields leave fields, and change no others.          *)
AfterWrite(c, t, q)  == [c EXCEPT !.wtTimeWrite = t, !.snapshots = q]
AfterStore(c, t, w)  ==
  [c EXCEPT !.wtMatLast = c.wtMat, !.wtTimeLast = c.wtTime, !.wtMat = w, !.wtTime = t]
AfterInterval(c, i)  == [c EXCEPT !.interval = i]

(* What writing a snapshot changes.                                         *)
LEMMA WriteType ==
  ASSUME NEW c \in Connection, NEW t \in Nat, NEW q \in Snapshots, NEW d,
         d = AfterWrite(c, t, q)
  PROVE  /\ d \in Connection /\ d.snapshots = q /\ d.wtTimeWrite = t
         /\ d.interval = c.interval /\ d.wtTime = c.wtTime /\ d.wtMat = c.wtMat
         /\ d.wtTimeLast = c.wtTimeLast /\ d.wtMatLast = c.wtMatLast
<1>1. t \in Time
  BY DEF Time
<1>2. d \in Connection
  BY <1>1 DEF Connection, AfterWrite
<1> QED  BY <1>2 DEF Connection, AfterWrite

(* Storing the weights leaves the fields of their types.                    *)
LEMMA StoreType ==
  ASSUME NEW c \in Connection, NEW t \in Nat, NEW w \in Nat, NEW d,
         d = AfterStore(c, t, w)
  PROVE  d \in Connection
<1> DEFINE u == c.wtMat
           v == c.wtTime
<1>1. u \in Time /\ v \in Time /\ v \in Nat
  BY DEF Connection, Time
<1> HIDE DEF u, v
<1>2. d = [c EXCEPT !.wtMatLast = u, !.wtTimeLast = v, !.wtMat = w, !.wtTime = t]
  BY DEF u, v, AfterStore
<1>3. d \in Connection
  BY <1>1, <1>2 DEF Connection
<1> QED  BY <1>3

(* What a new interval changes.                                             *)
LEMMA IntervalType ==
  ASSUME NEW c \in Connection, NEW i \in Interval, NEW d, d = AfterInterval(c, i)
  PROVE  /\ d \in Connection /\ d.snapshots = c.snapshots /\ d.interval = i
         /\ d.wtTimeWrite = c.wtTimeWrite /\ d.wtTime = c.wtTime /\ d.wtMat = c.wtMat
         /\ d.wtTimeLast = c.wtTimeLast /\ d.wtMatLast = c.wtMatLast
BY DEF Connection, AfterInterval

(* A snapshot appended to those there are.                                  *)
LEMMA AppendFacts ==
  ASSUME NEW s \in Snapshots, NEW e \in Nat \X Nat, NEW q, q = Append(s, e)
  PROVE  /\ DOMAIN q = DOMAIN s \union {Len(s) + 1} /\ Len(s) \in Nat
         /\ \A k \in DOMAIN s : q[k] = s[k] /\ k < Len(s) + 1 /\ k \in Nat
         /\ q[Len(s) + 1] = e
BY DEF Snapshots

(* Writing the weights of now adds the time, unless it is there.            *)
LEMMA WriteOK ==
  ASSUME NEW c, NEW was, NEW now \in Nat, NEW w \in Nat,
         SnapshotsOK(c, was, now), StoredOK(c, was, now), <<now, w>> \in was
  PROVE  /\ SnapshotsOK(WriteSnapshot(c, now, w), was, now)
         /\ StoredOK(WriteSnapshot(c, now, w), was, now)
         /\ TimesOf(WriteSnapshot(c, now, w)) = TimesOf(c) \union {now}
         /\ FileOf(c) \subseteq FileOf(WriteSnapshot(c, now, w))
         /\ now \notin TimesOf(c) => <<now, w>> \in FileOf(WriteSnapshot(c, now, w))
         /\ WriteSnapshot(c, now, w).wtTime = c.wtTime
         /\ WriteSnapshot(c, now, w).wtMat = c.wtMat
<1> DEFINE d == WriteSnapshot(c, now, w)
           s == c.snapshots
           q == Append(s, <<now, w>>)
<1>0. c \in Connection /\ s \in Seq(Nat \X Nat) /\ c.wtTimeWrite \in Int
  BY DEF SnapshotsOK, Connection, Snapshots, Time, Unset
<1>1. CASE now <= c.wtTimeWrite
  <2>1. d = c
    BY <1>1 DEF WriteSnapshot, AlreadyWritten
  <2>2. now = c.wtTimeWrite /\ now \in TimesOf(c)
    BY <1>0, <1>1 DEF SnapshotsOK
  <2> QED  BY <2>1, <2>2
<1>2. CASE ~(now <= c.wtTimeWrite)
  <2>1. d = AfterWrite(c, now, q)
    BY <1>2 DEF WriteSnapshot, AlreadyWritten, AfterWrite
  <2>a. q \in Snapshots
    BY <1>0 DEF Snapshots
  <2> HIDE DEF d, s, q
  <2>2. /\ d \in Connection /\ d.snapshots = q /\ d.wtTimeWrite = now
        /\ d.interval = c.interval /\ d.wtTime = c.wtTime /\ d.wtMat = c.wtMat
        /\ d.wtTimeLast = c.wtTimeLast /\ d.wtMatLast = c.wtMatLast
    BY <1>0, <2>1, <2>a, WriteType
  <2>3. /\ DOMAIN d.snapshots = DOMAIN s \union {Len(s) + 1}
        /\ \A k \in DOMAIN s : d.snapshots[k] = s[k] /\ k < Len(s) + 1 /\ k \in Nat
        /\ d.snapshots[Len(s) + 1] = <<now, w>>
        /\ Len(s) \in Nat
    <3> DEFINE e == <<now, w>>
    <3>1. e \in Nat \X Nat /\ s \in Snapshots
      BY <1>0 DEF Snapshots
    <3> HIDE DEF e
    <3>2. q = Append(s, e)
      BY DEF q, e
    <3>3. /\ DOMAIN q = DOMAIN s \union {Len(s) + 1} /\ Len(s) \in Nat
          /\ \A k \in DOMAIN s : q[k] = s[k] /\ k < Len(s) + 1 /\ k \in Nat
          /\ q[Len(s) + 1] = e
      BY <3>1, <3>2, AppendFacts
    <3> QED  BY <2>2, <3>3 DEF e
  <2>4. \A k \in DOMAIN s : s[k][1] \in Nat /\ s[k][1] < now /\ s[k] \in was
    BY SMTT(30), <1>0, <1>2 DEF SnapshotsOK, s
  <2>5. <<now, w>>[1] = now
    OBVIOUS
  <2>6. \A k \in DOMAIN d.snapshots : d.snapshots[k] \in was /\ d.snapshots[k][1] <= now
    BY <2>3, <2>4, <2>5
  <2>7. ASSUME NEW j \in DOMAIN d.snapshots, NEW k \in DOMAIN d.snapshots, j < k
        PROVE  d.snapshots[j][1] < d.snapshots[k][1]
    <3>1. j \in DOMAIN s
      BY <2>3, <2>7
    <3>2. CASE k \in DOMAIN s
      BY <2>3, <2>7, <3>1, <3>2 DEF SnapshotsOK, s
    <3>3. CASE k = Len(s) + 1
      BY <2>3, <2>4, <2>5, <3>1, <3>3
    <3> QED  BY <2>3, <3>2, <3>3
  <2>8. TimesOf(d) = TimesOf(c) \union {now}
    BY <2>3, <2>5 DEF TimesOf, s
  <2>9. SnapshotsOK(d, was, now)
    BY <2>2, <2>6, <2>7, <2>8 DEF SnapshotsOK
  <2>10. StoredOK(d, was, now)
    BY <2>2 DEF StoredOK
  <2>11. FileOf(c) \subseteq FileOf(d) /\ <<now, w>> \in FileOf(d)
    BY <2>3 DEF FileOf, s
  <2> QED  BY <2>2, <2>8, <2>9, <2>10, <2>11 DEF d
<1> QED  BY <1>1, <1>2

(* A snapshot written when it is asked for is in the file with the weights  *)
(* of the moment, or it is a stale one.                                     *)
LEMMA AskedOK ==
  ASSUME NEW c, NEW w \in Nat, NEW by, simTime \in Nat,
         SnapshotsOK(c, held, simTime), StoredOK(c, held, simTime), <<simTime, w>> \in held,
         DueOK(c, due), w = weights \/ by = "stale", by = "early" => OnlyInMs(simTime)
  PROVE  DueOK(WriteSnapshot(c, simTime, w), Asked(by))
<1> DEFINE d == WriteSnapshot(c, simTime, w)
           new == [time |-> simTime, weights |-> weights, by |-> by]
<1>1. /\ TimesOf(d) = TimesOf(c) \union {simTime}
      /\ FileOf(c) \subseteq FileOf(d)
      /\ simTime \notin TimesOf(c) => <<simTime, w>> \in FileOf(d)
  BY WriteOK
<1> HIDE DEF d
<1>2. CASE \E o \in due : o.time = simTime
  <2>1. Asked(by) = due /\ simTime \in TimesOf(c)
    BY <1>2 DEF Asked, DueOK
  <2>2. TimesOf(d) = TimesOf(c)
    BY <1>1, <2>1
  <2> QED  BY <1>1, <2>1, <2>2 DEF DueOK, d
<1>3. CASE ~\E o \in due : o.time = simTime
  <2>1. Asked(by) = due \union {new} /\ simTime \notin TimesOf(c)
    BY <1>3 DEF Asked, DueOK
  <2>2. new.time = simTime /\ new.weights = weights /\ new.by = by
    OBVIOUS
  <2>3. new.by # "stale" => <<new.time, new.weights>> \in FileOf(d)
    BY <1>1, <2>1, <2>2
  <2>4. new.by = "early" => OnlyInMs(new.time)
    BY <2>2
  <2> DEFINE more == due \union {new}
  <2> HIDE DEF new
  <2>5. TimesOf(d) = { o.time : o \in more }
    BY <1>1, <2>2 DEF DueOK
  <2>6. \A o \in more : /\ o.by # "stale" => <<o.time, o.weights>> \in FileOf(d)
                        /\ o.by = "early" => OnlyInMs(o.time)
    BY <1>1, <2>3, <2>4 DEF DueOK
  <2> HIDE DEF more
  <2>7. DueOK(d, more)
    BY <2>5, <2>6 DEF DueOK
  <2> QED  BY <2>1, <2>7 DEF d, more
<1> QED  BY <1>2, <1>3

(* Storing the weights makes them those of now, or they were stored at now. *)
LEMMA StoreOK ==
  ASSUME NEW c, NEW was, simTime \in Nat, weights \in Nat,
         SnapshotsOK(c, was, simTime), StoredOK(c, was, simTime), <<simTime, weights>> \in was
  PROVE  /\ SnapshotsOK(UpdateStoredWeights(c), was, simTime)
         /\ StoredOK(UpdateStoredWeights(c), was, simTime)
         /\ TimesOf(UpdateStoredWeights(c)) = TimesOf(c)
         /\ UpdateStoredWeights(c).snapshots = c.snapshots
         /\ UpdateStoredWeights(c).wtTime = simTime
         /\ UpdateStoredWeights(c).wtMat \in Nat
         /\ \/ UpdateStoredWeights(c).wtMat = weights
            \/ simTime = c.wtTime /\ UpdateStoredWeights(c).wtMat = c.wtMat
<1> DEFINE d == UpdateStoredWeights(c)
<1>0. c \in Connection
  BY DEF SnapshotsOK
<1>1. CASE simTime <= c.wtTime
  <2>1. d = c /\ c.wtTime = simTime
    BY <1>0, <1>1 DEF UpdateStoredWeights, StoredOK, Connection
  <2> QED  BY <1>0, <2>1 DEF Connection
<1>2. CASE ~(simTime <= c.wtTime)
  <2>1. d = AfterStore(c, simTime, weights)
    BY <1>2 DEF UpdateStoredWeights, AfterStore
  <2> HIDE DEF d
  <2>a. d \in Connection
    BY <1>0, <2>1, StoreType
  <2>b. d.snapshots = c.snapshots /\ d.wtTimeWrite = c.wtTimeWrite /\ d.interval = c.interval
    BY <1>0, <2>1 DEF AfterStore, Connection
  <2>c. d.wtTime = simTime /\ d.wtMat = weights
    BY <1>0, <2>1 DEF AfterStore, Connection
  <2>d. d.wtTimeLast = c.wtTime /\ d.wtMatLast = c.wtMat /\ c.wtTime \in Nat
    BY <1>0, <2>1 DEF AfterStore, Connection
  <2>2. /\ d \in Connection /\ d.snapshots = c.snapshots /\ d.wtTimeWrite = c.wtTimeWrite
        /\ d.interval = c.interval /\ d.wtTime = simTime /\ d.wtMat = weights
        /\ d.wtTimeLast = c.wtTime /\ d.wtMatLast = c.wtMat /\ c.wtTime \in Nat
    BY <2>a, <2>b, <2>c, <2>d
  <2>3. TimesOf(d) = TimesOf(c)
    BY <2>2 DEF TimesOf
  <2>4. SnapshotsOK(d, was, simTime)
    BY <2>2, <2>3 DEF SnapshotsOK
  <2>5. StoredOK(d, was, simTime)
    BY <1>2, <2>2 DEF StoredOK
  <2> QED  BY <2>2, <2>3, <2>4, <2>5 DEF d
<1> QED  BY <1>1, <1>2

(* Time and weights go on.                                                  *)
LEMMA KeepOK ==
  ASSUME NEW c, NEW was, NEW more, NEW now \in Nat, NEW later \in Nat,
         SnapshotsOK(c, was, now), StoredOK(c, was, now), was \subseteq more, now <= later
  PROVE  SnapshotsOK(c, more, later) /\ StoredOK(c, more, later)
<1>1. c.wtTimeWrite \in Int /\ c.wtTime \in Nat
  BY DEF SnapshotsOK, Connection, Time, Unset
<1>2. SnapshotsOK(c, more, later)
  BY <1>1 DEF SnapshotsOK
<1>3. StoredOK(c, more, later)
  BY <1>1 DEF StoredOK
<1> QED  BY <1>2, <1>3

(* What the connection monitors keep, with the times of the run.            *)
WeightsInv ==
  /\ weights \in Nat
  /\ <<simTime, weights>> \in held
  /\ SnapshotsOK(conn, held, simTime)
  /\ StoredOK(conn, held, simTime)
  /\ DueOK(conn, due)
  /\ EditedOK(conn)
  /\ simTime <= simTimeRunStop /\ simTimeRunStop <= TimeBound
  /\ phase = "second" => simTimeMs = 0

(* There are no more seconds than milliseconds.                             *)
LEMMA MultipleAbove ==
  ASSUME NEW M \in Nat \ {0}, NEW q \in Nat
  PROVE  q <= q * M
OBVIOUS

(* A multiple of a multiple is one.                                         *)
LEMMA MultipleOfMultiple ==
  ASSUME NEW i \in Nat \ {0}, NEW s \in Nat, NEW M \in Nat, s % i = 0
  PROVE  (s * M) % i = 0
<1> DEFINE q == s \div i
           k == q * M
           n == s * M
           p == n \div i
           m == n % i
<1>1. q \in Nat /\ s = i * q
  OBVIOUS
<1>2. k \in Nat /\ n \in Nat /\ n = i * k
  BY <1>1
<1> HIDE DEF q, k, n
<1>3. p \in Nat /\ m \in 0 .. i - 1 /\ n = i * p + m
  BY <1>2
<1> HIDE DEF p, m
<1>4. m = i * (k - p)
  BY <1>2, <1>3
<1>5. k - p < 1
  BY <1>2, <1>3, <1>4
<1>6. ~(k - p < 0)
  BY <1>2, <1>3, <1>4
<1>7. k - p = 0
  BY <1>2, <1>3, <1>5, <1>6
<1>8. m = 0
  BY <1>4, <1>7
<1> QED  BY <1>8 DEF m, n

(* On full seconds every snapshot of the schedule is taken; another one     *)
(* only because of the milliseconds.                                        *)
LEMMA ScheduledTaken ==
  ASSUME ClockOK, WeightsInv, simTimeMs = 0
  PROVE  /\ OnSchedule => WantsSnapshot
         /\ WantsSnapshot /\ ~OnSchedule => OnlyInMs(simTime)
<1> DEFINE i == conn.interval
           s == simTimeSec
<1>1. s \in Nat /\ MsPerSec \in Nat \ {0} /\ simTime \in Nat /\ simTime = s * MsPerSec
  BY MonitorAssumption DEF ClockOK, TypeOK, ClockInv
<1>2. s \in 0 .. TimeBound
  <2>1. s <= s * MsPerSec
    BY <1>1, MultipleAbove
  <2>2. simTime <= TimeBound
    BY <1>1, MonitorAssumption DEF WeightsInv, ClockOK, TypeOK
  <2> QED  BY <1>1, <2>1, <2>2, MonitorAssumption
<1>3. i \in Interval
  BY DEF WeightsInv, SnapshotsOK, Connection
<1>4. CASE i = 1
  <2>1. s % 1 = 0
    BY <1>1
  <2> QED  BY <1>4, <2>1 DEF WantsSnapshot, OnSchedule
<1>5. CASE i = -1
  BY <1>5 DEF WantsSnapshot, OnSchedule
<1>6. CASE i # 1 /\ i # -1
  <2>1. i \in Intervals /\ i > 1 /\ i \in Nat \ {0}
    BY <1>3, <1>6, IntervalAssumption DEF Interval
  <2>2. WantsSnapshot <=> simTime % i = 0
    BY <1>6, <2>1 DEF WantsSnapshot
  <2>3. OnSchedule <=> s % i = 0
    BY <1>6 DEF OnSchedule
  <2>4. s % i = 0 => simTime % i = 0
    BY <1>1, <2>1, MultipleOfMultiple
  <2>5. simTime % i = 0 /\ s % i # 0 => OnlyInMs(simTime)
    BY <1>1, <1>2, <2>1 DEF OnlyInMs
  <2> QED  BY <2>2, <2>3, <2>4, <2>5
<1> QED  BY <1>4, <1>5, <1>6

(* The snapshot of a full second is what was asked for.                     *)
LEMMA ScheduledOK ==
  ASSUME ClockOK, WeightsInv, simTimeMs = 0
  PROVE  /\ SnapshotsOK(UpdateConnectionMonitor, held, simTime)
         /\ StoredOK(UpdateConnectionMonitor, held, simTime)
         /\ DueOK(UpdateConnectionMonitor, AskedOnSecond)
         /\ UpdateConnectionMonitor.wtTime = conn.wtTime
         /\ UpdateConnectionMonitor.wtMat = conn.wtMat
<1>0. simTime \in Nat /\ weights \in Nat /\ <<simTime, weights>> \in held
  BY DEF ClockOK, TypeOK, WeightsInv
<1>1. CASE WantsSnapshot
  <2> DEFINE d == WriteSnapshot(conn, simTime, weights)
             by == IF OnSchedule THEN "schedule" ELSE "early"
  <2>1. UpdateConnectionMonitor = d /\ AskedOnSecond = Asked(by)
    BY <1>1 DEF UpdateConnectionMonitor, AskedOnSecond
  <2>2. by = "early" => OnlyInMs(simTime)
    BY <1>1, ScheduledTaken
  <2> HIDE DEF by
  <2>3. DueOK(d, Asked(by))
    BY <1>0, <2>2, AskedOK DEF WeightsInv
  <2>4. SnapshotsOK(d, held, simTime) /\ StoredOK(d, held, simTime)
        /\ d.wtTime = conn.wtTime /\ d.wtMat = conn.wtMat
    BY <1>0, WriteOK DEF WeightsInv
  <2> HIDE DEF d
  <2> QED  BY <2>1, <2>3, <2>4
<1>2. CASE ~WantsSnapshot
  <2>1. UpdateConnectionMonitor = conn /\ AskedOnSecond = due
    BY <1>2, ScheduledTaken DEF UpdateConnectionMonitor, AskedOnSecond
  <2> QED  BY <2>1 DEF WeightsInv
<1> QED  BY <1>1, <1>2

(* Steps of the other monitors.                                             *)
LEMMA WeightsStutter ==
  ASSUME WeightsInv, UNCHANGED <<clock, phase, weightVars>>
  PROVE  WeightsInv'
BY DEF WeightsInv, clock, weightVars, SnapshotsOK, StoredOK, DueOK, EditedOK, TimesOf, FileOf

(* The parts of the invariant after a step, from those for the new values.  *)
LEMMA WeightsNext ==
  ASSUME weights' \in Nat, <<simTime', weights'>> \in held',
         SnapshotsOK(conn', held', simTime'), StoredOK(conn', held', simTime'),
         DueOK(conn', due'), edited' \in BOOLEAN,
         conn'.wtTime = simTime' /\ ~edited' => conn'.wtMat = weights',
         simTime' <= simTimeRunStop', simTimeRunStop' <= TimeBound,
         phase' = "second" => simTimeMs' = 0
  PROVE  WeightsInv'
BY DEF WeightsInv, SnapshotsOK, StoredOK, DueOK, EditedOK, TimesOf, FileOf

(* Every step keeps the snapshots in order and those that were due.         *)
LEMMA WeightsStep ==
  ASSUME ClockOK, WeightsInv, [NextAll]_allVars
  PROVE  WeightsInv'
<1>0. simTime \in Nat /\ simTimeSec \in Nat /\ simTimeMs \in 0 .. MsPerSec - 1
      /\ simTimeRunStop \in Nat /\ weights \in Nat /\ conn \in Connection
  BY DEF ClockOK, TypeOK, WeightsInv, SnapshotsOK
<1>1. ASSUME NEW d \in Durations, Run(d) PROVE WeightsInv'
  <2>1. /\ UNCHANGED <<simTime, weights, held, edited>> /\ simTimeMs' = simTimeMs
        /\ simTimeRunStop' = simTime + d /\ simTime + d <= TimeBound /\ phase' = "running"
    BY <1>1 DEF Run, RunNetwork
  <2>2. d \in Nat
    BY MonitorAssumption
  <2>3. SnapshotsOK(conn', held, simTime) /\ StoredOK(conn', held, simTime)
        /\ DueOK(conn', due') /\ EditedOK(conn')
    <3>1. CASE simTime = 0
      <4>1. simTimeMs = 0
        BY <1>0, <3>1, BaseInt DEF ClockOK, ClockInv
      <4> QED  BY <1>1, <3>1, <4>1, ScheduledOK DEF Run, WeightsInv, EditedOK
    <3>2. CASE simTime # 0
      <4>1. conn' = conn /\ due' = due
        BY <1>1, <3>2 DEF Run
      <4> QED  BY <4>1 DEF WeightsInv
    <3> QED  BY <3>1, <3>2
  <2> QED  BY <1>0, <2>1, <2>2, <2>3, WeightsNext DEF WeightsInv, EditedOK
<1>2. CASE Advance
  <2>1. /\ simTime' = simTime + 1 /\ simTime < simTimeRunStop /\ simTimeRunStop' = simTimeRunStop
        /\ conn' = conn /\ due' = due /\ edited' = FALSE
        /\ held' = held \union {<<simTime', weights'>>}
    BY <1>2 DEF Advance, Step
  <2>2. weights' \in Nat
    BY <1>0, <1>2, IntervalAssumption DEF Advance
  <2>3. phase' = "second" => simTimeMs' = 0
    BY <1>2 DEF Advance, Step
  <2>4. simTime + 1 \in Nat /\ simTime <= simTime + 1 /\ held \subseteq held'
    BY <1>0, <2>1
  <2>5. SnapshotsOK(conn, held', simTime + 1) /\ StoredOK(conn, held', simTime + 1)
    BY <1>0, <2>4, KeepOK DEF WeightsInv
  <2>6. conn'.wtTime # simTime'
    BY <1>0, <2>1 DEF WeightsInv, StoredOK, Connection
  <2>7. SnapshotsOK(conn', held', simTime') /\ StoredOK(conn', held', simTime') /\ DueOK(conn', due')
    BY <2>1, <2>5 DEF WeightsInv
  <2>8. simTime' <= simTimeRunStop' /\ simTimeRunStop' <= TimeBound
    BY <1>0, <2>1 DEF WeightsInv
  <2>9. <<simTime', weights'>> \in held' /\ edited' = FALSE
    BY <2>1
  <2> QED  BY <2>2, <2>3, <2>6, <2>7, <2>8, <2>9, WeightsNext
<1>3. CASE UpdateAll
  <2>1. /\ UNCHANGED <<clock, weights, held, edited>> /\ phase = "second" /\ phase' = "running"
        /\ conn' = UpdateConnectionMonitor /\ due' = AskedOnSecond
    BY <1>3 DEF UpdateAll, FinishSecond
  <2>2. simTimeMs = 0
    BY <2>1 DEF WeightsInv
  <2>3. SnapshotsOK(conn', held, simTime) /\ StoredOK(conn', held, simTime)
        /\ DueOK(conn', due') /\ EditedOK(conn')
    BY <2>1, <2>2, ScheduledOK DEF WeightsInv, EditedOK
  <2> QED  BY <2>1, <2>3, WeightsNext DEF WeightsInv, EditedOK, clock
<1>4. CASE Return
  <2>1. phase' = "idle" /\ UNCHANGED <<clock, weightVars>>
    BY <1>4 DEF Return, FinishRun
  <2> QED  BY <2>1, WeightsNext DEF WeightsInv, EditedOK, clock, weightVars
<1>5. CASE TakeSnapshot
  <2> DEFINE c == UpdateStoredWeights(conn)
             w == c.wtMat
             e == WriteSnapshot(c, simTime, w)
             by == IF edited THEN "stale" ELSE "user"
  <2>1. /\ UNCHANGED vars /\ UNCHANGED <<weights, held, edited>>
        /\ conn' = WriteSnapshot(c, c.wtTime, c.wtMat) /\ due' = Asked(by)
    BY <1>5 DEF TakeSnapshot
  <2>2. /\ SnapshotsOK(c, held, simTime) /\ StoredOK(c, held, simTime)
        /\ c.snapshots = conn.snapshots /\ c.wtTime = simTime /\ w \in Nat
        /\ (w = weights \/ (simTime = conn.wtTime /\ w = conn.wtMat))
    BY <1>0, StoreOK DEF WeightsInv
  <2>3. conn' = e
    BY <2>1, <2>2
  <2>4. <<simTime, w>> \in held
    BY <2>2 DEF StoredOK
  <2>a. edited \in BOOLEAN /\ (~edited => w = weights)
    BY <2>2 DEF WeightsInv, EditedOK
  <2>b. (w = weights \/ by = "stale") /\ by # "early"
    BY <2>a
  <2> HIDE DEF c, w, by
  <2>c. DueOK(c, due)
    BY <2>2 DEF WeightsInv, DueOK, TimesOf, FileOf
  <2>5. /\ SnapshotsOK(e, held, simTime) /\ StoredOK(e, held, simTime)
        /\ e.wtTime = simTime /\ e.wtMat = w
    BY <1>0, <2>2, <2>4, WriteOK DEF w
  <2>6. DueOK(e, Asked(by))
    BY <1>0, <2>2, <2>4, <2>b, <2>c, AskedOK
  <2> HIDE DEF e
  <2>7. SnapshotsOK(conn', held, simTime) /\ StoredOK(conn', held, simTime)
        /\ DueOK(conn', due') /\ EditedOK(conn')
    BY <2>1, <2>3, <2>5, <2>6, <2>a DEF EditedOK
  <2> QED  BY <2>1, <2>7, WeightsNext DEF WeightsInv, EditedOK, vars, clock
<1>6. CASE CalcWeightChanges
  <2>1. /\ UNCHANGED vars /\ UNCHANGED <<weights, held, edited, due>>
        /\ conn' = UpdateStoredWeights(conn)
    BY <1>6 DEF CalcWeightChanges
  <2>2. /\ SnapshotsOK(conn', held, simTime) /\ StoredOK(conn', held, simTime)
        /\ conn'.snapshots = conn.snapshots /\ conn'.wtTime = simTime
        /\ (conn'.wtMat = weights \/ (simTime = conn.wtTime /\ conn'.wtMat = conn.wtMat))
    BY <1>0, <2>1, StoreOK DEF WeightsInv
  <2>3. DueOK(conn', due) /\ EditedOK(conn')
    BY <2>2 DEF WeightsInv, DueOK, EditedOK, TimesOf, FileOf
  <2> QED  BY <2>1, <2>2, <2>3, WeightsNext DEF WeightsInv, EditedOK, vars, clock
<1>7. CASE ChangeWeights
  <2>1. /\ UNCHANGED vars /\ UNCHANGED <<conn, due>> /\ weights' = weights + 1
        /\ held' = held \union {<<simTime, weights'>>}
        /\ edited' = (edited \/ conn.wtTime = simTime)
    BY <1>7 DEF ChangeWeights
  <2>2. SnapshotsOK(conn, held', simTime) /\ StoredOK(conn, held', simTime)
    BY <1>0, <2>1, KeepOK DEF WeightsInv
  <2>3. edited' \in BOOLEAN /\ ~(conn.wtTime = simTime /\ ~edited')
    BY <2>1
  <2> QED  BY <1>0, <2>1, <2>2, <2>3, WeightsNext DEF WeightsInv, EditedOK, vars, clock
<1>8. ASSUME NEW i \in Intervals, SetUpdateTimeIntervalSec(i) PROVE WeightsInv'
  <2>1. /\ UNCHANGED vars /\ UNCHANGED <<weights, held, edited, due>>
        /\ conn' = AfterInterval(conn, i)
    BY <1>8 DEF SetUpdateTimeIntervalSec, AfterInterval
  <2>2. i \in Interval
    BY DEF Interval
  <2>3. /\ conn' \in Connection /\ conn'.snapshots = conn.snapshots
        /\ conn'.wtTimeWrite = conn.wtTimeWrite /\ conn'.wtTime = conn.wtTime
        /\ conn'.wtMat = conn.wtMat
        /\ conn'.wtTimeLast = conn.wtTimeLast /\ conn'.wtMatLast = conn.wtMatLast
    BY <1>0, <2>1, <2>2, IntervalType
  <2>4. TimesOf(conn') = TimesOf(conn)
    BY <2>3 DEF TimesOf
  <2>5. SnapshotsOK(conn', held, simTime) /\ StoredOK(conn', held, simTime)
    BY <2>3, <2>4 DEF WeightsInv, SnapshotsOK, StoredOK
  <2>6. DueOK(conn', due) /\ EditedOK(conn')
    BY <2>3, <2>4 DEF WeightsInv, DueOK, EditedOK, FileOf
  <2> QED  BY <2>1, <2>5, <2>6, WeightsNext DEF WeightsInv, EditedOK, vars, clock
<1>9. CASE DeleteAll
  <2>1. /\ UNCHANGED <<clock, weights, held, edited>> /\ phase' = "deleted"
    BY <1>9 DEF DeleteAll, Delete
  <2>2. SnapshotsOK(conn', held, simTime) /\ StoredOK(conn', held, simTime)
        /\ DueOK(conn', due') /\ EditedOK(conn')
    <3>1. CASE conn.interval > 0
      <4>1. conn' = WriteSnapshot(conn, simTime, weights) /\ due' = Asked("end")
        BY <1>9, <3>1 DEF DeleteAll
      <4>2. DueOK(conn', due')
        BY <1>0, <4>1, AskedOK DEF WeightsInv
      <4>3. /\ SnapshotsOK(conn', held, simTime) /\ StoredOK(conn', held, simTime)
            /\ conn'.wtTime = conn.wtTime /\ conn'.wtMat = conn.wtMat
        BY <1>0, <4>1, WriteOK DEF WeightsInv
      <4> QED  BY <4>2, <4>3 DEF WeightsInv, EditedOK
    <3>2. CASE ~(conn.interval > 0)
      <4>1. conn' = conn /\ due' = due
        BY <1>9, <3>2 DEF DeleteAll
      <4> QED  BY <4>1 DEF WeightsInv
    <3> QED  BY <3>1, <3>2
  <2> QED  BY <2>1, <2>2, WeightsNext DEF WeightsInv, EditedOK, clock
<1>10. CASE Recording
  <2>1. UNCHANGED <<clock, phase, weightVars>>
    BY <1>10 DEF Recording, StartRecording, StopRecording, Clear, SetPersistentData,
                 SetLogFile, GetAllFiringRates, GetAllFiringRatesSorted
  <2> QED  BY <2>1, WeightsStutter
<1>11. CASE UNCHANGED allVars
  BY <1>11, WeightsStutter DEF allVars, vars
<1> QED  BY <1>1, <1>2, <1>3, <1>4, <1>5, <1>6, <1>7, <1>8, <1>9, <1>10, <1>11 DEF NextAll

(* Every snapshot that was due is in the file of a connection, in order of  *)
(* time, with the weights when first asked for then, unless the user had    *)
(* changed them at that time already; one more only where the milliseconds, *)
(* not the seconds, are a multiple of an interval; changes are computed     *)
(* from weights of two times (updateConnectionMonitor, updateStoredWeights).*)
THEOREM WeightsAlwaysOverTime == SpecAll => []WeightsOverTime
<1>1. InitAll => WeightsInv
  <2> SUFFICES ASSUME InitAll PROVE WeightsInv
    OBVIOUS
  <2>1. /\ conn = [interval |-> 1, wtTime |-> 0, wtMat |-> 0, wtTimeLast |-> -1,
                   wtMatLast |-> NAN, wtTimeWrite |-> -1, snapshots |-> <<>>]
        /\ weights = 0 /\ held = {<<0, 0>>} /\ edited = FALSE /\ due = {}
        /\ simTime = 0 /\ simTimeRunStop = 0 /\ phase = "idle"
    BY DEF InitAll, Init
  <2>2. 1 \in Interval /\ -1 \in Time /\ NAN \in Time /\ <<>> \in Snapshots
    BY DEF Interval, Time, Unset, NAN, Snapshots
  <2>3. conn \in Connection
    BY <2>1, <2>2 DEF Connection
  <2>4. /\ conn.snapshots = <<>> /\ conn.wtTimeWrite = -1
        /\ conn.wtTime = 0 /\ conn.wtMat = 0 /\ conn.wtTimeLast = -1
    BY <2>1
  <2>5. DOMAIN conn.snapshots = {}
    BY <2>4
  <2>6. SnapshotsOK(conn, held, simTime)
    BY <2>1, <2>3, <2>4, <2>5 DEF SnapshotsOK
  <2>7. StoredOK(conn, held, simTime)
    BY <2>1, <2>4 DEF StoredOK
  <2>8. DueOK(conn, due) /\ EditedOK(conn)
    BY <2>1, <2>4, <2>5 DEF DueOK, EditedOK, TimesOf
  <2> QED  BY <2>1, <2>6, <2>7, <2>8, MonitorAssumption DEF WeightsInv
<1>2. ClockOK /\ WeightsInv /\ [NextAll]_allVars => WeightsInv'
  BY WeightsStep
<1>3. WeightsInv => WeightsOverTime
  <2> SUFFICES ASSUME WeightsInv PROVE WeightsOverTime
    OBVIOUS
  <2>1. { e[1] : e \in FileOf(conn) } = TimesOf(conn)
    BY DEF FileOf, TimesOf
  <2>2. /\ { e[1] : e \in FileOf(conn) } = { o.time : o \in due }
        /\ \A o \in due : /\ o.by # "stale" => <<o.time, o.weights>> \in FileOf(conn)
                          /\ o.by = "early" => OnlyInMs(o.time)
    BY <2>1 DEF WeightsInv, DueOK
  <2>3. FileOf(conn) \subseteq held
    BY DEF WeightsInv, SnapshotsOK, FileOf
  <2> QED  BY <2>2, <2>3 DEF WeightsInv, WeightsOverTime, SnapshotsOK, StoredOK, EditedOK, FileOf
<1> QED  BY <1>1, <1>2, <1>3, ClockAlwaysOK, SpecOfMonitors, PTL DEF SpecAll
=============================================================================
