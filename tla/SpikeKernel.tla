------------------------------ MODULE SpikeKernel ------------------------------
(***************************************************************************)
(* How the CARLsim kernel carries spikes through time, on CPU partitions.  *)
(*                                                                         *)
(* The main thread runs every millisecond in phases.  In each it starts    *)
(* one thread per partition and joins them all.  Where these threads share *)
(* nothing the phase is one action here; where they do share memory, the   *)
(* bits of the spike generators and the spike counts of the partition that *)
(* spikes are routed to, every access is an action of its own.             *)
(*                                                                         *)
(* Each partition logs the spikes of a second in two firing tables, one    *)
(* for groups of delay 1 (D1) and one for the others (D2); timeTable says  *)
(* how many were logged up to each millisecond.  Spikes are delivered by   *)
(* reading back the last maxDelay milliseconds.  At the end of the second  *)
(* the tables are shifted.  Neurons, weights and learning are left out:    *)
(* which neurons fire is not determined.                                   *)
(***************************************************************************)
EXTENDS SNNPartition

CONSTANTS
  MsPerSec,      \* 1000: the length of the tables
  MaxRate,       \* NEURON_MAX_FIRING_RATE
  Durations,     \* of the calls of runNetwork, in ms
  GenTimes,      \* the spike trains a generator may be given
  TimeBound,     \* bound: no call of runNetwork goes beyond it
  SpikeBound     \* bound: how many spikes neurons fire by themselves

ASSUME KernelAssumption ==
  /\ MsPerSec \in Nat \ {0} /\ maxDelay \in 1 .. MsPerSec - 1
  /\ MaxRate \in Nat /\ MaxRate <= MsPerSec
  /\ Durations \subseteq Nat \ {0}
  /\ GenTimes \subseteq SUBSET Nat
  /\ TimeBound \in Nat
  /\ SpikeBound \in Nat

(* findMaxSpikesD1D2: the room in the tables of a partition. *)
maxSpikes == [p \in Part |-> [c \in Class |->
  MaxRate * Cardinality({ n \in Neuron :
                            n[1] \in groupPartitionList[p] /\ ClassOf[n[1]] = c })]]

VARIABLES
  phase,           \* what the main thread does next
  simTimeMs, simTimeSec,
  simTimeRunStart, simTimeRunStop,
  firingTable,     \* firingTableD1, firingTableD2 of each partition
  timeTable,       \* timeTableD1, timeTableD2
  spikeCountSec,   \* spikeCountD1Sec, spikeCountD2Sec
  spikeCountLastSecLeftD2,
  extFiringTable,  \* per group: global ids of its spikes of this ms, ascending
  routes,          \* the entries of the routing table still to be served
  rte,             \* the one being served
  threads,         \* the running threads of convertExtSpikes
  spikeBuf,        \* the ring of SpikeBuffer, from the current ms on
  train,           \* per neuron of a generator: its spike times
  unread,          \* those not yet asked for
  sliceUpdateTime, \* when generators were last asked
  lastSpikeTime,   \* of the neurons of generators
  sharedBits,      \* managerRuntimeData.spikeGenBits
  spikeGenBits,    \* the copy of each partition
  genPc,           \* what the thread of each partition does next to them
  fired,           \* history: every spike that was logged, with its time
  arrived,         \* history of this ms: how often each synapse got a spike
  lastUpdated,     \* of the spike monitors
  recorded         \* history: how often the monitors recorded each spike

runVars   == <<simTimeRunStart, simTimeRunStop>>
tableVars == <<firingTable, timeTable, spikeCountSec, spikeCountLastSecLeftD2>>
routeVars == <<extFiringTable, routes, rte, threads>>
genVars   == <<train, spikeBuf, unread, sliceUpdateTime, lastSpikeTime>>
bitVars   == <<sharedBits, spikeGenBits, genPc>>
monVars   == <<lastUpdated, recorded>>
vars == <<phase, simTimeMs, simTimeSec, runVars, tableVars, routeVars, genVars,
          bitVars, fired, arrived, monVars>>

simTime == simTimeSec * MsPerSec + simTimeMs
Time == 0 .. TimeBound - 1
GenNeuron == { n \in Neuron : n[1] \in SpikeGen }
Nobody == -1

(* As many spikes as could be logged at all.  The tables of the code hold   *)
(* only maxSpikes, and routeSpikes does not look whether there is room.     *)
Slot == 0 .. (MsPerSec + maxDelay) * Cardinality(Neuron)

Init ==
  /\ phase = "idle"
  /\ simTimeMs = 0 /\ simTimeSec = 0
  /\ simTimeRunStart = 0 /\ simTimeRunStop = 0
  /\ firingTable = [p \in Part |-> [c \in Class |-> [k \in Slot |-> Nobody]]]
  /\ timeTable = [p \in Part |-> [c \in Class |-> [i \in 0 .. MsPerSec + maxDelay |-> 0]]]
  /\ spikeCountSec = [p \in Part |-> [c \in Class |-> 0]]
  /\ spikeCountLastSecLeftD2 = [p \in Part |-> 0]
  /\ extFiringTable = [g \in Group |-> {}]
  /\ routes = {} /\ threads = {} /\ rte \in Connection
  /\ spikeBuf = [i \in 0 .. MsPerSec |-> {}]
  /\ train \in [GenNeuron -> GenTimes] /\ unread = train
  /\ sliceUpdateTime = 0
  /\ lastSpikeTime = [n \in GenNeuron |-> 0]
  /\ sharedBits = {}
  /\ spikeGenBits = [p \in Part |-> {}]
  /\ genPc = [p \in Part |-> "done"]
  /\ fired = {}
  /\ arrived = [s \in Synapse |-> 0]
  /\ lastUpdated = 0
  /\ recorded = [s \in Neuron \X Time |-> 0]

-----------------------------------------------------------------------------
(* runNetwork, up to its loop. *)
RunNetwork(d) ==
  /\ phase = "idle"
  /\ simTime + d <= TimeBound
  /\ simTimeRunStart' = simTime
  /\ simTimeRunStop' = simTime + d
  /\ phase' = "schedule"
  /\ UNCHANGED <<simTimeMs, simTimeSec, tableVars, routeVars, genVars, bitVars,
                 fired, arrived, monVars>>

-----------------------------------------------------------------------------
(* Spike generators. *)

(* setGrpTimeSlice, as runNetwork calls it; MAX_TIME_SLICE is one second.   *)
TimeSlice ==
  LET d == simTimeRunStop - simTimeRunStart IN IF d < MsPerSec THEN d ELSE MsPerSec

SliceExpired ==
  simTime - sliceUpdateTime >= TimeSlice \/ simTime = simTimeRunStart

endOfTimeWindow ==
  IF simTime + TimeSlice < simTimeRunStop THEN simTime + TimeSlice ELSE simTimeRunStop

(* userDefinedSpikeGenerator asks for one time after the other until one is *)
(* of no use; SpikeGeneratorFromFile answers in ascending order, and with   *)
(* nothing once the next time is not within the window.                     *)
Answers(n)   == { t \in unread[n] : t < endOfTimeWindow }
Usable(n, t) == (t = 0 \/ t > lastSpikeTime[n]) /\ t >= simTime
Asked(n) ==
  { t \in Answers(n) : \A u \in Answers(n) : u < t => Usable(n, u) }
(* Slip: the slot is one further along the ring.                            *)
Scheduled_Late(n, i) == \E t \in Asked(n) : Usable(n, t) /\ t - simTime = i - 1
Scheduled(n, i) == \E t \in Asked(n) : Usable(n, t) /\ t - simTime = i

(* generateUserDefinedSpikes *)
Schedule ==
  /\ phase = "schedule"
  /\ IF SliceExpired
     THEN /\ sliceUpdateTime' = simTime
          /\ unread' = [n \in GenNeuron |-> unread[n] \ Asked(n)]
          /\ spikeBuf' = [i \in 0 .. MsPerSec |->
               spikeBuf[i] \union { n \in GenNeuron : Scheduled(n, i) }]
     ELSE UNCHANGED <<sliceUpdateTime, unread, spikeBuf>>
  /\ genPc' = [p \in Part |->
       IF \E g \in SpikeGen : netId[g] = p THEN "clear" ELSE "done"]
  /\ phase' = "generate"
  /\ UNCHANGED <<simTimeMs, simTimeSec, runVars, tableVars, routeVars, train,
                 lastSpikeTime, sharedBits, spikeGenBits, fired, arrived, monVars>>

(* A generator neuron's bit: Noffset of its group, and its place in it.     *)
Noffset == [g \in Group |->
  Cardinality({ n \in GenNeuron :
                  netId[n[1]] = netId[g] /\ LocalBefore(netId[g], n[1], g) })]
Bit(n) == Noffset[n[1]] + n[2]

(* spikeGeneratorUpdate_CPU: every partition goes through the same bits.    *)
(* They are taken to fit in one word.                                       *)
bitsUnchanged == <<phase, simTimeMs, simTimeSec, runVars, tableVars, routeVars, genVars,
                   fired, arrived, monVars>>
ClearBits(p) ==
  /\ phase = "generate" /\ genPc[p] = "clear"
  /\ sharedBits' = {}
  /\ genPc' = [genPc EXCEPT ![p] = "fill"]
  /\ UNCHANGED <<spikeGenBits, bitsUnchanged>>
FillBits(p) ==
  /\ phase = "generate" /\ genPc[p] = "fill"
  /\ sharedBits' = sharedBits \union { Bit(n) : n \in spikeBuf[0] \cap NeuronsOf[p] }
  /\ genPc' = [genPc EXCEPT ![p] = "copy"]
  /\ UNCHANGED <<spikeGenBits, bitsUnchanged>>
CopyBits(p) ==
  /\ phase = "generate" /\ genPc[p] = "copy"
  /\ spikeGenBits' = [spikeGenBits EXCEPT ![p] = sharedBits]
  /\ genPc' = [genPc EXCEPT ![p] = "done"]
  /\ UNCHANGED <<sharedBits, bitsUnchanged>>

(* The join, and SpikeBuffer::step.                                         *)
StepBuffer ==
  /\ phase = "generate" /\ \A p \in Part : genPc[p] = "done"
  /\ spikeBuf' = [i \in 0 .. MsPerSec |-> IF i = MsPerSec THEN {} ELSE spikeBuf[i + 1]]
  /\ phase' = "fire"
  /\ UNCHANGED <<simTimeMs, simTimeSec, runVars, tableVars, routeVars, train, unread,
                 sliceUpdateTime, lastSpikeTime, bitVars, fired, arrived, monVars>>

-----------------------------------------------------------------------------
(* findFiring_CPU: the neurons of W fire, in the order of their local ids.  *)
FiresNow(W) ==
  W \union { n \in GenNeuron : Bit(n) \in spikeGenBits[netId[n[1]]] }

(* How many entries of its table precede the entry of n, if it gets one.    *)
Rank(F, n) ==
  Cardinality({ m \in F : /\ netId[m[1]] = netId[n[1]] /\ ClassOf[m[1]] = ClassOf[n[1]]
                          /\ lNId[netId[n[1]]][m] < lNId[netId[n[1]]][n] })
Logged(p, c) ==
  spikeCountSec[p][c] + IF c = D2 THEN spikeCountLastSecLeftD2[p] ELSE 0
fireId(F, n) == Logged(netId[n[1]], ClassOf[n[1]]) + Rank(F, n)

(* Without room in the table the spike is dropped.                          *)
HasSpace(F, n) == fireId(F, n) + 1 < maxSpikes[netId[n[1]]][ClassOf[n[1]]]

gNId(n) == lNId[netId[n[1]]][n] + LtoGOffset(netId[n[1]], n[1])

FindFiring ==
  /\ phase = "fire"
  /\ \E W \in SUBSET (Neuron \ GenNeuron) :
       /\ Cardinality({ s \in fired : s[1] \notin GenNeuron }) + Cardinality(W) <= SpikeBound
       /\ LET F == FiresNow(W)
              L == { n \in F : HasSpace(F, n) }
              of(p, c) == { n \in L : netId[n[1]] = p /\ ClassOf[n[1]] = c }
          IN  /\ firingTable' = [p \in Part |-> [c \in Class |-> [k \in Slot |->
                   IF \E n \in of(p, c) : fireId(F, n) = k
                   THEN lNId[p][CHOOSE n \in of(p, c) : fireId(F, n) = k]
                   ELSE firingTable[p][c][k]]]]
              /\ spikeCountSec' = [p \in Part |-> [c \in Class |->
                   spikeCountSec[p][c] + Cardinality(of(p, c))]]
              /\ extFiringTable' = [g \in Group |-> extFiringTable[g] \union
                   IF hasExternalConnect[g] THEN { gNId(n) : n \in { m \in L : m[1] = g } }
                                            ELSE {}]
              /\ fired' = fired \union { <<n, simTime>> : n \in L }
              /\ lastSpikeTime' = [n \in GenNeuron |->
                   IF n \in F THEN simTime ELSE lastSpikeTime[n]]
  /\ phase' = "time"
  /\ UNCHANGED <<simTimeMs, simTimeSec, runVars, timeTable, spikeCountLastSecLeftD2,
                 routes, rte, threads, train, spikeBuf, unread, sliceUpdateTime, bitVars, arrived,
                 monVars>>

UpdateTimingTable ==
  /\ phase = "time"
  /\ timeTable' = [p \in Part |-> [c \in Class |->
       [timeTable[p][c] EXCEPT ![simTimeMs + maxDelay + 1] = Logged(p, c)]]]
  /\ routes' = spikeRoutingTable
  /\ phase' = IF routes' = {} THEN "deliver" ELSE "route"
  /\ UNCHANGED <<simTimeMs, simTimeSec, runVars, firingTable, spikeCountSec,
                 spikeCountLastSecLeftD2, extFiringTable, rte, threads, genVars, bitVars,
                 fired, arrived, monVars>>

-----------------------------------------------------------------------------
(* routeSpikes: for one entry r of the routing table after the other, the   *)
(* spikes of each group the two partitions share are put behind what the    *)
(* table of the target holds.                                               *)
IsNext(r) == \A q \in routes : r = q \/ RouteBefore(r, q)
SrcNet(r)  == netId[grpSrc[r]]
DestNet(r) == netId[grpDest[r]]

Sent(r) ==
  { g \in groupPartitionList[DestNet(r)] :
      netId[g] = SrcNet(r) /\ hasExternalConnect[g] /\ extFiringTable[g] # {} }

(* The spikes of the groups of G that have class c.                         *)
SpikesOf(G, c) == UNION { {g} \X extFiringTable[g] : g \in { h \in G : ClassOf[h] = c } }
firingTableIdx(r, c) == timeTable[DestNet(r)][c][simTimeMs + maxDelay + 1]
startIdx(r, g) ==
  firingTableIdx(r, ClassOf[g])
    + Cardinality(SpikesOf({ h \in Sent(r) : LocalBefore(SrcNet(r), h, g) }, ClassOf[g]))
IdxOf(r, g, id) == startIdx(r, g) + Cardinality({ j \in extFiringTable[g] : j < id })

(* The main thread copies the spikes over, as global ids, and starts one    *)
(* thread per group.                                                        *)
RouteFork(r) ==
  /\ phase = "route" /\ IsNext(r)
  /\ rte' = r
  /\ firingTable' = [firingTable EXCEPT ![DestNet(r)] = [c \in Class |-> [k \in Slot |->
       LET here == { x \in SpikesOf(Sent(r), c) : IdxOf(r, x[1], x[2]) = k }
       IN  IF here = {} THEN @[c][k] ELSE (CHOOSE x \in here : TRUE)[2]]]]
  /\ threads' = { [grp |-> g, start |-> startIdx(r, g), count |-> Nobody] : g \in Sent(r) }
  /\ phase' = "convert"
  /\ UNCHANGED <<simTimeMs, simTimeSec, runVars, timeTable, spikeCountSec,
                 spikeCountLastSecLeftD2, extFiringTable, routes, genVars, bitVars,
                 fired, arrived, monVars>>

convertUnchanged ==
  <<phase, simTimeMs, simTimeSec, runVars, timeTable, spikeCountLastSecLeftD2,
    extFiringTable, routes, rte, genVars, bitVars, fired, arrived, monVars>>

(* convertExtSpikesD1_CPU, convertExtSpikesD2_CPU: spikeCount += n is a     *)
(* read and a write; then the ids are made local.                           *)
ConvertRead(th) ==
  /\ phase = "convert" /\ th.count = Nobody
  /\ threads' = (threads \ {th})
       \union {[th EXCEPT !.count = spikeCountSec[DestNet(rte)][ClassOf[th.grp]]]}
  /\ UNCHANGED <<firingTable, spikeCountSec, convertUnchanged>>

(* Slip: counts the transfer, not the spikes.                               *)
Counted_Transfer(th) == th.count + 1
Counted(th) == th.count + Cardinality(extFiringTable[th.grp])

ConvertWrite(th) ==
  LET c == ClassOf[th.grp]
      converted == th.start .. th.start + Cardinality(extFiringTable[th.grp]) - 1
  IN  /\ phase = "convert" /\ th.count # Nobody
      /\ spikeCountSec' = [spikeCountSec EXCEPT ![DestNet(rte)][c] = Counted(th)]
      /\ firingTable' = [firingTable EXCEPT ![DestNet(rte)][c] = [k \in Slot |->
           IF k \in converted THEN @[k] + GtoLOffset(DestNet(rte), th.grp) ELSE @[k]]]
      /\ threads' = threads \ {th}
      /\ UNCHANGED convertUnchanged

(* The threads are joined, the time table of the target is written back.    *)
RouteJoin ==
  /\ phase = "convert" /\ threads = {}
  /\ timeTable' = [timeTable EXCEPT ![DestNet(rte)] = [c \in Class |->
       [@[c] EXCEPT ![simTimeMs + maxDelay + 1] =
          firingTableIdx(rte, c) + Cardinality(SpikesOf(Sent(rte), c))]]]
  /\ routes' = routes \ {rte}
  /\ phase' = IF routes' = {} THEN "deliver" ELSE "route"
  /\ UNCHANGED <<simTimeMs, simTimeSec, runVars, firingTable, spikeCountSec,
                 spikeCountLastSecLeftD2, extFiringTable, rte, threads, genVars, bitVars,
                 fired, arrived, monVars>>

-----------------------------------------------------------------------------
(* doCurrentUpdateD2_CPU: the spikes of the last maxDelay ms are gone       *)
(* through; when each was fired is looked up in the time table.             *)
(* Slip: the oldest ms is left out.                                         *)
WindowD2_Late(p) ==
  IF maxDelay > 1
  THEN timeTable[p][D2][simTimeMs + 2] .. timeTable[p][D2][simTimeMs + 1 + maxDelay] - 1
  ELSE {}
WindowD2(p) ==
  IF maxDelay > 1
  THEN timeTable[p][D2][simTimeMs + 1] .. timeTable[p][D2][simTimeMs + 1 + maxDelay] - 1
  ELSE {}
FiredAt(p, k, t) ==
  timeTable[p][D2][t + maxDelay] <= k /\ k < timeTable[p][D2][t + maxDelay + 1]

(* doCurrentUpdateD1_CPU *)
WindowD1(p) ==
  timeTable[p][D1][simTimeMs + maxDelay] .. timeTable[p][D1][simTimeMs + maxDelay + 1] - 1

(* Entry k makes synapse s of partition p receive a spike.                  *)
DeliversD2(p, k, s) ==
  /\ firingTable[p][D2][k] = lNId[p][s[1]]
  /\ FiredAt(p, k, simTimeMs - (delay[s[2]] - 1))
DeliversD1(p, k, s) == firingTable[p][D1][k] = lNId[p][s[1]] /\ delay[s[2]] = 1

DoCurrentUpdate ==
  /\ phase = "deliver"
  /\ arrived' = [s \in Synapse |->
       LET p == netId[grpDest[s[2]]]
       IN  Cardinality({ k \in WindowD2(p) : DeliversD2(p, k, s) })
           + Cardinality({ k \in WindowD1(p) : DeliversD1(p, k, s) })]
  /\ phase' = "advance"
  /\ UNCHANGED <<simTimeMs, simTimeSec, runVars, tableVars, routeVars, genVars, bitVars,
                 fired, monVars>>

-----------------------------------------------------------------------------
(* What follows a millisecond, and the second it may have ended.            *)
Continue == IF simTime' = simTimeRunStop THEN "stop" ELSE "schedule"

(* clearExtFiringTable and updateTime. *)
(* Slip: the milliseconds go on beyond the second.                          *)
NextMs_NoReset == simTimeMs + 1
NextMs == IF simTimeMs + 1 = MsPerSec THEN 0 ELSE simTimeMs + 1

AdvanceTime ==
  /\ phase = "advance"
  /\ extFiringTable' = [g \in Group |-> {}]
  /\ simTimeMs' = NextMs
  /\ simTimeSec' = IF simTimeMs' = 0 THEN simTimeSec + 1 ELSE simTimeSec
  /\ phase' = IF simTimeMs' = 0 THEN "second" ELSE Continue
  /\ UNCHANGED <<runVars, tableVars, routes, rte, threads, genVars, bitVars, fired, arrived,
                 monVars>>

(* Slip: a full second is not taken for one.                                *)
numMsMax_NoFull == simTimeMs
numMsMax == IF simTimeMs = 0 THEN MsPerSec ELSE simTimeMs
MonitoredMs == lastUpdated % MsPerSec .. numMsMax - 1
MonitoredSec == IF simTimeMs = 0 THEN simTimeSec - 1 ELSE simTimeSec

(* updateSpikeMonitor, of all groups: both tables are searched for what     *)
(* fired since it was last called.                                          *)
Found(n, ms) ==
  LET p == netId[n[1]]
      at(c) == timeTable[p][c][ms + maxDelay] .. timeTable[p][c][ms + maxDelay + 1] - 1
  IN  Cardinality({ x \in Class \X Slot :
                      x[2] \in at(x[1]) /\ firingTable[p][x[1]][x[2]] = lNId[p][n] })

UpdateSpikeMonitor ==
  IF simTime <= lastUpdated
  THEN UNCHANGED monVars
  ELSE /\ lastUpdated' = simTime
       /\ recorded' = [s \in Neuron \X Time |->
            LET ms == s[2] - MonitoredSec * MsPerSec
            IN  recorded[s] + IF ms \in MonitoredMs THEN Found(s[1], ms) ELSE 0]

(* shiftSpikeTables_CPU: the D2 spikes still on their way are to be moved   *)
(* to the front of the table.                                               *)
(* Slip: the times are not rebased.                                         *)
ShiftedTimes_NotRebased(tt) ==
  [i \in DOMAIN tt |-> IF i \in 1 .. maxDelay THEN tt[MsPerSec + i] ELSE tt[i]]
ShiftedTimes(tt) ==
  [i \in DOMAIN tt |->
     IF i \in 1 .. maxDelay THEN tt[MsPerSec + i] - tt[MsPerSec] ELSE tt[i]]
ShiftedTable(ft, tt) ==
  LET from(k) == k + tt[MsPerSec - 1]
  IN  [k \in Slot |->
         IF from(k) \in Slot /\ from(k) < tt[MsPerSec + maxDelay] THEN ft[from(k)] ELSE ft[k]]

ShiftSpikeTables ==
  /\ firingTable' = [p \in Part |->
       [firingTable[p] EXCEPT ![D2] = ShiftedTable(@, timeTable[p][D2])]]
  /\ timeTable' = [p \in Part |-> [c \in Class |->
       IF c = D2 THEN ShiftedTimes(timeTable[p][D2])
                 ELSE [ShiftedTimes(timeTable[p][D1]) EXCEPT ![maxDelay] = 0]]]
  /\ spikeCountSec' = [p \in Part |-> [c \in Class |-> 0]]
  /\ spikeCountLastSecLeftD2' = [p \in Part |-> timeTable'[p][D2][maxDelay]]

FinishSecond ==
  /\ phase = "second"
  /\ UpdateSpikeMonitor
  /\ ShiftSpikeTables
  /\ phase' = IF simTime = simTimeRunStop THEN "stop" ELSE "schedule"
  /\ UNCHANGED <<simTimeMs, simTimeSec, runVars, routeVars, genVars, bitVars, fired, arrived>>

(* The end of runNetwork. *)
FinishRun ==
  /\ phase = "stop"
  /\ UpdateSpikeMonitor
  /\ phase' = "idle"
  /\ UNCHANGED <<simTimeMs, simTimeSec, runVars, tableVars, routeVars, genVars, bitVars,
                 fired, arrived>>

-----------------------------------------------------------------------------
Next ==
  \/ \E d \in Durations : RunNetwork(d)
  \/ Schedule
  \/ \E p \in Part : ClearBits(p) \/ FillBits(p) \/ CopyBits(p)
  \/ StepBuffer
  \/ FindFiring \/ UpdateTimingTable
  \/ \E r \in routes : RouteFork(r)
  \/ \E th \in threads : ConvertRead(th) \/ ConvertWrite(th)
  \/ RouteJoin
  \/ DoCurrentUpdate \/ AdvanceTime \/ FinishSecond \/ FinishRun

Spec == Init /\ [][Next]_vars

-----------------------------------------------------------------------------
Phase == {"idle", "schedule", "generate", "fire", "time", "route", "convert", "deliver",
          "advance", "second", "stop"}

TypeOK ==
  /\ phase \in Phase
  /\ simTimeMs \in 0 .. MsPerSec - 1 /\ simTimeSec \in Nat
  /\ simTimeRunStart \in Nat /\ simTimeRunStop \in Nat
  /\ firingTable \in [Part -> [Class -> [Slot -> Int]]]
  /\ timeTable \in [Part -> [Class -> [0 .. MsPerSec + maxDelay -> Int]]]
  /\ spikeCountSec \in [Part -> [Class -> Int]]
  /\ spikeCountLastSecLeftD2 \in [Part -> Int]
  /\ extFiringTable \in [Group -> SUBSET Int]
  /\ \A g \in Group : extFiringTable[g] \subseteq { gNId(n) : n \in { m \in Neuron : m[1] = g } }
  /\ routes \subseteq spikeRoutingTable /\ rte \in Connection
  /\ threads \subseteq [grp : Group, start : Int, count : Int]
  /\ spikeBuf \in [0 .. MsPerSec -> SUBSET GenNeuron]
  /\ train \in [GenNeuron -> SUBSET Nat] /\ unread \in [GenNeuron -> SUBSET Nat]
  /\ sliceUpdateTime \in Nat
  /\ lastSpikeTime \in [GenNeuron -> Nat]
  /\ sharedBits \subseteq Nat
  /\ spikeGenBits \in [Part -> SUBSET Nat]
  /\ genPc \in [Part -> {"clear", "fill", "copy", "done"}]
  /\ fired \subseteq Neuron \X Nat
  /\ arrived \in [Synapse -> Nat]
  /\ lastUpdated \in Nat
  /\ recorded \in [Neuron \X Time -> Nat]
=============================================================================
