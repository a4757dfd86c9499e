------------------------- MODULE SpikeKernelProperties -------------------------
(***************************************************************************)
(* What the kernel promises about the spikes it carries.                   *)
(***************************************************************************)
EXTENDS SpikeKernel

secondStart == simTimeSec * MsPerSec

(* The spikes of class c that partition p has in its table, its own and     *)
(* those of the partitions that are connected to it.                        *)
Routed(p, g) ==
  \E c \in spikeRoutingTable : netId[grpSrc[c]] = netId[g] /\ netId[grpDest[c]] = p
InTable(p, c) ==
  { s \in fired : LET g == s[1][1] IN
      /\ ClassOf[g] = c /\ g \in groupPartitionList[p]
      /\ netId[g] = p \/ (hasExternalConnect[g] /\ Routed(p, g)) }

(* The shift at the start of this second copied the right spikes: it starts *)
(* one millisecond too early, which is of no consequence if nothing was     *)
(* logged in it.                                                            *)
CleanShift(p) ==
  \A s \in InTable(p, D2) : s[2] # secondStart - 1 - maxDelay

(* A spike that was logged reaches every synapse of its neuron, within the  *)
(* partition or across its border, delay - 1 ms after it was fired, once,   *)
(* and nothing else reaches it (findFiring, routeSpikes, convertExtSpikes,  *)
(* doCurrentUpdate); also when the second ends while it is on its way       *)
(* (shiftSpikeTables), provided the shift was a clean one.                  *)
DeliveredOnTime ==
  phase = "advance" /\ RoutesOnce /\ Exclusive =>
    \A s \in Synapse :
      LET t == simTime - (delay[s[2]] - 1)
      IN  t >= secondStart \/ CleanShift(netId[grpDest[s[2]]])
          => arrived[s] = IF <<s[1], t>> \in fired THEN 1 ELSE 0

(* What the monitors recorded when runNetwork returns is what was fired:    *)
(* each spike once and with its time, however the calls of runNetwork and   *)
(* the ends of the seconds fall (updateSpikeMonitor, called from both).     *)
RecordedOnce ==
  phase = "idle" /\ Exclusive =>
    \A n \in Neuron, t \in Time :
      t < simTime => recorded[<<n, t>>] = IF <<n, t>> \in fired THEN 1 ELSE 0

(* The spikes in the table when that of ms t was to be logged left no room. *)
Crowded(p, c, t) ==
  LET start == (t \div MsPerSec) * MsPerSec - IF c = D2 THEN maxDelay ELSE 0
  IN  Cardinality({ s \in InTable(p, c) : start <= s[2] /\ s[2] <= t }) >= maxSpikes[p][c] - 1

(* A generator neuron fires at the times of its train and at no other, if   *)
(* all generators are in one partition: none is missed or made twice where  *)
(* time slices, seconds and calls of runNetwork meet; a spike is lost only  *)
(* to a full table (userDefinedSpikeGenerator, SpikeBuffer, fillSpikeGenBits).*)
(* If a route is served twice its spikes fill the table twice as fast.      *)
GeneratorsOnTime ==
  phase = "idle" /\ RoutesOnce /\ (\A g, h \in SpikeGen : netId[g] = netId[h]) =>
    \A n \in GenNeuron, t \in Time :
      t < simTime =>
        /\ <<n, t>> \in fired => t \in train[n]
        /\ t \in train[n] => \/ <<n, t>> \in fired
                             \/ Crowded(netId[n[1]], ClassOf[n[1]], t)

(* The spike counts of a partition, which its own spikes are logged by, and *)
(* its time table, by which routeSpikes appends those of others, agree when *)
(* a millisecond starts.  Otherwise spikes would overwrite each other.      *)
CountsMatchTables ==
  phase \in {"idle", "schedule", "generate", "fire"} /\ Exclusive =>
    \A p \in Part, c \in Class :
      Logged(p, c) = timeTable[p][c][simTimeMs + maxDelay]

-----------------------------------------------------------------------------
(* "Read the neuron ids that fired in the last glbNetworkConfig.maxDelay    *)
(* seconds and put it to the beginning of the firing table": after a shift  *)
(* the entries up to timeTableD2[maxDelay] are these.                       *)
ShiftKeepsLatest ==
  (phase = "schedule" /\ simTimeMs = 0 /\ simTimeSec > 0) =>
    \A p \in Part :
      { firingTable[p][D2][k] : k \in 0 .. timeTable[p][D2][maxDelay] - 1 }
        = { lNId[p][s[1]] : s \in { x \in InTable(p, D2) : x[2] >= secondStart - maxDelay } }
=============================================================================
