------------------------ MODULE SpikeKernelInvariants ------------------------
(***************************************************************************)
(* What is true of the kernel at every moment: the inductive invariants    *)
(* that its properties follow from.                                        *)
(***************************************************************************)
EXTENDS SpikeKernelProperties

-----------------------------------------------------------------------------
(* The spike counts and the time table.                                     *)

(* While a millisecond is worked on the counts run ahead of the time table, *)
(* then the table has the entry for the end of the millisecond.  While      *)
(* external spikes are converted, the counts of the target have those of    *)
(* the groups whose thread has ended.                                       *)
UpTo(i) == \A p \in Part, c \in Class : Logged(p, c) = timeTable[p][c][i]

Converted == { g \in Sent(rte) : \A th \in threads : th.grp # g }

Converting ==
  /\ rte \in spikeRoutingTable
  /\ \A p \in Part, c \in Class :
       p # DestNet(rte) => Logged(p, c) = timeTable[p][c][simTimeMs + maxDelay + 1]
  /\ \A c \in Class :
       Logged(DestNet(rte), c) = firingTableIdx(rte, c) + Cardinality(SpikesOf(Converted, c))
  /\ \A th \in threads :
       /\ th.grp \in Sent(rte)
       /\ th.count \in {Nobody, spikeCountSec[DestNet(rte)][ClassOf[th.grp]]}
  /\ \A th, u \in threads : th.grp = u.grp => th = u

CountInv ==
  Exclusive =>
    /\ phase \in {"idle", "schedule", "generate", "fire", "stop"} => UpTo(simTimeMs + maxDelay)
    /\ phase \in {"route", "deliver", "advance"} => UpTo(simTimeMs + maxDelay + 1)
    /\ phase = "second" => simTimeMs = 0
    /\ phase = "convert" => Converting

-----------------------------------------------------------------------------
(* The spikes a table is to hold.                                           *)

(* The neurons of class c that partition p gets spikes of.                  *)
Carried(p, c) ==
  { n \in Neuron :
      /\ ClassOf[n[1]] = c /\ n[1] \in groupPartitionList[p]
      /\ netId[n[1]] = p \/ (hasExternalConnect[n[1]] /\ Routed(p, n[1])) }

(* Those of them that fired at t, and their spikes from a up to b, going by *)
(* the history F.                                                           *)
SpikesAt(F, p, c, t) == { n \in Carried(p, c) : <<n, t>> \in F }
SpikesIn(F, p, c, a, b) ==
  { s \in F : s[1] \in Carried(p, c) /\ a <= s[2] /\ s[2] < b }

(* What fired in p itself, and what the entries R of the routing table get. *)
Own(F, p, c, t) ==
  { n \in Neuron : <<n, t>> \in F /\ ClassOf[n[1]] = c /\ netId[n[1]] = p }
Fetched(F, p, c, t, R) ==
  { n \in Neuron :
      /\ <<n, t>> \in F /\ ClassOf[n[1]] = c /\ netId[n[1]] # p
      /\ n[1] \in groupPartitionList[p] /\ hasExternalConnect[n[1]]
      /\ \E r \in R : SrcNet(r) = netId[n[1]] /\ DestNet(r) = p }

-----------------------------------------------------------------------------
(* The tables and the history: the invariant.                               *)

(* While the main thread is past updateTimingTable, the table is one        *)
(* millisecond longer; when the second has ended its times are still those  *)
(* of that second, until the shift.                                         *)
Begun == phase \in {"route", "convert", "deliver", "advance"}
Routing == phase \in {"route", "convert"}
Base == IF phase = "second" THEN secondStart - MsPerSec ELSE secondStart
Cur == IF phase = "second" THEN MsPerSec + maxDelay
       ELSE IF Begun THEN simTimeMs + maxDelay + 1 ELSE simTimeMs + maxDelay
(* The entry up to which the table is complete.                             *)
Done == IF Routing THEN Cur - 1 ELSE Cur
Now == simTime + IF phase = "time" \/ Begun THEN 1 ELSE 0

(* The first entry that is in use: D1 spikes are not kept over the second.  *)
FirstOf(c) == IF c = D1 THEN maxDelay ELSE 0

(* Nothing was fired later than now.                                        *)
PastInv ==
  /\ \A s \in fired : s[2] < Now
  /\ phase = "second" => simTimeMs = 0 /\ simTimeSec > 0

(* The external spikes are those of this millisecond, and those of a thread *)
(* of convertExtSpikes are where it looks for them.                         *)
SpikeIds(g) == { gNId(n) : n \in { m \in Neuron : m[1] = g /\ <<m, simTime>> \in fired } }
ExtInv ==
  /\ \A g \in Group : extFiringTable[g] =
       IF hasExternalConnect[g] /\ (phase = "time" \/ Begun) THEN SpikeIds(g) ELSE {}
  /\ ~Routing => routes = {}
  /\ phase = "convert" =>
       /\ rte \in routes
       /\ \A th \in threads : th.grp \in Sent(rte) /\ th.start = startIdx(rte, th.grp)
       /\ \A th, u \in threads : th.grp = u.grp => th = u

(* What the table of p has of this millisecond while it is being routed.    *)
Have(p, c) ==
  Own(fired, p, c, simTime)
    \union Fetched(fired, p, c, simTime, spikeRoutingTable \ routes)

(* A table grows by no more than was fired, which is at most one spike of   *)
(* each neuron in a millisecond.                                            *)
Bounded(tt, F, p, c, base, last) ==
  \A i, j \in FirstOf(c) .. last :
    i <= j => tt[j] - tt[i] <= Cardinality(SpikesIn(F, p, c, base + i - maxDelay, base + j - maxDelay))
Ahead(p, c) ==
  IF phase = "time" THEN Cardinality(Own(fired, p, c, simTime))
  ELSE IF phase = "convert" /\ p = DestNet(rte) THEN Cardinality(SpikesOf(Converted, c))
  ELSE 0
LeftOver(p, c) == IF c = D2 THEN spikeCountLastSecLeftD2[p] ELSE 0
Sized(p, c) ==
  /\ timeTable[p][c][FirstOf(c)] = 0
  /\ Bounded(timeTable[p][c], fired, p, c, Base, Done)
  /\ Routing => timeTable[p][c][Cur] <= timeTable[p][c][Cur - 1] + Cardinality(Have(p, c))
  /\ Logged(p, c) <= timeTable[p][c][Cur] + Ahead(p, c)
  /\ phase = "convert" /\ p = DestNet(rte) =>
       \A th \in threads :
         th.count # Nobody /\ ClassOf[th.grp] = c =>
           th.count + LeftOver(p, c) <= timeTable[p][c][Cur] + Ahead(p, c)
SizeInv == RoutesOnce => \A p \in Part, c \in Class : Sized(p, c)

(* The entries from a up to b are those of the neurons N, with one for each *)
(* that is of p or, if routes are served once, that is not.                 *)
Kept(p, ft, a, b, N) ==
  /\ \A k \in Slot : a <= k /\ k < b => \E n \in N : ft[k] = lNId[p][n]
  /\ \A n \in N :
       netId[n[1]] = p \/ RoutesOnce =>
         \E k \in Slot :
           /\ a <= k /\ k < b /\ ft[k] = lNId[p][n]
           /\ \A l \in Slot : a <= l /\ l < b /\ ft[l] = lNId[p][n] => l = k

(* Nothing was logged in the millisecond from which the shift copied on.    *)
Clean(F, p, base) ==
  \A s \in F : s[1] \in Carried(p, D2) => s[2] # base - 1 - maxDelay

(* The entries of each millisecond.                                         *)
Windows(ft, tt, F, p, c, base, last) ==
  \A i \in FirstOf(c) .. last - 1 :
    (i < maxDelay => RoutesOnce /\ Clean(F, p, base)) =>
      Kept(p, ft, tt[i], tt[i + 1], SpikesAt(F, p, c, base + i - maxDelay))
Ascending(tt, c, last) == \A i, j \in FirstOf(c) .. last : i <= j => tt[i] <= tt[j]

(* The spikes that are being routed: first as global ids, then as local.    *)
InTransit(ft, p, c) ==
  \A g \in Sent(rte) : ClassOf[g] = c =>
    \A id \in extFiringTable[g] :
      IdxOf(rte, g, id) \in Slot =>
        ft[IdxOf(rte, g, id)] = IF g \in Converted THEN id + GtoLOffset(p, g) ELSE id

Tabled(p, c) ==
  /\ timeTable[p][c][FirstOf(c)] = 0
  /\ Ascending(timeTable[p][c], c, Cur)
  /\ Windows(firingTable[p][c], timeTable[p][c], fired, p, c, Base, Done)
  /\ phase = "time" =>
       /\ timeTable[p][c][Cur] <= Logged(p, c)
       /\ Kept(p, firingTable[p][c], timeTable[p][c][Cur], Logged(p, c), Own(fired, p, c, simTime))
  /\ Routing =>
       Kept(p, firingTable[p][c], timeTable[p][c][Cur - 1], timeTable[p][c][Cur], Have(p, c))
  /\ phase = "convert" /\ p = DestNet(rte) => InTransit(firingTable[p][c], p, c)
TableInv == Exclusive => \A p \in Part, c \in Class : Tabled(p, c)

-----------------------------------------------------------------------------
(* The monitors.                                                            *)

(* They are never behind the tables, nor ahead of time: when a second has   *)
(* ended, or a call of runNetwork, they are called before anything is lost. *)
MonInv ==
  Exclusive =>
    /\ Base <= lastUpdated /\ lastUpdated <= simTime
    /\ phase = "idle" \/ (phase = "stop" /\ simTimeMs = 0) => lastUpdated = simTime
    /\ \A n \in Neuron, t \in Time :
         recorded[<<n, t>>] = IF t < lastUpdated /\ <<n, t>> \in fired THEN 1 ELSE 0

-----------------------------------------------------------------------------
(* The spike generators.                                                    *)

(* Up to when the generators were asked.                                    *)
WindowEnd ==
  IF phase = "idle" \/ (phase = "schedule" /\ simTime = simTimeRunStart) THEN simTime
  ELSE IF sliceUpdateTime + TimeSlice < simTimeRunStop THEN sliceUpdateTime + TimeSlice
  ELSE simTimeRunStop

(* The clock, a run and its time slices: generators were asked for no less  *)
(* than what has begun.                                                     *)
Running == phase \in {"generate", "fire", "time"} \/ Begun
RunInv ==
  /\ simTimeRunStart <= simTime /\ simTime <= simTimeRunStop /\ sliceUpdateTime <= simTime
  /\ Running \/ phase = "schedule" => simTime < simTimeRunStop
  /\ phase \in {"second", "stop"} => simTimeRunStart < simTime
  /\ phase = "stop" => simTime = simTimeRunStop
  /\ simTime <= WindowEnd
  /\ Running => simTime < WindowEnd

(* What was asked for is in the ring of the buffer, at the place of its     *)
(* time, until that has come, and what was not is still to be asked for.    *)
Stepped == phase \in {"fire", "time"} \/ Begun
First == simTime + IF Stepped THEN 1 ELSE 0
Buffered(i) == { n \in GenNeuron : First + i < WindowEnd /\ First + i \in train[n] }
AskInv ==
  /\ \A n \in GenNeuron : unread[n] = { t \in train[n] : t >= WindowEnd }
  /\ \A i \in 0 .. MsPerSec : spikeBuf[i] = Buffered(i)
  /\ \A n \in GenNeuron : lastSpikeTime[n] = 0 \/ lastSpikeTime[n] < Now

(* Only the partition of the generators touches the bits; it sets those of  *)
(* the neurons that are due.                                                *)
OneHasAll == \A g, h \in SpikeGen : netId[g] = netId[h]
HasGenerator(p) == \E g \in SpikeGen : netId[g] = p
DueBits == { Bit(n) : n \in { m \in GenNeuron : simTime \in train[m] } }
BitsInv ==
  OneHasAll => \A p \in Part :
    /\ phase = "generate" /\ genPc[p] # "done" => HasGenerator(p)
    /\ phase = "generate" /\ genPc[p] = "fill" => sharedBits = {}
    /\ phase = "generate" /\ genPc[p] = "copy" => sharedBits = DueBits
    /\ HasGenerator(p) /\ (phase = "fire" \/ (phase = "generate" /\ genPc[p] = "done"))
         => spikeGenBits[p] = DueBits

(* So far the generators fired when they should.                            *)
TrainInv ==
  RoutesOnce /\ OneHasAll =>
    \A n \in GenNeuron, t \in Nat :
      t < Now =>
        /\ <<n, t>> \in fired => t \in train[n]
        /\ t \in train[n] => <<n, t>> \in fired \/ Crowded(netId[n[1]], ClassOf[n[1]], t)
=============================================================================
