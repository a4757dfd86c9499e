--------------------------- MODULE SpikeKernelProofs ---------------------------
(***************************************************************************)
(* Theorems about the spike tables, the monitors and the spike generators, *)
(* for every application, any number of partitions, any length of the      *)
(* second and any calls of runNetwork: the invariants of                   *)
(* SpikeKernelInvariants are inductive, one on the other, and the          *)
(* properties follow from them.                                            *)
(***************************************************************************)
EXTENDS SpikeKernelInvariants, FiniteSetTheorems, NaturalsInduction, TLAPS

-----------------------------------------------------------------------------
(* Neurons, their numbers and ids.                                          *)

(* A neuron is a pair of its group and its number in it.                    *)
LEMMA NeuronFields ==
  ASSUME NEW n \in Neuron
  PROVE  n[1] \in Group /\ n[2] \in Nat /\ netId[n[1]] \in Part
<1>1. PICK g \in Group : n \in {g} \X (0 .. numN[g] - 1)
  BY DEF Neuron
<1> QED
  BY <1>1, PartitionAssumption

(* Neurons are finitely many.                                               *)
LEMMA NeuronsCounted ==
  ASSUME NEW S \in SUBSET Neuron
  PROVE  IsFiniteSet(S) /\ Cardinality(S) \in Nat
<1>1. IsFiniteSet(S)
  BY NeuronAssumption, FS_Subset
<1> QED
  BY <1>1, FS_CardinalityType

(* The types of what the partitioning is made of, and of the constants.     *)
LEMMA PartitionTypes ==
  /\ Class \subseteq Int
  /\ ClassOf \in [Group -> Class]
  /\ lStartN \in [Part -> [Group -> Nat]]
  /\ gStartN \in [Group -> Nat]
  /\ lNId \in [Part -> [Neuron -> Nat]]
  /\ Noffset \in [Group -> Nat]
  /\ \A p \in Part, g \in Group : LtoGOffset(p, g) \in Int /\ GtoLOffset(p, g) \in Int
  /\ \A n \in Neuron : gNId(n) \in Int
  /\ \A n \in GenNeuron : n \in Neuron /\ Bit(n) \in Nat
  /\ maxDelay \in Nat \ {0} /\ MsPerSec \in Nat \ {0} /\ maxDelay < MsPerSec
<1>1. Class \subseteq Int /\ ClassOf \in [Group -> Class]
  BY DEF Class, ClassOf, D1, D2
<1>2. lStartN \in [Part -> [Group -> Nat]]
  <2> SUFFICES ASSUME NEW p \in Part, NEW g \in Group
               PROVE  Cardinality({ n \in Neuron : n[1] \in groupPartitionList[p]
                                      /\ LocalBefore(p, n[1], g) }) \in Nat
    BY DEF lStartN
  <2> QED BY NeuronsCounted
<1>3. gStartN \in [Group -> Nat]
  <2> SUFFICES ASSUME NEW g \in Group
               PROVE  Cardinality({ n \in Neuron : GlobalBefore(n[1], g) }) \in Nat
    BY DEF gStartN
  <2> QED BY NeuronsCounted
<1>4. lNId \in [Part -> [Neuron -> Nat]]
  BY <1>2, NeuronFields DEF lNId
<1>5. Noffset \in [Group -> Nat]
  <2> SUFFICES ASSUME NEW g \in Group
               PROVE  Cardinality({ n \in GenNeuron : netId[n[1]] = netId[g]
                                      /\ LocalBefore(netId[g], n[1], g) }) \in Nat
    BY DEF Noffset
  <2> QED BY NeuronsCounted DEF GenNeuron
<1>6. \A p \in Part, g \in Group : LtoGOffset(p, g) \in Int /\ GtoLOffset(p, g) \in Int
  BY <1>2, <1>3 DEF LtoGOffset, GtoLOffset
<1>7. \A n \in Neuron : gNId(n) \in Int
  BY <1>4, <1>6, NeuronFields DEF gNId
<1>8. \A n \in GenNeuron : n \in Neuron /\ Bit(n) \in Nat
  BY <1>5, NeuronFields DEF GenNeuron, Bit
<1>9. maxDelay \in Nat \ {0} /\ MsPerSec \in Nat \ {0} /\ maxDelay < MsPerSec
  BY KernelAssumption
<1> QED
  BY <1>1, <1>2, <1>3, <1>4, <1>5, <1>6, <1>7, <1>8, <1>9

(* The external spikes of some groups are finitely many: each is the spike  *)
(* of a neuron.                                                             *)
LEMMA SpikesCounted ==
  ASSUME TypeOK, NEW G \in SUBSET Group, NEW c
  PROVE  IsFiniteSet(SpikesOf(G, c)) /\ Cardinality(SpikesOf(G, c)) \in Nat
<1> DEFINE f == [n \in Neuron |-> <<n[1], gNId(n)>>]
           T == { <<n[1], gNId(n)>> : n \in Neuron }
<1>1. f \in Surjection(Neuron, T)
  BY DEF Surjection
<1>2. IsFiniteSet(T)
  BY <1>1, NeuronAssumption, FS_Surjection
<1>3. SpikesOf(G, c) \in SUBSET T
  <2> SUFFICES ASSUME NEW g \in G, NEW x \in {g} \X extFiringTable[g]
               PROVE  x \in T
    BY DEF SpikesOf
  <2>1. x[1] = g /\ x = <<x[1], x[2]>> /\ x[2] \in extFiringTable[g]
    OBVIOUS
  <2>2. PICK n \in Neuron : n[1] = g /\ gNId(n) = x[2]
    BY <2>1 DEF TypeOK
  <2> QED BY <2>1, <2>2
<1>4. IsFiniteSet(SpikesOf(G, c))
  BY <1>2, <1>3, FS_Subset
<1> QED
  BY <1>4, FS_CardinalityType

(* So are those of one group. *)
LEMMA ExternalCounted ==
  ASSUME TypeOK, NEW g \in Group
  PROVE  IsFiniteSet(extFiringTable[g]) /\ Cardinality(extFiringTable[g]) \in Nat
<1> DEFINE f == [n \in Neuron |-> gNId(n)]
           T == { gNId(n) : n \in Neuron }
<1>1. f \in Surjection(Neuron, T)
  BY DEF Surjection
<1>2. IsFiniteSet(T)
  BY <1>1, NeuronAssumption, FS_Surjection
<1>3. extFiringTable[g] \in SUBSET T
  BY DEF TypeOK
<1> QED
  BY <1>2, <1>3, FS_Subset, FS_CardinalityType

-----------------------------------------------------------------------------
(* Type correctness. *)

(* Times are numbers.                                                       *)
LEMMA TimeIsNat ==
  ASSUME TypeOK
  PROVE  simTime \in Nat
<1>1. \A a, b \in Nat : a * b \in Nat
  BY SMT
<1>2. simTimeSec \in Nat /\ simTimeMs \in Nat /\ MsPerSec \in Nat
  BY PartitionTypes DEF TypeOK
<1>3. simTimeSec * MsPerSec \in Nat
  BY <1>1, <1>2
<1> QED
  BY <1>2, <1>3 DEF simTime

(* The entries of the time table are numbers.                               *)
LEMMA TimeTableEntries ==
  ASSUME TypeOK
  PROVE  /\ \A p \in Part, c \in Class, i \in 0 .. MsPerSec + maxDelay : timeTable[p][c][i] \in Int
         /\ simTimeMs + 1 \in 0 .. MsPerSec + maxDelay
         /\ simTimeMs + maxDelay \in 0 .. MsPerSec + maxDelay
         /\ simTimeMs + maxDelay + 1 \in 0 .. MsPerSec + maxDelay
         /\ simTimeMs + 1 + maxDelay = simTimeMs + maxDelay + 1
         /\ maxDelay \in 0 .. MsPerSec + maxDelay
         /\ D1 \in Class /\ D2 \in Class
<1>1. \A p \in Part, c \in Class, i \in 0 .. MsPerSec + maxDelay : timeTable[p][c][i] \in Int
  <2>1. timeTable \in [Part -> [Class -> [0 .. MsPerSec + maxDelay -> Int]]]
    BY DEF TypeOK
  <2> DEFINE I == 0 .. MsPerSec + maxDelay
  <2>2. timeTable \in [Part -> [Class -> [I -> Int]]]
    BY <2>1
  <2> HIDE DEF I
  <2>3. \A p \in Part, c \in Class, i \in I : timeTable[p][c][i] \in Int
    BY <2>2
  <2> QED BY <2>3 DEF I
<1>2. simTimeMs \in 0 .. MsPerSec - 1
  BY DEF TypeOK
<1>3. maxDelay \in Nat \ {0} /\ MsPerSec \in Nat \ {0} /\ maxDelay < MsPerSec
  BY PartitionTypes
<1>4. /\ simTimeMs + 1 \in 0 .. MsPerSec + maxDelay
      /\ simTimeMs + maxDelay \in 0 .. MsPerSec + maxDelay
      /\ simTimeMs + maxDelay + 1 \in 0 .. MsPerSec + maxDelay
      /\ simTimeMs + 1 + maxDelay = simTimeMs + maxDelay + 1
      /\ maxDelay \in 0 .. MsPerSec + maxDelay
  BY <1>2, <1>3
<1>5. D1 \in Class /\ D2 \in Class
  BY DEF Class
<1> QED
  BY <1>1, <1>4, <1>5

(* The types hold when the kernel starts.                                   *)
LEMMA TypesInit ==
  Init => TypeOK
<1> SUFFICES ASSUME Init PROVE TypeOK
  OBVIOUS
<1> USE PartitionTypes
<1>1. /\ phase \in Phase /\ simTimeMs \in 0 .. MsPerSec - 1 /\ simTimeSec \in Nat
      /\ simTimeRunStart \in Nat /\ simTimeRunStop \in Nat
  BY DEF Init, Phase
<1>2. /\ firingTable \in [Part -> [Class -> [Slot -> Int]]]
      /\ timeTable \in [Part -> [Class -> [0 .. MsPerSec + maxDelay -> Int]]]
      /\ spikeCountSec \in [Part -> [Class -> Int]]
      /\ spikeCountLastSecLeftD2 \in [Part -> Int]
  BY DEF Init, Nobody
<1>3. /\ extFiringTable \in [Group -> SUBSET Int]
      /\ \A g \in Group : extFiringTable[g] \subseteq { gNId(n) : n \in { m \in Neuron : m[1] = g } }
      /\ routes \subseteq spikeRoutingTable /\ rte \in Connection
      /\ threads \subseteq [grp : Group, start : Int, count : Int]
  BY DEF Init
<1>4. /\ spikeBuf \in [0 .. MsPerSec -> SUBSET GenNeuron]
      /\ train \in [GenNeuron -> SUBSET Nat] /\ unread \in [GenNeuron -> SUBSET Nat]
      /\ sliceUpdateTime \in Nat
      /\ lastSpikeTime \in [GenNeuron -> Nat]
  BY KernelAssumption DEF Init
<1>5. /\ sharedBits \subseteq Nat
      /\ spikeGenBits \in [Part -> SUBSET Nat]
      /\ genPc \in [Part -> {"clear", "fill", "copy", "done"}]
  BY DEF Init
<1>6. /\ fired \subseteq Neuron \X Nat
      /\ arrived \in [Synapse -> Nat]
      /\ lastUpdated \in Nat
      /\ recorded \in [Neuron \X Time -> Nat]
  BY DEF Init
<1> QED
  BY <1>1, <1>2, <1>3, <1>4, <1>5, <1>6 DEF TypeOK

(* What the monitors find is a number. *)
LEMMA MonitorTypes ==
  ASSUME TypeOK, UpdateSpikeMonitor
  PROVE  lastUpdated' \in Nat /\ recorded' \in [Neuron \X Time -> Nat]
<1>1. CASE simTime <= lastUpdated
  BY <1>1 DEF UpdateSpikeMonitor, monVars, TypeOK
<1>2. CASE ~(simTime <= lastUpdated)
  <2>1. lastUpdated' \in Nat
    BY <1>2, TimeIsNat DEF UpdateSpikeMonitor
  <2>2. ASSUME NEW n \in Neuron, NEW ms PROVE Found(n, ms) \in Nat
    <3>1. \A c \in Class : c = D1 \/ c = D2
      BY DEF Class
    <3> DEFINE p == netId[n[1]]
               at(c) == timeTable[p][c][ms + maxDelay] .. timeTable[p][c][ms + maxDelay + 1] - 1
               S == { x \in Class \X Slot :
                        x[2] \in at(x[1]) /\ firingTable[p][x[1]][x[2]] = lNId[p][n] }
    <3>2. IsFiniteSet(Slot) /\ Slot \subseteq Int
      <4>1. Cardinality(Neuron) \in Nat
        BY NeuronsCounted
      <4>2. \A a, b \in Nat : a * b \in Nat
        BY SMT
      <4>3. (MsPerSec + maxDelay) * Cardinality(Neuron) \in Nat
        BY <4>1, <4>2, PartitionTypes
      <4> QED
        BY <4>3, FS_Interval DEF Slot
    <3>3. IsFiniteSet({ x \in S : x[1] = D1 } \union { x \in S : x[1] = D2 })
      <4>1. ASSUME NEW c PROVE IsFiniteSet({ x \in S : x[1] = c })
        <5> DEFINE T == { <<c, k>> : k \in Slot }
                   f == [k \in Slot |-> <<c, k>>]
        <5>1. f \in Surjection(Slot, T)
          BY DEF Surjection
        <5>2. IsFiniteSet(T)
          BY <3>2, <5>1, FS_Surjection
        <5>3. { x \in S : x[1] = c } \in SUBSET T
          OBVIOUS
        <5> QED
          BY <5>2, <5>3, FS_Subset
      <4> QED
        BY <4>1, FS_Union
    <3>4. S = { x \in S : x[1] = D1 } \union { x \in S : x[1] = D2 }
      BY <3>1
    <3>5. Cardinality(S) \in Nat
      BY <3>3, <3>4, FS_CardinalityType
    <3> QED
      BY <3>5 DEF Found
  <2>3. \A s \in Neuron \X Time : recorded[s] \in Nat /\ s[1] \in Neuron
    BY DEF TypeOK
  <2>4. recorded' \in [Neuron \X Time -> Nat]
    <3> DEFINE ms(s) == s[2] - MonitoredSec * MsPerSec
               add(s) == IF ms(s) \in MonitoredMs THEN Found(s[1], ms(s)) ELSE 0
    <3>1. \A s \in Neuron \X Time : add(s) \in Nat
      BY <2>2, <2>3
    <3>2. recorded' = [s \in Neuron \X Time |-> recorded[s] + add(s)]
      BY <1>2 DEF UpdateSpikeMonitor
    <3> HIDE DEF add
    <3> QED
      BY <2>3, <3>1, <3>2
  <2> QED
    BY <2>1, <2>4
<1> QED
  BY <1>1, <1>2

(* Every step keeps them.                                                   *)
LEMMA TypesStep ==
  TypeOK /\ [Next]_vars => TypeOK'
<1> SUFFICES ASSUME TypeOK, [Next]_vars PROVE TypeOK'
  OBVIOUS
<1> USE PartitionTypes
<1>1. ASSUME NEW d \in Durations, RunNetwork(d) PROVE TypeOK'
  <2>1. simTime \in Nat /\ d \in Nat
    BY TimeIsNat, KernelAssumption
  <2>2. simTimeRunStart' \in Nat /\ simTimeRunStop' \in Nat /\ phase' \in Phase
    BY <1>1, <2>1 DEF RunNetwork, Phase
  <2> QED
    BY <1>1, <2>2 DEF RunNetwork, TypeOK, tableVars, routeVars, genVars, bitVars, monVars,
                      SpikesOf, gNId
<1>2. ASSUME Schedule PROVE TypeOK'
  <2>1. simTime \in Nat
    BY TimeIsNat
  <2>2. /\ spikeBuf' \in [0 .. MsPerSec -> SUBSET GenNeuron]
        /\ unread' \in [GenNeuron -> SUBSET Nat]
        /\ sliceUpdateTime' \in Nat
    BY <1>2, <2>1 DEF Schedule, TypeOK
  <2>3. genPc' \in [Part -> {"clear", "fill", "copy", "done"}] /\ phase' \in Phase
    BY <1>2 DEF Schedule, Phase
  <2> QED
    BY <1>2, <2>2, <2>3 DEF Schedule, TypeOK, runVars, tableVars, routeVars, monVars
<1>3. ASSUME NEW p \in Part, ClearBits(p) PROVE TypeOK'
  BY <1>3 DEF ClearBits, bitsUnchanged, TypeOK, runVars, tableVars, routeVars, genVars, monVars
<1>4. ASSUME NEW p \in Part, FillBits(p) PROVE TypeOK'
  <2>1. spikeBuf[0] \subseteq GenNeuron /\ sharedBits \subseteq Nat
    BY DEF TypeOK
  <2>2. sharedBits' \subseteq Nat
    BY <1>4, <2>1 DEF FillBits
  <2> QED
    BY <1>4, <2>2 DEF FillBits, bitsUnchanged, TypeOK, runVars, tableVars, routeVars,
                      genVars, monVars
<1>5. ASSUME NEW p \in Part, CopyBits(p) PROVE TypeOK'
  BY <1>5 DEF CopyBits, bitsUnchanged, TypeOK, runVars, tableVars, routeVars, genVars, monVars
<1>6. ASSUME StepBuffer PROVE TypeOK'
  <2>1. spikeBuf' \in [0 .. MsPerSec -> SUBSET GenNeuron] /\ phase' \in Phase
    BY <1>6 DEF StepBuffer, TypeOK, Phase
  <2> QED
    BY <1>6, <2>1 DEF StepBuffer, TypeOK, runVars, tableVars, routeVars, bitVars, monVars
<1>7. ASSUME FindFiring PROVE TypeOK'
  <2>1. PICK W \in SUBSET (Neuron \ GenNeuron) :
          LET F == FiresNow(W)
              L == { n \in F : HasSpace(F, n) }
              of(p, c) == { n \in L : netId[n[1]] = p /\ ClassOf[n[1]] = c }
          IN  /\ firingTable' = [p \in Part |-> [c \in Class |-> [k \in Slot |->
                   IF \E n \in of(p, c) : fireId(F, n) = k
                   THEN lNId[p][CHOOSE n \in of(p, c) : fireId(F, n) = k]
                   ELSE firingTable[p][c][k]]]]
              /\ spikeCountSec' = [p \in Part |-> [c \in Class |->
                   spikeCountSec[p][c] + Cardinality(of(p, c))]]
              /\ extFiringTable' = [g \in Group |-> extFiringTable[g] \union
                   IF hasExternalConnect[g] THEN { gNId(n) : n \in { m \in L : m[1] = g } }
                                            ELSE {}]
              /\ fired' = fired \union { <<n, simTime>> : n \in L }
              /\ lastSpikeTime' = [n \in GenNeuron |->
                   IF n \in F THEN simTime ELSE lastSpikeTime[n]]
    BY <1>7 DEF FindFiring
  <2> DEFINE F == FiresNow(W)
             L == { n \in F : HasSpace(F, n) }
             of(p, c) == { n \in L : netId[n[1]] = p /\ ClassOf[n[1]] = c }
  <2>2. F \subseteq Neuron /\ L \subseteq Neuron
    BY DEF FiresNow, GenNeuron
  <2>3. \A p, c : Cardinality(of(p, c)) \in Nat
    BY <2>2, NeuronsCounted
  <2>4. simTime \in Nat
    BY TimeIsNat
  <2>5. firingTable' \in [Part -> [Class -> [Slot -> Int]]]
    <3> SUFFICES ASSUME NEW p \in Part, NEW c \in Class, NEW k \in Slot
                 PROVE  (IF \E n \in of(p, c) : fireId(F, n) = k
                         THEN lNId[p][CHOOSE n \in of(p, c) : fireId(F, n) = k]
                         ELSE firingTable[p][c][k]) \in Int
      BY <2>1
    <3>1. CASE \E n \in of(p, c) : fireId(F, n) = k
      <4> DEFINE m == CHOOSE n \in of(p, c) : fireId(F, n) = k
      <4>1. m \in of(p, c)
        BY <3>1
      <4>2. m \in Neuron
        BY <2>2, <4>1
      <4> HIDE DEF m
      <4>3. lNId[p][m] \in Int
        BY <4>2
      <4> QED BY <3>1, <4>3 DEF m
    <3>2. CASE ~\E n \in of(p, c) : fireId(F, n) = k
      <4>1. firingTable[p][c][k] \in Int
        BY DEF TypeOK
      <4> QED BY <3>2, <4>1
    <3> QED BY <3>1, <3>2
  <2>6. spikeCountSec' \in [Part -> [Class -> Int]]
    <3>1. spikeCountSec' = [p \in Part |-> [c \in Class |->
                              spikeCountSec[p][c] + Cardinality(of(p, c))]]
      BY <2>1
    <3>2. \A p \in Part, c \in Class : spikeCountSec[p][c] \in Int
      BY DEF TypeOK
    <3> HIDE DEF of
    <3> QED BY <2>3, <3>1, <3>2
  <2>7. /\ extFiringTable' \in [Group -> SUBSET Int]
        /\ \A g \in Group :
             extFiringTable'[g] \subseteq { gNId(n) : n \in { m \in Neuron : m[1] = g } }
    BY <2>1, <2>2 DEF TypeOK
  <2>8. fired' \subseteq Neuron \X Nat /\ lastSpikeTime' \in [GenNeuron -> Nat]
    BY <2>1, <2>2, <2>4 DEF TypeOK
  <2> QED
    BY <1>7, <2>5, <2>6, <2>7, <2>8
       DEF FindFiring, Phase, TypeOK, runVars, bitVars, monVars
<1>8. ASSUME UpdateTimingTable PROVE TypeOK'
  <2>1. \A p \in Part, c \in Class : Logged(p, c) \in Int
    BY DEF TypeOK, Logged
  <2>2. timeTable' \in [Part -> [Class -> [0 .. MsPerSec + maxDelay -> Int]]]
    BY <1>8, <2>1 DEF UpdateTimingTable, TypeOK
  <2> QED
    BY <1>8, <2>2 DEF UpdateTimingTable, Phase, TypeOK, runVars, genVars, bitVars, monVars
<1>9. ASSUME NEW r \in routes, RouteFork(r) PROVE TypeOK'
  <2>0. r \in Connection /\ DestNet(r) \in Part
    BY PartitionAssumption DEF TypeOK, spikeRoutingTable, DestNet
  <2>1. Sent(r) \subseteq Group
    BY <2>0 DEF Sent, groupPartitionList
  <2>2. \A g \in Sent(r) : startIdx(r, g) \in Int
    <3> SUFFICES ASSUME NEW g \in Sent(r) PROVE startIdx(r, g) \in Int
      OBVIOUS
    <3>1. firingTableIdx(r, ClassOf[g]) \in Int
      BY <2>0, <2>1, TimeTableEntries DEF firingTableIdx
    <3>2. Cardinality(SpikesOf({ h \in Sent(r) : LocalBefore(SrcNet(r), h, g) }, ClassOf[g])) \in Nat
      BY <2>1, SpikesCounted
    <3> QED BY <3>1, <3>2 DEF startIdx
  <2>3. threads' \subseteq [grp : Group, start : Int, count : Int]
    BY <1>9, <2>1, <2>2 DEF RouteFork, Nobody
  <2>4. ASSUME NEW c, NEW x \in SpikesOf(Sent(r), c) PROVE x[2] \in Int
    BY <2>1 DEF SpikesOf, TypeOK
  <2>5. firingTable' \in [Part -> [Class -> [Slot -> Int]]]
    BY <1>9, <2>0, <2>4 DEF RouteFork, TypeOK
  <2> QED
    BY <1>9, <2>0, <2>3, <2>5
       DEF RouteFork, Phase, TypeOK, runVars, genVars, bitVars, monVars
<1>10. ASSUME NEW th \in threads, ConvertRead(th) PROVE TypeOK'
  <2>1. th \in [grp : Group, start : Int, count : Int] /\ DestNet(rte) \in Part
    BY PartitionAssumption DEF TypeOK, DestNet
  <2>2. spikeCountSec[DestNet(rte)][ClassOf[th.grp]] \in Int
    <3>1. th.grp \in Group
      BY <2>1
    <3>2. ClassOf[th.grp] \in Class
      BY <3>1
    <3>3. spikeCountSec \in [Part -> [Class -> Int]]
      BY DEF TypeOK
    <3>4. DestNet(rte) \in Part
      BY <2>1
    <3> HIDE PartitionTypes
    <3> QED BY <3>2, <3>3, <3>4
  <2>3. threads' \subseteq [grp : Group, start : Int, count : Int]
    BY <1>10, <2>1, <2>2 DEF ConvertRead, TypeOK
  <2> QED
    BY <1>10, <2>3 DEF ConvertRead, convertUnchanged, TypeOK, runVars, genVars, bitVars, monVars
<1>11. ASSUME NEW th \in threads, ConvertWrite(th) PROVE TypeOK'
  <2>1. th \in [grp : Group, start : Int, count : Int] /\ DestNet(rte) \in Part
    BY PartitionAssumption DEF TypeOK, DestNet
  <2>2. extFiringTable[th.grp] \subseteq { gNId(n) : n \in { m \in Neuron : m[1] = th.grp } }
    BY <2>1 DEF TypeOK
  <2>3. Cardinality(extFiringTable[th.grp]) \in Nat
    BY <2>1, ExternalCounted
  <2>4. spikeCountSec' \in [Part -> [Class -> Int]]
    BY <1>11, <2>1, <2>3 DEF ConvertWrite, Counted, TypeOK
  <2>5. firingTable' \in [Part -> [Class -> [Slot -> Int]]]
    <3>1. th.grp \in Group
      BY <2>1
    <3>2. GtoLOffset(DestNet(rte), th.grp) \in Int
      BY <2>1, <3>1
    <3> DEFINE offset == GtoLOffset(DestNet(rte), th.grp)
               ids == th.start .. th.start + Cardinality(extFiringTable[th.grp]) - 1
               q == DestNet(rte)
               c == ClassOf[th.grp]
    <3>3. firingTable' = [firingTable EXCEPT ![q][c] = [k \in Slot |->
             IF k \in ids THEN @[k] + offset ELSE @[k]]]
      BY <1>11 DEF ConvertWrite
    <3>4. firingTable \in [Part -> [Class -> [Slot -> Int]]]
      BY DEF TypeOK
    <3>5. q \in Part /\ c \in Class /\ offset \in Int
      BY <2>1, <3>1, <3>2
    <3> HIDE DEF offset, ids, q, c
    <3>6. [k \in Slot |-> IF k \in ids THEN firingTable[q][c][k] + offset ELSE firingTable[q][c][k]]
            \in [Slot -> Int]
      BY <3>4, <3>5
    <3> HIDE PartitionTypes
    <3> QED
      BY <3>3, <3>4, <3>5, <3>6
  <2>6. threads' \subseteq [grp : Group, start : Int, count : Int]
    BY <1>11 DEF ConvertWrite, TypeOK
  <2> QED
    BY <1>11, <2>4, <2>5, <2>6
       DEF ConvertWrite, convertUnchanged, TypeOK, runVars, genVars, bitVars, monVars
<1>12. ASSUME RouteJoin PROVE TypeOK'
  <2>1. DestNet(rte) \in Part /\ Sent(rte) \subseteq Group
    BY PartitionAssumption DEF TypeOK, DestNet, Sent, groupPartitionList
  <2>2. \A c \in Class : firingTableIdx(rte, c) + Cardinality(SpikesOf(Sent(rte), c)) \in Int
    <3>1. \A c \in Class : firingTableIdx(rte, c) \in Int
      BY <2>1, TimeTableEntries DEF firingTableIdx
    <3>2. \A c : Cardinality(SpikesOf(Sent(rte), c)) \in Nat
      BY <2>1, SpikesCounted
    <3> QED BY <3>1, <3>2
  <2>3. timeTable' \in [Part -> [Class -> [0 .. MsPerSec + maxDelay -> Int]]]
    BY <1>12, <2>1, <2>2 DEF RouteJoin, TypeOK
  <2> QED
    BY <1>12, <2>3 DEF RouteJoin, Phase, TypeOK, runVars, genVars, bitVars, monVars
<1>13. ASSUME DoCurrentUpdate PROVE TypeOK'
  <2>1. ASSUME NEW s \in Synapse
        PROVE  /\ Cardinality({ k \in WindowD2(netId[grpDest[s[2]]]) :
                                  DeliversD2(netId[grpDest[s[2]]], k, s) }) \in Nat
               /\ Cardinality({ k \in WindowD1(netId[grpDest[s[2]]]) :
                                  DeliversD1(netId[grpDest[s[2]]], k, s) }) \in Nat
    <3> DEFINE p == netId[grpDest[s[2]]]
    <3>1. p \in Part
      BY PartitionAssumption DEF Synapse
    <3> HIDE DEF p
    <3>4. IsFiniteSet(WindowD2(p))
      <4>1. CASE maxDelay > 1
        <5> DEFINE a == timeTable[p][D2][simTimeMs + 1]
                   b == timeTable[p][D2][simTimeMs + 1 + maxDelay]
        <5>1. a \in Int /\ b \in Int
          <6> HIDE PartitionTypes
          <6> QED BY <3>1, TimeTableEntries
        <5>2. WindowD2(p) = a .. b - 1
          BY <4>1 DEF WindowD2
        <5> HIDE DEF a, b
        <5> QED BY <5>1, <5>2, FS_Interval
      <4>2. CASE ~(maxDelay > 1)
        BY <4>2, FS_EmptySet DEF WindowD2
      <4> QED BY <4>1, <4>2
    <3>5. IsFiniteSet(WindowD1(p))
      <4> DEFINE a == timeTable[p][D1][simTimeMs + maxDelay]
                 b == timeTable[p][D1][simTimeMs + maxDelay + 1]
      <4>1. a \in Int /\ b \in Int
        <5> HIDE PartitionTypes
        <5> QED BY <3>1, TimeTableEntries
      <4>2. WindowD1(p) = a .. b - 1
        BY DEF WindowD1
      <4> HIDE DEF a, b
      <4> QED BY <4>1, <4>2, FS_Interval
    <3>6. IsFiniteSet({ k \in WindowD2(p) : DeliversD2(p, k, s) })
      BY <3>4, FS_Subset
    <3>7. IsFiniteSet({ k \in WindowD1(p) : DeliversD1(p, k, s) })
      BY <3>5, FS_Subset
    <3> QED
      BY <3>6, <3>7, FS_CardinalityType DEF p
  <2>2. arrived' \in [Synapse -> Nat]
    <3> DEFINE p(s) == netId[grpDest[s[2]]]
               n2(s) == Cardinality({ k \in WindowD2(p(s)) : DeliversD2(p(s), k, s) })
               n1(s) == Cardinality({ k \in WindowD1(p(s)) : DeliversD1(p(s), k, s) })
    <3>1. arrived' = [s \in Synapse |-> n2(s) + n1(s)]
      BY <1>13 DEF DoCurrentUpdate
    <3>2. \A s \in Synapse : n2(s) \in Nat /\ n1(s) \in Nat
      BY <2>1
    <3> HIDE DEF n1, n2
    <3> QED BY <3>1, <3>2
  <2> QED
    BY <1>13, <2>2
       DEF DoCurrentUpdate, Phase, TypeOK, runVars, tableVars, routeVars, genVars, bitVars, monVars
<1>14. ASSUME AdvanceTime PROVE TypeOK'
  <2>1. /\ simTimeMs' \in 0 .. MsPerSec - 1 /\ simTimeSec' \in Nat
        /\ phase' \in Phase
    BY <1>14 DEF AdvanceTime, NextMs, Continue, TypeOK, Phase
  <2>2. /\ extFiringTable' \in [Group -> SUBSET Int]
        /\ \A g \in Group :
             extFiringTable'[g] \subseteq { gNId(n) : n \in { m \in Neuron : m[1] = g } }
    BY <1>14 DEF AdvanceTime
  <2> QED
    BY <1>14, <2>1, <2>2
       DEF AdvanceTime, TypeOK, runVars, tableVars, genVars, bitVars, monVars
<1>15. ASSUME FinishSecond PROVE TypeOK'
  <2>1. lastUpdated' \in Nat /\ recorded' \in [Neuron \X Time -> Nat]
    BY <1>15, MonitorTypes DEF FinishSecond
  <2>2. ASSUME NEW tt \in [0 .. MsPerSec + maxDelay -> Int]
        PROVE  ShiftedTimes(tt) \in [0 .. MsPerSec + maxDelay -> Int]
    BY DEF ShiftedTimes
  <2>3. ASSUME NEW tt \in [0 .. MsPerSec + maxDelay -> Int], NEW ft \in [Slot -> Int]
        PROVE  ShiftedTable(ft, tt) \in [Slot -> Int]
    BY DEF ShiftedTable
  <2>4. \A p \in Part, c \in Class :
          /\ timeTable[p][c] \in [0 .. MsPerSec + maxDelay -> Int]
          /\ firingTable[p][c] \in [Slot -> Int]
    BY DEF TypeOK
  <2>5. firingTable' \in [Part -> [Class -> [Slot -> Int]]]
    <3> SUFFICES ASSUME NEW p \in Part
                 PROVE  [firingTable[p] EXCEPT ![D2] = ShiftedTable(@, timeTable[p][D2])]
                          \in [Class -> [Slot -> Int]]
      BY <1>15 DEF FinishSecond, ShiftSpikeTables
    <3>1. ShiftedTable(firingTable[p][D2], timeTable[p][D2]) \in [Slot -> Int]
      BY <2>3, <2>4, TimeTableEntries
    <3>2. firingTable[p] \in [Class -> [Slot -> Int]]
      BY DEF TypeOK
    <3> QED BY <3>1, <3>2
  <2>6. timeTable' \in [Part -> [Class -> [0 .. MsPerSec + maxDelay -> Int]]]
    <3> SUFFICES ASSUME NEW p \in Part, NEW c \in Class
                 PROVE  (IF c = D2 THEN ShiftedTimes(timeTable[p][D2])
                         ELSE [ShiftedTimes(timeTable[p][D1]) EXCEPT ![maxDelay] = 0])
                          \in [0 .. MsPerSec + maxDelay -> Int]
      BY <1>15 DEF FinishSecond, ShiftSpikeTables
    <3>1. /\ ShiftedTimes(timeTable[p][D1]) \in [0 .. MsPerSec + maxDelay -> Int]
          /\ ShiftedTimes(timeTable[p][D2]) \in [0 .. MsPerSec + maxDelay -> Int]
      BY <2>2, <2>4, TimeTableEntries
    <3> QED BY <3>1
  <2>7. /\ spikeCountSec' \in [Part -> [Class -> Int]]
        /\ spikeCountLastSecLeftD2' \in [Part -> Int]
    <3>1. /\ spikeCountSec' = [p \in Part |-> [c \in Class |-> 0]]
          /\ spikeCountLastSecLeftD2' = [p \in Part |-> timeTable'[p][D2][maxDelay]]
      BY <1>15 DEF FinishSecond, ShiftSpikeTables
    <3>2. \A p \in Part : timeTable'[p][D2][maxDelay] \in Int
      <4>1. maxDelay \in 0 .. MsPerSec + maxDelay /\ D2 \in Class
        BY TimeTableEntries
      <4> DEFINE I == 0 .. MsPerSec + maxDelay
      <4>2. timeTable' \in [Part -> [Class -> [I -> Int]]] /\ maxDelay \in I
        BY <2>6, <4>1
      <4> HIDE PartitionTypes
      <4> HIDE DEF I
      <4> QED BY <4>1, <4>2
    <3> QED BY <3>1, <3>2
  <2>8. phase' \in Phase
    BY <1>15 DEF FinishSecond, Phase
  <2> QED
    BY <1>15, <2>1, <2>5, <2>6, <2>7, <2>8
       DEF FinishSecond, TypeOK, runVars, routeVars, genVars, bitVars
<1>16. ASSUME FinishRun PROVE TypeOK'
  <2>1. lastUpdated' \in Nat /\ recorded' \in [Neuron \X Time -> Nat]
    BY <1>16, MonitorTypes DEF FinishRun
  <2> QED
    BY <1>16, <2>1
       DEF FinishRun, Phase, TypeOK, runVars, tableVars, routeVars, genVars, bitVars
<1>17. CASE UNCHANGED vars
  BY <1>17 DEF vars, TypeOK, runVars, tableVars, routeVars, genVars, bitVars, monVars
<1> QED
  BY <1>1, <1>2, <1>3, <1>4, <1>5, <1>6, <1>7, <1>8, <1>9, <1>10, <1>11, <1>12, <1>13,
     <1>14, <1>15, <1>16, <1>17 DEF Next

(* Every variable keeps its type. *)
THEOREM TypesCorrect == Spec => []TypeOK
<1> QED
  BY TypesInit, TypesStep, PTL DEF Spec

-----------------------------------------------------------------------------
(* The spike counts and the time table.                                     *)

(* Of each class only one group sends from one partition to another.        *)
LEMMA OneSender ==
  ASSUME Exclusive, NEW r \in spikeRoutingTable, NEW g \in Sent(r), NEW h \in Sent(r),
         ClassOf[g] = ClassOf[h]
  PROVE  g = h
<1>1. r \in Connection /\ SrcNet(r) # DestNet(r)
  BY DEF spikeRoutingTable, External, SrcNet, DestNet
<1>2. SrcNet(r) \in Part /\ DestNet(r) \in Part
  BY <1>1, PartitionAssumption DEF SrcNet, DestNet
<1>3. /\ g \in Group /\ netId[g] = SrcNet(r) /\ hasExternalConnect[g]
      /\ h \in Group /\ netId[h] = SrcNet(r) /\ hasExternalConnect[h]
      /\ g \in groupPartitionList[DestNet(r)] /\ h \in groupPartitionList[DestNet(r)]
  BY <1>2 DEF Sent, groupPartitionList
<1>4. g \in groupPartitionList[SrcNet(r)] /\ h \in groupPartitionList[SrcNet(r)]
  BY <1>2, <1>3 DEF groupPartitionList
<1> HIDE DEF Exclusive
<1> QED
  BY <1>1, <1>2, <1>3, <1>4 DEF Exclusive

(* Pairs with the same first element are as many as there are second ones.  *)
LEMMA PairsCounted ==
  ASSUME NEW g, NEW S, IsFiniteSet(S)
  PROVE  Cardinality({g} \X S) = Cardinality(S)
<1> DEFINE T == {g} \X S
           f == [x \in S |-> <<g, x>>]
<1>1. \A t \in T : t = <<g, t[2]>> /\ t[2] \in S
  OBVIOUS
<1>2. f \in [S -> T]
  OBVIOUS
<1>3. f \in Surjection(S, T)
  BY <1>1, <1>2 DEF Surjection
<1>4. f \in Injection(S, T)
  BY <1>2 DEF Injection, IsInjective
<1> HIDE DEF f, T
<1>5. Cardinality(T) = Cardinality(S)
  BY <1>3, <1>4, FS_Surjection
<1> QED
  BY <1>5 DEF T

(* A group that joins others, none of them of its class, adds its spikes to *)
(* those of its class.                                                      *)
LEMMA SpikesAdded ==
  ASSUME TypeOK, NEW G \in SUBSET Group, NEW g \in Group,
         \A h \in G : ClassOf[h] # ClassOf[g], NEW c
  PROVE  Cardinality(SpikesOf(G \union {g}, c))
           = Cardinality(SpikesOf(G, c))
             + IF ClassOf[g] = c THEN Cardinality(extFiringTable[g]) ELSE 0
<1>1. CASE ClassOf[g] = c
  <2>1. SpikesOf(G, c) = {}
    BY <1>1 DEF SpikesOf
  <2>2. SpikesOf(G \union {g}, c) = {g} \X extFiringTable[g]
    <3>1. { h \in G \union {g} : ClassOf[h] = c } = {g}
      BY <1>1
    <3> QED BY <3>1 DEF SpikesOf
  <2>3. Cardinality({g} \X extFiringTable[g]) = Cardinality(extFiringTable[g])
    BY ExternalCounted, PairsCounted
  <2>4. Cardinality(SpikesOf(G, c)) = 0 /\ Cardinality(extFiringTable[g]) \in Nat
    BY <2>1, FS_EmptySet, ExternalCounted
  <2>5. Cardinality(SpikesOf(G \union {g}, c)) = Cardinality(extFiringTable[g])
    BY <2>2, <2>3
  <2> QED
    BY <1>1, <2>4, <2>5
<1>2. CASE ClassOf[g] # c
  <2>1. SpikesOf(G \union {g}, c) = SpikesOf(G, c)
    BY <1>2 DEF SpikesOf
  <2> QED
    BY <1>2, <2>1, SpikesCounted
<1> QED
  BY <1>1, <1>2

(* Counts and time table are both zero when the kernel starts.              *)
LEMMA CountsInit ==
  Init => CountInv
<1> SUFFICES ASSUME Init PROVE CountInv
  OBVIOUS
<1>1. TypeOK
  BY TypesInit
<1>2. simTimeMs + maxDelay \in 0 .. MsPerSec + maxDelay
  BY <1>1, TimeTableEntries
<1> DEFINE I == 0 .. MsPerSec + maxDelay
           i == simTimeMs + maxDelay
<1>3. ASSUME NEW p \in Part, NEW c \in Class PROVE Logged(p, c) = timeTable[p][c][i]
  <2>1. timeTable = [q \in Part |-> [d \in Class |-> [j \in I |-> 0]]] /\ i \in I
    BY <1>2 DEF Init
  <2>2. Logged(p, c) = 0
    BY DEF Init, Logged
  <2> HIDE DEF I, i
  <2> QED BY <2>1, <2>2
<1> QED
  BY <1>3 DEF Init, CountInv, UpTo

(* Every step keeps them as far apart as its phase says.                    *)
LEMMA CountsStep ==
  TypeOK /\ CountInv /\ [Next]_vars => CountInv'
<1> SUFFICES ASSUME TypeOK, CountInv, [Next]_vars, Exclusive PROVE CountInv'
  BY DEF CountInv
<1> HIDE DEF Exclusive
<1>0. /\ phase \in {"idle", "schedule", "generate", "fire", "stop"} => UpTo(simTimeMs + maxDelay)
      /\ phase \in {"route", "deliver", "advance"} => UpTo(simTimeMs + maxDelay + 1)
      /\ phase = "second" => simTimeMs = 0
      /\ phase = "convert" => Converting
  BY DEF CountInv
<1>1. ASSUME NEW d \in Durations, RunNetwork(d) PROVE CountInv'
  BY <1>0, <1>1 DEF RunNetwork, CountInv, UpTo, Logged, tableVars
<1>2. ASSUME Schedule PROVE CountInv'
  BY <1>0, <1>2 DEF Schedule, CountInv, UpTo, Logged, tableVars
<1>3. ASSUME NEW p \in Part, ClearBits(p) PROVE CountInv'
  BY <1>0, <1>3 DEF ClearBits, bitsUnchanged, CountInv, UpTo, Logged, tableVars
<1>4. ASSUME NEW p \in Part, FillBits(p) PROVE CountInv'
  BY <1>0, <1>4 DEF FillBits, bitsUnchanged, CountInv, UpTo, Logged, tableVars
<1>5. ASSUME NEW p \in Part, CopyBits(p) PROVE CountInv'
  BY <1>0, <1>5 DEF CopyBits, bitsUnchanged, CountInv, UpTo, Logged, tableVars
<1>6. ASSUME StepBuffer PROVE CountInv'
  BY <1>0, <1>6 DEF StepBuffer, CountInv, UpTo, Logged, tableVars
<1>7. ASSUME FindFiring PROVE CountInv'
  BY <1>7 DEF FindFiring, CountInv
<1>16. ASSUME FinishRun PROVE CountInv'
  BY <1>0, <1>16 DEF FinishRun, CountInv, UpTo, Logged, tableVars
<1>13. ASSUME DoCurrentUpdate PROVE CountInv'
  BY <1>0, <1>13 DEF DoCurrentUpdate, CountInv, UpTo, Logged, tableVars
<1>8. ASSUME UpdateTimingTable PROVE CountInv'
  <2>1. ASSUME NEW p \in Part, NEW c \in Class
        PROVE  timeTable'[p][c][simTimeMs + maxDelay + 1] = Logged(p, c)
    <3> DEFINE I == 0 .. MsPerSec + maxDelay
               i == simTimeMs + maxDelay + 1
    <3>1. i \in I
      BY TimeTableEntries
    <3>2. timeTable[p][c] \in [I -> Int]
      BY DEF TypeOK
    <3>3. timeTable'[p][c] = [timeTable[p][c] EXCEPT ![i] = Logged(p, c)]
      BY <1>8 DEF UpdateTimingTable
    <3> HIDE DEF I, i
    <3>4. timeTable'[p][c][i] = Logged(p, c)
      BY <3>1, <3>2, <3>3
    <3> QED BY <3>4 DEF i
  <2>2. UpTo(simTimeMs + maxDelay + 1)'
    BY <1>8, <2>1 DEF UpdateTimingTable, UpTo, Logged
  <2> QED
    BY <1>8, <2>2 DEF UpdateTimingTable, CountInv
<1>9. ASSUME NEW r \in routes, RouteFork(r) PROVE CountInv'
  <2>1. UpTo(simTimeMs + maxDelay + 1)
    BY <1>0, <1>9 DEF RouteFork
  <2>2. r \in spikeRoutingTable /\ DestNet(r) \in Part /\ rte' = r
    BY <1>9, PartitionAssumption DEF TypeOK, RouteFork, spikeRoutingTable, DestNet
  <2>3. Sent(rte)' = Sent(r)
    BY <1>9, <2>2 DEF RouteFork, Sent, SrcNet, DestNet
  <2>4. Converted' = {}
    <3>1. \A g \in Sent(r) :
            [grp |-> g, start |-> startIdx(r, g), count |-> Nobody] \in threads'
      BY <1>9 DEF RouteFork
    <3>2. \A g \in Sent(r) : \E th \in threads' : th.grp = g
      BY <3>1
    <3>3. Converted' = { g \in Sent(r) : \A th \in threads' : th.grp # g }
      BY <2>3 DEF Converted
    <3> QED BY <3>2, <3>3
  <2>5. \A c : SpikesOf(Converted, c)' = {}
    BY <2>4 DEF SpikesOf
  <2>6. \A c : Cardinality(SpikesOf(Converted, c)') = 0
    BY <2>5, FS_EmptySet
  <2>7. ASSUME NEW c \in Class
        PROVE  /\ Logged(DestNet(rte), c)' = Logged(DestNet(r), c)
               /\ firingTableIdx(rte, c)' = timeTable[DestNet(r)][c][simTimeMs + maxDelay + 1]
               /\ firingTableIdx(rte, c)' \in Int
    <3>1. timeTable[DestNet(r)][c][simTimeMs + maxDelay + 1] \in Int
      BY <2>2, TimeTableEntries
    <3> QED
      BY <1>9, <2>2, <3>1 DEF RouteFork, Logged, DestNet, firingTableIdx
  <2>8. \A c \in Class :
          Logged(DestNet(rte), c)' = firingTableIdx(rte, c)' + Cardinality(SpikesOf(Converted, c)')
    BY <2>1, <2>2, <2>6, <2>7 DEF UpTo
  <2>9. \A p \in Part, c \in Class :
          Logged(p, c)' = timeTable'[p][c][simTimeMs' + maxDelay + 1]
    BY <1>9, <2>1 DEF RouteFork, UpTo, Logged
  <2>10. /\ \A th \in threads' : th.grp \in Sent(rte)' /\ th.count = Nobody
         /\ \A th, u \in threads' : th.grp = u.grp => th = u
    BY <1>9, <2>3 DEF RouteFork
  <2>11. Converting'
    BY <2>2, <2>8, <2>9, <2>10 DEF Converting
  <2> QED
    BY <1>9, <2>11 DEF RouteFork, CountInv
<1>10. ASSUME NEW th \in threads, ConvertRead(th) PROVE CountInv'
  <2>1. Converting
    BY <1>0, <1>10 DEF ConvertRead
  <2>2. /\ timeTable' = timeTable /\ spikeCountSec' = spikeCountSec
        /\ spikeCountLastSecLeftD2' = spikeCountLastSecLeftD2
        /\ extFiringTable' = extFiringTable /\ rte' = rte /\ simTimeMs' = simTimeMs
        /\ phase' = phase /\ phase = "convert"
    BY <1>10 DEF ConvertRead, convertUnchanged
  <2> DEFINE read == [th EXCEPT !.count = spikeCountSec[DestNet(rte)][ClassOf[th.grp]]]
  <2>3. threads' = (threads \ {th}) \union {read}
    BY <1>10 DEF ConvertRead
  <2>4. th \in [grp : Group, start : Int, count : Int]
    BY DEF TypeOK
  <2>5. read.grp = th.grp /\ read.count = spikeCountSec[DestNet(rte)][ClassOf[read.grp]]
    BY <2>4
  <2> HIDE DEF read
  <2>6. Sent(rte)' = Sent(rte) /\ DestNet(rte)' = DestNet(rte)
    BY <2>2 DEF Sent, SrcNet, DestNet
  <2>7. Converted' = Converted
    BY <2>3, <2>5, <2>6 DEF Converted
  <2>8. \A c : SpikesOf(Converted, c)' = SpikesOf(Converted, c)
    BY <2>2, <2>7 DEF SpikesOf
  <2>9. \A p \in Part, c \in Class :
          p # DestNet(rte)' => Logged(p, c)' = timeTable'[p][c][simTimeMs' + maxDelay + 1]
    BY <2>1, <2>2, <2>6 DEF Converting, Logged
  <2>10. \A c \in Class :
           Logged(DestNet(rte), c)' = firingTableIdx(rte, c)' + Cardinality(SpikesOf(Converted, c)')
    BY <2>1, <2>2, <2>6, <2>8 DEF Converting, Logged, firingTableIdx
  <2>11. \A x \in threads' :
           /\ x.grp \in Sent(rte)'
           /\ x.count \in {Nobody, spikeCountSec'[DestNet(rte)'][ClassOf[x.grp]]}
    BY <2>1, <2>2, <2>3, <2>5, <2>6 DEF Converting
  <2>12. \A x, u \in threads' : x.grp = u.grp => x = u
    BY <2>1, <2>3, <2>5 DEF Converting
  <2>13. Converting'
    BY <2>1, <2>2, <2>9, <2>10, <2>11, <2>12 DEF Converting
  <2> QED
    BY <2>2, <2>13 DEF CountInv
<1>11. ASSUME NEW th \in threads, ConvertWrite(th) PROVE CountInv'
  <2>1. Converting
    BY <1>0, <1>11 DEF ConvertWrite
  <2> DEFINE q == DestNet(rte)
             g == th.grp
  <2>2. /\ timeTable' = timeTable /\ spikeCountLastSecLeftD2' = spikeCountLastSecLeftD2
        /\ extFiringTable' = extFiringTable /\ rte' = rte /\ simTimeMs' = simTimeMs
        /\ phase' = phase /\ phase = "convert" /\ threads' = threads \ {th}
        /\ spikeCountSec' = [spikeCountSec EXCEPT ![q][ClassOf[g]] = Counted(th)]
    BY <1>11 DEF ConvertWrite, convertUnchanged
  <2>3. /\ q \in Part /\ g \in Sent(rte) /\ Sent(rte) \subseteq Group /\ g \in Group
        /\ ClassOf[g] \in Class
    BY <2>1, PartitionTypes, PartitionAssumption
       DEF TypeOK, DestNet, Converting, Sent, groupPartitionList
  <2>4. Sent(rte)' = Sent(rte) /\ DestNet(rte)' = q
    BY <2>2 DEF Sent, SrcNet, DestNet
  <2>5. Converted' = Converted \union {g}
    <3>1. Converted' = { h \in Sent(rte) : \A u \in threads \ {th} : u.grp # h }
      BY <2>2, <2>4 DEF Converted
    <3>2. \A u \in threads \ {th} : u.grp # g
      BY <2>1 DEF Converting
    <3> QED
      BY <2>3, <3>1, <3>2 DEF Converted
  <2>6. g \notin Converted /\ Converted \in SUBSET Sent(rte)
    BY DEF Converted
  <2>7. \A h \in Converted : ClassOf[h] # ClassOf[g]
    BY <2>1, <2>3, <2>6, OneSender DEF Converting
  <2>8. \A c : Cardinality(SpikesOf(Converted, c)')
                 = Cardinality(SpikesOf(Converted, c))
                   + IF ClassOf[g] = c THEN Cardinality(extFiringTable[g]) ELSE 0
    <3>1. \A c : SpikesOf(Converted, c)' = SpikesOf(Converted \union {g}, c)
      BY <2>2, <2>5 DEF SpikesOf
    <3>2. Converted \in SUBSET Group
      BY <2>3, <2>6
    <3> QED
      BY <2>3, <2>7, <3>1, <3>2, SpikesAdded
  <2>9. th.count = spikeCountSec[q][ClassOf[g]]
    BY <1>11, <2>1 DEF ConvertWrite, Converting
  <2>10. spikeCountSec \in [Part -> [Class -> Int]]
    BY DEF TypeOK
  <2>11. Cardinality(extFiringTable[g]) \in Nat
    BY <2>3, ExternalCounted
  <2>12. ASSUME NEW p \in Part, NEW c \in Class
         PROVE  spikeCountSec'[p][c] = spikeCountSec[p][c]
                  + IF p = q /\ c = ClassOf[g] THEN Cardinality(extFiringTable[g]) ELSE 0
    <3> DEFINE n == Cardinality(extFiringTable[g])
               d == ClassOf[g]
    <3>1. spikeCountSec' = [spikeCountSec EXCEPT ![q][d] = spikeCountSec[q][d] + n]
      BY <2>2, <2>9 DEF Counted
    <3>2. q \in Part /\ d \in Class /\ n \in Nat
      BY <2>3, <2>11
    <3> HIDE DEF n, d, q
    <3>3. spikeCountSec'[p][c] = spikeCountSec[p][c] + IF p = q /\ c = d THEN n ELSE 0
      BY <2>10, <3>1, <3>2
    <3> QED BY <3>3 DEF n, d
  <2> HIDE DEF q
  <2>13. \A p \in Part, c \in Class :
           p # q => Logged(p, c)' = timeTable'[p][c][simTimeMs' + maxDelay + 1]
    <3> SUFFICES ASSUME NEW p \in Part, NEW c \in Class, p # q
                 PROVE  Logged(p, c)' = timeTable'[p][c][simTimeMs' + maxDelay + 1]
      OBVIOUS
    <3>1. spikeCountSec'[p][c] = spikeCountSec[p][c]
      BY <2>10, <2>12
    <3>2. Logged(p, c)' = Logged(p, c)
      BY <2>2, <3>1 DEF Logged
    <3> QED
      BY <2>1, <2>2, <3>2 DEF Converting, q
  <2>14. \A c \in Class :
           Logged(q, c)' = firingTableIdx(rte, c)' + Cardinality(SpikesOf(Converted, c)')
    <3> SUFFICES ASSUME NEW c \in Class
                 PROVE  Logged(q, c)' = firingTableIdx(rte, c)' + Cardinality(SpikesOf(Converted, c)')
      OBVIOUS
    <3> DEFINE n == IF c = ClassOf[g] THEN Cardinality(extFiringTable[g]) ELSE 0
               m == Cardinality(SpikesOf(Converted, c))
               l == IF c = D2 THEN spikeCountLastSecLeftD2[q] ELSE 0
    <3>1. firingTableIdx(rte, c)' = firingTableIdx(rte, c) /\ firingTableIdx(rte, c) \in Int
      <4>1. firingTableIdx(rte, c) \in Int
        BY <2>3, TimeTableEntries DEF firingTableIdx, q
      <4> QED BY <2>2, <4>1 DEF firingTableIdx, DestNet
    <3>2. Logged(q, c) = firingTableIdx(rte, c) + m
      BY <2>1 DEF Converting, q
    <3>3. spikeCountSec'[q][c] = spikeCountSec[q][c] + n
      BY <2>3, <2>12
    <3>4. spikeCountSec[q][c] \in Int /\ l \in Int /\ n \in Nat
      BY <2>3, <2>10, <2>11 DEF TypeOK
    <3>5. m \in Nat
      BY <2>3, <2>6, SpikesCounted
    <3>6. Logged(q, c) = spikeCountSec[q][c] + l /\ Logged(q, c)' = spikeCountSec'[q][c] + l
      <4>1. q' = q
        BY <2>4 DEF q
      <4> QED BY <2>2, <4>1 DEF Logged
    <3>7. Cardinality(SpikesOf(Converted, c)') = m + n
      BY <2>8
    <3> HIDE DEF n, m, l
    <3> QED
      BY <3>1, <3>2, <3>3, <3>4, <3>5, <3>6, <3>7
  <2>15. \A u \in threads' :
           /\ u.grp \in Sent(rte)'
           /\ u.count \in {Nobody, spikeCountSec'[q][ClassOf[u.grp]]}
    <3> SUFFICES ASSUME NEW u \in threads, u # th
                 PROVE  /\ u.grp \in Sent(rte)'
                        /\ u.count \in {Nobody, spikeCountSec'[q][ClassOf[u.grp]]}
      BY <2>2
    <3>1. u.grp \in Sent(rte) /\ u.grp # g
      BY <2>1 DEF Converting
    <3>2. ClassOf[u.grp] # ClassOf[g]
      BY <2>1, <2>3, <3>1, OneSender DEF Converting
    <3>3. ClassOf[u.grp] \in Class
      BY <2>3, <3>1, PartitionTypes
    <3>4. spikeCountSec'[q][ClassOf[u.grp]] = spikeCountSec[q][ClassOf[u.grp]]
      BY <2>3, <2>10, <2>12, <3>2, <3>3
    <3> QED
      BY <2>1, <2>4, <3>1, <3>4 DEF Converting, q
  <2>16. \A x, u \in threads' : x.grp = u.grp => x = u
    BY <2>1, <2>2 DEF Converting
  <2>17. Converting'
    <3>1. rte' \in spikeRoutingTable
      BY <2>1, <2>2 DEF Converting
    <3> QED
      BY <2>4, <2>13, <2>14, <2>15, <2>16, <3>1 DEF Converting, q
  <2> QED
    BY <2>2, <2>17 DEF CountInv
<1>12. ASSUME RouteJoin PROVE CountInv'
  <2>1. Converting /\ threads = {}
    BY <1>0, <1>12 DEF RouteJoin
  <2>2. Converted = Sent(rte)
    BY <2>1 DEF Converted
  <2> DEFINE i == simTimeMs + maxDelay + 1
             I == 0 .. MsPerSec + maxDelay
             q == DestNet(rte)
             total(c) == firingTableIdx(rte, c) + Cardinality(SpikesOf(Sent(rte), c))
  <2>3. timeTable \in [Part -> [Class -> [I -> Int]]] /\ i \in I
    BY TimeTableEntries DEF TypeOK
  <2>4. timeTable' = [timeTable EXCEPT ![q] = [c \in Class |->
                        [timeTable[q][c] EXCEPT ![i] = total(c)]]]
    BY <1>12, <2>3 DEF RouteJoin
  <2>5. \A c \in Class : Logged(q, c) = total(c)
    BY <2>1, <2>2 DEF Converting
  <2>6. \A p \in Part, c \in Class : p # q => Logged(p, c) = timeTable[p][c][i]
    BY <2>1 DEF Converting
  <2>7. q \in Part
    BY PartitionAssumption DEF TypeOK, DestNet
  <2> HIDE DEF i, I, q, total
  <2>8. \A p \in Part, c \in Class : Logged(p, c) = timeTable'[p][c][i]
    BY <2>3, <2>4, <2>5, <2>6, <2>7
  <2>9. UpTo(simTimeMs + maxDelay + 1)'
    BY <1>12, <2>8 DEF RouteJoin, UpTo, Logged, i
  <2> QED
    BY <1>12, <2>9 DEF RouteJoin, CountInv
<1>14. ASSUME AdvanceTime PROVE CountInv'
  <2>1. UpTo(simTimeMs + maxDelay + 1)
    BY <1>0, <1>14 DEF AdvanceTime
  <2>2. simTimeMs' = 0 \/ simTimeMs' + maxDelay = simTimeMs + maxDelay + 1
    BY <1>14, PartitionTypes DEF AdvanceTime, NextMs, TypeOK
  <2>3. simTimeMs' # 0 => UpTo(simTimeMs + maxDelay)'
    BY <1>14, <2>1, <2>2 DEF AdvanceTime, UpTo, Logged, tableVars
  <2>4. phase' \in {"second", "stop", "schedule"} /\ (phase' = "second" <=> simTimeMs' = 0)
    BY <1>14 DEF AdvanceTime, Continue
  <2> QED
    BY <2>3, <2>4 DEF CountInv
<1>15. ASSUME FinishSecond PROVE CountInv'
  <2>1. simTimeMs = 0 /\ simTimeMs' = 0 /\ phase' \in {"stop", "schedule"}
    BY <1>0, <1>15 DEF FinishSecond
  <2>2. ASSUME NEW p \in Part, NEW c \in Class
        PROVE  Logged(p, c)' = timeTable'[p][c][maxDelay]
    <3>1. /\ spikeCountSec' = [q \in Part |-> [d \in Class |-> 0]]
          /\ spikeCountLastSecLeftD2' = [q \in Part |-> timeTable'[q][D2][maxDelay]]
          /\ timeTable' = [q \in Part |-> [d \in Class |->
               IF d = D2 THEN ShiftedTimes(timeTable[q][D2])
                         ELSE [ShiftedTimes(timeTable[q][D1]) EXCEPT ![maxDelay] = 0]]]
      BY <1>15 DEF FinishSecond, ShiftSpikeTables
    <3>2. CASE c = D2
      <4>1. timeTable'[p][D2][maxDelay] \in Int
        <5>1. TypeOK'
          BY TypesStep
        <5> DEFINE I == 0 .. MsPerSec + maxDelay
        <5>2. maxDelay \in I /\ D2 \in Class
          BY TimeTableEntries
        <5>3. timeTable' \in [Part -> [Class -> [I -> Int]]]
          BY <5>1 DEF TypeOK
        <5> HIDE DEF I
        <5> QED BY <5>2, <5>3
      <4> QED
        BY <3>1, <3>2, <4>1 DEF Logged
    <3>3. CASE c = D1
      <4>1. D1 # D2
        BY DEF D1, D2
      <4>2. maxDelay \in 0 .. MsPerSec + maxDelay
        BY TimeTableEntries
      <4>3. maxDelay \in DOMAIN ShiftedTimes(timeTable[p][D1])
        <5>1. DOMAIN timeTable[p][D1] = 0 .. MsPerSec + maxDelay
          BY TimeTableEntries DEF TypeOK
        <5> QED BY <4>2, <5>1 DEF ShiftedTimes
      <4>4. timeTable'[p][c] = [ShiftedTimes(timeTable[p][D1]) EXCEPT ![maxDelay] = 0]
        BY <3>1, <3>3, <4>1
      <4>5. timeTable'[p][c][maxDelay] = 0
        BY <4>3, <4>4
      <4> QED
        BY <3>1, <3>3, <4>1, <4>5 DEF Logged
    <3> QED
      BY <3>2, <3>3 DEF Class
  <2>3. UpTo(simTimeMs + maxDelay)'
    <3>1. simTimeMs' + maxDelay = maxDelay
      BY <2>1, PartitionTypes
    <3> QED BY <2>2, <3>1 DEF UpTo
  <2> QED
    BY <2>1, <2>3 DEF CountInv
<1>17. CASE UNCHANGED vars
  <2>1. Converting' = Converting
    BY <1>17 DEF vars, tableVars, routeVars, Converting, Converted, Sent, SrcNet, DestNet,
                 SpikesOf, firingTableIdx, Logged
  <2>2. \A i : UpTo(i)' <=> UpTo(i)
    BY <1>17 DEF vars, tableVars, UpTo, Logged
  <2> QED
    BY <1>0, <1>17, <2>1 DEF vars, CountInv, UpTo, Logged, tableVars
<1> QED
  BY <1>1, <1>2, <1>3, <1>4, <1>5, <1>6, <1>7, <1>8, <1>9, <1>10, <1>11, <1>12, <1>13,
     <1>14, <1>15, <1>16, <1>17 DEF Next

(* In every partition, as long as two groups of one class never send to the *)
(* same other one, no spike is logged over one that was routed, and none is *)
(* routed over one that was logged: counts and time table agree, whichever  *)
(* way the threads of convertExtSpikes interleave.                          *)
THEOREM CountsAgree == Spec => []CountsMatchTables
<1>1. Init => TypeOK /\ CountInv
  BY TypesInit, CountsInit
<1>2. (TypeOK /\ CountInv) /\ [Next]_vars => (TypeOK /\ CountInv)'
  BY TypesStep, CountsStep
<1>3. CountInv => CountsMatchTables
  BY DEF CountInv, CountsMatchTables, UpTo
<1> QED
  BY <1>1, <1>2, <1>3, PTL DEF Spec

-----------------------------------------------------------------------------
(* Local ids are one to one.                                                *)

(* The order in which a partition numbers its groups is total and strict.   *)
LEMMA LocalOrder ==
  ASSUME NEW p, NEW g \in Group, NEW h \in Group
  PROVE  /\ g # h => LocalBefore(p, g, h) \/ LocalBefore(p, h, g)
         /\ ~LocalBefore(p, g, g)
         /\ LocalBefore(p, g, h) =>
              \A k \in Group : LocalBefore(p, k, g) => LocalBefore(p, k, h)
<1>1. g \in Nat /\ h \in Nat /\ Group \subseteq Nat
  BY PartitionAssumption
<1>2. \A k : Order(p, k) \in Nat
  BY DEF Order
<1> QED
  BY <1>1, <1>2 DEF LocalBefore

(* The neurons of a group, and how many they are.                           *)
LEMMA GroupNeurons ==
  ASSUME NEW g \in Group
  PROVE  /\ { n \in Neuron : n[1] = g } = {g} \X (0 .. numN[g] - 1)
         /\ Cardinality({ n \in Neuron : n[1] = g }) = numN[g]
         /\ numN[g] \in Nat
<1>1. { n \in Neuron : n[1] = g } = {g} \X (0 .. numN[g] - 1)
  <2>1. \A h \in Group : \A n \in {h} \X (0 .. numN[h] - 1) : n[1] = h
    OBVIOUS
  <2>2. \A n \in {g} \X (0 .. numN[g] - 1) : n \in Neuron
    BY DEF Neuron
  <2>3. \A n \in Neuron : \E h \in Group : n \in {h} \X (0 .. numN[h] - 1)
    BY DEF Neuron
  <2> QED BY <2>1, <2>2, <2>3
<1>2. numN[g] \in Nat /\ numN[g] # 0
  BY PartitionAssumption
<1>3. IsFiniteSet(0 .. numN[g] - 1) /\ Cardinality(0 .. numN[g] - 1) = numN[g]
  <2> PICK k : k = numN[g]
    OBVIOUS
  <2>1. k \in Nat /\ k # 0
    BY <1>2
  <2>2. IsFiniteSet(0 .. k - 1) /\ Cardinality(0 .. k - 1) = k
    BY ONLY <2>1, FS_Interval
  <2> QED BY <2>2
<1>4. Cardinality({g} \X (0 .. numN[g] - 1)) = numN[g]
  BY <1>3, PairsCounted
<1> QED
  BY <1>1, <1>2, <1>4

(* A group starts behind all that one before it has.                        *)
LEMMA StartsApart ==
  ASSUME NEW p, NEW P \in SUBSET Group, NEW g \in P, NEW h \in P, LocalBefore(p, g, h)
  PROVE  Cardinality({ n \in Neuron : n[1] \in P /\ LocalBefore(p, n[1], g) }) + numN[g]
           <= Cardinality({ n \in Neuron : n[1] \in P /\ LocalBefore(p, n[1], h) })
<1> DEFINE A == { n \in Neuron : n[1] \in P /\ LocalBefore(p, n[1], g) }
           B == { n \in Neuron : n[1] \in P /\ LocalBefore(p, n[1], h) }
           N == { n \in Neuron : n[1] = g }
<1> SUFFICES Cardinality(A) + numN[g] <= Cardinality(B)
  OBVIOUS
<1>1. A \subseteq B /\ N \subseteq B /\ A \cap N = {}
  BY LocalOrder
<1>2. A \in SUBSET Neuron /\ B \in SUBSET Neuron /\ N \in SUBSET Neuron
  OBVIOUS
<1>3. Cardinality(N) = numN[g] /\ numN[g] \in Nat
  BY GroupNeurons
<1> HIDE DEF A, B, N
<1>4. /\ IsFiniteSet(A) /\ IsFiniteSet(B) /\ IsFiniteSet(N)
      /\ Cardinality(A) \in Nat /\ Cardinality(B) \in Nat
  BY <1>2, NeuronsCounted
<1>5. Cardinality(A \union N) = Cardinality(A) + Cardinality(N) - Cardinality(A \cap N)
  BY <1>4, FS_Union
<1>6. Cardinality(A \cap N) = 0
  BY <1>1, FS_EmptySet
<1>7. Cardinality(A \union N) <= Cardinality(B)
  BY <1>1, <1>4, FS_Subset
<1> QED
  BY <1>3, <1>4, <1>5, <1>6, <1>7

(* Two neurons of groups that start apart have different ids.               *)
LEMMA IdsApart ==
  ASSUME NEW n \in Neuron, NEW m \in Neuron, NEW a \in Nat, NEW b \in Nat,
         n[1] # m[1] => a + numN[n[1]] <= b \/ b + numN[m[1]] <= a,
         n[1] = m[1] => a = b,
         a + n[2] = b + m[2]
  PROVE  n = m
<1>1. /\ n = <<n[1], n[2]>> /\ n[1] \in Group /\ n[2] \in 0 .. numN[n[1]] - 1
      /\ m = <<m[1], m[2]>> /\ m[1] \in Group /\ m[2] \in 0 .. numN[m[1]] - 1
  BY DEF Neuron
<1>2. numN[n[1]] \in Nat /\ numN[m[1]] \in Nat
  BY <1>1, GroupNeurons
<1>3. n[1] = m[1]
  BY <1>1, <1>2
<1>4. n[2] = m[2]
  BY <1>1, <1>3
<1> QED
  BY <1>1, <1>3, <1>4

(* In a partition no two neurons have the same local id.                    *)
LEMMA LocalIdInjective ==
  ASSUME NEW p \in Part, NEW n \in Neuron, NEW m \in Neuron,
         n[1] \in groupPartitionList[p], m[1] \in groupPartitionList[p],
         lNId[p][n] = lNId[p][m]
  PROVE  n = m
<1> DEFINE P == groupPartitionList[p]
<1>1. P \in SUBSET Group
  BY DEF groupPartitionList
<1>2. n[1] \in Group /\ m[1] \in Group /\ n[2] \in Nat /\ m[2] \in Nat
  BY NeuronFields
<1>3. lNId[p][n] = lStartN[p][n[1]] + n[2] /\ lNId[p][m] = lStartN[p][m[1]] + m[2]
  BY DEF lNId
<1>4. lStartN[p][n[1]] \in Nat /\ lStartN[p][m[1]] \in Nat
  BY <1>2, PartitionTypes
<1>5. ASSUME NEW g \in P, NEW h \in P, LocalBefore(p, g, h)
      PROVE  lStartN[p][g] + numN[g] <= lStartN[p][h]
  <2>1. \A k \in P : lStartN[p][k] =
          Cardinality({ x \in Neuron : x[1] \in P /\ LocalBefore(p, x[1], k) })
    BY <1>1 DEF lStartN
  <2> HIDE DEF P
  <2>2. Cardinality({ x \in Neuron : x[1] \in P /\ LocalBefore(p, x[1], g) }) + numN[g]
          <= Cardinality({ x \in Neuron : x[1] \in P /\ LocalBefore(p, x[1], h) })
    BY <1>1, <1>5, StartsApart
  <2> QED BY <2>1, <2>2
<1>6. n[1] # m[1] => \/ lStartN[p][n[1]] + numN[n[1]] <= lStartN[p][m[1]]
                     \/ lStartN[p][m[1]] + numN[m[1]] <= lStartN[p][n[1]]
  BY <1>2, <1>5, LocalOrder
<1>7. lStartN[p][n[1]] + n[2] = lStartN[p][m[1]] + m[2]
  BY <1>3
<1>8. n[1] = m[1] => lStartN[p][n[1]] = lStartN[p][m[1]]
  OBVIOUS
<1> QED
  BY <1>4, <1>6, <1>7, <1>8, IdsApart

(* No two neurons of the generators of a partition share a bit.             *)
LEMMA BitInjective ==
  ASSUME NEW n \in GenNeuron, NEW m \in GenNeuron, netId[n[1]] = netId[m[1]],
         Bit(n) = Bit(m)
  PROVE  n = m
<1> DEFINE p == netId[n[1]]
           P == { g \in SpikeGen : netId[g] = p }
<1>1. P \in SUBSET Group
  BY PartitionAssumption
<1>2. n \in Neuron /\ m \in Neuron /\ n[1] \in P /\ m[1] \in P
  BY DEF GenNeuron
<1>3. n[1] \in Group /\ m[1] \in Group /\ n[2] \in Nat /\ m[2] \in Nat
  BY <1>2, NeuronFields
<1>4. Noffset[n[1]] \in Nat /\ Noffset[m[1]] \in Nat
  BY <1>3, PartitionTypes
<1>5. ASSUME NEW g \in P, NEW h \in P, LocalBefore(p, g, h)
      PROVE  Noffset[g] + numN[g] <= Noffset[h]
  <2>1. ASSUME NEW k \in P
        PROVE  Noffset[k] =
                 Cardinality({ x \in Neuron : x[1] \in P /\ LocalBefore(p, x[1], k) })
    <3>1. k \in Group /\ netId[k] = p
      BY <1>1
    <3>2. Noffset[k] = Cardinality({ x \in GenNeuron : netId[x[1]] = p /\ LocalBefore(p, x[1], k) })
      BY <3>1 DEF Noffset
    <3>3. { x \in GenNeuron : netId[x[1]] = p /\ LocalBefore(p, x[1], k) }
            = { x \in Neuron : x[1] \in P /\ LocalBefore(p, x[1], k) }
      BY DEF GenNeuron
    <3> QED BY <3>2, <3>3
  <2> HIDE DEF P, p
  <2>2. Cardinality({ x \in Neuron : x[1] \in P /\ LocalBefore(p, x[1], g) }) + numN[g]
          <= Cardinality({ x \in Neuron : x[1] \in P /\ LocalBefore(p, x[1], h) })
    BY <1>1, <1>5, StartsApart
  <2> QED BY <2>1, <2>2
<1>6. n[1] # m[1] => \/ Noffset[n[1]] + numN[n[1]] <= Noffset[m[1]]
                     \/ Noffset[m[1]] + numN[m[1]] <= Noffset[n[1]]
  BY <1>2, <1>3, <1>5, LocalOrder
<1> QED
  BY <1>2, <1>4, <1>6, IdsApart DEF Bit

(* The local id of a neuron in any partition, from its global one.          *)
LEMMA GlobalToLocal ==
  ASSUME NEW q \in Part, NEW n \in Neuron
  PROVE  gNId(n) + GtoLOffset(q, n[1]) = lNId[q][n]
<1> DEFINE p == netId[n[1]]
<1>1. n[1] \in Group /\ n[2] \in Nat /\ p \in Part
  BY NeuronFields
<1>2. lStartN[p][n[1]] \in Nat /\ lStartN[q][n[1]] \in Nat /\ gStartN[n[1]] \in Nat
  BY <1>1, PartitionTypes
<1>3. lNId[p][n] = lStartN[p][n[1]] + n[2] /\ lNId[q][n] = lStartN[q][n[1]] + n[2]
  BY <1>1 DEF lNId
<1> QED
  BY <1>1, <1>2, <1>3 DEF gNId, GtoLOffset, LtoGOffset

(* The global ids of the neurons of a group are different.                  *)
LEMMA GlobalIdInjective ==
  ASSUME NEW n \in Neuron, NEW m \in Neuron, n[1] = m[1], gNId(n) = gNId(m)
  PROVE  n = m
<1>1. n = <<n[1], n[2]>> /\ m = <<m[1], m[2]>>
  BY DEF Neuron
<1> DEFINE p == netId[n[1]]
<1>2. n[1] \in Group /\ n[2] \in Nat /\ m[2] \in Nat /\ p \in Part
  BY NeuronFields
<1>3. lStartN[p][n[1]] \in Nat /\ gStartN[n[1]] \in Nat
  BY <1>2, PartitionTypes
<1>4. lNId[p][n] = lStartN[p][n[1]] + n[2] /\ lNId[p][m] = lStartN[p][n[1]] + m[2]
  BY <1>2 DEF lNId
<1>5. n[2] = m[2]
  BY <1>2, <1>3, <1>4 DEF gNId, LtoGOffset
<1> QED BY <1>1, <1>5

(* How many elements of S the function f puts before x.                     *)
Below(S, f, x) == Cardinality({ y \in S : f[y] < f[x] })

(* By it the elements of a part L of S are numbered from zero, without gaps.*)
Numbered(S, f, L) ==
  /\ \A x \in L : Below(S, f, x) \in Nat /\ Below(S, f, x) < Cardinality(L)
  /\ \A x, y \in L : Below(S, f, x) = Below(S, f, y) => x = y
  /\ \A k \in Nat : k < Cardinality(L) => \E x \in L : Below(S, f, x) = k

(* So they are if f tells the elements apart and L has the first of them.   *)
LEMMA Ranks ==
  ASSUME NEW S, IsFiniteSet(S), NEW f \in [S -> Int],
         \A x, y \in S : f[x] = f[y] => x = y,
         NEW L \in SUBSET S,
         \A x \in L, y \in S : f[y] < f[x] => y \in L
  PROVE  Numbered(S, f, L)
<1> DEFINE below(x) == { y \in S : f[y] < f[x] }
           c == Cardinality(L)
           rank == [x \in L |-> Cardinality(below(x))]
<1>1. IsFiniteSet(L) /\ c \in Nat
  BY FS_Subset, FS_CardinalityType
<1>2. ASSUME NEW x \in L
      PROVE  IsFiniteSet(below(x)) /\ Cardinality(below(x)) \in Nat /\ Cardinality(below(x)) < c
  <2>1. below(x) \subseteq L \ {x}
    <3>1. f[x] \in Int
      OBVIOUS
    <3> QED BY <3>1
  <2>2. IsFiniteSet(L \ {x}) /\ Cardinality(L \ {x}) = c - 1
    BY <1>1, FS_RemoveElement
  <2> HIDE DEF below
  <2>3. IsFiniteSet(below(x)) /\ Cardinality(below(x)) <= Cardinality(L \ {x})
    BY <2>1, <2>2, FS_Subset
  <2>4. Cardinality(below(x)) \in Nat
    BY <2>3, FS_CardinalityType
  <2> QED BY <1>1, <2>2, <2>3, <2>4
<1>3. ASSUME NEW x \in L, NEW y \in L, f[x] < f[y]
      PROVE  Cardinality(below(x)) # Cardinality(below(y))
  <2>1. f[x] \in Int /\ f[y] \in Int /\ \A z \in S : f[z] \in Int
    OBVIOUS
  <2>2. below(x) \subseteq below(y) /\ x \in below(y) /\ x \notin below(x)
    BY <1>3, <2>1
  <2>3. IsFiniteSet(below(y))
    BY <1>2
  <2> HIDE DEF below
  <2>4. below(x) # below(y)
    BY <2>2
  <2> QED BY <2>2, <2>3, <2>4, FS_Subset
<1>4. \A x, y \in L : rank[x] = rank[y] => x = y
  <2> SUFFICES ASSUME NEW x \in L, NEW y \in L, x # y
               PROVE  Cardinality(below(x)) # Cardinality(below(y))
    OBVIOUS
  <2>1. f[x] \in Int /\ f[y] \in Int /\ f[x] # f[y]
    OBVIOUS
  <2>2. f[x] < f[y] \/ f[y] < f[x]
    BY <2>1
  <2> HIDE DEF below
  <2> QED BY <1>3, <2>2
<1>5. IsFiniteSet(0 .. c - 1) /\ Cardinality(0 .. c - 1) = c
  <2> HIDE DEF c
  <2>1. c - 1 \in Int /\ 0 \in Int
    BY <1>1
  <2>2. IsFiniteSet(0 .. c - 1) /\ Cardinality(0 .. c - 1) = IF 0 > c - 1 THEN 0 ELSE c - 1 - 0 + 1
    BY ONLY <2>1, FS_Interval
  <2> QED BY <1>1, <2>2
<1>6. rank \in Injection(L, 0 .. c - 1)
  <2>1. \A x \in L : rank[x] \in 0 .. c - 1
    <3> HIDE DEF below, c
    <3> QED BY <1>1, <1>2
  <2> QED BY <1>4, <2>1 DEF Injection, IsInjective
<1>7. rank \in Surjection(L, 0 .. c - 1)
  <2> HIDE DEF rank, c
  <2>1. Cardinality(L) = c
    BY DEF c
  <2> QED BY <1>5, <1>6, <2>1, FS_Injection
<1>8. \A k \in Nat : k < c => \E x \in L : rank[x] = k
  <2> HIDE DEF rank, c
  <2>1. \A k \in 0 .. c - 1 : \E x \in L : rank[x] = k
    BY <1>7 DEF Surjection
  <2> QED BY <1>1, <2>1
<1>9. \A x \in L : rank[x] = Below(S, f, x)
  BY DEF Below
<1> HIDE DEF rank
<1>10. \A x \in L : Below(S, f, x) \in Nat /\ Below(S, f, x) < c
  <2> SUFFICES ASSUME NEW x \in L
               PROVE  Below(S, f, x) \in Nat /\ Below(S, f, x) < c
    OBVIOUS
  <2>1. Below(S, f, x) = Cardinality(below(x))
    BY DEF Below
  <2> HIDE DEF below, c
  <2> QED BY <1>2, <2>1
<1> HIDE DEF below
<1> QED BY <1>4, <1>8, <1>9, <1>10 DEF Numbered

(* A set of numbers has a least one.                                        *)
LEMMA LeastOf ==
  ASSUME NEW S \in SUBSET Nat, S # {}
  PROVE  \E x \in S : \A y \in S : x <= y
<1> DEFINE R == { ss \in Nat \X Nat : ss[1] < ss[2] }
<1>1. IsWellFoundedOn(R, Nat)
  BY NatLessThanWellFounded DEF OpToRel
<1>2. PICK x \in S : \A y \in S : <<y, x>> \notin R
  <2> HIDE DEF R
  <2> QED BY <1>1, WFMin
<1>3. ASSUME NEW y \in S
      PROVE  x <= y
  <2>1. ~(y < x)
    BY <1>2
  <2> QED BY <2>1
<1> QED BY <1>3

(* However many entries were taken out, the routing table has one for the   *)
(* partitions of each external connection.                                  *)
LEMMA EveryRouteListed ==
  ASSUME NEW c \in Connection, External(c)
  PROVE  \E r \in spikeRoutingTable : SameEnds(r, c)
<1> DEFINE S == { d \in Connection : External(d) /\ SameEnds(d, c) }
<1>1. S \in SUBSET Nat /\ c \in S
  BY PartitionAssumption DEF SameEnds
<1>2. PICK r \in S : \A d \in S : r <= d
  <2> HIDE DEF S
  <2> QED BY <1>1, LeastOf
<1>3. ASSUME NEW d \in Connection, External(d), RouteBefore(d, r), SameEnds(d, r)
      PROVE  FALSE
  <2>1. d \in S
    BY <1>3 DEF SameEnds
  <2>2. netId[grpSrc[d]] = netId[grpSrc[r]] /\ netId[grpSrc[d]] \in Nat
    BY <1>3, PartitionAssumption DEF SameEnds
  <2>3. d < r /\ d \in Nat /\ r \in Nat
    BY <1>1, <1>3, <2>2, PartitionAssumption DEF RouteBefore
  <2> QED BY <1>2, <2>1, <2>3
<1> QED BY <1>2, <1>3 DEF spikeRoutingTable

-----------------------------------------------------------------------------
(* The spikes a table is to hold.                                           *)

(* The two make up what there is, once all entries were served.             *)
LEMMA Gathered ==
  ASSUME NEW F, NEW p \in Part, NEW c, NEW t, NEW R \in SUBSET spikeRoutingTable
  PROVE  /\ Own(F, p, c, t) \union Fetched(F, p, c, t, R) \subseteq SpikesAt(F, p, c, t)
         /\ R = spikeRoutingTable =>
              Own(F, p, c, t) \union Fetched(F, p, c, t, R) = SpikesAt(F, p, c, t)
         /\ SpikesAt(F, p, c, t) \subseteq Carried(p, c)
         /\ Carried(p, c) \subseteq Neuron
         /\ \A n \in Carried(p, c) : n[1] \in groupPartitionList[p] /\ ClassOf[n[1]] = c
<1>1. \A n \in Neuron : netId[n[1]] = p => n[1] \in groupPartitionList[p]
  BY NeuronFields DEF groupPartitionList
<1>2. \A n \in Neuron : Routed(p, n[1]) <=>
        \E r \in spikeRoutingTable : SrcNet(r) = netId[n[1]] /\ DestNet(r) = p
  BY DEF Routed, SrcNet, DestNet
<1>3. Own(F, p, c, t) \subseteq SpikesAt(F, p, c, t)
  BY <1>1 DEF Own, SpikesAt, Carried
<1>4. Fetched(F, p, c, t, R) \subseteq SpikesAt(F, p, c, t)
  BY <1>2 DEF Fetched, SpikesAt, Carried
<1>5. ASSUME R = spikeRoutingTable, NEW n \in SpikesAt(F, p, c, t)
      PROVE  n \in Own(F, p, c, t) \union Fetched(F, p, c, t, R)
  BY <1>2, <1>5 DEF Own, Fetched, SpikesAt, Carried
<1> QED BY <1>3, <1>4, <1>5 DEF SpikesAt, Carried

(* The spikes of some milliseconds are no more than neurons times those.    *)
LEMMA SpikesCountedIn ==
  ASSUME NEW F \in SUBSET (Neuron \X Nat), NEW p, NEW c,
         NEW a \in Int, NEW b \in Int, a <= b
  PROVE  /\ IsFiniteSet(SpikesIn(F, p, c, a, b))
         /\ Cardinality(SpikesIn(F, p, c, a, b)) \in Nat
         /\ Cardinality(SpikesIn(F, p, c, a, b)) <= (b - a) * Cardinality(Neuron)
<1> DEFINE S == SpikesIn(F, p, c, a, b)
           T == a .. b - 1
<1>1. S \in SUBSET (Neuron \X T)
  <2> SUFFICES ASSUME NEW s \in S PROVE s \in Neuron \X T
    OBVIOUS
  <2>1. s = <<s[1], s[2]>> /\ s[1] \in Neuron /\ s[2] \in Nat /\ a <= s[2] /\ s[2] < b
    BY DEF SpikesIn
  <2> QED BY <2>1
<1>2. IsFiniteSet(T) /\ Cardinality(T) = b - a
  <2>1. IsFiniteSet(a .. b - 1) /\ Cardinality(a .. b - 1) = IF a > b - 1 THEN 0 ELSE b - 1 - a + 1
    <3>1. b - 1 \in Int
      OBVIOUS
    <3> QED BY <3>1, FS_Interval
  <2> QED BY <2>1
<1>3. IsFiniteSet(Neuron) /\ Cardinality(Neuron) \in Nat
  BY NeuronAssumption, FS_CardinalityType
<1> HIDE DEF S, T
<1>4. IsFiniteSet(Neuron \X T) /\ Cardinality(Neuron \X T) = Cardinality(Neuron) * Cardinality(T)
  BY <1>2, <1>3, FS_Product
<1>5. IsFiniteSet(S) /\ Cardinality(S) <= Cardinality(Neuron \X T)
  BY <1>1, <1>4, FS_Subset
<1>6. Cardinality(S) \in Nat
  BY <1>5, FS_CardinalityType
<1>7. Cardinality(S) <= Cardinality(Neuron) * (b - a)
  BY <1>2, <1>4, <1>5
<1>8. Cardinality(Neuron) * (b - a) = (b - a) * Cardinality(Neuron)
  <2> PICK k : k = b - a
    OBVIOUS
  <2>1. k \in Int
    OBVIOUS
  <2>2. \A x, y \in Int : x * y = y * x
    OBVIOUS
  <2> QED BY <1>3, <2>1, <2>2
<1> QED BY <1>5, <1>6, <1>7, <1>8 DEF S

(* Those up to b and those at b make those up to b + 1.                     *)
LEMMA SpikesSplit ==
  ASSUME NEW F \in SUBSET (Neuron \X Nat), NEW p \in Part, NEW c,
         NEW a \in Int, NEW b \in Int, a <= b,
         NEW N \in SUBSET SpikesAt(F, p, c, b)
  PROVE  Cardinality(SpikesIn(F, p, c, a, b)) + Cardinality(N)
           <= Cardinality(SpikesIn(F, p, c, a, b + 1))
<1> DEFINE S == SpikesIn(F, p, c, a, b)
           T == SpikesIn(F, p, c, a, b + 1)
           P == { <<n, b>> : n \in N }
           f == [n \in N |-> <<n, b>>]
<1> SUFFICES Cardinality(S) + Cardinality(N) <= Cardinality(T)
  OBVIOUS
<1>1. N \in SUBSET Neuron /\ \A n \in N : n \in Carried(p, c) /\ <<n, b>> \in F
  BY DEF SpikesAt, Carried
<1>2. IsFiniteSet(N) /\ Cardinality(N) \in Nat
  BY <1>1, NeuronsCounted
<1>3. f \in Surjection(N, P) /\ f \in Injection(N, P)
  BY DEF Surjection, Injection, IsInjective
<1>4. P \subseteq T
  <2> SUFFICES ASSUME NEW n \in N PROVE <<n, b>> \in T
    OBVIOUS
  <2> QED BY <1>1 DEF SpikesIn
<1>5. S \subseteq T /\ S \cap P = {}
  <2>1. \A s \in F : s[2] \in Nat
    OBVIOUS
  <2>2. \A s \in S : s[2] \in Nat /\ a <= s[2] /\ s[2] < b /\ s[1] \in Carried(p, c) /\ s \in F
    BY <2>1 DEF SpikesIn
  <2>3. \A s \in S : s \in T
    BY <2>2 DEF SpikesIn
  <2>4. \A s \in P : s[2] = b
    OBVIOUS
  <2>5. \A s \in S : s \notin P
    BY <2>2, <2>4
  <2> HIDE DEF P, S, T
  <2> QED BY <2>3, <2>5
<1>6. IsFiniteSet(S) /\ IsFiniteSet(T) /\ Cardinality(S) \in Nat /\ Cardinality(T) \in Nat
  BY SpikesCountedIn
<1> HIDE DEF S, T, P, f
<1>7. IsFiniteSet(P) /\ Cardinality(P) = Cardinality(N)
  BY <1>2, <1>3, FS_Surjection
<1>8. Cardinality(S \union P) = Cardinality(S) + Cardinality(P) - Cardinality(S \cap P)
  BY <1>6, <1>7, FS_Union
<1>9. Cardinality(S \cap P) = 0
  BY <1>5, FS_EmptySet
<1>10. Cardinality(S \union P) <= Cardinality(T)
  BY <1>4, <1>5, <1>6, FS_Subset
<1> QED BY <1>2, <1>6, <1>7, <1>8, <1>9, <1>10

(* The table has room for every spike there can be; and for those that a    *)
(* partition logs itself.                                                   *)
LEMMA SlotBounds ==
  /\ Slot \subseteq Nat
  /\ \A k \in Slot : \A l \in Nat : l <= k => l \in Slot
  /\ \A i \in 0 .. MsPerSec + maxDelay : \A k \in Nat : k <= i * Cardinality(Neuron) => k \in Slot
  /\ \A p \in Part, c \in Class : maxSpikes[p][c] \in Slot
<1> DEFINE n == Cardinality(Neuron)
           top == (MsPerSec + maxDelay) * n
<1>1. n \in Nat /\ MsPerSec \in Nat /\ maxDelay \in Nat
  BY NeuronsCounted, PartitionTypes
<1>2. \A a, b \in Nat : a * b \in Nat
  BY SMT
<1>3. \A a, b, d \in Nat : a <= b => a * d <= b * d
  BY SMT
<1>4. \A a, b, d \in Nat : a <= b => d * a <= d * b
  BY SMT
<1>5. top \in Nat
  BY <1>1, <1>2
<1>6. \A i \in 0 .. MsPerSec + maxDelay : i * n <= top /\ i * n \in Nat
  <2> SUFFICES ASSUME NEW i \in 0 .. MsPerSec + maxDelay PROVE i * n <= top /\ i * n \in Nat
    OBVIOUS
  <2>1. i \in Nat /\ MsPerSec + maxDelay \in Nat /\ i <= MsPerSec + maxDelay
    BY <1>1
  <2> QED BY <1>1, <1>2, <1>3, <2>1
<1>7. ASSUME NEW p \in Part, NEW c \in Class
      PROVE  maxSpikes[p][c] \in Nat /\ maxSpikes[p][c] <= top
  <2> DEFINE S == { x \in Neuron : x[1] \in groupPartitionList[p] /\ ClassOf[x[1]] = c }
             s == Cardinality(S)
  <2>1. maxSpikes[p][c] = MaxRate * s
    BY DEF maxSpikes
  <2>2. s \in Nat /\ s <= n
    <3>1. S \in SUBSET Neuron
      OBVIOUS
    <3> HIDE DEF S
    <3> QED BY <3>1, NeuronsCounted, NeuronAssumption, FS_Subset
  <2>3. MaxRate \in Nat /\ MaxRate <= MsPerSec + maxDelay /\ MsPerSec + maxDelay \in Nat
    BY <1>1, KernelAssumption
  <2> HIDE DEF s, n
  <2>4. MaxRate * s \in Nat /\ MaxRate * s <= MaxRate * n /\ MaxRate * n <= (MsPerSec + maxDelay) * n
    BY <1>1, <1>2, <1>3, <1>4, <2>2, <2>3
  <2>5. MaxRate * n \in Nat
    BY <1>1, <1>2, <2>3
  <2> QED BY <1>5, <2>1, <2>4, <2>5
<1> HIDE DEF top, n
<1>8. Slot = 0 .. top
  BY DEF Slot, top, n
<1>9. \A i \in 0 .. MsPerSec + maxDelay : \A k \in Nat : k <= i * n => k \in Slot
  BY <1>5, <1>6, <1>8
<1> QED BY <1>5, <1>7, <1>8, <1>9 DEF n

-----------------------------------------------------------------------------
(* Entries that are kept.                                                   *)

Local(p) == { n \in Neuron : n[1] \in groupPartitionList[p] }

(* Entries that are the same are kept.                                      *)
LEMMA KeptSame ==
  ASSUME NEW p, NEW ft, NEW ft2, NEW a, NEW b, NEW N, Kept(p, ft, a, b, N),
         \A k \in Slot : a <= k /\ k < b => ft2[k] = ft[k]
  PROVE  Kept(p, ft2, a, b, N)
BY DEF Kept

(* No entries hold no spikes.                                               *)
LEMMA KeptNone ==
  ASSUME NEW p, NEW ft, NEW a \in Int
  PROVE  Kept(p, ft, a, a, {})
BY SlotBounds DEF Kept

(* What is appended does not disturb, if its neurons are others.            *)
LEMMA KeptAppended ==
  ASSUME NEW p \in Part, NEW ft, NEW a \in Int, NEW b \in Int, NEW c \in Int,
         a <= b, b <= c,
         NEW N \in SUBSET Local(p), NEW R \in SUBSET Local(p),
         Kept(p, ft, a, b, N), Kept(p, ft, b, c, R),
         \A n \in N \cap R : netId[n[1]] # p /\ ~RoutesOnce
  PROVE  Kept(p, ft, a, c, N \union R)
<1>1. Slot \subseteq Int
  BY SlotBounds
<1>2. \A n, m \in Local(p) : lNId[p][n] = lNId[p][m] => n = m
  BY LocalIdInjective DEF Local
<1>3. ASSUME NEW k \in Slot, a <= k, k < c
      PROVE  \E n \in N \union R : ft[k] = lNId[p][n]
  <2>1. k < b \/ b <= k
    BY <1>1
  <2> QED BY <1>3, <2>1 DEF Kept
<1>4. ASSUME NEW n \in N, netId[n[1]] = p \/ RoutesOnce
      PROVE  \E k \in Slot :
                /\ a <= k /\ k < c /\ ft[k] = lNId[p][n]
                /\ \A l \in Slot : a <= l /\ l < c /\ ft[l] = lNId[p][n] => l = k
  <2>1. PICK k \in Slot :
           /\ a <= k /\ k < b /\ ft[k] = lNId[p][n]
           /\ \A l \in Slot : a <= l /\ l < b /\ ft[l] = lNId[p][n] => l = k
    BY <1>4 DEF Kept
  <2>2. ASSUME NEW l \in Slot, b <= l, l < c, ft[l] = lNId[p][n]
        PROVE  FALSE
    <3>1. PICK m \in R : ft[l] = lNId[p][m]
      BY <2>2 DEF Kept
    <3>2. m = n
      BY <1>2, <2>2, <3>1
    <3> QED BY <1>4, <3>2
  <2>3. k < c
    BY <1>1, <2>1
  <2> WITNESS k \in Slot
  <2> SUFFICES ASSUME NEW l \in Slot, a <= l, l < c, ft[l] = lNId[p][n]
               PROVE  l = k
    BY <2>1, <2>3
  <2>4. l < b \/ b <= l
    BY <1>1
  <2> QED BY <2>1, <2>2, <2>4
<1>5. ASSUME NEW n \in R, netId[n[1]] = p \/ RoutesOnce
      PROVE  \E k \in Slot :
                /\ a <= k /\ k < c /\ ft[k] = lNId[p][n]
                /\ \A l \in Slot : a <= l /\ l < c /\ ft[l] = lNId[p][n] => l = k
  <2>1. PICK k \in Slot :
           /\ b <= k /\ k < c /\ ft[k] = lNId[p][n]
           /\ \A l \in Slot : b <= l /\ l < c /\ ft[l] = lNId[p][n] => l = k
    BY <1>5 DEF Kept
  <2>2. ASSUME NEW l \in Slot, a <= l, l < b, ft[l] = lNId[p][n]
        PROVE  FALSE
    <3>1. PICK m \in N : ft[l] = lNId[p][m]
      BY <2>2 DEF Kept
    <3>2. m = n
      BY <1>2, <2>2, <3>1
    <3> QED BY <1>5, <3>2
  <2>3. a <= k
    BY <1>1, <2>1
  <2> WITNESS k \in Slot
  <2> SUFFICES ASSUME NEW l \in Slot, a <= l, l < c, ft[l] = lNId[p][n]
               PROVE  l = k
    BY <2>1, <2>3
  <2>4. l < b \/ b <= l
    BY <1>1
  <2> QED BY <2>1, <2>2, <2>4
<1> QED BY <1>3, <1>4, <1>5 DEF Kept

(* Entries that are moved to the front together stay what they are.         *)
LEMMA KeptMoved ==
  ASSUME NEW p, NEW ft, NEW ft2, NEW a \in Int, NEW b \in Int, NEW d \in Nat, NEW N,
         d <= a, Kept(p, ft, a, b, N),
         \A k \in Slot : a - d <= k /\ k < b - d => k + d \in Slot /\ ft2[k] = ft[k + d]
  PROVE  Kept(p, ft2, a - d, b - d, N)
<1>1. Slot \subseteq Nat
  BY SlotBounds
<1>2. ASSUME NEW k \in Slot, a - d <= k, k < b - d
      PROVE  \E n \in N : ft2[k] = lNId[p][n]
  <2>1. k + d \in Slot /\ a <= k + d /\ k + d < b
    BY <1>1, <1>2
  <2> QED BY <1>2, <2>1 DEF Kept
<1>3. ASSUME NEW n \in N, netId[n[1]] = p \/ RoutesOnce
      PROVE  \E k \in Slot :
                /\ a - d <= k /\ k < b - d /\ ft2[k] = lNId[p][n]
                /\ \A l \in Slot : a - d <= l /\ l < b - d /\ ft2[l] = lNId[p][n] => l = k
  <2>1. PICK k \in Slot :
           /\ a <= k /\ k < b /\ ft[k] = lNId[p][n]
           /\ \A l \in Slot : a <= l /\ l < b /\ ft[l] = lNId[p][n] => l = k
    BY <1>3 DEF Kept
  <2>2. k - d \in Nat /\ k - d <= k /\ a - d <= k - d /\ k - d < b - d /\ (k - d) + d = k
    BY <1>1, <2>1
  <2>3. k - d \in Slot
    BY <2>2, SlotBounds
  <2>4. ft2[k - d] = lNId[p][n]
    BY <2>1, <2>2, <2>3
  <2> WITNESS k - d \in Slot
  <2> SUFFICES ASSUME NEW l \in Slot, a - d <= l, l < b - d, ft2[l] = lNId[p][n]
               PROVE  l = k - d
    BY <2>2, <2>4
  <2>5. l + d \in Slot /\ ft[l + d] = lNId[p][n] /\ a <= l + d /\ l + d < b
    BY <1>1
  <2>6. l + d = k
    BY <2>1, <2>5
  <2> QED BY <1>1, <2>6
<1> QED BY <1>2, <1>3 DEF Kept

-----------------------------------------------------------------------------
(* The clock.                                                               *)

(* The entry of the time table that is being written is that of the         *)
(* millisecond that is being worked on, also while a second ends.           *)
LEMMA Clock ==
  ASSUME TypeOK, PastInv
  PROVE  /\ secondStart \in Nat /\ simTime = secondStart + simTimeMs /\ simTimeMs \in Nat
         /\ Base \in Int /\ simTime \in Nat /\ Now \in Nat
         /\ Cur \in maxDelay .. MsPerSec + maxDelay
         /\ Done \in maxDelay .. MsPerSec + maxDelay /\ Done <= Cur
         /\ Base + Cur - maxDelay = IF Begun THEN simTime + 1 ELSE simTime
         /\ Begun => Cur > maxDelay
         /\ \A c : FirstOf(c) \in {0, maxDelay}
<1>1. secondStart \in Nat
  <2>1. \A a, b \in Nat : a * b \in Nat
    BY SMT
  <2>2. simTimeSec \in Nat /\ MsPerSec \in Nat
    BY PartitionTypes DEF TypeOK
  <2> QED BY <2>1, <2>2 DEF secondStart
<1>2. simTimeMs \in 0 .. MsPerSec - 1
  BY DEF TypeOK
<1>3. maxDelay \in Nat \ {0} /\ MsPerSec \in Nat \ {0} /\ maxDelay < MsPerSec
  BY PartitionTypes
<1>4. simTime = secondStart + simTimeMs
  BY DEF simTime, secondStart
<1> HIDE DEF simTime, secondStart
<1>5. /\ phase = "second" => simTimeMs = 0 /\ Cur = MsPerSec + maxDelay /\ Base = secondStart - MsPerSec
      /\ phase # "second" /\ Begun => Cur = simTimeMs + maxDelay + 1 /\ Base = secondStart
      /\ phase # "second" /\ ~Begun => Cur = simTimeMs + maxDelay /\ Base = secondStart
      /\ phase = "second" => ~Begun
      /\ Done = Cur \/ (Begun /\ Done = Cur - 1)
      /\ Now = simTime \/ Now = simTime + 1
  <2>1. phase = "second" => simTimeMs = 0 /\ Cur = MsPerSec + maxDelay /\ Base = secondStart - MsPerSec
    BY DEF PastInv, Cur, Base
  <2>2. /\ phase # "second" /\ Begun => Cur = simTimeMs + maxDelay + 1 /\ Base = secondStart
        /\ phase # "second" /\ ~Begun => Cur = simTimeMs + maxDelay /\ Base = secondStart
    BY DEF Cur, Base
  <2>3. phase = "second" => ~Begun
    BY DEF Begun
  <2>4. Done = Cur \/ (Begun /\ Done = Cur - 1)
    BY DEF Done, Routing, Begun
  <2>5. Now = simTime + 0 \/ Now = simTime + 1
    BY DEF Now
  <2>6. simTime + 0 = simTime
    BY <1>1, <1>2, <1>4
  <2> QED BY <2>1, <2>2, <2>3, <2>4, <2>5, <2>6
<1>6. \A c : FirstOf(c) \in {0, maxDelay}
  BY DEF FirstOf
<1> HIDE DEF Cur, Base, Begun, Routing, Done, Now
<1>7. CASE phase = "second"
  BY <1>1, <1>2, <1>3, <1>4, <1>5, <1>6, <1>7
<1>8. CASE phase # "second"
  BY <1>1, <1>2, <1>3, <1>4, <1>5, <1>6, <1>8
<1> QED BY <1>7, <1>8

(* A millisecond later.                                                     *)
LEMMA ClockTicks ==
  ASSUME TypeOK, AdvanceTime
  PROVE  /\ simTime' = simTime + 1
         /\ \/ /\ simTimeMs' = 0 /\ simTimeMs + 1 = MsPerSec /\ simTimeSec' = simTimeSec + 1
               /\ secondStart' = secondStart + MsPerSec /\ phase' = "second"
            \/ /\ simTimeMs' = simTimeMs + 1 /\ simTimeMs + 1 < MsPerSec /\ simTimeSec' = simTimeSec
               /\ secondStart' = secondStart /\ phase' \in {"stop", "schedule"}
<1>1. simTimeMs \in 0 .. MsPerSec - 1 /\ simTimeSec \in Nat /\ MsPerSec \in Nat
  BY PartitionTypes DEF TypeOK
<1>2. \A a, b \in Nat : (a + 1) * b = a * b + b /\ a * b \in Nat
  BY SMT
<1>3. simTime = secondStart + simTimeMs /\ simTime' = secondStart' + simTimeMs'
  BY DEF simTime, secondStart
<1>4. secondStart = simTimeSec * MsPerSec /\ secondStart' = simTimeSec' * MsPerSec
  BY DEF secondStart
<1>5. phase' = IF simTimeMs' = 0 THEN "second" ELSE Continue
  BY DEF AdvanceTime
<1>6. Continue \in {"stop", "schedule"}
  BY DEF Continue
<1>7. simTimeMs' = NextMs /\ simTimeSec' = IF simTimeMs' = 0 THEN simTimeSec + 1 ELSE simTimeSec
  BY DEF AdvanceTime
<1>8. CASE simTimeMs + 1 = MsPerSec
  <2>1. simTimeMs' = 0 /\ simTimeSec' = simTimeSec + 1
    BY <1>7, <1>8 DEF NextMs
  <2>2. secondStart' = secondStart + MsPerSec /\ secondStart \in Nat
    BY <1>1, <1>2, <1>4, <2>1
  <2> HIDE DEF simTime, secondStart
  <2> QED BY <1>1, <1>3, <1>5, <1>8, <2>1, <2>2
<1>9. CASE simTimeMs + 1 # MsPerSec
  <2>1. simTimeMs' = simTimeMs + 1 /\ simTimeMs' # 0
    BY <1>1, <1>7, <1>9 DEF NextMs
  <2>2. simTimeSec' = simTimeSec
    BY <1>7, <2>1
  <2>3. secondStart' = secondStart /\ secondStart \in Nat
    BY <1>1, <1>2, <1>4, <2>2
  <2> HIDE DEF simTime, secondStart
  <2> QED BY <1>1, <1>3, <1>5, <1>6, <1>9, <2>1, <2>2, <2>3
<1> QED BY <1>8, <1>9

(* Where the clock stands, by the phase.                                    *)
Standing == phase \in {"idle", "schedule", "generate", "fire", "time", "stop"}

WhereFacts ==
  /\ Standing => /\ ~Begun /\ ~Routing /\ Base = secondStart /\ Done = Cur
                 /\ Cur = simTimeMs + maxDelay
                 /\ Now = IF phase = "time" THEN simTime + 1 ELSE simTime + 0
  /\ Begun => /\ ~Standing /\ Base = secondStart /\ Cur = simTimeMs + maxDelay + 1
              /\ Now = simTime + 1
  /\ Routing => Begun /\ Done = Cur - 1
  /\ phase \in {"deliver", "advance"} => Begun /\ ~Routing /\ Done = Cur
  /\ phase = "second" => /\ ~Begun /\ ~Routing /\ Base = secondStart - MsPerSec
                         /\ Cur = MsPerSec + maxDelay /\ Done = Cur /\ Now = simTime + 0

(* Each phase is where the invariants say it is.                            *)
LEMMA WhereIs == WhereFacts
<1>1. /\ Standing => ~Begun /\ ~Routing /\ phase # "second"
      /\ Begun => ~Standing /\ phase # "second" /\ phase # "time"
      /\ Routing => Begun
      /\ phase \in {"deliver", "advance"} => Begun /\ ~Routing
      /\ phase = "second" => ~Begun /\ ~Routing /\ phase # "time"
  BY DEF Standing, Begun, Routing
<1>2. /\ phase # "second" => Base = secondStart
      /\ phase = "second" => Base = secondStart - MsPerSec /\ Cur = MsPerSec + maxDelay
      /\ phase # "second" /\ Begun => Cur = simTimeMs + maxDelay + 1
      /\ phase # "second" /\ ~Begun => Cur = simTimeMs + maxDelay
      /\ Routing => Done = Cur - 1
      /\ ~Routing => Done = Cur
      /\ phase = "time" \/ Begun => Now = simTime + 1
      /\ ~(phase = "time" \/ Begun) => Now = simTime + 0
  BY DEF Base, Cur, Done, Now
<1> HIDE DEF Standing, Begun, Routing, Base, Cur, Done, Now
<1> QED BY <1>1, <1>2 DEF WhereFacts

(* What a step does to them.                                                *)
Unmoved ==
  /\ simTime' = simTime /\ secondStart' = secondStart /\ simTimeMs' = simTimeMs
  /\ Base' = Base /\ Cur' = Cur

(* What each step does to the clock: only AdvanceTime moves it,             *)
(* UpdateTimingTable is when the entry of the time table moves on, and      *)
(* FinishSecond moves both back by a second (advSimStep, runNetwork).       *)
LEMMA Movement ==
  ASSUME TypeOK, PastInv
  PROVE  /\ \A d \in Durations : RunNetwork(d) => Unmoved /\ Standing /\ Standing'
         /\ Schedule => Unmoved /\ Standing /\ Standing'
         /\ \A p \in Part : ClearBits(p) \/ FillBits(p) \/ CopyBits(p) => Unmoved /\ Standing /\ Standing'
         /\ StepBuffer => Unmoved /\ Standing /\ Standing'
         /\ FindFiring => Unmoved /\ Standing /\ Standing'
         /\ FinishRun => Unmoved /\ Standing /\ Standing'
         /\ UpdateTimingTable =>
              /\ simTime' = simTime /\ secondStart' = secondStart /\ simTimeMs' = simTimeMs
              /\ Base' = Base /\ Cur' = Cur + 1 /\ Begun' /\ Standing
         /\ \A r \in routes : RouteFork(r) => Unmoved /\ Routing /\ Routing'
         /\ \A th \in threads : ConvertRead(th) \/ ConvertWrite(th) => Unmoved /\ Routing /\ Routing'
         /\ RouteJoin => Unmoved /\ Begun' /\ Routing
         /\ DoCurrentUpdate => Unmoved /\ Begun /\ Begun' /\ ~Routing /\ ~Routing'
         /\ AdvanceTime =>
              /\ simTime' = simTime + 1 /\ Begun /\ ~Routing /\ ~Begun' /\ ~Routing'
              /\ Base' = Base /\ Cur' = Cur /\ phase' # "time"
         /\ FinishSecond =>
              /\ simTime' = simTime /\ secondStart' = secondStart /\ simTimeMs' = simTimeMs
              /\ Base' = Base + MsPerSec /\ Cur' = maxDelay /\ Standing' /\ phase' # "time"
<1>1. /\ \A d \in Durations : RunNetwork(d) => phase = "idle" /\ phase' = "schedule"
      /\ Schedule => phase = "schedule" /\ phase' = "generate"
      /\ \A p \in Part : ClearBits(p) \/ FillBits(p) \/ CopyBits(p) => phase = "generate" /\ phase' = "generate"
      /\ StepBuffer => phase = "generate" /\ phase' = "fire"
      /\ FindFiring => phase = "fire" /\ phase' = "time"
      /\ FinishRun => phase = "stop" /\ phase' = "idle"
      /\ UpdateTimingTable => phase = "time" /\ phase' \in {"deliver", "route"}
      /\ \A r \in routes : RouteFork(r) => phase = "route" /\ phase' = "convert"
      /\ \A th \in threads : ConvertRead(th) \/ ConvertWrite(th) => phase = "convert" /\ phase' = "convert"
      /\ RouteJoin => phase = "convert" /\ phase' \in {"deliver", "route"}
      /\ DoCurrentUpdate => phase = "deliver" /\ phase' = "advance"
      /\ AdvanceTime => phase = "advance"
      /\ FinishSecond => phase = "second" /\ phase' \in {"stop", "schedule"}
  BY DEF RunNetwork, Schedule, ClearBits, FillBits, CopyBits, bitsUnchanged, StepBuffer, FindFiring,
         FinishRun, UpdateTimingTable, RouteFork, ConvertRead, ConvertWrite, convertUnchanged,
         RouteJoin, DoCurrentUpdate, AdvanceTime, FinishSecond
<1>2. /\ \A d \in Durations : RunNetwork(d) => UNCHANGED <<simTimeMs, simTimeSec>>
      /\ Schedule => UNCHANGED <<simTimeMs, simTimeSec>>
      /\ \A p \in Part : ClearBits(p) \/ FillBits(p) \/ CopyBits(p) => UNCHANGED <<simTimeMs, simTimeSec>>
      /\ StepBuffer => UNCHANGED <<simTimeMs, simTimeSec>>
      /\ FindFiring => UNCHANGED <<simTimeMs, simTimeSec>>
      /\ FinishRun => UNCHANGED <<simTimeMs, simTimeSec>>
      /\ UpdateTimingTable => UNCHANGED <<simTimeMs, simTimeSec>>
      /\ \A r \in routes : RouteFork(r) => UNCHANGED <<simTimeMs, simTimeSec>>
      /\ \A th \in threads : ConvertRead(th) \/ ConvertWrite(th) => UNCHANGED <<simTimeMs, simTimeSec>>
      /\ RouteJoin => UNCHANGED <<simTimeMs, simTimeSec>>
      /\ DoCurrentUpdate => UNCHANGED <<simTimeMs, simTimeSec>>
      /\ FinishSecond => UNCHANGED <<simTimeMs, simTimeSec>>
  BY DEF RunNetwork, Schedule, ClearBits, FillBits, CopyBits, bitsUnchanged, StepBuffer, FindFiring,
         FinishRun, UpdateTimingTable, RouteFork, ConvertRead, ConvertWrite, convertUnchanged,
         RouteJoin, DoCurrentUpdate, AdvanceTime, FinishSecond
<1>3. UNCHANGED <<simTimeMs, simTimeSec>> =>
        simTime' = simTime /\ secondStart' = secondStart /\ simTimeMs' = simTimeMs
  BY DEF simTime, secondStart
<1> DEFINE Still == simTime' = simTime /\ secondStart' = secondStart /\ simTimeMs' = simTimeMs
<1>4. /\ Standing => Base = secondStart /\ Cur = simTimeMs + maxDelay
      /\ Standing' => Base' = secondStart' /\ Cur' = simTimeMs' + maxDelay
      /\ Begun => Base = secondStart /\ Cur = simTimeMs + maxDelay + 1
      /\ Begun' => Base' = secondStart' /\ Cur' = simTimeMs' + maxDelay + 1
      /\ Routing => Begun
      /\ Routing' => Begun'
      /\ phase = "second" => Base = secondStart - MsPerSec /\ Cur = MsPerSec + maxDelay
      /\ phase' = "second" => Base' = secondStart' - MsPerSec /\ Cur' = MsPerSec + maxDelay
    <2>1. /\ Standing => Base = secondStart /\ Cur = simTimeMs + maxDelay
          /\ Begun => Base = secondStart /\ Cur = simTimeMs + maxDelay + 1
          /\ Routing => Begun
          /\ phase = "second" => Base = secondStart - MsPerSec /\ Cur = MsPerSec + maxDelay
      BY WhereIs DEF WhereFacts
    <2>2. /\ Standing' => Base' = secondStart' /\ Cur' = simTimeMs' + maxDelay
          /\ Begun' => Base' = secondStart' /\ Cur' = simTimeMs' + maxDelay + 1
          /\ Routing' => Begun'
          /\ phase' = "second" => Base' = secondStart' - MsPerSec /\ Cur' = MsPerSec + maxDelay
      <3>1. WhereFacts'
        BY WhereIs, PTL
      <3> QED BY <3>1 DEF WhereFacts
    <2> QED BY <2>1, <2>2
<1>5. /\ phase \in {"idle", "schedule", "generate", "fire", "time", "stop"} => Standing
      /\ phase' \in {"idle", "schedule", "generate", "fire", "time", "stop"} => Standing'
      /\ phase \in {"route", "convert"} => Routing /\ Begun
      /\ phase' \in {"route", "convert"} => Routing' /\ Begun'
      /\ phase \in {"deliver", "advance"} => Begun /\ ~Routing
      /\ phase' \in {"deliver", "advance"} => Begun' /\ ~Routing'
      /\ phase' \in {"second", "stop", "schedule"} => ~Begun' /\ ~Routing'
  BY DEF Standing, Routing, Begun
<1>6. Still /\ Standing /\ Standing' => Unmoved
  BY <1>4 DEF Unmoved
<1>7. Still /\ Begun /\ Begun' => Unmoved
  BY <1>4 DEF Unmoved
<1>8. secondStart \in Nat /\ simTimeMs \in Nat /\ maxDelay \in Nat /\ MsPerSec \in Nat
  BY Clock, PartitionTypes
<1>9. UpdateTimingTable => Base' = Base /\ Cur' = Cur + 1 /\ Begun' /\ Standing
  <2> HAVE UpdateTimingTable
  <2>1. Standing /\ Begun' /\ Still
    BY <1>1, <1>2, <1>3, <1>5
  <2> HIDE DEF Standing, Begun, Base, Cur, secondStart
  <2> QED BY <1>4, <1>8, <2>1
<1>10. AdvanceTime =>
         /\ simTime' = simTime + 1 /\ Begun /\ ~Routing /\ ~Begun' /\ ~Routing'
         /\ Base' = Base /\ Cur' = Cur /\ phase' # "time"
  <2> HAVE AdvanceTime
  <2>1. Begun /\ ~Routing
    BY <1>1, <1>5
  <2>2. phase' \in {"second", "stop", "schedule"}
    BY ClockTicks
  <2>3. ~Begun' /\ ~Routing' /\ phase' # "time"
    BY <1>5, <2>2
  <2>4. Base' = Base /\ Cur' = Cur
    <3>1. CASE /\ simTimeMs' = 0 /\ simTimeMs + 1 = MsPerSec /\ secondStart' = secondStart + MsPerSec
               /\ phase' = "second"
      <4> HIDE DEF Base, Cur, Begun, secondStart
      <4> QED BY <1>4, <1>8, <2>1, <3>1
    <3>2. CASE /\ simTimeMs' = simTimeMs + 1 /\ secondStart' = secondStart
               /\ phase' \in {"stop", "schedule"}
      <4>1. Standing'
        BY <1>5, <3>2
      <4> HIDE DEF Base, Cur, Begun, Standing, secondStart
      <4> QED BY <1>4, <1>8, <2>1, <3>2, <4>1
    <3> QED BY <3>1, <3>2, ClockTicks
  <2> QED BY <2>1, <2>3, <2>4, ClockTicks
<1>11. FinishSecond =>
         /\ Base' = Base + MsPerSec /\ Cur' = maxDelay /\ Standing' /\ phase' # "time"
  <2> HAVE FinishSecond
  <2>1. phase = "second" /\ phase' \in {"stop", "schedule"} /\ Still
    BY <1>1, <1>2, <1>3
  <2>2. simTimeMs = 0
    BY <2>1 DEF PastInv
  <2>3. Standing'
    BY <1>5, <2>1
  <2> HIDE DEF Base, Cur, Standing, secondStart
  <2> QED BY <1>4, <1>8, <2>1, <2>2, <2>3
<1> HIDE DEF Standing, Begun, Routing, Unmoved
<1>12. /\ \A d \in Durations : RunNetwork(d) => Unmoved /\ Standing /\ Standing'
       /\ Schedule => Unmoved /\ Standing /\ Standing'
       /\ \A p \in Part : ClearBits(p) \/ FillBits(p) \/ CopyBits(p) => Unmoved /\ Standing /\ Standing'
       /\ StepBuffer => Unmoved /\ Standing /\ Standing'
       /\ FindFiring => Unmoved /\ Standing /\ Standing'
       /\ FinishRun => Unmoved /\ Standing /\ Standing'
  BY <1>1, <1>2, <1>3, <1>5, <1>6
<1>13. /\ \A r \in routes : RouteFork(r) => Unmoved /\ Routing /\ Routing'
       /\ \A th \in threads : ConvertRead(th) \/ ConvertWrite(th) => Unmoved /\ Routing /\ Routing'
       /\ RouteJoin => Unmoved /\ Begun' /\ Routing
       /\ DoCurrentUpdate => Unmoved /\ Begun /\ Begun' /\ ~Routing /\ ~Routing'
  BY <1>1, <1>2, <1>3, <1>5, <1>7
<1> QED
  BY <1>2, <1>3, <1>9, <1>10, <1>11, <1>12, <1>13

(* The steps, in the form in which they are used below: a condition that    *)
(* every one of them keeps is kept.                                         *)
LEMMA PastStep ==
  TypeOK /\ PastInv /\ [Next]_vars => PastInv'
<1> SUFFICES ASSUME TypeOK, PastInv, [Next]_vars PROVE PastInv'
  OBVIOUS
<1>0. \A s \in fired : s[2] \in Nat /\ s[2] < Now
  BY DEF PastInv, TypeOK
<1>1. Now \in Nat /\ simTime \in Nat /\ simTimeMs \in Nat
  BY Clock
<1>a. /\ Standing => Now = IF phase = "time" THEN simTime + 1 ELSE simTime + 0
      /\ Begun => Now = simTime + 1
      /\ Routing => Begun
      /\ phase = "second" => Now = simTime + 0
  BY WhereIs DEF WhereFacts
<1>b. /\ Standing' => Now' = IF phase' = "time" THEN simTime' + 1 ELSE simTime' + 0
      /\ Begun' => Now' = simTime' + 1
      /\ Routing' => Begun'
      /\ phase' = "second" => Now' = simTime' + 0
  <2>1. WhereFacts'
    BY WhereIs, PTL
  <2> QED BY <2>1 DEF WhereFacts
<1>c. /\ Standing => ~Begun /\ phase # "second"
      /\ Begun => phase # "second"
      /\ (Standing => ~Begun /\ phase # "second")'
      /\ (Begun => phase # "second")'
  BY DEF Standing, Begun
<1>2. ASSUME fired' = fired, Unmoved, phase # "time", phase' # "time",
             (Standing /\ Standing') \/ (Begun /\ Begun')
      PROVE  PastInv'
  <2>1. phase' # "second"
    BY <1>2, <1>c
  <2>2. Now' = Now
    <3> HIDE DEF Now, Standing, Begun, simTime
    <3> QED BY <1>1, <1>2, <1>a, <1>b DEF Unmoved
  <2> QED BY <1>0, <1>2, <2>1, <2>2 DEF PastInv
<1>3. ASSUME NEW d \in Durations, RunNetwork(d) PROVE PastInv'
  <2>1. fired' = fired /\ phase = "idle" /\ phase' = "schedule"
    BY <1>3 DEF RunNetwork
  <2> QED BY <1>2, <1>3, <2>1, Movement
<1>4. ASSUME Schedule PROVE PastInv'
  <2>1. fired' = fired /\ phase = "schedule" /\ phase' = "generate"
    BY <1>4 DEF Schedule
  <2> QED BY <1>2, <1>4, <2>1, Movement
<1>5. ASSUME NEW p \in Part, ClearBits(p) \/ FillBits(p) \/ CopyBits(p) PROVE PastInv'
  <2>1. fired' = fired /\ phase = "generate" /\ phase' = "generate"
    BY <1>5 DEF ClearBits, FillBits, CopyBits, bitsUnchanged
  <2> QED BY <1>2, <1>5, <2>1, Movement
<1>6. ASSUME StepBuffer PROVE PastInv'
  <2>1. fired' = fired /\ phase = "generate" /\ phase' = "fire"
    BY <1>6 DEF StepBuffer
  <2> QED BY <1>2, <1>6, <2>1, Movement
<1>7. ASSUME FindFiring PROVE PastInv'
  <2>1. phase = "fire" /\ phase' = "time"
    BY <1>7 DEF FindFiring
  <2>2. simTime' = simTime /\ Standing /\ Standing'
    BY <1>7, Movement DEF Unmoved
  <2>3. Now = simTime /\ Now' = simTime + 1
    <3> HIDE DEF Now, simTime, Standing, Begun
    <3> QED BY <1>1, <1>a, <1>b, <2>1, <2>2
  <2>4. \A s \in fired' : s \in fired \/ s[2] = simTime
    BY <1>7 DEF FindFiring
  <2>5. \A s \in fired' : s[2] < Now'
    <3> HIDE DEF Now, simTime
    <3> QED BY <1>0, <1>1, <2>3, <2>4
  <2> QED BY <2>1, <2>5 DEF PastInv
<1>8. ASSUME UpdateTimingTable PROVE PastInv'
  <2>1. phase = "time" /\ phase' # "second" /\ fired' = fired
    BY <1>8 DEF UpdateTimingTable
  <2>2. simTime' = simTime /\ Standing /\ Begun'
    BY <1>8, Movement
  <2>3. Now' = Now
    <3> HIDE DEF Now, simTime, Standing, Begun
    <3> QED BY <1>1, <1>a, <1>b, <2>1, <2>2
  <2> QED BY <1>0, <2>1, <2>3 DEF PastInv
<1>9. ASSUME NEW r \in routes, RouteFork(r) PROVE PastInv'
  <2>1. fired' = fired /\ phase = "route" /\ phase' = "convert"
    BY <1>9 DEF RouteFork
  <2> QED BY <1>2, <1>9, <1>a, <1>b, <2>1, Movement
<1>10. ASSUME NEW th \in threads, ConvertRead(th) \/ ConvertWrite(th) PROVE PastInv'
  <2>1. fired' = fired /\ phase = "convert" /\ phase' = "convert"
    BY <1>10 DEF ConvertRead, ConvertWrite, convertUnchanged
  <2> QED BY <1>2, <1>10, <1>a, <1>b, <2>1, Movement
<1>11. ASSUME RouteJoin PROVE PastInv'
  <2>1. fired' = fired /\ phase = "convert" /\ phase' # "time"
    BY <1>11 DEF RouteJoin
  <2> QED BY <1>2, <1>11, <1>a, <2>1, Movement
<1>12. ASSUME DoCurrentUpdate PROVE PastInv'
  <2>1. fired' = fired /\ phase = "deliver" /\ phase' = "advance"
    BY <1>12 DEF DoCurrentUpdate
  <2> QED BY <1>2, <1>12, <2>1, Movement
<1>13. ASSUME AdvanceTime PROVE PastInv'
  <2>1. fired' = fired
    BY <1>13 DEF AdvanceTime
  <2>2. simTime' = simTime + 1 /\ Begun /\ ~Begun' /\ phase' # "time"
    BY <1>13, Movement
  <2>3. phase' = "second" => simTimeMs' = 0 /\ simTimeSec' = simTimeSec + 1
    BY <1>13, ClockTicks
  <2>4. phase' \in {"second", "stop", "schedule"}
    BY <1>13, ClockTicks
  <2>5. Standing' \/ phase' = "second"
    BY <2>4 DEF Standing
  <2>6. Now' = Now
    <3> HIDE DEF Now, simTime, Standing, Begun
    <3> QED BY <1>1, <1>a, <1>b, <2>2, <2>5
  <2>7. simTimeSec \in Nat
    BY DEF TypeOK
  <2> QED BY <1>0, <2>1, <2>3, <2>6, <2>7 DEF PastInv
<1>14. ASSUME FinishSecond PROVE PastInv'
  <2>1. fired' = fired /\ phase = "second" /\ phase' \in {"stop", "schedule"}
    BY <1>14 DEF FinishSecond
  <2>2. simTime' = simTime /\ Standing' /\ phase' # "time"
    BY <1>14, Movement
  <2>3. Now' = Now
    <3> HIDE DEF Now, simTime, Standing, Begun
    <3> QED BY <1>1, <1>a, <1>b, <2>1, <2>2
  <2> QED BY <1>0, <2>1, <2>3 DEF PastInv
<1>15. ASSUME FinishRun PROVE PastInv'
  <2>1. fired' = fired /\ phase = "stop" /\ phase' = "idle"
    BY <1>15 DEF FinishRun
  <2> QED BY <1>2, <1>15, <2>1, Movement
<1>16. CASE UNCHANGED vars
  <2>1. /\ fired' = fired /\ simTime' = simTime /\ phase' = phase /\ simTimeMs' = simTimeMs
        /\ simTimeSec' = simTimeSec /\ Begun' = Begun
    BY <1>16 DEF vars, simTime, Begun
  <2>2. Now' = Now
    BY <2>1 DEF Now
  <2> QED BY <1>0, <2>1, <2>2 DEF PastInv
<1> QED
  BY <1>3, <1>4, <1>5, <1>6, <1>7, <1>8, <1>9, <1>10, <1>11, <1>12, <1>13, <1>14, <1>15, <1>16
     DEF Next

(* Nothing has been fired when the kernel starts.                           *)
LEMMA PastInit ==
  Init => PastInv
BY DEF Init, PastInv

(* Whether a phase is one with external spikes.                             *)

(* There are no external spikes when the kernel starts.                     *)
LEMMA ExtInit ==
  Init => ExtInv
BY DEF Init, ExtInv, Begun, Routing

(* findFiring fills the lists of external spikes, routeSpikes only reads    *)
(* them, and clearExtFiringTable empties them before the next millisecond.  *)
LEMMA ExtStep ==
  TypeOK /\ PastInv /\ ExtInv /\ [Next]_vars => ExtInv'
<1> SUFFICES ASSUME TypeOK, PastInv, ExtInv, [Next]_vars PROVE ExtInv'
  OBVIOUS
<1> DEFINE Ticked == phase = "time" \/ Begun
<1>0. /\ \A g \in Group :
           extFiringTable[g] = IF hasExternalConnect[g] /\ Ticked THEN SpikeIds(g) ELSE {}
      /\ ~Routing => routes = {}
      /\ phase = "convert" =>
           /\ rte \in routes
           /\ \A th \in threads : th.grp \in Sent(rte) /\ th.start = startIdx(rte, th.grp)
           /\ \A th, u \in threads : th.grp = u.grp => th = u
  BY DEF ExtInv
<1>1. ASSUME extFiringTable' = extFiringTable, fired' = fired, simTime' = simTime, Ticked' = Ticked
      PROVE  \A g \in Group :
               extFiringTable'[g] = (IF hasExternalConnect[g] /\ Ticked THEN SpikeIds(g) ELSE {})'
  <2>1. \A g \in Group : SpikeIds(g)' = SpikeIds(g)
    BY <1>1 DEF SpikeIds
  <2> HIDE DEF Ticked
  <2> QED BY <1>0, <1>1, <2>1
<1>2. ASSUME extFiringTable' = extFiringTable, fired' = fired, simTime' = simTime,
             routes' = routes, Standing, Standing', phase # "time", phase' # "time"
      PROVE  ExtInv'
  <2>1. ~Routing /\ ~Routing' /\ phase' # "convert" /\ Ticked' = Ticked
    BY <1>2 DEF Standing, Routing, Begun
  <2>2. routes' = {}
    BY <1>0, <1>2, <2>1
  <2>3. \A g \in Group :
          extFiringTable'[g] = (IF hasExternalConnect[g] /\ Ticked THEN SpikeIds(g) ELSE {})'
    BY <1>1, <1>2, <2>1
  <2> QED BY <2>1, <2>2, <2>3 DEF ExtInv
<1>3. ASSUME NEW d \in Durations, RunNetwork(d) PROVE ExtInv'
  BY <1>2, <1>3, Movement DEF RunNetwork, routeVars, Unmoved
<1>4. ASSUME Schedule PROVE ExtInv'
  BY <1>2, <1>4, Movement DEF Schedule, routeVars, Unmoved
<1>5. ASSUME NEW p \in Part, ClearBits(p) \/ FillBits(p) \/ CopyBits(p) PROVE ExtInv'
  <2>1. UNCHANGED bitsUnchanged /\ phase = "generate"
    BY <1>5 DEF ClearBits, FillBits, CopyBits
  <2> QED BY <1>2, <1>5, <2>1, Movement DEF bitsUnchanged, routeVars, Unmoved
<1>6. ASSUME StepBuffer PROVE ExtInv'
  BY <1>2, <1>6, Movement DEF StepBuffer, routeVars, Unmoved
<1>7. ASSUME FindFiring PROVE ExtInv'
  <2>1. PICK W \in SUBSET (Neuron \ GenNeuron) :
          LET F == FiresNow(W)
              L == { n \in F : HasSpace(F, n) }
          IN  /\ extFiringTable' = [g \in Group |-> extFiringTable[g] \union
                   IF hasExternalConnect[g] THEN { gNId(n) : n \in { m \in L : m[1] = g } }
                                            ELSE {}]
              /\ fired' = fired \union { <<n, simTime>> : n \in L }
    BY <1>7 DEF FindFiring
  <2> DEFINE F == FiresNow(W)
             L == { n \in F : HasSpace(F, n) }
  <2>2. L \subseteq Neuron
    BY DEF FiresNow, GenNeuron
  <2>3. phase = "fire" /\ phase' = "time" /\ routes' = routes
    BY <1>7 DEF FindFiring
  <2>4. ~Ticked /\ Ticked' /\ ~Routing /\ ~Routing'
    BY <2>3 DEF Begun, Routing
  <2>5. Now = simTime /\ simTime \in Nat
    <3>1. Now = simTime + 0
      BY <2>4 DEF Now
    <3> QED BY <3>1, Clock
  <2>6. simTime' = simTime
    BY <1>7, Movement DEF Unmoved
  <2>7. \A n \in Neuron : <<n, simTime>> \notin fired
    BY <2>5 DEF PastInv
  <2>8. ASSUME NEW g \in Group
        PROVE  SpikeIds(g)' = { gNId(n) : n \in { m \in L : m[1] = g } }
    <3>1. { m \in Neuron : m[1] = g /\ <<m, simTime>> \in fired' } = { m \in L : m[1] = g }
      <4>1. fired' = fired \union { <<n, simTime>> : n \in L }
        BY <2>1
      <4> HIDE DEF L
      <4> QED BY <2>2, <2>7, <4>1
    <3> HIDE DEF L
    <3> QED BY <2>6, <3>1 DEF SpikeIds
  <2>9. \A g \in Group : extFiringTable[g] = {}
    BY <1>0, <2>4
  <2>10. ASSUME NEW g \in Group
         PROVE  extFiringTable'[g] = (IF hasExternalConnect[g] /\ Ticked THEN SpikeIds(g) ELSE {})'
    <3>1. extFiringTable'[g] = extFiringTable[g] \union
             IF hasExternalConnect[g] THEN { gNId(n) : n \in { m \in L : m[1] = g } } ELSE {}
      BY <2>1
    <3> HIDE DEF L, Ticked
    <3> QED BY <2>4, <2>8, <2>9, <3>1
  <2> QED BY <1>0, <2>3, <2>4, <2>10 DEF ExtInv
<1>8. ASSUME UpdateTimingTable PROVE ExtInv'
  <2>1. /\ extFiringTable' = extFiringTable /\ fired' = fired /\ phase = "time"
        /\ phase' \in {"deliver", "route"} /\ (phase' = "deliver" => routes' = {})
    BY <1>8 DEF UpdateTimingTable
  <2>2. simTime' = simTime
    BY <1>8, Movement
  <2>3. Ticked /\ Ticked' /\ phase' # "convert" /\ (~Routing' => routes' = {})
    BY <2>1 DEF Begun, Routing
  <2>4. \A g \in Group :
          extFiringTable'[g] = (IF hasExternalConnect[g] /\ Ticked THEN SpikeIds(g) ELSE {})'
    BY <1>1, <2>1, <2>2, <2>3
  <2> QED BY <2>3, <2>4 DEF ExtInv
<1>9. ASSUME NEW r \in routes, RouteFork(r) PROVE ExtInv'
  <2>1. /\ extFiringTable' = extFiringTable /\ fired' = fired /\ phase = "route"
        /\ phase' = "convert" /\ routes' = routes /\ rte' = r /\ timeTable' = timeTable
        /\ threads' = { [grp |-> g, start |-> startIdx(r, g), count |-> Nobody] : g \in Sent(r) }
    BY <1>9 DEF RouteFork
  <2>2. simTime' = simTime /\ simTimeMs' = simTimeMs
    BY <1>9, Movement DEF Unmoved
  <2>3. Ticked /\ Ticked' /\ Routing'
    BY <2>1 DEF Begun, Routing
  <2>4. \A g \in Group :
          extFiringTable'[g] = (IF hasExternalConnect[g] /\ Ticked THEN SpikeIds(g) ELSE {})'
    BY <1>1, <2>1, <2>2, <2>3
  <2>5. Sent(rte)' = Sent(r)
    BY <2>1 DEF Sent, SrcNet, DestNet
  <2>6. \A g : startIdx(rte, g)' = startIdx(r, g)
    BY <2>1, <2>2, <2>5 DEF startIdx, firingTableIdx, SpikesOf, SrcNet, DestNet
  <2>7. \A th \in threads' : th.grp \in Sent(rte)' /\ th.start = startIdx(rte, th.grp)'
    <3> SUFFICES ASSUME NEW th \in threads'
                 PROVE  th.grp \in Sent(rte)' /\ th.start = startIdx(rte, th.grp)'
      OBVIOUS
    <3>1. PICK g \in Sent(r) : th = [grp |-> g, start |-> startIdx(r, g), count |-> Nobody]
      BY <2>1
    <3>2. th.grp = g /\ th.start = startIdx(r, g)
      BY <3>1
    <3> QED BY <2>5, <2>6, <3>2
  <2>8. \A th, u \in threads' : th.grp = u.grp => th = u
    BY <2>1
  <2>9. ExtInv' <=>
          /\ \A g \in Group :
               extFiringTable'[g] = (IF hasExternalConnect[g] /\ Ticked THEN SpikeIds(g) ELSE {})'
          /\ ~Routing' => routes' = {}
          /\ phase' = "convert" =>
               /\ rte' \in routes'
               /\ \A th \in threads' : th.grp \in Sent(rte)' /\ th.start = startIdx(rte, th.grp)'
               /\ \A th, u \in threads' : th.grp = u.grp => th = u
    BY DEF ExtInv
  <2> HIDE DEF Ticked
  <2> QED BY <2>1, <2>3, <2>4, <2>7, <2>8, <2>9
<1>10. ASSUME NEW th \in threads, ConvertRead(th) \/ ConvertWrite(th) PROVE ExtInv'
  <2>1. /\ extFiringTable' = extFiringTable /\ fired' = fired /\ phase = "convert"
        /\ phase' = "convert" /\ routes' = routes /\ rte' = rte /\ timeTable' = timeTable
    BY <1>10 DEF ConvertRead, ConvertWrite, convertUnchanged
  <2>2. simTime' = simTime /\ simTimeMs' = simTimeMs
    BY <1>10, Movement DEF Unmoved
  <2>3. Ticked /\ Ticked' /\ Routing'
    BY <2>1 DEF Begun, Routing
  <2>4. \A g \in Group :
          extFiringTable'[g] = (IF hasExternalConnect[g] /\ Ticked THEN SpikeIds(g) ELSE {})'
    BY <1>1, <2>1, <2>2, <2>3
  <2>5. Sent(rte)' = Sent(rte) /\ rte' \in routes'
    BY <1>0, <2>1 DEF Sent, SrcNet, DestNet
  <2>6. \A g : startIdx(rte, g)' = startIdx(rte, g)
    BY <2>1, <2>2, <2>5 DEF startIdx, firingTableIdx, SpikesOf, SrcNet, DestNet
  <2>7. \A u \in threads' : \E w \in threads : u.grp = w.grp /\ u.start = w.start
                                            /\ (u = w \/ w = th)
    <3>1. CASE ConvertRead(th)
      <4> DEFINE read == [th EXCEPT !.count = spikeCountSec[DestNet(rte)][ClassOf[th.grp]]]
      <4>1. threads' = (threads \ {th}) \union {read}
        BY <3>1 DEF ConvertRead
      <4>2. th \in [grp : Group, start : Int, count : Int]
        BY DEF TypeOK
      <4>3. read.grp = th.grp /\ read.start = th.start
        BY <4>2
      <4> HIDE DEF read
      <4> QED BY <4>1, <4>3
    <3>2. CASE ConvertWrite(th)
      BY <3>2 DEF ConvertWrite
    <3> QED BY <1>10, <3>1, <3>2
  <2>8. \A u, w \in threads' : u.grp = w.grp => u = w
    <3>1. CASE ConvertRead(th)
      <4> DEFINE read == [th EXCEPT !.count = spikeCountSec[DestNet(rte)][ClassOf[th.grp]]]
      <4>1. threads' = (threads \ {th}) \union {read}
        BY <3>1 DEF ConvertRead
      <4>2. th \in [grp : Group, start : Int, count : Int]
        BY DEF TypeOK
      <4>3. read.grp = th.grp
        BY <4>2
      <4> HIDE DEF read
      <4> QED BY <1>0, <2>1, <4>1, <4>3
    <3>2. CASE ConvertWrite(th)
      BY <1>0, <2>1, <3>2 DEF ConvertWrite
    <3> QED BY <1>10, <3>1, <3>2
  <2>9. \A u \in threads' : u.grp \in Sent(rte)' /\ u.start = startIdx(rte, u.grp)'
    BY <1>0, <2>1, <2>5, <2>6, <2>7
  <2>10. ExtInv' <=>
          /\ \A g \in Group :
               extFiringTable'[g] = (IF hasExternalConnect[g] /\ Ticked THEN SpikeIds(g) ELSE {})'
          /\ ~Routing' => routes' = {}
          /\ phase' = "convert" =>
               /\ rte' \in routes'
               /\ \A u \in threads' : u.grp \in Sent(rte)' /\ u.start = startIdx(rte, u.grp)'
               /\ \A u, w \in threads' : u.grp = w.grp => u = w
    BY DEF ExtInv
  <2> HIDE DEF Ticked
  <2> QED BY <2>1, <2>3, <2>4, <2>5, <2>8, <2>9, <2>10
<1>11. ASSUME RouteJoin PROVE ExtInv'
  <2>1. /\ extFiringTable' = extFiringTable /\ fired' = fired /\ phase = "convert"
        /\ phase' \in {"deliver", "route"} /\ (phase' = "deliver" => routes' = {})
    BY <1>11 DEF RouteJoin
  <2>2. simTime' = simTime
    BY <1>11, Movement DEF Unmoved
  <2>3. Ticked /\ Ticked' /\ phase' # "convert" /\ (~Routing' => routes' = {})
    BY <2>1 DEF Begun, Routing
  <2>4. \A g \in Group :
          extFiringTable'[g] = (IF hasExternalConnect[g] /\ Ticked THEN SpikeIds(g) ELSE {})'
    BY <1>1, <2>1, <2>2, <2>3
  <2> QED BY <2>3, <2>4 DEF ExtInv
<1>12. ASSUME DoCurrentUpdate PROVE ExtInv'
  <2>1. /\ extFiringTable' = extFiringTable /\ fired' = fired /\ phase = "deliver"
        /\ phase' = "advance" /\ routes' = routes
    BY <1>12 DEF DoCurrentUpdate, routeVars
  <2>2. simTime' = simTime
    BY <1>12, Movement DEF Unmoved
  <2>3. Ticked /\ Ticked' /\ phase' # "convert" /\ ~Routing
    BY <2>1 DEF Begun, Routing
  <2>4. \A g \in Group :
          extFiringTable'[g] = (IF hasExternalConnect[g] /\ Ticked THEN SpikeIds(g) ELSE {})'
    BY <1>1, <2>1, <2>2, <2>3
  <2> QED BY <1>0, <2>1, <2>3, <2>4 DEF ExtInv
<1>13. ASSUME AdvanceTime PROVE ExtInv'
  <2>1. extFiringTable' = [g \in Group |-> {}] /\ routes' = routes
    BY <1>13 DEF AdvanceTime
  <2>2. ~Routing /\ ~Routing' /\ ~Begun' /\ phase' # "time"
    BY <1>13, Movement
  <2>3. phase' # "convert"
    BY <2>2 DEF Routing
  <2> QED BY <1>0, <2>1, <2>2, <2>3 DEF ExtInv
<1>14. ASSUME FinishSecond PROVE ExtInv'
  <2>1. /\ extFiringTable' = extFiringTable /\ fired' = fired /\ phase = "second"
        /\ phase' \in {"stop", "schedule"} /\ routes' = routes
    BY <1>14 DEF FinishSecond, routeVars
  <2>2. simTime' = simTime
    BY <1>14, Movement
  <2>3. ~Ticked /\ ~Ticked' /\ phase' # "convert" /\ ~Routing
    BY <2>1 DEF Begun, Routing
  <2>4. \A g \in Group :
          extFiringTable'[g] = (IF hasExternalConnect[g] /\ Ticked THEN SpikeIds(g) ELSE {})'
    BY <1>1, <2>1, <2>2, <2>3
  <2> QED BY <1>0, <2>1, <2>3, <2>4 DEF ExtInv
<1>15. ASSUME FinishRun PROVE ExtInv'
  BY <1>2, <1>15, Movement DEF FinishRun, routeVars, Unmoved
<1>16. CASE UNCHANGED vars
  <2>1. /\ extFiringTable' = extFiringTable /\ fired' = fired /\ phase' = phase
        /\ routes' = routes /\ rte' = rte /\ timeTable' = timeTable /\ threads' = threads
        /\ simTime' = simTime /\ simTimeMs' = simTimeMs /\ Begun' = Begun /\ Routing' = Routing
    BY <1>16 DEF vars, routeVars, tableVars, simTime, Begun, Routing
  <2>2. Ticked' = Ticked
    BY <2>1
  <2>3. \A g \in Group :
          extFiringTable'[g] = (IF hasExternalConnect[g] /\ Ticked THEN SpikeIds(g) ELSE {})'
    BY <1>1, <2>1, <2>2
  <2>4. Sent(rte)' = Sent(rte)
    BY <2>1 DEF Sent, SrcNet, DestNet
  <2>5. \A g : startIdx(rte, g)' = startIdx(rte, g)
    BY <2>1, <2>4 DEF startIdx, firingTableIdx, SpikesOf, SrcNet, DestNet
  <2>6. ExtInv' <=>
          /\ \A g \in Group :
               extFiringTable'[g] = (IF hasExternalConnect[g] /\ Ticked THEN SpikeIds(g) ELSE {})'
          /\ ~Routing' => routes' = {}
          /\ phase' = "convert" =>
               /\ rte' \in routes'
               /\ \A u \in threads' : u.grp \in Sent(rte)' /\ u.start = startIdx(rte, u.grp)'
               /\ \A u, w \in threads' : u.grp = w.grp => u = w
    BY DEF ExtInv
  <2> HIDE DEF Ticked
  <2> QED BY <1>0, <2>1, <2>3, <2>4, <2>5, <2>6
<1> QED
  BY <1>3, <1>4, <1>5, <1>6, <1>7, <1>8, <1>9, <1>10, <1>11, <1>12, <1>13, <1>14, <1>15, <1>16
     DEF Next

-----------------------------------------------------------------------------
(* Tables grow by no more than was fired.                                   *)

(* The first entry that is in use, and the range of the others.             *)
LEMMA Entries ==
  ASSUME NEW c
  PROVE  /\ FirstOf(c) \in Nat /\ FirstOf(c) <= maxDelay
         /\ c = D2 => FirstOf(c) = 0
         /\ c = D1 => FirstOf(c) = maxDelay
         /\ \A i : i \in FirstOf(c) .. MsPerSec + maxDelay => i \in 0 .. MsPerSec + maxDelay
<1>1. maxDelay \in Nat /\ MsPerSec \in Nat
  BY PartitionTypes
<1>2. D1 # D2
  BY DEF D1, D2
<1> QED BY <1>1, <1>2 DEF FirstOf

(* A table that grows by no more than was fired still does when more was    *)
(* fired.                                                                   *)
LEMMA BoundedMore ==
  ASSUME NEW G \in SUBSET (Neuron \X Nat), NEW F \in SUBSET G, NEW p, NEW c,
         NEW base \in Int, NEW last \in Nat, NEW tt, Bounded(tt, F, p, c, base, last),
         \A i \in FirstOf(c) .. last : tt[i] \in Int
  PROVE  Bounded(tt, G, p, c, base, last)
<1> SUFFICES ASSUME NEW i \in FirstOf(c) .. last, NEW j \in FirstOf(c) .. last, i <= j
             PROVE  tt[j] - tt[i]
                      <= Cardinality(SpikesIn(G, p, c, base + i - maxDelay, base + j - maxDelay))
  BY DEF Bounded
<1>1. PICK a, b : a = base + i - maxDelay /\ b = base + j - maxDelay
  OBVIOUS
<1>2. a \in Int /\ b \in Int /\ a <= b
  BY <1>1, PartitionTypes, Entries
<1>3. SpikesIn(F, p, c, a, b) \subseteq SpikesIn(G, p, c, a, b)
  BY DEF SpikesIn
<1>4. /\ IsFiniteSet(SpikesIn(G, p, c, a, b))
      /\ Cardinality(SpikesIn(G, p, c, a, b)) \in Nat
      /\ Cardinality(SpikesIn(F, p, c, a, b)) \in Nat
  BY <1>2, SpikesCountedIn
<1>5. Cardinality(SpikesIn(F, p, c, a, b)) <= Cardinality(SpikesIn(G, p, c, a, b))
  BY <1>3, <1>4, FS_Subset
<1>6. tt[j] - tt[i] <= Cardinality(SpikesIn(F, p, c, a, b))
  BY <1>1 DEF Bounded
<1> QED BY <1>1, <1>4, <1>5, <1>6

(* The bound is about the entries of the time table only.                   *)
LEMMA BoundedSame ==
  ASSUME NEW F, NEW p, NEW c, NEW base, NEW last, NEW tt, NEW tt2,
         Bounded(tt, F, p, c, base, last),
         \A i \in FirstOf(c) .. last : tt2[i] = tt[i]
  PROVE  Bounded(tt2, F, p, c, base, last)
BY DEF Bounded

(* One more entry.                                                          *)
LEMMA BoundedNext ==
  ASSUME NEW F \in SUBSET (Neuron \X Nat), NEW p \in Part, NEW c,
         NEW base \in Int, NEW last \in Nat, FirstOf(c) <= last, NEW tt, NEW tt2,
         Bounded(tt, F, p, c, base, last),
         \A i \in FirstOf(c) .. last : tt[i] \in Int /\ tt2[i] = tt[i],
         NEW N \in SUBSET SpikesAt(F, p, c, base + last - maxDelay),
         tt2[last + 1] \in Int, tt2[last + 1] <= tt[last] + Cardinality(N)
  PROVE  Bounded(tt2, F, p, c, base, last + 1)
<1> SUFFICES ASSUME NEW i \in FirstOf(c) .. last + 1, NEW j \in FirstOf(c) .. last + 1, i <= j
             PROVE  tt2[j] - tt2[i]
                      <= Cardinality(SpikesIn(F, p, c, base + i - maxDelay, base + j - maxDelay))
  BY DEF Bounded
<1>0. FirstOf(c) \in Nat /\ maxDelay \in Nat
  BY Entries, PartitionTypes
<1>1. PICK a, b : a = base + i - maxDelay /\ b = base + j - maxDelay
  OBVIOUS
<1>2. a \in Int /\ b \in Int /\ a <= b
  BY <1>0, <1>1
<1>3. Cardinality(SpikesIn(F, p, c, a, b)) \in Nat
  BY <1>2, SpikesCountedIn
<1>4. CASE j <= last
  <2>1. i \in FirstOf(c) .. last /\ j \in FirstOf(c) .. last
    BY <1>0, <1>4
  <2>2. tt[j] - tt[i] <= Cardinality(SpikesIn(F, p, c, a, b))
    BY <1>1, <2>1 DEF Bounded
  <2> QED BY <1>1, <2>1, <2>2
<1>5. CASE j = last + 1 /\ i = last + 1
  <2>1. tt2[j] - tt2[i] = 0
    BY <1>5
  <2> QED BY <1>1, <1>3, <2>1
<1>6. CASE j = last + 1 /\ i <= last
  <2>1. PICK e : e = base + last - maxDelay
    OBVIOUS
  <2>2. e \in Int /\ a <= e /\ b = e + 1
    BY <1>0, <1>1, <1>6, <2>1
  <2>3. i \in FirstOf(c) .. last /\ last \in FirstOf(c) .. last
    BY <1>0, <1>6
  <2>4. tt[last] - tt[i] <= Cardinality(SpikesIn(F, p, c, a, e))
    BY <1>1, <1>6, <2>1, <2>3 DEF Bounded
  <2>5. N \in SUBSET SpikesAt(F, p, c, e)
    BY <2>1
  <2>6. Cardinality(SpikesIn(F, p, c, a, e)) + Cardinality(N)
          <= Cardinality(SpikesIn(F, p, c, a, e + 1))
    BY <1>2, <2>2, <2>5, SpikesSplit
  <2>7. Cardinality(SpikesIn(F, p, c, a, e)) \in Nat /\ Cardinality(N) \in Nat
    <3>1. N \in SUBSET Neuron
      BY <2>5 DEF SpikesAt, Carried
    <3> QED BY <1>2, <2>2, <3>1, SpikesCountedIn, NeuronsCounted
  <2>8. tt2[j] = tt2[last + 1] /\ tt2[i] = tt[i] /\ tt[i] \in Int /\ tt[last] \in Int
    BY <1>6, <2>3
  <2>9. tt2[j] - tt2[i] <= Cardinality(SpikesIn(F, p, c, a, e + 1))
    <3> PICK x, y, z, u : x = tt2[last + 1] /\ y = tt[last] /\ z = tt[i] /\ u = Cardinality(N)
      OBVIOUS
    <3> PICK v, w : /\ v = Cardinality(SpikesIn(F, p, c, a, e))
                    /\ w = Cardinality(SpikesIn(F, p, c, a, e + 1))
      OBVIOUS
    <3>1. x \in Int /\ y \in Int /\ z \in Int /\ u \in Nat /\ v \in Nat /\ w \in Nat
      BY <1>2, <1>3, <2>2, <2>7, <2>8
    <3>2. x <= y + u /\ y - z <= v /\ v + u <= w
      BY <2>4, <2>6
    <3>3. x - z <= w
      BY ONLY <3>1, <3>2
    <3> QED BY <2>8, <3>3
  <2> QED BY <1>1, <2>2, <2>9
<1>7. i <= last \/ i = last + 1
  BY <1>0
<1>8. j <= last \/ j = last + 1
  BY <1>0
<1> QED BY <1>0, <1>4, <1>5, <1>6, <1>7, <1>8

(* The entries of the time table of D2 that a shift brings to the front.    *)
LEMMA BoundedShifted ==
  ASSUME NEW F, NEW p, NEW base \in Int, NEW tt, NEW tt2,
         Bounded(tt, F, p, D2, base, MsPerSec + maxDelay),
         \A i \in 0 .. MsPerSec + maxDelay : tt[i] \in Int,
         \A i \in 0 .. maxDelay : tt2[i] = tt[MsPerSec + i] - tt[MsPerSec]
  PROVE  Bounded(tt2, F, p, D2, base + MsPerSec, maxDelay)
<1>0. maxDelay \in Nat /\ MsPerSec \in Nat /\ FirstOf(D2) = 0
  BY PartitionTypes, Entries
<1> SUFFICES ASSUME NEW i \in 0 .. maxDelay, NEW j \in 0 .. maxDelay, i <= j
             PROVE  tt2[j] - tt2[i]
                      <= Cardinality(SpikesIn(F, p, D2, base + MsPerSec + i - maxDelay,
                                                        base + MsPerSec + j - maxDelay))
  BY <1>0 DEF Bounded
<1>1. PICK k, l : k = MsPerSec + i /\ l = MsPerSec + j
  OBVIOUS
<1>2. /\ k \in 0 .. MsPerSec + maxDelay /\ l \in 0 .. MsPerSec + maxDelay /\ k <= l
      /\ base + k - maxDelay = base + MsPerSec + i - maxDelay
      /\ base + l - maxDelay = base + MsPerSec + j - maxDelay
      /\ MsPerSec \in 0 .. MsPerSec + maxDelay
  BY <1>0, <1>1
<1>3. tt[l] - tt[k] <= Cardinality(SpikesIn(F, p, D2, base + k - maxDelay, base + l - maxDelay))
  BY <1>0, <1>2 DEF Bounded
<1>4. tt[l] \in Int /\ tt[k] \in Int /\ tt[MsPerSec] \in Int
  BY <1>2
<1>5. tt2[j] = tt[l] - tt[MsPerSec] /\ tt2[i] = tt[k] - tt[MsPerSec]
  BY <1>1
<1>6. tt2[j] - tt2[i] = tt[l] - tt[k]
  BY <1>4, <1>5
<1> QED BY <1>2, <1>3, <1>6

-----------------------------------------------------------------------------
(* What is sent from one partition to another.                              *)

(* The external spikes that an entry of the routing table sends are those   *)
(* of the neurons that the target fetches by it.                            *)
LEMMA Transferred ==
  ASSUME TypeOK, ExtInv, phase = "time" \/ Begun, NEW r \in spikeRoutingTable, NEW c
  PROVE  /\ \A x \in SpikesOf(Sent(r), c) :
              \E n \in Fetched(fired, DestNet(r), c, simTime, {r}) :
                n[1] = x[1] /\ gNId(n) = x[2]
         /\ \A n \in Fetched(fired, DestNet(r), c, simTime, {r}) :
              n[1] \in Sent(r) /\ gNId(n) \in extFiringTable[n[1]]
         /\ Sent(r) \subseteq Group /\ DestNet(r) \in Part
<1>1. r \in Connection /\ SrcNet(r) # DestNet(r)
  BY DEF spikeRoutingTable, External, SrcNet, DestNet
<1>2. SrcNet(r) \in Part /\ DestNet(r) \in Part
  BY <1>1, PartitionAssumption DEF SrcNet, DestNet
<1>3. Sent(r) \subseteq Group
  BY <1>2 DEF Sent, groupPartitionList
<1>4. \A g \in Group : extFiringTable[g] = IF hasExternalConnect[g] THEN SpikeIds(g) ELSE {}
  BY DEF ExtInv
<1>5. ASSUME NEW x \in SpikesOf(Sent(r), c)
      PROVE  \E n \in Fetched(fired, DestNet(r), c, simTime, {r}) :
               n[1] = x[1] /\ gNId(n) = x[2]
  <2>1. x[1] \in Sent(r) /\ ClassOf[x[1]] = c /\ x[2] \in extFiringTable[x[1]]
    BY DEF SpikesOf
  <2>2. x[2] \in SpikeIds(x[1])
    BY <1>3, <1>4, <2>1
  <2>3. PICK n \in Neuron : n[1] = x[1] /\ <<n, simTime>> \in fired /\ gNId(n) = x[2]
    BY <2>2 DEF SpikeIds
  <2>4. n \in Fetched(fired, DestNet(r), c, simTime, {r})
    BY <1>1, <2>1, <2>3 DEF Fetched, Sent
  <2> QED BY <2>3, <2>4
<1>6. ASSUME NEW n \in Fetched(fired, DestNet(r), c, simTime, {r})
      PROVE  n[1] \in Sent(r) /\ gNId(n) \in extFiringTable[n[1]]
  <2>1. /\ n \in Neuron /\ <<n, simTime>> \in fired /\ n[1] \in groupPartitionList[DestNet(r)]
        /\ hasExternalConnect[n[1]] /\ SrcNet(r) = netId[n[1]] /\ n[1] \in Group
    BY NeuronFields DEF Fetched
  <2>2. gNId(n) \in SpikeIds(n[1])
    BY <2>1 DEF SpikeIds
  <2>3. gNId(n) \in extFiringTable[n[1]]
    BY <1>4, <2>1, <2>2
  <2> QED BY <2>1, <2>3 DEF Sent
<1> QED BY <1>2, <1>3, <1>5, <1>6

(* So they are no more than these.                                          *)
LEMMA TransferBounded ==
  ASSUME TypeOK, ExtInv, phase = "time" \/ Begun, NEW r \in spikeRoutingTable, NEW c
  PROVE  /\ Cardinality(SpikesOf(Sent(r), c)) \in Nat
         /\ Cardinality(SpikesOf(Sent(r), c))
              <= Cardinality(Fetched(fired, DestNet(r), c, simTime, {r}))
<1> DEFINE G == Fetched(fired, DestNet(r), c, simTime, {r})
           T == { <<n[1], gNId(n)>> : n \in G }
           f == [n \in G |-> <<n[1], gNId(n)>>]
           S == SpikesOf(Sent(r), c)
<1>1. G \in SUBSET Neuron
  BY DEF Fetched
<1>2. IsFiniteSet(G) /\ Cardinality(G) \in Nat
  <2> HIDE DEF G
  <2> QED BY <1>1, NeuronsCounted
<1>3. f \in Surjection(G, T)
  BY DEF Surjection
<1>4. \A x \in S : x = <<x[1], x[2]>>
  BY DEF SpikesOf
<1>5. S \subseteq T
  <2> SUFFICES ASSUME NEW x \in S PROVE x \in T
    OBVIOUS
  <2>1. PICK n \in G : n[1] = x[1] /\ gNId(n) = x[2]
    BY Transferred
  <2> HIDE DEF G, S
  <2> QED BY <1>4, <2>1
<1>6. IsFiniteSet(S) /\ Cardinality(S) \in Nat
  BY Transferred, SpikesCounted
<1> HIDE DEF G, T, f, S
<1>7. IsFiniteSet(T) /\ Cardinality(T) <= Cardinality(G)
  BY <1>2, <1>3, FS_Surjection
<1>8. Cardinality(T) \in Nat /\ Cardinality(S) <= Cardinality(T)
  BY <1>5, <1>7, FS_Subset, FS_CardinalityType
<1> QED BY <1>2, <1>6, <1>7, <1>8 DEF S, G

(* What a target has after an entry was served: nothing twice, if there are *)
(* no equal entries.                                                        *)
LEMMA HaveGrows ==
  ASSUME TypeOK, routes' = routes \ {rte}, rte \in routes, fired' = fired, simTime' = simTime,
         NEW p \in Part, NEW c
  PROVE  /\ Have(p, c)' = Have(p, c) \union Fetched(fired, p, c, simTime, {rte})
         /\ p # DestNet(rte) => Fetched(fired, p, c, simTime, {rte}) = {}
         /\ \A n \in Fetched(fired, p, c, simTime, {rte}) : netId[n[1]] # p
         /\ RoutesOnce => Have(p, c) \cap Fetched(fired, p, c, simTime, {rte}) = {}
<1> DEFINE Q == spikeRoutingTable \ routes
<1>1. rte \in spikeRoutingTable /\ spikeRoutingTable \ routes' = Q \union {rte}
  BY DEF TypeOK
<1>2. \A R : Fetched(fired, p, c, simTime, R)' = Fetched(fired, p, c, simTime, R')
  BY DEF Fetched, SrcNet, DestNet
<1>3. Have(p, c)' = Own(fired, p, c, simTime) \union Fetched(fired, p, c, simTime, Q \union {rte})
  BY <1>1 DEF Have, Own, Fetched, SrcNet, DestNet
<1>4. Fetched(fired, p, c, simTime, Q \union {rte})
        = Fetched(fired, p, c, simTime, Q) \union Fetched(fired, p, c, simTime, {rte})
  BY DEF Fetched
<1>5. Have(p, c) = Own(fired, p, c, simTime) \union Fetched(fired, p, c, simTime, Q)
  BY DEF Have
<1>6. \A n \in Fetched(fired, p, c, simTime, {rte}) :
        netId[n[1]] # p /\ SrcNet(rte) = netId[n[1]] /\ DestNet(rte) = p
  BY DEF Fetched
<1>7. ASSUME RoutesOnce, NEW n \in Have(p, c), n \in Fetched(fired, p, c, simTime, {rte})
      PROVE  FALSE
  <2>1. n \notin Own(fired, p, c, simTime)
    BY <1>6, <1>7 DEF Own
  <2>2. n \in Fetched(fired, p, c, simTime, Q)
    BY <1>5, <1>7, <2>1
  <2>3. PICK r \in Q : SrcNet(r) = netId[n[1]] /\ DestNet(r) = p
    BY <2>2 DEF Fetched
  <2>4. SameEnds(r, rte)
    BY <1>6, <1>7, <2>3 DEF SameEnds, SrcNet, DestNet
  <2>5. r = rte
    BY <1>1, <1>7, <2>4 DEF RoutesOnce
  <2> QED BY <2>5
<1>8. RoutesOnce => Have(p, c) \cap Fetched(fired, p, c, simTime, {rte}) = {}
  BY <1>7
<1> HIDE DEF Q
<1> QED BY <1>3, <1>4, <1>5, <1>6, <1>8

(* A group that joins others adds its spikes to those of its class.         *)
LEMMA SpikesJoined ==
  ASSUME TypeOK, NEW G \in SUBSET Group, NEW g \in Group, g \notin G, NEW c
  PROVE  Cardinality(SpikesOf(G \union {g}, c))
           = Cardinality(SpikesOf(G, c))
             + IF ClassOf[g] = c THEN Cardinality(extFiringTable[g]) ELSE 0
<1> DEFINE S == SpikesOf(G, c)
           T == {g} \X extFiringTable[g]
<1>1. CASE ClassOf[g] = c
  <2>1. SpikesOf(G \union {g}, c) = S \union T
    <3>1. { h \in G \union {g} : ClassOf[h] = c } = { h \in G : ClassOf[h] = c } \union {g}
      BY <1>1
    <3> QED BY <3>1 DEF SpikesOf
  <2>2. S \cap T = {}
    <3>1. \A x \in S : x[1] \in G
      BY DEF SpikesOf
    <3>2. \A x \in T : x[1] = g
      OBVIOUS
    <3> HIDE DEF S, T
    <3> QED BY <3>1, <3>2
  <2>3. Cardinality(T) = Cardinality(extFiringTable[g]) /\ IsFiniteSet(T)
    <3>1. IsFiniteSet(extFiringTable[g])
      BY ExternalCounted
    <3>2. IsFiniteSet({g})
      BY FS_Singleton
    <3> QED BY <3>1, <3>2, PairsCounted, FS_Product
  <2>4. IsFiniteSet(S) /\ Cardinality(S) \in Nat /\ Cardinality(extFiringTable[g]) \in Nat
    BY SpikesCounted, ExternalCounted
  <2> HIDE DEF S, T
  <2>5. Cardinality(S \union T) = Cardinality(S) + Cardinality(T) - Cardinality(S \cap T)
    BY <2>3, <2>4, FS_Union
  <2>6. Cardinality(S \cap T) = 0
    BY <2>2, FS_EmptySet
  <2>7. Cardinality(S \union T) = Cardinality(S) + Cardinality(extFiringTable[g])
    BY <2>3, <2>4, <2>5, <2>6
  <2>8. Cardinality(SpikesOf(G \union {g}, c)) = Cardinality(S \union T)
    BY <2>1
  <2>9. Cardinality(S) = Cardinality(SpikesOf(G, c))
    BY DEF S
  <2> QED BY <1>1, <2>7, <2>8, <2>9
<1>2. CASE ClassOf[g] # c
  <2>1. SpikesOf(G \union {g}, c) = SpikesOf(G, c)
    BY <1>2 DEF SpikesOf
  <2> QED
    BY <1>2, <2>1, SpikesCounted
<1> QED
  BY <1>1, <1>2

-----------------------------------------------------------------------------
(* The size of the tables.                                                  *)

(* What Sized speaks of are numbers.                                        *)
LEMMA SizeTypes ==
  ASSUME TypeOK, PastInv, NEW p \in Part, NEW c \in Class
  PROVE  /\ \A i \in FirstOf(c) .. MsPerSec + maxDelay : timeTable[p][c][i] \in Int
         /\ FirstOf(c) \in Nat /\ FirstOf(c) <= Done /\ Done <= Cur /\ Cur <= MsPerSec + maxDelay
         /\ Done \in Nat /\ Cur \in Nat /\ Base \in Int /\ maxDelay \in Nat /\ MsPerSec \in Nat
         /\ Logged(p, c) \in Int /\ LeftOver(p, c) \in Int /\ spikeCountSec[p][c] \in Int
         /\ Logged(p, c) = spikeCountSec[p][c] + LeftOver(p, c)
         /\ fired \in SUBSET (Neuron \X Nat)
<1>1. \A i \in FirstOf(c) .. MsPerSec + maxDelay : timeTable[p][c][i] \in Int
  BY TimeTableEntries, Entries
<1>2. /\ FirstOf(c) \in Nat /\ FirstOf(c) <= Done /\ Done <= Cur /\ Cur <= MsPerSec + maxDelay
      /\ Done \in Nat /\ Cur \in Nat /\ Base \in Int /\ maxDelay \in Nat /\ MsPerSec \in Nat
  <2>1. maxDelay \in Nat /\ MsPerSec \in Nat
    BY PartitionTypes
  <2>2. FirstOf(c) \in Nat /\ FirstOf(c) <= maxDelay
    BY Entries
  <2>3. Cur \in maxDelay .. MsPerSec + maxDelay /\ Done \in maxDelay .. MsPerSec + maxDelay
        /\ Done <= Cur /\ Base \in Int
    BY Clock
  <2> HIDE DEF Cur, Done, Base, FirstOf
  <2> QED BY <2>1, <2>2, <2>3
<1>3. spikeCountSec[p][c] \in Int /\ LeftOver(p, c) \in Int
  BY DEF TypeOK, LeftOver
<1>4. Logged(p, c) = spikeCountSec[p][c] + LeftOver(p, c)
  BY DEF Logged, LeftOver
<1>5. fired \in SUBSET (Neuron \X Nat)
  BY DEF TypeOK
<1> QED BY <1>1, <1>2, <1>3, <1>4, <1>5

(* What is to be shown of a step.                                           *)
LEMMA SizedNext ==
  ASSUME NEW p, NEW c
  PROVE  Sized(p, c)' <=>
           /\ timeTable'[p][c][FirstOf(c)] = 0
           /\ Bounded(timeTable'[p][c], fired', p, c, Base', Done')
           /\ Routing' => timeTable'[p][c][Cur'] <= timeTable'[p][c][Cur' - 1] + Cardinality(Have(p, c)')
           /\ Logged(p, c)' <= timeTable'[p][c][Cur'] + Ahead(p, c)'
           /\ phase' = "convert" /\ p = DestNet(rte)' =>
                \A th \in threads' :
                  th.count # Nobody /\ ClassOf[th.grp] = c =>
                    th.count + LeftOver(p, c)' <= timeTable'[p][c][Cur'] + Ahead(p, c)'
BY DEF Sized

(* Steps that neither log nor route.                                        *)
LEMMA SizedQuiet ==
  ASSUME TypeOK, PastInv, NEW p \in Part, NEW c \in Class, Sized(p, c),
         timeTable' = timeTable, spikeCountSec' = spikeCountSec,
         spikeCountLastSecLeftD2' = spikeCountLastSecLeftD2, fired' = fired,
         Base' = Base, Cur' = Cur, ~Routing, ~Routing', phase # "time", phase' # "time"
  PROVE  Sized(p, c)'
<1>1. Done = Cur /\ Done' = Cur'
  BY DEF Done
<1>2. phase # "convert" /\ phase' # "convert"
  BY DEF Routing
<1>3. Ahead(p, c) = 0 /\ Ahead(p, c)' = 0
  BY <1>2 DEF Ahead
<1>4. Logged(p, c)' = Logged(p, c)
  BY DEF Logged
<1> HIDE DEF Base, Cur, Done, Ahead, Logged, Routing
<1> QED BY <1>1, <1>2, <1>3, <1>4 DEF Sized

(* Logging.                                                                 *)
LEMMA SizedFire ==
  ASSUME TypeOK, PastInv, NEW p \in Part, NEW c \in Class, Sized(p, c), FindFiring
  PROVE  Sized(p, c)'
<1>1. PICK W \in SUBSET (Neuron \ GenNeuron) :
        LET F == FiresNow(W)
            L == { n \in F : HasSpace(F, n) }
            of(q, d) == { n \in L : netId[n[1]] = q /\ ClassOf[n[1]] = d }
        IN  /\ spikeCountSec' = [q \in Part |-> [d \in Class |->
                 spikeCountSec[q][d] + Cardinality(of(q, d))]]
            /\ fired' = fired \union { <<n, simTime>> : n \in L }
  BY DEF FindFiring
<1> DEFINE F == FiresNow(W)
           L == { n \in F : HasSpace(F, n) }
           N == { n \in L : netId[n[1]] = p /\ ClassOf[n[1]] = c }
           O == Own(fired', p, c, simTime)
<1>2. L \subseteq Neuron
  BY DEF FiresNow, GenNeuron
<1>3. /\ timeTable' = timeTable /\ phase = "fire" /\ phase' = "time"
      /\ spikeCountLastSecLeftD2' = spikeCountLastSecLeftD2
  BY DEF FindFiring
<1>4. /\ simTime' = simTime /\ Base' = Base /\ Cur' = Cur
      /\ ~Routing /\ ~Routing'
  BY <1>3, Movement DEF Unmoved, Routing
<1>5. Done = Cur /\ Done' = Cur'
  BY <1>4 DEF Done
<1>6. spikeCountSec'[p][c] = spikeCountSec[p][c] + Cardinality(N) /\ fired \subseteq fired'
  BY <1>1
<1>7. N \subseteq O /\ O \in SUBSET Neuron
  <2>1. fired' = fired \union { <<n, simTime>> : n \in L }
    BY <1>1
  <2> HIDE DEF L
  <2> QED BY <1>2, <2>1 DEF Own
<1>8. Cardinality(N) \in Nat /\ Cardinality(O) \in Nat /\ Cardinality(N) <= Cardinality(O)
  <2> HIDE DEF N, O
  <2>1. IsFiniteSet(O) /\ N \in SUBSET Neuron
    BY <1>7, NeuronsCounted
  <2> QED BY <1>7, <2>1, NeuronsCounted, FS_Subset
<1>9. Ahead(p, c) = 0 /\ Ahead(p, c)' = Cardinality(O)
  BY <1>3, <1>4 DEF Ahead
<1>10. Logged(p, c)' = Logged(p, c) + Cardinality(N)
  <2> HIDE DEF N
  <2>1. LeftOver(p, c)' = LeftOver(p, c) /\ Logged(p, c)' = spikeCountSec'[p][c] + LeftOver(p, c)'
    BY <1>3 DEF LeftOver, Logged
  <2> QED BY <1>6, <1>8, <2>1, SizeTypes
<1>11. Bounded(timeTable'[p][c], fired', p, c, Base', Done')
  <2>1. fired' \in SUBSET (Neuron \X Nat)
    BY TypesStep DEF TypeOK, Next
  <2>2. Bounded(timeTable[p][c], fired, p, c, Base, Done)
    BY DEF Sized
  <2>3. \A i \in FirstOf(c) .. Done : timeTable[p][c][i] \in Int
    BY SizeTypes
  <2>4. Base \in Int /\ Done \in Nat
    BY SizeTypes
  <2> HIDE DEF Base, Done, Cur, Bounded
  <2>5. fired \in SUBSET fired'
    BY <1>6
  <2>6. Bounded(timeTable[p][c], fired', p, c, Base, Done)
    BY <2>1, <2>2, <2>3, <2>4, <2>5, BoundedMore
  <2> QED BY <1>3, <1>4, <1>5, <2>6
<1>12. Logged(p, c)' <= timeTable'[p][c][Cur'] + Ahead(p, c)'
  <2>1. Logged(p, c) <= timeTable[p][c][Cur] + Ahead(p, c)
    BY DEF Sized
  <2>2. timeTable[p][c][Cur] \in Int /\ Logged(p, c) \in Int
    BY SizeTypes
  <2> HIDE DEF N, O, Cur, Logged, Ahead
  <2> QED BY <1>3, <1>4, <1>8, <1>9, <1>10, <2>1, <2>2
<1>13. timeTable'[p][c][FirstOf(c)] = 0
  BY <1>3 DEF Sized
<1> HIDE DEF N, O, L
<1> QED BY <1>3, <1>4, <1>11, <1>12, <1>13, SizedNext
(* The entry of the time table for the millisecond.                         *)
LEMMA SizedTime ==
  ASSUME TypeOK, PastInv, ExtInv, NEW p \in Part, NEW c \in Class, Sized(p, c), UpdateTimingTable
  PROVE  Sized(p, c)'
<1> DEFINE tt == timeTable[p][c]
           tt2 == timeTable'[p][c]
           O == Own(fired, p, c, simTime)
           I == 0 .. MsPerSec + maxDelay
           last == Cur
<1>1. /\ phase = "time" /\ phase' \in {"deliver", "route"} /\ routes' = spikeRoutingTable
      /\ (phase' = "deliver" => routes' = {}) /\ fired' = fired
      /\ spikeCountSec' = spikeCountSec /\ spikeCountLastSecLeftD2' = spikeCountLastSecLeftD2
  BY DEF UpdateTimingTable
<1>2. simTime' = simTime /\ Base' = Base /\ Cur' = last + 1 /\ Standing /\ simTimeMs' = simTimeMs
  BY Movement
<1>3. /\ Done = last /\ last = simTimeMs + maxDelay /\ Base + last - maxDelay = simTime
      /\ simTimeMs + maxDelay + 1 = last + 1
  <2>1. Done = Cur /\ Cur = simTimeMs + maxDelay /\ ~Begun
    BY <1>2, WhereIs DEF WhereFacts
  <2>2. Base + Cur - maxDelay = simTime
    BY <2>1, Clock
  <2> HIDE DEF Cur, Done, Base, simTime
  <2> QED BY <2>1, <2>2
<1>4. /\ Logged(p, c)' = Logged(p, c) /\ Ahead(p, c) = Cardinality(O) /\ Ahead(p, c)' = 0
      /\ phase' # "convert"
  BY <1>1 DEF Logged, Ahead
<1>5. Logged(p, c) <= tt[last] + Cardinality(O)
  BY <1>4 DEF Sized
<1>6. tt \in [I -> Int] /\ simTimeMs + maxDelay + 1 \in I
  <2>1. timeTable \in [Part -> [Class -> [I -> Int]]]
    BY DEF TypeOK
  <2>2. simTimeMs + maxDelay + 1 \in I
    BY TimeTableEntries
  <2> HIDE DEF I
  <2> QED BY <2>1, <2>2
<1>7. tt2 = [tt EXCEPT ![simTimeMs + maxDelay + 1] = Logged(p, c)]
  BY DEF UpdateTimingTable
<1>8. last \in Nat /\ FirstOf(c) \in Nat /\ FirstOf(c) <= last /\ Base \in Int /\ Logged(p, c) \in Int
  BY <1>3, SizeTypes
<1>9. O \in SUBSET SpikesAt(fired, p, c, simTime) /\ Cardinality(O) \in Nat
  <2>1. O \subseteq Neuron
    BY DEF Own
  <2> QED BY <2>1, Gathered, NeuronsCounted
<1>10. tt2[last + 1] = Logged(p, c) /\ \A i \in FirstOf(c) .. last : tt2[i] = tt[i] /\ tt[i] \in Int
  <2>1. \A i \in FirstOf(c) .. last : i # last + 1 /\ i \in I
    <3>1. last + 1 \in I
      BY <1>3, <1>6
    <3> HIDE DEF last, FirstOf
    <3> QED BY <1>8, <3>1, PartitionTypes
  <2> HIDE DEF tt, tt2, I, last, FirstOf, Logged
  <2> QED BY <1>3, <1>6, <1>7, <2>1
<1>11. Bounded(tt, fired, p, c, Base, last)
  BY <1>3 DEF Sized
<1>12. Bounded(tt2, fired, p, c, Base, last)
  <2> HIDE DEF tt, tt2, last, Bounded, Base
  <2> QED BY <1>10, <1>11, BoundedSame
<1>13. Bounded(tt2, fired, p, c, Base, last + 1)
  <2>1. fired \in SUBSET (Neuron \X Nat)
    BY SizeTypes
  <2>2. O \in SUBSET SpikesAt(fired, p, c, Base + last - maxDelay)
    BY <1>3, <1>9
  <2>3. \A i \in FirstOf(c) .. last : tt[i] \in Int /\ tt2[i] = tt[i]
    BY <1>10
  <2>4. tt2[last + 1] \in Int /\ tt2[last + 1] <= tt[last] + Cardinality(O)
    BY <1>5, <1>8, <1>10
  <2> HIDE DEF tt, tt2, last, Bounded, Base, O, FirstOf
  <2> QED BY <1>8, <1>11, <2>1, <2>2, <2>3, <2>4, BoundedNext
<1>14. tt2[FirstOf(c)] = 0
  <2>1. FirstOf(c) \in FirstOf(c) .. last
    BY <1>8
  <2>2. tt[FirstOf(c)] = 0
    BY DEF Sized
  <2> QED BY <1>10, <2>1, <2>2
<1>15. Done' = last \/ (Done' = last + 1)
  BY <1>2, <1>8 DEF Done
<1>16. Bounded(tt2, fired, p, c, Base, Done')
  <2> HIDE DEF tt2, last, Bounded, Base
  <2> QED BY <1>12, <1>13, <1>15
<1>17. Have(p, c)' = O
  <2>1. Fetched(fired, p, c, simTime, {}) = {}
    BY DEF Fetched
  <2>2. Have(p, c)' = Own(fired', p, c, simTime') \union Fetched(fired', p, c, simTime', spikeRoutingTable \ routes')
    BY DEF Have, Own, Fetched, SrcNet, DestNet
  <2> QED BY <1>1, <1>2, <2>1, <2>2
<1>18. tt2[Cur'] <= tt2[Cur' - 1] + Cardinality(O)
  <2>1. Cur' = last + 1 /\ Cur' - 1 = last /\ last \in FirstOf(c) .. last
    BY <1>2, <1>8
  <2> QED BY <1>5, <1>10, <2>1
<1>19. Logged(p, c)' <= tt2[Cur'] + 0
  BY <1>2, <1>4, <1>8, <1>10
<1> HIDE DEF O, last, tt, I, Base, Cur, Done
<1> QED BY <1>1, <1>2, <1>4, <1>14, <1>16, <1>17, <1>18, <1>19, SizedNext

(* The external spikes are copied over.                                     *)
LEMMA SizedFork ==
  ASSUME TypeOK, PastInv, ExtInv, NEW p \in Part, NEW c \in Class, Sized(p, c),
         NEW r \in routes, RouteFork(r)
  PROVE  Sized(p, c)'
<1>1. /\ timeTable' = timeTable /\ spikeCountSec' = spikeCountSec /\ fired' = fired
      /\ spikeCountLastSecLeftD2' = spikeCountLastSecLeftD2 /\ routes' = routes
      /\ extFiringTable' = extFiringTable /\ rte' = r /\ phase = "route" /\ phase' = "convert"
      /\ threads' = { [grp |-> g, start |-> startIdx(r, g), count |-> Nobody] : g \in Sent(r) }
  BY DEF RouteFork
<1>2. simTime' = simTime /\ Base' = Base /\ Cur' = Cur /\ Routing /\ Routing'
  BY Movement DEF Unmoved
<1>3. Done' = Done
  BY <1>2 DEF Done
<1>4. Have(p, c)' = Have(p, c)
  BY <1>1, <1>2 DEF Have, Own, Fetched, SrcNet, DestNet
<1>5. Logged(p, c)' = Logged(p, c) /\ Ahead(p, c) = 0
  BY <1>1 DEF Logged, Ahead
<1>6. Ahead(p, c)' = 0
  <2>1. Sent(rte)' = Sent(r)
    BY <1>1 DEF Sent, SrcNet, DestNet
  <2>2. \A g \in Sent(r) :
          [grp |-> g, start |-> startIdx(r, g), count |-> Nobody] \in threads'
    BY <1>1
  <2>3. \A g \in Sent(r) : \E th \in threads' : th.grp = g
    BY <2>2
  <2>4. Converted' = {}
    BY <2>1, <2>3 DEF Converted
  <2>5. SpikesOf(Converted, c)' = {}
    BY <2>4 DEF SpikesOf
  <2>6. Cardinality(SpikesOf(Converted, c)') = 0
    BY <2>5, FS_EmptySet
  <2> QED BY <1>1, <2>6 DEF Ahead
<1>7. \A th \in threads' : th.count = Nobody
  BY <1>1
<1> HIDE DEF Base, Cur, Done, Ahead, Logged, Routing, Have
<1> QED BY <1>1, <1>2, <1>3, <1>4, <1>5, <1>6, <1>7, SizedNext DEF Sized
(* A thread of convertExtSpikes reads the count.                            *)
LEMMA SizedRead ==
  ASSUME TypeOK, PastInv, ExtInv, NEW p \in Part, NEW c \in Class, Sized(p, c),
         NEW th \in threads, ConvertRead(th)
  PROVE  Sized(p, c)'
<1> DEFINE read == [th EXCEPT !.count = spikeCountSec[DestNet(rte)][ClassOf[th.grp]]]
<1>1. /\ timeTable' = timeTable /\ spikeCountSec' = spikeCountSec /\ fired' = fired
      /\ spikeCountLastSecLeftD2' = spikeCountLastSecLeftD2 /\ routes' = routes
      /\ extFiringTable' = extFiringTable /\ rte' = rte /\ phase = "convert" /\ phase' = "convert"
      /\ threads' = (threads \ {th}) \union {read}
  BY DEF ConvertRead, convertUnchanged
<1>2. simTime' = simTime /\ Base' = Base /\ Cur' = Cur /\ Routing /\ Routing'
  BY Movement DEF Unmoved
<1>3. Done' = Done
  BY <1>2 DEF Done
<1>4. Have(p, c)' = Have(p, c)
  BY <1>1, <1>2 DEF Have, Own, Fetched, SrcNet, DestNet
<1>5. th \in [grp : Group, start : Int, count : Int]
  BY DEF TypeOK
<1>6. read.grp = th.grp /\ read.count = spikeCountSec[DestNet(rte)][ClassOf[th.grp]]
  BY <1>5
<1> HIDE DEF read
<1>7. Logged(p, c)' = Logged(p, c) /\ LeftOver(p, c)' = LeftOver(p, c) /\ DestNet(rte)' = DestNet(rte)
  BY <1>1 DEF Logged, LeftOver, DestNet
<1>8. Ahead(p, c)' = Ahead(p, c)
  <2>1. Sent(rte)' = Sent(rte)
    BY <1>1 DEF Sent, SrcNet, DestNet
  <2>2. Converted' = Converted
    BY <1>1, <1>6, <2>1 DEF Converted
  <2>3. SpikesOf(Converted, c)' = SpikesOf(Converted, c)
    BY <1>1, <2>2 DEF SpikesOf
  <2> QED BY <1>1, <1>7, <2>3 DEF Ahead
<1>9. Logged(p, c) = spikeCountSec[p][c] + LeftOver(p, c)
  BY SizeTypes
<1>10. ASSUME p = DestNet(rte), NEW u \in threads', u.count # Nobody, ClassOf[u.grp] = c
       PROVE  u.count + LeftOver(p, c) <= timeTable[p][c][Cur] + Ahead(p, c)
  <2>1. CASE u \in threads
    BY <1>1, <1>10, <2>1 DEF Sized
  <2>2. CASE u = read
    <3>1. u.count + LeftOver(p, c) = Logged(p, c)
      BY <1>6, <1>9, <1>10, <2>2
    <3> QED BY <3>1 DEF Sized
  <2> QED BY <1>1, <2>1, <2>2
<1> HIDE DEF Base, Cur, Done, Ahead, Logged, Routing, Have, LeftOver, DestNet
<1> QED BY <1>1, <1>2, <1>3, <1>4, <1>7, <1>8, <1>10, SizedNext DEF Sized

(* The groups that have been converted, when a thread ends.                 *)
LEMMA OneMore ==
  ASSUME TypeOK, ExtInv, phase = "convert", NEW th \in threads, ConvertWrite(th)
  PROVE  /\ th.grp \in Sent(rte) /\ Sent(rte) \subseteq Group /\ DestNet(rte) \in Part
         /\ Converted \subseteq Group /\ th.grp \notin Converted
         /\ Sent(rte)' = Sent(rte)
         /\ Converted' = Converted \union {th.grp}
<1>1. /\ th.grp \in Sent(rte) /\ \A x, u \in threads : x.grp = u.grp => x = u
      /\ rte \in routes
  BY DEF ExtInv
<1>2. DestNet(rte) \in Part
  BY PartitionAssumption DEF TypeOK, DestNet
<1>3. Sent(rte) \subseteq Group
  BY <1>2 DEF Sent, groupPartitionList
<1>4. extFiringTable' = extFiringTable /\ rte' = rte /\ threads' = threads \ {th}
  BY DEF ConvertWrite, convertUnchanged
<1>5. Sent(rte)' = Sent(rte)
  BY <1>4 DEF Sent, SrcNet, DestNet
<1>6. Converted' = { h \in Sent(rte) : \A u \in threads \ {th} : u.grp # h }
  BY <1>4, <1>5 DEF Converted
<1>7. \A u \in threads \ {th} : u.grp # th.grp
  BY <1>1
<1>8. Converted' = Converted \union {th.grp}
  BY <1>1, <1>6, <1>7 DEF Converted
<1> QED BY <1>1, <1>2, <1>3, <1>5, <1>8 DEF Converted

(* It writes the count, whatever it read.                                   *)
LEMMA SizedWrite ==
  ASSUME TypeOK, PastInv, ExtInv, NEW p \in Part, NEW c \in Class, Sized(p, c),
         NEW th \in threads, ConvertWrite(th)
  PROVE  Sized(p, c)'
<1> DEFINE q == DestNet(rte)
           g == th.grp
           d == ClassOf[g]
           n == Cardinality(extFiringTable[g])
<1>1. /\ timeTable' = timeTable /\ fired' = fired
      /\ spikeCountLastSecLeftD2' = spikeCountLastSecLeftD2 /\ routes' = routes
      /\ extFiringTable' = extFiringTable /\ rte' = rte /\ phase = "convert" /\ phase' = "convert"
      /\ threads' = threads \ {th} /\ th.count # Nobody
      /\ spikeCountSec' = [spikeCountSec EXCEPT ![q][d] = th.count + n]
  BY DEF ConvertWrite, convertUnchanged, Counted
<1>2. simTime' = simTime /\ Base' = Base /\ Cur' = Cur /\ Routing /\ Routing'
  BY Movement DEF Unmoved
<1>3. Done' = Done
  BY <1>2 DEF Done
<1>4. Have(p, c)' = Have(p, c)
  BY <1>1, <1>2 DEF Have, Own, Fetched, SrcNet, DestNet
<1>5. LeftOver(p, c)' = LeftOver(p, c) /\ DestNet(rte)' = q
  BY <1>1 DEF LeftOver, DestNet
<1>6. /\ q \in Part /\ g \in Group /\ d \in Class /\ n \in Nat /\ th.count \in Int
      /\ Converted \in SUBSET Group /\ g \notin Converted
      /\ Converted' = Converted \union {g}
  <2>1. g \in Group /\ Converted \in SUBSET Group /\ g \notin Converted /\ Converted' = Converted \union {g}
        /\ q \in Part
    BY <1>1, OneMore
  <2>2. th \in [grp : Group, start : Int, count : Int]
    BY DEF TypeOK
  <2> QED BY <2>1, <2>2, ExternalCounted, PartitionTypes
<1>7. spikeCountSec'[p][c] = IF p = q /\ c = d THEN th.count + n ELSE spikeCountSec[p][c]
  <2>1. spikeCountSec \in [Part -> [Class -> Int]]
    BY DEF TypeOK
  <2> HIDE DEF q, d, n
  <2> QED BY <1>1, <1>6, <2>1
<1> DEFINE more == IF p = q /\ c = d THEN n ELSE 0
<1>8. Ahead(p, c)' = Ahead(p, c) + more /\ Ahead(p, c) \in Nat /\ more \in Nat
  <2>1. SpikesOf(Converted, c)' = SpikesOf(Converted \union {g}, c)
    BY <1>1, <1>6 DEF SpikesOf
  <2>2. Cardinality(SpikesOf(Converted, c)) \in Nat
    BY <1>6, SpikesCounted
  <2>3. Cardinality(SpikesOf(Converted \union {g}, c))
          = Cardinality(SpikesOf(Converted, c)) + IF d = c THEN n ELSE 0
    BY <1>6, SpikesJoined
  <2>4. Cardinality(SpikesOf(Converted, c)')
          = Cardinality(SpikesOf(Converted, c)) + IF d = c THEN n ELSE 0
    BY <2>1, <2>3
  <2>5. Ahead(p, c) = IF p = q THEN Cardinality(SpikesOf(Converted, c)) ELSE 0
    BY <1>1 DEF Ahead
  <2>6. Ahead(p, c)' = IF p = q THEN Cardinality(SpikesOf(Converted, c)') ELSE 0
    BY <1>1, <1>5 DEF Ahead
  <2> HIDE DEF q, d, n, Ahead
  <2> QED BY <1>6, <2>2, <2>4, <2>5, <2>6
<1>9. timeTable[p][c][Cur] \in Int /\ LeftOver(p, c) \in Int /\ Logged(p, c) \in Int
      /\ spikeCountSec[p][c] \in Int /\ Logged(p, c) = spikeCountSec[p][c] + LeftOver(p, c)
  BY SizeTypes
<1>10. Logged(p, c)' = spikeCountSec'[p][c] + LeftOver(p, c)
  BY <1>5 DEF Logged, LeftOver
<1>11. Logged(p, c)' <= timeTable'[p][c][Cur'] + Ahead(p, c)'
  <2>1. Logged(p, c) <= timeTable[p][c][Cur] + Ahead(p, c)
    BY DEF Sized
  <2>2. p = q /\ c = d => th.count + LeftOver(p, c) <= timeTable[p][c][Cur] + Ahead(p, c)
    BY <1>1 DEF Sized
  <2> PICK x, y, z, l, m, k : /\ x = timeTable[p][c][Cur] /\ y = Ahead(p, c) /\ z = th.count
                           /\ l = LeftOver(p, c) /\ m = more /\ k = spikeCountSec[p][c]
    OBVIOUS
  <2>3. timeTable'[p][c][Cur'] = x
    BY <1>1, <1>2
  <2>4. Logged(p, c)' = (IF p = q /\ c = d THEN z + n ELSE k) + l /\ Ahead(p, c)' = y + m
        /\ m = IF p = q /\ c = d THEN n ELSE 0
    BY <1>7, <1>8, <1>10
  <2>5. x \in Int /\ y \in Int /\ z \in Int /\ l \in Int /\ m \in Int /\ k \in Int /\ n \in Int
    BY <1>6, <1>8, <1>9
  <2>6. k + l <= x + y
    BY <1>9, <2>1
  <2>7. p = q /\ c = d => z + l <= x + y
    BY <2>2
  <2> HIDE DEF q, d, n
  <2> QED
    BY <2>3, <2>4, <2>5, <2>6, <2>7
<1>12. ASSUME p = q, NEW u \in threads', u.count # Nobody, ClassOf[u.grp] = c
       PROVE  u.count + LeftOver(p, c)' <= timeTable'[p][c][Cur'] + Ahead(p, c)'
  <2>1. u.count + LeftOver(p, c) <= timeTable[p][c][Cur] + Ahead(p, c)
    BY <1>1, <1>12 DEF Sized
  <2>2. u.count \in Int
    <3>1. u \in [grp : Group, start : Int, count : Int]
      BY <1>1 DEF TypeOK
    <3> QED BY <3>1
  <2> PICK x, y, l, m : /\ x = timeTable[p][c][Cur] /\ y = Ahead(p, c)
                        /\ l = LeftOver(p, c) /\ m = more
    OBVIOUS
  <2>3. timeTable'[p][c][Cur'] = x /\ LeftOver(p, c)' = l /\ Ahead(p, c)' = y + m
    BY <1>1, <1>2, <1>5, <1>8
  <2>4. x \in Int /\ y \in Int /\ l \in Int /\ m \in Nat
    BY <1>8, <1>9
  <2> HIDE DEF q, d, n, more
  <2> QED BY <2>1, <2>2, <2>3, <2>4
<1>13. Bounded(timeTable'[p][c], fired', p, c, Base', Done') /\ timeTable'[p][c][FirstOf(c)] = 0
       /\ timeTable'[p][c][Cur'] <= timeTable'[p][c][Cur' - 1] + Cardinality(Have(p, c)')
  BY <1>1, <1>2, <1>3, <1>4 DEF Sized
<1> HIDE DEF Base, Cur, Done, Ahead, Logged, Routing, Have, LeftOver, more, n, d, g
<1> QED BY <1>5, <1>11, <1>12, <1>13, SizedNext
(* An entry has been served.                                                *)
LEMMA SizedJoin ==
  ASSUME TypeOK, PastInv, ExtInv, RoutesOnce,
         NEW p \in Part, NEW c \in Class, Sized(p, c), RouteJoin
  PROVE  Sized(p, c)'
<1> DEFINE q == DestNet(rte)
           tt == timeTable[p][c]
           tt2 == timeTable'[p][c]
           I == 0 .. MsPerSec + maxDelay
           i == simTimeMs + maxDelay + 1
           n == Cardinality(SpikesOf(Sent(rte), c))
           G == Fetched(fired, p, c, simTime, {rte})
           more == IF p = q THEN n ELSE 0
           H == Have(p, c)
           H2 == Have(p, c)'
<1>1. /\ fired' = fired /\ spikeCountSec' = spikeCountSec
      /\ spikeCountLastSecLeftD2' = spikeCountLastSecLeftD2 /\ routes' = routes \ {rte}
      /\ phase = "convert" /\ phase' \in {"deliver", "route"}
      /\ (phase' = "deliver" => routes' = {}) /\ threads = {}
  BY DEF RouteJoin
<1>2. simTime' = simTime /\ Base' = Base /\ Cur' = Cur /\ Begun' /\ Routing
  BY Movement DEF Unmoved
<1>3. /\ Done = Cur - 1 /\ Cur = i /\ Base + Done - maxDelay = simTime /\ (Done' = Cur \/ Done' = Cur - 1)
      /\ Cur = Done + 1
  <2>1. Done = Cur - 1 /\ Cur = i /\ Begun
    BY <1>2, WhereIs DEF WhereFacts
  <2>2. Base + Cur - maxDelay = simTime + 1 /\ Base \in Int /\ Cur \in Int /\ simTime \in Int
    BY <2>1, Clock
  <2>3. Done' = Cur' \/ Done' = Cur' - 1
    BY DEF Done
  <2> HIDE DEF Cur, Base, simTime, i, Done
  <2> QED BY <1>2, <2>1, <2>2, <2>3, PartitionTypes
<1>4. rte \in routes /\ rte \in spikeRoutingTable /\ q \in Part
  BY <1>1, PartitionAssumption DEF ExtInv, TypeOK, DestNet
<1>5. Ahead(p, c) = more /\ Ahead(p, c)' = 0 /\ Logged(p, c)' = Logged(p, c)
  <2>1. Converted = Sent(rte)
    BY <1>1 DEF Converted
  <2>2. phase' # "time" /\ phase' # "convert"
    BY <1>1
  <2> QED BY <1>1, <2>1, <2>2 DEF Ahead, Logged
<1>6. n \in Nat /\ (p = q => n <= Cardinality(G))
  BY <1>2, <1>4, TransferBounded DEF Routing, Begun
<1>7. tt \in [I -> Int] /\ i \in I
  <2>1. timeTable \in [Part -> [Class -> [I -> Int]]]
    BY DEF TypeOK
  <2>2. i \in I
    BY TimeTableEntries
  <2> HIDE DEF I, i
  <2> QED BY <2>1, <2>2
<1>8. tt2 = [tt EXCEPT ![i] = tt[i] + more]
  <2>1. timeTable \in [Part -> [Class -> [I -> Int]]]
    BY DEF TypeOK
  <2>2. timeTable' = [timeTable EXCEPT ![q] = [d \in Class |->
                        [timeTable[q][d] EXCEPT ![i] = timeTable[q][d][i] + Cardinality(SpikesOf(Sent(rte), d))]]]
    BY <2>1 DEF RouteJoin, firingTableIdx
  <2>3. CASE p = q
    <3>1. tt2 = [tt EXCEPT ![i] = tt[i] + n]
      <4> HIDE DEF i, I, n
      <4>1. timeTable'[q] = [d \in Class |->
                        [timeTable[q][d] EXCEPT ![i] = timeTable[q][d][i] + Cardinality(SpikesOf(Sent(rte), d))]]
        BY <1>4, <2>1, <2>2
      <4> QED BY <2>3, <4>1 DEF n
    <3> QED BY <2>3, <3>1
  <2>4. CASE p # q
    <3>1. tt2 = tt /\ more = 0
      <4> HIDE DEF i, I, n, q
      <4> QED BY <1>4, <2>1, <2>2, <2>4
    <3>2. tt[i] + more = tt[i]
      <4>1. tt[i] \in Int
        <5> HIDE DEF i, I, tt
        <5> QED BY <1>7
      <4> QED BY <3>1, <4>1
    <3> HIDE DEF i, I, tt, tt2, more
    <3> QED BY <1>7, <3>1, <3>2
  <2> QED BY <2>3, <2>4
<1>9. more \in Nat /\ more <= Cardinality(G)
  <2>1. G \in SUBSET Neuron
    BY DEF Fetched
  <2>2. Cardinality(G) \in Nat
    <3> HIDE DEF G
    <3> QED BY <2>1, NeuronsCounted
  <2> HIDE DEF G, n
  <2> QED BY <1>6, <2>2
<1>10. tt2[Cur] = tt[Cur] + more /\ \A k \in FirstOf(c) .. Done : tt2[k] = tt[k] /\ tt[k] \in Int
  <2>1. \A k \in FirstOf(c) .. Done : k # i /\ k \in I
    <3>1. FirstOf(c) \in Nat /\ Done \in Nat /\ Cur \in Nat
      BY SizeTypes
    <3>2. i \in I /\ Done < i
      BY <1>3, <1>7, <3>1
    <3> HIDE DEF i, Done, Cur, FirstOf
    <3> QED BY <3>1, <3>2, PartitionTypes
  <2> HIDE DEF tt, tt2, I, i, FirstOf, more, Done
  <2> QED BY <1>3, <1>7, <1>8, <2>1
<1>11. /\ H2 = H \union G /\ H \cap G = {} /\ H2 \in SUBSET SpikesAt(fired, p, c, simTime)
  <2>1. H2 = H \union G /\ H \cap G = {}
    BY <1>1, <1>2, <1>4, HaveGrows
  <2>2. Own(fired, p, c, simTime) \subseteq SpikesAt(fired, p, c, simTime)
        /\ Fetched(fired, p, c, simTime, spikeRoutingTable \ routes) \subseteq SpikesAt(fired, p, c, simTime)
    BY Gathered
  <2>3. {rte} \in SUBSET spikeRoutingTable
    BY <1>4
  <2>4. G \subseteq SpikesAt(fired, p, c, simTime)
    BY <2>3, Gathered
  <2> QED BY <2>1, <2>2, <2>4 DEF Have
<1>12. Cardinality(H2) = Cardinality(H) + Cardinality(G) /\ Cardinality(H) \in Nat /\ Cardinality(G) \in Nat
  <2>1. H \in SUBSET Neuron /\ G \in SUBSET Neuron
    BY DEF Have, Own, Fetched
  <2> HIDE DEF H, G, H2
  <2>2. /\ IsFiniteSet(H) /\ IsFiniteSet(G) /\ Cardinality(H) \in Nat /\ Cardinality(G) \in Nat
    BY <2>1, NeuronsCounted
  <2>3. Cardinality(H \union G) = Cardinality(H) + Cardinality(G) - Cardinality(H \cap G)
    BY <2>2, FS_Union
  <2>4. Cardinality(H \cap G) = 0
    BY <1>11, FS_EmptySet
  <2> QED BY <1>11, <2>2, <2>3, <2>4
<1>13. tt2[Cur] <= tt2[Cur - 1] + Cardinality(H2)
  <2>1. tt[Cur] <= tt[Cur - 1] + Cardinality(H)
    BY <1>2 DEF Sized
  <2>2. tt2[Cur - 1] = tt[Cur - 1] /\ tt[Cur - 1] \in Int /\ tt[Cur] \in Int
    <3>1. Cur - 1 \in FirstOf(c) .. Done
      BY <1>3, SizeTypes
    <3>2. tt[Cur] \in Int
      <4> HIDE DEF tt, I, i
      <4> QED BY <1>3, <1>7
    <3> QED BY <1>10, <3>1, <3>2
  <2> HIDE DEF tt, tt2, H, H2, G, more, Cur
  <2> QED BY <1>9, <1>10, <1>12, <2>1, <2>2
<1>14. Bounded(tt, fired, p, c, Base, Done) /\ tt[FirstOf(c)] = 0
  BY DEF Sized
<1>15. Bounded(tt2, fired, p, c, Base, Done)
  <2> HIDE DEF tt, tt2, Done, Bounded, Base, more
  <2> QED BY <1>10, <1>14, BoundedSame
<1>16. Bounded(tt2, fired, p, c, Base, Done + 1)
  <2>1. fired \in SUBSET (Neuron \X Nat) /\ Base \in Int /\ Done \in Nat /\ FirstOf(c) <= Done
    BY SizeTypes
  <2>2. H2 \in SUBSET SpikesAt(fired, p, c, Base + Done - maxDelay)
    BY <1>3, <1>11
  <2>3. \A k \in FirstOf(c) .. Done : tt[k] \in Int /\ tt2[k] = tt[k]
    BY <1>10
  <2>4. tt2[Done + 1] \in Int /\ tt2[Done + 1] <= tt[Done] + Cardinality(H2)
    <3>1. Done \in FirstOf(c) .. Done
      BY SizeTypes
    <3>2. tt2[Done] = tt[Done] /\ Cur - 1 = Done
      BY <1>3, <2>3, <3>1
    <3>3. tt2[Cur] \in Int
      <4>1. tt[Cur] \in Int
        <5> HIDE DEF tt, I, i
        <5> QED BY <1>3, <1>7
      <4> HIDE DEF more
      <4> QED BY <1>9, <1>10, <4>1
    <3> QED BY <1>3, <1>13, <3>2, <3>3
  <2> HIDE DEF tt, tt2, Done, Bounded, Base, H2, FirstOf
  <2> QED BY <1>14, <2>1, <2>2, <2>3, <2>4, BoundedNext
<1>17. Bounded(tt2, fired, p, c, Base, Done')
  <2> HIDE DEF tt2, Bounded, Base, Done, Cur
  <2> QED BY <1>3, <1>15, <1>16
<1>18. tt2[FirstOf(c)] = 0
  <2>1. FirstOf(c) \in FirstOf(c) .. Done
    BY SizeTypes
  <2> QED BY <1>10, <1>14, <2>1
<1>19. Logged(p, c)' <= tt2[Cur] + 0
  <2>1. Logged(p, c) <= tt[Cur] + more
    BY <1>5 DEF Sized
  <2>2. tt2[Cur] \in Int
    <3>1. tt[Cur] \in Int
      <4> HIDE DEF tt, I, i
      <4> QED BY <1>3, <1>7
    <3> HIDE DEF more
    <3> QED BY <1>9, <1>10, <3>1
  <2> QED BY <1>5, <1>10, <2>1, <2>2
<1>20. phase' # "convert"
  BY <1>1
<1> HIDE DEF q, I, H, G, n, more, i, Base, Cur, Done
<1> QED BY <1>1, <1>2, <1>5, <1>13, <1>17, <1>18, <1>19, <1>20, SizedNext DEF H2

(* The shift.                                                               *)
LEMMA SizedSecond ==
  ASSUME TypeOK, PastInv, NEW p \in Part, NEW c \in Class, Sized(p, c), FinishSecond
  PROVE  Sized(p, c)'
<1> DEFINE tt == timeTable[p][c]
           tt2 == timeTable'[p][c]
<1>1. /\ fired' = fired /\ phase = "second" /\ phase' \in {"stop", "schedule"}
      /\ spikeCountSec' = [q \in Part |-> [d \in Class |-> 0]]
      /\ spikeCountLastSecLeftD2' = [q \in Part |-> timeTable'[q][D2][maxDelay]]
  BY DEF FinishSecond, ShiftSpikeTables
<1>2. /\ Base' = Base + MsPerSec /\ Cur' = maxDelay /\ Standing'
      /\ Cur = MsPerSec + maxDelay /\ Done = MsPerSec + maxDelay
  BY <1>1, Movement, WhereIs DEF WhereFacts
<1>3. Done' = maxDelay /\ ~Routing' /\ phase' # "convert" /\ phase' # "time"
  BY <1>1, <1>2 DEF Done, Routing
<1>4. Ahead(p, c)' = 0
  BY <1>3 DEF Ahead
<1>5. Bounded(tt, fired, p, c, Base, MsPerSec + maxDelay) /\ tt[FirstOf(c)] = 0
  BY <1>2 DEF Sized
<1>6. maxDelay \in Nat \ {0} /\ MsPerSec \in Nat \ {0} /\ D1 # D2
      /\ Base \in Int /\ fired \in SUBSET (Neuron \X Nat)
  BY PartitionTypes, SizeTypes DEF D1, D2
<1>7. tt2[maxDelay] \in Int
  <2>1. TypeOK'
    BY TypesStep DEF Next
  <2> DEFINE I == 0 .. MsPerSec + maxDelay
  <2>2. maxDelay \in I
    BY TimeTableEntries
  <2>3. timeTable' \in [Part -> [Class -> [I -> Int]]]
    BY <2>1 DEF TypeOK
  <2> HIDE DEF I
  <2> QED BY <2>2, <2>3
<1>8. Logged(p, c)' <= tt2[maxDelay]
  <2>1. spikeCountSec'[p][c] = 0 /\ spikeCountLastSecLeftD2'[p] = timeTable'[p][D2][maxDelay]
    BY <1>1
  <2>2. CASE c = D2
    <3>1. Logged(p, c)' = 0 + tt2[maxDelay]
      BY <2>1, <2>2 DEF Logged
    <3> HIDE DEF tt2
    <3> QED BY <1>7, <3>1
  <2>3. CASE c = D1
    <3>1. Logged(p, c)' = 0 + 0
      BY <1>6, <2>1, <2>3 DEF Logged
    <3>2. tt2 = [ShiftedTimes(timeTable[p][D1]) EXCEPT ![maxDelay] = 0]
      BY <1>6, <2>3 DEF FinishSecond, ShiftSpikeTables
    <3>3. maxDelay \in DOMAIN ShiftedTimes(timeTable[p][D1])
      <4>1. DOMAIN timeTable[p][D1] = 0 .. MsPerSec + maxDelay
        BY TimeTableEntries DEF TypeOK
      <4> QED BY <4>1, TimeTableEntries DEF ShiftedTimes
    <3> QED BY <3>1, <3>2, <3>3
  <2> QED BY <2>2, <2>3 DEF Class
<1>9. tt2[FirstOf(c)] = 0 /\ Bounded(tt2, fired, p, c, Base + MsPerSec, maxDelay)
  <2>1. CASE c = D2
    <3> DEFINE I == 0 .. MsPerSec + maxDelay
    <3>1. timeTable \in [Part -> [Class -> [I -> Int]]]
      BY DEF TypeOK
    <3>2. tt \in [I -> Int]
      <4> HIDE DEF I
      <4> QED BY <3>1
    <3>3. tt2 = [i \in I |-> IF i \in 1 .. maxDelay THEN tt[MsPerSec + i] - tt[MsPerSec] ELSE tt[i]]
      <4>1. tt2 = ShiftedTimes(tt)
        BY <2>1 DEF FinishSecond, ShiftSpikeTables
      <4> QED BY <3>2, <4>1 DEF ShiftedTimes
    <3>4. 0 \in I /\ MsPerSec \in I /\ MsPerSec + 0 = MsPerSec /\ \A i \in 0 .. maxDelay : i \in I
      BY <1>6
    <3>5. \A i \in 0 .. maxDelay : i = 0 \/ i \in 1 .. maxDelay
      BY <1>6
    <3>6. 0 \notin 1 .. maxDelay /\ FirstOf(c) = 0
      BY <2>1, Entries
    <3>7. tt2[0] = 0
      <4> HIDE DEF I, tt, tt2
      <4> QED BY <1>5, <3>3, <3>4, <3>6
    <3>8. ASSUME NEW i \in 0 .. maxDelay PROVE tt2[i] = tt[MsPerSec + i] - tt[MsPerSec]
      <4>1. tt[MsPerSec] \in Int
        <5> HIDE DEF I, tt
        <5> QED BY <3>2, <3>4
      <4>2. CASE i = 0
        <5> HIDE DEF I, tt, tt2
        <5> QED BY <3>4, <3>7, <4>1, <4>2
      <4>3. CASE i \in 1 .. maxDelay
        <5> HIDE DEF I, tt, tt2
        <5> QED BY <3>3, <3>4, <4>3
      <4> QED BY <3>5, <4>2, <4>3
    <3>9. \A i \in 0 .. MsPerSec + maxDelay : tt[i] \in Int
      BY <3>2
    <3> HIDE DEF I, tt, tt2, Base, Bounded
    <3> QED BY <1>5, <1>6, <2>1, <3>6, <3>7, <3>8, <3>9, BoundedShifted
  <2>2. CASE c = D1
    <3>1. FirstOf(c) = maxDelay
      BY <2>2, Entries
    <3>2. tt2 = [ShiftedTimes(timeTable[p][D1]) EXCEPT ![maxDelay] = 0]
      BY <1>6, <2>2 DEF FinishSecond, ShiftSpikeTables
    <3>3. maxDelay \in DOMAIN ShiftedTimes(timeTable[p][D1])
      <4>1. DOMAIN timeTable[p][D1] = 0 .. MsPerSec + maxDelay
        BY TimeTableEntries DEF TypeOK
      <4> QED BY <4>1, TimeTableEntries DEF ShiftedTimes
    <3>4. tt2[maxDelay] = 0
      BY <3>2, <3>3
    <3> SUFFICES ASSUME NEW i \in maxDelay .. maxDelay, NEW j \in maxDelay .. maxDelay
                 PROVE  tt2[j] - tt2[i] <= Cardinality(SpikesIn(fired, p, c, Base + MsPerSec + i - maxDelay,
                                                                     Base + MsPerSec + j - maxDelay))
      BY <3>1, <3>4 DEF Bounded
    <3>5. i = maxDelay /\ j = maxDelay
      BY <1>6
    <3>6. PICK a : a = Base + MsPerSec + maxDelay - maxDelay
      OBVIOUS
    <3>7. a \in Int
      BY <1>6, <3>6
    <3>8. Cardinality(SpikesIn(fired, p, c, a, a)) \in Nat
      BY <1>6, <3>7, SpikesCountedIn
    <3> HIDE DEF tt2, Base
    <3> QED BY <3>4, <3>5, <3>6, <3>8
  <2> QED BY <2>1, <2>2 DEF Class
<1>10. Logged(p, c)' <= tt2[maxDelay] + 0
  BY <1>7, <1>8
<1> HIDE DEF tt2, Base, Cur, Done, Ahead, Logged
<1> QED BY <1>1, <1>2, <1>3, <1>4, <1>9, <1>10, SizedNext DEF tt2

(* The tables are empty when the kernel starts.                             *)
LEMMA SizeInit ==
  Init => SizeInv
<1> SUFFICES ASSUME Init, NEW p \in Part, NEW c \in Class PROVE Sized(p, c)
  BY DEF SizeInv
<1> DEFINE I == 0 .. MsPerSec + maxDelay
<1>1. timeTable = [q \in Part |-> [d \in Class |-> [i \in I |-> 0]]]
  BY DEF Init
<1>2. \A i \in I : timeTable[p][c][i] = 0
  <2> HIDE DEF I
  <2> QED BY <1>1
<1>3. TypeOK /\ PastInv
  BY TypesInit, PastInit
<1>4. phase = "idle" /\ simTimeMs = 0 /\ fired = {}
  BY DEF Init
<1>5. Done = Cur /\ Cur = maxDelay + 0 /\ ~Routing /\ Ahead(p, c) = 0
  BY <1>4, PartitionTypes DEF Done, Cur, Routing, Begun, Ahead
<1>6. maxDelay \in I /\ FirstOf(c) \in I /\ \A i \in FirstOf(c) .. MsPerSec + maxDelay : i \in I
  BY TimeTableEntries, <1>3, Entries, PartitionTypes
<1>7. Logged(p, c) = 0
  BY DEF Init, Logged
<1>8. Done <= MsPerSec + maxDelay /\ Done \in Nat /\ FirstOf(c) \in Nat /\ MsPerSec + maxDelay \in Nat
  BY <1>3, SizeTypes
<1>9. Bounded(timeTable[p][c], fired, p, c, Base, Done)
  <2> SUFFICES ASSUME NEW i \in FirstOf(c) .. Done, NEW j \in FirstOf(c) .. Done, i <= j
               PROVE  timeTable[p][c][j] - timeTable[p][c][i]
                        <= Cardinality(SpikesIn(fired, p, c, Base + i - maxDelay, Base + j - maxDelay))
    BY DEF Bounded
  <2>1. i \in I /\ j \in I
    <3> HIDE DEF I, FirstOf, Done
    <3> QED BY <1>6, <1>8
  <2>2. timeTable[p][c][i] = 0 /\ timeTable[p][c][j] = 0
    BY <1>2, <2>1
  <2>3. SpikesIn(fired, p, c, Base + i - maxDelay, Base + j - maxDelay) = {}
    BY <1>4 DEF SpikesIn
  <2> QED BY <2>2, <2>3, FS_EmptySet
<1>10. timeTable[p][c][Cur] = 0
  BY <1>2, <1>5, <1>6, PartitionTypes
<1>11. timeTable[p][c][FirstOf(c)] = 0
  BY <1>2, <1>6
<1> HIDE DEF I, Done, Cur, Logged
<1> QED BY <1>4, <1>5, <1>7, <1>9, <1>10, <1>11 DEF Sized

(* Every step leaves the tables no longer than what was fired accounts for. *)
LEMMA SizeStep ==
  TypeOK /\ PastInv /\ ExtInv /\ SizeInv /\ [Next]_vars => SizeInv'
<1> SUFFICES ASSUME TypeOK, PastInv, ExtInv, SizeInv, [Next]_vars, RoutesOnce,
                    NEW p \in Part, NEW c \in Class
             PROVE  Sized(p, c)'
  BY DEF SizeInv
<1>0. Sized(p, c)
  BY DEF SizeInv
<1>a. Standing => ~Routing /\ phase # "second"
  BY DEF Standing, Routing
<1>b. Standing' => ~Routing'
  BY DEF Standing, Routing
<1>1. ASSUME Unmoved, Standing, Standing', phase # "time", phase' # "time",
             UNCHANGED tableVars, fired' = fired
      PROVE  Sized(p, c)'
  BY <1>0, <1>1, <1>a, <1>b, SizedQuiet DEF Unmoved, tableVars
<1>2. ASSUME NEW d \in Durations, RunNetwork(d) PROVE Sized(p, c)'
  BY <1>1, <1>2, Movement DEF RunNetwork
<1>3. ASSUME Schedule PROVE Sized(p, c)'
  BY <1>1, <1>3, Movement DEF Schedule
<1>4. ASSUME NEW q \in Part, ClearBits(q) \/ FillBits(q) \/ CopyBits(q) PROVE Sized(p, c)'
  <2>1. UNCHANGED bitsUnchanged /\ phase = "generate"
    BY <1>4 DEF ClearBits, FillBits, CopyBits
  <2> QED BY <1>1, <1>4, <2>1, Movement DEF bitsUnchanged
<1>5. ASSUME StepBuffer PROVE Sized(p, c)'
  BY <1>1, <1>5, Movement DEF StepBuffer
<1>6. ASSUME FindFiring PROVE Sized(p, c)'
  BY <1>0, <1>6, SizedFire
<1>7. ASSUME UpdateTimingTable PROVE Sized(p, c)'
  BY <1>0, <1>7, SizedTime
<1>8. ASSUME NEW r \in routes, RouteFork(r) PROVE Sized(p, c)'
  BY <1>0, <1>8, SizedFork
<1>9. ASSUME NEW th \in threads, ConvertRead(th) PROVE Sized(p, c)'
  BY <1>0, <1>9, SizedRead
<1>10. ASSUME NEW th \in threads, ConvertWrite(th) PROVE Sized(p, c)'
  BY <1>0, <1>10, SizedWrite
<1>11. ASSUME RouteJoin PROVE Sized(p, c)'
  BY <1>0, <1>11, SizedJoin
<1>12. ASSUME DoCurrentUpdate PROVE Sized(p, c)'
  <2>1. phase = "deliver" /\ phase' = "advance" /\ UNCHANGED tableVars /\ fired' = fired
    BY <1>12 DEF DoCurrentUpdate
  <2> QED BY <1>0, <1>12, <2>1, Movement, SizedQuiet DEF Unmoved, tableVars
<1>13. ASSUME AdvanceTime PROVE Sized(p, c)'
  <2>1. phase = "advance" /\ UNCHANGED tableVars /\ fired' = fired
    BY <1>13 DEF AdvanceTime
  <2> QED BY <1>0, <1>13, <2>1, Movement, SizedQuiet DEF tableVars
<1>14. ASSUME FinishSecond PROVE Sized(p, c)'
  BY <1>0, <1>14, SizedSecond
<1>15. ASSUME FinishRun PROVE Sized(p, c)'
  BY <1>1, <1>15, Movement DEF FinishRun
<1>16. CASE UNCHANGED vars
  <2>1. /\ timeTable' = timeTable /\ spikeCountSec' = spikeCountSec /\ fired' = fired
        /\ spikeCountLastSecLeftD2' = spikeCountLastSecLeftD2 /\ routes' = routes
        /\ extFiringTable' = extFiringTable /\ rte' = rte /\ phase' = phase
        /\ threads' = threads /\ simTimeMs' = simTimeMs /\ simTimeSec' = simTimeSec
    BY <1>16 DEF vars, tableVars, routeVars
  <2>2. Base' = Base /\ Cur' = Cur /\ Done' = Done /\ Routing' = Routing /\ simTime' = simTime
    BY <2>1 DEF Base, Cur, Done, Routing, Begun, secondStart, simTime
  <2>3. Have(p, c)' = Have(p, c)
    BY <2>1, <2>2 DEF Have, Own, Fetched, SrcNet, DestNet
  <2>4. Logged(p, c)' = Logged(p, c) /\ LeftOver(p, c)' = LeftOver(p, c) /\ DestNet(rte)' = DestNet(rte)
    BY <2>1 DEF Logged, LeftOver, DestNet
  <2>5. Converted' = Converted
    BY <2>1 DEF Converted, Sent, SrcNet, DestNet
  <2>6. SpikesOf(Converted, c)' = SpikesOf(Converted, c)
    BY <2>1, <2>5 DEF SpikesOf
  <2>7. Own(fired, p, c, simTime)' = Own(fired, p, c, simTime)
    BY <2>1, <2>2 DEF Own
  <2>8. Ahead(p, c)' = Ahead(p, c)
    BY <2>1, <2>4, <2>6, <2>7 DEF Ahead
  <2> HIDE DEF Base, Cur, Done, Ahead, Logged, Routing, Have, LeftOver, DestNet
  <2> QED BY <1>0, <2>1, <2>2, <2>3, <2>4, <2>8, SizedNext DEF Sized
<1> QED
  BY <1>2, <1>3, <1>4, <1>5, <1>6, <1>7, <1>8, <1>9, <1>10, <1>11, <1>12, <1>13, <1>14, <1>15, <1>16
     DEF Next

-----------------------------------------------------------------------------
(* What is in the tables.                                                   *)

(* All that a table can hold has a place in it.                             *)
RoomFacts ==
  TypeOK /\ PastInv /\ SizeInv /\ RoutesOnce =>
    \A p \in Part, c \in Class : \A k \in Nat : k <= timeTable[p][c][Cur] => k \in Slot

(* So every entry that is counted has a slot, if routes are served once: no *)
(* neuron fires twice in a millisecond.                                     *)
LEMMA RoomFor == RoomFacts
<1> SUFFICES ASSUME TypeOK, PastInv, SizeInv, RoutesOnce,
                    NEW p \in Part, NEW c \in Class, NEW k \in Nat, k <= timeTable[p][c][Cur]
             PROVE  k \in Slot
  BY DEF RoomFacts
<1> DEFINE tt == timeTable[p][c]
           n == Cardinality(Neuron)
           low == FirstOf(c)
<1>1. Sized(p, c)
  BY DEF SizeInv
<1>2. /\ low \in Nat /\ low <= Done /\ Done <= Cur /\ Cur <= MsPerSec + maxDelay
      /\ Done \in Nat /\ Cur \in Nat /\ Base \in Int /\ maxDelay \in Nat /\ MsPerSec \in Nat
      /\ fired \in SUBSET (Neuron \X Nat)
      /\ \A i \in low .. MsPerSec + maxDelay : tt[i] \in Int
  BY SizeTypes
<1>3. Done = Cur \/ (Routing /\ Cur = Done + 1 /\ Base + Done - maxDelay = simTime)
  <2>1. Done = Cur \/ (Routing /\ Done = Cur - 1)
    BY DEF Done
  <2>2. Routing => Base + Cur - maxDelay = simTime + 1 /\ simTime \in Nat
    BY Clock, WhereIs DEF WhereFacts
  <2> HIDE DEF Done, Cur, Base, simTime, Routing
  <2> QED BY <1>2, <2>1, <2>2
<1> PICK a, b : a = Base + low - maxDelay /\ b = Base + Done - maxDelay
  OBVIOUS
<1>4. a \in Int /\ b \in Int /\ a <= b /\ b - a = Done - low
  <2> HIDE DEF Done, Base, low
  <2> QED BY <1>2
<1>5. /\ Cardinality(SpikesIn(fired, p, c, a, b)) \in Nat
      /\ Cardinality(SpikesIn(fired, p, c, a, b)) <= (b - a) * n
      /\ Cardinality(SpikesIn(fired, p, c, a, b + 1)) \in Nat
      /\ Cardinality(SpikesIn(fired, p, c, a, b + 1)) <= (b + 1 - a) * n
  <2>1. b + 1 \in Int /\ a <= b + 1
    BY <1>4
  <2> HIDE DEF Base, Done, low
  <2> QED BY <1>2, <1>4, <2>1, SpikesCountedIn
<1>6. tt[low] = 0 /\ tt[Done] - tt[low] <= Cardinality(SpikesIn(fired, p, c, a, b))
  <2>1. low \in low .. Done /\ Done \in low .. Done
    BY <1>2
  <2> QED BY <1>1, <1>2, <2>1 DEF Sized, Bounded
<1>7. tt[Done] \in Int /\ tt[Cur] \in Int
  <2> HIDE DEF tt, low, Done, Cur
  <2> QED BY <1>2
<1>8. tt[Done] <= Cardinality(SpikesIn(fired, p, c, a, b))
  <2> HIDE DEF tt, Done, low
  <2> QED BY <1>5, <1>6, <1>7
<1>9. CASE Done = Cur
  <2>1. Done - low \in 0 .. MsPerSec + maxDelay
    <3> HIDE DEF Done, low, Cur
    <3> QED BY <1>2
  <2>2. k <= (Done - low) * n
    <3>1. \A x, y \in Nat : x * y \in Nat
      BY SMT
    <3>2. n \in Nat
      BY NeuronsCounted
    <3>3. Done - low \in Nat
      BY <1>2, <2>1
    <3> PICK z : z = (b - a) * n
      OBVIOUS
    <3>4. z \in Nat /\ z = (Done - low) * n
      BY <1>4, <3>1, <3>2, <3>3
    <3> HIDE DEF Done, low, Cur, tt, n
    <3> QED BY <1>5, <1>7, <1>8, <1>9, <3>4 DEF tt
  <2> QED BY <2>1, <2>2, SlotBounds
<1>10. CASE Routing /\ Cur = Done + 1 /\ Base + Done - maxDelay = simTime
  <2> DEFINE H == Have(p, c)
  <2>1. H \in SUBSET SpikesAt(fired, p, c, b)
    <3>1. spikeRoutingTable \ routes \in SUBSET spikeRoutingTable
      OBVIOUS
    <3>2. b = simTime
      BY <1>10
    <3> QED BY <3>1, <3>2, Gathered DEF Have
  <2>2. H \in SUBSET Neuron
    BY DEF Have, Own, Fetched
  <2>3. Cardinality(H) \in Nat
    <3> HIDE DEF H
    <3> QED BY <2>2, NeuronsCounted
  <2>4. Cardinality(SpikesIn(fired, p, c, a, b)) + Cardinality(H)
          <= Cardinality(SpikesIn(fired, p, c, a, b + 1))
    <3> HIDE DEF H
    <3> QED BY <1>2, <1>4, <2>1, SpikesSplit
  <2>5. tt[Cur] <= tt[Done] + Cardinality(H)
    <3>1. Cur - 1 = Done
      <4> HIDE DEF Cur, Done
      <4> QED BY <1>2, <1>10
    <3> QED BY <1>1, <1>10, <3>1 DEF Sized
  <2>6. Cur - low \in 0 .. MsPerSec + maxDelay
    <3> HIDE DEF Cur, low, Done
    <3> QED BY <1>2
  <2>7. k <= (Cur - low) * n
    <3>1. \A x, y \in Nat : x * y \in Nat
      BY SMT
    <3>2. n \in Nat
      BY NeuronsCounted
    <3>3. Cur - low \in Nat
      BY <1>2, <2>6
    <3>4. b + 1 - a = Cur - low
      <4> HIDE DEF Cur, low, Done
      <4> QED BY <1>2, <1>4, <1>10
    <3> PICK z : z = (b + 1 - a) * n
      OBVIOUS
    <3>5. z \in Nat /\ z = (Cur - low) * n
      BY <3>1, <3>2, <3>3, <3>4
    <3>6. k <= tt[Cur]
      OBVIOUS
    <3> HIDE DEF Done, low, Cur, tt, n, H
    <3>7. k <= z
      BY <1>5, <1>7, <1>8, <2>3, <2>4, <2>5, <3>5, <3>6
    <3> QED BY <3>5, <3>7
  <2> QED BY <2>6, <2>7, SlotBounds
<1> QED BY <1>3, <1>9, <1>10

(* What is to be shown of a step.                                           *)
LEMMA TabledNext ==
  ASSUME NEW p, NEW c
  PROVE  Tabled(p, c)' <=>
           /\ timeTable'[p][c][FirstOf(c)] = 0
           /\ Ascending(timeTable'[p][c], c, Cur')
           /\ Windows(firingTable'[p][c], timeTable'[p][c], fired', p, c, Base', Done')
           /\ phase' = "time" =>
                /\ timeTable'[p][c][Cur'] <= Logged(p, c)'
                /\ Kept(p, firingTable'[p][c], timeTable'[p][c][Cur'], Logged(p, c)', Own(fired', p, c, simTime'))
           /\ Routing' =>
                Kept(p, firingTable'[p][c], timeTable'[p][c][Cur' - 1], timeTable'[p][c][Cur'], Have(p, c)')
           /\ phase' = "convert" /\ p = DestNet(rte)' => InTransit(firingTable[p][c], p, c)'
BY DEF Tabled, Own

(* Entries that come after all windows do not matter to them, nor do spikes *)
(* that are fired later.                                                    *)
LEMMA WindowsSame ==
  ASSUME NEW p, NEW c, NEW ft, NEW ft2, NEW tt, NEW tt2,
         NEW F, NEW G \in SUBSET (Neuron \X Nat), F \subseteq G,
         NEW base \in Int, NEW last \in Nat,
         Windows(ft, tt, F, p, c, base, last), Ascending(tt, c, last),
         \A i \in FirstOf(c) .. last : tt[i] \in Int /\ tt2[i] = tt[i],
         \A k \in Slot : k < tt[last] => ft2[k] = ft[k],
         \A s \in G : s \in F \/ base + last - maxDelay <= s[2]
  PROVE  Windows(ft2, tt2, G, p, c, base, last)
<1> SUFFICES ASSUME NEW i \in FirstOf(c) .. last - 1,
                    i < maxDelay => RoutesOnce /\ Clean(G, p, base)
             PROVE  Kept(p, ft2, tt2[i], tt2[i + 1], SpikesAt(G, p, c, base + i - maxDelay))
  BY DEF Windows
<1>1. FirstOf(c) \in Nat /\ maxDelay \in Nat
  BY Entries, PartitionTypes
<1>2. i \in FirstOf(c) .. last /\ i + 1 \in FirstOf(c) .. last /\ last \in FirstOf(c) .. last /\ i \in Nat
  BY <1>1
<1>3. Clean(G, p, base) => Clean(F, p, base)
  BY DEF Clean
<1>4. Kept(p, ft, tt[i], tt[i + 1], SpikesAt(F, p, c, base + i - maxDelay))
  BY <1>3 DEF Windows
<1>5. tt2[i] = tt[i] /\ tt2[i + 1] = tt[i + 1] /\ tt[i + 1] <= tt[last]
      /\ tt[i + 1] \in Int /\ tt[last] \in Int
  BY <1>2 DEF Ascending
<1>6. \A k \in Slot : tt[i] <= k /\ k < tt[i + 1] => ft2[k] = ft[k]
  BY <1>5, SlotBounds
<1>7. Kept(p, ft2, tt[i], tt[i + 1], SpikesAt(F, p, c, base + i - maxDelay))
  BY <1>4, <1>6, KeptSame
<1>8. SpikesAt(G, p, c, base + i - maxDelay) = SpikesAt(F, p, c, base + i - maxDelay)
  <2> PICK t : t = base + i - maxDelay
    OBVIOUS
  <2>1. t \in Int /\ t < base + last - maxDelay
    BY <1>1, <1>2
  <2>2. \A n \in Neuron : <<n, t>> \in G => <<n, t>> \in F
    BY <1>1, <2>1
  <2>3. SpikesAt(G, p, c, t) = SpikesAt(F, p, c, t)
    BY <2>2 DEF SpikesAt, Carried
  <2> QED BY <2>3
<1> QED BY <1>5, <1>7, <1>8

(* One more window.                                                         *)
LEMMA WindowsMore ==
  ASSUME NEW p, NEW c, NEW ft, NEW tt, NEW F, NEW base, NEW last \in Nat,
         Windows(ft, tt, F, p, c, base, last),
         Kept(p, ft, tt[last], tt[last + 1], SpikesAt(F, p, c, base + last - maxDelay))
  PROVE  Windows(ft, tt, F, p, c, base, last + 1)
<1> SUFFICES ASSUME NEW i \in FirstOf(c) .. last + 1 - 1,
                    i < maxDelay => RoutesOnce /\ Clean(F, p, base)
             PROVE  Kept(p, ft, tt[i], tt[i + 1], SpikesAt(F, p, c, base + i - maxDelay))
  BY DEF Windows
<1>1. FirstOf(c) \in Nat
  BY Entries
<1>2. i = last \/ i \in FirstOf(c) .. last - 1
  BY <1>1
<1> QED BY <1>2 DEF Windows

(* A later entry of the time table.                                         *)
LEMMA AscendingMore ==
  ASSUME NEW c, NEW tt, NEW tt2, NEW last \in Nat, Ascending(tt, c, last), FirstOf(c) <= last,
         \A i \in FirstOf(c) .. last : tt[i] \in Int /\ tt2[i] = tt[i],
         tt2[last + 1] \in Int, tt[last] <= tt2[last + 1]
  PROVE  Ascending(tt2, c, last + 1)
<1> SUFFICES ASSUME NEW i \in FirstOf(c) .. last + 1, NEW j \in FirstOf(c) .. last + 1, i <= j
             PROVE  tt2[i] <= tt2[j]
  BY DEF Ascending
<1>1. FirstOf(c) \in Nat
  BY Entries
<1>2. (i = last + 1 \/ i \in FirstOf(c) .. last) /\ (j = last + 1 \/ j \in FirstOf(c) .. last)
      /\ last \in FirstOf(c) .. last
  BY <1>1
<1>3. CASE j = last + 1 /\ i = last + 1
  BY <1>3
<1>4. CASE j = last + 1 /\ i \in FirstOf(c) .. last
  <2>1. tt[i] <= tt[last]
    BY <1>1, <1>2, <1>4 DEF Ascending
  <2>2. tt[i] \in Int /\ tt2[i] = tt[i] /\ tt[last] \in Int
    BY <1>2, <1>4
  <2> QED BY <1>4, <2>1, <2>2
<1>5. CASE j \in FirstOf(c) .. last /\ i \in FirstOf(c) .. last
  BY <1>5 DEF Ascending
<1> QED BY <1>1, <1>2, <1>3, <1>4, <1>5

(* The entries are numbers, the first of them zero.                         *)
LEMMA TabledTypes ==
  ASSUME TypeOK, PastInv, CountInv, Exclusive, NEW p \in Part, NEW c \in Class, Tabled(p, c)
  PROVE  /\ timeTable[p][c][Cur] \in Nat
         /\ \A i \in FirstOf(c) .. Cur : timeTable[p][c][i] \in Nat
         /\ \A i \in FirstOf(c) .. Done : timeTable[p][c][i] \in Nat
         /\ Ascending(timeTable[p][c], c, Done)
         /\ phase = "fire" => Logged(p, c) = timeTable[p][c][Cur]
<1>1. /\ FirstOf(c) \in Nat /\ FirstOf(c) <= Done /\ Done <= Cur /\ Cur <= MsPerSec + maxDelay
      /\ Done \in Nat /\ Cur \in Nat
      /\ \A i \in FirstOf(c) .. MsPerSec + maxDelay : timeTable[p][c][i] \in Int
  BY SizeTypes
<1>2. maxDelay \in Nat /\ MsPerSec \in Nat
  BY PartitionTypes
<1>3. timeTable[p][c][FirstOf(c)] = 0 /\ Ascending(timeTable[p][c], c, Cur)
  BY DEF Tabled
<1>4. \A i \in FirstOf(c) .. Cur : timeTable[p][c][i] \in Nat
  <2> SUFFICES ASSUME NEW i \in FirstOf(c) .. Cur PROVE timeTable[p][c][i] \in Nat
    OBVIOUS
  <2>1. FirstOf(c) \in FirstOf(c) .. Cur /\ FirstOf(c) <= i /\ i \in FirstOf(c) .. MsPerSec + maxDelay
    <3> HIDE DEF FirstOf, Cur, Done
    <3> QED BY <1>1, <1>2
  <2>2. timeTable[p][c][FirstOf(c)] <= timeTable[p][c][i]
    BY <1>3, <2>1 DEF Ascending
  <2>3. timeTable[p][c][i] \in Int
    BY <1>1, <2>1
  <2> QED BY <1>3, <2>2, <2>3
<1>5. Cur \in FirstOf(c) .. Cur /\ \A i \in FirstOf(c) .. Done : i \in FirstOf(c) .. Cur
  <2> HIDE DEF FirstOf, Cur, Done
  <2> QED BY <1>1
<1>6. Ascending(timeTable[p][c], c, Done)
  BY <1>3, <1>5 DEF Ascending
<1>7. ASSUME phase = "fire" PROVE Logged(p, c) = timeTable[p][c][Cur]
  <2>1. Cur = simTimeMs + maxDelay
    BY <1>7, WhereIs DEF WhereFacts, Standing
  <2> QED BY <1>7, <2>1 DEF CountInv, UpTo
<1> QED BY <1>4, <1>5, <1>6, <1>7

(* Steps that neither log nor route.                                        *)
LEMMA TabledQuiet ==
  ASSUME NEW p \in Part, NEW c \in Class, Tabled(p, c),
         timeTable' = timeTable, firingTable' = firingTable, fired' = fired,
         Base' = Base, Cur' = Cur, ~Routing, ~Routing', phase' # "time"
  PROVE  Tabled(p, c)'
<1>1. Done = Cur /\ Done' = Cur'
  BY DEF Done
<1>2. phase' # "convert"
  BY DEF Routing
<1> HIDE DEF Base, Cur, Done, Logged, Routing, Kept, Windows, Ascending
<1> QED BY <1>1, <1>2, TabledNext DEF Tabled

(* The neurons that fire get places behind each other, by their local ids,  *)
(* and those that have room are the first of them.                          *)
FiringOf(F, p, c) == { n \in F : netId[n[1]] = p /\ ClassOf[n[1]] = c }
ByLocalId(F, p, c) == [n \in FiringOf(F, p, c) |-> lNId[p][n]]
WithRoom(F, p, c) == { n \in FiringOf(F, p, c) : HasSpace(F, n) }

(* findFiring logs the neurons of a table in the order of their local ids,  *)
(* each at its own index, and those that find room are the first.           *)
LEMMA LoggedInOrder ==
  ASSUME TypeOK, PastInv, NEW p \in Part, NEW c \in Class, NEW F \in SUBSET Neuron
  PROVE  /\ \A n \in FiringOf(F, p, c) :
              fireId(F, n) = Logged(p, c) + Below(FiringOf(F, p, c), ByLocalId(F, p, c), n)
         /\ Numbered(FiringOf(F, p, c), ByLocalId(F, p, c), FiringOf(F, p, c))
         /\ Numbered(FiringOf(F, p, c), ByLocalId(F, p, c), WithRoom(F, p, c))
<1> DEFINE S == FiringOf(F, p, c)
           f == ByLocalId(F, p, c)
           N == WithRoom(F, p, c)
           low == Logged(p, c)
<1>1. N \subseteq S /\ S \in SUBSET Neuron /\ low \in Int
  BY SizeTypes DEF FiringOf, WithRoom
<1>2. \A n \in S : netId[n[1]] = p /\ ClassOf[n[1]] = c /\ fireId(F, n) = low + Below(S, f, n)
  <2> SUFFICES ASSUME NEW n \in S
               PROVE  netId[n[1]] = p /\ ClassOf[n[1]] = c /\ fireId(F, n) = low + Below(S, f, n)
    OBVIOUS
  <2>1. netId[n[1]] = p /\ ClassOf[n[1]] = c
    BY DEF FiringOf
  <2>2. { m \in F : /\ netId[m[1]] = p /\ ClassOf[m[1]] = c /\ lNId[p][m] < lNId[p][n] }
          = { m \in S : f[m] < f[n] }
    BY DEF FiringOf, ByLocalId
  <2>3. Rank(F, n) = Below(S, f, n)
    BY <2>1, <2>2 DEF Rank, Below
  <2> QED BY <2>1, <2>3 DEF fireId
<1>3. Numbered(S, f, S) /\ Numbered(S, f, N)
  <2>1. IsFiniteSet(S)
    <3> HIDE DEF S
    <3> QED BY <1>1, NeuronsCounted
  <2>2. f \in [S -> Int]
    BY <1>1, PartitionTypes DEF ByLocalId
  <2>3. \A n \in Neuron : netId[n[1]] = p => n[1] \in groupPartitionList[p]
    BY NeuronFields DEF groupPartitionList
  <2>4. \A x, y \in S : f[x] = f[y] => x = y
    BY <1>1, <1>2, <2>3, LocalIdInjective DEF ByLocalId
  <2>5. ASSUME NEW x \in N, NEW y \in S, f[y] < f[x]
        PROVE  y \in N
    <3> DEFINE A == { z \in S : f[z] < f[y] }
               B == { z \in S : f[z] < f[x] }
    <3>1. \A z \in S : f[z] \in Int
      BY <2>2
    <3>2. A \subseteq B /\ B \in SUBSET Neuron /\ A \in SUBSET Neuron
      <4>1. x \in S /\ f[y] < f[x]
        BY <1>1, <2>5
      <4> HIDE DEF S, f
      <4>2. \A z \in S : f[z] < f[y] => f[z] < f[x]
        BY <3>1, <4>1
      <4> QED BY <1>1, <4>2
    <3>3. Cardinality(A) <= Cardinality(B) /\ Cardinality(A) \in Nat /\ Cardinality(B) \in Nat
      <4> HIDE DEF A, B
      <4> QED BY <3>2, NeuronsCounted, FS_Subset
    <3>4. Below(S, f, y) = Cardinality(A) /\ Below(S, f, x) = Cardinality(B)
      BY DEF Below
    <3>5. x \in S /\ HasSpace(F, x)
      BY DEF WithRoom
    <3>6. fireId(F, x) + 1 < maxSpikes[p][c]
      BY <1>2, <3>5 DEF HasSpace
    <3>7. fireId(F, y) <= fireId(F, x) /\ fireId(F, x) \in Int /\ fireId(F, y) \in Int
      <4> HIDE DEF A, B, S, f, low
      <4> QED BY <1>1, <1>2, <3>3, <3>4, <3>5
    <3>8. maxSpikes[p][c] \in Nat
      BY SlotBounds
    <3>9. fireId(F, y) + 1 < maxSpikes[p][c]
      <4> QED BY <3>6, <3>7, <3>8
    <3>10. HasSpace(F, y)
      BY <1>2, <3>9 DEF HasSpace
    <3> QED BY <3>10 DEF WithRoom
  <2>6. N \in SUBSET S
    BY <1>1
  <2>7. S \in SUBSET S
    OBVIOUS
  <2> HIDE DEF S, f, N
  <2>8. Numbered(S, f, S)
    BY <2>1, <2>2, <2>4, <2>7, Ranks
  <2>9. Numbered(S, f, N)
    BY <2>1, <2>2, <2>4, <2>5, <2>6, Ranks
  <2> QED BY <2>8, <2>9
<1> QED BY <1>2, <1>3

(* Logging: the neurons that found room have entries from Logged on, one    *)
(* each.                                                                    *)
LEMMA TabledFire ==
  ASSUME TypeOK, PastInv, CountInv, Exclusive, NEW p \in Part, NEW c \in Class, Tabled(p, c),
         FindFiring
  PROVE  Tabled(p, c)'
<1>1. PICK W \in SUBSET (Neuron \ GenNeuron) :
        LET F == FiresNow(W)
            L == { n \in F : HasSpace(F, n) }
            of(q, d) == { n \in L : netId[n[1]] = q /\ ClassOf[n[1]] = d }
        IN  /\ firingTable' = [q \in Part |-> [d \in Class |-> [k \in Slot |->
                 IF \E n \in of(q, d) : fireId(F, n) = k
                 THEN lNId[q][CHOOSE n \in of(q, d) : fireId(F, n) = k]
                 ELSE firingTable[q][d][k]]]]
            /\ spikeCountSec' = [q \in Part |-> [d \in Class |->
                 spikeCountSec[q][d] + Cardinality(of(q, d))]]
            /\ fired' = fired \union { <<n, simTime>> : n \in L }
  BY DEF FindFiring
<1> DEFINE F == FiresNow(W)
           L == { n \in F : HasSpace(F, n) }
           S == { n \in F : netId[n[1]] = p /\ ClassOf[n[1]] = c }
           f == [n \in S |-> lNId[p][n]]
           N == { n \in L : netId[n[1]] = p /\ ClassOf[n[1]] = c }
           O == Own(fired', p, c, simTime)
           low == Logged(p, c)
           ft2 == firingTable'[p][c]
           Id(k) == CHOOSE n \in N : fireId(F, n) = k
<1>2. F \subseteq Neuron /\ L \subseteq Neuron /\ N \subseteq S /\ S \in SUBSET Neuron
  BY DEF FiresNow, GenNeuron
<1>3. /\ timeTable' = timeTable /\ phase = "fire" /\ phase' = "time"
      /\ spikeCountLastSecLeftD2' = spikeCountLastSecLeftD2
  BY DEF FindFiring
<1>4. /\ simTime' = simTime /\ Base' = Base /\ Cur' = Cur /\ Standing
      /\ ~Routing /\ ~Routing'
  BY <1>3, Movement DEF Unmoved, Routing
<1>5. Done = Cur /\ Done' = Cur' /\ phase' # "convert" /\ Base + Cur - maxDelay = simTime
  <2>1. ~Begun
    BY <1>4, WhereIs DEF WhereFacts
  <2> QED BY <1>3, <1>4, <2>1, Clock DEF Done
<1>6. low = timeTable[p][c][Cur] /\ low \in Nat
  BY <1>3, TabledTypes
<1>7. \A n \in S : netId[n[1]] = p /\ ClassOf[n[1]] = c /\ fireId(F, n) = low + Below(S, f, n)
  <2>1. S = FiringOf(F, p, c) /\ f = ByLocalId(F, p, c)
    BY DEF FiringOf, ByLocalId
  <2>2. F \in SUBSET Neuron /\ \A n \in S : netId[n[1]] = p /\ ClassOf[n[1]] = c
    BY <1>2
  <2> HIDE DEF F, S, f, low
  <2>3. \A n \in S : fireId(F, n) = Logged(p, c) + Below(S, f, n)
    BY <2>1, <2>2, LoggedInOrder
  <2> QED BY <2>2, <2>3 DEF low
<1>8. Numbered(S, f, N)
  <2>1. S = FiringOf(F, p, c) /\ f = ByLocalId(F, p, c) /\ N = WithRoom(F, p, c)
    BY DEF FiringOf, ByLocalId, WithRoom
  <2>2. F \in SUBSET Neuron
    BY <1>2
  <2> HIDE DEF F, S, f, N
  <2> QED BY <2>1, <2>2, LoggedInOrder
<1>9. \A n \in N : fireId(F, n) \in Slot /\ fireId(F, n) \in Nat /\ low <= fireId(F, n)
                   /\ fireId(F, n) < low + Cardinality(N)
  <2> SUFFICES ASSUME NEW n \in N
               PROVE fireId(F, n) \in Slot /\ fireId(F, n) \in Nat /\ low <= fireId(F, n)
                     /\ fireId(F, n) < low + Cardinality(N)
    OBVIOUS
  <2>1. n \in S /\ HasSpace(F, n)
    BY <1>2
  <2>2. Below(S, f, n) \in Nat /\ Below(S, f, n) < Cardinality(N) /\ Cardinality(N) \in Nat
    <3>1. Cardinality(N) \in Nat
      <4>1. N \in SUBSET Neuron
        BY <1>2
      <4> HIDE DEF N
      <4> QED BY <4>1, NeuronsCounted
    <3> QED BY <1>8, <3>1 DEF Numbered
  <2>3. fireId(F, n) = low + Below(S, f, n)
    BY <1>7, <2>1
  <2>4. fireId(F, n) + 1 < maxSpikes[p][c] /\ maxSpikes[p][c] \in Slot /\ maxSpikes[p][c] \in Nat
    BY <1>7, <2>1, SlotBounds DEF HasSpace
  <2>5. fireId(F, n) \in Nat /\ fireId(F, n) <= maxSpikes[p][c]
    <3> HIDE DEF F, S, f, N, low
    <3> QED BY <1>6, <2>2, <2>3, <2>4
  <2>6. fireId(F, n) \in Slot
    BY <2>4, <2>5, SlotBounds
  <2> HIDE DEF F, S, f, N, low
  <2> QED BY <1>6, <2>2, <2>3, <2>5, <2>6
<1>10. \A n, m \in N : fireId(F, n) = fireId(F, m) => n = m
  <2> SUFFICES ASSUME NEW n \in N, NEW m \in N, fireId(F, n) = fireId(F, m) PROVE n = m
    OBVIOUS
  <2>1. Below(S, f, n) \in Nat /\ Below(S, f, m) \in Nat
    BY <1>8 DEF Numbered
  <2>2. Below(S, f, n) = Below(S, f, m)
    <3>1. n \in S /\ m \in S
      BY <1>2
    <3> HIDE DEF F, S, f, N, low
    <3> QED BY <1>6, <1>7, <2>1, <3>1
  <2> QED BY <1>8, <2>2 DEF Numbered
<1>11. \A k \in Slot : low <= k /\ k < low + Cardinality(N) => \E n \in N : fireId(F, n) = k
  <2> SUFFICES ASSUME NEW k \in Slot, low <= k, k < low + Cardinality(N)
               PROVE  \E n \in N : fireId(F, n) = k
    OBVIOUS
  <2>1. k \in Nat /\ Cardinality(N) \in Nat
    <3>1. N \in SUBSET Neuron
      BY <1>2
    <3> HIDE DEF N
    <3> QED BY <3>1, NeuronsCounted, SlotBounds
  <2>2. k - low \in Nat /\ k - low < Cardinality(N) /\ low + (k - low) = k
    <3> HIDE DEF low, N
    <3> QED BY <1>6, <2>1
  <2>3. PICK n \in N : Below(S, f, n) = k - low
    BY <1>8, <2>2 DEF Numbered
  <2>4. n \in S
    BY <1>2
  <2> QED BY <1>7, <2>2, <2>3, <2>4
<1>12. ft2 = [k \in Slot |-> IF \E n \in N : fireId(F, n) = k THEN lNId[p][Id(k)]
                             ELSE firingTable[p][c][k]]
  BY <1>1
<1>13. \A n \in N : ft2[fireId(F, n)] = lNId[p][n]
  <2> SUFFICES ASSUME NEW n \in N PROVE ft2[fireId(F, n)] = lNId[p][n]
    OBVIOUS
  <2>1. Id(fireId(F, n)) = n
    <3> HIDE DEF N, F
    <3> QED BY <1>10
  <2>2. fireId(F, n) \in Slot
    BY <1>9
  <2> HIDE DEF N, F, Id, ft2
  <2> QED BY <1>12, <2>1, <2>2
<1>14. \A k \in Slot : k < timeTable[p][c][Cur] => ft2[k] = firingTable[p][c][k]
  <2> SUFFICES ASSUME NEW k \in Slot, k < timeTable[p][c][Cur] PROVE ft2[k] = firingTable[p][c][k]
    OBVIOUS
  <2>1. \A n \in N : fireId(F, n) # k
    <3>1. k \in Nat /\ k < low
      BY <1>6, SlotBounds
    <3> HIDE DEF N, F, low
    <3> QED BY <1>6, <1>9, <3>1
  <2> HIDE DEF N, F, Id, ft2
  <2> QED BY <1>12, <2>1
<1>15. O = N
  <2>1. fired' = fired \union { <<n, simTime>> : n \in L }
    BY <1>1
  <2>2. \A n \in Neuron : <<n, simTime>> \notin fired
    <3>1. Now = simTime + 0 /\ simTime \in Nat
      <4>1. Now = simTime + 0
        BY <1>3, WhereIs DEF WhereFacts, Standing
      <4> QED BY <4>1, Clock
    <3>2. \A n \in Neuron : <<n, simTime>>[2] = simTime
      OBVIOUS
    <3> HIDE DEF simTime, Now
    <3> QED BY <3>1, <3>2 DEF PastInv
  <2>3. \A n \in Neuron : <<n, simTime>> \in fired' <=> n \in L
    <3> HIDE DEF L, simTime
    <3> QED BY <2>1, <2>2
  <2>4. O = { n \in Neuron : n \in L /\ ClassOf[n[1]] = c /\ netId[n[1]] = p }
    <3> HIDE DEF L
    <3> QED BY <2>3 DEF Own
  <2> QED BY <1>2, <2>4
<1>16. Logged(p, c)' = low + Cardinality(N) /\ Cardinality(N) \in Nat
  <2>1. spikeCountSec'[p][c] = spikeCountSec[p][c] + Cardinality(N)
    BY <1>1
  <2>2. N \in SUBSET Neuron
    BY <1>2
  <2> HIDE DEF N
  <2>3. Cardinality(N) \in Nat
    BY <2>2, NeuronsCounted
  <2>4. LeftOver(p, c)' = LeftOver(p, c) /\ Logged(p, c)' = spikeCountSec'[p][c] + LeftOver(p, c)'
    BY <1>3 DEF LeftOver, Logged
  <2> QED BY <2>1, <2>3, <2>4, SizeTypes
<1>17. Kept(p, ft2, low, low + Cardinality(N), N)
  <2>1. \A n, m \in N : lNId[p][n] = lNId[p][m] => n = m
    <3>1. \A n \in Neuron : netId[n[1]] = p => n[1] \in groupPartitionList[p]
      BY NeuronFields DEF groupPartitionList
    <3> QED BY <1>2, <3>1, LocalIdInjective
  <2> HIDE DEF N, F, ft2, low
  <2>2. \A k \in Slot : low <= k /\ k < low + Cardinality(N) => \E n \in N : ft2[k] = lNId[p][n]
    BY <1>11, <1>13
  <2>3. ASSUME NEW n \in N
        PROVE  \E k \in Slot :
                 /\ low <= k /\ k < low + Cardinality(N) /\ ft2[k] = lNId[p][n]
                 /\ \A l \in Slot : low <= l /\ l < low + Cardinality(N) /\ ft2[l] = lNId[p][n] => l = k
    <3>1. fireId(F, n) \in Slot /\ low <= fireId(F, n) /\ fireId(F, n) < low + Cardinality(N)
          /\ ft2[fireId(F, n)] = lNId[p][n]
      BY <1>9, <1>13
    <3>2. ASSUME NEW l \in Slot, low <= l, l < low + Cardinality(N), ft2[l] = lNId[p][n]
          PROVE  l = fireId(F, n)
      <4>1. PICK m \in N : fireId(F, m) = l
        BY <1>11, <3>2
      <4>2. lNId[p][m] = lNId[p][n]
        BY <1>13, <3>2, <4>1
      <4> QED BY <2>1, <4>1, <4>2
    <3> QED BY <3>1, <3>2
  <2> QED BY <2>2, <2>3 DEF Kept
<1>18. Windows(ft2, timeTable[p][c], fired', p, c, Base, Cur)
  <2>1. fired' \in SUBSET (Neuron \X Nat) /\ fired \subseteq fired'
    BY <1>1, TypesStep DEF TypeOK, Next
  <2>2. \A s \in fired' : s \in fired \/ Base + Cur - maxDelay <= s[2]
    <3>1. \A s \in fired' : s \in fired \/ s[2] = simTime
      BY <1>1
    <3>2. simTime \in Nat
      BY Clock
    <3> HIDE DEF simTime, Cur, Base
    <3> QED BY <1>5, <3>1, <3>2
  <2>3. Windows(firingTable[p][c], timeTable[p][c], fired, p, c, Base, Cur)
        /\ Ascending(timeTable[p][c], c, Cur)
    BY <1>5 DEF Tabled
  <2>4. \A i \in FirstOf(c) .. Cur : timeTable[p][c][i] \in Int
    BY TabledTypes
  <2>5. Base \in Int /\ Cur \in Nat
    BY SizeTypes
  <2> HIDE DEF ft2, Base, Cur, Windows, Ascending, FirstOf
  <2> QED BY <1>14, <2>1, <2>2, <2>3, <2>4, <2>5, WindowsSame
<1>19. timeTable[p][c][Cur] <= Logged(p, c)'
  <2> HIDE DEF low, N
  <2> QED BY <1>6, <1>16
<1> HIDE DEF ft2, N, O, low, Base, Cur, Done, Windows, Ascending, Kept
<1>20. Kept(p, ft2, timeTable[p][c][Cur], Logged(p, c)', O)
  BY <1>6, <1>15, <1>16, <1>17
<1>21. timeTable[p][c][FirstOf(c)] = 0 /\ Ascending(timeTable[p][c], c, Cur)
  BY DEF Tabled
<1> HIDE DEF Logged
<1> QED BY <1>3, <1>4, <1>5, <1>18, <1>19, <1>20, <1>21, TabledNext DEF ft2, O

(* The entry of the time table for the millisecond.                         *)
LEMMA TabledTime ==
  ASSUME TypeOK, PastInv, CountInv, Exclusive, NEW p \in Part, NEW c \in Class, Tabled(p, c),
         UpdateTimingTable
  PROVE  Tabled(p, c)'
<1> DEFINE tt == timeTable[p][c]
           tt2 == timeTable'[p][c]
           ft == firingTable[p][c]
           O == Own(fired, p, c, simTime)
           I == 0 .. MsPerSec + maxDelay
           last == Cur
<1>1. /\ phase = "time" /\ phase' \in {"deliver", "route"} /\ routes' = spikeRoutingTable
      /\ (phase' = "deliver" => routes' = {}) /\ fired' = fired /\ firingTable' = firingTable
  BY DEF UpdateTimingTable
<1>2. simTime' = simTime /\ Base' = Base /\ Cur' = last + 1 /\ Standing /\ Begun'
  BY Movement
<1>3. /\ Done = last /\ last = simTimeMs + maxDelay /\ Base + last - maxDelay = simTime
      /\ simTimeMs + maxDelay + 1 = last + 1
  <2>1. Done = Cur /\ Cur = simTimeMs + maxDelay /\ ~Begun
    BY <1>2, WhereIs DEF WhereFacts
  <2>2. Base + Cur - maxDelay = simTime
    BY <2>1, Clock
  <2> HIDE DEF Cur, Done, Base, simTime
  <2> QED BY <2>1, <2>2
<1>4. tt \in [I -> Int] /\ simTimeMs + maxDelay + 1 \in I
  <2>1. timeTable \in [Part -> [Class -> [I -> Int]]]
    BY DEF TypeOK
  <2>2. simTimeMs + maxDelay + 1 \in I
    BY TimeTableEntries
  <2> HIDE DEF I
  <2> QED BY <2>1, <2>2
<1>5. tt2 = [tt EXCEPT ![simTimeMs + maxDelay + 1] = Logged(p, c)]
  BY DEF UpdateTimingTable
<1>6. last \in Nat /\ FirstOf(c) \in Nat /\ FirstOf(c) <= last /\ Base \in Int /\ Logged(p, c) \in Int
      /\ fired \in SUBSET (Neuron \X Nat)
  BY <1>3, SizeTypes
<1>7. tt2[last + 1] = Logged(p, c) /\ \A i \in FirstOf(c) .. last : tt2[i] = tt[i] /\ tt[i] \in Int
  <2>1. \A i \in FirstOf(c) .. last : i # last + 1 /\ i \in I
    <3>1. last + 1 \in I
      BY <1>3, <1>4
    <3> HIDE DEF last, FirstOf
    <3> QED BY <1>6, <3>1, PartitionTypes
  <2> HIDE DEF tt, tt2, I, last, FirstOf, Logged
  <2> QED BY <1>3, <1>4, <1>5, <2>1
<1>8. /\ tt[FirstOf(c)] = 0 /\ Ascending(tt, c, last)
      /\ Windows(ft, tt, fired, p, c, Base, last)
      /\ tt[last] <= Logged(p, c) /\ Kept(p, ft, tt[last], Logged(p, c), O)
  BY <1>1, <1>3 DEF Tabled
<1>9. FirstOf(c) \in FirstOf(c) .. last /\ last \in FirstOf(c) .. last
  BY <1>6
<1>10. tt2[FirstOf(c)] = 0 /\ Ascending(tt2, c, last + 1)
  <2> HIDE DEF tt, tt2, last, Ascending, FirstOf, Logged
  <2> QED BY <1>6, <1>7, <1>8, <1>9, AscendingMore
<1>11. Windows(ft, tt2, fired, p, c, Base, last)
  <2> HIDE DEF tt, tt2, ft, last, Ascending, Windows, FirstOf, Logged, Base
  <2> QED BY <1>6, <1>7, <1>8, WindowsSame
<1>12. Kept(p, ft, tt2[last], tt2[last + 1], O)
  <2> HIDE DEF tt, tt2, ft, last, Kept, FirstOf, Logged, O
  <2> QED BY <1>7, <1>8, <1>9
<1>13. CASE phase' = "route"
  <2>1. Done' = last /\ Routing' /\ last + 1 - 1 = last
    <3>1. Routing' /\ Done' = Cur' - 1
      BY <1>13 DEF Routing, Done
    <3> HIDE DEF last, Done
    <3> QED BY <1>2, <1>6, <3>1
  <2>2. Have(p, c)' = O
    <3>1. Fetched(fired, p, c, simTime, {}) = {}
      BY DEF Fetched
    <3>2. Have(p, c)' = Own(fired', p, c, simTime') \union Fetched(fired', p, c, simTime', spikeRoutingTable \ routes')
      BY DEF Have, Own, Fetched, SrcNet, DestNet
    <3> QED BY <1>1, <1>2, <3>1, <3>2
  <2>3. phase' # "time" /\ phase' # "convert"
    BY <1>13
  <2>4. Cur' - 1 = last /\ Cur' = last + 1
    <3> HIDE DEF last
    <3> QED BY <1>2, <1>6
  <2>5. timeTable'[p][c][FirstOf(c)] = 0 /\ Ascending(timeTable'[p][c], c, Cur')
    BY <1>10, <2>4
  <2>6. Windows(firingTable'[p][c], timeTable'[p][c], fired', p, c, Base', Done')
    <3> HIDE DEF last, Windows, Base, Done
    <3> QED BY <1>1, <1>2, <1>11, <2>1
  <2>7. Kept(p, firingTable'[p][c], timeTable'[p][c][Cur' - 1], timeTable'[p][c][Cur'], Have(p, c)')
    <3> HIDE DEF last, Kept, O, Have
    <3> QED BY <1>1, <1>12, <2>2, <2>4
  <2> HIDE DEF tt, tt2, ft, last, Kept, Ascending, Windows, O, Base, Done, Cur, Have, FirstOf, Logged, Own, Routing
  <2> QED BY <2>3, <2>5, <2>6, <2>7, TabledNext
<1>14. CASE phase' = "deliver"
  <2>1. Done' = last + 1 /\ ~Routing'
    BY <1>2, <1>14 DEF Routing, Done
  <2>2. O = SpikesAt(fired, p, c, Base + last - maxDelay)
    <3>1. spikeRoutingTable = {}
      BY <1>1, <1>14
    <3>2. Own(fired, p, c, simTime) \union Fetched(fired, p, c, simTime, {}) = SpikesAt(fired, p, c, simTime)
      BY <3>1, Gathered
    <3>3. Fetched(fired, p, c, simTime, {}) = {}
      BY DEF Fetched
    <3> QED BY <1>3, <3>2, <3>3
  <2>3. Windows(ft, tt2, fired, p, c, Base, last + 1)
    <3> HIDE DEF tt, tt2, ft, last, Kept, Windows, O, Base
    <3> QED BY <1>6, <1>11, <1>12, <2>2, WindowsMore
  <2> HIDE DEF tt, tt2, ft, last, Kept, Ascending, Windows, O, Base, Done
  <2> QED BY <1>1, <1>2, <1>10, <1>14, <2>1, <2>3, TabledNext DEF tt2, ft
<1> QED BY <1>1, <1>13, <1>14

(* Of a class there is at most one group that is routed: its spikes come    *)
(* right behind what the table holds, in the order of their ids.            *)
LEMMA SentPlaces ==
  ASSUME TypeOK, Exclusive, NEW r \in spikeRoutingTable, NEW g \in Sent(r)
  PROVE  /\ startIdx(r, g) = firingTableIdx(r, ClassOf[g]) /\ firingTableIdx(r, ClassOf[g]) \in Int
         /\ g \in Group /\ ClassOf[g] \in Class /\ DestNet(r) \in Part
         /\ \A id \in extFiringTable[g] :
              IdxOf(r, g, id) = firingTableIdx(r, ClassOf[g])
                                  + Below(extFiringTable[g], [j \in extFiringTable[g] |-> j], id)
         /\ Numbered(extFiringTable[g], [j \in extFiringTable[g] |-> j], extFiringTable[g])
         /\ SpikesOf(Sent(r), ClassOf[g]) = {g} \X extFiringTable[g]
<1>1. r \in Connection
  BY DEF spikeRoutingTable
<1>2. DestNet(r) \in Part
  BY <1>1, PartitionAssumption DEF DestNet
<1>3. Sent(r) \subseteq Group /\ g \in Group /\ ClassOf[g] \in Class
  BY <1>2, PartitionTypes DEF Sent, groupPartitionList
<1>4. \A h \in Sent(r) : ClassOf[h] = ClassOf[g] => h = g
  BY OneSender
<1>5. SpikesOf({ h \in Sent(r) : LocalBefore(SrcNet(r), h, g) }, ClassOf[g]) = {}
  <2>1. ~LocalBefore(SrcNet(r), g, g)
    BY <1>3, LocalOrder
  <2>2. { h \in { x \in Sent(r) : LocalBefore(SrcNet(r), x, g) } : ClassOf[h] = ClassOf[g] } = {}
    BY <1>4, <2>1
  <2> QED BY <2>2 DEF SpikesOf
<1>6. firingTableIdx(r, ClassOf[g]) \in Int
  BY <1>2, <1>3, TimeTableEntries DEF firingTableIdx
<1>7. startIdx(r, g) = firingTableIdx(r, ClassOf[g])
  <2>1. Cardinality(SpikesOf({ h \in Sent(r) : LocalBefore(SrcNet(r), h, g) }, ClassOf[g])) = 0
    BY <1>5, FS_EmptySet
  <2> QED BY <1>6, <2>1 DEF startIdx
<1> DEFINE E == extFiringTable[g]
           f == [j \in E |-> j]
<1>8. E \in SUBSET Int /\ IsFiniteSet(E)
  BY <1>3, ExternalCounted DEF TypeOK
<1>9. ASSUME NEW id \in E
      PROVE  IdxOf(r, g, id) = firingTableIdx(r, ClassOf[g]) + Below(E, f, id)
  <2>1. { j \in E : j < id } = { j \in E : f[j] < f[id] }
    OBVIOUS
  <2> QED BY <1>7, <2>1 DEF IdxOf, Below
<1>10. Numbered(E, f, E)
  <2>1. f \in [E -> Int] /\ \A x, y \in E : f[x] = f[y] => x = y
    BY <1>8
  <2>2. E \in SUBSET E /\ \A x \in E, y \in E : f[y] < f[x] => y \in E
    OBVIOUS
  <2> HIDE DEF E, f
  <2> QED BY <1>8, <2>1, <2>2, Ranks
<1>11. SpikesOf(Sent(r), ClassOf[g]) = {g} \X E
  <2>1. { h \in Sent(r) : ClassOf[h] = ClassOf[g] } = {g}
    BY <1>4
  <2> QED BY <2>1 DEF SpikesOf
<1> QED BY <1>2, <1>3, <1>6, <1>7, <1>9, <1>10, <1>11

(* So these places are the ones from there on, one for each spike.          *)
LEMMA SentInPlace ==
  ASSUME TypeOK, Exclusive, NEW r \in spikeRoutingTable, NEW g \in Sent(r),
         NEW low, low = firingTableIdx(r, ClassOf[g])
  PROVE  /\ \A id \in extFiringTable[g] :
              /\ IdxOf(r, g, id) \in Int /\ low <= IdxOf(r, g, id)
              /\ IdxOf(r, g, id) < low + Cardinality(extFiringTable[g])
         /\ \A i, j \in extFiringTable[g] : IdxOf(r, g, i) = IdxOf(r, g, j) => i = j
         /\ \A k \in Int : low <= k /\ k < low + Cardinality(extFiringTable[g]) =>
              \E id \in extFiringTable[g] : IdxOf(r, g, id) = k
<1> DEFINE E == extFiringTable[g]
           f == [j \in E |-> j]
           n == Cardinality(E)
<1>1. /\ \A id \in E : IdxOf(r, g, id) = low + Below(E, f, id)
      /\ Numbered(E, f, E) /\ low \in Int /\ g \in Group
  BY SentPlaces
<1>2. n \in Nat
  BY <1>1, ExternalCounted
<1> HIDE DEF f, E
<1>3. /\ \A x \in E : Below(E, f, x) \in Nat /\ Below(E, f, x) < n
      /\ \A x, y \in E : Below(E, f, x) = Below(E, f, y) => x = y
      /\ \A k \in Nat : k < n => \E x \in E : Below(E, f, x) = k
  BY <1>1 DEF Numbered
<1> HIDE DEF n
<1>4. ASSUME NEW id \in E
      PROVE  IdxOf(r, g, id) \in Int /\ low <= IdxOf(r, g, id) /\ IdxOf(r, g, id) < low + n
  <2>1. Below(E, f, id) \in Nat /\ Below(E, f, id) < n /\ IdxOf(r, g, id) = low + Below(E, f, id)
    BY <1>1, <1>3
  <2> QED BY <1>1, <1>2, <2>1
<1>5. ASSUME NEW i \in E, NEW j \in E, IdxOf(r, g, i) = IdxOf(r, g, j)
      PROVE  i = j
  <2>1. Below(E, f, i) = Below(E, f, j)
    <3>1. Below(E, f, i) \in Nat /\ Below(E, f, j) \in Nat
          /\ IdxOf(r, g, i) = low + Below(E, f, i) /\ IdxOf(r, g, j) = low + Below(E, f, j)
      BY <1>1, <1>3
    <3> PICK x, y : x = Below(E, f, i) /\ y = Below(E, f, j)
      OBVIOUS
    <3>2. x \in Nat /\ y \in Nat /\ low + x = low + y /\ low \in Int
      BY <1>1, <1>5, <3>1
    <3>3. x = y
      BY ONLY <3>2
    <3> QED BY <3>3
  <2> QED BY <1>3, <2>1
<1>6. ASSUME NEW k \in Int, low <= k, k < low + n
      PROVE  \E id \in E : IdxOf(r, g, id) = k
  <2>1. k - low \in Nat /\ k - low < n /\ low + (k - low) = k
    BY <1>1, <1>2, <1>6
  <2>2. PICK id \in E : Below(E, f, id) = k - low
    BY <1>3, <2>1
  <2> QED BY <1>1, <2>1, <2>2
<1> QED BY <1>4, <1>5, <1>6 DEF E, n

(* Where spikes are on their way to, as long as the entry, the external     *)
(* spikes and the time table stay what they are.                            *)
LEMMA TransitNext ==
  ASSUME NEW p, NEW c, NEW r, rte' = r, extFiringTable' = extFiringTable,
         timeTable' = timeTable, simTimeMs' = simTimeMs
  PROVE  /\ InTransit(firingTable[p][c], p, c)' <=>
              \A g \in Sent(r) : ClassOf[g] = c =>
                \A id \in extFiringTable[g] :
                  IdxOf(r, g, id) \in Slot =>
                    firingTable'[p][c][IdxOf(r, g, id)] =
                      IF g \in Converted' THEN id + GtoLOffset(p, g) ELSE id
         /\ DestNet(rte)' = DestNet(r)
         /\ Sent(rte)' = Sent(r)
<1>1. Sent(rte)' = Sent(r) /\ DestNet(rte)' = DestNet(r)
  BY DEF Sent, SrcNet, DestNet
<1>2. \A g, id : IdxOf(rte, g, id)' = IdxOf(r, g, id)
  BY <1>1 DEF IdxOf, startIdx, SpikesOf, firingTableIdx, SrcNet, DestNet, Sent
<1>3. InTransit(firingTable[p][c], p, c)' <=>
        \A g \in Sent(rte)' : ClassOf[g] = c =>
          \A id \in extFiringTable'[g] :
            IdxOf(rte, g, id)' \in Slot =>
              firingTable'[p][c][IdxOf(rte, g, id)'] =
                IF g \in Converted' THEN id + GtoLOffset(p, g) ELSE id
  BY DEF InTransit
<1> HIDE DEF Sent, IdxOf, Converted
<1> QED BY <1>1, <1>2, <1>3

(* The spikes of an entry are put behind what the table holds.              *)
LEMMA TabledFork ==
  ASSUME TypeOK, PastInv, ExtInv, CountInv, Exclusive, NEW p \in Part, NEW c \in Class,
         Tabled(p, c), NEW r \in routes, RouteFork(r)
  PROVE  Tabled(p, c)'
<1> DEFINE ft == firingTable[p][c]
           ft2 == firingTable'[p][c]
           tt == timeTable[p][c]
           q == DestNet(r)
           here(k) == { x \in SpikesOf(Sent(r), c) : IdxOf(r, x[1], x[2]) = k }
<1>1. /\ timeTable' = timeTable /\ fired' = fired /\ routes' = routes
      /\ extFiringTable' = extFiringTable /\ rte' = r /\ phase = "route" /\ phase' = "convert"
      /\ threads' = { [grp |-> g, start |-> startIdx(r, g), count |-> Nobody] : g \in Sent(r) }
  BY DEF RouteFork
<1>2. simTime' = simTime /\ simTimeMs' = simTimeMs /\ Base' = Base /\ Cur' = Cur /\ Routing /\ Routing'
  BY Movement DEF Unmoved
<1>3. Done' = Done /\ Cur = simTimeMs + maxDelay + 1 /\ Done = Cur - 1
  <2>1. Done' = Done
    BY <1>2 DEF Done
  <2> QED BY <1>2, <2>1, WhereIs DEF WhereFacts
<1>4. Have(p, c)' = Have(p, c)
  BY <1>1, <1>2 DEF Have, Own, Fetched, SrcNet, DestNet
<1>5. Converted' = {}
  <2>1. Sent(rte)' = Sent(r)
    BY <1>1 DEF Sent, SrcNet, DestNet
  <2>2. \A g \in Sent(r) :
          [grp |-> g, start |-> startIdx(r, g), count |-> Nobody] \in threads'
    BY <1>1
  <2>3. \A g \in Sent(r) : \E th \in threads' : th.grp = g
    BY <2>2
  <2> QED BY <2>1, <2>3 DEF Converted
<1>6. r \in spikeRoutingTable /\ q \in Part
  BY PartitionAssumption DEF TypeOK, DestNet, spikeRoutingTable
<1>7. ASSUME p # q PROVE ft2 = ft
  <2>1. firingTable \in [Part -> [Class -> [Slot -> Int]]]
    BY DEF TypeOK
  <2>2. firingTable'[p] = firingTable[p]
    BY <1>7, <2>1 DEF RouteFork
  <2> QED BY <2>2
<1>8. ASSUME p = q
      PROVE  ft2 = [k \in Slot |-> IF here(k) = {} THEN ft[k] ELSE (CHOOSE x \in here(k) : TRUE)[2]]
  <2>1. firingTable \in [Part -> [Class -> [Slot -> Int]]]
    BY DEF TypeOK
  <2>2. firingTable'[q] = [d \in Class |-> [k \in Slot |->
          LET h == { x \in SpikesOf(Sent(r), d) : IdxOf(r, x[1], x[2]) = k }
          IN  IF h = {} THEN firingTable[q][d][k] ELSE (CHOOSE x \in h : TRUE)[2]]]
    BY <1>6, <2>1 DEF RouteFork
  <2> QED BY <1>8, <2>2
<1>9. ASSUME NEW x \in SpikesOf(Sent(r), c)
      PROVE  x[1] \in Sent(r) /\ ClassOf[x[1]] = c /\ x[2] \in extFiringTable[x[1]]
             /\ x = <<x[1], x[2]>>
  BY DEF SpikesOf
<1>10. p = q => firingTableIdx(r, c) = tt[Cur] /\ tt[Cur] \in Int
  BY <1>3, TimeTableEntries DEF firingTableIdx
<1>11. ASSUME NEW k \in Slot, k < tt[Cur] PROVE ft2[k] = ft[k]
  <2>1. CASE p # q
    BY <1>7, <2>1
  <2>2. CASE p = q
    <3>1. ASSUME NEW x \in here(k) PROVE FALSE
      <4>1. x[1] \in Sent(r) /\ ClassOf[x[1]] = c /\ x[2] \in extFiringTable[x[1]]
            /\ IdxOf(r, x[1], x[2]) = k
        BY <1>9
      <4> PICK low : low = firingTableIdx(r, ClassOf[x[1]])
        OBVIOUS
      <4>2. IdxOf(r, x[1], x[2]) \in Int /\ low <= IdxOf(r, x[1], x[2])
        BY <1>6, <4>1, SentInPlace
      <4>3. low = tt[Cur] /\ tt[Cur] \in Int
        BY <1>10, <2>2, <4>1
      <4> PICK i : i = IdxOf(r, x[1], x[2])
        OBVIOUS
      <4>4. i = k /\ low <= i /\ i \in Int /\ k < low /\ low \in Int
        BY <1>11, <4>1, <4>2, <4>3
      <4> QED BY ONLY <4>4
    <3>2. here(k) = {}
      BY <3>1
    <3> HIDE DEF here, ft, ft2
    <3> QED BY <1>8, <2>2, <3>2
  <2> QED BY <2>1, <2>2
<1>12. /\ tt[Done] <= tt[Cur] /\ tt[Done] \in Int /\ tt[Cur] \in Int
       /\ \A i \in FirstOf(c) .. Done : tt[i] \in Int
       /\ Ascending(tt, c, Done)
  <2>1. FirstOf(c) \in Nat /\ FirstOf(c) <= Done /\ Done <= Cur /\ Done \in Nat /\ Cur \in Nat
    BY SizeTypes
  <2>2. Done \in FirstOf(c) .. Cur /\ Cur \in FirstOf(c) .. Cur
    <3> HIDE DEF Done, Cur, FirstOf
    <3> QED BY <2>1
  <2>3. Ascending(tt, c, Cur)
    BY DEF Tabled
  <2>4. tt[Done] <= tt[Cur]
    BY <2>1, <2>2, <2>3 DEF Ascending
  <2> QED BY <2>2, <2>4, TabledTypes
<1>13. Windows(ft2, tt, fired, p, c, Base, Done)
  <2>1. Windows(ft, tt, fired, p, c, Base, Done)
    BY DEF Tabled
  <2>2. \A k \in Slot : k < tt[Done] => ft2[k] = ft[k]
    <3> SUFFICES ASSUME NEW k \in Slot, k < tt[Done] PROVE ft2[k] = ft[k]
      OBVIOUS
    <3>1. k < tt[Cur]
      BY <1>12, SlotBounds
    <3> QED BY <1>11, <3>1
  <2>3. Base \in Int /\ Done \in Nat /\ fired \in SUBSET (Neuron \X Nat)
    BY SizeTypes
  <2> HIDE DEF ft, ft2, tt, Base, Done, Windows, Ascending, FirstOf
  <2> QED BY <1>12, <2>1, <2>2, <2>3, WindowsSame
<1>14. Kept(p, ft2, tt[Cur - 1], tt[Cur], Have(p, c))
  <2>1. Kept(p, ft, tt[Cur - 1], tt[Cur], Have(p, c))
    BY <1>2 DEF Tabled
  <2> HIDE DEF ft, ft2, tt, Cur, Have
  <2> QED BY <1>11, <2>1, KeptSame
<1>15. ASSUME p = q, NEW g \in Sent(r), ClassOf[g] = c, NEW id \in extFiringTable[g],
              IdxOf(r, g, id) \in Slot
       PROVE  ft2[IdxOf(r, g, id)] = id
  <2> PICK k : k = IdxOf(r, g, id)
    OBVIOUS
  <2>1. <<g, id>> \in here(k)
    <3>1. <<g, id>> \in SpikesOf(Sent(r), c)
      BY <1>15 DEF SpikesOf
    <3> QED BY <3>1
  <2>2. ASSUME NEW x \in here(k) PROVE x[2] = id
    <3>1. x[1] \in Sent(r) /\ ClassOf[x[1]] = c /\ x[2] \in extFiringTable[x[1]]
          /\ IdxOf(r, x[1], x[2]) = k
      BY <1>9
    <3>2. x[1] = g
      BY <1>6, <1>15, <3>1, OneSender
    <3> PICK low : low = firingTableIdx(r, ClassOf[g])
      OBVIOUS
    <3>3. \A i, j \in extFiringTable[g] : IdxOf(r, g, i) = IdxOf(r, g, j) => i = j
      BY <1>6, SentInPlace
    <3> QED BY <3>1, <3>2, <3>3
  <2>3. (CHOOSE x \in here(k) : TRUE) \in here(k) /\ here(k) # {}
    <3> HIDE DEF here
    <3> QED BY <2>1
  <2>4. (CHOOSE x \in here(k) : TRUE)[2] = id
    BY <2>2, <2>3
  <2>5. k \in Slot
    BY <1>15
  <2> HIDE DEF here, ft, ft2
  <2> QED BY <1>8, <1>15, <2>3, <2>4, <2>5
<1>16. phase' = "convert" /\ p = DestNet(rte)' => InTransit(firingTable[p][c], p, c)'
  <2> SUFFICES ASSUME p = DestNet(rte)' PROVE InTransit(firingTable[p][c], p, c)'
    OBVIOUS
  <2>1. p = q
    BY <1>1 DEF DestNet
  <2> QED BY <1>1, <1>2, <1>5, <1>15, <2>1, TransitNext
<1>17. tt[FirstOf(c)] = 0 /\ Ascending(tt, c, Cur)
  BY DEF Tabled
<1>18. phase' # "time"
  BY <1>1
<1>19. Windows(firingTable'[p][c], timeTable'[p][c], fired', p, c, Base', Done')
  <2> HIDE DEF Windows, Base, Done
  <2> QED BY <1>1, <1>2, <1>3, <1>13
<1>20. Kept(p, firingTable'[p][c], timeTable'[p][c][Cur' - 1], timeTable'[p][c][Cur'], Have(p, c)')
  <2> HIDE DEF Kept, Cur, Have
  <2> QED BY <1>1, <1>2, <1>4, <1>14
<1>21. timeTable'[p][c][FirstOf(c)] = 0 /\ Ascending(timeTable'[p][c], c, Cur')
  <2> HIDE DEF Ascending, Cur, FirstOf
  <2> QED BY <1>1, <1>2, <1>17
<1> HIDE DEF ft, ft2, tt, Kept, Ascending, Windows, Base, Done, Cur, Have, FirstOf, Logged, Own, Routing, InTransit, q
<1> QED BY <1>16, <1>18, <1>19, <1>20, <1>21, TabledNext

(* A count is read.                                                         *)
LEMMA TabledRead ==
  ASSUME TypeOK, PastInv, ExtInv, NEW p \in Part, NEW c \in Class, Tabled(p, c),
         NEW th \in threads, ConvertRead(th)
  PROVE  Tabled(p, c)'
<1> DEFINE read == [th EXCEPT !.count = spikeCountSec[DestNet(rte)][ClassOf[th.grp]]]
<1>1. /\ timeTable' = timeTable /\ firingTable' = firingTable /\ fired' = fired
      /\ routes' = routes /\ extFiringTable' = extFiringTable /\ rte' = rte
      /\ phase = "convert" /\ phase' = "convert"
      /\ threads' = (threads \ {th}) \union {read}
  BY DEF ConvertRead, convertUnchanged
<1>2. simTime' = simTime /\ simTimeMs' = simTimeMs /\ Base' = Base /\ Cur' = Cur /\ Routing /\ Routing'
  BY Movement DEF Unmoved
<1>3. Done' = Done
  BY <1>2 DEF Done
<1>4. Have(p, c)' = Have(p, c)
  BY <1>1, <1>2 DEF Have, Own, Fetched, SrcNet, DestNet
<1>5. th \in [grp : Group, start : Int, count : Int]
  BY DEF TypeOK
<1>6. read.grp = th.grp
  BY <1>5
<1> HIDE DEF read
<1>7. Converted' = Converted
  <2>1. Sent(rte)' = Sent(rte)
    BY <1>1 DEF Sent, SrcNet, DestNet
  <2> QED BY <1>1, <1>6, <2>1 DEF Converted
<1>8. phase' = "convert" /\ p = DestNet(rte)' => InTransit(firingTable[p][c], p, c)'
  <2> SUFFICES ASSUME p = DestNet(rte)' PROVE InTransit(firingTable[p][c], p, c)'
    OBVIOUS
  <2>1. p = DestNet(rte)
    BY <1>1 DEF DestNet
  <2>2. InTransit(firingTable[p][c], p, c)
    BY <1>1, <2>1 DEF Tabled
  <2>3. firingTable'[p][c] = firingTable[p][c]
    BY <1>1
  <2> QED BY <1>1, <1>2, <1>7, <2>2, <2>3, TransitNext DEF InTransit
<1>9. phase' # "time"
  BY <1>1
<1> HIDE DEF Kept, Ascending, Windows, Base, Done, Cur, Have, FirstOf, Logged, Own, Routing, InTransit
<1>10. /\ Windows(firingTable'[p][c], timeTable'[p][c], fired', p, c, Base', Done')
       /\ Kept(p, firingTable'[p][c], timeTable'[p][c][Cur' - 1], timeTable'[p][c][Cur'], Have(p, c)')
       /\ timeTable'[p][c][FirstOf(c)] = 0 /\ Ascending(timeTable'[p][c], c, Cur')
  BY <1>1, <1>2, <1>3, <1>4 DEF Tabled
<1> QED BY <1>8, <1>9, <1>10, TabledNext

(* The ids of a group are made local.                                       *)
LEMMA TabledWrite ==
  ASSUME TypeOK, PastInv, ExtInv, CountInv, Exclusive, NEW p \in Part, NEW c \in Class,
         Tabled(p, c), NEW th \in threads, ConvertWrite(th)
  PROVE  Tabled(p, c)'
<1> DEFINE ft == firingTable[p][c]
           ft2 == firingTable'[p][c]
           tt == timeTable[p][c]
           q == DestNet(rte)
           g == th.grp
           d == ClassOf[g]
           n == Cardinality(extFiringTable[g])
           moved == th.start .. th.start + n - 1
<1>1. /\ timeTable' = timeTable /\ fired' = fired /\ routes' = routes
      /\ extFiringTable' = extFiringTable /\ rte' = rte /\ phase = "convert" /\ phase' = "convert"
      /\ firingTable' = [firingTable EXCEPT ![q][d] = [k \in Slot |->
           IF k \in moved THEN firingTable[q][d][k] + GtoLOffset(q, g) ELSE firingTable[q][d][k]]]
  BY DEF ConvertWrite, convertUnchanged
<1>2. simTime' = simTime /\ simTimeMs' = simTimeMs /\ Base' = Base /\ Cur' = Cur /\ Routing /\ Routing'
  BY Movement DEF Unmoved
<1>3. Done' = Done /\ Cur = simTimeMs + maxDelay + 1 /\ Done = Cur - 1
  <2>1. Done' = Done
    BY <1>2 DEF Done
  <2> QED BY <1>2, <2>1, WhereIs DEF WhereFacts
<1>4. Have(p, c)' = Have(p, c)
  BY <1>1, <1>2 DEF Have, Own, Fetched, SrcNet, DestNet
<1>5. /\ g \in Sent(rte) /\ q \in Part /\ g \notin Converted /\ Converted' = Converted \union {g}
      /\ rte \in spikeRoutingTable /\ d \in Class /\ th.start = startIdx(rte, g)
      /\ g \in Group /\ n \in Nat
  <2>1. /\ g \in Sent(rte) /\ q \in Part /\ g \notin Converted /\ Converted' = Converted \union {g}
        /\ g \in Group
    BY <1>1, OneMore
  <2>2. rte \in spikeRoutingTable /\ th.start = startIdx(rte, g)
    BY <1>1 DEF ExtInv, TypeOK
  <2> QED BY <2>1, <2>2, PartitionTypes, ExternalCounted
<1>6. ASSUME ~(p = q /\ c = d) PROVE ft2 = ft
  <2>1. firingTable \in [Part -> [Class -> [Slot -> Int]]]
    BY DEF TypeOK
  <2> HIDE DEF q, d, moved, g
  <2> QED BY <1>1, <1>5, <1>6, <2>1
<1>7. ASSUME p = q, c = d
      PROVE  ft2 = [k \in Slot |-> IF k \in moved THEN ft[k] + GtoLOffset(p, g) ELSE ft[k]]
  <2>1. firingTable \in [Part -> [Class -> [Slot -> Int]]]
    BY DEF TypeOK
  <2> HIDE DEF q, d, moved, g
  <2> QED BY <1>1, <1>5, <1>7, <2>1
<1>8. p = q /\ c = d => th.start = tt[Cur] /\ tt[Cur] \in Int
  <2> SUFFICES ASSUME p = q, c = d PROVE th.start = tt[Cur] /\ tt[Cur] \in Int
    OBVIOUS
  <2>1. startIdx(rte, g) = firingTableIdx(rte, d) /\ firingTableIdx(rte, d) \in Int
    BY <1>5, SentPlaces
  <2>2. firingTableIdx(rte, d) = tt[Cur]
    BY <1>3 DEF firingTableIdx
  <2> QED BY <1>5, <2>1, <2>2
<1>9. ASSUME NEW k \in Slot, k < tt[Cur] PROVE ft2[k] = ft[k]
  <2>1. CASE ~(p = q /\ c = d)
    BY <1>6, <2>1
  <2>2. CASE p = q /\ c = d
    <3>1. k \notin moved
      BY <1>5, <1>8, <1>9, <2>2, SlotBounds
    <3> HIDE DEF ft, ft2, moved
    <3> QED BY <1>7, <2>2, <3>1
  <2> QED BY <2>1, <2>2
<1>10. /\ tt[Done] <= tt[Cur] /\ tt[Done] \in Int /\ tt[Cur] \in Int
       /\ \A i \in FirstOf(c) .. Done : tt[i] \in Int
       /\ Ascending(tt, c, Done)
  <2>1. FirstOf(c) \in Nat /\ FirstOf(c) <= Done /\ Done <= Cur /\ Done \in Nat /\ Cur \in Nat
    BY SizeTypes
  <2>2. Done \in FirstOf(c) .. Cur /\ Cur \in FirstOf(c) .. Cur
    <3> HIDE DEF Done, Cur, FirstOf
    <3> QED BY <2>1
  <2>3. Ascending(tt, c, Cur)
    BY DEF Tabled
  <2>4. tt[Done] <= tt[Cur]
    BY <2>1, <2>2, <2>3 DEF Ascending
  <2> QED BY <2>2, <2>4, TabledTypes
<1>11. Windows(ft2, tt, fired, p, c, Base, Done)
  <2>1. Windows(ft, tt, fired, p, c, Base, Done)
    BY DEF Tabled
  <2>2. \A k \in Slot : k < tt[Done] => ft2[k] = ft[k]
    <3> SUFFICES ASSUME NEW k \in Slot, k < tt[Done] PROVE ft2[k] = ft[k]
      OBVIOUS
    <3>1. k < tt[Cur]
      BY <1>10, SlotBounds
    <3> QED BY <1>9, <3>1
  <2>3. Base \in Int /\ Done \in Nat /\ fired \in SUBSET (Neuron \X Nat)
    BY SizeTypes
  <2> HIDE DEF ft, ft2, tt, Base, Done, Windows, Ascending, FirstOf
  <2> QED BY <1>10, <2>1, <2>2, <2>3, WindowsSame
<1>12. Kept(p, ft2, tt[Cur - 1], tt[Cur], Have(p, c))
  <2>1. Kept(p, ft, tt[Cur - 1], tt[Cur], Have(p, c))
    BY <1>2 DEF Tabled
  <2> HIDE DEF ft, ft2, tt, Cur, Have
  <2> QED BY <1>9, <2>1, KeptSame
<1>13. ASSUME p = q, NEW h \in Sent(rte), ClassOf[h] = c, NEW id \in extFiringTable[h],
              IdxOf(rte, h, id) \in Slot
       PROVE  ft2[IdxOf(rte, h, id)] = IF h \in Converted' THEN id + GtoLOffset(p, h) ELSE id
  <2> PICK k : k = IdxOf(rte, h, id)
    OBVIOUS
  <2>1. ft[k] = IF h \in Converted THEN id + GtoLOffset(p, h) ELSE id
    BY <1>1, <1>13 DEF Tabled, InTransit
  <2>2. CASE c # d
    <3>1. h # g
      BY <1>13, <2>2
    <3> QED BY <1>5, <1>6, <2>1, <2>2, <3>1
  <2>3. CASE c = d
    <3>1. h = g
      BY <1>5, <1>13, <2>3, OneSender
    <3>2. ft[k] = id
      BY <1>5, <2>1, <3>1
    <3> PICK low : low = firingTableIdx(rte, ClassOf[g])
      OBVIOUS
    <3>3. k \in Int /\ low <= k /\ k < low + n
      BY <1>5, <1>13, <3>1, SentInPlace
    <3>4. low = th.start /\ low \in Int
      BY <1>5, SentPlaces
    <3>5. k \in moved
      <4> HIDE DEF n
      <4> QED BY <1>5, <3>3, <3>4
    <3>6. k \in Slot
      BY <1>13
    <3>7. ft2[k] = id + GtoLOffset(p, g)
      <4> HIDE DEF ft, ft2, moved
      <4> QED BY <1>7, <1>13, <2>3, <3>2, <3>5, <3>6
    <3> QED BY <1>5, <3>1, <3>7
  <2> QED BY <2>2, <2>3
<1>14. phase' = "convert" /\ p = DestNet(rte)' => InTransit(firingTable[p][c], p, c)'
  <2> SUFFICES ASSUME p = DestNet(rte)' PROVE InTransit(firingTable[p][c], p, c)'
    OBVIOUS
  <2>1. p = q
    BY <1>1 DEF DestNet
  <2>2. \A h \in Sent(rte) : ClassOf[h] = c =>
          \A id \in extFiringTable[h] :
            IdxOf(rte, h, id) \in Slot =>
              firingTable'[p][c][IdxOf(rte, h, id)] =
                IF h \in Converted' THEN id + GtoLOffset(p, h) ELSE id
    BY <1>13, <2>1
  <2>3. rte' = rte /\ extFiringTable' = extFiringTable /\ timeTable' = timeTable /\ simTimeMs' = simTimeMs
    BY <1>1, <1>2
  <2> HIDE DEF InTransit, IdxOf, Converted, Sent, ft2
  <2> QED BY <2>2, <2>3, TransitNext
<1>15. tt[FirstOf(c)] = 0 /\ Ascending(tt, c, Cur)
  BY DEF Tabled
<1>16. phase' # "time"
  BY <1>1
<1>17. Windows(firingTable'[p][c], timeTable'[p][c], fired', p, c, Base', Done')
  <2> HIDE DEF Windows, Base, Done
  <2> QED BY <1>1, <1>2, <1>3, <1>11
<1>18. Kept(p, firingTable'[p][c], timeTable'[p][c][Cur' - 1], timeTable'[p][c][Cur'], Have(p, c)')
  <2> HIDE DEF Kept, Cur, Have
  <2> QED BY <1>1, <1>2, <1>4, <1>12
<1>19. timeTable'[p][c][FirstOf(c)] = 0 /\ Ascending(timeTable'[p][c], c, Cur')
  <2> HIDE DEF Ascending, Cur, FirstOf
  <2> QED BY <1>1, <1>2, <1>15
<1> HIDE DEF ft, ft2, tt, Kept, Ascending, Windows, Base, Done, Cur, Have, FirstOf, Logged, Own, Routing, InTransit, q, g, d, n, moved
<1> QED BY <1>14, <1>16, <1>17, <1>18, <1>19, TabledNext

(* When all threads are done, the spikes of the entry follow what the table *)
(* of the target had.                                                       *)
LEMMA SentKept ==
  ASSUME TypeOK, PastInv, ExtInv, SizeInv, Exclusive, phase = "convert", threads = {},
         NEW p \in Part, NEW c \in Class, Tabled(p, c), p = DestNet(rte),
         NEW low \in Int, low = firingTableIdx(rte, c),
         NEW n, n = Cardinality(SpikesOf(Sent(rte), c)),
         RoutesOnce => \A k \in Nat : k <= low + n => k \in Slot
  PROVE  Kept(p, firingTable[p][c], low, low + n, Fetched(fired, p, c, simTime, {rte}))
<1> DEFINE ft == firingTable[p][c]
           G == Fetched(fired, p, c, simTime, {rte})
<1>1. rte \in spikeRoutingTable /\ Begun
  BY DEF ExtInv, TypeOK, Begun
<1>2. /\ \A x \in SpikesOf(Sent(rte), c) : \E m \in G : m[1] = x[1] /\ gNId(m) = x[2]
      /\ \A m \in G : m[1] \in Sent(rte) /\ gNId(m) \in extFiringTable[m[1]]
  BY <1>1, Transferred
<1>3. \A m \in G : m \in Neuron /\ ClassOf[m[1]] = c /\ netId[m[1]] # p
                   /\ m[1] \in groupPartitionList[p]
  BY DEF Fetched
<1>4. Converted = Sent(rte)
  BY DEF Converted
<1>5. InTransit(ft, p, c)
  BY DEF Tabled
<1>6. CASE \A g \in Sent(rte) : ClassOf[g] # c
  <2>1. SpikesOf(Sent(rte), c) = {}
    BY <1>6 DEF SpikesOf
  <2>2. n = 0 /\ low + n = low
    BY <2>1, FS_EmptySet
  <2>3. G = {}
    <3> HIDE DEF G
    <3> QED BY <1>2, <1>3, <1>6
  <2> HIDE DEF G, Kept
  <2>4. Kept(p, firingTable[p][c], low, low, {})
    BY KeptNone
  <2> QED BY <2>2, <2>3, <2>4 DEF G
<1>7. CASE \E g \in Sent(rte) : ClassOf[g] = c
  <2>1. PICK g \in Sent(rte) : ClassOf[g] = c
    BY <1>7
  <2> DEFINE E == extFiringTable[g]
  <2>2. /\ SpikesOf(Sent(rte), c) = {g} \X E /\ g \in Group
    BY <1>1, <2>1, SentPlaces
  <2>3. n = Cardinality(E) /\ n \in Nat
    <3>1. IsFiniteSet(E) /\ Cardinality(E) \in Nat
      BY <2>2, ExternalCounted
    <3>2. Cardinality({g} \X E) = Cardinality(E)
      <4> HIDE DEF E
      <4> QED BY <3>1, PairsCounted
    <3> QED BY <2>2, <3>1, <3>2
  <2>4. \A h \in Sent(rte) : ClassOf[h] = c => h = g
    BY <1>1, <2>1, OneSender
  <2>5. /\ \A id \in E : IdxOf(rte, g, id) \in Int /\ low <= IdxOf(rte, g, id)
                         /\ IdxOf(rte, g, id) < low + n
        /\ \A i, j \in E : IdxOf(rte, g, i) = IdxOf(rte, g, j) => i = j
        /\ \A k \in Int : low <= k /\ k < low + n => \E id \in E : IdxOf(rte, g, id) = k
    BY <1>1, <2>1, <2>3, SentInPlace
  <2>6. \A id \in E : \E m \in G : m[1] = g /\ gNId(m) = id
    <3> SUFFICES ASSUME NEW id \in E PROVE \E m \in G : m[1] = g /\ gNId(m) = id
      OBVIOUS
    <3>1. <<g, id>> \in SpikesOf(Sent(rte), c)
      BY <2>2
    <3>2. <<g, id>>[1] = g /\ <<g, id>>[2] = id
      OBVIOUS
    <3> HIDE DEF G
    <3> QED BY <1>2, <3>1, <3>2
  <2>7. \A m \in G : m[1] = g /\ gNId(m) \in E
    <3> SUFFICES ASSUME NEW m \in G PROVE m[1] = g /\ gNId(m) \in E
      OBVIOUS
    <3>1. m[1] \in Sent(rte) /\ ClassOf[m[1]] = c /\ gNId(m) \in extFiringTable[m[1]]
      <4> HIDE DEF G, gNId, Sent, E
      <4> QED BY <1>2, <1>3
    <3>2. m[1] = g
      BY <2>4, <3>1
    <3> HIDE DEF G, gNId, Sent
    <3> QED BY <3>1, <3>2
  <2>8. ASSUME NEW m \in G, IdxOf(rte, g, gNId(m)) \in Slot
        PROVE  ft[IdxOf(rte, g, gNId(m))] = lNId[p][m]
    <3>1. gNId(m) + GtoLOffset(p, g) = lNId[p][m]
      BY <1>3, <2>7, GlobalToLocal
    <3>2. ft[IdxOf(rte, g, gNId(m))] = gNId(m) + GtoLOffset(p, g)
      <4> HIDE DEF G, ft, IdxOf
      <4> QED BY <1>4, <1>5, <2>1, <2>7, <2>8 DEF InTransit
    <3> QED BY <3>1, <3>2
  <2>9. ASSUME NEW k \in Slot, low <= k, k < low + n
        PROVE  \E m \in G : IdxOf(rte, g, gNId(m)) = k /\ ft[k] = lNId[p][m]
    <3>1. k \in Int
      BY SlotBounds
    <3>2. PICK id \in E : IdxOf(rte, g, id) = k
      BY <2>5, <2>9, <3>1
    <3>3. PICK m \in G : m[1] = g /\ gNId(m) = id
      BY <2>6
    <3> HIDE DEF G, ft
    <3> QED BY <2>8, <3>2, <3>3
  <2>10. ASSUME NEW m \in G, netId[m[1]] = p \/ RoutesOnce
         PROVE  \E k \in Slot :
                  /\ low <= k /\ k < low + n /\ ft[k] = lNId[p][m]
                  /\ \A l \in Slot : low <= l /\ l < low + n /\ ft[l] = lNId[p][m] => l = k
    <3> PICK k : k = IdxOf(rte, g, gNId(m))
      OBVIOUS
    <3>1. RoutesOnce
      BY <1>3, <2>10
    <3>2. k \in Int /\ low <= k /\ k < low + n
      BY <2>5, <2>7
    <3>3. 0 <= low
      <4>1. timeTable[p][c][FirstOf(c)] = 0 /\ Ascending(timeTable[p][c], c, Cur)
        BY DEF Tabled
      <4>2. FirstOf(c) \in FirstOf(c) .. Cur /\ Cur \in FirstOf(c) .. Cur /\ FirstOf(c) <= Cur
        <5>1. FirstOf(c) \in Nat /\ FirstOf(c) <= Done /\ Done <= Cur /\ Done \in Nat /\ Cur \in Nat
          BY SizeTypes
        <5> HIDE DEF FirstOf, Done, Cur
        <5> QED BY <5>1
      <4>3. low = timeTable[p][c][Cur]
        <5>1. Cur = simTimeMs + maxDelay + 1
          BY <1>1, WhereIs DEF WhereFacts
        <5> QED BY <5>1 DEF firingTableIdx
      <4> QED BY <4>1, <4>2, <4>3 DEF Ascending
    <3>4. k \in Nat /\ k <= low + n
      <4> HIDE DEF G, ft
      <4> QED BY <2>3, <3>2, <3>3
    <3>5. k \in Slot
      BY <3>1, <3>4
    <3>6. ft[k] = lNId[p][m]
      BY <2>8, <3>5
    <3>7. ASSUME NEW l \in Slot, low <= l, l < low + n, ft[l] = lNId[p][m]
          PROVE  l = k
      <4>1. PICK o \in G : IdxOf(rte, g, gNId(o)) = l /\ ft[l] = lNId[p][o]
        BY <2>9, <3>7
      <4>2. o = m
        BY <1>3, <3>7, <4>1, LocalIdInjective
      <4> QED BY <4>1, <4>2
    <3> HIDE DEF G, ft
    <3> QED BY <3>2, <3>5, <3>6, <3>7
  <2> HIDE DEF G, ft
  <2>11. Kept(p, ft, low, low + n, G)
    BY <2>9, <2>10 DEF Kept
  <2> QED BY <2>11 DEF ft, G
<1> QED BY <1>6, <1>7

(* An entry has been served.                                                *)
LEMMA TabledJoin ==
  ASSUME TypeOK, PastInv, ExtInv, SizeInv, CountInv, Exclusive,
         TypeOK', PastInv', SizeInv',
         NEW p \in Part, NEW c \in Class, Tabled(p, c), RouteJoin
  PROVE  Tabled(p, c)'
<1> DEFINE q == DestNet(rte)
           tt == timeTable[p][c]
           tt2 == timeTable'[p][c]
           ft == firingTable[p][c]
           I == 0 .. MsPerSec + maxDelay
           i == simTimeMs + maxDelay + 1
           n == Cardinality(SpikesOf(Sent(rte), c))
           G == Fetched(fired, p, c, simTime, {rte})
           more == IF p = q THEN n ELSE 0
           H == Have(p, c)
           H2 == Have(p, c)'
<1>1. /\ fired' = fired /\ firingTable' = firingTable /\ routes' = routes \ {rte}
      /\ phase = "convert" /\ phase' \in {"deliver", "route"}
      /\ (phase' = "deliver" => routes' = {}) /\ threads = {}
  BY DEF RouteJoin
<1>2. simTime' = simTime /\ Base' = Base /\ Cur' = Cur /\ Begun' /\ Routing
  BY Movement DEF Unmoved
<1>3. /\ Done = Cur - 1 /\ Cur = i /\ Base + Done - maxDelay = simTime /\ Cur = Done + 1
  <2>1. Done = Cur - 1 /\ Cur = i /\ Begun
    BY <1>2, WhereIs DEF WhereFacts
  <2>2. Base + Cur - maxDelay = simTime + 1 /\ Base \in Int /\ Cur \in Int /\ simTime \in Int
    BY <2>1, Clock
  <2> HIDE DEF Cur, Base, simTime, i, Done
  <2> QED BY <2>1, <2>2, PartitionTypes
<1>4. rte \in routes /\ rte \in spikeRoutingTable /\ q \in Part
  BY <1>1, PartitionAssumption DEF ExtInv, TypeOK, DestNet
<1>5. n \in Nat
  BY <1>2, <1>4, TransferBounded DEF Routing, Begun
<1>6. tt \in [I -> Int] /\ i \in I
  <2>1. timeTable \in [Part -> [Class -> [I -> Int]]]
    BY DEF TypeOK
  <2>2. i \in I
    BY TimeTableEntries
  <2> HIDE DEF I, i
  <2> QED BY <2>1, <2>2
<1>7. tt2 = [tt EXCEPT ![i] = tt[i] + more]
  <2>1. timeTable \in [Part -> [Class -> [I -> Int]]]
    BY DEF TypeOK
  <2>2. timeTable' = [timeTable EXCEPT ![q] = [d \in Class |->
                        [timeTable[q][d] EXCEPT ![i] = timeTable[q][d][i] + Cardinality(SpikesOf(Sent(rte), d))]]]
    BY <2>1 DEF RouteJoin, firingTableIdx
  <2>3. CASE p = q
    <3>1. tt2 = [tt EXCEPT ![i] = tt[i] + n]
      <4> HIDE DEF i, I, n
      <4>1. timeTable'[q] = [d \in Class |->
                        [timeTable[q][d] EXCEPT ![i] = timeTable[q][d][i] + Cardinality(SpikesOf(Sent(rte), d))]]
        BY <1>4, <2>1, <2>2
      <4> QED BY <2>3, <4>1 DEF n
    <3> QED BY <2>3, <3>1
  <2>4. CASE p # q
    <3>1. tt2 = tt /\ more = 0
      <4> HIDE DEF i, I, n, q
      <4> QED BY <1>4, <2>1, <2>2, <2>4
    <3>2. tt[i] + more = tt[i]
      <4>1. tt[i] \in Int
        <5> HIDE DEF i, I, tt
        <5> QED BY <1>6
      <4> QED BY <3>1, <4>1
    <3> HIDE DEF i, I, tt, tt2, more
    <3> QED BY <1>6, <3>1, <3>2
  <2> QED BY <2>3, <2>4
<1>8. more \in Nat
  <2> HIDE DEF n
  <2> QED BY <1>5
<1>9. /\ tt2[Cur] = tt[Cur] + more /\ tt[Cur] \in Int
      /\ \A k \in FirstOf(c) .. Done : tt2[k] = tt[k] /\ tt[k] \in Int
  <2>1. \A k \in FirstOf(c) .. Done : k # i /\ k \in I
    <3>1. FirstOf(c) \in Nat /\ Done \in Nat /\ Cur \in Nat
      BY SizeTypes
    <3>2. i \in I /\ Done < i
      BY <1>3, <1>6, <3>1
    <3> HIDE DEF i, Done, Cur, FirstOf
    <3> QED BY <3>1, <3>2, PartitionTypes
  <2> HIDE DEF tt, tt2, I, i, FirstOf, more, Done
  <2> QED BY <1>3, <1>6, <1>7, <2>1
<1>10. /\ FirstOf(c) \in Nat /\ Done \in Nat /\ FirstOf(c) <= Done /\ Base \in Int
       /\ fired \in SUBSET (Neuron \X Nat) /\ Done \in FirstOf(c) .. Done /\ Cur \in Nat
       /\ Done \in FirstOf(c) .. Cur /\ Cur \in FirstOf(c) .. Cur
       /\ \A k \in FirstOf(c) .. Done : k \in FirstOf(c) .. Cur
  <2>1. FirstOf(c) \in Nat /\ Done \in Nat /\ FirstOf(c) <= Done /\ Base \in Int /\ Cur \in Nat
        /\ fired \in SUBSET (Neuron \X Nat) /\ Done <= Cur
    BY SizeTypes
  <2> HIDE DEF FirstOf, Done, Base, Cur
  <2> QED BY <2>1
<1>11. Ascending(tt, c, Cur) /\ tt[FirstOf(c)] = 0 /\ Windows(ft, tt, fired, p, c, Base, Done)
       /\ Kept(p, ft, tt[Cur - 1], tt[Cur], H)
  BY <1>2 DEF Tabled
<1>12. Ascending(tt, c, Done) /\ tt[Done] <= tt[Cur]
  <2> HIDE DEF FirstOf, Done, Cur
  <2> QED BY <1>3, <1>10, <1>11 DEF Ascending
<1>13. Ascending(tt2, c, Cur)
  <2>1. tt2[Done + 1] \in Int /\ tt[Done] <= tt2[Done + 1]
    <3>1. tt[Done] \in Int
      BY <1>9, <1>10
    <3> HIDE DEF FirstOf, Done, Cur, tt, tt2, more
    <3> QED BY <1>3, <1>8, <1>9, <1>12, <3>1
  <2> HIDE DEF FirstOf, Done, Cur, tt, tt2, Ascending
  <2>2. Ascending(tt2, c, Done + 1)
    BY <1>9, <1>10, <1>12, <2>1, AscendingMore
  <2> QED BY <1>3, <2>2
<1>14. Kept(p, ft, tt[Cur], tt2[Cur], G)
  <2>1. CASE p # q
    <3>1. G = {}
      BY <1>1, <1>2, <1>4, <2>1, HaveGrows
    <3>2. tt2[Cur] = tt[Cur]
      <4> HIDE DEF tt, tt2, Cur
      <4> QED BY <1>9, <2>1
    <3> HIDE DEF ft, tt, tt2, G, Cur, Kept
    <3>3. Kept(p, ft, tt[Cur], tt[Cur], {})
      BY <1>9, KeptNone
    <3> QED BY <3>1, <3>2, <3>3
  <2>2. CASE p = q
    <3> PICK low : low = firingTableIdx(rte, c)
      OBVIOUS
    <3>1. low = tt[Cur] /\ low \in Int /\ tt2[Cur] = low + n
      <4>1. low = tt[Cur]
        BY <1>3, <2>2 DEF firingTableIdx
      <4> HIDE DEF tt, tt2, Cur, n
      <4> QED BY <1>9, <2>2, <4>1
    <3>2. RoutesOnce => \A k \in Nat : k <= low + n => k \in Slot
      <4>1. RoomFacts'
        BY RoomFor, PTL
      <4>2. RoutesOnce => \A k \in Nat : k <= timeTable'[p][c][Cur'] => k \in Slot
        <5> HIDE DEF RoutesOnce, Slot
        <5> QED BY <4>1 DEF RoomFacts
      <4>3. timeTable'[p][c][Cur'] = low + n
        BY <1>2, <3>1
      <4> HIDE DEF n, Cur
      <4> QED BY <4>2, <4>3
    <3> HIDE DEF ft, tt, tt2, G, Cur, n, Kept
    <3>3. Kept(p, ft, low, low + n, G)
      BY <1>1, <2>2, <3>1, <3>2, SentKept DEF ft, G, n
    <3> QED BY <3>1, <3>3
  <2> QED BY <2>1, <2>2
<1>15. /\ H2 = H \union G /\ \A m \in G : netId[m[1]] # p
       /\ RoutesOnce => H \cap G = {}
  BY <1>1, <1>2, <1>4, HaveGrows
<1>16. H \in SUBSET Local(p) /\ G \in SUBSET Local(p)
  <2>1. {rte} \in SUBSET spikeRoutingTable /\ spikeRoutingTable \ routes \in SUBSET spikeRoutingTable
    BY <1>4
  <2>2. G \subseteq SpikesAt(fired, p, c, simTime) /\ H \subseteq SpikesAt(fired, p, c, simTime)
    BY <2>1, Gathered DEF Have
  <2>3. \A m \in SpikesAt(fired, p, c, simTime) : m \in Neuron /\ m[1] \in groupPartitionList[p]
    BY DEF SpikesAt, Carried
  <2> HIDE DEF G, H
  <2> QED BY <2>2, <2>3 DEF Local
<1>17. Kept(p, ft, tt2[Cur - 1], tt2[Cur], H2)
  <2>1. tt2[Cur - 1] = tt[Cur - 1] /\ tt[Cur - 1] \in Int /\ tt[Cur - 1] <= tt[Cur]
    <3> HIDE DEF FirstOf, Done, Cur, tt, tt2
    <3> QED BY <1>3, <1>9, <1>10, <1>12
  <2>2. tt2[Cur] \in Int /\ tt[Cur] <= tt2[Cur] /\ tt[Cur] \in Int
    <3> HIDE DEF FirstOf, Done, Cur, tt, tt2, more
    <3> QED BY <1>8, <1>9
  <2>3. \A m \in H \cap G : netId[m[1]] # p /\ ~RoutesOnce
    <3> HIDE DEF H, G, RoutesOnce
    <3> QED BY <1>15
  <2> HIDE DEF ft, tt, tt2, Cur, H, G, H2, Kept, RoutesOnce
  <2>4. Kept(p, ft, tt[Cur - 1], tt2[Cur], H \union G)
    BY <1>11, <1>14, <1>16, <2>1, <2>2, <2>3, KeptAppended
  <2> QED BY <1>15, <2>1, <2>4
<1>18. Windows(ft, tt2, fired, p, c, Base, Done)
  <2> HIDE DEF tt, tt2, ft, Done, Ascending, Windows, FirstOf, Base
  <2> QED BY <1>9, <1>10, <1>11, <1>12, WindowsSame
<1>19. tt2[FirstOf(c)] = 0
  <2>1. FirstOf(c) \in FirstOf(c) .. Done
    BY <1>10
  <2> HIDE DEF tt, tt2, FirstOf, Done
  <2> QED BY <1>9, <1>11, <2>1
<1>20. phase' # "time" /\ phase' # "convert"
  BY <1>1
<1>21. timeTable'[p][c][FirstOf(c)] = 0 /\ Ascending(timeTable'[p][c], c, Cur')
  <2> HIDE DEF Ascending, Cur, FirstOf
  <2> QED BY <1>2, <1>13, <1>19
<1>22. Kept(p, firingTable'[p][c], timeTable'[p][c][Cur' - 1], timeTable'[p][c][Cur'], Have(p, c)')
  <2> HIDE DEF Kept, Cur, Have
  <2> QED BY <1>1, <1>2, <1>17
<1>23. Windows(firingTable'[p][c], timeTable'[p][c], fired', p, c, Base', Done')
  <2>1. CASE phase' = "route"
    <3>1. Done' = Cur' - 1
      BY <2>1 DEF Done, Routing
    <3>2. Done' = Done
      <4> HIDE DEF Done, Cur
      <4> QED BY <1>2, <1>3, <3>1
    <3> HIDE DEF Windows, Base, Done
    <3> QED BY <1>1, <1>2, <1>18, <3>2
  <2>2. CASE phase' = "deliver"
    <3>1. Done' = Cur' /\ Done' = Done + 1
      <4>1. Done' = Cur'
        BY <2>2 DEF Done, Routing
      <4> HIDE DEF Done, Cur
      <4> QED BY <1>2, <1>3, <4>1
    <3>2. H2 = SpikesAt(fired, p, c, Base + Done - maxDelay)
      <4>1. H2 = Own(fired', p, c, simTime') \union Fetched(fired', p, c, simTime', spikeRoutingTable \ routes')
        BY DEF Have, Own, Fetched, SrcNet, DestNet
      <4>2. spikeRoutingTable \ routes' = spikeRoutingTable
        BY <1>1, <2>2
      <4>3. H2 = Own(fired, p, c, simTime) \union Fetched(fired, p, c, simTime, spikeRoutingTable)
        BY <1>1, <1>2, <4>1, <4>2
      <4>4. H2 = SpikesAt(fired, p, c, simTime)
        BY <4>3, Gathered
      <4> QED BY <1>3, <4>4
    <3>3. Kept(p, ft, tt2[Done], tt2[Done + 1], H2)
      <4> HIDE DEF Done, Cur, Kept, H2, ft, tt2
      <4> QED BY <1>3, <1>10, <1>17
    <3>4. Windows(ft, tt2, fired, p, c, Base, Done + 1)
      <4> HIDE DEF ft, tt2, H2, Kept, Windows, Base, Done
      <4> QED BY <1>10, <1>18, <3>2, <3>3, WindowsMore
    <3> HIDE DEF Windows, Base, Done
    <3> QED BY <1>1, <1>2, <3>1, <3>4
  <2> QED BY <1>1, <2>1, <2>2
<1> HIDE DEF ft, tt, tt2, Kept, Ascending, Windows, Base, Done, Cur, Have, FirstOf, Logged, Own, Routing, q, H, H2, G, n, more, i, I
<1> QED BY <1>20, <1>21, <1>22, <1>23, TabledNext

(* The shift: the spikes that are still on their way are moved to the front *)
(* of the table, if nothing was logged in the millisecond before them.      *)
LEMMA TabledSecond ==
  ASSUME TypeOK, PastInv, SizeInv, CountInv, Exclusive, NEW p \in Part, NEW c \in Class,
         Tabled(p, c), FinishSecond
  PROVE  Tabled(p, c)'
<1> DEFINE tt == timeTable[p][c]
           tt2 == timeTable'[p][c]
           ft == firingTable[p][c]
           ft2 == firingTable'[p][c]
           I == 0 .. MsPerSec + maxDelay
           top == MsPerSec + maxDelay
<1>1. fired' = fired /\ phase = "second" /\ phase' \in {"stop", "schedule"}
  BY DEF FinishSecond
<1>2. /\ Base' = Base + MsPerSec /\ Cur' = maxDelay /\ Standing'
      /\ Cur = top /\ Done = top
  BY <1>1, Movement, WhereIs DEF WhereFacts
<1>3. Done' = maxDelay /\ ~Routing' /\ phase' # "convert" /\ phase' # "time"
  BY <1>1, <1>2 DEF Done, Routing
<1>4. maxDelay \in Nat \ {0} /\ MsPerSec \in Nat \ {0} /\ maxDelay < MsPerSec /\ D1 # D2
      /\ Base \in Int /\ fired \in SUBSET (Neuron \X Nat)
  BY PartitionTypes, SizeTypes DEF D1, D2
<1>5. tt \in [I -> Int] /\ ft \in [Slot -> Int]
  <2>1. timeTable \in [Part -> [Class -> [I -> Int]]] /\ firingTable \in [Part -> [Class -> [Slot -> Int]]]
    BY DEF TypeOK
  <2> HIDE DEF I, Slot
  <2> QED BY <2>1
<1>6. tt[FirstOf(c)] = 0 /\ Ascending(tt, c, top) /\ Windows(ft, tt, fired, p, c, Base, top)
  BY <1>2 DEF Tabled
<1>7. CASE c = D1
  <2>1. FirstOf(c) = maxDelay
    BY <1>7, Entries
  <2>2. tt2 = [ShiftedTimes(timeTable[p][D1]) EXCEPT ![maxDelay] = 0]
    BY <1>4, <1>7 DEF FinishSecond, ShiftSpikeTables
  <2>3. maxDelay \in DOMAIN ShiftedTimes(timeTable[p][D1])
    <3>1. DOMAIN timeTable[p][D1] = 0 .. MsPerSec + maxDelay
      BY TimeTableEntries DEF TypeOK
    <3> QED BY <3>1, TimeTableEntries DEF ShiftedTimes
  <2>4. tt2[maxDelay] = 0
    BY <2>2, <2>3
  <2>5. Ascending(tt2, c, maxDelay)
    <3>1. \A i \in maxDelay .. maxDelay : i = maxDelay
      BY <1>4
    <3> HIDE DEF tt2
    <3> QED BY <2>1, <2>4, <3>1 DEF Ascending
  <2>6. Windows(ft2, tt2, fired, p, c, Base + MsPerSec, maxDelay)
    <3>1. \A i : i \notin maxDelay .. maxDelay - 1
      BY <1>4
    <3> HIDE DEF tt2, ft2, Base
    <3> QED BY <2>1, <3>1 DEF Windows
  <2> HIDE DEF Kept, Ascending, Windows, Base, Done, Cur, Have, FirstOf, Logged, Own, Routing
  <2> QED BY <1>1, <1>2, <1>3, <2>1, <2>4, <2>5, <2>6, TabledNext
<1>8. CASE c = D2
  <2>1. FirstOf(c) = 0
    BY <1>8, Entries
  <2>2. tt2 = [i \in I |-> IF i \in 1 .. maxDelay THEN tt[MsPerSec + i] - tt[MsPerSec] ELSE tt[i]]
    <3>1. tt2 = ShiftedTimes(tt)
      BY <1>8 DEF FinishSecond, ShiftSpikeTables
    <3> QED BY <1>5, <3>1 DEF ShiftedTimes
  <2>3. ft2 = [k \in Slot |->
           IF k + tt[MsPerSec - 1] \in Slot /\ k + tt[MsPerSec - 1] < tt[top]
           THEN ft[k + tt[MsPerSec - 1]] ELSE ft[k]]
    <3>1. ft2 = ShiftedTable(ft, tt)
      <4>1. D2 \in DOMAIN firingTable[p]
        BY TimeTableEntries DEF TypeOK
      <4> QED BY <1>8, <4>1 DEF FinishSecond, ShiftSpikeTables
    <3> QED BY <3>1 DEF ShiftedTable
  <2>4. /\ 0 \in I /\ MsPerSec \in I /\ MsPerSec - 1 \in I /\ top \in I /\ MsPerSec + 0 = MsPerSec
        /\ \A i \in 0 .. maxDelay : i \in I /\ MsPerSec + i \in I /\ (i = 0 \/ i \in 1 .. maxDelay)
        /\ \A i \in 0 .. maxDelay - 1 :
             /\ i \in 0 .. maxDelay /\ i + 1 \in 0 .. maxDelay
             /\ MsPerSec + i \in 0 .. top - 1 /\ ~(MsPerSec + i < maxDelay)
             /\ MsPerSec + (i + 1) = MsPerSec + i + 1
             /\ MsPerSec <= MsPerSec + i /\ MsPerSec + i + 1 <= top /\ MsPerSec + i + 1 \in I
        /\ MsPerSec - 1 \in 0 .. top - 1 /\ ~(MsPerSec - 1 < maxDelay) /\ MsPerSec - 1 + 1 = MsPerSec
        /\ MsPerSec <= top /\ MsPerSec - 1 <= MsPerSec /\ MsPerSec - 1 <= top /\ 0 <= MsPerSec - 1
    BY <1>4
  <2>5. 0 \notin 1 .. maxDelay
    OBVIOUS
  <2>6. tt2[0] = 0
    <3> HIDE DEF I, tt, tt2
    <3> QED BY <1>6, <2>1, <2>2, <2>4, <2>5
  <2>7. ASSUME NEW i \in 0 .. maxDelay PROVE tt2[i] = tt[MsPerSec + i] - tt[MsPerSec]
    <3>1. tt[MsPerSec] \in Int
      <4> HIDE DEF I, tt
      <4> QED BY <1>5, <2>4
    <3>2. CASE i = 0
      <4> HIDE DEF I, tt, tt2
      <4> QED BY <2>4, <2>6, <3>1, <3>2
    <3>3. CASE i \in 1 .. maxDelay
      <4> HIDE DEF I, tt, tt2
      <4> QED BY <2>2, <2>4, <3>3
    <3> QED BY <2>4, <3>2, <3>3
  <2>8. \A i \in I : tt[i] \in Int
    <3> HIDE DEF I, tt
    <3> QED BY <1>5
  <2>9. \A i, j \in I : i <= j => tt[i] <= tt[j]
    BY <1>6, <2>1 DEF Ascending
  <2>10. Ascending(tt2, c, maxDelay)
    <3> SUFFICES ASSUME NEW i \in 0 .. maxDelay, NEW j \in 0 .. maxDelay, i <= j
                 PROVE  tt2[i] <= tt2[j]
      BY <2>1 DEF Ascending
    <3> PICK k, l : k = MsPerSec + i /\ l = MsPerSec + j
      OBVIOUS
    <3>1. k \in I /\ l \in I /\ k <= l
      BY <1>4, <2>4
    <3>2. tt[k] <= tt[l] /\ tt[k] \in Int /\ tt[l] \in Int /\ tt[MsPerSec] \in Int
      <4> HIDE DEF I, tt
      <4> QED BY <2>4, <2>8, <2>9, <3>1
    <3>3. tt2[i] = tt[k] - tt[MsPerSec] /\ tt2[j] = tt[l] - tt[MsPerSec]
      BY <2>7
    <3> HIDE DEF tt, tt2
    <3> QED BY <3>2, <3>3
  <2>11. ASSUME NEW i \in 0 .. maxDelay - 1, RoutesOnce, Clean(fired, p, Base + MsPerSec)
         PROVE  Kept(p, ft2, tt2[i], tt2[i + 1], SpikesAt(fired, p, c, Base + MsPerSec + i - maxDelay))
    <3> PICK d, a, b : d = tt[MsPerSec] /\ a = tt[MsPerSec + i] /\ b = tt[MsPerSec + i + 1]
      OBVIOUS
    <3>1. d \in Nat /\ a \in Int /\ b \in Int /\ d <= a /\ b <= tt[top] /\ tt[top] \in Int
      <4> PICK j : j = MsPerSec + i
        OBVIOUS
      <4>1. j \in I /\ j + 1 \in I /\ MsPerSec <= j /\ j + 1 <= top /\ 0 <= MsPerSec
        BY <1>4, <2>4
      <4>2. tt[0] = 0
        BY <1>6, <2>1
      <4> HIDE DEF I, tt, top
      <4> QED BY <2>4, <2>8, <2>9, <4>1, <4>2
    <3>2. Kept(p, ft, a, b, SpikesAt(fired, p, c, Base + (MsPerSec + i) - maxDelay))
      <4> PICK j : j = MsPerSec + i
        OBVIOUS
      <4>1. j \in 0 .. top - 1 /\ ~(j < maxDelay)
        BY <2>4
      <4>2. Kept(p, ft, tt[j], tt[j + 1], SpikesAt(fired, p, c, Base + j - maxDelay))
        <5> HIDE DEF tt, ft, Kept, Base, top
        <5> QED BY <1>6, <2>1, <4>1 DEF Windows
      <4> QED BY <4>2
    <3>3. tt[MsPerSec - 1] = d
      <4> PICK j : j = MsPerSec - 1
        OBVIOUS
      <4>1. /\ j \in I /\ j \in 0 .. top - 1 /\ ~(j < maxDelay) /\ j + 1 = MsPerSec
            /\ j <= MsPerSec /\ j <= top /\ 0 <= j
        BY <2>4
      <4>2. Kept(p, ft, tt[j], tt[MsPerSec], SpikesAt(fired, p, c, Base + j - maxDelay))
        <5> HIDE DEF tt, ft, Kept, Base, top, I
        <5> QED BY <1>6, <2>1, <4>1 DEF Windows
      <4>3. SpikesAt(fired, p, c, Base + j - maxDelay) = {}
        <5> PICK t : t = Base + j - maxDelay
          OBVIOUS
        <5>1. t = Base + MsPerSec - 1 - maxDelay
          <6> HIDE DEF Base
          <6> QED BY <1>4
        <5>2. \A n \in Carried(p, D2) : <<n, t>> \notin fired
          <6> SUFFICES ASSUME NEW n \in Carried(p, D2), <<n, t>> \in fired PROVE FALSE
            OBVIOUS
          <6> PICK s : s = <<n, t>>
            OBVIOUS
          <6>1. s \in fired /\ s[1] \in Carried(p, D2) /\ s[2] = t
            OBVIOUS
          <6> HIDE DEF Base, Carried
          <6> PICK z : z = Base + MsPerSec
            OBVIOUS
          <6>2. Clean(fired, p, z)
            BY <2>11
          <6>3. \A x \in fired : x[1] \in Carried(p, D2) => x[2] # z - 1 - maxDelay
            BY <6>2 DEF Clean
          <6>4. s[2] # z - 1 - maxDelay
            BY <6>1, <6>3
          <6> QED BY <1>4, <5>1, <6>1, <6>4
        <5>3. SpikesAt(fired, p, c, t) = {}
          BY <1>8, <5>2 DEF SpikesAt
        <5> QED BY <5>3
      <4>4. \A k \in Slot : ~(tt[j] <= k /\ k < tt[MsPerSec])
        BY <4>2, <4>3 DEF Kept
      <4>5. tt[j] \in Nat /\ tt[j] <= tt[MsPerSec] /\ tt[j] <= tt[top]
        <5>1. tt[0] = 0
          BY <1>6, <2>1
        <5> HIDE DEF I, tt, top
        <5> QED BY <2>4, <2>8, <2>9, <4>1, <5>1
      <4>6. tt[j] \in Slot
        BY <1>2, <2>11, <4>5, RoomFor DEF RoomFacts
      <4> HIDE DEF tt, I
      <4> QED BY <3>1, <4>4, <4>5, <4>6
    <3>4. ASSUME NEW k \in Slot, a - d <= k, k < b - d
          PROVE  k + d \in Slot /\ ft2[k] = ft[k + d]
      <4>1. k \in Nat
        BY SlotBounds
      <4>2. k + d \in Nat /\ k + d < b /\ k + d <= tt[top] /\ k + d < tt[top]
        <5> HIDE DEF tt, top
        <5> QED BY <3>1, <3>4, <4>1
      <4>3. k + d \in Slot
        BY <1>2, <2>11, <4>2, RoomFor DEF RoomFacts
      <4> HIDE DEF tt, ft, ft2, top
      <4> QED BY <2>3, <3>3, <4>2, <4>3
    <3>5. Kept(p, ft2, a - d, b - d, SpikesAt(fired, p, c, Base + (MsPerSec + i) - maxDelay))
      <4> PICK N : N = SpikesAt(fired, p, c, Base + (MsPerSec + i) - maxDelay)
        OBVIOUS
      <4>1. Kept(p, ft, a, b, N)
        BY <3>2
      <4>2. \A k \in Slot : a - d <= k /\ k < b - d => k + d \in Slot /\ ft2[k] = ft[k + d]
        BY <3>4
      <4> HIDE DEF ft, ft2, tt, Kept
      <4>3. Kept(p, ft2, a - d, b - d, N)
        BY <3>1, <4>1, <4>2, KeptMoved
      <4> QED BY <4>3
    <3>6. tt2[i] = a - d /\ tt2[i + 1] = b - d
      <4>1. i \in 0 .. maxDelay /\ i + 1 \in 0 .. maxDelay /\ MsPerSec + (i + 1) = MsPerSec + i + 1
        BY <2>4
      <4>2. tt2[i] = tt[MsPerSec + i] - tt[MsPerSec] /\ tt2[i + 1] = tt[MsPerSec + (i + 1)] - tt[MsPerSec]
        BY <2>7, <4>1
      <4> HIDE DEF tt, tt2
      <4> QED BY <4>1, <4>2
    <3>7. Base + (MsPerSec + i) - maxDelay = Base + MsPerSec + i - maxDelay
      <4> HIDE DEF Base
      <4> QED BY <1>4
    <3> HIDE DEF ft2, tt2, Kept, Base
    <3> QED BY <3>5, <3>6, <3>7
  <2>12. Windows(ft2, tt2, fired, p, c, Base + MsPerSec, maxDelay)
    <3>1. \A i \in 0 .. maxDelay - 1 : i < maxDelay
      BY <1>4
    <3> HIDE DEF ft2, tt2, Kept, Base, Clean
    <3> QED BY <2>1, <2>11, <3>1 DEF Windows
  <2> HIDE DEF Kept, Ascending, Windows, Base, Done, Cur, Have, FirstOf, Logged, Own, Routing
  <2> QED BY <1>1, <1>2, <1>3, <2>1, <2>6, <2>10, <2>12, TabledNext
<1> QED BY <1>7, <1>8 DEF Class

(* The tables are empty when the kernel starts.                             *)
LEMMA TableInit ==
  Init => TableInv
<1> SUFFICES ASSUME Init, NEW p \in Part, NEW c \in Class PROVE Tabled(p, c)
  BY DEF TableInv
<1> DEFINE I == 0 .. MsPerSec + maxDelay
<1>1. timeTable = [q \in Part |-> [d \in Class |-> [i \in I |-> 0]]]
  BY DEF Init
<1>2. \A i \in I : timeTable[p][c][i] = 0
  <2> HIDE DEF I
  <2> QED BY <1>1
<1>3. TypeOK /\ PastInv
  BY TypesInit, PastInit
<1>4. phase = "idle" /\ fired = {} /\ ~Routing
  BY DEF Init, Routing
<1>5. /\ FirstOf(c) \in I
      /\ \A i \in FirstOf(c) .. Cur : i \in I
      /\ \A i \in FirstOf(c) .. Done - 1 : i \in I /\ i + 1 \in I
  <2>1. /\ FirstOf(c) \in Nat /\ FirstOf(c) <= Done /\ Done <= Cur /\ Cur <= MsPerSec + maxDelay
        /\ Done \in Nat /\ Cur \in Nat /\ maxDelay \in Nat /\ MsPerSec \in Nat
    BY <1>3, SizeTypes
  <2> HIDE DEF FirstOf, Cur, Done
  <2> QED BY <2>1
<1>6. Ascending(timeTable[p][c], c, Cur)
  <2>1. \A i \in FirstOf(c) .. Cur : timeTable[p][c][i] = 0
    BY <1>2, <1>5
  <2> HIDE DEF FirstOf, Cur
  <2> QED BY <2>1 DEF Ascending
<1>7. Windows(firingTable[p][c], timeTable[p][c], fired, p, c, Base, Done)
  <2> SUFFICES ASSUME NEW i \in FirstOf(c) .. Done - 1
               PROVE  Kept(p, firingTable[p][c], timeTable[p][c][i], timeTable[p][c][i + 1],
                           SpikesAt(fired, p, c, Base + i - maxDelay))
    BY DEF Windows
  <2>1. timeTable[p][c][i] = 0 /\ timeTable[p][c][i + 1] = 0
    BY <1>2, <1>5
  <2>2. SpikesAt(fired, p, c, Base + i - maxDelay) = {}
    BY <1>4 DEF SpikesAt
  <2> HIDE DEF Kept, Base
  <2>3. Kept(p, firingTable[p][c], 0, 0, {})
    BY KeptNone
  <2> QED BY <2>1, <2>2, <2>3
<1>8. timeTable[p][c][FirstOf(c)] = 0
  BY <1>2, <1>5
<1> HIDE DEF I, Done, Cur, Base, Windows, Ascending, Routing, Kept, InTransit
<1> QED BY <1>4, <1>6, <1>7, <1>8 DEF Tabled

(* Every step leaves the tables right: logging, appending, converting, the  *)
(* end of a millisecond, and the shift at the end of a second.              *)
LEMMA TableStep ==
  TypeOK /\ PastInv /\ ExtInv /\ SizeInv /\ CountInv /\ TableInv /\ [Next]_vars => TableInv'
<1> SUFFICES ASSUME TypeOK, PastInv, ExtInv, SizeInv, CountInv, TableInv, [Next]_vars, Exclusive,
                    NEW p \in Part, NEW c \in Class
             PROVE  Tabled(p, c)'
  BY DEF TableInv
<1>0. Tabled(p, c) /\ TypeOK' /\ PastInv' /\ SizeInv'
  BY TypesStep, PastStep, SizeStep DEF TableInv
<1>a. Standing => ~Routing
  BY DEF Standing, Routing
<1>b. Standing' => ~Routing'
  BY DEF Standing, Routing
<1> HIDE DEF Exclusive
<1>1. ASSUME Unmoved, Standing, Standing', phase' # "time",
             UNCHANGED tableVars, fired' = fired
      PROVE  Tabled(p, c)'
  BY <1>0, <1>1, <1>a, <1>b, TabledQuiet DEF Unmoved, tableVars
<1>2. ASSUME NEW d \in Durations, RunNetwork(d) PROVE Tabled(p, c)'
  BY <1>1, <1>2, Movement DEF RunNetwork
<1>3. ASSUME Schedule PROVE Tabled(p, c)'
  BY <1>1, <1>3, Movement DEF Schedule
<1>4. ASSUME NEW q \in Part, ClearBits(q) \/ FillBits(q) \/ CopyBits(q) PROVE Tabled(p, c)'
  <2>1. UNCHANGED bitsUnchanged /\ phase = "generate"
    BY <1>4 DEF ClearBits, FillBits, CopyBits
  <2> QED BY <1>1, <1>4, <2>1, Movement DEF bitsUnchanged
<1>5. ASSUME StepBuffer PROVE Tabled(p, c)'
  BY <1>1, <1>5, Movement DEF StepBuffer
<1>6. ASSUME FindFiring PROVE Tabled(p, c)'
  BY <1>0, <1>6, TabledFire
<1>7. ASSUME UpdateTimingTable PROVE Tabled(p, c)'
  BY <1>0, <1>7, TabledTime
<1>8. ASSUME NEW r \in routes, RouteFork(r) PROVE Tabled(p, c)'
  BY <1>0, <1>8, TabledFork
<1>9. ASSUME NEW th \in threads, ConvertRead(th) PROVE Tabled(p, c)'
  BY <1>0, <1>9, TabledRead
<1>10. ASSUME NEW th \in threads, ConvertWrite(th) PROVE Tabled(p, c)'
  BY <1>0, <1>10, TabledWrite
<1>11. ASSUME RouteJoin PROVE Tabled(p, c)'
  BY <1>0, <1>11, TabledJoin
<1>12. ASSUME DoCurrentUpdate PROVE Tabled(p, c)'
  <2>1. phase = "deliver" /\ phase' = "advance" /\ UNCHANGED tableVars /\ fired' = fired
    BY <1>12 DEF DoCurrentUpdate
  <2> QED BY <1>0, <1>12, <2>1, Movement, TabledQuiet DEF Unmoved, tableVars
<1>13. ASSUME AdvanceTime PROVE Tabled(p, c)'
  <2>1. phase = "advance" /\ UNCHANGED tableVars /\ fired' = fired
    BY <1>13 DEF AdvanceTime
  <2> QED BY <1>0, <1>13, <2>1, Movement, TabledQuiet DEF tableVars
<1>14. ASSUME FinishSecond PROVE Tabled(p, c)'
  BY <1>0, <1>14, TabledSecond
<1>15. ASSUME FinishRun PROVE Tabled(p, c)'
  BY <1>1, <1>15, Movement DEF FinishRun
<1>16. CASE UNCHANGED vars
  <2>1. /\ timeTable' = timeTable /\ spikeCountSec' = spikeCountSec /\ fired' = fired
        /\ spikeCountLastSecLeftD2' = spikeCountLastSecLeftD2 /\ routes' = routes
        /\ extFiringTable' = extFiringTable /\ rte' = rte /\ phase' = phase
        /\ threads' = threads /\ simTimeMs' = simTimeMs /\ simTimeSec' = simTimeSec
        /\ firingTable' = firingTable
    BY <1>16 DEF vars, tableVars, routeVars
  <2>2. Base' = Base /\ Cur' = Cur /\ Done' = Done /\ Routing' = Routing /\ simTime' = simTime
    BY <2>1 DEF Base, Cur, Done, Routing, Begun, secondStart, simTime
  <2>3. Have(p, c)' = Have(p, c)
    BY <2>1, <2>2 DEF Have, Own, Fetched, SrcNet, DestNet
  <2>4. Logged(p, c)' = Logged(p, c) /\ DestNet(rte)' = DestNet(rte)
    BY <2>1 DEF Logged, DestNet
  <2>5. Converted' = Converted
    BY <2>1 DEF Converted, Sent, SrcNet, DestNet
  <2>6. phase' = "convert" /\ p = DestNet(rte)' => InTransit(firingTable[p][c], p, c)'
    <3> SUFFICES ASSUME phase' = "convert", p = DestNet(rte)' PROVE InTransit(firingTable[p][c], p, c)'
      OBVIOUS
    <3>1. InTransit(firingTable[p][c], p, c)
      BY <1>0, <2>1, <2>4 DEF Tabled
    <3>2. firingTable'[p][c] = firingTable[p][c]
      BY <2>1
    <3> QED BY <2>1, <2>5, <3>1, <3>2, TransitNext DEF InTransit
  <2>7. Own(fired', p, c, simTime') = Own(fired, p, c, simTime)
    BY <2>1, <2>2
  <2> HIDE DEF Kept, Ascending, Windows, Base, Done, Cur, Have, FirstOf, Logged, Own, Routing, InTransit
  <2> QED BY <1>0, <2>1, <2>2, <2>3, <2>4, <2>6, <2>7, TabledNext DEF Tabled
<1> QED
  BY <1>2, <1>3, <1>4, <1>5, <1>6, <1>7, <1>8, <1>9, <1>10, <1>11, <1>12, <1>13, <1>14, <1>15, <1>16
     DEF Next

-----------------------------------------------------------------------------
(* Delivery.                                                                *)

(* A neuron is found among entries that are kept as often as it is one of   *)
(* their neurons.                                                           *)
LEMMA KeptCounted ==
  ASSUME NEW p \in Part, NEW ft, NEW a, NEW b, NEW N \in SUBSET Local(p), Kept(p, ft, a, b, N),
         NEW n \in Local(p), netId[n[1]] = p \/ RoutesOnce,
         NEW W, W = { k \in Slot : a <= k /\ k < b /\ ft[k] = lNId[p][n] }
  PROVE  Cardinality(W) = IF n \in N THEN 1 ELSE 0
<1>1. CASE n \in N
  <2>1. PICK k \in Slot :
          /\ a <= k /\ k < b /\ ft[k] = lNId[p][n]
          /\ \A l \in Slot : a <= l /\ l < b /\ ft[l] = lNId[p][n] => l = k
    BY <1>1 DEF Kept
  <2>2. W = {k}
    BY <2>1
  <2>3. Cardinality(W) = 1
    BY <2>2, FS_Singleton
  <2> QED BY <1>1, <2>3
<1>2. CASE n \notin N
  <2>1. ASSUME NEW k \in W PROVE FALSE
    <3>1. PICK m \in N : ft[k] = lNId[p][m]
      BY <2>1 DEF Kept
    <3>2. m = n
      BY <3>1, LocalIdInjective DEF Local
    <3> QED BY <1>2, <3>2
  <2>2. W = {}
    BY <2>1
  <2>3. Cardinality(W) = 0
    BY <2>2, FS_EmptySet
  <2> QED BY <1>2, <2>3
<1> QED BY <1>1, <1>2

(* A finite set of numbers has a largest one.                               *)
LEMMA LargestOf ==
  ASSUME NEW S \in SUBSET Int, IsFiniteSet(S), S # {}
  PROVE  \E x \in S : \A y \in S : y <= x
<1> DEFINE f == [x \in S |-> x]
           c == Cardinality(S)
           below(x) == { y \in S : f[y] < f[x] }
<1>1. Numbered(S, f, S)
  <2>1. f \in [S -> Int] /\ \A x, y \in S : f[x] = f[y] => x = y
    OBVIOUS
  <2>2. S \in SUBSET S /\ \A x \in S, y \in S : f[y] < f[x] => y \in S
    OBVIOUS
  <2> HIDE DEF f
  <2> QED BY <2>1, <2>2, Ranks
<1>2. c \in Nat /\ c # 0
  BY FS_EmptySet, FS_CardinalityType
<1>3. PICK x \in S : Below(S, f, x) = c - 1
  <2>1. c - 1 \in Nat /\ c - 1 < c
    BY <1>2
  <2> HIDE DEF f
  <2> QED BY <1>1, <2>1 DEF Numbered
<1>4. ASSUME NEW y \in S, x < y
      PROVE  FALSE
  <2>1. below(x) \subseteq below(y) /\ x \in below(y) /\ x \notin below(x)
    <3>1. x \in Int /\ y \in Int /\ \A z \in S : z \in Int
      OBVIOUS
    <3>2. \A z \in S : z < x => z < y
      BY <1>4, <3>1
    <3>3. ~(x < x)
      BY <3>1
    <3>4. \A z, u \in S : f[z] < f[u] <=> z < u
      OBVIOUS
    <3> HIDE DEF f
    <3> QED BY <1>4, <3>2, <3>3, <3>4
  <2>2. IsFiniteSet(below(y)) /\ IsFiniteSet(below(x))
    BY FS_Subset
  <2>3. Cardinality(below(y)) = Below(S, f, y) /\ Cardinality(below(x)) = Below(S, f, x)
    BY DEF Below
  <2>4. Below(S, f, y) \in Nat /\ Below(S, f, y) < c
    BY <1>1 DEF Numbered
  <2> HIDE DEF below, f, c
  <2>5. below(x) # below(y)
    BY <2>1
  <2>6. Cardinality(below(x)) < Cardinality(below(y))
    <3>1. Cardinality(below(x)) <= Cardinality(below(y))
          /\ (Cardinality(below(y)) = Cardinality(below(x)) => below(x) = below(y))
      BY <2>1, <2>2, FS_Subset
    <3>2. Cardinality(below(x)) \in Nat /\ Cardinality(below(y)) \in Nat
      BY <2>2, FS_CardinalityType
    <3> QED BY <2>5, <3>1, <3>2
  <2> QED BY <1>2, <1>3, <2>3, <2>4, <2>6
<1>5. ASSUME NEW y \in S PROVE y <= x
  <2>1. ~(x < y)
    BY <1>4
  <2>2. x \in Int /\ y \in Int
    OBVIOUS
  <2> QED BY <2>1, <2>2
<1> QED BY <1>5

(* No connection has a longer delay than maxDelay.                          *)
LEMMA LongestDelay ==
  \A c \in Connection : delay[c] <= maxDelay
<1> DEFINE S == { delay[c] : c \in Connection }
           f == [c \in Connection |-> delay[c]]
<1>1. S \in SUBSET Int /\ S # {}
  <2>1. \A c \in Connection : delay[c] \in Int
    BY PartitionAssumption
  <2>2. \E c \in Connection : TRUE
    BY PartitionAssumption
  <2> QED BY <2>1, <2>2
<1>2. IsFiniteSet(S)
  <2>1. f \in Surjection(Connection, S)
    BY DEF Surjection
  <2> HIDE DEF f, S
  <2> QED BY <2>1, PartitionAssumption, FS_Surjection
<1>3. \E d \in S : \A e \in S : e <= d
  <2> HIDE DEF S
  <2> QED BY <1>1, <1>2, LargestOf
<1>4. \E d \in S : \A c \in Connection : delay[c] <= d
  BY <1>3
<1> QED BY <1>4 DEF maxDelay

(* A neuron is of the table of one class only, in every partition that one  *)
(* of its synapses is in.                                                   *)
LEMMA SynapseCarried ==
  ASSUME NEW s \in Synapse
  PROVE  /\ s[1] \in Neuron /\ s[2] \in Connection /\ netId[grpDest[s[2]]] \in Part
         /\ s[1] \in Local(netId[grpDest[s[2]]])
         /\ s[1] \in Carried(netId[grpDest[s[2]]], ClassOf[s[1][1]])
         /\ delay[s[2]] \in 1 .. maxDelay
         /\ ClassOf[s[1][1]] = D1 => delay[s[2]] = 1
         /\ ClassOf[s[1][1]] = D2 => maxDelay > 1
<1> DEFINE n == s[1]
           c == s[2]
           p == netId[grpDest[c]]
<1>1. n \in Neuron /\ c \in Connection /\ grpSrc[c] = n[1]
  BY DEF Synapse
<1>2. p \in Part /\ n[1] \in Group
  BY <1>1, PartitionAssumption, NeuronFields
<1>3. delay[c] \in Nat \ {0} /\ \A d \in Connection : delay[d] \in Nat \ {0} /\ delay[d] <= maxDelay
  <2>1. \A d \in Connection : delay[d] \in Nat \ {0}
    BY PartitionAssumption
  <2>2. \A d \in Connection : delay[d] <= maxDelay
    BY LongestDelay
  <2> QED BY <1>1, <2>1, <2>2
<1>4. n[1] \in groupPartitionList[p] /\ (netId[n[1]] = p \/ (hasExternalConnect[n[1]] /\ Routed(p, n[1])))
  <2>1. CASE netId[n[1]] = p
    BY <1>2, <2>1 DEF groupPartitionList
  <2>2. CASE netId[n[1]] # p
    <3>1. External(c)
      BY <1>1, <2>2 DEF External
    <3>2. n[1] \in groupPartitionList[p] /\ hasExternalConnect[n[1]]
      BY <1>1, <1>2, <3>1 DEF groupPartitionList, hasExternalConnect
    <3>3. PICK r \in spikeRoutingTable : SameEnds(r, c)
      BY <1>1, <3>1, EveryRouteListed
    <3>4. Routed(p, n[1])
      BY <1>1, <3>3 DEF Routed, SameEnds
    <3> QED BY <3>2, <3>4
  <2> QED BY <2>1, <2>2
<1>5. n \in Carried(p, ClassOf[n[1]])
  BY <1>1, <1>4 DEF Carried
<1>6. ASSUME ClassOf[n[1]] = D1 PROVE delay[c] = 1
  <2>1. MaxDelayIsOne(n[1])
    BY <1>2, <1>6 DEF ClassOf, D1, D2
  <2> QED BY <1>1, <1>3, <2>1 DEF MaxDelayIsOne
<1>7. ASSUME ClassOf[n[1]] = D2 PROVE maxDelay > 1
  <2>1. ~MaxDelayIsOne(n[1])
    BY <1>2, <1>7 DEF ClassOf, D1, D2
  <2>2. PICK d \in Connection : ~(delay[d] <= 1)
    BY <2>1 DEF MaxDelayIsOne
  <2>3. maxDelay \in Nat
    BY PartitionTypes
  <2> QED BY <1>3, <2>2, <2>3
<1>8. delay[c] \in 1 .. maxDelay
  BY <1>1, <1>3, PartitionTypes
<1> QED BY <1>1, <1>2, <1>4, <1>5, <1>6, <1>7, <1>8 DEF Local

(* The entries of the window of millisecond i that are neuron n, and how    *)
(* many of them there should be.                                            *)
Hits(p, c, i, n) ==
  { k \in Int : /\ timeTable[p][c][i] <= k /\ k < timeTable[p][c][i + 1]
                /\ firingTable[p][c][k] = lNId[p][n] }
HitsRight(p, c, i, n, t) ==
  /\ Cardinality(Hits(p, c, i, n)) = IF ClassOf[n[1]] = c /\ <<n, t>> \in fired THEN 1 ELSE 0
  /\ ClassOf[n[1]] # c => Hits(p, c, i, n) = {}

(* What the target of a synapse gets from one window of a table.            *)
LEMMA WindowCounted ==
  ASSUME TypeOK, PastInv, SizeInv, TableInv, RoutesOnce, Exclusive, phase = "deliver",
         NEW s \in Synapse, NEW p, p = netId[grpDest[s[2]]], NEW c \in Class,
         NEW i \in FirstOf(c) .. simTimeMs + maxDelay,
         i < maxDelay => Clean(fired, p, secondStart),
         NEW t, t = secondStart + i - maxDelay
  PROVE  HitsRight(p, c, i, s[1], t)
<1> DEFINE tt == timeTable[p][c]
           ft == firingTable[p][c]
           n == s[1]
           N == SpikesAt(fired, p, c, t)
           W == Hits(p, c, i, n)
           V == { k \in Slot : tt[i] <= k /\ k < tt[i + 1] /\ ft[k] = lNId[p][n] }
<1>1. /\ p \in Part /\ n \in Neuron /\ n \in Local(p) /\ n \in Carried(p, ClassOf[n[1]])
  BY SynapseCarried
<1>2. Tabled(p, c)
  BY <1>1 DEF TableInv
<1>3. Base = secondStart /\ Cur = simTimeMs + maxDelay + 1 /\ Done = Cur
  BY WhereIs DEF WhereFacts
<1>4. /\ FirstOf(c) \in Nat /\ i \in Nat /\ simTimeMs \in Nat /\ maxDelay \in Nat
      /\ i \in FirstOf(c) .. Done - 1
      /\ i \in FirstOf(c) .. Cur /\ i + 1 \in FirstOf(c) .. Cur /\ Cur \in FirstOf(c) .. Cur
      /\ FirstOf(c) \in FirstOf(c) .. Cur /\ FirstOf(c) <= i /\ i + 1 <= Cur
  <2>1. FirstOf(c) \in Nat /\ maxDelay \in Nat /\ Cur \in Nat
    BY <1>1, SizeTypes
  <2>2. simTimeMs \in Nat
    BY Clock
  <2> HIDE DEF FirstOf, Cur, Done
  <2> QED BY <1>3, <2>1, <2>2
<1>5. Kept(p, ft, tt[i], tt[i + 1], N)
  <2>1. Windows(ft, tt, fired, p, c, secondStart, Done)
    BY <1>2, <1>3 DEF Tabled
  <2> HIDE DEF ft, tt, Kept, FirstOf, Clean, secondStart, Done
  <2> QED BY <1>4, <2>1 DEF Windows
<1>6. tt[i] \in Nat /\ tt[i + 1] \in Nat /\ tt[i + 1] <= tt[Cur] /\ tt[Cur] \in Nat
  <2>1. tt[FirstOf(c)] = 0 /\ Ascending(tt, c, Cur)
    BY <1>2 DEF Tabled
  <2>2. tt[i] \in Int /\ tt[i + 1] \in Int /\ tt[Cur] \in Int
    <3>1. \A j \in FirstOf(c) .. MsPerSec + maxDelay : tt[j] \in Int
      BY <1>1, SizeTypes
    <3>2. Cur <= MsPerSec + maxDelay /\ MsPerSec \in Nat /\ Cur \in Nat
      BY <1>1, SizeTypes
    <3>3. \A j \in FirstOf(c) .. Cur : j \in FirstOf(c) .. MsPerSec + maxDelay
      <4> HIDE DEF FirstOf, Cur
      <4> QED BY <1>4, <3>2
    <3> HIDE DEF FirstOf, Cur, tt
    <3> QED BY <1>4, <3>1, <3>3
  <2>3. tt[FirstOf(c)] <= tt[i] /\ tt[FirstOf(c)] <= tt[i + 1] /\ tt[i + 1] <= tt[Cur]
    <3>1. FirstOf(c) <= i + 1 /\ i + 1 <= Cur
      <4> HIDE DEF FirstOf, Cur
      <4> QED BY <1>4
    <3> HIDE DEF FirstOf, Cur, tt
    <3> QED BY <1>4, <2>1, <3>1 DEF Ascending
  <2> HIDE DEF FirstOf, Cur, tt
  <2> QED BY <2>1, <2>2, <2>3
<1>7. W = V
  <2>1. ASSUME NEW k \in Int, tt[i] <= k, k < tt[i + 1]
        PROVE  k \in Slot
    <3>1. k \in Nat /\ k <= tt[Cur]
      <4> HIDE DEF tt, Cur
      <4> QED BY <1>6, <2>1
    <3> QED BY <1>1, <3>1, RoomFor DEF RoomFacts
  <2>2. Slot \subseteq Int
    BY SlotBounds
  <2> HIDE DEF Slot
  <2> QED BY <2>1, <2>2 DEF Hits
<1>8. N \in SUBSET Local(p) /\ \A m \in N : ClassOf[m[1]] = c
  BY <1>1, Gathered DEF Local
<1>9. Cardinality(V) = IF n \in N THEN 1 ELSE 0
  <2> PICK a, b, M, U : a = tt[i] /\ b = tt[i + 1] /\ M = N /\ U = V
    OBVIOUS
  <2>1. U = { k \in Slot : a <= k /\ k < b /\ ft[k] = lNId[p][n] }
    OBVIOUS
  <2>2. Kept(p, ft, a, b, M) /\ M \in SUBSET Local(p)
    BY <1>5, <1>8
  <2> HIDE DEF ft, tt, N, V, Kept
  <2>3. Cardinality(U) = IF n \in M THEN 1 ELSE 0
    BY <1>1, <2>1, <2>2, KeptCounted
  <2> QED BY <2>3
<1>10. n \in N <=> ClassOf[n[1]] = c /\ <<n, t>> \in fired
  BY <1>1, <1>8 DEF SpikesAt
<1>11. ASSUME ClassOf[n[1]] # c, NEW k \in V PROVE FALSE
  <2>1. PICK m \in N : ft[k] = lNId[p][m]
    BY <1>5 DEF Kept
  <2>2. m = n
    BY <1>1, <1>8, <2>1, LocalIdInjective DEF Local
  <2> QED BY <1>8, <1>11, <2>2
<1>12. HitsRight(p, c, i, n, t)
  <2> HIDE DEF N, V, n
  <2> QED BY <1>7, <1>9, <1>10, <1>11 DEF HitsRight
<1> QED BY <1>12

(* If the tables are right then so is what doCurrentUpdate reads from them. *)
LEMMA Delivery ==
  ASSUME TypeOK, PastInv, SizeInv, TableInv, DoCurrentUpdate
  PROVE  DeliveredOnTime'
<1>1. phase = "deliver" /\ fired' = fired /\ simTime' = simTime /\ secondStart' = secondStart
  BY Movement DEF DoCurrentUpdate, Unmoved
<1>2. \A p : CleanShift(p)' = CleanShift(p)
  BY <1>1 DEF CleanShift, InTable
<1> SUFFICES ASSUME RoutesOnce, Exclusive, NEW s \in Synapse,
                    NEW p, p = netId[grpDest[s[2]]], NEW d, d = delay[s[2]],
                    NEW t, t = simTime - (d - 1), t >= secondStart \/ CleanShift(p)
             PROVE  arrived'[s] = IF <<s[1], t>> \in fired THEN 1 ELSE 0
  BY <1>1, <1>2 DEF DeliveredOnTime
<1> HIDE DEF RoutesOnce, Exclusive
<1> DEFINE n == s[1]
           tt2 == timeTable[p][D2]
           ft2 == firingTable[p][D2]
           tt1 == timeTable[p][D1]
           ft1 == firingTable[p][D1]
           A2 == { k \in WindowD2(p) : DeliversD2(p, k, s) }
           A1 == { k \in WindowD1(p) : DeliversD1(p, k, s) }
           ms == simTimeMs
           i1 == ms + maxDelay
           i2 == ms - (d - 1) + maxDelay
           W1 == Hits(p, D1, i1, n)
           W2 == Hits(p, D2, i2, n)
<1>3. arrived'[s] = Cardinality(A2) + Cardinality(A1)
  BY DEF DoCurrentUpdate
<1>4. /\ p \in Part /\ n \in Neuron /\ d \in 1 .. maxDelay
      /\ ClassOf[n[1]] = D1 => d = 1
      /\ ClassOf[n[1]] = D2 => maxDelay > 1
      /\ ClassOf[n[1]] \in Class /\ D1 # D2 /\ D1 \in Class /\ D2 \in Class
  <2>1. D1 # D2 /\ D1 \in Class /\ D2 \in Class
    BY DEF D1, D2, Class
  <2>2. n \in Neuron
    BY SynapseCarried
  <2> QED BY <2>1, <2>2, SynapseCarried, PartitionTypes, NeuronFields
<1>5. /\ Base = secondStart /\ Cur = ms + maxDelay + 1 /\ Done = Cur /\ Begun
      /\ secondStart \in Nat /\ simTime = secondStart + ms /\ ms \in Nat
      /\ FirstOf(D1) = maxDelay /\ FirstOf(D2) = 0
      /\ ms + maxDelay + 1 \in 0 .. MsPerSec + maxDelay
  <2>1. Base = secondStart /\ Cur = ms + maxDelay + 1 /\ Done = Cur /\ Begun
    BY <1>1, WhereIs DEF WhereFacts
  <2> QED BY <2>1, Clock, Entries, TimeTableEntries
<1>6. maxDelay \in Nat \ {0} /\ MsPerSec \in Nat
  BY PartitionTypes
<1> HIDE DEF Base, secondStart, simTime, Done, Begun, Cur, FirstOf
<1>7. /\ i1 \in FirstOf(D1) .. ms + maxDelay /\ ~(i1 < maxDelay)
      /\ i2 \in FirstOf(D2) .. ms + maxDelay
      /\ simTime = secondStart + i1 - maxDelay
      /\ t = secondStart + i2 - maxDelay
      /\ i2 < maxDelay => ~(t >= secondStart)
      /\ d = 1 => t = simTime
      /\ ms + 1 <= i2 /\ i2 <= i2 + 1 /\ i2 + 1 <= ms + 1 + maxDelay
      /\ ms + 1 \in 0 .. Cur /\ i2 \in 0 .. Cur /\ i2 + 1 \in 0 .. Cur
      /\ ms + 1 + maxDelay \in 0 .. Cur /\ ms + 1 + maxDelay = Cur
      /\ i1 \in 0 .. Cur /\ i1 + 1 \in 0 .. Cur
      /\ i1 + 1 = ms + maxDelay + 1
      /\ \A i \in 0 .. Cur : i \in 0 .. MsPerSec + maxDelay
  BY <1>4, <1>5, <1>6
<1>8. CleanShift(p) => Clean(fired, p, secondStart)
  <2> SUFFICES ASSUME CleanShift(p), NEW x \in fired, x[1] \in Carried(p, D2)
               PROVE  x[2] # secondStart - 1 - maxDelay
    BY DEF Clean
  <2>1. x \in InTable(p, D2)
    BY DEF InTable, Carried
  <2> QED BY <2>1 DEF CleanShift
<1>9. HitsRight(p, D1, i1, n, simTime)
  <2> PICK i, u : i = i1 /\ u = simTime
    OBVIOUS
  <2>1. /\ i \in FirstOf(D1) .. simTimeMs + maxDelay /\ ~(i < maxDelay)
        /\ u = secondStart + i - maxDelay
    BY <1>7
  <2> HIDE DEF i1, i2, n, tt1, ft1, tt2, ft2, A1, A2, W1, W2, ms
  <2>2. i < maxDelay => Clean(fired, p, secondStart)
    BY <2>1
  <2>3. HitsRight(p, D1, i, s[1], u)
    BY <1>1, <1>4, <2>1, <2>2, WindowCounted
  <2> QED BY <2>3 DEF n
<1>10. HitsRight(p, D2, i2, n, t)
  <2> PICK i : i = i2
    OBVIOUS
  <2>1. /\ i \in FirstOf(D2) .. simTimeMs + maxDelay
        /\ t = secondStart + i - maxDelay
    BY <1>7
  <2>2. i < maxDelay => Clean(fired, p, secondStart)
    BY <1>7, <1>8
  <2> HIDE DEF i1, i2, n, tt1, ft1, tt2, ft2, A1, A2, W1, W2, ms
  <2>3. HitsRight(p, D2, i, s[1], t)
    <3> HIDE DEF Clean, CleanShift
    <3>1. phase = "deliver" /\ D2 \in Class
      BY <1>1, <1>4
    <3> QED BY <3>1, <2>1, <2>2, WindowCounted
  <2> QED BY <2>3 DEF n
<1>11. /\ \A i \in 0 .. Cur : tt2[i] \in Int /\ tt1[i] \in Int
       /\ tt2[ms + 1] <= tt2[i2] /\ tt2[i2 + 1] <= tt2[ms + 1 + maxDelay]
  <2>1. \A i \in 0 .. Cur : tt2[i] \in Int /\ tt1[i] \in Int
    <3>1. \A i \in 0 .. MsPerSec + maxDelay : tt2[i] \in Int /\ tt1[i] \in Int
      BY <1>4, TimeTableEntries
    <3> HIDE DEF tt1, tt2
    <3> QED BY <1>7, <3>1
  <2>2. Tabled(p, D2)
    BY <1>4 DEF TableInv
  <2>3. \A i, j \in 0 .. Cur : i <= j => tt2[i] <= tt2[j]
    BY <1>5, <2>2 DEF Tabled, Ascending
  <2> HIDE DEF tt1, tt2, i2
  <2> QED BY <1>7, <2>1, <2>3
<1>12. A1 = { k \in W1 : d = 1 }
  <2>1. \A k : DeliversD1(p, k, s) <=> ft1[k] = lNId[p][n] /\ d = 1
    BY DEF DeliversD1
  <2>2. WindowD1(p) = { k \in Int : tt1[i1] <= k /\ k < tt1[i1 + 1] }
    <3>1. WindowD1(p) = tt1[i1] .. tt1[i1 + 1] - 1
      BY <1>7 DEF WindowD1
    <3>2. tt1[i1] \in Int /\ tt1[i1 + 1] \in Int
      BY <1>7, <1>11
    <3> HIDE DEF tt1, i1
    <3> QED BY <3>1, <3>2
  <2>3. W1 = { k \in Int : /\ tt1[i1] <= k /\ k < tt1[i1 + 1] /\ ft1[k] = lNId[p][n] }
    BY DEF Hits
  <2> HIDE DEF tt1, i1, ft1, W1
  <2> QED BY <2>1, <2>2, <2>3
<1>13. A2 \subseteq W2 /\ (maxDelay > 1 => A2 = W2)
  <2>1. \A k : DeliversD2(p, k, s) <=> ft2[k] = lNId[p][n] /\ tt2[i2] <= k /\ k < tt2[i2 + 1]
    <3>1. ms - (d - 1) + maxDelay = i2 /\ ms - (d - 1) + maxDelay + 1 = i2 + 1
      BY <1>4, <1>5, <1>6
    <3> HIDE DEF i2
    <3> QED BY <3>1 DEF DeliversD2, FiredAt
  <2>2. WindowD2(p) \subseteq Int
    <3>1. WindowD2(p) = {} \/ WindowD2(p) = tt2[ms + 1] .. tt2[ms + 1 + maxDelay] - 1
      BY DEF WindowD2
    <3> HIDE DEF tt2
    <3>2. CASE WindowD2(p) = {}
      BY <3>2
    <3>3. CASE WindowD2(p) = tt2[ms + 1] .. tt2[ms + 1 + maxDelay] - 1
      BY <3>3
    <3> QED BY <3>1, <3>2, <3>3
  <2>3. ASSUME maxDelay > 1, NEW k \in Int, tt2[i2] <= k, k < tt2[i2 + 1]
        PROVE  k \in WindowD2(p)
    <3>1. WindowD2(p) = tt2[ms + 1] .. tt2[ms + 1 + maxDelay] - 1
      BY <2>3 DEF WindowD2
    <3>2. /\ tt2[ms + 1] \in Int /\ tt2[ms + 1 + maxDelay] \in Int /\ tt2[i2] \in Int
          /\ tt2[i2 + 1] \in Int
      BY <1>7, <1>11
    <3> HIDE DEF tt2, i2
    <3> QED BY <1>11, <2>3, <3>1, <3>2
  <2>6. W2 = { k \in Int : /\ tt2[i2] <= k /\ k < tt2[i2 + 1] /\ ft2[k] = lNId[p][n] }
    BY DEF Hits
  <2> HIDE DEF tt2, i2, ft2, W2
  <2>4. A2 \subseteq W2
    BY <2>1, <2>2, <2>6
  <2>5. ASSUME maxDelay > 1 PROVE W2 \subseteq A2
    BY <2>1, <2>3, <2>5, <2>6
  <2> QED BY <2>4, <2>5
<1> HIDE DEF A1, A2, W1, W2, i1, i2, n
<1>14. CASE ClassOf[n[1]] = D1
  <2>1. A1 = W1
    BY <1>4, <1>12, <1>14
  <2>2. A2 = {}
    BY <1>4, <1>10, <1>13, <1>14 DEF HitsRight, W2
  <2>3. Cardinality(A2) = 0
    BY <2>2, FS_EmptySet
  <2>4. t = simTime
    BY <1>4, <1>7, <1>14
  <2>5. Cardinality(A1) = IF <<n, t>> \in fired THEN 1 ELSE 0
    BY <1>9, <1>14, <2>1, <2>4 DEF HitsRight, W1
  <2> QED BY <1>3, <2>3, <2>5 DEF n
<1>15. CASE ClassOf[n[1]] = D2
  <2>1. A1 = {}
    BY <1>4, <1>9, <1>12, <1>15 DEF HitsRight, W1
  <2>2. A2 = W2
    BY <1>4, <1>13, <1>15
  <2>3. Cardinality(A1) = 0
    BY <2>1, FS_EmptySet
  <2>4. Cardinality(A2) = IF <<n, t>> \in fired THEN 1 ELSE 0
    BY <1>10, <1>15, <2>2 DEF HitsRight, W2
  <2> QED BY <1>3, <2>3, <2>4 DEF n
<1> QED BY <1>4, <1>14, <1>15 DEF Class

(* What the tables' invariant rests on, with it.                            *)
TableInvs == TypeOK /\ PastInv /\ ExtInv /\ SizeInv /\ CountInv /\ TableInv

(* The invariants of the tables hold when the kernel starts.                *)
LEMMA TableInvsInit ==
  Init => TableInvs
BY TypesInit, PastInit, ExtInit, SizeInit, CountsInit, TableInit DEF TableInvs

(* Together they are inductive.                                             *)
LEMMA TableInvsStep ==
  TableInvs /\ [Next]_vars => TableInvs'
<1> HIDE DEF TypeOK, PastInv, ExtInv, SizeInv, CountInv, TableInv
<1> QED BY TypesStep, PastStep, ExtStep, SizeStep, CountsStep, TableStep DEF TableInvs

(* Every spike is delivered in time, for every network, every partitioning  *)
(* in which routes are served once and one group of a class sends, and      *)
(* however long the kernel runs: whenever currents were updated each synapse*)
(* got the spike that was due, and only that, unless the shift was unclean. *)
THEOREM DeliveredInTime == Spec => []DeliveredOnTime
<1>1. Init => DeliveredOnTime
  BY DEF Init, DeliveredOnTime
<1>2. TableInvs /\ DeliveredOnTime /\ [Next]_vars => DeliveredOnTime'
  <2> SUFFICES ASSUME TableInvs, DeliveredOnTime, [Next]_vars PROVE DeliveredOnTime'
    OBVIOUS
  <2>1. CASE DoCurrentUpdate
    BY <2>1, Delivery DEF TableInvs
  <2>2. CASE UNCHANGED vars
    <3>1. /\ phase' = phase /\ simTime' = simTime /\ secondStart' = secondStart
          /\ fired' = fired /\ arrived' = arrived
      BY <2>2 DEF vars, simTime, secondStart
    <3>2. \A p : CleanShift(p)' = CleanShift(p)
      BY <3>1 DEF CleanShift, InTable
    <3> QED BY <3>1, <3>2 DEF DeliveredOnTime
  <2>3. CASE phase' # "advance"
    BY <2>3 DEF DeliveredOnTime
  <2>4. Next => DoCurrentUpdate \/ phase' # "advance"
    <3> SUFFICES ASSUME Next, ~DoCurrentUpdate PROVE phase' # "advance"
      OBVIOUS
    <3> QED BY DEF Next, RunNetwork, Schedule, ClearBits, FillBits, CopyBits, bitsUnchanged,
               StepBuffer, FindFiring, UpdateTimingTable, RouteFork, ConvertRead, ConvertWrite,
               convertUnchanged, RouteJoin, AdvanceTime, Continue, FinishSecond, FinishRun
  <2> QED BY <2>1, <2>2, <2>3, <2>4
<1>3. Init => TableInvs
  BY TableInvsInit
<1>4. TableInvs /\ [Next]_vars => TableInvs'
  BY TableInvsStep
<1> HIDE DEF TableInvs
<1> QED
  BY <1>1, <1>2, <1>3, <1>4, PTL DEF Spec

-----------------------------------------------------------------------------
(* What the monitors recorded.                                              *)

(* A neuron is found in the tables of its partition where it fired.         *)
LEMMA FoundFired ==
  ASSUME TypeOK, PastInv, TableInv, Exclusive, ~Routing,
         NEW n \in Neuron, NEW ms, NEW i, i = ms + maxDelay, i \in maxDelay .. Cur - 1,
         NEW t, t = Base + i - maxDelay
  PROVE  Found(n, ms) = IF <<n, t>> \in fired THEN 1 ELSE 0
<1> DEFINE p == netId[n[1]]
           C == ClassOf[n[1]]
           tt(c) == timeTable[p][c]
           ft(c) == firingTable[p][c]
           N(c) == SpikesAt(fired, p, c, t)
           S == { x \in Class \X Slot :
                    x[2] \in tt(x[1])[i] .. tt(x[1])[i + 1] - 1 /\ ft(x[1])[x[2]] = lNId[p][n] }
<1>1. /\ p \in Part /\ C \in Class /\ n \in Local(p) /\ n \in Carried(p, C)
  <2>1. p \in Part /\ n[1] \in Group /\ n[1] \in groupPartitionList[p]
    BY NeuronFields DEF groupPartitionList
  <2> QED BY <2>1, PartitionTypes DEF Local, Carried
<1>2. Found(n, ms) = Cardinality(S)
  BY DEF Found
<1>3. \A c \in Class : tt(c)[i] \in Int /\ tt(c)[i + 1] \in Int
  <2> SUFFICES ASSUME NEW c \in Class PROVE tt(c)[i] \in Int /\ tt(c)[i + 1] \in Int
    OBVIOUS
  <2>1. i \in FirstOf(c) .. MsPerSec + maxDelay /\ i + 1 \in FirstOf(c) .. MsPerSec + maxDelay
    <3>1. /\ FirstOf(c) \in Nat /\ Cur <= MsPerSec + maxDelay /\ Cur \in Nat
          /\ maxDelay \in Nat /\ MsPerSec \in Nat /\ FirstOf(c) <= maxDelay
      BY <1>1, SizeTypes, Entries
    <3> HIDE DEF FirstOf, Cur
    <3> QED BY <3>1
  <2> QED BY <1>1, <2>1, SizeTypes
<1>4. \A c \in Class : Kept(p, ft(c), tt(c)[i], tt(c)[i + 1], N(c))
  <2> SUFFICES ASSUME NEW c \in Class PROVE Kept(p, ft(c), tt(c)[i], tt(c)[i + 1], N(c))
    OBVIOUS
  <2>1. Windows(ft(c), tt(c), fired, p, c, Base, Done)
    BY <1>1 DEF TableInv, Tabled
  <2>2. Done = Cur
    BY DEF Done
  <2>3. i \in FirstOf(c) .. Done - 1 /\ ~(i < maxDelay)
    <3>1. FirstOf(c) \in Nat /\ maxDelay \in Nat /\ FirstOf(c) <= maxDelay /\ Cur \in Nat
      BY <1>1, SizeTypes, Entries
    <3> HIDE DEF FirstOf, Cur, Done
    <3> QED BY <2>2, <3>1
  <2> HIDE DEF FirstOf, Done, Kept, Clean, Base, N, ft, tt
  <2>4. Kept(p, ft(c), tt(c)[i], tt(c)[i + 1], SpikesAt(fired, p, c, Base + i - maxDelay))
    BY <2>1, <2>3 DEF Windows
  <2> QED BY <2>4 DEF N
<1>5. \A c \in Class : N(c) \subseteq Local(p) /\ (n \in N(c) <=> c = C /\ <<n, t>> \in fired)
  <2> SUFFICES ASSUME NEW c \in Class
               PROVE  N(c) \subseteq Local(p) /\ (n \in N(c) <=> c = C /\ <<n, t>> \in fired)
    OBVIOUS
  <2>1. N(c) \subseteq Carried(p, c) /\ \A m \in Carried(p, c) : m \in Neuron /\ ClassOf[m[1]] = c
                                            /\ m[1] \in groupPartitionList[p]
    BY <1>1 DEF SpikesAt, Carried
  <2>2. n \in N(c) <=> n \in Carried(p, c) /\ <<n, t>> \in fired
    BY DEF SpikesAt
  <2> HIDE DEF N
  <2> QED BY <1>1, <2>1, <2>2 DEF Local
<1>6. \A m \in Local(p) : lNId[p][m] = lNId[p][n] => m = n
  BY <1>1, LocalIdInjective DEF Local
<1>7. \A c \in Class : \A k \in Slot :
        <<c, k>> \in S <=> tt(c)[i] <= k /\ k < tt(c)[i + 1] /\ ft(c)[k] = lNId[p][n]
  <2> SUFFICES ASSUME NEW c \in Class, NEW k \in Slot
               PROVE  <<c, k>> \in S <=> tt(c)[i] <= k /\ k < tt(c)[i + 1] /\ ft(c)[k] = lNId[p][n]
    OBVIOUS
  <2>1. <<c, k>> \in S <=> k \in tt(c)[i] .. tt(c)[i + 1] - 1 /\ ft(c)[k] = lNId[p][n]
    OBVIOUS
  <2>2. k \in Int /\ tt(c)[i] \in Int /\ tt(c)[i + 1] \in Int
    BY <1>3, SlotBounds
  <2> HIDE DEF S, tt, ft
  <2> QED BY <2>1, <2>2
<1>8. \A x \in S : x = <<x[1], x[2]>> /\ x[1] \in Class /\ x[2] \in Slot
  OBVIOUS
<1> HIDE DEF S, N, tt, ft
<1>9. ASSUME NEW c \in Class, NEW k \in Slot, <<c, k>> \in S
      PROVE  n \in N(c)
  <2>1. PICK m \in N(c) : ft(c)[k] = lNId[p][m]
    BY <1>4, <1>7, <1>9 DEF Kept
  <2>2. m = n
    BY <1>5, <1>6, <1>7, <1>9, <2>1
  <2> QED BY <2>1, <2>2
<1>10. CASE <<n, t>> \in fired
  <2>1. n \in N(C)
    BY <1>1, <1>5, <1>10
  <2>2. PICK k \in Slot :
          /\ tt(C)[i] <= k /\ k < tt(C)[i + 1] /\ ft(C)[k] = lNId[p][n]
          /\ \A l \in Slot : tt(C)[i] <= l /\ l < tt(C)[i + 1] /\ ft(C)[l] = lNId[p][n] => l = k
    BY <1>1, <1>4, <2>1 DEF Kept
  <2>3. <<C, k>> \in S
    BY <1>1, <1>7, <2>2
  <2>4. ASSUME NEW x \in S PROVE x = <<C, k>>
    <3>1. x = <<x[1], x[2]>> /\ x[1] \in Class /\ x[2] \in Slot
      BY <1>8
    <3>2. x[1] = C
      BY <1>5, <1>9, <3>1
    <3>3. x[2] = k
      BY <1>1, <1>7, <2>2, <3>1, <3>2
    <3> QED BY <3>1, <3>2, <3>3
  <2>5. S = {<<C, k>>}
    BY <2>3, <2>4
  <2>6. Cardinality(S) = 1
    BY <2>5, FS_Singleton
  <2> QED BY <1>2, <1>10, <2>6
<1>11. CASE <<n, t>> \notin fired
  <2>1. S = {}
    BY <1>5, <1>8, <1>9, <1>11
  <2>2. Cardinality(S) = 0
    BY <2>1, FS_EmptySet
  <2> QED BY <1>2, <1>11, <2>2
<1> QED BY <1>10, <1>11

(* Division of the milliseconds into seconds.                               *)
LEMMA SecondOf ==
  ASSUME NEW k \in Nat, NEW r \in Nat, NEW m \in Nat \ {0}, r < m
  PROVE  (k * m + r) % m = r /\ (k * m + r) \div m = k
<1>1. \A x \in Nat, d \in Nat \ {0} :
        x = d * (x \div d) + (x % d) /\ x % d \in 0 .. d - 1 /\ x \div d \in Nat
  BY SMT
<1>2. k * m + r \in Nat
  BY SMT
<1>3. PICK x \in Nat : x = k * m + r
  BY <1>2
<1>4. PICK q \in Nat, s \in 0 .. m - 1 : x = m * q + s /\ s = x % m /\ q = x \div m
  BY <1>1
<1>5. \A a, b, c \in Nat : a <= b => c * a <= c * b
  BY SMT
<1>6. PICK u, v : u = m * q /\ v = k * m
  OBVIOUS
<1>7. u \in Nat /\ v \in Nat
  BY <1>6, SMT
<1>8. ASSUME q >= k + 1 PROVE FALSE
  <2>1. m * (k + 1) <= m * q
    BY <1>5, <1>8
  <2>2. m * (k + 1) = k * m + m
    BY SMT
  <2> QED BY <1>3, <1>4, <1>6, <1>7, <2>1, <2>2
<1>9. ASSUME q + 1 <= k PROVE FALSE
  <2>1. m * (q + 1) <= m * k
    BY <1>5, <1>9
  <2>2. m * (q + 1) = m * q + m /\ m * k = k * m
    BY SMT
  <2> QED BY <1>3, <1>4, <1>6, <1>7, <2>1, <2>2
<1>10. q = k
  BY <1>8, <1>9
<1>11. u = v
  BY <1>6, <1>10, SMT
<1>12. s = r
  BY <1>3, <1>4, <1>6, <1>7, <1>11
<1> QED BY <1>3, <1>4, <1>10, <1>12

(* updateSpikeMonitor records what fired since it was last called, if that  *)
(* is still in the tables.                                                  *)
LEMMA MonitorUpdated ==
  ASSUME TypeOK, PastInv, TableInv, MonInv, Exclusive, phase \in {"second", "stop"},
         UpdateSpikeMonitor
  PROVE  /\ lastUpdated' = simTime
         /\ \A n \in Neuron, t \in Time :
              recorded'[<<n, t>>] = IF t < simTime /\ <<n, t>> \in fired THEN 1 ELSE 0
<1>1. Base <= lastUpdated /\ lastUpdated <= simTime /\ (phase = "stop" /\ simTimeMs = 0 => lastUpdated = simTime)
  BY DEF MonInv
<1>2. \A n \in Neuron, t \in Time :
        recorded[<<n, t>>] = IF t < lastUpdated /\ <<n, t>> \in fired THEN 1 ELSE 0
  BY DEF MonInv
<1>3. lastUpdated \in Nat /\ simTime \in Nat /\ Base \in Int /\ Time \subseteq Nat
  BY Clock, KernelAssumption DEF TypeOK, Time
<1> HIDE DEF Base, simTime, Time
<1>4. CASE simTime <= lastUpdated
  <2>1. lastUpdated = simTime
    BY <1>1, <1>3, <1>4
  <2>2. lastUpdated' = lastUpdated /\ recorded' = recorded
    BY <1>4 DEF UpdateSpikeMonitor, monVars
  <2> QED BY <1>2, <2>1, <2>2
<1>5. CASE ~(simTime <= lastUpdated)
  <2> DEFINE ms(t) == t - MonitoredSec * MsPerSec
             b == MonitoredSec * MsPerSec
  <2>1. /\ lastUpdated' = simTime
        /\ \A n \in Neuron, t \in Time :
             recorded'[<<n, t>>] = recorded[<<n, t>>] + IF ms(t) \in MonitoredMs THEN Found(n, ms(t)) ELSE 0
    <3>1. /\ lastUpdated' = simTime
          /\ recorded' = [s \in Neuron \X Time |->
               recorded[s] + IF s[2] - MonitoredSec * MsPerSec \in MonitoredMs
                             THEN Found(s[1], s[2] - MonitoredSec * MsPerSec) ELSE 0]
      BY <1>5 DEF UpdateSpikeMonitor
    <3> HIDE DEF MonitoredSec, MonitoredMs, Found
    <3> QED BY <3>1
  <2>2. simTime = secondStart + simTimeMs /\ simTimeMs \in 0 .. MsPerSec - 1
    BY Clock DEF TypeOK
  <2>3. MsPerSec \in Nat \ {0} /\ maxDelay \in Nat /\ simTimeSec \in Nat
    BY PartitionTypes DEF TypeOK
  <2>4. /\ b = Base /\ b + numMsMax = simTime /\ Cur = numMsMax + maxDelay /\ numMsMax \in 1 .. MsPerSec
        /\ MonitoredSec \in Nat /\ ~Routing
    <3>1. ~Routing
      BY DEF Routing
    <3>2. CASE phase = "second"
      <4>1. simTimeMs = 0 /\ simTimeSec \in Nat \ {0}
        BY <2>3, <3>2 DEF PastInv
      <4>2. Base = secondStart - MsPerSec /\ Cur = MsPerSec + maxDelay
        BY <3>2, WhereIs DEF WhereFacts
      <4>3. numMsMax = MsPerSec /\ MonitoredSec = simTimeSec - 1
        BY <4>1 DEF numMsMax, MonitoredSec
      <4>4. (simTimeSec - 1) * MsPerSec = simTimeSec * MsPerSec - MsPerSec
            /\ simTimeSec * MsPerSec \in Nat
        BY <2>3, <4>1, SMT
      <4>5. b = secondStart - MsPerSec /\ secondStart \in Nat
        BY <4>3, <4>4 DEF secondStart
      <4> HIDE DEF secondStart, b, Cur, numMsMax
      <4> QED BY <2>2, <2>3, <3>1, <4>1, <4>2, <4>3, <4>5
    <3>3. CASE phase = "stop"
      <4>1. simTimeMs # 0
        BY <1>1, <1>3, <1>5, <3>3
      <4>2. Base = secondStart /\ Cur = simTimeMs + maxDelay
        BY <3>3, WhereIs DEF WhereFacts, Standing
      <4>3. numMsMax = simTimeMs /\ MonitoredSec = simTimeSec
        BY <4>1 DEF numMsMax, MonitoredSec
      <4>4. b = secondStart
        BY <4>3 DEF secondStart
      <4> HIDE DEF secondStart, b, Cur, numMsMax
      <4> QED BY <2>2, <2>3, <3>1, <4>1, <4>2, <4>3, <4>4
    <3> QED BY <3>2, <3>3
  <2>5. lastUpdated % MsPerSec = lastUpdated - Base
    <3>1. PICK r : r = lastUpdated - Base
      OBVIOUS
    <3>2. PICK k : k = MonitoredSec
      OBVIOUS
    <3>3. b = k * MsPerSec
      BY <3>2
    <3> HIDE DEF b, numMsMax
    <3>4. r \in Nat /\ r < MsPerSec /\ lastUpdated = b + r /\ k \in Nat
      BY <1>1, <1>3, <1>5, <2>3, <2>4, <3>1, <3>2
    <3>5. (k * MsPerSec + r) % MsPerSec = r
      BY <2>3, <3>4, SecondOf
    <3> QED BY <3>1, <3>3, <3>4, <3>5
  <2>6. \A t \in Time : /\ ms(t) \in MonitoredMs <=> lastUpdated <= t /\ t < simTime
                        /\ ms(t) \in MonitoredMs =>
                             /\ ms(t) + maxDelay \in maxDelay .. Cur - 1
                             /\ t = Base + (ms(t) + maxDelay) - maxDelay
    <3>1. \A t : ms(t) = t - b
      OBVIOUS
    <3>2. MonitoredMs = lastUpdated - Base .. numMsMax - 1
      BY <2>5 DEF MonitoredMs
    <3> HIDE DEF ms, b, numMsMax, MonitoredMs, Cur
    <3> SUFFICES ASSUME NEW t \in Time
                 PROVE  /\ ms(t) \in MonitoredMs <=> lastUpdated <= t /\ t < simTime
                        /\ ms(t) \in MonitoredMs =>
                             /\ ms(t) + maxDelay \in maxDelay .. Cur - 1
                             /\ t = Base + (ms(t) + maxDelay) - maxDelay
      OBVIOUS
    <3>3. t \in Int /\ ms(t) = t - Base /\ Base + numMsMax = simTime
      BY <1>3, <2>4, <3>1
    <3>4. PICK m \in Int : m = ms(t)
      BY <1>3, <3>3
    <3>5. ms(t) \in MonitoredMs <=> lastUpdated - Base <= m /\ m <= numMsMax - 1
      BY <1>3, <2>4, <3>2, <3>4
    <3>6. t = Base + m /\ m = t - Base
      BY <1>3, <3>3, <3>4
    <3>7. ms(t) \in MonitoredMs <=> lastUpdated <= t /\ t < simTime
      BY <1>3, <2>4, <3>3, <3>5, <3>6
    <3>8. lastUpdated - Base \in Nat
      BY <1>1, <1>3
    <3>9. ASSUME ms(t) \in MonitoredMs
          PROVE  m + maxDelay \in maxDelay .. Cur - 1 /\ t = Base + (m + maxDelay) - maxDelay
      BY <1>3, <2>3, <2>4, <3>5, <3>6, <3>8, <3>9
    <3> QED BY <3>4, <3>7, <3>9
  <2>7. ASSUME NEW n \in Neuron, NEW t \in Time, ms(t) \in MonitoredMs
        PROVE  Found(n, ms(t)) = IF <<n, t>> \in fired THEN 1 ELSE 0
    <3> PICK m, i : m = ms(t) /\ i = m + maxDelay
      OBVIOUS
    <3> HIDE DEF ms, MonitoredMs, Cur, Found, numMsMax, b, Routing
    <3>1. i \in maxDelay .. Cur - 1 /\ t = Base + i - maxDelay
      BY <2>6, <2>7
    <3>2. Found(n, m) = IF <<n, t>> \in fired THEN 1 ELSE 0
      BY <2>4, <3>1, FoundFired
    <3> QED BY <3>2
  <2>8. ASSUME NEW n \in Neuron, NEW t \in Time
        PROVE  recorded'[<<n, t>>] = IF t < simTime /\ <<n, t>> \in fired THEN 1 ELSE 0
    <3>1. recorded'[<<n, t>>] = recorded[<<n, t>>] + IF ms(t) \in MonitoredMs THEN Found(n, ms(t)) ELSE 0
      BY <2>1
    <3>2. recorded[<<n, t>>] = IF t < lastUpdated /\ <<n, t>> \in fired THEN 1 ELSE 0
      BY <1>2
    <3>3. t \in Nat /\ (ms(t) \in MonitoredMs <=> lastUpdated <= t /\ t < simTime)
      BY <1>3, <2>6
    <3>4. ms(t) \in MonitoredMs => Found(n, ms(t)) = IF <<n, t>> \in fired THEN 1 ELSE 0
      BY <2>7
    <3> HIDE DEF ms, MonitoredMs, Found
    <3> QED BY <1>3, <1>5, <3>1, <3>2, <3>3, <3>4
  <2> QED BY <2>1, <2>8
<1> QED BY <1>4, <1>5

(* Nothing has been recorded when the kernel starts.                        *)
LEMMA MonInit ==
  Init => MonInv
<1> SUFFICES ASSUME Init PROVE MonInv
  OBVIOUS
<1>1. /\ phase = "idle" /\ simTimeMs = 0 /\ simTimeSec = 0 /\ fired = {} /\ lastUpdated = 0
      /\ recorded = [s \in Neuron \X Time |-> 0]
  BY DEF Init
<1>2. simTime = 0 /\ Base = 0
  <2>1. 0 * MsPerSec = 0
    BY PartitionTypes, SMT
  <2> QED BY <1>1, <2>1 DEF simTime, Base, secondStart
<1> QED BY <1>1, <1>2 DEF MonInv

(* Nothing that fires now was to be recorded yet, and before the tables are *)
(* shifted the monitors were called.                                        *)
LEMMA MonStep ==
  TypeOK /\ PastInv /\ TableInv /\ MonInv /\ [Next]_vars => MonInv'
<1> SUFFICES ASSUME TypeOK, PastInv, TableInv, MonInv, [Next]_vars, Exclusive
             PROVE  MonInv'
  BY DEF MonInv
<1>1. /\ Base <= lastUpdated /\ lastUpdated <= simTime
      /\ phase = "idle" \/ (phase = "stop" /\ simTimeMs = 0) => lastUpdated = simTime
      /\ \A n \in Neuron, t \in Time :
           recorded[<<n, t>>] = IF t < lastUpdated /\ <<n, t>> \in fired THEN 1 ELSE 0
  BY DEF MonInv
<1>2. lastUpdated \in Nat /\ simTime \in Nat /\ Base \in Int /\ Time \subseteq Nat
      /\ MsPerSec \in Nat \ {0}
  BY Clock, KernelAssumption DEF TypeOK, Time
<1> HIDE DEF Exclusive, Base, simTime, Time
<1>3. ASSUME UNCHANGED monVars, Base' = Base, simTime' = simTime, fired' = fired,
             ~(phase' = "idle" \/ (phase' = "stop" /\ simTimeMs' = 0))
      PROVE  MonInv'
  BY <1>1, <1>3 DEF MonInv, monVars
<1>4. ASSUME NEW d \in Durations, RunNetwork(d) PROVE MonInv'
  <2>1. phase' = "schedule" /\ fired' = fired /\ UNCHANGED monVars
    BY <1>4 DEF RunNetwork
  <2> QED BY <1>3, <1>4, <2>1, Movement DEF Unmoved
<1>5. ASSUME Schedule PROVE MonInv'
  <2>1. phase' = "generate" /\ fired' = fired /\ UNCHANGED monVars
    BY <1>5 DEF Schedule
  <2> QED BY <1>3, <1>5, <2>1, Movement DEF Unmoved
<1>6. ASSUME NEW q \in Part, ClearBits(q) \/ FillBits(q) \/ CopyBits(q) PROVE MonInv'
  <2>1. phase = "generate" /\ phase' = phase /\ fired' = fired /\ UNCHANGED monVars
    BY <1>6 DEF ClearBits, FillBits, CopyBits, bitsUnchanged
  <2> QED BY <1>3, <1>6, <2>1, Movement DEF Unmoved
<1>7. ASSUME StepBuffer PROVE MonInv'
  <2>1. phase' = "fire" /\ fired' = fired /\ UNCHANGED monVars
    BY <1>7 DEF StepBuffer
  <2> QED BY <1>3, <1>7, <2>1, Movement DEF Unmoved
<1>8. ASSUME FindFiring PROVE MonInv'
  <2>1. phase' = "time" /\ UNCHANGED monVars /\ Base' = Base /\ simTime' = simTime
    BY <1>8, Movement DEF FindFiring, Unmoved
  <2>2. PICK L : fired' = fired \union { <<n, simTime>> : n \in L }
    BY <1>8 DEF FindFiring
  <2>3. ASSUME NEW n \in Neuron, NEW t \in Time, t < lastUpdated
        PROVE  <<n, t>> \in fired' <=> <<n, t>> \in fired
    <3>1. t # simTime
      BY <1>1, <1>2, <2>3
    <3> QED BY <2>2, <3>1
  <2> QED BY <1>1, <2>1, <2>3 DEF MonInv, monVars
<1>9. ASSUME UpdateTimingTable PROVE MonInv'
  <2>1. phase' \in {"deliver", "route"} /\ fired' = fired /\ UNCHANGED monVars
    BY <1>9 DEF UpdateTimingTable
  <2> QED BY <1>3, <1>9, <2>1, Movement
<1>10. ASSUME NEW r \in routes, RouteFork(r) PROVE MonInv'
  <2>1. phase' = "convert" /\ fired' = fired /\ UNCHANGED monVars
    BY <1>10 DEF RouteFork
  <2> QED BY <1>3, <1>10, <2>1, Movement DEF Unmoved
<1>11. ASSUME NEW th \in threads, ConvertRead(th) \/ ConvertWrite(th) PROVE MonInv'
  <2>1. phase = "convert" /\ phase' = phase /\ fired' = fired /\ UNCHANGED monVars
    BY <1>11 DEF ConvertRead, ConvertWrite, convertUnchanged
  <2> QED BY <1>3, <1>11, <2>1, Movement DEF Unmoved
<1>12. ASSUME RouteJoin PROVE MonInv'
  <2>1. phase' \in {"deliver", "route"} /\ fired' = fired /\ UNCHANGED monVars
    BY <1>12 DEF RouteJoin
  <2> QED BY <1>3, <1>12, <2>1, Movement DEF Unmoved
<1>13. ASSUME DoCurrentUpdate PROVE MonInv'
  <2>1. phase' = "advance" /\ fired' = fired /\ UNCHANGED monVars
    BY <1>13 DEF DoCurrentUpdate
  <2> QED BY <1>3, <1>13, <2>1, Movement DEF Unmoved
<1>14. ASSUME AdvanceTime PROVE MonInv'
  <2>1. fired' = fired /\ lastUpdated' = lastUpdated /\ recorded' = recorded
    BY <1>14 DEF AdvanceTime, monVars
  <2>2. Base' = Base /\ simTime' = simTime + 1
    BY <1>14, Movement
  <2>3. ~(phase' = "idle" \/ (phase' = "stop" /\ simTimeMs' = 0))
    BY <1>14 DEF AdvanceTime, Continue
  <2>4. lastUpdated <= simTime + 1
    BY <1>1, <1>2
  <2> QED BY <1>1, <2>1, <2>2, <2>3, <2>4 DEF MonInv
<1>15. ASSUME FinishSecond PROVE MonInv'
  <2>1. phase = "second" /\ phase' \in {"stop", "schedule"} /\ fired' = fired /\ UpdateSpikeMonitor
    BY <1>15 DEF FinishSecond
  <2>2. simTime' = simTime /\ Base' = Base + MsPerSec /\ simTimeMs = 0
    BY <1>15, <2>1, Movement DEF PastInv
  <2>3. Base' = simTime
    <3>1. Base = secondStart - MsPerSec /\ secondStart \in Nat /\ simTime = secondStart + simTimeMs
      BY <2>1, Clock, WhereIs DEF WhereFacts
    <3> HIDE DEF secondStart
    <3> QED BY <1>2, <2>2, <3>1
  <2>4. /\ lastUpdated' = simTime
        /\ \A n \in Neuron, t \in Time :
             recorded'[<<n, t>>] = IF t < simTime /\ <<n, t>> \in fired THEN 1 ELSE 0
    BY <2>1, MonitorUpdated
  <2>5. simTime <= simTime
    BY <1>2
  <2> QED BY <2>1, <2>2, <2>3, <2>4, <2>5 DEF MonInv
<1>16. ASSUME FinishRun PROVE MonInv'
  <2>1. phase = "stop" /\ fired' = fired /\ UpdateSpikeMonitor
    BY <1>16 DEF FinishRun
  <2>2. simTime' = simTime /\ Base' = Base
    BY <1>16, Movement DEF Unmoved
  <2>3. /\ lastUpdated' = simTime
        /\ \A n \in Neuron, t \in Time :
             recorded'[<<n, t>>] = IF t < simTime /\ <<n, t>> \in fired THEN 1 ELSE 0
    BY <2>1, MonitorUpdated
  <2>4. simTime <= simTime /\ Base <= simTime
    BY <1>1, <1>2
  <2> QED BY <2>1, <2>2, <2>3, <2>4 DEF MonInv
<1>17. CASE UNCHANGED vars
  <2>1. /\ phase' = phase /\ simTimeMs' = simTimeMs /\ fired' = fired
        /\ lastUpdated' = lastUpdated /\ recorded' = recorded
    BY <1>17 DEF vars, monVars
  <2>2. simTime' = simTime /\ Base' = Base
    BY <1>17 DEF vars, simTime, Base, secondStart
  <2> QED BY <1>1, <2>1, <2>2 DEF MonInv
<1> QED
  BY <1>4, <1>5, <1>6, <1>7, <1>8, <1>9, <1>10, <1>11, <1>12, <1>13, <1>14, <1>15, <1>16, <1>17
     DEF Next

(* When runNetwork returns the monitors have recorded what was fired, each  *)
(* spike once and with its time, however the calls of runNetwork and the    *)
(* ends of the seconds fall (updateSpikeMonitor).                           *)
THEOREM RecordedRight == Spec => []RecordedOnce
<1>1. Init => TableInvs /\ MonInv
  BY TableInvsInit, MonInit
<1>2. (TableInvs /\ MonInv) /\ [Next]_vars => (TableInvs /\ MonInv)'
  <2>1. TableInvs /\ [Next]_vars => TableInvs'
    BY TableInvsStep
  <2>2. TableInvs => TypeOK /\ PastInv /\ TableInv
    BY DEF TableInvs
  <2> HIDE DEF TableInvs, MonInv, TypeOK, PastInv, TableInv
  <2> QED BY <2>1, <2>2, MonStep
<1>3. MonInv => RecordedOnce
  BY DEF MonInv, RecordedOnce
<1> HIDE DEF TableInvs, MonInv
<1> QED
  BY <1>1, <1>2, <1>3, PTL DEF Spec

-----------------------------------------------------------------------------
(* Time slices and what the spike generators were asked for.                *)

(* A time slice is not longer than a second, and not empty during a run.    *)
LEMMA Slices ==
  ASSUME TypeOK, PastInv, RunInv
  PROVE  /\ simTime \in Nat /\ simTimeRunStart \in Nat /\ simTimeRunStop \in Nat
         /\ sliceUpdateTime \in Nat /\ MsPerSec \in Nat \ {0}
         /\ TimeSlice \in Nat /\ TimeSlice <= MsPerSec
         /\ simTimeRunStart < simTimeRunStop => TimeSlice # 0
         /\ WindowEnd \in Nat /\ endOfTimeWindow \in Nat
<1>1. /\ simTime \in Nat /\ simTimeRunStart \in Nat /\ simTimeRunStop \in Nat
      /\ sliceUpdateTime \in Nat /\ MsPerSec \in Nat \ {0}
  BY Clock, PartitionTypes DEF TypeOK
<1>2. simTimeRunStart <= simTime /\ simTime <= simTimeRunStop
  BY DEF RunInv
<1> HIDE DEF simTime
<1>3. /\ TimeSlice \in Nat /\ TimeSlice <= MsPerSec
      /\ simTimeRunStart < simTimeRunStop => TimeSlice # 0
  BY <1>1, <1>2 DEF TimeSlice
<1> HIDE DEF TimeSlice
<1>4. WindowEnd \in Nat /\ endOfTimeWindow \in Nat
  BY <1>1, <1>3 DEF WindowEnd, endOfTimeWindow
<1> QED BY <1>1, <1>3, <1>4

(* No run has begun when the kernel starts.                                 *)
LEMMA RunInit ==
  Init => RunInv
<1> SUFFICES ASSUME Init PROVE RunInv
  OBVIOUS
<1>1. /\ phase = "idle" /\ simTimeMs = 0 /\ simTimeSec = 0 /\ sliceUpdateTime = 0
      /\ simTimeRunStart = 0 /\ simTimeRunStop = 0
  BY DEF Init
<1>2. simTime = 0
  <2>1. 0 * MsPerSec = 0
    BY PartitionTypes, SMT
  <2> QED BY <1>1, <2>1 DEF simTime
<1>3. ~Running
  BY <1>1 DEF Running, Begun
<1>4. WindowEnd = simTime
  BY <1>1 DEF WindowEnd
<1> HIDE DEF WindowEnd, simTime, Running
<1> QED BY <1>1, <1>2, <1>3, <1>4 DEF RunInv

(* The window, of a step that leaves the run alone.                         *)
LEMMA WindowSame ==
  ASSUME TypeOK, PastInv, RunInv, UNCHANGED <<runVars, sliceUpdateTime>>, [Next]_vars,
         ~(phase = "idle" \/ (phase = "schedule" /\ simTime = simTimeRunStart)),
         ~(phase' = "idle" \/ (phase' = "schedule" /\ simTime' = simTimeRunStart'))
  PROVE  WindowEnd' = WindowEnd
<1>1. TimeSlice' = TimeSlice /\ simTimeRunStop' = simTimeRunStop
  BY DEF TimeSlice, runVars
<1> HIDE DEF TimeSlice, simTime
<1> QED BY <1>1 DEF WindowEnd

(* Every step keeps the clock within its run and the run within its time    *)
(* slices.                                                                  *)
LEMMA RunStep ==
  TypeOK /\ PastInv /\ RunInv /\ [Next]_vars => RunInv'
<1> SUFFICES ASSUME TypeOK, PastInv, RunInv, [Next]_vars PROVE RunInv'
  OBVIOUS
<1>1. /\ simTime \in Nat /\ simTimeRunStart \in Nat /\ simTimeRunStop \in Nat
      /\ sliceUpdateTime \in Nat /\ MsPerSec \in Nat \ {0}
      /\ TimeSlice \in Nat /\ TimeSlice <= MsPerSec
      /\ simTimeRunStart < simTimeRunStop => TimeSlice # 0
      /\ WindowEnd \in Nat /\ endOfTimeWindow \in Nat
  BY Slices
<1>2. /\ simTimeRunStart <= simTime /\ simTime <= simTimeRunStop /\ sliceUpdateTime <= simTime
      /\ Running \/ phase = "schedule" => simTime < simTimeRunStop
      /\ phase \in {"second", "stop"} => simTimeRunStart < simTime
      /\ phase = "stop" => simTime = simTimeRunStop
      /\ simTime <= WindowEnd
      /\ Running => simTime < WindowEnd
  BY DEF RunInv
<1> HIDE DEF simTime, WindowEnd, TimeSlice, endOfTimeWindow
<1>3. ASSUME UNCHANGED <<runVars, sliceUpdateTime>>, simTime' = simTime,
             Running, phase' \notin {"idle", "schedule", "second", "stop"}
      PROVE  RunInv'
  <2>1. phase \notin {"idle", "schedule"}
    BY <1>3 DEF Running, Begun
  <2>2. WindowEnd' = WindowEnd
    BY <1>3, <2>1, WindowSame
  <2>3. simTimeRunStart' = simTimeRunStart /\ simTimeRunStop' = simTimeRunStop /\ sliceUpdateTime' = sliceUpdateTime
    BY <1>3 DEF runVars
  <2> QED BY <1>2, <1>3, <2>2, <2>3 DEF RunInv
<1>4. ASSUME NEW d \in Durations, RunNetwork(d) PROVE RunInv'
  <2>1. /\ simTimeRunStart' = simTime /\ simTimeRunStop' = simTime + d /\ phase' = "schedule"
        /\ sliceUpdateTime' = sliceUpdateTime
    BY <1>4 DEF RunNetwork, genVars
  <2>2. simTime' = simTime
    BY <1>4, Movement DEF Unmoved
  <2>3. WindowEnd' = simTime
    BY <2>1, <2>2 DEF WindowEnd
  <2>4. d \in Nat \ {0}
    BY KernelAssumption
  <2>5. ~Running'
    BY <2>1 DEF Running, Begun
  <2> HIDE DEF Running
  <2> QED BY <1>1, <1>2, <2>1, <2>2, <2>3, <2>4, <2>5 DEF RunInv
<1>5. ASSUME Schedule PROVE RunInv'
  <2>1. /\ phase = "schedule" /\ phase' = "generate" /\ UNCHANGED runVars
        /\ sliceUpdateTime' = IF SliceExpired THEN simTime ELSE sliceUpdateTime
    BY <1>5 DEF Schedule
  <2>2. simTime' = simTime /\ TimeSlice' = TimeSlice
    BY <1>5, <2>1, Movement DEF Unmoved, TimeSlice, runVars
  <2>3. WindowEnd' = IF sliceUpdateTime' + TimeSlice < simTimeRunStop THEN sliceUpdateTime' + TimeSlice
                     ELSE simTimeRunStop
    BY <2>1, <2>2 DEF WindowEnd, runVars
  <2>4. simTimeRunStart' = simTimeRunStart /\ simTimeRunStop' = simTimeRunStop
    BY <2>1 DEF runVars
  <2>5. SliceExpired <=> simTime - sliceUpdateTime >= TimeSlice \/ simTime = simTimeRunStart
    BY DEF SliceExpired
  <2>6. sliceUpdateTime' <= simTime /\ simTime < WindowEnd'
    BY <1>1, <1>2, <2>1, <2>3, <2>5
  <2>7. WindowEnd' \in Nat
    BY <1>1, <2>1, <2>3
  <2>8. simTime <= WindowEnd'
    BY <1>1, <2>6, <2>7
  <2> HIDE DEF Running
  <2> QED BY <1>2, <2>1, <2>2, <2>4, <2>6, <2>8 DEF RunInv
<1>6. ASSUME NEW q \in Part, ClearBits(q) \/ FillBits(q) \/ CopyBits(q) PROVE RunInv'
  <2>1. phase = "generate" /\ phase' = phase /\ UNCHANGED <<runVars, sliceUpdateTime>>
    BY <1>6 DEF ClearBits, FillBits, CopyBits, bitsUnchanged, genVars
  <2> QED BY <1>3, <1>6, <2>1, Movement DEF Unmoved, Running
<1>7. ASSUME StepBuffer PROVE RunInv'
  <2>1. phase = "generate" /\ phase' = "fire" /\ UNCHANGED <<runVars, sliceUpdateTime>>
    BY <1>7 DEF StepBuffer
  <2> QED BY <1>3, <1>7, <2>1, Movement DEF Unmoved, Running
<1>8. ASSUME FindFiring PROVE RunInv'
  <2>1. phase = "fire" /\ phase' = "time" /\ UNCHANGED <<runVars, sliceUpdateTime>>
    BY <1>8 DEF FindFiring
  <2> QED BY <1>3, <1>8, <2>1, Movement DEF Unmoved, Running
<1>9. ASSUME UpdateTimingTable PROVE RunInv'
  <2>1. phase = "time" /\ phase' \in {"deliver", "route"} /\ UNCHANGED <<runVars, sliceUpdateTime>>
    BY <1>9 DEF UpdateTimingTable, genVars
  <2> QED BY <1>3, <1>9, <2>1, Movement DEF Running
<1>10. ASSUME NEW r \in routes, RouteFork(r) PROVE RunInv'
  <2>1. phase = "route" /\ phase' = "convert" /\ UNCHANGED <<runVars, sliceUpdateTime>>
    BY <1>10 DEF RouteFork, genVars
  <2> QED BY <1>3, <1>10, <2>1, Movement DEF Unmoved, Running, Begun
<1>11. ASSUME NEW th \in threads, ConvertRead(th) \/ ConvertWrite(th) PROVE RunInv'
  <2>1. phase = "convert" /\ phase' = phase /\ UNCHANGED <<runVars, sliceUpdateTime>>
    BY <1>11 DEF ConvertRead, ConvertWrite, convertUnchanged, genVars
  <2> QED BY <1>3, <1>11, <2>1, Movement DEF Unmoved, Running, Begun
<1>12. ASSUME RouteJoin PROVE RunInv'
  <2>1. phase = "convert" /\ phase' \in {"deliver", "route"} /\ UNCHANGED <<runVars, sliceUpdateTime>>
    BY <1>12 DEF RouteJoin, genVars
  <2> QED BY <1>3, <1>12, <2>1, Movement DEF Unmoved, Running, Begun
<1>13. ASSUME DoCurrentUpdate PROVE RunInv'
  <2>1. phase = "deliver" /\ phase' = "advance" /\ UNCHANGED <<runVars, sliceUpdateTime>>
    BY <1>13 DEF DoCurrentUpdate, genVars
  <2> QED BY <1>3, <1>13, <2>1, Movement DEF Unmoved, Running, Begun
<1>14. ASSUME AdvanceTime PROVE RunInv'
  <2>1. phase = "advance" /\ UNCHANGED <<runVars, sliceUpdateTime>>
    BY <1>14 DEF AdvanceTime, genVars
  <2>2. simTime' = simTime + 1
    BY <1>14, Movement
  <2>3. phase' = IF simTimeMs' = 0 THEN "second" ELSE IF simTime' = simTimeRunStop THEN "stop" ELSE "schedule"
    BY <1>14 DEF AdvanceTime, Continue
  <2>4. simTimeRunStart' = simTimeRunStart /\ simTimeRunStop' = simTimeRunStop /\ sliceUpdateTime' = sliceUpdateTime
    BY <2>1 DEF runVars
  <2>5. Running /\ ~Running'
    BY <2>1, <2>3 DEF Running, Begun
  <2>6. simTimeRunStart < simTime'
    BY <1>1, <1>2, <2>2
  <2>7. simTime' # simTimeRunStart'
    BY <1>1, <2>2, <2>4, <2>6
  <2>8. WindowEnd' = WindowEnd
    BY <2>1, <2>3, <2>7, WindowSame
  <2>9. sliceUpdateTime <= simTime' /\ simTime' <= simTimeRunStop /\ simTimeRunStart <= simTime' /\ simTime' <= WindowEnd
    BY <1>1, <1>2, <2>2, <2>5
  <2>10. phase' = "schedule" => simTime' < simTimeRunStop
    BY <1>1, <2>2, <2>3, <2>9
  <2> HIDE DEF Running
  <2> QED BY <2>3, <2>4, <2>5, <2>6, <2>8, <2>9, <2>10 DEF RunInv
<1>15. ASSUME FinishSecond PROVE RunInv'
  <2>1. /\ phase = "second" /\ UNCHANGED <<runVars, sliceUpdateTime>>
        /\ phase' = IF simTime = simTimeRunStop THEN "stop" ELSE "schedule"
    BY <1>15 DEF FinishSecond, genVars
  <2>2. simTime' = simTime
    BY <1>15, Movement
  <2>3. simTimeRunStart' = simTimeRunStart /\ simTimeRunStop' = simTimeRunStop /\ sliceUpdateTime' = sliceUpdateTime
    BY <2>1 DEF runVars
  <2>4. ~Running'
    BY <2>1 DEF Running, Begun
  <2>5. simTimeRunStart < simTime /\ simTime' # simTimeRunStart'
    BY <1>1, <1>2, <2>1, <2>2, <2>3
  <2>6. WindowEnd' = WindowEnd
    BY <2>1, <2>5, WindowSame
  <2>7. phase' = "schedule" => simTime < simTimeRunStop
    BY <1>1, <1>2, <2>1
  <2> HIDE DEF Running
  <2> QED BY <1>2, <2>1, <2>2, <2>3, <2>4, <2>5, <2>6, <2>7 DEF RunInv
<1>16. ASSUME FinishRun PROVE RunInv'
  <2>1. phase = "stop" /\ phase' = "idle" /\ UNCHANGED <<runVars, sliceUpdateTime>>
    BY <1>16 DEF FinishRun, genVars
  <2>2. simTime' = simTime
    BY <1>16, Movement DEF Unmoved
  <2>3. WindowEnd' = simTime
    BY <2>1, <2>2 DEF WindowEnd
  <2>4. ~Running'
    BY <2>1 DEF Running, Begun
  <2>5. simTime <= simTime
    BY <1>1
  <2> HIDE DEF Running
  <2> QED BY <1>2, <2>1, <2>2, <2>3, <2>4, <2>5 DEF RunInv, runVars
<1>17. CASE UNCHANGED vars
  <2>1. phase' = phase /\ UNCHANGED runVars /\ sliceUpdateTime' = sliceUpdateTime
    BY <1>17 DEF vars, genVars
  <2>2. simTime' = simTime
    BY <1>17 DEF vars, simTime
  <2>3. WindowEnd' = WindowEnd /\ Running' = Running
    BY <2>1, <2>2 DEF WindowEnd, TimeSlice, runVars, Running, Begun
  <2> HIDE DEF Running
  <2> QED BY <1>2, <2>1, <2>2, <2>3 DEF RunInv, runVars
<1> QED
  BY <1>4, <1>5, <1>6, <1>7, <1>8, <1>9, <1>10, <1>11, <1>12, <1>13, <1>14, <1>15, <1>16, <1>17
     DEF Next

(* Of the step of one action the others know what it leaves as it is.       *)
LEMMA Onward ==
  ASSUME TypeOK, PastInv, RunInv, [Next]_vars
  PROVE  /\ Schedule \/ WindowEnd' = WindowEnd
         /\ StepBuffer \/ First' = First
         /\ FindFiring \/ Now' = Now
         /\ Schedule \/ StepBuffer \/ FindFiring \/ UNCHANGED genVars
<1> DEFINE Goal == /\ Schedule \/ WindowEnd' = WindowEnd
                   /\ StepBuffer \/ First' = First
                   /\ FindFiring \/ Now' = Now
                   /\ Schedule \/ StepBuffer \/ FindFiring \/ UNCHANGED genVars
<1> SUFFICES Goal
  OBVIOUS
<1>1. /\ simTime \in Nat /\ simTimeRunStart \in Nat /\ simTimeRunStop \in Nat
      /\ WindowEnd \in Nat
  BY Slices
<1>2. RunInv'
  BY RunStep
<1>3. /\ phase = "stop" => simTime = simTimeRunStop /\ simTime <= WindowEnd
      /\ phase \in {"second", "stop"} => simTimeRunStart < simTime
      /\ phase' \in {"second", "stop"} => simTimeRunStart' < simTime'
  BY <1>2 DEF RunInv
<1> HIDE DEF simTime, WindowEnd
<1>4. ASSUME UNCHANGED <<runVars, genVars>>, simTime' = simTime,
             phase \notin {"idle", "schedule"}, phase' \notin {"idle", "schedule"},
             phase \in {"time"} \/ Begun <=> phase' \in {"time"} \/ Begun',
             phase = "fire" <=> phase' = "fire"
      PROVE  Goal
  <2>1. WindowEnd' = WindowEnd
    BY <1>4, WindowSame DEF genVars
  <2>2. First' = First /\ Now' = Now
    BY <1>4 DEF First, Now, Stepped
  <2> QED BY <1>4, <2>1, <2>2
<1>5. ASSUME NEW d \in Durations, RunNetwork(d) PROVE Goal
  <2>1. phase = "idle" /\ phase' = "schedule" /\ simTimeRunStart' = simTime /\ UNCHANGED genVars
    BY <1>5 DEF RunNetwork
  <2>2. simTime' = simTime
    BY <1>5, Movement DEF Unmoved
  <2>3. WindowEnd' = simTime /\ WindowEnd = simTime
    BY <2>1, <2>2 DEF WindowEnd
  <2>4. First' = First /\ Now' = Now
    BY <2>1, <2>2 DEF First, Now, Stepped, Begun
  <2> QED BY <2>1, <2>3, <2>4
<1>6. ASSUME Schedule PROVE Goal
  <2>1. phase = "schedule" /\ phase' = "generate"
    BY <1>6 DEF Schedule
  <2>2. simTime' = simTime
    BY <1>6, Movement DEF Unmoved
  <2>3. First' = First /\ Now' = Now
    BY <2>1, <2>2 DEF First, Now, Stepped, Begun
  <2> QED BY <1>6, <2>3
<1>7. ASSUME NEW q \in Part, ClearBits(q) \/ FillBits(q) \/ CopyBits(q) PROVE Goal
  <2>1. phase = "generate" /\ phase' = phase /\ UNCHANGED <<runVars, genVars>>
    BY <1>7 DEF ClearBits, FillBits, CopyBits, bitsUnchanged
  <2>2. simTime' = simTime
    BY <1>7, Movement DEF Unmoved
  <2> QED BY <1>4, <2>1, <2>2 DEF Begun
<1>8. ASSUME StepBuffer PROVE Goal
  <2>1. phase = "generate" /\ phase' = "fire" /\ UNCHANGED <<runVars, sliceUpdateTime>>
    BY <1>8 DEF StepBuffer
  <2>2. simTime' = simTime
    BY <1>8, Movement DEF Unmoved
  <2>3. WindowEnd' = WindowEnd
    BY <2>1, WindowSame
  <2>4. Now' = Now
    BY <2>1, <2>2 DEF Now, Begun
  <2> QED BY <1>8, <2>3, <2>4
<1>9. ASSUME FindFiring PROVE Goal
  <2>1. phase = "fire" /\ phase' = "time" /\ UNCHANGED <<runVars, sliceUpdateTime>>
    BY <1>9 DEF FindFiring
  <2>2. simTime' = simTime
    BY <1>9, Movement DEF Unmoved
  <2>3. WindowEnd' = WindowEnd
    BY <2>1, WindowSame
  <2>4. First' = First
    BY <2>1, <2>2 DEF First, Stepped, Begun
  <2> QED BY <1>9, <2>3, <2>4
<1>10. ASSUME UpdateTimingTable PROVE Goal
  <2>1. phase = "time" /\ phase' \in {"deliver", "route"} /\ UNCHANGED <<runVars, genVars>>
    BY <1>10 DEF UpdateTimingTable
  <2>2. simTime' = simTime
    BY <1>10, Movement
  <2> QED BY <1>4, <2>1, <2>2 DEF Begun
<1>11. ASSUME NEW r \in routes, RouteFork(r) PROVE Goal
  <2>1. phase = "route" /\ phase' = "convert" /\ UNCHANGED <<runVars, genVars>>
    BY <1>11 DEF RouteFork
  <2>2. simTime' = simTime
    BY <1>11, Movement DEF Unmoved
  <2> QED BY <1>4, <2>1, <2>2 DEF Begun
<1>12. ASSUME NEW th \in threads, ConvertRead(th) \/ ConvertWrite(th) PROVE Goal
  <2>1. phase = "convert" /\ phase' = phase /\ UNCHANGED <<runVars, genVars>>
    BY <1>12 DEF ConvertRead, ConvertWrite, convertUnchanged
  <2>2. simTime' = simTime
    BY <1>12, Movement DEF Unmoved
  <2> QED BY <1>4, <2>1, <2>2 DEF Begun
<1>13. ASSUME RouteJoin PROVE Goal
  <2>1. phase = "convert" /\ phase' \in {"deliver", "route"} /\ UNCHANGED <<runVars, genVars>>
    BY <1>13 DEF RouteJoin
  <2>2. simTime' = simTime
    BY <1>13, Movement DEF Unmoved
  <2> QED BY <1>4, <2>1, <2>2 DEF Begun
<1>14. ASSUME DoCurrentUpdate PROVE Goal
  <2>1. phase = "deliver" /\ phase' = "advance" /\ UNCHANGED <<runVars, genVars>>
    BY <1>14 DEF DoCurrentUpdate
  <2>2. simTime' = simTime
    BY <1>14, Movement DEF Unmoved
  <2> QED BY <1>4, <2>1, <2>2 DEF Begun
<1>15. ASSUME AdvanceTime PROVE Goal
  <2>1. phase = "advance" /\ UNCHANGED <<runVars, genVars>> /\ phase' \in {"second", "stop", "schedule"}
    BY <1>15 DEF AdvanceTime, Continue
  <2>2. simTime' = simTime + 1
    BY <1>15, Movement
  <2>3. simTimeRunStart <= simTime /\ simTimeRunStart' = simTimeRunStart
    BY <2>1 DEF RunInv, runVars
  <2>4. simTime' # simTimeRunStart'
    BY <1>1, <2>2, <2>3
  <2>5. WindowEnd' = WindowEnd
    BY <2>1, <2>4, WindowSame DEF genVars
  <2>6. First = simTime + 1 /\ First' = simTime' + 0 /\ Now = simTime + 1 /\ Now' = simTime' + 0
    BY <2>1 DEF First, Now, Stepped, Begun
  <2>7. First' = First /\ Now' = Now
    BY <1>1, <2>2, <2>6
  <2> QED BY <2>1, <2>5, <2>7
<1>16. ASSUME FinishSecond PROVE Goal
  <2>1. phase = "second" /\ UNCHANGED <<runVars, genVars>> /\ phase' \in {"stop", "schedule"}
    BY <1>16 DEF FinishSecond
  <2>2. simTime' = simTime
    BY <1>16, Movement
  <2>3. simTime' # simTimeRunStart'
    BY <1>1, <1>3, <2>1, <2>2 DEF runVars
  <2>4. WindowEnd' = WindowEnd
    BY <2>1, <2>3, WindowSame DEF genVars
  <2>5. First' = First /\ Now' = Now
    BY <2>1, <2>2 DEF First, Now, Stepped, Begun
  <2> QED BY <2>1, <2>4, <2>5
<1>17. ASSUME FinishRun PROVE Goal
  <2>1. phase = "stop" /\ phase' = "idle" /\ UNCHANGED <<runVars, genVars>>
    BY <1>17 DEF FinishRun
  <2>2. simTime' = simTime
    BY <1>17, Movement DEF Unmoved
  <2>3. WindowEnd' = simTime
    BY <2>1, <2>2 DEF WindowEnd
  <2>4. WindowEnd <= simTimeRunStop
    <3>1. sliceUpdateTime + TimeSlice \in Nat
      BY Slices
    <3>2. WindowEnd = IF sliceUpdateTime + TimeSlice < simTimeRunStop THEN sliceUpdateTime + TimeSlice
                      ELSE simTimeRunStop
      BY <2>1 DEF WindowEnd
    <3> HIDE DEF TimeSlice
    <3> QED BY <1>1, <3>1, <3>2
  <2>5. WindowEnd = simTime
    BY <1>1, <1>3, <2>1, <2>4
  <2>6. First' = First /\ Now' = Now
    BY <2>1, <2>2 DEF First, Now, Stepped, Begun
  <2> QED BY <2>1, <2>3, <2>5, <2>6
<1>18. CASE UNCHANGED vars
  <2>1. phase' = phase /\ UNCHANGED <<runVars, genVars>>
    BY <1>18 DEF vars
  <2>2. simTime' = simTime
    BY <1>18 DEF vars, simTime
  <2>3. WindowEnd' = WindowEnd
    BY <2>1, <2>2 DEF WindowEnd, TimeSlice, runVars, genVars
  <2>4. First' = First /\ Now' = Now
    BY <2>1, <2>2 DEF First, Now, Stepped, Begun
  <2> QED BY <2>1, <2>3, <2>4
<1> HIDE DEF Goal
<1> QED
  BY <1>5, <1>6, <1>7, <1>8, <1>9, <1>10, <1>11, <1>12, <1>13, <1>14, <1>15, <1>16, <1>17, <1>18
     DEF Next

(* No generator has been asked when the kernel starts.                      *)
LEMMA AskInit ==
  Init => AskInv
<1> SUFFICES ASSUME Init PROVE AskInv
  OBVIOUS
<1>1. /\ phase = "idle" /\ simTimeMs = 0 /\ simTimeSec = 0
      /\ spikeBuf = [i \in 0 .. MsPerSec |-> {}] /\ train \in [GenNeuron -> GenTimes] /\ unread = train
      /\ lastSpikeTime = [n \in GenNeuron |-> 0]
  BY DEF Init
<1>2. simTime = 0
  <2>1. 0 * MsPerSec = 0
    BY PartitionTypes, SMT
  <2> QED BY <1>1, <2>1 DEF simTime
<1>3. WindowEnd = 0 /\ First = 0
  <2>1. WindowEnd = simTime
    BY <1>1 DEF WindowEnd
  <2>2. First = simTime + 0
    BY <1>1 DEF First, Stepped, Begun
  <2> HIDE DEF WindowEnd, First, simTime
  <2> QED BY <1>2, <2>1, <2>2
<1> HIDE DEF WindowEnd, First, Now
<1>4. \A n \in GenNeuron : unread[n] = { t \in train[n] : t >= WindowEnd }
  <2> SUFFICES ASSUME NEW n \in GenNeuron PROVE train[n] = { t \in train[n] : t >= WindowEnd }
    BY <1>1
  <2>1. train[n] \subseteq Nat
    BY <1>1, KernelAssumption
  <2> QED BY <1>3, <2>1
<1>5. \A i \in 0 .. MsPerSec : spikeBuf[i] = Buffered(i)
  <2> SUFFICES ASSUME NEW i \in 0 .. MsPerSec PROVE Buffered(i) = {}
    BY <1>1
  <2>1. ~(First + i < WindowEnd)
    BY <1>3
  <2> QED BY <2>1 DEF Buffered
<1> QED BY <1>1, <1>4, <1>5 DEF AskInv

(* A generator that is asked answers for the whole slice.                   *)
LEMMA AllAsked ==
  ASSUME TypeOK, PastInv, RunInv, AskInv, phase = "schedule", WindowEnd = simTime,
         NEW n \in GenNeuron
  PROVE  /\ Asked(n) = { t \in train[n] : t >= simTime /\ t < endOfTimeWindow }
         /\ \A t \in Asked(n) : Usable(n, t)
<1> DEFINE A == { t \in train[n] : t >= simTime /\ t < endOfTimeWindow }
<1>1. /\ train[n] \subseteq Nat /\ simTime \in Nat /\ endOfTimeWindow \in Nat /\ lastSpikeTime[n] \in Nat
  BY Slices DEF TypeOK
<1>2. Now = simTime + 0
  BY WhereIs DEF WhereFacts, Standing
<1>3. unread[n] = { t \in train[n] : t >= simTime } /\ (lastSpikeTime[n] = 0 \/ lastSpikeTime[n] < Now)
  BY DEF AskInv
<1> HIDE DEF simTime, endOfTimeWindow, Now
<1>4. Answers(n) = A
  BY <1>3 DEF Answers
<1>5. \A t \in A : Usable(n, t)
  BY <1>1, <1>2, <1>3 DEF Usable
<1> HIDE DEF A, Usable
<1>6. Asked(n) = A
  BY <1>4, <1>5 DEF Asked
<1> QED BY <1>5, <1>6 DEF A

(* Asking for the next time slice puts the spikes of that slice in the      *)
(* buffer, and no others.                                                   *)
LEMMA AskedNext ==
  ASSUME TypeOK, PastInv, RunInv, AskInv, Schedule
  PROVE  AskInv'
<1>1. /\ phase = "schedule" /\ phase' = "generate" /\ train' = train /\ UNCHANGED runVars
      /\ lastSpikeTime' = lastSpikeTime
  BY DEF Schedule
<1>2. simTime' = simTime /\ TimeSlice' = TimeSlice /\ simTimeRunStop' = simTimeRunStop
      /\ simTimeRunStart' = simTimeRunStart
  BY <1>1, Movement DEF Unmoved, TimeSlice, runVars
<1>3. First = simTime + 0 /\ First' = simTime + 0 /\ Now' = Now
  BY <1>1, <1>2 DEF First, Stepped, Begun, Now
<1>4. /\ simTime \in Nat /\ simTimeRunStart \in Nat /\ simTimeRunStop \in Nat
      /\ sliceUpdateTime \in Nat /\ MsPerSec \in Nat \ {0} /\ TimeSlice \in Nat
      /\ WindowEnd \in Nat /\ endOfTimeWindow \in Nat
  BY Slices
<1>5. \A n \in GenNeuron : train[n] \subseteq Nat
  BY DEF TypeOK
<1>6. /\ \A n \in GenNeuron : unread[n] = { t \in train[n] : t >= WindowEnd }
      /\ \A i \in 0 .. MsPerSec : spikeBuf[i] = Buffered(i)
      /\ \A n \in GenNeuron : lastSpikeTime[n] = 0 \/ lastSpikeTime[n] < Now
  BY DEF AskInv
<1> HIDE DEF simTime, First, Now, TimeSlice
<1>7. CASE ~SliceExpired
  <2>1. sliceUpdateTime' = sliceUpdateTime /\ unread' = unread /\ spikeBuf' = spikeBuf
    BY <1>7 DEF Schedule
  <2>2. simTime # simTimeRunStart
    BY <1>7 DEF SliceExpired
  <2>3. WindowEnd' = WindowEnd
    BY <1>1, <1>2, <2>1, <2>2 DEF WindowEnd
  <2>4. First' = First
    BY <1>3
  <2>5. \A i : Buffered(i)' = Buffered(i)
    BY <1>1, <2>3, <2>4 DEF Buffered
  <2> HIDE DEF WindowEnd, Buffered
  <2> QED BY <1>1, <1>3, <1>6, <2>1, <2>3, <2>5 DEF AskInv
<1>8. CASE SliceExpired
  <2>1. /\ sliceUpdateTime' = simTime
        /\ unread' = [n \in GenNeuron |-> unread[n] \ Asked(n)]
        /\ spikeBuf' = [i \in 0 .. MsPerSec |-> spikeBuf[i] \union { n \in GenNeuron : Scheduled(n, i) }]
    BY <1>8 DEF Schedule
  <2>2. WindowEnd = simTime
    <3>1. simTime <= WindowEnd
      BY DEF RunInv
    <3>2. simTime - sliceUpdateTime >= TimeSlice \/ simTime = simTimeRunStart
      BY <1>8 DEF SliceExpired
    <3>3. WindowEnd = simTime \/ (simTime # simTimeRunStart /\ WindowEnd <= sliceUpdateTime + TimeSlice)
      BY <1>1, <1>4 DEF WindowEnd
    <3> HIDE DEF WindowEnd
    <3> QED BY <1>4, <3>1, <3>2, <3>3
  <2>3. WindowEnd' = endOfTimeWindow
    BY <1>1, <1>2, <2>1 DEF WindowEnd, endOfTimeWindow
  <2>4. simTime <= endOfTimeWindow
    <3>1. RunInv'
      BY RunStep DEF Next
    <3>2. simTime' <= WindowEnd'
      BY <3>1 DEF RunInv
    <3> HIDE DEF WindowEnd, endOfTimeWindow
    <3> QED BY <1>2, <2>3, <3>2
  <2>5. \A n \in GenNeuron :
          /\ Asked(n) = { t \in train[n] : t >= simTime /\ t < endOfTimeWindow }
          /\ \A t \in Asked(n) : Usable(n, t)
    BY <1>1, <2>2, AllAsked
  <2> HIDE DEF WindowEnd, endOfTimeWindow
  <2>6. \A n \in GenNeuron : unread'[n] = { t \in train[n] : t >= endOfTimeWindow }
    <3> SUFFICES ASSUME NEW n \in GenNeuron
                 PROVE  unread[n] \ Asked(n) = { t \in train[n] : t >= endOfTimeWindow }
      BY <2>1
    <3>1. unread[n] = { t \in train[n] : t >= simTime }
      BY <1>6, <2>2
    <3>2. \A t \in train[n] : (t >= simTime /\ ~(t >= simTime /\ t < endOfTimeWindow)) <=> t >= endOfTimeWindow
      BY <1>4, <1>5, <2>4
    <3> QED BY <2>5, <3>1, <3>2
  <2>7. \A i \in 0 .. MsPerSec : spikeBuf'[i] = Buffered(i)'
    <3> SUFFICES ASSUME NEW i \in 0 .. MsPerSec PROVE spikeBuf'[i] = Buffered(i)'
      OBVIOUS
    <3>1. Buffered(i)' = { n \in GenNeuron : simTime + i < endOfTimeWindow /\ simTime + i \in train[n] }
      <4>1. Buffered(i)' = { n \in GenNeuron : First' + i < WindowEnd' /\ First' + i \in train'[n] }
        BY DEF Buffered
      <4>2. First' = simTime
        BY <1>3, <1>4
      <4> QED BY <1>1, <2>3, <4>1, <4>2
    <3>2. spikeBuf[i] = {}
      <4>1. ~(First + i < WindowEnd)
        BY <1>3, <1>4, <2>2
      <4> QED BY <1>6, <4>1 DEF Buffered
    <3>3. \A n \in GenNeuron : Scheduled(n, i) <=> simTime + i < endOfTimeWindow /\ simTime + i \in train[n]
      <4> SUFFICES ASSUME NEW n \in GenNeuron
                   PROVE Scheduled(n, i) <=> simTime + i < endOfTimeWindow /\ simTime + i \in train[n]
        OBVIOUS
      <4>1. Scheduled(n, i) <=> \E t \in Asked(n) : t - simTime = i
        BY <2>5 DEF Scheduled
      <4>2. \A t \in train[n] : t - simTime = i <=> t = simTime + i
        BY <1>4, <1>5
      <4>3. simTime + i >= simTime /\ simTime + i \in Nat
        BY <1>4
      <4>4. \A t : t \in Asked(n) <=> t \in train[n] /\ t >= simTime /\ t < endOfTimeWindow
        BY <2>5
      <4> HIDE DEF Scheduled, Asked
      <4> QED BY <4>1, <4>2, <4>3, <4>4
    <3>4. spikeBuf'[i] = spikeBuf[i] \union { n \in GenNeuron : Scheduled(n, i) }
      BY <2>1
    <3> HIDE DEF Buffered, Scheduled
    <3> QED BY <3>1, <3>2, <3>3, <3>4
  <2> HIDE DEF Buffered
  <2> QED BY <1>1, <1>3, <1>6, <2>3, <2>6, <2>7 DEF AskInv
<1> QED BY <1>7, <1>8

(* Every step leaves in the buffer what is due, at the place of its time.   *)
LEMMA AskStep ==
  TypeOK /\ PastInv /\ RunInv /\ AskInv /\ [Next]_vars => AskInv'
<1> SUFFICES ASSUME TypeOK, PastInv, RunInv, AskInv, [Next]_vars PROVE AskInv'
  OBVIOUS
<1>1. /\ Schedule \/ WindowEnd' = WindowEnd
      /\ StepBuffer \/ First' = First
      /\ FindFiring \/ Now' = Now
      /\ Schedule \/ StepBuffer \/ FindFiring \/ UNCHANGED genVars
  BY Onward
<1>2. /\ \A n \in GenNeuron : unread[n] = { t \in train[n] : t >= WindowEnd }
      /\ \A i \in 0 .. MsPerSec : spikeBuf[i] = Buffered(i)
      /\ \A n \in GenNeuron : lastSpikeTime[n] = 0 \/ lastSpikeTime[n] < Now
  BY DEF AskInv
<1>3. CASE Schedule
  BY <1>3, AskedNext
<1>4. CASE StepBuffer
  <2>1. /\ phase = "generate" /\ phase' = "fire" /\ train' = train /\ unread' = unread
        /\ lastSpikeTime' = lastSpikeTime
        /\ spikeBuf' = [i \in 0 .. MsPerSec |-> IF i = MsPerSec THEN {} ELSE spikeBuf[i + 1]]
    BY <1>4 DEF StepBuffer
  <2>2. simTime' = simTime
    BY <1>4, Movement DEF Unmoved
  <2>3. First = simTime + 0 /\ First' = simTime + 1 /\ simTime \in Nat /\ MsPerSec \in Nat \ {0}
    BY <2>1, <2>2, Slices DEF First, Stepped, Begun
  <2>4. WindowEnd' = WindowEnd /\ Now' = Now
    <3>1. ~Schedule /\ ~FindFiring
      BY <2>1 DEF Schedule, FindFiring
    <3> QED BY <1>1, <3>1
  <2>5. WindowEnd <= simTime + MsPerSec /\ WindowEnd \in Nat
    <3>1. /\ sliceUpdateTime \in Nat /\ TimeSlice \in Nat /\ TimeSlice <= MsPerSec /\ simTimeRunStop \in Nat
          /\ WindowEnd \in Nat
      BY Slices
    <3>2. sliceUpdateTime <= simTime
      BY DEF RunInv
    <3>3. WindowEnd = IF sliceUpdateTime + TimeSlice < simTimeRunStop THEN sliceUpdateTime + TimeSlice
                      ELSE simTimeRunStop
      BY <2>1 DEF WindowEnd
    <3>4. WindowEnd <= sliceUpdateTime + TimeSlice
      <4> HIDE DEF WindowEnd, TimeSlice, simTime
      <4> QED BY <3>1, <3>3
    <3> HIDE DEF WindowEnd, TimeSlice, simTime
    <3> QED BY <2>3, <3>1, <3>2, <3>4
  <2> HIDE DEF simTime, First, WindowEnd, Now
  <2>6. ASSUME NEW i \in 0 .. MsPerSec PROVE spikeBuf'[i] = Buffered(i)'
    <3>1. Buffered(i)' = { n \in GenNeuron : simTime + 1 + i < WindowEnd /\ simTime + 1 + i \in train[n] }
      BY <2>1, <2>3, <2>4 DEF Buffered
    <3>2. CASE i = MsPerSec
      <4>1. ~(simTime + 1 + i < WindowEnd)
        BY <2>3, <2>5, <3>2
      <4>2. Buffered(i)' = {}
        BY <3>1, <4>1
      <4> QED BY <2>1, <3>2, <4>2
    <3>3. CASE i # MsPerSec
      <4>1. i + 1 \in 0 .. MsPerSec
        BY <2>3, <3>3
      <4>2. First + (i + 1) = simTime + 1 + i
        BY <2>3
      <4>3. Buffered(i + 1) = { n \in GenNeuron : simTime + 1 + i < WindowEnd /\ simTime + 1 + i \in train[n] }
        BY <4>2 DEF Buffered
      <4>4. spikeBuf'[i] = spikeBuf[i + 1]
        BY <2>1, <3>3
      <4> QED BY <1>2, <3>1, <4>1, <4>3, <4>4
    <3> QED BY <3>2, <3>3
  <2> HIDE DEF Buffered
  <2> QED BY <1>2, <2>1, <2>4, <2>6 DEF AskInv
<1>5. CASE FindFiring
  <2>1. /\ phase = "fire" /\ phase' = "time" /\ train' = train /\ unread' = unread /\ spikeBuf' = spikeBuf
    BY <1>5 DEF FindFiring
  <2>2. PICK F : lastSpikeTime' = [n \in GenNeuron |-> IF n \in F THEN simTime ELSE lastSpikeTime[n]]
    BY <1>5 DEF FindFiring
  <2>3. simTime' = simTime
    BY <1>5, Movement DEF Unmoved
  <2>4. Now = simTime + 0 /\ Now' = simTime + 1 /\ simTime \in Nat
    BY <2>1, <2>3, Slices DEF Now, Begun
  <2>5. WindowEnd' = WindowEnd /\ First' = First
    <3>1. ~Schedule /\ ~StepBuffer
      BY <2>1 DEF Schedule, StepBuffer
    <3> QED BY <1>1, <3>1
  <2> HIDE DEF simTime, Now, WindowEnd, First
  <2>6. ASSUME NEW n \in GenNeuron PROVE lastSpikeTime'[n] = 0 \/ lastSpikeTime'[n] < Now'
    <3>1. lastSpikeTime[n] \in Nat
      BY DEF TypeOK
    <3>2. lastSpikeTime'[n] = simTime \/ lastSpikeTime'[n] = lastSpikeTime[n]
      BY <2>2
    <3> QED BY <1>2, <2>4, <3>1, <3>2
  <2>7. \A i : Buffered(i)' = Buffered(i)
    BY <2>1, <2>5 DEF Buffered
  <2> HIDE DEF Buffered
  <2> QED BY <1>2, <2>1, <2>5, <2>6, <2>7 DEF AskInv
<1>6. CASE ~Schedule /\ ~StepBuffer /\ ~FindFiring
  <2>1. /\ WindowEnd' = WindowEnd /\ First' = First /\ Now' = Now
        /\ train' = train /\ unread' = unread /\ spikeBuf' = spikeBuf /\ lastSpikeTime' = lastSpikeTime
    BY <1>1, <1>6 DEF genVars
  <2> HIDE DEF WindowEnd, First, Now
  <2>2. \A i : Buffered(i)' = Buffered(i)
    BY <2>1 DEF Buffered
  <2> HIDE DEF Buffered
  <2> QED BY <1>2, <2>1, <2>2 DEF AskInv
<1> QED BY <1>3, <1>4, <1>5, <1>6

(* No generator bits are being filled when the kernel starts.               *)
LEMMA BitsInit ==
  Init => BitsInv
BY DEF Init, BitsInv

(* No other partition comes in between when one has all generators.         *)
LEMMA BitsStep ==
  TypeOK /\ PastInv /\ RunInv /\ AskInv /\ BitsInv /\ [Next]_vars => BitsInv'
<1> SUFFICES ASSUME TypeOK, PastInv, RunInv, AskInv, BitsInv, [Next]_vars, OneHasAll
             PROVE  BitsInv'
  BY DEF BitsInv, OneHasAll
<1> DEFINE Goal(p) ==
             /\ phase' = "generate" /\ genPc'[p] # "done" => HasGenerator(p)
             /\ phase' = "generate" /\ genPc'[p] = "fill" => sharedBits' = {}
             /\ phase' = "generate" /\ genPc'[p] = "copy" => sharedBits' = DueBits'
             /\ HasGenerator(p) /\ (phase' = "fire" \/ (phase' = "generate" /\ genPc'[p] = "done"))
                  => spikeGenBits'[p] = DueBits'
<1> SUFFICES ASSUME NEW p \in Part PROVE Goal(p)
  BY DEF BitsInv, HasGenerator
<1>1. \A q \in Part :
        /\ phase = "generate" /\ genPc[q] # "done" => HasGenerator(q)
        /\ phase = "generate" /\ genPc[q] = "fill" => sharedBits = {}
        /\ phase = "generate" /\ genPc[q] = "copy" => sharedBits = DueBits
        /\ HasGenerator(q) /\ (phase = "fire" \/ (phase = "generate" /\ genPc[q] = "done"))
             => spikeGenBits[q] = DueBits
  BY DEF BitsInv
<1>2. \A q \in Part : HasGenerator(q) /\ HasGenerator(p) => q = p
  BY DEF HasGenerator, OneHasAll
<1>3. simTime' = simTime /\ train' = train => DueBits' = DueBits
  BY DEF DueBits
<1> HIDE DEF DueBits, HasGenerator, simTime, OneHasAll
<1>4. ASSUME phase' \notin {"generate", "fire"} PROVE Goal(p)
  BY <1>4
<1>5. CASE Schedule
  <2>1. genPc' = [q \in Part |-> IF HasGenerator(q) THEN "clear" ELSE "done"]
    BY <1>5 DEF Schedule, HasGenerator
  <2>2. phase' = "generate" /\ genPc'[p] = IF HasGenerator(p) THEN "clear" ELSE "done"
    BY <1>5, <2>1 DEF Schedule
  <2> QED BY <2>2
<1>6. ASSUME NEW q \in Part, ClearBits(q) PROVE Goal(p)
  <2>1. /\ phase = "generate" /\ phase' = phase /\ genPc[q] = "clear" /\ sharedBits' = {}
        /\ genPc' = [genPc EXCEPT ![q] = "fill"] /\ spikeGenBits' = spikeGenBits /\ train' = train
    BY <1>6 DEF ClearBits, bitsUnchanged, genVars
  <2>2. simTime' = simTime
    BY <1>6, Movement DEF Unmoved
  <2>3. genPc'[p] = IF p = q THEN "fill" ELSE genPc[p]
    BY <2>1 DEF TypeOK
  <2>4. HasGenerator(q)
    BY <1>1, <2>1
  <2>5. CASE p = q
    BY <2>1, <2>3, <2>4, <2>5
  <2>6. CASE p # q
    <3>1. ~HasGenerator(p) /\ genPc[p] = "done"
      BY <1>1, <1>2, <2>1, <2>4, <2>6
    <3> QED BY <2>3, <2>6, <3>1
  <2> QED BY <2>5, <2>6
<1>7. ASSUME NEW q \in Part, FillBits(q) PROVE Goal(p)
  <2>1. /\ phase = "generate" /\ phase' = phase /\ genPc[q] = "fill"
        /\ sharedBits' = sharedBits \union { Bit(n) : n \in spikeBuf[0] \cap NeuronsOf[q] }
        /\ genPc' = [genPc EXCEPT ![q] = "copy"] /\ spikeGenBits' = spikeGenBits /\ train' = train
    BY <1>7 DEF FillBits, bitsUnchanged, genVars
  <2>2. simTime' = simTime
    BY <1>7, Movement DEF Unmoved
  <2>3. genPc'[p] = IF p = q THEN "copy" ELSE genPc[p]
    BY <2>1 DEF TypeOK
  <2>4. HasGenerator(q) /\ sharedBits = {}
    BY <1>1, <2>1
  <2>5. spikeBuf[0] = { n \in GenNeuron : simTime \in train[n] }
    <3>1. 0 \in 0 .. MsPerSec /\ simTime \in Nat /\ WindowEnd \in Nat
      BY Slices
    <3>2. spikeBuf[0] = Buffered(0)
      BY <3>1 DEF AskInv
    <3>3. First = simTime + 0 /\ simTime < WindowEnd
      BY <2>1 DEF First, Stepped, Begun, RunInv, Running
    <3> HIDE DEF First, WindowEnd
    <3>4. First + 0 = simTime
      BY <3>1, <3>3
    <3> QED BY <3>2, <3>3, <3>4 DEF Buffered
  <2>6. spikeBuf[0] \cap NeuronsOf[q] = spikeBuf[0]
    <3>1. \A n \in GenNeuron : n \in Neuron /\ n[1] \in SpikeGen
      BY DEF GenNeuron
    <3>2. \A n \in GenNeuron : netId[n[1]] = q
      BY <2>4, <3>1 DEF HasGenerator, OneHasAll
    <3> QED BY <2>5, <3>1, <3>2 DEF NeuronsOf
  <2>7. sharedBits' = DueBits
    BY <2>1, <2>4, <2>5, <2>6 DEF DueBits
  <2>8. CASE p = q
    BY <1>3, <2>1, <2>2, <2>3, <2>4, <2>7, <2>8
  <2>9. CASE p # q
    <3>1. ~HasGenerator(p) /\ genPc[p] = "done"
      BY <1>1, <1>2, <2>1, <2>4, <2>9
    <3> QED BY <2>3, <2>9, <3>1
  <2> QED BY <2>8, <2>9
<1>8. ASSUME NEW q \in Part, CopyBits(q) PROVE Goal(p)
  <2>1. /\ phase = "generate" /\ phase' = phase /\ genPc[q] = "copy"
        /\ spikeGenBits' = [spikeGenBits EXCEPT ![q] = sharedBits]
        /\ genPc' = [genPc EXCEPT ![q] = "done"] /\ sharedBits' = sharedBits /\ train' = train
    BY <1>8 DEF CopyBits, bitsUnchanged, genVars
  <2>2. simTime' = simTime
    BY <1>8, Movement DEF Unmoved
  <2>3. /\ genPc'[p] = IF p = q THEN "done" ELSE genPc[p]
        /\ spikeGenBits'[p] = IF p = q THEN sharedBits ELSE spikeGenBits[p]
    BY <2>1 DEF TypeOK
  <2>4. HasGenerator(q) /\ sharedBits = DueBits
    BY <1>1, <2>1
  <2>5. CASE p = q
    BY <1>3, <2>1, <2>2, <2>3, <2>4, <2>5
  <2>6. CASE p # q
    <3>1. ~HasGenerator(p) /\ genPc[p] = "done"
      BY <1>1, <1>2, <2>1, <2>4, <2>6
    <3> QED BY <2>3, <2>6, <3>1
  <2> QED BY <2>5, <2>6
<1>9. CASE StepBuffer
  <2>1. /\ phase = "generate" /\ phase' = "fire" /\ genPc[p] = "done" /\ train' = train
        /\ spikeGenBits' = spikeGenBits
    BY <1>9 DEF StepBuffer, bitVars
  <2>2. simTime' = simTime
    BY <1>9, Movement DEF Unmoved
  <2> QED BY <1>1, <1>3, <2>1, <2>2
<1>10. CASE UNCHANGED vars
  <2>1. /\ phase' = phase /\ genPc' = genPc /\ sharedBits' = sharedBits /\ spikeGenBits' = spikeGenBits
        /\ train' = train
    BY <1>10 DEF vars, bitVars, genVars
  <2>2. simTime' = simTime
    BY <1>10 DEF vars, simTime
  <2> QED BY <1>1, <1>3, <2>1, <2>2
<1>11. Next => \/ phase' \notin {"generate", "fire"} \/ Schedule \/ StepBuffer
               \/ \E q \in Part : ClearBits(q) \/ FillBits(q) \/ CopyBits(q)
  <2> SUFFICES ASSUME Next, ~Schedule, ~StepBuffer,
                      ~(\E q \in Part : ClearBits(q) \/ FillBits(q) \/ CopyBits(q))
               PROVE  phase' \notin {"generate", "fire"}
    OBVIOUS
  <2> QED BY DEF Next, RunNetwork, FindFiring, UpdateTimingTable, RouteFork, ConvertRead, ConvertWrite,
             convertUnchanged, RouteJoin, DoCurrentUpdate, AdvanceTime, Continue, FinishSecond, FinishRun
<1> HIDE DEF Goal
<1> QED BY <1>4, <1>5, <1>6, <1>7, <1>8, <1>9, <1>10, <1>11

-----------------------------------------------------------------------------
(* The spikes of generators.                                                *)

(* A generator neuron is made to fire when it is due, and only then.        *)
LEMMA DueFire ==
  ASSUME TypeOK, BitsInv, OneHasAll, phase = "fire", NEW W \in SUBSET (Neuron \ GenNeuron),
         NEW n \in GenNeuron
  PROVE  n \in FiresNow(W) <=> simTime \in train[n]
<1> DEFINE p == netId[n[1]]
<1>1. n \in Neuron /\ n[1] \in SpikeGen /\ p \in Part
  BY NeuronFields DEF GenNeuron
<1>2. spikeGenBits[p] = DueBits
  BY <1>1 DEF BitsInv, HasGenerator
<1>3. n \in FiresNow(W) <=> Bit(n) \in DueBits
  BY <1>2 DEF FiresNow
<1>4. \A m \in GenNeuron : netId[m[1]] = p
  BY <1>1 DEF OneHasAll, GenNeuron
<1>5. \A m \in GenNeuron : Bit(m) = Bit(n) => m = n
  BY <1>4, BitInjective
<1> QED BY <1>3, <1>5 DEF DueBits

(* Crowded, by the history.                                                 *)
StartOf(c, t) == (t \div MsPerSec) * MsPerSec - IF c = D2 THEN maxDelay ELSE 0
Enough(F, p, c, t) ==
  Cardinality(SpikesIn(F, p, c, StartOf(c, t), t + 1)) >= maxSpikes[p][c] - 1

(* A table is crowded if there were enough spikes for it in its second.     *)
LEMMA CrowdedIn ==
  ASSUME NEW p \in Part, NEW c \in Class, NEW t \in Nat,
         fired \in SUBSET (Neuron \X Nat), fired' \in SUBSET (Neuron \X Nat)
  PROVE  /\ Crowded(p, c, t) <=> Enough(fired, p, c, t)
         /\ Crowded(p, c, t)' <=> Enough(fired', p, c, t)
<1> DEFINE start == StartOf(c, t)
<1>1. ASSUME NEW F \in SUBSET (Neuron \X Nat)
      PROVE  { s \in { x \in F : x[1] \in Carried(p, c) } : start <= s[2] /\ s[2] <= t }
               = SpikesIn(F, p, c, start, t + 1)
  <2>1. \A s \in F : s[2] \in Nat
    OBVIOUS
  <2> HIDE DEF start
  <2>2. \A s \in F : s[2] <= t <=> s[2] < t + 1
    BY <2>1
  <2> QED BY <2>2 DEF SpikesIn
<1>2. InTable(p, c) = { x \in fired : x[1] \in Carried(p, c) }
  BY DEF InTable, Carried
<1>3. InTable(p, c)' = { x \in fired' : x[1] \in Carried(p, c) }
  BY DEF InTable, Carried
<1>4. Crowded(p, c, t) <=>
        Cardinality({ s \in InTable(p, c) : start <= s[2] /\ s[2] <= t }) >= maxSpikes[p][c] - 1
  BY DEF Crowded, StartOf
<1>5. Crowded(p, c, t)' <=>
        Cardinality({ s \in InTable(p, c)' : start <= s[2] /\ s[2] <= t }) >= maxSpikes[p][c] - 1
  BY DEF Crowded, StartOf
<1> HIDE DEF Crowded, InTable, SpikesIn
<1> QED BY <1>1, <1>2, <1>3, <1>4, <1>5 DEF Enough

(* The milliseconds of this second, and those that are kept of the last.    *)
LEMMA StartTypes ==
  ASSUME NEW c \in Class, NEW t \in Nat
  PROVE  StartOf(c, t) \in Int /\ StartOf(c, t) <= t + 1
<1>1. MsPerSec \in Nat \ {0} /\ maxDelay \in Nat
  BY PartitionTypes
<1>2. \A x \in Nat, d \in Nat \ {0} :
        x = d * (x \div d) + (x % d) /\ x % d \in 0 .. d - 1 /\ x \div d \in Nat
  BY SMT
<1>3. PICK q \in Nat, r \in Nat : t = MsPerSec * q + r /\ q = t \div MsPerSec
  <2>1. /\ t = MsPerSec * (t \div MsPerSec) + (t % MsPerSec)
        /\ t % MsPerSec \in 0 .. MsPerSec - 1 /\ t \div MsPerSec \in Nat
    BY <1>1, <1>2
  <2>2. t % MsPerSec \in Nat
    BY <1>1, <2>1
  <2> QED BY <2>1, <2>2
<1>4. PICK u \in Nat : u = q * MsPerSec /\ u = MsPerSec * q
  BY <1>1, SMT
<1>5. StartOf(c, t) = u - IF c = D2 THEN maxDelay ELSE 0
  BY <1>3, <1>4 DEF StartOf
<1> HIDE DEF StartOf
<1> QED BY <1>1, <1>3, <1>4, <1>5

(* What was crowded remains so, since the history grows.                    *)
LEMMA CrowdedStays ==
  ASSUME NEW p \in Part, NEW c \in Class, NEW t \in Nat, fired \subseteq fired',
         fired' \in SUBSET (Neuron \X Nat), Crowded(p, c, t)
  PROVE  Crowded(p, c, t)'
<1> DEFINE A == SpikesIn(fired, p, c, StartOf(c, t), t + 1)
           B == SpikesIn(fired', p, c, StartOf(c, t), t + 1)
<1>1. A \subseteq B
  BY DEF SpikesIn
<1>2. StartOf(c, t) \in Int /\ t + 1 \in Int /\ StartOf(c, t) <= t + 1
  BY StartTypes
<1>3. fired \in SUBSET (Neuron \X Nat)
  OBVIOUS
<1>4. IsFiniteSet(B) /\ Cardinality(B) \in Nat /\ Cardinality(A) \in Nat
  <2> HIDE DEF StartOf
  <2> QED BY <1>2, <1>3, SpikesCountedIn
<1>5. maxSpikes[p][c] \in Nat
  BY SlotBounds
<1>6. Enough(fired, p, c, t)
  BY <1>3, CrowdedIn
<1> HIDE DEF A, B
<1>7. Cardinality(A) <= Cardinality(B)
  BY <1>1, <1>4, FS_Subset
<1>8. Cardinality(A) >= maxSpikes[p][c] - 1
  BY <1>6 DEF Enough, A
<1>9. Cardinality(B) >= maxSpikes[p][c] - 1
  BY <1>4, <1>5, <1>7, <1>8
<1>10. Enough(fired', p, c, t)
  BY <1>9 DEF Enough, B
<1> QED BY <1>3, <1>10, CrowdedIn

(* A spike is only dropped if the table is crowded with those of the second *)
(* and what was left of the one before.                                     *)
LEMMA DroppedCrowds ==
  ASSUME TypeOK, PastInv, SizeInv, RoutesOnce, phase = "fire",
         NEW F \in SUBSET Neuron, fired' = fired \union { <<m, simTime>> : m \in { l \in F : HasSpace(F, l) } },
         fired' \in SUBSET (Neuron \X Nat),
         NEW n \in F, ~HasSpace(F, n), NEW t \in Nat, t = simTime
  PROVE  Crowded(netId[n[1]], ClassOf[n[1]], t)'
<1> DEFINE p == netId[n[1]]
           c == ClassOf[n[1]]
           S == FiringOf(F, p, c)
           f == ByLocalId(F, p, c)
           N == WithRoom(F, p, c)
           a == StartOf(c, t)
           A == SpikesIn(fired, p, c, a, t)
           B == SpikesIn(fired', p, c, a, t)
           C == SpikesIn(fired', p, c, a, t + 1)
<1>1. p \in Part /\ c \in Class /\ n \in S /\ S \in SUBSET Neuron /\ N \in SUBSET S
  <2>1. p \in Part /\ n[1] \in Group
    BY NeuronFields
  <2>2. c \in Class
    BY <2>1, PartitionTypes
  <2>3. n \in S /\ S \in SUBSET Neuron /\ N \in SUBSET S
    BY DEF FiringOf, WithRoom
  <2> QED BY <2>1, <2>2, <2>3
<1>2. /\ \A m \in S : fireId(F, m) = Logged(p, c) + Below(S, f, m)
      /\ Numbered(S, f, S) /\ Numbered(S, f, N)
  BY <1>1, LoggedInOrder
<1>3. \A m \in S : m \in N <=> fireId(F, m) + 1 < maxSpikes[p][c]
  BY DEF FiringOf, WithRoom, HasSpace
<1>4. Logged(p, c) \in Int /\ maxSpikes[p][c] \in Nat /\ n \notin N
  BY <1>1, SizeTypes, SlotBounds DEF WithRoom
<1>5. IsFiniteSet(S) /\ Cardinality(S) \in Nat /\ IsFiniteSet(N) /\ Cardinality(N) \in Nat
      /\ Cardinality(N) <= Cardinality(S) /\ (Cardinality(N) = Cardinality(S) => N = S)
  <2> HIDE DEF S, N
  <2>1. IsFiniteSet(S) /\ Cardinality(S) \in Nat
    BY <1>1, NeuronsCounted
  <2> QED BY <1>1, <2>1, FS_Subset, FS_CardinalityType
<1> HIDE DEF S, f, N
<1>6. Logged(p, c) + Cardinality(N) >= maxSpikes[p][c] - 1
  <2> SUFFICES ASSUME Logged(p, c) + Cardinality(N) < maxSpikes[p][c] - 1 PROVE FALSE
    BY <1>4, <1>5
  <2>1. Cardinality(N) < Cardinality(S)
    BY <1>1, <1>4, <1>5
  <2>2. PICK m \in S : Below(S, f, m) = Cardinality(N)
    BY <1>2, <1>5, <2>1 DEF Numbered
  <2>3. fireId(F, m) = Logged(p, c) + Cardinality(N)
    BY <1>2, <2>2
  <2>4. fireId(F, m) + 1 < maxSpikes[p][c]
    BY <1>4, <1>5, <2>3
  <2>5. m \in N
    BY <1>3, <2>4
  <2>6. Cardinality(N) < Cardinality(N)
    BY <1>2, <2>2, <2>5 DEF Numbered
  <2> QED BY <1>5, <2>6
<1>7. a \in Int /\ a <= t /\ a = Base + FirstOf(c) - maxDelay /\ t = Base + Cur - maxDelay
      /\ Done = Cur /\ FirstOf(c) \in FirstOf(c) .. Done /\ Cur \in FirstOf(c) .. Done /\ FirstOf(c) <= Cur
  <2>1. Base = secondStart /\ Done = Cur /\ ~Begun
    BY WhereIs DEF WhereFacts, Standing
  <2>2. Base + Cur - maxDelay = simTime
    BY <2>1, Clock
  <2>3. t \div MsPerSec = simTimeSec
    <3>1. simTimeSec \in Nat /\ simTimeMs \in Nat /\ MsPerSec \in Nat \ {0} /\ simTimeMs < MsPerSec
      BY PartitionTypes DEF TypeOK
    <3>2. (simTimeSec * MsPerSec + simTimeMs) \div MsPerSec = simTimeSec
      BY <3>1, SecondOf
    <3> QED BY <3>2 DEF simTime
  <2>4. a = secondStart - IF c = D2 THEN maxDelay ELSE 0
    BY <2>3 DEF StartOf, secondStart
  <2>5. FirstOf(c) = IF c = D1 THEN maxDelay ELSE 0
    BY DEF FirstOf
  <2>6. (c = D1 \/ c = D2) /\ D1 # D2
    BY <1>1 DEF Class, D1, D2
  <2>7. /\ FirstOf(c) \in Nat /\ FirstOf(c) <= Done /\ Done \in Nat /\ Cur \in Nat /\ Base \in Int
        /\ maxDelay \in Nat
    BY <1>1, SizeTypes
  <2>8. secondStart \in Nat /\ simTime = secondStart + simTimeMs /\ simTimeMs \in Nat
    BY Clock
  <2> HIDE DEF a, FirstOf, Base, Cur, Done, secondStart, simTime, c
  <2>9. a = Base + FirstOf(c) - maxDelay
    BY <2>1, <2>4, <2>5, <2>6, <2>7, <2>8
  <2>10. a \in Int /\ a <= t
    BY <2>4, <2>7, <2>8
  <2> QED BY <2>1, <2>2, <2>7, <2>9, <2>10
<1>8. Logged(p, c) <= Cardinality(A)
  <2>1. Sized(p, c)
    BY <1>1 DEF SizeInv
  <2>2. Ahead(p, c) = 0
    BY DEF Ahead
  <2>3. timeTable[p][c][FirstOf(c)] = 0 /\ Logged(p, c) <= timeTable[p][c][Cur] + 0
    BY <2>1, <2>2 DEF Sized
  <2>4. Bounded(timeTable[p][c], fired, p, c, Base, Done)
    BY <2>1 DEF Sized
  <2> HIDE DEF FirstOf, Base, Cur, Done, a, A, c
  <2>5. timeTable[p][c][Cur] - timeTable[p][c][FirstOf(c)]
          <= Cardinality(SpikesIn(fired, p, c, Base + FirstOf(c) - maxDelay, Base + Cur - maxDelay))
    BY <1>7, <2>4 DEF Bounded
  <2>6. A = SpikesIn(fired, p, c, Base + FirstOf(c) - maxDelay, Base + Cur - maxDelay)
    BY <1>7 DEF A
  <2>7. timeTable[p][c][Cur] \in Int
    <3>1. Cur \in FirstOf(c) .. MsPerSec + maxDelay
      BY <1>1, <1>7, SizeTypes
    <3> QED BY <1>1, <3>1, SizeTypes
  <2>8. Cardinality(A) \in Nat
    <3>1. fired \in SUBSET (Neuron \X Nat)
      BY DEF TypeOK
    <3> QED BY <1>7, <3>1, SpikesCountedIn DEF A
  <2> QED BY <1>4, <2>3, <2>5, <2>6, <2>7, <2>8
<1>9. N \in SUBSET SpikesAt(fired', p, c, t)
  <2> SUFFICES ASSUME NEW m \in N PROVE m \in SpikesAt(fired', p, c, t)
    OBVIOUS
  <2>1. m \in F /\ netId[m[1]] = p /\ ClassOf[m[1]] = c /\ HasSpace(F, m)
    BY DEF N, WithRoom, FiringOf
  <2>2. <<m, t>> \in fired' /\ m \in Neuron
    BY <2>1
  <2>3. m[1] \in groupPartitionList[p]
    BY <2>1, <2>2, NeuronFields DEF groupPartitionList
  <2>4. m \in Carried(p, c)
    BY <2>1, <2>2, <2>3 DEF Carried
  <2> QED BY <2>2, <2>4 DEF SpikesAt
<1>10. Cardinality(A) \in Nat /\ Cardinality(B) \in Nat /\ IsFiniteSet(B) /\ Cardinality(C) \in Nat
  <2>1. fired \in SUBSET (Neuron \X Nat) /\ t \in Int /\ t + 1 \in Int /\ a <= t + 1
    <3> HIDE DEF a
    <3> QED BY <1>7 DEF TypeOK
  <2> HIDE DEF a, c
  <2> QED BY <1>7, <2>1, SpikesCountedIn
<1>11. Cardinality(A) <= Cardinality(B)
  <2>1. A \subseteq B
    BY DEF SpikesIn
  <2> HIDE DEF A, B
  <2> QED BY <1>10, <2>1, FS_Subset
<1>12. Cardinality(B) + Cardinality(N) <= Cardinality(C)
  <2> HIDE DEF a, c, N
  <2>1. t \in Int
    OBVIOUS
  <2> QED BY <1>1, <1>7, <1>9, <2>1, SpikesSplit
<1>13. Cardinality(C) >= maxSpikes[p][c] - 1
  <2> HIDE DEF A, B, C, N, c, p
  <2> QED BY <1>4, <1>5, <1>6, <1>8, <1>10, <1>11, <1>12
<1>14. Enough(fired', p, c, t)
  BY <1>13 DEF Enough
<1>15. fired \in SUBSET (Neuron \X Nat)
  BY DEF TypeOK
<1> HIDE DEF p, c
<1>16. Crowded(p, c, t)'
  BY <1>1, <1>14, <1>15, CrowdedIn
<1> QED BY <1>16 DEF p, c

(* No generator has had to fire when the kernel starts.                     *)
LEMMA TrainInit ==
  Init => TrainInv
<1> SUFFICES ASSUME Init PROVE TrainInv
  OBVIOUS
<1>1. phase = "idle" /\ fired = {} /\ simTimeMs = 0 /\ simTimeSec = 0
  BY DEF Init
<1>2. simTime = 0
  <2>1. 0 * MsPerSec = 0
    BY PartitionTypes, SMT
  <2> QED BY <1>1, <2>1 DEF simTime
<1>3. Now = simTime + 0
  BY <1>1 DEF Now, Begun
<1> HIDE DEF Now, simTime
<1>4. \A t \in Nat : ~(t < Now)
  BY <1>2, <1>3
<1> QED BY <1>4 DEF TrainInv

(* In the millisecond in which they are to fire they do, or there is no     *)
(* room.                                                                    *)
LEMMA TrainStep ==
  TypeOK /\ PastInv /\ SizeInv /\ RunInv /\ BitsInv /\ TrainInv /\ [Next]_vars => TrainInv'
<1> SUFFICES ASSUME TypeOK, PastInv, SizeInv, RunInv, BitsInv, TrainInv, [Next]_vars,
                    RoutesOnce, OneHasAll
             PROVE  TrainInv'
  BY DEF TrainInv, OneHasAll
<1>1. \A n \in GenNeuron, t \in Nat :
        t < Now =>
          /\ <<n, t>> \in fired => t \in train[n]
          /\ t \in train[n] => <<n, t>> \in fired \/ Crowded(netId[n[1]], ClassOf[n[1]], t)
  BY DEF TrainInv
<1>2. TypeOK'
  BY TypesStep
<1>3. fired \in SUBSET (Neuron \X Nat) /\ fired' \in SUBSET (Neuron \X Nat)
  BY <1>2 DEF TypeOK
<1>4. \A n \in GenNeuron : n \in Neuron /\ netId[n[1]] \in Part /\ ClassOf[n[1]] \in Class
  <2> SUFFICES ASSUME NEW n \in GenNeuron
               PROVE  n \in Neuron /\ netId[n[1]] \in Part /\ ClassOf[n[1]] \in Class
    OBVIOUS
  <2>1. n \in Neuron
    BY DEF GenNeuron
  <2> QED BY <2>1, NeuronFields, PartitionTypes
<1> HIDE DEF Now, simTime
<1>5. CASE FindFiring
  <2>1. phase = "fire" /\ phase' = "time" /\ train' = train
    BY <1>5 DEF FindFiring
  <2>2. PICK W \in SUBSET (Neuron \ GenNeuron) :
          LET F == FiresNow(W)
              L == { n \in F : HasSpace(F, n) }
          IN  fired' = fired \union { <<n, simTime>> : n \in L }
    BY <1>5 DEF FindFiring
  <2> DEFINE F == FiresNow(W)
  <2>3. fired' = fired \union { <<n, simTime>> : n \in { l \in F : HasSpace(F, l) } }
    BY <2>2
  <2>4. F \in SUBSET Neuron
    BY DEF FiresNow, GenNeuron
  <2>5. \A n \in GenNeuron : n \in F <=> simTime \in train[n]
    BY <2>1, DueFire
  <2>6. Now = simTime /\ Now' = simTime + 1 /\ simTime \in Nat
    <3>1. simTime' = simTime /\ simTime \in Nat
      BY <1>5, Movement, Slices DEF Unmoved
    <3>2. Now = simTime + 0 /\ Now' = simTime' + 1
      BY <2>1 DEF Now, Begun
    <3> QED BY <3>1, <3>2
  <2> HIDE DEF F
  <2>7. ASSUME NEW n \in GenNeuron, NEW t \in Nat, t < Now
        PROVE  /\ <<n, t>> \in fired' => t \in train'[n]
               /\ t \in train'[n] => <<n, t>> \in fired' \/ Crowded(netId[n[1]], ClassOf[n[1]], t)'
    <3>1. <<n, t>> \in fired' <=> <<n, t>> \in fired
      <4>1. t # simTime
        BY <2>6, <2>7
      <4> QED BY <2>3, <4>1
    <3>2. Crowded(netId[n[1]], ClassOf[n[1]], t) => Crowded(netId[n[1]], ClassOf[n[1]], t)'
      <4> DEFINE p == netId[n[1]]
                 c == ClassOf[n[1]]
      <4>1. p \in Part /\ c \in Class /\ fired \subseteq fired'
        BY <1>4, <2>3
      <4> HIDE DEF p, c, Crowded
      <4>2. Crowded(p, c, t) => Crowded(p, c, t)'
        BY <1>3, <4>1, CrowdedStays
      <4> QED BY <4>2 DEF p, c
    <3> HIDE DEF Crowded
    <3> QED BY <1>1, <2>1, <2>7, <3>1, <3>2
  <2>8. ASSUME NEW n \in GenNeuron, NEW t \in Nat, t = simTime
        PROVE  /\ <<n, t>> \in fired' => t \in train'[n]
               /\ t \in train'[n] => <<n, t>> \in fired' \/ Crowded(netId[n[1]], ClassOf[n[1]], t)'
    <3>1. <<n, t>> \notin fired
      <4>1. \A s \in fired : s[2] < simTime
        BY <2>6 DEF PastInv
      <4>2. <<n, t>>[2] = simTime
        BY <2>8
      <4>3. ~(simTime < simTime)
        BY <2>6
      <4> QED BY <4>1, <4>2, <4>3
    <3>2. <<n, t>> \in fired' <=> n \in F /\ HasSpace(F, n)
      <4> HIDE DEF HasSpace
      <4> QED BY <2>3, <2>8, <3>1
    <3>3. n \in F /\ ~HasSpace(F, n) => Crowded(netId[n[1]], ClassOf[n[1]], t)'
      <4> HIDE DEF HasSpace, Crowded
      <4> QED BY <1>3, <2>1, <2>3, <2>4, <2>8, DroppedCrowds
    <3> HIDE DEF Crowded, HasSpace
    <3> QED BY <2>1, <2>5, <2>8, <3>2, <3>3
  <2>9. \A t \in Nat : t < Now' => t < Now \/ t = simTime
    BY <2>6
  <2> HIDE DEF Crowded
  <2> QED BY <2>7, <2>8, <2>9 DEF TrainInv
<1>6. CASE ~FindFiring
  <2>1. Now' = Now
    BY <1>6, Onward
  <2>2. fired' = fired /\ train' = train
    <3>1. CASE UNCHANGED vars
      BY <3>1 DEF vars, genVars
    <3>2. CASE Next
      BY <1>6, <3>2 DEF Next, RunNetwork, Schedule, ClearBits, FillBits, CopyBits, bitsUnchanged, genVars,
         StepBuffer, UpdateTimingTable, RouteFork, ConvertRead, ConvertWrite, convertUnchanged,
         RouteJoin, DoCurrentUpdate, AdvanceTime, FinishSecond, FinishRun
    <3> QED BY <3>1, <3>2
  <2>3. \A p \in Part, c \in Class, t \in Nat : Crowded(p, c, t)' <=> Crowded(p, c, t)
    BY <2>2 DEF Crowded, InTable
  <2> HIDE DEF Crowded
  <2> QED BY <1>1, <1>4, <2>1, <2>2, <2>3 DEF TrainInv
<1> QED BY <1>5, <1>6

(* What the spikes of generators rest on, with them.                        *)
GeneratorInvs == TypeOK /\ PastInv /\ ExtInv /\ SizeInv /\ RunInv /\ AskInv /\ BitsInv /\ TrainInv

(* Spike generators fire when they should, for all trains and however the   *)
(* calls of runNetwork, the time slices and the seconds fall, if they are   *)
(* in one partition and each spike is routed once.                          *)
THEOREM GeneratorsRight == Spec => []GeneratorsOnTime
<1>1. Init => GeneratorInvs
  BY TypesInit, PastInit, ExtInit, SizeInit, RunInit, AskInit, BitsInit, TrainInit DEF GeneratorInvs
<1>2. GeneratorInvs /\ [Next]_vars => GeneratorInvs'
  <2> HIDE DEF TypeOK, PastInv, ExtInv, SizeInv, RunInv, AskInv, BitsInv, TrainInv
  <2> QED BY TypesStep, PastStep, ExtStep, SizeStep, RunStep, AskStep, BitsStep, TrainStep DEF GeneratorInvs
<1>3. GeneratorInvs => GeneratorsOnTime
  <2> SUFFICES ASSUME GeneratorInvs, phase = "idle", RoutesOnce, OneHasAll,
                      NEW n \in GenNeuron, NEW t \in Time, t < simTime
               PROVE  /\ <<n, t>> \in fired => t \in train[n]
                      /\ t \in train[n] => \/ <<n, t>> \in fired
                                           \/ Crowded(netId[n[1]], ClassOf[n[1]], t)
    BY DEF GeneratorsOnTime, OneHasAll
  <2>1. Now = simTime + 0 /\ simTime \in Nat /\ t \in Nat
    BY Clock, KernelAssumption DEF Now, Begun, GeneratorInvs, Time
  <2>2. t < Now
    <3> HIDE DEF Now, simTime
    <3> QED BY <2>1
  <2>3. TrainInv
    BY DEF GeneratorInvs
  <2> HIDE DEF Crowded, Now
  <2> QED BY <2>1, <2>2, <2>3 DEF TrainInv
<1> HIDE DEF GeneratorInvs
<1> QED
  BY <1>1, <1>2, <1>3, PTL DEF Spec
==============================================================================
