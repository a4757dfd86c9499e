----------------------------- MODULE SNNPartition -----------------------------
(***************************************************************************)
(* How CARLsim cuts an application into local networks (partitions), one   *)
(* per processor core: which groups each of them knows, the global and the *)
(* local ids of the neurons, and the table by which spikes are routed      *)
(* between them.  None of this changes once the network was set up.        *)
(***************************************************************************)
EXTENDS Integers, FiniteSets

CONSTANTS
  Part,        \* the net ids in use
  Group,       \* global group ids
  netId,       \* of each group: the partition it was assigned to
  numN,        \* of each group: its neurons
  SpikeGen,    \* the groups driven by a spike generator
  Connection,  \* connection ids, the keys of connectConfigMap
  grpSrc, grpDest, delay   \* of each connection

ASSUME PartitionAssumption ==
  /\ Part \subseteq Nat /\ IsFiniteSet(Part)
  /\ Group \subseteq Nat /\ IsFiniteSet(Group)
  /\ netId \in [Group -> Part]
  /\ numN \in [Group -> Nat \ {0}]
  /\ SpikeGen \subseteq Group
  /\ Connection \subseteq Nat /\ IsFiniteSet(Connection) /\ Connection # {}
  /\ grpSrc \in [Connection -> Group]
  /\ grpDest \in [Connection -> Group]
  /\ delay \in [Connection -> Nat \ {0}]

Neuron == UNION { {g} \X (0 .. numN[g] - 1) : g \in Group }

(* So it is, of finitely many groups with finitely many neurons each.       *)
ASSUME NeuronAssumption == IsFiniteSet(Neuron)

NeuronsOf == [p \in Part |-> { n \in Neuron : netId[n[1]] = p }]

-----------------------------------------------------------------------------
(* compileGroupConfig: the largest delay of what leaves a group decides for *)
(* all its spikes which of the two firing tables they go to.                *)
D1 == 1
D2 == 2
Class == {D1, D2}
MaxDelayIsOne(g) == \A c \in Connection : grpSrc[c] = g => delay[c] <= 1
ClassOf == [g \in Group |-> IF MaxDelayIsOne(g) THEN D1 ELSE D2]

(* glbNetworkConfig.maxDelay *)
maxDelay ==
  CHOOSE d \in { delay[c] : c \in Connection } : \A c \in Connection : delay[c] <= d

(* A connection carries all neurons of its source to all of its target.     *)
Synapse == { s \in Neuron \X Connection : grpSrc[s[2]] = s[1][1] }

-----------------------------------------------------------------------------
(* partitionSNN: the groups of a partition, and those its own are connected *)
(* with across its border.                                                  *)
External(c) == netId[grpSrc[c]] # netId[grpDest[c]]
hasExternalConnect ==
  [g \in Group |-> \E c \in Connection : External(c) /\ grpSrc[c] = g]

groupPartitionList == [p \in Part |->
  { g \in Group :
      \/ netId[g] = p
      \/ \E c \in Connection :
           /\ External(c)
           /\ \/ grpSrc[c] = g /\ netId[grpDest[c]] = p
              \/ grpDest[c] = g /\ netId[grpSrc[c]] = p }]

(* Neuron ids are given out group by group: regular ones, generators, and   *)
(* in a partition last the external ones.  Excitatory and inhibitory groups *)
(* are not told apart, and external groups are ordered by their ids, not by *)
(* the connection they were found with.                                     *)
Order(p, g) == IF netId[g] # p THEN 2 ELSE IF g \in SpikeGen THEN 1 ELSE 0
LocalBefore(p, g, h) == Order(p, g) < Order(p, h) \/ (Order(p, g) = Order(p, h) /\ g < h)
GlobalBefore(g, h) ==
  \/ g \notin SpikeGen /\ h \in SpikeGen
  \/ (g \in SpikeGen <=> h \in SpikeGen) /\ g < h

lStartN == [p \in Part |-> [g \in Group |->
  Cardinality({ n \in Neuron :
                  n[1] \in groupPartitionList[p] /\ LocalBefore(p, n[1], g) })]]
gStartN == [g \in Group |-> Cardinality({ n \in Neuron : GlobalBefore(n[1], g) })]

LtoGOffset(p, g) == gStartN[g] - lStartN[p][g]
GtoLOffset(p, g) == lStartN[p][g] - gStartN[g]
lNId == [p \in Part |-> [n \in Neuron |-> lStartN[p][n[1]] + n[2]]]

(* The routing table has an entry for the partitions of each external       *)
(* connection, in the order of the source and then of the connection; only  *)
(* an entry equal to the one right before it is taken out again.  An entry  *)
(* is named by its connection.                                              *)
RouteBefore(c, d) ==
  \/ netId[grpSrc[c]] < netId[grpSrc[d]]
  \/ netId[grpSrc[c]] = netId[grpSrc[d]] /\ c < d

SameEnds(c, d) ==
  netId[grpSrc[c]] = netId[grpSrc[d]] /\ netId[grpDest[c]] = netId[grpDest[d]]

spikeRoutingTable ==
  { c \in Connection :
      /\ External(c)
      /\ ~\E d \in Connection :
            /\ External(d) /\ RouteBefore(d, c) /\ SameEnds(d, c)
            /\ ~\E e \in Connection :
                  External(e) /\ RouteBefore(d, e) /\ RouteBefore(e, c) }

-----------------------------------------------------------------------------
(* Two conditions on the application that the code does not check: no two   *)
(* entries of the routing table are equal, and no two groups that send      *)
(* spikes of one class from one partition to the same other one.            *)
RoutesOnce ==
  \A c, d \in spikeRoutingTable : SameEnds(c, d) => c = d

Exclusive ==
  \A p, q \in Part : \A g, h \in groupPartitionList[p] \cap groupPartitionList[q] :
    /\ p # q /\ netId[g] = p /\ netId[h] = p
    /\ hasExternalConnect[g] /\ hasExternalConnect[h]
    /\ ClassOf[g] = ClassOf[h]
    => g = h
=============================================================================
