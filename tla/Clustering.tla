------------------------------ MODULE Clustering ------------------------------
(***************************************************************************)
(* The partitioner's second step: the inputs of each original neuron are   *)
(* packed into crossbars of limited size, a chunk at a time, and the       *)
(* clusters that are not connected are connected by added neurons          *)
(* (Clusters::minClusters, minComm, random, connectedComponents).          *)
(***************************************************************************)
EXTENDS Unroll

CONSTANTS
  CrossbarSizes,   \* values of --cluster-crossbar-size to choose from
  Modes            \* values of --clustering-algo to choose from

(* With crossbars of size one, connecting never ends. *)
ASSUME ClusteringAssumption ==
  /\ CrossbarSizes \subseteq Nat \ {0, 1}
  /\ Modes \subseteq {"min-clusters", "min-comm", "random"}

VARIABLES
  mode,            \* --clustering-algo
  crossbar_size,   \* Clusters::CROSSBAR_SIZE
  clusters,        \* Clusters::clusters, from 1
  todo,            \* the original neurons the loop has not come to
  cur,             \* cur_neuron_idx
  pending,         \* non_unrolled_inputs
  left,            \* the clusters still to be tried for them
  phase,           \* "pack", "connect", "done"
  to_connect,      \* neurons_to_connect
  num_new          \* num_new_neurons

packVars    == <<clusters, cur, pending, left>>
connectVars == <<phase, to_connect, num_new>>
vars == <<unrollVars, mode, crossbar_size, packVars, todo, connectVars>>

NoCluster == [inputs |-> {}, outputs |-> {}]
Cid == DOMAIN clusters
Smallest(S) == CHOOSE x \in S : \A y \in S : x <= y

MIN_FANIN == IF max_fanin = INVALID_FANIN THEN crossbar_size ELSE max_fanin

(* minComm and random begin with one empty cluster. *)
Init ==
  /\ UnrollInit
  /\ mode \in Modes
  /\ crossbar_size \in { s \in CrossbarSizes : max_fanin <= s }
  /\ clusters = IF mode = "min-clusters" THEN <<>> ELSE <<NoCluster>>
  /\ todo = Neuron
  /\ cur = 0
  /\ pending = <<>>
  /\ left = {}
  /\ phase = "pack"
  /\ to_connect = <<>>
  /\ num_new = 0

-----------------------------------------------------------------------------
(* The loop over the neurons, and what there is to pack for each *)

(* Slip: of neurons with equally many spikes none comes first.              *)
MayBeNext_NoTies(n) ==
  /\ n \in todo
  /\ \A m \in todo \ {n} : IF mode = "min-comm" THEN usnn[m].num_spikes < usnn[n].num_spikes
                                               ELSE n < m

(* The order of the neurons: their numbers, or the most spikes first, where *)
(* std::sort leaves the order of equal ones open.  Intermediate neurons are *)
(* passed over.                                                             *)
MayBeNext(n) ==
  /\ n \in todo
  /\ \A m \in todo : IF mode = "min-comm" THEN usnn[m].num_spikes <= usnn[n].num_spikes
                                         ELSE n <= m

(* Link k of the chain of n; the one after the intermediate neurons is n.   *)
Link(n, k) == IF k \in DOMAIN usnn[n].children THEN usnn[n].children[k] ELSE n

(* Where the inputs before unrolling are: the place j in the list of link k *)
(* of those that are not intermediate neurons.                              *)
RawPlaces(n) ==
  UNION { { <<k, j>> : j \in { i \in DOMAIN usnn[Link(n, k)].inputs :
                                 usnn[Link(n, k)].inputs[i] \notin Chain(n) } } :
          k \in 1 .. Len(usnn[n].children) + 1 }

NotAfter(p, q) == p[1] < q[1] \/ (p[1] = q[1] /\ p[2] <= q[2])

RawInput(n, p) == usnn[Link(n, p[1])].inputs[p[2]]

(* The inputs before unrolling, from the first link of the chain to n; of a *)
(* neuron without a chain not more than fit into a crossbar.                *)
InputsToPack(n) ==
  IF usnn[n].children = <<>>
  THEN LET ins == usnn[n].inputs
       IN  SubSeq(ins, 1, IF Len(ins) < crossbar_size THEN Len(ins) ELSE crossbar_size)
  ELSE LET at == RawPlaces(n)
       IN  [i \in 1 .. Cardinality(at) |->
              RawInput(n, CHOOSE p \in at : Cardinality({ q \in at : NotAfter(q, p) }) = i)]

(* input_to_output_map: the link that takes the raw input a of n. *)
Outs(n, a) == { m \in Chain(n) \union {n} : a \in Elements(usnn[m].inputs) \ Chain(n) }

StartNeuron(n) ==
  /\ phase = "pack"
  /\ idx = NumNeurons
  /\ pending = <<>>
  /\ MayBeNext(n)
  /\ todo' = todo \ {n}
  /\ cur' = n
  /\ pending' = InputsToPack(n)
  /\ left' = Cid
  /\ UNCHANGED <<unrollVars, mode, crossbar_size, clusters, connectVars>>

-----------------------------------------------------------------------------
(* Cluster::canBePacked, Clusters::numCanBePacked and packToCluster *)

(* Slip: the output column is not counted.                                  *)
Fits_AnyOutputs(c, j) ==
  Cardinality(c.inputs \union { pending[i] : i \in 1 .. j }) <= crossbar_size

(* The first j pending inputs fit into cluster c: those it has already cost *)
(* nothing.                                                                 *)
Fits(c, j) ==
  /\ Cardinality(c.inputs)
       + Cardinality({ i \in 1 .. j : pending[i] \notin c.inputs }) <= crossbar_size
  /\ Cardinality(c.outputs) < crossbar_size

NumCanBePacked(c) == Cardinality({ j \in DOMAIN pending : Fits(c, j) })

(* Slip: any number of inputs is worth a place in a crossbar.               *)
CanPack_Any(c) == NumCanBePacked(c) > 0

(* Chunks of at least MIN_FANIN inputs, or all there are. *)
CanPack(c) ==
  IF Len(pending) >= MIN_FANIN THEN NumCanBePacked(c) >= MIN_FANIN
                               ELSE NumCanBePacked(c) = Len(pending)

(* Slip: every chunk computes the neuron itself.                            *)
ChunkOutput_Cur(c) == cur

(* The output of the chunk is the link its last input goes to. *)
ChunkOutput(c) == CHOOSE m \in Outs(cur, pending[NumCanBePacked(c)]) : TRUE

Packed(c) ==
  [inputs  |-> c.inputs \union { pending[j] : j \in 1 .. NumCanBePacked(c) },
   outputs |-> c.outputs \union {ChunkOutput(c)}]

(* Slip: the link that is now computed is not put back as an input.         *)
Rest_Dropped(c) == SubSeq(pending, NumCanBePacked(c) + 1, Len(pending))

(* An intermediate link that a chunk computes is an input of the next one. *)
Rest(c) ==
  (IF ChunkOutput(c) = cur THEN <<>> ELSE <<ChunkOutput(c)>>)
    \o SubSeq(pending, NumCanBePacked(c) + 1, Len(pending))

(* packToCluster(c), where cs are the clusters so far: c is one of them or  *)
(* stands for the next.                                                     *)
PackInto(c, cs) ==
  IF CanPack(cs[c])
  THEN clusters' = [cs EXCEPT ![c] = Packed(cs[c])] /\ pending' = Rest(cs[c])
  ELSE clusters' = cs /\ UNCHANGED pending

(* An existing cluster is tried.  minClusters tries all of them, those in   *)
(* which most rows and columns are used first (a cluster that is still to   *)
(* be tried has not changed since they were sorted); the other two try one  *)
(* at random.                                                               *)
Utilization(c) == Cardinality(clusters[c].inputs) + Cardinality(clusters[c].outputs)

TryCluster(c) ==
  /\ phase = "pack"
  /\ pending # <<>>
  /\ c \in left
  /\ PackInto(c, clusters)
  /\ IF mode = "min-clusters"
     THEN /\ \A d \in left : Utilization(d) <= Utilization(c)
          /\ left' = left \ {c}
     ELSE left' = {}
  /\ UNCHANGED <<unrollVars, mode, crossbar_size, todo, cur, connectVars>>

(* What is left goes into a new cluster; after which minClusters takes      *)
(* another new one, and the other two try one at random again.              *)
NewCluster ==
  /\ phase = "pack"
  /\ pending # <<>>
  /\ left = {}
  /\ PackInto(Len(clusters) + 1, Append(clusters, NoCluster))
  /\ left' = IF mode = "min-clusters" THEN {} ELSE DOMAIN clusters'
  /\ UNCHANGED <<unrollVars, mode, crossbar_size, todo, cur, connectVars>>

-----------------------------------------------------------------------------
(* Clusters::connectedComponents *)

(* The clusters that have neuron n as an input: its connected_clusters. *)
Connected(n) == { c \in Cid : n \in clusters[c].inputs }
ConnectedOut(c) == UNION { Connected(o) : o \in clusters[c].outputs }
Sink(c) == ConnectedOut(c) = {}

(* The component of c: the clusters its search (iterativeDFS) visits. *)
Neighbors(c) == ConnectedOut(c) \union { d \in Cid : c \in ConnectedOut(d) }
Component(c) ==
  LET R[k \in 0 .. Len(clusters)] ==
        IF k = 0 THEN {c} ELSE UNION { {d} \union Neighbors(d) : d \in R[k - 1] }
  IN  R[Len(clusters)]

Components == { Component(c) : c \in Cid }

(* The components that have a chosen cluster, by their first clusters.      *)
Roots(chosen) ==
  { r \in Cid : chosen \intersect Component(r) # {} /\ \A d \in Component(r) : r <= d }

(* The neurons to be connected: the first output of the chosen cluster of   *)
(* each component, in the order in which the components are found.          *)
FirstOutputs(chosen) ==
  LET roots   == Roots(chosen)
      Sole(r) == CHOOSE c \in chosen : c \in Component(r)
  IN  [k \in 1 .. Cardinality(roots) |->
         Smallest(clusters[Sole(CHOOSE r \in roots :
                                  Cardinality({ q \in roots : q <= r }) = k)].outputs)]

(* A sink is a cluster without outgoing connections: the first one the      *)
(* search meets is chosen, in each component that has one.  Which it is     *)
(* depends on the order of the search: any.                                 *)
FindComponents ==
  /\ phase = "pack"
  /\ idx = NumNeurons
  /\ todo = {}
  /\ pending = <<>>
  /\ IF Cardinality(Components) <= 1
     THEN phase' = "done" /\ UNCHANGED to_connect
     ELSE LET sinks == { c \in Cid : Sink(c) }
          IN  /\ phase' = "connect"
              /\ \E chosen \in SUBSET sinks :
                   /\ \A comp \in Components : comp \intersect sinks # {} =>
                        Cardinality(chosen \intersect comp) = 1
                   /\ to_connect' = FirstOutputs(chosen)
  /\ UNCHANGED <<unrollVars, mode, crossbar_size, packVars, todo, num_new>>

(* neuron_status.size(): the number of the next neuron to be added. *)
NewId == Cardinality(Id) + num_new

(* Slip: the neuron that links the full cluster to the next is left out.    *)
AtFront_NoLink == to_connect

(* Slip: not only the full cluster is linked to the next.                   *)
AtFront_Every ==
  IF num_new > 0 THEN <<Smallest(clusters[Len(clusters)].outputs)>> \o to_connect ELSE to_connect

(* When the cluster being filled is full, its first output is connected to  *)
(* the next one.                                                            *)
AtFront ==
  IF num_new % crossbar_size = 0 /\ num_new > 0
  THEN <<Smallest(clusters[Len(clusters)].outputs)>> \o to_connect
  ELSE to_connect

(* One iteration of the loop that connects: one neuron becomes an input of  *)
(* the cluster being filled, and a neuron is added as an output.            *)
Connect ==
  /\ phase = "connect"
  /\ to_connect # <<>>
  /\ LET cs == IF num_new % crossbar_size = 0 THEN Append(clusters, NoCluster) ELSE clusters
     IN  clusters' = [cs EXCEPT ![Len(cs)] = [inputs  |-> @.inputs \union {Head(AtFront)},
                                              outputs |-> @.outputs \union {NewId}]]
  /\ to_connect' = Tail(AtFront)
  /\ num_new' = num_new + 1
  /\ UNCHANGED <<unrollVars, mode, crossbar_size, cur, pending, left, todo, phase>>

Finish ==
  /\ phase = "connect"
  /\ to_connect = <<>>
  /\ phase' = "done"
  /\ UNCHANGED <<unrollVars, mode, crossbar_size, packVars, todo, to_connect, num_new>>

Next ==
  \/ UnrollNeuron /\ UNCHANGED <<mode, crossbar_size, packVars, todo, connectVars>>
  \/ \E n \in todo : StartNeuron(n)
  \/ \E c \in left : TryCluster(c)
  \/ NewCluster
  \/ FindComponents
  \/ Connect
  \/ Finish

Spec == Init /\ [][Next]_vars /\ WF_vars(Next)

-----------------------------------------------------------------------------
(* A cluster fits into a crossbar, also when it shares inputs between       *)
(* neurons, and also the clusters added to connect the others: the asserts  *)
(* at the end of packToCluster.                                             *)
CrossbarLimits ==
  \A c \in Cid : /\ Cardinality(clusters[c].inputs) <= crossbar_size
                 /\ Cardinality(clusters[c].outputs) <= crossbar_size

(* The other asserts: the last input of a chunk has an output in the map,   *)
(* in whatever cluster it would be packed; the clusters that are connected  *)
(* have outputs.                                                            *)
MapsAnswer ==
  /\ pending # <<>> => \A c \in Cid : CanPack(clusters[c]) =>
       Cardinality(Outs(cur, pending[NumCanBePacked(clusters[c])])) = 1
  /\ phase = "connect" => \A c \in Cid : clusters[c].outputs # {}

(* The neurons that are gathered for output o of a cluster: its inputs, and *)
(* those of the clusters that compute links of the chain of n among them.   *)
InputsWith(m) == UNION { clusters[c].inputs : c \in { d \in Cid : m \in clusters[d].outputs } }
Gathered(n, o) ==
  LET R[k \in 0 .. Cardinality(Chain(n)) + 1] ==
        IF k = 0 THEN {o}
        ELSE UNION { {m} \union (IF m \in Chain(n) \union {o} THEN InputsWith(m) ELSE {}) :
                     m \in R[k - 1] }
  IN  R[Cardinality(Chain(n)) + 1]

Original(n) == Elements(Inputs(connection, n))

(* A chunk can end within a link, whose other inputs then go to the next    *)
(* chunk: with fan-in two, or one as large as the crossbar, it does not.    *)
WholeLinks == max_fanin \in {2, crossbar_size}

(* A neuron that the loop has passed receives, through clusters that        *)
(* compute it or links of its chain, all the inputs the application gave    *)
(* it.  A link that some cluster computes gets all the inputs of the links  *)
(* before it, and its own, if chunks end with a link.  Without unrolling,   *)
(* this is so if the inputs fit into a crossbar.                            *)
EveryInputGathered ==
  \A n \in Neuron \ todo :
    (n # cur \/ pending = <<>>) /\ (max_fanin = INVALID_FANIN => Cardinality(Original(n)) <= crossbar_size)
      => /\ Original(n) \subseteq Gathered(n, n)
         /\ \A c \in Cid : \A o \in clusters[c].outputs \intersect Chain(n) :
              \A l \in (Elements(usnn[o].inputs) \intersect Chain(n))
                          \union { m \in {o} : WholeLinks } :
                Upstream(n, l) \ Chain(n) \subseteq Gathered(n, o)

(* A neuron is computed by one cluster only, so that it sees all its inputs *)
(* together: with fan-in two, a fan-in as large as the crossbar, or without *)
(* unrolling.                                                               *)
OneCluster ==
  max_fanin = INVALID_FANIN \/ WholeLinks =>
    \A n \in Id : Cardinality({ c \in Cid : n \in clusters[c].outputs }) <= 1

(* A neuron added to connect clusters is, as long as one cluster suffices   *)
(* for that, no input of another: the list of its spikes, which nobody      *)
(* fills in, is not read by printClusterStats.                              *)
AddedNeuronsSilent ==
  num_new <= crossbar_size => \A n \in Cardinality(Id) .. NewId - 1 : Connected(n) = {}

(* Afterwards all clusters are connected, if each component had a sink.     *)
ConnectedIfSinks ==
  phase = "done" /\ (\A comp \in Components : \E c \in comp : Sink(c))
    => Cardinality(Components) <= 1

(* Whatever the random choices, the partitioner comes to an end. *)
Terminates == <>(phase = "done")
=============================================================================
