----------------------------- MODULE SpikeTrace ------------------------------
(***************************************************************************)
(* From the files the placer writes to the packets the PEs inject: the     *)
(* node map and connection table (NeuralNetworkParser), the spike trace    *)
(* (GlobalTrafficTrace), and canShot, which every PE asks once per cycle   *)
(* for a destination to send a spike to.  Neuron traffic, the mode placer  *)
(* configures (cluster_traffic: false).                                    *)
(***************************************************************************)
EXTENDS Integers, Sequences, FiniteSets, Functions

CONSTANTS
  Group,         \* cluster numbers used in the files
  Nodes,         \* node numbers, 0 .. dim_x * dim_y - 1
  RoutOnly,      \* GlobalParams::rout_only_nodes
  NodeMaps,      \* the node maps to choose from: functions from groups to nodes
  Connections,   \* the connection tables: from a group to the groups it feeds
  Traces,        \* the traces: sequences of records [time, group]
  StepCycles     \* cycles per unit of spike time: 100 in the code

ASSUME SpikeTraceAssumption ==
  /\ Group \subseteq Nat
  /\ 0 \in Nodes /\ Nodes \subseteq Nat /\ IsFiniteSet(Nodes)
  /\ RoutOnly \subseteq Nodes
  /\ \A m \in NodeMaps : DOMAIN m \subseteq Group /\ m \in [DOMAIN m -> Nodes]
  /\ Connections \subseteq [Group -> SUBSET Group]
  /\ Traces \subseteq Seq([time : Nat, group : Group])
  /\ StepCycles \in Nat \ {0}

UNUSED == 0
IN_USE == 1
USED   == 2

VARIABLES
  node_map,       \* node_mapping.txt
  connection,     \* connection_table.txt
  trace,          \* traffic.txt
  neuron_table,   \* NeuralNetworkParser::neuron_table: group -> node
  dest_table,     \* NeuralNetworkParser::dest_table: group -> nodes
  traffic_trace,  \* GlobalTrafficTrace::traffic_trace, per node
  now,            \* the cycle, counted up to the last spike time
  shots           \* per line of the trace, the destinations packets were made for

files  == <<node_map, connection, trace>>
tables == <<neuron_table, dest_table>>
vars   == <<files, tables, traffic_trace, now, shots>>

(* The elements of a finite set of numbers, the smallest first.             *)
InOrder(S) ==
  [j \in 1 .. Cardinality(S) |-> CHOOSE x \in S : Cardinality({ y \in S : y <= x }) = j]

-----------------------------------------------------------------------------
(* NeuralNetworkParser *)

(* neuron_table[g]: operator[] of the map makes node 0 for a missing group. *)
TableNode(g) == IF g \in DOMAIN node_map THEN node_map[g] ELSE 0

(* loadNodeMap, then loadConnection: neuron_table ends with the groups of   *)
(* the node map and all that operator[] was asked for.                      *)
LoadNeuronTable ==
  [g \in DOMAIN node_map
           \union (UNION { connection[h] : h \in Group })
           \union { h \in Group : \E d \in connection[h] : TableNode(d) \notin RoutOnly }
     |-> TableNode(g)]

(* Slip: the source's own node is not left out.                             *)
LoadDests_WithSource(g) ==
  InOrder({ TableNode(d) : d \in connection[g] } \ RoutOnly)

(* loadConnection: the nodes of the destinations of g, sorted, without      *)
(* duplicates; not its own node, nor a routing-only node, which has no PE.  *)
LoadDests(g) ==
  InOrder({ TableNode(d) : d \in connection[g] } \ (RoutOnly \union {TableNode(g)}))

getDests(g) == dest_table[g]

(* The argument is a number: a group, or whatever else the caller passes.   *)
getNodeId(g) == IF g \in DOMAIN neuron_table THEN neuron_table[g] ELSE -1

-----------------------------------------------------------------------------
(* GlobalTrafficTrace::load *)

(* The destinations are nodes already, and each is looked up once more as   *)
(* if it were a group; those that come out as the source are not counted.   *)
CountDests(g) ==
  Cardinality({ k \in DOMAIN getDests(g) : getNodeId(getDests(g)[k]) # getNodeId(g) })

Communication(k) ==
  [line        |-> k,
   time        |-> trace[k].time * StepCycles,
   group_src   |-> trace[k].group,
   no_dst      |-> CountDests(trace[k].group),
   trace_usage |-> UNUSED,
   dest_sent   |-> 0]

(* The lines of node n that have a destination, in the order of the file.   *)
Lines(n) ==
  { k \in DOMAIN trace : getNodeId(trace[k].group) = n /\ CountDests(trace[k].group) > 0 }

Load(n) ==
  [j \in 1 .. Cardinality(Lines(n)) |-> Communication(InOrder(Lines(n))[j])]

Init ==
  /\ node_map \in NodeMaps
  /\ connection \in Connections
  /\ trace \in Traces
  /\ neuron_table = LoadNeuronTable
  /\ dest_table = [g \in Group |-> LoadDests(g)]
  /\ traffic_trace = [n \in Nodes |-> Load(n)]
  /\ now = 0
  /\ shots = [k \in DOMAIN trace |-> <<>>]

-----------------------------------------------------------------------------
(* GlobalTrafficTrace::canShot and arbitrate *)

(* Slip: entries in use are not looked for.                                 *)
FirstInUse_Ignored(tt) == 0

(* The first entry in use, 0 if there is none: the scan stops there. *)
FirstInUse(tt) ==
  IF \E k \in DOMAIN tt : tt[k].trace_usage = IN_USE
  THEN CHOOSE k \in DOMAIN tt :
         tt[k].trace_usage = IN_USE /\ \A j \in 1 .. k - 1 : tt[j].trace_usage # IN_USE
  ELSE 0

(* What the scan leaves: the used entries it passed are erased. *)
Kept(tt) ==
  { k \in DOMAIN tt : tt[k].trace_usage = USED => FirstInUse(tt) # 0 /\ FirstInUse(tt) < k }

Erased(tt) == [j \in 1 .. Cardinality(Kept(tt)) |-> tt[InOrder(Kept(tt))[j]]]

(* Slip: the scan does not stop at the entry in use.                        *)
Collected_NoBreak(tt) ==
  { k \in DOMAIN tt : tt[k].trace_usage = UNUSED /\ now >= tt[k].time }

(* The entries the scan collects for arbitration: unused, due, and before   *)
(* the one in use.                                                          *)
Collected(tt) ==
  { k \in DOMAIN tt :
      /\ tt[k].trace_usage = UNUSED
      /\ now >= tt[k].time
      /\ FirstInUse(tt) # 0 => k < FirstInUse(tt) }

(* Slip: the latest is chosen.                                              *)
arbitrate_Latest(tt) ==
  CHOOSE k \in Collected(tt) : \A j \in Collected(tt) : tt[k].time >= tt[j].time

(* The earliest of them, the first one if several are. *)
arbitrate(tt) ==
  CHOOSE k \in Collected(tt) : \A j \in Collected(tt) \ {k} :
    tt[k].time < tt[j].time \/ (tt[k].time = tt[j].time /\ k < j)

(* One more destination of entry k has been fired. *)
Shoot(tt, k) ==
  [tt EXCEPT ![k].dest_sent = @ + 1,
             ![k].trace_usage =
               IF tt[k].dest_sent + 1 >= tt[k].no_dst THEN USED ELSE IN_USE]

(* First the entry in use is shot, then the arbitrated one. *)
AfterScan(tt) == IF FirstInUse(tt) = 0 THEN tt ELSE Shoot(tt, FirstInUse(tt))
AfterShot(tt) ==
  IF Collected(tt) = {} THEN AfterScan(tt) ELSE Shoot(AfterScan(tt), arbitrate(tt))

(* dest_id is written by the last of them only: the entry the packet is     *)
(* made for, 0 when there is nothing to shoot.                              *)
ShotEntry(tt) == IF Collected(tt) # {} THEN arbitrate(tt) ELSE FirstInUse(tt)

Dest(c) == getDests(c.group_src)[c.dest_sent + 1]

(* A routing-only node has no PE. *)
Shooter == Nodes \ RoutOnly

(* ProcessingElement::canShot of every PE, once in a cycle; the trace is    *)
(* kept per node, so the order of the PEs does not matter.                  *)
Cycle ==
  LET tt == [n \in Shooter |-> Erased(traffic_trace[n])]
      Fired(k) == { n \in Shooter : ShotEntry(tt[n]) # 0 /\ tt[n][ShotEntry(tt[n])].line = k }
  IN  /\ traffic_trace' = [n \in Nodes |->
           IF n \in Shooter THEN AfterShot(tt[n]) ELSE traffic_trace[n]]
      /\ shots' = [k \in DOMAIN shots |->
           shots[k] \o InOrder({ Dest(tt[n][ShotEntry(tt[n])]) : n \in Fired(k) })]
      /\ now' = IF \E k \in DOMAIN trace : now < trace[k].time * StepCycles
                THEN now + 1 ELSE now
      /\ UNCHANGED <<files, tables>>

Next == Cycle

Spec == Init /\ [][Next]_vars /\ WF_vars(Next)

-----------------------------------------------------------------------------
(* The trace still has work to do for line k. *)
Open(k) ==
  \E n \in Nodes : \E j \in DOMAIN traffic_trace[n] :
    traffic_trace[n][j].line = k /\ traffic_trace[n][j].trace_usage # USED

(* Where the spikes of group g have to go, from the files alone. *)
MustReach(g) ==
  IF g \notin DOMAIN node_map THEN {}
  ELSE { node_map[d] : d \in connection[g] \intersect DOMAIN node_map }
         \ (RoutOnly \union {node_map[g]})

(* A spike is sent to every node that holds a destination cluster, once,    *)
(* and to no other.  The header calls dst_set "ID of the destination nodes  *)
(* (PE)" and canShot "can shoot until a spike is transmitted to all         *)
(* destinations".                                                           *)
EveryDestinationOnce ==
  \A k \in DOMAIN trace : ~Open(k) =>
    /\ { shots[k][j] : j \in DOMAIN shots[k] } = MustReach(trace[k].group)
    /\ IsInjective(shots[k])

(* canShot says "choose the trace that is in use first": when a spike has   *)
(* been sent to some of its destinations, the next packet of its node is    *)
(* for that spike, and no other spike overtakes it.                         *)
InUseFirst ==
  [][ \A n \in Shooter : \A j \in DOMAIN traffic_trace[n] :
        traffic_trace[n][j].trace_usage = IN_USE
          => LET k == traffic_trace[n][j].line IN Len(shots'[k]) = Len(shots[k]) + 1 ]_vars

(* The spikes of a node leave in the order of their times. *)
LeaveInTimeOrder ==
  \A n \in Nodes : \A i, j \in DOMAIN trace :
    /\ getNodeId(trace[i].group) = n /\ getNodeId(trace[j].group) = n
    /\ trace[i].time < trace[j].time
    /\ shots[j] # <<>>
    => ~Open(i)

(* Every spike of the trace is sent out in the end. *)
EverySpikeLeaves == <>[](\A k \in DOMAIN trace : ~Open(k))
=============================================================================
