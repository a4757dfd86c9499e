-------------------------- MODULE SpikeTraceProofs ---------------------------
(***************************************************************************)
(* What the trace guarantees for every mesh, connection table and trace,   *)
(* for files that name a node for each cluster, do not confuse nodes with  *)
(* clusters and have the lines of a node in time order (GoodFiles).        *)
(***************************************************************************)
EXTENDS SpikeTrace, FiniteSetTheorems, WellFoundedInduction, TLAPS

(***************************************************************************)
(* Every cluster has a node; the nodes of the destinations of a cluster,   *)
(* which load looks up once more as if they were clusters, do not come out *)
(* as its own node; and the lines of one node are in the order of their    *)
(* times.  Without any of the three a spike may be sent to too few or too  *)
(* many nodes.                                                             *)
(***************************************************************************)
GoodFiles ==
  /\ DOMAIN node_map = Group
  /\ \A g \in Group : \A d \in MustReach(g) \intersect Group : node_map[d] # node_map[g]
  /\ \A i, j \in DOMAIN trace :
       i < j /\ node_map[trace[i].group] = node_map[trace[j].group]
         => trace[i].time <= trace[j].time

-----------------------------------------------------------------------------
(* Sets as lists.                                                          *)

(* The rank of an element: how many there are up to it.                     *)
Rank(at, k) == Cardinality({ i \in at : i <= k })

(* Ranks number the elements of a finite set, without gaps.                 *)
LEMMA Ranks ==
  ASSUME NEW at \in SUBSET Int, IsFiniteSet(at)
  PROVE  /\ Cardinality(at) \in Nat
         /\ \A k \in at : Rank(at, k) \in 1 .. Cardinality(at)
         /\ \A k, l \in at : Rank(at, k) = Rank(at, l) => k = l
         /\ \A j \in 1 .. Cardinality(at) : \E k \in at : Rank(at, k) = j
<1> DEFINE c == Cardinality(at)
           rank == [k \in at |-> Rank(at, k)]
<1>1. c \in Nat
  BY FS_CardinalityType
<1>2. ASSUME NEW k \in at
      PROVE  Rank(at, k) \in 1 .. c
  <2> DEFINE S == { i \in at : i <= k }
  <2>1. S \subseteq at /\ S # {}
    <3>1. k \in S
      OBVIOUS
    <3> QED BY <3>1
  <2>2. IsFiniteSet(S) /\ Cardinality(S) <= c
    BY <2>1, FS_Subset
  <2>3. Cardinality(S) \in Nat /\ Cardinality(S) # 0
    BY <2>1, <2>2, FS_CardinalityType, FS_EmptySet
  <2> QED BY <1>1, <2>2, <2>3 DEF Rank
<1>3. ASSUME NEW k \in at, NEW l \in at, k < l
      PROVE  Rank(at, k) # Rank(at, l)
  <2> DEFINE S == { i \in at : i <= k }
             T == { i \in at : i <= l }
  <2>1. S \subseteq T /\ S # T /\ T \subseteq at
    <3>1. k \in Int /\ l \in Int
      OBVIOUS
    <3>2. l \in T /\ l \notin S
      BY <3>1, <1>3
    <3>3. \A i \in S : i \in T
      BY <1>3
    <3> QED BY <3>2, <3>3
  <2>2. IsFiniteSet(T)
    BY <2>1, FS_Subset
  <2> QED BY <2>1, <2>2, FS_Subset DEF Rank
<1>4. \A k, l \in at : Rank(at, k) = Rank(at, l) => k = l
  <2> SUFFICES ASSUME NEW k \in at, NEW l \in at, k # l
               PROVE  Rank(at, k) # Rank(at, l)
    OBVIOUS
  <2>1. k < l \/ l < k
    OBVIOUS
  <2> QED BY <1>3, <2>1
<1>5. rank \in Injection(at, 1 .. c)
  BY <1>2, <1>4 DEF Injection, IsInjective
<1>6. IsFiniteSet(1 .. c) /\ Cardinality(1 .. c) = c
  BY <1>1, FS_Interval
<1>7. rank \in Surjection(at, 1 .. c)
  <2> HIDE DEF rank
  <2> QED BY <1>5, <1>6, FS_Injection
<1>8. \A j \in 1 .. c : \E k \in at : rank[k] = j
  <2> HIDE DEF rank
  <2> QED BY <1>7 DEF Surjection
<1> QED
  BY <1>1, <1>2, <1>4, <1>8

(* A larger element has a larger rank.                                      *)
LEMMA RanksOrdered ==
  ASSUME NEW at \in SUBSET Int, IsFiniteSet(at), NEW k \in at, NEW l \in at, k <= l
  PROVE  Rank(at, k) <= Rank(at, l)
<1> DEFINE S == { i \in at : i <= k }
           T == { i \in at : i <= l }
<1>1. S \subseteq T /\ T \subseteq at
  <2>1. \A i \in at : i <= k => i <= l
    OBVIOUS
  <2> QED BY <2>1
<1>2. IsFiniteSet(T)
  BY <1>1, FS_Subset
<1> QED BY <1>1, <1>2, FS_Subset DEF Rank

(* InOrder lists the elements of a set, each once and the smaller first.    *)
LEMMA InOrderLists ==
  ASSUME NEW S \in SUBSET Int, IsFiniteSet(S)
  PROVE  /\ Cardinality(S) \in Nat
         /\ InOrder(S) \in [1 .. Cardinality(S) -> S]
         /\ \A x \in S : \E j \in 1 .. Cardinality(S) : InOrder(S)[j] = x
         /\ \A i, j \in 1 .. Cardinality(S) : i < j => InOrder(S)[i] < InOrder(S)[j]
<1> DEFINE c == Cardinality(S)
           at(j) == CHOOSE x \in S : Rank(S, x) = j
<1>1. c \in Nat
  BY FS_CardinalityType
<1>2. InOrder(S) = [j \in 1 .. c |-> at(j)]
  BY DEF InOrder, Rank
<1>3. \A j \in 1 .. c : at(j) \in S /\ Rank(S, at(j)) = j
  BY Ranks
<1> HIDE DEF at, c
<1>4. InOrder(S) \in [1 .. c -> S] /\ \A j \in 1 .. c : InOrder(S)[j] = at(j)
  BY <1>2, <1>3
<1>5. ASSUME NEW x \in S
      PROVE  Rank(S, x) \in 1 .. c /\ at(Rank(S, x)) = x
  <2>1. Rank(S, x) \in 1 .. c
    BY Ranks DEF c
  <2>2. at(Rank(S, x)) \in S /\ Rank(S, at(Rank(S, x))) = Rank(S, x)
    BY <1>3, <2>1
  <2>3. \A y \in S : Rank(S, y) = Rank(S, x) => y = x
    BY Ranks
  <2> QED BY <2>1, <2>2, <2>3
<1>6. ASSUME NEW i \in 1 .. c, NEW j \in 1 .. c, i < j
      PROVE  at(i) < at(j)
  <2>1. at(i) \in Int /\ at(j) \in Int
    BY <1>3
  <2>2. at(j) <= at(i) => j <= i
    BY <1>3, RanksOrdered
  <2> QED BY <1>1, <1>6, <2>1, <2>2
<1>7. \A x \in S : \E j \in 1 .. c : InOrder(S)[j] = x
  BY <1>4, <1>5
<1>8. \A i, j \in 1 .. c : i < j => InOrder(S)[i] < InOrder(S)[j]
  BY <1>4, <1>6
<1> QED BY <1>1, <1>4, <1>7, <1>8 DEF c

(* The list of one number.                                                  *)
LEMMA InOrderOfOne ==
  ASSUME NEW x \in Int
  PROVE  InOrder({x}) = <<x>>
<1>1. Cardinality({x}) = 1 /\ IsFiniteSet({x})
  BY FS_Singleton
<1>2. InOrder({x}) \in [1 .. 1 -> {x}]
  BY <1>1, InOrderLists
<1> QED BY <1>2

(* There is nothing to list of the empty set.                               *)
LEMMA InOrderOfNone == InOrder({}) = <<>>
<1>1. Cardinality({}) = 0 /\ IsFiniteSet({})
  BY FS_EmptySet
<1>2. InOrder({}) \in [1 .. 0 -> {}]
  BY <1>1, InOrderLists
<1> QED BY <1>2

-----------------------------------------------------------------------------
(* The tables.                                                              *)

(* The files are good, and the tables are what was loaded from them.        *)
TablesInv ==
  /\ GoodFiles
  /\ node_map \in [Group -> Nodes]
  /\ connection \in [Group -> SUBSET Group]
  /\ trace \in Seq([time : Nat, group : Group])
  /\ neuron_table = node_map
  /\ dest_table = [g \in Group |-> LoadDests(g)]

(* What is loaded at first.                                                 *)
LEMMA TablesInitial == Init /\ GoodFiles => TablesInv
<1> SUFFICES ASSUME Init, GoodFiles PROVE TablesInv
  OBVIOUS
<1>1. /\ node_map \in [Group -> Nodes] /\ connection \in [Group -> SUBSET Group]
      /\ trace \in Seq([time : Nat, group : Group])
  <2>1. node_map \in NodeMaps /\ connection \in Connections /\ trace \in Traces
    BY DEF Init
  <2>2. DOMAIN node_map = Group
    BY DEF GoodFiles
  <2> QED BY <2>1, <2>2, SpikeTraceAssumption
<1>2. neuron_table = node_map
  <2> DEFINE all == DOMAIN node_map
           \union (UNION { connection[h] : h \in Group })
           \union { h \in Group : \E d \in connection[h] : TableNode(d) \notin RoutOnly }
  <2>1. all = Group
    BY <1>1
  <2>2. neuron_table = [g \in all |-> TableNode(g)]
    BY DEF Init, LoadNeuronTable
  <2>3. \A g \in Group : TableNode(g) = node_map[g]
    BY <1>1 DEF TableNode
  <2> HIDE DEF all
  <2> QED BY <1>1, <2>1, <2>2, <2>3
<1> QED BY <1>1, <1>2 DEF TablesInv, Init

(* Nothing changes the tables.                                              *)
LEMMA TablesStay == TablesInv /\ [Next]_vars => TablesInv'
<1> SUFFICES ASSUME TablesInv, [Next]_vars PROVE TablesInv'
  OBVIOUS
<1>1. UNCHANGED <<node_map, connection, trace, neuron_table, dest_table>>
  BY DEF Next, Cycle, vars, files, tables
<1> QED BY <1>1 DEF TablesInv, GoodFiles, MustReach, LoadDests, TableNode

(* The destinations of a group: the nodes it must reach, each once, and all *)
(* of them are counted.                                                     *)
LEMMA Destinations ==
  ASSUME TablesInv, NEW g \in Group
  PROVE  /\ getNodeId(g) = node_map[g] /\ getNodeId(g) \in Nodes
         /\ getDests(g) \in Seq(Nodes)
         /\ { getDests(g)[j] : j \in DOMAIN getDests(g) } = MustReach(g)
         /\ IsInjective(getDests(g))
         /\ CountDests(g) = Len(getDests(g))
<1> DEFINE S == { TableNode(d) : d \in connection[g] } \ (RoutOnly \union {TableNode(g)})
           c == Cardinality(S)
<1>1. /\ node_map \in [Group -> Nodes] /\ connection[g] \subseteq Group
      /\ neuron_table = node_map /\ Nodes \subseteq Nat /\ IsFiniteSet(Nodes)
  BY SpikeTraceAssumption DEF TablesInv
<1>2. S = MustReach(g) /\ S \subseteq Nodes
  <2>1. g \in DOMAIN node_map /\ connection[g] \intersect DOMAIN node_map = connection[g]
    BY <1>1
  <2>2. \A d \in connection[g] \union {g} : TableNode(d) = node_map[d] /\ node_map[d] \in Nodes
    BY <1>1 DEF TableNode
  <2> QED BY <2>1, <2>2 DEF MustReach
<1>3. getDests(g) = InOrder(S)
  BY DEF getDests, TablesInv, LoadDests
<1>4. IsFiniteSet(S) /\ S \in SUBSET Int
  <2>1. S \in SUBSET Nodes /\ IsFiniteSet(Nodes) /\ Nodes \in SUBSET Int
    BY <1>1, <1>2
  <2> HIDE DEF S
  <2>2. IsFiniteSet(S)
    BY <2>1, FS_Subset
  <2> QED BY <2>1, <2>2
<1>5. getNodeId(g) = node_map[g] /\ node_map[g] \in Nodes
  BY <1>1 DEF getNodeId
<1> HIDE DEF S
<1>6. /\ c \in Nat /\ getDests(g) \in [1 .. c -> S]
      /\ \A x \in S : \E j \in 1 .. c : getDests(g)[j] = x
      /\ \A i, j \in 1 .. c : i < j => getDests(g)[i] < getDests(g)[j]
  BY <1>3, <1>4, InOrderLists
<1> HIDE DEF c
<1>7. getDests(g) \in Seq(Nodes) /\ DOMAIN getDests(g) = 1 .. c /\ Len(getDests(g)) = c
  BY <1>2, <1>6
<1>8. { getDests(g)[j] : j \in DOMAIN getDests(g) } = MustReach(g)
  BY <1>2, <1>6, <1>7
<1>9. IsInjective(getDests(g))
  <2>1. ASSUME NEW i \in 1 .. c, NEW j \in 1 .. c, i # j
        PROVE  getDests(g)[i] # getDests(g)[j]
    <3>1. getDests(g)[i] \in Int /\ getDests(g)[j] \in Int
      <4>1. getDests(g)[i] \in S /\ getDests(g)[j] \in S
        BY <1>6
      <4>2. S \in SUBSET Int
        BY <1>4
      <4> QED BY <4>1, <4>2
    <3>2. i < j \/ j < i
      BY <1>6, <2>1
    <3> QED BY <1>6, <3>1, <3>2
  <2> QED BY <2>1, <1>7 DEF IsInjective
<1>10. CountDests(g) = c
  <2>1. ASSUME NEW j \in 1 .. c
        PROVE  getNodeId(getDests(g)[j]) # getNodeId(g)
    <3> DEFINE d == getDests(g)[j]
    <3>1. d \in MustReach(g) /\ d \in Nat
      BY <1>1, <1>2, <1>6
    <3>2. d \in Group => node_map[d] # node_map[g]
      BY <3>1 DEF TablesInv, GoodFiles
    <3>3. getNodeId(d) = IF d \in Group THEN node_map[d] ELSE -1
      BY <1>1 DEF getNodeId
    <3>4. node_map[g] # -1
      BY <1>1, <1>5
    <3> QED BY <1>5, <3>2, <3>3, <3>4
  <2>2. { k \in DOMAIN getDests(g) : getNodeId(getDests(g)[k]) # getNodeId(g) } = 1 .. c
    BY <1>7, <2>1
  <2>3. Cardinality(1 .. c) = c
    BY <1>6, FS_Interval
  <2> QED BY <2>2, <2>3 DEF CountDests
<1> QED BY <1>5, <1>7, <1>8, <1>9, <1>10

-----------------------------------------------------------------------------
(* The trace of a node.                                                     *)

(* The packets made for line k, and those that are to be made.              *)
Sent(k) == Len(shots[k])
Goal(k) == Len(getDests(trace[k].group))

(* What is known of a line, if it is still in the trace.                    *)
Entry(k) ==
  [line        |-> k,
   time        |-> trace[k].time * StepCycles,
   group_src   |-> trace[k].group,
   no_dst      |-> CountDests(trace[k].group),
   trace_usage |-> IF Sent(k) = 0 THEN UNUSED ELSE IF Sent(k) < Goal(k) THEN IN_USE ELSE USED,
   dest_sent   |-> Sent(k)]

(* A trace of node n: some of its lines, in their order, all those that are *)
(* not finished among them.                                                 *)
TraceOf(tt, n) ==
  /\ tt \in Seq({ Entry(k) : k \in Lines(n) })
  /\ \A i, j \in DOMAIN tt : i < j => tt[i].line < tt[j].line
  /\ \A k \in Lines(n) : Sent(k) < Goal(k) => \E j \in DOMAIN tt : tt[j].line = k

(* The packets made for line k go to the first of its destinations.         *)
SentInOrder(k) ==
  /\ shots[k] \in Seq(Nodes) /\ Sent(k) <= Goal(k)
  /\ \A j \in 1 .. Sent(k) : shots[k][j] = getDests(trace[k].group)[j]

(* A line has begun only if those before it are finished.                   *)
OneByOne(n) ==
  \A k, l \in Lines(n) : l < k /\ Sent(k) # 0 => Sent(l) = Goal(l)

(* Packets are made for the lines of a node one after the other, each line  *)
(* for its destinations in their order.                                     *)
TraceInv ==
  /\ TablesInv
  /\ DOMAIN shots = DOMAIN trace
  /\ \A k \in DOMAIN trace : SentInOrder(k)
  /\ now \in Nat
  /\ \A n \in Nodes : TraceOf(traffic_trace[n], n)
  /\ \A n \in Nodes : OneByOne(n)

(* The lines of a node are numbers, with a destination.                     *)
LEMMA LinesAre ==
  ASSUME TablesInv, NEW n
  PROVE  /\ Lines(n) \subseteq DOMAIN trace /\ DOMAIN trace = 1 .. Len(trace)
         /\ Len(trace) \in Nat /\ IsFiniteSet(Lines(n)) /\ Lines(n) \in SUBSET Int
         /\ \A k \in DOMAIN trace : /\ trace[k].group \in Group /\ trace[k].time \in Nat
                                    /\ Goal(k) \in Nat
                                    /\ CountDests(trace[k].group) = Goal(k)
                                    /\ getNodeId(trace[k].group) \in Nodes
                                    /\ getNodeId(trace[k].group) = node_map[trace[k].group]
         /\ \A k \in DOMAIN trace :
              k \in Lines(n) <=> getNodeId(trace[k].group) = n /\ Goal(k) # 0
<1>1. DOMAIN trace = 1 .. Len(trace) /\ Len(trace) \in Nat
  BY DEF TablesInv
<1>2. ASSUME NEW k \in DOMAIN trace
      PROVE  /\ trace[k].group \in Group /\ trace[k].time \in Nat /\ Goal(k) \in Nat
             /\ CountDests(trace[k].group) = Goal(k)
             /\ getNodeId(trace[k].group) \in Nodes
             /\ getNodeId(trace[k].group) = node_map[trace[k].group]
  <2>1. trace[k].group \in Group /\ trace[k].time \in Nat
    <3> DEFINE R == [time : Nat, group : Group]
    <3>1. trace \in Seq(R) /\ k \in DOMAIN trace
      BY DEF TablesInv
    <3>2. trace[k] \in R
      <4> HIDE DEF R
      <4> QED BY <3>1
    <3> QED BY <3>2
  <2>2. getDests(trace[k].group) \in Seq(Nodes)
    BY <2>1, Destinations
  <2>3. Goal(k) \in Nat
    BY <2>2 DEF Goal
  <2> QED BY <2>1, <2>3, Destinations DEF Goal
<1>3. Lines(n) \subseteq DOMAIN trace
  BY DEF Lines
<1>4. IsFiniteSet(DOMAIN trace)
  BY <1>1, FS_Interval
<1>5. IsFiniteSet(Lines(n))
  BY <1>3, <1>4, FS_Subset
<1>6. \A k \in DOMAIN trace :
        k \in Lines(n) <=> getNodeId(trace[k].group) = n /\ Goal(k) # 0
  BY <1>2 DEF Lines
<1> QED BY <1>1, <1>2, <1>3, <1>5, <1>6

(* The fields of an entry.                                                  *)
LEMMA EntryFields ==
  ASSUME NEW k
  PROVE  /\ Entry(k).line = k /\ Entry(k).time = trace[k].time * StepCycles
         /\ Entry(k).group_src = trace[k].group
         /\ Entry(k).no_dst = CountDests(trace[k].group)
         /\ Entry(k).dest_sent = Sent(k)
         /\ Entry(k).trace_usage = IF Sent(k) = 0 THEN UNUSED
                                   ELSE IF Sent(k) < Goal(k) THEN IN_USE ELSE USED
BY DEF Entry

(* The entries of a trace.                                                  *)
LEMMA EntriesOf ==
  ASSUME NEW n, NEW tt, TraceOf(tt, n)
  PROVE  /\ DOMAIN tt = 1 .. Len(tt) /\ Len(tt) \in Nat
         /\ \A j \in DOMAIN tt : tt[j].line \in Lines(n) /\ tt[j] = Entry(tt[j].line)
<1> DEFINE T == { Entry(k) : k \in Lines(n) }
<1>1. tt \in Seq(T)
  BY DEF TraceOf
<1>2. DOMAIN tt = 1 .. Len(tt) /\ Len(tt) \in Nat /\ \A j \in DOMAIN tt : tt[j] \in T
  <2> HIDE DEF T
  <2> QED BY <1>1
<1>3. \A e \in T : e.line \in Lines(n) /\ e = Entry(e.line)
  BY EntryFields
<1> QED BY <1>2, <1>3

(* Of a set of numbers one is the least.                                    *)
LEMMA LeastOf ==
  ASSUME NEW S \in SUBSET Nat, S # {}
  PROVE  \E x \in S : \A y \in S : x <= y
<1> DEFINE R == { ss \in Nat \X Nat : ss[1] < ss[2] }
<1>1. IsWellFoundedOn(R, Nat)
  BY NatLessThanWellFounded DEF OpToRel
<1>2. PICK x \in S : \A y \in S : <<y, x>> \notin R
  <2> HIDE DEF R
  <2> QED BY <1>1, WFMin
<1>3. ASSUME NEW y \in S
      PROVE  x <= y
  <2>1. ~(y < x)
    BY <1>2
  <2> QED BY <2>1
<1> QED BY <1>3

(* FirstInUse is the place of the first entry in use, 0 if there is none.   *)
LEMMA FirstInUseIs ==
  ASSUME NEW tt, Len(tt) \in Nat, DOMAIN tt = 1 .. Len(tt)
  PROVE  \/ /\ FirstInUse(tt) = 0
            /\ \A j \in DOMAIN tt : tt[j].trace_usage # IN_USE
         \/ /\ FirstInUse(tt) \in DOMAIN tt /\ FirstInUse(tt) # 0
            /\ tt[FirstInUse(tt)].trace_usage = IN_USE
            /\ \A j \in 1 .. FirstInUse(tt) - 1 : tt[j].trace_usage # IN_USE
<1> DEFINE S == { j \in DOMAIN tt : tt[j].trace_usage = IN_USE }
<1>1. CASE S = {}
  BY <1>1 DEF FirstInUse
<1>2. CASE S # {}
  <2>1. PICK m \in S : \A l \in S : m <= l
    <3>1. S \in SUBSET Nat
      OBVIOUS
    <3> HIDE DEF S
    <3> QED BY <1>2, <3>1, LeastOf
  <2>2. m \in DOMAIN tt /\ m # 0 /\ tt[m].trace_usage = IN_USE
        /\ \A j \in 1 .. m - 1 : j \in DOMAIN tt /\ ~(m <= j)
    BY <2>1
  <2>3. \A j \in 1 .. m - 1 : tt[j].trace_usage # IN_USE
    BY <2>1, <2>2
  <2> DEFINE f == CHOOSE k \in DOMAIN tt :
                    tt[k].trace_usage = IN_USE /\ \A j \in 1 .. k - 1 : tt[j].trace_usage # IN_USE
  <2>4. f \in DOMAIN tt /\ tt[f].trace_usage = IN_USE
        /\ \A j \in 1 .. f - 1 : tt[j].trace_usage # IN_USE
    BY <2>2, <2>3
  <2>5. FirstInUse(tt) = f
    BY <2>2 DEF FirstInUse
  <2> HIDE DEF f
  <2> QED BY <2>4, <2>5
<1> QED BY <1>1, <1>2

(* What the scan leaves of a trace is a trace, of lines that are not        *)
(* finished, of which only the first may have begun.                        *)
LEMMA ErasedTrace ==
  ASSUME TablesInv, NEW n \in Nodes, NEW tt, TraceOf(tt, n), OneByOne(n),
         \A k \in DOMAIN trace : SentInOrder(k)
  PROVE  /\ TraceOf(Erased(tt), n)
         /\ \A j \in DOMAIN Erased(tt) : /\ Sent(Erased(tt)[j].line) < Goal(Erased(tt)[j].line)
                                         /\ j # 1 => Sent(Erased(tt)[j].line) = 0
<1> DEFINE K == Kept(tt)
           c == Cardinality(K)
           e == Erased(tt)
           at == InOrder(K)
<1>1. /\ \A k \in Lines(n) : /\ k \in DOMAIN trace /\ k \in Int /\ Sent(k) \in Nat
                             /\ Goal(k) \in Nat /\ Goal(k) # 0 /\ Sent(k) <= Goal(k)
  BY LinesAre DEF SentInOrder, Sent
<1>2. \A j \in DOMAIN tt :
        LET k == tt[j].line
        IN  /\ k \in Lines(n) /\ tt[j] = Entry(k)
            /\ tt[j].trace_usage = IF Sent(k) = 0 THEN UNUSED
                                   ELSE IF Sent(k) < Goal(k) THEN IN_USE ELSE USED
  BY EntriesOf, EntryFields
<1>3. DOMAIN tt = 1 .. Len(tt) /\ Len(tt) \in Nat
  BY EntriesOf
<1>4. K = { j \in DOMAIN tt : Sent(tt[j].line) < Goal(tt[j].line) }
  <2>1. ASSUME NEW j \in DOMAIN tt
        PROVE  j \in K <=> Sent(tt[j].line) < Goal(tt[j].line)
    <3>1. tt[j].trace_usage # USED <=> Sent(tt[j].line) < Goal(tt[j].line)
      BY <1>1, <1>2 DEF UNUSED, IN_USE, USED
    <3>2. CASE FirstInUse(tt) = 0
      BY <3>1, <3>2 DEF Kept
    <3>3. CASE FirstInUse(tt) # 0
      <4> DEFINE f == FirstInUse(tt)
      <4>2. f \in DOMAIN tt /\ tt[f].trace_usage = IN_USE
        BY <1>3, <3>3, FirstInUseIs
      <4>3. Sent(tt[f].line) # 0 /\ Sent(tt[f].line) < Goal(tt[f].line)
        BY <1>1, <1>2, <4>2 DEF UNUSED, IN_USE, USED
      <4>4. f < j => Sent(tt[j].line) = 0
        <5> SUFFICES ASSUME f < j, Sent(tt[j].line) # 0 PROVE FALSE
          OBVIOUS
        <5>1. tt[f].line < tt[j].line
          BY <4>2 DEF TraceOf
        <5>2. Sent(tt[f].line) = Goal(tt[f].line)
          BY <1>2, <4>2, <5>1 DEF OneByOne
        <5> QED BY <1>1, <1>2, <4>2, <4>3, <5>2
      <4>5. f < j => Sent(tt[j].line) < Goal(tt[j].line)
        BY <1>1, <1>2, <4>4
      <4>6. j \in K <=> (tt[j].trace_usage = USED => f < j)
        BY <3>3 DEF Kept
      <4> QED BY <3>1, <4>5, <4>6
    <3> QED BY <3>2, <3>3
  <2>2. K \subseteq DOMAIN tt
    BY DEF Kept
  <2> QED BY <2>1, <2>2
<1>5. IsFiniteSet(K) /\ K \in SUBSET Int /\ K \subseteq DOMAIN tt
  <2>1. IsFiniteSet(DOMAIN tt) /\ K \subseteq DOMAIN tt /\ DOMAIN tt \in SUBSET Int
    <3> HIDE DEF K
    <3> QED BY <1>3, <1>4, FS_Interval
  <2> HIDE DEF K
  <2>2. IsFiniteSet(K)
    BY <2>1, FS_Subset
  <2> QED BY <2>1, <2>2
<1>6. e = [j \in 1 .. c |-> tt[at[j]]]
  BY DEF Erased
<1> HIDE DEF e, K
<1>7. /\ c \in Nat /\ at \in [1 .. c -> K]
      /\ \A x \in K : \E j \in 1 .. c : at[j] = x
      /\ \A i, j \in 1 .. c : i < j => at[i] < at[j]
  BY <1>5, InOrderLists
<1> HIDE DEF c, at
<1>8. /\ DOMAIN e = 1 .. c /\ Len(e) = c
      /\ \A j \in 1 .. c : at[j] \in K /\ e[j] = tt[at[j]]
  BY <1>6, <1>7
<1>9. \A j \in 1 .. c : e[j].line \in Lines(n) /\ e[j] = Entry(e[j].line)
                        /\ Sent(e[j].line) < Goal(e[j].line)
  BY <1>2, <1>4, <1>8
<1>10. \A i, j \in 1 .. c : i < j => e[i].line < e[j].line
  <2>1. \A i, j \in DOMAIN tt : i < j => tt[i].line < tt[j].line
    BY DEF TraceOf
  <2> SUFFICES ASSUME NEW i \in 1 .. c, NEW j \in 1 .. c, i < j
               PROVE  e[i].line < e[j].line
    OBVIOUS
  <2>2. at[i] < at[j] /\ at[i] \in DOMAIN tt /\ at[j] \in DOMAIN tt
    BY <1>5, <1>7, <1>8
  <2>3. tt[at[i]].line < tt[at[j]].line
    BY <2>1, <2>2
  <2> QED BY <1>8, <2>3
<1>11. ASSUME NEW k \in Lines(n), Sent(k) < Goal(k)
       PROVE  \E j \in 1 .. c : e[j].line = k
  <2>1. PICK i \in DOMAIN tt : tt[i].line = k
    BY <1>11 DEF TraceOf
  <2>2. i \in K
    BY <1>4, <1>11, <2>1
  <2> QED BY <1>7, <1>8, <2>1, <2>2
<1>12. TraceOf(e, n)
  <2> DEFINE T == { Entry(k) : k \in Lines(n) }
  <2>1. \A j \in 1 .. c : tt[at[j]] \in T
    BY <1>8, <1>9
  <2>2. e \in Seq(T)
    <3> HIDE DEF T
    <3> QED BY <1>6, <1>7, <2>1
  <2> QED BY <1>8, <1>10, <1>11, <2>2 DEF TraceOf
<1>13. ASSUME NEW j \in 1 .. c, j # 1
       PROVE  Sent(e[j].line) = 0
  <2>1. 1 \in 1 .. c /\ 1 < j
    BY <1>7, <1>13
  <2>2. e[1].line < e[j].line
    BY <1>10, <2>1
  <2>3. Sent(e[1].line) < Goal(e[1].line) /\ e[1].line \in Lines(n) /\ e[j].line \in Lines(n)
    BY <1>9, <2>1
  <2>4. Sent(e[1].line) # Goal(e[1].line)
    BY <1>1, <2>3
  <2> QED BY <2>2, <2>3, <2>4 DEF OneByOne
<1>14. \A j \in DOMAIN e : Sent(e[j].line) < Goal(e[j].line) /\ (j # 1 => Sent(e[j].line) = 0)
  BY <1>8, <1>9, <1>13
<1> QED BY <1>12, <1>14 DEF e

(* Times of lines are in the order of the times in the file.                *)
LEMMA CyclesOrdered ==
  ASSUME NEW a \in Nat, NEW b \in Nat, a <= b
  PROVE  a * StepCycles <= b * StepCycles
<1>1. StepCycles \in Nat
  BY SpikeTraceAssumption
<1>2. PICK d \in Nat : b = a + d
  <2>1. b - a \in Nat /\ b = a + (b - a)
    OBVIOUS
  <2> QED BY <2>1
<1>3. b * StepCycles = a * StepCycles + d * StepCycles
  BY <1>1, <1>2
<1>4. d * StepCycles \in Nat /\ a * StepCycles \in Nat
  BY <1>1
<1> QED BY <1>3, <1>4

(* If only the first entry of a trace has begun, it is the one a packet is  *)
(* made for, as soon as it is due, and at once if it has begun.             *)
LEMMA FirstShot ==
  ASSUME TablesInv, now \in Nat, NEW n \in Nodes, NEW tt, TraceOf(tt, n),
         \A k \in DOMAIN trace : SentInOrder(k),
         \A j \in DOMAIN tt : Sent(tt[j].line) < Goal(tt[j].line) /\ (j # 1 => Sent(tt[j].line) = 0)
  PROVE  /\ ShotEntry(tt) # 0 => ShotEntry(tt) = 1 /\ 1 \in DOMAIN tt
         /\ AfterShot(tt) = IF ShotEntry(tt) = 0 THEN tt ELSE Shoot(tt, 1)
         /\ 1 \in DOMAIN tt /\ Sent(tt[1].line) # 0 => ShotEntry(tt) = 1
         /\ (\E j \in DOMAIN tt : now >= tt[j].time) => ShotEntry(tt) = 1
<1> DEFINE f == FirstInUse(tt)
<1>1. DOMAIN tt = 1 .. Len(tt) /\ Len(tt) \in Nat
  BY EntriesOf
<1>2. \A j \in DOMAIN tt :
        LET k == tt[j].line
        IN  /\ k \in Lines(n) /\ k \in DOMAIN trace /\ k \in Int /\ getNodeId(trace[k].group) = n
            /\ trace[k].time \in Nat /\ tt[j].time = trace[k].time * StepCycles
            /\ Sent(k) \in Nat /\ Goal(k) \in Nat
            /\ tt[j].trace_usage = IF Sent(k) = 0 THEN UNUSED ELSE IN_USE
  <2> SUFFICES ASSUME NEW j \in DOMAIN tt, NEW k, k = tt[j].line
               PROVE  /\ k \in Lines(n) /\ k \in DOMAIN trace /\ k \in Int
                      /\ getNodeId(trace[k].group) = n
                      /\ trace[k].time \in Nat /\ tt[j].time = trace[k].time * StepCycles
                      /\ Sent(k) \in Nat /\ Goal(k) \in Nat
                      /\ tt[j].trace_usage = IF Sent(k) = 0 THEN UNUSED ELSE IN_USE
    OBVIOUS
  <2>1. k \in Lines(n) /\ tt[j] = Entry(k)
    BY EntriesOf
  <2>2. k \in DOMAIN trace /\ k \in Int /\ getNodeId(trace[k].group) = n
        /\ trace[k].time \in Nat /\ Goal(k) \in Nat
    BY <2>1, LinesAre
  <2>3. Sent(k) \in Nat
    BY <2>2 DEF SentInOrder, Sent
  <2> QED BY <2>1, <2>2, <2>3, EntryFields
<1>3. CASE f # 0
  <2>1. f \in DOMAIN tt /\ tt[f].trace_usage = IN_USE
    BY <1>1, <1>3, FirstInUseIs
  <2>2. f = 1
    BY <1>2, <2>1 DEF UNUSED, IN_USE
  <2>3. Collected(tt) = {}
    BY <1>1, <2>2 DEF Collected
  <2>4. ShotEntry(tt) = 1
    BY <2>2, <2>3 DEF ShotEntry
  <2>5. AfterShot(tt) = Shoot(tt, 1)
    BY <2>2, <2>3 DEF AfterShot, AfterScan
  <2> QED BY <2>1, <2>2, <2>4, <2>5
<1>4. CASE f = 0
  <2>1. \A j \in DOMAIN tt : Sent(tt[j].line) = 0 /\ tt[j].trace_usage = UNUSED
    <3>1. \A j \in DOMAIN tt : tt[j].trace_usage # IN_USE
      BY <1>1, <1>4, FirstInUseIs
    <3> QED BY <1>2, <3>1
  <2>2. Collected(tt) = { j \in DOMAIN tt : now >= tt[j].time }
    BY <1>4, <2>1 DEF Collected
  <2>3. AfterScan(tt) = tt
    BY <1>4 DEF AfterScan
  <2>4. CASE Collected(tt) = {}
    <3>1. \A j \in DOMAIN tt : ~(now >= tt[j].time)
      BY <2>2, <2>4
    <3> QED BY <1>4, <2>1, <2>3, <2>4, <3>1 DEF ShotEntry, AfterShot
  <2>5. CASE Collected(tt) # {}
    <3>1. PICK i \in DOMAIN tt : now >= tt[i].time
      BY <2>2, <2>5
    <3>2. 1 \in DOMAIN tt
      BY <1>1, <3>1
    <3>3. \A j \in DOMAIN tt : tt[j].time \in Nat /\ tt[1].time <= tt[j].time
      <4> SUFFICES ASSUME NEW j \in DOMAIN tt
                   PROVE  tt[j].time \in Nat /\ tt[1].time <= tt[j].time
        OBVIOUS
      <4> DEFINE k == tt[j].line
                 k1 == tt[1].line
      <4>1. j = 1 \/ k1 < k
        BY <1>1, <3>2 DEF TraceOf
      <4>2. node_map[trace[k].group] = n /\ node_map[trace[k1].group] = n
        BY <1>2, <3>2, LinesAre
      <4>3. k \in DOMAIN trace /\ k1 \in DOMAIN trace
        BY <1>2, <3>2
      <4>4. trace[k1].time <= trace[k].time
        <5>1. CASE j = 1
          BY <1>2, <3>2, <5>1
        <5>2. CASE k1 < k
          BY <4>2, <4>3, <5>2 DEF TablesInv, GoodFiles
        <5> QED BY <4>1, <5>1, <5>2
      <4>5. trace[k1].time * StepCycles <= trace[k].time * StepCycles
        BY <1>2, <3>2, <4>4, CyclesOrdered
      <4>6. trace[k].time * StepCycles \in Nat
        BY <1>2, SpikeTraceAssumption
      <4> QED BY <1>2, <3>2, <4>5, <4>6
    <3>4. 1 \in Collected(tt)
      BY <2>2, <3>1, <3>2, <3>3
    <3> DEFINE first(k) == \A j \in Collected(tt) \ {k} :
                 tt[k].time < tt[j].time \/ (tt[k].time = tt[j].time /\ k < j)
    <3>5. Collected(tt) \subseteq DOMAIN tt
      BY <2>2
    <3>6. first(1)
      BY <1>1, <3>2, <3>3, <3>5
    <3>7. ASSUME NEW k \in Collected(tt), first(k)
          PROVE  k = 1
      <4> SUFFICES ASSUME k # 1 PROVE FALSE
        OBVIOUS
      <4>1. tt[k].time < tt[1].time \/ (tt[k].time = tt[1].time /\ k < 1)
        BY <3>4, <3>7
      <4>2. tt[1].time <= tt[k].time /\ tt[k].time \in Nat /\ tt[1].time \in Nat /\ k \in Nat /\ ~(k < 1)
        BY <1>1, <3>2, <3>3, <3>5
      <4> QED BY <4>1, <4>2
    <3>8. arbitrate(tt) = 1
      <4>1. arbitrate(tt) = CHOOSE k \in Collected(tt) : first(k)
        BY DEF arbitrate
      <4> HIDE DEF first
      <4> QED BY <3>4, <3>6, <3>7, <4>1
    <3> QED BY <2>1, <2>3, <2>5, <3>2, <3>8 DEF ShotEntry, AfterShot
  <2> QED BY <2>4, <2>5
<1> QED BY <1>3, <1>4

-----------------------------------------------------------------------------
(* A cycle.                                                                 *)

(* A packet is made for line k in this cycle.                               *)
Fires(k) ==
  LET n == getNodeId(trace[k].group)
      e == Erased(traffic_trace[n])
  IN  n \in Shooter /\ ShotEntry(e) # 0 /\ e[1].line = k

(* The files and tables stay, and what is made of them.                     *)
LEMMA LinesStay ==
  ASSUME Cycle
  PROVE  /\ trace' = trace /\ node_map' = node_map
         /\ \A g : getDests(g)' = getDests(g) /\ getNodeId(g)' = getNodeId(g)
         /\ \A k : Goal(k)' = Goal(k) /\ CountDests(trace[k].group)' = CountDests(trace[k].group)
         /\ \A n : Lines(n)' = Lines(n)
<1>1. UNCHANGED <<node_map, connection, trace, neuron_table, dest_table>>
  BY DEF Cycle, files, tables
<1>2. \A g : /\ getDests(g)' = getDests(g) /\ getNodeId(g)' = getNodeId(g)
             /\ CountDests(g)' = CountDests(g)
  BY <1>1 DEF getDests, getNodeId, CountDests
<1>3. \A k : Goal(k)' = Goal(k) /\ CountDests(trace[k].group)' = CountDests(trace[k].group)
  BY <1>1, <1>2 DEF Goal
<1>4. \A n : Lines(n)' = Lines(n)
  BY <1>1, <1>2 DEF Lines
<1> QED BY <1>1, <1>2, <1>3, <1>4

(* The traces the scans leave.                                              *)
LEMMA Scanned ==
  ASSUME TraceInv, NEW n \in Nodes
  PROVE  LET e == Erased(traffic_trace[n])
         IN  /\ TraceOf(e, n)
             /\ \A j \in DOMAIN e : Sent(e[j].line) < Goal(e[j].line) /\ (j # 1 => Sent(e[j].line) = 0)
             /\ ShotEntry(e) # 0 => ShotEntry(e) = 1 /\ 1 \in DOMAIN e
             /\ AfterShot(e) = IF ShotEntry(e) = 0 THEN e ELSE Shoot(e, 1)
             /\ 1 \in DOMAIN e /\ Sent(e[1].line) # 0 => ShotEntry(e) = 1
             /\ (\E j \in DOMAIN e : now >= e[j].time) => ShotEntry(e) = 1
<1> DEFINE e == Erased(traffic_trace[n])
<1>1. /\ TablesInv /\ TraceOf(traffic_trace[n], n) /\ OneByOne(n) /\ now \in Nat
      /\ \A k \in DOMAIN trace : SentInOrder(k)
  BY DEF TraceInv
<1>2. TraceOf(e, n)
      /\ \A j \in DOMAIN e : Sent(e[j].line) < Goal(e[j].line) /\ (j # 1 => Sent(e[j].line) = 0)
  BY <1>1, ErasedTrace
<1> HIDE DEF e
<1>3. /\ ShotEntry(e) # 0 => ShotEntry(e) = 1 /\ 1 \in DOMAIN e
      /\ AfterShot(e) = IF ShotEntry(e) = 0 THEN e ELSE Shoot(e, 1)
      /\ 1 \in DOMAIN e /\ Sent(e[1].line) # 0 => ShotEntry(e) = 1
      /\ (\E j \in DOMAIN e : now >= e[j].time) => ShotEntry(e) = 1
  BY <1>1, <1>2, FirstShot
<1> QED BY <1>2, <1>3 DEF e

(* A packet is made for a line of a node that is not finished, when all     *)
(* lines of the node before it are.                                         *)
LEMMA FiringLine ==
  ASSUME TraceInv, NEW k \in DOMAIN trace, Fires(k)
  PROVE  LET n == getNodeId(trace[k].group)
         IN  /\ n \in Nodes /\ k \in Lines(n) /\ Sent(k) < Goal(k)
             /\ \A l \in Lines(n) : l < k => Sent(l) = Goal(l)
<1> DEFINE n == getNodeId(trace[k].group)
           e == Erased(traffic_trace[n])
<1>1. n \in Shooter /\ n \in Nodes /\ ShotEntry(e) # 0 /\ e[1].line = k
  BY DEF Fires, Shooter
<1>2. /\ TraceOf(e, n) /\ 1 \in DOMAIN e
      /\ \A j \in DOMAIN e : Sent(e[j].line) < Goal(e[j].line)
  BY <1>1, Scanned
<1> HIDE DEF e, n
<1>3. k \in Lines(n) /\ Sent(k) < Goal(k)
  BY <1>1, <1>2, EntriesOf
<1>4. ASSUME NEW l \in Lines(n), l < k, Sent(l) # Goal(l)
      PROVE  FALSE
  <2>1. l \in DOMAIN trace /\ l \in Int /\ k \in Int /\ Goal(l) \in Nat
    BY <1>3, LinesAre DEF TraceInv
  <2>2. Sent(l) \in Nat /\ Sent(l) <= Goal(l)
    BY <2>1 DEF TraceInv, SentInOrder, Sent
  <2>3. PICK j \in DOMAIN e : e[j].line = l
    BY <1>2, <1>4, <2>1, <2>2 DEF TraceOf
  <2>4. j = 1 \/ 1 < j
    BY <1>2, <2>3, EntriesOf
  <2>5. 1 < j => e[1].line < e[j].line
    BY <1>2, <2>3 DEF TraceOf
  <2> QED BY <1>1, <1>4, <2>1, <2>3, <2>4, <2>5
<1> QED BY <1>1, <1>3, <1>4 DEF n

(* A cycle makes one packet for each line that fires, for its next          *)
(* destination, and none for the others.                                    *)
LEMMA ShotsMade ==
  ASSUME TraceInv, Cycle, NEW k \in DOMAIN trace
  PROVE  /\ Fires(k) => shots'[k] = Append(shots[k], getDests(trace[k].group)[Sent(k) + 1])
         /\ ~Fires(k) => shots'[k] = shots[k]
<1> DEFINE tt == [n \in Shooter |-> Erased(traffic_trace[n])]
           Fired == { n \in Shooter : ShotEntry(tt[n]) # 0 /\ tt[n][ShotEntry(tt[n])].line = k }
           targets == { Dest(tt[n][ShotEntry(tt[n])]) : n \in Fired }
           node == getNodeId(trace[k].group)
           next == getDests(trace[k].group)[Sent(k) + 1]
<1>1. shots'[k] = shots[k] \o InOrder(targets)
  BY DEF Cycle, TraceInv
<1>2. shots[k] \in Seq(Nodes) /\ Sent(k) <= Goal(k) /\ Sent(k) \in Nat
  BY DEF TraceInv, SentInOrder, Sent
<1>3. ASSUME NEW n \in Fired
      PROVE  n = node /\ Fires(k) /\ Dest(tt[n][ShotEntry(tt[n])]) = next
  <2> DEFINE e == Erased(traffic_trace[n])
  <2>1. n \in Shooter /\ n \in Nodes /\ tt[n] = e
    BY DEF Shooter
  <2>2. ShotEntry(e) # 0 /\ e[ShotEntry(e)].line = k
    BY <2>1
  <2>3. TraceOf(e, n) /\ ShotEntry(e) = 1 /\ 1 \in DOMAIN e
    BY <2>1, <2>2, Scanned
  <2>4. k \in Lines(n) /\ e[1] = Entry(k) /\ e[1].line = k
    BY <2>2, <2>3, EntriesOf
  <2>5. n = node
    BY <2>4 DEF Lines
  <2>6. Fires(k)
    BY <2>1, <2>2, <2>4, <2>5 DEF Fires
  <2>7. Dest(e[1]) = next
    BY <2>4, EntryFields DEF Dest
  <2> QED BY <2>1, <2>3, <2>5, <2>6, <2>7
<1>4. Fires(k) => node \in Fired
  <2> SUFFICES ASSUME Fires(k) PROVE node \in Fired
    OBVIOUS
  <2> DEFINE e == Erased(traffic_trace[node])
  <2>1. node \in Shooter /\ node \in Nodes /\ ShotEntry(e) # 0 /\ e[1].line = k
    BY DEF Fires, Shooter
  <2>2. ShotEntry(e) = 1
    BY <2>1, Scanned
  <2>3. tt[node] = e
    BY <2>1
  <2> QED BY <2>1, <2>2, <2>3
<1>5. CASE Fires(k)
  <2>1. targets = {next}
    <3> HIDE DEF Fired, tt, node, next
    <3> QED BY <1>3, <1>4, <1>5
  <2>2. next \in Nodes
    <3>1. Sent(k) < Goal(k) /\ trace[k].group \in Group
      BY <1>5, FiringLine, LinesAre DEF TraceInv
    <3>2. getDests(trace[k].group) \in Seq(Nodes)
      BY <3>1, Destinations DEF TraceInv
    <3>3. Sent(k) + 1 \in 1 .. Len(getDests(trace[k].group))
      BY <1>2, <3>1, <3>2 DEF Goal
    <3> QED BY <3>2, <3>3
  <2>3. InOrder(targets) = <<next>>
    <3>1. next \in Int
      BY <2>2, SpikeTraceAssumption
    <3> HIDE DEF targets, next
    <3> QED BY <2>1, <3>1, InOrderOfOne
  <2> HIDE DEF targets, next
  <2>4. shots[k] \o <<next>> = Append(shots[k], next)
    BY <1>2, <2>2
  <2> QED BY <1>1, <1>5, <2>3, <2>4 DEF next
<1>6. CASE ~Fires(k)
  <2>1. targets = {}
    <3> HIDE DEF Fired, tt, node, next
    <3>1. Fired = {}
      BY <1>3, <1>6
    <3> QED BY <3>1
  <2>2. InOrder(targets) = <<>>
    <3> HIDE DEF targets
    <3> QED BY <2>1, InOrderOfNone
  <2> HIDE DEF targets
  <2>3. shots[k] \o <<>> = shots[k]
    BY <1>2
  <2> QED BY <1>1, <1>6, <2>2, <2>3
<1> QED BY <1>5, <1>6

(* How many packets are made for a line: one more if it fires.              *)
LEMMA SentAfter ==
  ASSUME TraceInv, Cycle, NEW k \in DOMAIN trace
  PROVE  /\ Sent(k) \in Nat /\ Goal(k) \in Nat /\ Sent(k) <= Goal(k)
         /\ Sent(k)' = IF Fires(k) THEN Sent(k) + 1 ELSE Sent(k)
         /\ SentInOrder(k)'
<1> DEFINE dests == getDests(trace[k].group)
<1>1. shots[k] \in Seq(Nodes) /\ Sent(k) <= Goal(k) /\ Sent(k) \in Nat
      /\ \A j \in 1 .. Sent(k) : shots[k][j] = dests[j]
  BY DEF TraceInv, SentInOrder, Sent
<1>2. dests \in Seq(Nodes) /\ Goal(k) = Len(dests) /\ Goal(k) \in Nat
  BY LinesAre, Destinations DEF TraceInv, Goal
<1>3. /\ Goal(k)' = Goal(k)
      /\ getDests(trace[k].group)' = dests
  BY LinesStay DEF getDests
<1>4. CASE Fires(k)
  <2>1. Sent(k) < Goal(k)
    BY <1>4, FiringLine
  <2>2. shots'[k] = Append(shots[k], dests[Sent(k) + 1]) /\ dests[Sent(k) + 1] \in Nodes
    <3>1. Sent(k) + 1 \in 1 .. Len(dests)
      BY <1>1, <1>2, <2>1
    <3> QED BY <1>2, <1>4, <3>1, ShotsMade
  <2> HIDE DEF dests
  <2>3. /\ shots'[k] \in Seq(Nodes) /\ Len(shots'[k]) = Sent(k) + 1
        /\ \A j \in 1 .. Sent(k) + 1 : shots'[k][j] = dests[j]
    BY <1>1, <2>2 DEF Sent
  <2> QED BY <1>1, <1>2, <1>3, <1>4, <2>1, <2>3 DEF SentInOrder, Sent
<1>5. CASE ~Fires(k)
  <2>1. shots'[k] = shots[k]
    BY <1>5, ShotsMade
  <2> HIDE DEF dests
  <2> QED BY <1>1, <1>2, <1>3, <1>5, <2>1 DEF SentInOrder, Sent
<1> QED BY <1>4, <1>5

(* Lines still begin only when those before them are finished.              *)
LEMMA OrderStays ==
  ASSUME TraceInv, Cycle, NEW n \in Nodes
  PROVE  OneByOne(n)'
<1> SUFFICES ASSUME NEW k \in Lines(n), NEW l \in Lines(n), l < k, Sent(k)' # 0
             PROVE  Sent(l)' = Goal(l)'
  BY LinesStay DEF OneByOne
<1>1. k \in DOMAIN trace /\ l \in DOMAIN trace /\ getNodeId(trace[k].group) = n
  BY DEF Lines
<1>2. Sent(l) = Goal(l)
  <2>1. CASE Fires(k)
    BY <1>1, <2>1, FiringLine
  <2>2. CASE ~Fires(k)
    <3>1. Sent(k) # 0
      BY <1>1, <2>2, SentAfter
    <3> QED BY <3>1 DEF TraceInv, OneByOne
  <2> QED BY <2>1, <2>2
<1>3. ~Fires(l)
  BY <1>1, <1>2, FiringLine, SentAfter
<1> QED BY <1>1, <1>2, <1>3, SentAfter, LinesStay

(* A line for which nothing is sent keeps its entry.                        *)
LEMMA EntryStays ==
  ASSUME TraceInv, Cycle, NEW k \in DOMAIN trace, ~Fires(k)
  PROVE  Entry(k)' = Entry(k)
<1>1. shots'[k] = shots[k]
  BY ShotsMade
<1>2. Sent(k)' = Sent(k) /\ Goal(k)' = Goal(k) /\ trace' = trace
      /\ CountDests(trace[k].group)' = CountDests(trace[k].group)
  BY <1>1, LinesStay DEF Sent
<1> QED BY <1>2 DEF Entry, UNUSED, IN_USE, USED

(* A line that fires has the entry that is shot.                            *)
LEMMA EntryShot ==
  ASSUME TraceInv, Cycle, NEW k \in DOMAIN trace, Fires(k), NEW tt,
         1 \in DOMAIN tt, tt[1] = Entry(k)
  PROVE  /\ DOMAIN Shoot(tt, 1) = DOMAIN tt
         /\ Shoot(tt, 1)[1] = Entry(k)'
         /\ \A j \in DOMAIN tt \ {1} : Shoot(tt, 1)[j] = tt[j]
<1>1. Sent(k) \in Nat /\ Goal(k) \in Nat /\ Sent(k) < Goal(k)
      /\ Sent(k)' = Sent(k) + 1 /\ Goal(k)' = Goal(k) /\ trace' = trace
      /\ CountDests(trace[k].group)' = CountDests(trace[k].group)
  BY SentAfter, FiringLine, LinesStay
<1>2. tt[1].dest_sent = Sent(k) /\ tt[1].no_dst = Goal(k)
  <2>1. CountDests(trace[k].group) = Goal(k)
    BY LinesAre DEF TraceInv
  <2> QED BY <2>1, EntryFields
<1> DEFINE usage(sent) == IF sent = 0 THEN UNUSED ELSE IF sent < Goal(k) THEN IN_USE ELSE USED
           last == IF Sent(k) + 1 >= Goal(k) THEN USED ELSE IN_USE
           with(u, sent) == [line |-> k, time |-> trace[k].time * StepCycles,
                             group_src |-> trace[k].group, no_dst |-> CountDests(trace[k].group),
                             trace_usage |-> u, dest_sent |-> sent]
<1>3. /\ DOMAIN Shoot(tt, 1) = DOMAIN tt
      /\ \A j \in DOMAIN tt \ {1} : Shoot(tt, 1)[j] = tt[j]
      /\ Shoot(tt, 1)[1] = [[tt[1] EXCEPT !.dest_sent = Sent(k) + 1] EXCEPT !.trace_usage = last]
  BY <1>2 DEF Shoot
<1>4. tt[1] = with(usage(Sent(k)), Sent(k))
  BY DEF Entry
<1>5. Entry(k)' = with(last, Sent(k) + 1)
  <2>1. usage(Sent(k) + 1) = last
    BY <1>1
  <2>2. Entry(k)' = with(usage(Sent(k) + 1), Sent(k) + 1)
    BY <1>1 DEF Entry, UNUSED, IN_USE, USED
  <2> HIDE DEF usage, last, with
  <2> QED BY <2>1, <2>2
<1>6. [tt[1] EXCEPT !.dest_sent = Sent(k) + 1] = with(usage(Sent(k)), Sent(k) + 1)
  <2> HIDE DEF usage
  <2> QED BY <1>4
<1>7. [with(usage(Sent(k)), Sent(k) + 1) EXCEPT !.trace_usage = last] = with(last, Sent(k) + 1)
  <2> HIDE DEF usage, last
  <2> QED OBVIOUS
<1> QED BY <1>3, <1>5, <1>6, <1>7

(* What a cycle leaves for a node is a trace again.                         *)
LEMMA TraceStays ==
  ASSUME TraceInv, Cycle, NEW n \in Nodes
  PROVE  TraceOf(traffic_trace[n], n)'
<1>0. PICK e : e = Erased(traffic_trace[n])
  OBVIOUS
<1>1. /\ \A k \in Lines(n) : k \in DOMAIN trace /\ getNodeId(trace[k].group) = n
      /\ Lines(n)' = Lines(n) /\ \A k : Goal(k)' = Goal(k)
      /\ \A k \in Lines(n) : Sent(k)' < Goal(k)' => Sent(k) < Goal(k)
  <2>1. \A k \in Lines(n) : k \in DOMAIN trace /\ getNodeId(trace[k].group) = n
    BY DEF Lines
  <2> QED BY <2>1, SentAfter, LinesStay
<1>2. traffic_trace'[n] = IF n \in Shooter THEN AfterShot(e) ELSE traffic_trace[n]
  BY <1>0 DEF Cycle
<1>3. /\ TraceOf(e, n) /\ TraceOf(traffic_trace[n], n)
      /\ ShotEntry(e) # 0 => ShotEntry(e) = 1 /\ 1 \in DOMAIN e
      /\ AfterShot(e) = IF ShotEntry(e) = 0 THEN e ELSE Shoot(e, 1)
  BY <1>0, Scanned DEF TraceInv
<1>4. ASSUME NEW tt, TraceOf(tt, n), traffic_trace'[n] = tt, \A k \in Lines(n) : ~Fires(k)
      PROVE  TraceOf(traffic_trace[n], n)'
  <2>1. \A k \in Lines(n) : Entry(k)' = Entry(k)
    BY <1>1, <1>4, EntryStays
  <2>2. { Entry(k)' : k \in Lines(n) } = { Entry(k) : k \in Lines(n) }
    BY <2>1
  <2>3. tt \in Seq({ Entry(k)' : k \in Lines(n)' })
    BY <1>1, <1>4, <2>2 DEF TraceOf
  <2> QED BY <1>1, <1>4, <2>3 DEF TraceOf
<1>5. CASE n \notin Shooter
  <2>1. \A k \in Lines(n) : ~Fires(k)
    BY <1>1, <1>5 DEF Fires
  <2> QED BY <1>2, <1>3, <1>4, <1>5, <2>1
<1>6. CASE n \in Shooter /\ ShotEntry(e) = 0
  <2>1. \A k \in Lines(n) : ~Fires(k)
    BY <1>0, <1>1, <1>6 DEF Fires
  <2> QED BY <1>2, <1>3, <1>4, <1>6, <2>1
<1>7. CASE n \in Shooter /\ ShotEntry(e) # 0
  <2>0. PICK k1 : k1 = e[1].line
    OBVIOUS
  <2> DEFINE s == Shoot(e, 1)
  <2>1. /\ 1 \in DOMAIN e /\ DOMAIN e = 1 .. Len(e) /\ Len(e) \in Nat
        /\ \A j \in DOMAIN e : e[j].line \in Lines(n) /\ e[j] = Entry(e[j].line)
        /\ \A i, j \in DOMAIN e : i < j => e[i].line < e[j].line
    BY <1>3, <1>7, EntriesOf DEF TraceOf
  <2>2. \A k \in Lines(n) : Fires(k) <=> k = k1
    BY <1>0, <1>1, <1>7, <2>0 DEF Fires
  <2>3. k1 \in Lines(n) /\ k1 \in DOMAIN trace /\ Fires(k1) /\ e[1] = Entry(k1)
    BY <1>1, <2>0, <2>1, <2>2
  <2>4. /\ DOMAIN s = DOMAIN e /\ s[1] = Entry(k1)'
        /\ \A j \in DOMAIN e \ {1} : s[j] = e[j]
    BY <2>1, <2>3, EntryShot
  <2>5. traffic_trace'[n] = s
    BY <1>2, <1>3, <1>7
  <2>6. \A k : Entry(k)'.line = k
    BY DEF Entry
  <2> HIDE DEF s
  <2>7. \A j \in DOMAIN e : s[j].line = e[j].line /\ s[j] = Entry(e[j].line)'
    <3> SUFFICES ASSUME NEW j \in DOMAIN e
                 PROVE  s[j].line = e[j].line /\ s[j] = Entry(e[j].line)'
      OBVIOUS
    <3>1. CASE j = 1
      BY <2>0, <2>4, <2>6, <3>1
    <3>2. CASE j # 1
      <4>1. 1 < j
        BY <2>1, <3>2
      <4>2. e[j].line # k1 /\ e[j].line \in Lines(n)
        <5>1. k1 < e[j].line /\ k1 \in Int /\ e[j].line \in Int
          BY <2>0, <2>1, <2>3, <4>1, LinesAre DEF TraceInv
        <5> QED BY <2>1, <5>1
      <4>3. Entry(e[j].line)' = Entry(e[j].line)
        BY <1>1, <2>2, <4>2, EntryStays
      <4> QED BY <2>1, <2>4, <3>2, <4>3
    <3> QED BY <3>1, <3>2
  <2>8. s \in Seq({ Entry(k)' : k \in Lines(n)' })
    <3> DEFINE T == { Entry(k)' : k \in Lines(n)' }
    <3>1. ASSUME NEW j \in 1 .. Len(e) PROVE s[j] \in T
      <4>1. s[j] = Entry(e[j].line)' /\ e[j].line \in Lines(n)'
        BY <1>1, <2>1, <2>7
      <4> QED BY <4>1
    <3>2. s = [j \in 1 .. Len(e) |-> s[j]]
      BY <2>1, <2>4 DEF s, Shoot
    <3>3. s \in Seq(T)
      <4> HIDE DEF T
      <4> QED BY <2>1, <3>1, <3>2
    <3> QED BY <3>3
  <2>9. \A i, j \in DOMAIN s : i < j => s[i].line < s[j].line
    BY <2>1, <2>4, <2>7
  <2>10. \A k \in Lines(n)' : Sent(k)' < Goal(k)' => \E j \in DOMAIN s : s[j].line = k
    BY <1>1, <1>3, <2>4, <2>7 DEF TraceOf
  <2> QED BY <2>5, <2>8, <2>9, <2>10 DEF TraceOf
<1> QED BY <1>5, <1>6, <1>7

-----------------------------------------------------------------------------
(* The invariant.                                                           *)

(* At first the traces are what was loaded, and no packet has been made.    *)
LEMMA TraceInitial == Init /\ GoodFiles => TraceInv
<1> SUFFICES ASSUME Init, GoodFiles PROVE TraceInv
  OBVIOUS
<1>1. TablesInv
  BY TablesInitial
<1>2. \A k \in DOMAIN trace : shots[k] = <<>> /\ Sent(k) = 0 /\ Goal(k) \in Nat
  BY <1>1, LinesAre DEF Init, Sent
<1>3. \A k \in DOMAIN trace : SentInOrder(k)
  <2> SUFFICES ASSUME NEW k \in DOMAIN trace PROVE SentInOrder(k)
    OBVIOUS
  <2>1. shots[k] = <<>> /\ Sent(k) = 0 /\ Goal(k) \in Nat
    BY <1>2
  <2>2. shots[k] \in Seq(Nodes)
    BY <2>1
  <2> QED BY <2>1, <2>2 DEF SentInOrder
<1>4. \A k \in DOMAIN trace : Entry(k) = Communication(k)
  BY <1>2 DEF Entry, Communication
<1>5. ASSUME NEW n \in Nodes
      PROVE  TraceOf(traffic_trace[n], n) /\ OneByOne(n)
  <2> DEFINE L == Lines(n)
             c == Cardinality(L)
             at == InOrder(L)
             tt == traffic_trace[n]
  <2>1. IsFiniteSet(L) /\ L \in SUBSET Int /\ L \subseteq DOMAIN trace
    BY <1>1, LinesAre
  <2>2. tt = [j \in 1 .. c |-> Communication(at[j])]
    BY DEF Init, Load
  <2> HIDE DEF L, tt
  <2>3. /\ c \in Nat /\ at \in [1 .. c -> L]
        /\ \A x \in L : \E j \in 1 .. c : at[j] = x
        /\ \A i, j \in 1 .. c : i < j => at[i] < at[j]
    BY <2>1, InOrderLists
  <2> HIDE DEF c, at
  <2>4. DOMAIN tt = 1 .. c /\ \A j \in 1 .. c : at[j] \in L /\ tt[j] = Entry(at[j]) /\ tt[j].line = at[j]
    <3>1. DOMAIN tt = 1 .. c /\ \A j \in 1 .. c : at[j] \in L /\ tt[j] = Communication(at[j])
      BY <2>2, <2>3
    <3>2. \A j \in 1 .. c : tt[j] = Entry(at[j])
      BY <1>4, <2>1, <3>1
    <3> QED BY <3>1, <3>2, EntryFields
  <2>5. tt \in Seq({ Entry(k) : k \in L })
    <3> DEFINE T == { Entry(k) : k \in L }
    <3>1. \A j \in 1 .. c : Communication(at[j]) \in T
      BY <2>2, <2>4
    <3>2. tt \in Seq(T)
      <4> HIDE DEF T
      <4> QED BY <2>2, <2>3, <3>1
    <3> QED BY <3>2
  <2>6. TraceOf(tt, n)
    BY <2>3, <2>4, <2>5 DEF TraceOf, L
  <2>7. OneByOne(n)
    BY <1>2, <2>1 DEF OneByOne, L
  <2> QED BY <2>6, <2>7 DEF tt
<1> QED BY <1>1, <1>3, <1>5 DEF TraceInv, Init

(* Every cycle keeps them traces.                                           *)
LEMMA TraceStep == TraceInv /\ [Next]_vars => TraceInv'
<1> SUFFICES ASSUME TraceInv, [Next]_vars PROVE TraceInv'
  OBVIOUS
<1>1. TablesInv'
  BY TablesStay DEF TraceInv
<1>2. CASE Cycle
  <2>1. DOMAIN shots' = DOMAIN trace' /\ trace' = trace /\ now' \in Nat
    BY <1>2 DEF Cycle, TraceInv, files
  <2>2. \A k \in DOMAIN trace' : SentInOrder(k)'
    BY <1>2, <2>1, SentAfter
  <2>3. \A n \in Nodes : TraceOf(traffic_trace[n], n)'
    BY <1>2, TraceStays
  <2>4. \A n \in Nodes : OneByOne(n)'
    BY <1>2, OrderStays
  <2> QED BY <1>1, <2>1, <2>2, <2>3, <2>4 DEF TraceInv
<1>3. CASE UNCHANGED vars
  <2>1. UNCHANGED <<node_map, connection, trace, neuron_table, dest_table, traffic_trace, now, shots>>
    BY <1>3 DEF vars, files, tables
  <2>2. \A g : getDests(g)' = getDests(g) /\ getNodeId(g)' = getNodeId(g)
               /\ CountDests(g)' = CountDests(g)
    BY <2>1 DEF getDests, getNodeId, CountDests
  <2>3. \A k : Goal(k)' = Goal(k) /\ Sent(k)' = Sent(k)
    BY <2>1, <2>2 DEF Goal, Sent
  <2>4. \A n : Lines(n)' = Lines(n)
    BY <2>1, <2>2 DEF Lines
  <2>5. \A k : Entry(k)' = Entry(k)
    BY <2>1, <2>2, <2>3 DEF Entry, UNUSED, IN_USE, USED
  <2>6. \A k \in DOMAIN trace : SentInOrder(k)'
    BY <2>1, <2>2, <2>3 DEF SentInOrder, TraceInv
  <2>7. ASSUME NEW n \in Nodes
        PROVE  TraceOf(traffic_trace[n], n)'
    <3>1. { Entry(k)' : k \in Lines(n)' } = { Entry(k) : k \in Lines(n) }
      BY <2>4, <2>5
    <3> QED BY <2>1, <2>3, <2>4, <3>1 DEF TraceOf, TraceInv
  <2>8. \A n \in Nodes : OneByOne(n)'
    BY <2>3, <2>4 DEF OneByOne, TraceInv
  <2> QED BY <1>1, <2>1, <2>6, <2>7, <2>8 DEF TraceInv
<1> QED BY <1>2, <1>3 DEF Next

(* Packets are made for one line after the other.                           *)
THEOREM TraceInvariance == Spec /\ GoodFiles => []TraceInv
<1>1. Init /\ GoodFiles => TraceInv
  BY TraceInitial
<1>2. TraceInv /\ [Next]_vars => TraceInv'
  BY TraceStep
<1> QED BY <1>1, <1>2, PTL DEF Spec

(* A line of which the trace has no entry, or a used one, is finished.      *)
LEMMA Finished ==
  ASSUME TraceInv, NEW k \in DOMAIN trace
  PROVE  ~Open(k) <=> Sent(k) = Goal(k)
<1> DEFINE node == getNodeId(trace[k].group)
<1>1. /\ Sent(k) \in Nat /\ Goal(k) \in Nat /\ Sent(k) <= Goal(k)
      /\ node \in Nodes /\ (Goal(k) # 0 => k \in Lines(node))
      /\ SentInOrder(k)
  BY LinesAre DEF TraceInv, SentInOrder, Sent
<1>2. \A n \in Nodes : TraceOf(traffic_trace[n], n)
  BY DEF TraceInv
<1>3. ASSUME Open(k)
      PROVE  Sent(k) # Goal(k)
  <2>0. PICK n \in Nodes : \E j \in DOMAIN traffic_trace[n] :
          traffic_trace[n][j].line = k /\ traffic_trace[n][j].trace_usage # USED
    BY <1>3 DEF Open
  <2>1. PICK j \in DOMAIN traffic_trace[n] :
          traffic_trace[n][j].line = k /\ traffic_trace[n][j].trace_usage # USED
    BY <2>0
  <2>2. k \in Lines(n) /\ traffic_trace[n][j] = Entry(k)
    BY <1>2, <2>1, EntriesOf
  <2>3. Goal(k) # 0
    BY <2>2, LinesAre DEF TraceInv
  <2> QED BY <1>1, <2>1, <2>2, <2>3, EntryFields
<1>4. ASSUME Sent(k) # Goal(k)
      PROVE  Open(k)
  <2>1. Sent(k) < Goal(k) /\ k \in Lines(node)
    BY <1>1, <1>4
  <2>2. PICK j \in DOMAIN traffic_trace[node] : traffic_trace[node][j].line = k
    BY <1>1, <1>2, <2>1 DEF TraceOf
  <2>3. traffic_trace[node][j] = Entry(k)
    BY <1>1, <1>2, <2>2, EntriesOf
  <2>4. traffic_trace[node][j].trace_usage # USED
    BY <2>1, <2>3, EntryFields DEF UNUSED, IN_USE, USED
  <2> QED BY <1>1, <2>2, <2>4 DEF Open
<1> QED BY <1>3, <1>4

(* With good files, when the trace is done with a line its spike has been   *)
(* sent to every node that holds a destination cluster, once, and to no     *)
(* other.                                                                   *)
THEOREM SentToEachOnce == Spec /\ GoodFiles => []EveryDestinationOnce
<1>1. TraceInv => EveryDestinationOnce
  <2> SUFFICES ASSUME TraceInv, NEW k \in DOMAIN trace, ~Open(k)
               PROVE  /\ { shots[k][j] : j \in DOMAIN shots[k] } = MustReach(trace[k].group)
                      /\ IsInjective(shots[k])
    BY DEF EveryDestinationOnce
  <2> DEFINE dests == getDests(trace[k].group)
  <2>1. Sent(k) = Goal(k)
    BY Finished
  <2>2. trace[k].group \in Group /\ TablesInv
    BY LinesAre DEF TraceInv
  <2>3. /\ dests \in Seq(Nodes) /\ IsInjective(dests)
        /\ { dests[j] : j \in DOMAIN dests } = MustReach(trace[k].group)
    BY <2>2, Destinations
  <2>4. shots[k] = dests
    <3>1. shots[k] \in Seq(Nodes) /\ \A j \in 1 .. Len(shots[k]) : shots[k][j] = dests[j]
      BY DEF TraceInv, SentInOrder, Sent
    <3>2. Len(shots[k]) = Len(dests)
      BY <2>1 DEF Sent, Goal
    <3> HIDE DEF dests
    <3> QED BY <2>3, <3>1, <3>2
  <2> QED BY <2>3, <2>4
<1> QED BY <1>1, TraceInvariance, PTL

(* With good files, the spikes of a node leave in the order of their times, *)
(* although arbitrate sees only the entries before the one in use.          *)
THEOREM SentInTimeOrder == Spec /\ GoodFiles => []LeaveInTimeOrder
<1>1. TraceInv => LeaveInTimeOrder
  <2> SUFFICES ASSUME TraceInv, NEW n \in Nodes, NEW i \in DOMAIN trace, NEW j \in DOMAIN trace,
                      getNodeId(trace[i].group) = n, getNodeId(trace[j].group) = n,
                      trace[i].time < trace[j].time, shots[j] # <<>>, Open(i)
               PROVE  FALSE
    BY DEF LeaveInTimeOrder
  <2>1. /\ i \in Int /\ j \in Int /\ trace[i].time \in Nat /\ trace[j].time \in Nat
        /\ node_map[trace[i].group] = n /\ node_map[trace[j].group] = n
        /\ Goal(i) \in Nat /\ Goal(j) \in Nat
        /\ (Goal(i) # 0 => i \in Lines(n)) /\ (Goal(j) # 0 => j \in Lines(n))
    BY LinesAre DEF TraceInv
  <2>2. Sent(i) # Goal(i) /\ Sent(i) \in Nat /\ Sent(i) <= Goal(i)
    BY Finished DEF TraceInv, SentInOrder, Sent
  <2>3. Sent(j) # 0 /\ Sent(j) \in Nat /\ Sent(j) <= Goal(j)
    BY DEF TraceInv, SentInOrder, Sent
  <2>4. i < j
    <3>1. ~(j < i)
      BY <2>1 DEF TraceInv, TablesInv, GoodFiles
    <3>2. i # j
      BY <2>1
    <3> QED BY <2>1, <3>1, <3>2
  <2>5. i \in Lines(n) /\ j \in Lines(n)
    BY <2>1, <2>2, <2>3
  <2> QED BY <2>2, <2>3, <2>4, <2>5 DEF TraceInv, OneByOne
<1> QED BY <1>1, TraceInvariance, PTL

(* With good files, no packet comes between those of one spike: the next of *)
(* the node is for the entry in use, and no other entry is shot with it.    *)
THEOREM InUseComesFirst == Spec /\ GoodFiles => InUseFirst
<1> DEFINE A == \A n \in Shooter : \A j \in DOMAIN traffic_trace[n] :
                  traffic_trace[n][j].trace_usage = IN_USE
                    => LET k == traffic_trace[n][j].line IN Len(shots'[k]) = Len(shots[k]) + 1
<1>1. TraceInv /\ [Next]_vars => [A]_vars
  <2> SUFFICES ASSUME TraceInv, Cycle, NEW n \in Shooter, NEW j \in DOMAIN traffic_trace[n],
                      traffic_trace[n][j].trace_usage = IN_USE, NEW k,
                      k = traffic_trace[n][j].line
               PROVE  Len(shots'[k]) = Len(shots[k]) + 1
    BY DEF Next
  <2> DEFINE e == Erased(traffic_trace[n])
  <2>1. n \in Nodes /\ TraceOf(traffic_trace[n], n)
    BY DEF Shooter, TraceInv
  <2>2. k \in Lines(n) /\ traffic_trace[n][j] = Entry(k)
    BY <2>1, EntriesOf
  <2>3. k \in DOMAIN trace /\ getNodeId(trace[k].group) = n
    BY <2>2 DEF Lines
  <2>4. Sent(k) # 0 /\ Sent(k) < Goal(k)
    BY <2>2, EntryFields DEF UNUSED, IN_USE, USED
  <2>5. /\ TraceOf(e, n)
        /\ \A i \in DOMAIN e : i # 1 => Sent(e[i].line) = 0
        /\ 1 \in DOMAIN e /\ Sent(e[1].line) # 0 => ShotEntry(e) = 1
    BY <2>1, Scanned
  <2> HIDE DEF e
  <2>6. PICK i \in DOMAIN e : e[i].line = k
    BY <2>2, <2>4, <2>5 DEF TraceOf
  <2>7. 1 \in DOMAIN e /\ e[1].line = k /\ ShotEntry(e) = 1
    BY <2>4, <2>5, <2>6
  <2>8. Fires(k)
    BY <2>3, <2>7 DEF Fires, e
  <2> QED BY <2>3, <2>8, SentAfter DEF Sent
<1>2. Spec /\ GoodFiles => [][A]_vars
  BY <1>1, TraceInvariance, PTL DEF Spec
<1> QED BY <1>2 DEF InUseFirst

(* A node never waits: with good files, a cycle in which a line of the node *)
(* is due and not finished makes a packet for one of its lines.  Nothing    *)
(* else delays a spike, so each leaves after as many cycles as it and the   *)
(* lines before it have destinations.                                       *)
THEOREM NeverIdle ==
  Spec /\ GoodFiles =>
    [][ \A n \in Shooter :
          (\E k \in Lines(n) : Sent(k) < Goal(k) /\ now >= trace[k].time * StepCycles)
            => \E k \in Lines(n) : Len(shots'[k]) = Len(shots[k]) + 1 ]_vars
<1> DEFINE A == \A n \in Shooter :
                  (\E k \in Lines(n) : Sent(k) < Goal(k) /\ now >= trace[k].time * StepCycles)
                    => \E k \in Lines(n) : Len(shots'[k]) = Len(shots[k]) + 1
<1>1. TraceInv /\ [Next]_vars => [A]_vars
  <2> SUFFICES ASSUME TraceInv, Cycle, NEW n \in Shooter, NEW k \in Lines(n),
                      Sent(k) < Goal(k), now >= trace[k].time * StepCycles
               PROVE  \E l \in Lines(n) : Len(shots'[l]) = Len(shots[l]) + 1
    BY DEF Next
  <2> DEFINE e == Erased(traffic_trace[n])
  <2>1. n \in Nodes
    BY DEF Shooter
  <2>2. /\ TraceOf(e, n)
        /\ ShotEntry(e) # 0 => ShotEntry(e) = 1 /\ 1 \in DOMAIN e
        /\ (\E j \in DOMAIN e : now >= e[j].time) => ShotEntry(e) = 1
    BY <2>1, Scanned
  <2> HIDE DEF e
  <2>3. PICK j \in DOMAIN e : e[j].line = k
    BY <2>2 DEF TraceOf
  <2>4. e[j].time = trace[k].time * StepCycles
    BY <2>2, <2>3, EntriesOf, EntryFields
  <2>5. ShotEntry(e) = 1 /\ 1 \in DOMAIN e
    BY <2>2, <2>3, <2>4
  <2>6. PICK l : l = e[1].line
    OBVIOUS
  <2>7. l \in Lines(n)
    BY <2>2, <2>5, <2>6, EntriesOf
  <2>8. l \in DOMAIN trace /\ getNodeId(trace[l].group) = n
    BY <2>7 DEF Lines
  <2>9. Fires(l)
    BY <2>5, <2>6, <2>8 DEF Fires, e
  <2> QED BY <2>7, <2>8, <2>9, SentAfter DEF Sent
<1>2. Spec /\ GoodFiles => [][A]_vars
  BY <1>1, TraceInvariance, PTL DEF Spec
<1> QED BY <1>2
=============================================================================
