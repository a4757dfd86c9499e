--------------------------------- MODULE NoC ---------------------------------
(***************************************************************************)
(* The wired network of snnNoxim: a DimX x DimY mesh of tiles, each a      *)
(* router and a processing element (PE), joined by alternating-bit links.  *)
(*                                                                         *)
(* SystemC runs every process once per clock edge, in an order it does not *)
(* specify; a process reads the values signals had before the edge, and    *)
(* what it writes is seen after the last process has run.  Here sig holds  *)
(* the values that can be read, wr the values written, todo the processes  *)
(* that have not run in this edge, and ClockEdge is the update phase.      *)
(***************************************************************************)
EXTENDS Routing, Sequences, FiniteSets

CONSTANTS
  RoutingAlgorithms, \* the values GlobalParams::routing_algorithm may be given
  BufferDepth,       \* GlobalParams::buffer_depth
  RouterCycle,       \* GlobalParams::router_cycle
  NumPackets,        \* bound: how many packets the PEs generate
  Src, Dst, Size,    \* of each packet: its PE, its destination, its flits
  Times,             \* the cycles in which a packet may become due
  InitLevels,        \* what an alternating-bit level may hold at the start
  ProcessOrder       \* the orders in which processes run, see MayRun

Packet == 1 .. NumPackets

ASSUME NoCAssumption ==
  /\ RoutingAlgorithms \subseteq Algorithm
  /\ BufferDepth \in Nat \ {0}
  /\ RouterCycle \in Nat
  /\ NumPackets \in Nat
  /\ Src \in [Packet -> Node]
  /\ Dst \in [Packet -> Node]
  /\ Size \in [Packet -> Nat \ {0}]
  /\ \A p \in Packet : Src[p] # Dst[p]
  /\ Times \subseteq Nat
  /\ InitLevels \subseteq {0, 1}
  /\ ProcessOrder \in {"rxFirst", "txFirst", "either", "any"}

NOT_RESERVED == -2
NOT_VALID    == -1

(* A flit is the seq-th of its packet; NoFlit is what a signal holds before *)
(* anything was written to it.                                              *)
Flit   == [pkt : Packet, seq : Nat, hop_no : Nat]
NoFlit == [pkt |-> 0, seq |-> 0, hop_no |-> 0]

IsHead(f) == f.seq = 0
IsLast(f) == f.seq = Size[f.pkt] - 1   \* a TAIL, or the only flit

(* A link is named by the end that transmits: the output port of a router,  *)
(* or the PE, whose output is written PE.                                   *)
PE == 6
Link ==
  { l \in Node \X (Port \union {PE}) :
      l[2] \in Direction => HasNeighbor(l[1], l[2]) }

InLink(n, i) ==
  IF i = DIRECTION_LOCAL THEN <<n, PE>>
  ELSE <<getNeighborId(n, i), reflexDirection(i)>>

InPort(n) == { i \in Port : i \in Direction => HasNeighbor(n, i) }

Proc == {"routerRx", "routerTx", "peRx", "peTx"}

VARIABLES
  buffer,           \* Router::buffer and buf: per input port, flits with their r_time
  rtable,           \* ReservationTable::rtable: output port -> input port
  start_from_port,  \* Router::start_from_port, modulo DIRECTIONS + 2
  packet_queue,     \* ProcessingElement::packet_queue
  received,         \* what PE::rxProcess has taken from the network
  unsent,           \* the packets canShot has not yet fired
  due,              \* the trace: the cycle from which a packet may be fired
  routing_algorithm, \* GlobalParams::routing_algorithm, chosen for the whole simulation
  now,              \* sc_time_stamp in cycles, counted up to the last due time
  level_tx,         \* current_level_tx of the transmitting end of a link
  level_rx,         \* current_level_rx of the receiving end
  sig,              \* readable values of the signals req, flit, ack of a link
  wr,               \* values written to them
  todo              \* the processes still to run in this clock edge

routerVars == <<buffer, rtable, start_from_port>>
peVars     == <<packet_queue, received, unsent>>
clockVars  == <<due, routing_algorithm, now>>
vars == <<routerVars, peVars, clockVars, level_tx, level_rx, sig, wr, todo>>

-----------------------------------------------------------------------------
Id(n) == n[2] * DimX + n[1]     \* coord2Id

(***************************************************************************)
(* Tiles share nothing but signals, so the order among tiles and between a *)
(* router and its PE cannot be told apart; a router's own two processes    *)
(* share its buffers, and which of them runs first does matter.            *)
(* ProcessOrder "any" is every order of all processes; the other values    *)
(* take the tiles in turn, and in each the router's processes in either    *)
(* order or always in the same one.                                        *)
(***************************************************************************)
TileOrder(p) ==
  CASE p = "routerRx" -> IF ProcessOrder = "txFirst" THEN {"routerTx"} ELSE {}
    [] p = "routerTx" -> IF ProcessOrder = "rxFirst" THEN {"routerRx"} ELSE {}
    [] p = "peRx"     -> {"routerRx", "routerTx"}
    [] p = "peTx"     -> {"routerRx", "routerTx", "peRx"}

MayRun(n, p) ==
  /\ <<n, p>> \in todo
  /\ ProcessOrder # "any" =>
       \A t \in todo : Id(n) <= Id(t[1]) /\ (t[1] = n => t[2] \notin TileOrder(p))

Ran(n, p) == todo' = todo \ {<<n, p>>}

Init ==
  /\ buffer = [n \in Node |-> [i \in Port |-> <<>>]]
  /\ rtable = [n \in Node |-> [o \in Port |->
                 IF o \in InPort(n) THEN NOT_RESERVED ELSE NOT_VALID]]
  /\ start_from_port = [n \in Node |-> DIRECTION_LOCAL]
  /\ packet_queue = [n \in Node |-> <<>>]
  /\ received = [n \in Node |-> <<>>]
  /\ unsent = Packet
  /\ due \in [Packet -> Times]
  /\ routing_algorithm \in RoutingAlgorithms
  /\ now = 0
  /\ level_tx \in [Link -> InitLevels]
  /\ level_rx \in [Link -> InitLevels]
  /\ sig = [l \in Link |-> [req |-> 0, flit |-> NoFlit, ack |-> 0]]
  /\ wr = sig
  /\ todo = Node \X Proc

-----------------------------------------------------------------------------
(* Router::rxProcess *)

(* Slip: the test for a free slot is missing.                               *)
Accepts_Full(n, i) ==
  i \in InPort(n) /\ sig[InLink(n, i)].req = 1 - level_rx[InLink(n, i)]

Accepts(n, i) ==
  /\ i \in InPort(n)
  /\ sig[InLink(n, i)].req = 1 - level_rx[InLink(n, i)]
  /\ Len(buffer[n][i]) < BufferDepth

(* The flit as it is stored: r_time starts at 0, a hop is counted.          *)
Stored(f, i) ==
  [flit |-> [f EXCEPT !.hop_no = IF i = DIRECTION_LOCAL THEN @ ELSE @ + 1],
   r_time |-> 0]

RouterRx(n) ==
  LET accepted == { InLink(n, i) : i \in { j \in Port : Accepts(n, j) } }
      listened == { InLink(n, i) : i \in InPort(n) }
  IN  /\ MayRun(n, "routerRx")
      /\ buffer' = [buffer EXCEPT ![n] = [i \in Port |->
           IF Accepts(n, i)
           THEN Append(buffer[n][i], Stored(sig[InLink(n, i)].flit, i))
           ELSE buffer[n][i]]]
      /\ level_rx' = [l \in Link |->
           IF l \in accepted THEN 1 - level_rx[l] ELSE level_rx[l]]
      /\ wr' = [l \in Link |->
           IF l \in listened THEN [wr[l] EXCEPT !.ack = level_rx'[l]] ELSE wr[l]]
      /\ Ran(n, "routerRx")
      /\ UNCHANGED <<rtable, start_from_port, peVars, clockVars, level_tx, sig>>

-----------------------------------------------------------------------------
(* Router::txProcess *)

FrontOf(n, i) == Head(buffer[n][i])

(* r_time after the increment of this cycle; above RouterCycle it no longer *)
(* matters and is not counted on.                                           *)
Aged(t) == IF t < RouterCycle THEN t + 1 ELSE t

(* The head flits that may ask for an output port in this cycle. *)
Ready(n) ==
  { i \in Port :
      /\ buffer[n][i] # <<>>
      /\ IsHead(FrontOf(n, i).flit)
      /\ Aged(FrontOf(n, i).r_time) >= RouterCycle }

Candidates(n, i) ==
  LET p == FrontOf(n, i).flit.pkt
  IN  route(routing_algorithm, n, Src[p], Dst[p])

(* The place of input port i in the rotation of this cycle, which goes over *)
(* all DIRECTIONS + 2 = 6 ports of the router.                              *)
Turn(n, i) == (i + 6 - start_from_port[n]) % 6

(* 1st phase: each ready head in turn reserves the port it chose if the     *)
(* port is available, so the first of those that want it gets it.           *)
Reserve(n, choice) ==
  LET wants(o) == { i \in Ready(n) : choice[i] = o }
      first(o) == CHOOSE i \in wants(o) :
                    \A k \in wants(o) : Turn(n, i) <= Turn(n, k)
  IN  [o \in Port |->
         IF rtable[n][o] = NOT_RESERVED /\ wants(o) # {}
         THEN first(o) ELSE rtable[n][o]]

(* ReservationTable::getOutputPort: the lowest port that i has reserved.    *)
getOutputPort(rt, i) ==
  IF \E o \in Port : rt[o] = i
  THEN CHOOSE o \in Port : rt[o] = i /\ \A q \in Port : rt[q] = i => o <= q
  ELSE NOT_RESERVED

(* Slip: the acknowledge is not waited for.                                 *)
LinkIdle_Always(l) == TRUE

LinkIdle(l) == level_tx[l] = sig[l].ack

(* 2nd phase, under the reservations rt of the first. *)
Holds(n, rt, i)    == buffer[n][i] # <<>> /\ getOutputPort(rt, i) # NOT_RESERVED
Forwards(n, rt, i) == Holds(n, rt, i) /\ LinkIdle(<<n, getOutputPort(rt, i)>>)
(* Slips: the port is released after every flit; a head that is blocked     *)
(* keeps it.                                                                *)
Releases_Always(n, rt, i) == Holds(n, rt, i)
Releases_NotBlocked(n, rt, i) == Forwards(n, rt, i) /\ IsLast(FrontOf(n, i).flit)

Releases(n, rt, i) ==
  /\ Holds(n, rt, i)
  /\ IF Forwards(n, rt, i) THEN IsLast(FrontOf(n, i).flit)
                           ELSE IsHead(FrontOf(n, i).flit)

Age(q) == [k \in DOMAIN q |-> [q[k] EXCEPT !.r_time = Aged(@)]]

Forwarding(n, rt) ==
  LET fwd       == { i \in Port : Forwards(n, rt, i) }
      released  == { getOutputPort(rt, i) : i \in { j \in Port : Releases(n, rt, j) } }
      sender(l) == { i \in fwd : l = <<n, getOutputPort(rt, i)>> }
      driven    == { <<n, getOutputPort(rt, i)>> : i \in fwd }
  IN  /\ buffer' = [buffer EXCEPT ![n] = [i \in Port |->
           IF i \in fwd THEN Tail(Age(buffer[n][i])) ELSE Age(buffer[n][i])]]
      /\ rtable' = [rtable EXCEPT ![n] = [o \in Port |->
           IF o \in released THEN NOT_RESERVED ELSE rt[o]]]
      /\ level_tx' = [l \in Link |->
           IF l \in driven THEN 1 - level_tx[l] ELSE level_tx[l]]
      /\ wr' = [l \in Link |->
           IF l \in driven
           THEN [wr[l] EXCEPT !.req = 1 - level_tx[l],
                              !.flit = FrontOf(n, CHOOSE i \in sender(l) : TRUE).flit]
           ELSE wr[l]]

(* isAvailable throws for a port off the mesh, and nothing catches it: the  *)
(* simulation cannot take such a step.                                      *)
RouterTx(n) ==
  /\ MayRun(n, "routerTx")
  /\ \E choice \in [Ready(n) -> Port] :
       /\ \A i \in Ready(n) : /\ choice[i] \in Candidates(n, i)
                              /\ rtable[n][choice[i]] # NOT_VALID
       /\ \E rt \in {Reserve(n, choice)} : Forwarding(n, rt)
  /\ start_from_port' = [start_from_port EXCEPT ![n] = (@ + 1) % 6]
  /\ Ran(n, "routerTx")
  /\ UNCHANGED <<peVars, clockVars, level_rx, sig>>

-----------------------------------------------------------------------------
(* ProcessingElement::rxProcess *)
PeRx(n) ==
  LET l == <<n, DIRECTION_LOCAL>>
      accept == sig[l].req = 1 - level_rx[l]
  IN  /\ MayRun(n, "peRx")
      /\ received' = IF accept THEN [received EXCEPT ![n] = Append(@, sig[l].flit)]
                               ELSE received
      /\ level_rx' = IF accept THEN [level_rx EXCEPT ![l] = 1 - @] ELSE level_rx
      /\ wr' = [wr EXCEPT ![l].ack = level_rx'[l]]
      /\ Ran(n, "peRx")
      /\ UNCHANGED <<routerVars, packet_queue, unsent, clockVars, level_tx, sig>>

(* Slip: the packets are not fired in the order of the trace.               *)
CanShot_AnyOrder(n, p) == p \in unsent /\ Src[p] = n /\ due[p] <= now

(* canShot fires at most one packet a cycle, the due ones in turn.          *)
CanShot(n, p) ==
  /\ p \in unsent
  /\ Src[p] = n
  /\ \A q \in unsent : Src[q] = n => p <= q
  /\ due[p] <= now

(* ProcessingElement::nextFlit, on the queue q whose front has flits left.  *)
nextFlit(q) ==
  [pkt |-> q[1].pkt, seq |-> Size[q[1].pkt] - q[1].flit_left, hop_no |-> 0]
(* Slips: the packet is popped one flit late; it is popped with its head.   *)
AfterFlit_Late(q) ==
  IF q[1].flit_left = 0 THEN Tail(q) ELSE [q EXCEPT ![1].flit_left = @ - 1]
AfterFlit_Early(q) == Tail(q)

AfterFlit(q) ==
  IF q[1].flit_left = 1 THEN Tail(q) ELSE [q EXCEPT ![1].flit_left = @ - 1]

(* ProcessingElement::txProcess after canShot, with the queue q it leaves.  *)
Transmit(n, q) ==
  LET l == <<n, PE>>
  IN  IF LinkIdle(l) /\ q # <<>>
      THEN /\ level_tx' = [level_tx EXCEPT ![l] = 1 - @]
           /\ wr' = [wr EXCEPT ![l].req = level_tx'[l], ![l].flit = nextFlit(q)]
           /\ packet_queue' = [packet_queue EXCEPT ![n] = AfterFlit(q)]
      ELSE /\ packet_queue' = [packet_queue EXCEPT ![n] = q]
           /\ UNCHANGED <<level_tx, wr>>

PeTx(n) ==
  /\ MayRun(n, "peTx")
  /\ \/ /\ ~\E p \in Packet : CanShot(n, p)
        /\ unsent' = unsent
        /\ Transmit(n, packet_queue[n])
     \/ \E p \in Packet :
          /\ CanShot(n, p)
          /\ unsent' = unsent \ {p}
          /\ Transmit(n, Append(packet_queue[n], [pkt |-> p, flit_left |-> Size[p]]))
  /\ Ran(n, "peTx")
  /\ UNCHANGED <<routerVars, received, clockVars, level_rx, sig>>

-----------------------------------------------------------------------------
(* The update phase that ends a clock edge, and the next edge. *)
ClockEdge ==
  /\ todo = {}
  /\ sig' = wr
  /\ todo' = Node \X Proc
  /\ now' = IF \E t \in Times : now < t THEN now + 1 ELSE now
  /\ UNCHANGED <<routerVars, peVars, due, routing_algorithm, level_tx, level_rx, wr>>

Next ==
  \/ \E n \in Node : RouterRx(n) \/ RouterTx(n) \/ PeRx(n) \/ PeTx(n)
  \/ ClockEdge

(* The simulation kernel keeps the clock running. *)
Spec == Init /\ [][Next]_vars /\ WF_vars(Next)

-----------------------------------------------------------------------------
Bit == {0, 1}

TypeOK ==
  /\ buffer \in [Node -> [Port -> Seq([flit : Flit, r_time : 0 .. RouterCycle])]]
  /\ rtable \in [Node -> [Port -> Port \union {NOT_RESERVED, NOT_VALID}]]
  /\ start_from_port \in [Node -> 0 .. 5]
  /\ packet_queue \in [Node -> Seq([pkt : Packet, flit_left : Nat \ {0}])]
  /\ received \in [Node -> Seq(Flit)]
  /\ unsent \subseteq Packet
  /\ due \in [Packet -> Times] /\ routing_algorithm \in Algorithm /\ now \in Nat
  /\ level_tx \in [Link -> Bit] /\ level_rx \in [Link -> Bit]
  /\ sig \in [Link -> [req : Bit, flit : Flit \union {NoFlit}, ack : Bit]]
  /\ wr  \in [Link -> [req : Bit, flit : Flit \union {NoFlit}, ack : Bit]]
  /\ todo \subseteq Node \X Proc
=============================================================================
