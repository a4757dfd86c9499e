------------------------------ MODULE NoCProofs ------------------------------
(***************************************************************************)
(* The network, for every mesh, traffic and order of the processes: the    *)
(* alternating-bit links and wormhole switching, provided that both ends   *)
(* of every link start with the level 0 (InitLevels = {0}, what a reset    *)
(* would establish), and the refinement of the abstract network.           *)
(***************************************************************************)
EXTENDS NoCProperties, RoutingLemmas, SequenceTheorems, FiniteSetTheorems,
        WellFoundedInduction, TLAPS

Signals == [req : Bit, flit : Flit \union {NoFlit}, ack : Bit]
Stage   == [flit : Flit, r_time : 0 .. RouterCycle]
Waiting == [pkt : Packet, flit_left : Nat \ {0}]

(***************************************************************************)
(* One link.  What is written agrees with the levels; what can be read lags *)
(* behind on at most one side, and each side only moves when the other has  *)
(* answered.  A flit that is in flight is a flit, and can be read as soon   *)
(* as its request can.                                                     *)
(***************************************************************************)
LinkOK(l) ==
  /\ wr[l].req = level_tx[l]
  /\ wr[l].ack = level_rx[l]
  /\ sig[l].req # level_tx[l] => sig[l].req = level_rx[l] /\ sig[l].ack = level_rx[l]
  /\ sig[l].ack # level_rx[l] => level_tx[l] = level_rx[l]
  /\ sig[l].req = level_tx[l] => sig[l].flit = wr[l].flit
  /\ InFlight(l) => wr[l].flit \in Flit

(* No packet has more flits left than it was made with.                     *)
QueuesOK ==
  \A n \in Node : \A k \in DOMAIN packet_queue[n] :
    packet_queue[n][k].flit_left <= Size[packet_queue[n][k].pkt]

(* Exactly the ports that lead off the mesh are invalid.                    *)
PortsOK ==
  \A n \in Node : \A o \in Port : rtable[n][o] = NOT_VALID <=> o \notin InPort(n)

(* TypeOK is not inductive: that only flits are stored depends on the links,*)
(* that their numbers are natural on the queues of the PEs.                 *)
IInv == TypeOK /\ QueuesOK /\ PortsOK /\ \A l \in Link : LinkOK(l)

LinkTypes ==
  /\ level_tx \in [Link -> Bit] /\ level_rx \in [Link -> Bit]
  /\ sig \in [Link -> Signals] /\ wr \in [Link -> Signals]

-----------------------------------------------------------------------------
(* The three ways in which a step may change a link.                        *)

(* The receiver takes the flit that it can read, or nothing.                *)
RxStep(l) ==
  /\ level_tx'[l] = level_tx[l] /\ sig'[l] = sig[l]
  /\ wr'[l] = [wr[l] EXCEPT !.ack = level_rx'[l]]
  /\ \/ level_rx'[l] = level_rx[l]
     \/ level_rx'[l] = 1 - level_rx[l] /\ sig[l].req = 1 - level_rx[l]

(* The transmitter puts a flit on an idle link, or nothing.                 *)
TxStep(l) ==
  /\ level_rx'[l] = level_rx[l] /\ sig'[l] = sig[l]
  /\ \/ level_tx'[l] = level_tx[l] /\ wr'[l] = wr[l]
     \/ /\ LinkIdle(l)
        /\ level_tx'[l] = 1 - level_tx[l]
        /\ \E f \in Flit : wr'[l] = [wr[l] EXCEPT !.req = 1 - level_tx[l], !.flit = f]

(* What was written becomes readable.                                       *)
EdgeStep(l) ==
  /\ level_tx'[l] = level_tx[l] /\ level_rx'[l] = level_rx[l]
  /\ wr'[l] = wr[l] /\ sig'[l] = wr[l]

LEMMA LinkStep ==
  ASSUME LinkTypes, NEW l \in Link, LinkOK(l), RxStep(l) \/ TxStep(l) \/ EdgeStep(l)
  PROVE  /\ LinkOK(l)'
         /\ wr'[l].flit # wr[l].flit => ~InFlight(l)
<1>1. /\ level_tx[l] \in {0, 1} /\ level_rx[l] \in {0, 1}
      /\ sig[l] \in Signals /\ wr[l] \in Signals
  BY DEF LinkTypes, Bit
<1>2. CASE RxStep(l)
  BY <1>1, <1>2 DEF LinkOK, RxStep, InFlight, Signals, Bit
<1>3. CASE TxStep(l)
  <2>1. CASE level_tx'[l] = level_tx[l] /\ wr'[l] = wr[l]
    BY <1>1, <1>3, <2>1 DEF LinkOK, TxStep, InFlight
  <2>2. ASSUME LinkIdle(l), level_tx'[l] = 1 - level_tx[l], NEW f \in Flit,
               wr'[l] = [wr[l] EXCEPT !.req = 1 - level_tx[l], !.flit = f]
        PROVE  LinkOK(l)' /\ ~InFlight(l)
    <3>1. /\ wr'[l].req = 1 - level_tx[l]
          /\ wr'[l].ack = wr[l].ack
          /\ wr'[l].flit = f
      BY <1>1, <2>2 DEF Signals
    <3>2. level_rx'[l] = level_rx[l] /\ sig'[l] = sig[l]
      BY <1>3 DEF TxStep
    <3>3. /\ level_tx[l] = level_rx[l] /\ sig[l].req = level_tx[l]
          /\ sig[l].ack = level_tx[l]
      BY <1>1, <2>2 DEF LinkOK, LinkIdle, Signals, Bit
    <3>4. level_tx'[l] # level_tx[l]
      BY <1>1, <2>2
    <3> QED
      BY <2>2, <3>1, <3>2, <3>3, <3>4 DEF LinkOK, InFlight
  <2> QED
    BY <1>3, <2>1, <2>2 DEF TxStep
<1>4. CASE EdgeStep(l)
  BY <1>1, <1>4 DEF LinkOK, EdgeStep, InFlight
<1> QED
  BY <1>2, <1>3, <1>4

(* The types of a link after such a step.                                   *)
LEMMA LinkStepTypes ==
  ASSUME LinkTypes, NEW l \in Link, RxStep(l) \/ TxStep(l) \/ EdgeStep(l)
  PROVE  /\ level_tx'[l] \in Bit /\ level_rx'[l] \in Bit
         /\ sig'[l] \in Signals /\ wr'[l] \in Signals
<1>1. /\ level_tx[l] \in {0, 1} /\ level_rx[l] \in {0, 1}
      /\ sig[l] \in Signals /\ wr[l] \in Signals
  BY DEF LinkTypes, Bit
<1>2. CASE RxStep(l)
  BY <1>1, <1>2 DEF RxStep, Signals, Bit
<1>3. CASE TxStep(l)
  <2>1. 1 - level_tx[l] \in {0, 1}
    BY <1>1
  <2>2. \A f \in Flit : [wr[l] EXCEPT !.req = 1 - level_tx[l], !.flit = f] \in Signals
    BY <1>1, <2>1 DEF Signals, Bit
  <2> QED
    BY <1>1, <1>3, <2>1, <2>2 DEF TxStep, Bit
<1>4. CASE EdgeStep(l)
  BY <1>1, <1>4 DEF EdgeStep, Bit
<1> QED
  BY <1>2, <1>3, <1>4

(* A flit that the receiver takes is a flit, never what was there before.   *)
LEMMA TakenIsFlit ==
  ASSUME LinkTypes, NEW l \in Link, LinkOK(l), sig[l].req = 1 - level_rx[l]
  PROVE  sig[l].flit \in Flit
BY DEF LinkTypes, LinkOK, InFlight, Bit

-----------------------------------------------------------------------------
(* The operators the actions are built from.                                *)

LEMMA PortNumbers ==
  /\ Port = {0, 1, 2, 3, 4} /\ Direction = {0, 1, 2, 3} /\ PE \notin Port
  /\ NOT_RESERVED \notin Port /\ NOT_VALID \notin Port /\ NOT_RESERVED # NOT_VALID
BY DEF Port, Direction, PE, NOT_RESERVED, NOT_VALID, DIRECTION_NORTH, DIRECTION_EAST,
       DIRECTION_SOUTH, DIRECTION_WEST, DIRECTION_LOCAL

(* A set of ports has one that comes first.                                 *)
LEMMA FirstPort ==
  ASSUME NEW S \in SUBSET Port, S # {}, NEW f \in [Port -> Nat]
  PROVE  \E i \in S : \A k \in S : f[i] <= f[k]
<1> DEFINE T == { f[i] : i \in S }
       R == { ss \in Nat \X Nat : ss[1] < ss[2] }
<1>1. T \subseteq Nat /\ T # {}
  OBVIOUS
<1>2. IsWellFoundedOn(R, Nat)
  BY NatLessThanWellFounded DEF OpToRel
<1>3. PICK x \in T : \A y \in T : <<y, x>> \notin R
  <2> HIDE DEF R, T
  <2> QED
    BY <1>1, <1>2, WFMin
<1>4. ASSUME NEW y \in T PROVE x <= y
  <2> HIDE DEF T
  <2>1. x \in Nat /\ y \in Nat
    BY <1>1
  <2>2. ~(y < x)
    BY <1>3, <2>1
  <2> QED
    BY <2>1, <2>2
<1> QED
  BY <1>4

LEMMA BackAgain ==
  ASSUME NEW n \in Node, NEW d \in Direction, HasNeighbor(n, d)
  PROVE  /\ reflexDirection(d) \in Direction
         /\ getNeighborId(getNeighborId(n, d), reflexDirection(d)) = n
<1>1. n[1] \in Int /\ n[2] \in Int /\ n = <<n[1], n[2]>>
  BY NodeCoordinates, MeshAssumption
<1> QED
  BY <1>1 DEF reflexDirection, getNeighborId, Direction, DIRECTION_NORTH, DIRECTION_EAST,
              DIRECTION_SOUTH, DIRECTION_WEST

LEMMA InLinkIsLink ==
  ASSUME NEW n \in Node, NEW i \in InPort(n)
  PROVE  InLink(n, i) \in Link
<1>1. CASE i = DIRECTION_LOCAL
  BY <1>1, PortNumbers DEF InLink, Link
<1>2. CASE i # DIRECTION_LOCAL
  <2>1. i \in Direction /\ HasNeighbor(n, i)
    BY <1>2 DEF InPort, Port
  <2>2. /\ getNeighborId(n, i) \in Node
        /\ reflexDirection(i) \in Direction
        /\ HasNeighbor(getNeighborId(n, i), reflexDirection(i))
    BY <2>1, BackAgain DEF HasNeighbor
  <2> QED
    BY <1>2, <2>2 DEF InLink, Link, Port
<1> QED
  BY <1>1, <1>2

LEMMA OutPort ==
  ASSUME NEW rt, NEW i \in Port, getOutputPort(rt, i) # NOT_RESERVED
  PROVE  getOutputPort(rt, i) \in Port /\ rt[getOutputPort(rt, i)] = i
<1> DEFINE mine == { o \in Port : rt[o] = i }
<1>1. mine # {}
  BY DEF getOutputPort
<1>2. \E o \in mine : \A q \in mine : o <= q
  <2>1. [p \in Port |-> p] \in [Port -> Nat]
    BY PortNumbers
  <2> QED
    BY <1>1, <2>1, FirstPort
<1>3. \E o \in Port : rt[o] = i /\ \A q \in Port : rt[q] = i => o <= q
  BY <1>2
<1> QED
  BY <1>1, <1>3 DEF getOutputPort

(* A reservation only changes a free port, and gives it to a ready input.   *)
LEMMA ReserveResult ==
  ASSUME TypeOK, NEW n \in Node, NEW choice
  PROVE  \A o \in Port :
           \/ Reserve(n, choice)[o] = rtable[n][o]
           \/ rtable[n][o] = NOT_RESERVED /\ Reserve(n, choice)[o] \in Port
<1> SUFFICES ASSUME NEW o \in Port, rtable[n][o] = NOT_RESERVED,
                    NEW i \in Ready(n), choice[i] = o
             PROVE  Reserve(n, choice)[o] \in Port
  BY DEF Reserve
<1> DEFINE wants == { k \in Ready(n) : choice[k] = o }
<1>1. wants \in SUBSET Port /\ wants # {}
  BY DEF Ready
<1>2. [k \in Port |-> Turn(n, k)] \in [Port -> Nat]
  <2>1. \A k \in Port : k + 6 - start_from_port[n] \in Int
    <3>1. start_from_port[n] \in 0 .. 5
      BY DEF TypeOK
    <3> QED
      BY <3>1, PortNumbers
  <2>2. \A z \in Int : z % 6 \in Nat
    OBVIOUS
  <2> QED
    BY <2>1, <2>2 DEF Turn
<1>3. \E k \in wants : \A h \in wants : Turn(n, k) <= Turn(n, h)
  BY <1>1, <1>2, FirstPort
<1> QED
  BY <1>1, <1>3 DEF Reserve

-----------------------------------------------------------------------------
(* Each action: what it does to the types and to the links.                 *)

LEMMA InitIInv ==
  ASSUME InitLevels = {0}, Init
  PROVE  IInv
<1>1. /\ level_tx = [l \in Link |-> 0] /\ level_rx = [l \in Link |-> 0]
  BY DEF Init
<1>2. TypeOK
  <2>1. <<>> \in Seq(Stage) /\ <<>> \in Seq(Waiting) /\ <<>> \in Seq(Flit)
    BY EmptySeq
  <2>2. [req |-> 0, flit |-> NoFlit, ack |-> 0] \in Signals
    BY DEF Signals, Bit
  <2> QED
    BY <1>1, <2>1, <2>2, PortNumbers, NoCAssumption
       DEF Init, TypeOK, Stage, Waiting, Signals, Bit, DIRECTION_LOCAL
<1>3. QueuesOK
  BY DEF Init, QueuesOK
<1>4. PortsOK
  BY PortNumbers DEF Init, PortsOK
<1>5. \A l \in Link : LinkOK(l)
  BY <1>1 DEF Init, LinkOK, InFlight
<1> QED
  BY <1>2, <1>3, <1>4, <1>5 DEF IInv

LEMMA RouterRxStep ==
  ASSUME IInv, NEW n \in Node, RouterRx(n)
  PROVE  /\ \A l \in Link : RxStep(l)
         /\ buffer' \in [Node -> [Port -> Seq(Stage)]]
         /\ level_rx' = [l \in Link |-> level_rx'[l]] /\ wr' = [l \in Link |-> wr'[l]]
<1> DEFINE accepted == { InLink(n, i) : i \in { j \in Port : Accepts(n, j) } }
           listened == { InLink(n, i) : i \in InPort(n) }
<1>1. /\ level_rx' = [l \in Link |->
           IF l \in accepted THEN 1 - level_rx[l] ELSE level_rx[l]]
      /\ wr' = [l \in Link |->
           IF l \in listened THEN [wr[l] EXCEPT !.ack = level_rx'[l]] ELSE wr[l]]
      /\ UNCHANGED <<level_tx, sig>>
  BY DEF RouterRx
<1>2. accepted \subseteq listened
  BY DEF Accepts
<1>3. ASSUME NEW l \in Link PROVE RxStep(l)
  <2>1. wr[l] \in Signals /\ wr[l].ack = level_rx[l]
    BY DEF IInv, TypeOK, LinkOK, Signals
  <2>2. l \in accepted => sig[l].req = 1 - level_rx[l]
    BY DEF Accepts
  <2>3. l \notin listened => wr'[l] = [wr[l] EXCEPT !.ack = level_rx'[l]]
    <3>1. l \notin listened => wr'[l] = wr[l] /\ level_rx'[l] = level_rx[l]
      BY <1>1, <1>2
    <3> QED
      BY <2>1, <3>1 DEF Signals
  <2> HIDE DEF accepted, listened
  <2> QED
    BY <1>1, <2>2, <2>3 DEF RxStep
<1>4. buffer' \in [Node -> [Port -> Seq(Stage)]]
  <2>1. buffer \in [Node -> [Port -> Seq(Stage)]]
    BY DEF IInv, TypeOK, Stage
  <2>2. ASSUME NEW i \in Port, Accepts(n, i)
        PROVE  Append(buffer[n][i], Stored(sig[InLink(n, i)].flit, i)) \in Seq(Stage)
    <3>1. InLink(n, i) \in Link
      BY <2>2, InLinkIsLink DEF Accepts
    <3>2. sig[InLink(n, i)].flit \in Flit
      BY <2>2, <3>1, TakenIsFlit DEF Accepts, IInv, LinkTypes, TypeOK, Signals
    <3>3. Stored(sig[InLink(n, i)].flit, i) \in Stage
      BY <3>2, NoCAssumption DEF Stored, Stage, Flit
    <3> QED
      BY <2>1, <3>3
  <2>3. buffer' = [buffer EXCEPT ![n] = [i \in Port |->
           IF Accepts(n, i)
           THEN Append(buffer[n][i], Stored(sig[InLink(n, i)].flit, i))
           ELSE buffer[n][i]]]
    BY DEF RouterRx
  <2> QED
    BY <2>1, <2>2, <2>3
<1> QED
  BY <1>1, <1>3, <1>4

LEMMA PeRxStep ==
  ASSUME IInv, NEW n \in Node, PeRx(n)
  PROVE  /\ \A l \in Link : RxStep(l)
         /\ received' \in [Node -> Seq(Flit)]
         /\ level_rx' = [l \in Link |-> level_rx'[l]] /\ wr' = [l \in Link |-> wr'[l]]
<1> DEFINE k == <<n, DIRECTION_LOCAL>>
           accept == sig[k].req = 1 - level_rx[k]
<1>1. k \in Link
  BY PortNumbers DEF Link, DIRECTION_LOCAL
<1>2. /\ received' = IF accept THEN [received EXCEPT ![n] = Append(@, sig[k].flit)]
                               ELSE received
      /\ level_rx' = IF accept THEN [level_rx EXCEPT ![k] = 1 - @] ELSE level_rx
      /\ wr' = [wr EXCEPT ![k].ack = level_rx'[k]]
      /\ UNCHANGED <<level_tx, sig>>
  BY DEF PeRx
<1>3. /\ received \in [Node -> Seq(Flit)]
      /\ level_rx \in [Link -> Bit] /\ wr \in [Link -> Signals]
  BY DEF IInv, TypeOK, Signals
<1>4. accept => sig[k].flit \in Flit
  BY <1>1, TakenIsFlit DEF IInv, LinkTypes, TypeOK, Signals
<1> HIDE DEF k
<1>5. ASSUME NEW l \in Link PROVE RxStep(l)
  <2>1. wr[l] \in Signals /\ wr[l].ack = level_rx[l]
    BY DEF IInv, TypeOK, LinkOK, Signals
  <2>2. wr'[l] = [wr[l] EXCEPT !.ack = level_rx'[l]]
    <3>1. CASE l = k
      BY <1>2, <1>3, <3>1
    <3>2. CASE l # k
      BY <1>2, <1>3, <2>1, <3>2 DEF Signals
    <3> QED
      BY <3>1, <3>2
  <2> QED
    BY <1>1, <1>2, <1>3, <2>2 DEF RxStep
<1>6. received' \in [Node -> Seq(Flit)]
  BY <1>2, <1>3, <1>4
<1>7. level_rx' = [l \in Link |-> level_rx'[l]]
  <2>1. DOMAIN level_rx' = Link
    BY <1>2, <1>3
  <2>2. level_rx' = [l \in DOMAIN level_rx' |-> level_rx'[l]]
    BY <1>2, <1>3
  <2> QED
    BY <2>1, <2>2
<1>8. wr' = [l \in Link |-> wr'[l]]
  BY <1>2, <1>3
<1> QED
  BY <1>5, <1>6, <1>7, <1>8

(* The queue of a PE, and the flit that comes out of it.                    *)
Bounded(q) == \A k \in DOMAIN q : q[k].flit_left <= Size[q[k].pkt]

LEMMA QueueFlit ==
  ASSUME NEW q \in Seq(Waiting), Bounded(q), q # <<>>
  PROVE  /\ nextFlit(q) \in Flit
         /\ AfterFlit(q) \in Seq(Waiting) /\ Bounded(AfterFlit(q))
<1>1. 1 \in 1 .. Len(q) /\ DOMAIN q = 1 .. Len(q) /\ q[1] \in Waiting
  BY EmptySeq, LenProperties, ElementOfSeq
<1>2. /\ q[1].pkt \in Packet /\ q[1].flit_left \in Nat \ {0}
      /\ Size[q[1].pkt] \in Nat /\ q[1].flit_left <= Size[q[1].pkt]
  BY <1>1, NoCAssumption DEF Bounded, Waiting
<1>3. nextFlit(q) \in Flit
  BY <1>2 DEF nextFlit, Flit
<1>4. CASE q[1].flit_left = 1
  <2>1. Tail(q) \in Seq(Waiting)
    BY HeadTailProperties
  <2>2. \A k \in DOMAIN Tail(q) : k + 1 \in DOMAIN q /\ Tail(q)[k] = q[k + 1]
    BY <1>1, HeadTailProperties, LenProperties
  <2> QED
    BY <1>3, <1>4, <2>1, <2>2 DEF AfterFlit, Bounded
<1>5. CASE q[1].flit_left # 1
  <2> DEFINE r == q[1]
             f == r.flit_left
             e == [r EXCEPT !.flit_left = f - 1]
  <2>a. f - 1 \in Nat \ {0} /\ f - 1 <= Size[r.pkt]
    BY <1>2, <1>5
  <2>b. e \in Waiting /\ e.pkt = r.pkt /\ e.flit_left = f - 1
    <3>1. r \in Waiting
      BY <1>1
    <3> HIDE DEF f, r
    <3> QED  BY <2>a, <3>1 DEF Waiting
  <2>1. e \in Waiting /\ e.pkt = q[1].pkt /\ e.flit_left <= Size[e.pkt]
    <3>1. r.pkt = q[1].pkt
      OBVIOUS
    <3> HIDE DEF e, f, r
    <3> QED  BY <2>a, <2>b, <3>1
  <2>2. AfterFlit(q) = [q EXCEPT ![1] = e]
    BY <1>5 DEF AfterFlit
  <2> HIDE DEF e
  <2>3. /\ [q EXCEPT ![1] = e] \in Seq(Waiting)
        /\ \A k \in 1 .. Len(q) : [q EXCEPT ![1] = e][k] = IF k = 1 THEN e ELSE q[k]
    BY <1>1, <2>1, ExceptSeq
  <2>4. Bounded([q EXCEPT ![1] = e])
    BY <1>1, <2>1, <2>3 DEF Bounded
  <2> QED
    BY <1>3, <2>2, <2>3, <2>4
<1> QED
  BY <1>4, <1>5

LEMMA TransmitStep ==
  ASSUME IInv, NEW n \in Node, NEW q \in Seq(Waiting), Bounded(q), Transmit(n, q),
         UNCHANGED <<level_rx, sig>>
  PROVE  /\ \A l \in Link : TxStep(l)
         /\ packet_queue' \in [Node -> Seq(Waiting)] /\ QueuesOK'
         /\ level_tx' = [l \in Link |-> level_tx'[l]] /\ wr' = [l \in Link |-> wr'[l]]
<1> DEFINE k == <<n, PE>>
<1>1. k \in Link
  BY PortNumbers DEF Link
<1>2. /\ packet_queue \in [Node -> Seq(Waiting)]
      /\ \A m \in Node : Bounded(packet_queue[m])
      /\ level_tx \in [Link -> Bit] /\ wr \in [Link -> Signals]
  BY DEF IInv, TypeOK, QueuesOK, Bounded, Waiting, Signals
<1>3. CASE LinkIdle(k) /\ q # <<>>
  <2>1. /\ level_tx' = [level_tx EXCEPT ![k] = 1 - @]
        /\ wr' = [wr EXCEPT ![k].req = level_tx'[k], ![k].flit = nextFlit(q)]
        /\ packet_queue' = [packet_queue EXCEPT ![n] = AfterFlit(q)]
    BY <1>3 DEF Transmit
  <2>2. /\ nextFlit(q) \in Flit
        /\ AfterFlit(q) \in Seq(Waiting) /\ Bounded(AfterFlit(q))
    BY <1>3, QueueFlit
  <2>3. packet_queue' \in [Node -> Seq(Waiting)] /\ QueuesOK'
    BY <1>2, <2>1, <2>2 DEF QueuesOK, Bounded
  <2> HIDE DEF k
  <2>4. level_tx'[k] = 1 - level_tx[k]
    BY <1>1, <1>2, <2>1
  <2>5. wr'[k] = [wr[k] EXCEPT !.req = 1 - level_tx[k], !.flit = nextFlit(q)]
    BY <1>1, <1>2, <2>1, <2>4
  <2>6. \A l \in Link \ {k} : level_tx'[l] = level_tx[l] /\ wr'[l] = wr[l]
    BY <1>1, <1>2, <2>1
  <2>7. \A l \in Link : TxStep(l)
    BY <1>3, <2>2, <2>4, <2>5, <2>6 DEF TxStep
  <2>8. level_tx' = [l \in Link |-> level_tx'[l]]
    BY <1>2, <2>1
  <2>9. wr' = [l \in Link |-> wr'[l]]
    BY <1>2, <2>1
  <2> QED
    BY <2>3, <2>7, <2>8, <2>9
<1>4. CASE ~(LinkIdle(k) /\ q # <<>>)
  <2>1. packet_queue' = [packet_queue EXCEPT ![n] = q] /\ UNCHANGED <<level_tx, wr>>
    BY <1>4 DEF Transmit
  <2>2. packet_queue' \in [Node -> Seq(Waiting)] /\ QueuesOK'
    BY <1>2, <2>1 DEF QueuesOK, Bounded
  <2> QED
    BY <1>2, <2>1, <2>2 DEF TxStep
<1> QED
  BY <1>3, <1>4

LEMMA PeTxStep ==
  ASSUME IInv, NEW n \in Node, PeTx(n)
  PROVE  /\ \A l \in Link : TxStep(l)
         /\ packet_queue' \in [Node -> Seq(Waiting)] /\ QueuesOK'
         /\ unsent' \subseteq Packet
         /\ level_tx' = [l \in Link |-> level_tx'[l]] /\ wr' = [l \in Link |-> wr'[l]]
<1>1. packet_queue[n] \in Seq(Waiting) /\ Bounded(packet_queue[n]) /\ unsent \subseteq Packet
  BY DEF IInv, TypeOK, QueuesOK, Bounded, Waiting
<1>2. UNCHANGED <<level_rx, sig>>
  BY DEF PeTx
<1>3. CASE unsent' = unsent /\ Transmit(n, packet_queue[n])
  BY <1>1, <1>2, <1>3, TransmitStep
<1>4. ASSUME NEW p \in Packet, unsent' = unsent \ {p},
             Transmit(n, Append(packet_queue[n], [pkt |-> p, flit_left |-> Size[p]]))
      PROVE  /\ \A l \in Link : TxStep(l)
             /\ packet_queue' \in [Node -> Seq(Waiting)] /\ QueuesOK'
             /\ unsent' \subseteq Packet
             /\ level_tx' = [l \in Link |-> level_tx'[l]] /\ wr' = [l \in Link |-> wr'[l]]
  <2> DEFINE e == [pkt |-> p, flit_left |-> Size[p]]
             q == Append(packet_queue[n], e)
  <2>1. e \in Waiting /\ e.flit_left <= Size[e.pkt]
    BY NoCAssumption DEF Waiting
  <2> HIDE DEF e
  <2>2. q \in Seq(Waiting)
    BY <1>1, <2>1
  <2>3. Bounded(q)
    BY <1>1, <2>1, LenProperties DEF Bounded
  <2>4. Transmit(n, q)
    BY <1>4 DEF e
  <2> HIDE DEF q
  <2> QED
    BY <1>1, <1>2, <1>4, <2>2, <2>3, <2>4, TransmitStep
<1> QED
  BY <1>3, <1>4 DEF PeTx

LEMMA AgeResult ==
  ASSUME NEW q \in Seq(Stage)
  PROVE  /\ Age(q) \in Seq(Stage)
         /\ q # <<>> => Age(q) # <<>> /\ Tail(Age(q)) \in Seq(Stage)
<1>1. Len(q) \in Nat /\ DOMAIN q = 1 .. Len(q) /\ \A k \in 1 .. Len(q) : q[k] \in Stage
  BY LenProperties, ElementOfSeq
<1>2. \A t \in 0 .. RouterCycle : Aged(t) \in 0 .. RouterCycle
  BY NoCAssumption DEF Aged
<1>3. \A k \in 1 .. Len(q) : [q[k] EXCEPT !.r_time = Aged(q[k].r_time)] \in Stage
  BY <1>1, <1>2 DEF Stage
<1>4. Age(q) = [k \in 1 .. Len(q) |-> [q[k] EXCEPT !.r_time = Aged(q[k].r_time)]]
  BY <1>1 DEF Age
<1>5. Age(q) \in Seq(Stage) /\ DOMAIN Age(q) = DOMAIN q
  BY <1>1, <1>3, <1>4
<1>6. q # <<>> => Age(q) # <<>>
  BY <1>1, <1>5, EmptySeq
<1> QED
  BY <1>5, <1>6, HeadTailProperties

LEMMA RouterTxStep ==
  ASSUME IInv, NEW n \in Node, RouterTx(n)
  PROVE  /\ \A l \in Link : TxStep(l)
         /\ buffer' \in [Node -> [Port -> Seq(Stage)]]
         /\ rtable' \in [Node -> [Port -> Port \union {NOT_RESERVED, NOT_VALID}]]
         /\ PortsOK'
         /\ start_from_port' \in [Node -> 0 .. 5]
         /\ level_tx' = [l \in Link |-> level_tx'[l]] /\ wr' = [l \in Link |-> wr'[l]]
<1>1. PICK choice \in [Ready(n) -> Port] : Forwarding(n, Reserve(n, choice))
  BY DEF RouterTx
<1> DEFINE rt        == Reserve(n, choice)
           fwd       == { i \in Port : Forwards(n, rt, i) }
           released  == { getOutputPort(rt, i) : i \in { j \in Port : Releases(n, rt, j) } }
           sender(l) == { i \in fwd : l = <<n, getOutputPort(rt, i)>> }
           driven    == { <<n, getOutputPort(rt, i)>> : i \in fwd }
<1>2. /\ buffer' = [buffer EXCEPT ![n] = [i \in Port |->
             IF i \in fwd THEN Tail(Age(buffer[n][i])) ELSE Age(buffer[n][i])]]
      /\ rtable' = [rtable EXCEPT ![n] = [o \in Port |->
             IF o \in released THEN NOT_RESERVED ELSE rt[o]]]
      /\ level_tx' = [l \in Link |-> IF l \in driven THEN 1 - level_tx[l] ELSE level_tx[l]]
      /\ wr' = [l \in Link |->
             IF l \in driven
             THEN [wr[l] EXCEPT !.req = 1 - level_tx[l],
                                !.flit = FrontOf(n, CHOOSE i \in sender(l) : TRUE).flit]
             ELSE wr[l]]
  BY <1>1 DEF Forwarding
<1>3. /\ buffer \in [Node -> [Port -> Seq(Stage)]]
      /\ rtable \in [Node -> [Port -> Port \union {NOT_RESERVED, NOT_VALID}]]
      /\ start_from_port \in [Node -> 0 .. 5]
  BY DEF IInv, TypeOK, Stage
<1>4. \A i \in fwd : buffer[n][i] # <<>> /\ LinkIdle(<<n, getOutputPort(rt, i)>>)
  BY DEF Forwards, Holds
<1>5. \A o \in released : o \in Port /\ rt[o] \in Port
  BY OutPort DEF Releases, Holds
<1>6. \A o \in Port : \/ rt[o] = rtable[n][o]
                      \/ rtable[n][o] = NOT_RESERVED /\ rt[o] \in Port
  BY ReserveResult DEF IInv
<1>7. UNCHANGED <<level_rx, sig>> /\ start_from_port' = [start_from_port EXCEPT ![n] = (@ + 1) % 6]
  BY DEF RouterTx
<1> HIDE DEF rt
<1>8. ASSUME NEW l \in Link PROVE TxStep(l)
  <2>1. CASE l \in driven
    <3> DEFINE j == CHOOSE i \in sender(l) : TRUE
               f == FrontOf(n, j).flit
    <3>1. j \in fwd /\ l = <<n, getOutputPort(rt, j)>>
      BY <2>1
    <3>2. LinkIdle(l)
      BY <1>4, <3>1
    <3>3. f \in Flit
      <4> HIDE DEF j
      <4>1. buffer[n][j] \in Seq(Stage) /\ buffer[n][j] # <<>>
        BY <1>3, <1>4, <3>1
      <4>2. Head(buffer[n][j]) \in Stage
        BY <4>1, HeadTailProperties
      <4> QED
        BY <4>2 DEF FrontOf, Stage
    <3>4. /\ level_tx'[l] = 1 - level_tx[l]
          /\ wr'[l] = [wr[l] EXCEPT !.req = 1 - level_tx[l], !.flit = f]
      BY <1>2, <2>1
    <3> HIDE DEF f
    <3> QED
      BY <1>7, <3>2, <3>3, <3>4 DEF TxStep
  <2>2. CASE l \notin driven
    <3> HIDE DEF driven
    <3> QED
      BY <1>2, <1>7, <2>2 DEF TxStep
  <2> QED
    BY <2>1, <2>2
<1>9. buffer' \in [Node -> [Port -> Seq(Stage)]]
  <2>1. \A i \in Port : Age(buffer[n][i]) \in Seq(Stage)
    BY <1>3, AgeResult
  <2>2. \A i \in fwd : Tail(Age(buffer[n][i])) \in Seq(Stage)
    BY <1>3, <1>4, AgeResult
  <2> HIDE DEF fwd
  <2> QED
    BY <1>2, <1>3, <2>1, <2>2
<1>10. rtable' \in [Node -> [Port -> Port \union {NOT_RESERVED, NOT_VALID}]] /\ PortsOK'
  <2> HIDE DEF released
  <2>1. \A o \in Port : rt[o] \in Port \union {NOT_RESERVED, NOT_VALID}
    BY <1>3, <1>6
  <2>2. rtable' \in [Node -> [Port -> Port \union {NOT_RESERVED, NOT_VALID}]]
    BY <1>2, <1>3, <2>1
  <2>3. ASSUME NEW m \in Node, NEW o \in Port
        PROVE  rtable'[m][o] = NOT_VALID <=> rtable[m][o] = NOT_VALID
    <3>1. CASE m # n
      BY <1>2, <1>3, <3>1
    <3>2. CASE m = n
      <4>1. rtable'[n][o] = IF o \in released THEN NOT_RESERVED ELSE rt[o]
        BY <1>2, <1>3
      <4> QED
        BY <1>5, <1>6, <3>2, <4>1, PortNumbers
    <3> QED
      BY <3>1, <3>2
  <2> QED
    BY <2>2, <2>3 DEF PortsOK, IInv
<1>11. start_from_port' \in [Node -> 0 .. 5]
  <2>1. \A k \in 0 .. 5 : (k + 1) % 6 \in 0 .. 5
    OBVIOUS
  <2> QED
    BY <1>3, <1>7, <2>1
<1>12. level_tx' = [l \in Link |-> level_tx'[l]] /\ wr' = [l \in Link |-> wr'[l]]
  BY <1>2
<1> QED
  BY <1>8, <1>9, <1>10, <1>11, <1>12

LEMMA ClockEdgeStep ==
  ASSUME IInv, ClockEdge
  PROVE  /\ \A l \in Link : EdgeStep(l)
         /\ now' \in Nat
  BY DEF ClockEdge, EdgeStep, IInv, TypeOK

-----------------------------------------------------------------------------
(* A step of any process, and the end of a clock edge, seen from one link.  *)
LEMMA EveryStep ==
  ASSUME IInv, Next
  PROVE  /\ \A l \in Link : RxStep(l) \/ TxStep(l) \/ EdgeStep(l)
         /\ IInv'
<1> DEFINE LinkFunctions ==
      /\ level_tx' = [l \in Link |-> level_tx'[l]]
      /\ level_rx' = [l \in Link |-> level_rx'[l]]
      /\ sig' = [l \in Link |-> sig'[l]]
      /\ wr' = [l \in Link |-> wr'[l]]
<1>1. LinkTypes
  BY DEF IInv, TypeOK, LinkTypes, Signals
<1>2. /\ level_tx = [l \in Link |-> level_tx[l]] /\ level_rx = [l \in Link |-> level_rx[l]]
      /\ sig = [l \in Link |-> sig[l]] /\ wr = [l \in Link |-> wr[l]]
  BY <1>1 DEF LinkTypes
<1>3. ASSUME \A l \in Link : RxStep(l) \/ TxStep(l) \/ EdgeStep(l), LinkFunctions
      PROVE  LinkTypes' /\ \A l \in Link : LinkOK(l)'
  <2>1. \A l \in Link : /\ level_tx'[l] \in Bit /\ level_rx'[l] \in Bit
                        /\ sig'[l] \in Signals /\ wr'[l] \in Signals
    BY <1>1, <1>3, LinkStepTypes
  <2>2. LinkTypes'
    BY <1>3, <2>1 DEF LinkTypes
  <2>3. \A l \in Link : LinkOK(l)'
    BY <1>1, <1>3, LinkStep DEF IInv
  <2> QED
    BY <2>2, <2>3
<1> DEFINE OtherTypes ==
      /\ buffer \in [Node -> [Port -> Seq(Stage)]]
      /\ rtable \in [Node -> [Port -> Port \union {NOT_RESERVED, NOT_VALID}]]
      /\ start_from_port \in [Node -> 0 .. 5]
      /\ packet_queue \in [Node -> Seq(Waiting)]
      /\ received \in [Node -> Seq(Flit)]
      /\ unsent \subseteq Packet
      /\ due \in [Packet -> Times] /\ routing_algorithm \in Algorithm /\ now \in Nat
      /\ todo \subseteq Node \X Proc
<1>4. OtherTypes /\ QueuesOK /\ PortsOK
  BY DEF IInv, TypeOK, Stage, Waiting
<1>5. ASSUME OtherTypes', LinkTypes' PROVE TypeOK'
  BY <1>5 DEF TypeOK, LinkTypes, Stage, Waiting, Signals
<1> HIDE DEF LinkFunctions, OtherTypes
<1>6. ASSUME NEW n \in Node, RouterRx(n)
      PROVE  (\A l \in Link : RxStep(l)) /\ IInv'
  <2>1. \A l \in Link : RxStep(l)
    BY <1>6, RouterRxStep
  <2>2. LinkFunctions
    BY <1>2, <1>6, RouterRxStep DEF LinkFunctions, RouterRx
  <2>3. OtherTypes' /\ QueuesOK' /\ PortsOK'
    BY <1>4, <1>6, RouterRxStep
       DEF OtherTypes, QueuesOK, PortsOK, RouterRx, Ran, peVars, clockVars
  <2> QED
    BY <1>3, <1>5, <2>1, <2>2, <2>3 DEF IInv
<1>7. ASSUME NEW n \in Node, RouterTx(n)
      PROVE  (\A l \in Link : TxStep(l)) /\ IInv'
  <2>1. (\A l \in Link : TxStep(l)) /\ PortsOK'
    BY <1>7, RouterTxStep
  <2>2. LinkFunctions
    BY <1>2, <1>7, RouterTxStep DEF LinkFunctions, RouterTx
  <2>3. OtherTypes' /\ QueuesOK'
    BY <1>4, <1>7, RouterTxStep
       DEF OtherTypes, QueuesOK, RouterTx, Ran, peVars, clockVars
  <2> QED
    BY <1>3, <1>5, <2>1, <2>2, <2>3 DEF IInv
<1>8. ASSUME NEW n \in Node, PeRx(n)
      PROVE  (\A l \in Link : RxStep(l)) /\ IInv'
  <2>1. \A l \in Link : RxStep(l)
    BY <1>8, PeRxStep
  <2>2. LinkFunctions
    BY <1>2, <1>8, PeRxStep DEF LinkFunctions, PeRx
  <2>3. OtherTypes' /\ QueuesOK' /\ PortsOK'
    BY <1>4, <1>8, PeRxStep
       DEF OtherTypes, QueuesOK, PortsOK, PeRx, Ran, routerVars, clockVars
  <2> QED
    BY <1>3, <1>5, <2>1, <2>2, <2>3 DEF IInv
<1>9. ASSUME NEW n \in Node, PeTx(n)
      PROVE  (\A l \in Link : TxStep(l)) /\ IInv'
  <2>1. (\A l \in Link : TxStep(l)) /\ QueuesOK'
    BY <1>9, PeTxStep
  <2>2. LinkFunctions
    BY <1>2, <1>9, PeTxStep DEF LinkFunctions, PeTx
  <2>3. OtherTypes' /\ PortsOK'
    BY <1>4, <1>9, PeTxStep
       DEF OtherTypes, PortsOK, PeTx, Ran, routerVars, clockVars
  <2> QED
    BY <1>3, <1>5, <2>1, <2>2, <2>3 DEF IInv
<1>10. ASSUME ClockEdge
       PROVE  (\A l \in Link : EdgeStep(l)) /\ IInv'
  <2>1. \A l \in Link : EdgeStep(l)
    BY <1>10, ClockEdgeStep
  <2>2. LinkFunctions
    BY <1>2, <1>10 DEF LinkFunctions, ClockEdge
  <2>3. OtherTypes' /\ QueuesOK' /\ PortsOK'
    BY <1>4, <1>10, ClockEdgeStep
       DEF OtherTypes, QueuesOK, PortsOK, ClockEdge, routerVars, peVars
  <2> QED
    BY <1>3, <1>5, <2>1, <2>2, <2>3 DEF IInv
<1> QED
  BY <1>6, <1>7, <1>8, <1>9, <1>10 DEF Next

LEMMA Stutter == IInv /\ UNCHANGED vars => IInv'
<1> SUFFICES ASSUME IInv, UNCHANGED vars PROVE IInv'
  OBVIOUS
<1>1. /\ UNCHANGED <<buffer, rtable, start_from_port, packet_queue, received, unsent>>
      /\ UNCHANGED <<due, routing_algorithm, now, level_tx, level_rx, sig, wr, todo>>
  BY DEF vars, routerVars, peVars, clockVars
<1>2. TypeOK'
  BY <1>1 DEF IInv, TypeOK
<1>3. QueuesOK' /\ PortsOK'
  BY <1>1 DEF IInv, QueuesOK, PortsOK
<1>4. \A l \in Link : LinkOK(l)'
  BY <1>1 DEF IInv, LinkOK, InFlight
<1> QED
  BY <1>2, <1>3, <1>4 DEF IInv

(* The inductive invariant holds in every behaviour that starts with equal  *)
(* levels.                                                                  *)
THEOREM Invariance ==
  ASSUME InitLevels = {0}
  PROVE  Spec => []IInv
<1>1. Init => IInv
  BY InitIInv
<1>2. IInv /\ [Next]_vars => IInv'
  BY EveryStep, Stutter
<1> QED
  BY <1>1, <1>2, PTL DEF Spec

(* Types, for every mesh, buffer depth, traffic and order of processes: in  *)
(* particular nothing but flits of the trace's packets is ever stored.      *)
THEOREM TypeCorrectness ==
  ASSUME InitLevels = {0}
  PROVE  Spec => []TypeOK
<1>1. IInv => TypeOK
  BY DEF IInv
<1> QED
  BY <1>1, Invariance, PTL

(* The alternating-bit protocol works in every order of the processes: a    *)
(* flit on a link is never overwritten before the receiver has taken it.    *)
THEOREM LinksNeverOverwrite ==
  ASSUME InitLevels = {0}
  PROVE  Spec => NoOverwrite
<1>1. IInv /\ [Next]_vars => [\A l \in Link : wr'[l].flit # wr[l].flit => ~InFlight(l)]_vars
  <2> SUFFICES ASSUME IInv, Next, NEW l \in Link
               PROVE  wr'[l].flit # wr[l].flit => ~InFlight(l)
    OBVIOUS
  <2>1. RxStep(l) \/ TxStep(l) \/ EdgeStep(l)
    BY EveryStep
  <2>2. LinkTypes /\ LinkOK(l)
    BY DEF IInv, TypeOK, LinkTypes, Signals
  <2> QED
    BY <2>1, <2>2, LinkStep
<1> QED
  BY <1>1, Invariance, PTL DEF Spec, NoOverwrite

(* No router of any mesh, under any of the six algorithms and any selection,*)
(* asks for a port that leads off the mesh: the exception is never thrown.  *)
THEOREM RoutersNeverThrow ==
  ASSUME InitLevels = {0}
  PROVE  Spec => []NeverThrows
<1>1. IInv => NeverThrows
  <2> SUFFICES ASSUME IInv, NEW n \in Node, NEW i \in Ready(n), NEW o \in Candidates(n, i)
               PROVE  rtable[n][o] # NOT_VALID
    BY DEF NeverThrows
  <2> DEFINE p == FrontOf(n, i).flit.pkt
  <2>1. p \in Packet
    <3>1. i \in Port /\ buffer[n][i] \in Seq(Stage) /\ buffer[n][i] # <<>>
      BY DEF Ready, IInv, TypeOK, Stage
    <3>2. Head(buffer[n][i]) \in Stage
      BY <3>1, HeadTailProperties
    <3> QED
      BY <3>2 DEF FrontOf, Stage, Flit
  <2>2. Src[p] \in Node /\ Dst[p] \in Node /\ routing_algorithm \in Algorithm
    BY <2>1, NoCAssumption DEF IInv, TypeOK
  <2>3. o \in route(routing_algorithm, n, Src[p], Dst[p])
    BY DEF Candidates
  <2> HIDE DEF p
  <2>4. o \in Port /\ o \in InPort(n)
    <3>1. CASE Dst[p] = n
      BY <2>3, <3>1, PortNumbers DEF route, InPort, Port, DIRECTION_LOCAL
    <3>2. CASE Dst[p] # n
      <4>1. o \in Toward(n, Dst[p])
        BY <2>2, <2>3, <3>2, RouteToward DEF route
      <4>2. o \in Direction /\ getNeighborId(n, o) \in Node
        BY <2>2, <4>1, HopToward
      <4> QED
        BY <4>2 DEF InPort, Port, HasNeighbor
    <3> QED
      BY <3>1, <3>2
  <2> QED
    BY <2>4 DEF IInv, PortsOK
<1> QED
  BY <1>1, Invariance, PTL

-----------------------------------------------------------------------------
(***************************************************************************)
(* Wormhole switching: packets cross each port whole and one after the     *)
(* other, by shortest paths, from their source to their destination.       *)
(***************************************************************************)
(* The outputs that an input port holds.                                    *)
HeldBy(n, i) == { o \in Port : rtable[n][o] = i }

(* g may be the next flit that is put on the link.                          *)
NextOn(l, g) ==
  IF wr[l].flit = NoFlit THEN IsHead(g) ELSE Follows(wr[l].flit, g)

(* g may be the next flit to come to the front of an empty input buffer.    *)
Enters(n, i, g) ==
  IF HeldBy(n, i) = {} THEN IsHead(g)
  ELSE \A o \in HeldBy(n, i) : Follows(wr[<<n, o>>].flit, g)

(* g may be the next flit to be stored in an input buffer.                  *)
Continues(n, i, g) ==
  IF buffer[n][i] = <<>> THEN Enters(n, i, g)
  ELSE Follows(buffer[n][i][Len(buffer[n][i])].flit, g)

(* g may be the next flit that a PE takes from the network.                 *)
Gets(n, g) ==
  IF received[n] = <<>> THEN IsHead(g) ELSE Follows(received[n][Len(received[n])], g)

(* An output is reserved while a packet passes it, and no input holds two.  *)
OutputsOK ==
  \A n \in Node : \A o \in InPort(n) :
    /\ rtable[n][o] \in Port <=> wr[<<n, o>>].flit # NoFlit /\ ~IsLast(wr[<<n, o>>].flit)
    /\ \A q \in Port : rtable[n][o] \in Port /\ rtable[n][q] = rtable[n][o] => q = o

(* The line of flits into a router: what is or will be on the link follows  *)
(* what is at the end of the buffer, the flits in the buffer follow each    *)
(* other, and its front follows what last passed the output it holds.       *)
LineOK(n, i) ==
  /\ buffer[n][i] # <<>> => Enters(n, i, buffer[n][i][1].flit)
  /\ Len(buffer[n][i]) <= BufferDepth
  /\ \A j \in 2 .. Len(buffer[n][i]) :
       Follows(buffer[n][i][j - 1].flit, buffer[n][i][j].flit)
  /\ i \in InPort(n) =>
       IF InFlight(InLink(n, i)) THEN Continues(n, i, wr[InLink(n, i)].flit)
       ELSE \A g \in Flit : NextOn(InLink(n, i), g) => Continues(n, i, g)

LinesOK == \A n \in Node : \A i \in Port : LineOK(n, i)

(* Only the packet at the front of a PE's queue is sent in part.            *)
SourceOK(n, q) ==
  /\ \A k \in DOMAIN q : k > 1 => q[k].flit_left = Size[q[k].pkt]
  /\ IF q = <<>> THEN wr[<<n, PE>>].flit = NoFlit \/ IsLast(wr[<<n, PE>>].flit)
     ELSE NextOn(<<n, PE>>, nextFlit(q))

SourcesOK == \A n \in Node : SourceOK(n, packet_queue[n])

(* The same for the flits a PE takes: whole packets, one after the other.   *)
SinkOK(n) ==
  LET l == <<n, DIRECTION_LOCAL>> IN
    /\ received[n] # <<>> => IsHead(received[n][1])
    /\ \A j \in 2 .. Len(received[n]) : Follows(received[n][j - 1], received[n][j])
    /\ IF InFlight(l) THEN Gets(n, wr[l].flit)
       ELSE \A g \in Flit : NextOn(l, g) => Gets(n, g)

SinksOK == \A n \in Node : SinkOK(n)

(* The flit is at a node of a shortest path, and has counted its hops.      *)
OnPath(f, n) ==
  /\ f.hop_no = Distance(Src[f.pkt], n)
  /\ f.hop_no + Distance(n, Dst[f.pkt]) = Distance(Src[f.pkt], Dst[f.pkt])

Leads(n, o, d) == IF o = DIRECTION_LOCAL THEN d = n ELSE o \in Toward(n, d)

BuffersOnPath ==
  \A n \in Node : \A i \in Port : \A j \in 1 .. Len(buffer[n][i]) :
    OnPath(buffer[n][i][j].flit, n)

LinksOnPath ==
  \A n \in Node :
    /\ \A o \in InPort(n) : wr[<<n, o>>].flit # NoFlit =>
         OnPath(wr[<<n, o>>].flit, n) /\ Leads(n, o, Dst[wr[<<n, o>>].flit.pkt])
    /\ wr[<<n, PE>>].flit # NoFlit =>
         wr[<<n, PE>>].flit.hop_no = 0 /\ Src[wr[<<n, PE>>].flit.pkt] = n

PacketsAtHome ==
  \A n \in Node : \A j \in 1 .. Len(packet_queue[n]) : Src[packet_queue[n][j].pkt] = n

(* A PE has got f at its destination, over a shortest path.                 *)
Delivered(f, n) == Dst[f.pkt] = n /\ f.hop_no = Distance(Src[f.pkt], n)

FlitsDelivered ==
  \A n \in Node : \A j \in 1 .. Len(received[n]) : Delivered(received[n][j], n)

WormInv ==
  /\ IInv
  /\ OutputsOK /\ LinesOK /\ SourcesOK /\ SinksOK
  /\ BuffersOnPath /\ LinksOnPath /\ PacketsAtHome /\ FlitsDelivered

-----------------------------------------------------------------------------
(* What Router::txProcess does, port by port: out[i] is the output through  *)
(* which input port i forwards its front, NOT_RESERVED when it does not.    *)
TxEffect(n, out) ==
  /\ \A i \in Port : out[i] \in Port =>
       LET o == out[i]
           f == FrontOf(n, i).flit
       IN  /\ buffer[n][i] # <<>> /\ o \in InPort(n) /\ LinkIdle(<<n, o>>)
           /\ \/ rtable[n][o] = i
              \/ rtable[n][o] = NOT_RESERVED /\ IsHead(f) /\ o \in Candidates(n, i)
           /\ buffer'[n][i] = Tail(Age(buffer[n][i]))
           /\ level_tx'[<<n, o>>] = 1 - level_tx[<<n, o>>]
           /\ wr'[<<n, o>>].flit = f
           /\ \A q \in Port : rtable'[n][q] = i <=> q = o /\ ~IsLast(f)
  /\ \A i, j \in Port : out[i] \in Port /\ out[i] = out[j] => i = j
  /\ \A i \in Port : out[i] \notin Port =>
       /\ buffer'[n][i] = Age(buffer[n][i])
       /\ HeldBy(n, i)' = HeldBy(n, i)
  /\ \A o \in InPort(n) : (\A i \in Port : out[i] # o) =>
       rtable'[n][o] = rtable[n][o] /\ wr'[<<n, o>>].flit = wr[<<n, o>>].flit
  /\ \A m \in Node \ {n} : buffer'[m] = buffer[m] /\ rtable'[m] = rtable[m]
  /\ \A l \in Link : (\A i \in Port : out[i] \in Port => l # <<n, out[i]>>) =>
       level_tx'[l] = level_tx[l] /\ wr'[l] = wr[l]

(* The flit in front of an input port that holds an output is not a head,   *)
(* so the port does not ask for another output.                             *)
LEMMA HolderNotHead ==
  ASSUME IInv, OutputsOK, LinesOK, NEW n \in Node, NEW i \in Port, NEW o \in Port,
         rtable[n][o] = i, buffer[n][i] # <<>>
  PROVE  ~IsHead(FrontOf(n, i).flit)
<1>2. o \in InPort(n)
  BY PortNumbers DEF IInv, PortsOK
<1>3. ~IsLast(wr[<<n, o>>].flit) /\ wr[<<n, o>>].flit # NoFlit
  BY <1>2 DEF OutputsOK
<1>4. Follows(wr[<<n, o>>].flit, FrontOf(n, i).flit)
  BY DEF LinesOK, LineOK, Enters, HeldBy, FrontOf
<1>5. FrontOf(n, i).flit.seq = wr[<<n, o>>].flit.seq + 1
  BY <1>3, <1>4 DEF Follows
<1>6. wr[<<n, o>>].flit.seq \in Nat
  <2>1. <<n, o>> \in Link
    BY <1>2 DEF InPort, Link
  <2>2. wr[<<n, o>>].flit \in Flit
    BY <2>1, <1>3 DEF IInv, TypeOK
  <2> QED  BY <2>2 DEF Flit
<1> QED
  BY <1>5, <1>6 DEF IsHead

(* The port it reserves is one that it chose.                               *)
LEMMA ReserveChosen ==
  ASSUME TypeOK, NEW n \in Node, NEW choice, NEW o \in Port
  PROVE  \/ Reserve(n, choice)[o] = rtable[n][o]
         \/ /\ rtable[n][o] = NOT_RESERVED
            /\ Reserve(n, choice)[o] \in Ready(n)
            /\ choice[Reserve(n, choice)[o]] = o
<1> SUFFICES ASSUME rtable[n][o] = NOT_RESERVED, NEW i \in Ready(n), choice[i] = o
             PROVE  /\ Reserve(n, choice)[o] \in Ready(n)
                    /\ choice[Reserve(n, choice)[o]] = o
  BY DEF Reserve
<1> DEFINE wants == { k \in Ready(n) : choice[k] = o }
<1>1. wants \in SUBSET Port /\ wants # {}
  BY DEF Ready
<1>2. [k \in Port |-> Turn(n, k)] \in [Port -> Nat]
  <2>1. \A k \in Port : k + 6 - start_from_port[n] \in Int
    <3>1. start_from_port[n] \in 0 .. 5
      BY DEF TypeOK
    <3> QED
      BY <3>1, PortNumbers
  <2>2. \A z \in Int : z % 6 \in Nat
    OBVIOUS
  <2> QED
    BY <2>1, <2>2 DEF Turn
<1>3. \E k \in wants : \A h \in wants : Turn(n, k) <= Turn(n, h)
  BY <1>1, <1>2, FirstPort
<1>4. Reserve(n, choice)[o] = CHOOSE k \in wants : \A h \in wants : Turn(n, k) <= Turn(n, h)
  BY <1>1 DEF Reserve
<1>5. Reserve(n, choice)[o] \in wants
  BY <1>3, <1>4
<1> QED
  BY <1>5

LEMMA OutPortOf ==
  ASSUME NEW rt, NEW i \in Port, NEW o \in Port, rt[o] = i
  PROVE  getOutputPort(rt, i) \in Port /\ getOutputPort(rt, i) # NOT_RESERVED
<1> DEFINE mine == { q \in Port : rt[q] = i }
<1>1. \E q \in mine : \A r \in mine : q <= r
  <2>1. [p \in Port |-> p] \in [Port -> Nat]
    BY PortNumbers
  <2>2. mine # {} /\ mine \in SUBSET Port
    OBVIOUS
  <2>3. PICK q \in mine : \A r \in mine : [p \in Port |-> p][q] <= [p \in Port |-> p][r]
    BY <2>1, <2>2, FirstPort
  <2> QED
    BY <2>2, <2>3
<1>2. \E q \in Port : rt[q] = i /\ \A r \in Port : rt[r] = i => q <= r
  BY <1>1
<1>3. getOutputPort(rt, i) = CHOOSE q \in Port : rt[q] = i /\ \A r \in Port : rt[r] = i => q <= r
  BY DEF getOutputPort
<1>4. getOutputPort(rt, i) \in Port
  BY <1>2, <1>3
<1> QED
  BY <1>4, PortNumbers

LEMMA RouterTxEffect ==
  ASSUME IInv, OutputsOK, LinesOK, NEW n \in Node, RouterTx(n)
  PROVE  \E out \in [Port -> Port \union {NOT_RESERVED}] : TxEffect(n, out)
<1>1. PICK choice \in [Ready(n) -> Port] :
        /\ \A i \in Ready(n) : choice[i] \in Candidates(n, i)
        /\ Forwarding(n, Reserve(n, choice))
  BY DEF RouterTx
<1> DEFINE rt        == Reserve(n, choice)
           fwd       == { i \in Port : Forwards(n, rt, i) }
           released  == { getOutputPort(rt, i) : i \in { j \in Port : Releases(n, rt, j) } }
           sender(l) == { i \in fwd : l = <<n, getOutputPort(rt, i)>> }
           driven    == { <<n, getOutputPort(rt, i)>> : i \in fwd }
           out       == [i \in Port |-> IF i \in fwd THEN getOutputPort(rt, i) ELSE NOT_RESERVED]
<1>2. /\ buffer' = [buffer EXCEPT ![n] = [i \in Port |->
             IF i \in fwd THEN Tail(Age(buffer[n][i])) ELSE Age(buffer[n][i])]]
      /\ rtable' = [rtable EXCEPT ![n] = [o \in Port |->
             IF o \in released THEN NOT_RESERVED ELSE rt[o]]]
      /\ level_tx' = [l \in Link |-> IF l \in driven THEN 1 - level_tx[l] ELSE level_tx[l]]
      /\ wr' = [l \in Link |->
             IF l \in driven
             THEN [wr[l] EXCEPT !.req = 1 - level_tx[l],
                                !.flit = FrontOf(n, CHOOSE i \in sender(l) : TRUE).flit]
             ELSE wr[l]]
  BY <1>1 DEF Forwarding
<1>3. /\ buffer \in [Node -> [Port -> Seq(Stage)]]
      /\ rtable \in [Node -> [Port -> Port \union {NOT_RESERVED, NOT_VALID}]]
      /\ level_tx \in [Link -> Bit] /\ wr \in [Link -> Signals]
  BY DEF IInv, TypeOK, Stage, Signals
<1>4. \A o \in Port : \/ rt[o] = rtable[n][o]
                      \/ /\ rtable[n][o] = NOT_RESERVED
                         /\ rt[o] \in Ready(n) /\ choice[rt[o]] = o
  BY ReserveChosen DEF IInv
<1>5. \A i \in fwd : /\ Holds(n, rt, i) /\ buffer[n][i] # <<>>
                     /\ LinkIdle(<<n, getOutputPort(rt, i)>>)
                     /\ getOutputPort(rt, i) # NOT_RESERVED
  BY DEF Forwards, Holds
<1>6. \A i \in Port : Releases(n, rt, i) =>
        /\ Holds(n, rt, i) /\ getOutputPort(rt, i) # NOT_RESERVED
        /\ Forwards(n, rt, i) => IsLast(FrontOf(n, i).flit)
        /\ ~Forwards(n, rt, i) => IsHead(FrontOf(n, i).flit)
  BY DEF Releases, Holds
<1>7. \A i \in Port : Holds(n, rt, i) /\ (IF Forwards(n, rt, i) THEN IsLast(FrontOf(n, i).flit)
                                           ELSE IsHead(FrontOf(n, i).flit))
                      => Releases(n, rt, i)
  BY DEF Releases
<1>8. \A i \in Ready(n) : /\ i \in Port /\ buffer[n][i] # <<>> /\ IsHead(FrontOf(n, i).flit)
                          /\ choice[i] \in Candidates(n, i)
  BY <1>1 DEF Ready
<1>9. \A i \in Port : buffer[n][i] # <<>> /\ getOutputPort(rt, i) # NOT_RESERVED => Holds(n, rt, i)
  BY DEF Holds
<1> HIDE DEF rt
(* Under the reservations of this cycle, too, no input holds two outputs.   *)
<1>10. ASSUME NEW i \in Port, NEW o \in Port, NEW q \in Port, rt[o] = i, rt[q] = i
       PROVE  o = q
  <2>1. CASE rt[o] = rtable[n][o] /\ rt[q] = rtable[n][q]
    <3>1. o \in InPort(n)
      BY <1>10, <2>1, PortNumbers DEF IInv, PortsOK
    <3> QED
      BY <1>10, <2>1, <3>1 DEF OutputsOK
  <2>2. CASE rt[o] # rtable[n][o] /\ rt[q] # rtable[n][q]
    BY <1>4, <1>10, <2>2
  <2>3. CASE rt[o] # rtable[n][o] /\ rt[q] = rtable[n][q]
    <3>1. i \in Ready(n)
      BY <1>4, <1>10, <2>3
    <3> QED
      BY <1>8, <1>10, <2>3, <3>1, HolderNotHead
  <2>4. CASE rt[o] = rtable[n][o] /\ rt[q] # rtable[n][q]
    <3>1. i \in Ready(n)
      BY <1>4, <1>10, <2>4
    <3> QED
      BY <1>8, <1>10, <2>4, <3>1, HolderNotHead
  <2> QED
    BY <2>1, <2>2, <2>3, <2>4
<1>11. ASSUME NEW i \in Port, NEW o \in Port, rt[o] = i
       PROVE  getOutputPort(rt, i) = o /\ o # NOT_RESERVED
  <2>1. getOutputPort(rt, i) \in Port /\ getOutputPort(rt, i) # NOT_RESERVED
    BY <1>11, OutPortOf
  <2>2. rt[getOutputPort(rt, i)] = i
    BY <2>1, OutPort
  <2> QED
    BY <1>10, <1>11, <2>1, <2>2, PortNumbers
<1>12. \A i \in Port : Holds(n, rt, i) => /\ getOutputPort(rt, i) \in Port
                                          /\ rt[getOutputPort(rt, i)] = i
  BY OutPort DEF Holds
<1>13. \A i \in Port : \A o \in Port : rt[o] = i => o \in InPort(n)
  BY <1>4, PortNumbers DEF IInv, PortsOK
<1>14. out \in [Port -> Port \union {NOT_RESERVED}]
  BY <1>5, <1>12
<1>15. \A i \in Port : /\ out[i] \in Port <=> i \in fwd
                       /\ i \in fwd => out[i] = getOutputPort(rt, i) /\ rt[out[i]] = i
  BY <1>5, <1>12, PortNumbers
<1>16. \A q \in released : q \in Port /\ rt[q] \in Port /\ Releases(n, rt, rt[q])
  BY <1>6, <1>12
<1>17. \A q \in Port : rt[q] \in Port /\ Releases(n, rt, rt[q]) => q \in released
  <2> SUFFICES ASSUME NEW q \in Port, rt[q] \in Port, Releases(n, rt, rt[q])
               PROVE  q \in released
    OBVIOUS
  <2>1. getOutputPort(rt, rt[q]) = q
    BY <1>11
  <2> QED
    BY <2>1
<1>18. \A q \in Port : rtable'[n][q] = IF q \in released THEN NOT_RESERVED ELSE rt[q]
  BY <1>2, <1>3
<1>19. \A i \in Port : buffer'[n][i] = IF i \in fwd THEN Tail(Age(buffer[n][i]))
                                       ELSE Age(buffer[n][i])
  BY <1>2, <1>3
<1>20. \A m \in Node \ {n} : buffer'[m] = buffer[m] /\ rtable'[m] = rtable[m]
  BY <1>2, <1>3
<1>21. \A i \in Port : i \in fwd <=> Forwards(n, rt, i)
  OBVIOUS
<1> HIDE DEF released
(* An input that forwards. *)
<1>22. ASSUME NEW i \in Port, out[i] \in Port
       PROVE  LET o == out[i]
                  f == FrontOf(n, i).flit
              IN  /\ buffer[n][i] # <<>> /\ o \in InPort(n) /\ LinkIdle(<<n, o>>)
                  /\ \/ rtable[n][o] = i
                     \/ rtable[n][o] = NOT_RESERVED /\ IsHead(f) /\ o \in Candidates(n, i)
                  /\ buffer'[n][i] = Tail(Age(buffer[n][i]))
                  /\ level_tx'[<<n, o>>] = 1 - level_tx[<<n, o>>]
                  /\ wr'[<<n, o>>].flit = f
                  /\ \A q \in Port : rtable'[n][q] = i <=> q = o /\ ~IsLast(f)
  <2> DEFINE o == out[i]
             f == FrontOf(n, i).flit
  <2>1. i \in fwd /\ o = getOutputPort(rt, i) /\ rt[o] = i /\ o \in Port
    BY <1>15, <1>22
  <2> HIDE DEF out
  <2>2. buffer[n][i] # <<>> /\ o \in InPort(n) /\ LinkIdle(<<n, o>>)
    BY <1>5, <1>13, <2>1
  <2>3. \/ rtable[n][o] = i
        \/ rtable[n][o] = NOT_RESERVED /\ IsHead(f) /\ o \in Candidates(n, i)
    BY <1>4, <1>8, <2>1
  <2>4. <<n, o>> \in Link /\ <<n, o>> \in driven
    BY <2>1, <2>2 DEF Link, InPort
  <2>5. (CHOOSE k \in sender(<<n, o>>) : TRUE) = i
    <3>1. i \in sender(<<n, o>>)
      BY <2>1
    <3>2. \A k \in sender(<<n, o>>) : k = i
      <4> SUFFICES ASSUME NEW k \in fwd, <<n, o>> = <<n, getOutputPort(rt, k)>>
                   PROVE  k = i
        OBVIOUS
      <4>1. o = getOutputPort(rt, k) /\ k \in Port
        OBVIOUS
      <4>2. rt[o] = k
        BY <1>5, <1>12, <4>1
      <4> QED  BY <2>1, <4>2
    <3> QED
      BY <3>1, <3>2
  <2>6. wr'[<<n, o>>].flit = f
    <3> DEFINE l == <<n, o>>
               k == CHOOSE h \in sender(l) : TRUE
               g == FrontOf(n, k).flit
    <3>1. l \in Link /\ l \in driven
      BY <2>4
    <3>2. wr'[l] = [wr[l] EXCEPT !.req = 1 - level_tx[l], !.flit = g]
      <4> HIDE DEF o
      <4> QED  BY <1>2, <3>1
    <3>3. g = f
      BY <2>5
    <3>4. wr[l] \in Signals
      BY <1>3, <3>1
    <3> HIDE DEF l, g, k
    <3>5. wr'[l].flit = g
      BY <3>2, <3>4 DEF Signals
    <3> QED
      BY <3>3, <3>5 DEF l
  <2>7. level_tx'[<<n, o>>] = 1 - level_tx[<<n, o>>]
    BY <1>2, <2>4
  <2>8. ASSUME NEW q \in Port
        PROVE  rtable'[n][q] = i <=> q = o /\ ~IsLast(f)
    <3>1. Holds(n, rt, i) /\ Forwards(n, rt, i)
      BY <1>5, <1>21, <2>1
    <3>2. o \in released <=> IsLast(f)
      BY <1>6, <1>7, <1>16, <1>17, <2>1, <3>1
    <3>3. rt[q] = i => q = o
      BY <1>10, <2>1
    <3> QED
      BY <1>18, <2>1, <3>2, <3>3, PortNumbers
  <2> QED
    BY <1>19, <2>1, <2>2, <2>3, <2>6, <2>7, <2>8
(* An input that does not.  What it reserved now, it gives back. *)
<1>23. ASSUME NEW i \in Port, out[i] \notin Port
       PROVE  buffer'[n][i] = Age(buffer[n][i]) /\ HeldBy(n, i)' = HeldBy(n, i)
  <2>1. i \notin fwd /\ ~Forwards(n, rt, i)
    BY <1>15, <1>21, <1>23
  <2>2. ASSUME NEW q \in Port, rtable'[n][q] = i
        PROVE  rtable[n][q] = i
    <3>1. q \notin released /\ rt[q] = i
      BY <1>18, <2>2, PortNumbers
    <3>2. CASE rt[q] # rtable[n][q]
      <4>1. i \in Ready(n) /\ getOutputPort(rt, i) # NOT_RESERVED
        BY <1>4, <1>11, <3>1, <3>2
      <4>2. Holds(n, rt, i) /\ IsHead(FrontOf(n, i).flit)
        BY <1>8, <1>9, <4>1
      <4> QED
        BY <1>7, <1>17, <2>1, <3>1, <4>2
    <3> QED
      BY <3>1, <3>2
  <2>3. ASSUME NEW q \in Port, rtable[n][q] = i
        PROVE  rtable'[n][q] = i
    <3>1. rt[q] = i
      BY <1>4, <2>3, PortNumbers
    <3>2. CASE q \in released
      <4>1. Holds(n, rt, i) /\ IsHead(FrontOf(n, i).flit)
        BY <1>6, <1>16, <2>1, <3>1, <3>2
      <4> QED
        BY <2>3, <4>1, HolderNotHead DEF Holds
    <3> QED
      BY <1>18, <3>1, <3>2
  <2> QED
    BY <1>19, <2>1, <2>2, <2>3 DEF HeldBy
<1>24. ASSUME NEW o \in InPort(n), \A i \in Port : out[i] # o
       PROVE  rtable'[n][o] = rtable[n][o] /\ wr'[<<n, o>>].flit = wr[<<n, o>>].flit
  <2>1. o \in Port /\ <<n, o>> \in Link
    BY DEF InPort, Link
  <2>2. <<n, o>> \notin driven
    BY <1>15, <1>24
  <2>3. CASE rt[o] \in Port
    <3>1. PICK i \in Port : i = rt[o]
      BY <2>3
    <3>2. out[i] \notin Port
      BY <1>11, <1>15, <1>24, <2>1, <3>1
    <3>3. HeldBy(n, i)' = HeldBy(n, i)
      BY <1>23, <3>2
    <3>4. rtable'[n][o] = i <=> rtable[n][o] = i
      BY <2>1, <3>3 DEF HeldBy
    <3> QED
      BY <1>2, <1>4, <1>18, <2>1, <2>2, <3>1, <3>4
  <2>4. CASE rt[o] \notin Port
    <3>1. o \notin released /\ rt[o] = rtable[n][o]
      BY <1>4, <1>8, <1>16, <2>1, <2>4
    <3> QED
      BY <1>2, <1>18, <2>1, <2>2, <3>1
  <2> QED
    BY <2>3, <2>4
<1>25. ASSUME NEW l \in Link, \A i \in Port : out[i] \in Port => l # <<n, out[i]>>
       PROVE  level_tx'[l] = level_tx[l] /\ wr'[l] = wr[l]
  <2>1. l \notin driven
    BY <1>15, <1>25
  <2> HIDE DEF driven, sender
  <2> QED
    BY <1>2, <2>1
<1>26. \A i, j \in Port : out[i] \in Port /\ out[i] = out[j] => i = j
  BY <1>15
<1> HIDE DEF out
<1>27. TxEffect(n, out)
  BY <1>20, <1>22, <1>23, <1>24, <1>25, <1>26 DEF TxEffect
<1> QED
  BY <1>14, <1>27

-----------------------------------------------------------------------------
LEMMA PacketNotZero == 0 \notin Packet
BY NoCAssumption DEF Packet

(* One line: what the steps of its reader, its writer and its owner do.     *)

SameFlits(b, c) ==
  Len(b) = Len(c) /\ \A k \in 1 .. Len(c) : b[k].flit = c[k].flit

LEMMA AgeSame ==
  ASSUME NEW q \in Seq(Stage)
  PROVE  Age(q) \in Seq(Stage) /\ SameFlits(Age(q), q)
<1>1. Len(q) \in Nat /\ DOMAIN q = 1 .. Len(q) /\ \A k \in 1 .. Len(q) : q[k] \in Stage
  BY LenProperties, ElementOfSeq
<1>2. Age(q) \in Seq(Stage)
  BY AgeResult
<1>3. Age(q) = [k \in 1 .. Len(q) |-> [q[k] EXCEPT !.r_time = Aged(q[k].r_time)]]
  BY <1>1 DEF Age
<1>4. Len(Age(q)) = Len(q)
  BY <1>1, <1>2, <1>3, LenProperties
<1>5. \A k \in 1 .. Len(q) : Age(q)[k].flit = q[k].flit
  <2> SUFFICES ASSUME NEW k \in 1 .. Len(q) PROVE Age(q)[k].flit = q[k].flit
    OBVIOUS
  <2>1. Age(q)[k] = [q[k] EXCEPT !.r_time = Aged(q[k].r_time)]
    BY <1>3
  <2>2. q[k] \in Stage
    BY <1>1
  <2> QED  BY <2>1, <2>2 DEF Stage
<1> QED
  BY <1>2, <1>4, <1>5 DEF SameFlits

LEMMA TailFlits ==
  ASSUME NEW q \in Seq(Stage), q # <<>>
  PROVE  /\ Tail(Age(q)) \in Seq(Stage) /\ Len(Tail(Age(q))) = Len(q) - 1
         /\ \A k \in 1 .. Len(q) - 1 : Tail(Age(q))[k].flit = q[k + 1].flit
<1>1. Age(q) \in Seq(Stage) /\ SameFlits(Age(q), q) /\ Age(q) # <<>>
  BY AgeSame, AgeResult
<1>2. Len(q) \in Nat
  BY LenProperties
<1>3. /\ Tail(Age(q)) \in Seq(Stage) /\ Len(Tail(Age(q))) = Len(Age(q)) - 1
      /\ \A k \in 1 .. Len(Tail(Age(q))) : Tail(Age(q))[k] = Age(q)[k + 1]
  BY <1>1, HeadTailProperties
<1> QED
  BY <1>1, <1>2, <1>3 DEF SameFlits

LEMMA LineFrame ==
  ASSUME NEW n \in Node, NEW i \in Port, LineOK(n, i),
         buffer[n][i] \in Seq(Stage), buffer'[n][i] \in Seq(Stage),
         SameFlits(buffer'[n][i], buffer[n][i]),
         HeldBy(n, i)' = HeldBy(n, i),
         \A o \in HeldBy(n, i) : wr'[<<n, o>>].flit = wr[<<n, o>>].flit,
         i \in InPort(n) => /\ InFlight(InLink(n, i))' <=> InFlight(InLink(n, i))
                            /\ wr'[InLink(n, i)].flit = wr[InLink(n, i)].flit
  PROVE  LineOK(n, i)'
<1> DEFINE b == buffer[n][i]
           c == buffer'[n][i]
           l == InLink(n, i)
<1>1. Len(c) = Len(b) /\ Len(b) \in Nat /\ \A k \in 1 .. Len(b) : c[k].flit = b[k].flit
  BY LenProperties DEF SameFlits
<1>2. b = <<>> <=> c = <<>>
  BY <1>1, EmptySeq
<1>3. b # <<>> => Len(b) \in 1 .. Len(b) /\ 1 \in 1 .. Len(b)
  BY <1>1, EmptySeq
<1>4. \A g : Enters(n, i, g)' <=> Enters(n, i, g)
  BY DEF Enters
<1>5. \A g : Continues(n, i, g)' <=> Continues(n, i, g)
  BY <1>1, <1>2, <1>3, <1>4 DEF Continues
<1>6. i \in InPort(n) => \A g : NextOn(l, g)' <=> NextOn(l, g)
  BY DEF NextOn
<1> QED
  BY <1>1, <1>2, <1>3, <1>4, <1>5, <1>6 DEF LineOK

(* The flit on the link is stored.                                          *)
LEMMA LineTake ==
  ASSUME NEW n \in Node, NEW i \in InPort(n), LineOK(n, i),
         buffer[n][i] \in Seq(Stage), Len(buffer[n][i]) < BufferDepth,
         InFlight(InLink(n, i)), ~InFlight(InLink(n, i))',
         wr[InLink(n, i)].flit \in Flit, wr'[InLink(n, i)].flit = wr[InLink(n, i)].flit,
         buffer'[n][i] = Append(buffer[n][i], Stored(wr[InLink(n, i)].flit, i)),
         HeldBy(n, i)' = HeldBy(n, i),
         \A o \in HeldBy(n, i) : wr'[<<n, o>>].flit = wr[<<n, o>>].flit
  PROVE  LineOK(n, i)'
<1> DEFINE b == buffer[n][i]
           c == buffer'[n][i]
           l == InLink(n, i)
           f == wr[l].flit
           x == Stored(f, i)
<1>1. x \in Stage /\ x.flit.pkt = f.pkt /\ x.flit.seq = f.seq
  BY NoCAssumption DEF Stored, Stage, Flit
<1>2. /\ Len(b) \in Nat /\ c \in Seq(Stage) /\ Len(c) = Len(b) + 1
      /\ \A k \in 1 .. Len(b) : c[k] = b[k]
      /\ c[Len(c)] = x /\ c # <<>>
  <2>1. c = Append(b, x)
    OBVIOUS
  <2> HIDE DEF b, c, x
  <2>2. b \in Seq(Stage)
    BY DEF b
  <2> QED  BY <1>1, <2>1, <2>2, LenProperties, AppendProperties, EmptySeq
<1>3. \A g : Enters(n, i, g)' <=> Enters(n, i, g)
  BY DEF Enters
<1>4. /\ \A g : Follows(g, f) => Follows(g, x.flit)
      /\ IsHead(f) => IsHead(x.flit)
      /\ \A g : Follows(f, g) => Follows(x.flit, g)
  BY <1>1 DEF Follows, IsHead, IsLast
<1>5. Enters(n, i, f) => Enters(n, i, x.flit)
  BY <1>4 DEF Enters
<1>6. b = <<>> <=> Len(b) = 0
  BY EmptySeq
<1>7. f # NoFlit
  BY PacketNotZero DEF Flit, NoFlit
<1>8. Continues(n, i, f)
  BY DEF LineOK
<1> HIDE DEF x
<1>9. Enters(n, i, buffer[n][i][1].flit)'
  <2>1. CASE b = <<>>
    <3>1. Enters(n, i, f)
      BY <1>8, <2>1 DEF Continues
    <3>2. c[1] = x
      BY <1>2, <1>6, <2>1
    <3> QED
      BY <1>3, <1>5, <3>1, <3>2
  <2>2. CASE b # <<>>
    BY <1>2, <1>3, <1>6, <2>2 DEF LineOK
  <2> QED
    BY <2>1, <2>2
<1>10. ASSUME NEW j \in 2 .. Len(c) PROVE Follows(c[j - 1].flit, c[j].flit)
  <2>1. CASE j \in 2 .. Len(b)
    BY <1>2, <2>1 DEF LineOK
  <2>2. CASE j = Len(b) + 1
    BY <1>2, <1>4, <1>6, <1>8, <2>2 DEF Continues
  <2> QED
    BY <1>2, <2>1, <2>2
<1>11. \A g : NextOn(l, g)' => Continues(n, i, g)'
  BY <1>2, <1>4, <1>7 DEF NextOn, Continues
<1>12. Len(c) <= BufferDepth
  BY <1>2, NoCAssumption
<1> QED
  BY <1>9, <1>10, <1>11, <1>12 DEF LineOK

(* A flit is put on the link.                                               *)
LEMMA LineSend ==
  ASSUME NEW n \in Node, NEW i \in InPort(n), LineOK(n, i),
         ~InFlight(InLink(n, i)), InFlight(InLink(n, i))',
         NEW f \in Flit, NextOn(InLink(n, i), f), wr'[InLink(n, i)].flit = f,
         buffer'[n][i] = buffer[n][i],
         HeldBy(n, i)' = HeldBy(n, i),
         \A o \in HeldBy(n, i) : wr'[<<n, o>>].flit = wr[<<n, o>>].flit
  PROVE  LineOK(n, i)'
<1>1. \A g : Enters(n, i, g)' <=> Enters(n, i, g)
  BY DEF Enters
<1>2. \A g : Continues(n, i, g)' <=> Continues(n, i, g)
  BY <1>1 DEF Continues
<1>3. Continues(n, i, f)
  BY DEF LineOK
<1> QED
  BY <1>1, <1>2, <1>3 DEF LineOK

(* The flit in front is forwarded, and holds the output unless it is last.  *)
LEMMA LineForward ==
  ASSUME NEW n \in Node, NEW i \in Port, LineOK(n, i),
         buffer[n][i] \in Seq(Stage), buffer[n][i] # <<>>,
         buffer'[n][i] = Tail(Age(buffer[n][i])),
         NEW o \in Port, wr'[<<n, o>>].flit = buffer[n][i][1].flit,
         \A q \in Port : rtable'[n][q] = i <=> q = o /\ ~IsLast(buffer[n][i][1].flit),
         i \in InPort(n) => /\ InFlight(InLink(n, i))' <=> InFlight(InLink(n, i))
                            /\ wr'[InLink(n, i)].flit = wr[InLink(n, i)].flit
  PROVE  LineOK(n, i)'
<1> DEFINE b == buffer[n][i]
           c == buffer'[n][i]
           f == b[1].flit
           l == InLink(n, i)
<1>1. /\ Len(b) \in Nat \ {0} /\ c \in Seq(Stage) /\ Len(c) = Len(b) - 1
      /\ \A k \in 1 .. Len(c) : c[k].flit = b[k + 1].flit
  BY TailFlits, LenProperties, EmptySeq
<1>2. c = <<>> <=> Len(b) = 1
  <2> HIDE DEF b, c
  <2> QED  BY <1>1, EmptySeq
<1>3. \A g : Follows(f, g) => Enters(n, i, g)'
  <2> SUFFICES ASSUME NEW g, Follows(f, g) PROVE Enters(n, i, g)'
    OBVIOUS
  <2>1. CASE IsLast(f)
    <3>1. HeldBy(n, i)' = {}
      BY <2>1 DEF HeldBy
    <3> QED  BY <2>1, <3>1 DEF Enters, Follows
  <2>2. CASE ~IsLast(f)
    <3>1. HeldBy(n, i)' = {o}
      BY <2>2 DEF HeldBy
    <3> QED  BY <3>1 DEF Enters
  <2> QED  BY <2>1, <2>2
<1>4. c # <<>> => Enters(n, i, buffer[n][i][1].flit)'
  <2> SUFFICES ASSUME c # <<>> PROVE Enters(n, i, buffer[n][i][1].flit)'
    OBVIOUS
  <2>1. 2 \in 2 .. Len(b) /\ 1 \in 1 .. Len(c)
    BY <1>1, <1>2
  <2>2. Follows(f, b[2].flit) /\ c[1].flit = b[2].flit
    <3>1. Follows(b[2 - 1].flit, b[2].flit)
      BY <2>1 DEF LineOK
    <3>2. c[1].flit = b[1 + 1].flit
      BY <1>1, <2>1
    <3> QED  BY <3>1, <3>2
  <2> QED
    BY <1>3, <2>2
<1>5. Len(c) <= BufferDepth
  BY <1>1, NoCAssumption DEF LineOK
<1>6. ASSUME NEW j \in 2 .. Len(c) PROVE Follows(c[j - 1].flit, c[j].flit)
  <2>1. j + 1 \in 2 .. Len(b) /\ j - 1 \in 1 .. Len(c) /\ j \in 1 .. Len(c)
    BY <1>1
  <2>2. Follows(b[(j + 1) - 1].flit, b[j + 1].flit)
    BY <2>1 DEF LineOK
  <2>3. c[j - 1].flit = b[(j - 1) + 1].flit /\ c[j].flit = b[j + 1].flit
    BY <1>1, <2>1
  <2> QED
    BY <2>2, <2>3
<1>7. ASSUME NEW g, Continues(n, i, g) PROVE Continues(n, i, g)'
  <2>1. Follows(b[Len(b)].flit, g)
    BY <1>7 DEF Continues
  <2>2. CASE c = <<>>
    BY <1>2, <1>3, <2>1, <2>2 DEF Continues
  <2>3. CASE c # <<>>
    <3>1. Len(c) \in 1 .. Len(c)
      BY <1>1, <1>2, <2>3
    <3>2. c[Len(c)].flit = b[Len(b)].flit
      <4> HIDE DEF b, c
      <4>1. c[Len(c)].flit = b[Len(c) + 1].flit
        BY <1>1, <3>1
      <4>2. Len(c) + 1 = Len(b)
        BY <1>1
      <4> QED  BY <4>1, <4>2
    <3> QED  BY <2>1, <2>3, <3>2 DEF Continues
  <2> QED  BY <2>2, <2>3
<1>8. i \in InPort(n) => \A g : NextOn(l, g)' <=> NextOn(l, g)
  BY DEF NextOn
<1> QED
  BY <1>4, <1>5, <1>6, <1>7, <1>8 DEF LineOK

-----------------------------------------------------------------------------
(* The PEs at both ends.                                                    *)

LEMMA SinkFrame ==
  ASSUME NEW n \in Node, SinkOK(n), received'[n] = received[n],
         InFlight(<<n, DIRECTION_LOCAL>>)' <=> InFlight(<<n, DIRECTION_LOCAL>>),
         wr'[<<n, DIRECTION_LOCAL>>].flit = wr[<<n, DIRECTION_LOCAL>>].flit
  PROVE  SinkOK(n)'
BY DEF SinkOK, Gets, NextOn

LEMMA SinkSend ==
  ASSUME NEW n \in Node, SinkOK(n), received'[n] = received[n],
         ~InFlight(<<n, DIRECTION_LOCAL>>), InFlight(<<n, DIRECTION_LOCAL>>)',
         NEW f \in Flit, NextOn(<<n, DIRECTION_LOCAL>>, f),
         wr'[<<n, DIRECTION_LOCAL>>].flit = f
  PROVE  SinkOK(n)'
BY DEF SinkOK, Gets, NextOn

LEMMA SinkTake ==
  ASSUME NEW n \in Node, SinkOK(n), received[n] \in Seq(Flit),
         InFlight(<<n, DIRECTION_LOCAL>>), ~InFlight(<<n, DIRECTION_LOCAL>>)',
         NEW f \in Flit, wr[<<n, DIRECTION_LOCAL>>].flit = f,
         wr'[<<n, DIRECTION_LOCAL>>].flit = f,
         received'[n] = Append(received[n], f)
  PROVE  SinkOK(n)'
<1> DEFINE r == received[n]
           c == received'[n]
<1>1. /\ Len(r) \in Nat /\ Len(c) = Len(r) + 1 /\ c # <<>>
      /\ \A k \in 1 .. Len(r) : c[k] = r[k]
      /\ c[Len(c)] = f
  <2>1. c = Append(r, f)
    OBVIOUS
  <2> HIDE DEF r, c
  <2>2. r \in Seq(Flit)
    BY DEF r
  <2> QED  BY <2>1, <2>2, LenProperties, AppendProperties, EmptySeq
<1>2. r = <<>> <=> Len(r) = 0
  BY EmptySeq
<1>3. Gets(n, f) /\ f # NoFlit
  BY PacketNotZero DEF SinkOK, Flit, NoFlit
<1>4. IsHead(c[1])
  <2>1. CASE r = <<>>
    <3>1. c[1] = f
      BY <1>1, <1>2, <2>1
    <3> QED  BY <1>3, <2>1, <3>1 DEF Gets
  <2>2. CASE r # <<>>
    <3>1. c[1] = r[1]
      BY <1>1, <1>2, <2>2
    <3> QED  BY <2>2, <3>1 DEF SinkOK
  <2> QED  BY <2>1, <2>2
<1>5. ASSUME NEW j \in 2 .. Len(c) PROVE Follows(c[j - 1], c[j])
  <2>1. CASE j \in 2 .. Len(r)
    <3>1. Follows(r[j - 1], r[j])
      BY <2>1 DEF SinkOK
    <3>2. j - 1 \in 1 .. Len(r) /\ j \in 1 .. Len(r)
      BY <1>1, <2>1
    <3> QED  BY <1>1, <3>1, <3>2
  <2>2. CASE j = Len(r) + 1
    <3>1. r # <<>> /\ Len(r) \in 1 .. Len(r) /\ j - 1 = Len(r) /\ j = Len(c)
      BY <1>1, <1>2, <2>2
    <3>2. Follows(r[Len(r)], f)
      BY <1>3, <3>1 DEF Gets
    <3> QED  BY <1>1, <3>1, <3>2
  <2> QED
    BY <1>1, <2>1, <2>2
<1>6. \A g : NextOn(<<n, DIRECTION_LOCAL>>, g)' => Gets(n, g)'
  BY <1>1, <1>3 DEF NextOn, Gets
<1> QED
  BY <1>4, <1>5, <1>6 DEF SinkOK

(* A packet that is fired is put behind the queue as a whole.               *)
LEMMA SourceFire ==
  ASSUME NEW n \in Node, NEW q \in Seq(Waiting), SourceOK(n, q), NEW p \in Packet
  PROVE  SourceOK(n, Append(q, [pkt |-> p, flit_left |-> Size[p]]))
<1> DEFINE e == [pkt |-> p, flit_left |-> Size[p]]
           r == Append(q, e)
<1>1. e \in Waiting /\ e.flit_left = Size[e.pkt]
  BY NoCAssumption DEF Waiting
<1>2. Size[p] \in Nat
  BY NoCAssumption
<1>3. nextFlit(<<e>>) = [pkt |-> p, seq |-> 0, hop_no |-> 0]
  BY <1>2 DEF nextFlit
<1> HIDE DEF e
<1>4. /\ Len(q) \in Nat /\ DOMAIN q = 1 .. Len(q) /\ DOMAIN r = 1 .. Len(q) + 1
      /\ r # <<>> /\ r[Len(q) + 1] = e
      /\ \A k \in 1 .. Len(q) : r[k] = q[k]
  BY <1>1, LenProperties, AppendProperties, EmptySeq
<1>5. q = <<>> <=> Len(q) = 0
  BY EmptySeq
<1> HIDE DEF r
<1>6. \A k \in DOMAIN r : k > 1 => r[k].flit_left = Size[r[k].pkt]
  BY <1>1, <1>4 DEF SourceOK
<1>7. NextOn(<<n, PE>>, nextFlit(r))
  <2>1. CASE q = <<>>
    <3>1. nextFlit(r) = nextFlit(<<e>>)
      BY <1>4, <1>5, <2>1 DEF nextFlit
    <3>2. IsHead(nextFlit(r))
      BY <1>3, <3>1 DEF IsHead
    <3> QED
      BY <2>1, <3>2 DEF SourceOK, NextOn, Follows
  <2>2. CASE q # <<>>
    <3>1. nextFlit(r) = nextFlit(q)
      BY <1>4, <1>5, <2>2 DEF nextFlit
    <3> QED
      BY <2>2, <3>1 DEF SourceOK
  <2> QED  BY <2>1, <2>2
<1> QED
  BY <1>4, <1>6, <1>7 DEF SourceOK, r, e

(* The queue that is left when a flit was sent.                             *)
LEMMA SourceSend ==
  ASSUME NEW n \in Node, NEW q \in Seq(Waiting), SourceOK(n, q), Bounded(q), q # <<>>,
         wr'[<<n, PE>>].flit = nextFlit(q)
  PROVE  SourceOK(n, AfterFlit(q))'
<1> DEFINE e == q[1]
           f == nextFlit(q)
<1>1. /\ Len(q) \in Nat \ {0} /\ DOMAIN q = 1 .. Len(q) /\ 1 \in DOMAIN q
      /\ \A k \in DOMAIN q : q[k] \in Waiting
  BY EmptySeq, LenProperties, ElementOfSeq
<1>2. /\ e.pkt \in Packet /\ e.flit_left \in Nat \ {0}
      /\ Size[e.pkt] \in Nat /\ e.flit_left <= Size[e.pkt]
  BY <1>1, NoCAssumption DEF Bounded, Waiting
<1>3. f.pkt = e.pkt /\ f.seq = Size[e.pkt] - e.flit_left /\ f # NoFlit
  BY <1>2, PacketNotZero DEF nextFlit, NoFlit
<1>4. IsLast(f) <=> e.flit_left = 1
  BY <1>2, <1>3 DEF IsLast
<1>5. CASE e.flit_left = 1
  <2> DEFINE r == Tail(q)
  <2>1. AfterFlit(q) = r
    BY <1>5 DEF AfterFlit
  <2>2. /\ r \in Seq(Waiting) /\ Len(r) = Len(q) - 1 /\ DOMAIN r = 1 .. Len(r)
        /\ \A k \in 1 .. Len(r) : r[k] = q[k + 1]
    BY HeadTailProperties, LenProperties
  <2> HIDE DEF r
  <2>3. \A k \in DOMAIN r : r[k].flit_left = Size[r[k].pkt] /\ r[k].pkt \in Packet
    <3> SUFFICES ASSUME NEW k \in DOMAIN r
                 PROVE  r[k].flit_left = Size[r[k].pkt] /\ r[k].pkt \in Packet
      OBVIOUS
    <3>1. k + 1 \in DOMAIN q /\ k + 1 > 1 /\ r[k] = q[k + 1]
      BY <1>1, <2>2
    <3> QED  BY <1>1, <3>1 DEF SourceOK, Waiting
  <2>4. r # <<>> => IsHead(nextFlit(r))
    <3> SUFFICES ASSUME r # <<>> PROVE IsHead(nextFlit(r))
      OBVIOUS
    <3>1. 1 \in DOMAIN r
      BY <2>2, EmptySeq, LenProperties
    <3>2. r[1].flit_left = Size[r[1].pkt] /\ Size[r[1].pkt] \in Nat
      BY <2>3, <3>1, NoCAssumption
    <3> QED  BY <3>2 DEF nextFlit, IsHead
  <2> HIDE DEF e, f
  <2>5. wr'[<<n, PE>>].flit = f /\ IsLast(f) /\ f # NoFlit
    BY <1>3, <1>4, <1>5 DEF f
  <2>6. SourceOK(n, r)'
    BY <2>3, <2>4, <2>5 DEF SourceOK, NextOn, Follows
  <2> QED  BY <2>1, <2>6
<1>6. CASE e.flit_left # 1
  <2> DEFINE d == [e EXCEPT !.flit_left = e.flit_left - 1]
             r == [q EXCEPT ![1] = d]
  <2>1. AfterFlit(q) = r
    BY <1>6 DEF AfterFlit
  <2>2. d.pkt = e.pkt /\ d.flit_left = e.flit_left - 1 /\ d \in Waiting
    <3>1. e \in Waiting /\ e.flit_left - 1 \in Nat \ {0}
      BY <1>1, <1>2, <1>6
    <3> HIDE DEF e
    <3> QED  BY <3>1 DEF Waiting
  <2> HIDE DEF d
  <2>3. /\ r \in Seq(Waiting) /\ DOMAIN r = DOMAIN q /\ r # <<>>
        /\ \A k \in DOMAIN q : r[k] = IF k = 1 THEN d ELSE q[k]
    BY <1>1, <2>2, ExceptSeq, LenProperties, EmptySeq
  <2> HIDE DEF r
  <2>4. \A k \in DOMAIN r : k > 1 => r[k].flit_left = Size[r[k].pkt]
    BY <2>3 DEF SourceOK
  <2>5. nextFlit(r) = [pkt |-> e.pkt, seq |-> f.seq + 1, hop_no |-> 0]
    <3>1. r[1] = d
      BY <1>1, <2>3
    <3>2. Size[e.pkt] - (e.flit_left - 1) = f.seq + 1
      BY <1>2, <1>3
    <3> HIDE DEF e, f
    <3> QED  BY <2>2, <3>1, <3>2 DEF nextFlit
  <2>6. Follows(f, nextFlit(r))
    BY <1>3, <1>4, <1>6, <2>5 DEF Follows
  <2> HIDE DEF e, f
  <2>7. wr'[<<n, PE>>].flit = f /\ f # NoFlit
    BY <1>3 DEF f
  <2>8. SourceOK(n, r)'
    BY <2>3, <2>4, <2>6, <2>7 DEF SourceOK, NextOn
  <2> QED  BY <2>1, <2>8
<1> QED
  BY <1>5, <1>6

-----------------------------------------------------------------------------
(* The links of the mesh.                                                   *)

(* A flit that comes from a neighbour left it in the reflex direction.      *)
LEMMA InLinkFrom ==
  ASSUME NEW n \in Node, NEW i \in InPort(n), i # DIRECTION_LOCAL
  PROVE  \E m \in Node, o \in Direction :
           /\ InLink(n, i) = <<m, o>> /\ m # n /\ o \in InPort(m)
           /\ getNeighborId(m, o) = n
<1> DEFINE m == getNeighborId(n, i)
           o == reflexDirection(i)
<1>1. i \in Direction /\ HasNeighbor(n, i)
  BY DEF InPort, Port
<1>2. m \in Node /\ o \in Direction /\ getNeighborId(m, o) = n
  BY <1>1, BackAgain DEF HasNeighbor
<1>3. o \in InPort(m)
  BY <1>2 DEF InPort, HasNeighbor, Port
<1>4. m # n
  <2>1. n[1] \in Int /\ n[2] \in Int
    BY NodeCoordinates, MeshAssumption
  <2> QED
    BY <1>1, <2>1, NeighborCoordinates
       DEF Direction, DIRECTION_NORTH, DIRECTION_EAST, DIRECTION_SOUTH, DIRECTION_WEST
<1>5. InLink(n, i) = <<m, o>>
  BY DEF InLink
<1> QED
  BY <1>2, <1>3, <1>4, <1>5

(* The reflex of the reflex.                                                *)
LEMMA ReflexTwice ==
  ASSUME NEW d \in Direction
  PROVE  reflexDirection(d) \in Direction /\ reflexDirection(reflexDirection(d)) = d
BY DEF reflexDirection, Direction, DIRECTION_NORTH, DIRECTION_EAST, DIRECTION_SOUTH,
       DIRECTION_WEST

(* Every link has one reader: the port of a router or, at a local output,   *)
(* the PE.                                                                  *)
LEMMA InLinkInjective ==
  ASSUME NEW n \in Node, NEW i \in InPort(n), NEW m \in Node, NEW j \in InPort(m),
         InLink(n, i) = InLink(m, j)
  PROVE  n = m /\ i = j
<1>1. CASE i = DIRECTION_LOCAL /\ j = DIRECTION_LOCAL
  BY <1>1 DEF InLink
<1>2. CASE i # DIRECTION_LOCAL /\ j # DIRECTION_LOCAL
  <2>1. /\ i \in Direction /\ HasNeighbor(n, i) /\ InLink(n, i) = <<getNeighborId(n, i), reflexDirection(i)>>
        /\ j \in Direction /\ HasNeighbor(m, j) /\ InLink(m, j) = <<getNeighborId(m, j), reflexDirection(j)>>
    BY <1>2 DEF InPort, Port, InLink
  <2>2. reflexDirection(i) = reflexDirection(j) /\ getNeighborId(n, i) = getNeighborId(m, j)
    <3>1. <<getNeighborId(n, i), reflexDirection(i)>> = <<getNeighborId(m, j), reflexDirection(j)>>
      BY <2>1
    <3> QED
      BY ONLY <3>1
  <2>3. i = j
    BY <2>1, <2>2, ReflexTwice
  <2>4. n = m
    BY <2>1, <2>2, <2>3, BackAgain
  <2> QED  BY <2>3, <2>4
<1>3. CASE i = DIRECTION_LOCAL /\ j # DIRECTION_LOCAL
  BY <1>3, InLinkFrom, PortNumbers DEF InLink, Port
<1>4. CASE i # DIRECTION_LOCAL /\ j = DIRECTION_LOCAL
  BY <1>4, InLinkFrom, PortNumbers DEF InLink, Port
<1> QED
  BY <1>1, <1>2, <1>3, <1>4

LEMMA InLinkNotLocal ==
  ASSUME NEW n \in Node, NEW i \in InPort(n), NEW m
  PROVE  InLink(n, i) # <<m, DIRECTION_LOCAL>>
<1>1. CASE i = DIRECTION_LOCAL
  BY <1>1, PortNumbers DEF InLink, Port
<1>2. CASE i # DIRECTION_LOCAL
  BY <1>2, InLinkFrom DEF Direction, DIRECTION_NORTH, DIRECTION_EAST, DIRECTION_SOUTH,
                          DIRECTION_WEST, DIRECTION_LOCAL
<1> QED
  BY <1>1, <1>2

(* A hop of a shortest path leads away from its source, too.                *)
LEMMA HopAway ==
  ASSUME NEW s \in Node, NEW m \in Node, NEW d \in Node, NEW o \in Toward(m, d),
         Distance(s, m) + Distance(m, d) = Distance(s, d)
  PROVE  LET n == getNeighborId(m, o) IN
         /\ Distance(s, n) = Distance(s, m) + 1
         /\ Distance(s, n) + Distance(n, d) = Distance(s, d)
<1> DEFINE n == getNeighborId(m, o)
<1>1. o \in Direction /\ n \in Node /\ Distance(n, d) = Distance(m, d) - 1
  BY HopToward
<1>2. /\ s[1] \in Int /\ s[2] \in Int /\ m[1] \in Int /\ m[2] \in Int
      /\ d[1] \in Int /\ d[2] \in Int /\ n[1] \in Int /\ n[2] \in Int
  BY <1>1, NodeCoordinates, MeshAssumption
<1>3. \/ n[1] = m[1] /\ (n[2] = m[2] + 1 \/ n[2] = m[2] - 1)
      \/ n[2] = m[2] /\ (n[1] = m[1] + 1 \/ n[1] = m[1] - 1)
  BY <1>1, <1>2, NeighborCoordinates
     DEF Direction, DIRECTION_NORTH, DIRECTION_EAST, DIRECTION_SOUTH, DIRECTION_WEST
<1> HIDE DEF n
<1>4. Distance(s, n) <= Distance(s, m) + 1
  BY <1>2, <1>3 DEF Distance, Abs
<1>5. Distance(s, n) + Distance(n, d) >= Distance(s, d)
  BY <1>2 DEF Distance, Abs
<1>6. /\ Distance(s, n) \in Int /\ Distance(s, m) \in Int /\ Distance(n, d) \in Int
      /\ Distance(m, d) \in Int /\ Distance(s, d) \in Int
  BY <1>2 DEF Distance, Abs
<1>7. Distance(s, n) = Distance(s, m) + 1 /\ Distance(s, n) + Distance(n, d) = Distance(s, d)
  BY <1>1, <1>4, <1>5, <1>6
<1> QED
  BY <1>7 DEF n

LEMMA SameNode ==
  ASSUME NEW n \in Node
  PROVE  Distance(n, n) = 0
BY NodeCoordinates, MeshAssumption DEF Distance, Abs

-----------------------------------------------------------------------------
(* What the three other processes do to the links.                          *)

(* Nothing written on any link is lost by its reader.                       *)
SameLinks == \A l \in Link : wr'[l].flit = wr[l].flit /\ level_tx'[l] = level_tx[l]

(* A reader that sees a request has a flit in flight, which it reads.       *)
LEMMA Readable ==
  ASSUME IInv, NEW l \in Link, sig[l].req = 1 - level_rx[l]
  PROVE  InFlight(l) /\ sig[l].flit = wr[l].flit /\ wr[l].flit \in Flit
<1>1. level_tx[l] \in {0, 1} /\ level_rx[l] \in {0, 1} /\ LinkOK(l)
  BY DEF IInv, TypeOK, Bit
<1> QED
  BY <1>1 DEF LinkOK, InFlight

(* A transmitter that finds the link idle has no flit in flight.            *)
LEMMA IdleNotInFlight ==
  ASSUME IInv, NEW l \in Link, LinkIdle(l)
  PROVE  ~InFlight(l) /\ (level_tx'[l] = 1 - level_tx[l] /\ level_rx'[l] = level_rx[l]
                            => InFlight(l)')
<1>1. level_tx[l] \in {0, 1} /\ level_rx[l] \in {0, 1} /\ LinkOK(l)
  BY DEF IInv, TypeOK, Bit
<1>2. ~InFlight(l)
  BY <1>1 DEF LinkOK, InFlight, LinkIdle
<1> QED
  BY <1>1, <1>2 DEF InFlight

RouterRxEffect(n, taken) ==
  /\ taken \subseteq InPort(n)
  /\ \A i \in taken :
       /\ InFlight(InLink(n, i)) /\ ~InFlight(InLink(n, i))'
       /\ wr[InLink(n, i)].flit \in Flit
       /\ Len(buffer[n][i]) < BufferDepth
       /\ buffer'[n][i] = Append(buffer[n][i], Stored(wr[InLink(n, i)].flit, i))
  /\ \A i \in Port \ taken : buffer'[n][i] = buffer[n][i]
  /\ \A m \in Node \ {n} : buffer'[m] = buffer[m]
  /\ \A l \in Link : (\A i \in taken : l # InLink(n, i)) => (InFlight(l)' <=> InFlight(l))
  /\ SameLinks

LEMMA RouterRxDoes ==
  ASSUME IInv, NEW n \in Node, RouterRx(n)
  PROVE  \E taken \in SUBSET InPort(n) : RouterRxEffect(n, taken)
<1> DEFINE taken    == { i \in Port : Accepts(n, i) }
           accepted == { InLink(n, i) : i \in taken }
<1>1. /\ level_rx' = [l \in Link |->
           IF l \in accepted THEN 1 - level_rx[l] ELSE level_rx[l]]
      /\ buffer' = [buffer EXCEPT ![n] = [i \in Port |->
           IF Accepts(n, i)
           THEN Append(buffer[n][i], Stored(sig[InLink(n, i)].flit, i))
           ELSE buffer[n][i]]]
      /\ UNCHANGED <<level_tx, sig>>
  BY DEF RouterRx
<1>2. /\ buffer \in [Node -> [Port -> Seq(Stage)]] /\ level_rx \in [Link -> Bit]
      /\ level_tx \in [Link -> Bit] /\ wr \in [Link -> Signals]
  BY DEF IInv, TypeOK, Stage, Signals
<1>3. SameLinks
  <2> SUFFICES ASSUME NEW l \in Link PROVE wr'[l].flit = wr[l].flit /\ level_tx'[l] = level_tx[l]
    BY DEF SameLinks
  <2>1. RxStep(l)
    BY RouterRxStep
  <2>2. wr[l] \in Signals
    BY <1>2
  <2> QED  BY <2>1, <2>2 DEF RxStep, Signals
<1>4. \A i \in taken : i \in InPort(n) /\ InLink(n, i) \in Link
  BY InLinkIsLink DEF Accepts
<1>5. ASSUME NEW i \in taken
      PROVE  /\ InFlight(InLink(n, i)) /\ ~InFlight(InLink(n, i))'
             /\ wr[InLink(n, i)].flit \in Flit
             /\ Len(buffer[n][i]) < BufferDepth
             /\ buffer'[n][i] = Append(buffer[n][i], Stored(wr[InLink(n, i)].flit, i))
  <2>1. /\ sig[InLink(n, i)].req = 1 - level_rx[InLink(n, i)]
        /\ Len(buffer[n][i]) < BufferDepth
    BY DEF Accepts
  <2>2. /\ InFlight(InLink(n, i)) /\ wr[InLink(n, i)].flit \in Flit
        /\ sig[InLink(n, i)].flit = wr[InLink(n, i)].flit
    BY <1>4, <2>1, Readable
  <2>3. level_rx'[InLink(n, i)] = 1 - level_rx[InLink(n, i)]
    <3>1. InLink(n, i) \in accepted
      OBVIOUS
    <3> QED  BY <1>1, <1>4, <3>1
  <2>4. ~InFlight(InLink(n, i))'
    <3>1. level_tx[InLink(n, i)] \in {0, 1} /\ level_rx[InLink(n, i)] \in {0, 1}
      BY <1>2, <1>4 DEF Bit
    <3> QED  BY <1>1, <2>2, <2>3, <3>1 DEF InFlight
  <2>5. buffer'[n][i] = Append(buffer[n][i], Stored(sig[InLink(n, i)].flit, i))
    BY <1>1, <1>2
  <2> QED
    BY <2>1, <2>2, <2>4, <2>5
<1>6. \A i \in Port \ taken : buffer'[n][i] = buffer[n][i]
  BY <1>1, <1>2
<1>7. \A m \in Node \ {n} : buffer'[m] = buffer[m]
  BY <1>1, <1>2
<1>8. ASSUME NEW l \in Link, \A i \in taken : l # InLink(n, i)
      PROVE  InFlight(l)' <=> InFlight(l)
  <2>1. l \notin accepted
    BY <1>8
  <2> HIDE DEF accepted
  <2> QED  BY <1>1, <2>1 DEF InFlight
<1>9. taken \in SUBSET InPort(n)
  BY <1>4
<1> HIDE DEF taken
<1>10. RouterRxEffect(n, taken)
  BY <1>3, <1>5, <1>6, <1>7, <1>8, <1>9 DEF RouterRxEffect
<1> QED
  BY <1>9, <1>10

PeRxEffect(n) ==
  LET l == <<n, DIRECTION_LOCAL>> IN
  /\ \/ /\ InFlight(l) /\ ~InFlight(l)' /\ wr[l].flit \in Flit
        /\ received'[n] = Append(received[n], wr[l].flit)
     \/ (InFlight(l)' <=> InFlight(l)) /\ received'[n] = received[n]
  /\ \A m \in Node \ {n} : received'[m] = received[m]
  /\ \A k \in Link \ {l} : InFlight(k)' <=> InFlight(k)
  /\ SameLinks

LEMMA PeRxDoes ==
  ASSUME IInv, NEW n \in Node, PeRx(n)
  PROVE  PeRxEffect(n)
<1> DEFINE l == <<n, DIRECTION_LOCAL>>
           accept == sig[l].req = 1 - level_rx[l]
<1>1. l \in Link
  BY PortNumbers DEF Link, DIRECTION_LOCAL
<1>2. /\ received' = IF accept THEN [received EXCEPT ![n] = Append(@, sig[l].flit)]
                               ELSE received
      /\ level_rx' = IF accept THEN [level_rx EXCEPT ![l] = 1 - @] ELSE level_rx
      /\ UNCHANGED <<level_tx, sig>>
  BY DEF PeRx
<1>3. /\ received \in [Node -> Seq(Flit)] /\ level_rx \in [Link -> Bit]
      /\ level_tx \in [Link -> Bit] /\ wr \in [Link -> Signals]
  BY DEF IInv, TypeOK, Signals
<1>4. SameLinks
  <2> SUFFICES ASSUME NEW k \in Link PROVE wr'[k].flit = wr[k].flit /\ level_tx'[k] = level_tx[k]
    BY DEF SameLinks
  <2>1. RxStep(k)
    BY PeRxStep
  <2>2. wr[k] \in Signals
    BY <1>3
  <2> QED  BY <2>1, <2>2 DEF RxStep, Signals
<1> HIDE DEF l
<1>5. CASE accept
  <2>1. InFlight(l) /\ sig[l].flit = wr[l].flit /\ wr[l].flit \in Flit
    BY <1>1, <1>5, Readable
  <2>2. /\ level_rx'[l] = 1 - level_rx[l]
        /\ \A k \in Link \ {l} : level_rx'[k] = level_rx[k]
        /\ received'[n] = Append(received[n], wr[l].flit)
        /\ \A m \in Node \ {n} : received'[m] = received[m]
    BY <1>1, <1>2, <1>3, <1>5, <2>1
  <2>3. level_tx[l] \in {0, 1} /\ level_rx[l] \in {0, 1}
    BY <1>1, <1>3 DEF Bit
  <2>4. ~InFlight(l)'
    BY <1>2, <2>1, <2>2, <2>3 DEF InFlight
  <2>5. \A k \in Link \ {l} : InFlight(k)' <=> InFlight(k)
    BY <1>2, <2>2 DEF InFlight
  <2> QED
    BY <1>4, <2>1, <2>2, <2>4, <2>5 DEF PeRxEffect, l
<1>6. CASE ~accept
  <2>1. UNCHANGED <<received, level_rx, level_tx>>
    BY <1>2, <1>6
  <2> QED
    BY <1>4, <2>1 DEF PeRxEffect, InFlight
<1> QED
  BY <1>5, <1>6

(* PE::txProcess: q is the queue after canShot.                             *)
PeTxEffect(n, q) ==
  LET l == <<n, PE>> IN
  /\ \/ q = packet_queue[n] /\ unsent' = unsent
     \/ \E p \in Packet :
          /\ CanShot(n, p) /\ unsent' = unsent \ {p}
          /\ q = Append(packet_queue[n], [pkt |-> p, flit_left |-> Size[p]])
  /\ \/ /\ LinkIdle(l) /\ q # <<>>
        /\ level_tx'[l] = 1 - level_tx[l] /\ wr'[l].flit = nextFlit(q)
        /\ packet_queue'[n] = AfterFlit(q)
     \/ /\ level_tx'[l] = level_tx[l] /\ wr'[l].flit = wr[l].flit
        /\ packet_queue'[n] = q
  /\ \A m \in Node \ {n} : packet_queue'[m] = packet_queue[m]
  /\ \A k \in Link \ {l} : level_tx'[k] = level_tx[k] /\ wr'[k].flit = wr[k].flit

LEMMA PeTxDoes ==
  ASSUME IInv, NEW n \in Node, PeTx(n)
  PROVE  \E q \in Seq(Waiting) : Bounded(q) /\ PeTxEffect(n, q)
<1> DEFINE l == <<n, PE>>
<1>1. l \in Link
  BY PortNumbers DEF Link
<1>2. /\ packet_queue \in [Node -> Seq(Waiting)] /\ Bounded(packet_queue[n])
      /\ level_tx \in [Link -> Bit] /\ wr \in [Link -> Signals]
  BY DEF IInv, TypeOK, QueuesOK, Bounded, Waiting, Signals
<1> DEFINE Fired(q) ==
      \/ q = packet_queue[n] /\ unsent' = unsent
      \/ \E p \in Packet :
           /\ CanShot(n, p) /\ unsent' = unsent \ {p}
           /\ q = Append(packet_queue[n], [pkt |-> p, flit_left |-> Size[p]])
<1>3. \E q \in Seq(Waiting) : Bounded(q) /\ Fired(q) /\ Transmit(n, q)
  <2>1. CASE unsent' = unsent /\ Transmit(n, packet_queue[n])
    BY <1>2, <2>1
  <2>2. ASSUME NEW p \in Packet, CanShot(n, p), unsent' = unsent \ {p},
               Transmit(n, Append(packet_queue[n], [pkt |-> p, flit_left |-> Size[p]]))
        PROVE  \E q \in Seq(Waiting) : Bounded(q) /\ Fired(q) /\ Transmit(n, q)
    <3> DEFINE e == [pkt |-> p, flit_left |-> Size[p]]
               q == Append(packet_queue[n], e)
    <3>1. e \in Waiting /\ e.flit_left <= Size[e.pkt]
      BY NoCAssumption DEF Waiting
    <3>2. Fired(q) /\ Transmit(n, q)
      BY <2>2
    <3> HIDE DEF e, Fired
    <3>3. q \in Seq(Waiting)
      BY <1>2, <3>1
    <3>4. Bounded(q)
      BY <1>2, <3>1, LenProperties DEF Bounded
    <3> QED
      BY <3>2, <3>3, <3>4
  <2> QED
    BY <2>1, <2>2 DEF PeTx
<1>4. PICK q \in Seq(Waiting) : Bounded(q) /\ Fired(q) /\ Transmit(n, q)
  BY <1>3
<1>5. \A m \in Node \ {n} : packet_queue'[m] = packet_queue[m]
  BY <1>2, <1>4 DEF Transmit
<1> HIDE DEF l
<1>6. \A k \in Link \ {l} : level_tx'[k] = level_tx[k] /\ wr'[k].flit = wr[k].flit
  <2> SUFFICES ASSUME NEW k \in Link, k # l
               PROVE  level_tx'[k] = level_tx[k] /\ wr'[k] = wr[k]
    OBVIOUS
  <2>1. CASE LinkIdle(l) /\ q # <<>>
    <3>1. /\ level_tx' = [level_tx EXCEPT ![l] = 1 - @]
          /\ wr' = [wr EXCEPT ![l].req = level_tx'[l], ![l].flit = nextFlit(q)]
      BY <1>4, <2>1 DEF Transmit, l
    <3> QED  BY <1>2, <3>1
  <2>2. CASE ~(LinkIdle(l) /\ q # <<>>)
    BY <1>4, <2>2 DEF Transmit, l
  <2> QED  BY <2>1, <2>2
<1>7. \/ /\ LinkIdle(l) /\ q # <<>>
         /\ level_tx'[l] = 1 - level_tx[l] /\ wr'[l].flit = nextFlit(q)
         /\ packet_queue'[n] = AfterFlit(q)
      \/ /\ level_tx'[l] = level_tx[l] /\ wr'[l].flit = wr[l].flit
         /\ packet_queue'[n] = q
  <2>1. CASE LinkIdle(l) /\ q # <<>>
    <3>1. /\ level_tx' = [level_tx EXCEPT ![l] = 1 - @]
          /\ wr' = [wr EXCEPT ![l].req = level_tx'[l], ![l].flit = nextFlit(q)]
          /\ packet_queue' = [packet_queue EXCEPT ![n] = AfterFlit(q)]
      BY <1>4, <2>1 DEF Transmit, l
    <3>2. wr'[l].flit = nextFlit(q)
      <4>1. wr[l] \in Signals
        BY <1>1, <1>2
      <4>2. wr'[l] = [wr[l] EXCEPT !.req = level_tx'[l], !.flit = nextFlit(q)]
        BY <1>1, <1>2, <3>1
      <4> QED  BY <4>1, <4>2 DEF Signals
    <3> QED  BY <1>1, <1>2, <2>1, <3>1, <3>2
  <2>2. CASE ~(LinkIdle(l) /\ q # <<>>)
    BY <1>2, <1>4, <2>2 DEF Transmit, l
  <2> QED  BY <2>1, <2>2
<1>8. PeTxEffect(n, q)
  BY <1>4, <1>5, <1>6, <1>7 DEF PeTxEffect, l
<1> QED
  BY <1>4, <1>8

-----------------------------------------------------------------------------
(* Each step preserves the invariant.                                       *)

LEMMA OutputsFrame ==
  ASSUME OutputsOK, UNCHANGED rtable,
         \A n \in Node : \A o \in InPort(n) : wr'[<<n, o>>].flit = wr[<<n, o>>].flit
  PROVE  OutputsOK'
BY DEF OutputsOK

LEMMA SameLinksOut ==
  ASSUME SameLinks
  PROVE  \A n \in Node : \A o \in InPort(n) : wr'[<<n, o>>].flit = wr[<<n, o>>].flit
<1>1. \A n \in Node : \A o \in InPort(n) : <<n, o>> \in Link
  BY DEF InPort, Link
<1> QED
  BY <1>1 DEF SameLinks

LEMMA LinksOnPathFrame ==
  ASSUME LinksOnPath, SameLinks
  PROVE  LinksOnPath'
<1>1. \A n \in Node : <<n, PE>> \in Link /\ \A o \in InPort(n) : <<n, o>> \in Link
  BY PortNumbers DEF InPort, Link
<1> QED
  BY <1>1 DEF LinksOnPath, SameLinks

LEMMA SourcesFrame ==
  ASSUME SourcesOK, UNCHANGED packet_queue,
         \A n \in Node : wr'[<<n, PE>>].flit = wr[<<n, PE>>].flit
  PROVE  SourcesOK'
BY DEF SourcesOK, SourceOK, NextOn

(* Lines that neither the step's process nor its links touch.               *)
LEMMA LineUntouched ==
  ASSUME IInv, LinesOK, NEW n \in Node, NEW i \in Port,
         buffer'[n][i] = buffer[n][i], rtable'[n] = rtable[n],
         \A o \in HeldBy(n, i) : wr'[<<n, o>>].flit = wr[<<n, o>>].flit,
         i \in InPort(n) => /\ InFlight(InLink(n, i))' <=> InFlight(InLink(n, i))
                            /\ wr'[InLink(n, i)].flit = wr[InLink(n, i)].flit
  PROVE  LineOK(n, i)'
<1>1. buffer[n][i] \in Seq(Stage) /\ SameFlits(buffer'[n][i], buffer[n][i])
  BY DEF IInv, TypeOK, Stage, SameFlits
<1>2. HeldBy(n, i)' = HeldBy(n, i)
  BY DEF HeldBy
<1> QED
  BY <1>1, <1>2, LineFrame DEF LinesOK

(* An output that an input holds is a link of the mesh.                     *)
LEMMA HeldIsLink ==
  ASSUME IInv, NEW n \in Node, NEW i \in Port, NEW o \in HeldBy(n, i)
  PROVE  o \in InPort(n) /\ <<n, o>> \in Link
<1>1. o \in InPort(n)
  BY PortNumbers DEF HeldBy, IInv, PortsOK
<1> QED
  BY <1>1 DEF InPort, Link

LEMMA RouterRxWorm ==
  ASSUME WormInv, NEW n \in Node, RouterRx(n)
  PROVE  /\ OutputsOK' /\ LinesOK' /\ SourcesOK' /\ SinksOK'
         /\ BuffersOnPath' /\ LinksOnPath' /\ PacketsAtHome' /\ FlitsDelivered'
<1>1. PICK taken \in SUBSET InPort(n) : RouterRxEffect(n, taken)
  BY RouterRxDoes DEF WormInv
<1>2. UNCHANGED <<rtable, packet_queue, received>> /\ SameLinks
  BY <1>1 DEF RouterRx, peVars, RouterRxEffect
<1>3. /\ buffer \in [Node -> [Port -> Seq(Stage)]]
  BY DEF WormInv, IInv, TypeOK, Stage
<1>4. OutputsOK' /\ LinksOnPath'
  BY <1>2, OutputsFrame, SameLinksOut, LinksOnPathFrame DEF WormInv
<1>5. SourcesOK'
  <2>1. \A m \in Node : <<m, PE>> \in Link
    BY PortNumbers DEF Link
  <2> QED  BY <1>2, <2>1, SourcesFrame DEF WormInv, SameLinks
<1>6. SinksOK'
  <2> SUFFICES ASSUME NEW m \in Node PROVE SinkOK(m)'
    BY DEF SinksOK
  <2> DEFINE l == <<m, DIRECTION_LOCAL>>
  <2>1. l \in Link
    BY PortNumbers DEF Link, DIRECTION_LOCAL
  <2>2. \A i \in taken : l # InLink(n, i)
    BY InLinkNotLocal
  <2>3. (InFlight(l)' <=> InFlight(l)) /\ wr'[l].flit = wr[l].flit
    BY <1>1, <2>1, <2>2 DEF RouterRxEffect, SameLinks
  <2> QED
    BY <1>2, <2>3, SinkFrame DEF WormInv, SinksOK
<1>7. LinesOK'
  <2> SUFFICES ASSUME NEW m \in Node, NEW i \in Port PROVE LineOK(m, i)'
    BY DEF LinesOK
  <2>1. \A o \in HeldBy(m, i) : wr'[<<m, o>>].flit = wr[<<m, o>>].flit
    BY <1>2, HeldIsLink DEF WormInv, SameLinks
  <2>2. HeldBy(m, i)' = HeldBy(m, i)
    BY <1>2 DEF HeldBy
  <2>3. CASE m = n /\ i \in taken
    <3>1. i \in InPort(n) /\ InLink(n, i) \in Link
      BY <2>3, InLinkIsLink
    <3>2. /\ InFlight(InLink(n, i)) /\ ~InFlight(InLink(n, i))'
          /\ wr[InLink(n, i)].flit \in Flit /\ Len(buffer[n][i]) < BufferDepth
          /\ wr'[InLink(n, i)].flit = wr[InLink(n, i)].flit
          /\ buffer'[n][i] = Append(buffer[n][i], Stored(wr[InLink(n, i)].flit, i))
      BY <1>1, <2>3, <3>1 DEF RouterRxEffect, SameLinks
    <3> QED
      BY <1>3, <2>1, <2>2, <2>3, <3>1, <3>2, LineTake DEF WormInv, LinesOK
  <2>4. CASE ~(m = n /\ i \in taken)
    <3>1. buffer'[m][i] = buffer[m][i]
      BY <1>1, <2>4 DEF RouterRxEffect
    <3>2. i \in InPort(m) => /\ InFlight(InLink(m, i))' <=> InFlight(InLink(m, i))
                             /\ wr'[InLink(m, i)].flit = wr[InLink(m, i)].flit
      <4> SUFFICES ASSUME i \in InPort(m)
                   PROVE  /\ InFlight(InLink(m, i))' <=> InFlight(InLink(m, i))
                          /\ wr'[InLink(m, i)].flit = wr[InLink(m, i)].flit
        OBVIOUS
      <4>1. InLink(m, i) \in Link /\ \A j \in taken : InLink(m, i) # InLink(n, j)
        BY <2>4, InLinkIsLink, InLinkInjective
      <4> QED  BY <1>1, <4>1 DEF RouterRxEffect, SameLinks
    <3> QED
      BY <1>2, <2>1, <3>1, <3>2, LineUntouched DEF WormInv
  <2> QED  BY <2>3, <2>4
<1>8. BuffersOnPath'
  <2> SUFFICES ASSUME NEW m \in Node, NEW i \in Port, NEW j \in 1 .. Len(buffer'[m][i])
               PROVE  OnPath(buffer'[m][i][j].flit, m)
    BY DEF BuffersOnPath
  <2>1. CASE ~(m = n /\ i \in taken)
    <3>1. buffer'[m][i] = buffer[m][i]
      BY <1>1, <2>1 DEF RouterRxEffect
    <3> QED  BY <3>1 DEF WormInv, BuffersOnPath
  <2>2. CASE m = n /\ i \in taken
    <3> DEFINE b == buffer[n][i]
               f == wr[InLink(n, i)].flit
               x == Stored(f, i)
    <3>1. i \in InPort(n) /\ f \in Flit /\ buffer'[n][i] = Append(b, x)
      BY <1>1, <2>2 DEF RouterRxEffect
    <3>2. /\ x \in Stage /\ x.flit.pkt = f.pkt
          /\ x.flit.hop_no = IF i = DIRECTION_LOCAL THEN f.hop_no ELSE f.hop_no + 1
      <4> HIDE DEF f
      <4> DEFINE h == IF i = DIRECTION_LOCAL THEN f.hop_no ELSE f.hop_no + 1
                 g == [f EXCEPT !.hop_no = h]
      <4>1. h \in Nat
        BY <3>1 DEF Flit
      <4> HIDE DEF h
      <4>2. g \in Flit /\ g.pkt = f.pkt /\ g.hop_no = h
        BY <3>1, <4>1 DEF Flit
      <4>3. x = [flit |-> g, r_time |-> 0]
        BY DEF Stored, h
      <4> HIDE DEF g, x
      <4>4. 0 \in 0 .. RouterCycle
        BY NoCAssumption
      <4> QED  BY <4>2, <4>3, <4>4 DEF Stage, h
    <3>3. OnPath(x.flit, n)
      <4>1. f # NoFlit /\ f.pkt \in Packet
        BY <3>1, PacketNotZero DEF Flit, NoFlit
      <4>2. Src[f.pkt] \in Node /\ Dst[f.pkt] \in Node
        BY <4>1, NoCAssumption
      <4>3. CASE i = DIRECTION_LOCAL
        <5>1. f.hop_no = 0 /\ Src[f.pkt] = n
          BY <4>1, <4>3 DEF InLink, WormInv, LinksOnPath
        <5>2. Distance(n, n) = 0 /\ Distance(n, Dst[f.pkt]) \in Nat
          BY <4>2, SameNode, ZeroDistance
        <5> HIDE DEF f, x
        <5> QED  BY <3>2, <4>3, <5>1, <5>2 DEF OnPath
      <4>4. CASE i # DIRECTION_LOCAL
        <5>1. PICK k \in Node, o \in Direction :
                /\ InLink(n, i) = <<k, o>> /\ o \in InPort(k)
                /\ getNeighborId(k, o) = n
          BY <3>1, <4>4, InLinkFrom
        <5>2. OnPath(f, k) /\ Leads(k, o, Dst[f.pkt])
          <6>1. f = wr[<<k, o>>].flit
            BY <5>1
          <6> HIDE DEF f
          <6> QED  BY <4>1, <5>1, <6>1 DEF WormInv, LinksOnPath
        <5> HIDE DEF f
        <5>3. o \in Toward(k, Dst[f.pkt])
          BY <5>2 DEF Leads, Direction, DIRECTION_NORTH, DIRECTION_EAST, DIRECTION_SOUTH,
                      DIRECTION_WEST, DIRECTION_LOCAL
        <5>4. /\ Distance(Src[f.pkt], n) = Distance(Src[f.pkt], k) + 1
              /\ Distance(Src[f.pkt], n) + Distance(n, Dst[f.pkt])
                   = Distance(Src[f.pkt], Dst[f.pkt])
          BY <4>2, <5>1, <5>2, <5>3, HopAway DEF OnPath
        <5> HIDE DEF x
        <5> QED  BY <3>2, <4>4, <5>2, <5>4 DEF OnPath
      <4> QED  BY <4>3, <4>4
    <3> HIDE DEF x
    <3>4. b \in Seq(Stage) /\ Len(b) \in Nat /\ \A k \in 1 .. Len(b) : OnPath(b[k].flit, n)
      BY <1>3, <2>2, LenProperties DEF WormInv, BuffersOnPath
    <3> HIDE DEF b
    <3>5. /\ j \in 1 .. Len(b) + 1
          /\ Append(b, x)[j] = IF j = Len(b) + 1 THEN x ELSE b[j]
      BY <2>2, <3>1, <3>2, <3>4, AppendProperties
    <3> QED
      BY <2>2, <3>1, <3>3, <3>4, <3>5
  <2> QED  BY <2>1, <2>2
<1>9. PacketsAtHome' /\ FlitsDelivered'
  BY <1>2 DEF WormInv, PacketsAtHome, FlitsDelivered
<1> QED
  BY <1>4, <1>5, <1>6, <1>7, <1>8, <1>9

LEMMA PeRxWorm ==
  ASSUME WormInv, NEW n \in Node, PeRx(n)
  PROVE  /\ OutputsOK' /\ LinesOK' /\ SourcesOK' /\ SinksOK'
         /\ BuffersOnPath' /\ LinksOnPath' /\ PacketsAtHome' /\ FlitsDelivered'
<1> DEFINE l == <<n, DIRECTION_LOCAL>>
<1>1. PeRxEffect(n)
  BY PeRxDoes DEF WormInv
<1>2. UNCHANGED <<buffer, rtable, packet_queue>> /\ SameLinks
  BY <1>1 DEF PeRx, routerVars, PeRxEffect
<1>3. received \in [Node -> Seq(Flit)]
  BY DEF WormInv, IInv, TypeOK
<1>4. OutputsOK' /\ LinksOnPath'
  BY <1>2, OutputsFrame, SameLinksOut, LinksOnPathFrame DEF WormInv
<1>5. SourcesOK'
  <2>1. \A m \in Node : <<m, PE>> \in Link
    BY PortNumbers DEF Link
  <2> QED  BY <1>2, <2>1, SourcesFrame DEF WormInv, SameLinks
<1>6. SinksOK'
  <2> SUFFICES ASSUME NEW m \in Node PROVE SinkOK(m)'
    BY DEF SinksOK
  <2>0. <<m, DIRECTION_LOCAL>> \in Link /\ wr'[<<m, DIRECTION_LOCAL>>].flit = wr[<<m, DIRECTION_LOCAL>>].flit
    BY <1>2, PortNumbers DEF Link, DIRECTION_LOCAL, SameLinks
  <2>1. CASE m # n
    <3>1. <<m, DIRECTION_LOCAL>> # l
      BY <2>1
    <3>2. /\ received'[m] = received[m]
          /\ InFlight(<<m, DIRECTION_LOCAL>>)' <=> InFlight(<<m, DIRECTION_LOCAL>>)
      BY <1>1, <2>0, <2>1, <3>1 DEF PeRxEffect
    <3> QED  BY <2>0, <3>2, SinkFrame DEF WormInv, SinksOK
  <2>2. CASE m = n /\ received'[n] = received[n] /\ (InFlight(l)' <=> InFlight(l))
    BY <2>0, <2>2, SinkFrame DEF WormInv, SinksOK
  <2>3. CASE m = n /\ InFlight(l) /\ ~InFlight(l)' /\ wr[l].flit \in Flit
             /\ received'[n] = Append(received[n], wr[l].flit)
    BY <1>3, <2>0, <2>3, SinkTake DEF WormInv, SinksOK
  <2> QED  BY <1>1, <2>1, <2>2, <2>3 DEF PeRxEffect
<1>7. LinesOK'
  <2> SUFFICES ASSUME NEW m \in Node, NEW i \in Port PROVE LineOK(m, i)'
    BY DEF LinesOK
  <2>1. \A o \in HeldBy(m, i) : wr'[<<m, o>>].flit = wr[<<m, o>>].flit
    BY <1>2, HeldIsLink DEF WormInv, SameLinks
  <2>2. i \in InPort(m) => /\ InFlight(InLink(m, i))' <=> InFlight(InLink(m, i))
                           /\ wr'[InLink(m, i)].flit = wr[InLink(m, i)].flit
    <3> SUFFICES ASSUME i \in InPort(m)
                 PROVE  /\ InFlight(InLink(m, i))' <=> InFlight(InLink(m, i))
                        /\ wr'[InLink(m, i)].flit = wr[InLink(m, i)].flit
      OBVIOUS
    <3>1. InLink(m, i) \in Link /\ InLink(m, i) # l
      BY InLinkIsLink, InLinkNotLocal
    <3> QED  BY <1>1, <3>1 DEF PeRxEffect, SameLinks
  <2> QED
    BY <1>2, <2>1, <2>2, LineUntouched DEF WormInv
<1>8. FlitsDelivered'
  <2> SUFFICES ASSUME NEW m \in Node, NEW j \in 1 .. Len(received'[m])
               PROVE  Delivered(received'[m][j], m)
    BY DEF FlitsDelivered
  <2>1. CASE received'[m] = received[m]
    BY <2>1 DEF WormInv, FlitsDelivered
  <2>2. CASE received'[m] # received[m]
    <3> DEFINE r == received[n]
               f == wr[l].flit
    <3>1. m = n /\ f \in Flit /\ received'[n] = Append(r, f)
      BY <1>1, <2>2 DEF PeRxEffect
    <3>2. Delivered(f, n)
      <4>1. f # NoFlit /\ f.pkt \in Packet
        BY <3>1, PacketNotZero DEF Flit, NoFlit
      <4>2. Src[f.pkt] \in Node /\ Dst[f.pkt] \in Node
        BY <4>1, NoCAssumption
      <4>3. DIRECTION_LOCAL \in InPort(n)
        BY PortNumbers DEF InPort, DIRECTION_LOCAL
      <4>4. OnPath(f, n) /\ Leads(n, DIRECTION_LOCAL, Dst[f.pkt])
        BY <4>1, <4>3 DEF WormInv, LinksOnPath
      <4> QED
        BY <4>4 DEF OnPath, Leads, Delivered
    <3> HIDE DEF f
    <3>4. r \in Seq(Flit) /\ Len(r) \in Nat /\ \A k \in 1 .. Len(r) : Delivered(r[k], n)
      BY <1>3, <3>1, LenProperties DEF WormInv, FlitsDelivered
    <3> HIDE DEF r
    <3>5. j \in 1 .. Len(r) + 1 /\ Append(r, f)[j] = IF j = Len(r) + 1 THEN f ELSE r[j]
      BY <3>1, <3>4, AppendProperties
    <3> QED
      BY <3>1, <3>2, <3>4, <3>5
  <2> QED  BY <2>1, <2>2
<1>9. PacketsAtHome' /\ BuffersOnPath'
  BY <1>2 DEF WormInv, PacketsAtHome, BuffersOnPath
<1> QED
  BY <1>4, <1>5, <1>6, <1>7, <1>8, <1>9

LEMMA PeTxWorm ==
  ASSUME WormInv, NEW n \in Node, PeTx(n)
  PROVE  /\ OutputsOK' /\ LinesOK' /\ SourcesOK' /\ SinksOK'
         /\ BuffersOnPath' /\ LinksOnPath' /\ PacketsAtHome' /\ FlitsDelivered'
<1> DEFINE l == <<n, PE>>
<1>1. PICK q \in Seq(Waiting) : Bounded(q) /\ PeTxEffect(n, q)
  BY PeTxDoes DEF WormInv
<1>2. UNCHANGED <<buffer, rtable, received, level_rx>>
  BY DEF PeTx, routerVars
<1>3. l \in Link /\ \A k \in Link \ {l} : level_tx'[k] = level_tx[k] /\ wr'[k].flit = wr[k].flit
  BY <1>1, PortNumbers DEF PeTxEffect, Link
<1>4. packet_queue \in [Node -> Seq(Waiting)]
  BY DEF WormInv, IInv, TypeOK, Waiting
<1>5. \A m \in Node : \A o \in Port : <<m, o>> # l
  BY PortNumbers
<1>6. OutputsOK' /\ \A m \in Node : \A o \in InPort(m) : wr'[<<m, o>>].flit = wr[<<m, o>>].flit
  <2>1. \A m \in Node : \A o \in InPort(m) : <<m, o>> \in Link /\ <<m, o>> # l
    BY <1>5 DEF InPort, Link
  <2>2. \A m \in Node : \A o \in InPort(m) : wr'[<<m, o>>].flit = wr[<<m, o>>].flit
    BY <1>3, <2>1
  <2> QED
    BY <1>2, <2>2, OutputsFrame DEF WormInv
<1>7. SourceOK(n, q)
  <2>0. SourceOK(n, packet_queue[n])
    BY DEF WormInv, SourcesOK
  <2>1. CASE q = packet_queue[n]
    BY <2>0, <2>1
  <2>2. ASSUME NEW p \in Packet,
               q = Append(packet_queue[n], [pkt |-> p, flit_left |-> Size[p]])
        PROVE  SourceOK(n, q)
    BY <1>4, <2>0, <2>2, SourceFire
  <2> QED
    BY <1>1, <2>1, <2>2 DEF PeTxEffect
<1>8. \A k \in 1 .. Len(q) : Src[q[k].pkt] = n
  <2>1. CASE q = packet_queue[n]
    BY <2>1 DEF WormInv, PacketsAtHome
  <2>2. ASSUME NEW p \in Packet, CanShot(n, p),
               q = Append(packet_queue[n], [pkt |-> p, flit_left |-> Size[p]])
        PROVE  \A k \in 1 .. Len(q) : Src[q[k].pkt] = n
    <3> DEFINE r == packet_queue[n]
               e == [pkt |-> p, flit_left |-> Size[p]]
    <3>1. e \in Waiting /\ Src[e.pkt] = n
      BY <2>2, NoCAssumption DEF Waiting, CanShot
    <3>2. r \in Seq(Waiting) /\ Len(r) \in Nat /\ \A k \in 1 .. Len(r) : Src[r[k].pkt] = n
      BY <1>4, LenProperties DEF WormInv, PacketsAtHome
    <3>3. q = Append(r, e)
      BY <2>2
    <3> HIDE DEF e, r
    <3> QED
      BY <3>1, <3>2, <3>3, AppendProperties
  <2> QED
    BY <1>1, <2>1, <2>2 DEF PeTxEffect
<1>9. \A m \in Node \ {n} : packet_queue'[m] = packet_queue[m] /\ <<m, PE>> \in Link \ {l}
  BY <1>1, PortNumbers DEF PeTxEffect, Link
(* What the others see.                                                     *)
<1>10. SinksOK'
  <2> SUFFICES ASSUME NEW m \in Node PROVE SinkOK(m)'
    BY DEF SinksOK
  <2>1. <<m, DIRECTION_LOCAL>> \in Link \ {l}
    BY <1>5, PortNumbers DEF Link, DIRECTION_LOCAL
  <2>2. InFlight(<<m, DIRECTION_LOCAL>>)' <=> InFlight(<<m, DIRECTION_LOCAL>>)
    BY <1>2, <1>3, <2>1 DEF InFlight
  <2> QED
    BY <1>2, <1>3, <2>1, <2>2, SinkFrame DEF WormInv, SinksOK
<1>11. \A m \in Node \ {n} : SourceOK(m, packet_queue[m])'
  <2> SUFFICES ASSUME NEW m \in Node \ {n} PROVE SourceOK(m, packet_queue[m])'
    OBVIOUS
  <2>1. wr'[<<m, PE>>].flit = wr[<<m, PE>>].flit /\ packet_queue'[m] = packet_queue[m]
    BY <1>3, <1>9
  <2> QED
    BY <2>1 DEF WormInv, SourcesOK, SourceOK, NextOn
<1>12. SourceOK(n, packet_queue[n])' /\ \A k \in 1 .. Len(packet_queue'[n]) : Src[packet_queue'[n][k].pkt] = n
  <2>1. CASE wr'[l].flit = wr[l].flit /\ packet_queue'[n] = q
    BY <1>7, <1>8, <2>1 DEF SourceOK, NextOn
  <2>2. CASE q # <<>> /\ wr'[l].flit = nextFlit(q) /\ packet_queue'[n] = AfterFlit(q)
    <3>1. SourceOK(n, AfterFlit(q))'
      BY <1>1, <1>7, <2>2, SourceSend
    <3>2. SourceOK(n, packet_queue[n])'
      BY <2>2, <3>1 DEF SourceOK
    <3>3. \A k \in 1 .. Len(AfterFlit(q)) : Src[AfterFlit(q)[k].pkt] = n
      <4>1. Len(q) \in Nat \ {0} /\ DOMAIN q = 1 .. Len(q) /\ \A k \in 1 .. Len(q) : q[k] \in Waiting
        BY <2>2, LenProperties, EmptySeq, ElementOfSeq
      <4>2. CASE q[1].flit_left = 1
        <5>1. AfterFlit(q) = Tail(q)
          BY <4>2 DEF AfterFlit
        <5>2. /\ Tail(q) \in Seq(Waiting) /\ Len(Tail(q)) = Len(q) - 1
              /\ \A k \in 1 .. Len(Tail(q)) : Tail(q)[k] = q[k + 1]
          BY <2>2, HeadTailProperties
        <5> QED  BY <1>8, <4>1, <5>1, <5>2
      <4>3. CASE q[1].flit_left # 1
        <5>1. AfterFlit(q) = [q EXCEPT ![1].flit_left = @ - 1]
          BY <4>3 DEF AfterFlit
        <5>2. DOMAIN AfterFlit(q) = DOMAIN q
          BY <5>1
        <5>3. \A k \in 1 .. Len(q) : AfterFlit(q)[k].pkt = q[k].pkt
          <6> SUFFICES ASSUME NEW k \in 1 .. Len(q) PROVE AfterFlit(q)[k].pkt = q[k].pkt
            OBVIOUS
          <6>1. q[k] \in Waiting
            BY <4>1
          <6> QED  BY <4>1, <5>1, <6>1 DEF Waiting
        <5>4. AfterFlit(q) \in Seq(Waiting) /\ Len(AfterFlit(q)) \in Nat
          BY <1>1, <2>2, QueueFlit, LenProperties
        <5>5. Len(AfterFlit(q)) = Len(q)
          BY <4>1, <5>2, <5>4, LenProperties
        <5> QED  BY <1>8, <5>3, <5>5
      <4> QED  BY <4>2, <4>3
    <3> QED  BY <2>2, <3>2, <3>3
  <2> QED  BY <1>1, <2>1, <2>2 DEF PeTxEffect
<1>13. SourcesOK' /\ PacketsAtHome'
  <2>1. SourcesOK'
    BY <1>11, <1>12 DEF SourcesOK
  <2>2. PacketsAtHome'
    BY <1>9, <1>12 DEF WormInv, PacketsAtHome
  <2> QED  BY <2>1, <2>2
<1>14. LinesOK'
  <2> SUFFICES ASSUME NEW m \in Node, NEW i \in Port PROVE LineOK(m, i)'
    BY DEF LinesOK
  <2>1. \A o \in HeldBy(m, i) : wr'[<<m, o>>].flit = wr[<<m, o>>].flit
    BY <1>6, HeldIsLink DEF WormInv
  <2>2. HeldBy(m, i)' = HeldBy(m, i)
    BY <1>2 DEF HeldBy
  <2>3. CASE i \in InPort(m) /\ InLink(m, i) = l /\ LinkIdle(l) /\ q # <<>>
             /\ level_tx'[l] = 1 - level_tx[l] /\ wr'[l].flit = nextFlit(q)
    <3>1. /\ ~InFlight(InLink(m, i)) /\ InFlight(InLink(m, i))'
      <4>1. l \in Link /\ LinkIdle(l) /\ level_tx'[l] = 1 - level_tx[l] /\ level_rx'[l] = level_rx[l]
        BY <1>2, <1>3, <2>3
      <4>2. ~InFlight(l) /\ InFlight(l)'
        BY <4>1, IdleNotInFlight DEF WormInv
      <4> QED  BY <2>3, <4>2 DEF InFlight
    <3>2. nextFlit(q) \in Flit
      BY <1>1, <2>3, QueueFlit
    <3>3. NextOn(InLink(m, i), nextFlit(q)) /\ wr'[InLink(m, i)].flit = nextFlit(q)
      BY <1>7, <2>3 DEF SourceOK
    <3> HIDE DEF l
    <3> QED
      BY <1>2, <2>1, <2>2, <2>3, <3>1, <3>2, <3>3, LineSend DEF WormInv, LinesOK
  <2>4. CASE i \in InPort(m) =>
               /\ level_tx'[InLink(m, i)] = level_tx[InLink(m, i)]
               /\ wr'[InLink(m, i)].flit = wr[InLink(m, i)].flit
    <3>1. i \in InPort(m) => /\ InFlight(InLink(m, i))' <=> InFlight(InLink(m, i))
                             /\ wr'[InLink(m, i)].flit = wr[InLink(m, i)].flit
      BY <1>2, <2>4 DEF InFlight
    <3> QED
      BY <1>2, <2>1, <3>1, LineUntouched DEF WormInv
  <2>5. i \in InPort(m) => InLink(m, i) \in Link
    BY InLinkIsLink
  <2> QED
    BY <1>1, <1>3, <2>3, <2>4, <2>5 DEF PeTxEffect
<1>15. LinksOnPath'
  <2>1. \A m \in Node : \A o \in InPort(m) : wr'[<<m, o>>].flit # NoFlit =>
          OnPath(wr'[<<m, o>>].flit, m) /\ Leads(m, o, Dst[wr'[<<m, o>>].flit.pkt])
    BY <1>6 DEF WormInv, LinksOnPath
  <2>2. ASSUME NEW m \in Node, wr'[<<m, PE>>].flit # NoFlit
        PROVE  wr'[<<m, PE>>].flit.hop_no = 0 /\ Src[wr'[<<m, PE>>].flit.pkt] = m
    <3>1. CASE wr'[<<m, PE>>].flit = wr[<<m, PE>>].flit
      BY <2>2, <3>1 DEF WormInv, LinksOnPath
    <3>2. CASE m = n /\ q # <<>> /\ wr'[l].flit = nextFlit(q)
      <4>1. Len(q) \in Nat \ {0}
        BY <3>2, LenProperties, EmptySeq
      <4>2. Src[q[1].pkt] = n
        BY <1>8, <4>1
      <4> QED  BY <3>2, <4>2 DEF nextFlit
    <3> QED  BY <1>1, <1>3, <1>9, <3>1, <3>2 DEF PeTxEffect
  <2> QED  BY <2>1, <2>2 DEF LinksOnPath
<1>16. BuffersOnPath' /\ FlitsDelivered'
  BY <1>2 DEF WormInv, BuffersOnPath, FlitsDelivered
<1> QED
  BY <1>6, <1>10, <1>13, <1>14, <1>15, <1>16
(* An output of a router is held by the packet that passes it.              *)
LEMMA TxOutputs ==
  ASSUME IInv, OutputsOK, NEW n \in Node, NEW out \in [Port -> Port \union {NOT_RESERVED}],
         TxEffect(n, out),
         \A i \in Port : out[i] \in Port => FrontOf(n, i).flit \in Flit
  PROVE  OutputsOK'
<1>1. rtable \in [Node -> [Port -> Port \union {NOT_RESERVED, NOT_VALID}]]
  BY DEF IInv, TypeOK
<1>2. \A m \in Node : \A o \in InPort(m) : o \in Port /\ <<m, o>> \in Link
  BY DEF InPort, Link
<1>3. ASSUME NEW o \in InPort(n), NEW j \in Port, rtable'[n][o] = j
      PROVE  \A q \in Port : rtable'[n][q] = j => q = o
  <2>1. CASE out[j] \in Port
    <3>1. \A q \in Port : rtable'[n][q] = j => q = out[j]
      BY <2>1 DEF TxEffect
    <3> QED  BY <1>2, <1>3, <3>1
  <2>2. CASE out[j] \notin Port
    <3>1. HeldBy(n, j)' = HeldBy(n, j)
      BY <2>2 DEF TxEffect
    <3>2. \A q \in Port : rtable'[n][q] = j <=> rtable[n][q] = j
      BY <3>1 DEF HeldBy
    <3>3. o \in Port /\ rtable[n][o] = j
      BY <1>2, <1>3, <3>2
    <3>4. \A q \in Port : rtable[n][q] = j => q = o
      BY <3>3 DEF OutputsOK
    <3> QED
      BY <3>2, <3>4
  <2> QED  BY <2>1, <2>2
<1>4. ASSUME NEW o \in InPort(n)
      PROVE  rtable'[n][o] \in Port <=> wr'[<<n, o>>].flit # NoFlit /\ ~IsLast(wr'[<<n, o>>].flit)
  <2>1. CASE \A i \in Port : out[i] # o
    <3>1. rtable'[n][o] = rtable[n][o] /\ wr'[<<n, o>>].flit = wr[<<n, o>>].flit
      BY <2>1 DEF TxEffect
    <3> QED  BY <3>1 DEF OutputsOK
  <2>2. ASSUME NEW i \in Port, out[i] = o
        PROVE  rtable'[n][o] \in Port <=> wr'[<<n, o>>].flit # NoFlit /\ ~IsLast(wr'[<<n, o>>].flit)
    <3> DEFINE f == FrontOf(n, i).flit
    <3>1. /\ rtable[n][o] = i \/ rtable[n][o] = NOT_RESERVED
          /\ wr'[<<n, o>>].flit = f
          /\ \A q \in Port : rtable'[n][q] = i <=> q = o /\ ~IsLast(f)
      BY <1>2, <2>2 DEF TxEffect
    <3>2. f # NoFlit
      <4>1. f \in Flit
        BY <1>2, <2>2
      <4> HIDE DEF f
      <4> QED  BY <4>1, PacketNotZero DEF Flit, NoFlit
    <3> HIDE DEF f
    <3>3. ASSUME IsLast(f), rtable'[n][o] \in Port
          PROVE  FALSE
      <4>1. PICK j \in Port : rtable'[n][o] = j
        BY <3>3
      <4>2. j # i
        BY <1>2, <3>1, <3>3, <4>1
      <4>3. CASE out[j] \in Port
        <5>1. \A q \in Port : rtable'[n][q] = j => q = out[j]
          BY <4>3 DEF TxEffect
        <5>2. o = out[j]
          BY <1>2, <4>1, <5>1
        <5> QED  BY <2>2, <4>2, <4>3, <5>2 DEF TxEffect
      <4>4. CASE out[j] \notin Port
        <5>1. HeldBy(n, j)' = HeldBy(n, j)
          BY <4>4 DEF TxEffect
        <5>2. rtable[n][o] = j
          BY <1>2, <4>1, <5>1 DEF HeldBy
        <5> QED  BY <3>1, <4>2, <5>2, PortNumbers
      <4> QED  BY <4>3, <4>4
    <3> QED  BY <1>2, <3>1, <3>2, <3>3
  <2> QED  BY <2>1, <2>2
<1>5. ASSUME NEW m \in Node \ {n}, NEW o \in InPort(m)
      PROVE  rtable'[m] = rtable[m] /\ wr'[<<m, o>>].flit = wr[<<m, o>>].flit
  <2>1. <<m, o>> \in Link /\ \A i \in Port : <<m, o>> # <<n, out[i]>>
    BY <1>2
  <2> QED  BY <2>1 DEF TxEffect
<1>6. ASSUME NEW m \in Node, NEW o \in InPort(m)
      PROVE  /\ rtable'[m][o] \in Port <=> wr'[<<m, o>>].flit # NoFlit /\ ~IsLast(wr'[<<m, o>>].flit)
             /\ \A q \in Port : rtable'[m][o] \in Port /\ rtable'[m][q] = rtable'[m][o] => q = o
  <2>1. CASE m = n
    BY <1>3, <1>4, <2>1
  <2>2. CASE m # n
    BY <1>5, <2>2 DEF OutputsOK
  <2> QED  BY <2>1, <2>2
<1> QED
  BY <1>6 DEF OutputsOK

(* What a router sends is the next flit of the packet that has the output,  *)
(* and the output is on a shortest path of the packet.                      *)
LEMMA TxSends ==
  ASSUME WormInv, NEW n \in Node, NEW out \in [Port -> Port \union {NOT_RESERVED}],
         TxEffect(n, out), NEW i \in Port, out[i] \in Port
  PROVE  LET f == FrontOf(n, i).flit IN
         /\ f \in Flit /\ f = buffer[n][i][1].flit
         /\ out[i] \in InPort(n) /\ <<n, out[i]>> \in Link
         /\ ~InFlight(<<n, out[i]>>)
         /\ NextOn(<<n, out[i]>>, f)
         /\ OnPath(f, n) /\ Leads(n, out[i], Dst[f.pkt])
<1> DEFINE o == out[i]
           f == FrontOf(n, i).flit
<1>1. /\ buffer[n][i] # <<>> /\ o \in InPort(n) /\ LinkIdle(<<n, o>>)
      /\ \/ rtable[n][o] = i
         \/ rtable[n][o] = NOT_RESERVED /\ IsHead(f) /\ o \in Candidates(n, i)
  BY DEF TxEffect
<1>2. buffer[n][i] \in Seq(Stage)
  <2>1. buffer \in [Node -> [Port -> Seq(Stage)]]
    BY DEF WormInv, IInv, TypeOK, Stage
  <2> QED  BY <2>1
<1>3. f = buffer[n][i][1].flit /\ 1 \in 1 .. Len(buffer[n][i]) /\ buffer[n][i][1] \in Stage
  BY <1>1, <1>2, EmptySeq, LenProperties, ElementOfSeq, HeadTailProperties DEF FrontOf
<1>4. f \in Flit
  BY <1>3 DEF Stage
<1>5. <<n, o>> \in Link
  BY <1>1 DEF InPort, Link
<1>6. ~InFlight(<<n, o>>)
  BY <1>1, <1>5, IdleNotInFlight DEF WormInv
<1>7. OnPath(f, n)
  BY <1>3 DEF WormInv, BuffersOnPath
<1>8. rtable[n][o] = i => /\ wr[<<n, o>>].flit # NoFlit /\ ~IsLast(wr[<<n, o>>].flit)
                          /\ Follows(wr[<<n, o>>].flit, f)
  <2> SUFFICES ASSUME rtable[n][o] = i
               PROVE  /\ wr[<<n, o>>].flit # NoFlit /\ ~IsLast(wr[<<n, o>>].flit)
                      /\ Follows(wr[<<n, o>>].flit, f)
    OBVIOUS
  <2>1. wr[<<n, o>>].flit # NoFlit /\ ~IsLast(wr[<<n, o>>].flit)
    BY <1>1 DEF WormInv, OutputsOK
  <2>2. Enters(n, i, f)
    BY <1>1, <1>3 DEF WormInv, LinesOK, LineOK
  <2>3. o \in HeldBy(n, i)
    BY DEF HeldBy
  <2> QED  BY <2>1, <2>2, <2>3 DEF Enters
<1>9. rtable[n][o] = NOT_RESERVED => wr[<<n, o>>].flit = NoFlit \/ IsLast(wr[<<n, o>>].flit)
  BY <1>1, PortNumbers DEF WormInv, OutputsOK
<1> HIDE DEF f
<1>10. NextOn(<<n, o>>, f)
  BY <1>1, <1>8, <1>9 DEF NextOn, Follows
<1>11. Leads(n, o, Dst[f.pkt])
  <2>1. CASE rtable[n][o] = i
    <3>1. f.pkt = wr[<<n, o>>].flit.pkt
      BY <1>8, <2>1 DEF Follows
    <3>2. Leads(n, o, Dst[wr[<<n, o>>].flit.pkt])
      BY <1>1, <1>8, <2>1 DEF WormInv, LinksOnPath
    <3> QED  BY <3>1, <3>2
  <2>2. CASE rtable[n][o] # i
    <3>1. f.pkt \in Packet
      BY <1>4 DEF Flit
    <3>2. Src[f.pkt] \in Node /\ Dst[f.pkt] \in Node /\ routing_algorithm \in Algorithm
      BY <3>1, NoCAssumption DEF WormInv, IInv, TypeOK
    <3>3. o \in route(routing_algorithm, n, Src[f.pkt], Dst[f.pkt])
      BY <1>1, <2>2 DEF Candidates, f
    <3>4. CASE Dst[f.pkt] = n
      BY <3>3, <3>4 DEF route, Leads
    <3>5. CASE Dst[f.pkt] # n
      <4>1. o \in Toward(n, Dst[f.pkt])
        BY <3>2, <3>3, <3>5, RouteToward DEF route
      <4>2. o \in Direction
        BY <3>2, <4>1, HopToward
      <4> QED
        BY <4>1, <4>2, PortNumbers DEF Leads, DIRECTION_LOCAL
    <3> QED  BY <3>4, <3>5
  <2> QED  BY <2>1, <2>2
<1> QED
  BY <1>1, <1>3, <1>4, <1>5, <1>6, <1>7, <1>10, <1>11 DEF f

LEMMA RouterTxWorm ==
  ASSUME WormInv, NEW n \in Node, RouterTx(n)
  PROVE  /\ OutputsOK' /\ LinesOK' /\ SourcesOK' /\ SinksOK'
         /\ BuffersOnPath' /\ LinksOnPath' /\ PacketsAtHome' /\ FlitsDelivered'
<1>1. PICK out \in [Port -> Port \union {NOT_RESERVED}] : TxEffect(n, out)
  BY RouterTxEffect DEF WormInv
<1>2. UNCHANGED <<packet_queue, received, level_rx>>
  BY DEF RouterTx, peVars
<1>3. \A i \in Port : out[i] \in Port =>
        LET f == FrontOf(n, i).flit IN
         /\ f \in Flit /\ f = buffer[n][i][1].flit
         /\ out[i] \in InPort(n) /\ <<n, out[i]>> \in Link
         /\ ~InFlight(<<n, out[i]>>)
         /\ NextOn(<<n, out[i]>>, f)
         /\ OnPath(f, n) /\ Leads(n, out[i], Dst[f.pkt])
  BY <1>1, TxSends
<1>4. buffer \in [Node -> [Port -> Seq(Stage)]]
  BY DEF WormInv, IInv, TypeOK, Stage
<1>5. \A i \in Port : out[i] \in Port =>
        /\ InFlight(<<n, out[i]>>)' /\ wr'[<<n, out[i]>>].flit = FrontOf(n, i).flit
  <2> SUFFICES ASSUME NEW i \in Port, out[i] \in Port
               PROVE  /\ InFlight(<<n, out[i]>>)'
                      /\ wr'[<<n, out[i]>>].flit = FrontOf(n, i).flit
    OBVIOUS
  <2> DEFINE l == <<n, out[i]>>
  <2>1. /\ l \in Link /\ LinkIdle(l) /\ level_tx'[l] = 1 - level_tx[l]
        /\ wr'[l].flit = FrontOf(n, i).flit
    BY <1>1, <1>3 DEF TxEffect
  <2> HIDE DEF l
  <2>2. level_rx'[l] = level_rx[l]
    BY <1>2
  <2>3. level_tx'[l] # level_rx'[l]
    <3>1. level_tx[l] \in {0, 1} /\ level_rx[l] \in {0, 1} /\ ~InFlight(l)
      BY <2>1, IdleNotInFlight DEF WormInv, IInv, TypeOK, Bit
    <3> QED  BY <2>1, <2>2, <3>1 DEF InFlight
  <2> QED  BY <2>1, <2>3 DEF InFlight, l
<1>6. \A l \in Link : (\A i \in Port : out[i] \in Port => l # <<n, out[i]>>) =>
        /\ InFlight(l)' <=> InFlight(l)
        /\ wr'[l].flit = wr[l].flit
  BY <1>1, <1>2 DEF TxEffect, InFlight
<1>7. OutputsOK'
  BY <1>1, <1>3, TxOutputs DEF WormInv
<1>8. \A m \in Node : wr'[<<m, PE>>].flit = wr[<<m, PE>>].flit
  <2>1. \A m \in Node : <<m, PE>> \in Link /\ \A i \in Port : out[i] \in Port => <<m, PE>> # <<n, out[i]>>
    BY PortNumbers DEF Link
  <2> QED  BY <1>6, <2>1
<1>9. SourcesOK'
  BY <1>2, <1>8, SourcesFrame DEF WormInv
<1>10. SinksOK'
  <2> SUFFICES ASSUME NEW m \in Node PROVE SinkOK(m)'
    BY DEF SinksOK
  <2>0. <<m, DIRECTION_LOCAL>> \in Link
    BY PortNumbers DEF Link, DIRECTION_LOCAL
  <2>1. CASE \A i \in Port : out[i] \in Port => <<m, DIRECTION_LOCAL>> # <<n, out[i]>>
    <3>1. /\ InFlight(<<m, DIRECTION_LOCAL>>)' <=> InFlight(<<m, DIRECTION_LOCAL>>)
          /\ wr'[<<m, DIRECTION_LOCAL>>].flit = wr[<<m, DIRECTION_LOCAL>>].flit
      BY <1>6, <2>0, <2>1
    <3> QED  BY <1>2, <3>1, SinkFrame DEF WormInv, SinksOK
  <2>2. ASSUME NEW i \in Port, out[i] \in Port, <<m, DIRECTION_LOCAL>> = <<n, out[i]>>
        PROVE  SinkOK(m)'
    <3>1. m = n /\ out[i] = DIRECTION_LOCAL
      BY <2>2
    <3>2. /\ ~InFlight(<<n, DIRECTION_LOCAL>>)
          /\ FrontOf(n, i).flit \in Flit /\ NextOn(<<n, DIRECTION_LOCAL>>, FrontOf(n, i).flit)
          /\ wr'[<<n, DIRECTION_LOCAL>>].flit = FrontOf(n, i).flit
      BY <1>3, <1>5, <2>2, <3>1
    <3>3. InFlight(<<n, DIRECTION_LOCAL>>)'
      <4>1. InFlight(<<n, out[i]>>)'
        BY <1>5, <2>2
      <4> QED  BY <3>1, <4>1 DEF InFlight
    <3>4. SinkOK(n) /\ received'[n] = received[n]
      BY <1>2 DEF WormInv, SinksOK
    <3> QED
      BY <3>1, <3>2, <3>3, <3>4, SinkSend
  <2> QED  BY <2>1, <2>2
<1>11. LinesOK'
  <2> SUFFICES ASSUME NEW m \in Node, NEW i \in Port PROVE LineOK(m, i)'
    BY DEF LinesOK
  <2>0. LineOK(m, i)
    BY DEF WormInv, LinesOK
  <2>1. CASE m = n
    <3>1. i \in InPort(n) =>
            /\ InFlight(InLink(n, i))' <=> InFlight(InLink(n, i))
            /\ wr'[InLink(n, i)].flit = wr[InLink(n, i)].flit
      <4> SUFFICES ASSUME i \in InPort(n)
                   PROVE  /\ InFlight(InLink(n, i))' <=> InFlight(InLink(n, i))
                          /\ wr'[InLink(n, i)].flit = wr[InLink(n, i)].flit
        OBVIOUS
      <4>1. InLink(n, i) \in Link
        BY InLinkIsLink
      <4>2. \A j \in Port : out[j] \in Port => InLink(n, i) # <<n, out[j]>>
        <5>1. CASE i = DIRECTION_LOCAL
          BY <5>1, PortNumbers DEF InLink
        <5>2. CASE i # DIRECTION_LOCAL
          BY <5>2, InLinkFrom
        <5> QED  BY <5>1, <5>2
      <4> QED  BY <1>6, <4>1, <4>2
    <3>2. CASE out[i] \in Port
      <4>1. /\ buffer[n][i] # <<>> /\ buffer'[n][i] = Tail(Age(buffer[n][i]))
            /\ wr'[<<n, out[i]>>].flit = buffer[n][i][1].flit
            /\ \A q \in Port : rtable'[n][q] = i <=> q = out[i] /\ ~IsLast(buffer[n][i][1].flit)
        BY <1>1, <1>3, <3>2 DEF TxEffect
      <4>2. buffer[n][i] \in Seq(Stage) /\ LineOK(n, i)
        BY <1>4, <2>0, <2>1
      <4>3. LineOK(n, i)'
        BY <3>1, <3>2, <4>1, <4>2, LineForward
      <4> QED  BY <2>1, <4>3
    <3>3. CASE out[i] \notin Port
      <4>1. buffer'[n][i] = Age(buffer[n][i]) /\ HeldBy(n, i)' = HeldBy(n, i)
        BY <1>1, <3>3 DEF TxEffect
      <4>2. buffer[n][i] \in Seq(Stage)
        BY <1>4
      <4>3. buffer'[n][i] \in Seq(Stage) /\ SameFlits(buffer'[n][i], buffer[n][i])
        BY <4>1, <4>2, AgeSame
      <4>4. \A o \in HeldBy(n, i) : wr'[<<n, o>>].flit = wr[<<n, o>>].flit
        <5> SUFFICES ASSUME NEW o \in HeldBy(n, i)
                     PROVE  wr'[<<n, o>>].flit = wr[<<n, o>>].flit
          OBVIOUS
        <5>1. o \in InPort(n) /\ rtable[n][o] = i
          BY HeldIsLink DEF WormInv, HeldBy
        <5>2. \A j \in Port : out[j] # o
          <6> SUFFICES ASSUME NEW j \in Port, out[j] = o PROVE FALSE
            OBVIOUS
          <6>1. o \in Port /\ j # i
            BY <3>3, <5>1 DEF InPort
          <6>2. rtable[n][o] = j \/ rtable[n][o] = NOT_RESERVED
            BY <1>1, <6>1 DEF TxEffect
          <6> QED  BY <5>1, <6>1, <6>2, PortNumbers
        <5> QED  BY <1>1, <5>1, <5>2 DEF TxEffect
      <4>5. LineOK(n, i)'
        <5>1. LineOK(n, i)
          BY <2>0, <2>1
        <5> QED  BY <3>1, <4>1, <4>2, <4>3, <4>4, <5>1, LineFrame
      <4> QED  BY <2>1, <4>5
    <3> QED  BY <3>2, <3>3
  <2>2. CASE m # n
    <3>1. buffer'[m] = buffer[m] /\ rtable'[m] = rtable[m]
      BY <1>1, <2>2 DEF TxEffect
    <3>2. \A o \in HeldBy(m, i) : wr'[<<m, o>>].flit = wr[<<m, o>>].flit
      BY <1>6, <2>2, HeldIsLink DEF WormInv
    <3>3. HeldBy(m, i)' = HeldBy(m, i)
      BY <3>1 DEF HeldBy
    <3>4. CASE i \in InPort(m) =>
                 \A j \in Port : out[j] \in Port => InLink(m, i) # <<n, out[j]>>
      <4>1. i \in InPort(m) =>
              /\ InFlight(InLink(m, i))' <=> InFlight(InLink(m, i))
              /\ wr'[InLink(m, i)].flit = wr[InLink(m, i)].flit
        BY <1>6, <3>4, InLinkIsLink
      <4> QED
        BY <3>1, <3>2, <4>1, LineUntouched DEF WormInv
    <3>5. ASSUME i \in InPort(m), NEW j \in Port, out[j] \in Port, InLink(m, i) = <<n, out[j]>>
          PROVE  LineOK(m, i)'
      <4>1. /\ ~InFlight(InLink(m, i)) /\ FrontOf(n, j).flit \in Flit
            /\ NextOn(InLink(m, i), FrontOf(n, j).flit)
            /\ wr'[InLink(m, i)].flit = FrontOf(n, j).flit
        BY <1>3, <1>5, <3>5
      <4>2. InFlight(InLink(m, i))'
        <5>1. InFlight(<<n, out[j]>>)'
          BY <1>5, <3>5
        <5> QED  BY <3>5, <5>1 DEF InFlight
      <4> QED
        BY <2>0, <3>1, <3>2, <3>3, <3>5, <4>1, <4>2, LineSend
    <3> QED  BY <3>4, <3>5
  <2> QED  BY <2>1, <2>2
<1>12. LinksOnPath'
  <2>1. ASSUME NEW m \in Node, NEW o \in InPort(m), wr'[<<m, o>>].flit # NoFlit
        PROVE  OnPath(wr'[<<m, o>>].flit, m) /\ Leads(m, o, Dst[wr'[<<m, o>>].flit.pkt])
    <3>1. CASE \A i \in Port : out[i] \in Port => <<m, o>> # <<n, out[i]>>
      <4>1. <<m, o>> \in Link
        BY DEF InPort, Link
      <4> QED  BY <1>6, <2>1, <3>1, <4>1 DEF WormInv, LinksOnPath
    <3>2. ASSUME NEW i \in Port, out[i] \in Port, <<m, o>> = <<n, out[i]>>
          PROVE  OnPath(wr'[<<m, o>>].flit, m) /\ Leads(m, o, Dst[wr'[<<m, o>>].flit.pkt])
      <4>1. m = n /\ o = out[i]
        BY <3>2
      <4> QED  BY <1>3, <1>5, <3>2, <4>1
    <3> QED  BY <3>1, <3>2
  <2>2. \A m \in Node : wr'[<<m, PE>>].flit # NoFlit =>
          wr'[<<m, PE>>].flit.hop_no = 0 /\ Src[wr'[<<m, PE>>].flit.pkt] = m
    BY <1>8 DEF WormInv, LinksOnPath
  <2> QED  BY <2>1, <2>2 DEF LinksOnPath
<1>13. BuffersOnPath'
  <2> SUFFICES ASSUME NEW m \in Node, NEW i \in Port, NEW j \in 1 .. Len(buffer'[m][i])
               PROVE  OnPath(buffer'[m][i][j].flit, m)
    BY DEF BuffersOnPath
  <2>0. buffer[m][i] \in Seq(Stage) /\ Len(buffer[m][i]) \in Nat
    BY <1>4, LenProperties
  <2>1. CASE m # n
    BY <1>1, <2>1 DEF TxEffect, WormInv, BuffersOnPath
  <2>2. CASE m = n /\ out[i] \notin Port
    <3>1. buffer'[n][i] = Age(buffer[n][i])
      BY <1>1, <2>2 DEF TxEffect
    <3>2. /\ j \in 1 .. Len(buffer[n][i])
          /\ buffer'[n][i][j].flit = buffer[n][i][j].flit
      BY <2>0, <2>2, <3>1, AgeSame DEF SameFlits
    <3> QED  BY <2>2, <3>2 DEF WormInv, BuffersOnPath
  <2>3. CASE m = n /\ out[i] \in Port
    <3>1. buffer[n][i] # <<>> /\ buffer'[n][i] = Tail(Age(buffer[n][i]))
      BY <1>1, <2>3 DEF TxEffect
    <3>2. /\ j + 1 \in 1 .. Len(buffer[n][i])
          /\ buffer'[n][i][j].flit = buffer[n][i][j + 1].flit
      <4> DEFINE b == buffer[n][i]
                 c == Tail(Age(b))
      <4>1. b \in Seq(Stage) /\ b # <<>> /\ Len(b) \in Nat /\ j \in 1 .. Len(c)
        BY <2>0, <2>3, <3>1
      <4>2. Len(c) = Len(b) - 1 /\ \A k \in 1 .. Len(b) - 1 : c[k].flit = b[k + 1].flit
        BY <4>1, TailFlits
      <4>3. c = buffer'[n][i]
        BY <3>1
      <4> HIDE DEF b, c
      <4>4. j + 1 \in 1 .. Len(b) /\ c[j].flit = b[j + 1].flit
        BY <4>1, <4>2
      <4> QED  BY <4>3, <4>4 DEF b
    <3> QED  BY <2>3, <3>2 DEF WormInv, BuffersOnPath
  <2> QED  BY <2>1, <2>2, <2>3
<1>14. PacketsAtHome' /\ FlitsDelivered'
  BY <1>2 DEF WormInv, PacketsAtHome, FlitsDelivered
<1> QED
  BY <1>7, <1>9, <1>10, <1>11, <1>12, <1>13, <1>14
-----------------------------------------------------------------------------
LEMMA InitWorm ==
  ASSUME InitLevels = {0}, Init
  PROVE  WormInv
<1>1. IInv
  BY InitIInv
<1>2. \A n \in Node : \A i \in Port : buffer[n][i] = <<>>
  BY DEF Init
<1>3. \A n \in Node : packet_queue[n] = <<>> /\ received[n] = <<>>
  BY DEF Init
<1>4. \A l \in Link : wr[l].flit = NoFlit /\ ~InFlight(l)
  BY DEF Init, InFlight
<1>5. \A n \in Node : \A o \in Port : rtable[n][o] \notin Port
  BY PortNumbers DEF Init
<1>6. \A n \in Node : /\ <<n, PE>> \in Link /\ <<n, DIRECTION_LOCAL>> \in Link
                      /\ \A o \in InPort(n) : o \in Port /\ <<n, o>> \in Link
  BY PortNumbers DEF InPort, Link, DIRECTION_LOCAL
<1>7. OutputsOK
  BY <1>4, <1>5, <1>6 DEF OutputsOK
<1>8. LinesOK
  <2> SUFFICES ASSUME NEW n \in Node, NEW i \in Port PROVE LineOK(n, i)
    BY DEF LinesOK
  <2>1. HeldBy(n, i) = {}
    BY <1>5 DEF HeldBy
  <2>2. i \in InPort(n) => \A g : NextOn(InLink(n, i), g) => Continues(n, i, g)
    BY <1>2, <1>4, <2>1, InLinkIsLink DEF NextOn, Continues, Enters
  <2>3. i \in InPort(n) => ~InFlight(InLink(n, i))
    BY <1>4, InLinkIsLink
  <2>4. buffer[n][i] = <<>> /\ Len(buffer[n][i]) = 0
    BY <1>2, EmptySeq
  <2>5. 0 <= BufferDepth /\ 2 .. 0 = {}
    BY NoCAssumption
  <2> QED  BY <2>2, <2>3, <2>4, <2>5 DEF LineOK
<1>9. SourcesOK
  <2> SUFFICES ASSUME NEW n \in Node PROVE SourceOK(n, packet_queue[n])
    BY DEF SourcesOK
  <2>1. packet_queue[n] = <<>> /\ DOMAIN packet_queue[n] = {}
    <3>1. DOMAIN <<>> = {}
      OBVIOUS
    <3> QED  BY <1>3, <3>1
  <2>2. wr[<<n, PE>>].flit = NoFlit
    BY <1>4, <1>6
  <2> QED  BY <2>1, <2>2 DEF SourceOK
<1>10. SinksOK
  <2> SUFFICES ASSUME NEW n \in Node PROVE SinkOK(n)
    BY DEF SinksOK
  <2>1. received[n] = <<>> /\ Len(received[n]) = 0 /\ 2 .. 0 = {}
    BY <1>3, EmptySeq
  <2>2. ~InFlight(<<n, DIRECTION_LOCAL>>) /\ wr[<<n, DIRECTION_LOCAL>>].flit = NoFlit
    BY <1>4, <1>6
  <2> QED  BY <2>1, <2>2 DEF SinkOK, NextOn, Gets
<1>11. BuffersOnPath /\ PacketsAtHome /\ FlitsDelivered
  <2>1. Len(<<>>) = 0 /\ 1 .. 0 = {}
    BY EmptySeq
  <2> QED  BY <1>2, <1>3, <2>1 DEF BuffersOnPath, PacketsAtHome, FlitsDelivered
<1>12. LinksOnPath
  BY <1>4, <1>6 DEF LinksOnPath
<1> QED
  BY <1>1, <1>7, <1>8, <1>9, <1>10, <1>11, <1>12 DEF WormInv

(* The other steps change nothing that the invariant reads, but for IInv.   *)
LEMMA OtherWorm ==
  ASSUME WormInv,
         UNCHANGED <<buffer, rtable, packet_queue, received, level_tx, level_rx, wr>>
  PROVE  /\ OutputsOK' /\ LinesOK' /\ SourcesOK' /\ SinksOK'
         /\ BuffersOnPath' /\ LinksOnPath' /\ PacketsAtHome' /\ FlitsDelivered'
<1>1. OutputsOK' /\ SourcesOK'
  BY DEF WormInv, OutputsOK, SourcesOK, SourceOK, NextOn
<1>2. \A l : InFlight(l)' <=> InFlight(l)
  BY DEF InFlight
<1>3. LinesOK'
  <2> SUFFICES ASSUME NEW n \in Node, NEW i \in Port PROVE LineOK(n, i)'
    BY DEF LinesOK
  <2> QED
    BY <1>2, LineUntouched DEF WormInv
<1>4. SinksOK'
  BY <1>2, SinkFrame DEF WormInv, SinksOK
<1>5. BuffersOnPath' /\ LinksOnPath' /\ PacketsAtHome' /\ FlitsDelivered'
  BY DEF WormInv, BuffersOnPath, LinksOnPath, PacketsAtHome, FlitsDelivered
<1> QED
  BY <1>1, <1>3, <1>4, <1>5

LEMMA NextWorm ==
  ASSUME WormInv, [Next]_vars
  PROVE  WormInv'
<1>1. IInv'
  BY EveryStep, Stutter DEF WormInv
<1>2. ASSUME NEW n \in Node, RouterRx(n) PROVE WormInv'
  BY <1>1, <1>2, RouterRxWorm DEF WormInv
<1>3. ASSUME NEW n \in Node, RouterTx(n) PROVE WormInv'
  BY <1>1, <1>3, RouterTxWorm DEF WormInv
<1>4. ASSUME NEW n \in Node, PeRx(n) PROVE WormInv'
  BY <1>1, <1>4, PeRxWorm DEF WormInv
<1>5. ASSUME NEW n \in Node, PeTx(n) PROVE WormInv'
  BY <1>1, <1>5, PeTxWorm DEF WormInv
<1>6. CASE ClockEdge \/ UNCHANGED vars
  <2>1. UNCHANGED <<buffer, rtable, packet_queue, received, level_tx, level_rx, wr>>
    BY <1>6 DEF ClockEdge, vars, routerVars, peVars
  <2> QED  BY <1>1, <2>1, OtherWorm DEF WormInv
<1> QED
  BY <1>2, <1>3, <1>4, <1>5, <1>6 DEF Next

-----------------------------------------------------------------------------
(* The inductive invariant of wormhole switching holds in every behaviour   *)
(* that starts with equal levels.                                           *)
THEOREM WormInvariance ==
  ASSUME InitLevels = {0}
  PROVE  Spec => []WormInv
<1>1. Init => WormInv
  BY InitWorm
<1>2. WormInv /\ [Next]_vars => WormInv'
  BY NextWorm
<1> QED
  BY <1>1, <1>2, PTL DEF Spec

(* Wormhole switching: while a packet passes an output, exactly the input   *)
(* it comes from holds it, for every mesh, algorithm, selection, traffic    *)
(* and order of the processes.                                              *)
THEOREM WormholesHold ==
  ASSUME InitLevels = {0}
  PROVE  Spec => []Wormhole
<1>1. WormInv => Wormhole
  <2> SUFFICES ASSUME WormInv, NEW n \in Node, NEW o \in InPort(n)
               PROVE  LET f == wr[<<n, o>>].flit
                          i == rtable[n][o]
                      IN  /\ i \in Port <=> f # NoFlit /\ ~IsLast(f)
                          /\ i \in Port =>
                               /\ \A q \in Port : rtable[n][q] = i => q = o
                               /\ buffer[n][i] # <<>> => Follows(f, FrontOf(n, i).flit)
    BY DEF Wormhole
  <2> DEFINE f == wr[<<n, o>>].flit
             i == rtable[n][o]
  <2>1. /\ i \in Port <=> f # NoFlit /\ ~IsLast(f)
        /\ i \in Port => \A q \in Port : rtable[n][q] = i => q = o
    BY DEF WormInv, OutputsOK
  <2>2. ASSUME i \in Port, buffer[n][i] # <<>>
        PROVE  Follows(f, FrontOf(n, i).flit)
    <3>1. LineOK(n, i)
      BY <2>2 DEF WormInv, LinesOK
    <3>2. o \in HeldBy(n, i)
      BY <2>2 DEF HeldBy, InPort
    <3> HIDE DEF i
    <3>3. Enters(n, i, buffer[n][i][1].flit)
      BY <2>2, <3>1 DEF LineOK
    <3>4. Follows(wr[<<n, o>>].flit, buffer[n][i][1].flit)
      BY <3>2, <3>3 DEF Enters
    <3>5. FrontOf(n, i) = buffer[n][i][1]
      BY DEF FrontOf
    <3> QED  BY <3>4, <3>5
  <2> QED  BY <2>1, <2>2
<1> QED
  BY <1>1, WormInvariance, PTL

(* The flits of a packet lie behind each other in every input buffer, and   *)
(* no buffer overflows.                                                     *)
THEOREM BuffersKeepOrder ==
  ASSUME InitLevels = {0}
  PROVE  Spec => []BuffersInOrder
<1>1. WormInv => BuffersInOrder
  BY DEF WormInv, LinesOK, LineOK, BuffersInOrder
<1> QED
  BY <1>1, WormInvariance, PTL

(* A PE only gets flits addressed to it, whole packets one after the other, *)
(* each over a path of minimal length.                                      *)
THEOREM PacketsArriveIntact ==
  ASSUME InitLevels = {0}
  PROVE  Spec => []PacketsIntact
<1>1. WormInv => PacketsIntact
  <2> SUFFICES ASSUME WormInv, NEW n \in Node
               PROVE  LET r == received[n] IN
                      /\ r # <<>> => IsHead(r[1])
                      /\ \A j \in DOMAIN r :
                           /\ Dst[r[j].pkt] = n
                           /\ j > 1 => Follows(r[j - 1], r[j])
                           /\ r[j].hop_no = Distance(Src[r[j].pkt], n)
    BY DEF PacketsIntact
  <2>1. received[n] \in Seq(Flit)
    BY DEF WormInv, IInv, TypeOK
  <2>2. DOMAIN received[n] = 1 .. Len(received[n]) /\ Len(received[n]) \in Nat
    BY <2>1, LenProperties
  <2>3. SinkOK(n)
    BY DEF WormInv, SinksOK
  <2>4. \A j \in 1 .. Len(received[n]) : Delivered(received[n][j], n)
    BY DEF WormInv, FlitsDelivered
  <2>5. \A j \in 1 .. Len(received[n]) : j > 1 => j \in 2 .. Len(received[n])
    BY <2>2
  <2> QED  BY <2>2, <2>3, <2>4, <2>5 DEF SinkOK, Delivered
<1> QED
  BY <1>1, WormInvariance, PTL

-----------------------------------------------------------------------------
(***************************************************************************)
(* The routers and PEs implement the abstract network.  Every flit of a    *)
(* packet that was fired is in exactly one place; under XY the flits of a  *)
(* flow take one route, on which no packet overtakes another.              *)
(***************************************************************************)

(* Flit k of packet p is still to be sent by the j-th packet of a queue, is *)
(* stored in a buffer, is in flight on a link, or was taken by a PE.  The   *)
(* queues are a parameter: between canShot and the transmission of a flit   *)
(* they are those of no state.                                              *)
AtQueue(pq, n, j, p, k) ==
  j \in 1 .. Len(pq[n]) /\ pq[n][j].pkt = p /\ k >= Size[p] - pq[n][j].flit_left
AtBuffer(n, i, j, p, k) == j \in 1 .. Len(buffer[n][i]) /\ Is(buffer[n][i][j].flit, p, k)
AtLink(l, p, k) == InFlight(l) /\ Is(wr[l].flit, p, k)
AtPE(n, j, p, k) == j \in 1 .. Len(received[n]) /\ Is(received[n][j], p, k)

(* The places are told apart by a name of their kind.                       *)
QPlace(n, j)    == <<"queue", n, j>>
BPlace(n, i, j) == <<"buffer", <<n, i>>, j>>
LPlace(l)       == <<"link", l, 0>>
RPlace(n, j)    == <<"pe", n, j>>

At(pq, x, p, k) ==
  \/ \E n \in Node, j \in Nat : x = QPlace(n, j) /\ AtQueue(pq, n, j, p, k)
  \/ \E n \in Node, i \in Port, j \in Nat : x = BPlace(n, i, j) /\ AtBuffer(n, i, j, p, k)
  \/ \E l \in Link : x = LPlace(l) /\ AtLink(l, p, k)
  \/ \E n \in Node, j \in Nat : x = RPlace(n, j) /\ AtPE(n, j, p, k)

Nowhere(pq, p, k) == \A x : ~At(pq, x, p, k)
OnePlace(pq, p, k) == \E x : At(pq, x, p, k) /\ \A y : At(pq, y, p, k) => y = x

(* The packets that were not fired are nowhere, each flit of the others is  *)
(* in one place.                                                            *)
Placed(pq, waiting) ==
  \A p \in Packet : \A k \in 0 .. Size[p] - 1 :
    IF p \in waiting THEN Nowhere(pq, p, k) ELSE OnePlace(pq, p, k)

LEMMA PlacesDiffer ==
  /\ \A n, j, m, h : QPlace(n, j) = QPlace(m, h) => n = m /\ j = h
  /\ \A n, i, j, m, g, h : BPlace(n, i, j) = BPlace(m, g, h) => n = m /\ i = g /\ j = h
  /\ \A l, r : LPlace(l) = LPlace(r) => l = r
  /\ \A n, j, m, h : RPlace(n, j) = RPlace(m, h) => n = m /\ j = h
  /\ \A n, j, m, g, h : QPlace(n, j) # BPlace(m, g, h)
  /\ \A n, j, l : QPlace(n, j) # LPlace(l)
  /\ \A n, j, m, h : QPlace(n, j) # RPlace(m, h)
  /\ \A n, i, j, l : BPlace(n, i, j) # LPlace(l)
  /\ \A n, i, j, m, h : BPlace(n, i, j) # RPlace(m, h)
  /\ \A l, m, h : LPlace(l) # RPlace(m, h)
BY DEF QPlace, BPlace, LPlace, RPlace

(* A flit is stored as it came, but for its hops.                           *)
LEMMA StoredFlit ==
  ASSUME NEW f \in Flit, NEW i \in Port
  PROVE  /\ Stored(f, i) \in Stage
         /\ Stored(f, i).flit.pkt = f.pkt /\ Stored(f, i).flit.seq = f.seq
BY NoCAssumption DEF Stored, Stage, Flit

-----------------------------------------------------------------------------
(* How RouterRx moves the flits: from a link to the end of a buffer.        *)
RxMove(n, taken, x, y) ==
  \/ \E i \in taken : x = LPlace(InLink(n, i)) /\ y = BPlace(n, i, Len(buffer[n][i]) + 1)
  \/ (\A i \in taken : x # LPlace(InLink(n, i))) /\ y = x

LEMMA RouterRxMoves ==
  ASSUME WormInv, NEW n \in Node, NEW taken \in SUBSET InPort(n), RouterRxEffect(n, taken),
         UNCHANGED <<packet_queue, received>>, NEW p, NEW k
  PROVE  /\ \A x, y, z : RxMove(n, taken, x, y) /\ RxMove(n, taken, x, z) => y = z
         /\ \A x : At(packet_queue, x, p, k) =>
              \E y : RxMove(n, taken, x, y) /\ At(packet_queue, y, p, k)'
         /\ \A y : At(packet_queue, y, p, k)' =>
              \E x : RxMove(n, taken, x, y) /\ At(packet_queue, x, p, k)
<1>1. RouterRxEffect(n, taken)
  OBVIOUS
<1>2. UNCHANGED <<packet_queue, received>>
  OBVIOUS
<1>3. buffer \in [Node -> [Port -> Seq(Stage)]]
  BY DEF WormInv, IInv, TypeOK, Stage
<1>4. \A i \in taken : /\ i \in InPort(n) /\ i \in Port /\ InLink(n, i) \in Link
  BY InLinkIsLink DEF InPort
<1> DEFINE old(i) == buffer[n][i]
           M(x, y) == RxMove(n, taken, x, y)
<1> USE DEF RxMove
<1>5. \A x, y, z : M(x, y) /\ M(x, z) => y = z
  <2>1. \A i, j \in taken : LPlace(InLink(n, i)) = LPlace(InLink(n, j)) => i = j
    BY <1>4, PlacesDiffer, InLinkInjective
  <2> QED  BY <2>1
<1>6. \A m \in Node, j \in Nat :
        /\ AtQueue(packet_queue, m, j, p, k)' <=> AtQueue(packet_queue, m, j, p, k)
        /\ AtPE(m, j, p, k)' <=> AtPE(m, j, p, k)
  BY <1>2 DEF AtQueue, AtPE
<1>7. \A l \in Link : AtLink(l, p, k)' <=> AtLink(l, p, k) /\ \A i \in taken : l # InLink(n, i)
  BY <1>1, <1>4 DEF AtLink, RouterRxEffect, SameLinks
<1>8. ASSUME NEW i \in taken, NEW j \in Nat
      PROVE  AtBuffer(n, i, j, p, k)' <=>
               AtBuffer(n, i, j, p, k) \/ (j = Len(old(i)) + 1 /\ AtLink(InLink(n, i), p, k))
  <2> DEFINE b == old(i)
             f == wr[InLink(n, i)].flit
             x == Stored(f, i)
  <2>1. /\ InFlight(InLink(n, i)) /\ f \in Flit /\ buffer'[n][i] = Append(b, x)
    BY <1>1 DEF RouterRxEffect
  <2>2. x \in Stage /\ x.flit.pkt = f.pkt /\ x.flit.seq = f.seq
    BY <2>1, <1>4, StoredFlit
  <2>3. b \in Seq(Stage) /\ Len(b) \in Nat
    BY <1>3, <1>4, LenProperties
  <2>4. AtLink(InLink(n, i), p, k) <=> Is(f, p, k)
    BY <2>1 DEF AtLink
  <2> HIDE DEF b, f, x
  <2>5. /\ Len(Append(b, x)) = Len(b) + 1
        /\ \A h \in 1 .. Len(b) : Append(b, x)[h] = b[h]
        /\ Append(b, x)[Len(b) + 1] = x
    BY <2>2, <2>3, AppendProperties
  <2>6. AtBuffer(n, i, j, p, k)' <=> j \in 1 .. Len(b) + 1 /\ Is(Append(b, x)[j].flit, p, k)
    BY <2>1, <2>5 DEF AtBuffer
  <2>7. AtBuffer(n, i, j, p, k) <=> j \in 1 .. Len(b) /\ Is(b[j].flit, p, k)
    BY DEF AtBuffer, b
  <2>8. Is(x.flit, p, k) <=> Is(f, p, k)
    BY <2>2 DEF Is
  <2>9. j \in 1 .. Len(b) + 1 <=> j \in 1 .. Len(b) \/ j = Len(b) + 1
    BY <2>3
  <2>10. Len(b) + 1 \notin 1 .. Len(b)
    BY <2>3
  <2>11. AtBuffer(n, i, j, p, k)' <=>
           AtBuffer(n, i, j, p, k) \/ (j = Len(b) + 1 /\ AtLink(InLink(n, i), p, k))
    BY <2>4, <2>5, <2>6, <2>7, <2>8, <2>9, <2>10
  <2> QED
    BY <2>11 DEF b
<1>9. \A m \in Node, i \in Port, j \in Nat : ~(m = n /\ i \in taken) =>
        (AtBuffer(m, i, j, p, k)' <=> AtBuffer(m, i, j, p, k))
  BY <1>1 DEF AtBuffer, RouterRxEffect
<1>10. ASSUME NEW x, At(packet_queue, x, p, k)
       PROVE  \E y : M(x, y) /\ At(packet_queue, y, p, k)'
  <2>1. CASE \E m \in Node, j \in Nat : x = QPlace(m, j) /\ AtQueue(packet_queue, m, j, p, k)
    <3>1. M(x, x) /\ At(packet_queue, x, p, k)'
      BY <1>6, <2>1, PlacesDiffer DEF At
    <3> QED  BY <3>1
  <2>2. CASE \E m \in Node, j \in Nat : x = RPlace(m, j) /\ AtPE(m, j, p, k)
    <3>1. M(x, x) /\ At(packet_queue, x, p, k)'
      BY <1>6, <2>2, PlacesDiffer DEF At
    <3> QED  BY <3>1
  <2>3. CASE \E m \in Node, i \in Port, j \in Nat : x = BPlace(m, i, j) /\ AtBuffer(m, i, j, p, k)
    <3>1. M(x, x) /\ At(packet_queue, x, p, k)'
      BY <1>8, <1>9, <2>3, PlacesDiffer DEF At
    <3> QED  BY <3>1
  <2>4. ASSUME NEW l \in Link, x = LPlace(l), AtLink(l, p, k)
        PROVE  \E y : M(x, y) /\ At(packet_queue, y, p, k)'
    <3>1. CASE \A i \in taken : l # InLink(n, i)
      <4>1. M(x, x) /\ At(packet_queue, x, p, k)'
        BY <1>7, <2>4, <3>1, PlacesDiffer DEF At
      <4> QED  BY <4>1
    <3>2. ASSUME NEW i \in taken, l = InLink(n, i)
          PROVE  \E y : M(x, y) /\ At(packet_queue, y, p, k)'
      <4>1. PICK j \in Nat : j = Len(old(i)) + 1
        BY <1>3, <1>4, LenProperties
      <4>2. AtBuffer(n, i, j, p, k)'
        BY <1>8, <2>4, <3>2, <4>1
      <4>3. M(x, BPlace(n, i, j))
        BY <2>4, <3>2, <4>1
      <4> HIDE DEF M
      <4>4. At(packet_queue, BPlace(n, i, j), p, k)'
        BY <1>4, <4>2 DEF At
      <4> QED  BY <4>3, <4>4
    <3> QED  BY <3>1, <3>2
  <2> QED  BY <1>10, <2>1, <2>2, <2>3, <2>4 DEF At
<1>11. ASSUME NEW y, At(packet_queue, y, p, k)'
       PROVE  \E x : M(x, y) /\ At(packet_queue, x, p, k)
  <2>1. CASE \E m \in Node, j \in Nat : y = QPlace(m, j) /\ AtQueue(packet_queue, m, j, p, k)'
    <3>1. M(y, y) /\ At(packet_queue, y, p, k)
      BY <1>6, <2>1, PlacesDiffer DEF At
    <3> QED  BY <3>1
  <2>2. CASE \E m \in Node, j \in Nat : y = RPlace(m, j) /\ AtPE(m, j, p, k)'
    <3>1. M(y, y) /\ At(packet_queue, y, p, k)
      BY <1>6, <2>2, PlacesDiffer DEF At
    <3> QED  BY <3>1
  <2>3. CASE \E l \in Link : y = LPlace(l) /\ AtLink(l, p, k)'
    <3>1. M(y, y) /\ At(packet_queue, y, p, k)
      BY <1>7, <2>3, PlacesDiffer DEF At
    <3> QED  BY <3>1
  <2>4. ASSUME NEW m \in Node, NEW i \in Port, NEW j \in Nat, y = BPlace(m, i, j), AtBuffer(m, i, j, p, k)'
        PROVE  \E x : M(x, y) /\ At(packet_queue, x, p, k)
    <3>1. CASE AtBuffer(m, i, j, p, k)
      <4>1. M(y, y) /\ At(packet_queue, y, p, k)
        BY <2>4, <3>1, PlacesDiffer DEF At
      <4> QED  BY <4>1
    <3>2. CASE ~AtBuffer(m, i, j, p, k)
      <4>1. m = n /\ i \in taken /\ j = Len(old(i)) + 1 /\ AtLink(InLink(n, i), p, k)
        BY <1>8, <1>9, <2>4, <3>2
      <4>2. M(LPlace(InLink(n, i)), y)
        BY <2>4, <4>1
      <4> HIDE DEF M
      <4>3. At(packet_queue, LPlace(InLink(n, i)), p, k)
        BY <1>4, <4>1 DEF At
      <4> QED  BY <4>2, <4>3
    <3> QED  BY <3>1, <3>2
  <2> QED  BY <1>11, <2>1, <2>2, <2>3, <2>4 DEF At
<1> HIDE DEF RxMove
<1> QED
  BY <1>5, <1>10, <1>11

LEMMA RouterRxPlaces ==
  ASSUME WormInv, NEW n \in Node, RouterRx(n), Placed(packet_queue, unsent)
  PROVE  Placed(packet_queue, unsent)'
<1>1. PICK taken \in SUBSET InPort(n) : RouterRxEffect(n, taken)
  BY RouterRxDoes DEF WormInv
<1>2. UNCHANGED <<packet_queue, unsent, received>>
  BY DEF RouterRx, peVars
<1> SUFFICES ASSUME NEW p \in Packet, NEW k \in 0 .. Size[p] - 1
             PROVE  IF p \in unsent THEN Nowhere(packet_queue, p, k)'
                                    ELSE OnePlace(packet_queue, p, k)'
  BY <1>2 DEF Placed
<1>3. /\ \A x, y, z : RxMove(n, taken, x, y) /\ RxMove(n, taken, x, z) => y = z
      /\ \A x : At(packet_queue, x, p, k) =>
           \E y : RxMove(n, taken, x, y) /\ At(packet_queue, y, p, k)'
      /\ \A y : At(packet_queue, y, p, k)' =>
           \E x : RxMove(n, taken, x, y) /\ At(packet_queue, x, p, k)
  BY <1>1, <1>2, RouterRxMoves
<1>4. Nowhere(packet_queue, p, k) => Nowhere(packet_queue, p, k)'
  BY <1>3 DEF Nowhere
<1>5. OnePlace(packet_queue, p, k) => OnePlace(packet_queue, p, k)'
  BY <1>3 DEF OnePlace
<1> QED
  BY <1>4, <1>5 DEF Placed

(* How PeRx moves them: from its link, when it takes a flit, to what it has.*)
PeMove(n, x, y) ==
  IF received'[n] # received[n] /\ x = LPlace(<<n, DIRECTION_LOCAL>>)
  THEN y = RPlace(n, Len(received[n]) + 1) ELSE y = x

LEMMA PeRxMoves ==
  ASSUME WormInv, NEW n \in Node, PeRx(n), NEW p, NEW k
  PROVE  /\ \A x, y, z : PeMove(n, x, y) /\ PeMove(n, x, z) => y = z
         /\ \A x : At(packet_queue, x, p, k) =>
              \E y : PeMove(n, x, y) /\ At(packet_queue, y, p, k)'
         /\ \A y : At(packet_queue, y, p, k)' =>
              \E x : PeMove(n, x, y) /\ At(packet_queue, x, p, k)
<1> DEFINE l0 == <<n, DIRECTION_LOCAL>>
<1>1. PeRxEffect(n)
  BY PeRxDoes DEF WormInv
<1>2. UNCHANGED <<packet_queue, unsent, buffer>>
  BY DEF PeRx, routerVars
<1>3. received \in [Node -> Seq(Flit)] /\ l0 \in Link
  BY PortNumbers DEF WormInv, IInv, TypeOK, Link, DIRECTION_LOCAL
<1>4. PICK h \in Nat : h = Len(received[n]) + 1
  BY <1>3, LenProperties
<1> DEFINE taken   == received'[n] # received[n]
           M(x, y) == IF taken /\ x = LPlace(l0) THEN y = RPlace(n, h) ELSE y = x
<1>5. \A m \in Node, j \in Nat :
        /\ AtQueue(packet_queue, m, j, p, k)' <=> AtQueue(packet_queue, m, j, p, k)
        /\ \A i \in Port : AtBuffer(m, i, j, p, k)' <=> AtBuffer(m, i, j, p, k)
  BY <1>2 DEF AtQueue, AtBuffer
<1>6. taken => /\ InFlight(l0) /\ ~InFlight(l0)' /\ wr[l0].flit \in Flit
               /\ received'[n] = Append(received[n], wr[l0].flit)
  BY <1>1 DEF PeRxEffect
<1>7. ~taken => \A r \in Link : InFlight(r)' <=> InFlight(r)
  <2> SUFFICES ASSUME received'[n] = received[n], NEW r \in Link
               PROVE  InFlight(r)' <=> InFlight(r)
    OBVIOUS
  <2>1. ASSUME InFlight(l0), ~InFlight(l0)', received'[n] = Append(received[n], wr[l0].flit),
               wr[l0].flit \in Flit
        PROVE  FALSE
    <3> DEFINE r0 == received[n]
               f == wr[l0].flit
    <3>1. r0 \in Seq(Flit) /\ f \in Flit /\ r0 = Append(r0, f)
      BY <1>3, <2>1
    <3> HIDE DEF r0, f
    <3>2. Len(r0) \in Nat /\ Len(r0) = Len(r0) + 1
      BY <3>1, LenProperties, AppendProperties
    <3> QED  BY <3>2
  <2> QED  BY <1>1, <2>1 DEF PeRxEffect
<1>8. \A r \in Link : AtLink(r, p, k)' <=> AtLink(r, p, k) /\ ~(taken /\ r = l0)
  <2>1. \A r \in Link \ {l0} : InFlight(r)' <=> InFlight(r)
    BY <1>1 DEF PeRxEffect
  <2>2. \A r \in Link : Is(wr'[r].flit, p, k) <=> Is(wr[r].flit, p, k)
    BY <1>1 DEF PeRxEffect, SameLinks
  <2>3. \A r \in Link : InFlight(r)' <=> InFlight(r) /\ ~(taken /\ r = l0)
    BY <1>6, <1>7, <2>1
  <2> QED  BY <2>2, <2>3 DEF AtLink
<1>9. \A m \in Node, j \in Nat :
        AtPE(m, j, p, k)' <=>
          AtPE(m, j, p, k) \/ (taken /\ m = n /\ j = h /\ AtLink(l0, p, k))
  <2> SUFFICES ASSUME NEW m \in Node, NEW j \in Nat
               PROVE  AtPE(m, j, p, k)' <=>
                        AtPE(m, j, p, k) \/ (taken /\ m = n /\ j = h /\ AtLink(l0, p, k))
    OBVIOUS
  <2>1. CASE ~(taken /\ m = n)
    <3>1. received'[m] = received[m]
      BY <1>1, <2>1 DEF PeRxEffect
    <3> QED  BY <2>1, <3>1 DEF AtPE
  <2>2. CASE taken /\ m = n
    <3> DEFINE r == received[n]
               f == wr[l0].flit
    <3>1. received'[n] = Append(r, f) /\ f \in Flit /\ r \in Seq(Flit) /\ h = Len(r) + 1
      BY <1>3, <1>4, <1>6, <2>2
    <3>2. AtLink(l0, p, k) <=> Is(f, p, k)
      BY <1>6, <2>2 DEF AtLink
    <3>3. AtPE(n, j, p, k) <=> j \in 1 .. Len(r) /\ Is(r[j], p, k)
      BY DEF AtPE
    <3> HIDE DEF r, f
    <3>4. /\ Len(Append(r, f)) = Len(r) + 1 /\ Len(r) \in Nat
          /\ \A g \in 1 .. Len(r) : Append(r, f)[g] = r[g]
          /\ Append(r, f)[Len(r) + 1] = f
      BY <3>1, LenProperties, AppendProperties
    <3>5. AtPE(n, j, p, k)' <=> j \in 1 .. Len(r) + 1 /\ Is(Append(r, f)[j], p, k)
      BY <3>1, <3>4 DEF AtPE
    <3>6. (j \in 1 .. Len(r) + 1 <=> j \in 1 .. Len(r) \/ j = h) /\ h \notin 1 .. Len(r)
      BY <3>1, <3>4
    <3>7. Append(r, f)[h] = f
      BY <3>1, <3>4
    <3>8. AtPE(n, j, p, k)' <=> AtPE(n, j, p, k) \/ (j = h /\ AtLink(l0, p, k))
      BY <3>2, <3>3, <3>4, <3>5, <3>6, <3>7
    <3> QED  BY <2>2, <3>8
  <2> QED  BY <2>1, <2>2
<1>m. \A x, y : PeMove(n, x, y) <=> M(x, y)
  BY <1>4 DEF PeMove
<1> HIDE DEF taken, l0
<1>10. ASSUME NEW x, At(packet_queue, x, p, k)
       PROVE  \E y : M(x, y) /\ At(packet_queue, y, p, k)'
  <2>1. CASE x = LPlace(l0) /\ taken
    <3>1. AtLink(l0, p, k)
      BY <1>10, <2>1, PlacesDiffer DEF At
    <3>2. AtPE(n, h, p, k)'
      BY <1>9, <2>1, <3>1
    <3>3. At(packet_queue, RPlace(n, h), p, k)'
      BY <3>2 DEF At
    <3> QED  BY <2>1, <3>3
  <2>2. CASE ~(x = LPlace(l0) /\ taken)
    <3>1. At(packet_queue, x, p, k)'
      BY <1>5, <1>8, <1>9, <1>10, <2>2 DEF At
    <3> QED  BY <2>2, <3>1
  <2> QED  BY <2>1, <2>2
<1>11. ASSUME NEW y, At(packet_queue, y, p, k)'
       PROVE  \E x : M(x, y) /\ At(packet_queue, x, p, k)
  <2>1. CASE y = RPlace(n, h) /\ taken /\ AtLink(l0, p, k)
    <3>1. At(packet_queue, LPlace(l0), p, k)
      BY <1>3, <2>1 DEF At, l0
    <3> QED  BY <2>1, <3>1
  <2>2. CASE ~(y = RPlace(n, h) /\ taken /\ AtLink(l0, p, k))
    <3>1. At(packet_queue, y, p, k) /\ ~(taken /\ y = LPlace(l0))
      BY <1>5, <1>8, <1>9, <1>11, <2>2, PlacesDiffer DEF At
    <3> QED  BY <3>1
  <2> QED  BY <2>1, <2>2
<1>12. \A x, y, z : M(x, y) /\ M(x, z) => y = z
  OBVIOUS
<1> HIDE DEF M
<1> QED
  BY <1>m, <1>10, <1>11, <1>12

LEMMA PeRxPlaces ==
  ASSUME WormInv, NEW n \in Node, PeRx(n), Placed(packet_queue, unsent)
  PROVE  Placed(packet_queue, unsent)'
<1>1. unsent' = unsent
  BY DEF PeRx
<1> SUFFICES ASSUME NEW p \in Packet, NEW k \in 0 .. Size[p] - 1
             PROVE  IF p \in unsent THEN Nowhere(packet_queue, p, k)'
                                    ELSE OnePlace(packet_queue, p, k)'
  BY <1>1 DEF Placed
<1>2. /\ \A x, y, z : PeMove(n, x, y) /\ PeMove(n, x, z) => y = z
      /\ \A x : At(packet_queue, x, p, k) =>
           \E y : PeMove(n, x, y) /\ At(packet_queue, y, p, k)'
      /\ \A y : At(packet_queue, y, p, k)' =>
           \E x : PeMove(n, x, y) /\ At(packet_queue, x, p, k)
  BY PeRxMoves
<1>3. Nowhere(packet_queue, p, k) => Nowhere(packet_queue, p, k)'
  BY <1>2 DEF Nowhere
<1>4. OnePlace(packet_queue, p, k) => OnePlace(packet_queue, p, k)'
  BY <1>2 DEF OnePlace
<1> QED
  BY <1>3, <1>4 DEF Placed

(* How RouterTx moves them: from the front of a buffer to the link, and the *)
(* others in that buffer forward.                                           *)
TxMove(n, out, x, y) ==
  \/ \E i \in Port : out[i] \in Port /\ x = BPlace(n, i, 1) /\ y = LPlace(<<n, out[i]>>)
  \/ \E i \in Port, j \in Nat \ {0} :
       out[i] \in Port /\ x = BPlace(n, i, j + 1) /\ y = BPlace(n, i, j)
  \/ (\A i \in Port, j \in Nat \ {0} : out[i] \in Port => x # BPlace(n, i, j)) /\ y = x

LEMMA RouterTxMoves ==
  ASSUME WormInv, NEW n \in Node, NEW out \in [Port -> Port \union {NOT_RESERVED}],
         TxEffect(n, out), UNCHANGED <<packet_queue, received, level_rx>>, NEW p, NEW k
  PROVE  /\ \A x, y, z : TxMove(n, out, x, y) /\ TxMove(n, out, x, z) => y = z
         /\ \A x : At(packet_queue, x, p, k) =>
              \E y : TxMove(n, out, x, y) /\ At(packet_queue, y, p, k)'
         /\ \A y : At(packet_queue, y, p, k)' =>
              \E x : TxMove(n, out, x, y) /\ At(packet_queue, x, p, k)
<1>1. TxEffect(n, out)
  OBVIOUS
<1>2. UNCHANGED <<packet_queue, received, level_rx>>
  OBVIOUS
<1>3. buffer \in [Node -> [Port -> Seq(Stage)]]
  BY DEF WormInv, IInv, TypeOK, Stage
<1> DEFINE Sends(i) == i \in Port /\ out[i] \in Port
           M(x, y) == \/ \E i \in Port : /\ Sends(i) /\ x = BPlace(n, i, 1)
                                          /\ y = LPlace(<<n, out[i]>>)
                      \/ \E i \in Port, j \in Nat \ {0} : /\ Sends(i) /\ x = BPlace(n, i, j + 1)
                                                        /\ y = BPlace(n, i, j)
                      \/ (\A i \in Port, j \in Nat \ {0} : Sends(i) => x # BPlace(n, i, j)) /\ y = x
<1>4. \A x, y, z : M(x, y) /\ M(x, z) => y = z
  <2>1. \A j \in Nat \ {0} : j + 1 # 1 /\ j + 1 \in Nat \ {0} /\ 1 \in Nat \ {0}
    OBVIOUS
  <2>2. \A i, g, j, h : BPlace(n, i, j) = BPlace(n, g, h) => i = g /\ j = h
    BY PlacesDiffer
  <2>3. \A j, h \in Nat \ {0} : j + 1 = h + 1 => j = h
    OBVIOUS
  <2>4. ASSUME NEW i \in Port, Sends(i), NEW w, M(BPlace(n, i, 1), w)
        PROVE  w = LPlace(<<n, out[i]>>)
    <3>1. ASSUME NEW g \in Port, Sends(g), BPlace(n, i, 1) = BPlace(n, g, 1), w = LPlace(<<n, out[g]>>)
          PROVE  w = LPlace(<<n, out[i]>>)
      BY <2>2, <3>1
    <3>2. \A g \in Port, j \in Nat \ {0} : BPlace(n, i, 1) # BPlace(n, g, j + 1)
      BY <2>1, <2>2
    <3>3. ~\A g \in Port, j \in Nat \ {0} : Sends(g) => BPlace(n, i, 1) # BPlace(n, g, j)
      BY <2>1, <2>4
    <3> QED  BY <2>4, <3>1, <3>2, <3>3
  <2>5. ASSUME NEW i \in Port, NEW j \in Nat \ {0}, Sends(i), NEW w, M(BPlace(n, i, j + 1), w)
        PROVE  w = BPlace(n, i, j)
    <3>1. \A g \in Port, h \in Nat \ {0} : BPlace(n, i, j + 1) = BPlace(n, g, h + 1) => g = i /\ h = j
      BY <2>2, <2>3
    <3>2. \A g \in Port : BPlace(n, i, j + 1) # BPlace(n, g, 1)
      BY <2>1, <2>2
    <3> QED  BY <2>1, <2>5, <3>1, <3>2
  <2>6. ASSUME NEW x, NEW y, NEW z, M(x, y), M(x, z) PROVE y = z
    <3>1. CASE \E i \in Port : Sends(i) /\ x = BPlace(n, i, 1)
      <4> HIDE DEF M
      <4> QED  BY <2>4, <2>6, <3>1
    <3>2. CASE \E i \in Port, j \in Nat \ {0} : Sends(i) /\ x = BPlace(n, i, j + 1)
      <4> HIDE DEF M
      <4> QED  BY <2>5, <2>6, <3>2
    <3>3. CASE ~\E i \in Port : Sends(i) /\ (x = BPlace(n, i, 1) \/ \E j \in Nat \ {0} : x = BPlace(n, i, j + 1))
      BY <2>6, <3>3
    <3> QED  BY <3>1, <3>2, <3>3
  <2> HIDE DEF M
  <2> QED  BY <2>6
<1>m. \A x, y : TxMove(n, out, x, y) <=> M(x, y)
  BY DEF TxMove
<1>5. \A m \in Node, j \in Nat :
        /\ AtQueue(packet_queue, m, j, p, k)' <=> AtQueue(packet_queue, m, j, p, k)
        /\ AtPE(m, j, p, k)' <=> AtPE(m, j, p, k)
  BY <1>2 DEF AtQueue, AtPE
<1>6. \A m \in Node, i \in Port, j \in Nat : ~(m = n /\ Sends(i)) =>
        (AtBuffer(m, i, j, p, k)' <=> AtBuffer(m, i, j, p, k))
  <2> SUFFICES ASSUME NEW m \in Node, NEW i \in Port, NEW j \in Nat, ~(m = n /\ Sends(i))
               PROVE  AtBuffer(m, i, j, p, k)' <=> AtBuffer(m, i, j, p, k)
    OBVIOUS
  <2>1. CASE m # n
    BY <1>1, <2>1 DEF AtBuffer, TxEffect
  <2>2. CASE m = n
    <3>1. buffer'[n][i] = Age(buffer[n][i])
      BY <1>1, <2>2 DEF TxEffect
    <3>2. buffer[n][i] \in Seq(Stage)
      BY <1>3
    <3>3. SameFlits(buffer'[n][i], buffer[n][i])
      BY <3>1, <3>2, AgeSame
    <3> QED  BY <2>2, <3>3 DEF AtBuffer, SameFlits
  <2> QED  BY <2>1, <2>2
<1>7. ASSUME NEW i \in Port, Sends(i)
      PROVE  /\ \A j \in Nat \ {0} : AtBuffer(n, i, j, p, k)' <=> AtBuffer(n, i, j + 1, p, k)
             /\ AtLink(<<n, out[i]>>, p, k)' <=> AtBuffer(n, i, 1, p, k)
             /\ ~AtLink(<<n, out[i]>>, p, k)
             /\ <<n, out[i]>> \in Link
  <2> DEFINE b == buffer[n][i]
             c == Tail(Age(b))
             l == <<n, out[i]>>
  <2>1. /\ b # <<>> /\ buffer'[n][i] = c /\ LinkIdle(l)
        /\ level_tx'[l] = 1 - level_tx[l] /\ wr'[l].flit = FrontOf(n, i).flit
    BY <1>1, <1>7 DEF TxEffect
  <2>2. b \in Seq(Stage) /\ Len(b) \in Nat \ {0}
    BY <1>3, <2>1, LenProperties, EmptySeq
  <2>3. l \in Link /\ ~InFlight(l) /\ FrontOf(n, i).flit = b[1].flit
    BY <1>1, <1>7, TxSends
  <2>4. Len(c) = Len(b) - 1 /\ \A j \in 1 .. Len(b) - 1 : c[j].flit = b[j + 1].flit
    BY <2>1, <2>2, TailFlits
  <2>5. \A j : AtBuffer(n, i, j, p, k)' <=> j \in 1 .. Len(c) /\ Is(c[j].flit, p, k)
    BY <2>1 DEF AtBuffer
  <2>6. \A j : AtBuffer(n, i, j, p, k) <=> j \in 1 .. Len(b) /\ Is(b[j].flit, p, k)
    BY DEF AtBuffer
  <2>7. (InFlight(l))'
    BY <1>2, <2>1, <2>3, IdleNotInFlight DEF WormInv
  <2>8. wr'[l].flit = b[1].flit
    BY <2>1, <2>3
  <2> HIDE DEF b, c
  <2>9. \A j \in Nat \ {0} : j \in 1 .. Len(c) <=> j + 1 \in 1 .. Len(b)
    BY <2>2, <2>4
  <2>10. \A j \in Nat \ {0} : AtBuffer(n, i, j, p, k)' <=> AtBuffer(n, i, j + 1, p, k)
    BY <2>4, <2>5, <2>6, <2>9
  <2>11. AtLink(<<n, out[i]>>, p, k)' <=> Is(b[1].flit, p, k)
    BY <2>7, <2>8 DEF AtLink
  <2>12. AtBuffer(n, i, 1, p, k) <=> Is(b[1].flit, p, k)
    BY <2>2, <2>6
  <2>13. ~AtLink(<<n, out[i]>>, p, k)
    BY <2>3 DEF AtLink
  <2> QED  BY <2>3, <2>10, <2>11, <2>12, <2>13
<1>8. \A l \in Link : (\A i \in Port : Sends(i) => l # <<n, out[i]>>) =>
        (AtLink(l, p, k)' <=> AtLink(l, p, k))
  BY <1>1, <1>2 DEF AtLink, TxEffect, InFlight
<1>9. \A m \in Node, i \in Port, j \in Nat :
        (AtBuffer(m, i, j, p, k) => j # 0) /\ (AtBuffer(m, i, j, p, k)' => j # 0)
  BY DEF AtBuffer
<1> HIDE DEF Sends
<1>10. ASSUME NEW x, At(packet_queue, x, p, k)
       PROVE  \E y : M(x, y) /\ At(packet_queue, y, p, k)'
  <2>1. ASSUME NEW i \in Port, NEW j \in Nat, Sends(i), x = BPlace(n, i, j), AtBuffer(n, i, j, p, k)
        PROVE  \E y : M(x, y) /\ At(packet_queue, y, p, k)'
    <3>1. CASE j = 1
      <4>1. M(x, LPlace(<<n, out[i]>>))
        BY <2>1, <3>1
      <4>2. AtLink(<<n, out[i]>>, p, k)' /\ <<n, out[i]>> \in Link
        BY <1>7, <2>1, <3>1
      <4> HIDE DEF M
      <4>3. At(packet_queue, LPlace(<<n, out[i]>>), p, k)'
        BY <4>2 DEF At
      <4> QED  BY <4>1, <4>3
    <3>2. CASE j # 1
      <4>1. PICK h \in Nat \ {0} : j = h + 1
        <5>1. j - 1 \in Nat \ {0} /\ j = (j - 1) + 1
          BY <1>9, <2>1, <3>2
        <5> QED  BY <5>1
      <4>2. M(x, BPlace(n, i, h))
        BY <2>1, <4>1
      <4>3. AtBuffer(n, i, h, p, k)'
        BY <1>7, <2>1, <4>1
      <4> HIDE DEF M
      <4>4. At(packet_queue, BPlace(n, i, h), p, k)'
        BY <4>3 DEF At
      <4> QED  BY <4>2, <4>4
    <3> QED  BY <3>1, <3>2
  <2>2. CASE ~\E i \in Port, j \in Nat : Sends(i) /\ x = BPlace(n, i, j) /\ AtBuffer(n, i, j, p, k)
    <3>1. \A i \in Port, j \in Nat \ {0} : Sends(i) => x # BPlace(n, i, j)
      BY <1>10, <2>2, PlacesDiffer DEF At
    <3>2. At(packet_queue, x, p, k)'
      <4>1. CASE \E l \in Link : x = LPlace(l) /\ AtLink(l, p, k)
        BY <1>7, <1>8, <4>1 DEF At
      <4>2. CASE \E m \in Node, i \in Port, j \in Nat : x = BPlace(m, i, j) /\ AtBuffer(m, i, j, p, k)
        BY <1>6, <2>2, <4>2 DEF At
      <4>3. CASE \E m \in Node, j \in Nat : \/ x = QPlace(m, j) /\ AtQueue(packet_queue, m, j, p, k)
                                            \/ x = RPlace(m, j) /\ AtPE(m, j, p, k)
        BY <1>5, <4>3 DEF At
      <4> QED  BY <1>10, <4>1, <4>2, <4>3 DEF At
    <3> QED  BY <3>1, <3>2
  <2> QED  BY <2>1, <2>2
<1>11. ASSUME NEW y, At(packet_queue, y, p, k)'
       PROVE  \E x : M(x, y) /\ At(packet_queue, x, p, k)
  <2>1. ASSUME NEW i \in Port, Sends(i), y = LPlace(<<n, out[i]>>)
        PROVE  \E x : M(x, y) /\ At(packet_queue, x, p, k)
    <3>1. AtLink(<<n, out[i]>>, p, k)'
      BY <1>11, <2>1, PlacesDiffer DEF At
    <3>2. AtBuffer(n, i, 1, p, k)
      BY <1>7, <2>1, <3>1
    <3>3. At(packet_queue, BPlace(n, i, 1), p, k)
      BY <3>2 DEF At
    <3> QED  BY <2>1, <3>3
  <2>2. ASSUME NEW i \in Port, NEW j \in Nat, Sends(i), y = BPlace(n, i, j), AtBuffer(n, i, j, p, k)'
        PROVE  \E x : M(x, y) /\ At(packet_queue, x, p, k)
    <3>1. j \in Nat \ {0} /\ AtBuffer(n, i, j + 1, p, k)
      BY <1>7, <1>9, <2>2
    <3>2. PICK h \in Nat : h = j + 1
      OBVIOUS
    <3>3. M(BPlace(n, i, j + 1), y)
      BY <2>2, <3>1
    <3> HIDE DEF M
    <3>4. At(packet_queue, BPlace(n, i, h), p, k)
      BY <3>1, <3>2 DEF At
    <3> QED  BY <3>2, <3>3, <3>4
  <2>3. CASE /\ \A i \in Port : Sends(i) => y # LPlace(<<n, out[i]>>)
             /\ ~\E i \in Port, j \in Nat : Sends(i) /\ y = BPlace(n, i, j) /\ AtBuffer(n, i, j, p, k)'
    <3>1. \A i \in Port, j \in Nat \ {0} : Sends(i) => y # BPlace(n, i, j)
      BY <1>11, <2>3, PlacesDiffer DEF At
    <3>2. At(packet_queue, y, p, k)
      <4>1. CASE \E l \in Link : y = LPlace(l) /\ AtLink(l, p, k)'
        BY <1>8, <2>3, <4>1 DEF At
      <4>2. CASE \E m \in Node, i \in Port, j \in Nat : y = BPlace(m, i, j) /\ AtBuffer(m, i, j, p, k)'
        BY <1>6, <2>3, <4>2 DEF At
      <4>3. CASE \E m \in Node, j \in Nat : \/ y = QPlace(m, j) /\ AtQueue(packet_queue, m, j, p, k)'
                                            \/ y = RPlace(m, j) /\ AtPE(m, j, p, k)'
        BY <1>5, <4>3 DEF At
      <4> QED  BY <1>11, <4>1, <4>2, <4>3 DEF At
    <3> QED  BY <3>1, <3>2
  <2> QED  BY <2>1, <2>2, <2>3
<1> HIDE DEF M
<1> QED
  BY <1>m, <1>4, <1>10, <1>11

LEMMA RouterTxPlaces ==
  ASSUME WormInv, NEW n \in Node, RouterTx(n), Placed(packet_queue, unsent)
  PROVE  Placed(packet_queue, unsent)'
<1>1. PICK out \in [Port -> Port \union {NOT_RESERVED}] : TxEffect(n, out)
  BY RouterTxEffect DEF WormInv
<1>2. UNCHANGED <<packet_queue, unsent, received, level_rx>>
  BY DEF RouterTx, peVars
<1> SUFFICES ASSUME NEW p \in Packet, NEW k \in 0 .. Size[p] - 1
             PROVE  IF p \in unsent THEN Nowhere(packet_queue, p, k)'
                                    ELSE OnePlace(packet_queue, p, k)'
  BY <1>2 DEF Placed
<1>3. /\ \A x, y, z : TxMove(n, out, x, y) /\ TxMove(n, out, x, z) => y = z
      /\ \A x : At(packet_queue, x, p, k) =>
           \E y : TxMove(n, out, x, y) /\ At(packet_queue, y, p, k)'
      /\ \A y : At(packet_queue, y, p, k)' =>
           \E x : TxMove(n, out, x, y) /\ At(packet_queue, x, p, k)
  BY <1>1, <1>2, RouterTxMoves
<1>4. Nowhere(packet_queue, p, k) => Nowhere(packet_queue, p, k)'
  BY <1>3 DEF Nowhere
<1>5. OnePlace(packet_queue, p, k) => OnePlace(packet_queue, p, k)'
  BY <1>3 DEF OnePlace
<1> QED
  BY <1>4, <1>5 DEF Placed

-----------------------------------------------------------------------------
(* canShot puts a packet that was nowhere into a queue, whole.              *)
LEMMA FireMoves ==
  ASSUME WormInv, NEW n \in Node, NEW p0 \in Packet, NEW pq,
         \A m \in Node \ {n} : pq[m] = packet_queue[m],
         pq[n] = Append(packet_queue[n], [pkt |-> p0, flit_left |-> Size[p0]]),
         NEW p \in Packet, NEW k \in 0 .. Size[p] - 1
  PROVE  \E h \in Nat :
           /\ h = Len(packet_queue[n]) + 1
           /\ \A x : At(pq, x, p, k) <=> At(packet_queue, x, p, k) \/ (x = QPlace(n, h) /\ p = p0)
<1> DEFINE q == packet_queue[n]
           e == [pkt |-> p0, flit_left |-> Size[p0]]
<1>1. q \in Seq(Waiting) /\ e \in Waiting /\ pq[n] = Append(q, e)
  BY NoCAssumption DEF WormInv, IInv, TypeOK, Waiting
<1>3. e.pkt = p0 /\ e.flit_left = Size[p0] /\ Size[p0] \in Nat /\ k \in Nat
  BY NoCAssumption
<1> HIDE DEF e
<1>4. PICK h \in Nat : h = Len(q) + 1
  BY <1>1, LenProperties
<1>5. \A m \in Node, j \in Nat :
        AtQueue(pq, m, j, p, k) <=>
          AtQueue(packet_queue, m, j, p, k) \/ (m = n /\ j = h /\ p = p0)
  <2> SUFFICES ASSUME NEW j \in Nat
               PROVE  AtQueue(pq, n, j, p, k) <=>
                        AtQueue(packet_queue, n, j, p, k) \/ (j = h /\ p = p0)
    BY DEF AtQueue
  <2>1. AtQueue(packet_queue, n, j, p, k) <=>
          j \in 1 .. Len(q) /\ q[j].pkt = p /\ k >= Size[p] - q[j].flit_left
    BY DEF AtQueue
  <2> HIDE DEF q
  <2>2. /\ Len(Append(q, e)) = Len(q) + 1 /\ Len(q) \in Nat
        /\ \A g \in 1 .. Len(q) : Append(q, e)[g] = q[g]
        /\ Append(q, e)[Len(q) + 1] = e
    BY <1>1, LenProperties, AppendProperties
  <2>3. (j \in 1 .. Len(q) + 1 <=> j \in 1 .. Len(q) \/ j = h) /\ h \notin 1 .. Len(q)
    BY <1>4, <2>2
  <2>4. Append(q, e)[h] = e /\ (p = p0 => k >= Size[p] - e.flit_left)
    BY <1>3, <1>4, <2>2
  <2> QED  BY <1>1, <1>3, <2>1, <2>2, <2>3, <2>4 DEF AtQueue
<1>6. \A x : At(pq, x, p, k) <=> At(packet_queue, x, p, k) \/ (x = QPlace(n, h) /\ p = p0)
  BY <1>5 DEF At
<1> QED
  BY <1>4, <1>6

LEMMA FirePlaces ==
  ASSUME WormInv, NEW n \in Node, NEW p0 \in Packet, CanShot(n, p0),
         Placed(packet_queue, unsent), NEW pq,
         \A m \in Node \ {n} : pq[m] = packet_queue[m],
         pq[n] = Append(packet_queue[n], [pkt |-> p0, flit_left |-> Size[p0]])
  PROVE  Placed(pq, unsent \ {p0})
<1> SUFFICES ASSUME NEW p \in Packet, NEW k \in 0 .. Size[p] - 1
             PROVE  IF p \in unsent \ {p0} THEN Nowhere(pq, p, k) ELSE OnePlace(pq, p, k)
  BY DEF Placed
<1>2. p0 \in unsent
  BY DEF CanShot
<1>h. PICK h \in Nat :
        \A x : At(pq, x, p, k) <=> At(packet_queue, x, p, k) \/ (x = QPlace(n, h) /\ p = p0)
  BY FireMoves
<1>1. \A x : At(pq, x, p, k) <=> At(packet_queue, x, p, k) \/ (x = QPlace(n, h) /\ p = p0)
  BY <1>h
<1>3. CASE p = p0
  <2>1. Nowhere(packet_queue, p, k)
    BY <1>2, <1>3 DEF Placed
  <2>2. \A x : At(pq, x, p, k) <=> x = QPlace(n, h)
    BY <1>1, <1>3, <2>1 DEF Nowhere
  <2>3. OnePlace(pq, p, k)
    <3>1. At(pq, QPlace(n, h), p, k) /\ \A y : At(pq, y, p, k) => y = QPlace(n, h)
      BY <2>2
    <3> QED  BY <3>1 DEF OnePlace
  <2>4. p \notin unsent \ {p0}
    BY <1>3
  <2> QED  BY <2>3, <2>4
<1>4. CASE p # p0
  <2>1. IF p \in unsent THEN Nowhere(packet_queue, p, k) ELSE OnePlace(packet_queue, p, k)
    BY DEF Placed
  <2> QED  BY <1>1, <1>4, <2>1 DEF Nowhere, OnePlace
<1> QED  BY <1>3, <1>4

(* PE::txProcess puts the next flit of the queue's front on the link.       *)
(* From the front of the queue to the link; a flit whose packet stays moves *)
(* forward when the packet before it leaves.                                *)
SendMove(n, q, p, k, x, y) ==
  IF x = QPlace(n, 1) /\ Is(nextFlit(q), p, k) THEN y = LPlace(<<n, PE>>)
  ELSE IF q[1].flit_left = 1 /\ \E j \in Nat : x = QPlace(n, j + 1)
       THEN \E j \in Nat : x = QPlace(n, j + 1) /\ y = QPlace(n, j)
       ELSE y = x

LEMMA SendMoves ==
  ASSUME WormInv, NEW n \in Node, NEW pq,
         pq[n] \in Seq(Waiting), Bounded(pq[n]), pq[n] # <<>>,
         UNCHANGED <<buffer, received, level_rx>>,
         \A m \in Node \ {n} : packet_queue'[m] = pq[m],
         packet_queue'[n] = AfterFlit(pq[n]),
         LinkIdle(<<n, PE>>), level_tx'[<<n, PE>>] = 1 - level_tx[<<n, PE>>],
         wr'[<<n, PE>>].flit = nextFlit(pq[n]),
         \A r \in Link \ {<<n, PE>>} : level_tx'[r] = level_tx[r] /\ wr'[r].flit = wr[r].flit,
         NEW p \in Packet, NEW k \in 0 .. Size[p] - 1
  PROVE  /\ \A x, y, z : SendMove(n, pq[n], p, k, x, y) /\ SendMove(n, pq[n], p, k, x, z) => y = z
         /\ \A x : At(pq, x, p, k) =>
              \E y : SendMove(n, pq[n], p, k, x, y) /\ At(packet_queue, y, p, k)'
         /\ \A y : At(packet_queue, y, p, k)' =>
              \E x : SendMove(n, pq[n], p, k, x, y) /\ At(pq, x, p, k)
<1> DEFINE q == pq[n]
           l == <<n, PE>>
           f == nextFlit(q)
           popped == q[1].flit_left = 1
           c == AfterFlit(q)
<1>1. /\ Len(q) \in Nat \ {0} /\ DOMAIN q = 1 .. Len(q)
      /\ \A j \in 1 .. Len(q) : q[j] \in Waiting
  BY LenProperties, EmptySeq, ElementOfSeq
<1>2. /\ q[1].pkt \in Packet /\ q[1].flit_left \in Nat \ {0} /\ Size[q[1].pkt] \in Nat
      /\ q[1].flit_left <= Size[q[1].pkt]
  <2>1. 1 \in DOMAIN q /\ q[1] \in Waiting
    BY <1>1
  <2>2. q[1].flit_left <= Size[q[1].pkt]
    BY <2>1 DEF Bounded
  <2> HIDE DEF q
  <2> QED  BY <2>1, <2>2, NoCAssumption DEF Waiting
<1>3. l \in Link /\ ~InFlight(l)
  <2>1. l \in Link
    BY PortNumbers DEF Link
  <2> QED  BY <2>1, IdleNotInFlight DEF WormInv
<1>4. InFlight(l)'
  <2>1. l \in Link /\ level_tx'[l] = 1 - level_tx[l] /\ level_rx'[l] = level_rx[l]
    BY <1>3
  <2> QED  BY <2>1, IdleNotInFlight DEF WormInv
<1>5. k \in Nat /\ Size[p] \in Nat /\ k < Size[p]
  BY NoCAssumption
<1>6. \A r \in Link : AtLink(r, p, k)' <=> AtLink(r, p, k) \/ (r = l /\ Is(f, p, k))
  <2>1. \A r \in Link \ {l} : AtLink(r, p, k)' <=> AtLink(r, p, k)
    BY DEF AtLink, InFlight
  <2>2. ~AtLink(l, p, k)
    BY <1>3 DEF AtLink
  <2>3. wr'[l].flit = f
    OBVIOUS
  <2>4. AtLink(l, p, k)' <=> Is(f, p, k)
    BY <1>4, <2>3 DEF AtLink
  <2> HIDE DEF l, f
  <2> QED  BY <2>1, <2>2, <2>4
<1>7. \A m \in Node, j \in Nat :
        /\ AtPE(m, j, p, k)' <=> AtPE(m, j, p, k)
        /\ \A i \in Port : AtBuffer(m, i, j, p, k)' <=> AtBuffer(m, i, j, p, k)
  BY DEF AtPE, AtBuffer
<1>8. \A m \in Node \ {n}, j \in Nat :
        AtQueue(packet_queue, m, j, p, k)' <=> AtQueue(pq, m, j, p, k)
  BY DEF AtQueue
<1>9. Is(f, p, k) <=> q[1].pkt = p /\ k = Size[p] - q[1].flit_left
  BY DEF Is, nextFlit
<1>10. \A j : AtQueue(pq, n, j, p, k) <=>
          j \in 1 .. Len(q) /\ q[j].pkt = p /\ k >= Size[p] - q[j].flit_left
  BY DEF AtQueue
<1>11. packet_queue'[n] = c
  OBVIOUS
<1>12. \A j : AtQueue(packet_queue, n, j, p, k)' <=>
          j \in 1 .. Len(c) /\ c[j].pkt = p /\ k >= Size[p] - c[j].flit_left
  BY <1>11 DEF AtQueue
<1>13. Is(f, p, k) => AtQueue(pq, n, 1, p, k)
  BY <1>1, <1>5, <1>9, <1>10
(* The place in the queue that a flit which stays there will have.          *)
<1> DEFINE M(x, y) ==
      IF x = QPlace(n, 1) /\ Is(f, p, k) THEN y = LPlace(l)
      ELSE IF popped /\ \E j \in Nat : x = QPlace(n, j + 1)
           THEN \E j \in Nat : x = QPlace(n, j + 1) /\ y = QPlace(n, j)
           ELSE y = x
<1>m. \A x, y : SendMove(n, q, p, k, x, y) <=> M(x, y)
  BY DEF SendMove
<1>14. \A x, y, z : M(x, y) /\ M(x, z) => y = z
  <2>1. \A j, h \in Nat : QPlace(n, j + 1) = QPlace(n, h + 1) => j = h
    <3>1. \A j, h \in Nat : QPlace(n, j + 1) = QPlace(n, h + 1) => j + 1 = h + 1
      BY PlacesDiffer
    <3> QED  BY <3>1
  <2> HIDE DEF popped, l, f
  <2> QED  BY <2>1
<1>15. ASSUME popped
       PROVE  /\ \A x : At(pq, x, p, k) => \E y : M(x, y) /\ At(packet_queue, y, p, k)'
              /\ \A y : At(packet_queue, y, p, k)' => \E x : M(x, y) /\ At(pq, x, p, k)
  <2>1. c = Tail(q)
    BY <1>15 DEF AfterFlit
  <2>2. Len(c) = Len(q) - 1 /\ \A j \in 1 .. Len(c) : c[j] = q[j + 1]
    BY <2>1, HeadTailProperties
  <2>3. Is(f, p, k) <=> AtQueue(pq, n, 1, p, k)
    BY <1>1, <1>2, <1>5, <1>9, <1>10, <1>15
  <2> HIDE DEF q, c, popped, l, f
  <2>4. \A j \in Nat \ {0} : j \in 1 .. Len(c) <=> j + 1 \in 1 .. Len(q)
    BY <1>1, <2>2
  <2>5. \A j \in Nat \ {0} : AtQueue(packet_queue, n, j, p, k)' <=> AtQueue(pq, n, j + 1, p, k)
    BY <1>10, <1>12, <2>2, <2>4
  <2>6. \A j \in Nat : (AtQueue(packet_queue, n, j, p, k)' => j # 0) /\ (AtQueue(pq, n, j, p, k) => j # 0)
    BY <1>10, <1>12
  <2>7. ASSUME NEW x, At(pq, x, p, k)
        PROVE  \E y : M(x, y) /\ At(packet_queue, y, p, k)'
    <3>1. CASE x = QPlace(n, 1) /\ Is(f, p, k)
      <4>1. At(packet_queue, LPlace(l), p, k)'
        BY <1>3, <1>6, <3>1 DEF At
      <4> QED  BY <3>1, <4>1
    <3>2. ASSUME NEW j \in Nat, x = QPlace(n, j), AtQueue(pq, n, j, p, k), ~(x = QPlace(n, 1) /\ Is(f, p, k))
          PROVE  \E y : M(x, y) /\ At(packet_queue, y, p, k)'
      <4>1. j # 1 /\ j # 0
        BY <2>3, <2>6, <3>2
      <4>2. PICK h \in Nat \ {0} : j = h + 1
        <5>1. j - 1 \in Nat \ {0} /\ j = (j - 1) + 1
          BY <4>1
        <5> QED  BY <5>1
      <4>3. AtQueue(packet_queue, n, h, p, k)'
        BY <2>5, <3>2, <4>2
      <4>4. At(packet_queue, QPlace(n, h), p, k)'
        BY <4>3 DEF At
      <4>5. M(x, QPlace(n, h))
        BY <1>15, <3>2, <4>2
      <4> QED  BY <4>4, <4>5
    <3>3. CASE ~\E j \in Nat : x = QPlace(n, j) /\ AtQueue(pq, n, j, p, k)
      <4>1. ~\E j \in Nat : x = QPlace(n, j)
        BY <2>7, <3>3, PlacesDiffer DEF At
      <4>2. M(x, x)
        BY <4>1
      <4>3. At(packet_queue, x, p, k)'
        BY <1>6, <1>7, <1>8, <2>7, <3>3, <4>1 DEF At
      <4> HIDE DEF M
      <4> QED  BY <4>2, <4>3
    <3> QED  BY <3>1, <3>2, <3>3
  <2>8. ASSUME NEW y, At(packet_queue, y, p, k)'
        PROVE  \E x : M(x, y) /\ At(pq, x, p, k)
    <3>1. CASE y = LPlace(l) /\ Is(f, p, k)
      <4>1. At(pq, QPlace(n, 1), p, k)
        BY <1>13, <3>1 DEF At
      <4> QED  BY <3>1, <4>1
    <3>2. ASSUME NEW j \in Nat, y = QPlace(n, j), AtQueue(packet_queue, n, j, p, k)'
          PROVE  \E x : M(x, y) /\ At(pq, x, p, k)
      <4>1. j # 0 /\ AtQueue(pq, n, j + 1, p, k)
        BY <2>5, <2>6, <3>2
      <4>2. QPlace(n, j + 1) # QPlace(n, 1)
        <5>1. j + 1 # 1
          BY <4>1
        <5> QED  BY <5>1, PlacesDiffer
      <4>3. M(QPlace(n, j + 1), y)
        BY <1>15, <3>2, <4>2
      <4> HIDE DEF M
      <4>4. PICK h \in Nat : h = j + 1
        OBVIOUS
      <4>5. At(pq, QPlace(n, h), p, k)
        BY <4>1, <4>4 DEF At
      <4> QED  BY <4>3, <4>4, <4>5
    <3>3. CASE /\ ~(y = LPlace(l) /\ Is(f, p, k))
               /\ ~\E j \in Nat : y = QPlace(n, j) /\ AtQueue(packet_queue, n, j, p, k)'
      <4>1. ~\E j \in Nat : y = QPlace(n, j)
        BY <2>8, <3>3, PlacesDiffer DEF At
      <4>2. M(y, y)
        BY <4>1
      <4>3. At(pq, y, p, k)
        BY <1>6, <1>7, <1>8, <2>8, <3>3, <4>1 DEF At
      <4> HIDE DEF M
      <4> QED  BY <4>2, <4>3
    <3> QED  BY <3>1, <3>2, <3>3
  <2> HIDE DEF M
  <2> QED  BY <2>7, <2>8
<1>16. ASSUME ~popped
       PROVE  /\ \A x : At(pq, x, p, k) => \E y : M(x, y) /\ At(packet_queue, y, p, k)'
              /\ \A y : At(packet_queue, y, p, k)' => \E x : M(x, y) /\ At(pq, x, p, k)
  <2> DEFINE e == q[1]
             d == [e EXCEPT !.flit_left = e.flit_left - 1]
  <2>1. c = [q EXCEPT ![1] = d]
    BY <1>16 DEF AfterFlit
  <2>2. d.pkt = e.pkt /\ d.flit_left = e.flit_left - 1 /\ d \in Waiting
    <3>1. e \in Waiting /\ e.flit_left - 1 \in Nat \ {0}
      BY <1>1, <1>2, <1>16
    <3> HIDE DEF e
    <3> QED  BY <3>1 DEF Waiting
  <2> HIDE DEF d
  <2>3. /\ Len(c) = Len(q) /\ \A j \in 1 .. Len(q) : c[j] = IF j = 1 THEN d ELSE q[j]
    BY <1>1, <2>1, <2>2, ExceptSeq, LenProperties
  <2> HIDE DEF q, c, popped, l, f
  <2>4. \A j \in Nat : j # 1 =>
          (AtQueue(packet_queue, n, j, p, k)' <=> AtQueue(pq, n, j, p, k))
    BY <1>10, <1>12, <2>3
  <2>5. AtQueue(packet_queue, n, 1, p, k)' <=> AtQueue(pq, n, 1, p, k) /\ ~Is(f, p, k)
    <3>1. 1 \in 1 .. Len(q) /\ c[1] = d
      BY <1>1, <2>3
    <3>2. AtQueue(packet_queue, n, 1, p, k)' <=> e.pkt = p /\ k >= Size[p] - (e.flit_left - 1)
      BY <1>12, <2>2, <2>3, <3>1
    <3>3. AtQueue(pq, n, 1, p, k) <=> e.pkt = p /\ k >= Size[p] - e.flit_left
      BY <1>10, <3>1
    <3>4. Is(f, p, k) <=> e.pkt = p /\ k = Size[p] - e.flit_left
      BY <1>9
    <3>5. e.flit_left \in Nat
      BY <1>2
    <3>6. PICK w \in Nat : w = e.flit_left
      BY <3>5
    <3>7. \A a, z \in Nat : a >= z - (w - 1) <=> a >= z - w /\ a # z - w
      OBVIOUS
    <3>8. k >= Size[p] - (w - 1) <=> k >= Size[p] - w /\ k # Size[p] - w
      BY <1>5, <3>7
    <3> HIDE DEF e, M
    <3> QED  BY <3>2, <3>3, <3>4, <3>6, <3>8
  <2>6. \A x, y : M(x, y) <=> IF x = QPlace(n, 1) /\ Is(f, p, k) THEN y = LPlace(l) ELSE y = x
    BY <1>16
  <2> HIDE DEF M
  <2>7. ASSUME NEW x, At(pq, x, p, k)
        PROVE  \E y : M(x, y) /\ At(packet_queue, y, p, k)'
    <3>1. CASE x = QPlace(n, 1) /\ Is(f, p, k)
      <4>1. At(packet_queue, LPlace(l), p, k)'
        BY <1>3, <1>6, <3>1 DEF At
      <4> QED  BY <2>6, <3>1, <4>1
    <3>2. CASE ~(x = QPlace(n, 1) /\ Is(f, p, k))
      <4>1. At(packet_queue, x, p, k)'
        <5>1. CASE \E m \in Node, j \in Nat : x = QPlace(m, j) /\ AtQueue(pq, m, j, p, k)
          <6>1. PICK m \in Node, j \in Nat : x = QPlace(m, j) /\ AtQueue(pq, m, j, p, k)
            BY <5>1
          <6>2. AtQueue(packet_queue, m, j, p, k)'
            BY <1>8, <2>4, <2>5, <3>2, <6>1
          <6> QED  BY <6>1, <6>2 DEF At
        <5>2. CASE ~\E m \in Node, j \in Nat : x = QPlace(m, j) /\ AtQueue(pq, m, j, p, k)
          BY <1>6, <1>7, <2>7, <5>2 DEF At
        <5> QED  BY <5>1, <5>2
      <4> QED  BY <2>6, <3>2, <4>1
    <3> QED  BY <3>1, <3>2
  <2>8. ASSUME NEW y, At(packet_queue, y, p, k)'
        PROVE  \E x : M(x, y) /\ At(pq, x, p, k)
    <3>1. CASE y = LPlace(l) /\ Is(f, p, k)
      <4>1. At(pq, QPlace(n, 1), p, k)
        BY <1>13, <3>1 DEF At
      <4> QED  BY <2>6, <3>1, <4>1
    <3>2. ASSUME NEW m \in Node, NEW j \in Nat, y = QPlace(m, j), AtQueue(packet_queue, m, j, p, k)'
          PROVE  \E x : M(x, y) /\ At(pq, x, p, k)
      <4>1. AtQueue(pq, m, j, p, k) /\ ~(m = n /\ j = 1 /\ Is(f, p, k))
        BY <1>8, <2>4, <2>5, <3>2
      <4>2. ~(y = QPlace(n, 1) /\ Is(f, p, k))
        BY <3>2, <4>1, PlacesDiffer
      <4>3. At(pq, y, p, k)
        BY <3>2, <4>1 DEF At
      <4> QED  BY <2>6, <4>2, <4>3
    <3>3. CASE /\ ~(y = LPlace(l) /\ Is(f, p, k))
               /\ ~\E m \in Node, j \in Nat : y = QPlace(m, j) /\ AtQueue(packet_queue, m, j, p, k)'
      <4>1. At(pq, y, p, k)
        BY <1>6, <1>7, <2>8, <3>3 DEF At
      <4>2. y # QPlace(n, 1)
        BY <2>8, <3>3, PlacesDiffer DEF At
      <4> QED  BY <2>6, <4>1, <4>2
    <3> QED  BY <3>1, <3>2, <3>3
  <2> QED  BY <2>7, <2>8
<1>17. \A x, y : SendMove(n, pq[n], p, k, x, y) <=> M(x, y)
  BY <1>m
<1> HIDE DEF M, popped, q
<1> QED
  BY <1>14, <1>15, <1>16, <1>17

LEMMA SendPlaces ==
  ASSUME WormInv, NEW n \in Node, NEW U, NEW pq, Placed(pq, U),
         pq[n] \in Seq(Waiting), Bounded(pq[n]), pq[n] # <<>>,
         UNCHANGED <<buffer, received, level_rx>>,
         \A m \in Node \ {n} : packet_queue'[m] = pq[m],
         packet_queue'[n] = AfterFlit(pq[n]),
         LinkIdle(<<n, PE>>), level_tx'[<<n, PE>>] = 1 - level_tx[<<n, PE>>],
         wr'[<<n, PE>>].flit = nextFlit(pq[n]),
         \A r \in Link \ {<<n, PE>>} : level_tx'[r] = level_tx[r] /\ wr'[r].flit = wr[r].flit,
         unsent' = U
  PROVE  Placed(packet_queue, unsent)'
<1> SUFFICES ASSUME NEW p \in Packet, NEW k \in 0 .. Size[p] - 1
             PROVE  IF p \in U THEN Nowhere(packet_queue, p, k)' ELSE OnePlace(packet_queue, p, k)'
  BY DEF Placed
<1>2. /\ \A x, y, z : SendMove(n, pq[n], p, k, x, y) /\ SendMove(n, pq[n], p, k, x, z) => y = z
      /\ \A x : At(pq, x, p, k) =>
           \E y : SendMove(n, pq[n], p, k, x, y) /\ At(packet_queue, y, p, k)'
      /\ \A y : At(packet_queue, y, p, k)' =>
           \E x : SendMove(n, pq[n], p, k, x, y) /\ At(pq, x, p, k)
  BY SendMoves, ZenonT(60)
<1>3. Nowhere(pq, p, k) => Nowhere(packet_queue, p, k)'
  BY <1>2 DEF Nowhere
<1>4. OnePlace(pq, p, k) => OnePlace(packet_queue, p, k)'
  BY <1>2 DEF OnePlace
<1> QED
  BY <1>3, <1>4 DEF Placed

LEMMA PeTxPlaces ==
  ASSUME WormInv, NEW n \in Node, PeTx(n), Placed(packet_queue, unsent)
  PROVE  Placed(packet_queue, unsent)'
<1>1. PICK q \in Seq(Waiting) : Bounded(q) /\ PeTxEffect(n, q)
  BY PeTxDoes DEF WormInv
<1>2. UNCHANGED <<buffer, rtable, received, level_rx>>
  BY DEF PeTx, routerVars
<1>3. PICK pq : pq = [m \in Node |-> IF m = n THEN q ELSE packet_queue[m]]
  OBVIOUS
<1>4. pq[n] = q /\ \A m \in Node \ {n} : pq[m] = packet_queue[m]
  BY <1>3
<1>5. PICK U : U = unsent'
  OBVIOUS
<1>6. Placed(pq, U)
  <2>1. CASE q = packet_queue[n] /\ unsent' = unsent
    <3>1. \A m \in Node : pq[m] = packet_queue[m]
      BY <1>4, <2>1
    <3>2. \A x, p, k : At(pq, x, p, k) <=> At(packet_queue, x, p, k)
      BY <3>1 DEF At, AtQueue
    <3> QED  BY <1>5, <2>1, <3>2 DEF Placed, Nowhere, OnePlace
  <2>2. ASSUME NEW p0 \in Packet, CanShot(n, p0), unsent' = unsent \ {p0},
               q = Append(packet_queue[n], [pkt |-> p0, flit_left |-> Size[p0]])
        PROVE  Placed(pq, U)
    <3>1. Placed(pq, unsent \ {p0})
      BY <1>4, <2>2, FirePlaces
    <3> QED  BY <1>5, <2>2, <3>1
  <2> QED  BY <1>1, <2>1, <2>2 DEF PeTxEffect
<1>7. CASE /\ LinkIdle(<<n, PE>>) /\ q # <<>>
           /\ level_tx'[<<n, PE>>] = 1 - level_tx[<<n, PE>>]
           /\ wr'[<<n, PE>>].flit = nextFlit(q)
           /\ packet_queue'[n] = AfterFlit(q)
  <2>1. \A m \in Node \ {n} : packet_queue'[m] = pq[m]
    BY <1>1, <1>4 DEF PeTxEffect
  <2>2. \A r \in Link \ {<<n, PE>>} : level_tx'[r] = level_tx[r] /\ wr'[r].flit = wr[r].flit
    BY <1>1 DEF PeTxEffect
  <2> QED
    BY <1>1, <1>2, <1>4, <1>5, <1>6, <1>7, <2>1, <2>2, SendPlaces
<1>8. CASE /\ level_tx'[<<n, PE>>] = level_tx[<<n, PE>>]
           /\ wr'[<<n, PE>>].flit = wr[<<n, PE>>].flit
           /\ packet_queue'[n] = q
  <2>1. \A m \in Node : packet_queue'[m] = pq[m]
    BY <1>1, <1>4, <1>8 DEF PeTxEffect
  <2>2. \A r \in Link : level_tx'[r] = level_tx[r] /\ wr'[r].flit = wr[r].flit
    BY <1>1, <1>8 DEF PeTxEffect
  <2>3. ASSUME NEW x, NEW p, NEW k
        PROVE  At(packet_queue, x, p, k)' <=> At(pq, x, p, k)
    <3>1. \A m \in Node : \A j : /\ AtQueue(packet_queue, m, j, p, k)' <=> AtQueue(pq, m, j, p, k)
                                 /\ AtPE(m, j, p, k)' <=> AtPE(m, j, p, k)
                                 /\ \A i : AtBuffer(m, i, j, p, k)' <=> AtBuffer(m, i, j, p, k)
      BY <1>2, <2>1 DEF AtQueue, AtPE, AtBuffer
    <3>2. \A r \in Link : AtLink(r, p, k)' <=> AtLink(r, p, k)
      BY <1>2, <2>2 DEF AtLink, InFlight
    <3> QED  BY <3>1, <3>2 DEF At
  <2> QED  BY <1>5, <1>6, <2>3 DEF Placed, Nowhere, OnePlace
<1> QED
  BY <1>1, <1>7, <1>8 DEF PeTxEffect

-----------------------------------------------------------------------------
PlaceInv == WormInv /\ Placed(packet_queue, unsent)

LEMMA InitPlaces ==
  ASSUME InitLevels = {0}, Init
  PROVE  PlaceInv
<1>1. WormInv
  BY InitWorm
<1>2. ASSUME NEW p, NEW k, NEW x PROVE ~At(packet_queue, x, p, k)
  <2>1. \A n \in Node : packet_queue[n] = <<>> /\ received[n] = <<>>
    BY DEF Init
  <2>2. \A n \in Node, i \in Port : buffer[n][i] = <<>>
    BY DEF Init
  <2>3. \A l \in Link : ~InFlight(l)
    BY DEF Init, InFlight
  <2>4. Len(<<>>) = 0 /\ 1 .. 0 = {}
    BY EmptySeq
  <2> QED  BY <2>1, <2>2, <2>3, <2>4 DEF At, AtQueue, AtPE, AtBuffer, AtLink
<1>3. unsent = Packet
  BY DEF Init
<1> QED
  BY <1>1, <1>2, <1>3 DEF PlaceInv, Placed, Nowhere

LEMMA NextPlaces ==
  ASSUME PlaceInv, [Next]_vars
  PROVE  PlaceInv'
<1>1. WormInv'
  BY NextWorm DEF PlaceInv
<1>2. ASSUME NEW n \in Node, RouterRx(n) PROVE PlaceInv'
  BY <1>1, <1>2, RouterRxPlaces DEF PlaceInv
<1>3. ASSUME NEW n \in Node, RouterTx(n) PROVE PlaceInv'
  BY <1>1, <1>3, RouterTxPlaces DEF PlaceInv
<1>4. ASSUME NEW n \in Node, PeRx(n) PROVE PlaceInv'
  BY <1>1, <1>4, PeRxPlaces DEF PlaceInv
<1>5. ASSUME NEW n \in Node, PeTx(n) PROVE PlaceInv'
  BY <1>1, <1>5, PeTxPlaces DEF PlaceInv
<1>6. CASE ClockEdge \/ UNCHANGED vars
  <2>1. UNCHANGED <<buffer, packet_queue, received, unsent, level_tx, level_rx, wr>>
    BY <1>6 DEF ClockEdge, vars, routerVars, peVars
  <2>2. \A x, p, k : At(packet_queue, x, p, k)' <=> At(packet_queue, x, p, k)
    BY <2>1 DEF At, AtQueue, AtPE, AtBuffer, AtLink, InFlight
  <2> QED
    BY <1>1, <2>1, <2>2 DEF PlaceInv, Placed, Nowhere, OnePlace
<1> QED
  BY <1>2, <1>3, <1>4, <1>5, <1>6 DEF Next

(* No queue is longer than there are packets: its packets differ, as the    *)
(* last flit of each is in one place.                                       *)
LEMMA QueueLength ==
  ASSUME PlaceInv, NEW n \in Node
  PROVE  /\ packet_queue[n] \in Seq(Waiting)
         /\ Len(packet_queue[n]) \in Nat /\ Len(packet_queue[n]) <= NumPackets
<1> DEFINE q == packet_queue[n]
           g == [j \in 1 .. Len(q) |-> q[j].pkt]
<1>1. q \in Seq(Waiting) /\ Len(q) \in Nat /\ \A j \in 1 .. Len(q) : q[j] \in Waiting
  <2>1. packet_queue \in [Node -> Seq(Waiting)]
    BY DEF PlaceInv, WormInv, IInv, TypeOK, Waiting
  <2> QED  BY <2>1, LenProperties, ElementOfSeq
<1>2. \A j \in 1 .. Len(q) : /\ q[j].pkt \in Packet /\ q[j].flit_left \in Nat \ {0}
                             /\ Size[q[j].pkt] \in Nat \ {0}
  BY <1>1, NoCAssumption DEF Waiting
<1>3. g \in [1 .. Len(q) -> Packet]
  BY <1>2
<1>4. ASSUME NEW j \in 1 .. Len(q), NEW h \in 1 .. Len(q), q[j].pkt = q[h].pkt PROVE j = h
  <2> DEFINE p == q[j].pkt
             k == Size[p] - 1
  <2>1. p \in Packet /\ k \in 0 .. Size[p] - 1 /\ j \in Nat /\ h \in Nat
    BY <1>1, <1>2
  <2>2. AtQueue(packet_queue, n, j, p, k) /\ AtQueue(packet_queue, n, h, p, k)
    <3>1. k >= Size[p] - q[j].flit_left /\ k >= Size[p] - q[h].flit_left
      BY <1>2, <1>4
    <3> QED  BY <1>4, <3>1 DEF AtQueue
  <2> HIDE DEF p, k
  <2>3. At(packet_queue, QPlace(n, j), p, k) /\ At(packet_queue, QPlace(n, h), p, k)
    BY <2>1, <2>2 DEF At
  <2>4. QPlace(n, j) = QPlace(n, h)
    BY <2>1, <2>3 DEF PlaceInv, Placed, Nowhere, OnePlace
  <2> QED  BY <2>4, PlacesDiffer
<1>5. g \in Injection(1 .. Len(q), Packet)
  BY <1>3, <1>4 DEF Injection, IsInjective
<1>6. /\ IsFiniteSet(Packet) /\ Cardinality(Packet) = NumPackets
      /\ Cardinality(1 .. Len(q)) = Len(q)
  <2>1. 1 \in Int /\ NumPackets \in Nat /\ NumPackets \in Int /\ Len(q) \in Int
    BY <1>1, NoCAssumption
  <2>2. Cardinality(1 .. NumPackets) = NumPackets /\ IsFiniteSet(1 .. NumPackets)
    BY <2>1, FS_Interval
  <2>3. Cardinality(1 .. Len(q)) = Len(q)
    BY <1>1, <2>1, FS_Interval
  <2> QED  BY <2>2, <2>3 DEF Packet
<1> HIDE DEF g, q
<1>7. Cardinality(1 .. Len(q)) <= Cardinality(Packet)
  BY <1>5, <1>6, FS_Injection
<1> QED
  BY <1>1, <1>6, <1>7 DEF q

-----------------------------------------------------------------------------
(* From the places to the numbers of copies.                                *)

QueueSet(p, k) ==
  { at \in Node \X (1 .. NumPackets) : AtQueue(packet_queue, at[1], at[2], p, k) }
BufferSet(p, k) ==
  { at \in Node \X Port \X (1 .. BufferDepth) : AtBuffer(at[1], at[2], at[3], p, k) }
LinkSet(p, k) == { l \in Link : AtLink(l, p, k) }
PESet(p, k) == { j \in 1 .. Len(received[Dst[p]]) : AtPE(Dst[p], j, p, k) }

LEMMA CountsAreSets ==
  ASSUME PlaceInv, NEW p \in Packet, NEW k \in 0 .. Size[p] - 1
  PROVE  /\ InQueues(p, k) = Cardinality(QueueSet(p, k))
         /\ InBuffers(p, k) = Cardinality(BufferSet(p, k))
         /\ OnLinks(p, k) = Cardinality(LinkSet(p, k))
         /\ AtPEs(p, k) = Cardinality(PESet(p, k))
<1>1. \A n \in Node : DOMAIN packet_queue[n] = 1 .. Len(packet_queue[n])
  BY QueueLength, LenProperties
<1>2. \A n \in Node, i \in Port : DOMAIN buffer[n][i] = 1 .. Len(buffer[n][i])
  <2>1. buffer \in [Node -> [Port -> Seq(Stage)]]
    BY DEF PlaceInv, WormInv, IInv, TypeOK, Stage
  <2> QED  BY <2>1, LenProperties
<1>3. DOMAIN received[Dst[p]] = 1 .. Len(received[Dst[p]])
  <2>1. received \in [Node -> Seq(Flit)] /\ Dst[p] \in Node
    BY NoCAssumption DEF PlaceInv, WormInv, IInv, TypeOK
  <2> QED  BY <2>1, LenProperties
<1>4. InQueues(p, k) = Cardinality(QueueSet(p, k))
  BY <1>1 DEF InQueues, QueueSet, AtQueue
<1>5. InBuffers(p, k) = Cardinality(BufferSet(p, k))
  BY <1>2 DEF InBuffers, BufferSet, AtBuffer
<1>6. OnLinks(p, k) = Cardinality(LinkSet(p, k))
  BY DEF OnLinks, LinkSet, AtLink
<1>7. AtPEs(p, k) = Cardinality(PESet(p, k))
  BY <1>3 DEF AtPEs, PESet, AtPE
<1> QED
  BY <1>4, <1>5, <1>6, <1>7

(* What is in a set is somewhere, and what is somewhere is in a set.        *)
LEMMA SetsArePlaces ==
  ASSUME PlaceInv, NEW p \in Packet, NEW k \in 0 .. Size[p] - 1
  PROVE  /\ \A at \in QueueSet(p, k) : at = <<at[1], at[2]>> /\ At(packet_queue, QPlace(at[1], at[2]), p, k)
         /\ \A at \in BufferSet(p, k) :
              at = <<at[1], at[2], at[3]>> /\ At(packet_queue, BPlace(at[1], at[2], at[3]), p, k)
         /\ \A l \in LinkSet(p, k) : At(packet_queue, LPlace(l), p, k)
         /\ \A j \in PESet(p, k) : At(packet_queue, RPlace(Dst[p], j), p, k)
         /\ \A x : At(packet_queue, x, p, k) =>
              \/ \E n, j : x = QPlace(n, j) /\ <<n, j>> \in QueueSet(p, k)
              \/ \E n, i, j : x = BPlace(n, i, j) /\ <<n, i, j>> \in BufferSet(p, k)
              \/ \E l : x = LPlace(l) /\ l \in LinkSet(p, k)
              \/ \E j : x = RPlace(Dst[p], j) /\ j \in PESet(p, k)
<1>1. \A at \in QueueSet(p, k) : at = <<at[1], at[2]>> /\ At(packet_queue, QPlace(at[1], at[2]), p, k)
  <2> SUFFICES ASSUME NEW at \in QueueSet(p, k)
               PROVE  at = <<at[1], at[2]>> /\ At(packet_queue, QPlace(at[1], at[2]), p, k)
    OBVIOUS
  <2>1. /\ at \in Node \X (1 .. NumPackets) /\ AtQueue(packet_queue, at[1], at[2], p, k)
    BY DEF QueueSet
  <2>2. at[1] \in Node /\ at[2] \in Nat /\ at = <<at[1], at[2]>>
    BY <2>1
  <2> QED  BY <2>1, <2>2 DEF At
<1>2. \A at \in BufferSet(p, k) :
        at = <<at[1], at[2], at[3]>> /\ At(packet_queue, BPlace(at[1], at[2], at[3]), p, k)
  <2> SUFFICES ASSUME NEW at \in BufferSet(p, k)
               PROVE  at = <<at[1], at[2], at[3]>> /\ At(packet_queue, BPlace(at[1], at[2], at[3]), p, k)
    OBVIOUS
  <2>1. /\ at \in Node \X Port \X (1 .. BufferDepth) /\ AtBuffer(at[1], at[2], at[3], p, k)
    BY DEF BufferSet
  <2>2. at[1] \in Node /\ at[2] \in Port /\ at[3] \in Nat /\ at = <<at[1], at[2], at[3]>>
    BY <2>1
  <2> QED  BY <2>1, <2>2 DEF At
<1>3. \A l \in LinkSet(p, k) : At(packet_queue, LPlace(l), p, k)
  BY DEF LinkSet, At
<1>4. \A j \in PESet(p, k) : At(packet_queue, RPlace(Dst[p], j), p, k)
  <2>1. Dst[p] \in Node
    BY NoCAssumption
  <2> QED  BY <2>1 DEF PESet, At
<1>5. ASSUME NEW x, At(packet_queue, x, p, k)
      PROVE  \/ \E n, j : x = QPlace(n, j) /\ <<n, j>> \in QueueSet(p, k)
             \/ \E n, i, j : x = BPlace(n, i, j) /\ <<n, i, j>> \in BufferSet(p, k)
             \/ \E l : x = LPlace(l) /\ l \in LinkSet(p, k)
             \/ \E j : x = RPlace(Dst[p], j) /\ j \in PESet(p, k)
  <2>1. ASSUME NEW n \in Node, NEW j \in Nat, AtQueue(packet_queue, n, j, p, k)
        PROVE  <<n, j>> \in QueueSet(p, k)
    <3>1. j \in 1 .. NumPackets
      BY <2>1, QueueLength, NoCAssumption DEF AtQueue
    <3> QED  BY <2>1, <3>1 DEF QueueSet
  <2>2. ASSUME NEW n \in Node, NEW i \in Port, NEW j \in Nat, AtBuffer(n, i, j, p, k)
        PROVE  <<n, i, j>> \in BufferSet(p, k)
    <3>1. Len(buffer[n][i]) \in Nat /\ Len(buffer[n][i]) <= BufferDepth
      <4>1. buffer \in [Node -> [Port -> Seq(Stage)]]
        BY DEF PlaceInv, WormInv, IInv, TypeOK, Stage
      <4> QED  BY <4>1, LenProperties DEF PlaceInv, WormInv, LinesOK, LineOK
    <3>2. j \in 1 .. BufferDepth
      BY <2>2, <3>1, NoCAssumption DEF AtBuffer
    <3> QED  BY <2>2, <3>2 DEF BufferSet
  <2>3. ASSUME NEW n \in Node, NEW j \in Nat, AtPE(n, j, p, k)
        PROVE  n = Dst[p] /\ j \in PESet(p, k)
    <3>1. Dst[received[n][j].pkt] = n
      BY <2>3 DEF AtPE, PlaceInv, WormInv, FlitsDelivered, Delivered
    <3>2. n = Dst[p]
      BY <2>3, <3>1 DEF AtPE, Is
    <3> QED  BY <2>3, <3>2 DEF PESet, AtPE
  <2> QED  BY <1>5, <2>1, <2>2, <2>3 DEF At, LinkSet
<1> QED
  BY <1>1, <1>2, <1>3, <1>4, <1>5

(* Each flit of a packet that was fired is in exactly one place, those of   *)
(* the others are in none: no router, link or PE loses or copies a flit,    *)
(* for every mesh, algorithm, traffic and order of the processes.           *)
THEOREM FlitsConserved ==
  ASSUME InitLevels = {0}
  PROVE  Spec => []FlitConservation
<1>1. PlaceInv => FlitConservation
  <2> SUFFICES ASSUME PlaceInv, NEW p \in Packet, NEW k \in 0 .. Size[p] - 1
               PROVE  InQueues(p, k) + InBuffers(p, k) + OnLinks(p, k) + AtPEs(p, k)
                        = IF p \in unsent THEN 0 ELSE 1
    BY DEF FlitConservation
  <2> DEFINE qs == QueueSet(p, k)
             bs == BufferSet(p, k)
             ls == LinkSet(p, k)
             rs == PESet(p, k)
  <2>1. /\ InQueues(p, k) = Cardinality(qs) /\ InBuffers(p, k) = Cardinality(bs)
        /\ OnLinks(p, k) = Cardinality(ls) /\ AtPEs(p, k) = Cardinality(rs)
    BY CountsAreSets
  <2>2. /\ \A at \in qs : at = <<at[1], at[2]>> /\ At(packet_queue, QPlace(at[1], at[2]), p, k)
        /\ \A at \in bs : at = <<at[1], at[2], at[3]>> /\ At(packet_queue, BPlace(at[1], at[2], at[3]), p, k)
        /\ \A l \in ls : At(packet_queue, LPlace(l), p, k)
        /\ \A j \in rs : At(packet_queue, RPlace(Dst[p], j), p, k)
    BY SetsArePlaces
  <2>3. \A x : At(packet_queue, x, p, k) =>
          \/ \E n, j : x = QPlace(n, j) /\ <<n, j>> \in qs
          \/ \E n, i, j : x = BPlace(n, i, j) /\ <<n, i, j>> \in bs
          \/ \E l : x = LPlace(l) /\ l \in ls
          \/ \E j : x = RPlace(Dst[p], j) /\ j \in rs
    BY SetsArePlaces
  <2> HIDE DEF qs, bs, ls, rs
  <2>4. IF p \in unsent THEN Nowhere(packet_queue, p, k) ELSE OnePlace(packet_queue, p, k)
    BY DEF PlaceInv, Placed
  <2>5. Cardinality({}) = 0 /\ \A x : Cardinality({x}) = 1
    BY FS_EmptySet, FS_Singleton
  <2>6. CASE p \in unsent
    <3>1. qs = {} /\ bs = {} /\ ls = {} /\ rs = {}
      BY <2>2, <2>4, <2>6 DEF Nowhere
    <3> QED  BY <2>1, <2>5, <2>6, <3>1
  <2>7. CASE p \notin unsent
    <3>1. PICK x : At(packet_queue, x, p, k) /\ \A y : At(packet_queue, y, p, k) => y = x
      BY <2>4, <2>7 DEF OnePlace
    <3>2. ASSUME NEW n, NEW j, x = QPlace(n, j), <<n, j>> \in qs
          PROVE  qs = {<<n, j>>} /\ bs = {} /\ ls = {} /\ rs = {}
      BY <2>2, <3>1, <3>2, PlacesDiffer
    <3>3. ASSUME NEW n, NEW i, NEW j, x = BPlace(n, i, j), <<n, i, j>> \in bs
          PROVE  bs = {<<n, i, j>>} /\ qs = {} /\ ls = {} /\ rs = {}
      BY <2>2, <3>1, <3>3, PlacesDiffer
    <3>4. ASSUME NEW l, x = LPlace(l), l \in ls
          PROVE  ls = {l} /\ qs = {} /\ bs = {} /\ rs = {}
      BY <2>2, <3>1, <3>4, PlacesDiffer
    <3>5. ASSUME NEW j, x = RPlace(Dst[p], j), j \in rs
          PROVE  rs = {j} /\ qs = {} /\ bs = {} /\ ls = {}
      BY <2>2, <3>1, <3>5, PlacesDiffer
    <3>6. Cardinality(qs) + Cardinality(bs) + Cardinality(ls) + Cardinality(rs) = 1
      <4>1. CASE \E n, j : x = QPlace(n, j) /\ <<n, j>> \in qs
        <5>1. Cardinality(qs) = 1 /\ Cardinality(bs) = 0 /\ Cardinality(ls) = 0 /\ Cardinality(rs) = 0
          BY <2>5, <3>2, <4>1
        <5> QED  BY <5>1
      <4>2. CASE \E n, i, j : x = BPlace(n, i, j) /\ <<n, i, j>> \in bs
        <5>1. Cardinality(qs) = 0 /\ Cardinality(bs) = 1 /\ Cardinality(ls) = 0 /\ Cardinality(rs) = 0
          BY <2>5, <3>3, <4>2
        <5> QED  BY <5>1
      <4>3. CASE \E l : x = LPlace(l) /\ l \in ls
        <5>1. Cardinality(qs) = 0 /\ Cardinality(bs) = 0 /\ Cardinality(ls) = 1 /\ Cardinality(rs) = 0
          BY <2>5, <3>4, <4>3
        <5> QED  BY <5>1
      <4>4. CASE \E j : x = RPlace(Dst[p], j) /\ j \in rs
        <5>1. Cardinality(qs) = 0 /\ Cardinality(bs) = 0 /\ Cardinality(ls) = 0 /\ Cardinality(rs) = 1
          BY <2>5, <3>5, <4>4
        <5> QED  BY <5>1
      <4> QED  BY <2>3, <3>1, <4>1, <4>2, <4>3, <4>4
    <3> QED  BY <2>1, <2>7, <3>6
  <2> QED  BY <2>6, <2>7
<1>2. Spec => []PlaceInv
  <2>1. Init => PlaceInv
    BY InitPlaces
  <2>2. PlaceInv /\ [Next]_vars => PlaceInv'
    BY NextPlaces
  <2> QED
    BY <2>1, <2>2, PTL DEF Spec
<1> QED
  BY <1>1, <1>2, PTL

-----------------------------------------------------------------------------
(* Under XY all flits of a flow take one route: along the row of their      *)
(* source, then along the column of their destination.                      *)
Between(a, b, c) == (a <= b /\ b <= c) \/ (c <= b /\ b <= a)

OnXY(s, d, n) ==
  \/ n[2] = s[2] /\ Between(s[1], n[1], d[1])
  \/ n[1] = d[1] /\ Between(s[2], n[2], d[2])

(* The port by which a flit from s comes into n.                            *)
CameBy(s, n) ==
  IF n[2] > s[2] THEN DIRECTION_NORTH
  ELSE IF n[2] < s[2] THEN DIRECTION_SOUTH
  ELSE IF n[1] > s[1] THEN DIRECTION_WEST
  ELSE IF n[1] < s[1] THEN DIRECTION_EAST
  ELSE DIRECTION_LOCAL

OnRoute(f, n) == OnXY(Src[f.pkt], Dst[f.pkt], n)

BuffersOnRoute ==
  \A n \in Node : \A i \in Port : \A j \in 1 .. Len(buffer[n][i]) :
    LET f == buffer[n][i][j].flit IN OnRoute(f, n) /\ i = CameBy(Src[f.pkt], n)

LinksOnRoute ==
  \A n \in Node : \A o \in InPort(n) :
    LET f == wr[<<n, o>>].flit IN
      f # NoFlit => OnRoute(f, n) /\ o \in route("XY", n, Src[f.pkt], Dst[f.pkt])

RouteInv == routing_algorithm = "XY" /\ BuffersOnRoute /\ LinksOnRoute

(* A node of the route is known by its distance from the source.            *)
LEMMA RouteNode ==
  ASSUME NEW s \in Node, NEW d \in Node, NEW m \in Node, NEW n \in Node,
         OnXY(s, d, m), OnXY(s, d, n), Distance(s, m) = Distance(s, n)
  PROVE  m = n
<1>1. /\ s[1] \in Int /\ s[2] \in Int /\ d[1] \in Int /\ d[2] \in Int
      /\ m[1] \in Int /\ m[2] \in Int /\ n[1] \in Int /\ n[2] \in Int
      /\ m = <<m[1], m[2]>> /\ n = <<n[1], n[2]>>
  BY NodeCoordinates, MeshAssumption
<1>2. m[1] = n[1] /\ m[2] = n[2]
  BY <1>1 DEF OnXY, Between, Distance, Abs
<1> QED
  BY <1>1, <1>2

(* And so is the output there.                                              *)
LEMMA RouteOutput ==
  ASSUME NEW n, NEW s, NEW d, NEW o \in route("XY", n, s, d), NEW q \in route("XY", n, s, d)
  PROVE  o = q
BY DEF route, routingFunction, XY

LEMMA RouteHop ==
  ASSUME NEW s \in Node, NEW d \in Node, NEW m \in Node, OnXY(s, d, m),
         NEW o \in Direction, o \in route("XY", m, s, d)
  PROVE  /\ OnXY(s, d, getNeighborId(m, o))
         /\ CameBy(s, getNeighborId(m, o)) = reflexDirection(o)
<1>1. /\ s[1] \in Int /\ s[2] \in Int /\ d[1] \in Int /\ d[2] \in Int
      /\ m[1] \in Int /\ m[2] \in Int
      /\ m = <<m[1], m[2]>> /\ d = <<d[1], d[2]>>
  BY NodeCoordinates, MeshAssumption
<1>2. d # m /\ o \in XY(m, d)
  BY PortNumbers DEF route, routingFunction, DIRECTION_LOCAL
<1>3. d[1] # m[1] \/ d[2] # m[2]
  BY <1>1, <1>2
<1> DEFINE n == getNeighborId(m, o)
<1>4. /\ n[1] = IF o = DIRECTION_EAST THEN m[1] + 1 ELSE IF o = DIRECTION_WEST THEN m[1] - 1 ELSE m[1]
      /\ n[2] = IF o = DIRECTION_SOUTH THEN m[2] + 1 ELSE IF o = DIRECTION_NORTH THEN m[2] - 1 ELSE m[2]
  <2>1. m \in Node
    OBVIOUS
  <2> QED  BY <2>1, NeighborCoordinates
<1> HIDE DEF n
<1>5. OnXY(s, d, n)
  BY <1>1, <1>2, <1>3, <1>4 DEF XY, OnXY, Between, DIRECTION_NORTH, DIRECTION_EAST,
     DIRECTION_SOUTH, DIRECTION_WEST
<1>6. CameBy(s, n) = reflexDirection(o)
  BY <1>1, <1>2, <1>3, <1>4 DEF XY, OnXY, Between, CameBy, reflexDirection, DIRECTION_NORTH,
     DIRECTION_EAST, DIRECTION_SOUTH, DIRECTION_WEST
<1> QED
  BY <1>5, <1>6 DEF n

LEMMA RouteStart ==
  ASSUME NEW s \in Node, NEW d \in Node
  PROVE  OnXY(s, d, s) /\ CameBy(s, s) = DIRECTION_LOCAL
<1>1. s[1] \in Int /\ s[2] \in Int /\ d[1] \in Int /\ d[2] \in Int
  BY NodeCoordinates, MeshAssumption
<1> QED
  BY <1>1 DEF OnXY, Between, CameBy

LEMMA InitRoute ==
  ASSUME RoutingAlgorithms \subseteq {"XY"}, Init
  PROVE  RouteInv
<1>1. routing_algorithm = "XY"
  BY DEF Init
<1>2. BuffersOnRoute
  <2>1. \A n \in Node, i \in Port : buffer[n][i] = <<>>
    BY DEF Init
  <2>2. Len(<<>>) = 0 /\ 1 .. 0 = {}
    BY EmptySeq
  <2> QED  BY <2>1, <2>2 DEF BuffersOnRoute
<1>3. LinksOnRoute
  <2>1. \A n \in Node : \A o \in InPort(n) : <<n, o>> \in Link
    BY DEF InPort, Link
  <2> QED  BY <2>1 DEF Init, LinksOnRoute
<1> QED
  BY <1>1, <1>2, <1>3 DEF RouteInv

LEMMA RouterRxRoute ==
  ASSUME WormInv, RouteInv, NEW n \in Node, RouterRx(n)
  PROVE  RouteInv'
<1>1. PICK taken \in SUBSET InPort(n) : RouterRxEffect(n, taken)
  BY RouterRxDoes DEF WormInv
<1>2. routing_algorithm' = routing_algorithm
  BY DEF RouterRx, clockVars
<1>3. buffer \in [Node -> [Port -> Seq(Stage)]]
  BY DEF WormInv, IInv, TypeOK, Stage
<1>4. LinksOnRoute'
  <2>1. \A m \in Node : \A o \in InPort(m) : wr'[<<m, o>>].flit = wr[<<m, o>>].flit
    <3>1. \A m \in Node : \A o \in InPort(m) : <<m, o>> \in Link
      BY DEF InPort, Link
    <3> QED  BY <1>1, <3>1 DEF RouterRxEffect, SameLinks
  <2> QED  BY <2>1 DEF RouteInv, LinksOnRoute, OnRoute
<1>5. ASSUME NEW m \in Node, NEW i \in Port, NEW j \in 1 .. Len(buffer'[m][i])
      PROVE  LET f == buffer'[m][i][j].flit IN OnRoute(f, m) /\ i = CameBy(Src[f.pkt], m)
  <2>1. CASE ~(m = n /\ i \in taken)
    <3>1. buffer'[m][i] = buffer[m][i]
      BY <1>1, <2>1 DEF RouterRxEffect
    <3> QED  BY <1>5, <3>1 DEF RouteInv, BuffersOnRoute
  <2>2. CASE m = n /\ i \in taken
    <3> DEFINE b == buffer[n][i]
               f == wr[InLink(n, i)].flit
               x == Stored(f, i)
    <3>1. f \in Flit /\ buffer'[n][i] = Append(b, x)
      BY <1>1, <2>2 DEF RouterRxEffect
    <3>2. x \in Stage /\ x.flit.pkt = f.pkt
      BY <3>1, StoredFlit
    <3>3. OnXY(Src[f.pkt], Dst[f.pkt], n) /\ i = CameBy(Src[f.pkt], n)
      <4>1. f.pkt \in Packet /\ Src[f.pkt] \in Node /\ Dst[f.pkt] \in Node /\ f # NoFlit
        <5>1. f.pkt \in Packet
          BY <3>1 DEF Flit
        <5> QED  BY <5>1, NoCAssumption, PacketNotZero DEF NoFlit
      <4>2. i \in InPort(n)
        BY <2>2
      <4>3. CASE i = DIRECTION_LOCAL
        <5>1. InLink(n, i) = <<n, PE>>
          BY <4>3 DEF InLink
        <5>2. Src[f.pkt] = n
          BY <4>1, <5>1 DEF WormInv, LinksOnPath
        <5> QED  BY <4>1, <4>3, <5>2, RouteStart
      <4>4. CASE i # DIRECTION_LOCAL
        <5>1. i \in Direction /\ HasNeighbor(n, i) /\ i \in Port
          BY <4>2, <4>4 DEF InPort, Port
        <5>2. PICK h, o : h = getNeighborId(n, i) /\ o = reflexDirection(i)
          OBVIOUS
        <5>3. /\ h \in Node /\ o \in Direction /\ getNeighborId(h, o) = n
              /\ reflexDirection(o) = i /\ InLink(n, i) = <<h, o>>
          BY <4>4, <5>1, <5>2, BackAgain, ReflexTwice DEF HasNeighbor, InLink
        <5>4. o \in InPort(h)
          BY <5>3 DEF InPort, HasNeighbor, Port
        <5>5. OnXY(Src[f.pkt], Dst[f.pkt], h) /\ o \in route("XY", h, Src[f.pkt], Dst[f.pkt])
          BY <4>1, <5>3, <5>4 DEF RouteInv, LinksOnRoute, OnRoute
        <5> HIDE DEF f
        <5> QED  BY <4>1, <5>3, <5>5, RouteHop
      <4> QED  BY <4>3, <4>4
    <3>4. b \in Seq(Stage) /\ Len(b) \in Nat
      BY <1>3, <2>2, LenProperties
    <3> HIDE DEF x, f
    <3>5. \A h \in 1 .. Len(b) : OnRoute(b[h].flit, n) /\ i = CameBy(Src[b[h].flit.pkt], n)
      BY <2>2 DEF RouteInv, BuffersOnRoute
    <3> HIDE DEF b
    <3>6. /\ Len(Append(b, x)) = Len(b) + 1
          /\ \A h \in 1 .. Len(b) : Append(b, x)[h] = b[h]
          /\ Append(b, x)[Len(b) + 1] = x
      BY <3>2, <3>4, AppendProperties
    <3>7. j \in 1 .. Len(b) \/ j = Len(b) + 1
      BY <1>5, <2>2, <3>1, <3>4, <3>6
    <3> QED
      BY <2>2, <3>1, <3>2, <3>3, <3>5, <3>6, <3>7 DEF OnRoute
  <2> QED  BY <2>1, <2>2
<1>6. BuffersOnRoute'
  BY <1>5 DEF BuffersOnRoute, OnRoute
<1> QED
  BY <1>2, <1>4, <1>6 DEF RouteInv

LEMMA RouterTxRoute ==
  ASSUME WormInv, RouteInv, NEW n \in Node, RouterTx(n)
  PROVE  RouteInv'
<1>1. PICK out \in [Port -> Port \union {NOT_RESERVED}] : TxEffect(n, out)
  BY RouterTxEffect DEF WormInv
<1>2. routing_algorithm' = routing_algorithm
  BY DEF RouterTx, clockVars
<1>3. buffer \in [Node -> [Port -> Seq(Stage)]]
  BY DEF WormInv, IInv, TypeOK, Stage
<1>4. BuffersOnRoute'
  <2> SUFFICES ASSUME NEW m \in Node, NEW i \in Port, NEW j \in 1 .. Len(buffer'[m][i])
               PROVE  LET f == buffer'[m][i][j].flit IN OnRoute(f, m) /\ i = CameBy(Src[f.pkt], m)
    BY DEF BuffersOnRoute, OnRoute
  <2>1. \E h \in 1 .. Len(buffer[m][i]) : buffer'[m][i][j].flit = buffer[m][i][h].flit
    <3>1. CASE m # n
      BY <1>1, <3>1 DEF TxEffect
    <3>2. CASE m = n /\ out[i] \notin Port
      <4>1. buffer'[n][i] = Age(buffer[n][i]) /\ buffer[n][i] \in Seq(Stage)
        BY <1>1, <1>3, <3>2 DEF TxEffect
      <4>2. SameFlits(buffer'[n][i], buffer[n][i])
        BY <4>1, AgeSame
      <4> QED  BY <3>2, <4>2 DEF SameFlits
    <3>3. CASE m = n /\ out[i] \in Port
      <4> DEFINE b == buffer[n][i]
                 c == Tail(Age(b))
      <4>1. b # <<>> /\ buffer'[n][i] = c
        BY <1>1, <3>3 DEF TxEffect
      <4>2. b \in Seq(Stage) /\ Len(b) \in Nat
        BY <1>3, LenProperties
      <4>3. Len(c) = Len(b) - 1 /\ \A h \in 1 .. Len(b) - 1 : c[h].flit = b[h + 1].flit
        BY <4>1, <4>2, TailFlits
      <4>4. j \in 1 .. Len(c)
        BY <3>3, <4>1
      <4> HIDE DEF b, c
      <4>5. j + 1 \in 1 .. Len(b) /\ c[j].flit = b[j + 1].flit
        BY <4>2, <4>3, <4>4
      <4>6. PICK h \in 1 .. Len(b) : c[j].flit = b[h].flit
        BY <4>5
      <4> QED  BY <3>3, <4>1, <4>6 DEF b
    <3> QED  BY <3>1, <3>2, <3>3
  <2> QED  BY <2>1 DEF RouteInv, BuffersOnRoute
<1>5. LinksOnRoute'
  <2> SUFFICES ASSUME NEW m \in Node, NEW o \in InPort(m), wr'[<<m, o>>].flit # NoFlit
               PROVE  LET f == wr'[<<m, o>>].flit IN
                        OnRoute(f, m) /\ o \in route("XY", m, Src[f.pkt], Dst[f.pkt])
    BY DEF LinksOnRoute, OnRoute
  <2>1. <<m, o>> \in Link /\ o \in Port
    BY DEF InPort, Link
  <2>2. CASE ~(m = n /\ \E i \in Port : out[i] = o)
    <3>1. \A i \in Port : out[i] \in Port => <<m, o>> # <<n, out[i]>>
      BY <2>2
    <3>2. wr'[<<m, o>>].flit = wr[<<m, o>>].flit
      BY <1>1, <2>1, <3>1 DEF TxEffect
    <3> QED  BY <3>2 DEF RouteInv, LinksOnRoute
  <2>3. ASSUME m = n, NEW i \in Port, out[i] = o
        PROVE  LET f == wr'[<<m, o>>].flit IN
                 OnRoute(f, m) /\ o \in route("XY", m, Src[f.pkt], Dst[f.pkt])
    <3> DEFINE f == FrontOf(n, i).flit
    <3>1. /\ wr'[<<n, o>>].flit = f
          /\ rtable[n][o] = i \/ (rtable[n][o] = NOT_RESERVED /\ o \in Candidates(n, i))
      BY <1>1, <2>1, <2>3 DEF TxEffect
    <3>2. /\ f \in Flit /\ f = buffer[n][i][1].flit /\ o \in InPort(n)
          /\ NextOn(<<n, o>>, f)
      BY <1>1, <2>1, <2>3, TxSends
    <3>3. OnRoute(f, n)
      <4>1. 1 \in 1 .. Len(buffer[n][i])
        <5>1. buffer[n][i] # <<>> /\ buffer[n][i] \in Seq(Stage)
          BY <1>1, <1>3, <2>1, <2>3 DEF TxEffect
        <5> QED  BY <5>1, EmptySeq, LenProperties
      <4> QED  BY <3>2, <4>1 DEF RouteInv, BuffersOnRoute
    <3>4. o \in route("XY", n, Src[f.pkt], Dst[f.pkt])
      <4>1. CASE rtable[n][o] = i
        <5>1. wr[<<n, o>>].flit # NoFlit /\ ~IsLast(wr[<<n, o>>].flit)
          BY <3>2, <4>1 DEF WormInv, OutputsOK
        <5>2. f.pkt = wr[<<n, o>>].flit.pkt
          BY <3>2, <5>1 DEF NextOn, Follows
        <5> QED  BY <3>2, <5>1, <5>2 DEF RouteInv, LinksOnRoute
      <4>2. CASE o \in Candidates(n, i)
        BY <4>2 DEF Candidates, RouteInv
      <4> QED  BY <3>1, <4>1, <4>2
    <3> QED  BY <2>3, <3>1, <3>3, <3>4
  <2> QED  BY <2>2, <2>3
<1> QED
  BY <1>2, <1>4, <1>5 DEF RouteInv

LEMMA NextRoute ==
  ASSUME WormInv, RouteInv, [Next]_vars
  PROVE  RouteInv'
<1>1. ASSUME NEW n \in Node, PeRx(n) \/ PeTx(n) PROVE RouteInv'
  <2>1. UNCHANGED <<buffer, routing_algorithm>>
    BY <1>1 DEF PeRx, PeTx, routerVars, clockVars
  <2>2. \A m \in Node : \A o \in InPort(m) : wr'[<<m, o>>].flit = wr[<<m, o>>].flit
    <3>1. \A m \in Node : \A o \in InPort(m) : <<m, o>> \in Link /\ <<m, o>> # <<n, PE>>
      BY PortNumbers DEF InPort, Link
    <3>2. CASE PeRx(n)
      <4>1. SameLinks
        BY <3>2, PeRxDoes DEF WormInv, PeRxEffect
      <4> QED  BY <3>1, <4>1 DEF SameLinks
    <3>3. CASE PeTx(n)
      <4>1. \E q : PeTxEffect(n, q)
        BY <3>3, PeTxDoes DEF WormInv
      <4> QED  BY <3>1, <4>1 DEF PeTxEffect
    <3> QED  BY <1>1, <3>2, <3>3
  <2> QED  BY <2>1, <2>2 DEF RouteInv, BuffersOnRoute, LinksOnRoute, OnRoute
<1>2. CASE ClockEdge \/ UNCHANGED vars
  <2>1. UNCHANGED <<buffer, wr, routing_algorithm>>
    BY <1>2 DEF ClockEdge, vars, routerVars, clockVars
  <2> QED  BY <2>1 DEF RouteInv, BuffersOnRoute, LinksOnRoute, OnRoute
<1> QED
  BY <1>1, <1>2, RouterRxRoute, RouterTxRoute DEF Next

-----------------------------------------------------------------------------
(* How many steps a flit that came from s made to get to a place: into the  *)
(* link of its PE, then into a buffer and out on a link at each node.       *)
Passed(s, x) ==
  IF x[1] = "queue" THEN 0
  ELSE IF x[1] = "buffer" THEN 2 + 2 * Distance(s, x[2][1])
  ELSE IF x[1] = "link" THEN IF x[2][2] = PE THEN 1 ELSE 3 + 2 * Distance(s, x[2][1])
  ELSE 4 + 2 * Distance(s, x[2])

(* The same queue, buffer, link or PE.                                      *)
Beside(x, y) == x[1] = y[1] /\ x[2] = y[2]

Ahead(s, x, y) ==
  Passed(s, x) > Passed(s, y) \/ (Passed(s, x) = Passed(s, y) /\ x[3] < y[3])

SameFlow(p, q) == Src[p] = Src[q] /\ Dst[p] = Dst[q]

(* Of the packets of a flow that were fired, the last flit of an earlier    *)
(* one is ahead of all flits of a later one.                                *)
InTurn(pq, waiting) ==
  \A p \in Packet \ waiting : \A q \in Packet : SameFlow(p, q) /\ q < p =>
    /\ q \notin waiting
    /\ \A k \in 0 .. Size[p] - 1 : \A x, y :
         At(pq, x, q, Size[q] - 1) /\ At(pq, y, p, k) => Ahead(Src[p], x, y)

AtHome(pq) == \A n \in Node : \A j \in 1 .. Len(pq[n]) : Src[pq[n][j].pkt] = n

(* Where a flit from s to d can be, on the route of its flow.               *)
InFlow(s, d, x) ==
  \/ \E j \in Nat : x = QPlace(s, j)
  \/ x = LPlace(<<s, PE>>)
  \/ \E n \in Node : /\ OnXY(s, d, n) /\ Distance(s, n) <= Distance(s, d)
                     /\ \/ \E j \in Nat : x = BPlace(n, CameBy(s, n), j)
                        \/ \E o \in Port : o \in route("XY", n, s, d) /\ x = LPlace(<<n, o>>)
  \/ \E j \in Nat : x = RPlace(d, j)

LEMMA PassedAt ==
  /\ \A s, n, j : Passed(s, QPlace(n, j)) = 0 /\ QPlace(n, j)[3] = j
  /\ \A s, n, i, j : /\ Passed(s, BPlace(n, i, j)) = 2 + 2 * Distance(s, n)
                     /\ BPlace(n, i, j)[3] = j
  /\ \A s, n : Passed(s, LPlace(<<n, PE>>)) = 1
  /\ \A s, n : \A o \in Port : Passed(s, LPlace(<<n, o>>)) = 3 + 2 * Distance(s, n)
  /\ \A l : LPlace(l)[3] = 0
  /\ \A s, n, j : Passed(s, RPlace(n, j)) = 4 + 2 * Distance(s, n) /\ RPlace(n, j)[3] = j
<1>1. PE \notin Port
  BY PortNumbers
<1> QED
  BY <1>1 DEF Passed, QPlace, BPlace, LPlace, RPlace

LEMMA PassedBeside == ASSUME NEW s, NEW x, NEW y, Beside(x, y) PROVE Passed(s, x) = Passed(s, y)
BY DEF Passed, Beside

LEMMA DistanceNat ==
  ASSUME NEW s \in Node, NEW n \in Node PROVE Distance(s, n) \in Nat
BY NodeCoordinates, MeshAssumption DEF Distance, Abs

(* Two places on the route that as many steps lead to are beside.           *)
LEMMA OneRoute ==
  ASSUME NEW s \in Node, NEW d \in Node, NEW x, NEW y, InFlow(s, d, x), InFlow(s, d, y)
  PROVE  /\ Passed(s, x) \in Nat /\ x[3] \in Nat
         /\ Passed(s, x) = Passed(s, y) => Beside(x, y)
<1> DEFINE D(n) == Distance(s, n)
           Q(z) == \E j \in Nat : z = QPlace(s, j)
           L(z) == z = LPlace(<<s, PE>>)
           B(z, n) == /\ OnXY(s, d, n) /\ D(n) <= D(d)
                      /\ \E j \in Nat : z = BPlace(n, CameBy(s, n), j)
           K(z, n) == /\ OnXY(s, d, n) /\ D(n) <= D(d)
                      /\ \E o \in Port : o \in route("XY", n, s, d) /\ z = LPlace(<<n, o>>)
           R(z) == \E j \in Nat : z = RPlace(d, j)
<1>1. \A n \in Node : D(n) \in Nat
  BY DistanceNat
<1>2. \A z : InFlow(s, d, z) => Q(z) \/ L(z) \/ (\E n \in Node : B(z, n) \/ K(z, n)) \/ R(z)
  BY DEF InFlow
<1>3. /\ \A z : Q(z) => Passed(s, z) = 0 /\ z[3] \in Nat
      /\ \A z : L(z) => Passed(s, z) = 1 /\ z[3] \in Nat
      /\ \A z : R(z) => Passed(s, z) = 4 + 2 * D(d) /\ z[3] \in Nat
  BY PassedAt
<1>4. \A z : \A n \in Node : /\ B(z, n) => Passed(s, z) = 2 + 2 * D(n) /\ z[3] \in Nat
                             /\ K(z, n) => Passed(s, z) = 3 + 2 * D(n) /\ z[3] \in Nat
  <2>1. ASSUME NEW z, NEW n \in Node, B(z, n)
        PROVE  Passed(s, z) = 2 + 2 * Distance(s, n) /\ z[3] \in Nat
    <3>1. PICK j \in Nat : z = BPlace(n, CameBy(s, n), j)
      BY <2>1
    <3> QED  BY <3>1, PassedAt
  <2>2. ASSUME NEW z, NEW n \in Node, K(z, n)
        PROVE  Passed(s, z) = 3 + 2 * Distance(s, n) /\ z[3] \in Nat
    <3>1. PICK o \in Port : z = LPlace(<<n, o>>)
      BY <2>2
    <3> QED  BY <3>1, PassedAt
  <2> QED  BY <2>1, <2>2
<1>5. \A z : \A n \in Node : B(z, n) \/ K(z, n) => D(n) <= D(d)
  OBVIOUS
<1>6. /\ Q(x) /\ Q(y) => Beside(x, y)
      /\ L(x) /\ L(y) => Beside(x, y)
      /\ R(x) /\ R(y) => Beside(x, y)
  BY DEF Beside, QPlace, LPlace, RPlace
<1>7. ASSUME NEW n \in Node, NEW m \in Node, B(x, n), B(y, m), D(n) = D(m)
      PROVE  Beside(x, y)
  <2>1. n = m
    BY <1>7, RouteNode
  <2> QED  BY <1>7, <2>1 DEF Beside, BPlace
<1>8. ASSUME NEW n \in Node, NEW m \in Node, K(x, n), K(y, m), D(n) = D(m)
      PROVE  Beside(x, y)
  <2>1. n = m
    BY <1>8, RouteNode
  <2>2. x = y
    BY <1>8, <2>1, RouteOutput
  <2> QED  BY <2>2 DEF Beside
<1>9. d \in Node
  OBVIOUS
<1>10. InFlow(s, d, x) /\ InFlow(s, d, y)
  OBVIOUS
<1> HIDE DEF D, Q, L, B, K, R
<1>11. Passed(s, x) \in Nat /\ x[3] \in Nat
  BY <1>1, <1>2, <1>3, <1>4, <1>9, <1>10
<1>12. ASSUME Passed(s, x) = Passed(s, y) PROVE Beside(x, y)
  <2>1. CASE Q(x)
    <3>1. Q(y)
      BY <1>1, <1>2, <1>3, <1>4, <1>9, <1>10, <1>12, <2>1
    <3> QED  BY <1>6, <2>1, <3>1
  <2>2. CASE L(x)
    <3>1. L(y)
      BY <1>1, <1>2, <1>3, <1>4, <1>9, <1>10, <1>12, <2>2
    <3> QED  BY <1>6, <2>2, <3>1
  <2>3. CASE R(x)
    <3>1. R(y)
      BY <1>1, <1>2, <1>3, <1>4, <1>5, <1>9, <1>10, <1>12, <2>3
    <3> QED  BY <1>6, <2>3, <3>1
  <2>4. ASSUME NEW n \in Node, B(x, n) PROVE Beside(x, y)
    <3>1. \E m \in Node : B(y, m) /\ D(n) = D(m)
      BY <1>1, <1>2, <1>3, <1>4, <1>5, <1>9, <1>10, <1>12, <2>4
    <3> QED  BY <1>7, <2>4, <3>1
  <2>5. ASSUME NEW n \in Node, K(x, n) PROVE Beside(x, y)
    <3>1. \E m \in Node : K(y, m) /\ D(n) = D(m)
      BY <1>1, <1>2, <1>3, <1>4, <1>5, <1>9, <1>10, <1>12, <2>5
    <3> QED  BY <1>8, <2>5, <3>1
  <2> QED  BY <1>2, <1>10, <2>1, <2>2, <2>3, <2>4, <2>5
<1> QED
  BY <1>11, <1>12

(* Every flit is on the route of its flow.                                  *)
LEMMA FlitInFlow ==
  ASSUME WormInv, RouteInv, NEW pq, AtHome(pq), NEW p \in Packet, NEW k, NEW x, At(pq, x, p, k)
  PROVE  InFlow(Src[p], Dst[p], x)
<1>1. Src[p] \in Node /\ Dst[p] \in Node
  BY NoCAssumption
<1>2. ASSUME NEW n \in Node, NEW j \in Nat, x = QPlace(n, j), AtQueue(pq, n, j, p, k)
      PROVE  InFlow(Src[p], Dst[p], x)
  BY <1>2 DEF AtHome, AtQueue, InFlow
<1>3. ASSUME NEW n \in Node, NEW i \in Port, NEW j \in Nat, x = BPlace(n, i, j),
             AtBuffer(n, i, j, p, k)
      PROVE  InFlow(Src[p], Dst[p], x)
  <2>1. OnPath(buffer[n][i][j].flit, n) /\ buffer[n][i][j].flit.pkt = p
    BY <1>3 DEF WormInv, BuffersOnPath, AtBuffer, Is
  <2>2. Distance(Src[p], n) <= Distance(Src[p], Dst[p])
    BY <1>1, <2>1, DistanceNat DEF OnPath
  <2>3. OnXY(Src[p], Dst[p], n) /\ i = CameBy(Src[p], n)
    BY <1>3, <2>1 DEF RouteInv, BuffersOnRoute, OnRoute, AtBuffer
  <2> QED  BY <1>3, <2>2, <2>3 DEF InFlow
<1>4. ASSUME NEW l \in Link, x = LPlace(l), AtLink(l, p, k)
      PROVE  InFlow(Src[p], Dst[p], x)
  <2>1. wr[l].flit.pkt = p /\ wr[l].flit # NoFlit
    BY <1>4, PacketNotZero DEF AtLink, Is, NoFlit
  <2>2. PICK n \in Node, o \in Port \union {PE} : l = <<n, o>> /\ (o \in Direction => HasNeighbor(n, o))
    BY DEF Link
  <2>3. CASE o = PE
    BY <1>4, <2>1, <2>2, <2>3 DEF WormInv, LinksOnPath, InFlow
  <2>4. CASE o \in Port
    <3>1. o \in InPort(n)
      BY <2>2, <2>4 DEF InPort
    <3>2. OnPath(wr[<<n, o>>].flit, n)
      BY <2>1, <2>2, <3>1 DEF WormInv, LinksOnPath
    <3>3. Distance(Src[p], n) <= Distance(Src[p], Dst[p])
      BY <1>1, <2>1, <2>2, <3>2, DistanceNat DEF OnPath
    <3>4. OnXY(Src[p], Dst[p], n) /\ o \in route("XY", n, Src[p], Dst[p])
      BY <2>1, <2>2, <3>1 DEF RouteInv, LinksOnRoute, OnRoute
    <3> QED  BY <1>4, <2>2, <2>4, <3>3, <3>4 DEF InFlow
  <2> QED  BY <2>3, <2>4
<1>5. ASSUME NEW n \in Node, NEW j \in Nat, x = RPlace(n, j), AtPE(n, j, p, k)
      PROVE  InFlow(Src[p], Dst[p], x)
  BY <1>5 DEF WormInv, FlitsDelivered, Delivered, AtPE, Is, InFlow
<1> QED
  BY <1>2, <1>3, <1>4, <1>5 DEF At

FlitsInFlow ==
  \A p \in Packet : \A k, x : At(packet_queue, x, p, k) => InFlow(Src[p], Dst[p], x)

LEMMA OnRoutes == WormInv /\ RouteInv => FlitsInFlow
<1>1. PacketsAtHome => AtHome(packet_queue)
  BY DEF PacketsAtHome, AtHome
<1> QED
  BY <1>1, FlitInFlow DEF FlitsInFlow, WormInv

(* A place holds no flits of two packets.                                   *)
OnePacket == \A x, p, q, k, g : At(packet_queue, x, p, k) /\ At(packet_queue, x, q, g) => p = q

LEMMA PlaceHasOne == OnePacket
BY PlacesDiffer DEF OnePacket, At, AtQueue, AtBuffer, AtLink, AtPE, Is

(* The same of the next state.                                              *)
LEMMA OnRoutesNext == WormInv' /\ RouteInv' => FlitsInFlow'
BY OnRoutes, PTL

LEMMA PlaceHasOneNext == OnePacket'
BY PlaceHasOne, PTL

(* x goes to x1 and y to y1: what moves on comes behind what is there, and  *)
(* is not overtaken by what was behind it.                                  *)
Orderly(s, x, y, x1, y1) ==
  /\ Passed(s, x1) = Passed(s, x) + 1 \/ Beside(x1, x)
  /\ \/ /\ Passed(s, y1) = Passed(s, y) + 1
        /\ Beside(x, y) => ~(x[3] < y[3])
        /\ Beside(x1, y1) => x1[3] < y1[3]
     \/ /\ Beside(y1, y)
        /\ Beside(x1, x) /\ Beside(x, y) /\ x[3] < y[3] => x1[3] < y1[3]

LEMMA AheadStep ==
  ASSUME NEW s \in Node, NEW d \in Node, NEW x, NEW y, NEW x1, NEW y1,
         InFlow(s, d, x), InFlow(s, d, y), InFlow(s, d, x1), InFlow(s, d, y1),
         Ahead(s, x, y), Orderly(s, x, y, x1, y1)
  PROVE  Ahead(s, x1, y1)
<1>1. /\ Passed(s, x) \in Nat /\ Passed(s, y) \in Nat
      /\ Passed(s, x1) \in Nat /\ Passed(s, y1) \in Nat
  BY OneRoute
<1>2. /\ Passed(s, x) = Passed(s, y) => Beside(x, y)
      /\ Passed(s, x1) = Passed(s, y1) => Beside(x1, y1)
  BY OneRoute
<1>3. /\ Beside(x1, x) => Passed(s, x1) = Passed(s, x)
      /\ Beside(y1, y) => Passed(s, y1) = Passed(s, y)
  BY PassedBeside
<1> QED
  BY <1>1, <1>2, <1>3 DEF Ahead, Orderly

LEMMA TurnStep ==
  ASSUME WormInv, RouteInv, WormInv', RouteInv', NEW pq, AtHome(pq),
         NEW p \in Packet, NEW q \in Packet, SameFlow(p, q), NEW k, NEW g,
         NEW x, NEW y, NEW x1, NEW y1, At(pq, x, q, g), At(pq, y, p, k),
         At(packet_queue, x1, q, g)', At(packet_queue, y1, p, k)',
         Ahead(Src[p], x, y), Orderly(Src[p], x, y, x1, y1)
  PROVE  Ahead(Src[p], x1, y1)
<1>1. Src[p] \in Node /\ Dst[p] \in Node /\ Src[q] = Src[p] /\ Dst[q] = Dst[p]
  BY NoCAssumption DEF SameFlow
<1>2. InFlow(Src[p], Dst[p], x) /\ InFlow(Src[p], Dst[p], y)
  BY <1>1, FlitInFlow
<1>3. InFlow(Src[p], Dst[p], x1) /\ InFlow(Src[p], Dst[p], y1)
  <2>1. \A r \in Packet : \A h, z : At(packet_queue, z, r, h)' => InFlow(Src[r], Dst[r], z)
    BY OnRoutesNext DEF FlitsInFlow
  <2> QED  BY <1>1, <2>1
<1> QED
  BY <1>1, <1>2, <1>3, AheadStep

-----------------------------------------------------------------------------
(* RouterRx: a flit comes from a link into the buffer behind it.            *)
LEMMA RxHop ==
  ASSUME WormInv, NEW n \in Node, NEW i \in InPort(n), NEW r \in Packet, NEW k,
         AtLink(InLink(n, i), r, k), NEW j
  PROVE  Passed(Src[r], BPlace(n, i, j)) = Passed(Src[r], LPlace(InLink(n, i))) + 1
<1>1. Src[r] \in Node /\ Dst[r] \in Node
  BY NoCAssumption
<1>2. wr[InLink(n, i)].flit.pkt = r /\ wr[InLink(n, i)].flit # NoFlit
  BY PacketNotZero DEF AtLink, Is, NoFlit
<1>3. Passed(Src[r], BPlace(n, i, j)) = 2 + 2 * Distance(Src[r], n)
  BY PassedAt
<1>4. CASE i = DIRECTION_LOCAL
  <2>1. InLink(n, i) = <<n, PE>>
    BY <1>4 DEF InLink
  <2>2. Src[r] = n
    BY <1>2, <2>1 DEF WormInv, LinksOnPath
  <2>3. Passed(Src[r], LPlace(InLink(n, i))) = 1
    BY <2>1, PassedAt
  <2> QED  BY <1>3, <2>2, <2>3, SameNode
<1>5. CASE i # DIRECTION_LOCAL
  <2>1. i \in Direction /\ HasNeighbor(n, i)
    BY <1>5 DEF InPort, Port
  <2>2. PICK h, o : h = getNeighborId(n, i) /\ o = reflexDirection(i)
    OBVIOUS
  <2>3. /\ h \in Node /\ o \in Direction /\ getNeighborId(h, o) = n
        /\ InLink(n, i) = <<h, o>>
    BY <1>5, <2>1, <2>2, BackAgain, ReflexTwice DEF HasNeighbor, InLink
  <2>4. o \in InPort(h) /\ o \in Port /\ o # DIRECTION_LOCAL
    BY <2>3, PortNumbers DEF InPort, HasNeighbor, Port
  <2>5. OnPath(wr[<<h, o>>].flit, h) /\ o \in Toward(h, Dst[r])
    <3>1. wr[<<h, o>>].flit # NoFlit /\ wr[<<h, o>>].flit.pkt = r
      BY <1>2, <2>3
    <3>2. OnPath(wr[<<h, o>>].flit, h) /\ Leads(h, o, Dst[wr[<<h, o>>].flit.pkt])
      BY <2>3, <2>4, <3>1 DEF WormInv, LinksOnPath
    <3> QED  BY <2>4, <3>1, <3>2 DEF Leads
  <2>6. Distance(Src[r], n) = Distance(Src[r], h) + 1
    BY <1>1, <1>2, <2>3, <2>5, HopAway DEF OnPath
  <2>7. Passed(Src[r], LPlace(InLink(n, i))) = 3 + 2 * Distance(Src[r], h)
    BY <2>3, <2>4, PassedAt
  <2> QED  BY <1>1, <1>3, <2>3, <2>6, <2>7, DistanceNat
<1> QED
  BY <1>4, <1>5

LEMMA RouterRxOrderly ==
  ASSUME WormInv, NEW n \in Node, NEW taken \in SUBSET InPort(n), RouterRxEffect(n, taken),
         NEW p \in Packet, NEW q \in Packet, p # q, SameFlow(p, q), NEW k, NEW g,
         NEW x, NEW y, NEW x1, NEW y1,
         At(packet_queue, x, q, g), At(packet_queue, y, p, k),
         RxMove(n, taken, x, x1), RxMove(n, taken, y, y1),
         At(packet_queue, x1, q, g)', At(packet_queue, y1, p, k)'
  PROVE  Orderly(Src[p], x, y, x1, y1)
<1>1. Src[q] = Src[p] /\ x1 # y1
  BY PlaceHasOneNext DEF SameFlow, OnePacket
<1>2. ASSUME NEW r \in Packet, NEW h, NEW z, NEW z1, At(packet_queue, z, r, h),
             RxMove(n, taken, z, z1)
      PROVE  Passed(Src[r], z1) = Passed(Src[r], z) + 1 \/ z1 = z
  <2>1. CASE \E i \in taken : z = LPlace(InLink(n, i)) /\ z1 = BPlace(n, i, Len(buffer[n][i]) + 1)
    <3>1. PICK i \in taken : z = LPlace(InLink(n, i)) /\ z1 = BPlace(n, i, Len(buffer[n][i]) + 1)
      BY <2>1
    <3>2. AtLink(InLink(n, i), r, h)
      BY <1>2, <3>1, PlacesDiffer DEF At
    <3> QED  BY <3>1, <3>2, RxHop
  <2> QED  BY <1>2, <2>1 DEF RxMove
<1>3. Passed(Src[p], x1) = Passed(Src[p], x) + 1 \/ Beside(x1, x)
  BY <1>1, <1>2 DEF Beside
<1>4. CASE y1 = y
  <2>1. Beside(x1, x) => x1 = x
    <3>1. \A l, m, i, j : ~Beside(BPlace(m, i, j), LPlace(l))
      BY DEF Beside, BPlace, LPlace
    <3> QED  BY <3>1 DEF RxMove
  <2> QED  BY <1>3, <1>4, <2>1 DEF Orderly, Beside
<1>5. ASSUME NEW i \in taken, y = LPlace(InLink(n, i)), y1 = BPlace(n, i, Len(buffer[n][i]) + 1)
      PROVE  Orderly(Src[p], x, y, x1, y1)
  <2>1. Passed(Src[p], y1) = Passed(Src[p], y) + 1
    <3>1. AtLink(InLink(n, i), p, k)
      BY <1>5, PlacesDiffer DEF At
    <3> QED  BY <1>5, <3>1, RxHop
  <2>2. Beside(x, y) => ~(x[3] < y[3])
    <3>1. \A pl, l : Beside(pl, LPlace(l)) => pl[1] = "link"
      BY DEF Beside, LPlace
    <3>2. x[1] = "link" => x[3] = 0
      BY DEF At, QPlace, BPlace, LPlace, RPlace
    <3>3. y[3] = 0
      BY <1>5, PassedAt
    <3> QED  BY <1>5, <3>1, <3>2, <3>3
  <2>3. Beside(x1, y1) => x1[3] < y1[3]
    <3> SUFFICES ASSUME Beside(x1, y1) PROVE x1[3] < y1[3]
      OBVIOUS
    <3>1. PICK j \in Nat : x1 = BPlace(n, i, j) /\ AtBuffer(n, i, j, q, g)'
      BY <1>5 DEF At, Beside, QPlace, BPlace, LPlace, RPlace
    <3>2. buffer[n][i] \in Seq(Stage) /\ i \in Port
      BY DEF WormInv, IInv, TypeOK, Stage, InPort
    <3>3. /\ buffer'[n][i] = Append(buffer[n][i], Stored(wr[InLink(n, i)].flit, i))
          /\ Stored(wr[InLink(n, i)].flit, i) \in Stage
      BY <3>2, StoredFlit DEF RouterRxEffect
    <3>4. Len(buffer'[n][i]) = Len(buffer[n][i]) + 1 /\ Len(buffer[n][i]) \in Nat
      BY <3>2, <3>3, LenProperties, AppendProperties
    <3>5. j \in 1 .. Len(buffer'[n][i])
      BY <3>1 DEF AtBuffer
    <3>6. j # Len(buffer[n][i]) + 1
      BY <1>1, <1>5, <3>1
    <3>7. x1[3] = j /\ y1[3] = Len(buffer[n][i]) + 1
      BY <1>5, <3>1, PassedAt
    <3> QED  BY <3>4, <3>5, <3>6, <3>7
  <2> QED  BY <1>3, <2>1, <2>2, <2>3 DEF Orderly
<1> QED
  BY <1>4, <1>5 DEF RxMove

(* RouterTx: the front of a buffer goes to the link, the others forward.    *)
LEMMA RouterTxOrderly ==
  ASSUME WormInv, NEW n \in Node, NEW out \in [Port -> Port \union {NOT_RESERVED}],
         NEW p \in Packet, NEW q \in Packet, p # q, SameFlow(p, q), NEW k, NEW g,
         NEW x, NEW y, NEW x1, NEW y1,
         At(packet_queue, x, q, g), At(packet_queue, y, p, k),
         TxMove(n, out, x, x1), TxMove(n, out, y, y1),
         At(packet_queue, x1, q, g)', At(packet_queue, y1, p, k)'
  PROVE  Orderly(Src[p], x, y, x1, y1)
<1>1. Src[q] = Src[p] /\ Src[p] \in Node /\ x1 # y1
  BY NoCAssumption, PlaceHasOneNext DEF SameFlow, OnePacket
<1>2. ASSUME NEW i \in Port, out[i] \in Port
      PROVE  /\ Passed(Src[p], LPlace(<<n, out[i]>>)) = 3 + 2 * Distance(Src[p], n)
             /\ \A j : Passed(Src[p], BPlace(n, i, j)) = 2 + 2 * Distance(Src[p], n)
             /\ Passed(Src[p], LPlace(<<n, out[i]>>)) = Passed(Src[p], BPlace(n, i, 1)) + 1
  <2>1. Distance(Src[p], n) \in Nat
    BY <1>1, DistanceNat
  <2> QED  BY <1>2, <2>1, PassedAt
<1>3. ASSUME NEW z, NEW z1, TxMove(n, out, z, z1)
      PROVE  Passed(Src[p], z1) = Passed(Src[p], z) + 1 \/ Beside(z1, z)
  <2>1. \A i, j, h : Beside(BPlace(n, i, j), BPlace(n, i, h))
    BY DEF Beside, BPlace
  <2>2. CASE \E i \in Port : out[i] \in Port /\ z = BPlace(n, i, 1) /\ z1 = LPlace(<<n, out[i]>>)
    BY <1>2, <2>2
  <2>3. CASE \E i \in Port, j \in Nat \ {0} :
               out[i] \in Port /\ z = BPlace(n, i, j + 1) /\ z1 = BPlace(n, i, j)
    BY <2>1, <2>3
  <2>4. CASE z1 = z
    BY <2>4 DEF Beside
  <2> QED  BY <1>3, <2>2, <2>3, <2>4 DEF TxMove
<1>4. ASSUME NEW z, NEW r, NEW h, At(packet_queue, z, r, h), NEW i \in Port, NEW j,
             Beside(z, BPlace(n, i, j))
      PROVE  \E v \in Nat \ {0} : z = BPlace(n, i, v) /\ z[3] = v
  <2>1. PICK v \in Nat : z = BPlace(n, i, v) /\ AtBuffer(n, i, v, r, h)
    BY <1>4 DEF At, Beside, QPlace, BPlace, LPlace, RPlace
  <2>2. v \in 1 .. Len(buffer[n][i])
    BY <2>1 DEF AtBuffer
  <2> QED  BY <2>1, <2>2, PassedAt
<1>5. ASSUME NEW i \in Port, out[i] \in Port, y = BPlace(n, i, 1), y1 = LPlace(<<n, out[i]>>)
      PROVE  Orderly(Src[p], x, y, x1, y1)
  <2>1. Beside(x, y) => ~(x[3] < y[3])
    <3>1. y[3] = 1
      BY <1>5, PassedAt
    <3> QED  BY <1>4, <1>5, <3>1
  <2>2. ~Beside(x1, y1)
    <3>1. Beside(x1, y1) => x1[1] = "link" /\ x1[2] = <<n, out[i]>>
      BY <1>5 DEF Beside, LPlace
    <3>2. x1[1] = "link" => x1 = LPlace(x1[2])
      BY DEF At, QPlace, BPlace, LPlace, RPlace
    <3> QED  BY <1>1, <1>5, <3>1, <3>2
  <2> QED  BY <1>2, <1>3, <1>5, <2>1, <2>2 DEF Orderly
<1>6. ASSUME NEW i \in Port, NEW j \in Nat \ {0}, out[i] \in Port,
             y = BPlace(n, i, j + 1), y1 = BPlace(n, i, j)
      PROVE  Orderly(Src[p], x, y, x1, y1)
  <2>1. Beside(y1, y)
    BY <1>6 DEF Beside, BPlace
  <2>2. ASSUME Beside(x1, x), Beside(x, y), x[3] < y[3] PROVE x1[3] < y1[3]
    <3>1. PICK v \in Nat \ {0} : x = BPlace(n, i, v) /\ x[3] = v
      BY <1>4, <1>6, <2>2
    <3>2. y[3] = j + 1 /\ y1[3] = j
      BY <1>6, PassedAt
    <3>3. x1[1] = "buffer"
      BY <2>2, <3>1 DEF Beside, BPlace
    <3>4. PICK u \in Nat \ {0} : v = u + 1 /\ x1 = BPlace(n, i, u)
      <4>1. \A l : LPlace(l)[1] # "buffer"
        BY DEF LPlace
      <4>2. \A e, w : x = BPlace(n, e, w) => e = i /\ w = v
        <5>1. \A e, w : BPlace(n, i, v) = BPlace(n, e, w) => e = i /\ w = v
          BY PlacesDiffer
        <5> QED  BY <3>1, <5>1
      <4>3. ~(\A e \in Port, w \in Nat \ {0} : out[e] \in Port => x # BPlace(n, e, w))
        BY <1>6, <3>1
      <4> QED  BY <3>3, <4>1, <4>2, <4>3 DEF TxMove
    <3>5. x1[3] = u
      BY <3>4, PassedAt
    <3> QED  BY <2>2, <3>1, <3>2, <3>4, <3>5
  <2> QED  BY <1>3, <2>1, <2>2 DEF Orderly
<1>7. ASSUME \A i \in Port, j \in Nat \ {0} : out[i] \in Port => y # BPlace(n, i, j), y1 = y
      PROVE  Orderly(Src[p], x, y, x1, y1)
  <2>1. ASSUME Beside(x1, x), Beside(x, y) PROVE x1 = x
    <3>1. \A i \in Port, j \in Nat \ {0} : out[i] \in Port => x # BPlace(n, i, j)
      <4> SUFFICES ASSUME NEW i \in Port, NEW j \in Nat \ {0}, out[i] \in Port, x = BPlace(n, i, j)
                   PROVE  FALSE
        OBVIOUS
      <4>1. Beside(y, BPlace(n, i, j))
        BY <2>1 DEF Beside
      <4>2. \E v \in Nat \ {0} : y = BPlace(n, i, v)
        BY <1>4, <4>1
      <4> QED  BY <1>7, <4>2
    <3>2. 1 \in Nat \ {0} /\ \A j \in Nat \ {0} : j + 1 \in Nat \ {0}
      OBVIOUS
    <3> QED  BY <3>1, <3>2 DEF TxMove
  <2> QED  BY <1>3, <1>7, <2>1 DEF Orderly, Beside
<1> QED
  BY <1>5, <1>6, <1>7 DEF TxMove

(* PeRx: a flit comes behind those the PE has.                              *)
LEMMA PeRxOrderly ==
  ASSUME WormInv, NEW n \in Node, PeRx(n),
         NEW p \in Packet, NEW q \in Packet, p # q, SameFlow(p, q), NEW k, NEW g,
         NEW x, NEW y, NEW x1, NEW y1,
         At(packet_queue, x, q, g), At(packet_queue, y, p, k),
         PeMove(n, x, x1), PeMove(n, y, y1),
         At(packet_queue, x1, q, g)', At(packet_queue, y1, p, k)'
  PROVE  Orderly(Src[p], x, y, x1, y1)
<1> DEFINE l0 == <<n, DIRECTION_LOCAL>>
<1>1. Src[q] = Src[p] /\ Src[p] \in Node /\ x1 # y1
  BY NoCAssumption, PlaceHasOneNext DEF SameFlow, OnePacket
<1>2. /\ \A j : Passed(Src[p], RPlace(n, j)) = Passed(Src[p], LPlace(l0)) + 1
      /\ \A j : RPlace(n, j)[3] = j
      /\ LPlace(l0)[3] = 0
  <2>1. DIRECTION_LOCAL \in Port /\ Distance(Src[p], n) \in Nat
    BY <1>1, DistanceNat, PortNumbers DEF DIRECTION_LOCAL
  <2>2. Passed(Src[p], LPlace(l0)) = 3 + 2 * Distance(Src[p], n)
    BY <2>1, PassedAt
  <2>3. \A j : Passed(Src[p], RPlace(n, j)) = 4 + 2 * Distance(Src[p], n)
    BY PassedAt
  <2> QED  BY <2>1, <2>2, <2>3, PassedAt
<1>3. Passed(Src[p], x1) = Passed(Src[p], x) + 1 \/ Beside(x1, x)
  BY <1>2 DEF PeMove, Beside
<1>4. CASE y1 = y
  <2>1. Beside(x1, x) => x1 = x
    <3>1. \A j : ~Beside(RPlace(n, j), LPlace(l0))
      BY DEF Beside, RPlace, LPlace
    <3> QED  BY <3>1 DEF PeMove
  <2> QED  BY <1>3, <1>4, <2>1 DEF Orderly, Beside
<1>5. CASE received'[n] # received[n] /\ y = LPlace(l0) /\ y1 = RPlace(n, Len(received[n]) + 1)
  <2>1. Beside(x, y) => ~(x[3] < y[3])
    <3>1. \A pl, l : Beside(pl, LPlace(l)) => pl[1] = "link"
      BY DEF Beside, LPlace
    <3>2. x[1] = "link" => x[3] = 0
      BY DEF At, QPlace, BPlace, LPlace, RPlace
    <3> QED  BY <1>2, <1>5, <3>1, <3>2
  <2>2. Beside(x1, y1) => x1[3] < y1[3]
    <3> SUFFICES ASSUME Beside(x1, y1) PROVE x1[3] < y1[3]
      OBVIOUS
    <3>1. PICK j \in Nat : x1 = RPlace(n, j) /\ AtPE(n, j, q, g)'
      BY <1>5 DEF At, Beside, QPlace, BPlace, LPlace, RPlace
    <3>2. received[n] \in Seq(Flit)
      BY DEF WormInv, IInv, TypeOK
    <3>3. wr[l0].flit \in Flit /\ received'[n] = Append(received[n], wr[l0].flit)
      BY <1>5, PeRxDoes DEF WormInv, PeRxEffect
    <3>4. Len(received'[n]) = Len(received[n]) + 1 /\ Len(received[n]) \in Nat
      BY <3>2, <3>3, LenProperties, AppendProperties
    <3>5. j \in 1 .. Len(received'[n])
      BY <3>1 DEF AtPE
    <3>6. j # Len(received[n]) + 1
      BY <1>1, <1>5, <3>1
    <3> QED  BY <1>2, <1>5, <3>1, <3>4, <3>5, <3>6
  <2> QED  BY <1>2, <1>3, <1>5, <2>1, <2>2 DEF Orderly
<1> QED
  BY <1>4, <1>5 DEF PeMove

(* PeTx, its second half: a flit of the queue's front goes to the link, and *)
(* the packets behind it move forward when it was the last.                 *)
LEMMA SendOrderly ==
  ASSUME WormInv, NEW n \in Node, NEW pq,
         NEW p \in Packet, NEW q \in Packet, p # q, SameFlow(p, q), NEW k, NEW g,
         NEW x, NEW y, NEW x1, NEW y1, At(pq, x, q, g), At(pq, y, p, k),
         SendMove(n, pq[n], q, g, x, x1), SendMove(n, pq[n], p, k, y, y1),
         At(packet_queue, x1, q, g)', At(packet_queue, y1, p, k)'
  PROVE  Orderly(Src[p], x, y, x1, y1)
<1>1. Src[q] = Src[p] /\ x1 # y1
  BY PlaceHasOneNext DEF SameFlow, OnePacket
<1>2. /\ \A j : Passed(Src[p], QPlace(n, j)) = 0 /\ QPlace(n, j)[3] = j
      /\ Passed(Src[p], LPlace(<<n, PE>>)) = 1
  BY PassedAt
<1>3. \A j, h : Beside(QPlace(n, j), QPlace(n, h))
  BY DEF Beside, QPlace
<1>4. ASSUME NEW r, NEW h, NEW z, NEW z1, SendMove(n, pq[n], r, h, z, z1)
      PROVE  Passed(Src[p], z1) = Passed(Src[p], z) + 1 \/ Beside(z1, z)
  <2>1. Beside(z, z)
    BY DEF Beside
  <2> QED  BY <1>2, <1>3, <1>4, <2>1 DEF SendMove
<1>5. ASSUME NEW r, NEW h, NEW z, NEW j, At(pq, z, r, h), Beside(z, QPlace(n, j))
      PROVE  \E v \in Nat : z = QPlace(n, v + 1) /\ z[3] = v + 1
  <2>1. PICK w \in Nat : z = QPlace(n, w) /\ AtQueue(pq, n, w, r, h)
    BY <1>5 DEF At, Beside, QPlace, BPlace, LPlace, RPlace
  <2>2. w \in 1 .. Len(pq[n])
    BY <2>1 DEF AtQueue
  <2>3. w - 1 \in Nat /\ w = (w - 1) + 1
    BY <2>1, <2>2
  <2> QED  BY <1>2, <2>1, <2>3
<1>6. Passed(Src[p], x1) = Passed(Src[p], x) + 1 \/ Beside(x1, x)
  BY <1>4
<1>7. \A j : ~Beside(LPlace(<<n, PE>>), QPlace(n, j))
  BY DEF Beside, LPlace, QPlace
<1>8. CASE y = QPlace(n, 1) /\ y1 = LPlace(<<n, PE>>)
  <2>1. Beside(x, y) => ~(x[3] < y[3])
    <3>1. Beside(x, y) => \E v \in Nat : x[3] = v + 1
      BY <1>5, <1>8
    <3> QED  BY <1>2, <1>8, <3>1
  <2>2. ~Beside(x1, y1)
    <3>1. Beside(x1, y1) => x1[1] = "link" /\ x1[2] = <<n, PE>>
      BY <1>8 DEF Beside, LPlace
    <3>2. x1[1] = "link" => x1 = LPlace(x1[2])
      BY DEF At, QPlace, BPlace, LPlace, RPlace
    <3> QED  BY <1>1, <1>8, <3>1, <3>2
  <2>3. Passed(Src[p], y1) = Passed(Src[p], y) + 1
    BY <1>2, <1>8
  <2> QED  BY <1>6, <2>1, <2>2, <2>3 DEF Orderly
<1>9. ASSUME NEW j \in Nat, pq[n][1].flit_left = 1, y = QPlace(n, j + 1), y1 = QPlace(n, j)
      PROVE  Orderly(Src[p], x, y, x1, y1)
  <2>1. ASSUME Beside(x1, x), Beside(x, y), x[3] < y[3] PROVE x1[3] < y1[3]
    <3>1. PICK v \in Nat : x = QPlace(n, v + 1) /\ x[3] = v + 1
      <4>1. Beside(x, QPlace(n, j + 1))
        BY <1>9, <2>1
      <4> QED  BY <1>5, <4>1
    <3>2. x1 # LPlace(<<n, PE>>)
      BY <1>7, <2>1, <3>1
    <3>3. PICK u \in Nat : x = QPlace(n, u + 1) /\ x1 = QPlace(n, u)
      BY <1>9, <3>1, <3>2 DEF SendMove
    <3> QED  BY <1>2, <1>9, <2>1, <3>3
  <2>2. Beside(y1, y)
    BY <1>3, <1>9
  <2> QED  BY <1>6, <2>1, <2>2 DEF Orderly
<1>10. CASE y1 = y /\ ~(pq[n][1].flit_left = 1 /\ \E j \in Nat : y = QPlace(n, j + 1))
  <2>1. ASSUME Beside(x1, x), Beside(x, y) PROVE x1 = x
    <3>1. CASE x1 = LPlace(<<n, PE>>) /\ x = QPlace(n, 1)
      BY <1>7, <2>1, <3>1
    <3>2. ASSUME pq[n][1].flit_left = 1, NEW j \in Nat, x = QPlace(n, j + 1) PROVE FALSE
      <4>1. Beside(y, QPlace(n, j + 1))
        BY <2>1, <3>2 DEF Beside
      <4> QED  BY <1>5, <1>10, <3>2, <4>1
    <3> QED  BY <3>1, <3>2 DEF SendMove
  <2> QED  BY <1>6, <1>10, <2>1 DEF Orderly, Beside
<1> QED
  BY <1>8, <1>9, <1>10 DEF SendMove

(* Its first half: canShot fires the packets of a PE in the order of their  *)
(* numbers and puts them at the end of its queue.                           *)
LEMMA FireTurn ==
  ASSUME PlaceInv, RouteInv, InTurn(packet_queue, unsent), NEW n \in Node, NEW p0 \in Packet,
         CanShot(n, p0), NEW pq, AtHome(pq), \A m \in Node \ {n} : pq[m] = packet_queue[m],
         pq[n] = Append(packet_queue[n], [pkt |-> p0, flit_left |-> Size[p0]])
  PROVE  InTurn(pq, unsent \ {p0})
<1>1. WormInv /\ Placed(packet_queue, unsent)
  BY DEF PlaceInv
<1>2. /\ p0 \in unsent /\ Src[p0] = n
      /\ \A q \in unsent : Src[q] = n => p0 <= q
  BY DEF CanShot
<1>3. \A r \in Packet : r \in Nat /\ Size[r] \in Nat \ {0} /\ Size[r] - 1 \in 0 .. Size[r] - 1
  BY NoCAssumption DEF Packet
<1>m. \A r \in Packet : \A k \in 0 .. Size[r] - 1 : \A x :
        At(pq, x, r, k) <=>
          At(packet_queue, x, r, k) \/ (x = QPlace(n, Len(packet_queue[n]) + 1) /\ r = p0)
  <2> SUFFICES ASSUME NEW r \in Packet, NEW k \in 0 .. Size[r] - 1
               PROVE  \A x : At(pq, x, r, k) <=>
                        At(packet_queue, x, r, k)
                          \/ (x = QPlace(n, Len(packet_queue[n]) + 1) /\ r = p0)
    OBVIOUS
  <2>1. WormInv
    BY <1>1
  <2>2. PICK h \in Nat :
          /\ h = Len(packet_queue[n]) + 1
          /\ \A x : At(pq, x, r, k) <=> At(packet_queue, x, r, k) \/ (x = QPlace(n, h) /\ r = p0)
    BY <2>1, FireMoves
  <2> QED  BY <2>2
<1> SUFFICES ASSUME NEW p \in Packet \ (unsent \ {p0}), NEW q \in Packet, SameFlow(p, q), q < p
             PROVE  /\ q \notin unsent \ {p0}
                    /\ \A k \in 0 .. Size[p] - 1 : \A x, y :
                         At(pq, x, q, Size[q] - 1) /\ At(pq, y, p, k) => Ahead(Src[p], x, y)
  BY DEF InTurn
<1>4. CASE p # p0
  <2>1. p \in Packet \ unsent /\ q \notin unsent /\ q # p0
    BY <1>2, <1>4 DEF InTurn
  <2>2. ASSUME NEW k \in 0 .. Size[p] - 1, NEW x, NEW y, At(pq, x, q, Size[q] - 1), At(pq, y, p, k)
        PROVE  Ahead(Src[p], x, y)
    <3>1. At(packet_queue, x, q, Size[q] - 1)
      BY <1>m, <1>3, <2>1, <2>2
    <3>2. At(packet_queue, y, p, k)
      BY <1>m, <1>4, <2>2
    <3> QED  BY <2>1, <3>1, <3>2 DEF InTurn
  <2> QED  BY <2>1, <2>2
<1>5. CASE p = p0
  <2>1. q \notin unsent /\ q # p0
    <3>1. Src[q] = n
      BY <1>2, <1>5 DEF SameFlow
    <3>2. ~(p0 <= q) /\ q # p0
      BY <1>3, <1>5
    <3> QED  BY <1>2, <3>1, <3>2
  <2>2. ASSUME NEW k \in 0 .. Size[p] - 1, NEW x, NEW y, At(pq, x, q, Size[q] - 1), At(pq, y, p, k)
        PROVE  Ahead(Src[p], x, y)
    <3>1. At(packet_queue, x, q, Size[q] - 1)
      BY <1>m, <1>3, <2>1, <2>2
    <3>2. ~At(packet_queue, y, p, k)
      BY <1>1, <1>2, <1>5 DEF Placed, Nowhere
    <3>3. y = QPlace(n, Len(packet_queue[n]) + 1)
      BY <1>m, <2>2, <3>2
    <3>4. /\ InFlow(Src[p], Dst[p], x) /\ InFlow(Src[p], Dst[p], y)
          /\ Src[p] \in Node /\ Dst[p] \in Node /\ Src[p] = n
      BY <1>1, <1>2, <1>5, <2>2, FlitInFlow, NoCAssumption DEF SameFlow
    <3>5. Passed(n, y) = 0 /\ y[3] = Len(packet_queue[n]) + 1
      BY <3>3, PassedAt
    <3>6. Passed(n, x) \in Nat /\ (Passed(n, x) = 0 => Beside(x, y))
      BY <3>4, <3>5, OneRoute
    <3>7. ASSUME Beside(x, y) PROVE x[3] < y[3]
      <4>1. PICK j \in Nat : x = QPlace(n, j) /\ AtQueue(packet_queue, n, j, q, Size[q] - 1)
        BY <3>1, <3>3, <3>7 DEF At, Beside, QPlace, BPlace, LPlace, RPlace
      <4>2. j \in 1 .. Len(packet_queue[n]) /\ x[3] = j /\ Len(packet_queue[n]) \in Nat
        <5>1. packet_queue[n] \in Seq(Waiting)
          BY <1>1 DEF WormInv, IInv, TypeOK, Waiting
        <5> QED  BY <4>1, <5>1, PassedAt, LenProperties DEF AtQueue
      <4> QED  BY <3>5, <4>2
    <3> QED  BY <3>4, <3>5, <3>6, <3>7 DEF Ahead
  <2> QED  BY <2>1, <2>2
<1> QED
  BY <1>4, <1>5

-----------------------------------------------------------------------------
OrderInv == PlaceInv /\ RouteInv /\ InTurn(packet_queue, unsent)

LEMMA InitOrder ==
  ASSUME InitLevels = {0}, RoutingAlgorithms \subseteq {"XY"}, Init
  PROVE  OrderInv
<1>1. unsent = Packet
  BY DEF Init
<1> QED
  BY <1>1, InitPlaces, InitRoute DEF OrderInv, InTurn

LEMMA HomeQueues ==
  ASSUME WormInv PROVE AtHome(packet_queue)
BY DEF WormInv, PacketsAtHome, AtHome

LEMMA RouterRxTurn ==
  ASSUME OrderInv, WormInv', RouteInv', NEW n \in Node, RouterRx(n)
  PROVE  InTurn(packet_queue, unsent)'
<1>1. WormInv /\ RouteInv /\ AtHome(packet_queue)
  BY HomeQueues DEF OrderInv, PlaceInv
<1>2. PICK taken \in SUBSET InPort(n) : RouterRxEffect(n, taken)
  BY <1>1, RouterRxDoes DEF WormInv
<1>3. UNCHANGED <<packet_queue, unsent, received>>
  BY DEF RouterRx, peVars
<1> SUFFICES ASSUME NEW p \in Packet \ unsent, NEW q \in Packet, SameFlow(p, q), q < p
             PROVE  /\ q \notin unsent
                    /\ \A k \in 0 .. Size[p] - 1 : \A x, y :
                         At(packet_queue, x, q, Size[q] - 1)' /\ At(packet_queue, y, p, k)'
                           => Ahead(Src[p], x, y)
  BY <1>3 DEF InTurn
<1>4. /\ q \notin unsent /\ p # q
      /\ \A k \in 0 .. Size[p] - 1 : \A x, y :
           At(packet_queue, x, q, Size[q] - 1) /\ At(packet_queue, y, p, k) => Ahead(Src[p], x, y)
  BY DEF OrderInv, InTurn, Packet
<1>5. ASSUME NEW k \in 0 .. Size[p] - 1, NEW x1, NEW y1,
             At(packet_queue, x1, q, Size[q] - 1)', At(packet_queue, y1, p, k)'
      PROVE  Ahead(Src[p], x1, y1)
  <2>1. PICK x : RxMove(n, taken, x, x1) /\ At(packet_queue, x, q, Size[q] - 1)
    BY <1>1, <1>2, <1>3, <1>5, RouterRxMoves
  <2>2. PICK y : RxMove(n, taken, y, y1) /\ At(packet_queue, y, p, k)
    BY <1>1, <1>2, <1>3, <1>5, RouterRxMoves
  <2>3. Orderly(Src[p], x, y, x1, y1)
    BY <1>1, <1>2, <1>4, <1>5, <2>1, <2>2, RouterRxOrderly, ZenonT(60)
  <2>4. Ahead(Src[p], x, y)
    BY <1>4, <2>1, <2>2
  <2> QED  BY <1>1, <1>5, <2>1, <2>2, <2>3, <2>4, TurnStep, ZenonT(60)
<1> QED
  BY <1>4, <1>5

LEMMA RouterTxTurn ==
  ASSUME OrderInv, WormInv', RouteInv', NEW n \in Node, RouterTx(n)
  PROVE  InTurn(packet_queue, unsent)'
<1>1. WormInv /\ RouteInv /\ AtHome(packet_queue)
  BY HomeQueues DEF OrderInv, PlaceInv
<1>2. PICK out \in [Port -> Port \union {NOT_RESERVED}] : TxEffect(n, out)
  BY <1>1, RouterTxEffect DEF WormInv
<1>3. UNCHANGED <<packet_queue, unsent, received, level_rx>>
  BY DEF RouterTx, peVars
<1> SUFFICES ASSUME NEW p \in Packet \ unsent, NEW q \in Packet, SameFlow(p, q), q < p
             PROVE  /\ q \notin unsent
                    /\ \A k \in 0 .. Size[p] - 1 : \A x, y :
                         At(packet_queue, x, q, Size[q] - 1)' /\ At(packet_queue, y, p, k)'
                           => Ahead(Src[p], x, y)
  BY <1>3 DEF InTurn
<1>4. /\ q \notin unsent /\ p # q
      /\ \A k \in 0 .. Size[p] - 1 : \A x, y :
           At(packet_queue, x, q, Size[q] - 1) /\ At(packet_queue, y, p, k) => Ahead(Src[p], x, y)
  BY DEF OrderInv, InTurn, Packet
<1>5. ASSUME NEW k \in 0 .. Size[p] - 1, NEW x1, NEW y1,
             At(packet_queue, x1, q, Size[q] - 1)', At(packet_queue, y1, p, k)'
      PROVE  Ahead(Src[p], x1, y1)
  <2>1. PICK x : TxMove(n, out, x, x1) /\ At(packet_queue, x, q, Size[q] - 1)
    BY <1>1, <1>2, <1>3, <1>5, RouterTxMoves
  <2>2. PICK y : TxMove(n, out, y, y1) /\ At(packet_queue, y, p, k)
    BY <1>1, <1>2, <1>3, <1>5, RouterTxMoves
  <2>3. Orderly(Src[p], x, y, x1, y1)
    BY <1>1, <1>4, <1>5, <2>1, <2>2, RouterTxOrderly, ZenonT(60)
  <2>4. Ahead(Src[p], x, y)
    BY <1>4, <2>1, <2>2
  <2> QED  BY <1>1, <1>5, <2>1, <2>2, <2>3, <2>4, TurnStep, ZenonT(60)
<1> QED
  BY <1>4, <1>5

LEMMA PeRxTurn ==
  ASSUME OrderInv, WormInv', RouteInv', NEW n \in Node, PeRx(n)
  PROVE  InTurn(packet_queue, unsent)'
<1>1. WormInv /\ RouteInv /\ AtHome(packet_queue)
  BY HomeQueues DEF OrderInv, PlaceInv
<1>2. unsent' = unsent
  BY DEF PeRx
<1> SUFFICES ASSUME NEW p \in Packet \ unsent, NEW q \in Packet, SameFlow(p, q), q < p
             PROVE  /\ q \notin unsent
                    /\ \A k \in 0 .. Size[p] - 1 : \A x, y :
                         At(packet_queue, x, q, Size[q] - 1)' /\ At(packet_queue, y, p, k)'
                           => Ahead(Src[p], x, y)
  BY <1>2 DEF InTurn
<1>4. /\ q \notin unsent /\ p # q
      /\ \A k \in 0 .. Size[p] - 1 : \A x, y :
           At(packet_queue, x, q, Size[q] - 1) /\ At(packet_queue, y, p, k) => Ahead(Src[p], x, y)
  BY DEF OrderInv, InTurn, Packet
<1>5. ASSUME NEW k \in 0 .. Size[p] - 1, NEW x1, NEW y1,
             At(packet_queue, x1, q, Size[q] - 1)', At(packet_queue, y1, p, k)'
      PROVE  Ahead(Src[p], x1, y1)
  <2>1. PICK x : PeMove(n, x, x1) /\ At(packet_queue, x, q, Size[q] - 1)
    BY <1>1, <1>5, PeRxMoves
  <2>2. PICK y : PeMove(n, y, y1) /\ At(packet_queue, y, p, k)
    BY <1>1, <1>5, PeRxMoves
  <2>3. Orderly(Src[p], x, y, x1, y1)
    BY <1>1, <1>4, <1>5, <2>1, <2>2, PeRxOrderly, ZenonT(60)
  <2>4. Ahead(Src[p], x, y)
    BY <1>4, <2>1, <2>2
  <2> QED  BY <1>1, <1>5, <2>1, <2>2, <2>3, <2>4, TurnStep, ZenonT(60)
<1> QED
  BY <1>4, <1>5

LEMMA SendTurn ==
  ASSUME WormInv, RouteInv, WormInv', RouteInv', NEW n \in Node, NEW U, NEW pq,
         AtHome(pq), InTurn(pq, U),
         pq[n] \in Seq(Waiting), Bounded(pq[n]), pq[n] # <<>>,
         UNCHANGED <<buffer, received, level_rx>>,
         \A m \in Node \ {n} : packet_queue'[m] = pq[m],
         packet_queue'[n] = AfterFlit(pq[n]),
         LinkIdle(<<n, PE>>), level_tx'[<<n, PE>>] = 1 - level_tx[<<n, PE>>],
         wr'[<<n, PE>>].flit = nextFlit(pq[n]),
         \A r \in Link \ {<<n, PE>>} : level_tx'[r] = level_tx[r] /\ wr'[r].flit = wr[r].flit,
         unsent' = U
  PROVE  InTurn(packet_queue, unsent)'
<1>3. ASSUME NEW r \in Packet, NEW k \in 0 .. Size[r] - 1
      PROVE  \A y : At(packet_queue, y, r, k)' =>
               \E x : SendMove(n, pq[n], r, k, x, y) /\ At(pq, x, r, k)
  BY <1>3, SendMoves, ZenonT(60)
<1> SUFFICES ASSUME NEW p \in Packet \ U, NEW q \in Packet, SameFlow(p, q), q < p
             PROVE  /\ q \notin U
                    /\ \A k \in 0 .. Size[p] - 1 : \A x, y :
                         At(packet_queue, x, q, Size[q] - 1)' /\ At(packet_queue, y, p, k)'
                           => Ahead(Src[p], x, y)
  BY DEF InTurn
<1>4. /\ q \notin U /\ p # q /\ Size[q] - 1 \in 0 .. Size[q] - 1
      /\ \A k \in 0 .. Size[p] - 1 : \A x, y :
           At(pq, x, q, Size[q] - 1) /\ At(pq, y, p, k) => Ahead(Src[p], x, y)
  BY NoCAssumption DEF InTurn, Packet
<1>5. ASSUME NEW k \in 0 .. Size[p] - 1, NEW x1, NEW y1,
             At(packet_queue, x1, q, Size[q] - 1)', At(packet_queue, y1, p, k)'
      PROVE  Ahead(Src[p], x1, y1)
  <2>1. PICK x : SendMove(n, pq[n], q, Size[q] - 1, x, x1) /\ At(pq, x, q, Size[q] - 1)
    BY <1>3, <1>4, <1>5
  <2>2. PICK y : SendMove(n, pq[n], p, k, y, y1) /\ At(pq, y, p, k)
    BY <1>3, <1>5
  <2>3. Orderly(Src[p], x, y, x1, y1)
    BY <1>4, <1>5, <2>1, <2>2, SendOrderly, ZenonT(60)
  <2>4. Ahead(Src[p], x, y)
    BY <1>4, <2>1, <2>2
  <2> QED  BY <1>5, <2>1, <2>2, <2>3, <2>4, TurnStep, ZenonT(60)
<1> QED
  BY <1>4, <1>5

LEMMA PeTxTurn ==
  ASSUME OrderInv, WormInv', RouteInv', NEW n \in Node, PeTx(n)
  PROVE  InTurn(packet_queue, unsent)'
<1>0. PlaceInv /\ WormInv /\ RouteInv /\ AtHome(packet_queue) /\ InTurn(packet_queue, unsent)
  BY HomeQueues DEF OrderInv, PlaceInv
<1>1. PICK q \in Seq(Waiting) : Bounded(q) /\ PeTxEffect(n, q)
  BY <1>0, PeTxDoes DEF WormInv
<1>2. UNCHANGED <<buffer, rtable, received, level_rx>>
  BY DEF PeTx, routerVars
<1>3. PICK pq : pq = [m \in Node |-> IF m = n THEN q ELSE packet_queue[m]]
  OBVIOUS
<1>4. pq[n] = q /\ \A m \in Node \ {n} : pq[m] = packet_queue[m]
  BY <1>3
<1>5. PICK U : U = unsent'
  OBVIOUS
<1>6. InTurn(pq, U) /\ AtHome(pq)
  <2>1. CASE q = packet_queue[n] /\ unsent' = unsent
    <3>1. \A m \in Node : pq[m] = packet_queue[m]
      BY <1>4, <2>1
    <3>2. \A x, p, k : At(pq, x, p, k) <=> At(packet_queue, x, p, k)
      BY <3>1 DEF At, AtQueue
    <3>3. AtHome(pq)
      BY <1>0, <3>1 DEF AtHome
    <3> QED  BY <1>0, <1>5, <2>1, <3>2, <3>3 DEF InTurn
  <2>2. ASSUME NEW p0 \in Packet, CanShot(n, p0), unsent' = unsent \ {p0},
               q = Append(packet_queue[n], [pkt |-> p0, flit_left |-> Size[p0]])
        PROVE  InTurn(pq, U) /\ AtHome(pq)
    <3>1. AtHome(pq)
      <4> DEFINE b == packet_queue[n]
                 e == [pkt |-> p0, flit_left |-> Size[p0]]
      <4>1. b \in Seq(Waiting) /\ e \in Waiting /\ e.pkt = p0 /\ q = Append(b, e)
        BY <1>0, <2>2, NoCAssumption DEF WormInv, IInv, TypeOK, Waiting
      <4>2. Src[p0] = n /\ \A j \in 1 .. Len(b) : Src[b[j].pkt] = n
        BY <1>0, <2>2 DEF CanShot, AtHome
      <4> HIDE DEF b, e
      <4>3. /\ Len(Append(b, e)) = Len(b) + 1 /\ Len(b) \in Nat
            /\ \A j \in 1 .. Len(b) : Append(b, e)[j] = b[j]
            /\ Append(b, e)[Len(b) + 1] = e
        BY <4>1, LenProperties, AppendProperties
      <4>4. \A j \in 1 .. Len(q) : Src[q[j].pkt] = n
        BY <4>1, <4>2, <4>3
      <4> QED  BY <1>0, <1>4, <4>4 DEF AtHome
    <3>2. pq[n] = Append(packet_queue[n], [pkt |-> p0, flit_left |-> Size[p0]])
      BY <1>4, <2>2
    <3>3. InTurn(pq, unsent \ {p0})
      BY <1>0, <1>4, <2>2, <3>1, <3>2, FireTurn, ZenonT(60)
    <3> QED  BY <1>5, <2>2, <3>1, <3>3
  <2> QED  BY <1>1, <2>1, <2>2 DEF PeTxEffect
<1>7. CASE /\ LinkIdle(<<n, PE>>) /\ q # <<>>
           /\ level_tx'[<<n, PE>>] = 1 - level_tx[<<n, PE>>]
           /\ wr'[<<n, PE>>].flit = nextFlit(q)
           /\ packet_queue'[n] = AfterFlit(q)
  <2>1. \A m \in Node \ {n} : packet_queue'[m] = pq[m]
    BY <1>1, <1>4 DEF PeTxEffect
  <2>2. \A r \in Link \ {<<n, PE>>} : level_tx'[r] = level_tx[r] /\ wr'[r].flit = wr[r].flit
    BY <1>1 DEF PeTxEffect
  <2> QED
    BY <1>0, <1>1, <1>2, <1>4, <1>5, <1>6, <1>7, <2>1, <2>2, SendTurn, ZenonT(60)
<1>8. CASE /\ level_tx'[<<n, PE>>] = level_tx[<<n, PE>>]
           /\ wr'[<<n, PE>>].flit = wr[<<n, PE>>].flit
           /\ packet_queue'[n] = q
  <2>1. \A m \in Node : packet_queue'[m] = pq[m]
    BY <1>1, <1>4, <1>8 DEF PeTxEffect
  <2>2. \A r \in Link : level_tx'[r] = level_tx[r] /\ wr'[r].flit = wr[r].flit
    BY <1>1, <1>8 DEF PeTxEffect
  <2>3. ASSUME NEW x, NEW p, NEW k
        PROVE  At(packet_queue, x, p, k)' <=> At(pq, x, p, k)
    <3>1. \A m \in Node : \A j : /\ AtQueue(packet_queue, m, j, p, k)' <=> AtQueue(pq, m, j, p, k)
                                 /\ AtPE(m, j, p, k)' <=> AtPE(m, j, p, k)
                                 /\ \A i : AtBuffer(m, i, j, p, k)' <=> AtBuffer(m, i, j, p, k)
      BY <1>2, <2>1 DEF AtQueue, AtPE, AtBuffer
    <3>2. \A r \in Link : AtLink(r, p, k)' <=> AtLink(r, p, k)
      BY <1>2, <2>2 DEF AtLink, InFlight
    <3> QED  BY <3>1, <3>2 DEF At
  <2> QED  BY <1>5, <1>6, <2>3 DEF InTurn
<1> QED
  BY <1>1, <1>7, <1>8 DEF PeTxEffect

LEMMA NextOrder ==
  ASSUME OrderInv, [Next]_vars
  PROVE  OrderInv'
<1>1. PlaceInv' /\ WormInv' /\ RouteInv'
  BY NextPlaces, NextRoute DEF OrderInv, PlaceInv
<1>2. ASSUME NEW n \in Node, RouterRx(n) \/ RouterTx(n) \/ PeRx(n) \/ PeTx(n)
      PROVE  InTurn(packet_queue, unsent)'
  BY <1>1, <1>2, RouterRxTurn, RouterTxTurn, PeRxTurn, PeTxTurn
<1>3. ASSUME ClockEdge \/ UNCHANGED vars PROVE InTurn(packet_queue, unsent)'
  <2>1. UNCHANGED <<buffer, packet_queue, received, unsent, level_tx, level_rx, wr>>
    BY <1>3 DEF ClockEdge, vars, routerVars, peVars
  <2>2. \A x, p, k : At(packet_queue, x, p, k)' <=> At(packet_queue, x, p, k)
    BY <2>1 DEF At, AtQueue, AtPE, AtBuffer, AtLink, InFlight
  <2> QED
    BY <2>1, <2>2 DEF OrderInv, InTurn
<1> QED
  BY <1>1, <1>2, <1>3 DEF Next, OrderInv

-----------------------------------------------------------------------------
(* The mesh implements the abstract network of packets.                     *)

(* Arrived counts the places of last flits at the PEs.                      *)
LastsAreFinite == \A n \in Node : \A p \in Packet :
  /\ Lasts(n, p) = { j \in 1 .. Len(received[n]) : AtPE(n, j, p, Size[p] - 1) }
  /\ Arrived[n][p] = Cardinality(Lasts(n, p))
  /\ IsFiniteSet(Lasts(n, p)) /\ Cardinality(Lasts(n, p)) \in Nat
  /\ Cardinality(Lasts(n, p)) = 0 <=> Lasts(n, p) = {}

LEMMA FiniteLasts == WormInv => LastsAreFinite
<1> SUFFICES ASSUME WormInv, NEW n \in Node, NEW p \in Packet
             PROVE  /\ Lasts(n, p) = { j \in 1 .. Len(received[n]) : AtPE(n, j, p, Size[p] - 1) }
                    /\ Arrived[n][p] = Cardinality(Lasts(n, p))
                    /\ IsFiniteSet(Lasts(n, p)) /\ Cardinality(Lasts(n, p)) \in Nat
                    /\ Cardinality(Lasts(n, p)) = 0 <=> Lasts(n, p) = {}
  BY DEF LastsAreFinite
<1>1. received[n] \in Seq(Flit)
  BY DEF WormInv, IInv, TypeOK
<1>2. DOMAIN received[n] = 1 .. Len(received[n]) /\ Len(received[n]) \in Nat
  BY <1>1, LenProperties
<1>3. Lasts(n, p) = { j \in 1 .. Len(received[n]) : AtPE(n, j, p, Size[p] - 1) }
  BY <1>2 DEF Lasts, AtPE
<1>4. IsFiniteSet(Lasts(n, p))
  <2>1. IsFiniteSet(1 .. Len(received[n]))
    BY <1>2, FS_Interval
  <2> QED  BY <1>3, <2>1, FS_Subset
<1>5. Cardinality(Lasts(n, p)) \in Nat /\ (Cardinality(Lasts(n, p)) = 0 <=> Lasts(n, p) = {})
  BY <1>4, FS_CardinalityType, FS_EmptySet
<1>6. Arrived[n][p] = Cardinality(Lasts(n, p))
  BY DEF Arrived
<1> QED
  BY <1>3, <1>4, <1>5, <1>6

LEMMA FiniteLastsNext == WormInv' => LastsAreFinite'
BY FiniteLasts, PTL

LEMMA SameArrivals ==
  ASSUME \A n \in Node : received'[n] = received[n]
  PROVE  Arrived' = Arrived
<1>1. \A n \in Node, p \in Packet : Lasts(n, p)' = Lasts(n, p)
  BY DEF Lasts
<1> QED
  BY <1>1 DEF Arrived

(* When the last flit of a packet gets to its PE, the packets of its flow   *)
(* that were sent before it are there.                                      *)
LEMMA EarlierOnesThere ==
  ASSUME OrderInv, NEW n \in Node, NEW p \in Packet, AtLink(<<n, DIRECTION_LOCAL>>, p, Size[p] - 1)
  PROVE  /\ p \notin unsent /\ Dst[p] = n /\ Lasts(n, p) = {}
         /\ \A q \in Packet : SameFlow(p, q) /\ q < p => Lasts(n, q) # {}
<1> DEFINE l0 == <<n, DIRECTION_LOCAL>>
<1>1. /\ WormInv /\ RouteInv /\ InTurn(packet_queue, unsent) /\ Placed(packet_queue, unsent)
      /\ AtHome(packet_queue)
  BY HomeQueues DEF OrderInv, PlaceInv
<1>2. /\ l0 \in Link /\ DIRECTION_LOCAL \in InPort(n) /\ DIRECTION_LOCAL \in Port
      /\ DIRECTION_LOCAL \notin Direction
  BY PortNumbers DEF Link, InPort, DIRECTION_LOCAL
<1>3. /\ Src[p] \in Node /\ Dst[p] \in Node
      /\ \A r \in Packet : Size[r] - 1 \in 0 .. Size[r] - 1
  BY NoCAssumption
<1>4. At(packet_queue, LPlace(l0), p, Size[p] - 1)
  BY <1>2 DEF At
<1>5. p \notin unsent
  BY <1>1, <1>3, <1>4 DEF Placed, Nowhere
<1>6. Dst[p] = n
  <2>1. wr[l0].flit.pkt = p /\ wr[l0].flit # NoFlit
    BY PacketNotZero DEF AtLink, Is, NoFlit
  <2> QED  BY <1>1, <1>2, <2>1 DEF WormInv, LinksOnPath, Leads
<1>7. \A q \in Packet : Lasts(n, q) = { j \in 1 .. Len(received[n]) : AtPE(n, j, q, Size[q] - 1) }
  BY <1>1, FiniteLasts DEF LastsAreFinite
<1>8. Lasts(n, p) = {}
  <2> SUFFICES ASSUME NEW j \in Lasts(n, p) PROVE FALSE
    OBVIOUS
  <2>1. j \in Nat /\ AtPE(n, j, p, Size[p] - 1)
    BY <1>7
  <2>2. At(packet_queue, RPlace(n, j), p, Size[p] - 1)
    BY <2>1 DEF At
  <2>3. OnePlace(packet_queue, p, Size[p] - 1)
    BY <1>1, <1>3, <1>5 DEF Placed
  <2>4. RPlace(n, j) = LPlace(l0)
    BY <1>4, <2>2, <2>3 DEF OnePlace
  <2> QED  BY <2>4, PlacesDiffer
<1>9. ASSUME NEW q \in Packet, SameFlow(p, q), q < p PROVE Lasts(n, q) # {}
  <2>1. q \notin unsent
    BY <1>1, <1>5, <1>9 DEF InTurn
  <2>2. PICK x : At(packet_queue, x, q, Size[q] - 1)
    BY <1>1, <1>3, <2>1 DEF Placed, OnePlace
  <2>3. Ahead(Src[p], x, LPlace(l0))
    BY <1>1, <1>3, <1>4, <1>5, <1>9, <2>2 DEF InTurn
  <2>4. InFlow(Src[p], Dst[p], x) /\ InFlow(Src[p], Dst[p], LPlace(l0))
    BY <1>1, <1>4, <1>9, <2>2, FlitInFlow DEF SameFlow
  <2>5. Passed(Src[p], LPlace(l0)) = 3 + 2 * Distance(Src[p], n) /\ LPlace(l0)[3] = 0
    BY <1>2, PassedAt
  <2>6. x[3] \in Nat /\ Passed(Src[p], x) > 3 + 2 * Distance(Src[p], n)
    <3>1. x[3] \in Nat
      BY <1>3, <2>4, OneRoute
    <3> QED  BY <2>3, <2>5, <3>1 DEF Ahead
  <2>7. \E j \in Nat : x = RPlace(n, j)
    <3>1. Distance(Src[p], n) \in Nat /\ \A m \in Node : Distance(Src[p], m) \in Nat
      BY <1>3, DistanceNat
    <3>2. \A j : Passed(Src[p], QPlace(Src[p], j)) = 0
      BY PassedAt
    <3>3. Passed(Src[p], LPlace(<<Src[p], PE>>)) = 1
      BY PassedAt
    <3>4. \A m, i, j : Passed(Src[p], BPlace(m, i, j)) = 2 + 2 * Distance(Src[p], m)
      BY PassedAt
    <3>5. \A m, o : o \in Port => Passed(Src[p], LPlace(<<m, o>>)) = 3 + 2 * Distance(Src[p], m)
      BY PassedAt
    <3>6. ASSUME NEW m \in Node, Distance(Src[p], m) <= Distance(Src[p], n)
          PROVE  /\ \A i, j : x # BPlace(m, i, j)
                 /\ \A o \in Port : x # LPlace(<<m, o>>)
      BY <2>6, <3>1, <3>4, <3>5, <3>6
    <3>7. \A j : x # QPlace(Src[p], j)
      BY <2>6, <3>1, <3>2
    <3>8. x # LPlace(<<Src[p], PE>>)
      BY <2>6, <3>1, <3>3
    <3> QED  BY <1>6, <2>4, <3>6, <3>7, <3>8 DEF InFlow
  <2>8. PICK j \in Nat : AtPE(n, j, q, Size[q] - 1)
    BY <2>2, <2>7, PlacesDiffer DEF At
  <2> QED  BY <1>7, <2>8 DEF AtPE
<1> QED
  BY <1>5, <1>6, <1>8, <1>9

LEMMA PeRxDelivers ==
  ASSUME OrderInv, WormInv', NEW n \in Node, PeRx(n)
  PROVE  UNCHANGED Net!vars \/ \E p \in Packet : Net!Deliver(p)
<1> DEFINE l0 == <<n, DIRECTION_LOCAL>>
<1>1. PeRxEffect(n) /\ WormInv
  BY PeRxDoes DEF OrderInv, PlaceInv, WormInv
<1>2. unsent' = unsent /\ \A m \in Node \ {n} : received'[m] = received[m]
  BY <1>1 DEF PeRx, PeRxEffect
<1>3. CASE received'[n] = received[n]
  <2>1. Arrived' = Arrived
    BY <1>2, <1>3, SameArrivals
  <2> QED  BY <1>2, <2>1 DEF Net!vars
<1>4. CASE InFlight(l0) /\ wr[l0].flit \in Flit /\ received'[n] = Append(received[n], wr[l0].flit)
  <2>1. PICK f \in Flit : f = wr[l0].flit
    BY <1>4
  <2>2. PICK h : h = Len(received[n]) + 1
    OBVIOUS
  <2>3. received[n] \in Seq(Flit)
    BY <1>1 DEF WormInv, IInv, TypeOK
  <2>4. /\ Len(received[n]) \in Nat /\ Len(received'[n]) = h
        /\ \A j \in 1 .. Len(received[n]) : received'[n][j] = received[n][j]
        /\ received'[n][h] = f
    BY <1>4, <2>1, <2>2, <2>3, LenProperties, AppendProperties
  <2>5. h \notin 1 .. Len(received[n]) /\ \A j : j \in 1 .. h <=> j \in 1 .. Len(received[n]) \/ j = h
    BY <2>2, <2>4
  <2>6. \A m \in Node, p \in Packet :
          /\ Lasts(m, p) = { j \in 1 .. Len(received[m]) : AtPE(m, j, p, Size[p] - 1) }
          /\ Arrived[m][p] = Cardinality(Lasts(m, p))
          /\ IsFiniteSet(Lasts(m, p)) /\ Cardinality(Lasts(m, p)) \in Nat
          /\ Cardinality(Lasts(m, p)) = 0 <=> Lasts(m, p) = {}
    BY <1>1, FiniteLasts DEF LastsAreFinite
  <2>7. \A p \in Packet :
          Lasts(n, p)' = { j \in 1 .. Len(received'[n]) : AtPE(n, j, p, Size[p] - 1)' }
    BY FiniteLastsNext DEF LastsAreFinite
  <2>8. \A m \in Node \ {n}, p \in Packet : Lasts(m, p)' = Lasts(m, p)
    BY <1>2 DEF Lasts
  <2>9. ASSUME NEW p \in Packet
        PROVE  Lasts(n, p)' = IF Is(f, p, Size[p] - 1) THEN Lasts(n, p) \union {h} ELSE Lasts(n, p)
    <3>1. \A j \in 1 .. Len(received[n]) :
            AtPE(n, j, p, Size[p] - 1)' <=> AtPE(n, j, p, Size[p] - 1)
      BY <2>4, <2>5 DEF AtPE
    <3>2. AtPE(n, h, p, Size[p] - 1)' <=> Is(f, p, Size[p] - 1)
      BY <2>4, <2>5 DEF AtPE
    <3>3. Lasts(n, p) = { j \in 1 .. Len(received[n]) : AtPE(n, j, p, Size[p] - 1) }
      BY <2>6
    <3>4. Lasts(n, p)' = { j \in 1 .. h : AtPE(n, j, p, Size[p] - 1)' }
      BY <2>4, <2>7
    <3> QED  BY <2>5, <3>1, <3>2, <3>3, <3>4
  <2>10. CASE ~IsLast(f)
    <3>1. \A p \in Packet : ~Is(f, p, Size[p] - 1)
      BY <2>10 DEF IsLast, Is
    <3>2. \A m \in Node, p \in Packet : Lasts(m, p)' = Lasts(m, p)
      BY <2>8, <2>9, <3>1
    <3>3. Arrived' = Arrived
      BY <3>2 DEF Arrived
    <3> QED  BY <1>2, <3>3 DEF Net!vars
  <2>11. CASE IsLast(f)
    <3>1. PICK p \in Packet : p = f.pkt
      BY DEF Flit
    <3>2. /\ Is(f, p, Size[p] - 1)
          /\ \A q \in Packet : q # p => ~Is(f, q, Size[q] - 1)
      BY <2>11, <3>1 DEF IsLast, Is
    <3>3. AtLink(l0, p, Size[p] - 1)
      BY <1>4, <2>1, <3>2 DEF AtLink
    <3>4. /\ p \notin unsent /\ Dst[p] = n /\ Lasts(n, p) = {}
          /\ \A q \in Packet : SameFlow(p, q) /\ q < p => Lasts(n, q) # {}
      BY <3>3, EarlierOnesThere
    <3>5. ~Net!Delivered(p)
      BY <2>6, <3>4 DEF Net!Delivered
    <3>6. \A q \in Packet : Net!SameFlow(p, q) /\ q < p => Net!Delivered(q)
      BY <2>6, <3>4 DEF Net!Delivered, Net!SameFlow, SameFlow
    <3>7. Arrived' = [Arrived EXCEPT ![Dst[p]][p] = @ + 1]
      <4>1. \A m \in Node, q \in Packet : m # n \/ q # p => Lasts(m, q)' = Lasts(m, q)
        BY <2>8, <2>9, <3>2
      <4>2. Cardinality(Lasts(n, p)') = Cardinality(Lasts(n, p)) + 1
        <5>1. Lasts(n, p)' = Lasts(n, p) \union {h} /\ h \notin Lasts(n, p)
          BY <2>9, <3>2, <3>4
        <5> QED  BY <2>6, <5>1, FS_AddElement
      <4> QED  BY <3>4, <4>1, <4>2 DEF Arrived
    <3>8. Net!Deliver(p)
      BY <1>2, <3>4, <3>5, <3>6, <3>7 DEF Net!Deliver, Net!Packet, Packet
    <3> QED  BY <3>8
  <2> QED  BY <2>10, <2>11
<1> QED
  BY <1>1, <1>3, <1>4 DEF PeRxEffect

LEMMA PeTxSends ==
  ASSUME WormInv, NEW n \in Node, PeTx(n)
  PROVE  UNCHANGED Net!vars \/ \E p \in Packet : Net!Send(p)
<1>1. Arrived' = Arrived
  <2>1. received' = received
    BY DEF PeTx
  <2> QED  BY <2>1, SameArrivals
<1>2. unsent' = unsent \/ \E p \in Packet : CanShot(n, p) /\ unsent' = unsent \ {p}
  BY DEF PeTx
<1>3. ASSUME NEW p \in Packet, CanShot(n, p), unsent' = unsent \ {p}
      PROVE  Net!Send(p)
  BY <1>1, <1>3 DEF CanShot, Net!Send
<1> QED
  BY <1>1, <1>2, <1>3 DEF Net!vars

LEMMA NextRefines ==
  ASSUME OrderInv, WormInv', [Next]_vars
  PROVE  [Net!Next]_(Net!vars)
<1>0. WormInv
  BY DEF OrderInv, PlaceInv
<1>1. ASSUME NEW n \in Node, RouterRx(n) \/ RouterTx(n) PROVE UNCHANGED Net!vars
  <2>1. UNCHANGED <<received, unsent>>
    BY <1>1 DEF RouterRx, RouterTx, peVars
  <2> QED  BY <2>1, SameArrivals DEF Net!vars
<1>2. CASE ClockEdge \/ UNCHANGED vars
  <2>1. UNCHANGED <<received, unsent>>
    BY <1>2 DEF ClockEdge, vars, peVars
  <2>2. UNCHANGED Net!vars
    BY <2>1, SameArrivals DEF Net!vars
  <2> QED  BY <2>2
<1>3. ASSUME NEW n \in Node, PeRx(n) PROVE [Net!Next]_(Net!vars)
  BY <1>3, PeRxDelivers DEF Net!Next, Net!Packet, Packet
<1>4. ASSUME NEW n \in Node, PeTx(n) PROVE [Net!Next]_(Net!vars)
  BY <1>0, <1>4, PeTxSends DEF Net!Next, Net!Packet, Packet
<1> QED
  BY <1>1, <1>2, <1>3, <1>4 DEF Next

LEMMA InitRefines ==
  ASSUME Init
  PROVE  Net!Init
<1>1. \A n \in Node, p \in Packet : Lasts(n, p) = {}
  BY DEF Init, Lasts
<1>2. Cardinality({}) = 0
  BY FS_EmptySet
<1>3. Arrived = [n \in Node |-> [p \in Packet |-> 0]]
  BY <1>1, <1>2 DEF Arrived
<1> QED
  BY <1>3 DEF Init, Net!Init, Net!Packet, Packet

(* The routers, under XY and from a reset chip, implement the abstract      *)
(* network: each packet is delivered once, where it is sent to, and in the  *)
(* order of its flow.                                                       *)
THEOREM ImplementsNetwork ==
  ASSUME InitLevels = {0}, RoutingAlgorithms \subseteq {"XY"}
  PROVE  Spec => ImplementsPacketNet
<1>1. Init => OrderInv
  BY InitOrder
<1>2. OrderInv /\ [Next]_vars => OrderInv'
  BY NextOrder
<1>3. OrderInv /\ OrderInv' /\ [Next]_vars => [Net!Next]_(Net!vars)
  BY NextRefines DEF OrderInv, PlaceInv
<1>4. Init => Net!Init
  BY InitRefines
<1> QED
  BY <1>1, <1>2, <1>3, <1>4, PTL DEF Spec, ImplementsPacketNet, Net!Spec
=============================================================================
