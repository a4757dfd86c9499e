------------------------------ MODULE PacketNet ------------------------------
(***************************************************************************)
(* What the network promises to the spiking application, without routers:  *)
(* every packet is delivered at most once, at its destination only, after  *)
(* it was sent, and the packets of one source and destination arrive in    *)
(* the order in which they were sent.                                      *)
(***************************************************************************)
EXTENDS Naturals

CONSTANTS
  Nodes,
  NumPackets,
  Src, Dst      \* of each packet

Packet == 1 .. NumPackets

VARIABLES
  unsent,       \* packets not yet handed to the network
  arrived       \* per node and packet, how often it was delivered there

vars == <<unsent, arrived>>

SameFlow(p, q) == Src[p] = Src[q] /\ Dst[p] = Dst[q]

Delivered(p) == arrived[Dst[p]][p] > 0

Init ==
  /\ unsent = Packet
  /\ arrived = [n \in Nodes |-> [p \in Packet |-> 0]]

(* A source hands its packets to the network in the order of their numbers. *)
Send(p) ==
  /\ p \in unsent
  /\ \A q \in unsent : Src[q] = Src[p] => p <= q
  /\ unsent' = unsent \ {p}
  /\ UNCHANGED arrived

Deliver(p) ==
  /\ p \notin unsent
  /\ ~Delivered(p)
  /\ \A q \in Packet : SameFlow(p, q) /\ q < p => Delivered(q)
  /\ arrived' = [arrived EXCEPT ![Dst[p]][p] = @ + 1]
  /\ UNCHANGED unsent

Next == \E p \in Packet : Send(p) \/ Deliver(p)

Spec == Init /\ [][Next]_vars

(* Every packet of the application is sent and gets to its destination: as  *)
(* a packet stays delivered, one day all of them are.                       *)
EveryPacketArrives == <>(\A p \in Packet : Delivered(p))
=============================================================================
