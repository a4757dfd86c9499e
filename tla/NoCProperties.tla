---------------------------- MODULE NoCProperties ----------------------------
(***************************************************************************)
(* What the wired network must guarantee: the properties the runs check.   *)
(***************************************************************************)
EXTENDS NoC

(* A flit was transmitted on the link and its receiver has not taken it.    *)
InFlight(l) == level_tx[l] # level_rx[l]

(* g may stand right behind f: the next flit of its packet, or the head of  *)
(* another packet when f was the last one of its own.                       *)
Follows(f, g) ==
  IF IsLast(f) THEN IsHead(g) ELSE g.pkt = f.pkt /\ g.seq = f.seq + 1

Is(f, p, k) == f.pkt = p /\ f.seq = k

(* How many copies of flit k of packet p each kind of place holds. *)
InQueues(p, k) ==
  Cardinality({ at \in Node \X (1 .. NumPackets) :
    LET q == packet_queue[at[1]] IN
      /\ at[2] \in DOMAIN q
      /\ q[at[2]].pkt = p
      /\ k >= Size[p] - q[at[2]].flit_left })
InBuffers(p, k) ==
  Cardinality({ at \in Node \X Port \X (1 .. BufferDepth) :
    LET b == buffer[at[1]][at[2]] IN at[3] \in DOMAIN b /\ Is(b[at[3]].flit, p, k) })
OnLinks(p, k) == Cardinality({ l \in Link : InFlight(l) /\ Is(wr[l].flit, p, k) })
AtPEs(p, k) ==
  Cardinality({ j \in DOMAIN received[Dst[p]] : Is(received[Dst[p]][j], p, k) })

(* Router::rxProcess, Router::txProcess and the PE hand a flit on without   *)
(* ever losing or copying it: each flit of a packet that was generated is   *)
(* in exactly one place, from the PE that sent it to the PE that got it.    *)
FlitConservation ==
  \A p \in Packet : \A k \in 0 .. Size[p] - 1 :
    InQueues(p, k) + InBuffers(p, k) + OnLinks(p, k) + AtPEs(p, k)
      = IF p \in unsent THEN 0 ELSE 1

(* A PE only ever gets flits addressed to it, whole packets one after the   *)
(* other (never two interleaved), over a path of minimal length.            *)
PacketsIntact ==
  \A n \in Node : LET r == received[n] IN
    /\ r # <<>> => IsHead(r[1])
    /\ \A j \in DOMAIN r :
         /\ Dst[r[j].pkt] = n
         /\ j > 1 => Follows(r[j - 1], r[j])
         /\ r[j].hop_no = Distance(Src[r[j].pkt], n)

(* Wormhole switching: while the flits of a packet pass an output port,     *)
(* exactly the input port they come from holds it; and the next flit to     *)
(* cross is the next of the packet.  Once the last one has crossed, the     *)
(* port is free.  No input port holds two outputs.                          *)
Wormhole ==
  \A n \in Node : \A o \in InPort(n) :
    LET f == wr[<<n, o>>].flit
        i == rtable[n][o]
    IN  /\ i \in Port <=> f # NoFlit /\ ~IsLast(f)
        /\ i \in Port =>
             /\ \A q \in Port : rtable[n][q] = i => q = o
             /\ buffer[n][i] # <<>> => Follows(f, FrontOf(n, i).flit)

(* The flits of a packet lie behind each other in every input buffer, and   *)
(* the buffer never exceeds its depth, so Buffer::Push never drops.         *)
BuffersInOrder ==
  \A n \in Node : \A i \in Port :
    /\ Len(buffer[n][i]) <= BufferDepth
    /\ \A j \in 2 .. Len(buffer[n][i]) :
         Follows(buffer[n][i][j - 1].flit, buffer[n][i][j].flit)

(* The signals of a link are only overwritten by the next flit when the     *)
(* receiver has taken the one they hold (alternating-bit protocol).         *)
NoOverwrite ==
  [][\A l \in Link : wr'[l].flit # wr[l].flit => ~InFlight(l)]_vars

(* No flit is taken from a link on which nothing was sent: Main.cpp says it *)
(* resets the chip before it runs the simulation, which would make the two  *)
(* ends of every link agree.                                                *)
NoPhantomFlit ==
  /\ \A n \in Node : \A i \in Port : \A j \in DOMAIN buffer[n][i] :
       buffer[n][i][j].flit.pkt # NoFlit.pkt
  /\ \A n \in Node : \A j \in DOMAIN received[n] : received[n][j] # NoFlit

(* ReservationTable::isAvailable throws for a port that leads off the mesh, *)
(* and no caller on the way of a flit catches it: no head that is ready in  *)
(* any router may be given such a port, whatever the selection picks.       *)
NeverThrows ==
  \A n \in Node : \A i \in Ready(n) : \A o \in Candidates(n, i) :
    rtable[n][o] # NOT_VALID

-----------------------------------------------------------------------------
(* A packet has arrived when the PE has received its last flit.             *)
Lasts(n, p) == { j \in DOMAIN received[n] : Is(received[n][j], p, Size[p] - 1) }

Arrived == [n \in Node |-> [p \in Packet |-> Cardinality(Lasts(n, p))]]

Net == INSTANCE PacketNet WITH Nodes <- Node, arrived <- Arrived

(* The mesh of routers implements the abstract network: every packet is     *)
(* delivered exactly once, at its destination, and the packets of one       *)
(* source and destination arrive in the order they were sent, which the     *)
(* spike times of the application rely on.                                  *)
ImplementsPacketNet == Net!Spec

(* No arrangement of waiting wormholes blocks the network for ever: every   *)
(* packet of the trace is completely received by its destination.           *)
EveryPacketArrives == Net!EveryPacketArrives
=============================================================================
