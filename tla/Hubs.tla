--------------------------------- MODULE Hubs ---------------------------------
(***************************************************************************)
(* The wireless part of snnNoxim: hubs that collect flits from the tiles   *)
(* attached to them, send them to each other over one radio channel, and   *)
(* hand them to the tiles.  Who may send is decided by a token that a ring *)
(* of the hubs passes on, by one of three policies.                        *)
(*                                                                         *)
(* A clock edge is as in module NoC: each process runs once and reads the  *)
(* signals as they were before the edge.  The processes of an edge share   *)
(* nothing else here, so that one order stands for all: the ring, which    *)
(* reads the flags, runs before the hubs that write them, and what it      *)
(* writes becomes visible with ClockEdge.  A transmission is a thread that *)
(* waits for whole cycles and wakes up before the processes of an edge run.*)
(***************************************************************************)
EXTENDS Integers, Sequences, FiniteSets

CONSTANTS
  NumHubs,         \* hubs on the channel, numbered from 0
  attachedNodes,   \* per hub, the tiles at its ports 0, 1, ...
  RxDepth, TxDepth, ToTileDepth, FromTileDepth,  \* sizes of the four buffers
  Policies,        \* the policies of the token that are considered
  Latencies,       \* the flit_transmission_cycles that are considered
  MaxHold,         \* num_hold_cycles or max_hold_cycles
  NumPackets,
  Dst, Size,       \* of each packet: the tile it goes to, its flits
  Traffic,         \* per tile, the packets it sends: the choices considered
  SlowTile         \* tiles whose router may have no room for a flit

Hub    == 0 .. NumHubs - 1
Packet == 1 .. NumPackets
Policy == {"TOKEN_PACKET", "TOKEN_HOLD", "TOKEN_MAX_HOLD"}

Attached(h) == { attachedNodes[h][i] : i \in DOMAIN attachedNodes[h] }
Tile        == UNION { Attached(h) : h \in Hub }

(* TokenRing::attachHub asserts that a flit can be sent while the token is  *)
(* held; a channel of a single hub has nothing to send.                     *)
ASSUME HubAssumption ==
  /\ NumHubs \in Nat \ {0, 1}
  /\ attachedNodes \in [Hub -> Seq(Nat)]
  /\ \A h, g \in Hub : \A i \in DOMAIN attachedNodes[h], j \in DOMAIN attachedNodes[g] :
       attachedNodes[h][i] = attachedNodes[g][j] => h = g /\ i = j
  /\ RxDepth \in Nat \ {0} /\ TxDepth \in Nat \ {0}
  /\ ToTileDepth \in Nat \ {0} /\ FromTileDepth \in Nat \ {0}
  /\ Policies \subseteq Policy
  /\ Latencies \subseteq Nat \ {0}
  /\ MaxHold \in Nat /\ \A n \in Latencies : n < MaxHold
  /\ NumPackets \in Nat
  /\ Dst \in [Packet -> Tile]
  /\ Size \in [Packet -> Nat \ {0}]
  /\ Traffic \subseteq [Tile -> Seq(Packet)]
  /\ SlowTile \subseteq Tile

num_ports(h) == Len(attachedNodes[h])
hub_for_tile == [t \in Tile |-> CHOOSE h \in Hub : t \in Attached(h)]
tile2port_mapping ==
  [t \in Tile |-> CHOOSE i \in 0 .. num_ports(hub_for_tile[t]) - 1 :
                    attachedNodes[hub_for_tile[t]][i + 1] = t]

(* Router::routingFunction takes the hub port only to tiles of other hubs;  *)
(* a packet is made once, by one tile.                                      *)
ASSUME TrafficAssumption ==
  \A queues \in Traffic : \A t \in Tile : \A k \in DOMAIN queues[t] :
    /\ hub_for_tile[Dst[queues[t][k]]] # hub_for_tile[t]
    /\ \A u \in Tile : \A l \in DOMAIN queues[u] :
         queues[t][k] = queues[u][l] => t = u /\ k = l

Flit == [pkt : Packet, seq : Nat]
IsHead(f) == f.seq = 0
IsTail(f) == f.seq > 0 /\ f.seq = Size[f.pkt] - 1    \* a single flit is a HEAD

NOT_RESERVED == -2

VARIABLES
  policy, flit_transmission_cycles,  \* the configuration of the channel
  queue,             \* per tile, the packets its router has yet to send by radio
  sent,              \* how many flits of the first of them it has sent
  link_in,           \* the flit on the link from a tile, not yet taken by its hub
  link_out,          \* the flit on the link to a tile
  fresh,             \* req and level of that link differ: there is a flit to take
  received,          \* the flits the routers have taken from the hubs
  refused,           \* tiles whose router was full when there was one to take
  buffer_from_tile, buffer_to_tile,              \* Hub, per tile
  start_from_port,                               \* Hub, modulo num_ports
  tile2antenna_reservation,                      \* Hub: the tile that has the channel
  antenna2tile_reservation,                      \* Hub: the tiles reserved by the channel
  buffer_tx, buffer_rx,                          \* Initiator, Target
  flag,                                          \* the hub releases the token
  cycles_left,       \* of a transmission; 0 while thread_process waits to be started
  current_token_holder, current_token_expiration,  \* signals to the hubs
  token_position, token_hold_count,                \* TokenRing
  todo               \* the processes still to run in this clock edge

configVars == <<policy, flit_transmission_cycles>>
tileVars   == <<queue, sent, link_in>>
portVars   == <<link_out, fresh, received, refused>>
fromVars   == <<buffer_from_tile, start_from_port, tile2antenna_reservation>>
radioVars  == <<buffer_tx, flag, cycles_left>>
rxVars     == <<antenna2tile_reservation, buffer_rx, buffer_to_tile>>
signalVars == <<current_token_holder, current_token_expiration>>
ringVars   == <<token_position, token_hold_count>>
vars == <<configVars, tileVars, portVars, fromVars, radioVars, rxVars,
          signalVars, ringVars, todo>>

-----------------------------------------------------------------------------
(* The processes of an edge, in the order in which they are let run.  Those *)
(* of the tiles that have no flit to take do nothing and are left out.      *)
Processes ==
  {<<1, 0>>} \union ({2} \X { t \in Tile : fresh[t] }) \union ({3, 4} \X Hub)

Before(p, q) == p[1] < q[1] \/ (p[1] = q[1] /\ p[2] < q[2])

Run(p) ==
  /\ p \in todo
  /\ \A q \in todo : ~Before(q, p)
  /\ todo' = todo \ {p}

Init ==
  /\ policy \in Policies
  /\ flit_transmission_cycles \in Latencies
  /\ queue \in Traffic
  /\ sent = [t \in Tile |-> 0]
  /\ link_in = [t \in Tile |-> <<>>]
  /\ link_out = [t \in Tile |-> <<>>]
  /\ fresh = [t \in Tile |-> FALSE]
  /\ received = [t \in Tile |-> <<>>]
  /\ refused = {}
  /\ buffer_from_tile = [t \in Tile |-> <<>>]
  /\ buffer_to_tile = [t \in Tile |-> <<>>]
  /\ start_from_port = [h \in Hub |-> 0]
  /\ tile2antenna_reservation = [h \in Hub |-> NOT_RESERVED]
  /\ antenna2tile_reservation = {}
  /\ buffer_tx = [h \in Hub |-> <<>>]
  /\ buffer_rx = [h \in Hub |-> <<>>]
  /\ flag = [h \in Hub |-> FALSE]
  /\ cycles_left = [h \in Hub |-> 0]
  /\ current_token_holder = 0
  /\ current_token_expiration = 0
  /\ token_position = 0
  /\ token_hold_count = IF policy = "TOKEN_PACKET" THEN 0 ELSE MaxHold
  /\ todo = Processes

-----------------------------------------------------------------------------
(* The tiles, as the hubs see them: a router sends the flits of one packet  *)
(* after the other to the hub port, the next when the last was taken and at *)
(* its own pace.                                                            *)
TileTx(t) ==
  LET p == Head(queue[t])
      last == sent[t] = Size[p] - 1
  IN  /\ todo = {}
      /\ queue[t] # <<>>
      /\ link_in[t] = <<>>
      /\ link_in' = [link_in EXCEPT ![t] = <<[pkt |-> p, seq |-> sent[t]]>>]
      /\ sent' = [sent EXCEPT ![t] = IF last THEN 0 ELSE @ + 1]
      /\ queue' = [queue EXCEPT ![t] = IF last THEN Tail(@) ELSE @]
      /\ UNCHANGED <<configVars, portVars, fromVars, radioVars, rxVars,
                     signalVars, ringVars, todo>>

(* Router::rxProcess takes a flit from the hub port unless its buffer is    *)
(* full.                                                                    *)
TileRx(t) ==
  /\ Run(<<2, t>>)
  /\ \/ /\ received' = [received EXCEPT ![t] = Append(@, link_out[t][1])]
        /\ fresh' = [fresh EXCEPT ![t] = FALSE]
        /\ UNCHANGED refused
     \/ /\ t \in SlowTile
        /\ refused' = refused \union {t}
        /\ UNCHANGED <<received, fresh>>
  /\ UNCHANGED <<configVars, tileVars, link_out, fromVars, radioVars, rxVars,
                 signalVars, ringVars>>

-----------------------------------------------------------------------------
(* TokenRing::updateTokens *)

(* updateTokenPacket, updateTokenHold and updateTokenMaxHold: whether the   *)
(* token goes to the next hub in this cycle.                                *)
PassesToken ==
  \/ policy \in {"TOKEN_PACKET", "TOKEN_MAX_HOLD"} /\ flag[token_position]
  \/ policy \in {"TOKEN_HOLD", "TOKEN_MAX_HOLD"} /\ token_hold_count = 1

(* The flag of the next hub is written too; a hub that does not hold the    *)
(* token writes the same.                                                   *)
UpdateTokens ==
  /\ Run(<<1, 0>>)
  /\ token_position' = IF PassesToken THEN (token_position + 1) % NumHubs
                                      ELSE token_position
  /\ token_hold_count' =
       CASE policy = "TOKEN_PACKET" -> token_hold_count
         [] policy # "TOKEN_PACKET" /\ PassesToken -> MaxHold
         [] policy # "TOKEN_PACKET" /\ ~PassesToken -> token_hold_count - 1
  /\ UNCHANGED <<configVars, tileVars, portVars, fromVars, radioVars, rxVars, signalVars>>

-----------------------------------------------------------------------------
(* Hub::tileToAntennaProcess *)

(* Slip: a transmission may end a cycle after the token is gone.            *)
EnoughTime_Short == current_token_expiration + 1 >= flit_transmission_cycles

EnoughTime == current_token_expiration >= flit_transmission_cycles

(* txRadioProcessTokenPacket, -TokenHold and -TokenMaxHold: the hub asks    *)
(* its thread to send the front of buffer_tx, which is lost on a thread     *)
(* that is still sending, and releases the token.                           *)
Transmits(h) ==
  /\ current_token_holder = h
  /\ buffer_tx[h] # <<>>
  /\ policy # "TOKEN_PACKET" => EnoughTime

Releases(h) ==
  /\ current_token_holder = h
  /\ \/ policy = "TOKEN_PACKET" /\ (buffer_tx[h] # <<>> => IsTail(Head(buffer_tx[h])))
     \/ policy = "TOKEN_MAX_HOLD" /\ (buffer_tx[h] # <<>> => ~EnoughTime)

(* The tiles of h whose front flit is a HEAD, and the first of them in this *)
(* cycle's rotation: it reserves the channel if nobody has.                 *)
Heads(h) ==
  { t \in Attached(h) : buffer_from_tile[t] # <<>> /\ IsHead(Head(buffer_from_tile[t])) }

Turn(h, t) == (tile2port_mapping[t] + num_ports(h) - start_from_port[h]) % num_ports(h)

Reserved(h) ==
  IF tile2antenna_reservation[h] = NOT_RESERVED /\ Heads(h) # {}
  THEN CHOOSE t \in Heads(h) : \A u \in Heads(h) : Turn(h, t) <= Turn(h, u)
  ELSE tile2antenna_reservation[h]

(* The tile whose front flit moves on to buffer_tx. *)
Moves(h, t) ==
  /\ t = Reserved(h)
  /\ buffer_from_tile[t] # <<>>
  /\ Len(buffer_tx[h]) < TxDepth

LeftFromTile(h, t) ==
  IF Moves(h, t) THEN Tail(buffer_from_tile[t]) ELSE buffer_from_tile[t]

Takes(h, t) == t \in Attached(h) /\ Len(LeftFromTile(h, t)) < FromTileDepth

TileToAntennaProcess(h) ==
  LET moved == { t \in Attached(h) : Moves(h, t) }
      front == Head(buffer_from_tile[Reserved(h)])
  IN  /\ Run(<<3, h>>)
      /\ flag' = [flag EXCEPT ![h] = Releases(h)]
      /\ cycles_left' = [cycles_left EXCEPT ![h] =
           IF Transmits(h) /\ @ = 0 THEN flit_transmission_cycles ELSE @]
      /\ buffer_tx' = [buffer_tx EXCEPT ![h] =
           IF moved # {} THEN Append(@, front) ELSE @]
      /\ tile2antenna_reservation' = [tile2antenna_reservation EXCEPT ![h] =
           IF moved # {} /\ IsTail(front) THEN NOT_RESERVED ELSE Reserved(h)]
      /\ buffer_from_tile' = [t \in Tile |->
           IF Takes(h, t) THEN LeftFromTile(h, t) \o link_in[t]
           ELSE IF t \in moved THEN LeftFromTile(h, t)
           ELSE buffer_from_tile[t]]
      /\ link_in' = [t \in Tile |-> IF Takes(h, t) THEN <<>> ELSE link_in[t]]
      /\ start_from_port' = [start_from_port EXCEPT ![h] =
           IF num_ports(h) = 0 THEN 0 ELSE (@ + 1) % num_ports(h)]
      /\ UNCHANGED <<configVars, queue, sent, portVars, rxVars, signalVars, ringVars>>

-----------------------------------------------------------------------------
(* Hub::antennaToTileProcess: each port drives what its buffer holds, over  *)
(* whatever is on the link; the front of the antenna buffer moves up.       *)
AntennaToTileProcess(h) ==
  LET drives(t) == t \in Attached(h) /\ buffer_to_tile[t] # <<>>
      kept(t) == IF drives(t) THEN Tail(buffer_to_tile[t]) ELSE buffer_to_tile[t]
      front == Head(buffer_rx[h])
      moves == buffer_rx[h] # <<>> /\ Len(kept(Dst[front.pkt])) < ToTileDepth
  IN  /\ Run(<<4, h>>)
      /\ link_out' = [t \in Tile |->
           IF drives(t) THEN <<Head(buffer_to_tile[t])>> ELSE link_out[t]]
      /\ fresh' = [t \in Tile |-> IF drives(t) THEN ~fresh[t] ELSE fresh[t]]
      /\ buffer_to_tile' = [t \in Tile |->
           IF moves /\ t = Dst[front.pkt] THEN Append(kept(t), front) ELSE kept(t)]
      /\ buffer_rx' = [buffer_rx EXCEPT ![h] = IF moves THEN Tail(@) ELSE @]
      /\ UNCHANGED <<configVars, tileVars, received, refused, fromVars, radioVars,
                     antenna2tile_reservation, signalVars, ringVars>>

-----------------------------------------------------------------------------
(* Target::b_transport: a flit finds the antenna buffer full, or is a HEAD  *)
(* whose port is reserved.                                                  *)

(* Slip: the reservation is not looked at.                                  *)
Accepted_Any(f) == Len(buffer_rx[hub_for_tile[Dst[f.pkt]]]) < RxDepth

Accepted(f) ==
  /\ Len(buffer_rx[hub_for_tile[Dst[f.pkt]]]) < RxDepth
  /\ IsHead(f) => Dst[f.pkt] \notin antenna2tile_reservation

(* Initiator::thread_process after the wait of Channel::b_transport: the    *)
(* flit leaves buffer_tx if it was accepted, else it stays at the front.    *)

(* Slip: the response status is not looked at.                              *)
AfterTransport_Popped(h) == Tail(buffer_tx[h])

AfterTransport(h) ==
  IF Accepted(Head(buffer_tx[h])) THEN Tail(buffer_tx[h]) ELSE buffer_tx[h]

Transmitted(h) ==
  LET f == Head(buffer_tx[h])
      d == hub_for_tile[Dst[f.pkt]]
  IN  /\ todo = {}
      /\ cycles_left[h] = 1
      /\ cycles_left' = [cycles_left EXCEPT ![h] = 0]
      /\ buffer_tx' = [buffer_tx EXCEPT ![h] = AfterTransport(h)]
      /\ buffer_rx' = IF Accepted(f) THEN [buffer_rx EXCEPT ![d] = Append(@, f)]
                                     ELSE buffer_rx
      /\ antenna2tile_reservation' =
           CASE Accepted(f) /\ IsHead(f) -> antenna2tile_reservation \union {Dst[f.pkt]}
             [] Accepted(f) /\ IsTail(f) -> antenna2tile_reservation \ {Dst[f.pkt]}
             [] OTHER -> antenna2tile_reservation
      /\ UNCHANGED <<configVars, tileVars, portVars, fromVars, flag, buffer_to_tile,
                     signalVars, ringVars, todo>>

(* The next edge: what the ring wrote is read from now on.                  *)
ClockEdge ==
  /\ todo = {}
  /\ \A h \in Hub : cycles_left[h] # 1
  /\ cycles_left' = [h \in Hub |-> IF cycles_left[h] > 0 THEN cycles_left[h] - 1 ELSE 0]
  /\ current_token_holder' = token_position
  /\ current_token_expiration' = token_hold_count
  /\ todo' = Processes
  /\ UNCHANGED <<configVars, tileVars, portVars, fromVars, buffer_tx, flag, rxVars,
                 ringVars>>

Next ==
  \/ UpdateTokens
  \/ \E t \in Tile : TileTx(t) \/ TileRx(t)
  \/ \E h \in Hub : TileToAntennaProcess(h) \/ AntennaToTileProcess(h) \/ Transmitted(h)
  \/ ClockEdge

(* The simulation kernel keeps the clock running, so that all processes of  *)
(* every edge run and every transmission ends; and the routers try in every *)
(* cycle to forward what they hold.                                         *)
Spec ==
  Init /\ [][Next]_vars /\ []<><<ClockEdge>>_vars /\ SF_vars(\E t \in Tile : TileTx(t))

-----------------------------------------------------------------------------
IsLast(f) == f.seq = Size[f.pkt] - 1

(* g may come right behind f: the next flit of its packet, or another HEAD. *)
Follows(f, g) ==
  IF IsLast(f) THEN IsHead(g) ELSE g.pkt = f.pkt /\ g.seq = f.seq + 1

(* A tile gets whole packets, one after the other and each flit once, from  *)
(* however many hubs send to it at a time and though the token may leave a  *)
(* hub in the middle of a packet.  The hub does not look at the acknowledge *)
(* of the tile, so this is about tiles whose router always had room.        *)
PacketsWhole ==
  \A t \in Tile \ refused : LET r == received[t] IN
    /\ r # <<>> => IsHead(r[1])
    /\ \A j \in DOMAIN r :
         /\ Dst[r[j].pkt] = t
         /\ j > 1 => Follows(r[j - 1], r[j])
         /\ \A k \in DOMAIN r : r[j] = r[k] => j = k

(* The token is what keeps two hubs from sending at once on one channel.    *)
(* It does if a flit takes a cycle, and under TOKEN_HOLD whatever it takes, *)
(* as no hub starts what it cannot end before the ring takes the token      *)
(* away.  The other policies pass the token two edges after the hub has     *)
(* released it, and the hub may start a longer transmission in between.     *)
OneTransmitter ==
  policy = "TOKEN_HOLD" \/ flit_transmission_cycles = 1 =>
    \A h, g \in Hub : cycles_left[h] > 0 /\ cycles_left[g] > 0 => h = g

Sends(t, p) == \E k \in DOMAIN queue[t] : queue[t][k] = p
Arrived(p)  == \A i \in 0 .. Size[p] - 1 : \E k \in DOMAIN received[Dst[p]] :
                 received[Dst[p]][k] = [pkt |-> p, seq |-> i]

(* Traffic that cannot block: a packet of one flit has no TAIL to release   *)
(* its reservations; and a hub that waits with a HEAD for a reserved port   *)
(* keeps the token under TOKEN_PACKET, from the hub that must send the TAIL.*)
NeverBlocks ==
  /\ \A t \in Tile, p \in Packet : Sends(t, p) => Size[p] > 1
  /\ policy = "TOKEN_PACKET" =>
       \A t, u \in Tile, p, q \in Packet :
         Sends(t, p) /\ Sends(u, q) /\ Dst[p] = Dst[q] => hub_for_tile[t] = hub_for_tile[u]

(* Every packet handed to a hub gets to its tile, though heads are refused  *)
(* and retried, the token goes round, and two reservations and four bounded *)
(* buffers lie in its way.                                                  *)
EveryPacketArrives ==
  \A p \in Packet :
    NeverBlocks /\ (\E t \in Tile : Sends(t, p)) => <>(Arrived(p) \/ Dst[p] \in refused)
=============================================================================
