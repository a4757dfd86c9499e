------------------------------ MODULE HubsProofs ------------------------------
(***************************************************************************)
(* Medium access: the token keeps two hubs from sending at once, for every *)
(* number of hubs, hold time and duration of a transmission.  And packets  *)
(* stay whole on their way through two reservations and five buffers.      *)
(*                                                                         *)
(* The first invariant, IInv, says how long the transmission under way may *)
(* last: not longer than the time its hub still has the token, as the hub  *)
(* reads it (current_token_expiration).  The ring counts in                *)
(* token_hold_count and is a cycle ahead of that once it has run in an     *)
(* edge.                                                                   *)
(***************************************************************************)
EXTENDS Hubs, SequenceTheorems, TLAPS

Exclusive == policy = "TOKEN_HOLD" \/ flit_transmission_cycles = 1

RingTypes ==
  /\ flit_transmission_cycles \in Nat \ {0}
  /\ cycles_left \in [Hub -> 0 .. flit_transmission_cycles]
  /\ current_token_expiration \in Int
  /\ token_hold_count \in Int

RingRan == <<1, 0>> \notin todo

(* What the hubs read and what the ring has counted.                        *)
RingAgrees ==
  policy = "TOKEN_HOLD" =>
    IF RingRan
    THEN \/ current_token_expiration <= 1
         \/ /\ token_position = current_token_holder
            /\ token_hold_count = current_token_expiration - 1
    ELSE \/ current_token_expiration = 0
         \/ /\ token_position = current_token_holder
            /\ token_hold_count = current_token_expiration

(* Only the hub that reads its own number sends, and will have ended in     *)
(* time.                                                                    *)
HolderSends ==
  Exclusive =>
    \A h \in Hub : cycles_left[h] > 0 =>
      /\ current_token_holder = h
      /\ policy = "TOKEN_HOLD" => cycles_left[h] <= current_token_expiration

IInv == RingTypes /\ RingAgrees /\ HolderSends

LEMMA InitIInv == Init => IInv
<1> SUFFICES ASSUME Init PROVE IInv
  OBVIOUS
<1>1. flit_transmission_cycles \in Nat \ {0} /\ MaxHold \in Nat
  BY HubAssumption DEF Init
<1>2. \A h \in Hub : cycles_left[h] = 0
  BY DEF Init
<1>3. RingTypes
  BY <1>1 DEF Init, RingTypes
<1>4. RingAgrees
  BY DEF Init, RingAgrees, RingRan, Processes
<1>5. HolderSends
  BY <1>2 DEF HolderSends
<1> QED
  BY <1>3, <1>4, <1>5 DEF IInv

(* The processes of the tiles and of the receiving side of the hubs.        *)
LEMMA OtherStep ==
  ASSUME IInv,
         UNCHANGED <<configVars, cycles_left, signalVars, ringVars>>,
         RingRan' <=> RingRan
  PROVE  IInv'
<1>1. /\ UNCHANGED <<policy, flit_transmission_cycles, cycles_left>>
      /\ UNCHANGED <<current_token_holder, current_token_expiration>>
      /\ UNCHANGED <<token_position, token_hold_count>>
  BY DEF configVars, signalVars, ringVars
<1>2. RingTypes'
  BY <1>1 DEF IInv, RingTypes
<1>3. RingAgrees'
  BY <1>1 DEF IInv, RingAgrees
<1>4. HolderSends'
  BY <1>1 DEF IInv, HolderSends, Exclusive
<1> QED
  BY <1>2, <1>3, <1>4 DEF IInv

LEMMA RunKeepsRing ==
  ASSUME NEW p, p # <<1, 0>>, Run(p)
  PROVE  RingRan' <=> RingRan
BY DEF Run, RingRan

LEMMA UpdateTokensStep ==
  ASSUME IInv, UpdateTokens
  PROVE  IInv'
<1>1. /\ UNCHANGED <<policy, flit_transmission_cycles, cycles_left>>
      /\ UNCHANGED <<current_token_holder, current_token_expiration>>
  BY DEF UpdateTokens, configVars, radioVars, signalVars
<1>2. ~RingRan /\ RingRan'
  BY DEF UpdateTokens, Run, RingRan
<1>3. RingTypes'
  <2>1. token_hold_count' \in {token_hold_count, MaxHold, token_hold_count - 1}
    BY DEF UpdateTokens
  <2> QED
    BY <1>1, <2>1, HubAssumption DEF IInv, RingTypes
<1>4. RingAgrees'
  <2> SUFFICES ASSUME policy = "TOKEN_HOLD", current_token_expiration > 1
               PROVE  /\ token_position' = current_token_holder
                      /\ token_hold_count' = current_token_expiration - 1
    BY <1>1, <1>2 DEF RingAgrees, IInv, RingTypes
  <2>1. token_position = current_token_holder /\ token_hold_count = current_token_expiration
    BY <1>2 DEF IInv, RingAgrees, RingTypes
  <2>2. ~PassesToken
    BY <2>1 DEF PassesToken, IInv, RingTypes
  <2> QED
    BY <2>1, <2>2 DEF UpdateTokens
<1>5. HolderSends'
  BY <1>1 DEF IInv, HolderSends, Exclusive
<1> QED
  BY <1>3, <1>4, <1>5 DEF IInv

LEMMA TileToAntennaStep ==
  ASSUME IInv, NEW h \in Hub, TileToAntennaProcess(h)
  PROVE  IInv'
<1>1. /\ UNCHANGED <<policy, flit_transmission_cycles>>
      /\ UNCHANGED <<current_token_holder, current_token_expiration>>
      /\ UNCHANGED <<token_position, token_hold_count>>
  BY DEF TileToAntennaProcess, configVars, signalVars, ringVars
<1>2. RingRan' <=> RingRan
  BY RunKeepsRing DEF TileToAntennaProcess
<1>3. cycles_left' = [cycles_left EXCEPT ![h] =
        IF Transmits(h) /\ @ = 0 THEN flit_transmission_cycles ELSE @]
  BY DEF TileToAntennaProcess
<1>4. RingTypes'
  BY <1>1, <1>3 DEF IInv, RingTypes
<1>5. RingAgrees'
  BY <1>1, <1>2 DEF IInv, RingAgrees
<1>6. HolderSends'
  <2> SUFFICES ASSUME Exclusive, NEW g \in Hub, cycles_left'[g] > 0
               PROVE  /\ current_token_holder = g
                      /\ policy = "TOKEN_HOLD" => cycles_left'[g] <= current_token_expiration
    BY <1>1 DEF HolderSends, Exclusive
  <2>1. CASE cycles_left'[g] = cycles_left[g]
    BY <2>1 DEF IInv, HolderSends
  <2>2. CASE cycles_left'[g] # cycles_left[g]
    <3>1. g = h /\ Transmits(h) /\ cycles_left'[g] = flit_transmission_cycles
      BY <1>3, <2>2 DEF IInv, RingTypes
    <3> QED
      BY <3>1 DEF Transmits, EnoughTime, IInv, RingTypes
  <2> QED
    BY <2>1, <2>2
<1> QED
  BY <1>4, <1>5, <1>6 DEF IInv

LEMMA TransmittedStep ==
  ASSUME IInv, NEW h \in Hub, Transmitted(h)
  PROVE  IInv'
<1>1. /\ UNCHANGED <<policy, flit_transmission_cycles, todo>>
      /\ UNCHANGED <<current_token_holder, current_token_expiration>>
      /\ UNCHANGED <<token_position, token_hold_count>>
  BY DEF Transmitted, configVars, signalVars, ringVars
<1>2. cycles_left' = [cycles_left EXCEPT ![h] = 0]
  BY DEF Transmitted
<1>3. RingTypes'
  BY <1>1, <1>2 DEF IInv, RingTypes
<1>4. RingAgrees'
  BY <1>1 DEF IInv, RingAgrees, RingRan
<1>5. HolderSends'
  BY <1>1, <1>2 DEF IInv, RingTypes, HolderSends, Exclusive
<1> QED
  BY <1>3, <1>4, <1>5 DEF IInv

LEMMA ClockEdgeStep ==
  ASSUME IInv, ClockEdge
  PROVE  IInv'
<1>1. UNCHANGED <<policy, flit_transmission_cycles, token_position, token_hold_count>>
  BY DEF ClockEdge, configVars, ringVars
<1>2. /\ current_token_holder' = token_position
      /\ current_token_expiration' = token_hold_count
      /\ RingRan /\ ~RingRan'
  BY DEF ClockEdge, RingRan, Processes
<1>3. \A h \in Hub : /\ cycles_left[h] # 1
                    /\ cycles_left[h] \in 0 .. flit_transmission_cycles
                    /\ cycles_left'[h] = IF cycles_left[h] > 0 THEN cycles_left[h] - 1 ELSE 0
  BY DEF ClockEdge, IInv, RingTypes
<1>4. RingTypes'
  <2>1. cycles_left' = [h \in Hub |-> cycles_left'[h]]
    BY DEF ClockEdge
  <2>2. \A h \in Hub : cycles_left'[h] \in 0 .. flit_transmission_cycles
    BY <1>3 DEF IInv, RingTypes
  <2> QED
    BY <1>1, <1>2, <2>1, <2>2 DEF IInv, RingTypes
<1>5. RingAgrees'
  BY <1>1, <1>2 DEF RingAgrees
<1>6. HolderSends'
  <2> SUFFICES ASSUME Exclusive, NEW h \in Hub, cycles_left'[h] > 0
               PROVE  /\ token_position = h
                      /\ policy = "TOKEN_HOLD" => cycles_left'[h] <= token_hold_count
    BY <1>1, <1>2 DEF HolderSends, Exclusive
  <2>1. cycles_left[h] \in Nat /\ cycles_left[h] >= 2 /\ cycles_left'[h] = cycles_left[h] - 1
    BY <1>3 DEF IInv, RingTypes
  <2>2. policy = "TOKEN_HOLD"
    BY <1>3, <2>1 DEF Exclusive, IInv, RingTypes
  <2>3. current_token_holder = h /\ cycles_left[h] <= current_token_expiration
    BY <2>1, <2>2 DEF IInv, HolderSends
  <2>4. token_position = current_token_holder /\ token_hold_count = current_token_expiration - 1
    BY <1>2, <2>1, <2>2, <2>3 DEF IInv, RingAgrees, RingTypes
  <2> QED
    BY <2>1, <2>3, <2>4 DEF IInv, RingTypes
<1> QED
  BY <1>4, <1>5, <1>6 DEF IInv

(* The inductive invariant holds for every channel, traffic and policy.     *)
THEOREM Invariance == Spec => []IInv
<1>1. Init => IInv
  BY InitIInv
<1>2. IInv /\ [Next]_vars => IInv'
  <2> SUFFICES ASSUME IInv, [Next]_vars PROVE IInv'
    OBVIOUS
  <2>1. CASE UpdateTokens
    BY <2>1, UpdateTokensStep
  <2>2. ASSUME NEW t \in Tile, TileTx(t) PROVE IInv'
    BY <2>2, OtherStep DEF TileTx, radioVars, RingRan
  <2>3. ASSUME NEW t \in Tile, TileRx(t) PROVE IInv'
    BY <2>3, OtherStep, RunKeepsRing DEF TileRx, radioVars
  <2>4. ASSUME NEW h \in Hub, TileToAntennaProcess(h) PROVE IInv'
    BY <2>4, TileToAntennaStep
  <2>5. ASSUME NEW h \in Hub, AntennaToTileProcess(h) PROVE IInv'
    BY <2>5, OtherStep, RunKeepsRing DEF AntennaToTileProcess, radioVars
  <2>6. ASSUME NEW h \in Hub, Transmitted(h) PROVE IInv'
    BY <2>6, TransmittedStep
  <2>7. CASE ClockEdge
    BY <2>7, ClockEdgeStep
  <2>8. CASE UNCHANGED vars
    BY <2>8, OtherStep DEF vars, radioVars, RingRan
  <2> QED
    BY <2>1, <2>2, <2>3, <2>4, <2>5, <2>6, <2>7, <2>8 DEF Next
<1> QED
  BY <1>1, <1>2, PTL DEF Spec

(* Under TOKEN_HOLD, or if a flit takes one cycle, no two hubs ever send at *)
(* once, whatever the number of hubs, the hold time and the traffic.        *)
THEOREM NeverTwoTransmitters == Spec => []OneTransmitter
<1>1. IInv => OneTransmitter
  BY DEF IInv, HolderSends, Exclusive, OneTransmitter
<1> QED
  BY <1>1, Invariance, PTL

-----------------------------------------------------------------------------
(* Packets stay whole.  A packet is in the line of its tile, then in the    *)
(* buffer_tx of its hub, then with the tile it goes to: at most one tile of *)
(* a hub is in the middle of a packet, and it has the reservation of the    *)
(* channel, so that the flits follow each other in buffer_tx too; and the   *)
(* flits that Target accepts for a tile follow each other as the tile stays *)
(* reserved from a HEAD to its TAIL.  What was accepted for a tile is the   *)
(* history e; the invariant says that one exists that fits the buffers.     *)

GoodFlit   == { f \in Flit : f.seq < Size[f.pkt] }
Succ(f)    == [f EXCEPT !.seq = @ + 1]
LastOf(s)  == s[Len(s)]
Chained(s) == \A i \in 1 .. Len(s) - 1 : Follows(s[i], s[i + 1])
Holds(s, p) == \E i \in DOMAIN s : s[i].pkt = p

(* The flits of a tile that its hub has not moved to buffer_tx, whether the *)
(* first flit to come is in the middle of a packet, and that flit.          *)
Line(u)    == buffer_from_tile[u] \o link_in[u]
IsMid(u)   == IF Line(u) # <<>> THEN ~IsHead(Line(u)[1]) ELSE sent[u] > 0
MidFlit(u) == IF Line(u) # <<>> THEN Line(u)[1] ELSE [pkt |-> Head(queue[u]), seq |-> sent[u]]

(* The k-th packet of the queue: no flit of it was sent yet.                *)
Ready(u, k) == k > 1 \/ sent[u] = 0

BufferTypes ==
  /\ queue \in [Tile -> Seq(Packet)]
  /\ sent \in [Tile -> Nat]
  /\ link_in \in [Tile -> Seq(GoodFlit)]
  /\ buffer_from_tile \in [Tile -> Seq(GoodFlit)]
  /\ buffer_tx \in [Hub -> Seq(GoodFlit)]
  /\ buffer_rx \in [Hub -> Seq(GoodFlit)]
  /\ buffer_to_tile \in [Tile -> Seq(GoodFlit)]
  /\ received \in [Tile -> Seq(GoodFlit)]
  /\ link_out \in [Tile -> Seq(GoodFlit)]
  /\ fresh \in [Tile -> BOOLEAN]
  /\ \A t \in Tile : fresh[t] => Len(link_out[t]) = 1
  /\ refused \subseteq Tile
  /\ tile2antenna_reservation = [h \in Hub |-> tile2antenna_reservation[h]]
  /\ antenna2tile_reservation \subseteq Tile
  /\ cycles_left \in [Hub -> Nat]

(* A hub drives the link to a tile only when the tile has taken the flit    *)
(* that was on it, unless the tile has refused one; what is transmitted is  *)
(* there; and what a hub received is for its tiles.                         *)
Transit ==
  /\ \A t \in Tile : <<2, t>> \in todo => fresh[t]
  /\ \A t \in Tile \ refused :
       fresh[t] => <<2, t>> \in todo \/ <<4, hub_for_tile[t]>> \notin todo
  /\ \A h \in Hub : cycles_left[h] > 0 => buffer_tx[h] # <<>>
  /\ \A h \in Hub : \A i \in DOMAIN buffer_rx[h] : hub_for_tile[Dst[buffer_rx[h][i].pkt]] = h

(* A tile sends one packet after the other.                                 *)
Generated ==
  \A u \in Tile :
    /\ Chained(Line(u))
    /\ Line(u) # <<>> =>
         IF IsLast(LastOf(Line(u))) THEN sent[u] = 0
         ELSE sent[u] > 0 /\ LastOf(Line(u)) = [pkt |-> Head(queue[u]), seq |-> sent[u] - 1]
    /\ sent[u] > 0 => queue[u] # <<>> /\ sent[u] < Size[Head(queue[u])]

(* The tile that is in the middle of a packet has the channel of its hub.   *)
Reserving == \A u \in Tile : IsMid(u) => tile2antenna_reservation[hub_for_tile[u]] = u

(* buffer_tx holds one packet after the other and, behind an open one, a    *)
(* tile of the hub has the flit that comes next.                            *)
Transmitting ==
  \A h \in Hub :
    /\ Chained(buffer_tx[h])
    /\ buffer_tx[h] # <<>> /\ ~IsLast(LastOf(buffer_tx[h])) => \E u \in Attached(h) : IsMid(u)
    /\ buffer_tx[h] # <<>> =>
         \A u \in Attached(h) : IsMid(u) => MidFlit(u) = Succ(LastOf(buffer_tx[h]))

(* The flit that a hub sends next, if it is no HEAD, follows the last one   *)
(* that was accepted for its tile; and that tile is reserved.               *)
Accepting(e) ==
  /\ \A h \in Hub : buffer_tx[h] # <<>> /\ ~IsHead(buffer_tx[h][1]) =>
       LET f == buffer_tx[h][1]
           s == e[Dst[f.pkt]]
       IN  s # <<>> /\ f = Succ(LastOf(s))
  /\ \A h \in Hub : buffer_tx[h] = <<>> => \A u \in Attached(h) : IsMid(u) =>
       LET f == MidFlit(u)
           s == e[Dst[f.pkt]]
       IN  s # <<>> /\ f = Succ(LastOf(s))
  /\ \A t \in Tile : e[t] # <<>> /\ ~IsTail(LastOf(e[t])) => t \in antenna2tile_reservation

(* Whose packet a flit is of: of the tile that made it, and on its hub.     *)
Owned(owner) ==
  /\ \A u \in Tile : \A k \in DOMAIN queue[u] : owner[queue[u][k]] = u
  /\ \A u \in Tile : \A k \in DOMAIN Line(u) : owner[Line(u)[k].pkt] = u
  /\ \A h \in Hub : \A k \in DOMAIN buffer_tx[h] : owner[buffer_tx[h][k].pkt] \in Attached(h)

(* No flit of a packet is ahead of its HEAD.                                *)
Once(e) ==
  /\ \A u \in Tile : \A k, l \in DOMAIN queue[u] : queue[u][k] = queue[u][l] => k = l
  /\ \A u \in Tile : \A k \in DOMAIN queue[u] : Ready(u, k) =>
       /\ ~Holds(Line(u), queue[u][k])
       /\ ~Holds(buffer_tx[hub_for_tile[u]], queue[u][k])
       /\ ~Holds(e[Dst[queue[u][k]]], queue[u][k])
  /\ \A u \in Tile : \A k \in DOMAIN Line(u) : IsHead(Line(u)[k]) =>
       LET p == Line(u)[k].pkt IN
       /\ \A l \in 1 .. k - 1 : Line(u)[l].pkt # p
       /\ ~Holds(buffer_tx[hub_for_tile[u]], p)
       /\ ~Holds(e[Dst[p]], p)
  /\ \A h \in Hub : \A k \in DOMAIN buffer_tx[h] : IsHead(buffer_tx[h][k]) =>
       LET p == buffer_tx[h][k].pkt IN
       /\ \A l \in 1 .. k - 1 : buffer_tx[h][l].pkt # p
       /\ ~Holds(e[Dst[p]], p)

(* What was accepted for tile t is what PacketsWhole says of what it gets.  *)
Whole(t, s) ==
  /\ Chained(s)
  /\ s # <<>> => IsHead(s[1])
  /\ \A j \in DOMAIN s : Dst[s[j].pkt] = t
  /\ \A j, k \in DOMAIN s : s[j] = s[k] => j = k

OnLink(t) == IF fresh[t] THEN link_out[t] ELSE <<>>
Taken(t)  == received[t] \o (OnLink(t) \o buffer_to_tile[t])

(* Tile t has the first part of s; the rest of it is, in order, what rx     *)
(* holds for t, between the flits for the other tiles of the hub.           *)
Splits(t, s, have, rx) ==
  /\ Len(have) <= Len(s)
  /\ \A k \in DOMAIN have : have[k] = s[k]
  /\ \E at \in [1 .. Len(s) - Len(have) -> DOMAIN rx] :
       /\ \A k \in 1 .. Len(s) - Len(have) : rx[at[k]] = s[Len(have) + k]
       /\ \A k, l \in 1 .. Len(s) - Len(have) : k < l => at[k] < at[l]
       /\ \A i \in DOMAIN rx :
            Dst[rx[i].pkt] = t => \E k \in 1 .. Len(s) - Len(have) : at[k] = i

Split(t, s) == Splits(t, s, Taken(t), buffer_rx[hub_for_tile[t]])

SourceInv(e, owner) ==
  /\ Generated /\ Reserving /\ Transmitting
  /\ Accepting(e) /\ Owned(owner) /\ Once(e)
  /\ \A t \in Tile : Whole(t, e[t])

LinesInv(e, owner) ==
  /\ BufferTypes /\ Transit /\ SourceInv(e, owner)
  /\ \A t \in Tile \ refused : Split(t, e[t])

LinesAgree == \E e \in [Tile -> Seq(GoodFlit)] : \E owner : LinesInv(e, owner)

(* Every tile is attached to one hub.                                       *)
LEMMA Tiles ==
  /\ \A t \in Tile : hub_for_tile[t] \in Hub /\ t \in Attached(hub_for_tile[t])
  /\ \A h \in Hub : \A t \in Attached(h) : t \in Tile /\ hub_for_tile[t] = h
  /\ Tile \subseteq Nat /\ NOT_RESERVED \notin Tile
<1>1. \A h \in Hub : \A t \in Attached(h) : t \in Nat
  BY HubAssumption DEF Attached
<1>2. Tile \subseteq Nat /\ NOT_RESERVED \notin Tile
  BY <1>1 DEF Tile, NOT_RESERVED
<1>3. \A h, g \in Hub : \A t : t \in Attached(h) /\ t \in Attached(g) => h = g
  BY HubAssumption DEF Attached
<1>4. \A t \in Tile : \E h \in Hub : t \in Attached(h)
  BY DEF Tile
<1>5. \A h \in Hub : \A t \in Attached(h) : t \in Tile
  BY DEF Tile
<1>6. \A t \in Tile : hub_for_tile[t] \in Hub /\ t \in Attached(hub_for_tile[t])
  <2> SUFFICES ASSUME NEW t \in Tile
               PROVE  hub_for_tile[t] \in Hub /\ t \in Attached(hub_for_tile[t])
    OBVIOUS
  <2>1. hub_for_tile[t] = CHOOSE h \in Hub : t \in Attached(h)
    BY DEF hub_for_tile
  <2> QED BY <1>4, <2>1, Zenon
<1> QED BY <1>2, <1>3, <1>5, <1>6

(* The flits of the packets.                                                *)
LEMMA FlitFacts ==
  /\ \A p \in Packet : Size[p] \in Nat /\ Size[p] > 0 /\ Dst[p] \in Tile
  /\ \A f \in GoodFlit : /\ f.pkt \in Packet /\ f.seq \in Nat /\ f.seq < Size[f.pkt]
                         /\ f = [pkt |-> f.pkt, seq |-> f.seq]
  /\ \A p \in Packet : \A k \in Nat : k < Size[p] => [pkt |-> p, seq |-> k] \in GoodFlit
  /\ \A f \in GoodFlit : Succ(f) = [pkt |-> f.pkt, seq |-> f.seq + 1]
<1>1. \A p \in Packet : Size[p] \in Nat /\ Size[p] > 0 /\ Dst[p] \in Tile
  BY HubAssumption
<1>2. \A f \in GoodFlit : /\ f.pkt \in Packet /\ f.seq \in Nat /\ f.seq < Size[f.pkt]
                          /\ f = [pkt |-> f.pkt, seq |-> f.seq]
  BY DEF GoodFlit, Flit
<1>3. \A p \in Packet : \A k \in Nat : k < Size[p] => [pkt |-> p, seq |-> k] \in GoodFlit
  BY DEF GoodFlit, Flit
<1>4. \A f \in GoodFlit : Succ(f) = [pkt |-> f.pkt, seq |-> f.seq + 1]
  BY <1>2 DEF Succ
<1> QED BY <1>1, <1>2, <1>3, <1>4

(* What may come right behind a flit.                                       *)
LEMMA NextFlit ==
  ASSUME NEW f \in GoodFlit, NEW g \in GoodFlit
  PROVE  /\ ~IsLast(f) => (Follows(f, g) <=> g = Succ(f))
         /\ IsLast(f) => (Follows(f, g) <=> IsHead(g))
         /\ g = Succ(f) => ~IsLast(f) /\ ~IsHead(g) /\ g.pkt = f.pkt
         /\ IsTail(f) => IsLast(f)
         /\ IsLast(f) => IsTail(f) \/ IsHead(f)
         /\ \A k \in GoodFlit : g = Succ(f) /\ g = Succ(k) => k = f
<1> USE FlitFacts
<1>1. /\ f.pkt \in Packet /\ f.seq \in Nat /\ f.seq < Size[f.pkt] /\ Size[f.pkt] \in Nat
      /\ g.pkt \in Packet /\ g.seq \in Nat /\ g.seq < Size[g.pkt]
      /\ f = [pkt |-> f.pkt, seq |-> f.seq]
      /\ g = [pkt |-> g.pkt, seq |-> g.seq]
      /\ Succ(f) = [pkt |-> f.pkt, seq |-> f.seq + 1]
  OBVIOUS
<1>2. g = Succ(f) <=> g.pkt = f.pkt /\ g.seq = f.seq + 1
  BY <1>1
<1>3. ~IsLast(f) => (Follows(f, g) <=> g = Succ(f))
  BY <1>2 DEF Follows
<1>4. g = Succ(f) => ~IsLast(f) /\ ~IsHead(g) /\ g.pkt = f.pkt
  <2> SUFFICES ASSUME g.pkt = f.pkt /\ g.seq = f.seq + 1
               PROVE  ~IsLast(f) /\ ~IsHead(g)
    BY <1>2
  <2> QED BY <1>1 DEF IsLast, IsHead
<1>5. (IsTail(f) => IsLast(f)) /\ (IsLast(f) => IsTail(f) \/ IsHead(f))
  BY <1>1 DEF IsTail, IsLast, IsHead
<1>6. \A k \in GoodFlit : g = Succ(f) /\ g = Succ(k) => k = f
  <2> SUFFICES ASSUME NEW k \in GoodFlit, g = Succ(f), g = Succ(k)
               PROVE  k = f
    OBVIOUS
  <2>1. k.seq \in Nat /\ k = [pkt |-> k.pkt, seq |-> k.seq] /\ Succ(k) = [pkt |-> k.pkt, seq |-> k.seq + 1]
    OBVIOUS
  <2>3. g = [pkt |-> f.pkt, seq |-> f.seq + 1] /\ g = [pkt |-> k.pkt, seq |-> k.seq + 1]
    BY <1>1, <2>1
  <2>4. g.pkt = f.pkt /\ g.seq = f.seq + 1 /\ g.pkt = k.pkt /\ g.seq = k.seq + 1
    BY <2>3
  <2>2. k.pkt = f.pkt /\ k.seq + 1 = f.seq + 1
    BY <2>4
  <2> QED BY <1>1, <2>1, <2>2
<1> QED BY <1>3, <1>4, <1>5, <1>6 DEF Follows

(* A flit is put at the end of a line of whole packets.                     *)
LEMMA ChainAppend ==
  ASSUME NEW s \in Seq(GoodFlit), NEW a \in GoodFlit, Chained(s),
         s # <<>> => Follows(LastOf(s), a)
  PROVE  /\ Chained(Append(s, a)) /\ LastOf(Append(s, a)) = a
         /\ s # <<>> => Append(s, a)[1] = s[1]
         /\ s = <<>> => Append(s, a)[1] = a
<1> DEFINE r == Append(s, a)
<1>1. r \in Seq(GoodFlit) /\ Len(r) = Len(s) + 1 /\ r[Len(s) + 1] = a /\ Len(s) \in Nat
      /\ \A i \in 1 .. Len(s) : r[i] = s[i]
  BY AppendProperties
<1>2. s # <<>> => Len(s) >= 1
  OBVIOUS
<1> HIDE DEF r
<1>3. Chained(r)
  <2> SUFFICES ASSUME NEW i \in 1 .. Len(r) - 1
               PROVE  Follows(r[i], r[i + 1])
    BY DEF Chained
  <2>1. CASE i < Len(s)
    <3>1. r[i] = s[i] /\ r[i + 1] = s[i + 1]
      BY <1>1, <2>1
    <3> QED BY <1>1, <2>1, <3>1 DEF Chained
  <2>2. CASE i = Len(s)
    <3>1. s # <<>> /\ r[i] = LastOf(s) /\ r[i + 1] = a
      BY <1>1, <2>2 DEF LastOf
    <3> QED BY <3>1
  <2> QED BY <1>1, <2>1, <2>2
<1>4. LastOf(r) = a
  BY <1>1 DEF LastOf
<1>5. s = <<>> => Len(s) = 0
  OBVIOUS
<1> QED BY <1>1, <1>2, <1>3, <1>4, <1>5 DEF r

(* The front of such a line leaves it.                                      *)
LEMMA ChainTail ==
  ASSUME NEW s \in Seq(GoodFlit), s # <<>>, Chained(s)
  PROVE  /\ Tail(s) \in Seq(GoodFlit) /\ s[1] \in GoodFlit /\ LastOf(s) \in GoodFlit
         /\ Chained(Tail(s))
         /\ Tail(s) # <<>> => /\ Tail(s)[1] \in GoodFlit /\ Follows(s[1], Tail(s)[1])
                              /\ LastOf(Tail(s)) = LastOf(s)
         /\ Tail(s) = <<>> => LastOf(s) = s[1]
<1> DEFINE r == Tail(s)
<1>1. r \in Seq(GoodFlit) /\ Len(r) = Len(s) - 1 /\ Len(s) \in Nat \ {0}
      /\ \A i \in 1 .. Len(r) : r[i] = s[i + 1]
  BY HeadTailProperties
<1>2. \A i \in 1 .. Len(s) : s[i] \in GoodFlit
  OBVIOUS
<1> HIDE DEF r
<1>3. r # <<>> <=> Len(r) >= 1
  BY <1>1
<1>4. Chained(r)
  <2> SUFFICES ASSUME NEW i \in 1 .. Len(r) - 1
               PROVE  Follows(r[i], r[i + 1])
    BY DEF Chained
  <2>1. r[i] = s[i + 1] /\ r[i + 1] = s[(i + 1) + 1] /\ i + 1 \in 1 .. Len(s) - 1
    BY <1>1
  <2> QED BY <2>1 DEF Chained
<1>5. r # <<>> => r[1] \in GoodFlit /\ Follows(s[1], r[1]) /\ LastOf(r) = LastOf(s)
  <2> SUFFICES ASSUME r # <<>>
               PROVE  r[1] \in GoodFlit /\ Follows(s[1], r[1]) /\ LastOf(r) = LastOf(s)
    OBVIOUS
  <2>1. 1 \in 1 .. Len(s) - 1 /\ r[1] = s[1 + 1] /\ r[Len(r)] = s[Len(s)]
    BY <1>1, <1>3
  <2> QED BY <1>2, <2>1 DEF Chained, LastOf
<1>6. r = <<>> => LastOf(s) = s[1]
  BY <1>1, <1>3 DEF LastOf
<1>7. s[1] \in GoodFlit /\ LastOf(s) \in GoodFlit
  BY <1>1, <1>2 DEF LastOf
<1> QED BY <1>1, <1>4, <1>5, <1>6, <1>7 DEF r

(* The next flit of its packet, or a HEAD that was never there, may follow. *)
LEMMA WholeAppend ==
  ASSUME NEW t, NEW s \in Seq(GoodFlit), NEW a \in GoodFlit, Whole(t, s), Dst[a.pkt] = t,
         IsHead(a) => (s # <<>> => IsLast(LastOf(s))) /\ ~Holds(s, a.pkt),
         ~IsHead(a) => s # <<>> /\ a = Succ(LastOf(s))
  PROVE  Whole(t, Append(s, a))
<1> DEFINE r == Append(s, a)
<1>1. r \in Seq(GoodFlit) /\ Len(r) = Len(s) + 1 /\ r[Len(s) + 1] = a /\ Len(s) \in Nat
      /\ \A i \in 1 .. Len(s) : r[i] = s[i]
  BY AppendProperties
<1>2. DOMAIN r = 1 .. Len(r) /\ DOMAIN s = 1 .. Len(s)
  BY <1>1
<1>3. \A i \in 1 .. Len(s) : s[i] \in GoodFlit
  OBVIOUS
<1>4. s # <<>> => Len(s) >= 1 /\ LastOf(s) \in GoodFlit
  BY <1>3 DEF LastOf
<1>5. s # <<>> => Follows(LastOf(s), a)
  BY <1>4, NextFlit
<1>6. Chained(r) /\ (s # <<>> => r[1] = s[1]) /\ (s = <<>> => r[1] = a)
  BY <1>5, ChainAppend DEF Whole
<1> HIDE DEF r
<1>7. IsHead(r[1])
  BY <1>6 DEF Whole
<1>8. \A j \in DOMAIN r : Dst[r[j].pkt] = t
  BY <1>1, <1>2 DEF Whole
<1>9. \A k \in 1 .. Len(s) : s[k] # a
  <2> SUFFICES ASSUME NEW k \in 1 .. Len(s), s[k] = a
               PROVE  FALSE
    OBVIOUS
  <2>1. ~IsHead(a)
    BY <1>2 DEF Holds
  <2>2. s # <<>> /\ a = Succ(LastOf(s)) /\ IsHead(s[1])
    BY <2>1 DEF Whole
  <2>3. k # 1
    BY <2>1, <2>2
  <2>4. k - 1 \in 1 .. Len(s) - 1 /\ Follows(s[k - 1], s[(k - 1) + 1]) /\ s[(k - 1) + 1] = a
    BY <1>1, <2>3 DEF Whole, Chained
  <2>5. s[k - 1] \in GoodFlit /\ LastOf(s) \in GoodFlit /\ k - 1 # Len(s)
    BY <1>1, <1>3, <1>4, <2>2, <2>4
  <2>6. a = Succ(s[k - 1])
    BY <2>1, <2>4, <2>5, NextFlit
  <2>7. s[k - 1] = s[Len(s)]
    BY <2>2, <2>5, <2>6, NextFlit DEF LastOf
  <2> QED BY <1>1, <1>2, <2>4, <2>5, <2>7 DEF Whole
<1>10. \A j, k \in DOMAIN r : r[j] = r[k] => j = k
  <2> SUFFICES ASSUME NEW j \in DOMAIN r, NEW k \in DOMAIN r, r[j] = r[k]
               PROVE  j = k
    OBVIOUS
  <2>1. CASE j \in 1 .. Len(s) /\ k \in 1 .. Len(s)
    BY <1>1, <1>2, <2>1 DEF Whole
  <2>2. CASE j = Len(s) + 1 \/ k = Len(s) + 1
    BY <1>1, <1>2, <1>9, <2>2
  <2> QED BY <1>1, <1>2, <2>1, <2>2
<1> QED BY <1>6, <1>7, <1>8, <1>10 DEF Whole, r

(* The line of a tile is a sequence of flits.                               *)
LEMMA LineTypes ==
  ASSUME BufferTypes
  PROVE  \A u \in Tile : /\ Line(u) \in Seq(GoodFlit) /\ DOMAIN Line(u) = 1 .. Len(Line(u))
                         /\ \A k \in DOMAIN Line(u) : Line(u)[k] \in GoodFlit
BY DEF BufferTypes, Line

(* Nothing on the sending side moves.                                       *)
LEMMA SourceKept ==
  ASSUME NEW e, NEW owner, SourceInv(e, owner),
         UNCHANGED <<queue, sent, buffer_tx, tile2antenna_reservation, antenna2tile_reservation>>,
         \A u \in Tile : Line(u)' = Line(u)
  PROVE  SourceInv(e, owner)'
<1>1. \A u \in Tile : Line(u)' = Line(u) /\ (IsMid(u)' <=> IsMid(u)) /\ MidFlit(u)' = MidFlit(u)
  BY DEF IsMid, MidFlit
<1>2. \A h \in Hub : \A u \in Attached(h) : u \in Tile
  BY Tiles
<1>3. Generated'
  BY <1>1 DEF SourceInv, Generated
<1>4. Reserving'
  BY <1>1 DEF SourceInv, Reserving
<1>5. Transmitting'
  BY <1>1, <1>2 DEF SourceInv, Transmitting
<1>6. Accepting(e)'
  BY <1>1, <1>2 DEF SourceInv, Accepting
<1>7. Owned(owner)'
  BY <1>1 DEF SourceInv, Owned
<1>8. Once(e)'
  BY <1>1 DEF SourceInv, Once, Ready
<1> QED BY <1>3, <1>4, <1>5, <1>6, <1>7, <1>8 DEF SourceInv

(* What a tile adds to its line.                                            *)
LEMMA TileSends ==
  ASSUME NEW e, NEW owner, SourceInv(e, owner), BufferTypes, NEW t \in Tile, TileTx(t)
  PROVE  LET f == [pkt |-> Head(queue[t]), seq |-> sent[t]] IN
           /\ f \in GoodFlit /\ queue[t] # <<>> /\ Head(queue[t]) = queue[t][1]
           /\ Line(t)' = Append(Line(t), f)
           /\ \A u \in Tile : u # t =>
                Line(u)' = Line(u) /\ queue'[u] = queue[u] /\ sent'[u] = sent[u]
           /\ IsLast(f) => sent'[t] = 0 /\ queue'[t] = Tail(queue[t])
           /\ ~IsLast(f) => sent'[t] = sent[t] + 1 /\ queue'[t] = queue[t]
           /\ link_in' = [link_in EXCEPT ![t] = <<f>>]
           /\ IsHead(f) <=> sent[t] = 0
<1> DEFINE f == [pkt |-> Head(queue[t]), seq |-> sent[t]]
           p == Head(queue[t])
<1>1. /\ queue \in [Tile -> Seq(Packet)] /\ sent \in [Tile -> Nat]
      /\ queue[t] # <<>> /\ link_in[t] = <<>> /\ link_in \in [Tile -> Seq(GoodFlit)]
      /\ buffer_from_tile \in [Tile -> Seq(GoodFlit)]
      /\ link_in' = [link_in EXCEPT ![t] = <<f>>]
      /\ sent' = [sent EXCEPT ![t] = IF sent[t] = Size[p] - 1 THEN 0 ELSE @ + 1]
      /\ queue' = [queue EXCEPT ![t] = IF sent[t] = Size[p] - 1 THEN Tail(@) ELSE @]
      /\ buffer_from_tile' = buffer_from_tile
  BY DEF TileTx, BufferTypes, fromVars
<1>2. p \in Packet /\ p = queue[t][1]
  BY <1>1
<1>3. sent[t] \in Nat /\ sent[t] < Size[p]
  BY <1>1, <1>2, FlitFacts DEF SourceInv, Generated
<1>4. f \in GoodFlit
  BY <1>2, <1>3, FlitFacts
<1>5. IsLast(f) <=> sent[t] = Size[p] - 1
  BY DEF IsLast
<1>6. IsHead(f) <=> sent[t] = 0
  BY DEF IsHead
<1>7. Line(t)' = Append(Line(t), f)
  <2>1. Line(t)' = buffer_from_tile[t] \o <<f>> /\ Line(t) = buffer_from_tile[t] \o <<>>
    BY <1>1 DEF Line
  <2>2. buffer_from_tile[t] \in Seq(GoodFlit)
    BY <1>1
  <2>3. buffer_from_tile[t] \o <<>> = buffer_from_tile[t]
    BY <2>2, ConcatEmptySeq
  <2>4. Append(buffer_from_tile[t], f) = buffer_from_tile[t] \o <<f>>
    BY <2>2, <1>4, AppendIsConcat
  <2> QED BY <2>1, <2>3, <2>4
<1>8. \A u \in Tile : u # t => Line(u)' = Line(u) /\ queue'[u] = queue[u] /\ sent'[u] = sent[u]
  BY <1>1 DEF Line
<1>9. IsLast(f) => sent'[t] = 0 /\ queue'[t] = Tail(queue[t])
  BY <1>1, <1>5
<1>10. ~IsLast(f) => sent'[t] = sent[t] + 1 /\ queue'[t] = queue[t]
  BY <1>1, <1>5
<1> QED BY <1>1, <1>2, <1>4, <1>6, <1>7, <1>8, <1>9, <1>10

(* A tile puts the next flit on its link.                                   *)
LEMMA SourceGenerates ==
  ASSUME NEW e \in [Tile -> Seq(GoodFlit)], NEW owner, SourceInv(e, owner), BufferTypes,
         NEW t \in Tile, TileTx(t)
  PROVE  SourceInv(e, owner)'
<1> DEFINE f == [pkt |-> Head(queue[t]), seq |-> sent[t]]
           L == Line(t)
           N == Append(Line(t), f)
<1>1. /\ f \in GoodFlit /\ queue[t] # <<>> /\ f.pkt = queue[t][1] /\ f.seq = sent[t]
      /\ Line(t)' = N
      /\ \A u \in Tile : u # t => Line(u)' = Line(u) /\ queue'[u] = queue[u] /\ sent'[u] = sent[u]
      /\ IsLast(f) => sent'[t] = 0 /\ queue'[t] = Tail(queue[t])
      /\ ~IsLast(f) => sent'[t] = sent[t] + 1 /\ queue'[t] = queue[t]
      /\ IsHead(f) <=> sent[t] = 0
  BY TileSends
<1>2. /\ queue[t] \in Seq(Packet) /\ sent[t] \in Nat /\ L \in Seq(GoodFlit)
      /\ \A u \in Tile : Line(u) \in Seq(GoodFlit)
      /\ \A u \in Tile : queue[u] \in Seq(Packet)
  BY LineTypes DEF BufferTypes
<1>3. UNCHANGED <<buffer_tx, tile2antenna_reservation, antenna2tile_reservation>>
  BY DEF TileTx, radioVars, fromVars, rxVars
<1>4. /\ N \in Seq(GoodFlit) /\ Len(N) = Len(L) + 1 /\ N # <<>> /\ N[Len(L) + 1] = f
      /\ \A k \in 1 .. Len(L) : N[k] = L[k]
      /\ Len(L) \in Nat /\ DOMAIN N = 1 .. Len(L) + 1 /\ DOMAIN L = 1 .. Len(L)
  BY <1>1, <1>2, AppendProperties
<1>5. Chained(L) /\ (L # <<>> => Follows(LastOf(L), f))
  <2>1. Chained(L)
    BY DEF SourceInv, Generated
  <2>2. ASSUME L # <<>> PROVE Follows(LastOf(L), f)
    <3>1. LastOf(L) \in GoodFlit
      BY <1>2, <2>2, ChainTail, <2>1
    <3>2. CASE IsLast(LastOf(L))
      <4>1. IsHead(f)
        BY <1>1, <2>2, <3>2 DEF SourceInv, Generated
      <4> QED BY <4>1, <3>2 DEF Follows
    <3>3. CASE ~IsLast(LastOf(L))
      <4>1. LastOf(L) = [pkt |-> Head(queue[t]), seq |-> sent[t] - 1] /\ sent[t] > 0
        BY <2>2, <3>3 DEF SourceInv, Generated
      <4>2. f.pkt = LastOf(L).pkt /\ f.seq = LastOf(L).seq + 1
        BY <4>1, <1>2
      <4> QED BY <4>2, <3>3 DEF Follows
    <3> QED BY <3>2, <3>3
  <2> QED BY <2>1, <2>2
<1>6. Chained(N) /\ LastOf(N) = f /\ (L # <<>> => N[1] = L[1]) /\ (L = <<>> => N[1] = f)
  BY <1>1, <1>2, <1>5, ChainAppend
<1>7. sent[t] < Size[queue[t][1]] /\ Size[queue[t][1]] \in Nat /\ Head(queue[t]) = queue[t][1]
  BY <1>1, <1>2, FlitFacts
<1> HIDE DEF N
<1>8. Generated'
  <2>1. \A u \in Tile : u # t =>
          /\ Chained(Line(u)')
          /\ Line(u)' # <<>> => IF IsLast(LastOf(Line(u)')) THEN sent'[u] = 0
                ELSE sent'[u] > 0 /\ LastOf(Line(u)') = [pkt |-> Head(queue'[u]), seq |-> sent'[u] - 1]
          /\ sent'[u] > 0 => queue'[u] # <<>> /\ sent'[u] < Size[Head(queue'[u])]
    BY <1>1 DEF SourceInv, Generated
  <2>2. /\ Chained(N)
        /\ IF IsLast(LastOf(N)) THEN sent'[t] = 0
                ELSE sent'[t] > 0 /\ LastOf(N) = [pkt |-> Head(queue'[t]), seq |-> sent'[t] - 1]
        /\ sent'[t] > 0 => queue'[t] # <<>> /\ sent'[t] < Size[Head(queue'[t])]
    <3>1. CASE IsLast(f)
      BY <1>1, <1>6, <3>1
    <3>2. CASE ~IsLast(f)
      <4>1. sent[t] # Size[queue[t][1]] - 1
        BY <1>1, <3>2 DEF IsLast
      <4>2. sent'[t] = sent[t] + 1 /\ queue'[t] = queue[t] /\ (sent[t] + 1) - 1 = sent[t]
        BY <1>1, <1>2, <3>2
      <4>3. sent'[t] > 0 /\ sent'[t] - 1 = sent[t] /\ queue'[t] = queue[t]
        BY <1>2, <4>2
      <4>4. LastOf(N) = [pkt |-> Head(queue'[t]), seq |-> sent'[t] - 1]
        BY <1>6, <4>3
      <4>5. sent'[t] < Size[Head(queue'[t])]
        BY <1>2, <1>7, <4>1, <4>2
      <4>6. ~IsLast(LastOf(N)) /\ queue'[t] # <<>>
        BY <1>1, <1>6, <3>2, <4>3
      <4> QED BY <1>6, <4>3, <4>4, <4>5, <4>6
    <3> QED BY <3>1, <3>2
  <2> QED BY <1>1, <2>1, <2>2 DEF Generated
<1>9. \A u \in Tile : (IsMid(u)' <=> IsMid(u)) /\ (IsMid(u) => MidFlit(u)' = MidFlit(u))
  <2>1. ASSUME NEW u \in Tile, u # t PROVE (IsMid(u)' <=> IsMid(u)) /\ MidFlit(u)' = MidFlit(u)
    BY <1>1, <2>1 DEF IsMid, MidFlit
  <2>2. (IsMid(t)' <=> IsMid(t)) /\ MidFlit(t)' = MidFlit(t)
    <3>1. Line(t)' # <<>>
      BY <1>1, <1>4
    <3>2. CASE L # <<>>
      BY <1>1, <1>6, <3>1, <3>2 DEF IsMid, MidFlit
    <3>3. CASE L = <<>>
      <4>1. IsMid(t)' <=> ~IsHead(f)
        BY <1>1, <1>6, <3>1, <3>3 DEF IsMid
      <4>2. IsMid(t) <=> sent[t] > 0
        BY <3>3 DEF IsMid
      <4>3. MidFlit(t)' = f /\ MidFlit(t) = f
        BY <1>1, <1>6, <3>1, <3>3 DEF MidFlit
      <4> QED BY <4>1, <4>2, <4>3, <1>1, <1>2
    <3> QED BY <3>2, <3>3
  <2> QED BY <2>1, <2>2
<1>10. \A h \in Hub : \A u \in Attached(h) : u \in Tile
  BY Tiles
<1>11. Reserving'
  BY <1>3, <1>9 DEF SourceInv, Reserving
<1>12. Transmitting'
  BY <1>3, <1>9, <1>10 DEF SourceInv, Transmitting
<1>13. Accepting(e)'
  BY <1>3, <1>9, <1>10 DEF SourceInv, Accepting
<1>14. \A k \in DOMAIN queue'[t] : \E l \in DOMAIN queue[t] :
         /\ queue'[t][k] = queue[t][l]
         /\ l = IF IsLast(f) THEN k + 1 ELSE k
  <2>1. CASE IsLast(f)
    <3>1. \A k \in DOMAIN Tail(queue[t]) : k + 1 \in DOMAIN queue[t] /\ Tail(queue[t])[k] = queue[t][k + 1]
      BY <1>1, <1>2, HeadTailProperties
    <3> QED BY <1>1, <2>1, <3>1
  <2>2. CASE ~IsLast(f)
    BY <1>1, <2>2
  <2> QED BY <2>1, <2>2
<1>15. 1 \in DOMAIN queue[t] /\ queue'[t] \in Seq(Packet)
  <2>1. Tail(queue[t]) \in Seq(Packet)
    BY <1>1, <1>2, HeadTailProperties
  <2>2. queue'[t] \in Seq(Packet)
    <3>1. CASE IsLast(f)
      BY <1>1, <2>1, <3>1
    <3>2. CASE ~IsLast(f)
      BY <1>1, <1>2, <3>2
    <3> QED BY <3>1, <3>2
  <2>3. 1 \in DOMAIN queue[t]
    BY <1>1, <1>2
  <2> QED BY <2>2, <2>3
<1>16. Owned(owner)'
  <2>1. \A u \in Tile : \A k \in DOMAIN queue'[u] : owner[queue'[u][k]] = u
    BY <1>1, <1>14 DEF SourceInv, Owned
  <2>2. \A u \in Tile : u # t => \A k \in DOMAIN Line(u)' : owner[Line(u)'[k].pkt] = u
    BY <1>1 DEF SourceInv, Owned
  <2>3. \A k \in DOMAIN N : owner[N[k].pkt] = t
    <3>1. owner[f.pkt] = t
      BY <1>1, <1>15 DEF SourceInv, Owned
    <3>2. \A k \in DOMAIN L : owner[L[k].pkt] = t
      BY DEF SourceInv, Owned
    <3>3. \A k \in DOMAIN N : N[k] = f \/ (k \in DOMAIN L /\ N[k] = L[k])
      BY <1>4
    <3> QED BY <3>1, <3>2, <3>3
  <2> QED BY <1>1, <1>3, <2>1, <2>2, <2>3, SMTT(30) DEF SourceInv, Owned
<1>17. Once(e)'
  <2>1. \A u \in Tile : \A k, l \in DOMAIN queue'[u] : queue'[u][k] = queue'[u][l] => k = l
    <3> SUFFICES ASSUME NEW u \in Tile, NEW k \in DOMAIN queue'[u], NEW l \in DOMAIN queue'[u],
                        queue'[u][k] = queue'[u][l]
                 PROVE  k = l
      OBVIOUS
    <3>1. CASE u # t
      BY <1>1, <3>1 DEF SourceInv, Once
    <3>2. CASE u = t
      <4>1. PICK i \in DOMAIN queue[t] : queue'[t][k] = queue[t][i] /\ i = IF IsLast(f) THEN k + 1 ELSE k
        BY <1>14, <3>2
      <4>2. PICK j \in DOMAIN queue[t] : queue'[t][l] = queue[t][j] /\ j = IF IsLast(f) THEN l + 1 ELSE l
        BY <1>14, <3>2
      <4>3. i = j
        BY <3>2, <4>1, <4>2 DEF SourceInv, Once
      <4>4. k \in Nat /\ l \in Nat
        BY <3>2, <1>15
      <4> QED BY <4>1, <4>2, <4>3, <4>4
    <3> QED BY <3>1, <3>2
  <2>2. \A k \in DOMAIN queue'[t] : Ready(t, k)' =>
          \E l \in DOMAIN queue[t] : queue'[t][k] = queue[t][l] /\ l # 1 /\ Ready(t, l)
    <3> SUFFICES ASSUME NEW k \in DOMAIN queue'[t], Ready(t, k)'
                 PROVE  \E l \in DOMAIN queue[t] : queue'[t][k] = queue[t][l] /\ l # 1 /\ Ready(t, l)
      OBVIOUS
    <3>1. PICK l \in DOMAIN queue[t] : queue'[t][k] = queue[t][l] /\ l = IF IsLast(f) THEN k + 1 ELSE k
      BY <1>14
    <3>2. k \in Nat \ {0} /\ l \in Nat \ {0}
      BY <1>2, <1>15
    <3>3. CASE IsLast(f)
      BY <3>1, <3>2, <3>3 DEF Ready
    <3>4. CASE ~IsLast(f)
      <4>1. sent'[t] > 0
        BY <1>1, <1>2, <3>4
      <4> QED BY <3>1, <3>2, <3>4, <4>1 DEF Ready
    <3> QED BY <3>3, <3>4
  <2>3. \A u \in Tile : \A k \in DOMAIN queue'[u] : Ready(u, k)' =>
          \E l \in DOMAIN queue[u] : queue'[u][k] = queue[u][l] /\ Ready(u, l) /\ (u = t => l # 1)
    BY <1>1, <2>2 DEF Ready
  <2>4. \A u \in Tile : \A k \in DOMAIN queue'[u] : Ready(u, k)' =>
          /\ ~Holds(Line(u)', queue'[u][k])
          /\ ~Holds(buffer_tx'[hub_for_tile[u]], queue'[u][k])
          /\ ~Holds(e[Dst[queue'[u][k]]], queue'[u][k])
    <3> SUFFICES ASSUME NEW u \in Tile, NEW k \in DOMAIN queue'[u], Ready(u, k)'
                 PROVE  /\ ~Holds(Line(u)', queue'[u][k])
                        /\ ~Holds(buffer_tx'[hub_for_tile[u]], queue'[u][k])
                        /\ ~Holds(e[Dst[queue'[u][k]]], queue'[u][k])
      OBVIOUS
    <3>1. PICK l \in DOMAIN queue[u] : queue'[u][k] = queue[u][l] /\ Ready(u, l) /\ (u = t => l # 1)
      BY <2>3
    <3>2. /\ ~Holds(Line(u), queue[u][l])
          /\ ~Holds(buffer_tx[hub_for_tile[u]], queue[u][l])
          /\ ~Holds(e[Dst[queue[u][l]]], queue[u][l])
      BY <3>1 DEF SourceInv, Once
    <3>3. u = t => f.pkt # queue[u][l]
      BY <1>1, <1>15, <3>1 DEF SourceInv, Once
    <3>4. ~Holds(Line(u)', queue[u][l])
      <4>1. CASE u # t
        BY <1>1, <3>2, <4>1
      <4>2. CASE u = t
        <5>1. \A i \in DOMAIN N : N[i] = f \/ (i \in DOMAIN L /\ N[i] = L[i])
          BY <1>4
        <5>2. \A i \in DOMAIN N : N[i].pkt # queue[u][l]
          BY <3>2, <3>3, <4>2, <5>1 DEF Holds
        <5> QED BY <1>1, <4>2, <5>2 DEF Holds
      <4> QED BY <4>1, <4>2
    <3> QED BY <1>3, <3>1, <3>2, <3>4
  <2>5. \A u \in Tile : \A k \in DOMAIN Line(u)' : IsHead(Line(u)'[k]) =>
          /\ \A l \in 1 .. k - 1 : Line(u)'[l].pkt # Line(u)'[k].pkt
          /\ ~Holds(buffer_tx'[hub_for_tile[u]], Line(u)'[k].pkt)
          /\ ~Holds(e[Dst[Line(u)'[k].pkt]], Line(u)'[k].pkt)
    <3> SUFFICES ASSUME NEW u \in Tile, NEW k \in DOMAIN Line(u)', IsHead(Line(u)'[k])
                 PROVE  /\ \A l \in 1 .. k - 1 : Line(u)'[l].pkt # Line(u)'[k].pkt
                        /\ ~Holds(buffer_tx'[hub_for_tile[u]], Line(u)'[k].pkt)
                        /\ ~Holds(e[Dst[Line(u)'[k].pkt]], Line(u)'[k].pkt)
      OBVIOUS
    <3>1. CASE u # t
      <4>1. Line(u)' = Line(u) /\ k \in DOMAIN Line(u) /\ IsHead(Line(u)[k])
        BY <1>1, <3>1
      <4>2. /\ \A l \in 1 .. k - 1 : Line(u)[l].pkt # Line(u)[k].pkt
            /\ ~Holds(buffer_tx[hub_for_tile[u]], Line(u)[k].pkt)
            /\ ~Holds(e[Dst[Line(u)[k].pkt]], Line(u)[k].pkt)
        BY <4>1 DEF SourceInv, Once
      <4> QED BY <1>3, <4>1, <4>2
    <3>2. CASE u = t /\ k \in DOMAIN L
      <4>1. \A l \in 1 .. k : N[l] = L[l]
        BY <1>4, <3>2
      <4>2. N[k] = L[k] /\ k \in 1 .. k
        BY <1>4, <3>2
      <4>3. /\ \A l \in 1 .. k - 1 : L[l].pkt # L[k].pkt
            /\ ~Holds(buffer_tx[hub_for_tile[t]], L[k].pkt)
            /\ ~Holds(e[Dst[L[k].pkt]], L[k].pkt)
        BY <1>1, <3>2, <4>2 DEF SourceInv, Once
      <4>4. \A l \in 1 .. k - 1 : l \in 1 .. k
        BY <1>4, <3>2
      <4> QED BY <1>1, <1>3, <3>2, <4>1, <4>2, <4>3, <4>4
    <3>3. CASE u = t /\ k \notin DOMAIN L
      <4>1. k = Len(L) + 1 /\ N[k] = f
        BY <1>1, <1>4, <3>3
      <4>2. Ready(t, 1)
        BY <1>1, <3>3, <4>1 DEF Ready
      <4>3. /\ ~Holds(L, f.pkt)
            /\ ~Holds(buffer_tx[hub_for_tile[t]], f.pkt)
            /\ ~Holds(e[Dst[f.pkt]], f.pkt)
        BY <1>1, <1>15, <4>2 DEF SourceInv, Once
      <4>4. \A l \in 1 .. k - 1 : N[l] = L[l] /\ l \in DOMAIN L
        BY <1>4, <4>1
      <4>5. \A l \in 1 .. k - 1 : N[l].pkt # f.pkt
        BY <4>3, <4>4 DEF Holds
      <4> QED BY <1>1, <1>3, <3>3, <4>1, <4>3, <4>5
    <3> QED BY <3>1, <3>2, <3>3
  <2>6. \A h \in Hub : \A k \in DOMAIN buffer_tx'[h] : IsHead(buffer_tx'[h][k]) =>
          /\ \A l \in 1 .. k - 1 : buffer_tx'[h][l].pkt # buffer_tx'[h][k].pkt
          /\ ~Holds(e[Dst[buffer_tx'[h][k].pkt]], buffer_tx'[h][k].pkt)
    BY <1>3 DEF SourceInv, Once
  <2> QED BY <2>1, <2>4, <2>5, <2>6 DEF Once
<1> QED BY <1>8, <1>11, <1>12, <1>13, <1>16, <1>17 DEF SourceInv

(* The front of a sequence is the front of what begins with it.             *)
LEMMA TailConcat ==
  ASSUME NEW S, NEW s \in Seq(S), NEW l \in Seq(S), s # <<>>
  PROVE  Tail(s) \o l = Tail(s \o l) /\ s \o l # <<>> /\ (s \o l)[1] = Head(s)
<1> DEFINE a == Tail(s) \o l
           b == Tail(s \o l)
<1>1. Tail(s) \in Seq(S) /\ Len(Tail(s)) = Len(s) - 1 /\ Len(s) \in Nat \ {0}
      /\ \A i \in 1 .. Len(Tail(s)) : Tail(s)[i] = s[i + 1]
  BY HeadTailProperties
<1>2. s \o l \in Seq(S) /\ Len(s \o l) = Len(s) + Len(l) /\ Len(l) \in Nat
      /\ \A i \in 1 .. Len(s) + Len(l) : (s \o l)[i] = IF i <= Len(s) THEN s[i] ELSE l[i - Len(s)]
  BY ConcatProperties
<1>3. s \o l # <<>>
  BY <1>1, <1>2
<1>4. b \in Seq(S) /\ Len(b) = Len(s) + Len(l) - 1
      /\ \A i \in 1 .. Len(b) : b[i] = (s \o l)[i + 1]
  BY <1>1, <1>2, <1>3, HeadTailProperties
<1>5. a \in Seq(S) /\ Len(a) = Len(s) + Len(l) - 1
      /\ \A i \in 1 .. Len(a) : a[i] = IF i <= Len(s) - 1 THEN s[i + 1] ELSE l[i - (Len(s) - 1)]
  BY <1>1, ConcatProperties
<1> HIDE DEF a, b
<1>6. \A i \in 1 .. Len(a) : a[i] = b[i]
  <2> SUFFICES ASSUME NEW i \in 1 .. Len(a)
               PROVE  a[i] = b[i]
    OBVIOUS
  <2>1. i \in Nat /\ i + 1 \in 1 .. Len(s) + Len(l) /\ (i + 1) - Len(s) = i - (Len(s) - 1)
        /\ (i + 1 <= Len(s) <=> i <= Len(s) - 1)
    BY <1>1, <1>2, <1>5
  <2> QED BY <1>1, <1>2, <1>4, <1>5, <2>1
<1>7. a = b
  BY <1>4, <1>5, <1>6, SeqEqual
<1>8. (s \o l)[1] = Head(s)
  BY <1>1, <1>2
<1> QED BY <1>3, <1>7, <1>8 DEF a, b

(* What an edge of the hub does to the lines of its tiles.                  *)
LEMMA LinesMove ==
  ASSUME BufferTypes, NEW h \in Hub, TileToAntennaProcess(h)
  PROVE  \/ /\ \A u \in Tile : Line(u)' = Line(u)
            /\ buffer_tx' = buffer_tx
            /\ tile2antenna_reservation' =
                 [tile2antenna_reservation EXCEPT ![h] = Reserved(h)]
         \/ \E r \in Attached(h) :
              /\ r = Reserved(h) /\ Line(r) # <<>>
              /\ Line(r)' = Tail(Line(r))
              /\ \A u \in Tile : u # r => Line(u)' = Line(u)
              /\ buffer_tx' = [buffer_tx EXCEPT ![h] = Append(@, Line(r)[1])]
              /\ tile2antenna_reservation' = [tile2antenna_reservation EXCEPT ![h] =
                   IF IsTail(Line(r)[1]) THEN NOT_RESERVED ELSE r]
<1> DEFINE r == Reserved(h)
           moved == { t \in Attached(h) : Moves(h, t) }
           front == Head(buffer_from_tile[r])
<1>1. /\ buffer_from_tile \in [Tile -> Seq(GoodFlit)] /\ link_in \in [Tile -> Seq(GoodFlit)]
      /\ buffer_from_tile' = [t \in Tile |->
           IF Takes(h, t) THEN LeftFromTile(h, t) \o link_in[t]
           ELSE IF t \in moved THEN LeftFromTile(h, t)
           ELSE buffer_from_tile[t]]
      /\ link_in' = [t \in Tile |-> IF Takes(h, t) THEN <<>> ELSE link_in[t]]
      /\ buffer_tx' = [buffer_tx EXCEPT ![h] = IF moved # {} THEN Append(@, front) ELSE @]
      /\ tile2antenna_reservation' = [tile2antenna_reservation EXCEPT ![h] =
           IF moved # {} /\ IsTail(front) THEN NOT_RESERVED ELSE r]
      /\ buffer_tx = [g \in Hub |-> buffer_tx[g]]
  BY DEF BufferTypes, TileToAntennaProcess
<1>2. \A t \in Attached(h) : t \in Tile
  BY Tiles
<1>3. \A t : t \in moved <=> t \in Attached(h) /\ Moves(h, t)
  OBVIOUS
<1>4. \A t \in moved : t = r /\ buffer_from_tile[t] # <<>>
  BY DEF Moves
<1> HIDE DEF moved
<1>5. \A t \in Tile : LeftFromTile(h, t) \in Seq(GoodFlit)
  <2> SUFFICES ASSUME NEW t \in Tile
               PROVE  LeftFromTile(h, t) \in Seq(GoodFlit)
    OBVIOUS
  <2>1. buffer_from_tile[t] \in Seq(GoodFlit)
    BY <1>1
  <2>2. CASE Moves(h, t)
    <3>1. Tail(buffer_from_tile[t]) \in Seq(GoodFlit)
      BY <2>1, <2>2, HeadTailProperties DEF Moves
    <3> QED BY <2>2, <3>1 DEF LeftFromTile
  <2>3. CASE ~Moves(h, t)
    BY <2>1, <2>3 DEF LeftFromTile
  <2> QED BY <2>2, <2>3
<1>6. \A t \in Tile : (t \in moved \/ Takes(h, t)) => Line(t)' = LeftFromTile(h, t) \o link_in[t]
  <2> SUFFICES ASSUME NEW t \in Tile, t \in moved \/ Takes(h, t)
               PROVE  Line(t)' = LeftFromTile(h, t) \o link_in[t]
    OBVIOUS
  <2>1. CASE Takes(h, t)
    <3>1. Line(t)' = (LeftFromTile(h, t) \o link_in[t]) \o <<>>
      BY <1>1, <2>1 DEF Line
    <3>2. LeftFromTile(h, t) \o link_in[t] \in Seq(GoodFlit)
      BY <1>1, <1>5, ConcatProperties
    <3> QED BY <3>1, <3>2, ConcatEmptySeq
  <2>2. CASE ~Takes(h, t)
    BY <1>1, <2>2 DEF Line
  <2> QED BY <2>1, <2>2
<1>7. \A t \in Tile : t \notin moved => Line(t)' = Line(t)
  <2> SUFFICES ASSUME NEW t \in Tile, t \notin moved
               PROVE  Line(t)' = Line(t)
    OBVIOUS
  <2>1. CASE Takes(h, t)
    <3>1. t \in Attached(h)
      BY <2>1 DEF Takes
    <3>2. LeftFromTile(h, t) = buffer_from_tile[t]
      BY <1>3, <3>1 DEF LeftFromTile
    <3> QED BY <1>6, <2>1, <3>2 DEF Line
  <2>2. CASE ~Takes(h, t)
    BY <1>1, <2>2 DEF Line
  <2> QED BY <2>1, <2>2
<1>8. CASE moved = {}
  <2>1. buffer_tx' = buffer_tx
    BY <1>1, <1>8
  <2>2. tile2antenna_reservation' = [tile2antenna_reservation EXCEPT ![h] = r]
    BY <1>1, <1>8
  <2>3. \A u \in Tile : Line(u)' = Line(u)
    BY <1>7, <1>8
  <2> QED BY <2>1, <2>2, <2>3
<1>9. CASE moved # {}
  <2>1. PICK t \in Attached(h) : t \in moved
    BY <1>3, <1>9
  <2>2. t = r /\ Moves(h, t) /\ t \in Tile /\ \A u \in Tile : u \in moved => u = t
    BY <1>2, <1>3, <1>4, <2>1
  <2>3. buffer_from_tile[t] \in Seq(GoodFlit) /\ link_in[t] \in Seq(GoodFlit)
        /\ buffer_from_tile[t] # <<>>
    BY <1>1, <1>4, <2>1, <2>2
  <2>4. LeftFromTile(h, t) = Tail(buffer_from_tile[t])
    BY <2>2 DEF LeftFromTile
  <2>5. Line(t)' = Tail(buffer_from_tile[t]) \o link_in[t]
    BY <1>6, <2>1, <2>2, <2>4
  <2>6. Line(t)' = Tail(Line(t)) /\ Line(t) # <<>> /\ Line(t)[1] = front
    BY <2>2, <2>3, <2>5, TailConcat DEF Line
  <2>7. \A u \in Tile : u # t => Line(u)' = Line(u)
    BY <1>7, <2>2
  <2>8. buffer_tx' = [buffer_tx EXCEPT ![h] = Append(@, Line(t)[1])]
    BY <1>1, <1>9, <2>6
  <2>9. tile2antenna_reservation' = [tile2antenna_reservation EXCEPT ![h] =
          IF IsTail(Line(t)[1]) THEN NOT_RESERVED ELSE t]
    BY <1>1, <1>9, <2>2, <2>6
  <2> QED BY <2>1, <2>2, <2>6, <2>7, <2>8, <2>9
<1> QED BY <1>8, <1>9

(* The tile in the middle of a packet has the channel.                      *)
LEMMA MidReserved ==
  ASSUME NEW e, NEW owner, SourceInv(e, owner), NEW h \in Hub, NEW u \in Attached(h), IsMid(u)
  PROVE  Reserved(h) = u
<1>1. u \in Tile /\ hub_for_tile[u] = h /\ u # NOT_RESERVED
  BY Tiles
<1>2. tile2antenna_reservation[h] = u
  BY <1>1 DEF SourceInv, Reserving
<1> QED BY <1>1, <1>2 DEF Reserved

(* A hub reserves the channel for one of its tiles and moves nothing.       *)
LEMMA SourceReserves ==
  ASSUME NEW e, NEW owner, SourceInv(e, owner), BufferTypes, NEW h \in Hub,
         UNCHANGED <<queue, sent, buffer_tx, antenna2tile_reservation>>,
         \A u \in Tile : Line(u)' = Line(u),
         tile2antenna_reservation' = [tile2antenna_reservation EXCEPT ![h] = Reserved(h)]
  PROVE  SourceInv(e, owner)'
<1>1. \A u \in Tile : Line(u)' = Line(u) /\ (IsMid(u)' <=> IsMid(u)) /\ MidFlit(u)' = MidFlit(u)
  BY DEF IsMid, MidFlit
<1>2. \A g \in Hub : \A u \in Attached(g) : u \in Tile
  BY Tiles
<1>3. Generated'
  BY <1>1 DEF SourceInv, Generated
<1>4. Reserving'
  <2> SUFFICES ASSUME NEW u \in Tile, IsMid(u)
               PROVE  tile2antenna_reservation'[hub_for_tile[u]] = u
    BY <1>1 DEF Reserving
  <2>1. hub_for_tile[u] \in Hub /\ u \in Attached(hub_for_tile[u])
    BY Tiles
  <2>2. tile2antenna_reservation[hub_for_tile[u]] = u
    BY DEF SourceInv, Reserving
  <2>3. hub_for_tile[u] = h => Reserved(h) = u
    BY <2>1, MidReserved
  <2> QED BY <2>1, <2>2, <2>3 DEF BufferTypes
<1>5. Transmitting'
  BY <1>1, <1>2 DEF SourceInv, Transmitting
<1>6. Accepting(e)'
  BY <1>1, <1>2 DEF SourceInv, Accepting
<1>7. Owned(owner)'
  BY <1>1 DEF SourceInv, Owned
<1>8. Once(e)'
  BY <1>1 DEF SourceInv, Once, Ready
<1> QED BY <1>3, <1>4, <1>5, <1>6, <1>7, <1>8 DEF SourceInv

(* After the front of its line has moved, a tile is in the middle of a      *)
(* packet if that was not the last flit of it.                              *)
LEMMA MidMoves ==
  ASSUME BufferTypes, NEW e, NEW owner, SourceInv(e, owner), NEW r \in Tile, Line(r) # <<>>,
         UNCHANGED <<queue, sent>>, Line(r)' = Tail(Line(r))
  PROVE  LET f == Line(r)[1] IN
           /\ f \in GoodFlit
           /\ ~IsHead(f) => IsMid(r) /\ MidFlit(r) = f
           /\ IsHead(f) => ~IsMid(r)
           /\ IsMid(r)' <=> ~IsLast(f)
           /\ IsMid(r)' => MidFlit(r)' = Succ(f)
           /\ (\A u \in Tile : u # r => Line(u)' = Line(u)) => Generated'
<1> DEFINE f == Line(r)[1]
           L == Line(r)
           T == Tail(L)
<1>1. L \in Seq(GoodFlit) /\ Chained(L) /\ queue[r] \in Seq(Packet) /\ sent[r] \in Nat
  BY LineTypes DEF SourceInv, Generated, BufferTypes
<1>2. /\ T \in Seq(GoodFlit) /\ f \in GoodFlit /\ Chained(T)
      /\ T # <<>> => T[1] \in GoodFlit /\ Follows(f, T[1]) /\ LastOf(T) = LastOf(L)
      /\ T = <<>> => LastOf(L) = f
  BY <1>1, ChainTail
<1>3. ~IsHead(f) => IsMid(r) /\ MidFlit(r) = f
  BY DEF IsMid, MidFlit
<1>4. IsHead(f) => ~IsMid(r)
  BY DEF IsMid
<1> HIDE DEF T
<1>5. Line(r)' = T
  BY DEF T
<1>6. (IsMid(r)' <=> ~IsLast(f)) /\ (IsMid(r)' => MidFlit(r)' = Succ(f))
  <2>1. CASE T # <<>>
    <3>1. IsMid(r)' <=> ~IsHead(T[1])
      BY <1>5, <2>1 DEF IsMid
    <3>2. MidFlit(r)' = T[1]
      BY <1>5, <2>1 DEF MidFlit
    <3> QED BY <1>2, <2>1, <3>1, <3>2, NextFlit
  <2>2. CASE T = <<>>
    <3>1. LastOf(L) = f
      BY <1>2, <2>2
    <3>2. IF IsLast(f) THEN sent[r] = 0
          ELSE sent[r] > 0 /\ f = [pkt |-> Head(queue[r]), seq |-> sent[r] - 1]
      BY <3>1 DEF SourceInv, Generated
    <3>3. IsMid(r)' <=> sent[r] > 0
      BY <1>5, <2>2 DEF IsMid
    <3>4. MidFlit(r)' = [pkt |-> Head(queue[r]), seq |-> sent[r]]
      BY <1>5, <2>2 DEF MidFlit
    <3>5. CASE IsLast(f)
      BY <1>1, <3>2, <3>3, <3>5
    <3>6. CASE ~IsLast(f)
      <4>1. Succ(f) = [pkt |-> f.pkt, seq |-> f.seq + 1]
        BY <1>2, FlitFacts
      <4>2. f.pkt = Head(queue[r]) /\ f.seq = sent[r] - 1 /\ f.seq + 1 = sent[r]
        BY <1>1, <3>2, <3>6
      <4> QED BY <3>2, <3>3, <3>4, <3>6, <4>1, <4>2
    <3> QED BY <3>5, <3>6
  <2> QED BY <2>1, <2>2
<1>7. ASSUME \A u \in Tile : u # r => Line(u)' = Line(u) PROVE Generated'
  <2>1. \A u \in Tile \ {r} :
          /\ Chained(Line(u)')
          /\ Line(u)' # <<>> => IF IsLast(LastOf(Line(u)')) THEN sent'[u] = 0
                ELSE sent'[u] > 0 /\ LastOf(Line(u)') = [pkt |-> Head(queue'[u]), seq |-> sent'[u] - 1]
          /\ sent'[u] > 0 => queue'[u] # <<>> /\ sent'[u] < Size[Head(queue'[u])]
    BY <1>7 DEF SourceInv, Generated
  <2>2. /\ Chained(T)
        /\ T # <<>> => IF IsLast(LastOf(T)) THEN sent'[r] = 0
                ELSE sent'[r] > 0 /\ LastOf(T) = [pkt |-> Head(queue'[r]), seq |-> sent'[r] - 1]
        /\ sent'[r] > 0 => queue'[r] # <<>> /\ sent'[r] < Size[Head(queue'[r])]
    BY <1>2 DEF SourceInv, Generated
  <2> QED BY <1>5, <2>1, <2>2 DEF Generated
<1> QED BY <1>2, <1>3, <1>4, <1>6, <1>7

(* The front of the line of a tile moves to buffer_tx.                      *)
LEMMA SourceMoves ==
  ASSUME NEW e \in [Tile -> Seq(GoodFlit)], NEW owner, SourceInv(e, owner), BufferTypes,
         NEW h \in Hub, UNCHANGED <<queue, sent, antenna2tile_reservation>>,
         NEW r \in Attached(h), r = Reserved(h), Line(r) # <<>>, Line(r)' = Tail(Line(r)),
         \A u \in Tile : u # r => Line(u)' = Line(u),
         buffer_tx' = [buffer_tx EXCEPT ![h] = Append(@, Line(r)[1])],
         tile2antenna_reservation' = [tile2antenna_reservation EXCEPT ![h] =
           IF IsTail(Line(r)[1]) THEN NOT_RESERVED ELSE r]
  PROVE  SourceInv(e, owner)'
<1> DEFINE f == Line(r)[1]
           L == Line(r)
           B == buffer_tx[h]
           N == Append(B, f)
<1>1. /\ r \in Tile /\ hub_for_tile[r] = h /\ r \in Attached(h)
      /\ \A g \in Hub : \A u \in Attached(g) : u \in Tile /\ hub_for_tile[u] = g
      /\ \A u \in Tile : hub_for_tile[u] \in Hub /\ u \in Attached(hub_for_tile[u])
  BY Tiles
<1>2. /\ f \in GoodFlit
      /\ ~IsHead(f) => IsMid(r) /\ MidFlit(r) = f
      /\ IsHead(f) => ~IsMid(r)
      /\ IsMid(r)' <=> ~IsLast(f)
      /\ IsMid(r)' => MidFlit(r)' = Succ(f)
      /\ Generated'
  BY <1>1, MidMoves
<1>3. /\ \A u \in Tile : Line(u) \in Seq(GoodFlit)
      /\ \A g \in Hub : buffer_tx[g] \in Seq(GoodFlit)
      /\ \A u \in Tile : queue[u] \in Seq(Packet)
  BY LineTypes DEF BufferTypes
<1>4. /\ buffer_tx'[h] = N /\ \A g \in Hub : g # h => buffer_tx'[g] = buffer_tx[g]
      /\ tile2antenna_reservation'[h] = IF IsTail(f) THEN NOT_RESERVED ELSE r
      /\ \A g \in Hub : g # h => tile2antenna_reservation'[g] = tile2antenna_reservation[g]
      /\ Line(r)' = Tail(L) /\ \A u \in Tile : u # r => Line(u)' = Line(u)
      /\ queue' = queue /\ sent' = sent /\ antenna2tile_reservation' = antenna2tile_reservation
  BY DEF BufferTypes
<1>5. /\ N \in Seq(GoodFlit) /\ Len(N) = Len(B) + 1 /\ N # <<>> /\ N[Len(B) + 1] = f
      /\ \A k \in 1 .. Len(B) : N[k] = B[k]
      /\ Len(B) \in Nat /\ DOMAIN N = 1 .. Len(B) + 1 /\ DOMAIN B = 1 .. Len(B)
  <2>1. B \in Seq(GoodFlit) /\ f \in GoodFlit
    BY <1>2, <1>3
  <2>2. /\ N \in Seq(GoodFlit) /\ Len(N) = Len(B) + 1 /\ N[Len(B) + 1] = f
        /\ \A k \in 1 .. Len(B) : N[k] = B[k]
    BY <2>1, AppendProperties
  <2>3. Len(B) \in Nat /\ DOMAIN B = 1 .. Len(B)
    BY <2>1
  <2> HIDE DEF N
  <2>4. N # <<>> /\ DOMAIN N = 1 .. Len(N)
    BY <2>2, <2>3
  <2> QED BY <2>2, <2>3, <2>4
<1>6. /\ Tail(L) \in Seq(GoodFlit) /\ Len(Tail(L)) = Len(L) - 1 /\ Len(L) \in Nat \ {0}
      /\ \A i \in 1 .. Len(Tail(L)) : Tail(L)[i] = L[i + 1]
      /\ DOMAIN L = 1 .. Len(L) /\ DOMAIN Tail(L) = 1 .. Len(L) - 1
  BY <1>1, <1>3, HeadTailProperties
<1>7. \A u \in Tile : u # r => (IsMid(u)' <=> IsMid(u)) /\ MidFlit(u)' = MidFlit(u)
  BY <1>4 DEF IsMid, MidFlit
<1>8. \A u \in Attached(h) : u # r => ~IsMid(u)
  BY MidReserved
<1> HIDE DEF N
<1>9. Reserving'
  <2> SUFFICES ASSUME NEW u \in Tile, IsMid(u)'
               PROVE  tile2antenna_reservation'[hub_for_tile[u]] = u
    BY DEF Reserving
  <2>1. CASE u = r
    <3>1. ~IsTail(f)
      BY <1>2, <2>1, NextFlit
    <3> QED BY <1>1, <1>4, <2>1, <3>1
  <2>2. CASE u # r
    <3>1. IsMid(u) /\ hub_for_tile[u] \in Hub /\ hub_for_tile[u] # h
      BY <1>1, <1>7, <1>8, <2>2
    <3> QED BY <1>4, <3>1 DEF SourceInv, Reserving
  <2> QED BY <2>1, <2>2
<1>10. B # <<>> => LastOf(B) \in GoodFlit /\ Follows(LastOf(B), f)
  <2> SUFFICES ASSUME B # <<>>
               PROVE  LastOf(B) \in GoodFlit /\ Follows(LastOf(B), f)
    OBVIOUS
  <2>1. LastOf(B) \in GoodFlit
    BY <1>3, ChainTail DEF SourceInv, Transmitting
  <2>2. CASE IsHead(f)
    <3>1. \A u \in Attached(h) : ~IsMid(u)
      BY <1>2, <1>8, <2>2
    <3>2. IsLast(LastOf(B))
      BY <3>1 DEF SourceInv, Transmitting
    <3> QED BY <1>2, <2>1, <2>2, <3>2, NextFlit
  <2>3. CASE ~IsHead(f)
    <3>1. f = Succ(LastOf(B))
      BY <1>1, <1>2, <2>3 DEF SourceInv, Transmitting
    <3> QED BY <1>2, <2>1, <3>1, NextFlit
  <2> QED BY <2>1, <2>2, <2>3
<1>11. Chained(B)
  BY DEF SourceInv, Transmitting
<1>12. /\ Chained(N) /\ LastOf(N) = f
       /\ B # <<>> => N[1] = B[1]
       /\ B = <<>> => N[1] = f
  BY <1>2, <1>3, <1>10, <1>11, ChainAppend DEF N
<1>13. \A g \in Hub : g # h => \A u \in Attached(g) : u # r /\ u \in Tile
  BY <1>1
<1>14. Transmitting'
  <2>1. \A g \in Hub : g # h =>
          /\ Chained(buffer_tx'[g])
          /\ buffer_tx'[g] # <<>> /\ ~IsLast(LastOf(buffer_tx'[g])) => \E u \in Attached(g) : IsMid(u)'
          /\ buffer_tx'[g] # <<>> => \A u \in Attached(g) : IsMid(u)' => MidFlit(u)' = Succ(LastOf(buffer_tx'[g]))
    BY <1>4, <1>7, <1>13 DEF SourceInv, Transmitting
  <2>2. ~IsLast(LastOf(N)) => \E u \in Attached(h) : IsMid(u)'
    BY <1>1, <1>2, <1>12
  <2>3. \A u \in Attached(h) : IsMid(u)' => MidFlit(u)' = Succ(LastOf(N))
    BY <1>1, <1>2, <1>7, <1>8, <1>12
  <2> QED BY <1>4, <1>12, <2>1, <2>2, <2>3 DEF Transmitting
<1>15. Accepting(e)'
  <2>1. \A g \in Hub : buffer_tx'[g] # <<>> /\ ~IsHead(buffer_tx'[g][1]) =>
          e[Dst[buffer_tx'[g][1].pkt]] # <<>> /\ buffer_tx'[g][1] = Succ(LastOf(e[Dst[buffer_tx'[g][1].pkt]]))
    <3> SUFFICES ASSUME NEW g \in Hub, buffer_tx'[g] # <<>>, ~IsHead(buffer_tx'[g][1])
                 PROVE  e[Dst[buffer_tx'[g][1].pkt]] # <<>>
                        /\ buffer_tx'[g][1] = Succ(LastOf(e[Dst[buffer_tx'[g][1].pkt]]))
      OBVIOUS
    <3>1. CASE g # h
      BY <1>4, <3>1 DEF SourceInv, Accepting
    <3>2. CASE g = h /\ B # <<>>
      BY <1>4, <1>12, <3>2 DEF SourceInv, Accepting
    <3>3. CASE g = h /\ B = <<>>
      <4>1. buffer_tx'[g][1] = f /\ IsMid(r) /\ MidFlit(r) = f
        BY <1>2, <1>4, <1>12, <3>3
      <4> QED BY <1>1, <3>3, <4>1 DEF SourceInv, Accepting
    <3> QED BY <3>1, <3>2, <3>3
  <2>2. \A g \in Hub : buffer_tx'[g] = <<>> => \A u \in Attached(g) : IsMid(u)' =>
          e[Dst[MidFlit(u)'.pkt]] # <<>> /\ MidFlit(u)' = Succ(LastOf(e[Dst[MidFlit(u)'.pkt]]))
    <3> SUFFICES ASSUME NEW g \in Hub, buffer_tx'[g] = <<>>, NEW u \in Attached(g), IsMid(u)'
                 PROVE  e[Dst[MidFlit(u)'.pkt]] # <<>>
                        /\ MidFlit(u)' = Succ(LastOf(e[Dst[MidFlit(u)'.pkt]]))
      OBVIOUS
    <3>1. g # h
      BY <1>4, <1>5
    <3>2. buffer_tx[g] = <<>> /\ IsMid(u) /\ MidFlit(u)' = MidFlit(u)
      BY <1>4, <1>7, <1>13, <3>1
    <3> QED BY <3>2 DEF SourceInv, Accepting
  <2>3. \A t \in Tile : e[t] # <<>> /\ ~IsTail(LastOf(e[t])) => t \in antenna2tile_reservation'
    BY <1>4 DEF SourceInv, Accepting
  <2> QED BY <2>1, <2>2, <2>3 DEF Accepting
<1>16. \A k \in DOMAIN Tail(L) : k + 1 \in DOMAIN L /\ Tail(L)[k] = L[k + 1] /\ k \in Nat
  BY <1>6
<1>17. 1 \in DOMAIN L
  BY <1>6
<1>18. \A k \in DOMAIN N : N[k] = f \/ (k \in DOMAIN B /\ N[k] = B[k])
  BY <1>5
<1>19. Owned(owner)'
  <2>1. \A u \in Tile : \A k \in DOMAIN queue'[u] : owner[queue'[u][k]] = u
    BY <1>4 DEF SourceInv, Owned
  <2>2. \A k \in DOMAIN L : owner[L[k].pkt] = r
    BY <1>1 DEF SourceInv, Owned
  <2>3. \A u \in Tile : \A k \in DOMAIN Line(u)' : owner[Line(u)'[k].pkt] = u
    <3> SUFFICES ASSUME NEW u \in Tile, NEW k \in DOMAIN Line(u)'
                 PROVE  owner[Line(u)'[k].pkt] = u
      OBVIOUS
    <3>1. CASE u # r
      BY <1>4, <3>1 DEF SourceInv, Owned
    <3>2. CASE u = r
      BY <1>4, <1>16, <2>2, <3>2
    <3> QED BY <3>1, <3>2
  <2>4. \A k \in DOMAIN B : owner[B[k].pkt] \in Attached(h)
    BY DEF SourceInv, Owned
  <2>5. \A g \in Hub : \A k \in DOMAIN buffer_tx'[g] : owner[buffer_tx'[g][k].pkt] \in Attached(g)
    <3> SUFFICES ASSUME NEW g \in Hub, NEW k \in DOMAIN buffer_tx'[g]
                 PROVE  owner[buffer_tx'[g][k].pkt] \in Attached(g)
      OBVIOUS
    <3>1. CASE g # h
      BY <1>4, <3>1 DEF SourceInv, Owned
    <3>2. CASE g = h
      BY <1>1, <1>4, <1>17, <1>18, <2>2, <2>4, <3>2
    <3> QED BY <3>1, <3>2
  <2> QED BY <2>1, <2>3, <2>5 DEF Owned
<1>20. Once(e)'
  <2>1. \A u \in Tile : \A k, l \in DOMAIN queue'[u] : queue'[u][k] = queue'[u][l] => k = l
    BY <1>4 DEF SourceInv, Once
  <2>2. \A u \in Tile : \A p : Holds(Line(u)', p) => Holds(Line(u), p)
    <3> SUFFICES ASSUME NEW u \in Tile, NEW p, Holds(Line(u)', p)
                 PROVE  Holds(Line(u), p)
      OBVIOUS
    <3>1. CASE u # r
      BY <1>4, <3>1
    <3>2. CASE u = r
      BY <1>4, <1>16, <3>2 DEF Holds
    <3> QED BY <3>1, <3>2
  <2>3. \A g \in Hub : \A p : Holds(buffer_tx'[g], p) => Holds(buffer_tx[g], p) \/ (g = h /\ p = f.pkt)
    <3> SUFFICES ASSUME NEW g \in Hub, NEW p, Holds(buffer_tx'[g], p)
                 PROVE  Holds(buffer_tx[g], p) \/ (g = h /\ p = f.pkt)
      OBVIOUS
    <3>1. CASE g # h
      BY <1>4, <3>1
    <3>2. CASE g = h
      BY <1>4, <1>18, <3>2 DEF Holds
    <3> QED BY <3>1, <3>2
  <2>4. Holds(L, f.pkt)
    BY <1>17 DEF Holds
  <2>5. owner[f.pkt] = r
    BY <1>1, <1>17 DEF SourceInv, Owned
  <2>6. \A u \in Tile : \A k \in DOMAIN queue'[u] : Ready(u, k)' =>
          /\ ~Holds(Line(u)', queue'[u][k])
          /\ ~Holds(buffer_tx'[hub_for_tile[u]], queue'[u][k])
          /\ ~Holds(e[Dst[queue'[u][k]]], queue'[u][k])
    <3> SUFFICES ASSUME NEW u \in Tile, NEW k \in DOMAIN queue[u], Ready(u, k)
                 PROVE  /\ ~Holds(Line(u)', queue[u][k])
                        /\ ~Holds(buffer_tx'[hub_for_tile[u]], queue[u][k])
                        /\ ~Holds(e[Dst[queue[u][k]]], queue[u][k])
      BY <1>4 DEF Ready
    <3>1. /\ ~Holds(Line(u), queue[u][k])
          /\ ~Holds(buffer_tx[hub_for_tile[u]], queue[u][k])
          /\ ~Holds(e[Dst[queue[u][k]]], queue[u][k])
      BY DEF SourceInv, Once
    <3>2. owner[queue[u][k]] = u
      BY DEF SourceInv, Owned
    <3>3. queue[u][k] # f.pkt
      BY <2>4, <2>5, <3>1, <3>2
    <3> QED BY <1>1, <2>2, <2>3, <3>1, <3>3
  <2>7. \A u \in Tile : \A k \in DOMAIN Line(u)' : IsHead(Line(u)'[k]) =>
          /\ \A l \in 1 .. k - 1 : Line(u)'[l].pkt # Line(u)'[k].pkt
          /\ ~Holds(buffer_tx'[hub_for_tile[u]], Line(u)'[k].pkt)
          /\ ~Holds(e[Dst[Line(u)'[k].pkt]], Line(u)'[k].pkt)
    <3> SUFFICES ASSUME NEW u \in Tile, NEW k \in DOMAIN Line(u)', IsHead(Line(u)'[k])
                 PROVE  /\ \A l \in 1 .. k - 1 : Line(u)'[l].pkt # Line(u)'[k].pkt
                        /\ ~Holds(buffer_tx'[hub_for_tile[u]], Line(u)'[k].pkt)
                        /\ ~Holds(e[Dst[Line(u)'[k].pkt]], Line(u)'[k].pkt)
      OBVIOUS
    <3> DEFINE p == Line(u)'[k].pkt
    <3>1. CASE u # r
      <4>1. k \in DOMAIN Line(u) /\ Line(u)' = Line(u)
        BY <1>4, <3>1
      <4>2. /\ \A l \in 1 .. k - 1 : Line(u)[l].pkt # Line(u)[k].pkt
            /\ ~Holds(buffer_tx[hub_for_tile[u]], p)
            /\ ~Holds(e[Dst[p]], p)
        BY <4>1 DEF SourceInv, Once
      <4>3. owner[p] = u
        BY <4>1 DEF SourceInv, Owned
      <4>4. p # f.pkt
        BY <2>5, <3>1, <4>3
      <4> QED BY <1>1, <2>3, <4>1, <4>2, <4>4
    <3>2. CASE u = r
      <4>1. k + 1 \in DOMAIN L /\ Line(u)'[k] = L[k + 1] /\ k \in Nat /\ k \in DOMAIN Tail(L)
        BY <1>4, <1>16, <3>2
      <4>2. /\ \A l \in 1 .. (k + 1) - 1 : L[l].pkt # L[k + 1].pkt
            /\ ~Holds(buffer_tx[h], p)
            /\ ~Holds(e[Dst[p]], p)
        BY <1>1, <3>2, <4>1 DEF SourceInv, Once
      <4>3. p # f.pkt
        <5>1. 1 \in 1 .. (k + 1) - 1
          BY <4>1, <1>6
        <5> QED BY <4>1, <4>2, <5>1
      <4>4. \A l \in 1 .. k - 1 : Line(u)'[l].pkt # p
        <5> SUFFICES ASSUME NEW l \in 1 .. k - 1
                     PROVE  Line(u)'[l].pkt # p
          OBVIOUS
        <5>1. l \in DOMAIN Tail(L) /\ l + 1 \in 1 .. (k + 1) - 1
          BY <1>6, <4>1
        <5>2. Line(u)'[l] = L[l + 1]
          BY <1>4, <1>16, <3>2, <5>1
        <5> QED BY <4>1, <4>2, <5>1, <5>2
      <4> QED BY <1>1, <2>3, <3>2, <4>2, <4>3, <4>4
    <3> QED BY <3>1, <3>2
  <2>8. \A g \in Hub : \A k \in DOMAIN buffer_tx'[g] : IsHead(buffer_tx'[g][k]) =>
          /\ \A l \in 1 .. k - 1 : buffer_tx'[g][l].pkt # buffer_tx'[g][k].pkt
          /\ ~Holds(e[Dst[buffer_tx'[g][k].pkt]], buffer_tx'[g][k].pkt)
    <3> SUFFICES ASSUME NEW g \in Hub, NEW k \in DOMAIN buffer_tx'[g], IsHead(buffer_tx'[g][k])
                 PROVE  /\ \A l \in 1 .. k - 1 : buffer_tx'[g][l].pkt # buffer_tx'[g][k].pkt
                        /\ ~Holds(e[Dst[buffer_tx'[g][k].pkt]], buffer_tx'[g][k].pkt)
      OBVIOUS
    <3>1. CASE g # h
      <4>1. buffer_tx'[g] = buffer_tx[g]
        BY <1>4, <3>1
      <4>2. k \in DOMAIN buffer_tx[g] /\ IsHead(buffer_tx[g][k])
        BY <4>1
      <4>3. /\ \A l \in 1 .. k - 1 : buffer_tx[g][l].pkt # buffer_tx[g][k].pkt
            /\ ~Holds(e[Dst[buffer_tx[g][k].pkt]], buffer_tx[g][k].pkt)
        BY <4>2 DEF SourceInv, Once
      <4> QED BY <4>1, <4>3
    <3>2. CASE g = h /\ k \in DOMAIN B
      <4>1. N[k] = B[k] /\ \A l \in 1 .. k - 1 : N[l] = B[l]
        BY <1>5, <3>2
      <4>2. /\ \A l \in 1 .. k - 1 : B[l].pkt # B[k].pkt
            /\ ~Holds(e[Dst[B[k].pkt]], B[k].pkt)
        <5>1. k \in DOMAIN buffer_tx[h] /\ IsHead(buffer_tx[h][k])
          BY <1>4, <3>2, <4>1
        <5> QED BY <5>1 DEF SourceInv, Once
      <4>3. buffer_tx'[g] = N
        BY <1>4, <3>2
      <4> HIDE DEF B, N
      <4> QED BY <4>1, <4>2, <4>3
    <3>3. CASE g = h /\ k \notin DOMAIN B
      <4>1. k = Len(B) + 1 /\ N[k] = f /\ IsHead(f)
        BY <1>4, <1>5, <3>3
      <4>2. ~Holds(B, f.pkt) /\ ~Holds(e[Dst[f.pkt]], f.pkt)
        BY <1>1, <1>17, <4>1 DEF SourceInv, Once
      <4>3. \A l \in 1 .. k - 1 : N[l] = B[l] /\ l \in DOMAIN B
        BY <1>5, <4>1
      <4>4. \A l \in 1 .. k - 1 : N[l].pkt # f.pkt
        BY <4>2, <4>3 DEF Holds
      <4> QED BY <1>4, <3>3, <4>1, <4>2, <4>4
    <3> QED BY <3>1, <3>2, <3>3
  <2> QED BY <2>1, <2>6, <2>7, <2>8 DEF Once
<1>21. \A t \in Tile : Whole(t, e[t])
  BY DEF SourceInv
<1> QED BY <1>2, <1>9, <1>14, <1>15, <1>19, <1>20, <1>21 DEF SourceInv

(* The next flit of a packet that a tile is in the middle of.               *)
LEMMA MidFlitFacts ==
  ASSUME NEW e, NEW owner, SourceInv(e, owner), BufferTypes, NEW u \in Tile, IsMid(u)
  PROVE  MidFlit(u) \in GoodFlit /\ owner[MidFlit(u).pkt] = u
<1>1. Line(u) \in Seq(GoodFlit) /\ queue[u] \in Seq(Packet) /\ sent[u] \in Nat
  BY LineTypes DEF BufferTypes
<1>2. CASE Line(u) # <<>>
  <2>1. 1 \in DOMAIN Line(u) /\ Line(u)[1] \in GoodFlit
    BY <1>1, <1>2
  <2> QED BY <1>2, <2>1 DEF MidFlit, SourceInv, Owned
<1>3. CASE Line(u) = <<>>
  <2>1. sent[u] > 0
    BY <1>3 DEF IsMid
  <2>2. queue[u] # <<>> /\ sent[u] < Size[Head(queue[u])]
    BY <2>1 DEF SourceInv, Generated
  <2>3. 1 \in DOMAIN queue[u] /\ Head(queue[u]) = queue[u][1] /\ Head(queue[u]) \in Packet
    BY <1>1, <2>2
  <2>4. MidFlit(u) = [pkt |-> Head(queue[u]), seq |-> sent[u]]
    BY <1>3 DEF MidFlit
  <2>5. MidFlit(u) \in GoodFlit
    BY <1>1, <2>2, <2>3, <2>4, FlitFacts
  <2>6. owner[Head(queue[u])] = u
    BY <2>3 DEF SourceInv, Owned
  <2> QED BY <2>4, <2>5, <2>6
<1> QED BY <1>2, <1>3

(* No tile is attached to two hubs.                                         *)
LEMMA OneHub == \A g, h \in Hub : \A u : u \in Attached(g) /\ u \in Attached(h) => g = h
  BY Tiles

(* The flits on the sending side go to tiles.                               *)
LEMMA Destinations ==
  ASSUME BufferTypes
  PROVE  /\ \A g \in Hub : \A k \in DOMAIN buffer_tx[g] :
              buffer_tx[g][k] \in GoodFlit /\ Dst[buffer_tx[g][k].pkt] \in Tile
         /\ \A u \in Tile : \A k \in DOMAIN Line(u) :
              Line(u)[k] \in GoodFlit /\ Dst[Line(u)[k].pkt] \in Tile
         /\ \A u \in Tile : \A k \in DOMAIN queue[u] :
              queue[u][k] \in Packet /\ Dst[queue[u][k]] \in Tile
<1>1. \A g \in Hub : \A k \in DOMAIN buffer_tx[g] : buffer_tx[g][k] \in GoodFlit
  BY DEF BufferTypes
<1>2. \A u \in Tile : \A k \in DOMAIN Line(u) : Line(u)[k] \in GoodFlit
  BY LineTypes
<1>3. \A u \in Tile : \A k \in DOMAIN queue[u] : queue[u][k] \in Packet
  BY DEF BufferTypes
<1>4. \A f \in GoodFlit : Dst[f.pkt] \in Tile
  BY FlitFacts
<1>5. \A p \in Packet : Dst[p] \in Tile
  BY FlitFacts
<1> QED BY <1>1, <1>2, <1>3, <1>4, <1>5

(* Target::b_transport accepts the front of buffer_tx.                      *)
LEMMA SourceAccepts ==
  ASSUME NEW e \in [Tile -> Seq(GoodFlit)], NEW owner, SourceInv(e, owner), BufferTypes,
         NEW h \in Hub, buffer_tx[h] # <<>>, NEW f, f = buffer_tx[h][1],
         IsHead(f) => Dst[f.pkt] \notin antenna2tile_reservation,
         UNCHANGED <<queue, sent, tile2antenna_reservation>>,
         \A u \in Tile : Line(u)' = Line(u),
         buffer_tx' = [buffer_tx EXCEPT ![h] = Tail(@)],
         IsHead(f) => antenna2tile_reservation' = antenna2tile_reservation \union {Dst[f.pkt]},
         ~IsHead(f) /\ IsTail(f) =>
           antenna2tile_reservation' = antenna2tile_reservation \ {Dst[f.pkt]},
         ~IsHead(f) /\ ~IsTail(f) => antenna2tile_reservation' = antenna2tile_reservation,
         NEW e2, e2 = [e EXCEPT ![Dst[f.pkt]] = Append(@, f)]
  PROVE  SourceInv(e2, owner)' /\ e2 \in [Tile -> Seq(GoodFlit)]
<1> DEFINE t0 == Dst[f.pkt]
           s == e[t0]
           B == buffer_tx[h]
           N == Append(s, f)
<1>1. /\ \A g \in Hub : \A u \in Attached(g) : u \in Tile /\ hub_for_tile[u] = g
      /\ \A u \in Tile : hub_for_tile[u] \in Hub /\ u \in Attached(hub_for_tile[u])
  BY Tiles
<1>2. /\ \A u \in Tile : Line(u) \in Seq(GoodFlit)
      /\ \A g \in Hub : buffer_tx[g] \in Seq(GoodFlit)
      /\ \A u \in Tile : queue[u] \in Seq(Packet)
  BY LineTypes DEF BufferTypes
<1>3. /\ B \in Seq(GoodFlit) /\ Chained(B)
      /\ f \in GoodFlit /\ LastOf(B) \in GoodFlit /\ Chained(Tail(B))
      /\ Tail(B) # <<>> => /\ Tail(B)[1] \in GoodFlit /\ Follows(f, Tail(B)[1])
                           /\ LastOf(Tail(B)) = LastOf(B)
      /\ Tail(B) = <<>> => LastOf(B) = f
  <2>1. B \in Seq(GoodFlit) /\ Chained(B)
    BY <1>2 DEF SourceInv, Transmitting
  <2> QED BY <2>1, ChainTail
<1>4. t0 \in Tile /\ s \in Seq(GoodFlit) /\ Whole(t0, s) /\ f.pkt \in Packet
  BY <1>3, FlitFacts DEF SourceInv
<1>5. /\ N \in Seq(GoodFlit) /\ Len(N) = Len(s) + 1 /\ N[Len(s) + 1] = f /\ N # <<>> /\ LastOf(N) = f
      /\ \A k \in 1 .. Len(s) : N[k] = s[k]
      /\ \A k \in DOMAIN N : (k \in DOMAIN s /\ N[k] = s[k]) \/ N[k] = f
  <2>1. s \in Seq(GoodFlit) /\ f \in GoodFlit
    BY <1>3, <1>4
  <2> HIDE DEF s, N
  <2>2. N = Append(s, f)
    BY DEF N
  <2>3. /\ N \in Seq(GoodFlit) /\ Len(N) = Len(s) + 1 /\ N[Len(s) + 1] = f
        /\ \A k \in 1 .. Len(s) : N[k] = s[k]
    BY <2>1, <2>2, AppendProperties
  <2>4. Len(s) \in Nat /\ DOMAIN s = 1 .. Len(s)
    BY <2>1
  <2>5. N # <<>> /\ DOMAIN N = 1 .. Len(N)
    BY <2>3, <2>4
  <2>6. \A k \in DOMAIN N : (k \in DOMAIN s /\ N[k] = s[k]) \/ N[k] = f
    BY <2>3, <2>4, <2>5
  <2>7. LastOf(N) = f
    BY <2>3 DEF LastOf
  <2> QED BY <2>3, <2>5, <2>6, <2>7
<1>24. f \in GoodFlit
  BY <1>3
<1> HIDE DEF N
<1>6. /\ e2 \in [Tile -> Seq(GoodFlit)] /\ e2[t0] = N
      /\ \A t \in Tile : t # t0 => e2[t] = e[t]
  BY <1>4, <1>5 DEF N
<1>7. /\ Tail(B) \in Seq(GoodFlit) /\ Len(Tail(B)) = Len(B) - 1 /\ Len(B) \in Nat \ {0}
      /\ \A i \in 1 .. Len(Tail(B)) : Tail(B)[i] = B[i + 1]
      /\ DOMAIN B = 1 .. Len(B) /\ DOMAIN Tail(B) = 1 .. Len(B) - 1
  <2>1. B \in Seq(GoodFlit) /\ B # <<>>
    BY <1>3
  <2> HIDE DEF B
  <2>2. /\ Tail(B) \in Seq(GoodFlit) /\ Len(Tail(B)) = Len(B) - 1
        /\ \A i \in 1 .. Len(Tail(B)) : Tail(B)[i] = B[i + 1]
    BY <2>1, HeadTailProperties
  <2>3. Len(B) \in Nat \ {0} /\ DOMAIN B = 1 .. Len(B) /\ DOMAIN Tail(B) = 1 .. Len(Tail(B))
    BY <2>1, <2>2
  <2> QED BY <2>2, <2>3
<1>8. \A k \in DOMAIN Tail(B) : k + 1 \in DOMAIN B /\ Tail(B)[k] = B[k + 1] /\ k \in Nat \ {0}
  BY <1>7
<1>9. 1 \in DOMAIN B
  BY <1>7
<1>10. buffer_tx'[h] = Tail(B) /\ \A g \in Hub : g # h => buffer_tx'[g] = buffer_tx[g]
  BY DEF BufferTypes
<1>11. \A u \in Tile : Line(u)' = Line(u) /\ (IsMid(u)' <=> IsMid(u)) /\ MidFlit(u)' = MidFlit(u)
  BY DEF IsMid, MidFlit
<1>12. s # <<>> => LastOf(s) \in GoodFlit
  <2> SUFFICES ASSUME s # <<>> PROVE LastOf(s) \in GoodFlit
    OBVIOUS
  <2>1. s \in Seq(GoodFlit)
    BY <1>4
  <2> HIDE DEF s
  <2>2. Len(s) \in 1 .. Len(s) /\ \A i \in 1 .. Len(s) : s[i] \in GoodFlit
    BY <2>1
  <2> QED BY <2>2 DEF LastOf
<1>13. IsHead(f) => (s # <<>> => IsLast(LastOf(s))) /\ ~Holds(s, f.pkt)
  <2> SUFFICES ASSUME IsHead(f)
               PROVE  (s # <<>> => IsLast(LastOf(s))) /\ ~Holds(s, f.pkt)
    OBVIOUS
  <2>1. ~Holds(s, f.pkt)
    BY <1>9 DEF SourceInv, Once
  <2>2. s # <<>> => IsTail(LastOf(s))
    BY <1>4 DEF SourceInv, Accepting
  <2> QED BY <1>12, <2>1, <2>2, NextFlit
<1>14. ~IsHead(f) => s # <<>> /\ f = Succ(LastOf(s))
  BY DEF SourceInv, Accepting
<1>15. \A t \in Tile : Whole(t, e2[t])
  <2>1. Whole(t0, N)
    BY <1>3, <1>4, <1>13, <1>14, WholeAppend DEF N
  <2> QED BY <1>6, <2>1 DEF SourceInv
<1>16. owner[f.pkt] \in Attached(h)
  BY <1>9 DEF SourceInv, Owned
<1>17. \A g \in GoodFlit : s # <<>> /\ g = Succ(LastOf(s)) => g = f
  <2> SUFFICES ASSUME NEW g \in GoodFlit, s # <<>>, g = Succ(LastOf(s))
               PROVE  g = f
    OBVIOUS
  <2>1. ~IsLast(LastOf(s))
    BY <1>12, NextFlit
  <2> QED BY <1>13, <1>14, <2>1
<1>18. Generated'
  BY <1>11 DEF SourceInv, Generated
<1>19. Reserving'
  BY <1>11 DEF SourceInv, Reserving
<1>20. Transmitting'
  <2>1. \A g \in Hub : g # h =>
          /\ Chained(buffer_tx'[g])
          /\ buffer_tx'[g] # <<>> /\ ~IsLast(LastOf(buffer_tx'[g])) => \E u \in Attached(g) : IsMid(u)'
          /\ buffer_tx'[g] # <<>> => \A u \in Attached(g) : IsMid(u)' => MidFlit(u)' = Succ(LastOf(buffer_tx'[g]))
    BY <1>1, <1>10, <1>11 DEF SourceInv, Transmitting
  <2>2. Tail(B) # <<>> => /\ ~IsLast(LastOf(Tail(B))) => \E u \in Attached(h) : IsMid(u)'
                          /\ \A u \in Attached(h) : IsMid(u)' => MidFlit(u)' = Succ(LastOf(Tail(B)))
    BY <1>1, <1>3, <1>11 DEF SourceInv, Transmitting
  <2> QED BY <1>3, <1>10, <2>1, <2>2 DEF Transmitting
<1>21. Accepting(e2)'
  <2>1. \A g \in Hub : buffer_tx'[g] # <<>> /\ ~IsHead(buffer_tx'[g][1]) =>
          e2[Dst[buffer_tx'[g][1].pkt]] # <<>> /\ buffer_tx'[g][1] = Succ(LastOf(e2[Dst[buffer_tx'[g][1].pkt]]))
    <3> SUFFICES ASSUME NEW g \in Hub, buffer_tx'[g] # <<>>, ~IsHead(buffer_tx'[g][1])
                 PROVE  e2[Dst[buffer_tx'[g][1].pkt]] # <<>>
                        /\ buffer_tx'[g][1] = Succ(LastOf(e2[Dst[buffer_tx'[g][1].pkt]]))
      OBVIOUS
    <3>1. CASE g # h
      <4> DEFINE k == buffer_tx[g][1]
      <4>1. buffer_tx'[g] = buffer_tx[g]
        BY <1>10, <3>1
      <4>2. k \in GoodFlit /\ 1 \in DOMAIN buffer_tx[g]
        BY <1>2, <4>1
      <4>3. e[Dst[k.pkt]] # <<>> /\ k = Succ(LastOf(e[Dst[k.pkt]])) /\ Dst[k.pkt] \in Tile
        BY <4>1, <4>2, FlitFacts DEF SourceInv, Accepting
      <4>4. owner[k.pkt] \in Attached(g)
        BY <4>2 DEF SourceInv, Owned
      <4>5. k # f
        <5>1. owner[f.pkt] \notin Attached(g)
          BY <1>16, <3>1, OneHub
        <5> QED BY <4>4, <5>1
      <4>6. Dst[k.pkt] # t0
        BY <1>17, <4>2, <4>3, <4>5
      <4> QED BY <1>6, <4>1, <4>3, <4>6
    <3>2. CASE g = h
      <4> DEFINE k == Tail(B)[1]
      <4>1. k \in GoodFlit /\ Follows(f, k) /\ ~IsHead(k) /\ buffer_tx'[g][1] = k
        BY <1>3, <1>10, <3>2
      <4> HIDE DEF k
      <4>2. k = Succ(f)
        BY <1>24, <4>1, NextFlit
      <4>3. k.pkt = f.pkt
        BY <1>24, <4>1, <4>2, NextFlit
      <4>4. Dst[buffer_tx'[g][1].pkt] = t0
        BY <4>1, <4>3
      <4>5. e2[t0] # <<>> /\ LastOf(e2[t0]) = f
        BY <1>5, <1>6
      <4> HIDE DEF t0
      <4> QED BY <4>1, <4>2, <4>4, <4>5
    <3> QED BY <3>1, <3>2
  <2>2. \A g \in Hub : buffer_tx'[g] = <<>> => \A u \in Attached(g) : IsMid(u)' =>
          e2[Dst[MidFlit(u)'.pkt]] # <<>> /\ MidFlit(u)' = Succ(LastOf(e2[Dst[MidFlit(u)'.pkt]]))
    <3> SUFFICES ASSUME NEW g \in Hub, buffer_tx'[g] = <<>>, NEW u \in Attached(g), IsMid(u)'
                 PROVE  e2[Dst[MidFlit(u)'.pkt]] # <<>>
                        /\ MidFlit(u)' = Succ(LastOf(e2[Dst[MidFlit(u)'.pkt]]))
      OBVIOUS
    <3>1. u \in Tile /\ IsMid(u) /\ MidFlit(u)' = MidFlit(u)
      BY <1>1, <1>11
    <3> DEFINE k == MidFlit(u)
    <3>2. k \in GoodFlit /\ owner[k.pkt] = u
      BY <3>1, MidFlitFacts
    <3> HIDE DEF k
    <3>3. CASE g # h
      <4>1. e[Dst[k.pkt]] # <<>> /\ k = Succ(LastOf(e[Dst[k.pkt]])) /\ Dst[k.pkt] \in Tile
        BY <1>10, <3>1, <3>2, <3>3, FlitFacts DEF SourceInv, Accepting, k
      <4>2. k # f
        BY <1>1, <1>16, <3>2, <3>3
      <4>3. Dst[k.pkt] # t0
        BY <1>17, <3>2, <4>1, <4>2
      <4> QED BY <1>6, <3>1, <4>1, <4>3 DEF k
    <3>4. CASE g = h
      <4>1. LastOf(B) = f
        BY <1>3, <1>10, <3>4
      <4>2. k = Succ(f)
        BY <3>1, <3>4, <4>1 DEF SourceInv, Transmitting, k
      <4>3. k.pkt = f.pkt
        BY <1>3, <3>2, <4>2, NextFlit
      <4>4. MidFlit(u)' = k
        BY <3>1 DEF k
      <4>5. Dst[k.pkt] = t0
        BY <4>3
      <4>6. e2[t0] # <<>> /\ LastOf(e2[t0]) = f
        BY <1>5, <1>6
      <4> HIDE DEF t0
      <4> QED BY <4>2, <4>4, <4>5, <4>6
    <3> QED BY <3>3, <3>4
  <2>3. \A t \in Tile : e2[t] # <<>> /\ ~IsTail(LastOf(e2[t])) => t \in antenna2tile_reservation'
    <3> SUFFICES ASSUME NEW t \in Tile, e2[t] # <<>>, ~IsTail(LastOf(e2[t]))
                 PROVE  t \in antenna2tile_reservation'
      OBVIOUS
    <3>1. CASE t # t0
      <4>1. t \in antenna2tile_reservation
        BY <1>6, <3>1 DEF SourceInv, Accepting
      <4> QED BY <3>1, <4>1
    <3>2. CASE t = t0
      <4>1. ~IsTail(f)
        BY <1>5, <1>6, <3>2
      <4>2. CASE IsHead(f)
        BY <3>2, <4>2
      <4>3. CASE ~IsHead(f)
        <5>1. LastOf(s) \in GoodFlit /\ s # <<>> /\ f = Succ(LastOf(s))
          BY <1>12, <1>14, <4>3
        <5>2. ~IsTail(LastOf(s))
          <6>1. \A x \in GoodFlit : f = Succ(x) => ~IsTail(x)
            BY <1>24, NextFlit
          <6> QED BY <5>1, <6>1
        <5>3. t0 \in antenna2tile_reservation
          BY <1>4, <5>1, <5>2 DEF SourceInv, Accepting
        <5> QED BY <3>2, <4>1, <4>3, <5>3
      <4> QED BY <4>2, <4>3
    <3> QED BY <3>1, <3>2
  <2> QED BY <2>1, <2>2, <2>3 DEF Accepting
<1>22. Owned(owner)'
  <2>1. \A g \in Hub : \A k \in DOMAIN buffer_tx'[g] : owner[buffer_tx'[g][k].pkt] \in Attached(g)
    <3> SUFFICES ASSUME NEW g \in Hub, NEW k \in DOMAIN buffer_tx'[g]
                 PROVE  owner[buffer_tx'[g][k].pkt] \in Attached(g)
      OBVIOUS
    <3>1. CASE g # h
      BY <1>10, <3>1 DEF SourceInv, Owned
    <3>2. CASE g = h
      BY <1>8, <1>10, <3>2 DEF SourceInv, Owned
    <3> QED BY <3>1, <3>2
  <2>2. \A u \in Tile : \A k \in DOMAIN Line(u)' : owner[Line(u)'[k].pkt] = u
    BY <1>11 DEF SourceInv, Owned
  <2>3. \A u \in Tile : \A k \in DOMAIN queue'[u] : owner[queue'[u][k]] = u
    BY DEF SourceInv, Owned
  <2> QED BY <2>1, <2>2, <2>3 DEF Owned
<1>23. Once(e2)'
  <2>1. \A p : \A t \in Tile : p # f.pkt /\ Holds(e2[t], p) => Holds(e[t], p)
    <3> SUFFICES ASSUME NEW p, NEW t \in Tile, p # f.pkt, Holds(e2[t], p)
                 PROVE  Holds(e[t], p)
      OBVIOUS
    <3>1. CASE t # t0
      BY <1>6, <3>1
    <3>2. CASE t = t0
      <4>1. PICK k \in DOMAIN N : N[k].pkt = p
        BY <1>6, <3>2 DEF Holds
      <4>2. k \in DOMAIN s /\ N[k] = s[k]
        <5>1. N[k] # f
          BY <4>1
        <5> QED BY <1>5, <5>1
      <4> QED BY <3>2, <4>1, <4>2 DEF Holds
    <3> QED BY <3>1, <3>2
  <2>2. \A g \in Hub : \A p : Holds(buffer_tx'[g], p) => Holds(buffer_tx[g], p)
    <3> SUFFICES ASSUME NEW g \in Hub, NEW p, Holds(buffer_tx'[g], p)
                 PROVE  Holds(buffer_tx[g], p)
      OBVIOUS
    <3>1. CASE g # h
      BY <1>10, <3>1
    <3>2. CASE g = h
      BY <1>8, <1>10, <3>2 DEF Holds
    <3> QED BY <3>1, <3>2
  <2>3. Holds(B, f.pkt)
    BY <1>9 DEF Holds
  <2>4. \A u \in Tile : \A k \in DOMAIN queue'[u] : Ready(u, k)' =>
          /\ ~Holds(Line(u)', queue'[u][k])
          /\ ~Holds(buffer_tx'[hub_for_tile[u]], queue'[u][k])
          /\ ~Holds(e2[Dst[queue'[u][k]]], queue'[u][k])
    <3> SUFFICES ASSUME NEW u \in Tile, NEW k \in DOMAIN queue[u], Ready(u, k)
                 PROVE  /\ ~Holds(Line(u), queue[u][k])
                        /\ ~Holds(buffer_tx'[hub_for_tile[u]], queue[u][k])
                        /\ ~Holds(e2[Dst[queue[u][k]]], queue[u][k])
      BY <1>11 DEF Ready
    <3>1. /\ ~Holds(Line(u), queue[u][k])
          /\ ~Holds(buffer_tx[hub_for_tile[u]], queue[u][k])
          /\ ~Holds(e[Dst[queue[u][k]]], queue[u][k])
      BY DEF SourceInv, Once
    <3>2. owner[queue[u][k]] = u
      BY DEF SourceInv, Owned
    <3>3. queue[u][k] # f.pkt
      BY <1>1, <1>16, <2>3, <3>1, <3>2
    <3>4. Dst[queue[u][k]] \in Tile
      BY Destinations
    <3>5. ~Holds(e2[Dst[queue[u][k]]], queue[u][k])
      BY <2>1, <3>1, <3>3, <3>4
    <3>6. ~Holds(buffer_tx'[hub_for_tile[u]], queue[u][k])
      BY <1>1, <2>2, <3>1
    <3> QED BY <3>1, <3>5, <3>6
  <2>5. \A u \in Tile : \A k \in DOMAIN Line(u)' : IsHead(Line(u)'[k]) =>
          /\ \A l \in 1 .. k - 1 : Line(u)'[l].pkt # Line(u)'[k].pkt
          /\ ~Holds(buffer_tx'[hub_for_tile[u]], Line(u)'[k].pkt)
          /\ ~Holds(e2[Dst[Line(u)'[k].pkt]], Line(u)'[k].pkt)
    <3> SUFFICES ASSUME NEW u \in Tile, NEW k \in DOMAIN Line(u), IsHead(Line(u)[k])
                 PROVE  /\ \A l \in 1 .. k - 1 : Line(u)[l].pkt # Line(u)[k].pkt
                        /\ ~Holds(buffer_tx'[hub_for_tile[u]], Line(u)[k].pkt)
                        /\ ~Holds(e2[Dst[Line(u)[k].pkt]], Line(u)[k].pkt)
      BY <1>11
    <3>1. /\ \A l \in 1 .. k - 1 : Line(u)[l].pkt # Line(u)[k].pkt
          /\ ~Holds(buffer_tx[hub_for_tile[u]], Line(u)[k].pkt)
          /\ ~Holds(e[Dst[Line(u)[k].pkt]], Line(u)[k].pkt)
      BY DEF SourceInv, Once
    <3>2. owner[Line(u)[k].pkt] = u
      BY DEF SourceInv, Owned
    <3>3. Line(u)[k].pkt # f.pkt
      BY <1>1, <1>16, <2>3, <3>1, <3>2
    <3>4. Dst[Line(u)[k].pkt] \in Tile
      BY Destinations
    <3>5. ~Holds(e2[Dst[Line(u)[k].pkt]], Line(u)[k].pkt)
      BY <2>1, <3>1, <3>3, <3>4
    <3>6. ~Holds(buffer_tx'[hub_for_tile[u]], Line(u)[k].pkt)
      BY <1>1, <2>2, <3>1
    <3> QED BY <3>1, <3>5, <3>6
  <2>6. \A g \in Hub : \A k \in DOMAIN buffer_tx'[g] : IsHead(buffer_tx'[g][k]) =>
          /\ \A l \in 1 .. k - 1 : buffer_tx'[g][l].pkt # buffer_tx'[g][k].pkt
          /\ ~Holds(e2[Dst[buffer_tx'[g][k].pkt]], buffer_tx'[g][k].pkt)
    <3> SUFFICES ASSUME NEW g \in Hub, NEW k \in DOMAIN buffer_tx'[g], IsHead(buffer_tx'[g][k])
                 PROVE  /\ \A l \in 1 .. k - 1 : buffer_tx'[g][l].pkt # buffer_tx'[g][k].pkt
                        /\ ~Holds(e2[Dst[buffer_tx'[g][k].pkt]], buffer_tx'[g][k].pkt)
      OBVIOUS
    <3> DEFINE p == buffer_tx'[g][k].pkt
    <3>1. CASE g # h
      <4>1. buffer_tx'[g] = buffer_tx[g]
        BY <1>10, <3>1
      <4>2. k \in DOMAIN buffer_tx[g] /\ IsHead(buffer_tx[g][k]) /\ p = buffer_tx[g][k].pkt
        BY <4>1
      <4>3. /\ \A l \in 1 .. k - 1 : buffer_tx[g][l].pkt # p
            /\ ~Holds(e[Dst[p]], p)
        BY <4>2 DEF SourceInv, Once
      <4>4. owner[p] \in Attached(g)
        BY <4>2 DEF SourceInv, Owned
      <4>5. p # f.pkt
        <5>1. hub_for_tile[owner[p]] = g
          BY <1>1, <4>4
        <5>2. hub_for_tile[owner[f.pkt]] = h
          BY <1>1, <1>16
        <5> HIDE DEF p
        <5> QED BY <3>1, <5>1, <5>2
      <4>6. Dst[p] \in Tile
        BY <4>2, Destinations
      <4> QED BY <2>1, <4>1, <4>3, <4>5, <4>6
    <3>2. CASE g = h
      <4>1. k \in DOMAIN Tail(B) /\ k + 1 \in DOMAIN B /\ buffer_tx'[g][k] = B[k + 1] /\ k \in Nat \ {0}
        BY <1>8, <1>10, <3>2
      <4>2. /\ \A l \in 1 .. (k + 1) - 1 : B[l].pkt # p
            /\ ~Holds(e[Dst[p]], p)
        BY <4>1 DEF SourceInv, Once
      <4>3. p # f.pkt
        <5>1. 1 \in 1 .. (k + 1) - 1
          BY <4>1
        <5> QED BY <4>2, <5>1
      <4>4. \A l \in 1 .. k - 1 : buffer_tx'[g][l].pkt # p
        <5> SUFFICES ASSUME NEW l \in 1 .. k - 1
                     PROVE  buffer_tx'[g][l].pkt # p
          OBVIOUS
        <5>1. l \in DOMAIN Tail(B) /\ l + 1 \in 1 .. (k + 1) - 1
          BY <1>7, <4>1
        <5>2. buffer_tx'[g][l] = B[l + 1]
          BY <1>8, <1>10, <3>2, <5>1
        <5> QED BY <4>2, <5>1, <5>2
      <4>5. Dst[p] \in Tile
        BY <4>1, Destinations
      <4> QED BY <2>1, <4>2, <4>3, <4>4, <4>5
    <3> QED BY <3>1, <3>2
  <2>7. \A u \in Tile : \A k, l \in DOMAIN queue'[u] : queue'[u][k] = queue'[u][l] => k = l
    BY DEF SourceInv, Once
  <2> QED BY <2>4, <2>5, <2>6, <2>7 DEF Once
<1> QED BY <1>6, <1>15, <1>18, <1>19, <1>20, <1>21, <1>22, <1>23 DEF SourceInv

(* BufferTypes and Transit: a tile puts a flit on its link.                 *)
LEMMA TypesSend ==
  ASSUME NEW e, NEW owner, SourceInv(e, owner), BufferTypes, NEW t \in Tile, TileTx(t)
  PROVE  BufferTypes' /\ (Transit => Transit')
<1> DEFINE f == [pkt |-> Head(queue[t]), seq |-> sent[t]]
<1>1. /\ f \in GoodFlit /\ queue[t] # <<>>
      /\ \A u \in Tile : u # t => queue'[u] = queue[u] /\ sent'[u] = sent[u]
      /\ IsLast(f) => sent'[t] = 0 /\ queue'[t] = Tail(queue[t])
      /\ ~IsLast(f) => sent'[t] = sent[t] + 1 /\ queue'[t] = queue[t]
      /\ link_in' = [link_in EXCEPT ![t] = <<f>>]
  BY TileSends
<1>2. /\ UNCHANGED <<portVars, fromVars, radioVars, rxVars, todo>>
      /\ sent' = [sent EXCEPT ![t] = sent'[t]] /\ queue' = [queue EXCEPT ![t] = queue'[t]]
  BY DEF TileTx, BufferTypes
<1>3. queue[t] \in Seq(Packet) /\ sent[t] \in Nat
  BY DEF BufferTypes
<1>4. Tail(queue[t]) \in Seq(Packet)
  BY <1>1, <1>3, HeadTailProperties
<1>5. sent'[t] \in Nat
  BY <1>1, <1>3
<1>6. queue'[t] \in Seq(Packet)
  BY <1>1, <1>3, <1>4
<1>7. sent' \in [Tile -> Nat]
  BY <1>2, <1>5 DEF BufferTypes
<1>8. queue' \in [Tile -> Seq(Packet)]
  BY <1>2, <1>6 DEF BufferTypes
<1>9. link_in' \in [Tile -> Seq(GoodFlit)]
  <2>1. <<f>> \in Seq(GoodFlit)
    BY <1>1
  <2> HIDE DEF f
  <2> QED BY <1>1, <2>1 DEF BufferTypes
<1>10. UNCHANGED <<buffer_from_tile, buffer_tx, buffer_rx, buffer_to_tile, received, link_out,
                   fresh, refused, tile2antenna_reservation, antenna2tile_reservation,
                   cycles_left, todo>>
  BY <1>2 DEF portVars, fromVars, radioVars, rxVars
<1>11. BufferTypes'
  BY <1>7, <1>8, <1>9, <1>10 DEF BufferTypes
<1>12. Transit => Transit'
  BY <1>10 DEF Transit
<1> QED BY <1>11, <1>12

(* BufferTypes and Transit: a router takes a flit, or has no room for it.   *)
LEMMA TypesTake ==
  ASSUME BufferTypes, Transit, NEW t \in Tile, TileRx(t)
  PROVE  BufferTypes' /\ Transit'
<1>1. UNCHANGED <<queue, sent, link_in, buffer_from_tile, buffer_tx, buffer_rx, buffer_to_tile,
                  link_out, tile2antenna_reservation, antenna2tile_reservation, cycles_left>>
  BY DEF TileRx, tileVars, fromVars, radioVars, rxVars
<1>2. /\ <<2, t>> \in todo /\ todo' = todo \ {<<2, t>>}
      /\ fresh[t] /\ link_out[t] \in Seq(GoodFlit) /\ Len(link_out[t]) = 1
  BY DEF TileRx, Run, Transit, BufferTypes
<1>3. \/ /\ received' = [received EXCEPT ![t] = Append(@, link_out[t][1])]
         /\ fresh' = [fresh EXCEPT ![t] = FALSE] /\ refused' = refused
      \/ /\ received' = received /\ fresh' = fresh /\ refused' = refused \union {t}
  BY DEF TileRx
<1>4. received' \in [Tile -> Seq(GoodFlit)]
  <2>1. received[t] \in Seq(GoodFlit)
    BY DEF BufferTypes
  <2>3. link_out[t][1] \in GoodFlit
    BY <1>2
  <2>2. Append(received[t], link_out[t][1]) \in Seq(GoodFlit)
    BY <2>1, <2>3, AppendProperties
  <2> QED BY <1>3, <2>2 DEF BufferTypes
<1>5. fresh' \in [Tile -> BOOLEAN] /\ refused' \subseteq Tile /\ refused \subseteq refused'
  BY <1>3 DEF BufferTypes
<1>6. \A u \in Tile : fresh'[u] => fresh[u]
  BY <1>3 DEF BufferTypes
<1>7. BufferTypes'
  BY <1>1, <1>4, <1>5, <1>6 DEF BufferTypes
<1>8. \A u \in Tile : <<2, u>> \in todo' => fresh'[u]
  <2> SUFFICES ASSUME NEW u \in Tile, <<2, u>> \in todo'
               PROVE  fresh'[u]
    OBVIOUS
  <2>1. u # t /\ fresh[u]
    BY <1>2 DEF Transit
  <2> QED BY <1>3, <2>1 DEF BufferTypes
<1>9. \A u \in Tile \ refused' : fresh'[u] => <<2, u>> \in todo' \/ <<4, hub_for_tile[u]>> \notin todo'
  <2> SUFFICES ASSUME NEW u \in Tile \ refused', fresh'[u]
               PROVE  <<2, u>> \in todo' \/ <<4, hub_for_tile[u]>> \notin todo'
    OBVIOUS
  <2>1. u # t
    BY <1>3 DEF BufferTypes
  <2>2. <<2, u>> \in todo \/ <<4, hub_for_tile[u]>> \notin todo
    BY <1>5, <1>6 DEF Transit
  <2> QED BY <1>2, <2>1, <2>2
<1>10. Transit'
  BY <1>1, <1>8, <1>9 DEF Transit
<1> QED BY <1>7, <1>10

(* BufferTypes and Transit: an edge of tileToAntennaProcess.                *)
LEMMA TypesCollect ==
  ASSUME BufferTypes, IInv, Transit, NEW h \in Hub, TileToAntennaProcess(h)
  PROVE  BufferTypes' /\ Transit'
<1>1. UNCHANGED <<queue, sent, buffer_rx, buffer_to_tile, received, link_out, fresh, refused,
                  antenna2tile_reservation>>
  BY DEF TileToAntennaProcess, portVars, rxVars
<1>2. todo' = todo \ {<<3, h>>}
  BY DEF TileToAntennaProcess, Run
<1>3. \A t \in Tile : LeftFromTile(h, t) \in Seq(GoodFlit)
  <2> SUFFICES ASSUME NEW t \in Tile
               PROVE  LeftFromTile(h, t) \in Seq(GoodFlit)
    OBVIOUS
  <2>1. buffer_from_tile[t] \in Seq(GoodFlit)
    BY DEF BufferTypes
  <2>2. CASE Moves(h, t)
    <3>1. Tail(buffer_from_tile[t]) \in Seq(GoodFlit)
      BY <2>1, <2>2, HeadTailProperties DEF Moves
    <3> QED BY <2>2, <3>1 DEF LeftFromTile
  <2>3. CASE ~Moves(h, t)
    BY <2>1, <2>3 DEF LeftFromTile
  <2> QED BY <2>2, <2>3
<1>4. buffer_from_tile' \in [Tile -> Seq(GoodFlit)]
  <2>1. \A t \in Tile : LeftFromTile(h, t) \o link_in[t] \in Seq(GoodFlit)
    BY <1>3, ConcatProperties DEF BufferTypes
  <2> QED BY <1>3, <2>1 DEF TileToAntennaProcess, BufferTypes
<1>5. link_in' \in [Tile -> Seq(GoodFlit)]
  BY DEF TileToAntennaProcess, BufferTypes
<1>6. /\ buffer_tx' \in [Hub -> Seq(GoodFlit)]
      /\ \A g \in Hub : buffer_tx[g] # <<>> => buffer_tx'[g] # <<>>
      /\ tile2antenna_reservation' = [g \in Hub |-> tile2antenna_reservation'[g]]
  <2>1. CASE buffer_tx' = buffer_tx /\ tile2antenna_reservation' =
                 [tile2antenna_reservation EXCEPT ![h] = Reserved(h)]
    BY <2>1 DEF BufferTypes
  <2>2. ASSUME NEW r \in Attached(h), Line(r) # <<>>,
               buffer_tx' = [buffer_tx EXCEPT ![h] = Append(@, Line(r)[1])],
               tile2antenna_reservation' = [tile2antenna_reservation EXCEPT ![h] =
                   IF IsTail(Line(r)[1]) THEN NOT_RESERVED ELSE r]
        PROVE  /\ buffer_tx' \in [Hub -> Seq(GoodFlit)]
               /\ \A g \in Hub : buffer_tx[g] # <<>> => buffer_tx'[g] # <<>>
               /\ tile2antenna_reservation' = [g \in Hub |-> tile2antenna_reservation'[g]]
    <3> DEFINE N == Append(buffer_tx[h], Line(r)[1])
    <3>1. Line(r)[1] \in GoodFlit /\ buffer_tx[h] \in Seq(GoodFlit)
      <4>1. r \in Tile
        BY Tiles
      <4>2. Line(r) \in Seq(GoodFlit) /\ Line(r)[1] \in GoodFlit
        BY <2>2, <4>1, LineTypes
      <4> QED BY <4>2 DEF BufferTypes
    <3>2. N \in Seq(GoodFlit) /\ N # <<>>
      BY <3>1, AppendProperties
    <3> HIDE DEF N
    <3>3. buffer_tx' = [buffer_tx EXCEPT ![h] = N]
      BY <2>2 DEF N
    <3>4. /\ buffer_tx' \in [Hub -> Seq(GoodFlit)]
          /\ \A g \in Hub : buffer_tx[g] # <<>> => buffer_tx'[g] # <<>>
      BY <3>2, <3>3 DEF BufferTypes
    <3>5. tile2antenna_reservation' = [g \in Hub |-> tile2antenna_reservation'[g]]
      BY <2>2 DEF BufferTypes
    <3> QED BY <3>4, <3>5
  <2> QED BY <2>1, <2>2, LinesMove
<1>7. cycles_left' \in [Hub -> Nat]
  <2>1. flit_transmission_cycles \in Nat
    BY DEF IInv, RingTypes
  <2> QED BY <2>1 DEF TileToAntennaProcess, BufferTypes
<1>8. BufferTypes'
  BY <1>1, <1>4, <1>5, <1>6, <1>7 DEF BufferTypes
<1>9. \A g \in Hub : cycles_left'[g] > 0 => buffer_tx'[g] # <<>>
  <2> SUFFICES ASSUME NEW g \in Hub, cycles_left'[g] > 0
               PROVE  buffer_tx[g] # <<>>
    BY <1>6
  <2>1. CASE cycles_left'[g] = cycles_left[g]
    BY <2>1 DEF Transit
  <2>2. CASE cycles_left'[g] # cycles_left[g]
    BY <2>2 DEF TileToAntennaProcess, BufferTypes, Transmits
  <2> QED BY <2>1, <2>2
<1>10. \A t \in Tile : (<<2, t>> \in todo' <=> <<2, t>> \in todo)
                      /\ (<<4, hub_for_tile[t]>> \in todo' <=> <<4, hub_for_tile[t]>> \in todo)
  BY <1>2
<1>11. Transit'
  BY <1>1, <1>9, <1>10 DEF Transit
<1> QED BY <1>8, <1>11

(* BufferTypes and Transit: an edge of antennaToTileProcess.                *)
LEMMA TypesDeliver ==
  ASSUME BufferTypes, Transit, NEW h \in Hub, AntennaToTileProcess(h)
  PROVE  BufferTypes' /\ Transit'
<1> DEFINE drives(t) == t \in Attached(h) /\ buffer_to_tile[t] # <<>>
           kept(t) == IF drives(t) THEN Tail(buffer_to_tile[t]) ELSE buffer_to_tile[t]
           front == Head(buffer_rx[h])
           moves == buffer_rx[h] # <<>> /\ Len(kept(Dst[front.pkt])) < ToTileDepth
<1>1. UNCHANGED <<queue, sent, link_in, buffer_from_tile, buffer_tx, received, refused,
                  tile2antenna_reservation, antenna2tile_reservation, cycles_left>>
  BY DEF AntennaToTileProcess, tileVars, fromVars, radioVars
<1>2. /\ todo' = todo \ {<<4, h>>} /\ <<4, h>> \in todo
      /\ \A t \in Tile : <<2, t>> \notin todo
  <2>1. /\ <<4, h>> \in todo /\ todo' = todo \ {<<4, h>>}
        /\ \A q \in todo : ~Before(q, <<4, h>>)
    BY DEF AntennaToTileProcess, Run
  <2>2. \A t \in Tile : Before(<<2, t>>, <<4, h>>)
    BY DEF Before
  <2> QED BY <2>1, <2>2
<1>3. /\ link_out' = [t \in Tile |->
           IF drives(t) THEN <<Head(buffer_to_tile[t])>> ELSE link_out[t]]
      /\ fresh' = [t \in Tile |-> IF drives(t) THEN ~fresh[t] ELSE fresh[t]]
      /\ buffer_to_tile' = [t \in Tile |->
           IF moves /\ t = Dst[front.pkt] THEN Append(kept(t), front) ELSE kept(t)]
      /\ buffer_rx' = [buffer_rx EXCEPT ![h] = IF moves THEN Tail(@) ELSE @]
  BY DEF AntennaToTileProcess
<1>4. \A t \in Tile : kept(t) \in Seq(GoodFlit)
  <2> SUFFICES ASSUME NEW t \in Tile
               PROVE  kept(t) \in Seq(GoodFlit)
    OBVIOUS
  <2>1. buffer_to_tile[t] \in Seq(GoodFlit)
    BY DEF BufferTypes
  <2>2. CASE drives(t)
    BY <2>1, <2>2, HeadTailProperties
  <2>3. CASE ~drives(t)
    BY <2>1, <2>3
  <2> QED BY <2>2, <2>3
<1>5. /\ moves => /\ buffer_rx[h] \in Seq(GoodFlit) /\ front \in GoodFlit /\ front = buffer_rx[h][1]
                  /\ Tail(buffer_rx[h]) \in Seq(GoodFlit)
                  /\ \A i \in DOMAIN Tail(buffer_rx[h]) :
                       i + 1 \in DOMAIN buffer_rx[h] /\ Tail(buffer_rx[h])[i] = buffer_rx[h][i + 1]
  <2>1. buffer_rx[h] \in Seq(GoodFlit)
    BY DEF BufferTypes
  <2> QED BY <2>1, HeadTailProperties
<1>6. \A t \in Tile : drives(t) => Head(buffer_to_tile[t]) \in GoodFlit
  <2> SUFFICES ASSUME NEW t \in Tile, drives(t)
               PROVE  Head(buffer_to_tile[t]) \in GoodFlit
    OBVIOUS
  <2>1. buffer_to_tile[t] \in Seq(GoodFlit) /\ buffer_to_tile[t] # <<>>
    BY DEF BufferTypes
  <2> QED BY <2>1
<1> HIDE DEF drives, kept, moves, front
<1>7. link_out' \in [Tile -> Seq(GoodFlit)] /\ fresh' \in [Tile -> BOOLEAN]
      /\ \A t \in Tile : fresh'[t] => Len(link_out'[t]) = 1
  <2>1. \A t \in Tile : drives(t) => /\ <<Head(buffer_to_tile[t])>> \in Seq(GoodFlit)
                                     /\ Len(<<Head(buffer_to_tile[t])>>) = 1
    BY <1>6
  <2>2. link_out' \in [Tile -> Seq(GoodFlit)]
    BY <1>3, <2>1 DEF BufferTypes
  <2>3. fresh' \in [Tile -> BOOLEAN]
    BY <1>3 DEF BufferTypes
  <2> QED BY <1>3, <2>1, <2>2, <2>3 DEF BufferTypes
<1>8. buffer_to_tile' \in [Tile -> Seq(GoodFlit)]
  <2>1. \A t \in Tile : moves => Append(kept(t), front) \in Seq(GoodFlit)
    BY <1>4, <1>5, AppendProperties
  <2> QED BY <1>3, <1>4, <2>1
<1>9. buffer_rx' \in [Hub -> Seq(GoodFlit)]
  BY <1>3, <1>5 DEF BufferTypes
<1>10. BufferTypes'
  BY <1>1, <1>7, <1>8, <1>9 DEF BufferTypes
<1>11. \A t \in Tile \ refused : fresh'[t] => <<4, hub_for_tile[t]>> \notin todo'
  <2> SUFFICES ASSUME NEW t \in Tile \ refused, fresh'[t]
               PROVE  <<4, hub_for_tile[t]>> \notin todo'
    OBVIOUS
  <2>1. CASE drives(t)
    <3>1. hub_for_tile[t] = h
      BY <2>1, Tiles DEF drives
    <3> QED BY <1>2, <3>1
  <2>2. CASE ~drives(t)
    <3>1. fresh[t]
      BY <1>3, <2>2
    <3> QED BY <1>2, <3>1 DEF Transit
  <2> QED BY <2>1, <2>2
<1>12. \A g \in Hub : \A i \in DOMAIN buffer_rx'[g] : hub_for_tile[Dst[buffer_rx'[g][i].pkt]] = g
  <2> SUFFICES ASSUME NEW g \in Hub, NEW i \in DOMAIN buffer_rx'[g]
               PROVE  hub_for_tile[Dst[buffer_rx'[g][i].pkt]] = g
    OBVIOUS
  <2>1. CASE g = h /\ moves
    <3>1. buffer_rx'[g] = Tail(buffer_rx[h])
      BY <1>3, <2>1 DEF BufferTypes
    <3> QED BY <1>5, <2>1, <3>1 DEF Transit
  <2>2. CASE g # h \/ ~moves
    <3>1. buffer_rx'[g] = buffer_rx[g]
      BY <1>3, <2>2 DEF BufferTypes
    <3> QED BY <3>1 DEF Transit
  <2> QED BY <2>1, <2>2
<1>13. Transit'
  BY <1>1, <1>2, <1>11, <1>12 DEF Transit
<1> QED BY <1>10, <1>13

(* BufferTypes and Transit: the end of a transmission.                      *)
LEMMA TypesTransmit ==
  ASSUME BufferTypes, Transit, NEW h \in Hub, Transmitted(h)
  PROVE  BufferTypes' /\ Transit' /\ buffer_tx[h] # <<>>
<1> DEFINE f == Head(buffer_tx[h])
           d == hub_for_tile[Dst[f.pkt]]
<1>1. UNCHANGED <<queue, sent, link_in, buffer_from_tile, buffer_to_tile, received, refused,
                  link_out, fresh, tile2antenna_reservation, todo>>
  BY DEF Transmitted, tileVars, portVars, fromVars
<1>2. /\ cycles_left[h] = 1 /\ cycles_left' = [cycles_left EXCEPT ![h] = 0]
      /\ buffer_tx' = [buffer_tx EXCEPT ![h] = AfterTransport(h)]
      /\ buffer_rx' = IF Accepted(f) THEN [buffer_rx EXCEPT ![d] = Append(@, f)] ELSE buffer_rx
      /\ antenna2tile_reservation' =
           CASE Accepted(f) /\ IsHead(f) -> antenna2tile_reservation \union {Dst[f.pkt]}
             [] Accepted(f) /\ IsTail(f) -> antenna2tile_reservation \ {Dst[f.pkt]}
             [] OTHER -> antenna2tile_reservation
  BY DEF Transmitted
<1>3. buffer_tx[h] \in Seq(GoodFlit) /\ buffer_tx[h] # <<>>
  <2>1. buffer_tx[h] \in Seq(GoodFlit)
    BY DEF BufferTypes
  <2>2. cycles_left[h] = 1
    BY <1>2, Zenon
  <2>3. cycles_left[h] > 0
    BY <2>2
  <2> QED BY <2>1, <2>3 DEF Transit
<1>4. f \in GoodFlit /\ Tail(buffer_tx[h]) \in Seq(GoodFlit)
  BY <1>3, HeadTailProperties
<1>5. Dst[f.pkt] \in Tile /\ d \in Hub
  <2>1. Dst[f.pkt] \in Tile
    BY <1>4, FlitFacts
  <2> QED BY <2>1, Tiles
<1>6. AfterTransport(h) \in Seq(GoodFlit)
  BY <1>3, <1>4 DEF AfterTransport
<1>7. buffer_tx' \in [Hub -> Seq(GoodFlit)] /\ cycles_left' \in [Hub -> Nat]
  BY <1>2, <1>6 DEF BufferTypes
<1> HIDE DEF f, d
<1>8. antenna2tile_reservation' \subseteq Tile
  BY <1>2, <1>5 DEF BufferTypes
<1> DEFINE N == Append(buffer_rx[d], f)
<1>9. /\ N \in Seq(GoodFlit) /\ buffer_rx[d] \in Seq(GoodFlit)
      /\ \A i \in DOMAIN N : (i \in DOMAIN buffer_rx[d] /\ N[i] = buffer_rx[d][i]) \/ N[i] = f
  <2>1. buffer_rx[d] \in Seq(GoodFlit)
    BY <1>5 DEF BufferTypes
  <2>2. /\ N \in Seq(GoodFlit) /\ Len(N) = Len(buffer_rx[d]) + 1 /\ N[Len(buffer_rx[d]) + 1] = f
        /\ \A k \in 1 .. Len(buffer_rx[d]) : N[k] = buffer_rx[d][k]
    BY <1>4, <2>1, AppendProperties
  <2>3. Len(buffer_rx[d]) \in Nat /\ DOMAIN buffer_rx[d] = 1 .. Len(buffer_rx[d])
    BY <2>1
  <2> HIDE DEF N
  <2>4. DOMAIN N = 1 .. Len(N)
    BY <2>2
  <2> QED BY <2>1, <2>2, <2>3, <2>4
<1>10. buffer_rx' = IF Accepted(f) THEN [buffer_rx EXCEPT ![d] = N] ELSE buffer_rx
  BY <1>2
<1> HIDE DEF N
<1>11. buffer_rx' \in [Hub -> Seq(GoodFlit)]
  BY <1>9, <1>10 DEF BufferTypes
<1>12. BufferTypes'
  BY <1>1, <1>2, <1>7, <1>8, <1>11 DEF BufferTypes
<1>13. \A g \in Hub : cycles_left'[g] > 0 => buffer_tx'[g] # <<>>
  BY <1>2 DEF BufferTypes, Transit
<1>14. \A g \in Hub : \A i \in DOMAIN buffer_rx'[g] : hub_for_tile[Dst[buffer_rx'[g][i].pkt]] = g
  <2> SUFFICES ASSUME NEW g \in Hub, NEW i \in DOMAIN buffer_rx'[g]
               PROVE  hub_for_tile[Dst[buffer_rx'[g][i].pkt]] = g
    OBVIOUS
  <2>1. CASE g = d /\ Accepted(f)
    <3>1. buffer_rx'[g] = N
      BY <1>5, <1>10, <2>1 DEF BufferTypes
    <3>2. (i \in DOMAIN buffer_rx[d] /\ N[i] = buffer_rx[d][i]) \/ N[i] = f
      BY <1>9, <3>1
    <3> QED BY <1>5, <2>1, <3>1, <3>2 DEF Transit, d
  <2>2. CASE g # d \/ ~Accepted(f)
    <3>1. buffer_rx'[g] = buffer_rx[g]
      BY <1>10, <2>2 DEF BufferTypes
    <3> QED BY <3>1 DEF Transit
  <2> QED BY <2>1, <2>2
<1>15. Transit'
  BY <1>1, <1>13, <1>14 DEF Transit
<1> QED BY <1>3, <1>12, <1>15

(* BufferTypes and Transit: the next edge.                                  *)
LEMMA TypesEdge ==
  ASSUME BufferTypes, Transit, ClockEdge
  PROVE  BufferTypes' /\ Transit'
<1>1. UNCHANGED <<queue, sent, link_in, buffer_from_tile, buffer_tx, buffer_rx, buffer_to_tile,
                  received, link_out, fresh, refused, tile2antenna_reservation,
                  antenna2tile_reservation>>
  BY DEF ClockEdge, tileVars, portVars, fromVars, rxVars
<1>2. cycles_left' = [h \in Hub |-> IF cycles_left[h] > 0 THEN cycles_left[h] - 1 ELSE 0]
  BY DEF ClockEdge
<1>3. cycles_left' \in [Hub -> Nat] /\ \A h \in Hub : cycles_left'[h] > 0 => cycles_left[h] > 0
  BY <1>2 DEF BufferTypes
<1>4. \A t \in Tile : fresh[t] <=> <<2, t>> \in todo'
  BY DEF ClockEdge, Processes
<1>5. BufferTypes'
  BY <1>1, <1>3 DEF BufferTypes
<1>6. Transit'
  BY <1>1, <1>3, <1>4 DEF Transit
<1> QED BY <1>5, <1>6

(* BufferTypes and Transit: the ring.                                       *)
LEMMA TypesPass ==
  ASSUME BufferTypes, Transit, UpdateTokens
  PROVE  BufferTypes' /\ Transit'
<1>1. UNCHANGED <<queue, sent, link_in, buffer_from_tile, buffer_tx, buffer_rx, buffer_to_tile,
                  received, link_out, fresh, refused, tile2antenna_reservation,
                  antenna2tile_reservation, cycles_left>>
  BY DEF UpdateTokens, tileVars, portVars, fromVars, radioVars, rxVars
<1>2. todo' = todo \ {<<1, 0>>}
  BY DEF UpdateTokens, Run
<1>3. BufferTypes'
  BY <1>1 DEF BufferTypes
<1>4. \A t \in Tile : (<<2, t>> \in todo' <=> <<2, t>> \in todo)
                     /\ (<<4, hub_for_tile[t]>> \in todo' => <<4, hub_for_tile[t]>> \in todo)
  BY <1>2
<1>5. Transit'
  BY <1>1, <1>4 DEF Transit
<1> QED BY <1>3, <1>5

(* The front of buffer_rx moves on: to the tile, or to another.             *)
LEMMA SplitsTail ==
  ASSUME NEW t, NEW s \in Seq(GoodFlit), NEW have \in Seq(GoodFlit), NEW rx \in Seq(GoodFlit),
         rx # <<>>, Splits(t, s, have, rx), \A j \in DOMAIN s : Dst[s[j].pkt] = t
  PROVE  /\ Dst[rx[1].pkt] = t => Splits(t, s, Append(have, rx[1]), Tail(rx))
         /\ Dst[rx[1].pkt] # t => Splits(t, s, have, Tail(rx))
<1> DEFINE T == Tail(rx)
           n == Len(s) - Len(have)
<1>1. /\ T \in Seq(GoodFlit) /\ Len(T) = Len(rx) - 1 /\ Len(rx) \in Nat \ {0}
      /\ \A i \in 1 .. Len(T) : T[i] = rx[i + 1]
      /\ DOMAIN T = 1 .. Len(rx) - 1 /\ DOMAIN rx = 1 .. Len(rx)
  BY HeadTailProperties
<1>2. Len(s) \in Nat /\ Len(have) \in Nat /\ DOMAIN s = 1 .. Len(s) /\ DOMAIN have = 1 .. Len(have)
      /\ Len(have) <= Len(s) /\ \A k \in DOMAIN have : have[k] = s[k]
  BY DEF Splits
<1>3. PICK at \in [1 .. n -> DOMAIN rx] :
       /\ \A k \in 1 .. n : rx[at[k]] = s[Len(have) + k]
       /\ \A k, l \in 1 .. n : k < l => at[k] < at[l]
       /\ \A i \in DOMAIN rx : Dst[rx[i].pkt] = t => \E k \in 1 .. n : at[k] = i
  BY DEF Splits
<1> HIDE DEF T
<1>7. \A k \in 1 .. n : at[k] \in 1 .. Len(rx)
  BY <1>1, <1>3
<1>8. n \in Nat /\ \A k \in 1 .. n : Len(have) + k \in DOMAIN s
  BY <1>2
<1> HIDE DEF n
<1>4. n \in Nat /\ \A k \in 1 .. n : at[k] \in 1 .. Len(rx) /\ Len(have) + k \in DOMAIN s
  BY <1>7, <1>8
<1>5. ASSUME Dst[rx[1].pkt] = t PROVE Splits(t, s, Append(have, rx[1]), T)
  <2> DEFINE H == Append(have, rx[1])
             m == n - 1
             to == [k \in 1 .. m |-> at[k + 1] - 1]
  <2>1. rx[1] \in GoodFlit /\ 1 \in DOMAIN rx
    BY <1>1
  <2>2. PICK k1 \in 1 .. n : at[k1] = 1
    BY <1>3, <1>5, <2>1
  <2>3. k1 = 1 /\ 1 \in 1 .. n
    <3> SUFFICES ASSUME k1 # 1 PROVE FALSE
      BY <2>2
    <3>1. 1 \in 1 .. n /\ 1 < k1
      BY <1>4, <2>2
    <3>2. at[1] < at[k1]
      BY <1>3, <3>1
    <3> QED BY <1>4, <2>2, <3>1, <3>2
  <2>4. rx[1] = s[Len(have) + 1]
    BY <1>3, <2>2, <2>3
  <2>5. H \in Seq(GoodFlit) /\ Len(H) = Len(have) + 1 /\ H[Len(have) + 1] = rx[1]
        /\ \A k \in 1 .. Len(have) : H[k] = have[k]
    BY <2>1, AppendProperties
  <2> HIDE DEF H
  <2>6. DOMAIN H = 1 .. Len(have) + 1
    BY <2>5
  <2>7. \A k \in DOMAIN H : H[k] = s[k]
    BY <1>2, <2>4, <2>5, <2>6
  <2>8. Len(s) - Len(H) = m /\ m \in Nat /\ Len(H) <= Len(s)
    BY <1>2, <1>4, <2>3, <2>5 DEF n
  <2>9. \A k \in 1 .. m : k + 1 \in 1 .. n /\ 1 < k + 1
    BY <1>4, <2>8
  <2>10. \A k \in 1 .. m : at[k + 1] \in 1 .. Len(rx) /\ at[k + 1] > 1
    BY <1>3, <1>4, <2>2, <2>3, <2>9
  <2>11. to \in [1 .. m -> DOMAIN T]
    BY <1>1, <2>10
  <2>12. \A k \in 1 .. m : to[k] = at[k + 1] - 1
    OBVIOUS
  <2> HIDE DEF to
  <2>13. \A k \in 1 .. m : T[to[k]] = s[Len(H) + k]
    <3> SUFFICES ASSUME NEW k \in 1 .. m
                 PROVE  T[to[k]] = s[Len(H) + k]
      OBVIOUS
    <3>5. to[k] = at[k + 1] - 1 /\ at[k + 1] \in 1 .. Len(rx) /\ at[k + 1] > 1
      BY <2>10, <2>12
    <3>6. \A x \in 1 .. Len(rx) : x > 1 => x - 1 \in 1 .. Len(T) /\ (x - 1) + 1 = x
      BY <1>1
    <3>1. to[k] \in 1 .. Len(T) /\ to[k] + 1 = at[k + 1]
      BY <3>5, <3>6
    <3>2. T[to[k]] = rx[at[k + 1]]
      BY <1>1, <3>1
    <3>3. rx[at[k + 1]] = s[Len(have) + (k + 1)]
      BY <1>3, <2>9
    <3>4. Len(have) + (k + 1) = Len(H) + k
      BY <1>2, <2>5, <2>8
    <3> QED BY <3>2, <3>3, <3>4
  <2>14. \A k, l \in 1 .. m : k < l => to[k] < to[l]
    <3> SUFFICES ASSUME NEW k \in 1 .. m, NEW l \in 1 .. m, k < l
                 PROVE  to[k] < to[l]
      OBVIOUS
    <3>1. at[k + 1] < at[l + 1]
      BY <1>3, <2>9
    <3> QED BY <2>10, <2>12, <3>1
  <2>15. \A i \in DOMAIN T : Dst[T[i].pkt] = t => \E k \in 1 .. m : to[k] = i
    <3> SUFFICES ASSUME NEW i \in DOMAIN T, Dst[T[i].pkt] = t
                 PROVE  \E k \in 1 .. m : to[k] = i
      OBVIOUS
    <3>1. i \in Nat /\ i + 1 \in DOMAIN rx /\ T[i] = rx[i + 1] /\ i + 1 # 1
      BY <1>1
    <3>2. PICK k \in 1 .. n : at[k] = i + 1
      BY <1>3, <3>1
    <3>3. k # 1
      BY <2>2, <2>3, <3>1, <3>2
    <3>4. k - 1 \in 1 .. m /\ (k - 1) + 1 = k
      BY <1>4, <3>3
    <3>5. to[k - 1] = i
      BY <2>12, <3>1, <3>2, <3>4
    <3> QED BY <3>4, <3>5
  <2> HIDE DEF m
  <2> QED BY <2>7, <2>8, <2>11, <2>13, <2>14, <2>15 DEF Splits, H
<1>6. ASSUME Dst[rx[1].pkt] # t PROVE Splits(t, s, have, T)
  <2> DEFINE to == [k \in 1 .. n |-> at[k] - 1]
  <2>1. \A k \in 1 .. n : at[k] \in 1 .. Len(rx) /\ at[k] > 1
    <3> SUFFICES ASSUME NEW k \in 1 .. n
                 PROVE  at[k] # 1
      BY <1>1, <1>4
    <3>1. Dst[rx[at[k]].pkt] = t
      <4>1. rx[at[k]] = s[Len(have) + k] /\ Len(have) + k \in DOMAIN s
        BY <1>3, <1>4
      <4> QED BY <4>1
    <3> QED BY <1>6, <3>1
  <2>2. to \in [1 .. n -> DOMAIN T]
    BY <1>1, <2>1
  <2>3. \A k \in 1 .. n : to[k] = at[k] - 1
    OBVIOUS
  <2> HIDE DEF to
  <2>4. \A k \in 1 .. n : T[to[k]] = s[Len(have) + k]
    <3> SUFFICES ASSUME NEW k \in 1 .. n
                 PROVE  T[to[k]] = s[Len(have) + k]
      OBVIOUS
    <3>1. to[k] \in 1 .. Len(T) /\ to[k] + 1 = at[k]
      <4>1. at[k] \in 1 .. Len(rx) /\ at[k] > 1 /\ to[k] = at[k] - 1 /\ Len(T) = Len(rx) - 1
        BY <1>1, <2>1, <2>3
      <4> QED BY <4>1
    <3> QED BY <1>1, <1>3, <3>1
  <2>5. \A k, l \in 1 .. n : k < l => to[k] < to[l]
    <3> SUFFICES ASSUME NEW k \in 1 .. n, NEW l \in 1 .. n, k < l
                 PROVE  to[k] < to[l]
      OBVIOUS
    <3>1. at[k] < at[l]
      BY <1>3
    <3>2. at[k] \in Nat /\ at[l] \in Nat
      BY <2>1
    <3> QED BY <2>3, <3>1, <3>2
  <2>6. \A i \in DOMAIN T : Dst[T[i].pkt] = t => \E k \in 1 .. n : to[k] = i
    <3> SUFFICES ASSUME NEW i \in DOMAIN T, Dst[T[i].pkt] = t
                 PROVE  \E k \in 1 .. n : to[k] = i
      OBVIOUS
    <3>1. i \in Nat /\ i + 1 \in DOMAIN rx /\ T[i] = rx[i + 1]
      BY <1>1
    <3>2. PICK k \in 1 .. n : at[k] = i + 1
      BY <1>3, <3>1
    <3> QED BY <2>3, <3>1, <3>2
  <2>7. Len(s) - Len(have) = n
    BY DEF n
  <2>8. \E x \in [1 .. n -> DOMAIN T] :
          /\ \A k \in 1 .. n : T[x[k]] = s[Len(have) + k]
          /\ \A k, l \in 1 .. n : k < l => x[k] < x[l]
          /\ \A i \in DOMAIN T : Dst[T[i].pkt] = t => \E k \in 1 .. n : x[k] = i
    BY <2>2, <2>4, <2>5, <2>6
  <2> QED BY <1>2, <2>7, <2>8 DEF Splits
<1> QED BY <1>5, <1>6 DEF T

(* A flit is accepted: for the tile, or for another.                        *)
LEMMA SplitsAppend ==
  ASSUME NEW t, NEW s \in Seq(GoodFlit), NEW have \in Seq(GoodFlit), NEW rx \in Seq(GoodFlit),
         NEW a \in GoodFlit, Splits(t, s, have, rx)
  PROVE  /\ Dst[a.pkt] = t => Splits(t, Append(s, a), have, Append(rx, a))
         /\ Dst[a.pkt] # t => Splits(t, s, have, Append(rx, a))
<1> DEFINE R == Append(rx, a)
           S == Append(s, a)
           n == Len(s) - Len(have)
<1>1. /\ R \in Seq(GoodFlit) /\ Len(R) = Len(rx) + 1 /\ R[Len(rx) + 1] = a
      /\ \A i \in 1 .. Len(rx) : R[i] = rx[i]
  BY AppendProperties
<1>2. /\ S \in Seq(GoodFlit) /\ Len(S) = Len(s) + 1 /\ S[Len(s) + 1] = a
      /\ \A i \in 1 .. Len(s) : S[i] = s[i]
  BY AppendProperties
<1>3. Len(s) \in Nat /\ Len(have) \in Nat /\ DOMAIN s = 1 .. Len(s) /\ DOMAIN have = 1 .. Len(have)
      /\ Len(have) <= Len(s) /\ (\A k \in DOMAIN have : have[k] = s[k])
      /\ DOMAIN rx = 1 .. Len(rx) /\ Len(rx) \in Nat
  BY DEF Splits
<1>4. PICK at \in [1 .. n -> DOMAIN rx] :
       /\ \A k \in 1 .. n : rx[at[k]] = s[Len(have) + k]
       /\ \A k, l \in 1 .. n : k < l => at[k] < at[l]
       /\ \A i \in DOMAIN rx : Dst[rx[i].pkt] = t => \E k \in 1 .. n : at[k] = i
  BY DEF Splits
<1> HIDE DEF R, S
<1>9. \A k \in 1 .. n : at[k] \in 1 .. Len(rx)
  BY <1>3, <1>4
<1>10. n \in Nat /\ \A k \in 1 .. n : Len(have) + k \in 1 .. Len(s)
  BY <1>3
<1>6. DOMAIN R = 1 .. Len(rx) + 1 /\ DOMAIN S = 1 .. Len(s) + 1
  BY <1>1, <1>2
<1> HIDE DEF n
<1>5. n \in Nat /\ \A k \in 1 .. n : at[k] \in 1 .. Len(rx) /\ Len(have) + k \in 1 .. Len(s)
  BY <1>9, <1>10
<1>7. ASSUME Dst[a.pkt] = t PROVE Splits(t, S, have, R)
  <2> DEFINE m == n + 1
             to == [k \in 1 .. m |-> IF k = m THEN Len(rx) + 1 ELSE at[k]]
  <2>1. Len(S) - Len(have) = m /\ Len(have) <= Len(S)
    BY <1>2, <1>3 DEF n
  <2>2. to \in [1 .. m -> DOMAIN R]
    BY <1>3, <1>5, <1>6
  <2>3. to[m] = Len(rx) + 1 /\ \A k \in 1 .. n : to[k] = at[k]
    BY <1>5
  <2>4. \A k \in 1 .. m : k = m \/ k \in 1 .. n
    BY <1>5
  <2> HIDE DEF to
  <2>5. \A k \in 1 .. m : R[to[k]] = S[Len(have) + k]
    <3> SUFFICES ASSUME NEW k \in 1 .. m
                 PROVE  R[to[k]] = S[Len(have) + k]
      OBVIOUS
    <3>1. CASE k = m
      <4>1. Len(have) + k = Len(s) + 1
        BY <1>3, <3>1 DEF n
      <4> QED BY <1>1, <1>2, <2>3, <3>1, <4>1
    <3>2. CASE k \in 1 .. n
      <4>1. to[k] = at[k] /\ at[k] \in 1 .. Len(rx) /\ Len(have) + k \in 1 .. Len(s)
        BY <1>5, <2>3, <3>2
      <4>2. R[at[k]] = rx[at[k]] /\ S[Len(have) + k] = s[Len(have) + k]
        BY <1>1, <1>2, <4>1
      <4>3. rx[at[k]] = s[Len(have) + k]
        BY <1>4, <3>2
      <4> QED BY <4>1, <4>2, <4>3
    <3> QED BY <2>4, <3>1, <3>2
  <2>6. \A k, l \in 1 .. m : k < l => to[k] < to[l]
    <3> SUFFICES ASSUME NEW k \in 1 .. m, NEW l \in 1 .. m, k < l
                 PROVE  to[k] < to[l]
      OBVIOUS
    <3>1. k \in 1 .. n
      BY <1>5
    <3>2. CASE l = m
      BY <1>3, <1>5, <2>3, <3>1, <3>2
    <3>3. CASE l \in 1 .. n
      BY <1>4, <2>3, <3>1, <3>3
    <3> QED BY <2>4, <3>2, <3>3
  <2>7. \A i \in DOMAIN R : Dst[R[i].pkt] = t => \E k \in 1 .. m : to[k] = i
    <3> SUFFICES ASSUME NEW i \in DOMAIN R, Dst[R[i].pkt] = t
                 PROVE  \E k \in 1 .. m : to[k] = i
      OBVIOUS
    <3>1. CASE i = Len(rx) + 1
      <4>1. m \in 1 .. m
        BY <1>5
      <4> QED BY <2>3, <3>1, <4>1
    <3>2. CASE i # Len(rx) + 1
      <4>1. i \in DOMAIN rx /\ R[i] = rx[i]
        BY <1>1, <1>3, <1>6, <3>2
      <4>2. PICK k \in 1 .. n : at[k] = i
        BY <1>4, <4>1
      <4>3. k \in 1 .. m
        BY <1>5
      <4> QED BY <2>3, <4>2, <4>3
    <3> QED BY <3>1, <3>2
  <2>8. \A k \in DOMAIN have : have[k] = S[k]
    BY <1>2, <1>3
  <2> HIDE DEF m
  <2> QED BY <2>1, <2>2, <2>5, <2>6, <2>7, <2>8 DEF Splits
<1>8. ASSUME Dst[a.pkt] # t PROVE Splits(t, s, have, R)
  <2>1. Len(s) - Len(have) = n
    BY DEF n
  <2>2. at \in [1 .. n -> DOMAIN R]
    BY <1>3, <1>5, <1>6, <1>4
  <2>3. \A k \in 1 .. n : R[at[k]] = s[Len(have) + k]
    BY <1>1, <1>4, <1>5
  <2>4. \A i \in DOMAIN R : Dst[R[i].pkt] = t => i \in DOMAIN rx /\ R[i] = rx[i]
    BY <1>1, <1>3, <1>6, <1>8
  <2>5. \A i \in DOMAIN R : Dst[R[i].pkt] = t => \E k \in 1 .. n : at[k] = i
    BY <1>4, <2>4
  <2> QED BY <1>3, <1>4, <2>1, <2>2, <2>3, <2>5 DEF Splits
<1> QED BY <1>7, <1>8 DEF R, S

(* What a tile has or is about to take is a sequence of flits.              *)
LEMMA TakenTypes ==
  ASSUME BufferTypes, NEW t \in Tile
  PROVE  /\ OnLink(t) \in Seq(GoodFlit) /\ OnLink(t) \o buffer_to_tile[t] \in Seq(GoodFlit)
         /\ Taken(t) \in Seq(GoodFlit) /\ buffer_to_tile[t] \in Seq(GoodFlit)
         /\ received[t] \in Seq(GoodFlit) /\ buffer_rx[hub_for_tile[t]] \in Seq(GoodFlit)
<1>1. /\ received[t] \in Seq(GoodFlit) /\ buffer_to_tile[t] \in Seq(GoodFlit)
      /\ link_out[t] \in Seq(GoodFlit)
  BY DEF BufferTypes
<1>2. OnLink(t) \in Seq(GoodFlit)
  BY <1>1 DEF OnLink
<1>3. OnLink(t) \o buffer_to_tile[t] \in Seq(GoodFlit)
  BY <1>1, <1>2, ConcatProperties
<1>4. Taken(t) \in Seq(GoodFlit)
  BY <1>1, <1>3, ConcatProperties DEF Taken
<1>5. buffer_rx[hub_for_tile[t]] \in Seq(GoodFlit)
  BY Tiles DEF BufferTypes
<1> QED BY <1>1, <1>2, <1>3, <1>4, <1>5

(* Nothing on the receiving side moves.                                     *)
LEMMA SplitKept ==
  ASSUME NEW t \in Tile, NEW s, Split(t, s),
         UNCHANGED <<received, fresh, link_out, buffer_to_tile, buffer_rx>>
  PROVE  Split(t, s)'
<1>1. Taken(t)' = Taken(t)
  BY DEF Taken, OnLink
<1> QED BY <1>1 DEF Split

(* A router takes the flit from its link.                                   *)
LEMMA SplitTake ==
  ASSUME BufferTypes, Transit, NEW t \in Tile, TileRx(t), NEW u \in Tile \ refused', NEW s, Split(u, s)
  PROVE  Split(u, s)'
<1>1. UNCHANGED <<buffer_rx, buffer_to_tile, link_out>>
  BY DEF TileRx, rxVars
<1>2. fresh[t] /\ link_out[t] \in Seq(GoodFlit) /\ Len(link_out[t]) = 1
  BY DEF TileRx, Run, Transit, BufferTypes
<1>3. \/ /\ received' = [received EXCEPT ![t] = Append(@, link_out[t][1])]
         /\ fresh' = [fresh EXCEPT ![t] = FALSE] /\ refused' = refused
      \/ /\ received' = received /\ fresh' = fresh /\ refused' = refused \union {t}
  BY DEF TileRx
<1>4. Taken(u)' = Taken(u)
  <2>1. CASE u # t
    <3>1. received'[u] = received[u] /\ fresh'[u] = fresh[u]
      BY <1>3, <2>1 DEF BufferTypes
    <3> QED BY <1>1, <3>1 DEF Taken, OnLink
  <2>2. CASE u = t
    <3> DEFINE f == link_out[t][1]
               B == buffer_to_tile[t]
               R == received[t]
    <3>1. received'[t] = Append(R, f) /\ fresh'[t] = FALSE
      BY <1>3, <2>2 DEF BufferTypes
    <3>2. B \in Seq(GoodFlit) /\ R \in Seq(GoodFlit)
      BY DEF BufferTypes
    <3>3. link_out[t] = <<f>> /\ f \in GoodFlit
      BY <1>2
    <3>4. OnLink(t)' = <<>> /\ OnLink(t) = <<f>>
      BY <1>2, <3>1, <3>3 DEF OnLink
    <3>5. Taken(t)' = Append(R, f) \o (<<>> \o B) /\ Taken(t) = R \o (<<f>> \o B)
      BY <1>1, <3>1, <3>4 DEF Taken
    <3> HIDE DEF B, R, f
    <3>6. <<>> \o B = B
      BY <3>2, ConcatEmptySeq
    <3>7. Append(R, f) = R \o <<f>>
      BY <3>2, <3>3, AppendIsConcat
    <3>8. <<f>> \in Seq(GoodFlit)
      BY <3>3
    <3>9. (R \o <<f>>) \o B = R \o (<<f>> \o B)
      BY <3>2, <3>8, ConcatAssociative
    <3> QED BY <2>2, <3>5, <3>6, <3>7, <3>9
  <2> QED BY <2>1, <2>2
<1> QED BY <1>1, <1>4 DEF Split

(* An edge of antennaToTileProcess: what it moves stays in order.           *)
LEMMA SplitDeliver ==
  ASSUME BufferTypes, Transit, NEW h \in Hub, AntennaToTileProcess(h), NEW u \in Tile \ refused,
         NEW s \in Seq(GoodFlit), Whole(u, s), Split(u, s)
  PROVE  Split(u, s)'
<1> DEFINE drives(t) == t \in Attached(h) /\ buffer_to_tile[t] # <<>>
           kept(t) == IF drives(t) THEN Tail(buffer_to_tile[t]) ELSE buffer_to_tile[t]
           front == Head(buffer_rx[h])
           moves == buffer_rx[h] # <<>> /\ Len(kept(Dst[front.pkt])) < ToTileDepth
           R == received[u]
<1>1. received' = received
  BY DEF AntennaToTileProcess
<1>2. <<4, h>> \in todo /\ \A t \in Tile : <<2, t>> \notin todo
  <2>1. <<4, h>> \in todo /\ \A q \in todo : ~Before(q, <<4, h>>)
    BY DEF AntennaToTileProcess, Run
  <2>2. \A t \in Tile : Before(<<2, t>>, <<4, h>>)
    BY DEF Before
  <2> QED BY <2>1, <2>2
<1>3. /\ link_out'[u] = IF drives(u) THEN <<Head(buffer_to_tile[u])>> ELSE link_out[u]
      /\ fresh'[u] = IF drives(u) THEN ~fresh[u] ELSE fresh[u]
      /\ buffer_to_tile'[u] =
           IF moves /\ u = Dst[front.pkt] THEN Append(kept(u), front) ELSE kept(u)
      /\ buffer_rx' = [buffer_rx EXCEPT ![h] = IF moves THEN Tail(@) ELSE @]
  BY DEF AntennaToTileProcess
<1>4. /\ R \in Seq(GoodFlit) /\ buffer_to_tile[u] \in Seq(GoodFlit)
      /\ buffer_rx[h] \in Seq(GoodFlit) /\ buffer_rx[hub_for_tile[u]] \in Seq(GoodFlit)
      /\ Taken(u) \in Seq(GoodFlit)
  BY TakenTypes DEF BufferTypes
<1>5. kept(u) \in Seq(GoodFlit)
  <2>1. CASE drives(u)
    BY <1>4, <2>1, HeadTailProperties
  <2>2. CASE ~drives(u)
    BY <1>4, <2>2
  <2> QED BY <2>1, <2>2
<1>6. moves => front \in GoodFlit /\ front = buffer_rx[h][1] /\ hub_for_tile[Dst[front.pkt]] = h
  <2> SUFFICES ASSUME moves
               PROVE  front \in GoodFlit /\ front = buffer_rx[h][1] /\ hub_for_tile[Dst[front.pkt]] = h
    OBVIOUS
  <2>1. buffer_rx[h] # <<>> /\ 1 \in DOMAIN buffer_rx[h] /\ front = buffer_rx[h][1]
    BY <1>4
  <2> QED BY <1>4, <2>1 DEF Transit
(* Driving a flit onto the link moves it within what the tile will get.     *)
<1>7. OnLink(u)' \o kept(u) = OnLink(u) \o buffer_to_tile[u] /\ OnLink(u)' \in Seq(GoodFlit)
  <2>1. CASE drives(u)
    <3>1. hub_for_tile[u] = h
      BY <2>1, Tiles
    <3>2. fresh[u] = FALSE
      BY <1>2, <3>1 DEF Transit, BufferTypes
    <3>3. OnLink(u)' = <<Head(buffer_to_tile[u])>> /\ OnLink(u) = <<>>
      BY <1>3, <2>1, <3>2 DEF OnLink
    <3>4. buffer_to_tile[u] # <<>>
      BY <2>1
    <3> DEFINE B == buffer_to_tile[u]
    <3>5. Head(B) \in GoodFlit
      BY <1>4, <3>4
    <3>6. B = <<Head(B)>> \o Tail(B)
      BY <1>4, <3>4, SMTT(30)
    <3>7. <<>> \o B = B
      BY <1>4, ConcatEmptySeq
    <3>8. <<Head(B)>> \in Seq(GoodFlit)
      BY <3>5
    <3> QED BY <2>1, <3>3, <3>6, <3>7, <3>8
  <2>2. CASE ~drives(u)
    <3>1. OnLink(u)' = OnLink(u)
      BY <1>3, <2>2 DEF OnLink
    <3> QED BY <2>2, <3>1, TakenTypes
  <2> QED BY <2>1, <2>2
<1>8. CASE moves /\ u = Dst[front.pkt]
  <2>1. hub_for_tile[u] = h
    BY <1>6, <1>8
  <2>2. Taken(u)' = R \o (OnLink(u)' \o Append(kept(u), front))
    BY <1>1, <1>3, <1>8 DEF Taken
  <2>3. Taken(u) = R \o (OnLink(u)' \o kept(u))
    BY <1>7 DEF Taken
  <2>4. front \in GoodFlit /\ front = buffer_rx[h][1] /\ buffer_rx[h] # <<>>
    BY <1>6, <1>8
  <2>5. buffer_rx'[h] = Tail(buffer_rx[h])
    BY <1>3, <1>8 DEF BufferTypes
  <2> DEFINE K == kept(u)
             O == OnLink(u)'
  <2>6. K \in Seq(GoodFlit) /\ O \in Seq(GoodFlit) /\ R \in Seq(GoodFlit) /\ front \in GoodFlit
    BY <1>4, <1>5, <1>7, <2>4
  <2>7. Taken(u)' = Append(Taken(u), front)
    <3> HIDE DEF K, O, R, front
    <3>1. <<front>> \in Seq(GoodFlit) /\ O \o K \in Seq(GoodFlit)
      BY <2>6, ConcatProperties
    <3>2. R \o (O \o K) \in Seq(GoodFlit)
      BY <2>6, <3>1, ConcatProperties
    <3>3. Append(K, front) = K \o <<front>>
      BY <2>6, AppendIsConcat
    <3>4. Append(R \o (O \o K), front) = (R \o (O \o K)) \o <<front>>
      BY <2>6, <3>2, AppendIsConcat
    <3>5. O \o (K \o <<front>>) = (O \o K) \o <<front>>
      BY <2>6, <3>1, ConcatAssociative
    <3>6. R \o ((O \o K) \o <<front>>) = (R \o (O \o K)) \o <<front>>
      BY <2>6, <3>1, ConcatAssociative
    <3>7. R \o (O \o Append(K, front)) = Append(R \o (O \o K), front)
      BY <3>3, <3>4, <3>5, <3>6
    <3> QED BY <2>2, <2>3, <3>7 DEF K, O
  <2>8. Splits(u, s, Append(Taken(u), front), Tail(buffer_rx[h]))
    <3>1. Splits(u, s, Taken(u), buffer_rx[h])
      BY <2>1 DEF Split
    <3>2. \A j \in DOMAIN s : Dst[s[j].pkt] = u
      BY DEF Whole
    <3>3. Dst[buffer_rx[h][1].pkt] = u
      BY <1>8, <2>4
    <3> HIDE DEF front
    <3> QED BY <1>4, <2>4, <3>1, <3>2, <3>3, SplitsTail
  <2>9. Splits(u, s, Taken(u)', buffer_rx'[hub_for_tile[u]])
    BY <2>1, <2>5, <2>7, <2>8
  <2> QED BY <2>9 DEF Split
<1>9. CASE moves /\ u # Dst[front.pkt] /\ hub_for_tile[u] = h
  <2>1. Taken(u)' = Taken(u)
    BY <1>1, <1>3, <1>7, <1>9 DEF Taken
  <2>2. front = buffer_rx[h][1] /\ buffer_rx[h] # <<>>
    BY <1>6, <1>9
  <2>3. buffer_rx'[h] = Tail(buffer_rx[h])
    BY <1>3, <1>9 DEF BufferTypes
  <2>4. Splits(u, s, Taken(u), Tail(buffer_rx[h]))
    <3>1. Splits(u, s, Taken(u), buffer_rx[h])
      BY <1>9 DEF Split
    <3>2. \A j \in DOMAIN s : Dst[s[j].pkt] = u
      BY DEF Whole
    <3>3. Dst[buffer_rx[h][1].pkt] # u
      BY <1>9, <2>2
    <3> QED BY <1>4, <2>2, <3>1, <3>2, <3>3, SplitsTail
  <2>5. Splits(u, s, Taken(u)', buffer_rx'[hub_for_tile[u]])
    BY <1>9, <2>1, <2>3, <2>4
  <2> QED BY <2>5 DEF Split
<1>10. CASE ~moves \/ hub_for_tile[u] # h
  <2>1. buffer_to_tile'[u] = kept(u)
    BY <1>3, <1>6, <1>10
  <2>2. Taken(u)' = Taken(u)
    BY <1>1, <1>7, <2>1 DEF Taken
  <2>3. buffer_rx'[hub_for_tile[u]] = buffer_rx[hub_for_tile[u]]
    BY <1>3, <1>10, Tiles DEF BufferTypes
  <2>4. Splits(u, s, Taken(u)', buffer_rx'[hub_for_tile[u]])
    BY <2>2, <2>3 DEF Split
  <2> QED BY <2>4 DEF Split
<1> QED BY <1>6, <1>8, <1>9, <1>10

(* Steps that leave the receiving side alone.                               *)
LEMMA LinesKept ==
  ASSUME NEW e \in [Tile -> Seq(GoodFlit)], NEW owner, LinesInv(e, owner),
         SourceInv(e, owner)', BufferTypes', Transit',
         UNCHANGED <<received, fresh, link_out, buffer_to_tile, buffer_rx, refused>>
  PROVE  LinesAgree'
<1>1. \A t \in Tile \ refused' : Split(t, e[t])'
  BY SplitKept DEF LinesInv
<1>2. LinesInv(e, owner)'
  BY <1>1 DEF LinesInv
<1> QED BY <1>2 DEF LinesAgree

(* The end of a transmission: the flit is accepted or stays.                *)
LEMMA LinesTransmit ==
  ASSUME NEW e \in [Tile -> Seq(GoodFlit)], NEW owner, LinesInv(e, owner),
         NEW h \in Hub, Transmitted(h)
  PROVE  LinesAgree'
<1>0. PICK f : f = buffer_tx[h][1]
  OBVIOUS
<1> DEFINE t0 == Dst[f.pkt]
           d == hub_for_tile[t0]
<1>1. BufferTypes /\ Transit /\ SourceInv(e, owner)
  BY DEF LinesInv
<1>2. BufferTypes' /\ Transit' /\ buffer_tx[h] # <<>>
  BY <1>1, TypesTransmit
<1>3. buffer_tx[h] \in Seq(GoodFlit) /\ f \in GoodFlit /\ Head(buffer_tx[h]) = f
  <2>1. buffer_tx[h] \in Seq(GoodFlit)
    BY <1>1 DEF BufferTypes
  <2> QED BY <1>0, <1>2, <2>1
<1>4. t0 \in Tile /\ d \in Hub
  <2>1. t0 \in Tile
    BY <1>3, FlitFacts
  <2> QED BY <2>1, Tiles
<1>5. UNCHANGED <<queue, sent, link_in, buffer_from_tile, buffer_to_tile, received, refused,
                  link_out, fresh, tile2antenna_reservation>>
  BY DEF Transmitted, tileVars, portVars, fromVars
<1>6. \A u \in Tile : Line(u)' = Line(u)
  BY <1>5 DEF Line
<1>7. /\ buffer_tx' = [buffer_tx EXCEPT ![h] = AfterTransport(h)]
      /\ buffer_rx' = IF Accepted(f) THEN [buffer_rx EXCEPT ![d] = Append(@, f)] ELSE buffer_rx
      /\ antenna2tile_reservation' =
           CASE Accepted(f) /\ IsHead(f) -> antenna2tile_reservation \union {t0}
             [] Accepted(f) /\ IsTail(f) -> antenna2tile_reservation \ {t0}
             [] OTHER -> antenna2tile_reservation
  BY <1>3 DEF Transmitted
<1>8. CASE Accepted(f)
  <2>0. PICK e2 : e2 = [e EXCEPT ![t0] = Append(@, f)]
    OBVIOUS
  <2>1. buffer_tx' = [buffer_tx EXCEPT ![h] = Tail(@)]
    BY <1>3, <1>7, <1>8 DEF AfterTransport
  <2>2. IsHead(f) => t0 \notin antenna2tile_reservation
    BY <1>8 DEF Accepted
  <2>3. /\ IsHead(f) => antenna2tile_reservation' = antenna2tile_reservation \union {t0}
        /\ ~IsHead(f) /\ IsTail(f) =>
             antenna2tile_reservation' = antenna2tile_reservation \ {t0}
        /\ ~IsHead(f) /\ ~IsTail(f) => antenna2tile_reservation' = antenna2tile_reservation
    <3>1. ~(IsHead(f) /\ IsTail(f))
      BY DEF IsHead, IsTail
    <3> QED BY <1>7, <1>8, <3>1
  <2>4. SourceInv(e2, owner)' /\ e2 \in [Tile -> Seq(GoodFlit)]
    <3>1. UNCHANGED <<queue, sent, tile2antenna_reservation>>
      BY <1>5
    <3> QED BY <1>0, <1>1, <1>2, <1>6, <2>0, <2>1, <2>2, <2>3, <3>1, SourceAccepts
  <2>5. /\ e2[t0] = Append(e[t0], f) /\ (\A t \in Tile : t # t0 => e2[t] = e[t])
        /\ e[t0] \in Seq(GoodFlit)
    BY <1>4, <2>0
  <2>6. /\ buffer_rx'[d] = Append(buffer_rx[d], f)
        /\ \A g \in Hub : g # d => buffer_rx'[g] = buffer_rx[g]
    BY <1>1, <1>4, <1>7, <1>8 DEF BufferTypes
  <2>7. \A t \in Tile : Taken(t)' = Taken(t)
    BY <1>5 DEF Taken, OnLink
  <2>8. \A t \in Tile \ refused' : Split(t, e2[t])'
    <3> SUFFICES ASSUME NEW t \in Tile \ refused
                 PROVE  Splits(t, e2[t], Taken(t), buffer_rx'[hub_for_tile[t]])
      <4>1. refused' = refused
        BY <1>5
      <4>2. \A t \in Tile : Split(t, e2[t])' <=>
              Splits(t, e2[t], Taken(t)', buffer_rx'[hub_for_tile[t]])
        BY DEF Split
      <4> QED BY <2>7, <4>1, <4>2
    <3>1. Splits(t, e[t], Taken(t), buffer_rx[hub_for_tile[t]])
      BY DEF LinesInv, Split
    <3>2. /\ Taken(t) \in Seq(GoodFlit) /\ buffer_rx[hub_for_tile[t]] \in Seq(GoodFlit)
          /\ e[t] \in Seq(GoodFlit) /\ hub_for_tile[t] \in Hub
      BY <1>1, TakenTypes, Tiles
    <3>3. CASE t = t0
      <4>1. Splits(t, Append(e[t0], f), Taken(t), Append(buffer_rx[d], f))
        BY <1>3, <3>1, <3>2, <3>3, SplitsAppend
      <4> QED BY <2>5, <2>6, <3>3, <4>1
    <3>4. CASE t # t0 /\ hub_for_tile[t] = d
      <4>1. Splits(t, e[t], Taken(t), Append(buffer_rx[d], f))
        BY <1>3, <3>1, <3>2, <3>4, SplitsAppend
      <4> QED BY <2>5, <2>6, <3>4, <4>1
    <3>5. CASE hub_for_tile[t] # d
      <4>1. t # t0
        BY <3>5
      <4> QED BY <2>5, <2>6, <3>1, <3>2, <3>5, <4>1
    <3> QED BY <3>3, <3>4, <3>5
  <2>9. LinesInv(e2, owner)'
    BY <1>2, <2>4, <2>8 DEF LinesInv
  <2> QED BY <2>4, <2>9 DEF LinesAgree
<1>9. CASE ~Accepted(f)
  <2>1. AfterTransport(h) = buffer_tx[h]
    BY <1>3, <1>9 DEF AfterTransport
  <2>2. buffer_tx' = buffer_tx
    BY <1>1, <1>7, <2>1 DEF BufferTypes
  <2>3. buffer_rx' = buffer_rx /\ antenna2tile_reservation' = antenna2tile_reservation
    BY <1>7, <1>9
  <2>4. SourceInv(e, owner)'
    BY <1>1, <1>5, <1>6, <2>2, <2>3, SourceKept
  <2> QED BY <1>2, <1>5, <2>3, <2>4, LinesKept
<1> QED BY <1>8, <1>9

(* Nothing is accepted yet; who makes a packet is its owner.                *)
LEMMA LinesInit == Init => LinesAgree
<1> SUFFICES ASSUME Init PROVE LinesAgree
  OBVIOUS
<1> DEFINE e == [t \in Tile |-> <<>>]
           owner == [p \in Packet |-> CHOOSE u \in Tile : \E k \in DOMAIN queue[u] : queue[u][k] = p]
<1>1. /\ queue \in Traffic /\ sent = [t \in Tile |-> 0]
      /\ link_in = [t \in Tile |-> <<>>] /\ buffer_from_tile = [t \in Tile |-> <<>>]
      /\ buffer_tx = [h \in Hub |-> <<>>] /\ buffer_rx = [h \in Hub |-> <<>>]
      /\ buffer_to_tile = [t \in Tile |-> <<>>] /\ received = [t \in Tile |-> <<>>]
      /\ link_out = [t \in Tile |-> <<>>] /\ fresh = [t \in Tile |-> FALSE] /\ refused = {}
      /\ tile2antenna_reservation = [h \in Hub |-> NOT_RESERVED]
      /\ antenna2tile_reservation = {} /\ cycles_left = [h \in Hub |-> 0] /\ todo = Processes
  BY DEF Init
<1>2. queue \in [Tile -> Seq(Packet)]
  BY <1>1, HubAssumption
<1>3. /\ \A s \in Seq(GoodFlit) : s = <<>> => Len(s) = 0 /\ DOMAIN s = {}
      /\ <<>> \in Seq(GoodFlit) /\ Len(<<>>) = 0 /\ DOMAIN <<>> = {}
  OBVIOUS
<1>4. e \in [Tile -> Seq(GoodFlit)] /\ \A t \in Tile : e[t] = <<>>
  BY <1>3
<1> HIDE DEF e
<1>5. BufferTypes
  BY <1>1, <1>2, <1>3 DEF BufferTypes
<1>6. Transit
  <2>1. \A t \in Tile : <<2, t>> \notin todo
    BY <1>1 DEF Processes
  <2> QED BY <1>1, <2>1 DEF Transit
<1>7. \A u \in Tile : Line(u) = <<>> /\ sent[u] = 0 /\ ~IsMid(u)
  <2>1. \A u \in Tile : Line(u) = <<>>
    <3>1. <<>> \o <<>> = <<>>
      OBVIOUS
    <3> QED BY <1>1, <3>1 DEF Line
  <2> QED BY <1>1, <2>1 DEF IsMid
<1>8. \A s : s = <<>> => Chained(s) /\ \A p : ~Holds(s, p)
  BY <1>3 DEF Chained, Holds
<1>9. \A h \in Hub : \A u \in Attached(h) : u \in Tile
  BY Tiles
<1>10. Generated
  BY <1>7, <1>8 DEF Generated
<1>11. Reserving
  BY <1>7 DEF Reserving
<1>12. Transmitting
  BY <1>1, <1>8 DEF Transmitting
<1>13. Accepting(e)
  BY <1>1, <1>4, <1>7, <1>9 DEF Accepting
<1>14. \A u \in Tile : \A k \in DOMAIN queue[u] :
         queue[u][k] \in Packet /\ Dst[queue[u][k]] \in Tile /\ owner[queue[u][k]] = u
  <2> SUFFICES ASSUME NEW u \in Tile, NEW k \in DOMAIN queue[u]
               PROVE  queue[u][k] \in Packet /\ Dst[queue[u][k]] \in Tile /\ owner[queue[u][k]] = u
    OBVIOUS
  <2> DEFINE p == queue[u][k]
             Sender(v) == \E l \in DOMAIN queue[v] : queue[v][l] = p
  <2>1. p \in Packet
    BY <1>2
  <2>2. \A v \in Tile : Sender(v) => v = u
    BY <1>1, TrafficAssumption
  <2>3. Sender(u)
    OBVIOUS
  <2>4. owner[p] = CHOOSE v \in Tile : Sender(v)
    BY <2>1
  <2> HIDE DEF Sender, owner
  <2>5. owner[p] = u
    BY <2>2, <2>3, <2>4
  <2> QED BY <2>1, <2>5, FlitFacts
<1> HIDE DEF owner
<1>15. Owned(owner)
  BY <1>1, <1>3, <1>7, <1>14 DEF Owned
<1>16. Once(e)
  <2>1. \A u \in Tile : \A k, l \in DOMAIN queue[u] : queue[u][k] = queue[u][l] => k = l
    BY <1>1, TrafficAssumption
  <2>2. \A u \in Tile : \A k \in DOMAIN queue[u] :
          /\ ~Holds(Line(u), queue[u][k])
          /\ ~Holds(buffer_tx[hub_for_tile[u]], queue[u][k])
          /\ ~Holds(e[Dst[queue[u][k]]], queue[u][k])
    <3> SUFFICES ASSUME NEW u \in Tile, NEW k \in DOMAIN queue[u]
                 PROVE  /\ ~Holds(Line(u), queue[u][k])
                        /\ ~Holds(buffer_tx[hub_for_tile[u]], queue[u][k])
                        /\ ~Holds(e[Dst[queue[u][k]]], queue[u][k])
      OBVIOUS
    <3>1. hub_for_tile[u] \in Hub /\ Dst[queue[u][k]] \in Tile
      BY <1>14, Tiles
    <3>2. buffer_tx[hub_for_tile[u]] = <<>>
      BY <1>1, <3>1
    <3>3. e[Dst[queue[u][k]]] = <<>>
      BY <1>4, <3>1
    <3>4. Line(u) = <<>>
      BY <1>7
    <3> QED BY <1>8, <3>2, <3>3, <3>4
  <2>3. \A u \in Tile : DOMAIN Line(u) = {}
    BY <1>3, <1>7
  <2>4. \A h \in Hub : DOMAIN buffer_tx[h] = {}
    BY <1>1, <1>3
  <2> QED BY <2>1, <2>2, <2>3, <2>4 DEF Once
<1>17. \A t \in Tile : Whole(t, e[t])
  BY <1>3, <1>4, <1>8 DEF Whole
<1>18. \A t \in Tile : Split(t, e[t])
  <2> SUFFICES ASSUME NEW t \in Tile PROVE Split(t, e[t])
    OBVIOUS
  <2>1. Taken(t) = <<>>
    <3>1. OnLink(t) = <<>> /\ buffer_to_tile[t] = <<>> /\ received[t] = <<>>
      BY <1>1 DEF OnLink
    <3>2. <<>> \o (<<>> \o <<>>) = <<>>
      OBVIOUS
    <3> QED BY <3>1, <3>2 DEF Taken
  <2>2. buffer_rx[hub_for_tile[t]] = <<>>
    BY <1>1, Tiles
  <2>3. ASSUME NEW z, z = <<>> PROVE Splits(t, z, z, z)
    <3> DEFINE at == [k \in 1 .. Len(z) - Len(z) |-> 0]
    <3>1. Len(z) = 0 /\ DOMAIN z = {} /\ 1 .. Len(z) - Len(z) = {} /\ Len(z) <= Len(z)
      BY <1>3, <2>3
    <3>2. at \in [1 .. Len(z) - Len(z) -> DOMAIN z]
      BY <3>1
    <3> HIDE DEF at
    <3> QED BY <3>1, <3>2 DEF Splits
  <2> QED BY <1>4, <2>1, <2>2, <2>3 DEF Split
<1>19. LinesInv(e, owner)
  BY <1>5, <1>6, <1>10, <1>11, <1>12, <1>13, <1>15, <1>16, <1>17, <1>18 DEF LinesInv, SourceInv
<1> QED BY <1>4, <1>19 DEF LinesAgree

(* Every step keeps the lines.                                              *)
LEMMA LinesStep ==
  ASSUME IInv, LinesAgree, [Next]_vars
  PROVE  LinesAgree'
<1>0. PICK e \in [Tile -> Seq(GoodFlit)] : \E owner : LinesInv(e, owner)
  BY DEF LinesAgree
<1>1. PICK owner : LinesInv(e, owner)
  BY <1>0
<1>2. BufferTypes /\ Transit /\ SourceInv(e, owner)
  BY <1>1 DEF LinesInv
<1>3. CASE UpdateTokens
  <2>1. UNCHANGED <<queue, sent, link_in, buffer_from_tile, buffer_tx, buffer_rx, buffer_to_tile,
                    received, link_out, fresh, refused, tile2antenna_reservation,
                    antenna2tile_reservation>>
    BY <1>3 DEF UpdateTokens, tileVars, portVars, fromVars, radioVars, rxVars
  <2>2. SourceInv(e, owner)'
    BY <1>2, <2>1, SourceKept DEF Line
  <2>3. BufferTypes' /\ Transit'
    BY <1>2, <1>3, TypesPass
  <2> QED BY <1>1, <2>1, <2>2, <2>3, LinesKept
<1>4. ASSUME NEW t \in Tile, TileTx(t) PROVE LinesAgree'
  <2>1. UNCHANGED <<received, fresh, link_out, buffer_to_tile, buffer_rx, refused>>
    BY <1>4 DEF TileTx, portVars, rxVars
  <2>2. SourceInv(e, owner)'
    BY <1>2, <1>4, SourceGenerates
  <2>3. BufferTypes' /\ Transit'
    BY <1>2, <1>4, TypesSend
  <2> QED BY <1>1, <2>1, <2>2, <2>3, LinesKept
<1>5. ASSUME NEW t \in Tile, TileRx(t) PROVE LinesAgree'
  <2>1. UNCHANGED <<queue, sent, link_in, buffer_from_tile, buffer_tx, tile2antenna_reservation,
                    antenna2tile_reservation>>
    BY <1>5 DEF TileRx, tileVars, fromVars, radioVars, rxVars
  <2>2. SourceInv(e, owner)'
    BY <1>2, <2>1, SourceKept DEF Line
  <2>3. BufferTypes' /\ Transit'
    BY <1>2, <1>5, TypesTake
  <2>4. refused \subseteq refused'
    BY <1>5 DEF TileRx
  <2>5. \A u \in Tile \ refused' : Split(u, e[u])'
    <3> SUFFICES ASSUME NEW u \in Tile \ refused' PROVE Split(u, e[u])'
      OBVIOUS
    <3>1. Split(u, e[u])
      BY <1>1, <2>4 DEF LinesInv
    <3> QED BY <1>2, <1>5, <3>1, SplitTake
  <2>6. LinesInv(e, owner)'
    BY <2>2, <2>3, <2>5 DEF LinesInv
  <2> QED BY <2>6 DEF LinesAgree
<1>6. ASSUME NEW h \in Hub, TileToAntennaProcess(h) PROVE LinesAgree'
  <2>1. UNCHANGED <<queue, sent, received, fresh, link_out, buffer_to_tile, buffer_rx, refused,
                    antenna2tile_reservation>>
    BY <1>6 DEF TileToAntennaProcess, portVars, rxVars
  <2>2. BufferTypes' /\ Transit'
    BY <1>2, <1>6, TypesCollect
  <2>3. SourceInv(e, owner)'
    <3>1. CASE /\ \A u \in Tile : Line(u)' = Line(u)
               /\ buffer_tx' = buffer_tx
               /\ tile2antenna_reservation' =
                    [tile2antenna_reservation EXCEPT ![h] = Reserved(h)]
      BY <1>2, <2>1, <3>1, SourceReserves
    <3>2. ASSUME NEW r \in Attached(h), r = Reserved(h), Line(r) # <<>>,
                 Line(r)' = Tail(Line(r)),
                 \A u \in Tile : u # r => Line(u)' = Line(u),
                 buffer_tx' = [buffer_tx EXCEPT ![h] = Append(@, Line(r)[1])],
                 tile2antenna_reservation' = [tile2antenna_reservation EXCEPT ![h] =
                   IF IsTail(Line(r)[1]) THEN NOT_RESERVED ELSE r]
          PROVE  SourceInv(e, owner)'
      BY <1>2, <2>1, <3>2, SourceMoves
    <3> QED BY <1>2, <1>6, <3>1, <3>2, LinesMove
  <2> QED BY <1>1, <2>1, <2>2, <2>3, LinesKept
<1>7. ASSUME NEW h \in Hub, AntennaToTileProcess(h) PROVE LinesAgree'
  <2>1. UNCHANGED <<queue, sent, link_in, buffer_from_tile, buffer_tx, tile2antenna_reservation,
                    antenna2tile_reservation, refused>>
    BY <1>7 DEF AntennaToTileProcess, tileVars, fromVars, radioVars
  <2>2. SourceInv(e, owner)'
    BY <1>2, <2>1, SourceKept DEF Line
  <2>3. BufferTypes' /\ Transit'
    BY <1>2, <1>7, TypesDeliver
  <2>4. \A u \in Tile \ refused' : Split(u, e[u])'
    <3> SUFFICES ASSUME NEW u \in Tile \ refused PROVE Split(u, e[u])'
      BY <2>1
    <3>1. Split(u, e[u]) /\ Whole(u, e[u]) /\ e[u] \in Seq(GoodFlit)
      BY <1>1 DEF LinesInv, SourceInv
    <3> QED BY <1>2, <1>7, <3>1, SplitDeliver
  <2>5. LinesInv(e, owner)'
    BY <2>2, <2>3, <2>4 DEF LinesInv
  <2> QED BY <2>5 DEF LinesAgree
<1>8. ASSUME NEW h \in Hub, Transmitted(h) PROVE LinesAgree'
  BY <1>1, <1>8, LinesTransmit
<1>9. CASE ClockEdge
  <2>1. UNCHANGED <<queue, sent, link_in, buffer_from_tile, buffer_tx, buffer_rx, buffer_to_tile,
                    received, link_out, fresh, refused, tile2antenna_reservation,
                    antenna2tile_reservation>>
    BY <1>9 DEF ClockEdge, tileVars, portVars, fromVars, rxVars
  <2>2. SourceInv(e, owner)'
    BY <1>2, <2>1, SourceKept DEF Line
  <2>3. BufferTypes' /\ Transit'
    BY <1>2, <1>9, TypesEdge
  <2> QED BY <1>1, <2>1, <2>2, <2>3, LinesKept
<1>10. CASE UNCHANGED vars
  <2>1. UNCHANGED <<queue, sent, link_in, buffer_from_tile, buffer_tx, buffer_rx, buffer_to_tile,
                    received, link_out, fresh, refused, tile2antenna_reservation,
                    antenna2tile_reservation, cycles_left, todo>>
    BY <1>10 DEF vars, tileVars, portVars, fromVars, radioVars, rxVars
  <2>2. SourceInv(e, owner)'
    BY <1>2, <2>1, SourceKept DEF Line
  <2>3. BufferTypes' /\ Transit'
    BY <1>2, <2>1 DEF BufferTypes, Transit
  <2> QED BY <1>1, <2>1, <2>2, <2>3, LinesKept
<1> QED BY <1>3, <1>4, <1>5, <1>6, <1>7, <1>8, <1>9, <1>10 DEF Next

(* What a tile has received is the first part of what was accepted for it.  *)
LEMMA LinesWhole == LinesAgree => PacketsWhole
<1> SUFFICES ASSUME LinesAgree, NEW t \in Tile \ refused
             PROVE  LET r == received[t] IN
                      /\ r # <<>> => IsHead(r[1])
                      /\ \A j \in DOMAIN r :
                           /\ Dst[r[j].pkt] = t
                           /\ j > 1 => Follows(r[j - 1], r[j])
                           /\ \A k \in DOMAIN r : r[j] = r[k] => j = k
  BY DEF PacketsWhole
<1>0. PICK e \in [Tile -> Seq(GoodFlit)] : \E owner : LinesInv(e, owner)
  BY DEF LinesAgree
<1>1. PICK owner : LinesInv(e, owner)
  BY <1>0
<1> DEFINE r == received[t]
           s == e[t]
<1>2. BufferTypes /\ Whole(t, s) /\ Split(t, s) /\ s \in Seq(GoodFlit)
  BY <1>1 DEF LinesInv, SourceInv
<1>3. r \in Seq(GoodFlit) /\ OnLink(t) \o buffer_to_tile[t] \in Seq(GoodFlit)
      /\ Taken(t) \in Seq(GoodFlit)
  BY <1>2, TakenTypes
<1>4. Len(r) \in Nat /\ Len(r) <= Len(Taken(t)) /\ \A k \in 1 .. Len(r) : Taken(t)[k] = r[k]
  <2> DEFINE b == OnLink(t) \o buffer_to_tile[t]
  <2>1. r \in Seq(GoodFlit) /\ b \in Seq(GoodFlit) /\ Taken(t) = r \o b
    BY <1>3 DEF Taken
  <2> HIDE DEF r, b
  <2>2. Len(r \o b) = Len(r) + Len(b) /\ Len(r) \in Nat /\ Len(b) \in Nat
        /\ \A k \in 1 .. Len(r) + Len(b) : (r \o b)[k] = IF k <= Len(r) THEN r[k] ELSE b[k - Len(r)]
    BY <2>1, ConcatProperties
  <2> QED BY <2>1, <2>2
<1>5. Len(Taken(t)) <= Len(s) /\ \A k \in DOMAIN Taken(t) : Taken(t)[k] = s[k]
  BY <1>2 DEF Split, Splits
<1>6. DOMAIN r = 1 .. Len(r) /\ DOMAIN s = 1 .. Len(s) /\ Len(s) \in Nat /\ Len(Taken(t)) \in Nat
      /\ DOMAIN Taken(t) = 1 .. Len(Taken(t))
  BY <1>2, <1>3
<1>7. \A k \in DOMAIN r : k \in DOMAIN s /\ r[k] = s[k]
  BY <1>4, <1>5, <1>6
<1>8. r # <<>> => 1 \in DOMAIN r /\ s # <<>>
  <2> SUFFICES ASSUME r # <<>> PROVE 1 \in DOMAIN r /\ s # <<>>
    OBVIOUS
  <2>1. 1 \in DOMAIN r
    BY <1>3
  <2>2. 1 \in DOMAIN s
    BY <1>7, <2>1
  <2> QED BY <2>1, <2>2
<1> HIDE DEF r, s
<1>9. r # <<>> => IsHead(r[1])
  BY <1>2, <1>7, <1>8 DEF Whole
<1>10. ASSUME NEW j \in DOMAIN r
       PROVE  /\ Dst[r[j].pkt] = t
              /\ j > 1 => Follows(r[j - 1], r[j])
              /\ \A k \in DOMAIN r : r[j] = r[k] => j = k
  <2>1. Dst[r[j].pkt] = t
    BY <1>2, <1>7 DEF Whole
  <2>2. \A k \in DOMAIN r : r[j] = r[k] => j = k
    BY <1>2, <1>7 DEF Whole
  <2>3. ASSUME j > 1 PROVE Follows(r[j - 1], r[j])
    <3>1. j - 1 \in DOMAIN r /\ j - 1 \in 1 .. Len(s) - 1 /\ (j - 1) + 1 = j
      BY <1>6, <1>7, <2>3
    <3>2. Follows(s[j - 1], s[(j - 1) + 1])
      BY <1>2, <3>1 DEF Whole, Chained
    <3> QED BY <1>7, <3>1, <3>2
  <2> QED BY <2>1, <2>2, <2>3
<1> QED BY <1>9, <1>10 DEF r

(* Every tile whose router always had room gets whole packets, in order and *)
(* each flit once, for any number of hubs, tiles and packets, any sizes of  *)
(* the buffers, and whatever the policy of the token.                       *)
THEOREM PacketsStayWhole == Spec => []PacketsWhole
<1>1. Init => LinesAgree
  BY LinesInit
<1>2. IInv /\ LinesAgree /\ [Next]_vars => LinesAgree'
  BY LinesStep
<1>3. LinesAgree => PacketsWhole
  BY LinesWhole
<1> QED BY <1>1, <1>2, <1>3, Invariance, PTL DEF Spec
=============================================================================
