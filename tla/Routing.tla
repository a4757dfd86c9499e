------------------------------- MODULE Routing -------------------------------
(***************************************************************************)
(* The mesh of snnNoxim and its routing algorithms: pure operators, no     *)
(* state.  A node is the coordinate pair <<x, y>> that id2Coord computes   *)
(* from its number; y grows to the SOUTH, as in Router::getNeighborId.     *)
(***************************************************************************)
EXTENDS Integers

CONSTANTS
  DimX,     \* GlobalParams::dim_x
  DimY      \* GlobalParams::dim_y

ASSUME MeshAssumption == DimX \in Nat \ {0} /\ DimY \in Nat \ {0}

Node == (0 .. DimX - 1) \X (0 .. DimY - 1)

(* The port numbers of a router (DataStructs.h / GlobalParams.h). *)
DIRECTION_NORTH == 0
DIRECTION_EAST  == 1
DIRECTION_SOUTH == 2
DIRECTION_WEST  == 3
DIRECTION_LOCAL == 4

Direction == {DIRECTION_NORTH, DIRECTION_EAST, DIRECTION_SOUTH, DIRECTION_WEST}
Port      == Direction \union {DIRECTION_LOCAL}

(* The direction in which the neighbour sees this router. *)
reflexDirection(d) ==
  CASE d = DIRECTION_NORTH -> DIRECTION_SOUTH
    [] d = DIRECTION_EAST  -> DIRECTION_WEST
    [] d = DIRECTION_SOUTH -> DIRECTION_NORTH
    [] d = DIRECTION_WEST  -> DIRECTION_EAST

(* The node one hop away; it is off the mesh where the code answers NOT_VALID. *)
getNeighborId(n, d) ==
  CASE d = DIRECTION_NORTH -> <<n[1], n[2] - 1>>
    [] d = DIRECTION_EAST  -> <<n[1] + 1, n[2]>>
    [] d = DIRECTION_SOUTH -> <<n[1], n[2] + 1>>
    [] d = DIRECTION_WEST  -> <<n[1] - 1, n[2]>>

HasNeighbor(n, d) == getNeighborId(n, d) \in Node

-----------------------------------------------------------------------------
(***************************************************************************)
(* Each algorithm answers the set of directions the selection strategy may *)
(* choose from, for a flit at cur with destination dst # cur.              *)
(***************************************************************************)

(* The vertical direction towards dst, {} on the same row. *)
Vertical(cur, dst) ==
  { d \in {DIRECTION_NORTH, DIRECTION_SOUTH} :
      IF d = DIRECTION_NORTH THEN dst[2] < cur[2] ELSE dst[2] > cur[2] }

Horizontal(cur, dst) ==
  { d \in {DIRECTION_EAST, DIRECTION_WEST} :
      IF d = DIRECTION_EAST THEN dst[1] > cur[1] ELSE dst[1] < cur[1] }

(* Slip: >= for >, so that a flit in its column still goes east.            *)
XY_GreaterOrEqual(cur, dst) ==
  IF dst[1] >= cur[1] THEN {DIRECTION_EAST} ELSE {DIRECTION_WEST}

(* Slip: towards the south west and north east the rows come first.         *)
XY_OneDiagonal(cur, dst) ==
  IF (dst[1] - cur[1]) * (dst[2] - cur[2]) < 0 \/ dst[1] = cur[1]
  THEN Vertical(cur, dst) ELSE Horizontal(cur, dst)

XY(cur, dst) ==
  IF dst[1] > cur[1]      THEN {DIRECTION_EAST}
  ELSE IF dst[1] < cur[1] THEN {DIRECTION_WEST}
  ELSE IF dst[2] > cur[2] THEN {DIRECTION_SOUTH}
  ELSE {DIRECTION_NORTH}

(* Slip: the way west is not taken first.                                   *)
WEST_FIRST_NotFirst(cur, dst) == Horizontal(cur, dst) \union Vertical(cur, dst)

WEST_FIRST(cur, dst) ==
  IF dst[1] <= cur[1] \/ dst[2] = cur[2]
  THEN XY(cur, dst)
  ELSE Vertical(cur, dst) \union {DIRECTION_EAST}

NORTH_LAST(cur, dst) ==
  IF dst[1] = cur[1] \/ dst[2] <= cur[2]
  THEN XY(cur, dst)
  ELSE {DIRECTION_SOUTH} \union Horizontal(cur, dst)

(* Slip: both negative directions are offered when one of them is needed.   *)
NEGATIVE_FIRST_Both(cur, dst) ==
  IF dst[1] < cur[1] \/ dst[2] > cur[2] THEN {DIRECTION_WEST, DIRECTION_SOUTH}
  ELSE Horizontal(cur, dst) \union Vertical(cur, dst)

NEGATIVE_FIRST(cur, dst) ==
  LET toward   == Horizontal(cur, dst) \union Vertical(cur, dst)
      negative == toward \intersect {DIRECTION_WEST, DIRECTION_SOUTH}
  IN  IF negative # {} THEN negative
      ELSE IF toward # {} THEN toward
      ELSE {DIRECTION_LOCAL}

(* Slips in ODD_EVEN: the way east is closed one column before any          *)
(* destination; the columns in which it may turn are the wrong ones.        *)
ODD_EVEN_Closed(cur, src, dst) ==
  IF dst[1] > cur[1] /\ dst[2] # cur[2]
  THEN (IF cur[1] % 2 = 1 \/ cur[1] = src[1] THEN Vertical(cur, dst) ELSE {})
         \union (IF dst[1] - cur[1] # 1 THEN {DIRECTION_EAST} ELSE {})
  ELSE XY(cur, dst)
ODD_EVEN_WrongColumns(cur, src, dst) ==
  IF dst[1] < cur[1] /\ cur[1] % 2 = 1
  THEN {DIRECTION_WEST} \union Vertical(cur, dst) ELSE XY(cur, dst)

(* Columns are counted from 0; src is where the packet was injected. *)
ODD_EVEN(cur, src, dst) ==
  LET e0 == dst[1] - cur[1]
      vertical == IF dst[2] < cur[2] THEN {DIRECTION_NORTH} ELSE {DIRECTION_SOUTH}
  IN  CASE e0 = 0 -> vertical
        [] e0 > 0 /\ dst[2] = cur[2] -> {DIRECTION_EAST}
        [] e0 > 0 /\ dst[2] # cur[2] ->
             (IF cur[1] % 2 = 1 \/ cur[1] = src[1] THEN vertical ELSE {})
               \union (IF dst[1] % 2 = 1 \/ e0 # 1 THEN {DIRECTION_EAST} ELSE {})
        [] e0 < 0 ->
             {DIRECTION_WEST}
               \union (IF cur[1] % 2 = 0 THEN Vertical(cur, dst) ELSE {})

(* routingAlgorithm->route, by the configured name.  DYAD keeps one of the  *)
(* directions of ODD_EVEN or both, so every choice of it is one of these.   *)
Algorithm == {"XY", "WEST_FIRST", "NORTH_LAST", "NEGATIVE_FIRST", "ODD_EVEN", "DYAD"}

routingFunction(alg, cur, src, dst) ==
  CASE alg = "XY"             -> XY(cur, dst)
    [] alg = "WEST_FIRST"     -> WEST_FIRST(cur, dst)
    [] alg = "NORTH_LAST"     -> NORTH_LAST(cur, dst)
    [] alg = "NEGATIVE_FIRST" -> NEGATIVE_FIRST(cur, dst)
    [] alg \in {"ODD_EVEN", "DYAD"} -> ODD_EVEN(cur, src, dst)

(* Router::route: the local port at the destination, else a candidate. *)
route(alg, cur, src, dst) ==
  IF dst = cur THEN {DIRECTION_LOCAL} ELSE routingFunction(alg, cur, src, dst)

-----------------------------------------------------------------------------
Abs(i) == IF i < 0 THEN -i ELSE i

(* The number of links of a shortest path. *)
Distance(a, b) == Abs(a[1] - b[1]) + Abs(a[2] - b[2])

(* Lexicographic order on triples of integers. *)
Before(r, s) ==
  \/ r[1] < s[1]
  \/ r[1] = s[1] /\ r[2] < s[2]
  \/ r[1] = s[1] /\ r[2] = s[2] /\ r[3] < s[3]

(***************************************************************************)
(* A numbering of the channels (node, output direction) for the algorithms *)
(* whose turn restriction is the same in every column.  If every hop goes  *)
(* from a channel to one of higher rank, the channels cannot wait for each *)
(* other in a cycle.                                                       *)
(***************************************************************************)
RankedAlgorithm == {"XY", "WEST_FIRST", "NORTH_LAST", "NEGATIVE_FIRST"}

Along(d, east, west, south, north) ==
  IF d = DIRECTION_EAST THEN east
  ELSE IF d = DIRECTION_WEST THEN west
  ELSE IF d = DIRECTION_SOUTH THEN south
  ELSE north

Rank(alg, n, d) ==
  LET x == n[1]
      y == n[2]
  IN  IF alg = "XY"
      THEN Along(d, <<0, x, 0>>, <<0, -x, 0>>, <<1, y, 0>>, <<1, -y, 0>>)
      ELSE IF alg = "WEST_FIRST"
      THEN Along(d, <<1, x, DimY>>, <<0, -x, 0>>, <<1, x, y>>, <<1, x, -y>>)
      ELSE IF alg = "NORTH_LAST"
      THEN Along(d, <<0, y, x>>, <<0, y, -x>>, <<0, y, DimX>>, <<1, -y, 0>>)
      ELSE Along(d, <<1, x - y, 0>>, <<0, y - x, 0>>, <<0, y - x, 0>>, <<1, x - y, 0>>)
=============================================================================
