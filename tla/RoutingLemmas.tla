---------------------------- MODULE RoutingLemmas ----------------------------
(***************************************************************************)
(* Facts about the routing operators, on a mesh of any size.               *)
(***************************************************************************)
EXTENDS Routing, TLAPS

LEMMA NodeCoordinates ==
  ASSUME NEW n \in Node
  PROVE  /\ n[1] \in 0 .. DimX - 1
         /\ n[2] \in 0 .. DimY - 1
         /\ n = <<n[1], n[2]>>
BY DEF Node

LEMMA NeighborCoordinates ==
  ASSUME NEW n \in Node, NEW d \in Direction
  PROVE  /\ getNeighborId(n, d) = <<getNeighborId(n, d)[1], getNeighborId(n, d)[2]>>
         /\ getNeighborId(n, d)[1] = IF d = DIRECTION_EAST THEN n[1] + 1
                                     ELSE IF d = DIRECTION_WEST THEN n[1] - 1 ELSE n[1]
         /\ getNeighborId(n, d)[2] = IF d = DIRECTION_SOUTH THEN n[2] + 1
                                     ELSE IF d = DIRECTION_NORTH THEN n[2] - 1 ELSE n[2]
BY DEF getNeighborId, Direction, DIRECTION_NORTH, DIRECTION_EAST, DIRECTION_SOUTH,
       DIRECTION_WEST

LEMMA Parity ==
  ASSUME NEW i \in Int
  PROVE  /\ i % 2 = 0 \/ i % 2 = 1
         /\ (i + 1) % 2 = 1 <=> i % 2 = 0
         /\ (i - 1) % 2 = 1 <=> i % 2 = 0
BY SMT

(* A hop "toward" dst: the direction reduces one coordinate difference.     *)
Toward(cur, dst) == Horizontal(cur, dst) \union Vertical(cur, dst)

LEMMA RouteToward ==
  ASSUME NEW a \in Algorithm, NEW cur \in Node, NEW s \in Node, NEW d \in Node, cur # d
  PROVE  /\ routingFunction(a, cur, s, d) # {}
         /\ routingFunction(a, cur, s, d) \subseteq Toward(cur, d)
<1> DEFINE c1 == cur[1]  c2 == cur[2]  d1 == d[1]  d2 == d[2]
<1>1. /\ c1 \in Int /\ c2 \in Int /\ d1 \in Int /\ d2 \in Int
      /\ c1 # d1 \/ c2 # d2
  BY NodeCoordinates, MeshAssumption
<1>2. XY(cur, d) # {} /\ XY(cur, d) \subseteq Toward(cur, d)
  BY <1>1 DEF XY, Toward, Horizontal, Vertical, DIRECTION_NORTH, DIRECTION_EAST,
              DIRECTION_SOUTH, DIRECTION_WEST
<1>3. ASSUME a = "ODD_EVEN" \/ a = "DYAD"
      PROVE  ODD_EVEN(cur, s, d) # {} /\ ODD_EVEN(cur, s, d) \subseteq Toward(cur, d)
  <2>1. CASE d1 = c1
    BY <1>1, <2>1 DEF ODD_EVEN, Toward, Horizontal, Vertical, DIRECTION_NORTH,
                      DIRECTION_EAST, DIRECTION_SOUTH, DIRECTION_WEST
  <2>2. CASE d1 > c1 /\ d2 = c2
    BY <1>1, <2>2 DEF ODD_EVEN, Toward, Horizontal, Vertical, DIRECTION_NORTH,
                      DIRECTION_EAST, DIRECTION_SOUTH, DIRECTION_WEST
  <2>3. CASE d1 > c1 /\ d2 # c2
    <3>1. d1 - c1 = 1 => (d1 % 2 = 1 \/ c1 % 2 = 1)
      BY <1>1, Parity
    <3> DEFINE vertical == IF d2 < c2 THEN {DIRECTION_NORTH} ELSE {DIRECTION_SOUTH}
               may      == c1 % 2 = 1 \/ c1 = s[1]
               must     == d1 % 2 = 1 \/ d1 - c1 # 1
    <3>2. ODD_EVEN(cur, s, d) = (IF may THEN vertical ELSE {})
                                  \union (IF must THEN {DIRECTION_EAST} ELSE {})
      BY <1>1, <2>3 DEF ODD_EVEN
    <3>3. may \/ must
      BY <3>1
    <3>4. vertical # {} /\ vertical \union {DIRECTION_EAST} \subseteq Toward(cur, d)
      BY <1>1, <2>3 DEF Toward, Horizontal, Vertical, DIRECTION_NORTH, DIRECTION_EAST,
                        DIRECTION_SOUTH, DIRECTION_WEST
    <3> HIDE DEF vertical, may, must
    <3> QED
      BY <3>2, <3>3, <3>4
  <2>4. CASE d1 < c1
    BY <1>1, <2>4 DEF ODD_EVEN, Toward, Horizontal, Vertical, DIRECTION_NORTH,
                      DIRECTION_EAST, DIRECTION_SOUTH, DIRECTION_WEST
  <2> QED
    BY <1>1, <2>1, <2>2, <2>3, <2>4
<1>4. WEST_FIRST(cur, d) # {} /\ WEST_FIRST(cur, d) \subseteq Toward(cur, d)
  BY <1>1, <1>2 DEF WEST_FIRST, Toward, Horizontal, Vertical, DIRECTION_NORTH,
              DIRECTION_EAST, DIRECTION_SOUTH, DIRECTION_WEST
<1>5. NORTH_LAST(cur, d) # {} /\ NORTH_LAST(cur, d) \subseteq Toward(cur, d)
  BY <1>1, <1>2 DEF NORTH_LAST, Toward, Horizontal, Vertical, DIRECTION_NORTH,
              DIRECTION_EAST, DIRECTION_SOUTH, DIRECTION_WEST
<1>6. NEGATIVE_FIRST(cur, d) # {} /\ NEGATIVE_FIRST(cur, d) \subseteq Toward(cur, d)
  BY <1>1, <1>2 DEF NEGATIVE_FIRST, Toward
<1> QED
  BY <1>2, <1>3, <1>4, <1>5, <1>6 DEF routingFunction, Algorithm

(* A hop toward the destination stays on the mesh, comes one link closer,   *)
(* and the reflex direction leads back.                                     *)
LEMMA HopToward ==
  ASSUME NEW cur \in Node, NEW d \in Node, NEW o \in Toward(cur, d)
  PROVE  /\ o \in Direction
         /\ getNeighborId(cur, o) \in Node
         /\ Distance(getNeighborId(cur, o), d) = Distance(cur, d) - 1
         /\ getNeighborId(getNeighborId(cur, o), reflexDirection(o)) = cur
<1> DEFINE next == getNeighborId(cur, o)
<1>1. /\ cur[1] \in 0 .. DimX - 1 /\ cur[2] \in 0 .. DimY - 1
      /\ d[1] \in 0 .. DimX - 1 /\ d[2] \in 0 .. DimY - 1
      /\ cur = <<cur[1], cur[2]>>
      /\ DimX \in Nat /\ DimY \in Nat
  BY NodeCoordinates, MeshAssumption
<1>2. o \in Direction
  BY DEF Toward, Horizontal, Vertical, Direction
<1>3. next[1] \in 0 .. DimX - 1 /\ next[2] \in 0 .. DimY - 1
  BY <1>1, <1>2, NeighborCoordinates
     DEF Toward, Horizontal, Vertical, Direction, DIRECTION_NORTH, DIRECTION_EAST,
         DIRECTION_SOUTH, DIRECTION_WEST
<1>4. next \in Node
  <2>1. next = <<next[1], next[2]>>
    BY <1>2, NeighborCoordinates
  <2> HIDE DEF next
  <2> QED
    BY <1>3, <2>1 DEF Node
<1>5. Distance(next, d) = Distance(cur, d) - 1
  BY <1>1, <1>2, NeighborCoordinates
     DEF Distance, Abs, Toward, Horizontal, Vertical, Direction, DIRECTION_NORTH,
         DIRECTION_EAST, DIRECTION_SOUTH, DIRECTION_WEST
<1>6. getNeighborId(next, reflexDirection(o)) = cur
  BY <1>1, <1>2 DEF getNeighborId, reflexDirection, Direction, DIRECTION_NORTH,
         DIRECTION_EAST, DIRECTION_SOUTH, DIRECTION_WEST
<1> QED
  BY <1>2, <1>4, <1>5, <1>6

LEMMA ZeroDistance ==
  ASSUME NEW cur \in Node, NEW d \in Node
  PROVE  Distance(cur, d) \in Nat
BY NodeCoordinates, MeshAssumption DEF Distance, Abs

-----------------------------------------------------------------------------
LEMMA RankXY ==
  ASSUME NEW n, NEW d
  PROVE  LET r == Rank("XY", n, d) IN
         /\ r[1] = Along(d, 0, 0, 1, 1)
         /\ r[2] = Along(d, n[1], -n[1], n[2], -n[2])
         /\ r[3] = 0
BY DEF Rank, Along

LEMMA RankWestFirst ==
  ASSUME NEW n, NEW d
  PROVE  LET r == Rank("WEST_FIRST", n, d) IN
         /\ r[1] = Along(d, 1, 0, 1, 1)
         /\ r[2] = Along(d, n[1], -n[1], n[1], n[1])
         /\ r[3] = Along(d, DimY, 0, n[2], -n[2])
BY DEF Rank, Along

LEMMA RankNorthLast ==
  ASSUME NEW n, NEW d
  PROVE  LET r == Rank("NORTH_LAST", n, d) IN
         /\ r[1] = Along(d, 0, 0, 0, 1)
         /\ r[2] = Along(d, n[2], n[2], n[2], -n[2])
         /\ r[3] = Along(d, n[1], -n[1], DimX, 0)
BY DEF Rank, Along

LEMMA RankNegativeFirst ==
  ASSUME NEW n, NEW d
  PROVE  LET r == Rank("NEGATIVE_FIRST", n, d) IN
         /\ r[1] = Along(d, 1, 0, 0, 1)
         /\ r[2] = Along(d, n[1] - n[2], n[2] - n[1], n[2] - n[1], n[1] - n[2])
         /\ r[3] = 0
BY DEF Rank, Along

(* The channel a flit leaves by ranks above the one it came by.             *)
LEMMA RankIncreases ==
  ASSUME NEW a \in RankedAlgorithm, NEW s \in Node, NEW d \in Node,
         NEW last \in Node, last # d,
         NEW o1 \in routingFunction(a, last, s, d),
         getNeighborId(last, o1) # d,
         NEW o2 \in routingFunction(a, getNeighborId(last, o1), s, d)
  PROVE  Before(Rank(a, last, o1), Rank(a, getNeighborId(last, o1), o2))
<1> DEFINE next == getNeighborId(last, o1)
<1>1. a \in Algorithm
  BY DEF RankedAlgorithm, Algorithm
<1>2. o1 \in Toward(last, d) /\ next \in Node
  BY <1>1, RouteToward, HopToward
<1>3. o2 \in Toward(next, d)
  BY <1>1, <1>2, RouteToward
<1>4. o1 \in Direction /\ o2 \in Direction
  BY <1>2, <1>3, HopToward
<1>5. /\ last[1] \in 0 .. DimX - 1 /\ last[2] \in 0 .. DimY - 1
      /\ d[1] \in 0 .. DimX - 1 /\ d[2] \in 0 .. DimY - 1
      /\ next[1] \in 0 .. DimX - 1 /\ next[2] \in 0 .. DimY - 1
      /\ DimX \in Nat /\ DimY \in Nat
      /\ next[1] # d[1] \/ next[2] # d[2]
      /\ last[1] # d[1] \/ last[2] # d[2]
  BY <1>2, NodeCoordinates, MeshAssumption
<1>6. /\ next[1] = IF o1 = DIRECTION_EAST THEN last[1] + 1
                   ELSE IF o1 = DIRECTION_WEST THEN last[1] - 1 ELSE last[1]
      /\ next[2] = IF o1 = DIRECTION_SOUTH THEN last[2] + 1
                   ELSE IF o1 = DIRECTION_NORTH THEN last[2] - 1 ELSE last[2]
  BY <1>4, NeighborCoordinates
<1> HIDE DEF next
<1>7. Before(Rank(a, last, o1), Rank(a, next, o2))
  <2>a. CASE a = "XY"
    <3>1. o1 \in XY(last, d) /\ o2 \in XY(next, d)
      BY <2>a DEF routingFunction, next
    <3> QED
      BY <3>1, <2>a, <1>4, <1>5, <1>6, RankXY
         DEF XY, Along, Before, Direction, DIRECTION_NORTH, DIRECTION_EAST,
             DIRECTION_SOUTH, DIRECTION_WEST
  <2>b. CASE a = "WEST_FIRST"
    <3>1. o1 \in WEST_FIRST(last, d) /\ o2 \in WEST_FIRST(next, d)
      BY <2>b DEF routingFunction, next
    <3> QED
      BY <3>1, <2>b, <1>4, <1>5, <1>6, RankWestFirst
         DEF WEST_FIRST, XY, Vertical, Along, Before, Direction, DIRECTION_NORTH,
             DIRECTION_EAST, DIRECTION_SOUTH, DIRECTION_WEST
  <2>c. CASE a = "NORTH_LAST"
    <3>1. o1 \in NORTH_LAST(last, d) /\ o2 \in NORTH_LAST(next, d)
      BY <2>c DEF routingFunction, next
    <3> QED
      BY <3>1, <2>c, <1>4, <1>5, <1>6, RankNorthLast
         DEF NORTH_LAST, XY, Horizontal, Along, Before, Direction, DIRECTION_NORTH,
             DIRECTION_EAST, DIRECTION_SOUTH, DIRECTION_WEST
  <2>d. CASE a = "NEGATIVE_FIRST"
    <3>1. o1 \in NEGATIVE_FIRST(last, d) /\ o2 \in NEGATIVE_FIRST(next, d)
      BY <2>d DEF routingFunction, next
    <3> QED
      BY <3>1, <2>d, <1>2, <1>3, <1>4, <1>5, <1>6, RankNegativeFirst
         DEF NEGATIVE_FIRST, Toward, Horizontal, Vertical, Along, Before, Direction,
             DIRECTION_NORTH, DIRECTION_EAST, DIRECTION_SOUTH, DIRECTION_WEST
  <2> QED
    BY <2>a, <2>b, <2>c, <2>d DEF RankedAlgorithm
<1> QED
  BY <1>7 DEF next
=============================================================================
