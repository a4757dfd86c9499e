---------------------------- MODULE RoutingProofs ----------------------------
(***************************************************************************)
(* What the routing algorithms guarantee on every mesh.                    *)
(***************************************************************************)
EXTENDS RoutingWalk, RoutingLemmas

(* The columns a flit may be in: between its source's and its destination's.*)
Within(c, s, d) == (s[1] <= c[1] /\ c[1] <= d[1]) \/ (d[1] <= c[1] /\ c[1] <= s[1])

LEMMA StaysWithin ==
  ASSUME NEW s \in Node, NEW d \in Node, NEW cur \in Node, Within(cur, s, d),
         NEW o \in Toward(cur, d)
  PROVE  Within(getNeighborId(cur, o), s, d)
BY HopToward, NodeCoordinates, NeighborCoordinates
   DEF Within, Toward, Horizontal, Vertical, Direction, DIRECTION_NORTH, DIRECTION_EAST,
       DIRECTION_SOUTH, DIRECTION_WEST

(* ODD_EVEN never offers the second half of a turn that its rule excludes.  *)
LEMMA NoForbiddenTurn ==
  ASSUME NEW s \in Node, NEW d \in Node, NEW last \in Node, last # d, Within(last, s, d),
         NEW o1 \in ODD_EVEN(last, s, d), getNeighborId(last, o1) # d,
         NEW o2 \in ODD_EVEN(getNeighborId(last, o1), s, d)
  PROVE  ~ForbiddenTurn(getNeighborId(last, o1)[1], o1, o2)
<1> DEFINE next == getNeighborId(last, o1)
<1>1. o1 \in Toward(last, d) /\ next \in Node
  BY RouteToward, HopToward DEF routingFunction, Algorithm
<1>2. o2 \in Toward(next, d)
  BY <1>1, RouteToward DEF routingFunction, Algorithm
<1>3. o1 \in Direction /\ o2 \in Direction
  BY <1>1, <1>2, HopToward
<1>4. /\ last[1] \in Int /\ last[2] \in Int /\ d[1] \in Int /\ d[2] \in Int
      /\ next[1] \in Int /\ next[2] \in Int /\ s[1] \in Int
      /\ next[1] # d[1] \/ next[2] # d[2]
  BY <1>1, NodeCoordinates, MeshAssumption
<1>5. /\ next[1] = IF o1 = DIRECTION_EAST THEN last[1] + 1
                   ELSE IF o1 = DIRECTION_WEST THEN last[1] - 1 ELSE last[1]
      /\ next[2] = IF o1 = DIRECTION_SOUTH THEN last[2] + 1
                   ELSE IF o1 = DIRECTION_NORTH THEN last[2] - 1 ELSE last[2]
  BY <1>3, NeighborCoordinates
<1>6. o2 \in ODD_EVEN(next, s, d)
  OBVIOUS
<1> HIDE DEF next
<1>7. ~(next[1] % 2 = 0 /\ o1 = DIRECTION_EAST /\ o2 \in {DIRECTION_NORTH, DIRECTION_SOUTH})
  <2> SUFFICES ASSUME next[1] % 2 = 0, o1 = DIRECTION_EAST,
                      o2 = DIRECTION_NORTH \/ o2 = DIRECTION_SOUTH
               PROVE  FALSE
    OBVIOUS
  <2>1. d[1] > last[1] /\ next[1] = last[1] + 1 /\ last[2] = next[2]
    BY <1>1, <1>4, <1>5 DEF Toward, Horizontal, Vertical, DIRECTION_NORTH,
       DIRECTION_EAST, DIRECTION_SOUTH, DIRECTION_WEST
  <2>2. s[1] <= last[1]
    BY <1>4, <2>1 DEF Within
  <2>3. next[1] % 2 # 1 /\ next[1] # s[1]
    BY <1>4, <2>1, <2>2
  <2>4. CASE next[1] = d[1]
    <3>1. d[1] % 2 # 1 /\ d[1] - last[1] = 1 /\ d[2] # last[2]
      BY <1>4, <2>1, <2>3, <2>4
    <3> QED
      BY <1>4, <3>1 DEF ODD_EVEN, DIRECTION_NORTH, DIRECTION_EAST, DIRECTION_SOUTH
  <2>5. CASE next[1] < d[1]
    BY <1>4, <1>6, <2>3, <2>5 DEF ODD_EVEN, DIRECTION_NORTH, DIRECTION_EAST, DIRECTION_SOUTH
  <2> QED
    BY <1>4, <2>1, <2>4, <2>5
<1>8. ~(next[1] % 2 = 1 /\ o1 \in {DIRECTION_NORTH, DIRECTION_SOUTH} /\ o2 = DIRECTION_WEST)
  <2> SUFFICES ASSUME next[1] % 2 = 1, o1 = DIRECTION_NORTH \/ o1 = DIRECTION_SOUTH,
                      o2 = DIRECTION_WEST
               PROVE  FALSE
    OBVIOUS
  <2>1. d[1] < next[1] /\ next[1] = last[1]
    BY <1>2, <1>4, <1>5 DEF Toward, Horizontal, Vertical, DIRECTION_NORTH,
       DIRECTION_EAST, DIRECTION_SOUTH, DIRECTION_WEST
  <2>2. last[1] % 2 # 0
    BY <2>1
  <2> QED
    BY <1>4, <2>1, <2>2 DEF ODD_EVEN, DIRECTION_NORTH, DIRECTION_WEST, DIRECTION_SOUTH
<1> QED
  BY <1>7, <1>8 DEF ForbiddenTurn, next

-----------------------------------------------------------------------------
(* The hop that led here was one of the candidates of the router before.    *)
CameByRoute ==
  dir_in # DIRECTION_LOCAL =>
    LET last == getNeighborId(pos, reflexDirection(dir_in))
    IN  /\ last \in Node /\ last # dst /\ Within(last, src, dst)
        /\ dir_in \in routingFunction(alg, last, src, dst)
        /\ getNeighborId(last, dir_in) = pos

(* The inductive invariant.  Minimal alone is not inductive: the distance   *)
(* drops by one only because the hop is toward the destination, and the     *)
(* order of two hops can only be told with the first one remembered.        *)
IInv == TypeOK /\ Minimal /\ Within(pos, src, dst) /\ CameByRoute

LEMMA InitIInv == Init => IInv
<1> SUFFICES ASSUME Init PROVE IInv
  OBVIOUS
<1>1. TypeOK
  BY DEF Init, TypeOK, Port
<1>2. Minimal
  BY <1>1, ZeroDistance DEF Init, Minimal, TypeOK
<1>3. Within(pos, src, dst) /\ CameByRoute
  BY <1>1, NodeCoordinates, MeshAssumption DEF Init, Within, CameByRoute, TypeOK
<1> QED
  BY <1>1, <1>2, <1>3 DEF IInv

(* What a step is: a hop by a candidate, from a router that is not the      *)
(* destination's.                                                           *)
LEMMA HopFacts ==
  ASSUME IInv, Hop
  PROVE  /\ alg \in Algorithm /\ pos # dst
         /\ dir_in' \in routingFunction(alg, pos, src, dst)
         /\ dir_in' \in Toward(pos, dst)
         /\ pos' = getNeighborId(pos, dir_in')
         /\ hop_no' = hop_no + 1
         /\ UNCHANGED <<alg, src, dst>>
<1>1. alg \in Algorithm /\ src \in Node /\ dst \in Node /\ pos \in Node
  BY AlgorithmsAssumption DEF IInv, TypeOK
<1>2. PICK o \in route(alg, pos, src, dst) \ {DIRECTION_LOCAL} :
        pos' = getNeighborId(pos, o) /\ dir_in' = o
  BY DEF Hop
<1>3. pos # dst /\ o \in routingFunction(alg, pos, src, dst)
  BY <1>2 DEF route
<1>4. o \in Toward(pos, dst)
  BY <1>1, <1>3, RouteToward
<1> QED
  BY <1>1, <1>2, <1>3, <1>4 DEF Hop

LEMMA StepIInv == IInv /\ [Next]_vars => IInv'
<1> SUFFICES ASSUME IInv, [Next]_vars PROVE IInv'
  OBVIOUS
<1>1. CASE UNCHANGED vars
  BY <1>1 DEF IInv, TypeOK, Minimal, CameByRoute, vars
<1>2. CASE Hop
  <2>1. /\ dir_in' \in Direction
        /\ pos' \in Node
        /\ Distance(pos', dst) = Distance(pos, dst) - 1
        /\ getNeighborId(pos', reflexDirection(dir_in')) = pos
    BY <1>2, HopFacts, HopToward DEF IInv, TypeOK
  <2>2. TypeOK'
    BY <1>2, <2>1, HopFacts DEF IInv, TypeOK, Port
  <2>3. Minimal'
    BY <1>2, <2>1, HopFacts, ZeroDistance DEF IInv, TypeOK, Minimal
  <2>4. Within(pos, src, dst)'
    BY <1>2, HopFacts, StaysWithin DEF IInv, TypeOK
  <2>5. CameByRoute'
    BY <1>2, <2>1, HopFacts DEF IInv, TypeOK, CameByRoute
  <2> QED
    BY <2>2, <2>3, <2>4, <2>5 DEF IInv
<1> QED
  BY <1>1, <1>2 DEF Next

(* The inductive invariant holds of every walk.                             *)
THEOREM Invariance == Spec => []IInv
BY InitIInv, StepIInv, PTL DEF Spec

(* The variables of RoutingWalk have their types on every mesh: the flit    *)
(* never leaves it.                                                         *)
THEOREM TypeCorrectness == Spec => []TypeOK
<1>1. IInv => TypeOK
  BY DEF IInv
<1> QED
  BY <1>1, Invariance, PTL

(* On every mesh and for every algorithm, Router::route answers a non-empty *)
(* set of directions that lead to existing neighbours, and the local port   *)
(* exactly at the destination: isAvailable never throws.                    *)
THEOREM RoutesAreValid == Spec => []RouteIsValid
<1>1. IInv => RouteIsValid
  <2> SUFFICES ASSUME IInv PROVE RouteIsValid
    OBVIOUS
  <2>1. alg \in Algorithm /\ src \in Node /\ dst \in Node /\ pos \in Node
    BY AlgorithmsAssumption DEF IInv, TypeOK
  <2>2. CASE pos = dst
    BY <2>2 DEF RouteIsValid, route
  <2>3. CASE pos # dst
    <3>1. /\ routingFunction(alg, pos, src, dst) # {}
          /\ routingFunction(alg, pos, src, dst) \subseteq Toward(pos, dst)
      BY <2>1, <2>3, RouteToward
    <3>2. \A o \in Toward(pos, dst) : o \in Direction /\ getNeighborId(pos, o) \in Node
      BY <2>1, HopToward
    <3>3. DIRECTION_LOCAL \notin Direction
      BY DEF Direction, DIRECTION_LOCAL, DIRECTION_NORTH, DIRECTION_EAST,
             DIRECTION_SOUTH, DIRECTION_WEST
    <3> QED
      BY <2>3, <3>1, <3>2, <3>3 DEF RouteIsValid, route, HasNeighbor
  <2> QED
    BY <2>2, <2>3
<1> QED
  BY <1>1, Invariance, PTL

(* On every mesh and for every algorithm, whatever the selection strategy   *)
(* picks, a packet only ever moves closer to its destination.               *)
THEOREM RoutesAreMinimal == Spec => []Minimal
<1>1. IInv => Minimal
  BY DEF IInv
<1> QED
  BY <1>1, Invariance, PTL

(* XY, WEST_FIRST, NORTH_LAST and NEGATIVE_FIRST take the channels of a     *)
(* mesh of any size in the order of their rank: no cycle of channels, hence *)
(* no deadlock of wormholes.                                                *)
THEOREM ChannelsAreOrdered == Spec => ChannelOrder
<1> DEFINE Ordered ==
      (alg \in RankedAlgorithm /\ dir_in # DIRECTION_LOCAL)
        => LET last == getNeighborId(pos, reflexDirection(dir_in))
           IN  Before(Rank(alg, last, dir_in), Rank(alg, pos, dir_in'))
<1>1. IInv /\ [Next]_vars => [Ordered]_vars
  <2> SUFFICES ASSUME IInv, Hop, alg \in RankedAlgorithm, dir_in # DIRECTION_LOCAL
               PROVE  Before(Rank(alg, getNeighborId(pos, reflexDirection(dir_in)), dir_in),
                             Rank(alg, pos, dir_in'))
    BY DEF Next
  <2> QED
    BY HopFacts, RankIncreases DEF IInv, TypeOK, CameByRoute
<1> QED
  BY <1>1, Invariance, PTL DEF Spec, ChannelOrder

(* ODD_EVEN and DYAD obey the odd-even turn rule on a mesh of any size.     *)
THEOREM TurnsAreOddEven == Spec => OddEvenTurns
<1> DEFINE Allowed ==
      (alg \in {"ODD_EVEN", "DYAD"}) => ~ForbiddenTurn(pos[1], dir_in, dir_in')
<1>1. IInv /\ [Next]_vars => [Allowed]_vars
  <2> SUFFICES ASSUME IInv, Hop, alg \in {"ODD_EVEN", "DYAD"}
               PROVE  ~ForbiddenTurn(pos[1], dir_in, dir_in')
    BY DEF Next
  <2>1. CASE dir_in = DIRECTION_LOCAL
    BY <2>1 DEF ForbiddenTurn, DIRECTION_LOCAL, DIRECTION_NORTH, DIRECTION_EAST,
                DIRECTION_SOUTH, DIRECTION_WEST
  <2>2. CASE dir_in # DIRECTION_LOCAL
    BY <2>2, HopFacts, NoForbiddenTurn DEF IInv, TypeOK, CameByRoute, routingFunction
  <2> QED
    BY <2>1, <2>2
<1> QED
  BY <1>1, Invariance, PTL DEF Spec, OddEvenTurns
=============================================================================
