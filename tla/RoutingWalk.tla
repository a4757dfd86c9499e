----------------------------- MODULE RoutingWalk -----------------------------
(***************************************************************************)
(* A single head flit on its way through the mesh: at every router it      *)
(* passes, Router::route answers the candidate directions and the          *)
(* selection strategy takes any one of them (Selection_RANDOM::apply).     *)
(***************************************************************************)
EXTENDS Routing

CONSTANT Algorithms     \* the routing algorithms to walk with

ASSUME AlgorithmsAssumption == Algorithms \subseteq Algorithm

VARIABLES
  alg,      \* GlobalParams::routing_algorithm
  src,      \* flit.src_id
  dst,      \* flit.dst_id
  pos,      \* the router that holds the flit
  dir_in,   \* the direction of the last hop, DIRECTION_LOCAL at the source
  hop_no    \* flit.hop_no: links crossed so far

vars == <<alg, src, dst, pos, dir_in, hop_no>>

Init ==
  /\ alg \in Algorithms
  /\ src \in Node
  /\ dst \in Node
  /\ pos = src
  /\ dir_in = DIRECTION_LOCAL
  /\ hop_no = 0

(* One hop: route, cross the link, rxProcess of the next router counts it. *)
Hop ==
  /\ \E o \in route(alg, pos, src, dst) \ {DIRECTION_LOCAL} :
       /\ pos' = getNeighborId(pos, o)
       /\ dir_in' = o
  /\ hop_no' = hop_no + 1
  /\ UNCHANGED <<alg, src, dst>>

Next == Hop

Spec == Init /\ [][Next]_vars

-----------------------------------------------------------------------------
TypeOK ==
  /\ alg \in Algorithms
  /\ src \in Node /\ dst \in Node /\ pos \in Node
  /\ dir_in \in Port
  /\ hop_no \in Nat

(* Router::txProcess calls isAvailable, which throws an int that nobody     *)
(* catches when the direction leads off the mesh (NoC::buildMesh            *)
(* invalidates it); and an empty candidate vector would be indexed.         *)
RouteIsValid ==
  LET candidates == route(alg, pos, src, dst)
  IN  /\ candidates # {}
      /\ DIRECTION_LOCAL \in candidates <=> pos = dst
      /\ \A o \in candidates \ {DIRECTION_LOCAL} : HasNeighbor(pos, o)

(* No algorithm ever takes a hop away from the destination: the hops made   *)
(* and the hops still needed add up to the distance from the source.        *)
Minimal == hop_no + Distance(pos, dst) = Distance(src, dst)

(* The channel of the next hop always ranks above the channel of the last   *)
(* one, so no set of blocked wormholes can wait for each other in a ring.   *)
ChannelOrder ==
  [][ (alg \in RankedAlgorithm /\ dir_in # DIRECTION_LOCAL)
        => LET last == getNeighborId(pos, reflexDirection(dir_in))
           IN  Before(Rank(alg, last, dir_in), Rank(alg, pos, dir_in')) ]_vars

(* A turn the odd-even rule excludes in column x. *)
ForbiddenTurn(x, from, to) ==
  \/ /\ x % 2 = 0
     /\ from = DIRECTION_EAST
     /\ to \in {DIRECTION_NORTH, DIRECTION_SOUTH}
  \/ /\ x % 2 = 1
     /\ from \in {DIRECTION_NORTH, DIRECTION_SOUTH}
     /\ to = DIRECTION_WEST

(* The rule the odd-even algorithm is named for: no turn from EAST to a     *)
(* vertical direction in an even column, none from vertical to WEST in an   *)
(* odd one, so that no ring of turns has a rightmost column.                *)
OddEvenTurns ==
  [][(alg \in {"ODD_EVEN", "DYAD"}) => ~ForbiddenTurn(pos[1], dir_in, dir_in')]_vars
=============================================================================
