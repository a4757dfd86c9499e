-------------------------------- MODULE MCNoC --------------------------------
(***************************************************************************)
(* Traffic patterns for the model checker.                                 *)
(***************************************************************************)
EXTENDS NoCProperties

(* 3 x 1: packets from both ends meet at the local port of the middle, one  *)
(* passes it; the first and the last are of one flow.                       *)
RowSrc  == <<<<0, 0>>, <<2, 0>>, <<0, 0>>, <<0, 0>>>>
RowDst  == <<<<1, 0>>, <<1, 0>>, <<2, 0>>, <<1, 0>>>>
RowSize == <<2, 3, 1, 1>>

(* 2 x 1: one packet of one flit from left to right. *)
PairSrc  == <<<<0, 0>>>>
PairDst  == <<<<1, 0>>>>
PairSize == <<1>>

(* 2 x 2: every node sends a packet of three flits across the diagonal, the *)
(* pattern that would close a ring of wormholes if turns were not limited.  *)
DiagonalSrc  == <<<<0, 0>>, <<1, 0>>, <<1, 1>>, <<0, 1>>>>
DiagonalDst  == <<<<1, 1>>, <<0, 1>>, <<0, 0>>, <<1, 0>>>>
DiagonalSize == <<3, 3, 3, 3>>
=============================================================================
