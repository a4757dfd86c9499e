-------------------------------- MODULE MCHubs --------------------------------
(***************************************************************************)
(* Three hubs on one channel, the first with two tiles.                    *)
(***************************************************************************)
EXTENDS Hubs, TLC

Nodes == 0 :> <<0, 1>> @@ 1 :> <<2>> @@ 2 :> <<3>>

PacketDst  == <<3, 3, 2>>
PacketSize == <<2, 2, 2>>

Sending(t0, t1, t2, t3) == 0 :> t0 @@ 1 :> t1 @@ 2 :> t2 @@ 3 :> t3

(* Two hubs send to one tile; or two ports of a hub ask for the channel.    *)
SharedTile == Sending(<<1>>, <<>>, <<2>>, <<>>)
SharedHub  == Sending(<<1>>, <<3>>, <<>>, <<>>)
MCTraffic  == {SharedTile, SharedHub}
=============================================================================
