---------------------------- MODULE MCSpikeKernel ----------------------------
(***************************************************************************)
(* An application for the model checker.  Group 0 (two neurons) and the    *)
(* generator 2 are in partition 0, group 1 in partition 1.  Group 0 sends  *)
(* with a delay of 2 to group 1 and of 1 to itself, so its spikes wait in  *)
(* the tables of both partitions; groups 1 and 2 send with a delay of 1.   *)
(* Spikes of both classes go from partition 0 to 1 in the same millisecond,*)
(* and every group has a local id of its own in each partition.            *)
(***************************************************************************)
EXTENDS SpikeKernelProperties, TLC

TheNetId == 0 :> 0 @@ 1 :> 1 @@ 2 :> 0
TheNumN  == 0 :> 2 @@ 1 :> 1 @@ 2 :> 1

(* 1: 0 to 1, 2: 0 to 0, 3: 1 to 0, 4: the generator to 1, 5: 0 to 1 again. *)
TheSrc   == 1 :> 0 @@ 2 :> 0 @@ 3 :> 1 @@ 4 :> 2 @@ 5 :> 0
TheDest  == 1 :> 1 @@ 2 :> 0 @@ 3 :> 0 @@ 4 :> 1 @@ 5 :> 1
TheDelay == 1 :> 2 @@ 2 :> 1 @@ 3 :> 1 @@ 4 :> 1 @@ 5 :> 1

(* Trains around the end of the first second, and one that fills a table.   *)
Trains == { {}, {0, 2, 3}, {1, 4} }
=============================================================================
