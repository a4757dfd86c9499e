----------------------------- MODULE MCClustering -----------------------------
(***************************************************************************)
(* Applications of six neurons for the model checker: neuron 4 has up to   *)
(* five inputs, itself among them, 3 up to four, 0 closes loops; in two of *)
(* them neuron 5 has six, so that with fan-in three a chunk of four ends   *)
(* within a link.                                                          *)
(***************************************************************************)
EXTENDS Clustering

(* The lines of the file, for the sources of each neuron. *)
File(sources, order) ==
  [k \in DOMAIN order |-> [src |-> order[k], dsts |-> { n \in Neuron : order[k] \in sources[n] }]]

SmallApplications ==
  { File([n \in Neuron |-> CASE n = 4 -> a [] n = 3 -> b [] n = 0 -> c [] OTHER -> {}],
         <<2, 0, 4, 1, 3, 5>>) :
      a \in { s \in SUBSET Neuron : {0, 1, 2} \subseteq s },
      b \in { {}, {2, 4}, {0, 1, 2, 4} },
      c \in { {}, {3, 4}, {0, 2} } }

(* One neuron feeds all others: clusters share an input but no connection.  *)
Stars ==
  { File([n \in Neuron |-> IF n \in a THEN {0} ELSE {}], <<0, 1, 2, 3, 4, 5>>) :
      a \in { {1, 2, 3}, {1, 2, 3, 4} } }

(* One neuron has all others and itself as inputs, and shares some.         *)
LongChains ==
  { File([n \in Neuron |-> CASE n = 5 -> Neuron [] n = 4 -> a [] OTHER -> {}],
         <<2, 5, 0, 4, 1, 3>>) :
      a \in { {}, {0, 1, 2} } }

Applications == SmallApplications \union Stars \union LongChains

AllFanins   == {INVALID_FANIN, 2, 3}

SomeSpikes  == { [n \in Neuron |-> IF n = 3 THEN {0, 1} ELSE {n % 3}] }
=============================================================================
