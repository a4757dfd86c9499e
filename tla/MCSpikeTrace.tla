----------------------------- MODULE MCSpikeTrace -----------------------------
(***************************************************************************)
(* Files for the model checker, as placer.py writes them: clusters are     *)
(* numbered from 0 like the nodes, node maps are injective, the lines of a *)
(* cluster stand together in the trace, earliest first.                    *)
(***************************************************************************)
EXTENDS SpikeTrace

Injections(S) == { m \in [S -> Nodes] : IsInjective(m) }

(* Clusters 0 and 1 send, cluster 2 only receives. *)
AllConnections ==
  { [g \in Group |-> IF g = 0 THEN a ELSE IF g = 1 THEN b ELSE {}] :
      a \in SUBSET Group, b \in SUBSET Group }

(* Maps in which the node of a destination never bears the number of the    *)
(* sending cluster, and no sender is on the routing-only node.              *)
AliasFreeMaps ==
  { m \in Injections(Group) :
      \A g \in {0, 1} : /\ m[g] \notin RoutOnly
                        /\ \A d \in Group \ {g} : m[d] # g }

(* Maps of a mesh that is large enough for all clusters. *)
PlacerMaps == Injections(Group)

(* Maps the placer leaves when it runs out of nodes: a cluster is missing.  *)
ShortMaps == Injections({0, 1, 2})

Line(t, g) == [time |-> t, group |-> g]

PlacerTraces ==
  { <<Line(a, 0), Line(1, 0), Line(b, 0), Line(c, 1), Line(d, 1)>> :
      a \in {0, 1}, b \in {1, 2}, c \in {0, 1}, d \in {1} }

(* The cluster that is missing sends, too, and later in the file. *)
ShortConnections == { [g \in Group |-> Group \ {g}] }
ShortTraces ==
  { <<Line(a, g), Line(b, 3)>> : a \in {0, 1}, b \in {0, 1}, g \in {0, 1, 2} }
=============================================================================
