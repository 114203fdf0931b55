---------------------------- MODULE WorkflowRules ----------------------------
(***************************************************************************)
(* What the workflow editor's validation promises, stated over the graph   *)
(* itself and not over the way it is searched.  A graph is a record of the *)
(* statuses of the case type (nodes), those marked isFinal (finals), the   *)
(* transitions as from/to pairs (edges), and the pairs drawn more than     *)
(* once (repeats).  The editor's messages and labels are left out.         *)
(***************************************************************************)
EXTENDS Naturals, FiniteSets

Valid(g) == g.edges \cap (g.nodes \X g.nodes)
(* A slip: dangling transitions are not sorted out first.                  *)
AllSuccessors(g, n) == {e[2] : e \in {d \in g.edges : d[1] = n}}

Successors(g, n) == {m \in g.nodes : <<n, m>> \in g.edges}
Predecessors(g, n) == {m \in g.nodes : <<m, n>> \in g.edges}

(* The starting statuses: those no transition leads to.                    *)
Starts(g) == {n \in g.nodes : Predecessors(g, n) = {}}

(* What every set that holds S and is closed under the transitions holds.  *)
ReachableFrom(g, S) ==
  {n \in g.nodes : \A C \in SUBSET g.nodes :
     S \subseteq C /\ (\A m \in C : Successors(g, m) \subseteq C) => n \in C}

(* The same, against the direction of the transitions.                     *)
Reaching(g, S) ==
  {n \in g.nodes : \A C \in SUBSET g.nodes :
     S \subseteq C /\ (\A m \in C : Predecessors(g, m) \subseteq C) => n \in C}

Unreachable(g) == g.finals \ ReachableFrom(g, Starts(g))
Dead(g) == g.nodes \ Reaching(g, g.finals)
OnCycle(g) == {n \in g.nodes : n \in ReachableFrom(g, Successors(g, n))}

(* The rules found in one pass over nodes and edges.                       *)
Dangling(g) == {e \in g.edges : e \notin g.nodes \X g.nodes}
Duplicates(g) == g.repeats \cap Valid(g)
Orphans(g) ==
  IF Cardinality(g.nodes) <= 1 THEN {}
  ELSE {n \in g.nodes : Successors(g, n) = {} /\ Predecessors(g, n) = {}}

(* An empty canvas is incomplete, not invalid: it raises no issue at all.  *)
Raises(g) ==
  /\ g.nodes # {}
  /\ \/ Dangling(g) \cup Duplicates(g) # {}
     \/ Orphans(g) # {}
     \/ g.finals = {}
     \/ Unreachable(g) # {}
     \/ Dead(g) \cap OnCycle(g) # {}
==============================================================================
