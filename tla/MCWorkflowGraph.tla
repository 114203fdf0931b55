--------------------------- MODULE MCWorkflowGraph ---------------------------
EXTENDS WorkflowGraph

(* Statuses are numbers; up to renaming, the final ones are the last.      *)
Shapes(n) == {[nodes |-> 1 .. n, finals |-> (n - f + 1) .. n] : f \in 0 .. n}

Drawn(shapes, edges, repeats) ==
  {[nodes |-> s.nodes, finals |-> s.finals, edges |-> e, repeats |-> r] :
     s \in shapes, e \in edges, r \in repeats}

(* Every graph of up to three statuses, self-loops included; those of four *)
(* statuses with up to MaxEdges transitions, enough for a loop entered     *)
(* from a start and left by a path of two; and small graphs in which a     *)
(* transition dangles (to status 3) or is drawn twice.                     *)
MaxEdges == 4
Pairs(n) == (1 .. n) \X (1 .. n)
Proper(n) == {e \in Pairs(n) : e[1] # e[2]}
UpTo(k, S) == {e \in SUBSET S : Cardinality(e) <= k}

MCGraphs ==
  UNION {Drawn(Shapes(n), SUBSET Pairs(n), {{}}) : n \in 0 .. 3}
  \cup Drawn(Shapes(4), UpTo(MaxEdges, Pairs(4)), {{}})
  \cup {g \in Drawn(Shapes(2), SUBSET Proper(3), UpTo(1, Proper(3))) :
          g.repeats \subseteq g.edges}
==============================================================================
