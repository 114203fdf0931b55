------------------------- MODULE WorkflowGraphProofs -------------------------
(***************************************************************************)
(* validateWorkflowGraph() is correct for every graph: what it reports as  *)
(* unreachable, and whether it lets a graph pass, is what WorkflowRules    *)
(* says.  The searches are compared with least closed sets, so no          *)
(* induction over paths is needed: each invariant says how far the sets    *)
(* built so far are closed, and the end of a loop makes them closed.       *)
(***************************************************************************)
EXTENDS WorkflowGraph, SequenceTheorems, TLAPS

------------------------------------------------------------------------------
(* Reachability: it holds what it starts from, is closed, and is least.    *)

LEMMA ReachableHasStart ==
  ASSUME NEW g, NEW S \in SUBSET g.nodes
  PROVE  S \subseteq ReachableFrom(g, S)
BY DEF ReachableFrom

LEMMA ReachableIsClosed ==
  ASSUME NEW g, NEW S, NEW n \in ReachableFrom(g, S)
  PROVE  Successors(g, n) \subseteq ReachableFrom(g, S)
<1>1. SUFFICES ASSUME NEW m \in Successors(g, n), NEW C \in SUBSET g.nodes,
                      S \subseteq C, \A k \in C : Successors(g, k) \subseteq C
               PROVE  m \in C
  BY DEF ReachableFrom, Successors
<1>2. n \in C
  BY <1>1 DEF ReachableFrom
<1> QED BY <1>1, <1>2

LEMMA ReachableIsLeast ==
  ASSUME NEW g, NEW S, NEW C \in SUBSET g.nodes, S \subseteq C,
         \A m \in C : Successors(g, m) \subseteq C
  PROVE  ReachableFrom(g, S) \subseteq C
BY DEF ReachableFrom

LEMMA ReachableIsTransitive ==
  ASSUME NEW g, NEW n \in g.nodes, NEW m \in ReachableFrom(g, Successors(g, n))
  PROVE  ReachableFrom(g, Successors(g, m))
           \subseteq ReachableFrom(g, Successors(g, n))
<1> DEFINE R == ReachableFrom(g, Successors(g, n))
<1>1. R \in SUBSET g.nodes
  BY DEF ReachableFrom
<1>2. \A k \in R : Successors(g, k) \subseteq R
  BY ReachableIsClosed
<1> QED BY <1>1, <1>2, ReachableIsLeast

LEMMA ReachingHasStart ==
  ASSUME NEW g, NEW S \in SUBSET g.nodes
  PROVE  S \subseteq Reaching(g, S)
BY DEF Reaching

LEMMA ReachingIsClosed ==
  ASSUME NEW g, NEW S, NEW n \in Reaching(g, S)
  PROVE  Predecessors(g, n) \subseteq Reaching(g, S)
<1>1. SUFFICES ASSUME NEW m \in Predecessors(g, n), NEW C \in SUBSET g.nodes,
                      S \subseteq C, \A k \in C : Predecessors(g, k) \subseteq C
               PROVE  m \in C
  BY DEF Reaching, Predecessors
<1>2. n \in C
  BY <1>1 DEF Reaching
<1> QED BY <1>1, <1>2

LEMMA ReachingIsLeast ==
  ASSUME NEW g, NEW S, NEW C \in SUBSET g.nodes, S \subseteq C,
         \A m \in C : Predecessors(g, m) \subseteq C
  PROVE  Reaching(g, S) \subseteq C
BY DEF Reaching

(* From a dead status only dead ones follow. *)
LEMMA DeadIsClosed ==
  ASSUME NEW g, NEW n \in Dead(g)
  PROVE  Successors(g, n) \subseteq Dead(g)
<1>1. SUFFICES ASSUME NEW m \in Successors(g, n), m \in Reaching(g, g.finals)
               PROVE  FALSE
  BY DEF Dead, Successors
<1>2. n \in Predecessors(g, m)
  BY DEF Dead, Successors, Predecessors
<1>3. n \in Reaching(g, g.finals)
  BY <1>1, <1>2, ReachingIsClosed
<1> QED BY <1>3 DEF Dead
------------------------------------------------------------------------------
(* How the path of the depth-first search grows and shrinks. *)
LEMMA PathGrows ==
  ASSUME TypeOK, NEW n \in graph.nodes, Enter(n)
  PROVE  /\ Len(stack) \in Nat
         /\ stack' \in Seq(graph.nodes)
         /\ Len(stack') = Len(stack) + 1
         /\ \A i \in 1 .. Len(stack) : stack'[i] = stack[i]
         /\ stack'[Len(stack')] = n
BY DEF TypeOK, Enter

LEMMA FrontOfSequence ==
  ASSUME NEW S, NEW s \in Seq(S), NEW n \in Nat, Len(s) = n + 1
  PROVE  SubSeq(s, 1, n) \in Seq(S)
OBVIOUS

LEMMA FrontOfPath ==
  ASSUME NEW n \in Nat, stack \in Seq(graph.nodes), Len(stack) = n + 1,
         stack' = SubSeq(stack, 1, n)
  PROVE  /\ stack' \in Seq(graph.nodes)
         /\ Len(stack') = n
         /\ \A i \in 1 .. n : stack'[i] = stack[i]
<1>1. stack' \in Seq(graph.nodes)
  BY FrontOfSequence
<1>2. Len(stack') = n
  OBVIOUS
<1>3. \A i \in 1 .. n : stack'[i] = stack[i]
  OBVIOUS
<1> QED BY <1>1, <1>2, <1>3

LEMMA PathShrinks ==
  ASSUME TypeOK, stack # <<>>, stack' = SubSeq(stack, 1, Len(stack) - 1)
  PROVE  /\ Len(stack) \in Nat \ {0}
         /\ stack' \in Seq(graph.nodes)
         /\ Len(stack') = Len(stack) - 1
         /\ \A i \in 1 .. Len(stack) - 1 : stack'[i] = stack[i]
<1>0. stack \in Seq(graph.nodes)
  BY DEF TypeOK
<1>1. Len(stack) \in Nat \ {0}
  BY <1>0
<1>2. PICK n \in Nat : Len(stack) = n + 1
  BY <1>1
<1>3. stack' = SubSeq(stack, 1, n)
  BY <1>2
<1>4. /\ stack' \in Seq(graph.nodes)
      /\ Len(stack') = n
      /\ \A i \in 1 .. n : stack'[i] = stack[i]
  BY ONLY <1>0, <1>2, <1>3, n \in Nat, FrontOfPath, Zenon
<1> QED BY <1>1, <1>2, <1>4

(* The findings keep their shape when those of one code are replaced. *)
Findings(E, N, C) ==
  [dangling : E, duplicate : E, orphan : N, noFinal : BOOLEAN, unreachable : N, cycles : C]

LEMMA FindingsGrow ==
  ASSUME NEW E, NEW N, NEW C, NEW r \in Findings(E, N, C)
  PROVE  /\ \A d \in E, p \in E, o \in N, b \in BOOLEAN :
              [r EXCEPT !.dangling = d, !.duplicate = p, !.orphan = o, !.noFinal = b]
                \in Findings(E, N, C)
         /\ \A u \in N : [r EXCEPT !.unreachable = u] \in Findings(E, N, C)
         /\ \A c \in C : [r EXCEPT !.cycles = c] \in Findings(E, N, C)
BY DEF Findings

(* Every variable stays within the graph. *)
THEOREM TypeCorrect == Spec => []TypeOK
<1>1. Init => TypeOK
  BY GraphsAssumption DEF Init, TypeOK, Successors, NoIssues
<1>2. TypeOK /\ [Next]_vars => TypeOK'
  <2> SUFFICES ASSUME TypeOK, [Next]_vars PROVE TypeOK'
    OBVIOUS
  <2> USE DEF TypeOK
  <2> DEFINE F == Findings(SUBSET graph.edges, SUBSET graph.nodes,
                           SUBSET SUBSET graph.nodes)
  <2>0. /\ \A c \in SUBSET SUBSET graph.nodes : [issues EXCEPT !.cycles = c] \in F
        /\ \A d \in SUBSET graph.edges, p \in SUBSET graph.edges,
              o \in SUBSET graph.nodes, b \in BOOLEAN :
             [issues EXCEPT !.dangling = d, !.duplicate = p, !.orphan = o, !.noFinal = b] \in F
        /\ issues \in F
    <3>1. issues \in F
      BY DEF Findings
    <3> HIDE DEF TypeOK
    <3> QED BY ONLY <3>1, FindingsGrow, Zenon
  <2>1. CASE Scan
    <3>1. /\ Dangling(graph) \subseteq graph.edges
          /\ Duplicates(graph) \subseteq graph.edges
          /\ Orphans(graph) \subseteq graph.nodes
          /\ Starts(graph) \subseteq graph.nodes
      BY DEF Dangling, Duplicates, Valid, Orphans, Starts
    <3>2. CASE graph.nodes = {}
      BY <2>1, <3>2 DEF Scan
    <3>3. CASE graph.nodes # {}
      <4>1. issues' \in F
        <5>1. issues' = [issues EXCEPT !.dangling = Dangling(graph),
                                       !.duplicate = Duplicates(graph),
                                       !.orphan = Orphans(graph),
                                       !.noFinal = graph.finals = {}]
          BY <2>1, <3>3 DEF Scan
        <5>2. (graph.finals = {}) \in BOOLEAN
          OBVIOUS
        <5> HIDE DEF TypeOK, F
        <5> QED BY <2>0, <3>1, <5>1, <5>2
      <4>2. graph' = graph
        BY <2>1 DEF Scan
      <4>3. UNCHANGED <<reached, canReachFinal, white, stack, todo>>
        BY <2>1 DEF Scan
      <4>4. pc' = "forward" /\ queue' = Starts(graph)
        BY <2>1, <3>3 DEF Scan
      <4> QED BY <3>1, <4>1, <4>2, <4>3, <4>4 DEF Findings
    <3> QED BY <3>2, <3>3
  <2>2. CASE JudgeFinals
    BY <2>2 DEF JudgeFinals
  <2>3. CASE SearchCycles
    BY <2>3 DEF SearchCycles
  <2>4. CASE Leave
    BY <2>4, PathShrinks DEF Leave
  <2>5. CASE Return
    BY <2>5 DEF Return
  <2>6. ASSUME NEW n \in graph.nodes, Visit(n) PROVE TypeOK'
    BY <2>6 DEF Visit, Successors
  <2>7. ASSUME NEW n \in graph.nodes, VisitBack(n) PROVE TypeOK'
    BY <2>7 DEF VisitBack, Predecessors
  <2>8. ASSUME NEW n \in graph.nodes, Root(n) PROVE TypeOK'
    <3>1. stack' \in Seq(graph.nodes) /\ white' \subseteq graph.nodes
      BY <2>8, PathGrows DEF Root, Enter
    <3> QED BY <2>8, <3>1 DEF Root
  <2>9. ASSUME NEW n \in graph.nodes, Look(n) PROVE TypeOK'
    <3>1. stack' \in Seq(graph.nodes) /\ white' \subseteq graph.nodes
      BY <2>9, PathGrows DEF Look, Enter
    <3>2. todo' \in [graph.nodes -> SUBSET graph.nodes]
      BY <2>9 DEF Look
    <3>3. Cycle(n) \subseteq graph.nodes
      BY DEF Cycle
    <3>4. issues' \in F
      <4>1. issues.cycles \in SUBSET SUBSET graph.nodes
        OBVIOUS
      <4>2. issues.cycles \cup {Cycle(n)} \in SUBSET SUBSET graph.nodes
        BY <3>3, <4>1
      <4>3. \/ issues' = issues
            \/ issues' = [issues EXCEPT !.cycles = issues.cycles \cup {Cycle(n)}]
        BY <2>9 DEF Look
      <4> HIDE DEF TypeOK, F
      <4> QED BY <2>0, <4>2, <4>3
    <3>5. /\ graph' = graph /\ pc' = pc /\ queue' = queue /\ reached' = reached
          /\ canReachFinal' = canReachFinal
      BY <2>9 DEF Look
    <3> QED BY <3>1, <3>2, <3>4, <3>5 DEF Findings
  <2>10. CASE UNCHANGED vars
    BY <2>10 DEF vars
  <2> QED BY <2>1, <2>2, <2>3, <2>4, <2>5, <2>6, <2>7, <2>8, <2>9, <2>10 DEF Next
<1> QED BY <1>1, <1>2, PTL DEF Spec
------------------------------------------------------------------------------
(* Both searches: what waits and what was reached lies within the least    *)
(* closed set, and what was reached is closed but for what still waits.    *)
ForwardInv ==
  pc = "forward" =>
    /\ reached \cup queue \subseteq ReachableFrom(graph, Starts(graph))
    /\ Starts(graph) \subseteq reached \cup queue
    /\ \A n \in reached : Successors(graph, n) \subseteq reached \cup queue

BackwardInv ==
  pc = "backward" =>
    /\ queue \subseteq canReachFinal
    /\ canReachFinal \subseteq Reaching(graph, graph.finals)
    /\ graph.finals \subseteq canReachFinal
    /\ \A n \in canReachFinal \ queue : Predecessors(graph, n) \subseteq canReachFinal

SearchInv ==
  /\ graph.nodes = {} => pc \in {"scan", "done"}
  /\ pc = "scan" => reached = {} /\ canReachFinal = {} /\ issues = NoIssues
  /\ pc = "done" /\ graph.nodes = {} => issues = NoIssues /\ canReachFinal = {}
  /\ ForwardInv
  /\ UnreachableIsExact
  /\ BackwardInv
  /\ pc \in {"cycles", "done"} => canReachFinal = Reaching(graph, graph.finals)

(* The forward search ends with exactly what the starting statuses reach.  *)
LEMMA ForwardEnds ==
  ASSUME TypeOK, ForwardInv, pc = "forward", queue = {}
  PROVE  reached = ReachableFrom(graph, Starts(graph))
BY ReachableIsLeast DEF TypeOK, ForwardInv

LEMMA BackwardEnds ==
  ASSUME TypeOK, BackwardInv, pc = "backward", queue = {}
  PROVE  canReachFinal = Reaching(graph, graph.finals)
BY ReachingIsLeast DEF TypeOK, BackwardInv

THEOREM SearchesCorrect == Spec => []SearchInv
<1>1. Init => SearchInv
  BY DEF Init, SearchInv, ForwardInv, BackwardInv, UnreachableIsExact
<1>2. TypeOK /\ SearchInv /\ [Next]_vars => SearchInv'
  <2> SUFFICES ASSUME TypeOK, SearchInv, [Next]_vars PROVE SearchInv'
    OBVIOUS
  <2>1. CASE Scan
    <3>1. CASE graph.nodes = {}
      <4>1. /\ pc' = "done" /\ graph' = graph /\ issues' = NoIssues
            /\ canReachFinal' = {}
        BY <2>1, <3>1 DEF Scan, SearchInv
      <4>2. Unreachable(graph) = {} /\ Reaching(graph, graph.finals) = {}
        BY <3>1 DEF TypeOK, Unreachable, Reaching
      <4>3. NoIssues.unreachable = {}
        BY DEF NoIssues
      <4> QED BY <3>1, <4>1, <4>2, <4>3
              DEF SearchInv, ForwardInv, BackwardInv, UnreachableIsExact
    <3>2. CASE graph.nodes # {}
      <4>1. /\ pc' = "forward" /\ graph' = graph
            /\ queue' = Starts(graph) /\ reached' = {}
        BY <2>1, <3>2 DEF Scan, SearchInv
      <4>2. Starts(graph) \subseteq ReachableFrom(graph, Starts(graph))
        BY ReachableHasStart DEF Starts
      <4> QED BY <3>2, <4>1, <4>2
              DEF SearchInv, ForwardInv, BackwardInv, UnreachableIsExact
    <3> QED BY <3>1, <3>2
  <2>2. ASSUME NEW n \in graph.nodes, Visit(n) PROVE SearchInv'
    <3>1. pc = "forward" /\ pc' = "forward" /\ graph' = graph /\ graph.nodes # {}
      BY <2>2 DEF Visit
    <3>2. Successors(graph, n) \subseteq ReachableFrom(graph, Starts(graph))
      BY <2>2, ReachableIsClosed DEF Visit, SearchInv, ForwardInv
    <3>3. ForwardInv'
      BY <2>2, <3>1, <3>2 DEF Visit, SearchInv, ForwardInv
    <3> QED BY <3>1, <3>3 DEF SearchInv, BackwardInv, UnreachableIsExact
  <2>3. CASE JudgeFinals
    <3>1. reached = ReachableFrom(graph, Starts(graph))
      BY <2>3, ForwardEnds DEF JudgeFinals, SearchInv
    <3>2. /\ pc = "forward" /\ pc' = "backward" /\ graph' = graph
          /\ canReachFinal' = graph.finals /\ queue' = graph.finals
      BY <2>3 DEF JudgeFinals
    <3>3. graph.nodes # {}
      BY <3>2 DEF SearchInv
    <3>4. issues'.unreachable = Unreachable(graph)
      BY <2>3, <3>1 DEF JudgeFinals, Unreachable, TypeOK
    <3>5. BackwardInv'
      BY <3>2, ReachingHasStart DEF BackwardInv, TypeOK
    <3> QED BY <3>2, <3>3, <3>4, <3>5 DEF SearchInv, ForwardInv, UnreachableIsExact
  <2>4. ASSUME NEW n \in graph.nodes, VisitBack(n) PROVE SearchInv'
    <3>1. /\ pc = "backward" /\ pc' = "backward" /\ graph' = graph
          /\ issues' = issues /\ graph.nodes # {}
      BY <2>4 DEF VisitBack
    <3>2. Predecessors(graph, n) \subseteq Reaching(graph, graph.finals)
      BY <2>4, ReachingIsClosed DEF VisitBack, SearchInv, BackwardInv
    <3>3. BackwardInv'
      BY <2>4, <3>1, <3>2 DEF VisitBack, SearchInv, BackwardInv
    <3> QED BY <3>1, <3>3 DEF SearchInv, ForwardInv, UnreachableIsExact
  <2>5. CASE SearchCycles
    <3>1. canReachFinal = Reaching(graph, graph.finals)
      BY <2>5, BackwardEnds DEF SearchCycles, SearchInv
    <3> QED BY <2>5, <3>1
            DEF SearchCycles, SearchInv, ForwardInv, BackwardInv, UnreachableIsExact
  <2>6. ASSUME NEW n \in graph.nodes, Look(n) PROVE SearchInv'
    <3>1. /\ pc = "cycles" /\ pc' = "cycles" /\ graph' = graph
          /\ canReachFinal' = canReachFinal
      BY <2>6 DEF Look
    <3>2. issues'.unreachable = issues.unreachable
      BY <2>6 DEF Look, TypeOK
    <3> QED BY <2>6, <3>1, <3>2
            DEF SearchInv, ForwardInv, BackwardInv, UnreachableIsExact
  <2>7. ASSUME NEW n \in graph.nodes, Root(n) PROVE SearchInv'
    BY <2>7 DEF Root, SearchInv, ForwardInv, BackwardInv, UnreachableIsExact
  <2>8. CASE Leave
    BY <2>8 DEF Leave, SearchInv, ForwardInv, BackwardInv, UnreachableIsExact
  <2>9. CASE Return
    BY <2>9 DEF Return, SearchInv, ForwardInv, BackwardInv, UnreachableIsExact
  <2>10. CASE UNCHANGED vars
    BY <2>10 DEF vars, SearchInv, ForwardInv, BackwardInv, UnreachableIsExact
  <2> QED BY <2>1, <2>2, <2>3, <2>4, <2>5, <2>6, <2>7, <2>8, <2>9, <2>10 DEF Next
<1> QED BY <1>1, <1>2, TypeCorrect, PTL DEF Spec
------------------------------------------------------------------------------
(* The depth-first search.  Visited: the nodes it has left (BLACK).        *)
Reach(n) == ReachableFrom(graph, Successors(graph, n))
OnPath == {stack[i] : i \in 1 .. Len(stack)}
Visited == graph.nodes \ (white \cup OnPath)

(* The path is a walk without repetition through nodes entered before, and *)
(* what a node has still to look at are successors of it.                  *)
PathInv ==
  /\ pc \notin {"cycles", "done"} => white = graph.nodes /\ stack = <<>>
  /\ pc = "done" /\ graph.nodes # {} => white = {} /\ stack = <<>>
  /\ \A n \in graph.nodes : todo[n] \subseteq Successors(graph, n)
  /\ \A n \in white : todo[n] = Successors(graph, n)
  /\ \A i \in 1 .. Len(stack) : stack[i] \notin white
  /\ \A j \in 1 .. Len(stack) : \A i \in 1 .. j - 1 :
       stack[i] # stack[j] /\ stack[j] \in Reach(stack[i])

(* What the first pass and the forward search found is not touched again.  *)
FindingsInv ==
  /\ pc \notin {"cycles", "done"} => issues.cycles = {}
  /\ pc # "scan" /\ graph.nodes # {} =>
       /\ issues.dangling = Dangling(graph)
       /\ issues.duplicate = Duplicates(graph)
       /\ issues.orphan = Orphans(graph)
       /\ issues.noFinal = (graph.finals = {})
  /\ pc = "forward" => issues.unreachable = {}
  /\ \A c \in issues.cycles : c # {}

(* As long as no cycle is reported, the dead nodes left behind lie on none *)
(* and lead only to nodes left behind, and a dead node of the path has     *)
(* looked at nothing else but the node that follows it.                    *)
AcyclicInv ==
  issues.cycles = {} =>
    /\ \A n \in Visited \cap Dead(graph) :
         Successors(graph, n) \subseteq Visited /\ n \notin Reach(n)
    /\ \A i \in 1 .. Len(stack) :
         stack[i] \in Dead(graph) =>
           Successors(graph, stack[i]) \ todo[stack[i]]
             \subseteq Visited \cup (IF i < Len(stack) THEN {stack[i + 1]} ELSE {})

(* From a dead node only dead ones are reached. *)
LEMMA DeadReachesDead ==
  ASSUME NEW n \in Dead(graph), NEW m \in Reach(n)
  PROVE  m \in Dead(graph)
<1>1. Dead(graph) \in SUBSET graph.nodes
  BY DEF Dead
<1>2. \A k \in Dead(graph) : Successors(graph, k) \subseteq Dead(graph)
  BY DeadIsClosed
<1>3. Reach(n) \subseteq Dead(graph)
  BY <1>1, <1>2, ReachableIsLeast DEF Reach
<1> QED BY <1>3

(* What a back edge closes is a cycle: each of its nodes leads to all.     *)
LEMMA BackEdgeClosesCycle ==
  ASSUME TypeOK, PathInv, stack # <<>>, NEW n \in todo[Top], n \in OnPath
  PROVE  /\ n \in Cycle(n)
         /\ Cycle(n) \subseteq OnPath
         /\ \A x \in Cycle(n) : n \in Reach(x) /\ Cycle(n) \subseteq Reach(x)
<1>1. /\ stack \in Seq(graph.nodes) /\ Len(stack) \in Nat \ {0}
      /\ \A i \in 1 .. Len(stack) : stack[i] \in graph.nodes
  BY DEF TypeOK
<1>2. n \in Cycle(n) /\ Cycle(n) \subseteq OnPath
  BY <1>1 DEF Cycle, OnPath
<1>3. Top \in graph.nodes /\ n \in Successors(graph, Top) /\ n \in graph.nodes
  BY <1>1 DEF Top, PathInv, Successors
<1>4. ASSUME NEW x \in Cycle(n) PROVE n \in Reach(x)
  <2>1. PICK i \in 1 .. Len(stack) : x = stack[i]
    BY DEF Cycle
  <2>2. CASE i = Len(stack)
    BY <1>3, <2>1, <2>2, ReachableHasStart DEF Top, Reach, Successors
  <2>3. CASE i # Len(stack)
    <3>1. Top \in Reach(x)
      BY <1>1, <2>1, <2>3 DEF Top, PathInv
    <3> QED BY <1>3, <3>1, ReachableIsClosed DEF Reach
  <2> QED BY <2>2, <2>3
<1>5. ASSUME NEW x \in Cycle(n), NEW y \in Cycle(n) PROVE y \in Reach(x)
  <2>1. PICK j \in 1 .. Len(stack) : y = stack[j] /\ \E k \in 1 .. j : stack[k] = n
    BY DEF Cycle
  <2>2. PICK k \in 1 .. j : stack[k] = n
    BY <2>1
  <2>3. CASE k = j
    BY <1>4, <2>1, <2>2, <2>3
  <2>4. CASE k # j
    <3>1. y \in Reach(n)
      BY <1>1, <2>1, <2>2, <2>4 DEF PathInv
    <3>2. x \in graph.nodes
      BY <1>1 DEF Cycle
    <3>3. Reach(n) \subseteq Reach(x)
      BY <1>4, <3>2, ReachableIsTransitive DEF Reach
    <3> QED BY <3>1, <3>3
  <2> QED BY <2>3, <2>4
<1> QED BY <1>2, <1>4, <1>5

(* Entering a node not visited before makes the path longer by it.         *)
LEMMA EnterPath ==
  ASSUME TypeOK, PathInv, NEW n \in white, Enter(n), graph' = graph,
         stack # <<>> => n \in Successors(graph, Top)
  PROVE  /\ \A i \in 1 .. Len(stack') : stack'[i] \notin white'
         /\ \A j \in 1 .. Len(stack') : \A i \in 1 .. j - 1 :
              stack'[i] # stack'[j] /\ stack'[j] \in Reach(stack'[i])
         /\ Visited' = Visited
<1>1. /\ stack \in Seq(graph.nodes) /\ Len(stack) \in Nat
      /\ Len(stack') = Len(stack) + 1
      /\ \A i \in 1 .. Len(stack) : stack'[i] = stack[i] /\ stack[i] \in graph.nodes
      /\ stack'[Len(stack) + 1] = n
      /\ n \in graph.nodes
  BY PathGrows DEF TypeOK
<1>2. \A i \in 1 .. Len(stack') : stack'[i] \notin white'
  BY <1>1 DEF Enter, PathInv
<1>3. ASSUME NEW j \in 1 .. Len(stack'), NEW i \in 1 .. j - 1
      PROVE  stack'[i] # stack'[j] /\ stack'[j] \in Reach(stack'[i])
  <2>1. CASE j # Len(stack')
    BY <1>1, <2>1 DEF PathInv
  <2>2. CASE j = Len(stack')
    <3>1. stack'[j] = n /\ stack'[i] = stack[i] /\ i \in 1 .. Len(stack)
      BY <1>1, <2>2
    <3>2. stack[i] # n
      BY <3>1 DEF PathInv
    <3>3. Len(stack) \in Nat \ {0} /\ stack # <<>>
      BY <1>1, <3>1
    <3>4. n \in Reach(stack[i])
      <4>1. CASE i = Len(stack)
        BY <1>1, <3>3, <4>1, ReachableHasStart DEF Top, Reach, Successors
      <4>2. CASE i # Len(stack)
        <5>1. Top \in Reach(stack[i])
          BY <1>1, <3>1, <4>2 DEF Top, PathInv
        <5> QED BY <3>3, <5>1, ReachableIsClosed DEF Reach
      <4> QED BY <4>1, <4>2
    <3> QED BY <3>1, <3>2, <3>4
  <2> QED BY <2>1, <2>2
<1>4. OnPath' = OnPath \cup {n}
  BY <1>1 DEF OnPath
<1>5. Visited' = Visited
  BY <1>4 DEF Visited, Enter
<1> QED BY <1>2, <1>3, <1>5

(* Leaving the last node of the path adds it to those left behind.         *)
LEMMA LeavePath ==
  ASSUME TypeOK, PathInv, Leave
  PROVE  /\ Top \in graph.nodes
         /\ Top \notin Visited
         /\ Visited' = Visited \cup {Top}
<1>1. /\ stack \in Seq(graph.nodes) /\ Len(stack) \in Nat \ {0}
      /\ Len(stack') = Len(stack) - 1
      /\ \A i \in 1 .. Len(stack) - 1 : stack'[i] = stack[i]
      /\ \A i \in 1 .. Len(stack) : stack[i] \in graph.nodes
      /\ white' = white /\ graph' = graph
  BY PathShrinks DEF Leave, TypeOK
<1>2. Top \in OnPath /\ Top \in graph.nodes /\ Top \notin white
  BY <1>1 DEF Top, OnPath, PathInv
<1>3. OnPath' = OnPath \ {Top}
  <2>1. \A i \in 1 .. Len(stack) - 1 : stack[i] # stack[Len(stack)]
    BY <1>1 DEF PathInv
  <2>2. OnPath' = {stack[i] : i \in 1 .. Len(stack) - 1}
    BY <1>1 DEF OnPath
  <2>3. \A i \in 1 .. Len(stack) : i = Len(stack) \/ i \in 1 .. Len(stack) - 1
    BY <1>1
  <2> QED BY <1>1, <2>1, <2>2, <2>3 DEF OnPath, Top
<1> QED BY <1>1, <1>2, <1>3 DEF Visited

THEOREM PathCorrect == Spec => []PathInv
<1>1. Init => PathInv
  BY DEF Init, PathInv
<1>2. TypeOK /\ PathInv /\ [Next]_vars => PathInv'
  <2> SUFFICES ASSUME TypeOK, PathInv, [Next]_vars PROVE PathInv'
    OBVIOUS
  <2>1. CASE Scan
    BY <2>1 DEF Scan, PathInv, Reach
  <2>2. ASSUME NEW n \in graph.nodes, Visit(n) PROVE PathInv'
    BY <2>2 DEF Visit, PathInv, Reach
  <2>3. CASE JudgeFinals
    BY <2>3 DEF JudgeFinals, PathInv, Reach
  <2>4. ASSUME NEW n \in graph.nodes, VisitBack(n) PROVE PathInv'
    BY <2>4 DEF VisitBack, PathInv, Reach
  <2>5. CASE SearchCycles
    BY <2>5 DEF SearchCycles, PathInv, Reach
  <2>6. ASSUME NEW n \in graph.nodes, Root(n) PROVE PathInv'
    <3>1. graph' = graph /\ todo' = todo /\ pc = "cycles" /\ pc' = "cycles" /\ n \in white
          /\ Enter(n) /\ white' \subseteq white
      BY <2>6 DEF Root, Enter
    <3>2. /\ \A i \in 1 .. Len(stack') : stack'[i] \notin white'
          /\ \A j \in 1 .. Len(stack') : \A i \in 1 .. j - 1 :
               stack'[i] # stack'[j] /\ stack'[j] \in Reach(stack'[i])
      BY <2>6, <3>1, EnterPath DEF Root
    <3> QED BY <3>1, <3>2 DEF PathInv, Reach
  <2>7. ASSUME NEW n \in graph.nodes, Look(n) PROVE PathInv'
    <3>1. /\ graph' = graph /\ pc = "cycles" /\ pc' = "cycles" /\ white' \subseteq white
          /\ todo' = [todo EXCEPT ![Top] = @ \ {n}] /\ n \in todo[Top] /\ stack # <<>>
      BY <2>7 DEF Look, Enter
    <3>2. Top \in graph.nodes /\ Top \notin white
      BY <3>1 DEF Top, TypeOK, PathInv
    <3>3. /\ \A m \in graph.nodes : todo'[m] \subseteq Successors(graph, m)
          /\ \A m \in white' : todo'[m] = Successors(graph, m)
      BY <3>1, <3>2 DEF TypeOK, PathInv
    <3>4. /\ \A i \in 1 .. Len(stack') : stack'[i] \notin white'
          /\ \A j \in 1 .. Len(stack') : \A i \in 1 .. j - 1 :
               stack'[i] # stack'[j] /\ stack'[j] \in Reach(stack'[i])
      <4>1. CASE n \in white /\ Enter(n)
        <5>1. n \in Successors(graph, Top)
          BY <3>1, <3>2 DEF PathInv
        <5> QED BY <3>1, <4>1, <5>1, EnterPath
      <4>2. CASE white' = white /\ stack' = stack
        BY <4>2 DEF PathInv
      <4> QED BY <2>7, <4>1, <4>2 DEF Look
    <3> QED BY <3>1, <3>3, <3>4 DEF PathInv, Reach
  <2>8. CASE Leave
    <3>1. /\ graph' = graph /\ pc = "cycles" /\ pc' = "cycles" /\ white' = white /\ todo' = todo
          /\ Len(stack') \in Nat /\ Len(stack) = Len(stack') + 1
          /\ \A i \in 1 .. Len(stack') : stack'[i] = stack[i]
      BY <2>8, PathShrinks DEF Leave
    <3>2. /\ \A i \in 1 .. Len(stack') : stack'[i] \notin white'
          /\ \A j \in 1 .. Len(stack') : \A i \in 1 .. j - 1 :
               stack'[i] # stack'[j] /\ stack'[j] \in Reach(stack'[i])
      BY <3>1 DEF PathInv
    <3> QED BY <3>1, <3>2 DEF PathInv, Reach
  <2>9. CASE Return
    BY <2>9 DEF Return, PathInv, Reach
  <2>10. CASE UNCHANGED vars
    BY <2>10 DEF vars, PathInv, Reach
  <2> QED BY <2>1, <2>2, <2>3, <2>4, <2>5, <2>6, <2>7, <2>8, <2>9, <2>10 DEF Next
<1> QED BY <1>1, <1>2, TypeCorrect, PTL DEF Spec

THEOREM FindingsKept == Spec => []FindingsInv
<1>1. Init => FindingsInv
  BY DEF Init, FindingsInv, NoIssues
<1>2. TypeOK /\ FindingsInv /\ PathInv /\ SearchInv /\ [Next]_vars => FindingsInv'
  <2> SUFFICES ASSUME TypeOK, FindingsInv, PathInv, SearchInv, [Next]_vars
               PROVE FindingsInv'
    OBVIOUS
  <2>1. CASE Scan
    <3>1. issues = NoIssues /\ graph' = graph
      BY <2>1 DEF Scan, SearchInv
    <3>2. CASE graph.nodes = {}
      BY <2>1, <3>1, <3>2 DEF Scan, FindingsInv, NoIssues
    <3>3. CASE graph.nodes # {}
      <4>1. /\ pc' = "forward"
            /\ issues'.dangling = Dangling(graph)
            /\ issues'.duplicate = Duplicates(graph)
            /\ issues'.orphan = Orphans(graph)
            /\ issues'.noFinal = (graph.finals = {})
            /\ issues'.unreachable = issues.unreachable
            /\ issues'.cycles = issues.cycles
        BY <2>1, <3>3 DEF Scan, TypeOK
      <4>2. issues.unreachable = {} /\ issues.cycles = {}
        BY <3>1 DEF NoIssues
      <4> QED BY <3>1, <4>1, <4>2 DEF FindingsInv
    <3> QED BY <3>2, <3>3
  <2>2. ASSUME NEW n \in graph.nodes, Visit(n) PROVE FindingsInv'
    BY <2>2 DEF Visit, FindingsInv
  <2>3. CASE JudgeFinals
    <3>1. /\ issues'.dangling = issues.dangling /\ issues'.duplicate = issues.duplicate
          /\ issues'.orphan = issues.orphan /\ issues'.noFinal = issues.noFinal
          /\ issues'.cycles = issues.cycles
      BY <2>3 DEF JudgeFinals, TypeOK
    <3> QED BY <2>3, <3>1 DEF JudgeFinals, FindingsInv
  <2>4. ASSUME NEW n \in graph.nodes, VisitBack(n) PROVE FindingsInv'
    BY <2>4 DEF VisitBack, FindingsInv
  <2>5. CASE SearchCycles
    BY <2>5 DEF SearchCycles, FindingsInv
  <2>6. ASSUME NEW n \in graph.nodes, Root(n) PROVE FindingsInv'
    BY <2>6 DEF Root, FindingsInv
  <2>7. ASSUME NEW n \in graph.nodes, Look(n) PROVE FindingsInv'
    <3>1. pc = "cycles" /\ pc' = "cycles" /\ graph' = graph
      BY <2>7 DEF Look
    <3>2. CASE issues' = issues
      BY <3>1, <3>2 DEF FindingsInv
    <3>3. CASE /\ n \in OnPath
               /\ issues' = [issues EXCEPT !.cycles = @ \cup {Cycle(n)}]
      <4>1. n \in Cycle(n)
        BY <2>7, <3>3, BackEdgeClosesCycle DEF Look
      <4>2. /\ issues'.dangling = issues.dangling /\ issues'.duplicate = issues.duplicate
            /\ issues'.orphan = issues.orphan /\ issues'.noFinal = issues.noFinal
            /\ issues'.cycles = issues.cycles \cup {Cycle(n)}
        BY <3>3 DEF TypeOK
      <4> QED BY <3>1, <4>1, <4>2 DEF FindingsInv
    <3> QED BY <2>7, <3>2, <3>3 DEF Look, OnPath
  <2>8. CASE Leave
    BY <2>8 DEF Leave, FindingsInv
  <2>9. CASE Return
    BY <2>9 DEF Return, FindingsInv
  <2>10. CASE UNCHANGED vars
    BY <2>10 DEF vars, FindingsInv
  <2> QED BY <2>1, <2>2, <2>3, <2>4, <2>5, <2>6, <2>7, <2>8, <2>9, <2>10 DEF Next
<1> QED BY <1>1, <1>2, TypeCorrect, PathCorrect, SearchesCorrect, PTL DEF Spec

(* Every reported cycle is one, and no final status is reached from it.    *)
THEOREM CyclesAreDead == Spec => []ReportedCyclesAreDead
<1>1. Init => ReportedCyclesAreDead
  BY DEF Init, NoIssues, ReportedCyclesAreDead
<1>2. TypeOK /\ PathInv /\ SearchInv /\ ReportedCyclesAreDead /\ [Next]_vars
        => ReportedCyclesAreDead'
  <2> SUFFICES ASSUME TypeOK, PathInv, SearchInv, ReportedCyclesAreDead, [Next]_vars
               PROVE ReportedCyclesAreDead'
    OBVIOUS
  <2>1. ASSUME NEW n \in graph.nodes, Look(n) PROVE ReportedCyclesAreDead'
    <3>1. pc = "cycles" /\ graph' = graph
      BY <2>1 DEF Look
    <3>2. CASE issues' = issues
      BY <3>1, <3>2 DEF ReportedCyclesAreDead
    <3>3. CASE /\ n \in OnPath /\ Cycle(n) \cap canReachFinal = {}
               /\ issues' = [issues EXCEPT !.cycles = @ \cup {Cycle(n)}]
      <4>1. issues'.cycles = issues.cycles \cup {Cycle(n)}
        BY <3>3 DEF TypeOK
      <4>2. \A x \in Cycle(n) : Cycle(n) \subseteq Reach(x)
        BY <2>1, <3>3, BackEdgeClosesCycle DEF Look
      <4>3. Cycle(n) \subseteq graph.nodes
        BY DEF Cycle, TypeOK
      <4>4. Cycle(n) \subseteq Dead(graph)
        BY <3>1, <3>3, <4>3 DEF Dead, SearchInv
      <4> QED BY <3>1, <4>1, <4>2, <4>4 DEF ReportedCyclesAreDead, Reach
    <3> QED BY <2>1, <3>2, <3>3 DEF Look, OnPath
  <2>2. CASE Scan
    <3>1. issues.cycles = {}
      BY <2>2 DEF Scan, SearchInv, NoIssues
    <3>2. issues'.cycles = issues.cycles
      BY <2>2 DEF Scan, TypeOK
    <3> QED BY <3>1, <3>2 DEF ReportedCyclesAreDead
  <2>3. CASE JudgeFinals
    <3>1. issues'.cycles = issues.cycles /\ graph' = graph
      BY <2>3 DEF JudgeFinals, TypeOK
    <3> QED BY <3>1 DEF ReportedCyclesAreDead
  <2>4. CASE issues' = issues /\ graph' = graph
    BY <2>4 DEF ReportedCyclesAreDead
  <2> QED BY <2>1, <2>2, <2>3, <2>4
          DEF Next, Visit, VisitBack, SearchCycles, Root, Leave, Return, vars
<1> QED BY <1>1, <1>2, TypeCorrect, PathCorrect, SearchesCorrect, PTL DEF Spec

(* As long as no cycle is reported there is none behind the search.        *)
LEMMA VisitedAfterLook ==
  ASSUME graph' = graph, white' = white, stack' = stack
  PROVE  Visited' = Visited
BY DEF Visited, OnPath

LEMMA UnchangedAcyclic ==
  ASSUME AcyclicInv, graph' = graph, white' = white, stack' = stack, todo' = todo,
         issues'.cycles = issues.cycles
  PROVE  AcyclicInv'
BY VisitedAfterLook DEF AcyclicInv, Reach

THEOREM NoCycleBehind == Spec => []AcyclicInv
<1>1. Init => AcyclicInv
  <2> SUFFICES ASSUME Init PROVE AcyclicInv
    OBVIOUS
  <2>1. stack = <<>> /\ Visited = {}
    BY DEF Init, Visited
  <2> QED BY <2>1 DEF AcyclicInv
<1>2. TypeOK /\ PathInv /\ SearchInv /\ AcyclicInv /\ [Next]_vars => AcyclicInv'
  <2> SUFFICES ASSUME TypeOK, PathInv, SearchInv, AcyclicInv, [Next]_vars
               PROVE AcyclicInv'
    OBVIOUS
  <2>1. CASE Scan
    <3>1. issues'.cycles = issues.cycles
      BY <2>1 DEF Scan, TypeOK
    <3> QED BY <2>1, <3>1, UnchangedAcyclic DEF Scan
  <2>2. CASE JudgeFinals
    <3>1. issues'.cycles = issues.cycles
      BY <2>2 DEF JudgeFinals, TypeOK
    <3> QED BY <2>2, <3>1, UnchangedAcyclic DEF JudgeFinals
  <2>3. ASSUME NEW n \in graph.nodes, Visit(n) \/ VisitBack(n) PROVE AcyclicInv'
    BY <2>3, UnchangedAcyclic DEF Visit, VisitBack
  <2>4. CASE SearchCycles \/ Return \/ UNCHANGED vars
    BY <2>4, UnchangedAcyclic DEF SearchCycles, Return, vars
  <2>5. ASSUME NEW n \in graph.nodes, Root(n) PROVE AcyclicInv'
    <3>1. /\ graph' = graph /\ issues' = issues /\ todo' = todo
          /\ stack = <<>> /\ n \in white /\ Enter(n)
      BY <2>5 DEF Root
    <3>2. Visited' = Visited
      BY <3>1, EnterPath
    <3>3. Len(stack') = 1 /\ stack'[1] = n /\ Len(stack) = 0
      BY <3>1, PathGrows DEF TypeOK
    <3>4. todo[n] = Successors(graph, n)
      BY <3>1 DEF PathInv
    <3>5. \A i \in 1 .. Len(stack') : i = 1
      BY <3>3
    <3> QED BY <3>1, <3>2, <3>3, <3>4, <3>5 DEF AcyclicInv, Reach
  <2>6. ASSUME NEW n \in graph.nodes, Look(n) PROVE AcyclicInv'
    <3>1. /\ graph' = graph /\ pc = "cycles" /\ stack # <<>> /\ n \in todo[Top]
          /\ todo' = [todo EXCEPT ![Top] = @ \ {n}]
      BY <2>6 DEF Look
    <3>2. /\ stack \in Seq(graph.nodes) /\ Len(stack) \in Nat \ {0}
          /\ \A i \in 1 .. Len(stack) : stack[i] \in graph.nodes /\ stack[i] \notin white
          /\ Top = stack[Len(stack)] /\ Top \in graph.nodes
          /\ n \in Successors(graph, Top)
      BY <3>1 DEF TypeOK, Top, PathInv
    <3>3. \A i \in 1 .. Len(stack) : i # Len(stack) => todo'[stack[i]] = todo[stack[i]]
      BY <3>1, <3>2 DEF TypeOK, PathInv
    <3>4. Successors(graph, Top) \ todo'[Top]
            = (Successors(graph, Top) \ todo[Top]) \cup {n}
      BY <3>1, <3>2 DEF TypeOK
    <3>5. CASE n \in OnPath
      <4>1. stack' = stack /\ white' = white
        BY <2>6, <3>5 DEF Look, OnPath
      <4>2. CASE Top \in Dead(graph)
        <5>1. n \in Dead(graph)
          BY <3>2, <4>2, DeadIsClosed
        <5>2. Cycle(n) \subseteq Dead(graph)
          BY <3>1, <3>5, <5>1, BackEdgeClosesCycle, DeadReachesDead
        <5>3. Cycle(n) \cap canReachFinal = {}
          BY <3>1, <5>2 DEF SearchInv, Dead
        <5>4. issues' = [issues EXCEPT !.cycles = @ \cup {Cycle(n)}]
          BY <2>6, <3>5, <5>3 DEF Look, OnPath
        <5>5. issues'.cycles # {}
          BY <5>4 DEF TypeOK
        <5> QED BY <5>5 DEF AcyclicInv
      <4>3. CASE Top \notin Dead(graph)
        <5>1. issues'.cycles = {} => issues.cycles = {}
          <6>1. \/ issues' = issues
                \/ issues' = [issues EXCEPT !.cycles = @ \cup {Cycle(n)}]
            BY <2>6 DEF Look
          <6> QED BY <6>1 DEF TypeOK
        <5>2. Visited' = Visited
          BY <3>1, <4>1, VisitedAfterLook
        <5> QED BY <3>1, <3>2, <3>3, <4>1, <4>3, <5>1, <5>2 DEF AcyclicInv, Reach
      <4> QED BY <4>2, <4>3
    <3>6. CASE n \notin OnPath /\ n \in white
      <4>1. Enter(n) /\ issues' = issues
        BY <2>6, <3>6 DEF Look, OnPath
      <4>2. Visited' = Visited
        BY <3>1, <3>2, <3>6, <4>1, EnterPath
      <4>3. /\ Len(stack') = Len(stack) + 1
            /\ \A i \in 1 .. Len(stack) : stack'[i] = stack[i]
            /\ stack'[Len(stack) + 1] = n
        BY <4>1, PathGrows
      <4>4. todo'[n] = Successors(graph, n)
        BY <3>1, <3>2, <3>6 DEF TypeOK, PathInv
      <4>5. ASSUME issues.cycles = {}, NEW i \in 1 .. Len(stack'),
                   stack'[i] \in Dead(graph)
            PROVE  Successors(graph, stack'[i]) \ todo'[stack'[i]]
                     \subseteq Visited \cup
                               (IF i < Len(stack') THEN {stack'[i + 1]} ELSE {})
        <5>1. CASE i = Len(stack) + 1
          BY <4>3, <4>4, <5>1
        <5>2. CASE i = Len(stack)
          <6>1. Successors(graph, Top) \ todo[Top] \subseteq Visited
            BY <3>2, <4>3, <4>5, <5>2 DEF AcyclicInv
          <6> QED BY <3>2, <3>4, <4>3, <5>2, <6>1
        <5>3. CASE i < Len(stack)
          <6>1. i \in 1 .. Len(stack) /\ i + 1 \in 1 .. Len(stack) /\ i < Len(stack')
            BY <3>2, <4>3, <5>3
          <6>2. stack'[i] = stack[i] /\ stack'[i + 1] = stack[i + 1]
            BY <4>3, <6>1
          <6>3. todo'[stack[i]] = todo[stack[i]]
            BY <3>3, <5>3, <6>1
          <6> QED BY <4>5, <5>3, <6>1, <6>2, <6>3 DEF AcyclicInv
        <5> QED BY <3>2, <4>3, <5>1, <5>2, <5>3
      <4> QED BY <3>1, <4>1, <4>2, <4>5 DEF AcyclicInv, Reach
    <3>7. CASE n \notin OnPath /\ n \notin white
      <4>1. stack' = stack /\ white' = white /\ issues' = issues
        BY <2>6, <3>7 DEF Look, OnPath
      <4>2. n \in Visited /\ Visited' = Visited
        BY <3>1, <3>7, <4>1, VisitedAfterLook DEF Visited
      <4> QED BY <3>1, <3>2, <3>3, <3>4, <4>1, <4>2 DEF AcyclicInv, Reach
    <3> QED BY <3>5, <3>6, <3>7
  <2>7. CASE Leave
    <3>1. /\ graph' = graph /\ issues' = issues /\ todo' = todo /\ stack # <<>>
          /\ stack' = SubSeq(stack, 1, Len(stack) - 1) /\ todo[Top] = {}
      BY <2>7 DEF Leave
    <3>2. Top \in graph.nodes /\ Top \notin Visited /\ Visited' = Visited \cup {Top}
      BY <2>7, LeavePath
    <3>3. /\ Len(stack) \in Nat \ {0} /\ Len(stack') = Len(stack) - 1
          /\ \A i \in 1 .. Len(stack) - 1 : stack'[i] = stack[i]
      BY <3>1, PathShrinks
    <3>4. ASSUME issues.cycles = {}, Top \in Dead(graph)
          PROVE  Successors(graph, Top) \subseteq Visited /\ Top \notin Reach(Top)
      <4>1. Successors(graph, Top) \subseteq Visited
        BY <3>1, <3>3, <3>4 DEF AcyclicInv, Top
      <4> DEFINE C == Visited \cap Dead(graph)
      <4>2. C \in SUBSET graph.nodes /\ Successors(graph, Top) \subseteq C
        BY <3>4, <4>1, DeadIsClosed DEF Dead
      <4>3. \A k \in C : Successors(graph, k) \subseteq C
        BY <3>4, DeadIsClosed DEF AcyclicInv
      <4>4. Reach(Top) \subseteq C
        BY <4>2, <4>3, ReachableIsLeast DEF Reach
      <4> QED BY <3>2, <4>1, <4>4
    <3>5. ASSUME issues.cycles = {}, NEW i \in 1 .. Len(stack'),
                 stack'[i] \in Dead(graph)
          PROVE  Successors(graph, stack'[i]) \ todo'[stack'[i]]
                   \subseteq Visited' \cup
                             (IF i < Len(stack') THEN {stack'[i + 1]} ELSE {})
      <4>1. i \in 1 .. Len(stack) /\ i < Len(stack) /\ stack'[i] = stack[i]
        BY <3>3
      <4>2. Successors(graph, stack[i]) \ todo[stack[i]] \subseteq Visited \cup {stack[i + 1]}
        BY <3>5, <4>1 DEF AcyclicInv
      <4>3. CASE i + 1 = Len(stack)
        BY <3>1, <3>2, <4>1, <4>2, <4>3 DEF Top
      <4>4. CASE i + 1 # Len(stack)
        <5>1. i < Len(stack') /\ stack'[i + 1] = stack[i + 1]
          BY <3>3, <4>1, <4>4
        <5> QED BY <3>1, <3>2, <4>1, <4>2, <5>1
      <4> QED BY <4>3, <4>4
    <3> QED BY <3>1, <3>2, <3>4, <3>5 DEF AcyclicInv, Reach
  <2> QED BY <2>1, <2>2, <2>3, <2>4, <2>5, <2>6, <2>7 DEF Next
<1> QED BY <1>1, <1>2, TypeCorrect, PathCorrect, SearchesCorrect, PTL DEF Spec

(* UNREACHABLE_FINAL is reported for exactly the unreachable final         *)
(* statuses of any graph.                                                  *)
THEOREM UnreachableReported == Spec => []UnreachableIsExact
<1>1. SearchInv => UnreachableIsExact
  BY DEF SearchInv
<1> QED BY <1>1, SearchesCorrect, PTL

(* The search ends with every node visited.                               *)
DoneInv == pc = "done" /\ graph.nodes # {} => white = {} /\ stack = <<>>

THEOREM DoneCorrect == Spec => []DoneInv
<1>1. Init => DoneInv
  BY DEF Init, DoneInv
<1>2. DoneInv /\ [Next]_vars => DoneInv'
  BY DEF DoneInv, Next, vars, Scan, Visit, JudgeFinals, VisitBack, SearchCycles,
         Root, Look, Leave, Return
<1> QED BY <1>1, <1>2, PTL DEF Spec

(* Validation lets a graph pass exactly when no rule forbids it.           *)
THEOREM VerdictCorrect == Spec => []VerdictIsExact
<1>1. TypeOK /\ DoneInv /\ FindingsInv /\ SearchInv /\ AcyclicInv /\ ReportedCyclesAreDead
        => VerdictIsExact
  <2> SUFFICES ASSUME TypeOK, DoneInv, FindingsInv, SearchInv, AcyclicInv,
                      ReportedCyclesAreDead, pc = "done"
               PROVE  issues # NoIssues <=> Raises(graph)
    BY DEF VerdictIsExact
  <2>1. CASE graph.nodes = {}
    BY <2>1 DEF SearchInv, Raises
  <2>2. CASE graph.nodes # {}
    <3>1. /\ issues.dangling = Dangling(graph)
          /\ issues.duplicate = Duplicates(graph)
          /\ issues.orphan = Orphans(graph)
          /\ issues.noFinal = (graph.finals = {})
          /\ issues.unreachable = Unreachable(graph)
      BY <2>2 DEF FindingsInv, SearchInv, UnreachableIsExact
    <3>2. issues.cycles = {} <=> Dead(graph) \cap OnCycle(graph) = {}
      <4>1. ASSUME issues.cycles = {}, NEW n \in Dead(graph)
            PROVE  n \notin OnCycle(graph)
        BY <2>2, <4>1 DEF DoneInv, AcyclicInv, Visited, OnPath, OnCycle, Reach, Dead
      <4>2. ASSUME NEW c \in issues.cycles
            PROVE  Dead(graph) \cap OnCycle(graph) # {}
        <5>1. PICK n \in c : TRUE
          BY <4>2 DEF FindingsInv
        <5>2. n \in Dead(graph) /\ n \in ReachableFrom(graph, Successors(graph, n))
          BY <4>2 DEF ReportedCyclesAreDead
        <5>3. n \in graph.nodes
          BY <5>2 DEF Dead
        <5> QED BY <5>2, <5>3 DEF OnCycle
      <4> QED BY <4>1, <4>2
    <3>3. issues # NoIssues <=>
            \/ issues.dangling # {} \/ issues.duplicate # {} \/ issues.orphan # {}
            \/ issues.noFinal \/ issues.unreachable # {} \/ issues.cycles # {}
      <4>1. /\ NoIssues.dangling = {} /\ NoIssues.duplicate = {}
            /\ NoIssues.orphan = {} /\ NoIssues.noFinal = FALSE
            /\ NoIssues.unreachable = {} /\ NoIssues.cycles = {}
        BY DEF NoIssues
      <4>2. issues \in [dangling : SUBSET graph.edges, duplicate : SUBSET graph.edges,
                        orphan : SUBSET graph.nodes, noFinal : BOOLEAN,
                        unreachable : SUBSET graph.nodes,
                        cycles : SUBSET SUBSET graph.nodes]
        BY DEF TypeOK
      <4>3. issues.dangling = {} /\ issues.duplicate = {} /\ issues.orphan = {}
            /\ issues.noFinal = FALSE /\ issues.unreachable = {} /\ issues.cycles = {}
              => issues = NoIssues
        BY <4>2 DEF NoIssues
      <4>4. issues.noFinal \in BOOLEAN
        BY <4>2
      <4> QED BY <4>1, <4>3, <4>4
    <3> QED BY <2>2, <3>1, <3>2, <3>3 DEF Raises
  <2> QED BY <2>1, <2>2
<1> QED BY <1>1, TypeCorrect, DoneCorrect, FindingsKept, SearchesCorrect,
           NoCycleBehind, CyclesAreDead, PTL
==============================================================================
