---------------------------- MODULE WorkflowGraph ----------------------------
(***************************************************************************)
(* validateWorkflowGraph() of the workflow editor, which publish waits     *)
(* for: a pass over nodes and edges, a search forward from the starting    *)
(* statuses, a search backward from the final ones and a depth-first       *)
(* search for cycles, each loop turn a step.  Both queues are sets (an id  *)
(* that waits twice is skipped the second time), and the lists of nodes    *)
(* and edges are taken in any order, so no result may depend on it.        *)
(***************************************************************************)
EXTENDS WorkflowRules, Sequences

CONSTANT Graphs \* the graphs an editor may hand over

ASSUME GraphsAssumption ==
  \A g \in Graphs : g.finals \subseteq g.nodes

VARIABLES
  graph,   \* the argument
  pc,      \* which loop is running
  issues,  \* what was found so far, per code
  queue,   \* bfsQueue, then revQueue
  reached, \* reachableFromInitial
  canReachFinal,
  white,   \* colour WHITE: not visited yet
  stack,   \* colour GRAY: the path the depth-first search is on
  todo     \* per node of the path, the successors it has not looked at yet

vars == <<graph, pc, issues, queue, reached, canReachFinal, white, stack, todo>>

NoIssues == [dangling |-> {}, duplicate |-> {}, orphan |-> {}, noFinal |-> FALSE,
             unreachable |-> {}, cycles |-> {}]

Init ==
  /\ graph \in Graphs
  /\ pc = "scan"
  /\ issues = NoIssues
  /\ queue = {} /\ reached = {} /\ canReachFinal = {}
  /\ white = graph.nodes
  /\ stack = <<>>
  /\ todo = [n \in graph.nodes |-> Successors(graph, n)]
------------------------------------------------------------------------------
Scan ==
  /\ pc = "scan"
  /\ IF graph.nodes = {}
     THEN pc' = "done" /\ UNCHANGED <<issues, queue>>
     ELSE /\ pc' = "forward"
          /\ issues' = [issues EXCEPT !.dangling = Dangling(graph),
                                      !.duplicate = Duplicates(graph),
                                      !.orphan = Orphans(graph),
                                      !.noFinal = graph.finals = {}]
          /\ queue' = Starts(graph)
  /\ UNCHANGED <<graph, reached, canReachFinal, white, stack, todo>>

(* A slip: what waits is not compared with what was reached.               *)
VisitAgain(n) ==
  /\ pc = "forward" /\ n \in queue
  /\ reached' = reached \cup {n}
  /\ queue' = (queue \ {n}) \cup Successors(graph, n)
  /\ UNCHANGED <<graph, pc, issues, canReachFinal, white, stack, todo>>

Visit(n) ==
  /\ pc = "forward" /\ n \in queue
  /\ IF n \in reached
     THEN queue' = queue \ {n} /\ UNCHANGED reached
     ELSE /\ reached' = reached \cup {n}
          /\ queue' = (queue \ {n}) \cup Successors(graph, n)
  /\ UNCHANGED <<graph, pc, issues, canReachFinal, white, stack, todo>>

JudgeFinals ==
  /\ pc = "forward" /\ queue = {}
  /\ pc' = "backward"
  /\ issues' = [issues EXCEPT !.unreachable = graph.finals \ reached]
  /\ canReachFinal' = graph.finals
  /\ queue' = graph.finals
  /\ UNCHANGED <<graph, reached, white, stack, todo>>

(* A slip: only the direct predecessors of a final status are looked at.   *)
VisitBackOnce(n) ==
  /\ pc = "backward" /\ n \in queue
  /\ canReachFinal' = canReachFinal \cup Predecessors(graph, n)
  /\ queue' = queue \ {n}
  /\ UNCHANGED <<graph, pc, issues, reached, white, stack, todo>>

VisitBack(n) ==
  /\ pc = "backward" /\ n \in queue
  /\ canReachFinal' = canReachFinal \cup Predecessors(graph, n)
  /\ queue' = (queue \ {n}) \cup (Predecessors(graph, n) \ canReachFinal)
  /\ UNCHANGED <<graph, pc, issues, reached, white, stack, todo>>

SearchCycles ==
  /\ pc = "backward" /\ queue = {}
  /\ pc' = "cycles"
  /\ UNCHANGED <<graph, issues, queue, reached, canReachFinal, white, stack, todo>>
------------------------------------------------------------------------------
(* dfs(): entering a node, looking along one of its transitions, leaving.  *)
Top == stack[Len(stack)]

Enter(n) ==
  /\ stack' = Append(stack, n)
  /\ white' = white \ {n}

Root(n) ==
  /\ pc = "cycles" /\ stack = <<>> /\ n \in white
  /\ Enter(n)
  /\ UNCHANGED <<graph, pc, issues, queue, reached, canReachFinal, todo>>

(* A slip: the cycle is the whole path, not the part from the node on that *)
(* the back edge leads to.                                                 *)
WholePath(n) == {stack[i] : i \in 1 .. Len(stack)}

(* stack.slice(stack.indexOf(n)) *)
Cycle(n) ==
  {stack[i] : i \in {j \in 1 .. Len(stack) : \E k \in 1 .. j : stack[k] = n}}

Look(n) ==
  /\ pc = "cycles" /\ stack # <<>> /\ n \in todo[Top]
  /\ todo' = [todo EXCEPT ![Top] = @ \ {n}]
  /\ IF \E i \in 1 .. Len(stack) : stack[i] = n
     THEN /\ issues' = IF Cycle(n) \cap canReachFinal = {}
                       THEN [issues EXCEPT !.cycles = @ \cup {Cycle(n)}]
                       ELSE issues
          /\ UNCHANGED <<white, stack>>
     ELSE /\ IF n \in white THEN Enter(n) ELSE UNCHANGED <<white, stack>>
          /\ UNCHANGED issues
  /\ UNCHANGED <<graph, pc, queue, reached, canReachFinal>>

Leave ==
  /\ pc = "cycles" /\ stack # <<>> /\ todo[Top] = {}
  /\ stack' = SubSeq(stack, 1, Len(stack) - 1)
  /\ UNCHANGED <<graph, pc, issues, queue, reached, canReachFinal, white, todo>>

Return ==
  /\ pc = "cycles" /\ stack = <<>> /\ white = {}
  /\ pc' = "done"
  /\ UNCHANGED <<graph, issues, queue, reached, canReachFinal, white, stack, todo>>

Next ==
  \/ Scan \/ JudgeFinals \/ SearchCycles \/ Leave \/ Return
  \/ \E n \in graph.nodes : Visit(n) \/ VisitBack(n) \/ Root(n) \/ Look(n)

Spec == Init /\ [][Next]_vars

(* A function of JavaScript runs to its end before anything else does.     *)
FairSpec == Spec /\ WF_vars(Next)
------------------------------------------------------------------------------
(* Every variable stays within the graph: the path has no node twice and   *)
(* none that is still white.                                               *)
TypeOK ==
  /\ graph.finals \subseteq graph.nodes
  /\ pc \in {"scan", "forward", "backward", "cycles", "done"}
  /\ issues \in [dangling : SUBSET graph.edges, duplicate : SUBSET graph.edges,
                  orphan : SUBSET graph.nodes, noFinal : BOOLEAN,
                  unreachable : SUBSET graph.nodes, cycles : SUBSET SUBSET graph.nodes]
  /\ queue \subseteq graph.nodes
  /\ reached \subseteq graph.nodes
  /\ canReachFinal \subseteq graph.nodes
  /\ white \subseteq graph.nodes
  /\ stack \in Seq(graph.nodes)
  /\ todo \in [graph.nodes -> SUBSET graph.nodes]

(* UNREACHABLE_FINAL is reported for exactly the final statuses no path of *)
(* transitions leads to from a status without incoming ones.               *)
UnreachableIsExact ==
  pc \in {"backward", "cycles", "done"} => issues.unreachable = Unreachable(graph)

(* CYCLE_NO_EXIT: every reported set of statuses is a cycle (each leads to *)
(* all others) and none of them can reach a final status.                  *)
ReportedCyclesAreDead ==
  \A c \in issues.cycles :
    /\ c \subseteq Dead(graph)
    /\ \A n \in c : c \subseteq ReachableFrom(graph, Successors(graph, n))

(* The search as a whole: issues are found in exactly the graphs the rules *)
(* forbid, whatever the order of the lists; a graph with a dead cycle is   *)
(* never let through because the cycle was entered from the wrong side.    *)
VerdictIsExact ==
  pc = "done" => (issues # NoIssues <=> Raises(graph))

(* The validation ends for every graph, cycles and all: publish waits for  *)
(* it and the browser does nothing else meanwhile.                         *)
Terminates == <>(pc = "done")
==============================================================================
