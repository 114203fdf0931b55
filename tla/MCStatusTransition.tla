-------------------------- MODULE MCStatusTransition --------------------------
(* Small instances of StatusTransition: a workflow with a loop back, a guard *)
(* of either kind, an authorization group and a setStatus action.            *)
EXTENDS StatusTransition, TLC

CONSTANTS c1, c2,                     \* cases
          new, busy, closed, elsewhere,  \* statusTypes
          handler, boss,               \* users
          a, b                         \* requests

Alike == Permutations(Requests)

MCTransitions == {"take", "close", "reopen"}
MCFrom == [t \in MCTransitions |-> CASE t = "take" -> new
                                     [] t = "close" -> busy
                                     [] t = "reopen" -> AnyStatus]
MCTo == [t \in MCTransitions |-> CASE t = "take" -> busy
                                   [] t = "close" -> closed
                                   [] t = "reopen" -> new]
MCAllowed == [t \in MCTransitions |-> IF t = "close" THEN {boss} ELSE {}]
MCEffect == [t \in MCTransitions |-> IF t = "take" THEN closed ELSE NoEffect]
MCTemplate == [c \in Cases |-> IF c = c1 THEN MCTransitions ELSE {"take", "reopen"}]
OneCase == {<<c1>>}

(* For the run about execute() alone: one transition, with a from-status.   *)
OnlyTake == [c \in Cases |-> {"take"}]

(* A single case, a list of two, and one that is too long. *)
Lists == {<<c1>>, <<c2, c1>>, <<c1, c2, c1>>}

(* The second case is only there to be in a list: nothing happens to it but *)
(* one list's transition, and the other request then executes one as well,  *)
(* for a user who may execute all: who may not is turned away before a save *)
(* and gets single requests.                                                *)
Listed(r) == Len(todo[r]) = 2 \/ outcome[r][c2] # "none"
Quiet ==
  /\ ~stored[c2].field /\ ~checklist[c2]
  /\ \A r \in Requests :
       /\ Len(todo[r]) = 2 => \A q \in Requests :
            /\ call[q].kind = "execute"
            /\ pc[q] # "idle" => call[q].user = boss
            /\ Listed(q) => q = r
       /\ call[r].kind = "free" => c2 \notin {todo[r][i] : i \in DOMAIN todo[r]}
==============================================================================
