----------------------------- MODULE MCHumanStep -----------------------------
(* A small instance of HumanStep: a task that is asked for twice and a       *)
(* decision, side by side; bob may complete the task that alice is asked.    *)
EXTENDS HumanStep

CONSTANTS task, toets,   \* steps of the shipped case flow
          alice, bob     \* people

MCAssignees == [n \in Asks |-> {alice}]
MCRounds == [n \in Steps |-> IF n = task THEN 2 ELSE 1]
==============================================================================
