------------------------------ MODULE MCCasePlan ------------------------------
(* A small case model for CasePlan: a stage within a stage, an optional task, *)
(* tasks that wait for one another, a milestone outside the stages, and exit  *)
(* criteria on a stage, a task and the milestone.                             *)
EXTENDS CasePlan

CONSTANTS root, none, illegal

Waits(i, s) == [after |-> {<<i, s>>}, on |-> {}, given |-> {}]
Hears(k, e, v) == [after |-> {}, on |-> {<<k, e>>}, given |-> {<<k, v>>}]

MCItems == {"handling", "review", "check", "visit", "decide", "reported"}
MCOrder == <<"handling", "review", "check", "visit", "decide", "reported">>
MCKind == [i \in MCItems |-> CASE i \in {"handling", "review"} -> "stage"
                               [] i = "reported" -> "milestone"
                               [] OTHER -> "humanTask"]
MCParent == [i \in MCItems |-> CASE i \in {"handling", "reported"} -> root
                                 [] i \in {"check", "visit"} -> "review"
                                 [] OTHER -> "handling"]
MCDiscretionary == {"visit"}
MCEntry == [i \in MCItems |-> CASE i = "visit" -> {Hears("urgent", "set", "yes")}
                                [] i = "decide" -> {Waits("review", "completed")}
                                [] i = "reported" -> {Waits("visit", "completed"),
                                                      Waits("decide", "completed")}
                                [] OTHER -> {}]
MCExit == [i \in MCItems |-> CASE i = "handling" -> {Hears("urgent", "changed", "withdrawn")}
                               [] i = "check" -> {Waits("visit", "terminated")}
                               [] i = "reported" -> {Waits("handling", "terminated")}
                               [] OTHER -> {}]
==============================================================================
