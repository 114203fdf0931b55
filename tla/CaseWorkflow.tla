----------------------------- MODULE CaseWorkflow -----------------------------
(***************************************************************************)
(* The configuration the status-transition engine works on: a case type's  *)
(* statuses, the transitions of its published workflow templates with      *)
(* their guards, authorization groups and setStatus actions, and the users *)
(* who act on cases.                                                       *)
(***************************************************************************)
CONSTANTS
  Cases,        \* the cases in the register
  Statuses,     \* the statusTypes of their case type
  Transitions,  \* the transitions of the published workflow templates
  Users,        \* the users who call the API
  Admins,       \* members of the procest-admin or admin group
  AnyStatus,    \* an empty `fromStatus`: the transition starts anywhere
  NoEffect,     \* a transition without a setStatus action
  From,         \* fromStatus of a transition, or AnyStatus
  To,           \* toStatus of a transition
  NeedsField,   \* transitions with a requiredField guard
  Allowed,      \* users in the frozen authorization groups; {} is open
  Effect,       \* status a setStatus action of the transition writes
  Template,     \* the transitions of the workflow a case runs on
  InitialStatus \* the status of a new case

ASSUME CaseWorkflowAssumption ==
  /\ Admins \subseteq Users
  /\ NoEffect \notin Statuses
  /\ From \in [Transitions -> Statuses \cup {AnyStatus}]
  /\ To \in [Transitions -> Statuses]
  /\ NeedsField \subseteq Transitions
  /\ Allowed \in [Transitions -> SUBSET Users]
  /\ Effect \in [Transitions -> Statuses \cup {NoEffect}]
  /\ Template \in [Cases -> SUBSET Transitions]
  /\ InitialStatus \in Statuses

(* An open transition, an administrator, or a member of a listed group. *)
GroupAuthorized(t, u) == Allowed[t] = {} \/ u \in Admins \/ u \in Allowed[t]

(* The entry the history of a case gains with a write of its status. *)
MoveEntry(kind, user, from, to) ==
  [kind |-> kind, user |-> user, from |-> from, to |-> to]
===============================================================================
