---------------------------- MODULE CaseLifecycle ----------------------------
(***************************************************************************)
(* What the status-transition engine promises about a case, with every     *)
(* request reduced to one atomic step: a case only moves along a           *)
(* transition of its own workflow whose guard holds at the moment of the   *)
(* move and which the acting user may perform, by an administrator's       *)
(* free-form move, or as the configured effect of such a transition; and   *)
(* nobody but an editor of the case changes the field the guard reads.     *)
(***************************************************************************)
EXTENDS CaseWorkflow, Naturals, Sequences

VARIABLES
  status,  \* case.status
  field,   \* whether the field the requiredField guard names is filled
  moves    \* per case, every write of case.status so far, oldest first

lifecycleVars == <<status, field, moves>>

Record(c, kind, user, to) ==
  /\ status' = [status EXCEPT ![c] = to]
  /\ moves' = [moves EXCEPT ![c] = Append(@, MoveEntry(kind, user, status[c], to))]
  /\ UNCHANGED field

Move(c, t, u) ==
  /\ t \in Template[c]
  /\ From[t] \in {AnyStatus, status[c]}
  /\ t \in NeedsField => field[c]
  /\ GroupAuthorized(t, u)
  /\ Record(c, "transition", u, To[t])

FreeMove(c, s, u) ==
  /\ u \in Admins
  /\ Record(c, "free", u, s)

EffectMove(c, t, u) ==
  /\ t \in Template[c]
  /\ Effect[t] # NoEffect
  /\ GroupAuthorized(t, u)
  /\ Record(c, "effect", u, Effect[t])

EditField(c, value) ==
  /\ field' = [field EXCEPT ![c] = value]
  /\ UNCHANGED <<status, moves>>

Init ==
  /\ status = [c \in Cases |-> InitialStatus]
  /\ field = [c \in Cases |-> FALSE]
  /\ moves = [c \in Cases |-> <<>>]

Next ==
  \E c \in Cases :
    \/ \E u \in Users : \/ \E t \in Transitions : Move(c, t, u) \/ EffectMove(c, t, u)
                        \/ \E s \in Statuses : FreeMove(c, s, u)
    \/ \E value \in BOOLEAN : EditField(c, value)

Spec == Init /\ [][Next]_lifecycleVars
==============================================================================
