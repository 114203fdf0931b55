------------------------------ MODULE HumanStep ------------------------------
(***************************************************************************)
(* The human steps of the flow run that walks a case: askPerson creates a  *)
(* task, requestDecision raises a decision in Decidiq, and either parks    *)
(* the run until that row is answered.  Completing the row signals the     *)
(* run, if nothing goes wrong; a heartbeat reads the row anyway.           *)
(*                                                                         *)
(* The flow engine is OpenRegister's.  It works through a suspended run in *)
(* passes; a pass enters every step that is parked, one after the other,   *)
(* stores what each of them remembers, and takes the signal away.  A crash *)
(* loses what the step it hits has not stored.                             *)
(***************************************************************************)
EXTENDS Naturals, Sequences, FiniteSets

CONSTANTS
  Asks,        \* the askPerson steps of the run, each on a branch of its own
  Decisions,   \* its requestDecision steps
  People,      \* who may complete a task
  Assignees,   \* per askPerson step, who is asked
  Decidiq,     \* who concludes decisions
  None,
  MaxRounds,   \* per step: it is entered anew until it was answered so often
  MaxFaults    \* crashes, failed creations, refused reads and deletions, at most

Steps == Asks \cup Decisions

ASSUME HumanStepAssumption ==
  /\ Asks \cap Decisions = {}
  /\ Assignees \in [Asks -> SUBSET People]
  /\ Decidiq \notin People
  /\ None \notin People \cup {Decidiq}
  /\ MaxRounds \in [Steps -> Nat] /\ MaxFaults \in Nat

VARIABLES
  row,       \* per step, the tasks or decisions it made, in order
  slot,      \* resume slot: the row a step waits on (its number), or 0
  at,        \* where the branch of a step is
  run,       \* the run: suspended, running, failed or done
  signal,    \* context.signal: what woke the run, or None
  identity,  \* whether the run names an acting identity (runAs)
  answer,    \* history: what each step put on the items, in order
  orphans,   \* history: rows that no slot ever came to name
  faults     \* history: faults so far

vars == <<row, slot, at, run, signal, identity, answer, orphans, faults>>

Row == [state : {"open", "answered", "withdrawn", "gone"},
        by : People \cup {Decidiq, None}, told : BOOLEAN]
Answer == [row : Nat \ {0}, by : People \cup {None}]

Init ==
  /\ row = [n \in Steps |-> <<>>]
  /\ slot = [n \in Steps |-> 0]
  /\ at = [n \in Steps |-> "parked"]
  /\ run = "suspended"
  /\ signal = None
  /\ identity \in BOOLEAN
  /\ answer = [n \in Steps |-> <<>>]
  /\ orphans = {}
  /\ faults = 0
------------------------------------------------------------------------------
(* A pass of the engine.                                                    *)

(* The worker takes up a suspended run: signalled, or its heartbeat is due. *)
Wake ==
  /\ run = "suspended"
  /\ run' = "running"
  /\ at' = [n \in Steps |-> IF at[n] = "parked" THEN "due" ELSE at[n]]
  /\ UNCHANGED <<row, slot, signal, identity, answer, orphans, faults>>

EndPass ==
  /\ run = "running"
  /\ \A n \in Steps : at[n] \in {"parked", "through"}
  /\ run' = IF \A n \in Steps : at[n] = "through" THEN "done" ELSE "suspended"
  /\ signal' = None
  /\ UNCHANGED <<row, slot, at, identity, answer, orphans, faults>>

(* A branch that went on comes back to its step, as the completeness loop.  *)
ComeBack(n) ==
  /\ run = "running" /\ at[n] = "through"
  /\ Len(answer[n]) < MaxRounds[n]
  /\ at' = [at EXCEPT ![n] = "due"]
  /\ UNCHANGED <<row, slot, run, signal, identity, answer, orphans, faults>>

(* execute() of a step, once no other one is in the middle of it.           *)
Entered(n) ==
  /\ run = "running" /\ at[n] = "due"
  /\ \A m \in Steps : at[m] # "made"

Fault == faults < MaxFaults /\ faults' = faults + 1

NewRow(n) == row' = [row EXCEPT ![n] = Append(@, [state |-> "open", by |-> None, told |-> TRUE])]

(* A slip: a heartbeat asks again, as if nothing waited.                    *)
createTaskAnew(n) ==
  /\ Entered(n)
  /\ NewRow(n)
  /\ at' = [at EXCEPT ![n] = "made"]
  /\ UNCHANGED <<slot, run, signal, identity, answer, orphans, faults>>

(* createTask() and raise(): first the row is written ...                   *)
createTask(n) ==
  /\ Entered(n) /\ slot[n] = 0
  /\ NewRow(n)
  /\ at' = [at EXCEPT ![n] = "made"]
  /\ UNCHANGED <<slot, run, signal, identity, answer, orphans, faults>>

(* ... and then the slot is stored, as the step suspends.                   *)
suspension(n) ==
  /\ run = "running" /\ at[n] = "made"
  /\ slot' = [slot EXCEPT ![n] = Len(row[n])]
  /\ at' = [at EXCEPT ![n] = "parked"]
  /\ UNCHANGED <<row, run, signal, identity, answer, orphans, faults>>

(* Nothing was written, or what was written cannot be identified: the step  *)
(* fails, and the run with it.                                              *)
CannotCreate(n) ==
  /\ Entered(n) /\ slot[n] = 0
  /\ Fault
  /\ run' = "failed"
  /\ \/ UNCHANGED <<row, orphans>>
     \/ /\ NewRow(n)
        /\ orphans' = orphans \cup {<<n, Len(row[n]) + 1>>}
  /\ UNCHANGED <<slot, at, signal, identity, answer>>

Park(n) == at' = [at EXCEPT ![n] = "parked"] /\ UNCHANGED <<slot, run, answer>>

(* The row decides; what woke the run is merged in, whatever it was about.  *)
answerFor(n) ==
  [row |-> slot[n], by |-> IF signal = None THEN None ELSE signal.by]

(* A slip: the slot outlives the answer.                                    *)
AdvanceKeepingSlot(n) ==
  /\ answer' = [answer EXCEPT ![n] = Append(@, answerFor(n))]
  /\ at' = [at EXCEPT ![n] = "through"]
  /\ UNCHANGED <<slot, run>>

Advance(n) ==
  /\ answer' = [answer EXCEPT ![n] = Append(@, answerFor(n))]
  /\ slot' = [slot EXCEPT ![n] = 0]
  /\ at' = [at EXCEPT ![n] = "through"]
  /\ UNCHANGED run

StepFails == run' = "failed" /\ UNCHANGED <<slot, at, answer>>

Readable(n) == n \in Asks \/ identity

(* Slips: the signal is taken for the answer, whatever the row says; or, as *)
(* it once was, a run without its signal waits on.                          *)
executeOnSignal(n) ==
  /\ Entered(n) /\ slot[n] # 0 /\ Readable(n)
  /\ IF signal # None /\ signal.step = n THEN Advance(n) ELSE Park(n)
  /\ UNCHANGED <<row, signal, identity, orphans, faults>>

executeWhenSignalled(n) ==
  /\ Entered(n) /\ slot[n] # 0 /\ Readable(n)
  /\ IF signal # None /\ row[n][slot[n]].state = "answered" THEN Advance(n) ELSE Park(n)
  /\ UNCHANGED <<row, signal, identity, orphans, faults>>

(* A re-entry reads the row the slot names.                                 *)
execute(n) ==
  /\ Entered(n) /\ slot[n] # 0 /\ Readable(n)
  /\ LET state == row[n][slot[n]].state IN
       \/ state = "open" /\ Park(n)
       \/ state = "answered" /\ Advance(n)
       \/ state \in {"withdrawn", "gone"} /\ StepFails
  /\ UNCHANGED <<row, signal, identity, orphans, faults>>

(* The store or Decidiq cannot be reached, or there is no identity to ask   *)
(* as: wait for another heartbeat.                                          *)
Unreadable(n) ==
  /\ Entered(n) /\ slot[n] # 0
  /\ Park(n)
  /\ UNCHANGED <<row, signal, identity, orphans, faults>>

(* Decidiq does not report to that identity.                                *)
Refused(n) ==
  /\ Entered(n) /\ slot[n] # 0
  /\ n \in Decisions /\ identity
  /\ Fault
  /\ StepFails
  /\ UNCHANGED <<row, signal, identity, orphans>>

Visit(n) ==
  createTask(n) \/ suspension(n) \/ CannotCreate(n) \/ execute(n) \/ Unreadable(n) \/ Refused(n)

(* The worker dies.  The run is taken up again where it was stored.         *)
Crash ==
  /\ run = "running"
  /\ Fault
  /\ run' = "suspended"
  /\ at' = [n \in Steps |-> IF at[n] = "through" THEN "through" ELSE "parked"]
  /\ orphans' = orphans \cup {<<n, Len(row[n])>> : n \in {m \in Steps : at[m] = "made"}}
  /\ UNCHANGED <<row, slot, signal, identity, answer>>
------------------------------------------------------------------------------
(* The world outside: people and Decidiq, and the listeners they set off.   *)

Write(n, k, r) ==
  /\ row' = [row EXCEPT ![n][k] = r]
  /\ UNCHANGED <<slot, at, run, identity, answer, orphans>>

Open(n, k) == row[n][k].state = "open"

(* Anyone may complete a task, its assignee or not.                         *)
complete(n, k) ==
  /\ Open(n, k)
  /\ \E p \in IF n \in Asks THEN People ELSE {Decidiq} :
       Write(n, k, [state |-> "answered", by |-> p, told |-> FALSE])
  /\ UNCHANGED <<signal, faults>>

(* Only Decidiq announces a withdrawal.                                     *)
withdraw(n, k) ==
  /\ Open(n, k)
  /\ Write(n, k, [state |-> "withdrawn", by |-> None, told |-> n \in Asks])
  /\ UNCHANGED <<signal, faults>>

delete(n, k) ==
  /\ row[n][k].state # "gone"
  /\ Fault
  /\ Write(n, k, [row[n][k] EXCEPT !.state = "gone"])
  /\ UNCHANGED signal

(* The engine's guard on the assignee of the step the task names, which is  *)
(* nobody's once the step went on; a decision must be in a slot.            *)
Deliverable(n, k) ==
  /\ run = "suspended"
  /\ IF n \in Asks THEN slot[n] = 0 \/ row[n][k].by \in Assignees[n] ELSE slot[n] = k

(* The listener of a completion (or a conclusion), some time after it.  The *)
(* signal of a task says who completed it.                                  *)
handle(n, k) ==
  /\ ~row[n][k].told
  /\ Write(n, k, [row[n][k] EXCEPT !.told = TRUE])
  /\ IF Deliverable(n, k)
       THEN signal' = [step |-> n, by |-> IF n \in Asks THEN row[n][k].by ELSE None]
       ELSE UNCHANGED signal
  /\ UNCHANGED faults

(* It throws, or the process dies before it.                                *)
SignalLost(n, k) ==
  /\ ~row[n][k].told
  /\ Write(n, k, [row[n][k] EXCEPT !.told = TRUE])
  /\ UNCHANGED <<signal, faults>>

Outside(n, k) ==
  complete(n, k) \/ withdraw(n, k) \/ delete(n, k) \/ handle(n, k) \/ SignalLost(n, k)

Next ==
  \/ Wake \/ EndPass \/ Crash
  \/ \E n \in Steps : Visit(n) \/ ComeBack(n)
  \/ \E n \in Steps : \E k \in DOMAIN row[n] : Outside(n, k)

(* Heartbeats come, a pass that runs goes on, and a row can be read now and *)
(* then.  Nobody needs to answer, and no signal needs to arrive.            *)
Fairness ==
  /\ WF_vars(Wake) /\ WF_vars(EndPass)
  /\ \A n \in Steps : WF_vars(Visit(n)) /\ SF_vars(execute(n))

Spec == Init /\ [][Next]_vars /\ Fairness
------------------------------------------------------------------------------
(* Types; a slot names a row of its step, and a branch went on only from an *)
(* empty one.                                                               *)
TypeOK ==
  /\ row \in [Steps -> Seq(Row)]
  /\ slot \in [Steps -> Nat]
  /\ at \in [Steps -> {"parked", "due", "made", "through"}]
  /\ run \in {"suspended", "running", "failed", "done"}
  /\ signal \in {None} \cup [step : Steps, by : People \cup {None}]
  /\ identity \in BOOLEAN
  /\ answer \in [Steps -> Seq(Answer)]
  /\ \A o \in orphans : o[1] \in Steps /\ o[2] \in DOMAIN row[o[1]]
  /\ faults \in 0 .. MaxFaults
  /\ \A n \in Steps : slot[n] # 0 => slot[n] \in DOMAIN row[n] /\ at[n] \in {"parked", "due"}

Used(n) == {answer[n][i].row : i \in DOMAIN answer[n]}

(* Nobody is asked twice: every row a step made is the one it waits on, is  *)
(* about to be, or gave its answer; only a fault leaves another one behind, *)
(* however many heartbeats, signals and answers come in between             *)
(* (DossiqAskPersonNode::createTask, DossiqRequestDecisionNode::raise).     *)
AskedOnce ==
  /\ \A n \in Steps : \A k \in DOMAIN row[n] :
       \/ k = slot[n] \/ (at[n] = "made" /\ k = Len(row[n]))
       \/ k \in Used(n) \/ <<n, k>> \in orphans
  /\ Cardinality(orphans) <= faults

Completed(p) == \E m \in Asks : \E k \in DOMAIN row[m] : row[m][k].by = p

(* A run goes on only with an answer somebody gave, to the question of that *)
(* very step and round, and with each answer once: a signal that is late,   *)
(* or meant for another step, answers nothing (execute(), onReEntry()).     *)
(* Whoever it is said to be from completed a task of the run, though maybe  *)
(* another one: all steps of a pass are handed the same signal.             *)
AnswersAreTrue ==
  \A n \in Steps : \A i \in DOMAIN answer[n] :
    /\ answer[n][i].row \in DOMAIN row[n]
    /\ row[n][answer[n][i].row].by # None
    /\ \A j \in 1 .. i - 1 : answer[n][j].row < answer[n][i].row
    /\ answer[n][i].by # None => Completed(answer[n][i].by)

(* What was answered moves the run on, whether its signal arrived, was      *)
(* refused, came while the run was busy, or was lost; or the run fails.     *)
(* Decisions need an identity to be read as.                                *)
Awaited(n, k) == slot[n] = k /\ run # "failed"
AnswerArrives ==
  \A n \in Steps : \A k \in 1 .. MaxRounds[n] + MaxFaults :
    (Awaited(n, k) /\ Readable(n) /\ row[n][k].state = "answered") ~> ~Awaited(n, k)
==============================================================================
