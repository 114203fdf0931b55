------------------------------- MODULE CasePlan -------------------------------
(***************************************************************************)
(* The adaptive case plan (CMMN): a tree of stages, human tasks and        *)
(* milestones whose runtime state lives in one field of the case object.   *)
(* Every request loads the case, lets the sentries cascade to a fixed      *)
(* point, makes its own move, cascades again, and saves the whole case in  *)
(* one write; between its load and its save other requests may save.       *)
(*                                                                         *)
(* What a request computes between the two happens in memory, so a request *)
(* is two steps: loadContext, and one step that computes and persists.     *)
(* The case and its model are two reads.  When the second fails the loader *)
(* logs it and the request goes on with no plan items: it finds no sentry  *)
(* to evaluate, and a signal saves its new case file all the same.         *)
(***************************************************************************)
EXTENDS Naturals, Sequences

CONSTANTS
  Items,              \* the plan items of the published caseModel
  Order,              \* planItems, in the order the caseModel lists them
  Kind,               \* per item: stage, humanTask or milestone
  Parent,             \* per item: the stage that contains it, or Root
  Root,
  Discretionary,      \* the optional items
  Entry, Exit,        \* per item: its entryCriteria and exitCriteria
  Keys, Values,       \* the case file
  Unset,              \* the value of a case-file item nobody has set
  MaxCascadeDepth,    \* MAX_CASCADE_DEPTH
  Workers,            \* requests served at the same time
  StoreChecksVersion, \* whether saveObject refuses a stale @self.version
  NoContext,          \* a worker that serves no request
  Illegal             \* an IllegalPlanItemTransitionException was thrown

(* A sentry: the plan items it waits for, the case-file events it waits for, *)
(* and the case-file values it asks for; each part may be empty.             *)
Sentry == [after : SUBSET (Items \X {"completed", "terminated", "disabled"}),
           on    : SUBSET (Keys \X {"set", "changed"}),
           given : SUBSET (Keys \X Values)]

ASSUME CasePlanAssumption ==
  /\ Order \in Seq(Items)
  /\ Kind \in [Items -> {"stage", "humanTask", "milestone"}]
  /\ Root \notin Items
  /\ Parent \in [Items -> Items \cup {Root}]
  /\ Discretionary \subseteq Items
  /\ \A i \in Items : Entry[i] \subseteq Sentry /\ Exit[i] \subseteq Sentry
  /\ Unset \notin Values
  /\ MaxCascadeDepth \in Nat
  /\ StoreChecksVersion \in BOOLEAN

VARIABLES
  plan,      \* casePlanState, as the case object in the store has it
  ctx,       \* per worker, the plan it has loaded
  outdated   \* the workers whose case has been saved since they loaded it

vars == <<plan, ctx, outdated>>

State == {"available", "enabled", "active", "completed", "terminated", "disabled"}

(* unheard is history: a signal whose request had no plan items has changed *)
(* the case file, and no request that had them has saved the plan since.    *)
Plan == [started : BOOLEAN, states : [Items -> State],
         milestones : SUBSET Items, caseFile : [Keys -> Values \cup {Unset}],
         unheard : BOOLEAN]

(* An exception is not a plan. *)
ASSUME IllegalIsNoPlan == Illegal \notin Plan

Init ==
  /\ plan = [started |-> FALSE, states |-> [i \in Items |-> "available"],
             milestones |-> {}, caseFile |-> [k \in Keys |-> Unset],
             unheard |-> FALSE]
  /\ ctx = [w \in Workers |-> NoContext]
  /\ outdated = {}
------------------------------------------------------------------------------
(* PlanItemTransitions and PlanItemTree. *)

isTerminal(s) == s \in {"completed", "terminated", "disabled"}

isLegal(kind, from, to) ==
  IF kind = "milestone"
    THEN from = "available" /\ to \in {"completed", "terminated"}
    ELSE \/ from = "available" /\ to \in {"enabled", "disabled", "terminated"}
         \/ from = "enabled" /\ to \in {"active", "disabled", "terminated"}
         \/ from = "active" /\ to \in {"completed", "terminated"}

Children(s) == {i \in Items : Parent[i] = s}

isParentActive(states, i) == Parent[i] = Root \/ states[Parent[i]] = "active"

stageMandatoryChildrenAllTerminal(states, s) ==
  LET mandatory == Children(s) \ Discretionary
  IN mandatory # {} /\ \A i \in mandatory : isTerminal(states[i])

(* SentryEvaluator: ev holds the keys a signal touched and the ones whose *)
(* value it changed; seen is the plan at the start of the pass.           *)
fires(sentry, seen, ev) ==
  /\ \A p \in sentry.after : seen.states[p[1]] = p[2]
  /\ \A e \in sentry.on : e[1] \in IF e[2] = "changed" THEN ev.changed ELSE ev.touched
  /\ \A g \in sentry.given : seen.caseFile[g[1]] = g[2]

anyFires(sentries, seen, ev) == \E s \in sentries : fires(s, seen, ev)

(* The items below a that are reached from it through items of follow only. *)
Below(a, follow) ==
  LET closed(T) == \A i \in follow : Parent[i] \in T \cup {a} => i \in T
  IN {i \in follow : \A T \in SUBSET follow : closed(T) => i \in T}

(* (variant) the children only *)
SweptOneLevel(states, stage) == {i \in Children(stage) : ~isTerminal(states[i])}

(* forceTerminateChildren: the open children of the stage, and, because    *)
(* terminating a child stage does the same again, the open children of any *)
(* stage among them; a child that is terminal is not looked into.          *)
Swept(states, stage) == Below(stage, {i \in Items : ~isTerminal(states[i])})

(* (variant) an enabled child is left alone *)
UnplannedAvailable(states, stage) ==
  {i \in Children(stage) \cap Discretionary : states[i] = "available"}

(* disableUnplannedDiscretionaryChildren: the optional children of a       *)
(* completed stage that nobody has started.                                *)
Unplanned(states, stage) ==
  {i \in Children(stage) \cap Discretionary : states[i] \in {"available", "enabled"}}

(* PlanItemStateMachine::transition.  A child that may not be disabled (a  *)
(* milestone) makes the transition of its stage throw.                     *)
transition(p, i, to) ==
  LET stage  == Kind[i] = "stage"
      swept  == IF stage /\ to = "terminated" THEN Swept(p.states, i) ELSE {}
      shut   == IF stage /\ to = "completed" THEN Unplanned(p.states, i) ELSE {}
      legal  == /\ isLegal(Kind[i], p.states[i], to)
                /\ \A j \in shut : isLegal(Kind[j], p.states[j], "disabled")
      states == [j \in Items |-> IF j = i THEN to
                                 ELSE IF j \in swept THEN "terminated"
                                 ELSE IF j \in shut THEN "disabled"
                                 ELSE p.states[j]]
      made   == IF Kind[i] = "milestone" /\ to = "completed" THEN {i} ELSE {}
  IN IF legal
       THEN [p EXCEPT !.states = states, !.milestones = @ \cup made]
       ELSE Illegal
------------------------------------------------------------------------------
(* PlanItemCascade. *)

advanceFromAvailable(p, i) ==
  IF Kind[i] = "milestone" THEN transition(p, i, "completed")
  ELSE LET q == transition(p, i, "enabled")
       IN IF i \in Discretionary THEN q ELSE transition(q, i, "active")

(* What one pass does with one item.  The sentries look at the plan as it  *)
(* was when the pass began (seen), everything else at the plan as it is.   *)
visit(p, i, seen, ev) ==
  IF p = Illegal \/ isTerminal(p.states[i]) \/ ~isParentActive(p.states, i) THEN p
  ELSE IF anyFires(Exit[i], seen, ev) THEN transition(p, i, "terminated")
  ELSE IF p.states[i] = "available" /\ (Entry[i] = {} \/ anyFires(Entry[i], seen, ev))
         THEN advanceFromAvailable(p, i)
  ELSE IF /\ p.states[i] = "active" /\ Kind[i] = "stage"
          /\ stageMandatoryChildrenAllTerminal(p.states, i)
         THEN transition(p, i, "completed")
  ELSE p

cascadePass(p, ev) ==
  LET after[n \in 0 .. Len(Order)] ==
        IF n = 0 THEN p ELSE visit(after[n - 1], Order[n], p, ev)
  IN after[Len(Order)]

(* (variant) only one pass *)
runOnePass(p, ev) == IF p = Illegal THEN Illegal ELSE cascadePass(p, ev)

(* Passes until one changes nothing, or until the bound. *)
nextPass(r, ev) ==
  IF ~r.changed THEN r
  ELSE LET q == cascadePass(r.plan, ev) IN [plan |-> q, changed |-> q # r.plan]

run(p, ev) ==
  LET pass[n \in 0 .. MaxCascadeDepth] ==
        IF n = 0 THEN [plan |-> p, changed |-> TRUE] ELSE nextPass(pass[n - 1], ev)
  IN pass[MaxCascadeDepth].plan

NoEvent == [touched |-> {}, changed |-> {}]

ensureInitialized(p) == [p EXCEPT !.started = TRUE, !.unheard = FALSE]

Prepared(p) == run(ensureInitialized(p), NoEvent)
------------------------------------------------------------------------------
(* What each engine method makes of the plan it loaded. *)

Enabled(p, i) ==
  LET q == Prepared(p)
  IN IF q = Illegal \/ i \notin Discretionary THEN Illegal
     ELSE run(transition(q, i, "active"), NoEvent)

HumanTasks == {i \in Items : Kind[i] = "humanTask"}

Finished(p, i, to) ==
  LET q == Prepared(p)
  IN IF q = Illegal THEN Illegal ELSE run(transition(q, i, to), NoEvent)

Updates == UNION {[K -> Values] : K \in SUBSET Keys \ {{}}}

Update(p, u) ==
  [p EXCEPT !.caseFile = [k \in Keys |-> IF k \in DOMAIN u THEN u[k] ELSE p.caseFile[k]]]

EventOf(p, u) == [touched |-> DOMAIN u,
                  changed |-> {k \in DOMAIN u : p.caseFile[k] # u[k]}]

Signalled(p, u) ==
  LET q == Prepared(p)
  IN IF q = Illegal THEN Illegal ELSE run(Update(q, u), EventOf(q, u))

(* With no plan items there is nothing to initialise and nothing to cascade. *)
SignalledUnheard(p, u) == [Update(p, u) EXCEPT !.unheard = TRUE]

enableableDiscretionaryIds(p) ==
  {i \in Discretionary : p.states[i] = "enabled" /\ isParentActive(p.states, i)}
------------------------------------------------------------------------------
(* Requests. *)

loadContext(w) ==
  /\ ctx[w] = NoContext
  /\ ctx' = [ctx EXCEPT ![w] = plan]
  /\ UNCHANGED <<plan, outdated>>

(* (variant) a stale save is accepted *)
RefusedNever(w) == FALSE

(* The store refuses the save of a case that was saved since it was read. *)
Refused(w) == StoreChecksVersion /\ w \in outdated

(* The request of w ends, with the store as it was. *)
leave(w) ==
  /\ ctx' = [ctx EXCEPT ![w] = NoContext]
  /\ outdated' = outdated \ {w}
  /\ UNCHANGED plan

(* (variant) what the engine threw is saved over the plan *)
persistAnything(w, p) ==
  /\ plan' = p
  /\ ctx' = [ctx EXCEPT ![w] = NoContext]
  /\ outdated' = {v \in Workers : v # w /\ ctx[v] # NoContext}

(* It ends with p saved, unless the engine threw or the store refuses it. *)
persist(w, p) ==
  IF p = Illegal \/ Refused(w)
    THEN leave(w)
    ELSE /\ plan' = p
         /\ ctx' = [ctx EXCEPT ![w] = NoContext]
         /\ outdated' = {v \in Workers : v # w /\ ctx[v] # NoContext}

getCasePlan(w) ==
  /\ ctx[w] # NoContext
  /\ IF ctx[w].started /\ Prepared(ctx[w]) = ensureInitialized(ctx[w])
       THEN leave(w)
       ELSE persist(w, Prepared(ctx[w]))

enableDiscretionaryItem(w, i) ==
  /\ ctx[w] # NoContext
  /\ persist(w, Enabled(ctx[w], i))

completeTask(w, i) ==
  /\ ctx[w] # NoContext
  /\ persist(w, Finished(ctx[w], i, "completed"))

terminateTask(w, i) ==
  /\ ctx[w] # NoContext
  /\ persist(w, Finished(ctx[w], i, "terminated"))

signalCaseFileEvent(w, u) ==
  /\ ctx[w] # NoContext
  /\ persist(w, Signalled(ctx[w], u))

(* The same when the plan items could not be read.                         *)
signalWithoutItems(w, u) ==
  /\ ctx[w] # NoContext
  /\ persist(w, SignalledUnheard(ctx[w], u))

(* The other methods then find nothing to save: getCasePlan shows an empty *)
(* plan, the moves throw plan_item_not_found.                              *)
goWithoutItems(w) ==
  /\ ctx[w] # NoContext
  /\ leave(w)

(* Another service saves the case it loaded, with the plan it saw in it: a *)
(* status transition, a setField action.                                   *)
saveCase(w) ==
  /\ ctx[w] # NoContext
  /\ persist(w, ctx[w])

Next ==
  \E w \in Workers :
    \/ loadContext(w) \/ getCasePlan(w) \/ saveCase(w) \/ goWithoutItems(w)
    \/ \E i \in Items : enableDiscretionaryItem(w, i)
    \/ \E i \in HumanTasks : completeTask(w, i) \/ terminateTask(w, i)
    \/ \E u \in Updates : signalCaseFileEvent(w, u) \/ signalWithoutItems(w, u)

Spec == Init /\ [][Next]_vars
------------------------------------------------------------------------------
(* Types of the variables. *)
TypeOK ==
  /\ plan \in Plan
  /\ ctx \in [Workers -> Plan \cup {NoContext}]
  /\ outdated \subseteq {w \in Workers : ctx[w] # NoContext}

(* A plan in the store is at the fixed point of its sentries: reading it   *)
(* again neither changes it nor throws, so that once a plan is started     *)
(* getCasePlan is the read the engine says it is (PlanItemCascade::run),   *)
(* unless a signal went by without its items; the next request that has    *)
(* them settles the plan again.                                            *)
Settled == plan.started /\ ~plan.unheard => cascadePass(plan, NoEvent) = plan

(* The tree is consistent: nothing is open under a terminated stage; under *)
(* a completed one every mandatory child is done and an optional one is    *)
(* open only if somebody started it; elsewhere work is only open in an     *)
(* active stage; and the achieved milestones are the completed ones        *)
(* (PlanItemStateMachine::transition and its two side effects).            *)
OpenUnder(i) == plan.states[i] \in {"enabled", "active"}
TreeConsistent ==
  /\ plan.milestones = {i \in Items : Kind[i] = "milestone" /\ plan.states[i] = "completed"}
  /\ \A i \in {j \in Items : Parent[j] # Root} :
       LET stage == plan.states[Parent[i]]
       IN /\ stage = "terminated" => isTerminal(plan.states[i])
          /\ stage = "completed" =>
               \/ isTerminal(plan.states[i])
               \/ i \in Discretionary /\ plan.states[i] = "active"
          /\ stage \in {"available", "enabled", "disabled"} => ~OpenUnder(i)

(* Reading a plan never throws, and the optional items it then offers are  *)
(* exactly the ones that enabling accepts, although enabling does not look *)
(* at the stage the item is in (enableableDiscretionaryIds against         *)
(* enableDiscretionaryItem).                                               *)
OffersAreExact ==
  LET shown == Prepared(plan)
  IN /\ shown # Illegal
     /\ enableableDiscretionaryIds(shown) = {i \in Items : Enabled(plan, i) # Illegal}

(* Whatever requests overlap, the saved plan only moves forward: a         *)
(* terminal item stays as it is, an item never returns to an earlier       *)
(* state, a milestone once achieved stays achieved                         *)
(* (PlanItemTransitions, CasePlanRepository::persist).                     *)
Rank == [s \in State |-> CASE s = "available" -> 0 [] s = "enabled" -> 1
                           [] s = "active" -> 2 [] OTHER -> 3]
MovesForward ==
  [][ /\ plan.milestones \subseteq plan'.milestones
      /\ \A i \in Items : \/ plan'.states[i] = plan.states[i]
                          \/ Rank[plan.states[i]] < Rank[plan'.states[i]] ]_plan

(* A stage that is terminated has no open item anywhere below it: it      *)
(* "force-terminates every non-terminal descendant"                       *)
(* (PlanItemStateMachine::transition).                                    *)
TerminatedStagesEmpty ==
  \A s \in Items : Kind[s] = "stage" /\ plan.states[s] = "terminated" =>
    \A i \in Below(s, Items) : isTerminal(plan.states[i])
==============================================================================
