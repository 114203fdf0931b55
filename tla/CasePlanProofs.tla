---------------------------- MODULE CasePlanProofs ----------------------------
(***************************************************************************)
(* What is proved of CasePlan, for every case model and any number of      *)
(* requests.  A request does a lot to a plan between its load and its      *)
(* save, all of it by the same three means: it starts the plan, sets       *)
(* values of the case file, and makes transitions, in runs of passes over  *)
(* the items.  The proofs therefore speak of sets of plans that these      *)
(* means do not leave (Closed, and Steady for the visits alone): such a    *)
(* set is left by no visit, hence by no pass, no run and no request, and   *)
(* each theorem names the set of plans that says it:                       *)
(*   TypeCorrect, the plans; PlansMoveForward, those further than the plan *)
(*   that was loaded; TreesStayConsistent, those with a consistent tree;   *)
(*   PlansSettle, those at rest; OffersStayExact, those no visit throws in.*)
(***************************************************************************)
EXTENDS CasePlan, FiniteSetTheorems, WellFoundedInduction, TLAPS

(* Induction over numbers, for a set of them.                               *)
LEMMA SmallestNumber ==
  ASSUME NEW T, T \subseteq Nat, T # {}
  PROVE  \E n \in T : \A m \in T : n <= m
  <1>1. PICK n \in T : \A m \in T : ~(<<m, n>> \in OpToRel(<, Nat))
    BY NatLessThanWellFounded, WFMin
  <1>2. ASSUME NEW m \in T PROVE n <= m
    <2>1. <<m, n>> \in OpToRel(<, Nat) <=> m < n
      BY DEF OpToRel
    <2>2. ~(m < n)
      BY <1>1, <2>1
    <2>3. m \in Nat /\ n \in Nat
      OBVIOUS
    <2> QED BY <2>2, <2>3
  <1> QED BY <1>2

LEMMA AllNumbers ==
  ASSUME NEW T, 0 \in T, \A n \in Nat : n \in T => n + 1 \in T
  PROVE  Nat \subseteq T
  <1>1. SUFFICES ASSUME Nat \ T # {} PROVE FALSE
    OBVIOUS
  <1>2. PICK n \in Nat \ T : \A m \in Nat \ T : n <= m
    BY <1>1, SmallestNumber
  <1>3. n - 1 \in Nat /\ n - 1 \notin Nat \ T
    BY <1>2
  <1> QED BY <1>2, <1>3

(* A sequence whose items lie in a set if the first does and each is in it  *)
(* when the one before is.                                                  *)
LEMMA AllOfThem ==
  ASSUME NEW T, NEW m \in Nat, NEW f, f[0] \in T,
         \A n \in 1..m : f[n - 1] \in T => f[n] \in T
  PROVE  f[m] \in T
  <1> DEFINE Done == {n \in Nat : n <= m => f[n] \in T}
  <1>1. 0 \in Done
    OBVIOUS
  <1>2. ASSUME NEW n \in Nat, n \in Done PROVE n + 1 \in Done
    <2>1. SUFFICES ASSUME n + 1 <= m PROVE f[n + 1] \in T
      OBVIOUS
    <2>2. n + 1 \in 1..m /\ (n + 1) - 1 = n /\ n <= m
      BY <2>1
    <2> QED BY <1>2, <2>2
  <1>3. m \in Done
    BY <1>1, <1>2, AllNumbers
  <1> QED BY <1>3
------------------------------------------------------------------------------
(* The plans of a pass, after each of its items.                            *)
afterEach(p, ev, m) ==
  CHOOSE after : after = [n \in 0 .. m |->
                            IF n = 0 THEN p ELSE visit(after[n - 1], Order[n], p, ev)]

PassRecurs(after, p, ev, m) ==
  after = [n \in 0 .. m |-> IF n = 0 THEN p ELSE visit(after[n - 1], Order[n], p, ev)]

LEMMA PassUnfolds ==
  ASSUME NEW p, NEW ev, NEW m \in Nat
  PROVE  PassRecurs(afterEach(p, ev, m), p, ev, m)
  <1> DEFINE Solved == {n \in Nat : \E after : PassRecurs(after, p, ev, n)}
  <1>1. 0 \in Solved
    <2>1. PassRecurs([n \in 0 .. 0 |-> p], p, ev, 0)
      BY DEF PassRecurs
    <2> QED BY <2>1
  <1>2. ASSUME NEW k \in Nat, k \in Solved PROVE k + 1 \in Solved
    <2>1. PICK after : PassRecurs(after, p, ev, k)
      BY <1>2
    <2> DEFINE longer == [n \in 0 .. k + 1 |->
                            IF n = 0 THEN p ELSE visit(after[n - 1], Order[n], p, ev)]
    <2>2. \A n \in 0 .. k : longer[n] = after[n]
      BY <2>1 DEF PassRecurs
    <2>3. \A n \in 0 .. k + 1 : n # 0 => n - 1 \in 0 .. k
      OBVIOUS
    <2>4. longer = [n \in 0 .. k + 1 |->
                      IF n = 0 THEN p ELSE visit(longer[n - 1], Order[n], p, ev)]
      BY <2>2, <2>3
    <2> HIDE DEF longer
    <2>5. PassRecurs(longer, p, ev, k + 1)
      BY <2>4 DEF PassRecurs
    <2> QED BY <2>5
  <1>3. m \in Solved
    BY <1>1, <1>2, AllNumbers
  <1>4. \E after : PassRecurs(after, p, ev, m)
    BY <1>3
  <1> QED BY <1>4 DEF afterEach, PassRecurs

(* The rounds of a run.                                                     *)
Begun(p) == [plan |-> p, changed |-> TRUE]

rounds(p, ev, m) ==
  CHOOSE pass : pass = [n \in 0 .. m |->
                          IF n = 0 THEN Begun(p)
                          ELSE nextPass(pass[n - 1], ev)]

RunRecurs(pass, p, ev, m) ==
  pass = [n \in 0 .. m |->
            IF n = 0 THEN Begun(p) ELSE nextPass(pass[n - 1], ev)]

LEMMA RunUnfolds ==
  ASSUME NEW p, NEW ev, NEW m \in Nat
  PROVE  RunRecurs(rounds(p, ev, m), p, ev, m)
  <1> DEFINE Solved == {n \in Nat : \E pass : RunRecurs(pass, p, ev, n)}
  <1>1. 0 \in Solved
    <2>1. RunRecurs([n \in 0 .. 0 |-> Begun(p)], p, ev, 0)
      BY DEF RunRecurs
    <2> QED BY <2>1
  <1>2. ASSUME NEW k \in Nat, k \in Solved PROVE k + 1 \in Solved
    <2>1. PICK pass : RunRecurs(pass, p, ev, k)
      BY <1>2
    <2> DEFINE longer == [n \in 0 .. k + 1 |->
                            IF n = 0 THEN Begun(p)
                            ELSE nextPass(pass[n - 1], ev)]
    <2>2. \A n \in 0 .. k : longer[n] = pass[n]
      BY <2>1 DEF RunRecurs
    <2>3. \A n \in 0 .. k + 1 : n # 0 => n - 1 \in 0 .. k
      OBVIOUS
    <2>4. longer = [n \in 0 .. k + 1 |->
                      IF n = 0 THEN Begun(p)
                      ELSE nextPass(longer[n - 1], ev)]
      BY <2>2, <2>3
    <2> HIDE DEF longer
    <2>5. RunRecurs(longer, p, ev, k + 1)
      BY <2>4 DEF RunRecurs
    <2> QED BY <2>5
  <1>3. m \in Solved
    BY <1>1, <1>2, AllNumbers
  <1>4. \E pass : RunRecurs(pass, p, ev, m)
    BY <1>3
  <1> QED BY <1>4 DEF rounds, RunRecurs
------------------------------------------------------------------------------
(* A set of plans that no visit leaves is left by no pass, and a set that   *)
(* no pass leaves by no run.                                                *)
LEMMA PassStays ==
  ASSUME NEW S, NEW p \in S, NEW ev, \A q \in S, i \in Items : visit(q, i, p, ev) \in S
  PROVE  cascadePass(p, ev) \in S
  <1> DEFINE m == Len(Order)
             after == afterEach(p, ev, m)
  <1>1. m \in Nat /\ \A n \in 1 .. m : Order[n] \in Items
    BY CasePlanAssumption DEF CasePlanAssumption
  <1>2. cascadePass(p, ev) = after[m]
    BY DEF cascadePass, afterEach
  <1>3. PassRecurs(after, p, ev, m)
    BY <1>1, PassUnfolds
  <1> HIDE DEF m, after
  <1>4. after[0] = p
    BY <1>1, <1>3 DEF PassRecurs
  <1>5. ASSUME NEW n \in 1 .. m, after[n - 1] \in S PROVE after[n] \in S
    <2>1. after[n] = visit(after[n - 1], Order[n], p, ev)
      BY <1>1, <1>3 DEF PassRecurs
    <2> QED BY <1>1, <1>5, <2>1
  <1>6. after[m] \in S
    BY <1>1, <1>4, <1>5, AllOfThem
  <1> QED BY <1>2, <1>6

LEMMA RunStays ==
  ASSUME NEW S, NEW p \in S, NEW ev, \A q \in S : cascadePass(q, ev) \in S
  PROVE  run(p, ev) \in S
  <1> DEFINE m == MaxCascadeDepth
             pass == rounds(p, ev, m)
             R == [plan : S, changed : BOOLEAN]
  <1>1. m \in Nat
    BY CasePlanAssumption DEF CasePlanAssumption
  <1>2. run(p, ev) = pass[m].plan
    BY DEF run, rounds, Begun
  <1>3. RunRecurs(pass, p, ev, m)
    BY <1>1, RunUnfolds
  <1> HIDE DEF m, pass
  <1>4. pass[0] \in R
    <2>1. pass[0] = Begun(p)
      BY <1>1, <1>3 DEF RunRecurs
    <2> QED BY <2>1 DEF Begun
  <1>5. ASSUME NEW n \in 1 .. m, pass[n - 1] \in R PROVE pass[n] \in R
    <2>1. pass[n] = nextPass(pass[n - 1], ev)
      BY <1>1, <1>3 DEF RunRecurs
    <2>2. \A r \in R : nextPass(r, ev) \in R
      BY DEF nextPass
    <2> QED BY <1>5, <2>1, <2>2
  <1> HIDE DEF R
  <1>6. pass[m] \in R
    BY <1>1, <1>4, <1>5, AllOfThem
  <1> QED BY <1>2, <1>6 DEF R
------------------------------------------------------------------------------
(* A transition, part by part: what it terminates and disables besides its  *)
(* item, the milestone it makes, and whether all of that is legal.          *)
SweptBy(p, i, to) ==
  IF Kind[i] = "stage" /\ to = "terminated" THEN Swept(p.states, i) ELSE {}

ShutBy(p, i, to) ==
  IF Kind[i] = "stage" /\ to = "completed" THEN Unplanned(p.states, i) ELSE {}

MadeBy(i, to) == IF Kind[i] = "milestone" /\ to = "completed" THEN {i} ELSE {}

Legal(p, i, to) ==
  /\ isLegal(Kind[i], p.states[i], to)
  /\ \A j \in ShutBy(p, i, to) : isLegal(Kind[j], p.states[j], "disabled")

After(p, i, to) ==
  [j \in Items |-> IF j = i THEN to
                   ELSE IF j \in SweptBy(p, i, to) THEN "terminated"
                   ELSE IF j \in ShutBy(p, i, to) THEN "disabled"
                   ELSE p.states[j]]

LEMMA TransitionIs ==
  ASSUME NEW p, NEW i, NEW to
  PROVE  transition(p, i, to) =
           IF Legal(p, i, to)
             THEN [p EXCEPT !.states = After(p, i, to),
                            !.milestones = p.milestones \cup MadeBy(i, to)]
             ELSE Illegal
  BY DEF transition, Legal, After, SweptBy, ShutBy, MadeBy

LEMMA TransitionMakes ==
  ASSUME NEW p \in Plan, NEW i \in Items, NEW to \in State, Legal(p, i, to)
  PROVE  /\ transition(p, i, to) \in Plan
         /\ transition(p, i, to).states = After(p, i, to)
         /\ transition(p, i, to).milestones = p.milestones \cup MadeBy(i, to)
         /\ transition(p, i, to) # Illegal
  <1> DEFINE states == After(p, i, to)
             milestones == p.milestones \cup MadeBy(i, to)
             q == [p EXCEPT !.states = states, !.milestones = milestones]
  <1>1. states \in [Items -> State]
    BY DEF After, Plan, State
  <1>2. milestones \in SUBSET Items
    BY DEF MadeBy, Plan
  <1>3. transition(p, i, to) = q
    BY TransitionIs
  <1> HIDE DEF states, milestones
  <1>4. q \in Plan /\ q.states = states /\ q.milestones = milestones
    BY <1>1, <1>2 DEF Plan
  <1> QED BY <1>3, <1>4, IllegalIsNoPlan DEF states, milestones

LEMMA TransitionThrows ==
  ASSUME NEW p, NEW i, NEW to, ~Legal(p, i, to)
  PROVE  transition(p, i, to) = Illegal
  BY TransitionIs
------------------------------------------------------------------------------
(* What a request asks of the state machine when it asks for a transition.  *)
Proper(q, i, to) ==
  /\ to \in {"enabled", "active", "completed", "terminated"}
  /\ to = "enabled" => isParentActive(q.states, i)
  /\ (to = "completed" /\ Kind[i] = "stage") => stageMandatoryChildrenAllTerminal(q.states, i)

(* And what a visit of the item asks for.                                   *)
Due(q, i, to) ==
  /\ Proper(q, i, to)
  /\ ~isTerminal(q.states[i])
  /\ to = "enabled" => q.states[i] = "available" /\ Kind[i] # "milestone"
  /\ to = "active" => q.states[i] = "enabled" /\ Kind[i] # "milestone"
  /\ to = "completed" => \/ q.states[i] = "available" /\ Kind[i] = "milestone"
                         \/ q.states[i] = "active" /\ Kind[i] = "stage"

(* A set of plans that no transition of a visit leaves, and one that no     *)
(* part of a request does.                                                  *)
Steady(S) ==
  /\ S \subseteq Plan \cup {Illegal}
  /\ \A q \in S \ {Illegal}, i \in Items, to \in State :
       Due(q, i, to) => transition(q, i, to) \in S

Closed(S) ==
  /\ S \subseteq Plan \cup {Illegal}
  /\ Illegal \in S
  /\ \A q \in S \ {Illegal} :
       /\ ensureInitialized(q) \in S
       /\ \A u \in Updates : Update(q, u) \in S /\ SignalledUnheard(q, u) \in S
       /\ \A i \in Items, to \in State : Proper(q, i, to) => transition(q, i, to) \in S

LEMMA ClosedIsSteady ==
  ASSUME NEW S, Closed(S)
  PROVE  Steady(S)
  BY DEF Closed, Steady, Due

(* A visit leaves it neither: it makes at most two transitions of its item, *)
(* each of which is due.                                                    *)
LEMMA AdvanceStays ==
  ASSUME NEW S, Steady(S), NEW q \in Plan, NEW i \in Items,
         isParentActive(q.states, i), q.states[i] = "available",
         \A to \in State : Due(q, i, to) => transition(q, i, to) \in S
  PROVE  advanceFromAvailable(q, i) \in S
  <1>1. CASE Kind[i] = "milestone"
    <2>1. Due(q, i, "completed")
      BY <1>1 DEF Due, Proper, isTerminal
    <2> QED BY <1>1, <2>1 DEF advanceFromAvailable, State
  <1>2. CASE Kind[i] # "milestone"
    <2> DEFINE on == transition(q, i, "enabled")
    <2>1. Due(q, i, "enabled")
      BY <1>2 DEF Due, Proper, isTerminal
    <2>2. on \in S
      BY <2>1 DEF State
    <2>3. Legal(q, i, "enabled")
      BY <1>2 DEF isLegal, Legal, ShutBy
    <2>4. on # Illegal /\ on.states[i] = "enabled"
      <3>1. on # Illegal /\ on.states = After(q, i, "enabled")
        BY <2>3, TransitionMakes DEF State
      <3>2. After(q, i, "enabled")[i] = "enabled"
        BY DEF After
      <3> QED BY <3>1, <3>2
    <2>5. Due(on, i, "active")
      BY <1>2, <2>4 DEF Due, Proper, isTerminal
    <2> HIDE DEF on
    <2>6. transition(on, i, "active") \in S
      BY <2>2, <2>4, <2>5 DEF Steady, State
    <2>7. advanceFromAvailable(q, i) = IF i \in Discretionary THEN on
                                       ELSE transition(on, i, "active")
      BY <1>2 DEF advanceFromAvailable, on
    <2> QED BY <2>2, <2>6, <2>7
  <1> QED BY <1>1, <1>2

(* So what a visit makes of any plan lies in a set that is left by none of  *)
(* its transitions and that the first of them enters.                       *)
LEMMA VisitMakes ==
  ASSUME NEW S, Steady(S), NEW q \in Plan, NEW i \in Items, NEW seen, NEW ev,
         \A to \in State : Due(q, i, to) => transition(q, i, to) \in S,
         ~isTerminal(q.states[i]), isParentActive(q.states, i)
  PROVE  /\ anyFires(Exit[i], seen, ev) => visit(q, i, seen, ev) \in S
         /\ q.states[i] = "available" /\ (Entry[i] = {} \/ anyFires(Entry[i], seen, ev))
              => visit(q, i, seen, ev) \in S
         /\ (q.states[i] = "active" /\ Kind[i] = "stage"
               /\ stageMandatoryChildrenAllTerminal(q.states, i))
              => visit(q, i, seen, ev) \in S
         /\ visit(q, i, seen, ev) \in S \cup {q}
  <1>0. q # Illegal
    BY IllegalIsNoPlan
  <1>1. transition(q, i, "terminated") \in S
    <2>1. Due(q, i, "terminated")
      BY DEF Due, Proper
    <2> QED BY <2>1 DEF State
  <1>2. q.states[i] = "available" => advanceFromAvailable(q, i) \in S
    BY AdvanceStays
  <1>3. (q.states[i] = "active" /\ Kind[i] = "stage"
           /\ stageMandatoryChildrenAllTerminal(q.states, i))
          => transition(q, i, "completed") \in S
    <2>1. (q.states[i] = "active" /\ Kind[i] = "stage"
             /\ stageMandatoryChildrenAllTerminal(q.states, i))
            => Due(q, i, "completed")
      BY DEF Due, Proper
    <2>2. "completed" \in State
      BY DEF State
    <2> QED BY <2>1, <2>2
  <1> QED BY <1>0, <1>1, <1>2, <1>3 DEF visit

LEMMA VisitStays ==
  ASSUME NEW S, Steady(S), NEW q \in S, NEW i \in Items, NEW seen, NEW ev
  PROVE  visit(q, i, seen, ev) \in S
  <1>1. CASE q = Illegal \/ isTerminal(q.states[i]) \/ ~isParentActive(q.states, i)
    BY <1>1 DEF visit
  <1>2. CASE ~(q = Illegal \/ isTerminal(q.states[i]) \/ ~isParentActive(q.states, i))
    <2>1. q \in Plan /\ \A to \in State : Due(q, i, to) => transition(q, i, to) \in S
      BY <1>2 DEF Steady
    <2>2. visit(q, i, seen, ev) \in S \cup {q}
      BY <1>2, <2>1, VisitMakes
    <2> QED BY <2>2
  <1> QED BY <1>1, <1>2

LEMMA RunsStay ==
  ASSUME NEW S, Steady(S), NEW q \in S, NEW ev
  PROVE  run(q, ev) \in S
  <1>1. ASSUME NEW p \in S PROVE cascadePass(p, ev) \in S
    BY VisitStays, PassStays
  <1> QED BY <1>1, RunStays

(* What a request may save of the plan it loaded.                           *)
Results(p) ==
  {p, Prepared(p)}
    \cup {Enabled(p, i) : i \in Items}
    \cup {Finished(p, t[1], t[2]) : t \in HumanTasks \X {"completed", "terminated"}}
    \cup {Signalled(p, u) : u \in Updates}
    \cup {SignalledUnheard(p, u) : u \in Updates}

LEMMA ResultsStay ==
  ASSUME NEW S, Closed(S), NEW p \in S \ {Illegal}
  PROVE  Results(p) \subseteq S
  <1>0. Illegal \in S /\ Steady(S)
    BY ClosedIsSteady DEF Closed
  <1>1. Prepared(p) \in S
    <2>1. ensureInitialized(p) \in S
      BY DEF Closed
    <2> QED BY <1>0, <2>1, RunsStay DEF Prepared
  <1>2. ASSUME NEW i \in Items PROVE Enabled(p, i) \in S
    <2>1. CASE Prepared(p) = Illegal \/ i \notin Discretionary
      BY <1>0, <2>1 DEF Enabled
    <2>2. CASE ~(Prepared(p) = Illegal \/ i \notin Discretionary)
      <3>1. transition(Prepared(p), i, "active") \in S
        BY <1>1, <2>2 DEF Closed, Proper, State
      <3> QED BY <2>2, <3>1, <1>0, RunsStay DEF Enabled
    <2> QED BY <2>1, <2>2
  <1>3. ASSUME NEW i \in HumanTasks, NEW to \in {"completed", "terminated"}
        PROVE  Finished(p, i, to) \in S
    <2>1. CASE Prepared(p) = Illegal
      BY <1>0, <2>1 DEF Finished
    <2>2. CASE Prepared(p) # Illegal
      <3>1. i \in Items /\ Kind[i] # "stage"
        BY DEF HumanTasks
      <3>2. Proper(Prepared(p), i, to) /\ to \in State
        BY <3>1 DEF Proper, State
      <3>3. transition(Prepared(p), i, to) \in S
        BY <1>1, <2>2, <3>1, <3>2 DEF Closed
      <3> QED BY <2>2, <3>3, <1>0, RunsStay DEF Finished
    <2> QED BY <2>1, <2>2
  <1>4. ASSUME NEW u \in Updates PROVE Signalled(p, u) \in S
    <2>1. CASE Prepared(p) = Illegal
      BY <1>0, <2>1 DEF Signalled
    <2>2. CASE Prepared(p) # Illegal
      <3>1. Update(Prepared(p), u) \in S
        BY <1>1, <2>2 DEF Closed
      <3> QED BY <2>2, <3>1, <1>0, RunsStay DEF Signalled
    <2> QED BY <2>1, <2>2
  <1>5. ASSUME NEW u \in Updates PROVE SignalledUnheard(p, u) \in S
    BY DEF Closed
  <1> QED BY <1>1, <1>2, <1>3, <1>4, <1>5 DEF Results
------------------------------------------------------------------------------
(* A save of r by worker w.                                                 *)
Saves(w, r) ==
  /\ r # Illegal /\ ~Refused(w)
  /\ plan' = r
  /\ ctx' = [ctx EXCEPT ![w] = NoContext]
  /\ outdated' = {v \in Workers : v # w /\ ctx[v] # NoContext}

(* Every step loads a plan, leaves, or saves what a request makes of the    *)
(* plan it loaded.                                                          *)
LEMMA Steps ==
  ASSUME Next
  PROVE  \E w \in Workers :
           \/ loadContext(w)
           \/ ctx[w] # NoContext /\ leave(w)
           \/ ctx[w] # NoContext /\ \E r \in Results(ctx[w]) : Saves(w, r)
  <1>1. PICK w \in Workers :
          \/ loadContext(w) \/ getCasePlan(w) \/ saveCase(w) \/ goWithoutItems(w)
          \/ \E i \in Items : enableDiscretionaryItem(w, i)
          \/ \E i \in HumanTasks : completeTask(w, i) \/ terminateTask(w, i)
          \/ \E u \in Updates : signalCaseFileEvent(w, u) \/ signalWithoutItems(w, u)
    BY DEF Next
  <1>2. ASSUME NEW r \in Results(ctx[w]), persist(w, r) PROVE leave(w) \/ Saves(w, r)
    BY <1>2 DEF persist, Saves
  <1>3. CASE loadContext(w)
    BY <1>3
  <1>4. CASE getCasePlan(w)
    <2>1. Prepared(ctx[w]) \in Results(ctx[w])
      BY DEF Results
    <2>2. ctx[w] # NoContext /\ (leave(w) \/ persist(w, Prepared(ctx[w])))
      BY <1>4 DEF getCasePlan
    <2> QED BY <1>2, <2>1, <2>2
  <1>5. CASE saveCase(w)
    <2>1. ctx[w] \in Results(ctx[w])
      BY DEF Results
    <2>2. ctx[w] # NoContext /\ persist(w, ctx[w])
      BY <1>5 DEF saveCase
    <2> QED BY <1>2, <2>1, <2>2
  <1>6. CASE \E i \in Items : enableDiscretionaryItem(w, i)
    <2>1. PICK i \in Items : enableDiscretionaryItem(w, i)
      BY <1>6
    <2>2. Enabled(ctx[w], i) \in Results(ctx[w])
      BY DEF Results
    <2>3. ctx[w] # NoContext /\ persist(w, Enabled(ctx[w], i))
      BY <2>1 DEF enableDiscretionaryItem
    <2> QED BY <1>2, <2>2, <2>3
  <1>7. CASE \E i \in HumanTasks : completeTask(w, i) \/ terminateTask(w, i)
    <2>1. PICK i \in HumanTasks : completeTask(w, i) \/ terminateTask(w, i)
      BY <1>7
    <2>2. PICK to \in {"completed", "terminated"} :
            ctx[w] # NoContext /\ persist(w, Finished(ctx[w], i, to))
      BY <2>1 DEF completeTask, terminateTask
    <2>3. Finished(ctx[w], i, to) \in Results(ctx[w])
      <3>1. <<i, to>> \in HumanTasks \X {"completed", "terminated"}
        OBVIOUS
      <3>2. <<i, to>>[1] = i /\ <<i, to>>[2] = to
        OBVIOUS
      <3> QED BY <3>1, <3>2 DEF Results
    <2> QED BY <1>2, <2>2, <2>3
  <1>8. CASE \E u \in Updates : signalCaseFileEvent(w, u)
    <2>1. PICK u \in Updates : signalCaseFileEvent(w, u)
      BY <1>8
    <2>2. Signalled(ctx[w], u) \in Results(ctx[w])
      BY DEF Results
    <2>3. ctx[w] # NoContext /\ persist(w, Signalled(ctx[w], u))
      BY <2>1 DEF signalCaseFileEvent
    <2> QED BY <1>2, <2>2, <2>3
  <1>9. CASE \E u \in Updates : signalWithoutItems(w, u)
    <2>1. PICK u \in Updates : signalWithoutItems(w, u)
      BY <1>9
    <2>2. SignalledUnheard(ctx[w], u) \in Results(ctx[w])
      BY DEF Results
    <2>3. ctx[w] # NoContext /\ persist(w, SignalledUnheard(ctx[w], u))
      BY <2>1 DEF signalWithoutItems
    <2> QED BY <1>2, <2>2, <2>3
  <1>10. CASE goWithoutItems(w)
    BY <1>10 DEF goWithoutItems
  <1> QED BY <1>1, <1>3, <1>4, <1>5, <1>6, <1>7, <1>8, <1>9, <1>10
------------------------------------------------------------------------------
(* A case file with new values is one, and nothing else of a plan changes.  *)
LEMMA UpdateMakes ==
  ASSUME NEW p \in Plan, NEW u \in Updates
  PROVE  /\ Update(p, u) \in Plan
         /\ Update(p, u).states = p.states
         /\ Update(p, u).milestones = p.milestones
  <1> DEFINE file == [k \in Keys |-> IF k \in DOMAIN u THEN u[k] ELSE p.caseFile[k]]
  <1>1. PICK K \in SUBSET Keys : u \in [K -> Values]
    BY DEF Updates
  <1>2. p.caseFile \in [Keys -> Values \cup {Unset}]
    BY DEF Plan
  <1>3. file \in [Keys -> Values \cup {Unset}]
    BY <1>1, <1>2
  <1> HIDE DEF file
  <1>4. Update(p, u) = [p EXCEPT !.caseFile = file]
    BY DEF Update, file
  <1> QED BY <1>3, <1>4 DEF Plan

LEMMA UnheardMakes ==
  ASSUME NEW p \in Plan, NEW u \in Updates
  PROVE  /\ SignalledUnheard(p, u) \in Plan
         /\ SignalledUnheard(p, u).states = p.states
         /\ SignalledUnheard(p, u).milestones = p.milestones
         /\ SignalledUnheard(p, u).unheard = TRUE
  BY UpdateMakes DEF SignalledUnheard, Plan

LEMMA InitializedMakes ==
  ASSUME NEW p \in Plan
  PROVE  /\ ensureInitialized(p) \in Plan
         /\ ensureInitialized(p).states = p.states
         /\ ensureInitialized(p).milestones = p.milestones
  BY DEF ensureInitialized, Plan

(* Plans are such a set.                                                    *)
LEMMA PlansClosed == Closed(Plan \cup {Illegal})
  <1>1. ASSUME NEW q \in Plan, NEW i \in Items, NEW to \in State
        PROVE  transition(q, i, to) \in Plan \cup {Illegal}
    BY TransitionMakes, TransitionThrows
  <1> QED BY <1>1, UpdateMakes, UnheardMakes, InitializedMakes DEF Closed

LEMMA ResultsArePlans ==
  ASSUME NEW p \in Plan, NEW r \in Results(p), r # Illegal
  PROVE  r \in Plan
  <1>1. p \in (Plan \cup {Illegal}) \ {Illegal}
    BY IllegalIsNoPlan
  <1>2. Results(p) \subseteq Plan \cup {Illegal}
    BY <1>1, PlansClosed, ResultsStay
  <1> QED BY <1>2

LEMMA TypesInit == Init => TypeOK
  BY DEF Init, TypeOK, Plan, State

LEMMA TypesNext == TypeOK /\ [Next]_vars => TypeOK'
  <1> SUFFICES ASSUME TypeOK, [Next]_vars PROVE TypeOK'
    OBVIOUS
  <1>1. CASE UNCHANGED vars
    BY <1>1 DEF TypeOK, vars
  <1>2. CASE Next
    <2>1. PICK w \in Workers :
            \/ loadContext(w)
            \/ ctx[w] # NoContext /\ leave(w)
            \/ ctx[w] # NoContext /\ \E r \in Results(ctx[w]) : Saves(w, r)
      BY <1>2, Steps
    <2>2. CASE loadContext(w)
      BY <2>2 DEF loadContext, TypeOK
    <2>3. CASE leave(w)
      BY <2>3 DEF leave, TypeOK
    <2>4. ASSUME ctx[w] # NoContext, NEW r \in Results(ctx[w]), Saves(w, r) PROVE TypeOK'
      <3>1. ctx[w] \in Plan
        BY <2>4 DEF TypeOK
      <3>2. plan' \in Plan
        BY <2>4, <3>1, ResultsArePlans DEF Saves
      <3>3. ctx' \in [Workers -> Plan \cup {NoContext}]
        BY <2>4 DEF Saves, TypeOK
      <3>4. outdated' \subseteq {v \in Workers : ctx'[v] # NoContext}
        BY <2>4 DEF Saves, TypeOK
      <3> QED BY <3>2, <3>3, <3>4 DEF TypeOK
    <2> QED BY <2>1, <2>2, <2>3, <2>4
  <1> QED BY <1>1, <1>2

(* Types: whatever requests overlap, what the store holds is a plan; an     *)
(* exception is never saved.                                                *)
THEOREM TypeCorrect == Spec => []TypeOK
  BY TypesInit, TypesNext, PTL DEF Spec
------------------------------------------------------------------------------
(* Plans that are further than another.                                     *)
Forward(p, q) ==
  /\ p.milestones \subseteq q.milestones
  /\ \A i \in Items : q.states[i] = p.states[i] \/ Rank[p.states[i]] < Rank[q.states[i]]

LEMMA Ranks ==
  /\ Rank["available"] = 0 /\ Rank["enabled"] = 1 /\ Rank["active"] = 2
  /\ Rank["completed"] = 3 /\ Rank["terminated"] = 3 /\ Rank["disabled"] = 3
  BY Zenon DEF Rank, State

LEMMA RankIsNat ==
  ASSUME NEW s \in State
  PROVE  Rank[s] \in Nat
  BY Ranks DEF State

LEMMA LegalGoesForward ==
  ASSUME NEW kind, NEW from \in State, NEW to \in State, isLegal(kind, from, to)
  PROVE  Rank[from] < Rank[to]
  <1>1. /\ from \in {"available", "enabled", "active"}
        /\ from = "available" => to \in {"enabled", "completed", "terminated", "disabled"}
        /\ from = "enabled" => to \in {"active", "disabled", "terminated"}
        /\ from = "active" => to \in {"completed", "terminated"}
    BY DEF isLegal
  <1> QED BY <1>1, Ranks

(* What is swept along was open.                                            *)
LEMMA SweptIsOpen ==
  ASSUME NEW p \in Plan, NEW i, NEW to, NEW j \in SweptBy(p, i, to)
  PROVE  j \in Items /\ ~isTerminal(p.states[j]) /\ Kind[i] = "stage" /\ to = "terminated"
  BY DEF SweptBy, Swept, Below

LEMMA TransitionGoesForward ==
  ASSUME NEW p \in Plan, NEW i \in Items, NEW to \in State, Legal(p, i, to)
  PROVE  Forward(p, transition(p, i, to))
  <1>1. /\ transition(p, i, to).states = After(p, i, to)
        /\ p.milestones \subseteq transition(p, i, to).milestones
    BY TransitionMakes
  <1>2. ASSUME NEW j \in Items
        PROVE  After(p, i, to)[j] = p.states[j] \/ Rank[p.states[j]] < Rank[After(p, i, to)[j]]
    <2>0. p.states[j] \in State
      BY DEF Plan
    <2>1. CASE j = i
      <3>1. After(p, i, to)[j] = to
        BY <2>1 DEF After
      <3>2. isLegal(Kind[i], p.states[i], to)
        BY DEF Legal
      <3> QED BY <2>0, <2>1, <3>1, <3>2, LegalGoesForward
    <2>2. CASE j # i /\ j \in SweptBy(p, i, to)
      <3>1. After(p, i, to)[j] = "terminated"
        BY <2>2 DEF After
      <3>2. p.states[j] \in {"available", "enabled", "active"}
        BY <2>0, <2>2, SweptIsOpen DEF isTerminal, State
      <3> QED BY <3>1, <3>2, Ranks
    <2>3. CASE j # i /\ j \notin SweptBy(p, i, to) /\ j \in ShutBy(p, i, to)
      <3>1. After(p, i, to)[j] = "disabled"
        BY <2>3 DEF After
      <3>2. p.states[j] \in {"available", "enabled"}
        BY <2>3 DEF ShutBy, Unplanned
      <3> QED BY <3>1, <3>2, Ranks
    <2>4. CASE j # i /\ j \notin SweptBy(p, i, to) /\ j \notin ShutBy(p, i, to)
      BY <2>4 DEF After
    <2> QED BY <2>1, <2>2, <2>3, <2>4
  <1> QED BY <1>1, <1>2 DEF Forward

LEMMA ForwardOn ==
  ASSUME NEW p \in Plan, NEW q \in Plan, NEW r \in Plan, Forward(p, q), Forward(q, r)
  PROVE  Forward(p, r)
  <1>1. p.milestones \subseteq r.milestones
    BY DEF Forward
  <1>2. ASSUME NEW i \in Items
        PROVE  r.states[i] = p.states[i] \/ Rank[p.states[i]] < Rank[r.states[i]]
    <2>1. /\ Rank[p.states[i]] \in Nat /\ Rank[q.states[i]] \in Nat /\ Rank[r.states[i]] \in Nat
      BY RankIsNat DEF Plan
    <2> QED BY <2>1 DEF Forward
  <1> QED BY <1>1, <1>2 DEF Forward

LEMMA ForwardClosed ==
  ASSUME NEW p \in Plan
  PROVE  Closed({q \in Plan \cup {Illegal} : q = Illegal \/ Forward(p, q)})
  <1> DEFINE S == {q \in Plan \cup {Illegal} : q = Illegal \/ Forward(p, q)}
  <1>1. ASSUME NEW q \in S \ {Illegal} PROVE q \in Plan /\ Forward(p, q)
    OBVIOUS
  <1>2. ASSUME NEW q \in S \ {Illegal}, NEW i \in Items, NEW to \in State
        PROVE  transition(q, i, to) \in S
    <2>1. CASE Legal(q, i, to)
      BY <1>1, <2>1, TransitionMakes, TransitionGoesForward, ForwardOn
    <2>2. CASE ~Legal(q, i, to)
      BY <2>2, TransitionThrows
    <2> QED BY <2>1, <2>2
  <1>3. ASSUME NEW q \in S \ {Illegal} PROVE ensureInitialized(q) \in S
    BY <1>1, InitializedMakes DEF Forward
  <1>4. ASSUME NEW q \in S \ {Illegal}, NEW u \in Updates PROVE Update(q, u) \in S
    BY <1>1, UpdateMakes DEF Forward
  <1>5. ASSUME NEW q \in S \ {Illegal}, NEW u \in Updates PROVE SignalledUnheard(q, u) \in S
    BY <1>1, UnheardMakes DEF Forward
  <1>6. S \subseteq Plan \cup {Illegal} /\ Illegal \in S
    OBVIOUS
  <1> HIDE DEF S
  <1>7. Closed(S)
    BY <1>2, <1>3, <1>4, <1>5, <1>6 DEF Closed
  <1> QED BY <1>7 DEF S

(* Whatever a request makes of a plan is further than that plan.            *)
LEMMA ResultsGoForward ==
  ASSUME NEW p \in Plan, NEW r \in Results(p), r # Illegal
  PROVE  Forward(p, r)
  <1> DEFINE S == {q \in Plan \cup {Illegal} : q = Illegal \/ Forward(p, q)}
  <1>1. p \in S \ {Illegal}
    BY IllegalIsNoPlan DEF Forward
  <1>2. Closed(S)
    BY ForwardClosed
  <1>3. Results(p) \subseteq S
    BY <1>1, <1>2, ResultsStay
  <1> QED BY <1>3

(* A worker whose case nobody saved since holds the plan as it is stored.   *)
Current == \A w \in Workers : ctx[w] # NoContext /\ w \notin outdated => ctx[w] = plan

LEMMA CurrentInit == Init => Current
  BY DEF Init, Current

LEMMA CurrentNext == TypeOK /\ Current /\ [Next]_vars => Current'
  <1> SUFFICES ASSUME TypeOK, Current, [Next]_vars PROVE Current'
    OBVIOUS
  <1>1. CASE UNCHANGED vars
    BY <1>1 DEF Current, vars
  <1>2. CASE Next
    <2>1. PICK w \in Workers :
            \/ loadContext(w)
            \/ ctx[w] # NoContext /\ leave(w)
            \/ ctx[w] # NoContext /\ \E r \in Results(ctx[w]) : Saves(w, r)
      BY <1>2, Steps
    <2>2. CASE loadContext(w)
      BY <2>2 DEF loadContext, Current, TypeOK
    <2>3. CASE leave(w)
      BY <2>3 DEF leave, Current, TypeOK
    <2>4. ASSUME NEW r, Saves(w, r) PROVE Current'
      BY <2>4 DEF Saves, Current, TypeOK
    <2> QED BY <2>1, <2>2, <2>3, <2>4
  <1> QED BY <1>1, <1>2

(* When the store checks versions, overlapping requests only ever move the  *)
(* saved plan forward: a request that saves holds the plan as it is stored, *)
(* and every transition of it, of its cascades and of what they sweep along *)
(* moves an item on.                                                        *)
THEOREM PlansMoveForward ==
  ASSUME StoreChecksVersion = TRUE
  PROVE  Spec => MovesForward
  <1>1. ASSUME TypeOK, Current, [Next]_vars
        PROVE  [ /\ plan.milestones \subseteq plan'.milestones
                 /\ \A i \in Items : \/ plan'.states[i] = plan.states[i]
                                     \/ Rank[plan.states[i]] < Rank[plan'.states[i]] ]_plan
    <2> SUFFICES ASSUME plan' # plan PROVE Forward(plan, plan')
      BY DEF Forward
    <2>1. Next
      BY <1>1 DEF vars
    <2>2. PICK w \in Workers :
            \/ loadContext(w)
            \/ ctx[w] # NoContext /\ leave(w)
            \/ ctx[w] # NoContext /\ \E r \in Results(ctx[w]) : Saves(w, r)
      BY <2>1, Steps
    <2>3. PICK r \in Results(ctx[w]) : ctx[w] # NoContext /\ Saves(w, r)
      BY <2>2 DEF loadContext, leave
    <2>4. w \notin outdated /\ r # Illegal /\ plan' = r
      BY <2>3 DEF Saves, Refused
    <2>5. ctx[w] = plan /\ plan \in Plan
      BY <1>1, <2>3, <2>4 DEF Current, TypeOK
    <2> QED BY <2>3, <2>4, <2>5, ResultsGoForward
  <1> QED BY <1>1, TypesInit, TypesNext, CurrentInit, CurrentNext, PTL DEF Spec, MovesForward
------------------------------------------------------------------------------
(* When every request turns a plan of S into a plan of S, all plans are of  *)
(* S, the ones the requests hold included, so that it does not matter whose *)
(* save comes last.                                                         *)
Everywhere(S) ==
  /\ plan \in S \ {Illegal}
  /\ \A w \in Workers : ctx[w] # NoContext => ctx[w] \in S \ {Illegal}

LEMMA EverywhereNext ==
  ASSUME NEW CONSTANT S, \A p \in S \ {Illegal} : Results(p) \subseteq S,
         TypeOK, Everywhere(S), [Next]_vars
  PROVE  Everywhere(S)'
  <1>1. CASE UNCHANGED vars
    BY <1>1 DEF Everywhere, vars
  <1>2. CASE Next
    <2>1. PICK w \in Workers :
            \/ loadContext(w)
            \/ ctx[w] # NoContext /\ leave(w)
            \/ ctx[w] # NoContext /\ \E r \in Results(ctx[w]) : Saves(w, r)
      BY <1>2, Steps
    <2>2. CASE loadContext(w)
      <3>1. plan' = plan /\ \A v \in Workers : ctx'[v] \in {ctx[v], plan}
        BY <2>2 DEF loadContext, TypeOK
      <3> QED BY <3>1 DEF Everywhere
    <2>3. CASE leave(w)
      <3>1. plan' = plan /\ \A v \in Workers : ctx'[v] \in {ctx[v], NoContext}
        BY <2>3 DEF leave, TypeOK
      <3> QED BY <3>1 DEF Everywhere
    <2>4. ASSUME ctx[w] # NoContext, NEW r \in Results(ctx[w]), Saves(w, r)
          PROVE  Everywhere(S)'
      <3>1. plan' \in S \ {Illegal}
        BY <2>4 DEF Everywhere, Saves
      <3>2. \A v \in Workers : ctx'[v] \in {ctx[v], NoContext}
        BY <2>4 DEF Saves, TypeOK
      <3> QED BY <3>1, <3>2 DEF Everywhere
    <2> QED BY <2>1, <2>2, <2>3, <2>4
  <1> QED BY <1>1, <1>2
------------------------------------------------------------------------------
(* An item that contains another one is a stage (the register's schema      *)
(* says so of parentId; that a parent is an item at all is checked).        *)
StagesContain == \A i \in Items : Parent[i] # Root => Kind[Parent[i]] = "stage"

(* TreeConsistent, of any plan: its milestones, and an item in the state s  *)
(* under a stage in the state above.                                        *)
Achieved(p) ==
  p.milestones = {i \in Items : Kind[i] = "milestone" /\ p.states[i] = "completed"}

Fits(i, s, above) ==
  /\ above = "terminated" => isTerminal(s)
  /\ above = "completed" => isTerminal(s) \/ (i \in Discretionary /\ s = "active")
  /\ above \in {"available", "enabled", "disabled"} => s \notin {"enabled", "active"}

Tree(p) ==
  /\ Achieved(p)
  /\ \A i \in Items : Parent[i] # Root => Fits(i, p.states[i], p.states[Parent[i]])

LEMMA TreeIsConsistent == TreeConsistent <=> Tree(plan)
  BY DEF TreeConsistent, Tree, Achieved, Fits, OpenUnder

(* A terminated stage takes along all of its open children, and theirs.     *)
LEMMA SweptClosed ==
  ASSUME NEW p \in Plan, NEW i \in Items, NEW to, NEW j \in Items,
         Kind[i] = "stage", to = "terminated", ~isTerminal(p.states[j]),
         Parent[j] \in SweptBy(p, i, to) \cup {i}
  PROVE  j \in SweptBy(p, i, to)
  <1> DEFINE open == {k \in Items : ~isTerminal(p.states[k])}
             closed(T) == \A k \in open : Parent[k] \in T \cup {i} => k \in T
             swept == {k \in open : \A T \in SUBSET open : closed(T) => k \in T}
  <1>1. SweptBy(p, i, to) = swept
    BY DEF SweptBy, Swept, Below
  <1>2. j \in open /\ Parent[j] \in swept \cup {i}
    BY <1>1
  <1>3. ASSUME NEW T \in SUBSET open, closed(T) PROVE j \in T
    <2>1. Parent[j] \in T \cup {i}
      BY <1>2, <1>3
    <2> QED BY <1>2, <1>3, <2>1
  <1>4. j \in swept
    BY <1>2, <1>3
  <1> QED BY <1>1, <1>4

(* What an item is after a transition of another one.                       *)
LEMMA OthersAfter ==
  ASSUME NEW p \in Plan, NEW i \in Items, NEW to \in State, NEW j \in Items, j # i
  PROVE  \/ After(p, i, to)[j] = p.states[j]
         \/ /\ ~isTerminal(p.states[j]) /\ to \in {"terminated", "completed"}
            /\ After(p, i, to)[j] \in {"terminated", "disabled"}
  <1>1. CASE j \in SweptBy(p, i, to)
    <2>1. ~isTerminal(p.states[j]) /\ to = "terminated"
      BY <1>1, SweptIsOpen
    <2> QED BY <1>1, <2>1 DEF After
  <1>2. CASE j \notin SweptBy(p, i, to) /\ j \in ShutBy(p, i, to)
    <2>1. ~isTerminal(p.states[j]) /\ to = "completed"
      BY <1>2 DEF ShutBy, Unplanned, isTerminal
    <2> QED BY <1>2, <2>1 DEF After
  <1>3. CASE j \notin SweptBy(p, i, to) /\ j \notin ShutBy(p, i, to)
    BY <1>3 DEF After
  <1> QED BY <1>1, <1>2, <1>3

LEMMA AchievedAfter ==
  ASSUME NEW p \in Plan, NEW i \in Items, NEW to \in State, Legal(p, i, to), Achieved(p)
  PROVE  Achieved(transition(p, i, to))
  <1> DEFINE t == After(p, i, to)
             done == {j \in Items : Kind[j] = "milestone" /\ p.states[j] = "completed"}
  <1>1. /\ transition(p, i, to).states = t
        /\ transition(p, i, to).milestones = done \cup MadeBy(i, to)
    BY TransitionMakes DEF Achieved
  <1>2. ASSUME NEW j \in Items
        PROVE  (Kind[j] = "milestone" /\ t[j] = "completed")
                 <=> j \in done \cup MadeBy(i, to)
    <2>1. CASE j = i
      <3>1. t[j] = to
        BY <2>1 DEF After
      <3>2. Kind[i] = "milestone" => p.states[i] = "available"
        BY DEF Legal, isLegal
      <3> QED BY <2>1, <3>1, <3>2 DEF MadeBy
    <2>2. CASE j # i
      <3>1. t[j] = "completed" <=> p.states[j] = "completed"
        BY <2>2, OthersAfter DEF isTerminal
      <3> QED BY <2>2, <3>1 DEF MadeBy
    <2> QED BY <2>1, <2>2
  <1>3. MadeBy(i, to) \subseteq Items
    BY DEF MadeBy
  <1> HIDE DEF t
  <1>4. done \cup MadeBy(i, to) = {j \in Items : Kind[j] = "milestone" /\ t[j] = "completed"}
    BY <1>2, <1>3
  <1> QED BY <1>1, <1>4 DEF Achieved

(* A child of the item that makes the transition.                           *)
LEMMA ChildFits ==
  ASSUME NEW p \in Plan, NEW i \in Items, NEW to \in State, Legal(p, i, to),
         Proper(p, i, to), Tree(p), Kind[i] = "stage",
         NEW j \in Items, j # i, Parent[j] = i, i # Root
  PROVE  Fits(j, After(p, i, to)[j], to)
  <1> DEFINE t == After(p, i, to)
  <1>1. p.states[j] \in State /\ p.states[i] \in State
    BY DEF Plan
  <1>2. CASE to = "terminated"
    <2>1. CASE isTerminal(p.states[j])
      <3>1. t[j] = p.states[j]
        BY <2>1, OthersAfter
      <3> QED BY <1>2, <2>1, <3>1 DEF Fits
    <2>2. CASE ~isTerminal(p.states[j])
      <3>1. j \in SweptBy(p, i, to)
        BY <1>2, <2>2, SweptClosed
      <3>2. t[j] = "terminated"
        BY <3>1 DEF After
      <3> QED BY <1>2, <3>2 DEF Fits, isTerminal
    <2> QED BY <2>1, <2>2
  <1>3. CASE to = "completed"
    <2>1. CASE isTerminal(p.states[j])
      <3>1. t[j] = p.states[j]
        BY <2>1, OthersAfter
      <3> QED BY <1>3, <2>1, <3>1 DEF Fits
    <2>2. CASE ~isTerminal(p.states[j])
      <3>1. j \in Discretionary
        BY <1>3, <2>2 DEF Proper, stageMandatoryChildrenAllTerminal, Children
      <3>2. t[j] = p.states[j] \/ isTerminal(t[j])
        BY OthersAfter DEF isTerminal
      <3>3. p.states[j] \in {"available", "enabled"} => j \in ShutBy(p, i, to)
        BY <1>3, <3>1 DEF ShutBy, Unplanned, Children
      <3>4. j \notin SweptBy(p, i, to)
        BY <1>3 DEF SweptBy
      <3>5. p.states[j] \in {"available", "enabled"} => t[j] = "disabled"
        BY <3>3, <3>4 DEF After
      <3>6. p.states[j] \in {"available", "enabled", "active"}
        BY <1>1, <2>2 DEF isTerminal, State
      <3> QED BY <1>3, <3>1, <3>2, <3>5, <3>6 DEF Fits, isTerminal
    <2> QED BY <2>1, <2>2
  <1>4. CASE to = "enabled"
    <2>1. p.states[i] = "available"
      BY <1>4 DEF Legal, isLegal
    <2>2. p.states[j] \notin {"enabled", "active"}
      BY <2>1 DEF Tree, Fits
    <2>3. t[j] = p.states[j]
      BY <1>4, OthersAfter
    <2> QED BY <1>4, <2>2, <2>3 DEF Fits
  <1>5. CASE to = "active"
    BY <1>5 DEF Fits
  <1> QED BY <1>2, <1>3, <1>4, <1>5 DEF Proper

(* The item that makes the transition, under a parent of its own.           *)
LEMMA ItemFits ==
  ASSUME NEW p \in Plan, NEW i \in Items, NEW to \in State, Legal(p, i, to),
         Proper(p, i, to), Tree(p), Parent[i] # Root, Parent[i] \in Items
  PROVE  Fits(i, to, After(p, i, to)[Parent[i]])
  <1> DEFINE t == After(p, i, to)
             k == Parent[i]
  <1>1. CASE to \in {"completed", "terminated"}
    BY <1>1 DEF Fits, isTerminal
  <1>2. CASE to \in {"enabled", "active"}
    <2>1. p.states[k] = "active" /\ k # i
      <3>1. CASE to = "enabled"
        <4>1. p.states[i] = "available" /\ p.states[k] = "active"
          BY <3>1 DEF Legal, isLegal, Proper, isParentActive
        <4> QED BY <4>1
      <3>2. CASE to = "active"
        <4>1. p.states[i] = "enabled"
          BY <3>2 DEF Legal, isLegal
        <4>2. Fits(i, p.states[i], p.states[k]) /\ p.states[k] \in State
          BY DEF Tree, Plan
        <4>3. p.states[k] = "active"
          BY <4>1, <4>2 DEF Fits, isTerminal, State
        <4> QED BY <4>1, <4>3
      <3> QED BY <1>2, <3>1, <3>2
    <2>2. t[k] = "active"
      BY <1>2, <2>1, OthersAfter
    <2> QED BY <2>2 DEF Fits
  <1> QED BY <1>1, <1>2 DEF Proper

(* An item and its parent, when the transition is of neither.               *)
LEMMA OthersFit ==
  ASSUME NEW p \in Plan, NEW i \in Items, NEW to \in State, Tree(p),
         NEW j \in Items, j # i, Parent[j] # Root, Parent[j] # i, Parent[j] \in Items
  PROVE  Fits(j, After(p, i, to)[j], After(p, i, to)[Parent[j]])
  <1> DEFINE t == After(p, i, to)
             k == Parent[j]
  <1>1. Fits(j, p.states[j], p.states[k])
    BY DEF Tree
  <1>2. t[j] = p.states[j] \/ (~isTerminal(p.states[j]) /\ isTerminal(t[j]))
    BY OthersAfter DEF isTerminal
  <1>3. CASE k \in SweptBy(p, i, to)
    <2>1. t[k] = "terminated"
      BY <1>3 DEF After
    <2>2. isTerminal(t[j])
      <3>1. CASE isTerminal(p.states[j])
        BY <1>2, <3>1
      <3>2. CASE ~isTerminal(p.states[j])
        <4>1. Kind[i] = "stage" /\ to = "terminated"
          BY <1>3, SweptIsOpen
        <4>2. j \in SweptBy(p, i, to)
          BY <1>3, <3>2, <4>1, SweptClosed
        <4> QED BY <4>2 DEF After, isTerminal
      <3> QED BY <3>1, <3>2
    <2> QED BY <2>1, <2>2 DEF Fits
  <1>4. CASE k \notin SweptBy(p, i, to) /\ k \in ShutBy(p, i, to)
    <2>1. t[k] = "disabled"
      BY <1>4 DEF After
    <2>2. p.states[k] \in {"available", "enabled"}
      BY <1>4 DEF ShutBy, Unplanned
    <2>3. p.states[j] \notin {"enabled", "active"}
      BY <1>1, <2>2 DEF Fits
    <2> QED BY <1>2, <2>1, <2>3 DEF Fits, isTerminal
  <1>5. CASE k \notin SweptBy(p, i, to) /\ k \notin ShutBy(p, i, to)
    <2>1. t[k] = p.states[k]
      BY <1>5 DEF After
    <2> QED BY <1>1, <1>2, <2>1 DEF Fits, isTerminal
  <1> QED BY <1>3, <1>4, <1>5

LEMMA TreeAfter ==
  ASSUME StagesContain, NEW p \in Plan, NEW i \in Items, NEW to \in State, Legal(p, i, to),
         Proper(p, i, to), Tree(p)
  PROVE  Tree(transition(p, i, to))
  <1> DEFINE t == After(p, i, to)
  <1>1. transition(p, i, to).states = t
    BY TransitionMakes
  <1>2. t[i] = to
    BY DEF After
  <1>3. ASSUME NEW j \in Items, Parent[j] # Root PROVE Fits(j, t[j], t[Parent[j]])
    <2>1. Parent[j] \in Items
      BY <1>3, CasePlanAssumption
    <2>2. CASE j = i
      BY <1>2, <1>3, <2>1, <2>2, ItemFits
    <2>3. CASE j # i /\ Parent[j] = i
      BY <1>2, <1>3, <2>3, ChildFits DEF StagesContain
    <2>4. CASE j # i /\ Parent[j] # i
      BY <1>3, <2>1, <2>4, OthersFit
    <2> QED BY <2>2, <2>3, <2>4
  <1>4. Achieved(transition(p, i, to))
    BY AchievedAfter DEF Tree
  <1> QED BY <1>1, <1>3, <1>4 DEF Tree

(* The consistent plans are left by no part of a request.                   *)
ConsistentPlans == {q \in Plan \cup {Illegal} : q # Illegal => Tree(q)}

LEMMA TreesClosed == ASSUME StagesContain PROVE Closed(ConsistentPlans)
  <1> DEFINE S == ConsistentPlans
  <1>1. ASSUME NEW q \in S \ {Illegal} PROVE q \in Plan /\ Tree(q)
    BY DEF ConsistentPlans
  <1>2. ASSUME NEW q \in S \ {Illegal}, NEW i \in Items, NEW to \in State, Proper(q, i, to)
        PROVE  transition(q, i, to) \in S
    <2>1. CASE Legal(q, i, to)
      BY <1>1, <1>2, <2>1, TransitionMakes, TreeAfter DEF ConsistentPlans
    <2>2. CASE ~Legal(q, i, to)
      BY <2>2, TransitionThrows DEF ConsistentPlans
    <2> QED BY <2>1, <2>2
  <1>3. ASSUME NEW q \in S \ {Illegal} PROVE ensureInitialized(q) \in S
    BY <1>1, InitializedMakes DEF ConsistentPlans, Tree, Achieved
  <1>4. ASSUME NEW q \in S \ {Illegal}, NEW u \in Updates PROVE Update(q, u) \in S
    BY <1>1, UpdateMakes DEF ConsistentPlans, Tree, Achieved
  <1>5. ASSUME NEW q \in S \ {Illegal}, NEW u \in Updates PROVE SignalledUnheard(q, u) \in S
    <2>1. SignalledUnheard(q, u) \in Plan
      BY <1>1, UnheardMakes
    <2>2. /\ SignalledUnheard(q, u).states = q.states
          /\ SignalledUnheard(q, u).milestones = q.milestones
      BY <1>1, UnheardMakes
    <2>3. Tree(SignalledUnheard(q, u))
      BY <1>1, <2>2 DEF Tree, Achieved
    <2> QED BY <2>1, <2>3 DEF ConsistentPlans
  <1>6. S \subseteq Plan \cup {Illegal} /\ Illegal \in S
    BY DEF ConsistentPlans
  <1> QED BY <1>2, <1>3, <1>4, <1>5, <1>6 DEF Closed

LEMMA PreparedTree ==
  ASSUME StagesContain, NEW p \in Plan, Tree(p), Prepared(p) # Illegal
  PROVE  Tree(Prepared(p))
  <1>1. p \in ConsistentPlans \ {Illegal}
    BY IllegalIsNoPlan DEF ConsistentPlans
  <1>2. Prepared(p) \in ConsistentPlans
    BY <1>1, TreesClosed, ResultsStay DEF Results
  <1> QED BY <1>2 DEF ConsistentPlans

LEMMA TreesInit == Init => Everywhere(ConsistentPlans)
  <1> SUFFICES ASSUME Init PROVE Everywhere(ConsistentPlans)
    OBVIOUS
  <1>1. Tree(plan)
    <2>1. /\ plan.milestones = {}
          /\ \A i \in Items : plan.states[i] = "available"
      BY DEF Init
    <2>2. \A i \in Items : Parent[i] # Root => Parent[i] \in Items
      BY CasePlanAssumption
    <2> QED BY <2>1, <2>2 DEF Tree, Achieved, Fits
  <1>2. plan \in Plan
    BY TypesInit DEF TypeOK
  <1>3. plan \in ConsistentPlans \ {Illegal}
    BY <1>1, <1>2, IllegalIsNoPlan DEF ConsistentPlans
  <1> QED BY <1>3 DEF Init, Everywhere

LEMMA TreesNext ==
  ASSUME StagesContain, TypeOK, Everywhere(ConsistentPlans), [Next]_vars
  PROVE  Everywhere(ConsistentPlans)'
  BY TreesClosed, ResultsStay, EverywhereNext

(* Nothing is open under a terminated stage, and under a completed one only *)
(* what somebody started, whatever the case model, as long as what contains *)
(* an item is a stage, and whether or not the store checks versions: every  *)
(* request turns a consistent plan into a consistent one, its transitions,  *)
(* their side effects and the cascades included (PlanItemStateMachine).     *)
THEOREM TreesStayConsistent ==
  ASSUME StagesContain
  PROVE  Spec => []TreeConsistent
  <1>1. Everywhere(ConsistentPlans) => TreeConsistent
    BY TreeIsConsistent DEF Everywhere, ConsistentPlans
  <1>2. TypeOK /\ Everywhere(ConsistentPlans) /\ [Next]_vars => Everywhere(ConsistentPlans)'
    BY TreesNext
  <1> QED BY <1>1, <1>2, TypesInit, TypesNext, TreesInit, PTL DEF Spec
------------------------------------------------------------------------------
(* The plans strictly further than p.                                       *)
Ahead(p) == {Illegal} \cup {q \in Plan : Forward(p, q) /\ q.states # p.states}

LEMMA NotAhead == ASSUME NEW p \in Plan PROVE p \notin Ahead(p) /\ Forward(p, p)
  BY IllegalIsNoPlan DEF Ahead, Forward

(* Every transition gets there from p, and from any plan further than p.    *)
LEMMA TransitionGetsAhead ==
  ASSUME NEW p \in Plan, NEW q \in Plan, Forward(p, q), NEW i \in Items, NEW to \in State
  PROVE  transition(q, i, to) \in Ahead(p)
  <1>1. CASE ~Legal(q, i, to)
    BY <1>1, TransitionThrows DEF Ahead
  <1>2. CASE Legal(q, i, to)
    <2> DEFINE r == transition(q, i, to)
    <2>1. r \in Plan /\ r.states = After(q, i, to) /\ Forward(q, r)
      BY <1>2, TransitionMakes, TransitionGoesForward
    <2>2. r.states[i] = to
      BY <2>1 DEF After
    <2> HIDE DEF r
    <2>3. Forward(p, r)
      BY <2>1, ForwardOn
    <2>4. r.states # p.states
      <3>1. p.states[i] \in State /\ q.states[i] \in State
        BY DEF Plan
      <3>2. Rank[q.states[i]] < Rank[to]
        BY <1>2, <3>1, LegalGoesForward DEF Legal
      <3>3. p.states[i] = q.states[i] \/ Rank[p.states[i]] < Rank[q.states[i]]
        BY DEF Forward
      <3>4. Rank[p.states[i]] \in Nat /\ Rank[q.states[i]] \in Nat /\ Rank[to] \in Nat
        BY <3>1, RankIsNat
      <3>5. Rank[p.states[i]] < Rank[to]
        BY <3>2, <3>3, <3>4
      <3> QED BY <2>2, <3>4, <3>5
    <2> QED BY <2>1, <2>3, <2>4 DEF Ahead, r
  <1> QED BY <1>1, <1>2

LEMMA AheadSteady ==
  ASSUME NEW p \in Plan
  PROVE  Steady(Ahead(p)) /\ Steady(Ahead(p) \cup {p})
  <1>1. \A q \in Ahead(p) \cup {p} : q # Illegal => q \in Plan /\ Forward(p, q)
    BY NotAhead DEF Ahead
  <1>2. \A q \in (Ahead(p) \cup {p}) \ {Illegal}, i \in Items, to \in State :
          transition(q, i, to) \in Ahead(p)
    BY <1>1, TransitionGetsAhead
  <1>3. Ahead(p) \cup {p} \subseteq Plan \cup {Illegal}
    BY DEF Ahead
  <1> QED BY <1>2, <1>3 DEF Steady

(* A pass changes nothing only when each of its visits changes nothing.     *)
LEMMA FixedVisits ==
  ASSUME NEW p \in Plan, NEW ev, cascadePass(p, ev) = p
  PROVE  \A n \in 1 .. Len(Order) : visit(p, Order[n], p, ev) = p
  <1> DEFINE m == Len(Order)
             after == afterEach(p, ev, m)
             Done == {n \in Nat : n <= m =>
                        \/ after[n] \in Ahead(p)
                        \/ after[n] = p /\ \A k \in 1 .. n : visit(p, Order[k], p, ev) = p}
  <1>1. m \in Nat /\ \A n \in 1 .. m : Order[n] \in Items
    BY CasePlanAssumption DEF CasePlanAssumption
  <1>2. after[m] = p
    BY DEF cascadePass, afterEach
  <1>3. PassRecurs(after, p, ev, m)
    BY <1>1, PassUnfolds
  <1> HIDE DEF m, after
  <1>4. 0 \in Done
    <2>1. after[0] = p
      BY <1>1, <1>3 DEF PassRecurs
    <2> QED BY <2>1
  <1>5. ASSUME NEW n \in Nat, n \in Done PROVE n + 1 \in Done
    <2>1. SUFFICES ASSUME n + 1 <= m
                   PROVE  \/ after[n + 1] \in Ahead(p)
                          \/ /\ after[n + 1] = p
                             /\ \A k \in 1 .. n + 1 : visit(p, Order[k], p, ev) = p
      OBVIOUS
    <2>2. n + 1 \in 1 .. m /\ (n + 1) - 1 = n /\ n <= m
      BY <1>1, <2>1
    <2>3. after[n + 1] = visit(after[n], Order[n + 1], p, ev) /\ Order[n + 1] \in Items
      BY <1>1, <1>3, <2>2 DEF PassRecurs
    <2>4. CASE after[n] \in Ahead(p)
      <3>1. Steady(Ahead(p))
        BY AheadSteady
      <3>2. visit(after[n], Order[n + 1], p, ev) \in Ahead(p)
        BY <2>3, <2>4, <3>1, VisitStays
      <3> QED BY <2>3, <3>2
    <2>5. CASE after[n] = p /\ \A k \in 1 .. n : visit(p, Order[k], p, ev) = p
      <3>0. Steady(Ahead(p) \cup {p}) /\ p \in Ahead(p) \cup {p}
        BY AheadSteady
      <3>1. after[n + 1] \in Ahead(p) \cup {p}
        <4>1. visit(p, Order[n + 1], p, ev) \in Ahead(p) \cup {p}
          BY <2>3, <3>0, VisitStays
        <4> QED BY <2>3, <2>5, <4>1
      <3>2. CASE after[n + 1] = p
        <4>1. visit(p, Order[n + 1], p, ev) = p
          BY <2>3, <2>5, <3>2
        <4>2. \A k \in 1 .. n + 1 : k \in 1 .. n \/ k = n + 1
          OBVIOUS
        <4> QED BY <2>5, <3>2, <4>1, <4>2
      <3> QED BY <3>1, <3>2
    <2> QED BY <1>5, <2>2, <2>4, <2>5
  <1>6. m \in Done
    BY <1>1, <1>4, <1>5, AllNumbers
  <1> QED BY <1>1, <1>2, <1>6, NotAhead DEF m

LEMMA VisitsFix ==
  ASSUME NEW p, NEW ev, \A n \in 1 .. Len(Order) : visit(p, Order[n], p, ev) = p
  PROVE  cascadePass(p, ev) = p
  <1> DEFINE m == Len(Order)
             after == afterEach(p, ev, m)
             S == {p}
  <1>1. m \in Nat
    BY CasePlanAssumption DEF CasePlanAssumption
  <1>2. cascadePass(p, ev) = after[m]
    BY DEF cascadePass, afterEach
  <1>3. PassRecurs(after, p, ev, m)
    BY <1>1, PassUnfolds
  <1>0. \A n \in 1 .. m : visit(p, Order[n], p, ev) = p
    OBVIOUS
  <1> HIDE DEF m, after
  <1>4. after[0] \in S
    BY <1>1, <1>3 DEF PassRecurs
  <1>5. ASSUME NEW n \in 1 .. m, after[n - 1] \in S PROVE after[n] \in S
    <2>1. after[n] = visit(after[n - 1], Order[n], p, ev)
      BY <1>1, <1>3 DEF PassRecurs
    <2> QED BY <1>0, <1>5, <2>1
  <1> HIDE DEF S
  <1>6. after[m] \in S
    BY <1>1, <1>4, <1>5, AllOfThem
  <1> QED BY <1>2, <1>6 DEF S

(* A sentry that fires without an event fires with one, so what an event    *)
(* leaves alone is left alone when nothing happens.                         *)
LEMMA QuietFires ==
  ASSUME NEW T, NEW seen, NEW ev, anyFires(T, seen, NoEvent)
  PROVE  anyFires(T, seen, ev)
  BY DEF anyFires, fires, NoEvent

LEMMA QuietVisit ==
  ASSUME NEW p \in Plan, NEW i \in Items, NEW ev, visit(p, i, p, ev) = p
  PROVE  visit(p, i, p, NoEvent) = p
  <1>1. CASE isTerminal(p.states[i]) \/ ~isParentActive(p.states, i)
    BY <1>1 DEF visit
  <1>2. CASE ~isTerminal(p.states[i]) /\ isParentActive(p.states, i)
    <2>1. \A to \in State : Due(p, i, to) => transition(p, i, to) \in Ahead(p)
      BY NotAhead, TransitionGetsAhead
    <2>2. /\ ~anyFires(Exit[i], p, ev)
          /\ ~(p.states[i] = "available" /\ (Entry[i] = {} \/ anyFires(Entry[i], p, ev)))
          /\ ~(p.states[i] = "active" /\ Kind[i] = "stage"
                 /\ stageMandatoryChildrenAllTerminal(p.states, i))
      BY <1>2, <2>1, AheadSteady, VisitMakes, NotAhead
    <2>3. /\ ~anyFires(Exit[i], p, NoEvent)
          /\ ~(p.states[i] = "available" /\ (Entry[i] = {} \/ anyFires(Entry[i], p, NoEvent)))
      BY <2>2, QuietFires
    <2> QED BY <2>2, <2>3 DEF visit
  <1> QED BY <1>1, <1>2

LEMMA QuietPass ==
  ASSUME NEW p \in Plan, NEW ev, cascadePass(p, ev) = p
  PROVE  cascadePass(p, NoEvent) = p
  <1>1. \A n \in 1 .. Len(Order) : Order[n] \in Items
    BY CasePlanAssumption DEF CasePlanAssumption
  <1>2. \A n \in 1 .. Len(Order) : visit(p, Order[n], p, NoEvent) = p
    BY <1>1, FixedVisits, QuietVisit
  <1> QED BY <1>2, VisitsFix
------------------------------------------------------------------------------
(* How far a plan has come: every item climbs three steps at most, so that  *)
(* no run has more passes that change something than that.                  *)
Climbed(p) == {t \in Items \X (1 .. 3) : t[2] <= Rank[p.states[t[1]]]}

LEMMA OneTo ==
  ASSUME NEW k \in Nat
  PROVE  IsFiniteSet(1 .. k) /\ Cardinality(1 .. k) = k
  <1>1. Cardinality(1 .. k) = IF 1 > k THEN 0 ELSE k - 1 + 1
    BY FS_Interval
  <1>2. IsFiniteSet(1 .. k)
    BY FS_Interval
  <1>3. k - 1 + 1 = k /\ (1 > k => k = 0)
    OBVIOUS
  <1> QED BY <1>1, <1>2, <1>3

LEMMA ClimbedIsBounded ==
  ASSUME IsFiniteSet(Items), NEW p
  PROVE  /\ IsFiniteSet(Climbed(p))
         /\ Cardinality(Climbed(p)) \in Nat /\ Cardinality(Items) \in Nat
         /\ Cardinality(Climbed(p)) <= 3 * Cardinality(Items)
  <1> DEFINE all == Items \X (1 .. 3)
             n == Cardinality(Items)
  <1>1. IsFiniteSet(1 .. 3) /\ Cardinality(1 .. 3) = 3
    <2>1. \A k \in Nat : IsFiniteSet(1 .. k) /\ Cardinality(1 .. k) = k
      BY OneTo
    <2>2. 3 \in Nat
      OBVIOUS
    <2> QED BY <2>1, <2>2, Zenon
  <1>2. IsFiniteSet(all) /\ Cardinality(all) = n * Cardinality(1 .. 3)
    BY <1>1, FS_Product
  <1>3. n \in Nat
    BY FS_CardinalityType
  <1>4. Climbed(p) \in SUBSET all
    BY DEF Climbed
  <1> HIDE DEF all, n
  <1>5. IsFiniteSet(Climbed(p)) /\ Cardinality(Climbed(p)) <= Cardinality(all)
    BY <1>2, <1>4, FS_Subset
  <1>6. Cardinality(Climbed(p)) \in Nat
    BY <1>5, FS_CardinalityType
  <1>7. Cardinality(all) = 3 * n
    BY <1>1, <1>2, <1>3
  <1> QED BY <1>3, <1>5, <1>6, <1>7 DEF n

LEMMA RankIsSmall == ASSUME NEW s \in State PROVE Rank[s] \in 0 .. 3
  BY Ranks DEF State

LEMMA ClimbedGrows ==
  ASSUME IsFiniteSet(Items), NEW p \in Plan, NEW q \in Plan,
         Forward(p, q), q.states # p.states
  PROVE  Cardinality(Climbed(p)) < Cardinality(Climbed(q))
  <1>1. \A i \in Items : Rank[p.states[i]] \in 0 .. 3 /\ Rank[q.states[i]] \in 0 .. 3
    BY RankIsSmall DEF Plan
  <1>2. ASSUME NEW i \in Items PROVE Rank[p.states[i]] <= Rank[q.states[i]]
    <2> DEFINE a == Rank[p.states[i]]
               b == Rank[q.states[i]]
    <2>1. a \in 0 .. 3 /\ b \in 0 .. 3
      BY <1>1
    <2>2. a = b \/ a < b
      BY DEF Forward
    <2> HIDE DEF a, b
    <2>3. a <= b
      BY <2>1, <2>2
    <2> QED BY <2>3 DEF a, b
  <1>3. Climbed(p) \subseteq Climbed(q)
    <2> SUFFICES ASSUME NEW t \in Items \X (1 .. 3), t[2] <= Rank[p.states[t[1]]]
                 PROVE  t[2] <= Rank[q.states[t[1]]]
      BY DEF Climbed
    <2>1. t[1] \in Items /\ t[2] \in 1 .. 3
      OBVIOUS
    <2>2. /\ Rank[p.states[t[1]]] \in 0 .. 3 /\ Rank[q.states[t[1]]] \in 0 .. 3
          /\ Rank[p.states[t[1]]] <= Rank[q.states[t[1]]]
      BY <1>1, <1>2, <2>1
    <2> QED BY <2>1, <2>2
  <1>4. PICK i \in Items : p.states[i] # q.states[i]
    BY DEF Plan
  <1>5. Rank[p.states[i]] < Rank[q.states[i]]
    BY <1>4 DEF Forward
  <1>6. <<i, Rank[q.states[i]]>> \in Climbed(q) /\ <<i, Rank[q.states[i]]>> \notin Climbed(p)
    <2> DEFINE a == Rank[p.states[i]]
               b == Rank[q.states[i]]
    <2>1. a \in 0 .. 3 /\ b \in 0 .. 3 /\ a < b
      BY <1>1, <1>5
    <2>2. <<i, b>>[1] = i /\ <<i, b>>[2] = b /\ <<i, b>> \in Items \X (1 .. 3)
      BY <2>1
    <2>3. b <= Rank[q.states[i]] /\ ~(b <= Rank[p.states[i]])
      BY <2>1
    <2> HIDE DEF a, b
    <2>4. <<i, b>> \in Climbed(q) /\ <<i, b>> \notin Climbed(p)
      BY <2>2, <2>3 DEF Climbed
    <2> QED BY <2>4 DEF b
  <1>7. IsFiniteSet(Climbed(q)) /\ Cardinality(Climbed(q)) \in Nat
        /\ Cardinality(Climbed(p)) \in Nat
    BY ClimbedIsBounded
  <1>8. /\ Cardinality(Climbed(p)) <= Cardinality(Climbed(q))
        /\ Cardinality(Climbed(q)) = Cardinality(Climbed(p)) => Climbed(q) = Climbed(p)
    BY <1>3, <1>7, FS_Subset
  <1> QED BY <1>6, <1>7, <1>8

(* When the bound on the passes is past that, a run ends because a pass     *)
(* changed nothing (or threw), and never because of the bound.              *)
Roomy == IsFiniteSet(Items) /\ 3 * Cardinality(Items) < MaxCascadeDepth

(* A plan, or the exception, at the fixed point of its sentries.            *)
Fixed == {q \in Plan \cup {Illegal} : q # Illegal => cascadePass(q, NoEvent) = q}

LEMMA RunSettles ==
  ASSUME Roomy, NEW p \in Plan \cup {Illegal}, NEW ev
  PROVE  run(p, ev) \in Fixed
  <1> DEFINE m == MaxCascadeDepth
             pass == rounds(p, ev, m)
             Unsettled(r, n) == /\ r.changed = TRUE
                                /\ r.plan # Illegal => n <= Cardinality(Climbed(r.plan))
             Settling(r) == r.changed = FALSE
                              /\ (r.plan # Illegal => cascadePass(r.plan, ev) = r.plan)
             Good(r, n) == /\ r \in [plan : Plan \cup {Illegal}, changed : BOOLEAN]
                           /\ Unsettled(r, n) \/ Settling(r)
             Done == {n \in Nat : n <= m => Good(pass[n], n)}
  <1>1. m \in Nat
    BY CasePlanAssumption DEF CasePlanAssumption
  <1>2. run(p, ev) = pass[m].plan
    BY DEF run, rounds, Begun
  <1>3. RunRecurs(pass, p, ev, m)
    BY <1>1, RunUnfolds
  <1> HIDE DEF m, pass
  <1>4. 0 \in Done
    <2>1. pass[0] = Begun(p)
      BY <1>1, <1>3 DEF RunRecurs
    <2>2. 0 <= Cardinality(Climbed(p))
      BY ClimbedIsBounded DEF Roomy
    <2>3. /\ pass[0] \in [plan : Plan \cup {Illegal}, changed : BOOLEAN]
          /\ pass[0].changed = TRUE /\ pass[0].plan = p
      BY <2>1 DEF Begun
    <2> QED BY <2>2, <2>3
  <1>5. ASSUME NEW n \in Nat, NEW r, Good(r, n) PROVE Good(nextPass(r, ev), n + 1)
    <2>1. CASE Settling(r)
      <3>1. nextPass(r, ev) = r
        BY <2>1 DEF nextPass
      <3> QED BY <1>5, <2>1, <3>1
    <2>2. CASE Unsettled(r, n)
      <3> DEFINE x == r.plan
                 q == cascadePass(r.plan, ev)
      <3>1. /\ nextPass(r, ev) = [plan |-> q, changed |-> q # x]
            /\ x \in Plan \cup {Illegal}
        BY <1>5, <2>2 DEF nextPass
      <3>2. CASE x = Illegal
        <4>1. q = Illegal
          <5>1. \A y \in {Illegal}, i \in Items : visit(y, i, x, ev) \in {Illegal}
            BY DEF visit
          <5>2. cascadePass(x, ev) \in {Illegal}
            BY <3>2, <5>1, PassStays
          <5> QED BY <5>2
        <4> QED BY <3>1, <3>2, <4>1
      <3>3. CASE x # Illegal
        <4>1. x \in Plan /\ n <= Cardinality(Climbed(x))
          BY <2>2, <3>1, <3>3
        <4>2. q \in Ahead(x) \cup {x}
          <5>1. Steady(Ahead(x) \cup {x})
            BY <4>1, AheadSteady
          <5>2. \A y \in Ahead(x) \cup {x}, i \in Items : visit(y, i, x, ev) \in Ahead(x) \cup {x}
            BY <5>1, VisitStays
          <5> HIDE DEF x
          <5>3. cascadePass(x, ev) \in Ahead(x) \cup {x}
            BY <5>2, PassStays
          <5> QED BY <5>3 DEF x
        <4>3. CASE q = x
          <5>1. nextPass(r, ev) = [plan |-> x, changed |-> FALSE]
            BY <3>1, <4>3
          <5>2. /\ nextPass(r, ev) \in [plan : Plan \cup {Illegal}, changed : BOOLEAN]
                /\ nextPass(r, ev).changed = FALSE /\ nextPass(r, ev).plan = x
            BY <3>1, <5>1
          <5>3. cascadePass(x, ev) = x
            BY <4>3
          <5> HIDE DEF x
          <5> QED BY <5>2, <5>3
        <4>4. CASE q = Illegal
          BY <3>1, <3>3, <4>4
        <4>5. CASE q # x /\ q # Illegal
          <5>1. q \in Plan /\ Forward(x, q) /\ q.states # x.states
            BY <4>2, <4>5 DEF Ahead
          <5>2. Cardinality(Climbed(x)) < Cardinality(Climbed(q))
            BY <4>1, <5>1, ClimbedGrows DEF Roomy
          <5>3. Cardinality(Climbed(x)) \in Nat /\ Cardinality(Climbed(q)) \in Nat
            BY ClimbedIsBounded DEF Roomy
          <5>4. n + 1 <= Cardinality(Climbed(q))
            BY <4>1, <5>2, <5>3
          <5>6. nextPass(r, ev) = [plan |-> q, changed |-> TRUE]
            BY <3>1, <4>5
          <5>5. /\ nextPass(r, ev) \in [plan : Plan \cup {Illegal}, changed : BOOLEAN]
                /\ nextPass(r, ev).changed = TRUE /\ nextPass(r, ev).plan = q
            BY <5>1, <5>6
          <5> HIDE DEF x, q
          <5> QED BY <5>4, <5>5
        <4> QED BY <4>3, <4>4, <4>5
      <3> QED BY <3>2, <3>3
    <2> QED BY <1>5, <2>1, <2>2
  <1> HIDE DEF Good
  <1>6. ASSUME NEW n \in Nat, n \in Done PROVE n + 1 \in Done
    <2>1. SUFFICES ASSUME n + 1 <= m PROVE Good(pass[n + 1], n + 1)
      OBVIOUS
    <2>2. n + 1 \in 0 .. m /\ (n + 1) - 1 = n /\ n <= m /\ n + 1 # 0
      BY <1>1, <2>1
    <2>3. pass[n + 1] = nextPass(pass[n], ev)
      BY <2>2, <1>3 DEF RunRecurs
    <2>4. Good(pass[n], n)
      BY <1>6, <2>2
    <2> QED BY <1>5, <2>3, <2>4
  <1>7. Good(pass[m], m)
    <2>1. m \in Done
      BY <1>1, <1>4, <1>6, AllNumbers
    <2> QED BY <1>1, <2>1
  <1> DEFINE q == pass[m].plan
  <1>8. q \in Plan \cup {Illegal} /\ (q # Illegal => cascadePass(q, ev) = q)
    <2>1. SUFFICES ASSUME q # Illegal PROVE ~Unsettled(pass[m], m)
      BY <1>7 DEF Good
    <2>2. Cardinality(Climbed(q)) < m /\ Cardinality(Climbed(q)) \in Nat
      BY <1>1, ClimbedIsBounded DEF Roomy, m
    <2> QED BY <1>1, <2>1, <2>2
  <1> HIDE DEF q
  <1> QED BY <1>2, <1>8, QuietPass DEF Fixed, q
------------------------------------------------------------------------------
(* Plans that are at their fixed point once they are started.               *)
SettledPlans == {q \in Plan \cup {Illegal} :
                   q # Illegal /\ q.started /\ ~q.unheard => cascadePass(q, NoEvent) = q}

LEMMA ResultsSettle ==
  ASSUME Roomy, NEW p \in SettledPlans \ {Illegal}
  PROVE  Results(p) \subseteq SettledPlans
  <1> DEFINE S == Plan \cup {Illegal}
  <1>1. Fixed \subseteq SettledPlans
    BY DEF Fixed, SettledPlans
  <1>2. Closed(S) /\ Illegal \in Fixed /\ Fixed \subseteq S
    BY PlansClosed DEF Fixed
  <1>3. p \in S /\ p # Illegal
    BY DEF SettledPlans
  <1>4. \A q \in S : \A ev : run(q, ev) \in Fixed
    BY RunSettles
  <1>5. /\ ensureInitialized(p) \in S
        /\ \A q \in S \ {Illegal} :
             /\ \A u \in Updates : Update(q, u) \in S
             /\ \A i \in Items, to \in State : Proper(q, i, to) => transition(q, i, to) \in S
    BY <1>2, <1>3 DEF Closed
  <1> HIDE DEF S
  <1>6. Prepared(p) \in Fixed
    BY <1>4, <1>5 DEF Prepared
  <1>7. ASSUME NEW i \in Items PROVE Enabled(p, i) \in Fixed
    <2>1. CASE Prepared(p) = Illegal \/ i \notin Discretionary
      BY <1>2, <2>1 DEF Enabled
    <2>2. CASE ~(Prepared(p) = Illegal \/ i \notin Discretionary)
      <3>1. Proper(Prepared(p), i, "active") /\ "active" \in State
        BY DEF Proper, State
      <3>2. transition(Prepared(p), i, "active") \in S
        BY <1>2, <1>5, <1>6, <2>2, <3>1
      <3> QED BY <1>4, <2>2, <3>2 DEF Enabled
    <2> QED BY <2>1, <2>2
  <1>8. ASSUME NEW i \in HumanTasks, NEW to \in {"completed", "terminated"}
        PROVE  Finished(p, i, to) \in Fixed
    <2>1. CASE Prepared(p) = Illegal
      BY <1>2, <2>1 DEF Finished
    <2>2. CASE Prepared(p) # Illegal
      <3>1. i \in Items /\ Kind[i] # "stage"
        BY DEF HumanTasks
      <3>2. Proper(Prepared(p), i, to) /\ to \in State
        BY <3>1 DEF Proper, State
      <3>3. transition(Prepared(p), i, to) \in S
        BY <1>2, <1>5, <1>6, <2>2, <3>1, <3>2
      <3> QED BY <1>4, <2>2, <3>3 DEF Finished
    <2> QED BY <2>1, <2>2
  <1>9. ASSUME NEW u \in Updates PROVE Signalled(p, u) \in Fixed
    <2>1. CASE Prepared(p) = Illegal
      BY <1>2, <2>1 DEF Signalled
    <2>2. CASE Prepared(p) # Illegal
      <3>1. Update(Prepared(p), u) \in S
        BY <1>2, <1>5, <1>6, <2>2
      <3> QED BY <1>4, <2>2, <3>1 DEF Signalled
    <2> QED BY <2>1, <2>2
  <1>10. ASSUME NEW u \in Updates PROVE SignalledUnheard(p, u) \in SettledPlans
    BY <1>3, UnheardMakes DEF SettledPlans, S
  <1> QED BY <1>1, <1>6, <1>7, <1>8, <1>9, <1>10 DEF Results

(* Once a plan is started it is stored at the fixed point of its sentries,  *)
(* provided MAX_CASCADE_DEPTH leaves room for three passes an item: a pass  *)
(* that changes the plan moves an item on, so that a run of passes ends of  *)
(* itself, and what is at rest after an event is at rest without one        *)
(* (PlanItemCascade::run).  Fifty passes are room for sixteen items.        *)
THEOREM PlansSettle ==
  ASSUME Roomy
  PROVE  Spec => []Settled
  <1>1. Init => Everywhere(SettledPlans)
    <2>1. Init => plan \in Plan /\ ~plan.started /\ \A w \in Workers : ctx[w] = NoContext
      BY TypesInit DEF TypeOK, Init
    <2> QED BY <2>1, IllegalIsNoPlan DEF Everywhere, SettledPlans
  <1>2. TypeOK /\ Everywhere(SettledPlans) /\ [Next]_vars => Everywhere(SettledPlans)'
    BY ResultsSettle, EverywhereNext
  <1>3. Everywhere(SettledPlans) => Settled
    BY DEF Everywhere, SettledPlans, Settled
  <1> QED BY <1>1, <1>2, <1>3, TypesInit, TypesNext, PTL DEF Spec
------------------------------------------------------------------------------
(* Optional items are tasks and stages, work somebody may start.            *)
OptionalWork == \A i \in Discretionary : Kind[i] # "milestone"

(* Plans in which no milestone has ever been enabled: in them no visit asks *)
(* for a transition that is not legal, so that no cascade throws.           *)
Orderly == {q \in Plan : \A i \in Items : Kind[i] = "milestone" =>
                           q.states[i] \in {"available", "completed", "terminated", "disabled"}}

LEMMA DueIsLegal ==
  ASSUME OptionalWork, NEW q \in Orderly, NEW i \in Items, NEW to \in State, Due(q, i, to)
  PROVE  Legal(q, i, to)
  <1>1. q.states[i] \in {"available", "enabled", "active"}
        /\ (Kind[i] = "milestone" => q.states[i] = "available")
    <2>1. q.states[i] \in State
      BY DEF Orderly, Plan
    <2> QED BY <2>1 DEF Due, Orderly, isTerminal, State
  <1>2. isLegal(Kind[i], q.states[i], to)
    BY <1>1 DEF isLegal, Due, Proper
  <1>3. \A j \in ShutBy(q, i, to) : Kind[j] # "milestone" /\ q.states[j] \in {"available", "enabled"}
    BY DEF ShutBy, Unplanned, OptionalWork
  <1>4. \A j \in ShutBy(q, i, to) : isLegal(Kind[j], q.states[j], "disabled")
    BY <1>3 DEF isLegal
  <1> QED BY <1>2, <1>4 DEF Legal

LEMMA TransitionIsOrderly ==
  ASSUME NEW q \in Orderly, NEW i \in Items, NEW to \in State, Legal(q, i, to)
  PROVE  transition(q, i, to) \in Orderly
  <1>1. transition(q, i, to) \in Plan /\ transition(q, i, to).states = After(q, i, to)
    BY TransitionMakes DEF Orderly
  <1>2. ASSUME NEW j \in Items, Kind[j] = "milestone"
        PROVE  After(q, i, to)[j] \in {"available", "completed", "terminated", "disabled"}
    <2>1. CASE j = i
      <3>1. isLegal(Kind[j], q.states[j], to) /\ After(q, i, to)[j] = to
        BY <2>1 DEF Legal, After
      <3> QED BY <1>2, <3>1 DEF isLegal
    <2>2. CASE j # i
      <3>1. After(q, i, to)[j] \in {q.states[j], "terminated", "disabled"}
        BY <2>2 DEF After
      <3>2. q.states[j] \in {"available", "completed", "terminated", "disabled"}
        BY <1>2 DEF Orderly
      <3> QED BY <3>1, <3>2
    <2> QED BY <2>1, <2>2
  <1> QED BY <1>1, <1>2 DEF Orderly

LEMMA OrderlySteady == ASSUME OptionalWork PROVE Steady(Orderly)
  BY DueIsLegal, TransitionIsOrderly DEF Steady, Orderly

LEMMA OrderlyClosed == Closed(Orderly \cup {Illegal})
  <1>1. ASSUME NEW q \in Orderly, NEW i \in Items, NEW to \in State
        PROVE  transition(q, i, to) \in Orderly \cup {Illegal}
    BY TransitionIsOrderly, TransitionThrows
  <1>2. ASSUME NEW q \in Orderly
        PROVE  /\ ensureInitialized(q) \in Orderly
               /\ \A u \in Updates : Update(q, u) \in Orderly /\ SignalledUnheard(q, u) \in Orderly
    BY InitializedMakes, UpdateMakes, UnheardMakes DEF Orderly
  <1>3. Orderly \subseteq Plan
    BY DEF Orderly
  <1> QED BY <1>1, <1>2, <1>3 DEF Closed

LEMMA PreparedIsOrderly ==
  ASSUME OptionalWork, NEW p \in Orderly
  PROVE  Prepared(p) \in Orderly
  <1>1. ensureInitialized(p) \in Orderly
    BY InitializedMakes DEF Orderly
  <1> QED BY <1>1, OrderlySteady, RunsStay DEF Prepared

LEMMA OrderlyInit == Init => Everywhere(Orderly \cup {Illegal})
  <1>1. Init => plan \in Plan /\ \A i \in Items : plan.states[i] = "available"
    BY TypesInit DEF TypeOK, Init
  <1>2. Init => plan \in Orderly /\ plan # Illegal
    BY <1>1, IllegalIsNoPlan DEF Orderly
  <1> QED BY <1>2 DEF Init, Everywhere

LEMMA OrderlyNext ==
  TypeOK /\ Everywhere(Orderly \cup {Illegal}) /\ [Next]_vars => Everywhere(Orderly \cup {Illegal})'
  BY OrderlyClosed, ResultsStay, EverywhereNext

LEMMA FixedRun ==
  ASSUME NEW p, NEW ev, cascadePass(p, ev) = p
  PROVE  run(p, ev) = p
  <1>1. run(p, ev) \in {p}
    BY RunStays
  <1> QED BY <1>1

(* In a plan as a request has prepared it the items on offer are the ones   *)
(* enabling accepts: an enabled item lies in an active stage, and a cascade *)
(* in a plan without enabled milestones does not throw.                     *)
LEMMA OffersFit ==
  ASSUME OptionalWork, NEW q, NEW p \in Orderly, Tree(p), Prepared(q) = p
  PROVE  enableableDiscretionaryIds(p) = {i \in Items : Enabled(q, i) # Illegal}
  <1>1. p \in Plan /\ p # Illegal
    BY IllegalIsNoPlan DEF Orderly
  <1>2. run(Illegal, NoEvent) = Illegal
    <2>1. Steady({Illegal})
      BY DEF Steady
    <2>2. run(Illegal, NoEvent) \in {Illegal}
      BY <2>1, RunsStay
    <2> QED BY <2>2
  <1>3. ASSUME NEW i \in Items
        PROVE  i \in enableableDiscretionaryIds(p) <=> Enabled(q, i) # Illegal
    <2>1. CASE i \notin Discretionary
      BY <2>1 DEF enableableDiscretionaryIds, Enabled
    <2>2. CASE i \in Discretionary
      <3>1. Enabled(q, i) = run(transition(p, i, "active"), NoEvent)
        BY <1>1, <2>2 DEF Enabled
      <3>2. Legal(p, i, "active") <=> p.states[i] = "enabled"
        BY <2>2 DEF Legal, isLegal, ShutBy, OptionalWork
      <3>3. CASE Legal(p, i, "active")
        <4>1. transition(p, i, "active") \in Orderly
          BY <3>3, TransitionIsOrderly DEF State
        <4>2. run(transition(p, i, "active"), NoEvent) \in Orderly
          BY <4>1, OrderlySteady, RunsStay
        <4>3. Enabled(q, i) # Illegal
          BY <3>1, <4>2, IllegalIsNoPlan DEF Orderly
        <4>4. isParentActive(p.states, i)
          <5>1. SUFFICES ASSUME Parent[i] # Root PROVE p.states[Parent[i]] = "active"
            BY DEF isParentActive
          <5>2. Parent[i] \in Items
            BY <5>1, CasePlanAssumption DEF CasePlanAssumption
          <5>3. Fits(i, "enabled", p.states[Parent[i]]) /\ p.states[Parent[i]] \in State
            BY <1>1, <3>2, <3>3, <5>1, <5>2 DEF Tree, Plan
          <5> QED BY <5>3 DEF Fits, isTerminal, State
        <4> QED BY <2>2, <3>2, <3>3, <4>3, <4>4 DEF enableableDiscretionaryIds
      <3>4. CASE ~Legal(p, i, "active")
        <4>1. Enabled(q, i) = Illegal
          BY <1>2, <3>1, <3>4, TransitionThrows
        <4> QED BY <3>2, <3>4, <4>1 DEF enableableDiscretionaryIds
      <3> QED BY <3>3, <3>4
    <2> QED BY <2>1, <2>2
  <1>4. enableableDiscretionaryIds(p) \subseteq Items
    BY CasePlanAssumption DEF CasePlanAssumption, enableableDiscretionaryIds
  <1> QED BY <1>3, <1>4

(* Reading a plan never throws, and the optional items it then offers are   *)
(* exactly the ones enabling accepts, although enabling never looks at the  *)
(* stage of the item: in a case model whose containers are stages and whose *)
(* optional items are work (CaseModelEngine::enableDiscretionaryItem).      *)
THEOREM OffersStayExact ==
  ASSUME StagesContain, OptionalWork
  PROVE  Spec => []OffersAreExact
  <1>1. TypeOK /\ TreeConsistent /\ Everywhere(Orderly \cup {Illegal}) => OffersAreExact
    <2> SUFFICES ASSUME TypeOK, TreeConsistent, Everywhere(Orderly \cup {Illegal})
                 PROVE  OffersAreExact
      OBVIOUS
    <2> DEFINE shown == Prepared(plan)
    <2>1. plan \in Orderly /\ plan # Illegal
      BY DEF Everywhere
    <2>2. shown \in Orderly
      BY <2>1, PreparedIsOrderly
    <2>3. Tree(shown)
      BY <2>1, <2>2, TreeIsConsistent, PreparedTree, IllegalIsNoPlan DEF Orderly
    <2>4. enableableDiscretionaryIds(shown) = {i \in Items : Enabled(plan, i) # Illegal}
      BY <2>2, <2>3, OffersFit
    <2>5. shown # Illegal
      BY <2>2, IllegalIsNoPlan DEF Orderly
    <2> QED BY <2>4, <2>5 DEF OffersAreExact
  <1>2. Spec => []TreeConsistent
    BY TreesStayConsistent
  <1> QED BY <1>1, <1>2, TypesInit, TypesNext, OrderlyInit, OrderlyNext, PTL DEF Spec
==============================================================================
