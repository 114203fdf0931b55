---------------------------- MODULE TermijnProofs ----------------------------
(***************************************************************************)
(* For terms, pauses and calendars of any length and any number of faults: *)
(* the events of a term account for its end date, its two clocks agree     *)
(* unless a mishap parted them, it is not marked exceeded early, and no    *)
(* date of either clock leaves the calendar.                               *)
(***************************************************************************)
EXTENDS Termijn, TLAPS

(* What a row of the term is made of, the calendar it lies in left out.     *)
Row == [status : Status, end : Int, extensions : Int, linked : BOOLEAN,
        pausedOn : Int, pauseDays : Int]

(* The variables the ledger reads, with no more of their types than it      *)
(* needs; before the term is there, it has no events and no timers.         *)
LedgerTypes ==
  /\ today \in Int
  /\ term \in Row
  /\ journal.days \in Int
  /\ term.status = "none" =>
       (term.end = Duration /\ journal.days = 0 /\ timer.state = "none" /\ strays = {})

Ledger == LedgerTypes /\ LedgerBalances
------------------------------------------------------------------------------
(* The lengths and dates a handler is given are integers.                   *)
LEMMA Integral ==
  /\ Duration \in Int /\ MaxExtensions \in Int
  /\ \A days \in PauseLengths : days \in Int
  /\ \A day \in Days : day \in Int
  BY TermijnAssumption DEF TermijnAssumption, Days

(* A row that replaces a row is one, of the status and the end it is given. *)
LEMMA BecomesRow ==
  ASSUME term \in Row, NEW status \in Status, NEW end \in Int, NEW on \in Int, NEW days \in Int
  PROVE  /\ Becomes(status, end, on, days) \in Row
         /\ Becomes(status, end, on, days).status = status
         /\ Becomes(status, end, on, days).end = end
  <1>1. Becomes(status, end, on, days) \in Row
    BY DEF Becomes, Row
  <1>2. Becomes(status, end, on, days).status = status
        /\ Becomes(status, end, on, days).end = end
    BY DEF Becomes, Row
  <1> QED BY <1>1, <1>2

(* Counting the extensions of a row changes neither its status nor its end. *)
LEMMA CountedRow ==
  ASSUME NEW row \in Row, NEW n \in Int
  PROVE  /\ row.extensions \in Int
         /\ [row EXCEPT !.extensions = n] \in Row
         /\ [row EXCEPT !.extensions = n].status = row.status
         /\ [row EXCEPT !.extensions = n].end = row.end
  <1>1. row.extensions \in Int /\ [row EXCEPT !.extensions = n] \in Row
    BY DEF Row
  <1>2. [row EXCEPT !.extensions = n].status = row.status
        /\ [row EXCEPT !.extensions = n].end = row.end
    BY DEF Row
  <1> QED BY <1>1, <1>2

(* The ledger starts out empty, for a term that is not there yet.           *)
LEMMA LedgerInit == Init => Ledger
  <1> SUFFICES ASSUME Init PROVE Ledger
    OBVIOUS
  <1>1. term \in Row
    BY Integral DEF Init, Row, Status
  <1>2. /\ today \in Int /\ term.status = "none" /\ term.end = Duration
        /\ journal.days = 0 /\ timer.state = "none" /\ strays = {}
    BY DEF Init, NoTimer
  <1> QED BY <1>1, <1>2 DEF Ledger, LedgerTypes, LedgerBalances

(* A handler that saves a row with the end moved by an impact, and records  *)
(* an event of that impact, keeps the ledger, whichever of the two fails.   *)
LEMMA Booked ==
  ASSUME NEW failed, NEW row \in Row, NEW impact \in Int, Ledger, today' \in Int,
         term.status # "none", row.status # "none", row.end = term.end + impact,
         mishaps \subseteq mishaps', Unwritten(failed) \subseteq mishaps',
         Saved(failed, row), Recorded(failed, impact)
  PROVE  Ledger'
  <1>1. term' \in Row /\ term'.status # "none"
    BY DEF Saved, Ledger, LedgerTypes
  <1>2. journal'.days = IF "unwritten" \in mishaps' THEN 0
                        ELSE IF "event" \in failed THEN journal.days ELSE journal.days + impact
    BY DEF Recorded
  <1>3. journal'.days \in Int
    BY <1>2 DEF Ledger, LedgerTypes
  <1>4. LedgerBalances'
    <2> SUFFICES ASSUME "unwritten" \notin mishaps' PROVE journal'.days = term'.end
      BY DEF LedgerBalances
    <2>1. ("save" \in failed) <=> ("event" \in failed)
      BY DEF Unwritten, If
    <2>2. journal.days = term.end
      BY DEF Ledger, LedgerBalances
    <2>3. CASE "save" \in failed
      BY <2>1, <2>2, <2>3, <1>2 DEF Saved
    <2>4. CASE "save" \notin failed
      BY <2>1, <2>2, <2>4, <1>2 DEF Saved
    <2> QED BY <2>3, <2>4
  <1> QED BY <1>1, <1>3, <1>4 DEF Ledger, LedgerTypes

(* A handler that leaves the end where it is and records no impact keeps    *)
(* the ledger, its event lost or not.                                       *)
LEMMA Unmoved ==
  ASSUME NEW failed, Ledger, today' \in Int, term' \in Row,
         term.status # "none", term'.status # "none", term'.end = term.end,
         mishaps \subseteq mishaps', Recorded(failed, 0)
  PROVE  Ledger'
  <1>1. journal'.days = IF "unwritten" \in mishaps' THEN 0 ELSE journal.days
    BY DEF Recorded, Ledger, LedgerTypes
  <1>2. journal'.days \in Int
    BY <1>1 DEF Ledger, LedgerTypes
  <1>3. LedgerBalances'
    BY <1>1 DEF Ledger, LedgerBalances
  <1> QED BY <1>2, <1>3 DEF Ledger, LedgerTypes

(* A step that leaves the end and the sum of the impacts alone keeps the    *)
(* ledger.                                                                  *)
LEMMA Unbooked ==
  ASSUME Ledger, today' \in Int, term' \in Row, term'.end = term.end,
         term.status # "none", term'.status # "none",
         mishaps \subseteq mishaps', journal'.days = journal.days
  PROVE  Ledger'
  <1>1. LedgerTypes'
    BY DEF Ledger, LedgerTypes
  <1>2. LedgerBalances'
    BY DEF Ledger, LedgerBalances
  <1> QED BY <1>1, <1>2 DEF Ledger
------------------------------------------------------------------------------
(* A new term ends as many days after its start as its event tells; when    *)
(* that event is lost, so is the account.                                   *)
LEMMA CreateBooks ==
  ASSUME Ledger, NEW failed, createTermijnInstance(failed)
  PROVE  Ledger'
  <1>1. today' \in Int /\ term' \in Row /\ term'.end = Duration /\ term'.status = "lopend"
    BY DEF Ledger, LedgerTypes, createTermijnInstance, Row, Status
  <1>2. "save" \notin failed
    BY DEF createTermijnInstance, Loses
  <1>3. "event" \in failed => "unwritten" \in mishaps'
    BY <1>2 DEF createTermijnInstance, Happen, Unwritten, If
  <1>4. journal'.days = IF "unwritten" \in mishaps' THEN 0
                        ELSE IF "event" \in failed THEN journal.days ELSE journal.days + Duration
    BY DEF createTermijnInstance, Recorded
  <1>5. journal.days = 0
    BY DEF Ledger, LedgerTypes, createTermijnInstance
  <1>6. journal'.days \in Int /\ ("unwritten" \notin mishaps' => journal'.days = Duration)
    BY <1>3, <1>4, <1>5, Integral
  <1>7. LedgerTypes'
    BY <1>1, <1>6 DEF LedgerTypes
  <1>8. LedgerBalances'
    BY <1>1, <1>6 DEF LedgerBalances
  <1> QED BY <1>7, <1>8 DEF Ledger

(* A pause moves the end by the days it is asked for.                       *)
LEMMA PauzeBooks ==
  ASSUME Ledger, NEW days \in PauseLengths, NEW failed, registerPauze(days, failed)
  PROVE  Ledger'
  <1> DEFINE row == Becomes("paused", term.end + days, today, days)
  <1>1. row \in Row /\ row.status # "none" /\ row.end = term.end + days
    <2>1. term \in Row /\ term.end + days \in Int /\ days \in Int /\ today \in Int
      BY Integral DEF Ledger, LedgerTypes, Row
    <2>2. "paused" \in Status
      BY DEF Status
    <2> QED BY <2>1, <2>2, BecomesRow
  <1>2. Saved(failed, row) /\ Recorded(failed, days)
    BY DEF registerPauze
  <1>3. mishaps \subseteq mishaps' /\ Unwritten(failed) \subseteq mishaps'
    BY DEF registerPauze, Happen
  <1>4. today' \in Int /\ term.status # "none"
    BY DEF registerPauze, Ledger, LedgerTypes
  <1> HIDE DEF row
  <1> QED BY <1>1, <1>2, <1>3, <1>4, Integral, Booked

(* An answer takes back the days the pause leaves unused, on whatever date  *)
(* it is said to have come.                                                 *)
LEMMA HervatBooks ==
  ASSUME Ledger, NEW answer \in Days, NEW failed, resumeAfterPauze(answer, failed)
  PROVE  Ledger'
  <1> DEFINE row == Becomes("lopend", PulledBack(answer), 0, 0)
  <1>1. Unused(answer) \in Int
    BY Integral DEF Ledger, LedgerTypes, Row, Unused, Consumed, Distance
  <1>2. term \in Row /\ term.end \in Int
    BY DEF Ledger, LedgerTypes, Row
  <1>3. /\ ResumeImpact(answer) \in Int /\ PulledBack(answer) \in Int
        /\ PulledBack(answer) = term.end + ResumeImpact(answer)
    BY <1>1, <1>2 DEF ResumeImpact, PulledBack
  <1>4. row \in Row /\ row.status # "none" /\ row.end = term.end + ResumeImpact(answer)
    <2>1. "lopend" \in Status /\ 0 \in Int
      BY DEF Status
    <2> QED BY <2>1, <1>2, <1>3, BecomesRow
  <1>5. Saved(failed, row) /\ Recorded(failed, ResumeImpact(answer))
    BY DEF resumeAfterPauze
  <1>6. mishaps \subseteq mishaps' /\ Unwritten(failed) \subseteq mishaps'
    BY DEF resumeAfterPauze, Happen
  <1>7. today' \in Int /\ term.status # "none"
    BY DEF resumeAfterPauze, Ledger, LedgerTypes
  <1> HIDE DEF row
  <1> QED BY <1>3, <1>4, <1>5, <1>6, <1>7, Booked

(* An extension moves the end to the date it names.                         *)
LEMMA VerlengBooks ==
  ASSUME Ledger, NEW newEnd \in Days, NEW supervisor, NEW failed,
         applyExtension(newEnd, supervisor, failed)
  PROVE  Ledger'
  <1> DEFINE moved == Becomes("verlengd", newEnd, 0, 0)
             n == IF moved.extensions < MaxExtensions THEN moved.extensions + 1
                  ELSE moved.extensions
             row == [moved EXCEPT !.extensions = n]
             impact == newEnd - term.end
  <1>1. term \in Row /\ term.end \in Int /\ newEnd \in Int
    BY Integral DEF Ledger, LedgerTypes, Row
  <1>2. impact \in Int /\ newEnd = term.end + impact
    BY <1>1
  <1>3. row \in Row /\ row.status # "none" /\ row.end = newEnd
    <2>1. "verlengd" \in Status /\ 0 \in Int
      BY DEF Status
    <2>2. moved \in Row /\ moved.status = "verlengd" /\ moved.end = newEnd
      BY <2>1, <1>1, BecomesRow
    <2> HIDE DEF moved
    <2>3. n \in Int
      BY <2>2, Integral DEF Row
    <2> HIDE DEF n
    <2> QED BY <2>2, <2>3, CountedRow
  <1>4. Saved(failed, row) /\ Recorded(failed, impact)
    BY DEF applyExtension
  <1>5. mishaps \subseteq mishaps' /\ Unwritten(failed) \subseteq mishaps'
    BY DEF applyExtension, Happen
  <1>6. today' \in Int /\ term.status # "none"
    BY DEF applyExtension, Ledger, LedgerTypes
  <1> HIDE DEF row, impact
  <1> QED BY <1>2, <1>3, <1>4, <1>5, <1>6, Booked

(* A row that only closes the term leaves its end where it is.              *)
LEMMA CloseBooks ==
  ASSUME Ledger, NEW failed, NEW row \in Row, row.status # "none", row.end = term.end,
         term.status # "none", today' = today, mishaps \subseteq mishaps',
         term' = term \/ Saved(failed, row), Recorded(failed, 0)
  PROVE  Ledger'
  <1>1. today' \in Int /\ term' \in Row /\ term'.end = term.end /\ term'.status # "none"
    BY DEF Saved, Ledger, LedgerTypes
  <1> QED BY <1>1, Unmoved

(* Completing a term closes it so.                                          *)
LEMMA VoltooiBooks ==
  ASSUME Ledger, NEW failed, markTermijnCompleted(failed)
  PROVE  Ledger'
  <1> DEFINE row == Becomes("completed", term.end, 0, 0)
  <1>1. row \in Row /\ row.status # "none" /\ row.end = term.end
    <2>1. term \in Row /\ term.end \in Int /\ 0 \in Int /\ "completed" \in Status
      BY DEF Ledger, LedgerTypes, Row, Status
    <2> QED BY <2>1, BecomesRow
  <1>2. /\ Saved(failed, row) /\ Recorded(failed, 0) /\ term.status # "none"
        /\ today' = today /\ mishaps \subseteq mishaps'
    BY DEF markTermijnCompleted, Happen
  <1> HIDE DEF row
  <1> QED BY <1>1, <1>2, CloseBooks

(* So does marking it exceeded.                                             *)
LEMMA BreachBooks ==
  ASSUME Ledger, NEW failed, MarkExceeded(failed), term.status # "none"
  PROVE  Ledger'
  <1> DEFINE row == Becomes("exceeded", term.end, 0, 0)
  <1>1. row \in Row /\ row.status # "none" /\ row.end = term.end
    <2>1. term \in Row /\ term.end \in Int /\ 0 \in Int /\ "exceeded" \in Status
      BY DEF Ledger, LedgerTypes, Row, Status
    <2> QED BY <2>1, BecomesRow
  <1>2. /\ term' = term \/ Saved(failed, row)
        /\ Recorded(failed, 0) /\ today' = today /\ mishaps \subseteq mishaps'
    BY DEF MarkExceeded, Happen
  <1> HIDE DEF row
  <1> QED BY <1>1, <1>2, CloseBooks

(* A rung fires for a timer, and a term that is not there has none.         *)
LEMMA SweepBooks ==
  ASSUME Ledger, Sweep
  PROVE  Ledger'
  <1>1. PICK failed \in SUBSET {"save", "event"} :
          \/ handleBeslistermijnRung(failed)
          \/ \E day \in strays : handleStrayRung(day, failed)
    BY DEF Sweep
  <1>2. MarkExceeded(failed) /\ term.status # "none"
    BY <1>1 DEF handleBeslistermijnRung, handleStrayRung, Ledger, LedgerTypes
  <1> QED BY <1>2, BreachBooks

(* The repair step links a timer and touches nothing else of the term.      *)
LEMMA MigrateBooks ==
  ASSUME Ledger, NEW failed, migrateInstance(failed)
  PROVE  Ledger'
  <1>1. term' \in Row /\ term'.end = term.end /\ term'.status = term.status
    BY DEF Ledger, LedgerTypes, migrateInstance, Row
  <1>2. /\ today' \in Int /\ mishaps \subseteq mishaps' /\ journal'.days = journal.days
        /\ term.status # "none"
    BY DEF Ledger, LedgerTypes, migrateInstance, Happen
  <1> QED BY <1>1, <1>2, Unbooked

(* The expiry of a pause and the passing of a day move no end date.         *)
LEMMA OthersBook ==
  ASSUME Ledger,
         \/ \E due \in helpers, failed \in SUBSET Part : handlePauseExpiry(due, failed)
         \/ DayPasses
         \/ UNCHANGED vars
  PROVE  Ledger'
  <1>1. CASE \E due \in helpers, failed \in SUBSET Part : handlePauseExpiry(due, failed)
    <2>1. PICK due \in helpers, failed \in SUBSET Part : handlePauseExpiry(due, failed)
      BY <1>1
    <2>2. UNCHANGED <<today, term, timer, strays>> /\ mishaps \subseteq mishaps'
      BY <2>1 DEF handlePauseExpiry, Happen
    <2>3. journal'.days = journal.days
      BY <2>1 DEF handlePauseExpiry
    <2> QED BY <2>2, <2>3 DEF Ledger, LedgerTypes, LedgerBalances
  <1>2. CASE DayPasses
    BY <1>2 DEF DayPasses, Ledger, LedgerTypes, LedgerBalances
  <1>3. CASE UNCHANGED vars
    BY <1>3 DEF vars, Ledger, LedgerTypes, LedgerBalances
  <1> QED BY <1>1, <1>2, <1>3

(* No step upsets the ledger.                                               *)
LEMMA LedgerStep == Ledger /\ [Next]_vars => Ledger'
  <1> SUFFICES ASSUME Ledger, [Next]_vars PROVE Ledger'
    OBVIOUS
  <1>1. CASE \E failed \in SUBSET Part : createTermijnInstance(failed)
    BY <1>1, CreateBooks
  <1>2. CASE \E failed \in SUBSET Part, days \in PauseLengths : registerPauze(days, failed)
    BY <1>2, PauzeBooks
  <1>3. CASE \E failed \in SUBSET Part, answer \in Days : resumeAfterPauze(answer, failed)
    BY <1>3, HervatBooks
  <1>4. CASE \E failed \in SUBSET Part, newEnd \in Days, supervisor \in BOOLEAN :
               applyExtension(newEnd, supervisor, failed)
    BY <1>4, VerlengBooks
  <1>5. CASE \E failed \in SUBSET Part : markTermijnCompleted(failed)
    BY <1>5, VoltooiBooks
  <1>6. CASE \E failed \in SUBSET Part : migrateInstance(failed)
    BY <1>6, MigrateBooks
  <1>7. CASE Sweep
    BY <1>7, SweepBooks
  <1>8. CASE \/ \E due \in helpers, failed \in SUBSET Part : handlePauseExpiry(due, failed)
             \/ DayPasses
             \/ UNCHANGED vars
    BY <1>8, OthersBook
  <1> QED BY <1>1, <1>2, <1>3, <1>4, <1>5, <1>6, <1>7, <1>8 DEF Next

(* The events of a term account for its end date: whatever pauses, answers, *)
(* extensions and breaches it went through, of any length and on any day,   *)
(* its end is the sum of their daysImpact, unless a save and its event were *)
(* parted.                                                                  *)
THEOREM EventsAccountForEnd == Spec => []LedgerBalances
  <1>1. Ledger => LedgerBalances
    BY DEF Ledger
  <1> QED BY LedgerInit, LedgerStep, <1>1, PTL DEF Spec
------------------------------------------------------------------------------
(* The two clocks.  `FiresLate` is what keeps a rung from firing early: the *)
(* timer of a running term is not due before its end, and one that is held  *)
(* would, if it were let go today, fire no earlier than the end the term    *)
(* would have if the answer came today.                                     *)
TimerRow == [state : {"none", "running", "suspended", "cancelled"},
             at : Int, left : Int, breached : BOOLEAN, extensions : 0 .. ExtensionMax]

Paused == term.status = "paused"

Used == IF today - term.pausedOn < term.pauseDays THEN today - term.pausedOn ELSE term.pauseDays

FiresLate ==
  /\ Running => /\ timer.state = "running" => timer.at >= term.end
                /\ timer.state = "suspended" => today + timer.left >= term.end
  /\ Paused =>
       /\ timer.state # "running"
       /\ timer.state = "suspended" => today + timer.left >= term.end - term.pauseDays + Used

NotEarly ==
  "ahead" \notin mishaps =>
    /\ strays = {}
    /\ ~term.linked => timer.state \in {"none", "cancelled"}
    /\ FiresLate

Clocks ==
  /\ timer \in TimerRow
  /\ mishaps = {} /\ (Running \/ Paused) => term.linked
  /\ ClocksAgree
  /\ NotEarly

(* The other fields of a row that replaces a row.                           *)
LEMMA BecomesDates ==
  ASSUME term \in Row, NEW status, NEW end, NEW on, NEW days
  PROVE  /\ Becomes(status, end, on, days).pausedOn = on
         /\ Becomes(status, end, on, days).pauseDays = days
         /\ Becomes(status, end, on, days).linked = term.linked
         /\ Becomes(status, end, on, days).status = status
         /\ Becomes(status, end, on, days).end = end
         /\ Becomes(status, end, on, days).extensions = term.extensions
  BY DEF Becomes, Row

(* A timer with other fields is one.                                        *)
TimerWith(t, state, at, left) == [t EXCEPT !.state = state, !.at = at, !.left = left]

LEMMA TimerFields ==
  ASSUME NEW t \in TimerRow, NEW state \in {"none", "running", "suspended", "cancelled"},
         NEW at \in Int, NEW left \in Int
  PROVE  /\ TimerWith(t, state, at, left) \in TimerRow
         /\ TimerWith(t, state, at, left).state = state
         /\ TimerWith(t, state, at, left).at = at
         /\ TimerWith(t, state, at, left).left = left
         /\ TimerWith(t, state, at, left).extensions = t.extensions
  BY DEF TimerRow, TimerWith

(* What suspending, resuming and extending do to a timer.                   *)
LEMMA SuspendedTimer ==
  ASSUME NEW t \in TimerRow, today \in Int
  PROVE  /\ Suspended(t) \in TimerRow
         /\ t.state = "running" =>
              /\ Suspended(t).state = "suspended"
              /\ Suspended(t).left = IF t.at > today THEN t.at - today ELSE 0
         /\ t.state # "running" => Suspended(t) = t
         /\ Suspended(t).extensions = t.extensions
  <1> DEFINE s == TimerWith(t, "suspended", 0, Max0(t.at - today))
  <1>1. t.at \in Int /\ Max0(t.at - today) \in Int
    BY DEF TimerRow, Max0
  <1>2. s \in TimerRow /\ s.state = "suspended" /\ s.left = Max0(t.at - today)
        /\ s.extensions = t.extensions
    BY <1>1, TimerFields
  <1>3. Max0(t.at - today) = IF t.at > today THEN t.at - today ELSE 0
    BY <1>1 DEF Max0
  <1>4. Suspended(t) = IF t.state = "running" THEN s ELSE t
    BY DEF Suspended, TimerWith
  <1> HIDE DEF s
  <1> QED BY <1>2, <1>3, <1>4

LEMMA ResumedTimer ==
  ASSUME NEW t \in TimerRow, today \in Int
  PROVE  /\ Resumed(t) \in TimerRow
         /\ t.state = "suspended" =>
              Resumed(t).state = "running" /\ Resumed(t).at = today + t.left
         /\ t.state # "suspended" => Resumed(t) = t
         /\ Resumed(t).extensions = t.extensions
  <1> DEFINE s == TimerWith(t, "running", today + t.left, 0)
  <1>1. t.left \in Int /\ today + t.left \in Int
    BY DEF TimerRow
  <1>2. s \in TimerRow /\ s.state = "running" /\ s.at = today + t.left
        /\ s.extensions = t.extensions
    BY <1>1, TimerFields
  <1>3. Resumed(t) = IF t.state = "suspended" THEN s ELSE t
    BY DEF Resumed, TimerWith
  <1> HIDE DEF s
  <1> QED BY <1>2, <1>3

LEMMA CountedTimer ==
  ASSUME NEW t \in TimerRow, NEW supervisor
  PROVE  /\ Counted(t, supervisor) \in 0 .. ExtensionMax
         /\ Counted(t, supervisor) <= t.extensions + 1
         /\ t.extensions \in Nat /\ ExtensionMax \in Nat
  BY TermijnAssumption DEF TermijnAssumption, TimerRow, Counted

LEMMA ExtendedTimer ==
  ASSUME NEW t \in TimerRow, NEW days \in Int, NEW supervisor
  PROVE  /\ Extended(t, days, supervisor) \in TimerRow
         /\ Extended(t, days, supervisor).state = t.state
         /\ ~Refuses(t, supervisor) =>
              /\ t.state = "running" => Extended(t, days, supervisor).at = t.at + days
              /\ t.state = "suspended" => Extended(t, days, supervisor).left = t.left + days
         /\ Extended(t, days, supervisor).extensions <= t.extensions + 1
  <1> DEFINE n == Counted(t, supervisor)
             x == Extended(t, days, supervisor)
  <1>0. /\ t.at \in Int /\ t.left \in Int /\ n \in 0 .. ExtensionMax /\ n <= t.extensions + 1
        /\ t.extensions <= t.extensions + 1
    BY CountedTimer DEF TimerRow
  <1> HIDE DEF n
  <1>1. CASE ~Refuses(t, supervisor) /\ t.state = "running"
    <2> DEFINE m == t.at + days
               s == [t EXCEPT !.at = m, !.extensions = n]
    <2>0. m \in Int
      BY <1>0
    <2> HIDE DEF m
    <2>1. s \in TimerRow /\ s.state = t.state /\ s.at = m /\ s.extensions = n
      BY <1>0, <2>0 DEF TimerRow
    <2>2. x = s
      BY <1>1 DEF Extended, m, n
    <2> QED BY <1>0, <1>1, <2>1, <2>2 DEF m
  <1>2. CASE ~Refuses(t, supervisor) /\ t.state = "suspended"
    <2> DEFINE m == t.left + days
               s == [t EXCEPT !.left = m, !.extensions = n]
    <2>0. m \in Int
      BY <1>0
    <2> HIDE DEF m
    <2>1. s \in TimerRow /\ s.state = t.state /\ s.left = m /\ s.extensions = n
      BY <1>0, <2>0 DEF TimerRow
    <2>2. x = s
      BY <1>2 DEF Extended, m, n
    <2> QED BY <1>0, <1>2, <2>1, <2>2 DEF m
  <1>3. CASE Refuses(t, supervisor) \/ t.state \notin {"running", "suspended"}
    <2>1. x = t
      BY <1>3 DEF Extended
    <2> QED BY <1>0, <1>3, <2>1
  <1> QED BY <1>1, <1>2, <1>3

LEMMA NoTimerRow ==
  /\ NoTimer \in TimerRow /\ NoTimer.state = "none" /\ NoTimer.at = 0 /\ NoTimer.left = 0
  /\ NoTimer.extensions = 0
  BY TermijnAssumption DEF TermijnAssumption, NoTimer, TimerRow

LEMMA ArmedTimer ==
  ASSUME NEW day \in Int
  PROVE  /\ Armed(day) \in TimerRow /\ Armed(day).state = "running" /\ Armed(day).at = day
         /\ Armed(day).left = 0 /\ Armed(day).extensions = 0
  <1>1. /\ Armed(day) = [NoTimer EXCEPT !.state = "running", !.at = day]
        /\ NoTimer \in TimerRow /\ NoTimer.left = 0 /\ NoTimer.extensions = 0
    BY NoTimerRow DEF Armed
  <1> QED BY <1>1 DEF TimerRow

LEMMA ClocksInit == Init => Clocks
  <1> SUFFICES ASSUME Init PROVE Clocks
    OBVIOUS
  <1>1. term.status = "none" /\ timer = NoTimer /\ strays = {} /\ mishaps = {}
    BY DEF Init
  <1>2. NoTimer \in TimerRow /\ NoTimer.state = "none"
    BY NoTimerRow
  <1> QED BY <1>1, <1>2 DEF Clocks, ClocksAgree, NotEarly, FiresLate, Running, Paused
------------------------------------------------------------------------------
(* The engine has counted no more extensions than the term, as long as the  *)
(* maximum of the domain leaves room for one and nothing parted the two.    *)
Counts ==
  /\ term.extensions \in Nat
  /\ mishaps = {} /\ term.extensions < MaxExtensions => timer.extensions <= term.extensions

LEMMA CountsInit == Init => Counts
  BY NoTimerRow DEF Init, Counts

(* What the domain permits the engine does not refuse, unless something     *)
(* went wrong before.                                                       *)
LEMMA NothingRefused ==
  ASSUME Clocks, Counts, NEW newEnd, NEW supervisor,
         assertExtensionPermitted(newEnd, supervisor), Refuses(timer, supervisor)
  PROVE  mishaps # {}
  <1>1. timer.extensions = ExtensionMax /\ term.extensions < MaxExtensions
    BY DEF Refuses, assertExtensionPermitted
  <1>2. MaxExtensions <= ExtensionMax /\ MaxExtensions \in Nat /\ ExtensionMax \in Nat
    BY TermijnAssumption DEF TermijnAssumption
  <1> QED BY <1>1, <1>2 DEF Counts

(* A step that counts nothing, or starts another timer.                     *)
LEMMA CountsKept ==
  ASSUME Counts, mishaps \subseteq mishaps', term'.extensions = term.extensions,
         timer'.extensions \in {timer.extensions, 0}
  PROVE  Counts'
  BY DEF Counts

LEMMA VerlengCounts ==
  ASSUME Ledger, Clocks, Counts, NEW newEnd \in Days, NEW supervisor, NEW failed,
         applyExtension(newEnd, supervisor, failed)
  PROVE  Counts'
  <1> DEFINE moved == Becomes("verlengd", newEnd, 0, 0)
             n == IF moved.extensions < MaxExtensions THEN moved.extensions + 1
                  ELSE moved.extensions
             row == [moved EXCEPT !.extensions = n]
             further == newEnd - term.end
  <1>1. /\ term \in Row /\ timer \in TimerRow /\ newEnd \in Int /\ further \in Int
        /\ timer.extensions \in Nat /\ term.extensions \in Nat /\ MaxExtensions \in Nat
    BY Integral, TermijnAssumption
    DEF TermijnAssumption, Ledger, LedgerTypes, Clocks, Counts, Row, TimerRow
  <1>2. moved \in Row /\ moved.extensions = term.extensions
    BY <1>1, BecomesRow, BecomesDates DEF Status
  <1>3. row.extensions = IF term.extensions < MaxExtensions THEN term.extensions + 1
                         ELSE term.extensions
    <2> HIDE DEF moved
    <2> QED BY <1>2 DEF Row
  <1>4. /\ mishaps \subseteq mishaps'
        /\ "engine" \in failed /\ "save" \notin failed => "ahead" \in mishaps'
        /\ "save" \in failed /\ "engine" \notin failed => "behind" \in mishaps'
    BY DEF applyExtension, Happen, Unheard, If
  <1>5. term' = IF "save" \in failed THEN term ELSE row
    BY DEF applyExtension, Saved
  <1>6. timer' = IF "engine" \in failed \/ ~term.linked THEN timer
                 ELSE Extended(timer, further, supervisor)
    BY DEF applyExtension, Engine
  <1> HIDE DEF row, further
  <1>7. timer' \in TimerRow /\ timer'.extensions \in Nat /\ timer'.extensions <= timer.extensions + 1
    BY <1>1, <1>6, ExtendedTimer DEF TimerRow
  <1>8. CASE "save" \in failed
    BY <1>4, <1>5, <1>6, <1>8 DEF Counts
  <1>9. CASE "save" \notin failed
    BY <1>1, <1>3, <1>4, <1>5, <1>7, <1>9 DEF Counts
  <1> QED BY <1>8, <1>9

LEMMA CountsStep == Ledger /\ Clocks /\ Counts /\ [Next]_vars => Counts'
  <1> SUFFICES ASSUME Ledger, Clocks, Counts, [Next]_vars PROVE Counts'
    OBVIOUS
  <1>0. /\ term \in Row /\ timer \in TimerRow /\ today \in Int /\ term.end \in Int
    BY DEF Ledger, LedgerTypes, Clocks, Row
  <1>1. ASSUME NEW failed, createTermijnInstance(failed) PROVE Counts'
    <2>1. term'.extensions = term.extensions /\ mishaps \subseteq mishaps'
      BY <1>0, <1>1 DEF createTermijnInstance, Happen, Row
    <2>2. timer' \in {timer, Armed(Duration)}
      BY <1>1 DEF createTermijnInstance
    <2> QED BY <2>1, <2>2, ArmedTimer, Integral, CountsKept
  <1>2. ASSUME NEW failed, NEW days \in PauseLengths, registerPauze(days, failed) PROVE Counts'
    <2>1. /\ term' \in {term, Becomes("paused", term.end + days, today, days)}
          /\ timer' \in {timer, Suspended(timer)} /\ mishaps \subseteq mishaps'
      BY <1>2 DEF registerPauze, Saved, Engine, Happen
    <2> QED BY <1>0, <2>1, BecomesDates, SuspendedTimer, CountsKept
  <1>3. ASSUME NEW failed, NEW answer \in Days, resumeAfterPauze(answer, failed) PROVE Counts'
    <2>1. /\ term' \in {term, Becomes("lopend", PulledBack(answer), 0, 0)}
          /\ timer' \in {timer, Resumed(timer)} /\ mishaps \subseteq mishaps'
      BY <1>3 DEF resumeAfterPauze, Saved, Engine, Happen
    <2> QED BY <1>0, <2>1, BecomesDates, ResumedTimer, CountsKept
  <1>4. CASE \E failed \in SUBSET Part, newEnd \in Days, supervisor \in BOOLEAN :
               applyExtension(newEnd, supervisor, failed)
    BY <1>4, VerlengCounts
  <1>5. ASSUME NEW failed, markTermijnCompleted(failed) PROVE Counts'
    <2> DEFINE gone == [NoTimer EXCEPT !.state = "cancelled"]
    <2>1. /\ term' \in {term, Becomes("completed", term.end, 0, 0)}
          /\ timer' \in {timer, gone} /\ mishaps \subseteq mishaps'
      BY <1>5 DEF markTermijnCompleted, Saved, Happen
    <2>2. gone.extensions = 0
      BY NoTimerRow DEF TimerRow
    <2> HIDE DEF gone
    <2> QED BY <1>0, <2>1, <2>2, BecomesDates, CountsKept
  <1>6. ASSUME NEW failed, migrateInstance(failed) PROVE Counts'
    <2>1. /\ timer' \in {timer, Armed(term.end), Suspended(Armed(term.end))}
          /\ mishaps \subseteq mishaps'
      BY <1>6 DEF migrateInstance, Happen
    <2>2. term'.extensions = term.extensions
      BY <1>0, <1>6 DEF migrateInstance, Row
    <2> QED BY <1>0, <2>1, <2>2, ArmedTimer, SuspendedTimer, CountsKept
  <1>7. ASSUME Sweep PROVE Counts'
    <2> DEFINE rung == [timer EXCEPT !.breached = TRUE]
    <2>1. PICK failed \in SUBSET {"save", "event"} :
            \/ handleBeslistermijnRung(failed)
            \/ \E day \in strays : handleStrayRung(day, failed)
      BY <1>7 DEF Sweep
    <2>2. /\ term' \in {term, Becomes("exceeded", term.end, 0, 0)}
          /\ timer' \in {timer, rung} /\ mishaps \subseteq mishaps'
      BY <2>1 DEF handleBeslistermijnRung, handleStrayRung, MarkExceeded, Saved, Happen
    <2>3. rung.extensions = timer.extensions
      BY <1>0 DEF TimerRow
    <2> HIDE DEF rung
    <2> QED BY <1>0, <2>2, <2>3, BecomesDates, CountsKept
  <1>8. ASSUME NEW due, NEW failed, handlePauseExpiry(due, failed) \/ DayPasses \/ UNCHANGED vars
        PROVE  Counts'
    BY <1>8 DEF handlePauseExpiry, DayPasses, vars, Happen, Counts
  <1> QED BY <1>1, <1>2, <1>3, <1>4, <1>5, <1>6, <1>7, <1>8 DEF Next
------------------------------------------------------------------------------
LEMMA CreateKeepsClocks ==
  ASSUME Ledger, Ledger', Clocks, NEW failed, createTermijnInstance(failed)
  PROVE  Clocks'
  <1> DEFINE armed == failed \cap {"engine", "link"} = {}
  <1>1. /\ term \in Row /\ term.end = Duration /\ timer.state = "none" /\ strays = {}
        /\ timer \in TimerRow
    BY DEF Ledger, LedgerTypes, Clocks, createTermijnInstance
  <1>2. /\ term'.status = "lopend" /\ term'.linked = armed /\ term'.end = term.end
    BY <1>1 DEF createTermijnInstance, Row
  <1>3. /\ "engine" \in failed => "behind" \in mishaps'
        /\ "link" \in failed => "ahead" \in mishaps'
        /\ mishaps \subseteq mishaps'
    BY DEF createTermijnInstance, Happen, If
  <1>4. timer' = IF armed THEN Armed(Duration) ELSE timer
    BY DEF createTermijnInstance
  <1>5. timer' \in TimerRow
    BY <1>1, <1>4, ArmedTimer, Integral
  <1>6. mishaps' = {} => armed
    BY <1>3
  <1>7. "ahead" \notin mishaps' => strays' = {}
    BY <1>3 DEF createTermijnInstance
  <1>8. armed => timer'.state = "running" /\ timer'.at = term'.end
    BY <1>1, <1>2, <1>4, ArmedTimer, Integral
  <1>9. term'.end \in Int /\ Running' /\ ~Paused'
    BY <1>1, <1>2, Integral DEF Running, Paused
  <1>10. ClocksAgree'
    BY <1>6, <1>8, <1>9 DEF ClocksAgree, Paused
  <1>11. NotEarly'
    <2>1. ~armed => timer'.state = "none"
      BY <1>1, <1>4
    <2>2. ~term'.linked => timer'.state \in {"none", "cancelled"}
      BY <1>2, <2>1
    <2>3. FiresLate'
      BY <1>8, <1>9, <2>1 DEF FiresLate
    <2> QED BY <1>7, <2>2, <2>3 DEF NotEarly
  <1> QED BY <1>2, <1>5, <1>6, <1>10, <1>11 DEF Clocks

(* A pause banks what is left of the term: never less than its end, as it   *)
(* was, is away.                                                            *)
LEMMA PauzeKeepsClocks ==
  ASSUME Ledger, Ledger', Clocks, NEW days \in PauseLengths, NEW failed,
         registerPauze(days, failed)
  PROVE  Clocks'
  <1> DEFINE row == Becomes("paused", term.end + days, today, days)
  <1>1. /\ term \in Row /\ timer \in TimerRow /\ today \in Int /\ term.end \in Int
        /\ days \in Int /\ days > 0 /\ today' = today /\ strays' = strays
        /\ term.status \notin {"none", "paused"}
    BY TermijnAssumption DEF Ledger, LedgerTypes, Clocks, registerPauze, Row
  <1>2. /\ row.status = "paused" /\ row.end = term.end + days /\ row.pausedOn = today
        /\ row.pauseDays = days /\ row.linked = term.linked
    BY <1>1, BecomesDates
  <1>3. /\ mishaps \subseteq mishaps'
        /\ "engine" \in failed /\ "save" \notin failed => "ahead" \in mishaps'
        /\ "save" \in failed /\ "engine" \notin failed => "behind" \in mishaps'
        /\ today > term.end => "behind" \in mishaps'
        /\ ~Running => "ahead" \in mishaps'
    <2>1. term.status \in Status
      BY <1>1 DEF Row
    <2> QED BY <1>1, <2>1 DEF registerPauze, Happen, Unheard, If, Running, Status
  <1>4. term' = IF "save" \in failed THEN term ELSE row
    BY DEF registerPauze, Saved
  <1> HIDE DEF row
  <1>5. timer' = IF "engine" \in failed \/ ~term.linked THEN timer ELSE Suspended(timer)
    BY DEF registerPauze, Engine
  <1>6. timer' \in TimerRow /\ timer.at \in Int /\ timer.left \in Int
    BY <1>1, <1>5, SuspendedTimer DEF TimerRow
  <1>7. mishaps' = {} /\ (Running \/ Paused)' => term'.linked
    BY <1>2, <1>3, <1>4 DEF Clocks, Running, Paused
  <1>8. ASSUME mishaps' = {}
        PROVE  /\ Running' => (timer'.state = "running" /\ timer'.at = term'.end)
               /\ Paused' => (timer'.state = "suspended"
                              /\ timer'.left = term'.end - term'.pauseDays - term'.pausedOn)
    <2>1. mishaps = {} /\ Running /\ today <= term.end
      BY <1>1, <1>3, <1>8
    <2>2. timer.state = "running" /\ timer.at = term.end /\ term.linked
      BY <2>1 DEF Clocks, ClocksAgree
    <2>3. CASE "save" \in failed
      <3>1. timer' = timer /\ term' = term
        BY <1>3, <1>4, <1>5, <1>8, <2>3
      <3> QED BY <2>1, <2>2, <3>1 DEF Running, Paused
    <2>4. CASE "save" \notin failed
      <3>1. timer' = Suspended(timer) /\ term' = row
        BY <1>3, <1>4, <1>5, <1>8, <2>2, <2>4
      <3>2. timer'.state = "suspended" /\ timer'.left = term.end - today
        BY <1>1, <2>1, <2>2, <3>1, SuspendedTimer
      <3>3. ~Running' /\ term'.end - term'.pauseDays - term'.pausedOn = term.end - today
        BY <1>1, <1>2, <3>1 DEF Running
      <3> QED BY <3>2, <3>3
    <2> QED BY <2>3, <2>4
  <1>9. ASSUME "ahead" \notin mishaps'
        PROVE  strays' = {} /\ (~term'.linked => timer'.state \in {"none", "cancelled"}) /\ FiresLate'
    <2>1. /\ Running /\ strays = {} /\ (~term.linked => timer.state \in {"none", "cancelled"})
          /\ timer.state = "running" => timer.at >= term.end
          /\ timer.state = "suspended" => today + timer.left >= term.end
      BY <1>3, <1>9 DEF Clocks, NotEarly, FiresLate
    <2>2. ~term'.linked => timer'.state \in {"none", "cancelled"}
      BY <1>2, <1>4, <1>5, <2>1
    <2>3. timer'.state = "suspended" => today + timer'.left >= term.end
      BY <1>1, <1>5, <1>6, <2>1, SuspendedTimer
    <2>4. timer'.state = "running" => "engine" \in failed /\ timer' = timer
      BY <1>1, <1>5, <2>1, SuspendedTimer
    <2>5. CASE "save" \in failed
      <3>1. Running' /\ ~Paused' /\ term'.end = term.end
        BY <1>4, <2>1, <2>5 DEF Running, Paused
      <3> QED BY <1>1, <2>1, <2>2, <2>3, <2>4, <3>1 DEF FiresLate
    <2>6. CASE "save" \notin failed
      <3>1. ~Running' /\ term' = row
        BY <1>2, <1>4, <2>6 DEF Running
      <3>2. timer'.state # "running"
        BY <1>3, <1>9, <2>4, <2>6
      <3>3. Used' = 0 /\ term'.end - term'.pauseDays = term.end
        BY <1>1, <1>2, <3>1 DEF Used
      <3> QED BY <1>1, <1>6, <2>1, <2>2, <2>3, <3>1, <3>2, <3>3 DEF FiresLate
    <2> QED BY <2>5, <2>6
  <1> QED BY <1>6, <1>7, <1>8, <1>9 DEF Clocks, ClocksAgree, NotEarly, Paused

(* An answer lets the timer fire as long from now as was banked; the days   *)
(* it takes back from the end are no more than that leaves room for.        *)
LEMMA HervatKeepsClocks ==
  ASSUME Ledger, Ledger', Clocks, NEW answer \in Days, NEW failed,
         resumeAfterPauze(answer, failed)
  PROVE  Clocks'
  <1> DEFINE row == Becomes("lopend", PulledBack(answer), 0, 0)
             consumed == Consumed(answer)
  <1>1. /\ term \in Row /\ timer \in TimerRow /\ today \in Int /\ term.end \in Int
        /\ term.pauseDays \in Int /\ term.pausedOn \in Int /\ answer \in Int
        /\ today' = today /\ strays' = strays /\ Paused /\ ~Running
    BY Integral DEF Ledger, LedgerTypes, Clocks, resumeAfterPauze, Row, Paused, Running
  <1>2. /\ consumed \in Int /\ consumed <= term.pauseDays
        /\ PulledBack(answer) = term.end - (term.pauseDays - consumed)
    BY <1>1 DEF Consumed, Distance, PulledBack, Unused
  <1>3. /\ row.status = "lopend" /\ row.end = PulledBack(answer) /\ row.linked = term.linked
    BY <1>1, BecomesDates
  <1>4. /\ mishaps \subseteq mishaps'
        /\ "engine" \in failed /\ "save" \notin failed => "behind" \in mishaps'
        /\ "save" \in failed /\ "engine" \notin failed => "ahead" \in mishaps'
        /\ consumed > today - term.pausedOn => "ahead" \in mishaps'
        /\ consumed < today - term.pausedOn => "behind" \in mishaps'
    BY DEF resumeAfterPauze, Happen, Unheard, If
  <1>5. term' = IF "save" \in failed THEN term ELSE row
    BY DEF resumeAfterPauze, Saved
  <1> HIDE DEF row, consumed
  <1>6. timer' = IF "engine" \in failed \/ ~term.linked THEN timer ELSE Resumed(timer)
    BY DEF resumeAfterPauze, Engine
  <1>7. timer' \in TimerRow /\ timer.left \in Int
    BY <1>1, <1>6, ResumedTimer DEF TimerRow
  <1>8. mishaps' = {} /\ (Running \/ Paused)' => term'.linked
    BY <1>1, <1>3, <1>4, <1>5 DEF Clocks
  <1>9. CASE "save" \in failed
    <2>1. term' = term /\ ("ahead" \notin mishaps' => timer' = timer)
      BY <1>4, <1>5, <1>6, <1>9
    <2>2. ClocksAgree'
      BY <1>4, <2>1 DEF Clocks, ClocksAgree, Running
    <2>3. NotEarly'
      BY <1>1, <1>4, <2>1 DEF Clocks, NotEarly, FiresLate, Running, Paused, Used
    <2> QED BY <1>7, <1>8, <2>2, <2>3 DEF Clocks
  <1>10. CASE "save" \notin failed
    <2>1. term' = row /\ Running' /\ ~Paused' /\ term'.linked = term.linked
          /\ term'.end = term.end - (term.pauseDays - consumed)
      BY <1>2, <1>3, <1>5, <1>10 DEF Running, Paused
    <2>2. ASSUME mishaps' = {}
          PROVE  timer'.state = "running" /\ timer'.at = term'.end
      <3>1. /\ mishaps = {} /\ "engine" \notin failed
            /\ ~(consumed > today - term.pausedOn) /\ ~(consumed < today - term.pausedOn)
        BY <1>4, <1>10, <2>2
      <3>2. consumed = today - term.pausedOn
        BY <1>1, <1>2, <3>1
      <3>3. /\ timer.state = "suspended" /\ term.linked
            /\ timer.left = term.end - term.pauseDays - term.pausedOn
        BY <1>1, <3>1 DEF Clocks, ClocksAgree, Paused
      <3>4. timer' = Resumed(timer)
        BY <1>6, <3>1, <3>3
      <3>5. timer'.state = "running" /\ timer'.at = today + timer.left
        BY <1>1, <3>3, <3>4, ResumedTimer
      <3> QED BY <1>1, <1>2, <2>1, <3>2, <3>3, <3>5
    <2>3. ASSUME "ahead" \notin mishaps'
          PROVE  strays' = {} /\ (~term'.linked => timer'.state \in {"none", "cancelled"}) /\ FiresLate'
      <3>1. /\ strays = {} /\ (~term.linked => timer.state \in {"none", "cancelled"})
            /\ timer.state # "running" /\ ~(consumed > today - term.pausedOn)
            /\ timer.state = "suspended" => today + timer.left >= term.end - term.pauseDays + Used
        BY <1>1, <1>4, <2>3 DEF Clocks, NotEarly, FiresLate
      <3>2. Used \in Int /\ consumed <= Used
        BY <1>1, <1>2, <3>1 DEF Used
      <3>3. timer.state = "suspended" => today + timer.left >= term'.end
        BY <1>1, <1>2, <1>7, <2>1, <3>1, <3>2
      <3>4. timer'.state = "suspended" => today + timer'.left >= term'.end
        BY <1>1, <1>6, <3>1, <3>3, ResumedTimer
      <3>5. timer'.state = "running" => timer'.at >= term'.end
        BY <1>1, <1>6, <3>1, <3>3, ResumedTimer
      <3>6. ~term'.linked => timer'.state \in {"none", "cancelled"}
        BY <1>6, <2>1, <3>1
      <3> QED BY <1>1, <2>1, <3>1, <3>4, <3>5, <3>6 DEF FiresLate
    <2> QED BY <1>7, <1>8, <2>1, <2>2, <2>3 DEF Clocks, ClocksAgree, NotEarly, Paused
  <1> QED BY <1>9, <1>10

(* An extension moves both clocks by as many days.                          *)
LEMMA VerlengKeepsClocks ==
  ASSUME Ledger, Ledger', Clocks, Counts, NEW newEnd \in Days, NEW supervisor, NEW failed,
         applyExtension(newEnd, supervisor, failed)
  PROVE  Clocks'
  <1> DEFINE moved == Becomes("verlengd", newEnd, 0, 0)
             n == IF moved.extensions < MaxExtensions THEN moved.extensions + 1
                  ELSE moved.extensions
             row == [moved EXCEPT !.extensions = n]
             further == newEnd - term.end
  <1>1. /\ term \in Row /\ timer \in TimerRow /\ today \in Int /\ term.end \in Int
        /\ newEnd \in Int /\ further \in Int /\ further > 0
        /\ timer.at \in Int /\ timer.left \in Int
        /\ today' = today /\ strays' = strays
    BY Integral DEF Ledger, LedgerTypes, Clocks, applyExtension, assertExtensionPermitted, Row,
       TimerRow
  <1>2. row.status = "verlengd" /\ row.end = newEnd /\ row.linked = term.linked
    <2>1. "verlengd" \in Status /\ 0 \in Int
      BY DEF Status
    <2>2. /\ moved \in Row /\ moved.status = "verlengd" /\ moved.end = newEnd
          /\ moved.linked = term.linked
      BY <1>1, <2>1, BecomesRow, BecomesDates
    <2> HIDE DEF moved
    <2>3. row.linked = moved.linked /\ row.status = moved.status /\ row.end = moved.end
      BY <2>2 DEF Row
    <2> QED BY <2>2, <2>3
  <1>3. /\ mishaps \subseteq mishaps'
        /\ "engine" \in failed /\ "save" \notin failed => "ahead" \in mishaps'
        /\ "save" \in failed /\ "engine" \notin failed => "behind" \in mishaps'
        /\ ~Running => "ahead" \in mishaps'
        /\ Refuses(timer, supervisor) => "ahead" \in mishaps'
    <2>1. term.status \in Status /\ term.status # "none"
      BY <1>1 DEF Row, applyExtension
    <2>2. Refuses(timer, supervisor) => mishaps # {}
      BY NothingRefused DEF applyExtension
    <2> QED BY <2>1, <2>2 DEF applyExtension, Happen, Unheard, If, Running, Status
  <1>4. term' = IF "save" \in failed THEN term ELSE row
    BY DEF applyExtension, Saved
  <1>5. timer' = IF "engine" \in failed \/ ~term.linked THEN timer ELSE Extended(timer, further, supervisor)
    BY DEF applyExtension, Engine
  <1> HIDE DEF row, further
  <1>6. timer' \in TimerRow
    BY <1>1, <1>5, ExtendedTimer
  <1>7. mishaps' = {} /\ (Running \/ Paused)' => term'.linked
    BY <1>2, <1>3, <1>4 DEF Clocks
  <1>8. ASSUME "ahead" \notin mishaps' PROVE Running' /\ ~Paused'
    BY <1>2, <1>3, <1>4, <1>8 DEF Running, Paused
  <1>9. ASSUME mishaps' = {}
        PROVE  timer'.state = "running" /\ timer'.at = term'.end
    <2>1. /\ mishaps = {} /\ Running /\ term.linked
          /\ timer.state = "running" /\ timer.at = term.end
      BY <1>3, <1>9 DEF Clocks, ClocksAgree
    <2>2. CASE "save" \in failed
      BY <1>3, <1>4, <1>5, <1>9, <2>1, <2>2
    <2>3. CASE "save" \notin failed
      <3>1. timer' = Extended(timer, further, supervisor) /\ term'.end = newEnd
        BY <1>2, <1>3, <1>4, <1>5, <1>9, <2>1, <2>3
      <3>2. newEnd = term.end + further
        BY <1>1 DEF further
      <3>3. /\ Extended(timer, further, supervisor).state = "running"
            /\ Extended(timer, further, supervisor).at = timer.at + further
        BY <1>1, <1>3, <1>9, <2>1, ExtendedTimer
      <3> QED BY <2>1, <3>1, <3>2, <3>3
    <2> QED BY <2>2, <2>3
  <1>10. ASSUME "ahead" \notin mishaps'
         PROVE  strays' = {} /\ (~term'.linked => timer'.state \in {"none", "cancelled"}) /\ FiresLate'
    <2>1. /\ Running /\ strays = {} /\ (~term.linked => timer.state \in {"none", "cancelled"})
          /\ timer.state = "running" => timer.at >= term.end
          /\ timer.state = "suspended" => today + timer.left >= term.end
      BY <1>3, <1>10 DEF Clocks, NotEarly, FiresLate
    <2>2. ~term'.linked => timer'.state \in {"none", "cancelled"}
      BY <1>2, <1>4, <1>5, <2>1
    <2>3. term'.end = IF "save" \in failed THEN term.end ELSE term.end + further
      BY <1>1, <1>2, <1>4 DEF further
    <2>4. CASE "engine" \in failed \/ ~term.linked
      <3>1. timer' = timer /\ ("save" \in failed \/ ~term.linked)
        BY <1>3, <1>5, <1>10, <2>4
      <3>2. /\ timer'.state = "running" => timer'.at >= term'.end
            /\ timer'.state = "suspended" => today + timer'.left >= term'.end
        BY <2>1, <2>3, <3>1
      <3> QED BY <1>1, <1>8, <1>10, <2>1, <2>2, <3>2 DEF FiresLate
    <2>5. CASE ~("engine" \in failed \/ ~term.linked)
      <3>1. timer' = Extended(timer, further, supervisor)
        BY <1>5, <2>5
      <3>2. /\ timer'.state = timer.state
            /\ timer.state = "running" => timer'.at = timer.at + further
            /\ timer.state = "suspended" => timer'.left = timer.left + further
        BY <1>1, <1>3, <1>10, <3>1, ExtendedTimer
      <3>3. term'.end <= term.end + further /\ term'.end \in Int
        BY <1>1, <2>3
      <3>4. timer'.state = "running" => timer'.at >= term'.end
        BY <1>1, <2>1, <3>2, <3>3
      <3>5. timer'.state = "suspended" => today + timer'.left >= term'.end
        BY <1>1, <2>1, <3>2, <3>3
      <3> QED BY <1>1, <1>8, <1>10, <2>1, <2>2, <3>4, <3>5 DEF FiresLate
    <2> QED BY <2>4, <2>5
  <1>11. ClocksAgree'
    BY <1>8, <1>9 DEF ClocksAgree, Paused
  <1>12. NotEarly'
    BY <1>10 DEF NotEarly
  <1> QED BY <1>6, <1>7, <1>11, <1>12 DEF Clocks

(* A timer cannot come back for a term that is completed, or whose clocks   *)
(* keep still.                                                              *)
LEMMA ClosedKeepsClocks ==
  ASSUME Clocks, timer' \in TimerRow, mishaps \subseteq mishaps', strays' \subseteq strays,
         term'.status \in {"completed", "exceeded"}, term'.linked = term.linked,
         timer'.state \in {timer.state, "cancelled"}
  PROVE  Clocks'
  <1>1. ~Running' /\ ~Paused'
    BY DEF Running, Paused
  <1>2. NotEarly'
    BY <1>1 DEF Clocks, NotEarly, FiresLate
  <1> QED BY <1>1, <1>2 DEF Clocks, ClocksAgree, Paused

(* A step that touches no clock but for the rungs that have fired.          *)
LEMMA StillKeepsClocks ==
  ASSUME Clocks, timer' \in TimerRow, mishaps \subseteq mishaps', strays' \subseteq strays,
         term' = term, today' = today,
         timer'.state = timer.state, timer'.at = timer.at, timer'.left = timer.left
  PROVE  Clocks'
  <1>1. (Running' <=> Running) /\ (Paused' <=> Paused) /\ Used' = Used
    BY DEF Running, Paused, Used
  <1>2. ClocksAgree'
    BY <1>1 DEF Clocks, ClocksAgree, Paused
  <1>3. NotEarly'
    BY <1>1 DEF Clocks, NotEarly, FiresLate
  <1> QED BY <1>1, <1>2, <1>3 DEF Clocks

LEMMA VoltooiKeepsClocks ==
  ASSUME Ledger, Ledger', Clocks, NEW failed, markTermijnCompleted(failed)
  PROVE  Clocks'
  <1> DEFINE row == Becomes("completed", term.end, 0, 0)
             gone == [NoTimer EXCEPT !.state = "cancelled"]
  <1>1. /\ term \in Row /\ timer \in TimerRow /\ today' = today
        /\ mishaps \subseteq mishaps' /\ strays' \subseteq strays
    BY DEF Ledger, LedgerTypes, Clocks, markTermijnCompleted, Happen
  <1>2. gone \in TimerRow /\ gone.state = "cancelled"
    <2>1. NoTimer \in TimerRow
      BY NoTimerRow
    <2> QED BY <2>1 DEF TimerRow
  <1>3. row.status = "completed" /\ row.linked = term.linked
    BY <1>1, BecomesDates
  <1>4. /\ timer' \in {timer, gone} /\ ("save" \in failed => timer' = timer)
        /\ term' = IF "save" \in failed THEN term ELSE row
    BY DEF markTermijnCompleted, Saved
  <1> HIDE DEF row, gone
  <1>5. CASE "save" \in failed
    BY <1>1, <1>4, <1>5, StillKeepsClocks
  <1>6. CASE "save" \notin failed
    <2>1. term'.status \in {"completed", "exceeded"} /\ term'.linked = term.linked
      BY <1>3, <1>4, <1>6
    <2>2. timer' \in TimerRow /\ timer'.state \in {timer.state, "cancelled"}
      BY <1>1, <1>2, <1>4
    <2> QED BY <1>1, <2>1, <2>2, ClosedKeepsClocks
  <1> QED BY <1>5, <1>6

(* A late timer fires on the end date as it is now; a paused term holds it  *)
(* with at least the days it still has.                                     *)
LEMMA MigrateKeepsClocks ==
  ASSUME Ledger, Ledger', Clocks, NEW failed, migrateInstance(failed)
  PROVE  Clocks'
  <1> DEFINE armed == Armed(term.end)
             now == IF Paused /\ "suspend" \notin failed THEN Suspended(armed) ELSE armed
  <1>1. /\ term \in Row /\ timer \in TimerRow /\ today \in Int /\ term.end \in Int
        /\ term.pauseDays \in Int /\ term.pausedOn \in Int
        /\ today' = today /\ ~term.linked
    BY DEF Ledger, LedgerTypes, Clocks, migrateInstance, Row
  <1>2. armed \in TimerRow /\ armed.state = "running" /\ armed.at = term.end
    BY <1>1, ArmedTimer
  <1>3. /\ term'.status = term.status /\ term'.end = term.end /\ term'.pauseDays = term.pauseDays
        /\ term'.pausedOn = term.pausedOn /\ term'.linked = ("link" \notin failed)
    BY <1>1 DEF migrateInstance, Row
  <1>4. /\ mishaps \subseteq mishaps'
        /\ Paused => "behind" \in mishaps'
        /\ failed # {} => "ahead" \in mishaps'
    BY DEF migrateInstance, Happen, If, Paused
  <1>5. IF "link" \in failed THEN timer' = timer ELSE timer' = now /\ strays' = strays
    BY DEF migrateInstance, Paused
  <1> HIDE DEF armed
  <1>6. now \in TimerRow
    BY <1>1, <1>2, SuspendedTimer
  <1>7. (Running' <=> Running) /\ (Paused' <=> Paused) /\ (Running => ~Paused)
    BY <1>3 DEF Running, Paused
  <1>8. ASSUME mishaps' = {} PROVE ~Running' /\ ~Paused'
    BY <1>1, <1>4, <1>7, <1>8 DEF Clocks
  <1>9. ASSUME "ahead" \notin mishaps'
        PROVE  strays' = {} /\ (~term'.linked => timer'.state \in {"none", "cancelled"}) /\ FiresLate'
    <2>1. failed = {} /\ strays = {}
      BY <1>4, <1>9 DEF Clocks, NotEarly
    <2>2. timer' = now /\ strays' = {} /\ term'.linked
      BY <1>3, <1>5, <2>1
    <2>3. CASE Paused
      <3>1. timer' = Suspended(armed)
        BY <2>1, <2>2, <2>3
      <3>2. /\ timer'.state = "suspended" /\ timer'.left \in Int
            /\ today + timer'.left >= term.end
        BY <1>1, <1>2, <3>1, SuspendedTimer
      <3>3. Used' \in Int /\ Used' <= term.pauseDays
        BY <1>1, <1>3 DEF Used
      <3>4. today' + timer'.left >= term'.end - term'.pauseDays + Used'
        BY <1>1, <1>3, <3>2, <3>3
      <3> QED BY <1>7, <2>2, <2>3, <3>2, <3>4 DEF FiresLate
    <2>4. CASE ~Paused
      <3>1. timer'.state = "running" /\ timer'.at = term'.end
        BY <1>2, <1>3, <2>2, <2>4
      <3> QED BY <1>1, <1>3, <1>7, <2>2, <2>4, <3>1 DEF FiresLate
    <2> QED BY <2>3, <2>4
  <1>10. timer' \in TimerRow
    BY <1>1, <1>5, <1>6
  <1>11. ClocksAgree'
    BY <1>8 DEF ClocksAgree, Paused
  <1>12. NotEarly'
    BY <1>9 DEF NotEarly
  <1> QED BY <1>8, <1>10, <1>11, <1>12 DEF Clocks

(* A rung changes no clock, and a term it marks is closed.                  *)
LEMMA SweepKeepsClocks ==
  ASSUME Ledger, Ledger', Clocks, Sweep
  PROVE  Clocks'
  <1>1. PICK failed \in SUBSET {"save", "event"} :
          \/ handleBeslistermijnRung(failed)
          \/ \E day \in strays : handleStrayRung(day, failed)
    BY DEF Sweep
  <1> DEFINE row == Becomes("exceeded", term.end, 0, 0)
             rung == [timer EXCEPT !.breached = TRUE]
  <1>2. /\ term \in Row /\ timer \in TimerRow
        /\ mishaps \subseteq mishaps' /\ strays' \subseteq strays /\ today' = today
        /\ term' \in {term, row} /\ timer' \in {timer, rung}
    BY <1>1 DEF Ledger, LedgerTypes, Clocks, handleBeslistermijnRung, handleStrayRung,
       MarkExceeded, Saved, Happen
  <1>3. /\ rung \in TimerRow /\ rung.state = timer.state /\ rung.at = timer.at
        /\ rung.left = timer.left
    BY <1>2 DEF TimerRow
  <1>4. row.status = "exceeded" /\ row.linked = term.linked
    BY <1>2, BecomesDates
  <1> HIDE DEF row, rung
  <1>5. CASE term' = term
    BY <1>2, <1>3, <1>5, StillKeepsClocks
  <1>6. CASE term' = row
    BY <1>2, <1>3, <1>4, <1>6, ClosedKeepsClocks
  <1> QED BY <1>2, <1>5, <1>6

(* Days go by: what is held moves on with them, the end of a paused term    *)
(* no faster.                                                               *)
LEMMA DaysKeepClocks ==
  ASSUME Ledger, Ledger', Clocks, DayPasses
  PROVE  Clocks'
  <1>1. /\ term \in Row /\ today \in Int /\ today' = today + 1 /\ timer \in TimerRow
        /\ timer.left \in Int /\ term.end \in Int /\ term.pauseDays \in Int
        /\ term.pausedOn \in Int
        /\ UNCHANGED <<term, timer, strays, mishaps>>
    BY DEF Ledger, LedgerTypes, Clocks, DayPasses, Row, TimerRow
  <1>2. (Running' <=> Running) /\ (Paused' <=> Paused)
    BY <1>1 DEF Running, Paused
  <1>3. Used \in Int /\ Used' \in Int /\ Used' <= Used + 1
    BY <1>1 DEF Used
  <1>4. FiresLate => FiresLate'
    BY <1>1, <1>2, <1>3 DEF FiresLate
  <1>5. ClocksAgree'
    BY <1>1, <1>2 DEF Clocks, ClocksAgree, Paused
  <1>6. NotEarly'
    BY <1>1, <1>4 DEF Clocks, NotEarly
  <1> QED BY <1>1, <1>2, <1>5, <1>6 DEF Clocks

LEMMA ClocksStep == Ledger /\ Clocks /\ Counts /\ [Next]_vars => Clocks'
  <1> SUFFICES ASSUME Ledger, Clocks, Counts, [Next]_vars PROVE Clocks'
    OBVIOUS
  <1>0. Ledger'
    BY LedgerStep
  <1>1. CASE \E failed \in SUBSET Part : createTermijnInstance(failed)
    BY <1>0, <1>1, CreateKeepsClocks
  <1>2. CASE \E failed \in SUBSET Part, days \in PauseLengths : registerPauze(days, failed)
    BY <1>0, <1>2, PauzeKeepsClocks
  <1>3. CASE \E failed \in SUBSET Part, answer \in Days : resumeAfterPauze(answer, failed)
    BY <1>0, <1>3, HervatKeepsClocks
  <1>4. CASE \E failed \in SUBSET Part, newEnd \in Days, supervisor \in BOOLEAN :
               applyExtension(newEnd, supervisor, failed)
    BY <1>0, <1>4, VerlengKeepsClocks
  <1>5. CASE \E failed \in SUBSET Part : markTermijnCompleted(failed)
    BY <1>0, <1>5, VoltooiKeepsClocks
  <1>6. CASE \E failed \in SUBSET Part : migrateInstance(failed)
    BY <1>0, <1>6, MigrateKeepsClocks
  <1>7. CASE Sweep
    BY <1>0, <1>7, SweepKeepsClocks
  <1>8. CASE \/ \E due \in helpers, failed \in SUBSET Part : handlePauseExpiry(due, failed)
             \/ UNCHANGED vars
    <2>1. UNCHANGED <<today, term, timer, strays>> /\ mishaps \subseteq mishaps'
      BY <1>8 DEF handlePauseExpiry, Happen, vars
    <2>2. timer' \in TimerRow
      BY <2>1 DEF Clocks
    <2> QED BY <2>1, <2>2, StillKeepsClocks
  <1>9. CASE DayPasses
    BY <1>0, <1>9, DaysKeepClocks
  <1> QED BY <1>1, <1>2, <1>3, <1>4, <1>5, <1>6, <1>7, <1>8, <1>9 DEF Next

(* The engine fires a running term on its end date, and holds a paused one  *)
(* with the days it had left: through pauses, answers and extensions of any *)
(* length and number, unless one of the mishaps parted the two.             *)
THEOREM ClocksKeepTogether == Spec => []ClocksAgree
  <1>1. Ledger /\ Clocks => ClocksAgree
    BY DEF Clocks
  <1> QED BY LedgerInit, LedgerStep, ClocksInit, ClocksStep, CountsInit, CountsStep, <1>1, PTL DEF Spec

(* Only a rung marks a term exceeded.                                       *)
LEMMA OnlyRungsMark ==
  ASSUME Ledger, Clocks, [Next]_vars, term.status # "exceeded", term'.status = "exceeded"
  PROVE  Sweep
  <1>1. term \in Row
    BY DEF Ledger, LedgerTypes
  <1>2. ASSUME NEW failed, createTermijnInstance(failed) \/ migrateInstance(failed) PROVE FALSE
    BY <1>1, <1>2 DEF createTermijnInstance, migrateInstance, Row
  <1>3. ASSUME NEW failed, NEW days, registerPauze(days, failed) PROVE FALSE
    BY <1>1, <1>3, BecomesDates DEF registerPauze, Saved
  <1>4. ASSUME NEW failed, NEW answer, resumeAfterPauze(answer, failed) PROVE FALSE
    BY <1>1, <1>4, BecomesDates DEF resumeAfterPauze, Saved
  <1>5. ASSUME NEW failed, NEW newEnd \in Days, NEW supervisor,
               applyExtension(newEnd, supervisor, failed)
        PROVE  FALSE
    <2> DEFINE moved == Becomes("verlengd", newEnd, 0, 0)
               n == IF moved.extensions < MaxExtensions THEN moved.extensions + 1
                    ELSE moved.extensions
               row == [moved EXCEPT !.extensions = n]
    <2>1. moved \in Row /\ moved.status = "verlengd"
      BY <1>1, Integral, BecomesRow DEF Status
    <2>2. term' \in {term, row}
      BY <1>5 DEF applyExtension, Saved
    <2> HIDE DEF moved
    <2>3. row.status = "verlengd"
      BY <2>1 DEF Row
    <2> QED BY <2>2, <2>3
  <1>6. ASSUME NEW failed, markTermijnCompleted(failed) PROVE FALSE
    BY <1>1, <1>6, BecomesDates DEF markTermijnCompleted, Saved
  <1>7. ASSUME NEW due, NEW failed,
               handlePauseExpiry(due, failed) \/ DayPasses \/ UNCHANGED vars
        PROVE  FALSE
    BY <1>7 DEF handlePauseExpiry, DayPasses, vars
  <1> QED BY <1>2, <1>3, <1>4, <1>5, <1>6, <1>7 DEF Next

(* A term is never marked exceeded before its end date, unless a call or a  *)
(* save failed that lets the engine run ahead, an answer was dated later    *)
(* than it came, or a paused or closed term was extended or reopened.       *)
THEOREM MarkedInTime == Spec => NeverExceededEarly
  <1>1. ASSUME Ledger, Clocks, [Next]_vars
        PROVE  [(term.status # "exceeded" /\ term'.status = "exceeded"
                  /\ "ahead" \notin mishaps) => today >= term.end]_vars
    <2> SUFFICES ASSUME term.status # "exceeded", term'.status = "exceeded",
                        "ahead" \notin mishaps
                 PROVE  today >= term.end
      OBVIOUS
    <2>1. Sweep
      BY <1>1, OnlyRungsMark
    <2>2. strays = {} /\ FiresLate
      BY <1>1 DEF Clocks, NotEarly
    <2>3. PICK failed \in SUBSET {"save", "event"} : handleBeslistermijnRung(failed)
      BY <2>1, <2>2 DEF Sweep
    <2>4. /\ timer.state = "running" /\ timer.at <= today /\ term' # term
          /\ term.status \notin {"completed", "exceeded", "none"}
      BY <1>1, <2>3 DEF handleBeslistermijnRung, MarkExceeded, Ledger, LedgerTypes
    <2>5. term.status \in Status /\ term.end \in Int /\ timer.at \in Int /\ today \in Int
      BY <1>1 DEF Ledger, LedgerTypes, Row, Clocks, TimerRow
    <2>6. Running
      BY <2>2, <2>4, <2>5 DEF FiresLate, Paused, Running, Status
    <2> QED BY <2>2, <2>4, <2>5, <2>6 DEF FiresLate
  <1>2. Spec => [](Ledger /\ Clocks)
    BY LedgerInit, LedgerStep, ClocksInit, ClocksStep, CountsInit, CountsStep, PTL DEF Spec
  <1> QED BY <1>1, <1>2, PTL DEF Spec, NeverExceededEarly
------------------------------------------------------------------------------
(* The types.  That no day leaves the calendar takes more than the types:   *)
(* pulling a pause back never reaches before the days it added, and a timer *)
(* stays within the term without its pause, the days gone by, and one       *)
(* calendar for every handler that lost a part.                             *)
Base == term.end - term.pauseDays
Slack == faults * Horizon

Event == [days : Int, expired : BOOLEAN]

(* A row whose pause, if it is in one, lies within the term.                *)
Coherent(row) ==
  /\ row \in Term
  /\ row.pauseDays <= row.end
  /\ row.status # "paused" => row.pauseDays = 0

Dated ==
  /\ today \in Days
  /\ Coherent(term)
  /\ faults \in 0 .. MaxFaults
  /\ (~term.linked /\ term.status # "none") => faults >= 1

Fits(t) ==
  /\ t \in TimerRow
  /\ t.at \in Nat /\ t.left \in Nat
  /\ t.at <= Base + today + Slack
  /\ t.left <= Base + Slack

Kept ==
  /\ strays \subseteq Days
  /\ helpers \subseteq Days
  /\ journal \in Event
  /\ mishaps \subseteq Mishap

Bounded == Dated /\ Fits(timer) /\ Kept

(* A calendar more for every fault.                                         *)
LEMMA Multiples ==
  ASSUME NEW h \in Nat, NEW n \in Nat
  PROVE  n * h \in Nat /\ (n + 1) * h = n * h + h /\ (n >= 1 => n * h >= h)
  <1>1. n * h \in Nat /\ (n + 1) * h = n * h + h
    OBVIOUS
  <1>2. ASSUME n >= 1 PROVE n * h >= h
    <2>1. n - 1 \in Nat
      BY <1>2
    <2>2. (n - 1) * h \in Nat /\ n * h = (n - 1) * h + h
      BY <2>1
    <2> QED BY <2>2
  <1> QED BY <1>1, <1>2

LEMMA MoreIsMore ==
  ASSUME NEW h \in Nat, NEW n \in Nat, NEW m \in Nat, n <= m
  PROVE  n * h <= m * h /\ (m + 3) * h = m * h + 3 * h
  <1>1. m - n \in Nat /\ (m - n) * h \in Nat
    OBVIOUS
  <1>2. m * h = n * h + (m - n) * h /\ n * h \in Nat
    OBVIOUS
  <1>3. (m + 3) * h = m * h + 3 * h
    OBVIOUS
  <1> QED BY <1>1, <1>2, <1>3

LEMMA SlackIsNat ==
  ASSUME faults \in 0 .. MaxFaults
  PROVE  Slack \in Nat /\ (faults >= 1 => Slack >= Horizon)
  BY Multiples, TermijnAssumption DEF TermijnAssumption, Slack

(* A handler that loses a part has one calendar more.                       *)
LEMMA LosesSlack ==
  ASSUME faults \in 0 .. MaxFaults, NEW failed, NEW parts, Loses(failed, parts)
  PROVE  /\ faults' \in 0 .. MaxFaults /\ faults' >= faults
         /\ failed # {} => faults' >= 1
         /\ Slack \in Nat /\ Slack' \in Nat
         /\ Slack' = Slack + (IF failed = {} THEN 0 ELSE Horizon)
  <1>1. faults' \in 0 .. MaxFaults /\ faults' = faults + (IF failed = {} THEN 0 ELSE 1)
    BY TermijnAssumption DEF TermijnAssumption, Loses
  <1>2. Slack \in Nat /\ (faults + 1) * Horizon = Slack + Horizon
    BY Multiples, TermijnAssumption DEF TermijnAssumption, Slack
  <1>3. Slack' = Slack + (IF failed = {} THEN 0 ELSE Horizon)
    BY <1>1, <1>2 DEF Slack
  <1>4. Horizon \in Nat
    BY TermijnAssumption DEF TermijnAssumption
  <1> QED BY <1>1, <1>2, <1>3, <1>4

(* What the calendar holds.                                                 *)
LEMMA Numbers ==
  ASSUME Dated
  PROVE  /\ Horizon \in Nat /\ Duration \in Nat /\ Duration <= Horizon
         /\ MaxExtensions \in Nat /\ MaxFaults \in Nat
         /\ today \in Nat /\ today <= Horizon
         /\ term \in Row /\ term.end \in Nat /\ term.end <= Horizon
         /\ term.pausedOn \in Days /\ term.pauseDays \in Nat
         /\ term.pauseDays <= term.end /\ term.linked \in BOOLEAN
         /\ term.extensions \in 0 .. MaxExtensions
         /\ Base \in Nat /\ Base <= Horizon
  <1>1. /\ Horizon \in Nat /\ Duration \in Nat /\ Duration <= Horizon
        /\ MaxExtensions \in Nat /\ MaxFaults \in Nat
    BY TermijnAssumption DEF TermijnAssumption
  <1>2. term \in Term /\ today \in Days /\ term.pauseDays <= term.end
    BY DEF Dated, Coherent
  <1>3. /\ term.end \in Days /\ term.pausedOn \in Days /\ term.pauseDays \in Days
        /\ term.linked \in BOOLEAN /\ term.extensions \in 0 .. MaxExtensions
        /\ term.status \in Status
    BY <1>2 DEF Term
  <1>4. term \in Row
    BY <1>1, <1>2 DEF Term, Row, Days
  <1> QED BY <1>1, <1>2, <1>3, <1>4 DEF Days, Base

(* A row that closes a pause, or opens one, lies in the calendar.           *)
LEMMA BecomesCoherent ==
  ASSUME Dated, NEW status \in Status, NEW end \in Days, NEW on \in Days, NEW days \in Nat,
         days <= end, status # "paused" => days = 0
  PROVE  Coherent(Becomes(status, end, on, days))
  <1> DEFINE row == Becomes(status, end, on, days)
  <1>1. end <= Horizon /\ days \in Days
    BY TermijnAssumption DEF TermijnAssumption, Days
  <1>2. term \in Term
    BY DEF Dated, Coherent
  <1>3. row \in Term
    BY <1>1, <1>2 DEF Becomes, Term
  <1>4. row.status = status /\ row.end = end /\ row.pauseDays = days
    BY <1>2 DEF Becomes, Term
  <1> QED BY <1>3, <1>4 DEF Coherent

(* Saving such a row, or failing to, keeps the term in the calendar.        *)
LEMMA SavedDated ==
  ASSUME Dated, NEW failed, NEW row, Saved(failed, row), Coherent(row),
         row.status # "none", term.status # "none", row.linked = term.linked,
         row.end - row.pauseDays >= Base,
         today' \in Days, faults' \in 0 .. MaxFaults, faults' >= faults
  PROVE  Dated' /\ Base' \in Nat /\ Base' >= Base
  <1>1. term' \in {term, row}
    BY DEF Saved
  <1>2. Coherent(term')
    BY <1>1 DEF Dated
  <1>3. term'.linked = term.linked /\ term'.status # "none"
    BY <1>1
  <1>4. faults \in Nat /\ faults' \in Nat
    BY TermijnAssumption DEF TermijnAssumption, Dated
  <1>5. (~term'.linked /\ term'.status # "none") => faults' >= 1
    BY <1>3, <1>4 DEF Dated
  <1>6. Dated'
    BY <1>2, <1>5 DEF Dated, Coherent
  <1>7. Base' \in Nat
    BY <1>6, Numbers DEF Dated, Base, Coherent, Term, Days
  <1>8. Base' >= Base
    <2>1. Base \in Nat
      BY Numbers
    <2> QED BY <1>1, <2>1 DEF Base
  <1> QED BY <1>6, <1>7, <1>8

(* What is recorded of it is an event.                                      *)
LEMMA RecordedEvent ==
  ASSUME journal \in Event, NEW failed, NEW impact \in Int, Recorded(failed, impact)
  PROVE  journal' \in Event
  BY DEF Event, Recorded

(* A timer that fits today still does when the term is left no less and     *)
(* another part was lost.                                                   *)
LEMMA FitsOn ==
  ASSUME NEW t, Fits(t), timer' = t,
         Base \in Nat, Base' \in Nat, Base' >= Base,
         Slack \in Nat, Slack' \in Nat, Slack' >= Slack,
         today \in Nat, today' \in Nat, today' >= today
  PROVE  Fits(timer)'
  <1>1. t.at \in Nat /\ t.at <= Base' + today' + Slack'
    BY DEF Fits
  <1>2. t.left \in Nat /\ t.left <= Base' + Slack'
    BY DEF Fits
  <1>3. t \in TimerRow
    BY DEF Fits
  <1> QED BY <1>1, <1>2, <1>3 DEF Fits

(* Suspending banks what was left of it, resuming takes it up again.        *)
LEMMA SuspendedFits ==
  ASSUME NEW t, Fits(t), Base \in Nat, Slack \in Nat, today \in Nat
  PROVE  Fits(Suspended(t))
  <1>1. CASE t.state = "running"
    <2>1. t \in TimerRow /\ t.at \in Nat /\ t.at <= Base + today + Slack
      BY DEF Fits
    <2>2. Suspended(t) \in TimerRow
      BY <2>1, SuspendedTimer
    <2>3. Suspended(t).at = 0 /\ Suspended(t).left = Max0(t.at - today)
      BY <1>1, <2>1 DEF Suspended, TimerRow
    <2>4. Max0(t.at - today) \in Nat /\ Max0(t.at - today) <= Base + Slack
      BY <2>1 DEF Max0
    <2> QED BY <2>2, <2>3, <2>4 DEF Fits
  <1>2. CASE t.state # "running"
    BY <1>2 DEF Suspended
  <1> QED BY <1>1, <1>2

LEMMA ResumedFits ==
  ASSUME NEW t, Fits(t), Base \in Nat, Slack \in Nat, today \in Nat
  PROVE  Fits(Resumed(t))
  <1>1. CASE t.state = "suspended"
    <2>1. t \in TimerRow /\ t.left \in Nat /\ t.left <= Base + Slack
      BY DEF Fits
    <2>2. Resumed(t) \in TimerRow
      BY <2>1, ResumedTimer
    <2>3. Resumed(t).at = today + t.left /\ Resumed(t).left = 0
      BY <1>1, <2>1 DEF Resumed, TimerRow
    <2> QED BY <2>1, <2>2, <2>3 DEF Fits
  <1>2. CASE t.state # "suspended"
    BY <1>2 DEF Resumed
  <1> QED BY <1>1, <1>2

(* A calendar does not go below the end of the term, nor below its pause.   *)
LEMMA InitBounded == Init => Bounded
  <1> SUFFICES ASSUME Init PROVE Bounded
    OBVIOUS
  <1>1. /\ Horizon \in Nat /\ Duration \in Nat /\ Duration <= Horizon
        /\ MaxExtensions \in Nat /\ MaxFaults \in Nat
    BY TermijnAssumption DEF TermijnAssumption
  <1>2. /\ term.status = "none" /\ term.pauseDays = 0 /\ term.end = Duration /\ term \in Term
    BY <1>1 DEF Init, Term, Status, Days
  <1>3. Dated
    BY <1>1, <1>2 DEF Init, Dated, Coherent, Days
  <1>4. timer \in TimerRow /\ timer.at = 0 /\ timer.left = 0
    BY NoTimerRow DEF Init
  <1>5. Base \in Nat /\ Slack \in Nat /\ today \in Nat
    BY <1>3, Numbers, SlackIsNat DEF Dated
  <1>6. Fits(timer)
    BY <1>4, <1>5 DEF Fits
  <1>7. Kept
    BY DEF Init, Kept, Event
  <1> QED BY <1>3, <1>6, <1>7 DEF Bounded

(* The mishaps of a handler are mishaps.                                    *)
LEMMA Mishaps ==
  ASSUME NEW failed, NEW missed \in Mishap, NEW undone \in Mishap
  PROVE  Unwritten(failed) \subseteq Mishap /\ Unheard(failed, missed, undone) \subseteq Mishap
  BY DEF Unwritten, Unheard, If, Mishap

LEMMA ArmedFits ==
  ASSUME NEW day \in Nat, Base \in Nat, Slack \in Nat, today \in Nat,
         day <= Base + today + Slack
  PROVE  Fits(Armed(day))
  <1>1. Armed(day) \in TimerRow /\ Armed(day).at = day /\ Armed(day).left = 0
    BY ArmedTimer
  <1> QED BY <1>1 DEF Fits

(* An extended timer is moved by at most a calendar.                        *)
LEMMA ExtendedNumbers ==
  ASSUME NEW t \in TimerRow, t.at \in Nat, t.left \in Nat, NEW days \in Nat, NEW supervisor
  PROVE  /\ Extended(t, days, supervisor) \in TimerRow
         /\ Extended(t, days, supervisor).at \in Nat /\ Extended(t, days, supervisor).left \in Nat
         /\ Extended(t, days, supervisor).at <= t.at + days
         /\ Extended(t, days, supervisor).left <= t.left + days
  <1> DEFINE x == Extended(t, days, supervisor)
  <1>0. x \in TimerRow
    BY ExtendedTimer
  <1>1. CASE ~Refuses(t, supervisor) /\ t.state = "running"
    <2>1. x.at = t.at + days
      BY <1>1, ExtendedTimer
    <2>2. x.left = t.left
      BY <1>1 DEF Extended, TimerRow
    <2> QED BY <1>0, <2>1, <2>2
  <1>2. CASE ~Refuses(t, supervisor) /\ t.state = "suspended"
    <2>1. x.left = t.left + days
      BY <1>2, ExtendedTimer
    <2>2. x.at = t.at
      BY <1>2 DEF Extended, TimerRow
    <2> QED BY <1>0, <2>1, <2>2
  <1>3. CASE Refuses(t, supervisor) \/ t.state \notin {"running", "suspended"}
    <2>1. x = t
      BY <1>3 DEF Extended
    <2> QED BY <2>1
  <1> QED BY <1>1, <1>2, <1>3

LEMMA CreateInBounds ==
  ASSUME Ledger, Bounded, NEW failed, createTermijnInstance(failed)
  PROVE  Bounded'
  <1> DEFINE armed == failed \cap {"engine", "link"} = {}
  <1>1. /\ today' = today /\ term.status = "none" /\ helpers' = helpers
        /\ Loses(failed, {"event", "engine", "link"})
        /\ term' = [term EXCEPT !.status = "lopend", !.linked = armed]
        /\ timer' = IF armed THEN Armed(Duration) ELSE timer
        /\ Recorded(failed, Duration)
        /\ strays' \subseteq {Duration}
        /\ mishaps' = mishaps \cup (Unwritten(failed) \cup If("engine" \in failed, "behind")
                                     \cup If("link" \in failed, "ahead"))
    BY DEF createTermijnInstance, Happen
  <1>2. Dated /\ Fits(timer) /\ Kept
    BY DEF Bounded
  <1>3. /\ faults' \in 0 .. MaxFaults /\ faults' >= faults /\ (failed # {} => faults' >= 1)
        /\ Slack \in Nat /\ Slack' \in Nat /\ Slack' >= Slack
    BY <1>1, <1>2, LosesSlack, Numbers DEF Dated
  <1>4. /\ term' \in Term /\ term'.end = term.end /\ term'.pauseDays = term.pauseDays
        /\ term'.status = "lopend" /\ term'.linked = armed
    BY <1>1, <1>2 DEF Dated, Coherent, Term, Status
  <1>5. ~armed => faults' >= 1
    BY <1>3
  <1>6. term.pauseDays = 0 /\ term.end = Duration
    BY <1>1, <1>2 DEF Ledger, LedgerTypes, Dated, Coherent
  <1>7. Dated'
    BY <1>1, <1>2, <1>3, <1>4, <1>5, <1>6 DEF Dated, Coherent
  <1>8. Base' = Base /\ Base \in Nat /\ today \in Nat /\ Base = Duration /\ Duration \in Days
    BY <1>2, <1>4, <1>6, Numbers DEF Base, Days
  <1>9. Fits(timer')
    <2>1. CASE ~armed
      BY <1>1, <1>2, <2>1
    <2>2. CASE armed
      <3>1. Duration \in Nat /\ Duration <= Base + today + Slack
        BY <1>3, <1>8, Numbers, <1>2
      <3> QED BY <1>1, <1>3, <1>8, <2>2, <3>1, ArmedFits
    <2> QED BY <2>1, <2>2
  <1>10. Fits(timer)'
    <2>1. today' \in Nat /\ today' >= today /\ Base' \in Nat /\ Base' >= Base
      BY <1>1, <1>8
    <2> QED BY <1>3, <1>8, <1>9, <2>1, FitsOn
  <1>11. Kept'
    <2>1. journal' \in Event
      BY <1>1, <1>2, Integral, RecordedEvent DEF Kept
    <2>2. mishaps' \subseteq Mishap
      BY <1>1, <1>2, Mishaps DEF Kept, If, Mishap
    <2> QED BY <1>1, <1>2, <1>8, <2>1, <2>2 DEF Kept
  <1> QED BY <1>7, <1>10, <1>11 DEF Bounded

LEMMA PauzeInBounds ==
  ASSUME Bounded, NEW days \in PauseLengths, NEW failed, registerPauze(days, failed)
  PROVE  Bounded'
  <1> DEFINE row == Becomes("paused", term.end + days, today, days)
  <1>1. /\ today' = today /\ term.status \notin {"none", "paused"} /\ strays' = strays
        /\ Loses(failed, {"engine", "helper", "save", "event"})
        /\ Saved(failed, row) /\ Recorded(failed, days)
        /\ timer' \in {timer, Suspended(timer)}
        /\ term.end + days <= Horizon
        /\ helpers' \subseteq helpers \cup Days
    BY DEF registerPauze, Engine
  <1>2. Dated /\ Fits(timer) /\ Kept
    BY DEF Bounded
  <1>3. /\ faults' \in 0 .. MaxFaults /\ faults' >= faults
        /\ Slack \in Nat /\ Slack' \in Nat /\ Slack' >= Slack
    BY <1>1, <1>2, LosesSlack, Numbers DEF Dated
  <1>4. days \in Nat /\ term.pauseDays = 0
    BY <1>1, <1>2, TermijnAssumption DEF TermijnAssumption, Dated, Coherent
  <1>5. /\ term.end + days \in Days /\ today \in Days /\ days <= term.end + days
        /\ Base = term.end /\ Base \in Nat /\ today \in Nat
    BY <1>1, <1>2, <1>4, Numbers DEF Base, Dated, Days
  <1>6. Coherent(row)
    BY <1>2, <1>4, <1>5, BecomesCoherent DEF Status
  <1>7. /\ row.status = "paused" /\ row.linked = term.linked
        /\ row.end = term.end + days /\ row.pauseDays = days
    BY <1>2, Numbers, BecomesDates
  <1> HIDE DEF row
  <1>8. row.end - row.pauseDays >= Base /\ row.status # "none"
    BY <1>2, <1>4, <1>5, <1>7, Numbers
  <1>9. Dated' /\ Base' \in Nat /\ Base' >= Base
    BY <1>1, <1>2, <1>3, <1>5, <1>6, <1>7, <1>8, SavedDated
  <1>10. Fits(timer')
    BY <1>1, <1>2, <1>3, <1>5, SuspendedFits
  <1>11. Fits(timer)'
    <2>1. today' \in Nat /\ today' >= today
      BY <1>1, <1>5
    <2> QED BY <1>3, <1>5, <1>9, <1>10, <2>1, FitsOn
  <1>12. Kept'
    <2>1. journal' \in Event
      BY <1>1, <1>2, Integral, RecordedEvent DEF Kept
    <2>2. mishaps' \subseteq Mishap
      BY <1>2, Mishaps DEF Kept, If, Mishap, registerPauze, Happen
    <2> QED BY <1>1, <1>2, <2>1, <2>2 DEF Kept
  <1> QED BY <1>9, <1>11, <1>12 DEF Bounded

(* An answer takes back no more days than the pause added.                  *)
LEMMA HervatInBounds ==
  ASSUME Bounded, NEW answer \in Days, NEW failed, resumeAfterPauze(answer, failed)
  PROVE  Bounded'
  <1> DEFINE row == Becomes("lopend", PulledBack(answer), 0, 0)
  <1>1. /\ today' = today /\ term.status = "paused" /\ strays' = strays /\ helpers' = helpers
        /\ Loses(failed, {"engine", "save", "event"})
        /\ Saved(failed, row) /\ Recorded(failed, ResumeImpact(answer))
        /\ timer' \in {timer, Resumed(timer)}
    BY DEF resumeAfterPauze, Engine
  <1>2. Dated /\ Fits(timer) /\ Kept
    BY DEF Bounded
  <1>3. /\ faults' \in 0 .. MaxFaults /\ faults' >= faults
        /\ Slack \in Nat /\ Slack' \in Nat /\ Slack' >= Slack
    BY <1>1, <1>2, LosesSlack, Numbers DEF Dated
  <1>4. Consumed(answer) \in Nat /\ Consumed(answer) <= term.pauseDays
    <2>1. term.pausedOn \in Int /\ answer \in Int /\ term.pauseDays \in Nat
      BY <1>2, Numbers, Integral
    <2>2. Distance(term.pausedOn, answer) \in Nat
      BY <2>1 DEF Distance
    <2> QED BY <2>1, <2>2 DEF Consumed
  <1>5. /\ term.end \in Nat /\ term.end <= Horizon /\ term.pauseDays \in Nat
        /\ term.pauseDays <= term.end /\ Base \in Nat /\ Horizon \in Nat
        /\ today \in Nat /\ Base = term.end - term.pauseDays
    BY <1>2, Numbers DEF Base
  <1>6. /\ Unused(answer) = term.pauseDays - Consumed(answer)
        /\ PulledBack(answer) = term.end - Unused(answer)
        /\ ResumeImpact(answer) = -1 * Unused(answer)
    BY DEF Unused, PulledBack, ResumeImpact
  <1>7. /\ PulledBack(answer) \in Nat /\ PulledBack(answer) <= Horizon
        /\ PulledBack(answer) >= Base /\ ResumeImpact(answer) \in Int
    BY <1>4, <1>5, <1>6
  <1>8. PulledBack(answer) \in Days /\ 0 \in Days
    BY <1>5, <1>7 DEF Days
  <1>9. Coherent(row)
    BY <1>2, <1>7, <1>8, BecomesCoherent DEF Status
  <1>10. /\ row.status = "lopend" /\ row.linked = term.linked
         /\ row.end = PulledBack(answer) /\ row.pauseDays = 0
    BY <1>2, Numbers, BecomesDates
  <1> HIDE DEF row
  <1>11. row.end - row.pauseDays >= Base /\ row.status # "none" /\ term.status # "none"
    BY <1>1, <1>5, <1>7, <1>10
  <1>12. today' \in Days /\ today' \in Nat /\ today' >= today
    BY <1>1, <1>2, <1>5 DEF Dated
  <1>13. Dated' /\ Base' \in Nat /\ Base' >= Base
    BY <1>1, <1>2, <1>3, <1>9, <1>10, <1>11, <1>12, SavedDated
  <1>14. Fits(timer')
    BY <1>1, <1>2, <1>3, <1>5, ResumedFits
  <1>15. Fits(timer)'
    BY <1>3, <1>5, <1>12, <1>13, <1>14, FitsOn
  <1>16. Kept'
    <2>1. journal' \in Event
      BY <1>1, <1>2, <1>7, RecordedEvent DEF Kept
    <2>2. mishaps' \subseteq Mishap
      BY <1>2, Mishaps DEF Kept, If, Mishap, resumeAfterPauze, Happen
    <2> QED BY <1>1, <1>2, <2>1, <2>2 DEF Kept
  <1> QED BY <1>13, <1>15, <1>16 DEF Bounded

(* A calendar more is room for any move within one.                         *)
LEMMA RoomEnough ==
  \A b, s, f, h, b2, s2 \in Nat :
    (b2 >= b /\ f <= h /\ s2 = s + h) => b2 + s2 >= b + s + f
  OBVIOUS

(* An extension moves the timer by no more than it moves the end, unless    *)
(* its save is lost: then by one calendar at most.                          *)
LEMMA VerlengInBounds ==
  ASSUME Bounded, NEW newEnd \in Days, NEW supervisor, NEW failed,
         applyExtension(newEnd, supervisor, failed)
  PROVE  Bounded'
  <1> DEFINE moved == Becomes("verlengd", newEnd, 0, 0)
             n == IF moved.extensions < MaxExtensions THEN moved.extensions + 1
                  ELSE moved.extensions
             row == [moved EXCEPT !.extensions = n]
             further == newEnd - term.end
  <1>1. /\ today' = today /\ term.status # "none" /\ strays' = strays /\ helpers' = helpers
        /\ newEnd > term.end
        /\ Loses(failed, {"save", "engine", "event"})
        /\ Saved(failed, row) /\ Recorded(failed, further)
        /\ timer' \in {timer, Extended(timer, further, supervisor)}
    BY DEF applyExtension, assertExtensionPermitted, Engine
  <1>2. Dated /\ Fits(timer) /\ Kept
    BY DEF Bounded
  <1>3. /\ faults' \in 0 .. MaxFaults /\ faults' >= faults
        /\ Slack \in Nat /\ Slack' \in Nat
        /\ Slack' = Slack + (IF failed = {} THEN 0 ELSE Horizon)
    BY <1>1, <1>2, LosesSlack DEF Dated
  <1>4. /\ term.end \in Nat /\ term.end <= Horizon /\ term.pauseDays \in Nat
        /\ Base \in Nat /\ Horizon \in Nat /\ Base = term.end - term.pauseDays
        /\ today \in Nat /\ MaxExtensions \in Nat
    BY <1>2, Numbers DEF Base
  <1>5. newEnd \in Nat /\ newEnd <= Horizon /\ 0 \in Days
    BY <1>4 DEF Days
  <1>6. further \in Nat /\ further <= Horizon /\ newEnd = term.end + further
    BY <1>1, <1>4, <1>5
  <1>7. Coherent(moved)
    BY <1>2, <1>5, BecomesCoherent DEF Status
  <1>8. /\ moved.status = "verlengd" /\ moved.linked = term.linked
        /\ moved.end = newEnd /\ moved.pauseDays = 0
    BY <1>2, Numbers, BecomesDates
  <1> HIDE DEF moved
  <1>9. moved \in Term /\ moved.extensions \in 0 .. MaxExtensions
    BY <1>7 DEF Coherent, Term
  <1>10. n \in 0 .. MaxExtensions
    BY <1>4, <1>9
  <1> HIDE DEF n
  <1>11. /\ row \in Term /\ row.status = "verlengd" /\ row.linked = term.linked
         /\ row.end = newEnd /\ row.pauseDays = 0
    BY <1>8, <1>9, <1>10 DEF Term
  <1> HIDE DEF row, further
  <1>12. Coherent(row)
    BY <1>5, <1>11 DEF Coherent
  <1>13. row.end - row.pauseDays >= Base /\ row.status # "none"
    BY <1>1, <1>4, <1>5, <1>11
  <1>14. today' \in Days /\ today' \in Nat /\ today' >= today
    BY <1>1, <1>2, <1>4 DEF Dated
  <1>15. Dated' /\ Base' \in Nat /\ Base' >= Base
    BY <1>1, <1>2, <1>3, <1>11, <1>12, <1>13, <1>14, SavedDated
  <1>16. Base' + Slack' >= Base + Slack + further
    <2>0. /\ Slack \in Nat /\ Slack' \in Nat /\ Base \in Nat /\ Base' \in Nat
          /\ Base' >= Base /\ Horizon \in Nat
          /\ Base <= term.end /\ term.end \in Nat
      BY <1>3, <1>4, <1>15
    <2>1. CASE failed # {}
      <3>1. Slack' = Slack + Horizon
        BY <1>3, <2>1
      <3>2. further \in Nat /\ further <= Horizon
        BY <1>6
      <3> QED BY <2>0, <3>1, <3>2, RoomEnough
    <2>2. CASE failed = {}
      <3>1. term' = row /\ Slack' = Slack
        BY <1>1, <1>3, <2>2 DEF Saved
      <3>2. Base' = newEnd
        BY <1>5, <1>11, <3>1 DEF Base
      <3> QED BY <1>6, <2>0, <3>1, <3>2
    <2> QED BY <2>1, <2>2
  <1>17. Fits(timer)'
    <2>1. CASE timer' = timer
      BY <1>2, <1>3, <1>4, <1>14, <1>15, <2>1, FitsOn
    <2>2. CASE timer' # timer
      <3>1. timer' = Extended(timer, further, supervisor) /\ Base' + Slack' >= Base + Slack + further
        BY <1>1, <1>16, <2>2
      <3>2. /\ timer \in TimerRow /\ timer.at \in Nat /\ timer.left \in Nat
            /\ timer.at <= Base + today + Slack /\ timer.left <= Base + Slack
        BY <1>2 DEF Fits
      <3>3. /\ timer' \in TimerRow /\ timer'.at \in Nat /\ timer'.left \in Nat
            /\ timer'.at <= timer.at + further /\ timer'.left <= timer.left + further
        BY <1>6, <3>1, <3>2, ExtendedNumbers
      <3>4. timer'.left <= Base' + Slack'
        BY <1>3, <1>4, <1>6, <1>15, <3>1, <3>2, <3>3
      <3>5. timer'.at <= Base' + today' + Slack'
        BY <1>1, <1>3, <1>4, <1>6, <1>15, <3>1, <3>2, <3>3
      <3> QED BY <3>3, <3>4, <3>5 DEF Fits
    <2> QED BY <2>1, <2>2
  <1>18. Kept'
    <2>1. journal' \in Event
      BY <1>1, <1>2, <1>6, RecordedEvent DEF Kept
    <2>2. mishaps' \subseteq Mishap
      BY <1>2, Mishaps DEF Kept, If, Mishap, applyExtension, Happen
    <2> QED BY <1>1, <1>2, <2>1, <2>2 DEF Kept
  <1> QED BY <1>15, <1>17, <1>18 DEF Bounded

(* A row that closes the term leaves its timer the whole of it.             *)
LEMMA ClosedInBounds ==
  ASSUME Bounded, NEW failed, NEW parts, NEW status \in Status \ {"none", "paused"},
         NEW t, Fits(t), timer' = t,
         today' = today, term.status # "none", Loses(failed, parts),
         term' = term \/ Saved(failed, Becomes(status, term.end, 0, 0))
  PROVE  Dated' /\ Fits(timer)'
  <1> DEFINE row == Becomes(status, term.end, 0, 0)
  <1>1. Dated
    BY DEF Bounded
  <1>2. /\ faults' \in 0 .. MaxFaults /\ faults' >= faults
        /\ Slack \in Nat /\ Slack' \in Nat /\ Slack' >= Slack
    BY <1>1, LosesSlack, Numbers DEF Dated
  <1>3. /\ term.end \in Nat /\ term.end \in Days /\ term.pauseDays \in Nat /\ 0 \in Days
        /\ Base \in Nat /\ Base = term.end - term.pauseDays
        /\ today \in Nat /\ today \in Days /\ today' \in Days /\ today' \in Nat /\ today' >= today
    BY <1>1, Numbers DEF Base, Days, Dated
  <1>4. Coherent(row)
    BY <1>1, <1>3, BecomesCoherent
  <1>5. /\ row.status = status /\ row.linked = term.linked
        /\ row.end = term.end /\ row.pauseDays = 0
    BY <1>1, Numbers, BecomesDates
  <1>6. term' = term \/ Saved(failed, row)
    OBVIOUS
  <1> HIDE DEF row
  <1>7. row.end - row.pauseDays >= Base /\ row.status # "none"
    BY <1>3, <1>5
  <1>8. CASE term' = term
    <2>1. Saved({"save"}, term)
      BY <1>8 DEF Saved
    <2>2. Coherent(term) /\ term.end - term.pauseDays >= Base
      BY <1>1, <1>3 DEF Dated
    <2>3. Dated' /\ Base' \in Nat /\ Base' >= Base
      BY <1>1, <1>2, <1>3, <2>1, <2>2, SavedDated
    <2> QED BY <1>2, <1>3, <2>3, FitsOn
  <1>9. CASE Saved(failed, row)
    <2>1. Dated' /\ Base' \in Nat /\ Base' >= Base
      BY <1>1, <1>2, <1>3, <1>4, <1>5, <1>7, <1>9, SavedDated
    <2> QED BY <1>2, <1>3, <2>1, FitsOn
  <1> QED BY <1>6, <1>8, <1>9

LEMMA VoltooiInBounds ==
  ASSUME Bounded, NEW failed, markTermijnCompleted(failed)
  PROVE  Bounded'
  <1> DEFINE gone == [NoTimer EXCEPT !.state = "cancelled"]
  <1>1. /\ today' = today /\ term.status # "none" /\ strays' \subseteq strays
        /\ helpers' \subseteq helpers /\ mishaps' = mishaps
        /\ Loses(failed, {"save", "event", "engine"})
        /\ Saved(failed, Becomes("completed", term.end, 0, 0)) /\ Recorded(failed, 0)
        /\ timer' \in {timer, gone}
    BY DEF markTermijnCompleted, Happen
  <1>2. Dated /\ Fits(timer) /\ Kept
    BY DEF Bounded
  <1>3. Base \in Nat /\ today \in Nat /\ Slack \in Nat
    BY <1>2, Numbers, SlackIsNat DEF Dated
  <1>4. gone \in TimerRow /\ gone.at = 0 /\ gone.left = 0
    <2>1. NoTimer \in TimerRow /\ NoTimer.at = 0 /\ NoTimer.left = 0
      BY NoTimerRow
    <2> QED BY <2>1 DEF TimerRow
  <1> HIDE DEF gone
  <1>5. Fits(timer')
    <2>1. Fits(gone)
      BY <1>3, <1>4 DEF Fits
    <2> QED BY <1>1, <1>2, <2>1
  <1>6. Dated' /\ Fits(timer)'
    BY <1>1, <1>5, ClosedInBounds DEF Status
  <1>7. journal' \in Event
    BY <1>1, <1>2, RecordedEvent DEF Kept
  <1> QED BY <1>1, <1>2, <1>6, <1>7 DEF Bounded, Kept

(* A late timer fires on the end of the term as it is now: a term without   *)
(* one has lost a part before, which leaves room for its pause.             *)
LEMMA MigrateInBounds ==
  ASSUME Bounded, NEW failed, migrateInstance(failed)
  PROVE  Bounded'
  <1>1. /\ today' = today /\ term.status # "none" /\ ~term.linked
        /\ helpers' = helpers /\ journal' = journal
        /\ Loses(failed, {"link", "suspend"})
        /\ term' = [term EXCEPT !.linked = "link" \notin failed]
        /\ timer' \in {timer, Armed(term.end), Suspended(Armed(term.end))}
        /\ strays' \subseteq strays \cup {term.end}
    BY DEF migrateInstance
  <1>2. Dated /\ Fits(timer) /\ Kept
    BY DEF Bounded
  <1>3. /\ faults' \in 0 .. MaxFaults /\ faults' >= faults
        /\ Slack \in Nat /\ Slack' \in Nat /\ Slack' >= Slack
    BY <1>1, <1>2, LosesSlack, Numbers DEF Dated
  <1>4. /\ term.end \in Nat /\ term.end \in Days /\ term.pauseDays \in Nat
        /\ term.pauseDays <= term.end /\ term.end <= Horizon
        /\ Base \in Nat /\ Base = term.end - term.pauseDays
        /\ today \in Nat /\ Horizon \in Nat /\ MaxFaults \in Nat
    BY <1>2, Numbers DEF Base, Days
  <1>5. faults \in Nat /\ faults >= 1 /\ Slack >= Horizon
    BY <1>1, <1>2, <1>4, SlackIsNat DEF Dated
  <1>6. term.end <= Base + today + Slack
    BY <1>3, <1>4, <1>5
  <1>7. Fits(timer')
    <2>1. Fits(Armed(term.end))
      BY <1>3, <1>4, <1>6, ArmedFits
    <2>2. Fits(Suspended(Armed(term.end)))
      BY <1>3, <1>4, <2>1, SuspendedFits
    <2> QED BY <1>1, <1>2, <2>1, <2>2
  <1>8. /\ term' \in Term /\ term'.end = term.end /\ term'.pauseDays = term.pauseDays
        /\ term'.status = term.status
    BY <1>1, <1>2 DEF Dated, Coherent, Term
  <1>9. Dated'
    <2>1. Coherent(term')
      BY <1>2, <1>8 DEF Dated, Coherent
    <2>2. faults' >= 1 /\ today' \in Days
      BY <1>1, <1>2, <1>3, <1>5 DEF Dated
    <2> QED BY <1>3, <2>1, <2>2 DEF Dated, Coherent
  <1>10. Base' = Base
    BY <1>8 DEF Base
  <1>11. Fits(timer)'
    <2>1. today' \in Nat /\ today' >= today /\ Base' \in Nat /\ Base' >= Base
      BY <1>1, <1>4, <1>10
    <2> QED BY <1>3, <1>4, <1>7, <2>1, FitsOn
  <1>12. Kept'
    <2>1. mishaps' \subseteq Mishap
      BY <1>2 DEF Kept, If, Mishap, migrateInstance, Happen
    <2> QED BY <1>1, <1>2, <1>4, <2>1 DEF Kept
  <1> QED BY <1>9, <1>11, <1>12 DEF Bounded

LEMMA SweepInBounds ==
  ASSUME Ledger, Bounded, Sweep
  PROVE  Bounded'
  <1> DEFINE rung == [timer EXCEPT !.breached = TRUE]
  <1>1. PICK failed \in SUBSET {"save", "event"} :
          \/ handleBeslistermijnRung(failed)
          \/ \E day \in strays : handleStrayRung(day, failed)
    BY DEF Sweep
  <1>2. MarkExceeded(failed) /\ strays' \subseteq strays /\ timer' \in {timer, rung}
        /\ term.status # "none"
    BY <1>1 DEF handleBeslistermijnRung, handleStrayRung, Ledger, LedgerTypes
  <1>3. /\ today' = today /\ helpers' = helpers /\ Loses(failed, {"save", "event"})
        /\ term' = term \/ Saved(failed, Becomes("exceeded", term.end, 0, 0))
        /\ Recorded(failed, 0)
        /\ mishaps' \subseteq mishaps \cup {"behind"}
    BY <1>2 DEF MarkExceeded, Happen, If
  <1>4. Dated /\ Fits(timer) /\ Kept
    BY DEF Bounded
  <1>5. Fits(timer')
    <2>1. timer \in TimerRow
      BY <1>4 DEF Fits
    <2>2. rung \in TimerRow /\ rung.at = timer.at /\ rung.left = timer.left
      BY <2>1 DEF TimerRow
    <2> HIDE DEF rung
    <2>3. Fits(rung)
      BY <1>4, <2>2 DEF Fits
    <2> QED BY <1>2, <1>4, <2>3
  <1> HIDE DEF rung
  <1>6. Dated' /\ Fits(timer)'
    BY <1>2, <1>3, <1>5, ClosedInBounds DEF Status
  <1>7. journal' \in Event /\ mishaps' \subseteq Mishap
    BY <1>3, <1>4, RecordedEvent DEF Kept, Mishap
  <1> QED BY <1>2, <1>3, <1>4, <1>6, <1>7 DEF Bounded, Kept

LEMMA ExpiryInBounds ==
  ASSUME Bounded, NEW due \in helpers, NEW failed, handlePauseExpiry(due, failed)
  PROVE  Bounded'
  <1>1. /\ UNCHANGED <<today, term, timer, strays>> /\ Loses(failed, {"event"})
        /\ mishaps' = mishaps /\ helpers' \subseteq helpers
        /\ journal' \in {journal, [journal EXCEPT !.expired = TRUE]}
    BY DEF handlePauseExpiry, Happen
  <1>2. Dated /\ Fits(timer) /\ Kept
    BY DEF Bounded
  <1>3. /\ faults' \in 0 .. MaxFaults /\ faults' >= faults /\ faults \in Nat
        /\ Slack \in Nat /\ Slack' \in Nat /\ Slack' >= Slack
    BY <1>1, <1>2, LosesSlack, Numbers DEF Dated
  <1>4. Dated'
    BY <1>1, <1>2, <1>3 DEF Dated, Coherent
  <1>5. Fits(timer)'
    <2>1. /\ Base \in Nat /\ today \in Nat /\ Base' = Base
      BY <1>1, <1>2, Numbers DEF Base
    <2>2. today' \in Nat /\ today' >= today /\ Base' \in Nat /\ Base' >= Base /\ timer' = timer
      BY <1>1, <2>1
    <2> QED BY <1>2, <1>3, <2>1, <2>2, FitsOn
  <1>6. journal' \in Event
    BY <1>1, <1>2 DEF Kept, Event
  <1> QED BY <1>1, <1>2, <1>4, <1>5, <1>6 DEF Bounded, Kept

LEMMA DayInBounds ==
  ASSUME Bounded, DayPasses
  PROVE  Bounded'
  <1>1. /\ UNCHANGED <<term, timer, strays, helpers, journal, faults, mishaps>>
        /\ today' = today + 1 /\ today < Horizon
    BY DEF DayPasses
  <1>2. Dated /\ Fits(timer) /\ Kept
    BY DEF Bounded
  <1>3. /\ today \in Nat /\ Horizon \in Nat /\ Base \in Nat /\ Slack \in Nat
    BY <1>2, Numbers, SlackIsNat DEF Dated
  <1>4. /\ today' \in Days /\ today' \in Nat /\ today' >= today
    BY <1>1, <1>3 DEF Days
  <1>5. Dated'
    BY <1>1, <1>2, <1>4 DEF Dated, Coherent
  <1>6. Fits(timer)'
    <2>1. Base' = Base /\ Slack' = Slack
      BY <1>1 DEF Base, Slack
    <2>2. Base' \in Nat /\ Base' >= Base /\ Slack' \in Nat /\ Slack' >= Slack /\ timer' = timer
      BY <1>1, <1>3, <2>1
    <2> QED BY <1>2, <1>3, <1>4, <2>2, FitsOn
  <1> QED BY <1>1, <1>2, <1>5, <1>6 DEF Bounded, Kept

LEMMA BoundedStep == Ledger /\ Bounded /\ [Next]_vars => Bounded'
  <1> SUFFICES ASSUME Ledger, Bounded, [Next]_vars PROVE Bounded'
    OBVIOUS
  <1>1. CASE \E failed \in SUBSET Part : createTermijnInstance(failed)
    BY <1>1, CreateInBounds
  <1>2. CASE \E failed \in SUBSET Part, days \in PauseLengths : registerPauze(days, failed)
    BY <1>2, PauzeInBounds
  <1>3. CASE \E failed \in SUBSET Part, answer \in Days : resumeAfterPauze(answer, failed)
    BY <1>3, HervatInBounds
  <1>4. CASE \E failed \in SUBSET Part, newEnd \in Days, supervisor \in BOOLEAN :
               applyExtension(newEnd, supervisor, failed)
    BY <1>4, VerlengInBounds
  <1>5. CASE \E failed \in SUBSET Part : markTermijnCompleted(failed)
    BY <1>5, VoltooiInBounds
  <1>6. CASE \E failed \in SUBSET Part : migrateInstance(failed)
    BY <1>6, MigrateInBounds
  <1>7. CASE \E failed \in SUBSET Part, due \in helpers : handlePauseExpiry(due, failed)
    BY <1>7, ExpiryInBounds
  <1>8. CASE Sweep
    BY <1>8, SweepInBounds
  <1>9. CASE DayPasses
    BY <1>9, DayInBounds
  <1>10. CASE UNCHANGED vars
    BY <1>10 DEF vars, Bounded, Dated, Coherent, Fits, Kept, Base, Slack
  <1> QED BY <1>1, <1>2, <1>3, <1>4, <1>5, <1>6, <1>7, <1>8, <1>9, <1>10 DEF Next

(* Days are added up and taken back by six handlers, any of which can lose  *)
(* a part; still a term never ends before it began or beyond the calendar,  *)
(* and a timer is never due, nor holds, more than the calendar, the days    *)
(* gone by and one calendar for every handler that lost a part.             *)
THEOREM TypeCorrect == Spec => []TypeOK
  <1>1. Bounded => TypeOK
    <2> SUFFICES ASSUME Bounded PROVE TypeOK
      OBVIOUS
    <2>1. Dated /\ Fits(timer) /\ Kept
      BY DEF Bounded
    <2>2. /\ Base \in Nat /\ Base <= Horizon /\ Horizon \in Nat /\ MaxFaults \in Nat
          /\ today \in Nat /\ today <= Horizon
      BY <2>1, Numbers
    <2>3. /\ faults \in Nat /\ Slack \in Nat /\ Slack <= MaxFaults * Horizon
          /\ MaxFaults * Horizon \in Nat
          /\ (MaxFaults + 3) * Horizon = MaxFaults * Horizon + 3 * Horizon
      BY <2>1, <2>2, MoreIsMore, Multiples DEF Dated, Slack
    <2>4. /\ timer \in TimerRow /\ timer.at \in Nat /\ timer.left \in Nat
          /\ timer.at <= Base + today + Slack /\ timer.left <= Base + Slack
      BY <2>1 DEF Fits
    <2>5. /\ timer.at <= MaxFaults * Horizon + 3 * Horizon
          /\ timer.left <= MaxFaults * Horizon + 3 * Horizon
      BY <2>2, <2>3, <2>4
    <2>6. timer.at \in Moments /\ timer.left \in Moments
      BY <2>2, <2>3, <2>4, <2>5 DEF Moments
    <2>7. timer \in Timer
      BY <2>4, <2>6 DEF TimerRow, Timer
    <2> QED BY <2>1, <2>7 DEF TypeOK, Dated, Coherent, Kept, Event
  <1> QED BY LedgerInit, LedgerStep, InitBounded, BoundedStep, <1>1, PTL DEF Spec
=============================================================================
