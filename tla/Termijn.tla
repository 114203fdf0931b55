------------------------------- MODULE Termijn -------------------------------
(***************************************************************************)
(* The statutory term of one case on its two clocks: the TermijnInstance,  *)
(* whose end date pauses and extensions move, and the FlowTimer of the     *)
(* flow engine, which is suspended, resumed and extended along with it and *)
(* whose slaBreached rung marks the term exceeded.                         *)
(*                                                                         *)
(* A handler is one step.  Its store and engine calls catch their own      *)
(* exceptions, so any of them can fail and the handler goes on to the      *)
(* next: "failed" is the set of its parts that did not happen, the last    *)
(* ones of it when the process dies.  Days count from the start of the     *)
(* term.  The engine, outside this repository, is modelled from what       *)
(* TermijnTimerService asks of it.                                         *)
(***************************************************************************)
EXTENDS Integers, FiniteSets

CONSTANTS
  Duration,      \* standardDurationDays
  PauseLengths,  \* lengths a pause may be asked for
  MaxExtensions, \* what resolveMaxExtensions() falls back to
  ExtensionMax,  \* extensionMax, the bound of the engine's own extend()
  OverridesCount, \* whether extendWithOverride() counts towards that bound
  Horizon,       \* no end date beyond this day, and no day after it
  MaxFaults      \* handlers that lose a part, at most

ASSUME TermijnAssumption ==
  /\ Duration \in Nat \ {0}
  /\ PauseLengths \subseteq Nat \ {0}
  /\ MaxExtensions \in Nat
  /\ ExtensionMax \in Nat \ {0} /\ MaxExtensions <= ExtensionMax
  /\ OverridesCount \in BOOLEAN
  /\ Horizon \in Nat
  /\ Duration <= Horizon
  /\ MaxFaults \in Nat

VARIABLES
  today,   \* the calendar, in days since the start of the term
  term,    \* the TermijnInstance
  timer,   \* the FlowTimer whose uuid the term carries
  strays,  \* fire days of timers armed for the term that it does not carry
  helpers, \* due days of the hersteltermijn helpers still armed
  journal, \* the TermijnGebeurtenissen: sum of daysImpact, has this pause expired
  faults,  \* history: handlers that lost a part
  mishaps  \* history: "unwritten" if term and events parted, "ahead" ("behind") if
           \* something happened that lets the engine fire before (after) the end date

vars == <<today, term, timer, strays, helpers, journal, faults, mishaps>>

Days == 0 .. Horizon
Moments == 0 .. (MaxFaults + 3) * Horizon
Status == {"none", "lopend", "paused", "verlengd", "exceeded", "completed"}
(* `extensions` stops at MaxExtensions, the only number it is compared with, *)
(* and that of the timer at ExtensionMax; the dates of a pause are dead once *)
(* it is over, and 0 stands for them.                                        *)
Term == [status : Status, end : Days, extensions : 0 .. MaxExtensions, linked : BOOLEAN,
         pausedOn : Days, pauseDays : Days]
Timer == [state : {"none", "running", "suspended", "cancelled"},
          at : Moments, left : Moments, breached : BOOLEAN,
         extensions : 0 .. ExtensionMax]
NoTimer == [state |-> "none", at |-> 0, left |-> 0, breached |-> FALSE, extensions |-> 0]
Mishap == {"unwritten", "ahead", "behind"}

Running == term.status \in {"lopend", "verlengd"}

Init ==
  /\ today = 0
  /\ term = [status |-> "none", end |-> Duration, extensions |-> 0, linked |-> FALSE,
             pausedOn |-> 0, pauseDays |-> 0]
  /\ timer = NoTimer
  /\ strays = {}
  /\ helpers = {}
  /\ journal = [days |-> 0, expired |-> FALSE]
  /\ faults = 0
  /\ mishaps = {}
------------------------------------------------------------------------------
(* What a handler leaves undone, and what that counts for.                  *)
Loses(failed, parts) ==
  /\ failed \subseteq parts
  /\ failed # {} => faults < MaxFaults
  /\ faults' = faults + (IF failed = {} THEN 0 ELSE 1)

If(condition, mishap) == IF condition THEN {mishap} ELSE {}

(* The term changed without its event, or the event is there without it.   *)
Unwritten(failed) == If(("save" \in failed) # ("event" \in failed), "unwritten")

(* The term changed and the engine did not hear of it, or the reverse.      *)
Unheard(failed, missed, undone) ==
  If("engine" \in failed /\ "save" \notin failed, missed)
    \cup If("save" \in failed /\ "engine" \notin failed, undone)

Happen(set) == mishaps' = mishaps \cup set

(* The row updateTermijnInstance() is given; a pause that is over has no    *)
(* dates.                                                                   *)
Becomes(status, end, on, days) ==
  [term EXCEPT !.status = status, !.end = end, !.pausedOn = on, !.pauseDays = days]

Saved(failed, row) == term' = IF "save" \in failed THEN term ELSE row

(* An event of the term.  The sum is followed until a write is lost, and    *)
(* the expiry while the pause it was told of is on.                         *)
Recorded(failed, impact) ==
  journal' = [days |-> IF "unwritten" \in mishaps' THEN 0
                       ELSE IF "event" \in failed THEN journal.days ELSE journal.days + impact,
              expired |-> journal.expired /\ term' = term]

Max0(n) == IF n > 0 THEN n ELSE 0
Distance(a, b) == IF a < b THEN b - a ELSE a - b
------------------------------------------------------------------------------
(* The engine.  Suspending banks what is left of the term, resuming fires   *)
(* that long from now; an operation on a timer in another state is refused. *)
Armed(day) == [NoTimer EXCEPT !.state = "running", !.at = day]

Suspended(t) ==
  IF t.state = "running" THEN [t EXCEPT !.state = "suspended", !.at = 0, !.left = Max0(t.at - today)] ELSE t

Resumed(t) ==
  IF t.state = "suspended" THEN [t EXCEPT !.state = "running", !.at = today + t.left, !.left = 0]
  ELSE t

(* extend() is bounded: it refuses once the timer has had its extensions;   *)
(* extendWithOverride() never does.                                         *)
Refuses(t, supervisor) == ~supervisor /\ t.extensions = ExtensionMax

Counted(t, supervisor) ==
  IF (supervisor /\ ~OverridesCount) \/ t.extensions = ExtensionMax
    THEN t.extensions ELSE t.extensions + 1

Extended(t, days, supervisor) ==
  IF Refuses(t, supervisor) THEN t
  ELSE CASE t.state = "running" ->
              [t EXCEPT !.at = @ + days, !.extensions = Counted(t, supervisor)]
         [] t.state = "suspended" ->
              [t EXCEPT !.left = @ + days, !.extensions = Counted(t, supervisor)]
         [] OTHER -> t

(* A slip: the optional TermijnTimerService is not passed to the service. *)
NoEngine(failed, t) == UNCHANGED timer
(* A call is made for the timer the term carries, if it carries one. *)
Engine(failed, t) == timer' = IF "engine" \in failed \/ ~term.linked THEN timer ELSE t
------------------------------------------------------------------------------
(* createTermijnInstance(): throws when the term itself cannot be saved.    *)
(* A timer whose uuid cannot be stored runs on all the same.                *)
createTermijnInstance(failed) ==
  /\ term.status = "none"
  /\ Loses(failed, {"event", "engine", "link"})
  /\ Happen(Unwritten(failed) \cup If("engine" \in failed, "behind")
            \cup If("link" \in failed, "ahead"))
  /\ term' = [term EXCEPT !.status = "lopend", !.linked = failed \cap {"engine", "link"} = {}]
  /\ Recorded(failed, Duration)
  /\ timer' = IF failed \cap {"engine", "link"} = {} THEN Armed(Duration) ELSE timer
  /\ strays' = IF "link" \in failed /\ "engine" \notin failed THEN {Duration} ELSE {}
  /\ UNCHANGED <<today, helpers>>

(* registerPauze(): refuses a term that is paused, and no other.            *)
registerPauze(days, failed) ==
  /\ term.status \notin {"none", "paused"}
  /\ term.end + days <= Horizon
  /\ Loses(failed, {"engine", "helper", "save", "event"})
  /\ Happen(Unwritten(failed) \cup Unheard(failed, "ahead", "behind")
            \cup If(today > term.end, "behind")
            \cup If(term.status \in {"exceeded", "completed"}, "ahead"))
  /\ Saved(failed, Becomes("paused", term.end + days, today, days))
  /\ Engine(failed, Suspended(timer))
  /\ helpers' = IF "helper" \in failed THEN helpers ELSE helpers \cup ({today + days} \cap Days)
  /\ Recorded(failed, days)
  /\ UNCHANGED <<today, strays>>

(* The days of the pause the answer leaves unused; `diff()->days` is a      *)
(* distance, whichever date comes first.                                    *)
Consumed(answer) ==
  IF Distance(term.pausedOn, answer) < term.pauseDays THEN Distance(term.pausedOn, answer)
  ELSE term.pauseDays
Unused(answer) == term.pauseDays - Consumed(answer)

(* A slip: the days used are taken back instead of the days left. *)
PulledBackByUse(answer) == term.end - Consumed(answer)
(* A slip: the unused days are added again. *)
PushedOnwards(answer) == term.end + Unused(answer)
PulledBack(answer) == term.end - Unused(answer)

(* A slip: the event tells the days used. *)
ImpactOfUse(answer) == -1 * Consumed(answer)
ResumeImpact(answer) == -1 * Unused(answer)

(* resumeAfterPauze(): dated at any day the handler types in.               *)
resumeAfterPauze(answer, failed) ==
  /\ term.status = "paused"
  /\ Loses(failed, {"engine", "save", "event"})
  /\ Happen(Unwritten(failed) \cup Unheard(failed, "behind", "ahead")
            \cup If(Consumed(answer) > today - term.pausedOn, "ahead")
            \cup If(Consumed(answer) < today - term.pausedOn, "behind"))
  /\ Saved(failed, Becomes("lopend", PulledBack(answer), 0, 0))
  /\ Engine(failed, Resumed(timer))
  /\ Recorded(failed, ResumeImpact(answer))
  /\ UNCHANGED <<today, strays, helpers>>

(* assertExtensionPermitted(): the end date must move on, and only a        *)
(* supervisor goes beyond the maximum.  The status does not matter.         *)
assertExtensionPermitted(newEnd, supervisor) ==
  /\ newEnd > term.end
  /\ supervisor \/ term.extensions < MaxExtensions

(* The engine's refusal is logged and the extension goes on.  It counts as  *)
(* a mishap only when one came before: the maximum of the domain, checked   *)
(* first, is meant to leave the engine nothing to refuse.                   *)
applyExtension(newEnd, supervisor, failed) ==
  /\ term.status # "none"
  /\ assertExtensionPermitted(newEnd, supervisor)
  /\ Loses(failed, {"save", "engine", "event"})
  /\ Happen(Unwritten(failed) \cup Unheard(failed, "ahead", "behind")
            \cup If(term.status \in {"paused", "exceeded", "completed"}, "ahead")
            \cup If(Refuses(timer, supervisor) /\ mishaps # {}, "ahead"))
  /\ Saved(failed, [Becomes("verlengd", newEnd, 0, 0) EXCEPT
                     !.extensions = IF @ < MaxExtensions THEN @ + 1 ELSE @])
  /\ Engine(failed, Extended(timer, newEnd - term.end, supervisor))
  /\ Recorded(failed, newEnd - term.end)
  /\ UNCHANGED <<today, strays, helpers>>

(* markTermijnCompleted(): stops at a save that fails; cancelForSubject     *)
(* takes every timer of the term.                                           *)
markTermijnCompleted(failed) ==
  /\ term.status # "none"
  /\ Loses(failed, {"save", "event", "engine"})
  /\ Happen({})
  /\ Saved(failed, Becomes("completed", term.end, 0, 0))
  /\ LET cancels == failed \cap {"save", "engine"} = {}
     IN /\ timer' = IF cancels /\ timer.state # "none"
                      THEN [NoTimer EXCEPT !.state = "cancelled"] ELSE timer
        /\ strays' = IF cancels THEN {} ELSE strays
        /\ helpers' = IF cancels THEN {} ELSE helpers
  /\ Recorded(failed, 0)
  /\ UNCHANGED today

(* ArmTermijnEngineTimers::migrateInstance(): a timer for an open term that *)
(* carries none, up to its end date as it is now.                           *)
migrateInstance(failed) ==
  /\ term.status \in {"lopend", "verlengd", "paused"}
  /\ ~term.linked
  /\ Loses(failed, {"link", "suspend"})
  /\ Happen(If(term.status = "paused", "behind") \cup If(failed # {}, "ahead"))
  /\ term' = [term EXCEPT !.linked = "link" \notin failed]
  /\ LET armed == Armed(term.end)
         now == IF term.status = "paused" /\ "suspend" \notin failed
                  THEN Suspended(armed) ELSE armed
     IN IF "link" \in failed
          THEN UNCHANGED timer /\ strays' = strays \cup (IF now = armed THEN {term.end} ELSE {})
          ELSE timer' = now /\ UNCHANGED strays
  /\ UNCHANGED <<today, helpers, journal>>
------------------------------------------------------------------------------
(* A slip: a term that was extended is passed over. *)
MarkExceededWhenLopend(failed) ==
  /\ Loses(failed, {"save", "event"})
  /\ IF term.status # "lopend" THEN UNCHANGED term
     ELSE Saved(failed, Becomes("exceeded", term.end, 0, 0))
  /\ Happen(If("save" \in failed, "behind"))
  /\ Recorded(failed, 0)
  /\ UNCHANGED <<today, helpers>>

(* handleBeslistermijnRung() for the slaBreached rung: the term is marked   *)
(* exceeded unless it is completed, or was marked before.                   *)
MarkExceeded(failed) ==
  /\ Loses(failed, {"save", "event"})
  /\ IF term.status \in {"completed", "exceeded"} THEN UNCHANGED term
     ELSE Saved(failed, Becomes("exceeded", term.end, 0, 0))
  /\ Happen(If("save" \in failed, "behind"))
  /\ Recorded(failed, 0)
  /\ UNCHANGED <<today, helpers>>

(* The sweep fires a rung once for a timer: its ledger knows it.            *)
handleBeslistermijnRung(failed) ==
  /\ timer.state = "running" /\ timer.at <= today /\ ~timer.breached
  /\ MarkExceeded(failed)
  /\ timer' = [timer EXCEPT !.breached = TRUE]
  /\ UNCHANGED strays

handleStrayRung(day, failed) ==
  /\ day <= today
  /\ strays' = strays \ {day}
  /\ MarkExceeded(failed)
  /\ UNCHANGED timer

(* A helper fires on its day, whether or not the pause it was armed for is  *)
(* still on: the listener looks only whether the term is paused now.        *)
handlePauseExpiry(due, failed) ==
  /\ due <= today
  /\ Loses(failed, {"event"})
  /\ Happen({})
  /\ helpers' = helpers \ {due}
  /\ journal' = IF term.status = "paused" /\ failed = {}
                  THEN [journal EXCEPT !.expired = TRUE] ELSE journal
  /\ UNCHANGED <<today, term, timer, strays>>

DayPasses ==
  /\ term.status # "none"
  /\ today < Horizon
  /\ today' = today + 1
  /\ UNCHANGED <<term, timer, strays, helpers, journal, faults, mishaps>>

Part == {"engine", "helper", "save", "event", "link", "suspend"}

Sweep ==
  \E failed \in SUBSET {"save", "event"} :
    \/ handleBeslistermijnRung(failed)
    \/ \E day \in strays : handleStrayRung(day, failed)

Next ==
  \/ \E failed \in SUBSET Part :
       \/ createTermijnInstance(failed)
       \/ \E days \in PauseLengths : registerPauze(days, failed)
       \/ \E answer \in Days : resumeAfterPauze(answer, failed)
       \/ \E newEnd \in Days : \E supervisor \in BOOLEAN :
            applyExtension(newEnd, supervisor, failed)
       \/ markTermijnCompleted(failed)
       \/ migrateInstance(failed)
       \/ \E due \in helpers : handlePauseExpiry(due, failed)
  \/ Sweep
  \/ DayPasses

(* The engine's sweep is a cron job, and days go by.                        *)
Spec == Init /\ [][Next]_vars /\ WF_vars(Sweep) /\ WF_vars(DayPasses)
------------------------------------------------------------------------------
(* Every variable holds a value of its kind; pulling back unused pause days *)
(* never takes an end date out of the calendar.                             *)
TypeOK ==
  /\ today \in Days
  /\ term \in Term
  /\ timer \in Timer
  /\ strays \subseteq Days
  /\ helpers \subseteq Days
  /\ journal.days \in Int /\ journal.expired \in BOOLEAN
  /\ faults \in 0 .. MaxFaults
  /\ mishaps \subseteq Mishap

(* The events of a term account for its end date: whatever pauses, answers, *)
(* extensions and breaches it went through, its end is the sum of their     *)
(* daysImpact, unless of some handler the save of the term succeeded and    *)
(* that of the event failed, or the reverse.                                *)
LedgerBalances ==
  (term.status # "none" /\ "unwritten" \notin mishaps) => journal.days = term.end

(* The engine fires a running term on its end date, and holds a paused one  *)
(* with the days it had left when it was paused, through any number of      *)
(* pauses, answers and extensions, unless a mishap parted the two: a call   *)
(* or a save that failed, an answer dated on another day or given after the *)
(* pause ran out, a pause of an overdue term, an extension of a paused one, *)
(* a closed term reopened, a timer armed late for a paused term, or, once   *)
(* any of these happened, an extension that the engine refuses.             *)
ClocksAgree ==
  mishaps = {} =>
    /\ Running => (timer.state = "running" /\ timer.at = term.end)
    /\ term.status = "paused" =>
         (timer.state = "suspended" /\ timer.left = term.end - term.pauseDays - term.pausedOn)

(* A term is never marked exceeded before its end date: answers after the   *)
(* pause ran out or dated back, late arming, lost events and pauses of an   *)
(* overdue term only ever let the engine fall behind.  It is ahead after a  *)
(* call that did not reach it, or an extension it refused because an        *)
(* earlier fault had used up its maximum.                                   *)
NeverExceededEarly ==
  [][(term.status # "exceeded" /\ term'.status = "exceeded"
        /\ "ahead" \notin mishaps)
      => today >= term.end]_vars

(* A running term that reaches its end date is marked exceeded, unless      *)
(* somebody moves the date, pauses or completes it, or a mishap parted its  *)
(* clocks.                                                                  *)
OverdueIsMarkedUnlessMishap ==
  (Running /\ today >= term.end /\ mishaps = {})
    ~> (~Running \/ today < term.end \/ mishaps # {})

(* A pause-expired event tells that the pause the term is in ran out: "a    *)
(* fire arriving after the instance already resumed MUST be ignored".       *)
PauseExpiryIsTrue ==
  journal.expired => today >= term.pausedOn + term.pauseDays
==============================================================================
