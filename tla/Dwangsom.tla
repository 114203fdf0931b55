------------------------------- MODULE Dwangsom -------------------------------
(***************************************************************************)
(* The statutory penalty (dwangsom) of one term that was not met: a valid  *)
(* notice of default starts a calculation, which accrues day by day when   *)
(* asked to, until a decision stops it or an objection freezes it; payouts *)
(* follow it.  NoticeOfDefaultService, DwangsomCalculationService,         *)
(* DwangsomBezwaarService, DwangsomUitbetalingService.  Each handler reads *)
(* a row and writes it back whole some calls later, and whoever writes     *)
(* last wins.                                                              *)
(*                                                                         *)
(* Amounts are cents, dates are numbers of days.  The regime is that of    *)
(* the law, not a deviating one.  The rows of the notices themselves and   *)
(* the events on the term are left out.                                    *)
(***************************************************************************)
EXTENDS Naturals, FiniteSets

CONSTANTS
  Calculations, \* DwangsomBerekening row ids
  Payouts,      \* DwangsomUitbetaling row ids
  Requests,
  Days,         \* the days on which anything happens
  Deadline,     \* endDateCurrent of the term
  Corrections,  \* amounts an objection may end in
  None

ASSUME DwangsomAssumption ==
  /\ 0 \in Days /\ Days \subseteq Nat /\ Deadline \in Nat
  /\ Corrections \subseteq Nat
  /\ None \notin Calculations \cup Payouts \cup Nat

VARIABLES
  today,
  term,     \* status and relevantIngbrekes of the TermijnInstance
  calcs,
  payouts,
  req,      \* what each request does and has read
  decided,  \* history: per calculation the day a decision was to stop it
  mishaps   \* history: what went wrong

vars == <<today, term, calcs, payouts, req, decided, mishaps>>

Grace == 14
Plafond == 144200
dailyTariffAwb(day) == IF day <= 14 THEN 2300 ELSE IF day <= 28 THEN 3500 ELSE 4500

Fresh == [status |-> "running", linked |-> FALSE]
NoCalc == [status |-> "none", startDate |-> 0, currentDag |-> 0, cumulativeAmount |-> 0,
           plafondBereikt |-> FALSE, definitiveAmount |-> None]
NoPayout == [status |-> "none", calc |-> None, amount |-> 0]
Idle == [op |-> "none", pc |-> "idle", day |-> 0, calc |-> None, amount |-> 0,
         row |-> Fresh,                     \* the term as read
         seen |-> NoCalc, held |-> NoCalc,  \* the calculation as read, and to be written
         found |-> NoPayout, todo |-> {}]   \* the payouts as read, and those left to write

Exists(c) == calcs[c].status # "none"
PayoutsOf(c) == {p \in Payouts : payouts[p].status # "none" /\ payouts[p].calc = c}

Init ==
  /\ today = 0
  /\ term = Fresh
  /\ calcs = [c \in Calculations |-> NoCalc]
  /\ payouts = [p \in Payouts |-> NoPayout]
  /\ req = [r \in Requests |-> Idle]
  /\ decided = [c \in Calculations |-> None]
  /\ mishaps = {}
------------------------------------------------------------------------------
(* A slip: the plafond is noticed once it is passed. *)
applyUntilPast(row) ==
  IF row.plafondBereikt THEN row
  ELSE LET day == row.currentDag + 1
           cumul == row.cumulativeAmount + dailyTariffAwb(day) IN
         [row EXCEPT !.currentDag = day, !.cumulativeAmount = cumul,
                     !.plafondBereikt = cumul > Plafond]

(* One day more, as long as the plafond is not reached. *)
applyDailyAccrual(row) ==
  IF row.plafondBereikt THEN row
  ELSE LET day == row.currentDag + 1
           cumul == row.cumulativeAmount + dailyTariffAwb(day) IN
         [row EXCEPT !.currentDag = day,
                     !.cumulativeAmount = IF cumul >= Plafond THEN Plafond ELSE cumul,
                     !.plafondBereikt = cumul >= Plafond]

(* A slip: the day of the decision is counted as well. *)
elapsedOneMore(row) ==
  IF today < row.startDate THEN 0 ELSE today + 1 - row.startDate

elapsedAccrualDays(row) ==
  IF today <= row.startDate THEN 0 ELSE today - row.startDate

(* The days missing are applied one by one; the status is none of it. *)
settle(row) ==
  LET missing == elapsedAccrualDays(row) - row.currentDag
      after[n \in 0..missing] == IF n = 0 THEN row ELSE applyDailyAccrual(after[n - 1])
      now == after[missing]
  IN  [row EXCEPT !.currentDag = now.currentDag, !.cumulativeAmount = now.cumulativeAmount,
                  !.plafondBereikt = now.plafondBereikt]

(* accrueThrough() has something to do. *)
Accrues(row) ==
  row.status = "lopend" /\ ~row.plafondBereikt /\ elapsedAccrualDays(row) > row.currentDag

Requesting(r, call) ==
  /\ req[r] = Idle
  /\ req' = [req EXCEPT ![r] = call]

(* A request that has read a calculation and is to write it back. *)
Reading(op, c, row) ==
  [Idle EXCEPT !.op = op, !.pc = "write", !.day = today, !.calc = c,
               !.seen = calcs[c], !.held = row]

Going(r, pc) == req' = [req EXCEPT ![r].pc = pc]
Ending(r) == req' = [req EXCEPT ![r] = Idle]
Noting(kinds) == mishaps' = mishaps \cup kinds

Tick ==
  /\ \E day \in Days : day > today /\ today' = day
  /\ Noting(IF \E r \in Requests : req[r].op = "stop" THEN {"midnight"} ELSE {})
  /\ UNCHANGED <<term, calcs, payouts, req, decided>>
------------------------------------------------------------------------------
(* updateTermijnInstance() reads the term, merges a patch into it and saves *)
(* it whole.  Whoever else patches the term writes back the link it read:  *)
(* the engine when the deadline has passed, whoever completes the term, or *)
(* anybody who patches other fields ("touch"), as for a reminder sent.     *)
Patching == {"touch", "complete", "expire"}

Patched(op, row) ==
  IF op = "touch" THEN row
  ELSE [row EXCEPT !.status = IF op = "complete" THEN "completed" ELSE "exceeded"]

PatchTerm(r, op) ==
  /\ op = "expire" => term.status = "running" /\ today >= Deadline
  /\ Requesting(r, [Idle EXCEPT !.op = op, !.pc = "patch"])
  /\ UNCHANGED <<today, term, calcs, payouts, decided, mishaps>>

(* For a notice that is to be linked, and for everybody else.              *)
ReadTerm(r) ==
  /\ \/ req[r].pc = "link" /\ req' = [req EXCEPT ![r].pc = "linkSave", ![r].row = term]
     \/ req[r].pc = "patch" /\ req' = [req EXCEPT ![r].pc = "patchSave", ![r].row = term]
  /\ UNCHANGED <<today, term, calcs, payouts, decided, mishaps>>

SaveTerm(r) ==
  /\ req[r].pc = "patchSave"
  /\ term' = Patched(req[r].op, req[r].row)
  /\ Noting(IF term.linked /\ ~req[r].row.linked THEN {"linkOverwritten"} ELSE {})
  /\ Ending(r)
  /\ UNCHANGED <<today, calcs, payouts, decided>>
------------------------------------------------------------------------------
(* A slip: a notice counts although an earlier one did. *)
RegisterAnother(r, receiptDate) ==
  /\ term.status = "exceeded" /\ Deadline < receiptDate /\ receiptDate <= today
  /\ Requesting(r, [Idle EXCEPT !.op = "notice", !.pc = "link", !.day = receiptDate])
  /\ Noting(IF \E q \in Requests : req[q].op = "notice" THEN {"raced"} ELSE {})
  /\ UNCHANGED <<today, term, calcs, payouts, decided>>

(* registerNoticeOfDefault(): a notice that is premature, or not the first *)
(* as far as the term says when it is read, is only filed.                 *)
RegisterNotice(r, receiptDate) ==
  /\ term.status = "exceeded" /\ Deadline < receiptDate /\ receiptDate <= today
  /\ ~term.linked
  /\ Requesting(r, [Idle EXCEPT !.op = "notice", !.pc = "link", !.day = receiptDate])
  /\ Noting(IF \E q \in Requests : req[q].op = "notice" THEN {"raced"} ELSE {})
  /\ UNCHANGED <<today, term, calcs, payouts, decided>>

(* The term gets the notice's id, on top of what was read of it.  The id   *)
(* is empty when filing the notice failed, and a failed update of the term *)
(* goes unnoticed.                                                         *)
LinkNotice(r) ==
  /\ req[r].pc = "linkSave"
  /\ Going(r, "create")
  /\ \/ term' = [req[r].row EXCEPT !.linked = TRUE] /\ UNCHANGED mishaps
     \/ term' \in {[req[r].row EXCEPT !.linked = FALSE], term} /\ Noting({"linkLost"})
  /\ UNCHANGED <<today, calcs, payouts, decided>>

StartCalculation(r) ==
  /\ req[r].pc = "create"
  /\ Ending(r)
  /\ \/ /\ \E c \in Calculations :
             /\ ~Exists(c)
             /\ calcs' = [calcs EXCEPT ![c] = [NoCalc EXCEPT !.status = "lopend",
                                                             !.startDate = req[r].day + Grace]]
        /\ UNCHANGED mishaps
     \/ Noting({"notCreated"}) /\ UNCHANGED calcs
  /\ UNCHANGED <<today, term, payouts, decided>>
------------------------------------------------------------------------------
(* accrueThrough(), from the deadline timers or for anybody who asks.      *)
Accrue(r, c) ==
  /\ Accrues(calcs[c])
  /\ Requesting(r, Reading("accrue", c, settle(calcs[c])))
  /\ UNCHANGED <<today, term, calcs, payouts, decided, mishaps>>

(* A slip: the days since the last accrual are not settled first. *)
StopUnsettled(r, c) ==
  /\ Exists(c)
  /\ Requesting(r, [Reading("stop", c, calcs[c]) EXCEPT !.pc = "reread"])
  /\ UNCHANGED <<today, term, calcs, payouts, decided, mishaps>>

(* stopForBeschikking() settles first, and looks at no status itself. *)
StopForBeschikking(r, c) ==
  /\ Exists(c)
  /\ Requesting(r, IF Accrues(calcs[c])
                   THEN [Reading("stop", c, settle(calcs[c])) EXCEPT !.pc = "settle"]
                   ELSE [Reading("stop", c, calcs[c]) EXCEPT !.pc = "reread"])
  /\ UNCHANGED <<today, term, calcs, payouts, decided, mishaps>>

(* persistCalculation() of the settled row, which swallows a failure. *)
SaveSettled(r) ==
  /\ req[r].pc = "settle"
  /\ Going(r, "reread")
  /\ \/ /\ calcs' = [calcs EXCEPT ![req[r].calc] = req[r].held]
        /\ Noting(IF calcs[req[r].calc] # req[r].seen THEN {"lostUpdate"} ELSE {})
     \/ Noting({"accrualLost"}) /\ UNCHANGED calcs
  /\ UNCHANGED <<today, term, payouts, decided>>

ReadAgain(r) ==
  /\ req[r].pc = "reread"
  /\ LET row == calcs[req[r].calc] IN
       req' = [req EXCEPT ![r].pc = "write", ![r].seen = row,
                          ![r].held = [row EXCEPT !.status = "gestopt-wegens-decision",
                                                  !.definitiveAmount = row.cumulativeAmount]]
  /\ UNCHANGED <<today, term, calcs, payouts, decided, mishaps>>

(* The day counts for a decision that stops what is still running. *)
WriteCalculation(r) ==
  /\ req[r].pc = "write"
  /\ calcs' = [calcs EXCEPT ![req[r].calc] = req[r].held]
  /\ decided' = IF req[r].op = "stop" /\ req[r].seen.status = "lopend"
                THEN [decided EXCEPT ![req[r].calc] = req[r].day] ELSE decided
  /\ Noting(IF calcs[req[r].calc] # req[r].seen THEN {"lostUpdate"} ELSE {})
  /\ IF req[r].op \in {"object", "resolve"} THEN Going(r, "search") ELSE Ending(r)
  /\ UNCHANGED <<today, term, payouts>>
------------------------------------------------------------------------------
(* registerBezwaar() and resolveBezwaar(), on a calculation in any state.  *)
Objecting(c) ==
  IF \E q \in Requests : req[q].op \in {"object", "resolve"} /\ req[q].calc = c
  THEN {"overlap"} ELSE {}

RegisterBezwaar(r, c) ==
  /\ Exists(c)
  /\ Requesting(r, Reading("object", c, [calcs[c] EXCEPT !.status = "objection-bevroren"]))
  /\ Noting(Objecting(c))
  /\ UNCHANGED <<today, term, calcs, payouts, decided>>

ResolveBezwaar(r, c, amount) ==
  /\ Exists(c)
  /\ Requesting(r, [Reading("resolve", c, [calcs[c] EXCEPT !.status = "completed",
                                                           !.definitiveAmount = amount])
                      EXCEPT !.amount = amount])
  /\ Noting(Objecting(c))
  /\ UNCHANGED <<today, term, calcs, payouts, decided>>

FindPayouts(r) ==
  /\ req[r].pc = "search"
  /\ LET of == PayoutsOf(req[r].calc) IN
       IF of = {} THEN Ending(r)
       ELSE req' = [req EXCEPT ![r].pc = "payouts", ![r].todo = of, ![r].found = payouts]
  /\ UNCHANGED <<today, term, calcs, payouts, decided, mishaps>>

(* A slip: an objection that is resolved leaves the amounts as they were.  *)
FollowStatusOnly(op, row, amount) ==
  [row EXCEPT !.status = IF op = "object" THEN "on-hold-objection" ELSE "voorbereid"]

Follow(op, row, amount) ==
  IF op = "object" THEN [row EXCEPT !.status = "on-hold-objection"]
  ELSE [row EXCEPT !.status = "voorbereid", !.amount = amount]

(* The payouts found are written one by one; a failure is only logged. *)
SavePayout(r, p) ==
  /\ req[r].pc = "payouts" /\ p \in req[r].todo
  /\ IF req[r].todo = {p} THEN Ending(r) ELSE req' = [req EXCEPT ![r].todo = @ \ {p}]
  /\ \/ /\ payouts' = [payouts EXCEPT ![p] = Follow(req[r].op, req[r].found[p], req[r].amount)]
        /\ Noting(IF payouts[p] # req[r].found[p] THEN {"lostUpdate"} ELSE {})
     \/ Noting({"payoutLost"}) /\ UNCHANGED payouts
  /\ UNCHANGED <<today, term, calcs, decided>>
------------------------------------------------------------------------------
(* resolvePayableAmount() *)
Payable(row) ==
  IF row.definitiveAmount # None THEN row.definitiveAmount ELSE row.cumulativeAmount

PrepareBetaling(r, c) ==
  /\ Exists(c) /\ Payable(calcs[c]) > 0
  /\ Requesting(r, [Reading("pay", c, calcs[c]) EXCEPT !.pc = "pay", !.amount = Payable(calcs[c])])
  /\ UNCHANGED <<today, term, calcs, payouts, decided, mishaps>>

(* A payout prepared while the calculation is frozen, or as it was before. *)
PersistDisbursement(r) ==
  /\ req[r].pc = "pay"
  /\ \E p \in Payouts :
       /\ payouts[p].status = "none"
       /\ payouts' = [payouts EXCEPT ![p] = [status |-> "voorbereid", calc |-> req[r].calc,
                                             amount |-> req[r].amount]]
  /\ LET now == calcs[req[r].calc] IN
       Noting(IF now # req[r].seen \/ now.status = "objection-bevroren" THEN {"unheld"} ELSE {})
  /\ Ending(r)
  /\ UNCHANGED <<today, term, calcs, decided>>

(* handleCallback(): the payment provider reports a status of its own. *)
HandleCallback(r, p) ==
  /\ payouts[p].status # "none"
  /\ Requesting(r, [Idle EXCEPT !.op = "callback", !.pc = "report", !.todo = {p}, !.found = payouts])
  /\ UNCHANGED <<today, term, calcs, payouts, decided, mishaps>>

ApplyCallback(r, p) ==
  /\ req[r].pc = "report" /\ p \in req[r].todo
  /\ payouts' = [payouts EXCEPT ![p] = [req[r].found[p] EXCEPT !.status = "reported"]]
  /\ Noting(IF payouts[p] # req[r].found[p] THEN {"lostUpdate"} ELSE {})
  /\ Ending(r)
  /\ UNCHANGED <<today, term, calcs, decided>>

(* A store call throws or is swallowed at the end, or the process dies.    *)
CutShort(r) ==
  /\ req[r].op # "none"
  /\ Ending(r)
  /\ Noting(IF req[r].pc = "create" THEN {"notCreated"}
            ELSE IF req[r].pc \in {"search", "payouts"} THEN {"payoutLost"} ELSE {})
  /\ UNCHANGED <<today, term, calcs, payouts, decided>>
------------------------------------------------------------------------------
Next ==
  \/ Tick
  \/ \E r \in Requests :
       \/ \E op \in Patching : PatchTerm(r, op)
       \/ ReadTerm(r) \/ SaveTerm(r)
       \/ LinkNotice(r) \/ StartCalculation(r)
       \/ SaveSettled(r) \/ ReadAgain(r) \/ WriteCalculation(r)
       \/ FindPayouts(r) \/ PersistDisbursement(r) \/ CutShort(r)
       \/ \E day \in Days : RegisterNotice(r, day)
       \/ \E p \in Payouts : SavePayout(r, p) \/ HandleCallback(r, p) \/ ApplyCallback(r, p)
       \/ \E c \in Calculations :
            \/ Accrue(r, c) \/ StopForBeschikking(r, c)
            \/ RegisterBezwaar(r, c) \/ PrepareBetaling(r, c)
            \/ \E amount \in Corrections : ResolveBezwaar(r, c, amount)

Spec == Init /\ [][Next]_vars
------------------------------------------------------------------------------
Calculation == [status : {"none", "lopend", "gestopt-wegens-decision", "objection-bevroren", "completed"},
                startDate : Nat, currentDag : Nat, cumulativeAmount : 0..Plafond,
                plafondBereikt : BOOLEAN, definitiveAmount : Nat \cup {None}]
Payout == [status : {"none", "voorbereid", "on-hold-objection", "reported"},
           calc : Calculations \cup {None}, amount : Nat]

(* Types; and every payout is of a calculation that exists. *)
TypeOK ==
  /\ today \in Days
  /\ term \in [status : {"running", "exceeded", "completed"}, linked : BOOLEAN]
  /\ calcs \in [Calculations -> Calculation]
  /\ payouts \in [Payouts -> Payout]
  /\ \A r \in Requests : req[r].calc # None => Exists(req[r].calc)
  /\ \A p \in Payouts : payouts[p].status # "none" => Exists(payouts[p].calc)
  /\ decided \in [Calculations -> Days \cup {None}]
  /\ mishaps \subseteq {"raced", "linkLost", "linkOverwritten", "notCreated", "lostUpdate", "accrualLost",
                        "overlap", "payoutLost", "unheld", "midnight"}

(* One dwangsom per term: there is at most one calculation unless notices  *)
(* were handled at the same time, the term never learnt of the first, or   *)
(* somebody wrote it back as it was before; and a term that knows of one   *)
(* has a calculation, once it is handled, unless that was not created.     *)
OneDwangsom ==
  /\ \/ \A c, d \in Calculations : Exists(c) /\ Exists(d) => c = d
     \/ {"raced", "linkLost", "linkOverwritten"} \cap mishaps # {}
  /\ term.linked =>
       \/ \E c \in Calculations : Exists(c)
       \/ \E r \in Requests : req[r].op = "notice"
       \/ "notCreated" \in mishaps

(* What the law (AWB 4:17) makes of a number of days. *)
Least(m, n) == IF m <= n THEN m ELSE n
Beyond(day, n) == IF n <= day THEN 0 ELSE n - day
Owed(days) ==
  Least(Plafond, 2300 * Least(days, 14) + 3500 * Least(Beyond(14, days), 14) + 4500 * Beyond(28, days))

(* However many runs were missed, doubled or overwrote each other, what is *)
(* accrued is what the law says of the days counted, and these are never   *)
(* more than have passed since the grace period.                           *)
AmountIsOwed ==
  \A c \in Calculations :
    LET row == calcs[c] IN
      /\ row.cumulativeAmount = Owed(row.currentDag)
      /\ row.plafondBereikt <=> row.cumulativeAmount = Plafond
      /\ row.startDate + row.currentDag <= today \/ row.currentDag = 0

(* A running calculation that a decision stops ends at what is owed on     *)
(* that day, whenever it was last settled; unless settling it failed, took *)
(* past midnight, or somebody wrote the calculation meanwhile.             *)
DecisionReflectsDays ==
  \A c \in Calculations :
    /\ calcs[c].status = "gestopt-wegens-decision" /\ decided[c] # None
    /\ {"lostUpdate", "accrualLost", "midnight"} \cap mishaps = {}
    => calcs[c].definitiveAmount = Owed(Beyond(calcs[c].startDate, decided[c]))

(* Payouts that are not reported on yet are held while the calculation is  *)
(* frozen, and are of the corrected amount when that is over; unless one   *)
(* could not be written, was prepared meanwhile, or handlers overlapped.   *)
PayoutsFollow ==
  \A p \in Payouts :
    LET c == payouts[p].calc IN
      /\ payouts[p].status \in {"voorbereid", "on-hold-objection"}
      /\ \A r \in Requests : req[r].calc = c => req[r].pc \notin {"search", "payouts"}
      /\ {"lostUpdate", "overlap", "payoutLost", "unheld"} \cap mishaps = {}
      => /\ calcs[c].status = "objection-bevroren" => payouts[p].status = "on-hold-objection"
         /\ calcs[c].status = "completed" =>
              payouts[p].status = "voorbereid" /\ payouts[p].amount = calcs[c].definitiveAmount
==============================================================================
