# Dossiq in TLA+

Dossiq is case management for Dutch public bodies, an app for Nextcloud. It
keeps no tables of its own: every case, term, message row or case plan is an
object in the OpenRegister app, and each PHP request or cron run loads objects,
decides, and saves them again. What is hard to get right is what happens
*between* those loads and saves: other requests do the same, a store call
throws, a process dies, a cron job comes round once more, and outside services
(an engine of timers, a StUF endpoint) keep time of their own.

This directory holds TLA+ models of the parts where that matters most, the TLC
runs that check them on small instances, and proofs, checked by TLAPS, of what
holds for instances of any size. Paths below are relative to the repository;
every definition that stands for code is listed with its lines in
`PROJECT.json` under `map`, and the ways this code can go wrong, with the
properties that watch over them, under `hazards`.

    tlc -workers 2 -config StatusTransition.cfg MCStatusTransition.tla
    tlapm StatusTransitionProofs.tla

Seven systems are modelled, which share no state: the status of a case, its case
plan, its terms, the penalty on them, the versions of its workflow, the flow run that
asks people about it, and the StUF messages about it. Where two of them meet in the code (a penalty needs a term
that is exceeded, a transition a published workflow) the model of the one has what it
reads of the other as an input.

## The system and its parts

| Part | State | Operations | Interacts with | What is hard |
|---|---|---|---|---|
| Status transition engine (`lib/Service/StatusTransitionService.php`, `lib/Service/Transitions/`) | case objects, statusRecords | execute, executeFreeForm, list and preview transitions, dispatch side effects, replay | case form, tasks, bulk service, flow nodes | two moves of one case at a time; the record written after the case; a side effect that moves the case again |
| Bulk transition (`BulkStatusTransitionService.php`) | none of its own | preview, execute over a list | the engine above, per case | exceptions in the middle of a list, faithful report |
| StUF outbound (`lib/Service/Stuf/`, `StufRetryJob`) | message rows, job list, breaker keys in app config | vrijBericht, retrySend, breaker | cron, the endpoint | at-least-once jobs, read-modify-write of counters, crash between row and job |
| CMMN case plan (`lib/Service/Cmmn/`) | one field of the case: item states, milestones, case file | plan, enable, complete, terminate, signal | every service that saves a case | cascades to a fixed point, tree rules, overlapping saves |
| Statutory terms (`TermijnService`, `DeadlinePauseService`, `DeadlineExtensionService`, `TermijnTimerService`, `TermijnTimerFiredListener`) | TermijnInstance, its events, FlowTimers in the engine | create, pause, resume, extend, complete, repair, fired rungs | OpenRegister's flow engine and its sweep | two clocks for one term, calls that fail unnoticed, helper timers that cannot be cancelled |
| Notice of default and dwangsom (`NoticeOfDefaultService`, `DwangsomCalculationService`, `DwangsomBezwaarService`, `DwangsomUitbetalingService`) | notice, calculation, payouts | register a notice, accrue, stop, object, resolve, pay, callback | terms, decisions, deadline timers, payment provider | one calculation per term, tariff bands over missed runs, rows written back whole while others change them |
| Deadline escalation and notices | notices sent | scan and send | terms | sent twice or never |
| Human steps in flows (`DossiqAskPersonNode`, `DossiqRequestDecisionNode`, their listeners) | tasks, decisions in Decidiq, a run's waiting slots and its one signal | ask, park, resume, heartbeat | OpenRegister's flow engine, people, Decidiq | a signal that is late, lost, refused or meant for another step; a crash between the task and the slot |
| Workflow definition versions (`WorkflowDefinitionService`, `Workflow/`) | definitions per route, pinned default | draft, clone, publish, deprecate, set default | case types, cases, the editor | one active version per route, and no gap, through overlaps and crashes between the writes of a publish |
| Workflow editor (`src/views/settings/tabs/WorkflowTab.vue`, `WorkflowEditor.vue`, `src/store/modules/workflow.js`, `src/utils/workflowGraphValidation.js`) | selected version, copy shown, statuses drawn, dirty flag | load, select, edit, import, save, validate, publish | the versions above, others who edit | answers in any order, what is validated is what is published, searches in graphs with loops |
| Tenants and quotas (`TenantQuotaService`, ...) | usage per quota and period | consume, reset, provision | every metered call | read-compare-write |
| Decisions and signing, case transfer, objections and hearings, sub-cases, ZGW APIs, portals, e-mail and documents, decision tables, KPIs, settings, other pages | objects with a status field | CRUD and conversions | the engines above | little of their own; see "Not modelled" |

For each modelled part, what makes it correct:

- *Status transitions*: a case only moves along its workflow, by a user who
  may, while the guards hold; moves form a chain; the trail does not lie; a
  report is true.
- *StUF*: a message that waits for a retry gets it, unless a fault lost it;
  every message is settled in the end; retries are bounded.
- *Case plan*: saved plans are at a fixed point, the tree is consistent, what is
  offered is accepted, and overlapping requests never move a plan back.
- *Terms*: the events account for the end date; the two clocks agree unless
  something named went wrong; no term is marked exceeded early, and an overdue
  one is marked.
- *Dwangsom*: one penalty per term; the amount is what the law makes of the days
  counted, however they were counted; a decision ends it at what is owed on that
  day; payouts wait for an objection and follow its outcome.
- *Human steps*: nobody is asked twice; a run goes on only with an answer that was
  given to the question it waits on; and an answer moves it on, whatever became of its signal.
- *Workflow versions*: a route has one active version and, once it had one, keeps
  one; publishing on another route leaves the default alone; while there are cases,
  something is published.
- *Workflow editor*: the validation ends and finds an issue exactly when the rules are
  broken; what the tab publishes passed it; it never saves over a version in use;
  a copy that is called clean is the one stored.

## Modules

    CaseWorkflow        constants of a workflow: transitions, guards, groups
      CaseLifecycle     abstract: every move of a case is one atomic step
      StatusTransition  the engine, a store call a step; implements CaseLifecycle
        MCStatusTransition       instances for TLC
        StatusTransitionProofs   theorems: types, refinement, chains, records, reports
    StufOutbound        transport, retry job, rows and breaker
      MCStufOutbound
      StufOutboundProofs         theorems
    CasePlan            the adaptive case plan
      MCCasePlan
      CasePlanProofs             theorems
    Termijn             a statutory term on its two clocks
      TermijnProofs              theorems
    Dwangsom            notice of default, calculation and payouts of one term
      MCDwangsom
      DwangsomProofs             theorems
    HumanStep           the steps of a flow run that wait for people
      MCHumanStep
      HumanStepProofs            theorems
    WorkflowRules       the rules of a workflow graph, stated over the graph
      WorkflowGraph     the editor's validation, a loop turn a step
        MCWorkflowGraph
        WorkflowGraphProofs      theorems
      WorkflowVersions  the versions of one case type's workflow, in the backend
        WorkflowEditor  the workflow tab beside other clients of that backend
          MCWorkflowEditor
          WorkflowEditorProofs   theorems about the versions and the tab

### StatusTransition

A request is a process with a program counter. `SubmitExecute` covers the single
and the bulk endpoint (a single call is a list of one case), `SubmitFree` the
administrators' free-form move. The stages `load`, `evaluate`, `recheck`,
`save`, `record`, `dispatch`, `persist` are the calls of
`StatusTransitionService::execute()` in order, with the early returns of each;
`freeCheck`, `freeSave`, `freeRecord` are those of `executeFreeForm()`. Between
any two, other requests go on, people edit the case (`EditCase`) and tick
checklists (`TickChecklist`), a store call throws (`StoreThrows`: caught per case in
a bulk call) or the process dies (`Crash`). A case object is its status, the
field a guard asks for and `@self.version`. Guards are reduced to one on a field
of the case and one on its tasks, because they differ in what the version check
covers: the recheck and the store look at the version of the case object alone,
so a checklist may change behind it.

A set_status side effect writes the case once more, by `CaseFieldWriter`. A store that has
`patchObject()` does so in one call (`dispatch`). Where it has not, the writer reads the stored case and saves what
it read with the new status (`findStored`, `saveStored`), and anybody may write in between: the
save carries the version that was read, so that it is the store again that refuses it, and
the side effect is reported as failed.

OpenRegister is outside the repository. `saveCase` sends the version the case was
read with; whether the store refuses a stale one is the constant
`StoreChecksVersion`, TRUE in the runs and assumed where the theorems need it.

`written` is a history variable, the moves a case has really made; the refinement
mapping to `CaseLifecycle` reads it as `moves`. `CaseLifecycle` says what the
engine promises: `Move`, `FreeMove`, `EffectMove` and `EditField`, each with all its
conditions true at that very instant.

### StufOutbound

`message` holds the rows (status, length of the retries list), `jobs` the
`StufRetryJob`s on Nextcloud's job list, `count` and `circuit` the two app-config
keys of the breaker, each read and written in steps of its own. Time is reduced to
what the code compares: a job is due or not, an open circuit has cooled down or
not. `StufRetryJob` extends `Job` and not `QueuedJob`, so it stays on the list; the
model keeps it there. `Fault` is a store exception, a job list that throws, or a
crash, `MaxFaults` times at most; `lost` remembers the messages whose retry a fault
dropped between `recordRetry()` and `scheduleRetry()`.

### CasePlan

The plan of one case is `plan`; a worker loads it (`loadContext`), and then
computes and saves in one step, since what happens in between is in memory.
`cascadePass`, `Prepared`, `Enabled`, `Finished` and `Signalled` are the
functions of `PlanItemCascade`, `PlanItemStateMachine` and `CaseModelEngine`, the loops over
items and passes written as recursive functions over their number;
`Illegal` is the exception that ends a request without a save. `saveCase` stands
for any other service that saves the case with the plan it loaded. When the case model cannot be read,
`CaseModelLoader` logs that and the request goes on with no plan items: a signal then saves
the changed case file with no sentry looked at (`signalWithoutItems`, which sets `plan.unheard`), and the
other calls have nothing to save (`goWithoutItems`). `Settled` speaks of plans that are not
`unheard`, and the next call that can read the model makes up for it; `OffersAreExact` compares what reading any
saved plan shows with what enabling accepts. If-part
conditions are reduced to "this case-file item has this value". `MaxCascadeDepth` is 50 in the
runs, as `MAX_CASCADE_DEPTH` in the code.

### Termijn

One term, one calendar. `term` is the TermijnInstance, `timer` the FlowTimer whose
uuid it carries, `strays` timers armed for it whose uuid was not saved, `helpers`
the helper timers of pauses, `journal` what the events add up to. Each handler is
one step with a parameter `failed`: which of its store and engine calls did not
happen. They catch their own exceptions (`TermijnService::save()` logs and returns
null), so the handler runs on and *any* subset may fail; a crash is the case where
the failed ones are the last. At most `MaxFaults` handlers lose something.

`mishaps` is a history variable that names how the ends can come apart:
`"unwritten"` when only one of the term and its event was saved, `"ahead"` when
something lets the engine fire before the end date, `"behind"` when something lets
it fire after. The properties hold *unless* one of these happened, and each mishap
is a line of the code: a failed call; an answer dated on another day than it was
given; an answer after the pause ran out; a pause of an overdue or closed term; an
extension of a paused or closed one; the repair step on a paused term; and an
extension that the engine refuses when one of these went before.

The engine's `extend()` is bounded (`Refuses`): the timer is armed with `extensionMax`, and once it has had that many
standard extensions it throws, which `TermijnTimerService` logs while the term is extended all the same. An extension
whose save failed uses one up that the term does not count, so that the domain permits the next and
the engine refuses it. Without such a fault the domain's own maximum, no greater, is reached first, and `ClocksAgree`
and its proof say so: a refusal is a mishap only when one came before. Whether an override by a supervisor counts
in the engine is not visible from this repository; it is the constant `OverridesCount`, TRUE in the runs and
either in the proofs.

### Dwangsom

One term that was not met, seen from the penalty. `term` is its status and whether it knows a notice, `calcs` and `payouts` are the rows; a request is a record of the
operation it does, how far it is and what it has read. The steps are the store calls:
`RegisterNotice`, `ReadTerm`, `LinkNotice` and `StartCalculation` are
`NoticeOfDefaultService::registerNoticeOfDefault()`, where the term is linked by
`updateTermijnInstance()`: read, merge, save the whole row. Whoever else patches the term does the same
(`PatchTerm`, `ReadTerm`, `SaveTerm`: a reminder noted as sent, a completion, the breach) and may write back
a row from before the link, as the link may undo such a patch; `StopForBeschikking`, `SaveSettled`,
`ReadAgain` and `WriteCalculation` are `stopForBeschikking()`, which first settles
the days nobody accrued; `RegisterBezwaar`, `ResolveBezwaar`, `FindPayouts` and
`SavePayout` the objection, whose payouts are written one after the other. `settle`
applies `applyDailyAccrual` as often as days are missing, as the code does, and the
property compares it with `Owed`, the law's formula over the number of days. `mishaps`
names what parts the rows: two notices at once, a link or a calculation
that was not saved, a term written back as it was before the link (`"linkOverwritten"`), a lost update, a settlement that failed or took past midnight,
overlapping objections, a payout not written or prepared meanwhile.

### HumanStep

One run with several steps, each on a branch of its own: `Asks` are
`DossiqAskPersonNode`, `Decisions` are `DossiqRequestDecisionNode`. `row` holds the tasks or
decisions a step made (by number), `slot` the one it waits on, `at` where its branch is,
`signal` what woke the run. `createTask` and `suspension` are the two halves of
`createTask()` and `raise()`: the row is written by the step, its slot stored by the engine
as the step suspends. `CannotCreate` is a store that refused, or a row that came back without an
identifier. `execute`, `Unreadable` and `Refused` are a re-entry: the row decides, and the
step advances, parks again or fails. `ComeBack` is the completeness loop, which asks anew.
Outside, `complete`, `withdraw` and `delete` change rows, and `handle` is
`TaskCompletionResumeListener` or `DecisionConcludedListener`, some time later or
(`SignalLost`) never.

The engine is OpenRegister's, so `Wake`, `EndPass` and the guard in `Deliverable` are taken from how
this code uses and documents it: a pass enters every parked step, one
after the other, with the same `context.signal`, which is taken away at its end; a slot is kept from
its suspension on; a run that is busy, or waits on an assignee, refuses a signal of others; and
the heartbeat wakes it without one. A crash loses what the step it hits has not
stored; `orphans` remembers the rows left behind. `answer` is what the step put on the
items: the row it was read from, and by whom the signal says it was given.

### WorkflowRules and WorkflowGraph

`WorkflowRules` says what `validateWorkflowGraph()` is to find without saying how: a
status is reachable if every set that holds the starts and is closed under the
transitions holds it. `WorkflowGraph` is the function itself: one pass (`Scan`),
two breadth-first searches (`Visit`, `VisitBack`) and the coloured depth-first
search (`Root`, `Look`, `Leave`), in whatever order the lists of nodes and
transitions have. `white` and `stack` are the colours WHITE and GRAY.

### WorkflowVersions and WorkflowEditor

`rows` are the workflowTemplate objects of one case type, `pin` is
`caseType.workflowDefinition`. Publishing is `list`, `readPrev`, `writePrev`, `readTarget`,
`writeTarget`, `decide` and `pin`, the store calls of
`WorkflowDefinitionService::publish()` in order; deprecating and setting the
default use some of them. Any number of requests interleave, and `CutShort`
ends one anywhere. A read that fails does not end a request: the repository logs it and answers with nothing. A
publish that could not list the versions finds no predecessor and leaves it active (`ListActive`, `"unlisted"`),
and one that could not read the default takes it (`Decide`, `"misread"`). `CaseTypeSaved` is the form of the
case type, which saves the row as it was loaded and so may put an old pin back (`"repinned"` when that version is
deprecated). Each of the properties names which of these it exempts. `EditorSaves` is the save of a client that holds the whole row and so may
put a published one back to draft.

`WorkflowEditor` adds one tab to it. Three kinds of answers change what the tab
shows: of the statuses (`LoadData`), of a template (`Loaded`) and of a save or publish
(`Saved`, `Answered`); each arrives when it likes, and the user goes on meanwhile. What others do with
the backend is `Others`. `slips` is the history of what undermines the tab's view, and each
property names those that break it: another version selected between validation and
publish (`crossed`), a canvas without its statuses (`blind`), a save or load that
failed and is called clean all the same, two saves on their way, an edit
during one, an answer that was lost, a rival. The tab adds nothing to the backend's
behaviour: `TabIsAClient` says so, and TLC checks the backend's properties with it.

## Runs

| Run | Instance | Shows |
|---|---|---|
| `StatusTransition` | 2 requests, each for a case or a list (of two cases, or of three entries, which is over the limit); 2 users, 3 statuses, 3 transitions with a loop, both guards, a group and a set_status action; edits up to version 1 | every interleaving of requests, edits, exceptions and crashes is a behaviour of `CaseLifecycle`; moves chain; records and reports are true, of lists too, and refused lists touch nothing |
| `StatusNotAtomic` | 1 case, 1 request | *violation*: an `execute()` that leaves a status with no statusRecord (store exception or crash after the save); no user is an administrator, so there are no free-form moves |
| `StufOutbound` | 1 message, 2 workers, 2 retries, threshold 2, 1 fault | waiting rows are scheduled or known lost; rows settle; retries bounded |
| `StufRetryOnly` | as above | *violation*: a retry of a message that is already confirmed or given up |
| `CasePlan` | 6 items in 3 levels, optional task, milestone, entry and exit criteria, 2 overlapping requests | saved plans are settled (but for a signal whose items could not be read) and consistent, offers exact, plans only move forward |
| `CasePlanOrphans` | as above, 1 worker | *violation*: an active task below a terminated stage, hidden behind a completed one |
| `Termijn` | term of 2 days, pauses of 2, 1 extension in the domain and in the engine, calendar of 5 days (0 to 5), 1 handler with faults | events balance; clocks agree but for mishaps; never exceeded early; overdue is marked |
| `TermijnPauseExpiry` | calendar of 6 days, no faults | *violation*: the helper of an answered pause reports a later pause as expired |
| `Dwangsom` | 2 calculations, 1 payout, 2 requests, of notices, of the penalty or patches of the term; days 0, 1, 30 and 60; one mishap | one penalty per term, amounts as the law says, decisions count the days, payouts follow |
| `HumanStep` | a task asked for twice, a decision beside it, 2 people of whom one is asked, 1 fault | nobody is asked twice, answers are true, and what was answered moves the run on |
| `WorkflowGraph` | every graph of up to 3 statuses, those of 4 with up to 4 transitions, and small ones with dangling and repeated transitions | the validation ends, and its verdict is the rules' |
| `WorkflowEditor` | backend: 3 versions, 2 routes, 2 requests, reads and writes that fail, the form of the case type, one mishap; with a tab: 2 versions of one route, 2 statuses, its publish request, one slip followed | one active version per route, routes served, default kept, cases not stranded; the tab publishes what is valid, saves drafts only, calls clean what is stored |

The four violating claims are quoted from docs and comments, and the findings in
`PROJECT.json` tell which.

**Why the bounds are enough.** The claims on status transitions are about one
case, or about what one request does to several; two requests are enough for every
race between a check and a save, since the version of a case is all a third could
change, and editors are in the model to change that too. With `EditBound = 1` a case
is edited before a request loads it, between any two of its calls, or not at all; later changes
are the other request's. The constraint `Quiet` keeps the second case for lists: nobody edits it,
and beside a request with a list of two there are only requests that execute transitions, for a user who may
execute them all; users who may not are turned away in the behaviours with single requests. Requests are alike (`Alike`). In StUF, two workers let two runs of
the same retry job overlap, two retries distinguish "again" from "given up", and a
threshold of two distinguishes counting from opening. The case model has every kind
of item, each relation of a child to a stage and three levels, because the known
rules speak of parent, child and descendant. Five days hold a term, a pause, an
answer before, on and after its due day, and an extension; with one extension in domain and engine and
one fault, an extension is lost by the term, and the next refused by the engine; two pauses that overlap
with one helper need six.

In Dwangsom a notice is received on day 1, so the calculation starts on day 15;
day 30 is in the second tariff and day 60 past the plafond, and a settlement that
covers two or all three tariffs in one go is what a missed cron run makes. The
state constraint follows behaviours with one kind of mishap; after one, and once there are
two calculations, only one request runs at a time; and a term that has a calculation
is not completed any more, since nobody but a new notice reads its status. Those who patch the term overlap with
notices and with each other, the only ones who read or write it, and not once there is a payout; handlers of a
calculation run while the term is exceeded. Otherwise two requests overlap in every way before that. Two notices and a
third who patches the term at the same time are left to the theorem `OneDwangsomPerTerm`.

In HumanStep a task that is asked for twice has an earlier row, whose signal may come
late, when the step has gone on, waits on the second row or is about to make it; the decision beside
it is the other step that is handed the same signal; and a person who was not asked
may complete the task, so that the signal is refused. One fault is a crash, a failed creation,
a refused read or a deletion.

In WorkflowEditor the constraint makes two worlds of one specification. Before a tab
is opened, statuses and graphs stand still and two backend requests on two routes
interleave, with three versions: one active, one to publish on its route and one on
the other route. With a tab, others act only in whole steps (seed, edit, start a
case); the tab's own publish still runs call by call. A slip other than `blind`,
`loadFailed` and `answerLost` (`Followed`) ends the behaviour in the step it happens,
where the properties still are checked: after it they promise nothing. In WorkflowGraph, three
statuses hold every shape of a cycle with and without an exit, and four a
cycle entered from a start and left by a path of two.

**Deadlock.** A system that serves requests may be idle for good: requests are
served once, calendars end, a validation returns, row ids run out, a run is done or failed, so the StUF, Termijn,
Dwangsom, HumanStep, WorkflowGraph and WorkflowEditor configs turn deadlock checking off. Status transitions and case plans always have a next step (an edit
of a checklist, a load of the plan), and there it is on.

**Fairness.** Status transitions, case plans, the dwangsom and the workflow
versions assume none; their properties are about safety. The validation is one
JavaScript function, which runs to its end before anything else does (`WF` on `Next`). In StUF a worker that has begun goes on (`WF` on `Work`), time passes
for back-off and cool-down (`WF`), and cron, which runs the job it last looked at
longest ago, gets round to each (`SF` on `retrySend` per job: a job may be blocked by a busy
worker now and then, never always). Faults and new messages are not fair. In
Termijn the sweep is a cron job (`WF` on `Sweep`) and days go by; no user has to do
anything. In HumanStep heartbeats come (`WF` on `Wake`: the suspension names a time to resume), a pass
goes on (`WF` on `Visit` per step, and on `EndPass`), and a row can be read now and then (`SF` on `execute`: a
store or Decidiq that is never reachable again keeps the run waiting). Nobody has to answer, no
signal has to arrive. A decision of a run without an acting identity cannot be read, so
`AnswerArrives` does not claim it for those.

## Proofs

`StatusTransitionProofs` proves for every number of cases, requests, users,
statuses and transitions:

- `TypeCorrect`: `Spec => []TypeOK`.
- `ImplementsLifecycle`: the engine implements `CaseLifecycle` when the store checks
  versions.
- `CasesMoveInChains`: `Spec => []MovesChain`, under the same assumption.

The inductive invariant is `TypeInv /\ SnapshotInv`. Typing is not
inductive as it stands: `saveCase` writes the target of a transition, so
`CheckedInv` adds that a request past its check names a transition (or status) of
its case's workflow. `SnapshotInv` is the heart of the argument: the snapshot of a
request is either *older* than the stored case, and then its version is smaller, or
*equal* to it; and a request past the guards holds a snapshot that satisfies the
guard on the field. What a side effect has read before its save is a snapshot like any other. Therefore, when a version-checking store accepts a save, the
snapshot is the stored case: from-status and field guard hold at that instant, and
nothing of an editor's is undone. With `StoreChecksVersion = FALSE` the last step
fails, and so does the property.

The second half of the module proves two more, with or without version checks:

- `TrailIsTrue`: `Spec => []RecordsTellTheTruth`. A request that has moved a case and not
  yet recorded it owes one record, and `Covered` says that for every case, from, to and
  kind the records there are and the records owed are no more than the moves made. A save adds a
  move and a debt, a record pays the debt, a crash or an exception forgives it; what a crash
  forgives is a move without a record, which is all that can go wrong.
- `ResultsAreTrue`: `Spec => []ReportsAreFaithful`, for lists that name no case twice
  (`ListsAreSets`). What a request has left is new to it (`LeftIsNew`): unreported, and without a record
  but for the current case once that is recorded. A repeated case would
  overwrite its own result, which is why the hypothesis is needed.

`StufOutboundProofs` proves `TypeCorrect` and `WaitingKept` for any number of messages, workers
and retries. The retries list is bounded although two workers may append to the
list they both read, because each writes its own copy plus one, and only when that is within
`RETRY_BACKOFF_SECONDS`. `WaitingIsScheduled` is inductive with the types: a job never leaves
the list (`JobsStay`), and a worker that has recorded a retry owes it until it has
scheduled it or a fault has noted it as lost (`DebtIsPaid`); a row that another worker rewrites
meanwhile is owed by that worker (`RewrittenIsOwed`).

`TermijnProofs` proves, for terms, pauses and calendars of any length:

- `EventsAccountForEnd`: `Spec => []LedgerBalances`. The invariant `Ledger` adds the types of the
  fields the sum is made of, and that before a term is created it has no events and
  no timers. Handlers that move the end share one lemma, `Booked`: whichever of save and
  event fails, either the pair is equal afterwards or the step is noted as
  `"unwritten"`. Handlers that close a term share `CloseBooks`, and there a lost event
  costs nothing, for its impact is 0.
- `ClocksKeepTogether`: `Spec => []ClocksAgree`.
  The engine refuses nothing that the domain permits until something is noted (`NothingRefused`), because it has
  counted no more extensions than the term (`Counts`); and
- `MarkedInTime`: `Spec => NeverExceededEarly`. That no rung fires early is not
  inductive, for a timer may be held, and its date is then unknown. `FiresLate` says what is
  kept: the timer of a running term is not due before its end, and a held one would, *if it
  were let go today*, fire no earlier than the end the term would have *if the
  answer came today*. Days that pass move both sides by the same amount until the pause has run
  out, and from then on only the timer.
- `TypeCorrect`: `Spec => []TypeOK`. Dates have to stay within a calendar as long as extensions
  can push them, and a pause that ends early pulls the end date back. The invariant `Bounded` says from
  where: the days a pause can take back it has put there before (`Coherent`), and a timer stays within
  the term without its pause, the days gone by, and one calendar for every handler that lost a part (`Fits`).

`DwangsomProofs` proves for any number of notices, calculations and payouts and calendars of any length:

- `OneDwangsomPerTerm`: `Spec => []OneDwangsom`. The term learns of a notice before its calculation is
  created, so as long as notices came one by one, the link was saved and nobody wrote the term back as it was before,
  there is one notice being handled at most, the term is unlinked while it is being linked, no
  calculation exists while one is being created, and whoever is about to write back that the term is linked
  (`Carries`) tells it no news (`One`).
- `TypeCorrect` and `AmountsAreOwed` (`[]AmountIsOwed`), from the invariant `Types`. What `settle` adds a
  day at a time is the law's closed formula: by induction over days, where each band's end and
  the maximum are a case of their own. A copy of a row that a request holds obeys the same, so a lost
  update replaces one true amount by another.
- `DecisionsReflectDays` (`[]DecisionReflectsDays`): until something is noted, what still runs when a
  decision reads it again counts the days up to today, as does what it is about to stop, and what was
  stopped counts the days up to its decision and runs no more (`UpToDate`).
- `PayoutsFollowCalculations` (`[]PayoutsFollow`): until something is noted, one request at a time objects to
  a calculation, which stays as it left it or was stopped (`Backed`), and a payout is as its calculation
  demands (`Follows`) or is still to be written by such a request (`Pending`).

`CasePlanProofs` proves for every case model, however deep its tree and whatever its sentries, and any
number of requests:

- `TypeCorrect`, `[]TypeOK`: in particular an exception is never saved as a plan.
- `PlansMoveForward`, `Spec => MovesForward`, when the store checks versions. A request that may save holds
  the stored plan (`Current`), and whatever it makes of it is further on (`Forward`).
- `TreesStayConsistent`, `[]TreeConsistent`, with or without version checks, when what contains an item is a
  stage (`StagesContain`; the register's schema says so of `parentId`, the loader only that the parent
  exists). The heart is one transition: an item under the stage that makes it (`ChildFits`), the item under its own
  parent (`ItemFits`), and two items that are merely swept along (`OthersFit`).
- `PlansSettle`, `[]Settled` (of plans that are not `unheard`), when three times the number of items is less than `MAX_CASCADE_DEPTH`
  (`Roomy`: with 50 passes, up to 16 items). A pass that changes a plan moves an item on, of which there are
  three steps an item (`Climbed`), so the passes end of themselves; and what is at rest while an event
  is on is at rest without one (`QuietPass`). The theorem also says what the bound is not for: `PlanItemCascade.php:18` has it
  stop a model whose sentries refer to one another "looping forever", but no model loops; in a
  larger one the bound can only cut a cascade short that would have ended.
- `OffersStayExact`, `[]OffersAreExact`, from the two before and `OptionalWork`: no optional item is
  a milestone. With one, the completion of its stage throws (a milestone may not be disabled), and with it the
  request that enables another item. In a plan where no milestone is enabled no visit throws (`DueIsLegal`).

All five come from one fact: a set of plans that no transition, no start and no change of the case file leaves
(`Closed`) is left by no visit, so by no pass, by no run and by no request. The inductions over
items and passes are over sets of numbers (`AllNumbers`, from well-foundedness), since the
library's induction theorem cannot be instantiated here.

`HumanStepProofs` proves `TypeCorrect`, `NobodyAskedTwice` (`[]AskedOnce`) and `OnlyTrueAnswers`
(`[]AnswersAreTrue`) for any number of steps, rounds and faults, whatever signals arrive. A
step makes a row only while its slot is empty, so a slot that is not empty names the last row
(`LastIsPending`), and every answer taken before was to a row before that one (`AnswersPast`). A row is
therefore waited on, about to be, answered or an orphan (`RowsAccounted`); and since at most
one step is between its row and its slot (`OneMade`), a crash orphans one row at most
(`OrphansCounted`). Who a signal names has completed a task by then and stays its completer (`NamesSane`).

`WorkflowGraphProofs` proves for every finite or infinite graph (of `Graphs`):

- `TypeCorrect`, and `UnreachableReported`: the forward search is exact. It keeps `reached` within
  every closed set that holds the starts, and what it reached is closed but for what
  waits; so when nothing waits, it is the least one.
- `CyclesAreDead`: a reported cycle is one, and none of its statuses reaches a final one. The
  path is a walk without repetition (`PathInv`), so a back edge closes a cycle.
- `VerdictCorrect`: an issue is found if and only if the rules are broken. The hard
  half is that no dead cycle is missed: as long as none is reported, the dead nodes left behind lie on
  no cycle and lead only to nodes left behind, and a dead node of the path has looked
  at nothing else but its successor on the path (`AcyclicInv`). When all are left behind, there is no
  dead cycle.

`WorkflowEditorProofs` first proves of the versions, for any number of versions, routes and requests, `TypeCorrect`,
`OneActive` (`[]OneActivePerRoute`), `Served` (`[]RouteServed`) and `DefaultKept` (`KeepsDefaultRoute`). The
invariant: rows keep their route (`Placed`); two requests on a route have been noted as
an overlap (`Alone`); therefore what a publish listed, if it could list anything, is all that is active there, before its first write
the predecessor, before its second nothing else (`Cleared`); a route is without a version
only between these two writes (`Bridged`); and a publish about to pin has seen no default of another
route, unless it was set after that or could not be read (`Entitled`). Two more need the pin and the cases:

- `DefaultTaken`, `[]DefaultRouteIsTaken`: what is about to be made the default is published (`Ready`) and
  stays so, or nothing of its route is active, or its successor there is about to be pinned
  (`Committed`), or something was noted for the route, such as an old pin written back (`PinHolds`).
- `NeverStranded`, `[]NotStranded`: unless something is noted, deprecations come one at a time (`Lone`), and
  one that goes on leaves a version to the cases there are, or a publish is about to put one back
  (`Backed`, `Spared`).

Then it proves that the tab is a client: `TabIsAClient`, `EditorSpec => Spec` of
`WorkflowVersions` (the refinement mapping is the identity on the backend's variables), needs
that a publish request of the tab is for the version it posted, which is the invariant `TabInv`. With it
`OneActiveDespiteTabs` carries the backend's theorem over. `CleanIsStored`
(`[]CleanCopyIsStored`), `SavesDrafts` (`SavesOnlyDrafts`) and `PublishesValid` (`PublishesOnlyValid`) need what the
tab knows, `TabView`: while it publishes nothing else of its own is under way (`Quiet`), its request writes the row it
has read (`Fresh`), its copy is the stored one (`Stored`), of a version it takes for a draft only when it
is one (`InDraft`), and passed the validation (`Checked`), each until a slip is noted.

The theorems rest on the named assumptions of the modules' constants and on the hypotheses they
state: that the store refuses stale versions (two theorems on status transitions, one on
case plans), that lists name no case twice (`ListsAreSets`), and what `CasePlanProofs` asks of a case model
(`StagesContain`, `OptionalWork`, `Roomy`), all of which the instances of the runs meet.

Every invariant and every safety property of the steps that a run checks is thereby a theorem. Only model-checked is
liveness (`RetriesSettle`, `OverdueIsMarkedUnlessMishap`, `Terminates`, `AnswerArrives`), which
the prover does not reach.

## What the checks found

Four claims of the documentation are refuted by runs, and the findings in `PROJECT.json` quote them: a status
changes "atomically" with its record; a retry job sends only what failed; a
terminated stage leaves nothing active below it; a pause-expired event is of the pause that is
on. Other differences between text and code met while modelling, where the models follow the code:

- The result of a case plan can depend on the order of its items: a pass reads the
  snapshot, but `PlanItemCascade.php:110` ("independent of item iteration order") does not hold for a
  stage that completes and a milestone below it that the same event achieves.
- A term extended while it is paused is never marked exceeded: the timer is suspended and
  then re-armed without it (`openspec/specs/termijn-escalation/spec.md:12` has every overdue term marked).
- When the statuses of a case type could not be loaded, the canvas is empty, the validation has nothing to
  object to, and publish is sent (`openspec/specs/visual-workflow-editor/spec.md`, "Publish blocked on
  invalid definition"). The slip `blind`.
- "Edit", import and create in the tab make a draft without a variant, which is then of the
  standard route, whatever route its source is of; `WorkflowDefinitionService.php:398` explains why a clone
  must not do that.
- `stopForBeschikking()` looks at no status: a decision after an objection was resolved replaces the
  corrected amount.
- `openspec/specs/dwangsom-calculation/spec.md:42` has a decision complete the term and prepare a payment; the code leaves both
  to other calls.
- The run's one signal is handed to every step of a pass, and `answerFor()` and `outcomeFor()` merge it
  into whatever they read from their row. An answer whose own signal was refused can so carry the name of
  another step's completer, and count as not recovered
  (`openspec/changes/askperson-recovers-a-missed-answer` wants to know which it was;
  `DossiqAskPersonNode.php:68` says the race for the one slot is gone, and of the answer itself it is). `AnswersAreTrue`
  therefore claims of the name only that it completed *some* task of the run.
- `DossiqRequestDecisionNode.php:298` has a run without an acting identity wait for its announcement; the
  code suspends on every re-entry of such a run, announced or not.
- One of the specification documents (`openspec/specs/termijn-pause-extension`) has an example that adds
  the days a pause left unused to the end date; code, tests and the later document take them back, and so
  does the model.

## What the models leave out

- Wording, mapping of fields, envelopes, log lines, the exact guard registry, and
  templates beyond their set of transitions; `replay()` is the log itself.
- The bulk list with a repeated case; a case model republished under a running
  case; the 14-, 7- and 2-day notices of a term; two handlers of one term that
  overlap, for the term's clocks (for its penalty, they do in `Dwangsom`).
- Dwangsom: the deviating regime of a term definition, the rows of the notices, the events on the term,
  IBAN checks and payment references.
- Human steps: what else a concluded decision writes on the case, the configuration of the steps, steps that
  do one thing and go on.
- Workflow versions: `isDraft`, `isActive` and `lifecycleStatus` are one field, as they change
  together; version numbers (which of several active versions comes first is left open); a
  failing read of the statuses, after which the check for foreign ones passes; a case that is started while a read
  fails (the properties speak of what the rows answer); the checks of the workflow's
  configuration.
- The tab: the list of versions, steps and node positions, undo, export and deleting
  a template; guards as the browser evaluates them.

## Not modelled

Everything listed as `not_modelled` in `PROJECT.json`, with its reason: parts that translate,
render or validate single requests, and parts that are objects with a status field moved by the
engines above. The translation tables in `src/l10n` make up most of the
lines of JavaScript in the repository; they are data, and there is nothing in them to
model. Most of the logic is in PHP, under `lib/`.

## Plan

Done, in the order of the first plan: status transitions, StUF, case plan, terms, dwangsom, workflow versions,
to which the editor and its validation were added, and the human steps. What is left, most important first:

1. A finer `Termijn` whose handlers read and write in two steps: two extension
   requests that both pass the limit, a rung that overwrites a completion.
2. An abstract specification of a human step (asked once, answered once, resumed once) that
   `HumanStep` implements but for its orphans.
3. Tenant quotas: consume and reset, read-compare-write.
