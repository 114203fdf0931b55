--------------------------- MODULE StatusTransition ---------------------------
(***************************************************************************)
(* The status-transition engine as PHP requests run it: every request is   *)
(* a process of its own, and each read or write of an OpenRegister object  *)
(* is one atomic step between which other requests, and people editing the *)
(* case, interleave.  A request executes one transition on one case, or on *)
(* a list of cases (bulk), or makes an administrator's free-form move.     *)
(*                                                                         *)
(* OpenRegister is outside this repository.  The engine sends the version  *)
(* it read along with the case "so the store can detect a concurrent       *)
(* modification"; StoreChecksVersion says whether the store does.          *)
(***************************************************************************)
EXTENDS CaseWorkflow, Naturals, Sequences, FiniteSets

CONSTANTS
  OtherStatuses,      \* statusTypes that belong to other case types
  NeedsChecklist,     \* transitions with a checklist guard
  Requests,           \* the HTTP requests; each one is served at most once
  CaseLists,          \* the caseIds lists a bulk request may carry
  MaxCaseIds,         \* MAX_CASE_IDS
  StoreChecksVersion, \* whether saveObject refuses a stale @self.version
  EditBound           \* people stop editing a case at this version

ASSUME StatusTransitionAssumption ==
  /\ CaseLists \subseteq Seq(Cases)
  /\ MaxCaseIds \in Nat
  /\ StoreChecksVersion \in BOOLEAN
  /\ EditBound \in Nat

VARIABLES
  stored,     \* the case objects: status, guarded field, @self.version
  checklist,  \* per case, whether its tasks' checklist items are all ticked
  log,        \* the statusRecord objects, in the order they were created
  pc,         \* where each request is
  call,       \* what each request asked for
  todo,       \* the caseIds a request has left, the current one first
  snap,       \* the case as the request last read it
  rec,        \* index in log of the record the request wrote
  outcome,    \* what the request reports for each case
  dispatched, \* what its side effects returned
  written     \* history: moves of each case so far (see CaseLifecycle)

reqVars == <<pc, call, todo, snap, rec, outcome, dispatched>>
vars == <<stored, checklist, log, written, reqVars>>

CaseObject == [status : Statuses, field : BOOLEAN, version : Nat]
Call == [kind : {"execute"}, user : Users, transition : Transitions]
          \cup [kind : {"free"}, user : Users, to : Statuses \cup OtherStatuses]
Outcome == {"none", "succeeded", "failed", "error"}
Terminal == {"rejected", "done", "crashed"}
Stage == {"idle", "load", "evaluate", "recheck", "save", "record", "dispatch",
          "effectSave", "persist", "freeCheck", "freeSave", "freeRecord"} \cup Terminal

Init ==
  /\ stored = [c \in Cases |-> [status |-> InitialStatus, field |-> FALSE, version |-> 0]]
  /\ checklist = [c \in Cases |-> FALSE]
  /\ log = <<>>
  /\ written = [c \in Cases |-> <<>>]
  /\ pc = [r \in Requests |-> "idle"]
  /\ call \in [Requests -> Call]
  /\ todo = [r \in Requests |-> <<>>]
  /\ snap = [r \in Requests |-> [status |-> InitialStatus, field |-> FALSE, version |-> 0]]
  /\ rec = [r \in Requests |-> 0]
  /\ outcome = [r \in Requests |-> [c \in Cases |-> "none"]]
  /\ dispatched = [r \in Requests |-> "none"]
------------------------------------------------------------------------------
(* Requests arriving.  A bulk call validates its list before anything else. *)

validateRequest(list) == list # <<>> /\ Len(list) <= MaxCaseIds

SubmitExecute(r, list) ==
  /\ pc[r] = "idle"
  /\ call[r].kind = "execute"
  /\ IF validateRequest(list)
       THEN pc' = [pc EXCEPT ![r] = "load"] /\ todo' = [todo EXCEPT ![r] = list]
       ELSE pc' = [pc EXCEPT ![r] = "rejected"] /\ UNCHANGED todo
  /\ UNCHANGED <<stored, checklist, log, written, call, snap, rec, outcome, dispatched>>

(* executeFreeForm refuses a caller outside the admin groups first. *)
SubmitFree(r, c) ==
  /\ pc[r] = "idle"
  /\ call[r].kind = "free"
  /\ IF call[r].user \in Admins
       THEN pc' = [pc EXCEPT ![r] = "load"] /\ todo' = [todo EXCEPT ![r] = <<c>>]
       ELSE pc' = [pc EXCEPT ![r] = "rejected"] /\ UNCHANGED todo
  /\ UNCHANGED <<stored, checklist, log, written, call, snap, rec, outcome, dispatched>>

Current(r) == Head(todo[r])

(* Slips in Report: a list that never ends, one result for all the cases.  *)
ReportNeverDone(r, result) ==
  /\ outcome' = [outcome EXCEPT ![r][Current(r)] = result]
  /\ todo' = [todo EXCEPT ![r] = Tail(@)]
  /\ pc' = [pc EXCEPT ![r] = "load"]

ReportForAll(r, result) ==
  /\ outcome' = [outcome EXCEPT ![r] = [c \in Cases |-> result]]
  /\ todo' = [todo EXCEPT ![r] = Tail(@)]
  /\ pc' = [pc EXCEPT ![r] = IF Tail(todo[r]) = <<>> THEN "done" ELSE "load"]

(* The result of the current case is recorded and a bulk call goes on. *)
Report(r, result) ==
  /\ outcome' = [outcome EXCEPT ![r][Current(r)] = result]
  /\ todo' = [todo EXCEPT ![r] = Tail(@)]
  /\ pc' = [pc EXCEPT ![r] = IF Tail(todo[r]) = <<>> THEN "done" ELSE "load"]

Goto(r, stage) == pc' = [pc EXCEPT ![r] = stage] /\ UNCHANGED <<todo, outcome>>

loadCase(r) ==
  /\ pc[r] = "load"
  /\ snap' = [snap EXCEPT ![r] = stored[Current(r)]]
  /\ Goto(r, IF call[r].kind = "free" THEN "freeCheck" ELSE "evaluate")
  /\ UNCHANGED <<stored, checklist, log, written, call, rec, dispatched>>
------------------------------------------------------------------------------
(* execute(): the checks, on the case as it was read. *)

FromMatches(t, s) == From[t] \in {AnyStatus, s}

(* requiredField reads the case, checklist reads the case's task objects. *)
GuardsPass(t, case, ticked) ==
  /\ t \in NeedsField => case.field
  /\ t \in NeedsChecklist => ticked

assertTransitionAllowed(r) ==
  /\ pc[r] = "evaluate"
  /\ LET c == Current(r)
         t == call[r].transition
         admissible == /\ t \in Template[c]
                       /\ FromMatches(t, snap[r].status)
                       /\ GroupAuthorized(t, call[r].user)
     IN CASE ~admissible -> Report(r, "error")
          [] admissible /\ ~GuardsPass(t, snap[r], checklist[c]) -> Report(r, "failed")
          [] OTHER -> Goto(r, "recheck")
  /\ UNCHANGED <<stored, checklist, log, written, call, snap, rec, dispatched>>

(* The re-load: a conflict unless version and status are as first read. *)
assertNoConcurrentChange(r) ==
  /\ pc[r] = "recheck"
  /\ LET now == stored[Current(r)]
     IN IF now.version = snap[r].version /\ now.status = snap[r].status
          THEN snap' = [snap EXCEPT ![r] = now] /\ Goto(r, "save")
          ELSE Report(r, "error") /\ UNCHANGED snap
  /\ UNCHANGED <<stored, checklist, log, written, call, rec, dispatched>>

(* A slip: @self.version is left out of the object that is saved.          *)
AcceptsStale(c, version) == stored[c].version >= version

(* saveObject of a whole case: the store may refuse a stale version, and   *)
(* every write of a case raises its version.                               *)
Accepts(c, version) == StoreChecksVersion => stored[c].version = version

Put(c, case) ==
  stored' = [stored EXCEPT ![c] = [case EXCEPT !.version = stored[c].version + 1]]

Wrote(c, kind, user, from, to) ==
  written' = [written EXCEPT ![c] = Append(@, MoveEntry(kind, user, from, to))]

saveCase(r) ==
  /\ pc[r] = "save"
  /\ LET c == Current(r)
         t == call[r].transition
     IN IF Accepts(c, snap[r].version)
          THEN /\ Put(c, [snap[r] EXCEPT !.status = To[t]])
               /\ Wrote(c, "transition", call[r].user, snap[r].status, To[t])
               /\ Goto(r, "record")
          ELSE /\ Report(r, "error")
               /\ UNCHANGED <<stored, written>>
  /\ UNCHANGED <<checklist, log, call, snap, rec, dispatched>>
------------------------------------------------------------------------------
(* execute(): what follows the save. *)

(* A slip: fromStatus is read after the new status was assigned.           *)
RecordAfterAssignment(r, kind, to) ==
  [case |-> Current(r), by |-> r, kind |-> kind, from |-> to, to |-> to,
   dispatched |-> "none"]

StatusRecord(r, kind, to) ==
  [case |-> Current(r), by |-> r, kind |-> kind, from |-> snap[r].status, to |-> to,
   dispatched |-> "none"]

writeStatusRecord(r) ==
  /\ pc[r] = "record"
  /\ log' = Append(log, StatusRecord(r, "transition", To[call[r].transition]))
  /\ rec' = [rec EXCEPT ![r] = Len(log) + 1]
  /\ Goto(r, "dispatch")
  /\ UNCHANGED <<stored, checklist, written, call, snap, dispatched>>

(* A setStatus action writes case.status alone, and no record; a failing   *)
(* action is a result row, never an exception.  Here the installed store   *)
(* can patch an object: it reads, merges and saves under one roof.         *)
dispatch(r) ==
  /\ pc[r] = "dispatch"
  /\ LET c == Current(r)
         s == Effect[call[r].transition]
     IN \/ /\ s # NoEffect
           /\ Put(c, [stored[c] EXCEPT !.status = s])
           /\ Wrote(c, "effect", call[r].user, stored[c].status, s)
           /\ dispatched' = [dispatched EXCEPT ![r] = "ok"]
        \/ /\ s # NoEffect
           /\ dispatched' = [dispatched EXCEPT ![r] = "failed"]
           /\ UNCHANGED <<stored, written>>
        \/ /\ s = NoEffect
           /\ dispatched' = [dispatched EXCEPT ![r] = "none"]
           /\ UNCHANGED <<stored, written>>
  /\ Goto(r, "persist")
  /\ UNCHANGED <<checklist, log, call, snap, rec>>

(* Where it cannot, CaseFieldWriter reads the stored case and saves that   *)
(* read with its version and the new status: others may write in between.  *)
findStored(r) ==
  /\ pc[r] = "dispatch"
  /\ Effect[call[r].transition] # NoEffect
  /\ snap' = [snap EXCEPT ![r] = stored[Current(r)]]
  /\ Goto(r, "effectSave")
  /\ UNCHANGED <<stored, checklist, log, written, call, rec, dispatched>>

(* A slip: the fields of the fresh read are saved without its version.     *)
SaveWithoutVersion(r) ==
  /\ pc[r] = "effectSave"
  /\ LET c == Current(r)
         s == Effect[call[r].transition]
     IN /\ Put(c, [snap[r] EXCEPT !.status = s])
        /\ Wrote(c, "effect", call[r].user, snap[r].status, s)
  /\ dispatched' = [dispatched EXCEPT ![r] = "ok"]
  /\ Goto(r, "persist")
  /\ UNCHANGED <<checklist, log, call, snap, rec>>

saveStored(r) ==
  /\ pc[r] = "effectSave"
  /\ LET c == Current(r)
         s == Effect[call[r].transition]
     IN \/ /\ Accepts(c, snap[r].version)
           /\ Put(c, [snap[r] EXCEPT !.status = s])
           /\ Wrote(c, "effect", call[r].user, snap[r].status, s)
           /\ dispatched' = [dispatched EXCEPT ![r] = "ok"]
        \/ /\ dispatched' = [dispatched EXCEPT ![r] = "failed"]
           /\ UNCHANGED <<stored, written>>
  /\ Goto(r, "persist")
  /\ UNCHANGED <<checklist, log, call, snap, rec>>

(* The write-back of the action results is best effort. *)
persistDispatchedActions(r) ==
  /\ pc[r] = "persist"
  /\ \/ log' = [log EXCEPT ![rec[r]].dispatched = dispatched[r]]
     \/ UNCHANGED log
  /\ Report(r, "succeeded")
  /\ UNCHANGED <<stored, checklist, written, call, snap, rec, dispatched>>
------------------------------------------------------------------------------
(* executeFreeForm(): no re-load between the read and the save. *)

assertStatusBelongsToCaseType(r) ==
  /\ pc[r] = "freeCheck"
  /\ IF call[r].to \in Statuses THEN Goto(r, "freeSave") ELSE Report(r, "error")
  /\ UNCHANGED <<stored, checklist, log, written, call, snap, rec, dispatched>>

saveFreeForm(r) ==
  /\ pc[r] = "freeSave"
  /\ LET c == Current(r)
     IN IF Accepts(c, snap[r].version)
          THEN /\ Put(c, [snap[r] EXCEPT !.status = call[r].to])
               /\ Wrote(c, "free", call[r].user, snap[r].status, call[r].to)
               /\ Goto(r, "freeRecord")
          ELSE /\ Report(r, "error")
               /\ UNCHANGED <<stored, written>>
  /\ UNCHANGED <<checklist, log, call, snap, rec, dispatched>>

recordFreeForm(r) ==
  /\ pc[r] = "freeRecord"
  /\ log' = Append(log, StatusRecord(r, "free", call[r].to))
  /\ rec' = [rec EXCEPT ![r] = Len(log) + 1]
  /\ Report(r, "succeeded")
  /\ UNCHANGED <<stored, checklist, written, call, snap, dispatched>>
------------------------------------------------------------------------------
(* A store call throws: the request reports an error for the case (and a  *)
(* bulk call goes on).  A request may also die between any two steps.     *)
StoreThrows(r) ==
  /\ pc[r] \in {"load", "recheck", "save", "record", "freeCheck", "freeSave", "freeRecord"}
  /\ Report(r, "error")
  /\ UNCHANGED <<stored, checklist, log, written, call, snap, rec, dispatched>>

Crash(r) ==
  /\ pc[r] \notin {"idle"} \cup Terminal
  /\ Goto(r, "crashed")
  /\ UNCHANGED <<stored, checklist, log, written, call, snap, rec, dispatched>>

(* People edit the case form, and tick or untick checklist items. *)
EditCase(c) ==
  /\ stored[c].version < EditBound
  /\ \E value \in BOOLEAN : Put(c, [stored[c] EXCEPT !.field = value])
  /\ UNCHANGED <<checklist, log, written, reqVars>>

TickChecklist(c) ==
  /\ \E value \in BOOLEAN : checklist' = [checklist EXCEPT ![c] = value]
  /\ UNCHANGED <<stored, log, written, reqVars>>

Serve(r) ==
  \/ \E list \in CaseLists : SubmitExecute(r, list)
  \/ \E c \in Cases : SubmitFree(r, c)
  \/ loadCase(r)
  \/ assertTransitionAllowed(r)
  \/ assertNoConcurrentChange(r)
  \/ saveCase(r)
  \/ writeStatusRecord(r)
  \/ dispatch(r)
  \/ findStored(r)
  \/ saveStored(r)
  \/ persistDispatchedActions(r)
  \/ assertStatusBelongsToCaseType(r)
  \/ saveFreeForm(r)
  \/ recordFreeForm(r)
  \/ StoreThrows(r)
  \/ Crash(r)

Next ==
  \/ \E r \in Requests : Serve(r)
  \/ \E c \in Cases : EditCase(c) \/ TickChecklist(c)

Spec == Init /\ [][Next]_vars
------------------------------------------------------------------------------
(* Every variable holds a value of its kind, and a request that is being    *)
(* served has a current case.                                               *)
TypeOK ==
  /\ stored \in [Cases -> CaseObject]
  /\ checklist \in [Cases -> BOOLEAN]
  /\ log \in Seq([case : Cases, by : Requests, kind : {"transition", "free"},
                   from : Statuses, to : Statuses,
                   dispatched : {"none", "ok", "failed"}])
  /\ written \in [Cases -> Seq([kind : {"transition", "free", "effect"}, user : Users,
                                from : Statuses, to : Statuses])]
  /\ pc \in [Requests -> Stage]
  /\ call \in [Requests -> Call]
  /\ todo \in [Requests -> Seq(Cases)]
  /\ \A r \in Requests : pc[r] \notin {"idle"} \cup Terminal => todo[r] # <<>>
  /\ snap \in [Requests -> CaseObject]
  /\ rec \in [Requests -> Nat]
  /\ outcome \in [Requests -> [Cases -> Outcome]]
  /\ dispatched \in [Requests -> {"none", "ok", "failed"}]

(* When the store checks versions, the engine behaves as if every move were *)
(* one step: workflow, from-status, case-field guard and authorization hold *)
(* at the instant the status changes, and no request undoes an edit.        *)
(* execute(), executeFreeForm() and the setStatus effect together.          *)
Lifecycle == INSTANCE CaseLifecycle WITH
  status <- [c \in Cases |-> stored[c].status],
  field  <- [c \in Cases |-> stored[c].field],
  moves  <- written
ActsAtomically == Lifecycle!Spec

(* The moves lead from the initial status to s, each from where the last    *)
(* one ended.                                                               *)
Chained(moves, s) ==
  IF moves = <<>>
    THEN s = InitialStatus
    ELSE /\ moves[1].from = InitialStatus
         /\ moves[Len(moves)].to = s
         /\ \A i \in 1 .. Len(moves) - 1 : moves[i + 1].from = moves[i].to

(* The from-status a move was decided on is the status the case had: two    *)
(* requests never both move a case out of the same visit to a status.       *)
(* assertNoConcurrentChange() exists for this.                              *)
MovesChain == \A c \in Cases : Chained(written[c], stored[c].status)

RecordsOf(c, entry) ==
  {i \in DOMAIN log : log[i].case = c /\ log[i].kind = entry.kind
                      /\ log[i].from = entry.from /\ log[i].to = entry.to}
MovesLike(c, entry) ==
  {j \in DOMAIN written[c] : written[c][j].kind = entry.kind
                      /\ written[c][j].from = entry.from /\ written[c][j].to = entry.to}

(* The audit trail never lies: for every from, to and kind, a case has no   *)
(* more statusRecords than status writes.                                   *)
RecordsTellTheTruth ==
  \A i \in DOMAIN log :
    Cardinality(RecordsOf(log[i].case, log[i]))
      <= Cardinality(MovesLike(log[i].case, log[i]))

(* A case reported as succeeded has a statusRecord this request wrote, and  *)
(* a case reported as failed on its guards was not moved by it, however the *)
(* cases of a bulk call interleave with other requests.                     *)
ReportsAreFaithful ==
  \A r \in Requests, c \in Cases :
    LET mine == {i \in DOMAIN log : log[i].case = c /\ log[i].by = r}
    IN /\ outcome[r][c] = "succeeded" => mine # {}
       /\ outcome[r][c] = "failed" => mine = {}

(* Once no request is being served, every status a case had is on record:   *)
(* the header of StatusTransitionService says the status is updated         *)
(* atomically with a statusRecord write.                                    *)
StatusIsRecorded ==
  (\A r \in Requests : pc[r] \in {"idle"} \cup Terminal)
    => \A c \in Cases : LET own == {i \in DOMAIN log : log[i].case = c}
                        IN Cardinality(own) = Len(SelectSeq(written[c], LAMBDA m : m.kind # "effect"))
=============================================================================
