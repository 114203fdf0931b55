------------------------ MODULE StatusTransitionProofs ------------------------
(***************************************************************************)
(* Proofs about StatusTransition for every set of cases, requests, users,  *)
(* statuses and transitions: the type invariant, and, for a store that     *)
(* refuses a stale version, that the engine implements CaseLifecycle and   *)
(* that the moves of a case chain.                                         *)
(*                                                                         *)
(* The argument is the one of optimistic concurrency.  A request that has  *)
(* read the case holds a snapshot that is either out of date, and then its *)
(* version is smaller than the stored one, or equal to the stored case; so *)
(* what was checked on the snapshot holds of the stored case whenever the  *)
(* store accepts the save.                                                 *)
(*                                                                         *)
(* The second half is about what the engine leaves behind, the             *)
(* statusRecords and the results it reports, and holds whether or not the  *)
(* store checks versions: a lost race loses no truth.                      *)
(***************************************************************************)
EXTENDS StatusTransition, SequenceTheorems, FiniteSetTheorems, TLAPS

USE DEF reqVars

(* What the checks a request has passed established.                        *)
CheckedInv ==
  \A r \in Requests :
    /\ pc[r] \in {"evaluate", "recheck", "save", "record", "dispatch", "effectSave", "persist"}
         => call[r].kind = "execute"
    /\ pc[r] \in {"recheck", "save", "record", "dispatch", "effectSave", "persist"}
         => /\ call[r].transition \in Template[Current(r)]
            /\ GroupAuthorized(call[r].transition, call[r].user)
    /\ pc[r] \in {"recheck", "save"}
         => FromMatches(call[r].transition, snap[r].status)
    /\ pc[r] = "effectSave" => Effect[call[r].transition] # NoEffect
    /\ (pc[r] = "load" /\ call[r].kind = "free") => call[r].user \in Admins
    /\ pc[r] \in {"freeCheck", "freeSave", "freeRecord"}
         => call[r].kind = "free" /\ call[r].user \in Admins
    /\ pc[r] \in {"freeSave", "freeRecord"} => call[r].to \in Statuses

-----------------------------------------------------------------------------
(* Typing needs one fact beyond the types: a request past a check holds a   *)
(* call of the kind that check is for, so the two are proved together.  The *)
(* types are split into the objects and the progress of the requests, which *)
(* only Report and Goto change once a request is being served.              *)
Served(r) == pc[r] \notin {"idle"} \cup Terminal

Record == [case : Cases, by : Requests, kind : {"transition", "free"},
           from : Statuses, to : Statuses, dispatched : {"none", "ok", "failed"}]
Entry == [kind : {"transition", "free", "effect"}, user : Users,
          from : Statuses, to : Statuses]

ObjectsOK ==
  /\ stored \in [Cases -> CaseObject]
  /\ checklist \in [Cases -> BOOLEAN]
  /\ log \in Seq(Record)
  /\ written \in [Cases -> Seq(Entry)]
  /\ call \in [Requests -> Call]
  /\ snap \in [Requests -> CaseObject]
  /\ rec \in [Requests -> Nat]
  /\ dispatched \in [Requests -> {"none", "ok", "failed"}]

ProgressOK ==
  /\ pc \in [Requests -> Stage]
  /\ todo \in [Requests -> Seq(Cases)]
  /\ \A r \in Requests : Served(r) => todo[r] # <<>>
  /\ outcome \in [Requests -> [Cases -> Outcome]]

(* The two parts make up the type invariant.                                *)
LEMMA TypeParts == TypeOK <=> ObjectsOK /\ ProgressOK
  BY DEF TypeOK, ObjectsOK, ProgressOK, Record, Entry, Served

(* So after a step: primed, the parts make up the primed invariant.         *)
LEMMA TypePartsNext == TypeOK' <=> ObjectsOK' /\ ProgressOK'
  BY TypeParts, PTL

TypeInv == ObjectsOK /\ ProgressOK /\ CheckedInv

(* A call names a user, and a transition or a status as its kind demands.   *)
LEMMA CallFields ==
  ASSUME NEW x \in Call
  PROVE  /\ x.user \in Users
         /\ x.kind \in {"execute", "free"}
         /\ x.kind = "execute" => x.transition \in Transitions
         /\ x.kind = "free" => x.to \in Statuses \cup OtherStatuses
  BY DEF Call

(* A case object with one of its parts replaced is a case object.           *)
LEMMA CaseUpdated ==
  ASSUME NEW case \in CaseObject
  PROVE  /\ case.status \in Statuses /\ case.field \in BOOLEAN /\ case.version \in Nat
         /\ \A s \in Statuses : [case EXCEPT !.status = s] \in CaseObject
         /\ \A n \in Nat : [case EXCEPT !.version = n] \in CaseObject
         /\ \A value \in BOOLEAN : [case EXCEPT !.field = value] \in CaseObject
  <1> USE DEF CaseObject
  <1>1. case = [status |-> case.status, field |-> case.field, version |-> case.version]
    OBVIOUS
  <1>2. \A s \in Statuses :
          [case EXCEPT !.status = s] = [status |-> s, field |-> case.field, version |-> case.version]
    OBVIOUS
  <1>3. \A n \in Nat :
          [case EXCEPT !.version = n] = [status |-> case.status, field |-> case.field, version |-> n]
    OBVIOUS
  <1>4. \A value \in BOOLEAN :
          [case EXCEPT !.field = value]
            = [status |-> case.status, field |-> value, version |-> case.version]
    OBVIOUS
  <1> QED BY <1>1, <1>2, <1>3, <1>4

(* Writing a case object keeps the register typed.                          *)
LEMMA PutTyped ==
  ASSUME ObjectsOK, NEW c \in Cases, NEW case \in CaseObject, Put(c, case)
  PROVE  stored' \in [Cases -> CaseObject]
  <1>1. stored[c].version + 1 \in Nat
    BY DEF ObjectsOK, CaseObject
  <1>2. [case EXCEPT !.version = stored[c].version + 1] \in CaseObject
    BY <1>1, CaseUpdated
  <1> QED BY <1>2 DEF ObjectsOK, Put

(* So does a move the history of a case.                                    *)
LEMMA WroteTyped ==
  ASSUME ObjectsOK, NEW c \in Cases, NEW kind \in {"transition", "free", "effect"},
         NEW user \in Users, NEW from \in Statuses, NEW to \in Statuses,
         Wrote(c, kind, user, from, to)
  PROVE  written' \in [Cases -> Seq(Entry)]
  <1>1. MoveEntry(kind, user, from, to) \in Entry
    BY DEF MoveEntry, Entry
  <1>2. Append(written[c], MoveEntry(kind, user, from, to)) \in Seq(Entry)
    BY <1>1 DEF ObjectsOK
  <1> QED BY <1>2 DEF ObjectsOK, Wrote

(* The current case of a request that is being served is a case.            *)
LEMMA CurrentCase ==
  ASSUME ProgressOK, NEW r \in Requests, Served(r)
  PROVE  Current(r) \in Cases /\ Tail(todo[r]) \in Seq(Cases)
  BY DEF ProgressOK, Current

(* Report keeps the types and leaves no request served without a case.      *)
LEMMA ReportTyped ==
  ASSUME ProgressOK, NEW r \in Requests, Served(r),
         NEW result \in Outcome, Report(r, result)
  PROVE  ProgressOK'
  <1>1. Current(r) \in Cases /\ Tail(todo[r]) \in Seq(Cases)
    BY CurrentCase
  <1> QED BY <1>1 DEF ProgressOK, Report, Stage, Terminal, Served

(* So does Goto, to a stage in which the request is still being served.     *)
LEMMA GotoTyped ==
  ASSUME ProgressOK, NEW r \in Requests, Served(r), NEW stage \in Stage, Goto(r, stage)
  PROVE  ProgressOK'
  BY DEF ProgressOK, Goto, Served

(* A reported case leaves the request with nothing but its caller to check. *)
LEMMA ReportChecked ==
  ASSUME ProgressOK, CheckedInv, call \in [Requests -> Call],
         NEW r \in Requests, Served(r), NEW result, Report(r, result),
         UNCHANGED <<call, snap>>
  PROVE  CheckedInv'
  <1>1. pc[r] \in Stage \ ({"idle"} \cup Terminal) /\ pc \in [Requests -> Stage]
    BY DEF ProgressOK, Served
  <1>2. call[r].kind = "free" => call[r].user \in Admins
    BY <1>1 DEF CheckedInv, Stage, Terminal
  <1> QED BY <1>1, <1>2 DEF CheckedInv, Report, Current, ProgressOK

-----------------------------------------------------------------------------
(* The initial states are typed, and no check has been passed in them.      *)
LEMMA TypeInit == Init => TypeInv
  <1> SUFFICES ASSUME Init PROVE TypeInv
    OBVIOUS
  <1> USE CaseWorkflowAssumption, StatusTransitionAssumption
  <1>1. ObjectsOK
    BY DEF Init, ObjectsOK, CaseObject
  <1>2. ProgressOK
    BY DEF Init, ProgressOK, Stage, Terminal, Outcome, Served
  <1>3. CheckedInv
    BY DEF Init, CheckedInv
  <1> QED BY <1>1, <1>2, <1>3 DEF TypeInv

(* No step of a request, nor of a person editing a case, breaks a type.     *)
LEMMA TypeStep == TypeInv /\ [Next]_vars => TypeInv'
  <1> SUFFICES ASSUME TypeInv, [Next]_vars PROVE TypeInv'
    OBVIOUS
  <1> USE CaseWorkflowAssumption, StatusTransitionAssumption
  <1>0. ObjectsOK /\ ProgressOK /\ CheckedInv
    BY DEF TypeInv
  <1>1. ASSUME NEW r \in Requests, NEW list \in CaseLists, SubmitExecute(r, list)
        PROVE  TypeInv'
    <2>0. list \in Seq(Cases)
      BY DEF StatusTransitionAssumption
    <2>1. ObjectsOK'
      BY <1>0, <1>1 DEF ObjectsOK, SubmitExecute
    <2>2. ProgressOK'
      <3>1. CASE pc' = [pc EXCEPT ![r] = "load"] /\ todo' = [todo EXCEPT ![r] = list] /\ list # <<>>
        BY <1>0, <1>1, <2>0, <3>1 DEF ProgressOK, SubmitExecute, Stage, Terminal, Served
      <3>2. CASE pc' = [pc EXCEPT ![r] = "rejected"] /\ UNCHANGED todo
        BY <1>0, <1>1, <3>2 DEF ProgressOK, SubmitExecute, Stage, Terminal, Served
      <3> QED BY <1>1, <3>1, <3>2 DEF SubmitExecute, validateRequest
    <2>3. CheckedInv'
      BY <1>0, <1>1 DEF ProgressOK, CheckedInv, SubmitExecute, Current
    <2> QED BY <2>1, <2>2, <2>3 DEF TypeInv
  <1>2. ASSUME NEW r \in Requests, NEW c \in Cases, SubmitFree(r, c)
        PROVE  TypeInv'
    <2>0. <<c>> \in Seq(Cases) /\ <<c>> # <<>>
      OBVIOUS
    <2>1. ObjectsOK'
      BY <1>0, <1>2 DEF ObjectsOK, SubmitFree
    <2>2. ProgressOK'
      BY <1>0, <1>2, <2>0 DEF ProgressOK, SubmitFree, Stage, Terminal, Served
    <2>3. CheckedInv'
      BY <1>0, <1>2 DEF ProgressOK, CheckedInv, SubmitFree, Current
    <2> QED BY <2>1, <2>2, <2>3 DEF TypeInv
  <1>3. ASSUME NEW r \in Requests, loadCase(r)
        PROVE  TypeInv'
    <2>0. Served(r) /\ Current(r) \in Cases
      BY <1>0, <1>3, CurrentCase DEF loadCase, Terminal, Served
    <2>1. ObjectsOK'
      BY <1>0, <1>3, <2>0 DEF ObjectsOK, loadCase
    <2>2. ProgressOK'
      <3>1. "freeCheck" \in Stage /\ "evaluate" \in Stage
        BY DEF Stage
      <3> QED BY <1>0, <1>3, <2>0, <3>1, GotoTyped DEF loadCase
    <2>3. CheckedInv'
      <3>1. call[r].kind \in {"execute", "free"}
        BY <1>0, CallFields DEF ObjectsOK
      <3> QED BY <1>0, <1>3, <3>1 DEF ProgressOK, CheckedInv, loadCase, Goto, Current
    <2> QED BY <2>1, <2>2, <2>3 DEF TypeInv
  <1>4. ASSUME NEW r \in Requests, assertTransitionAllowed(r)
        PROVE  TypeInv'
    <2>0. Served(r)
      BY <1>4 DEF assertTransitionAllowed, Terminal, Served
    <2>1. ObjectsOK'
      BY <1>0, <1>4 DEF ObjectsOK, assertTransitionAllowed
    <2>2. CASE \E result \in {"error", "failed"} : Report(r, result)
      <3>1. PICK result \in {"error", "failed"} : Report(r, result)
        BY <2>2
      <3>2. result \in Outcome
        BY DEF Outcome
      <3>3. UNCHANGED <<call, snap>> /\ call \in [Requests -> Call]
        BY <1>0, <1>4 DEF assertTransitionAllowed, ObjectsOK
      <3>4. ProgressOK' /\ CheckedInv'
        BY <1>0, <2>0, <3>1, <3>2, <3>3, ReportTyped, ReportChecked
      <3> QED BY <2>1, <3>4 DEF TypeInv
    <2>3. CASE /\ Goto(r, "recheck")
               /\ call[r].transition \in Template[Current(r)]
               /\ FromMatches(call[r].transition, snap[r].status)
               /\ GroupAuthorized(call[r].transition, call[r].user)
               /\ GuardsPass(call[r].transition, snap[r], checklist[Current(r)])
      <3>1. "recheck" \in Stage
        BY DEF Stage
      <3>2. ProgressOK'
        BY <1>0, <2>0, <2>3, <3>1, GotoTyped
      <3>3. CheckedInv'
        BY <1>0, <1>4, <2>3
        DEF ProgressOK, CheckedInv, assertTransitionAllowed, Goto, Current, GuardsPass
      <3> QED BY <2>1, <3>2, <3>3 DEF TypeInv
    <2> QED BY <1>4, <2>2, <2>3 DEF assertTransitionAllowed
  <1>5. ASSUME NEW r \in Requests, assertNoConcurrentChange(r)
        PROVE  TypeInv'
    <2>0. Served(r) /\ Current(r) \in Cases
      BY <1>0, <1>5, CurrentCase DEF assertNoConcurrentChange, Terminal, Served
    <2>1. ObjectsOK'
      BY <1>0, <1>5, <2>0 DEF ObjectsOK, assertNoConcurrentChange
    <2>2. CASE Report(r, "error") /\ UNCHANGED <<call, snap>>
      <3>1. "error" \in Outcome
        BY DEF Outcome
      <3>2. call \in [Requests -> Call]
        BY <1>0 DEF ObjectsOK
      <3>3. ProgressOK' /\ CheckedInv'
        BY <1>0, <2>0, <2>2, <3>1, <3>2, ReportTyped, ReportChecked
      <3> QED BY <2>1, <3>3 DEF TypeInv
    <2>3. CASE /\ Goto(r, "save")
               /\ snap' = [snap EXCEPT ![r] = stored[Current(r)]]
               /\ stored[Current(r)].status = snap[r].status
               /\ stored[Current(r)].version = snap[r].version
      <3>1. "save" \in Stage
        BY DEF Stage
      <3>2. ProgressOK'
        BY <1>0, <2>0, <2>3, <3>1, GotoTyped
      <3>3. CheckedInv'
        BY <1>0, <1>5, <2>3
        DEF ProgressOK, ObjectsOK, CheckedInv, assertNoConcurrentChange, Goto, Current
      <3> QED BY <2>1, <3>2, <3>3 DEF TypeInv
    <2> QED BY <1>5, <2>2, <2>3 DEF assertNoConcurrentChange
  <1>6. ASSUME NEW r \in Requests, saveCase(r)
        PROVE  TypeInv'
    <2>0. Served(r) /\ Current(r) \in Cases
      BY <1>0, <1>6, CurrentCase DEF saveCase, Terminal, Served
    <2>a. call[r].user \in Users /\ To[call[r].transition] \in Statuses
      BY <1>0, <1>6, CallFields DEF ObjectsOK, CheckedInv, saveCase, CaseWorkflowAssumption
    <2>b. [snap[r] EXCEPT !.status = To[call[r].transition]] \in CaseObject /\ snap[r].status \in Statuses
      BY <1>0, <2>a, CaseUpdated DEF ObjectsOK
    <2>c. ASSUME /\ Put(Current(r), [snap[r] EXCEPT !.status = To[call[r].transition]])
               /\ Wrote(Current(r), "transition", call[r].user, snap[r].status, To[call[r].transition])
          PROVE  stored' \in [Cases -> CaseObject] /\ written' \in [Cases -> Seq(Entry)]
      BY <1>0, <2>0, <2>a, <2>b, <2>c, PutTyped, WroteTyped DEF ObjectsOK
    <2>e. stored' \in [Cases -> CaseObject] /\ written' \in [Cases -> Seq(Entry)]
      BY <1>0, <1>6, <2>c DEF ObjectsOK, saveCase
    <2>1. ObjectsOK'
      BY <1>0, <1>6, <2>e DEF ObjectsOK, saveCase
    <2>2. CASE Report(r, "error") /\ UNCHANGED <<call, snap>>
      <3>1. "error" \in Outcome
        BY DEF Outcome
      <3>2. call \in [Requests -> Call]
        BY <1>0 DEF ObjectsOK
      <3>3. ProgressOK' /\ CheckedInv'
        BY <1>0, <2>0, <2>2, <3>1, <3>2, ReportTyped, ReportChecked
      <3> QED BY <2>1, <3>3 DEF TypeInv
    <2>3. CASE Goto(r, "record")
      <3>1. "record" \in Stage
        BY DEF Stage
      <3>2. ProgressOK'
        BY <1>0, <2>0, <2>3, <3>1, GotoTyped
      <3>3. CheckedInv'
        BY <1>0, <1>6, <2>3 DEF ProgressOK, ObjectsOK, CheckedInv, saveCase, Goto, Current
      <3> QED BY <2>1, <3>2, <3>3 DEF TypeInv
    <2> QED BY <1>6, <2>2, <2>3 DEF saveCase
  <1>7. ASSUME NEW r \in Requests, writeStatusRecord(r)
        PROVE  TypeInv'
    <2>0. Served(r) /\ Current(r) \in Cases
      BY <1>0, <1>7, CurrentCase DEF writeStatusRecord, Terminal, Served
    <2>a. To[call[r].transition] \in Statuses /\ snap[r].status \in Statuses
      BY <1>0, <1>7, CallFields DEF ObjectsOK, CheckedInv, CaseObject, writeStatusRecord, CaseWorkflowAssumption
    <2>b. StatusRecord(r, "transition", To[call[r].transition]) \in Record
      BY <2>0, <2>a DEF StatusRecord, Record
    <2>c. log' \in Seq(Record) /\ Len(log) + 1 \in Nat
      BY <1>0, <1>7, <2>b DEF ObjectsOK, writeStatusRecord
    <2>1. ObjectsOK'
      BY <1>0, <1>7, <2>c DEF ObjectsOK, writeStatusRecord
    <2>2. CASE Goto(r, "dispatch")
      <3>1. "dispatch" \in Stage
        BY DEF Stage
      <3>2. ProgressOK'
        BY <1>0, <2>0, <2>2, <3>1, GotoTyped
      <3>3. CheckedInv'
        BY <1>0, <1>7, <2>2 DEF ProgressOK, ObjectsOK, CheckedInv, writeStatusRecord, Goto, Current
      <3> QED BY <2>1, <3>2, <3>3 DEF TypeInv
    <2> QED BY <1>7, <2>2 DEF writeStatusRecord
  <1>8. ASSUME NEW r \in Requests, dispatch(r)
        PROVE  TypeInv'
    <2>0. Served(r) /\ Current(r) \in Cases
      BY <1>0, <1>8, CurrentCase DEF dispatch, Terminal, Served
    <2>a. call[r].user \in Users /\ Effect[call[r].transition] \in Statuses \cup {NoEffect}
      BY <1>0, <1>8, CallFields DEF ObjectsOK, CheckedInv, dispatch, CaseWorkflowAssumption
    <2>b. stored' \in [Cases -> CaseObject]
      BY <1>0, <1>8, <2>0, <2>a, CaseUpdated, PutTyped DEF ObjectsOK, dispatch
    <2>c. stored[Current(r)].status \in Statuses
      BY <1>0, <2>0, CaseUpdated DEF ObjectsOK
    <2>d. written' \in [Cases -> Seq(Entry)]
      BY <1>0, <1>8, <2>0, <2>a, <2>c, WroteTyped DEF ObjectsOK, dispatch
    <2>e. dispatched' \in [Requests -> {"none", "ok", "failed"}]
      BY <1>0, <1>8 DEF ObjectsOK, dispatch
    <2>1. ObjectsOK'
      BY <1>0, <1>8, <2>b, <2>d, <2>e DEF ObjectsOK, dispatch
    <2>2. CASE Goto(r, "persist")
      <3>1. "persist" \in Stage
        BY DEF Stage
      <3>2. ProgressOK'
        BY <1>0, <2>0, <2>2, <3>1, GotoTyped
      <3>3. CheckedInv'
        BY <1>0, <1>8, <2>2 DEF ProgressOK, ObjectsOK, CheckedInv, dispatch, Goto, Current
      <3> QED BY <2>1, <3>2, <3>3 DEF TypeInv
    <2> QED BY <1>8, <2>2 DEF dispatch
  <1>9. ASSUME NEW r \in Requests, persistDispatchedActions(r)
        PROVE  TypeInv'
    <2>0. Served(r) /\ Current(r) \in Cases
      BY <1>0, <1>9, CurrentCase DEF persistDispatchedActions, Terminal, Served
    <2>a. log' \in Seq(Record)
      <3>1. dispatched[r] \in {"none", "ok", "failed"} /\ log \in Seq(Record)
        BY <1>0 DEF ObjectsOK
      <3>2. \A i \in DOMAIN log : [log[i] EXCEPT !.dispatched = dispatched[r]] \in Record
        <4>1. \A x \in Record : [x EXCEPT !.dispatched = dispatched[r]]
                = [case |-> x.case, by |-> x.by, kind |-> x.kind, from |-> x.from, to |-> x.to,
                   dispatched |-> dispatched[r]]
          BY DEF Record
        <4>2. \A x \in Record : [x EXCEPT !.dispatched = dispatched[r]] \in Record
          BY <3>1, <4>1 DEF Record
        <4> QED BY <3>1, <4>2
      <3>3. [log EXCEPT ![rec[r]].dispatched = dispatched[r]]
              = [log EXCEPT ![rec[r]] = [log[rec[r]] EXCEPT !.dispatched = dispatched[r]]]
        BY <3>1
      <3>4. \A i : [log EXCEPT ![i] = [log[i] EXCEPT !.dispatched = dispatched[r]]] \in Seq(Record)
        <4>1. log \in [1 .. Len(log) -> Record] /\ Len(log) \in Nat
          BY <3>1
        <4>2. \A i : [log EXCEPT ![i] = [log[i] EXCEPT !.dispatched = dispatched[r]]]
                      \in [1 .. Len(log) -> Record]
          BY <3>2, <4>1
        <4>3. [1 .. Len(log) -> Record] \subseteq Seq(Record)
          BY <4>1, SeqDef
        <4> QED BY <4>2, <4>3
      <3> QED BY <1>9, <3>1, <3>3, <3>4 DEF persistDispatchedActions
    <2>1. ObjectsOK'
      BY <1>0, <1>9, <2>a DEF ObjectsOK, persistDispatchedActions
    <2>2. "succeeded" \in Outcome /\ call \in [Requests -> Call]
      BY <1>0 DEF Outcome, ObjectsOK
    <2>3. ProgressOK' /\ CheckedInv'
      BY <1>0, <1>9, <2>0, <2>2, ReportTyped, ReportChecked DEF persistDispatchedActions
    <2> QED BY <2>1, <2>3 DEF TypeInv
  <1>10. ASSUME NEW r \in Requests, assertStatusBelongsToCaseType(r)
        PROVE  TypeInv'
    <2>0. Served(r) /\ Current(r) \in Cases
      BY <1>0, <1>10, CurrentCase DEF assertStatusBelongsToCaseType, Terminal, Served
    <2>1. ObjectsOK'
      BY <1>0, <1>10 DEF ObjectsOK, assertStatusBelongsToCaseType
    <2>2. CASE Report(r, "error") /\ UNCHANGED <<call, snap>>
      <3>1. "error" \in Outcome
        BY DEF Outcome
      <3>2. call \in [Requests -> Call]
        BY <1>0 DEF ObjectsOK
      <3>3. ProgressOK' /\ CheckedInv'
        BY <1>0, <2>0, <2>2, <3>1, <3>2, ReportTyped, ReportChecked
      <3> QED BY <2>1, <3>3 DEF TypeInv
    <2>3. CASE Goto(r, "freeSave") /\ call[r].to \in Statuses
      <3>1. "freeSave" \in Stage
        BY DEF Stage
      <3>2. ProgressOK'
        BY <1>0, <2>0, <2>3, <3>1, GotoTyped
      <3>3. CheckedInv'
        BY <1>0, <1>10, <2>3 DEF ProgressOK, ObjectsOK, CheckedInv, assertStatusBelongsToCaseType, Goto, Current
      <3> QED BY <2>1, <3>2, <3>3 DEF TypeInv
    <2> QED BY <1>10, <2>2, <2>3 DEF assertStatusBelongsToCaseType
  <1>11. ASSUME NEW r \in Requests, saveFreeForm(r)
        PROVE  TypeInv'
    <2>0. Served(r) /\ Current(r) \in Cases
      BY <1>0, <1>11, CurrentCase DEF saveFreeForm, Terminal, Served
    <2>a. call[r].user \in Users /\ call[r].to \in Statuses
      BY <1>0, <1>11, CallFields DEF ObjectsOK, CheckedInv, saveFreeForm, CaseWorkflowAssumption
    <2>b. [snap[r] EXCEPT !.status = call[r].to] \in CaseObject /\ snap[r].status \in Statuses
      BY <1>0, <2>a, CaseUpdated DEF ObjectsOK
    <2>c. ASSUME /\ Put(Current(r), [snap[r] EXCEPT !.status = call[r].to])
               /\ Wrote(Current(r), "free", call[r].user, snap[r].status, call[r].to)
          PROVE  stored' \in [Cases -> CaseObject] /\ written' \in [Cases -> Seq(Entry)]
      BY <1>0, <2>0, <2>a, <2>b, <2>c, PutTyped, WroteTyped DEF ObjectsOK
    <2>e. stored' \in [Cases -> CaseObject] /\ written' \in [Cases -> Seq(Entry)]
      BY <1>0, <1>11, <2>c DEF ObjectsOK, saveFreeForm
    <2>1. ObjectsOK'
      BY <1>0, <1>11, <2>e DEF ObjectsOK, saveFreeForm
    <2>2. CASE Report(r, "error") /\ UNCHANGED <<call, snap>>
      <3>1. "error" \in Outcome
        BY DEF Outcome
      <3>2. call \in [Requests -> Call]
        BY <1>0 DEF ObjectsOK
      <3>3. ProgressOK' /\ CheckedInv'
        BY <1>0, <2>0, <2>2, <3>1, <3>2, ReportTyped, ReportChecked
      <3> QED BY <2>1, <3>3 DEF TypeInv
    <2>3. CASE Goto(r, "freeRecord")
      <3>1. "freeRecord" \in Stage
        BY DEF Stage
      <3>2. ProgressOK'
        BY <1>0, <2>0, <2>3, <3>1, GotoTyped
      <3>3. CheckedInv'
        BY <1>0, <1>11, <2>3 DEF ProgressOK, ObjectsOK, CheckedInv, saveFreeForm, Goto, Current
      <3> QED BY <2>1, <3>2, <3>3 DEF TypeInv
    <2> QED BY <1>11, <2>2, <2>3 DEF saveFreeForm
  <1>12. ASSUME NEW r \in Requests, recordFreeForm(r)
        PROVE  TypeInv'
    <2>0. Served(r) /\ Current(r) \in Cases
      BY <1>0, <1>12, CurrentCase DEF recordFreeForm, Terminal, Served
    <2>a. call[r].to \in Statuses /\ snap[r].status \in Statuses
      BY <1>0, <1>12, CallFields DEF ObjectsOK, CheckedInv, CaseObject, recordFreeForm, CaseWorkflowAssumption
    <2>b. StatusRecord(r, "free", call[r].to) \in Record
      BY <2>0, <2>a DEF StatusRecord, Record
    <2>c. log' \in Seq(Record) /\ Len(log) + 1 \in Nat
      BY <1>0, <1>12, <2>b DEF ObjectsOK, recordFreeForm
    <2>1. ObjectsOK'
      BY <1>0, <1>12, <2>c DEF ObjectsOK, recordFreeForm
    <2>2. "succeeded" \in Outcome /\ call \in [Requests -> Call]
      BY <1>0 DEF Outcome, ObjectsOK
    <2>3. ProgressOK' /\ CheckedInv'
      BY <1>0, <1>12, <2>0, <2>2, ReportTyped, ReportChecked DEF recordFreeForm
    <2> QED BY <2>1, <2>3 DEF TypeInv
  <1>13. ASSUME NEW r \in Requests, StoreThrows(r)
        PROVE  TypeInv'
    <2>0. Served(r) /\ Current(r) \in Cases
      BY <1>0, <1>13, CurrentCase DEF StoreThrows, Terminal, Served
    <2>1. ObjectsOK'
      BY <1>0, <1>13 DEF ObjectsOK, StoreThrows
    <2>2. CASE Report(r, "error") /\ UNCHANGED <<call, snap>>
      <3>1. "error" \in Outcome
        BY DEF Outcome
      <3>2. call \in [Requests -> Call]
        BY <1>0 DEF ObjectsOK
      <3>3. ProgressOK' /\ CheckedInv'
        BY <1>0, <2>0, <2>2, <3>1, <3>2, ReportTyped, ReportChecked
      <3> QED BY <2>1, <3>3 DEF TypeInv
    <2> QED BY <1>13, <2>2 DEF StoreThrows
  <1>14. ASSUME NEW r \in Requests, Crash(r)
        PROVE  TypeInv'
    <2>1. ObjectsOK'
      BY <1>0, <1>14 DEF ObjectsOK, Crash
    <2>2. ProgressOK'
      BY <1>0, <1>14 DEF ProgressOK, Crash, Goto, Stage, Terminal, Served
    <2>3. CheckedInv'
      BY <1>0, <1>14 DEF ProgressOK, CheckedInv, Crash, Goto, Current
    <2> QED BY <2>1, <2>2, <2>3 DEF TypeInv
  <1>15. ASSUME NEW c \in Cases, EditCase(c)
        PROVE  TypeInv'
    <2>1. ObjectsOK'
      BY <1>0, <1>15, CaseUpdated, PutTyped DEF ObjectsOK, EditCase
    <2>2. ProgressOK' /\ CheckedInv'
      BY <1>0, <1>15 DEF ProgressOK, CheckedInv, EditCase, Served, Current
    <2> QED BY <2>1, <2>2 DEF TypeInv
  <1>16. ASSUME NEW c \in Cases, TickChecklist(c)
        PROVE  TypeInv'
    <2>1. ObjectsOK'
      BY <1>0, <1>16 DEF ObjectsOK, TickChecklist, CaseObject
    <2>2. ProgressOK' /\ CheckedInv'
      BY <1>0, <1>16 DEF ProgressOK, CheckedInv, TickChecklist, Served, Current
    <2> QED BY <2>1, <2>2 DEF TypeInv
  <1>18. ASSUME NEW r \in Requests, findStored(r)
         PROVE  TypeInv'
    <2>0. Served(r) /\ Current(r) \in Cases
      BY <1>0, <1>18, CurrentCase DEF findStored, Terminal, Served
    <2>1. ObjectsOK'
      BY <1>0, <1>18, <2>0 DEF ObjectsOK, findStored
    <2>2. "effectSave" \in Stage /\ Goto(r, "effectSave")
      BY <1>18 DEF Stage, findStored
    <2>3. ProgressOK'
      BY <1>0, <2>0, <2>2, GotoTyped
    <2>4. CheckedInv'
      BY <1>0, <1>18 DEF ProgressOK, ObjectsOK, CheckedInv, findStored, Goto, Current
    <2> QED BY <2>1, <2>3, <2>4 DEF TypeInv
  <1>19. ASSUME NEW r \in Requests, saveStored(r)
         PROVE  TypeInv'
    <2>0. Served(r) /\ Current(r) \in Cases
      BY <1>0, <1>19, CurrentCase DEF saveStored, Terminal, Served
    <2>a. call[r].user \in Users /\ Effect[call[r].transition] \in Statuses
      BY <1>0, <1>19, CallFields DEF ObjectsOK, CheckedInv, saveStored, CaseWorkflowAssumption
    <2>b. /\ [snap[r] EXCEPT !.status = Effect[call[r].transition]] \in CaseObject
          /\ snap[r].status \in Statuses
      BY <1>0, <2>a, CaseUpdated DEF ObjectsOK
    <2>c. ASSUME /\ Put(Current(r), [snap[r] EXCEPT !.status = Effect[call[r].transition]])
                 /\ Wrote(Current(r), "effect", call[r].user, snap[r].status,
                          Effect[call[r].transition])
          PROVE  stored' \in [Cases -> CaseObject] /\ written' \in [Cases -> Seq(Entry)]
      BY <1>0, <2>0, <2>a, <2>b, <2>c, PutTyped, WroteTyped DEF ObjectsOK
    <2>d. stored' \in [Cases -> CaseObject] /\ written' \in [Cases -> Seq(Entry)]
      BY <1>0, <1>19, <2>c DEF ObjectsOK, saveStored
    <2>e. dispatched' \in [Requests -> {"none", "ok", "failed"}]
      BY <1>0, <1>19 DEF ObjectsOK, saveStored
    <2>1. ObjectsOK'
      BY <1>0, <1>19, <2>d, <2>e DEF ObjectsOK, saveStored
    <2>2. "persist" \in Stage /\ Goto(r, "persist")
      BY <1>19 DEF Stage, saveStored
    <2>3. ProgressOK'
      BY <1>0, <2>0, <2>2, GotoTyped
    <2>4. CheckedInv'
      BY <1>0, <1>19, <2>2 DEF ProgressOK, ObjectsOK, CheckedInv, saveStored, Goto, Current
    <2> QED BY <2>1, <2>3, <2>4 DEF TypeInv
  <1>17. CASE UNCHANGED vars
    BY <1>0, <1>17 DEF vars, TypeInv, ObjectsOK, ProgressOK, CheckedInv, Served, Current
  <1> QED
    BY <1>1, <1>2, <1>3, <1>4, <1>5, <1>6, <1>7, <1>8, <1>9, <1>10, <1>11, <1>12, <1>13,
       <1>14, <1>15, <1>16, <1>17, <1>18, <1>19 DEF Next, Serve

(* The typing, strengthened by what the guards have checked, is invariant.  *)
LEMMA TypeInvariance == Spec => []TypeInv
  BY TypeInit, TypeStep, PTL DEF Spec

(* Every variable of the engine always holds a value of its kind.           *)
THEOREM TypeCorrect == Spec => []TypeOK
  <1>1. TypeInv => TypeOK
    BY TypeParts DEF TypeInv
  <1> QED BY <1>1, TypeInvariance, PTL

-----------------------------------------------------------------------------
(* The snapshot of a request is out of date, and then its version is        *)
(* smaller, or it is the stored case; and past the guards the snapshot      *)
(* satisfies the guard on the case's field.                                 *)
Holding == {"evaluate", "recheck", "save", "effectSave", "freeCheck", "freeSave"}

SnapshotInv ==
  \A r \in Requests :
    /\ pc[r] \in Holding =>
         /\ snap[r].version <= stored[Current(r)].version
         /\ snap[r].version = stored[Current(r)].version => snap[r] = stored[Current(r)]
    /\ pc[r] \in {"recheck", "save"} =>
         (call[r].transition \in NeedsField => snap[r].field)

Inv == TypeInv /\ SnapshotInv

(* Writing a case leaves every snapshot of it out of date.                  *)
LEMMA PutOutdates ==
  ASSUME ObjectsOK, ProgressOK, SnapshotInv, NEW c \in Cases, NEW case \in CaseObject,
         Put(c, case), NEW q \in Requests, pc[q] \in Holding
  PROVE  /\ snap[q].version <= stored'[Current(q)].version
         /\ snap[q].version = stored'[Current(q)].version => snap[q] = stored'[Current(q)]
  <1>1. Served(q)
    BY DEF Served, Holding, Terminal
  <1>2. Current(q) \in Cases
    BY <1>1, CurrentCase
  <1>3. stored[Current(q)].version \in Nat /\ snap[q].version \in Nat
    BY <1>2, CaseUpdated DEF ObjectsOK
  <1>4. /\ snap[q].version <= stored[Current(q)].version
        /\ snap[q].version = stored[Current(q)].version => snap[q] = stored[Current(q)]
    BY DEF SnapshotInv
  <1>5. CASE Current(q) # c
    BY <1>2, <1>4, <1>5 DEF Put, ObjectsOK
  <1>6. CASE Current(q) = c
    <2>1. stored'[c].version = stored[c].version + 1
      BY DEF Put, ObjectsOK, CaseObject
    <2> QED BY <1>3, <1>4, <1>6, <2>1
  <1> QED BY <1>5, <1>6

(* A request that reports on a case holds no snapshot any more.             *)
LEMMA ReportLetsGo ==
  ASSUME ProgressOK, SnapshotInv, NEW r \in Requests, NEW result,
         Report(r, result), UNCHANGED <<stored, call, snap>>
  PROVE  SnapshotInv'
  <1>1. pc'[r] \notin Holding
    BY DEF ProgressOK, Report, Holding
  <1>2. \A q \in Requests : q # r => pc'[q] = pc[q] /\ Current(q)' = Current(q)
    BY DEF ProgressOK, Report, Current
  <1>3. ASSUME NEW q \in Requests, q # r
        PROVE  /\ pc'[q] \in Holding =>
                    /\ snap'[q].version <= stored'[Current(q)'].version
                    /\ snap'[q].version = stored'[Current(q)'].version
                         => snap'[q] = stored'[Current(q)']
               /\ pc'[q] \in {"recheck", "save"} =>
                    (call'[q].transition \in NeedsField => snap'[q].field)
    BY <1>2, <1>3 DEF SnapshotInv
  <1> QED BY <1>1, <1>3 DEF SnapshotInv, Holding

(* No step falsifies the snapshot invariant.                                *)
LEMMA SnapshotStep == Inv /\ [Next]_vars => SnapshotInv'
  <1> SUFFICES ASSUME Inv, [Next]_vars PROVE SnapshotInv'
    OBVIOUS
  <1>0. ObjectsOK /\ ProgressOK /\ CheckedInv /\ SnapshotInv
    BY DEF Inv, TypeInv
  <1> USE DEF Holding
  <1>1. ASSUME NEW r \in Requests, NEW list \in CaseLists, SubmitExecute(r, list) PROVE SnapshotInv'
    BY <1>0, <1>1 DEF SnapshotInv, ProgressOK, SubmitExecute, Report, Goto, Current
  <1>2. ASSUME NEW r \in Requests, NEW c \in Cases, SubmitFree(r, c) PROVE SnapshotInv'
    BY <1>0, <1>2 DEF SnapshotInv, ProgressOK, SubmitFree, Report, Goto, Current
  <1>3. ASSUME NEW r \in Requests, writeStatusRecord(r) PROVE SnapshotInv'
    BY <1>0, <1>3 DEF SnapshotInv, ProgressOK, writeStatusRecord, Report, Goto, Current
  <1>4. ASSUME NEW r \in Requests, persistDispatchedActions(r) PROVE SnapshotInv'
    BY <1>0, <1>4, ReportLetsGo DEF persistDispatchedActions
  <1>5. ASSUME NEW r \in Requests, assertStatusBelongsToCaseType(r) PROVE SnapshotInv'
    <2>1. CASE Goto(r, "freeSave")
      BY <1>0, <1>5, <2>1 DEF SnapshotInv, ProgressOK, assertStatusBelongsToCaseType, Goto, Current
    <2>2. CASE Report(r, "error")
      BY <1>0, <1>5, <2>2, ReportLetsGo DEF assertStatusBelongsToCaseType
    <2> QED BY <1>5, <2>1, <2>2 DEF assertStatusBelongsToCaseType
  <1>6. ASSUME NEW r \in Requests, recordFreeForm(r) PROVE SnapshotInv'
    BY <1>0, <1>6, ReportLetsGo DEF recordFreeForm
  <1>7. ASSUME NEW r \in Requests, StoreThrows(r) PROVE SnapshotInv'
    BY <1>0, <1>7, ReportLetsGo DEF StoreThrows
  <1>8. ASSUME NEW r \in Requests, Crash(r) PROVE SnapshotInv'
    BY <1>0, <1>8 DEF SnapshotInv, ProgressOK, Crash, Report, Goto, Current
  <1>9. ASSUME NEW r \in Requests, loadCase(r) PROVE SnapshotInv'
    <2>1. Served(r)
      BY <1>9 DEF loadCase, Served, Terminal
    <2>2. Current(r) \in Cases
      BY <1>0, <2>1, CurrentCase
    <2>3. stored[Current(r)].version \in Nat
      BY <1>0, <2>2, CaseUpdated DEF ObjectsOK
    <2> QED
      BY <1>0, <1>9, <2>3 DEF SnapshotInv, ProgressOK, ObjectsOK, loadCase, Goto, Current
  <1>10. ASSUME NEW r \in Requests, assertTransitionAllowed(r) PROVE SnapshotInv'
    <2>1. UNCHANGED <<stored, call, snap>> /\ pc[r] = "evaluate"
      BY <1>10 DEF assertTransitionAllowed
    <2>2. CASE Goto(r, "recheck") /\ (call[r].transition \in NeedsField => snap[r].field)
      BY <1>0, <2>1, <2>2 DEF SnapshotInv, ProgressOK, Goto, Current
    <2>3. ASSUME NEW result, Report(r, result) PROVE SnapshotInv'
      BY <1>0, <2>1, <2>3, ReportLetsGo
    <2> QED BY <1>10, <2>2, <2>3 DEF assertTransitionAllowed, GuardsPass
  <1>11. ASSUME NEW r \in Requests, assertNoConcurrentChange(r) PROVE SnapshotInv'
    <2>1. UNCHANGED <<stored, call>> /\ pc[r] = "recheck"
      BY <1>11 DEF assertNoConcurrentChange
    <2>2. snap[r].version = stored[Current(r)].version => snap[r] = stored[Current(r)]
      BY <1>0, <2>1 DEF SnapshotInv
    <2>3. CASE Goto(r, "save") /\ snap' = [snap EXCEPT ![r] = stored[Current(r)]]
               /\ snap[r].version = stored[Current(r)].version
      <3>1. snap' = snap
        BY <1>0, <2>2, <2>3 DEF ObjectsOK
      <3> QED BY <1>0, <2>1, <2>3, <3>1 DEF SnapshotInv, ProgressOK, Goto, Current
    <2>4. CASE Report(r, "error") /\ UNCHANGED snap
      BY <1>0, <2>1, <2>4, ReportLetsGo
    <2> QED BY <1>11, <2>3, <2>4 DEF assertNoConcurrentChange
  <1>12. ASSUME NEW r \in Requests, saveCase(r) PROVE SnapshotInv'
    <2>0. Current(r) \in Cases /\ pc \in [Requests -> Stage]
      BY <1>0, <1>12, CurrentCase DEF saveCase, Served, Terminal, ProgressOK
    <2>1. [snap[r] EXCEPT !.status = To[call[r].transition]] \in CaseObject
      BY <1>0, <1>12, <2>0, CallFields, CaseUpdated, CaseWorkflowAssumption
      DEF ObjectsOK, CheckedInv, saveCase
    <2>2. CASE Report(r, "error") /\ UNCHANGED stored
      BY <1>0, <1>12, <2>2, ReportLetsGo DEF saveCase
    <2>3. CASE Put(Current(r), [snap[r] EXCEPT !.status = To[call[r].transition]]) /\ Goto(r, "record")
      <3>1. \A q \in Requests : pc[q] \in Holding =>
              /\ snap[q].version <= stored'[Current(q)].version
              /\ snap[q].version = stored'[Current(q)].version => snap[q] = stored'[Current(q)]
        BY <1>0, <2>0, <2>1, <2>3, PutOutdates
      <3> QED BY <1>0, <1>12, <2>0, <2>3, <3>1 DEF SnapshotInv, saveCase, Goto, Current
    <2> QED BY <1>12, <2>2, <2>3 DEF saveCase
  <1>13. ASSUME NEW r \in Requests, dispatch(r) PROVE SnapshotInv'
    <2>0. Current(r) \in Cases /\ pc \in [Requests -> Stage]
      BY <1>0, <1>13, CurrentCase DEF dispatch, Served, Terminal, ProgressOK
    <2>1. Effect[call[r].transition] # NoEffect =>
            [stored[Current(r)] EXCEPT !.status = Effect[call[r].transition]] \in CaseObject
      BY <1>0, <1>13, <2>0, CallFields, CaseUpdated, CaseWorkflowAssumption
      DEF ObjectsOK, CheckedInv, dispatch
    <2>2. CASE UNCHANGED stored
      BY <1>0, <1>13, <2>2 DEF SnapshotInv, ProgressOK, dispatch, Report, Goto, Current
    <2>3. CASE /\ Effect[call[r].transition] # NoEffect
               /\ Put(Current(r), [stored[Current(r)] EXCEPT !.status = Effect[call[r].transition]])
               /\ Goto(r, "persist")
      <3>1. \A q \in Requests : pc[q] \in Holding =>
              /\ snap[q].version <= stored'[Current(q)].version
              /\ snap[q].version = stored'[Current(q)].version => snap[q] = stored'[Current(q)]
        BY <1>0, <2>0, <2>1, <2>3, PutOutdates
      <3> QED BY <1>0, <1>13, <2>0, <2>3, <3>1 DEF SnapshotInv, dispatch, Goto, Current
    <2> QED BY <1>13, <2>2, <2>3 DEF dispatch
  <1>14. ASSUME NEW r \in Requests, saveFreeForm(r) PROVE SnapshotInv'
    <2>0. Current(r) \in Cases /\ pc \in [Requests -> Stage]
      BY <1>0, <1>14, CurrentCase DEF saveFreeForm, Served, Terminal, ProgressOK
    <2>1. [snap[r] EXCEPT !.status = call[r].to] \in CaseObject
      BY <1>0, <1>14, <2>0, CallFields, CaseUpdated, CaseWorkflowAssumption
      DEF ObjectsOK, CheckedInv, saveFreeForm
    <2>2. CASE Report(r, "error") /\ UNCHANGED stored
      BY <1>0, <1>14, <2>2, ReportLetsGo DEF saveFreeForm
    <2>3. CASE Put(Current(r), [snap[r] EXCEPT !.status = call[r].to]) /\ Goto(r, "freeRecord")
      <3>1. \A q \in Requests : pc[q] \in Holding =>
              /\ snap[q].version <= stored'[Current(q)].version
              /\ snap[q].version = stored'[Current(q)].version => snap[q] = stored'[Current(q)]
        BY <1>0, <2>0, <2>1, <2>3, PutOutdates
      <3> QED BY <1>0, <1>14, <2>0, <2>3, <3>1 DEF SnapshotInv, saveFreeForm, Goto, Current
    <2> QED BY <1>14, <2>2, <2>3 DEF saveFreeForm
  <1>15. ASSUME NEW c \in Cases, EditCase(c) PROVE SnapshotInv'
    <2>1. \A value \in BOOLEAN : [stored[c] EXCEPT !.field = value] \in CaseObject
      BY <1>0, CaseUpdated DEF ObjectsOK
    <2>2. \A q \in Requests : pc[q] \in Holding =>
            /\ snap[q].version <= stored'[Current(q)].version
            /\ snap[q].version = stored'[Current(q)].version => snap[q] = stored'[Current(q)]
      BY <1>0, <1>15, <2>1, PutOutdates DEF EditCase
    <2> QED BY <1>0, <1>15, <2>2 DEF SnapshotInv, EditCase, Current, reqVars
  <1>16. ASSUME NEW c \in Cases, TickChecklist(c) PROVE SnapshotInv'
    BY <1>0, <1>16 DEF SnapshotInv, TickChecklist, Current, reqVars
  <1>17. CASE UNCHANGED vars
    BY <1>0, <1>17 DEF SnapshotInv, Current, vars, reqVars
  <1>18. ASSUME NEW r \in Requests, findStored(r) PROVE SnapshotInv'
    <2>1. Current(r) \in Cases
      BY <1>0, <1>18, CurrentCase DEF findStored, Served, Terminal
    <2>2. stored[Current(r)].version \in Nat
      BY <1>0, <2>1, CaseUpdated DEF ObjectsOK
    <2> QED
      BY <1>0, <1>18, <2>2 DEF SnapshotInv, ProgressOK, ObjectsOK, findStored, Goto, Current
  <1>19. ASSUME NEW r \in Requests, saveStored(r) PROVE SnapshotInv'
    <2>0. Current(r) \in Cases /\ pc \in [Requests -> Stage]
      BY <1>0, <1>19, CurrentCase DEF saveStored, Served, Terminal, ProgressOK
    <2>1. [snap[r] EXCEPT !.status = Effect[call[r].transition]] \in CaseObject
      BY <1>0, <1>19, <2>0, CallFields, CaseUpdated, CaseWorkflowAssumption
      DEF ObjectsOK, CheckedInv, saveStored
    <2>2. CASE UNCHANGED stored
      BY <1>0, <1>19, <2>2 DEF SnapshotInv, ProgressOK, saveStored, Goto, Current
    <2>3. CASE /\ Put(Current(r), [snap[r] EXCEPT !.status = Effect[call[r].transition]])
               /\ Goto(r, "persist")
      <3>1. \A q \in Requests : pc[q] \in Holding =>
              /\ snap[q].version <= stored'[Current(q)].version
              /\ snap[q].version = stored'[Current(q)].version => snap[q] = stored'[Current(q)]
        BY <1>0, <2>0, <2>1, <2>3, PutOutdates
      <3> QED BY <1>0, <1>19, <2>0, <2>3, <3>1 DEF SnapshotInv, saveStored, Goto, Current
    <2> QED BY <1>19, <2>2, <2>3 DEF saveStored
  <1> QED
    BY <1>1, <1>2, <1>3, <1>4, <1>5, <1>6, <1>7, <1>8, <1>9, <1>10, <1>11, <1>12, <1>13,
       <1>14, <1>15, <1>16, <1>17, <1>18, <1>19 DEF Next, Serve

(* The whole inductive invariant holds of every behaviour.                  *)
LEMMA Invariance == Spec => []Inv
  <1>1. Init => SnapshotInv
    BY DEF Init, SnapshotInv, Holding
  <1>2. Inv /\ [Next]_vars => Inv'
    BY TypeStep, SnapshotStep DEF Inv
  <1>3. Init => Inv
    BY <1>1, TypeInit DEF Inv
  <1> QED BY <1>2, <1>3, PTL DEF Spec

-----------------------------------------------------------------------------
(* A step that writes neither a case nor its history is invisible.          *)
LEMMA Quiet ==
  ASSUME UNCHANGED <<stored, written>>
  PROVE  UNCHANGED Lifecycle!lifecycleVars
  BY DEF Lifecycle!lifecycleVars

(* A write of a case that leaves the guarded field as stored and is noted   *)
(* as a move from the stored status is a Record step of the lifecycle.      *)
LEMMA WriteRecords ==
  ASSUME ObjectsOK, NEW c \in Cases, NEW kind, NEW user, NEW to \in Statuses,
         Put(c, [stored[c] EXCEPT !.status = to]),
         Wrote(c, kind, user, stored[c].status, to)
  PROVE  Lifecycle!Record(c, kind, user, to)
  <1>1. /\ [stored[c] EXCEPT !.status = to].status = to
        /\ [stored[c] EXCEPT !.status = to].field = stored[c].field
        /\ [stored[c] EXCEPT !.status = to] \in CaseObject
    BY CaseUpdated DEF ObjectsOK, CaseObject
  <1>2. /\ stored'[c].status = to /\ stored'[c].field = stored[c].field
        /\ \A d \in Cases \ {c} : stored'[d] = stored[d]
    BY <1>1 DEF Put, ObjectsOK, CaseObject
  <1>3. [d \in Cases |-> stored'[d].status]
          = [[d \in Cases |-> stored[d].status] EXCEPT ![c] = to]
    BY <1>2
  <1>4. [d \in Cases |-> stored'[d].field] = [d \in Cases |-> stored[d].field]
    BY <1>2
  <1>5. written' = [written EXCEPT ![c] =
                      Append(@, MoveEntry(kind, user, [d \in Cases |-> stored[d].status][c], to))]
    BY DEF Wrote
  <1> QED BY <1>3, <1>4, <1>5 DEF Lifecycle!Record, Lifecycle!MoveEntry, MoveEntry

(* The ways to take a step of the lifecycle that the engine's writes use.   *)
LEMMA LifecycleSteps ==
  ASSUME NEW c \in Cases, NEW u \in Users
  PROVE  /\ \A t \in Transitions : Lifecycle!Move(c, t, u) => Lifecycle!Next
         /\ \A t \in Transitions : Lifecycle!EffectMove(c, t, u) => Lifecycle!Next
         /\ \A s \in Statuses : Lifecycle!FreeMove(c, s, u) => Lifecycle!Next
  BY DEF Lifecycle!Next

(* Every step of the engine is a step of the lifecycle or none: whenever    *)
(* the store accepts a save, the snapshot the checks were made on is the    *)
(* stored case.                                                             *)
LEMMA StepRefines ==
  ASSUME StoreChecksVersion = TRUE, Inv, [Next]_vars
  PROVE  [Lifecycle!Next]_(Lifecycle!lifecycleVars)
  <1>0. ObjectsOK /\ ProgressOK /\ CheckedInv /\ SnapshotInv
    BY DEF Inv, TypeInv
  <1>1. ASSUME NEW r \in Requests, saveCase(r)
        PROVE  [Lifecycle!Next]_(Lifecycle!lifecycleVars)
    <2>1. /\ Current(r) \in Cases /\ call[r].kind = "execute"
          /\ call[r].transition \in Transitions /\ call[r].user \in Users
      BY <1>0, <1>1, CurrentCase, CallFields
      DEF saveCase, Served, Terminal, CheckedInv, ObjectsOK
    <2>a. PICK c \in Cases, t \in Transitions, u \in Users :
                 c = Current(r) /\ t = call[r].transition /\ u = call[r].user
      BY <2>1
    <2>2. CASE UNCHANGED <<stored, written>>
      BY <2>2, Quiet
    <2>3. CASE /\ Accepts(c, snap[r].version)
               /\ Put(c, [snap[r] EXCEPT !.status = To[t]])
               /\ Wrote(c, "transition", u, snap[r].status, To[t])
      <3>1. snap[r] = stored[c]
        BY <1>0, <1>1, <2>a, <2>3 DEF SnapshotInv, Holding, Accepts, saveCase
      <3>2. To[t] \in Statuses /\ [stored[c] EXCEPT !.status = To[t]] \in CaseObject
        BY <1>0, CaseUpdated, CaseWorkflowAssumption DEF ObjectsOK
      <3>3. Lifecycle!Record(c, "transition", u, To[t])
        BY <1>0, <2>3, <3>1, <3>2, WriteRecords
      <3>4. /\ t \in Template[c] /\ GroupAuthorized(t, u)
            /\ From[t] \in {AnyStatus, stored[c].status}
            /\ t \in NeedsField => stored[c].field
        BY <1>0, <1>1, <2>a, <3>1 DEF CheckedInv, SnapshotInv, FromMatches, saveCase
      <3>5. Lifecycle!Move(c, t, u)
        BY <3>3, <3>4 DEF Lifecycle!Move, Lifecycle!GroupAuthorized, GroupAuthorized
      <3> QED BY <3>5, LifecycleSteps
    <2> QED BY <1>1, <2>a, <2>2, <2>3 DEF saveCase
  <1>2. ASSUME NEW r \in Requests, dispatch(r)
        PROVE  [Lifecycle!Next]_(Lifecycle!lifecycleVars)
    <2>1. /\ Current(r) \in Cases /\ call[r].kind = "execute"
          /\ call[r].transition \in Transitions /\ call[r].user \in Users
      BY <1>0, <1>2, CurrentCase, CallFields
      DEF dispatch, Served, Terminal, CheckedInv, ObjectsOK
    <2>a. PICK c \in Cases, t \in Transitions, u \in Users :
                 c = Current(r) /\ t = call[r].transition /\ u = call[r].user
      BY <2>1
    <2>2. CASE UNCHANGED <<stored, written>>
      BY <2>2, Quiet
    <2>3. CASE /\ Effect[t] # NoEffect
               /\ Put(c, [stored[c] EXCEPT !.status = Effect[t]])
               /\ Wrote(c, "effect", u, stored[c].status, Effect[t])
      <3>1. Effect[t] \in Statuses /\ [stored[c] EXCEPT !.status = Effect[t]] \in CaseObject
        BY <1>0, <2>3, CaseUpdated, CaseWorkflowAssumption DEF ObjectsOK
      <3>2. Lifecycle!Record(c, "effect", u, Effect[t])
        BY <1>0, <2>3, <3>1, WriteRecords
      <3>3. t \in Template[c] /\ GroupAuthorized(t, u)
        BY <1>0, <1>2, <2>a DEF CheckedInv, dispatch
      <3>4. Lifecycle!EffectMove(c, t, u)
        BY <2>3, <3>2, <3>3 DEF Lifecycle!EffectMove, Lifecycle!GroupAuthorized, GroupAuthorized
      <3> QED BY <3>4, LifecycleSteps
    <2> QED BY <1>2, <2>a, <2>2, <2>3 DEF dispatch
  <1>3. ASSUME NEW r \in Requests, saveFreeForm(r)
        PROVE  [Lifecycle!Next]_(Lifecycle!lifecycleVars)
    <2>1. /\ Current(r) \in Cases /\ call[r].user \in Users \cap Admins
          /\ call[r].to \in Statuses
      BY <1>0, <1>3, CurrentCase, CallFields
      DEF saveFreeForm, Served, Terminal, CheckedInv, ObjectsOK
    <2>a. PICK c \in Cases, u \in Users \cap Admins, s \in Statuses :
                 c = Current(r) /\ u = call[r].user /\ s = call[r].to
      BY <2>1
    <2>2. CASE UNCHANGED <<stored, written>>
      BY <2>2, Quiet
    <2>3. CASE /\ Accepts(c, snap[r].version)
               /\ Put(c, [snap[r] EXCEPT !.status = s])
               /\ Wrote(c, "free", u, snap[r].status, s)
      <3>1. snap[r] = stored[c]
        BY <1>0, <1>3, <2>a, <2>3 DEF SnapshotInv, Holding, Accepts, saveFreeForm
      <3>2. [stored[c] EXCEPT !.status = s] \in CaseObject
        BY <1>0, CaseUpdated DEF ObjectsOK
      <3>3. Lifecycle!Record(c, "free", u, s)
        BY <1>0, <2>3, <3>1, <3>2, WriteRecords
      <3>4. Lifecycle!FreeMove(c, s, u)
        BY <3>3 DEF Lifecycle!FreeMove
      <3> QED BY <3>4, LifecycleSteps
    <2> QED BY <1>3, <2>a, <2>2, <2>3 DEF saveFreeForm
  <1>4. ASSUME NEW c \in Cases, EditCase(c)
        PROVE  [Lifecycle!Next]_(Lifecycle!lifecycleVars)
    <2>1. PICK value \in BOOLEAN : Put(c, [stored[c] EXCEPT !.field = value])
      BY <1>4 DEF EditCase
    <2>2. /\ stored'[c].status = stored[c].status /\ stored'[c].field = value
          /\ \A d \in Cases \ {c} : stored'[d] = stored[d]
      BY <1>0, <2>1 DEF Put, ObjectsOK, CaseObject
    <2>3. /\ [d \in Cases |-> stored'[d].status] = [d \in Cases |-> stored[d].status]
          /\ [d \in Cases |-> stored'[d].field]
               = [[d \in Cases |-> stored[d].field] EXCEPT ![c] = value]
      BY <2>2
    <2>4. Lifecycle!EditField(c, value)
      BY <1>4, <2>3 DEF Lifecycle!EditField, EditCase
    <2> QED BY <2>4 DEF Lifecycle!Next
  <1>8. ASSUME NEW r \in Requests, saveStored(r)
        PROVE  [Lifecycle!Next]_(Lifecycle!lifecycleVars)
    <2>1. /\ Current(r) \in Cases /\ call[r].kind = "execute"
          /\ call[r].transition \in Transitions /\ call[r].user \in Users
      BY <1>0, <1>8, CurrentCase, CallFields
      DEF saveStored, Served, Terminal, CheckedInv, ObjectsOK
    <2>a. PICK c \in Cases, t \in Transitions, u \in Users :
                 c = Current(r) /\ t = call[r].transition /\ u = call[r].user
      BY <2>1
    <2>2. CASE UNCHANGED <<stored, written>>
      BY <2>2, Quiet
    <2>3. CASE /\ Accepts(c, snap[r].version)
               /\ Put(c, [snap[r] EXCEPT !.status = Effect[t]])
               /\ Wrote(c, "effect", u, snap[r].status, Effect[t])
      <3>1. snap[r] = stored[c]
        BY <1>0, <1>8, <2>a, <2>3 DEF SnapshotInv, Holding, Accepts, saveStored
      <3>2. /\ t \in Template[c] /\ GroupAuthorized(t, u) /\ Effect[t] # NoEffect
        BY <1>0, <1>8, <2>a DEF CheckedInv, saveStored
      <3>3. Effect[t] \in Statuses /\ [stored[c] EXCEPT !.status = Effect[t]] \in CaseObject
        BY <1>0, <3>2, CaseUpdated, CaseWorkflowAssumption DEF ObjectsOK
      <3>4. Lifecycle!Record(c, "effect", u, Effect[t])
        BY <1>0, <2>3, <3>1, <3>3, WriteRecords
      <3>5. Lifecycle!EffectMove(c, t, u)
        BY <3>2, <3>4 DEF Lifecycle!EffectMove, Lifecycle!GroupAuthorized, GroupAuthorized
      <3> QED BY <3>5, LifecycleSteps
    <2> QED BY <1>8, <2>a, <2>2, <2>3 DEF saveStored
  <1>5. ASSUME NEW r \in Requests, Serve(r), ~saveCase(r), ~dispatch(r), ~saveStored(r),
               ~saveFreeForm(r)
        PROVE  UNCHANGED <<stored, written>>
    BY <1>5
    DEF Serve, SubmitExecute, SubmitFree, loadCase, assertTransitionAllowed,
        assertNoConcurrentChange, writeStatusRecord, findStored, persistDispatchedActions,
        assertStatusBelongsToCaseType, recordFreeForm, StoreThrows, Crash
  <1>6. ASSUME NEW c \in Cases, TickChecklist(c)
        PROVE  UNCHANGED <<stored, written>>
    BY <1>6 DEF TickChecklist
  <1>7. CASE UNCHANGED vars
    BY <1>7, Quiet DEF vars
  <1> QED BY <1>1, <1>2, <1>3, <1>4, <1>5, <1>6, <1>7, <1>8, Quiet DEF Next

(* When the store checks versions, the engine implements the lifecycle, for *)
(* any number of cases, concurrent requests and people editing.             *)
THEOREM ImplementsLifecycle ==
  ASSUME StoreChecksVersion = TRUE
  PROVE  Spec => ActsAtomically
  <1>1. Init => Lifecycle!Init
    BY DEF Init, Lifecycle!Init
  <1>2. Inv /\ [Next]_vars => [Lifecycle!Next]_(Lifecycle!lifecycleVars)
    BY StepRefines
  <1> QED BY <1>1, <1>2, Invariance, PTL DEF Spec, ActsAtomically, Lifecycle!Spec

-----------------------------------------------------------------------------
(* A move from where a chain ends extends it.                               *)
LEMMA ChainGrows ==
  ASSUME NEW moves \in Seq(Entry), NEW s, Chained(moves, s), NEW entry, entry.from = s
  PROVE  Chained(Append(moves, entry), entry.to)
  <1> DEFINE longer == Append(moves, entry)
  <1>1. /\ Len(moves) \in Nat /\ longer # <<>> /\ Len(longer) = Len(moves) + 1
        /\ longer[Len(moves) + 1] = entry
        /\ \A i \in 1 .. Len(moves) : longer[i] = moves[i]
    OBVIOUS
  <1>2. CASE moves = <<>>
    <2>1. Len(longer) = 1 /\ longer[1] = entry
      BY <1>1, <1>2
    <2>2. s = InitialStatus
      BY <1>2 DEF Chained
    <2> HIDE DEF longer
    <2> QED BY <1>1, <2>1, <2>2 DEF Chained
  <1>3. CASE moves # <<>>
    <2>1. Len(moves) \in Nat \ {0}
      BY <1>3
    <2>2. /\ moves[1].from = InitialStatus /\ moves[Len(moves)].to = s
          /\ \A i \in 1 .. Len(moves) - 1 : moves[i + 1].from = moves[i].to
      BY <1>3 DEF Chained
    <2> HIDE DEF longer
    <2>3. \A i \in 1 .. Len(longer) - 1 : longer[i + 1].from = longer[i].to
      BY <1>1, <2>1, <2>2
    <2>4. longer[1].from = InitialStatus /\ longer[Len(longer)].to = entry.to
      BY <1>1, <2>1, <2>2
    <2>5. Chained(longer, entry.to)
      BY <1>1, <2>3, <2>4 DEF Chained
    <2> QED BY <2>5 DEF longer
  <1> QED BY <1>2, <1>3

(* So every move of a lifecycle keeps the moves of the cases chained.       *)
LEMMA RecordChains ==
  ASSUME ObjectsOK, MovesChain, NEW c \in Cases, NEW kind, NEW user, NEW to,
         Lifecycle!Record(c, kind, user, to)
  PROVE  MovesChain'
  <1>1. PICK entry : entry = MoveEntry(kind, user, stored[c].status, to)
    OBVIOUS
  <1>2. /\ stored'[c].status = to
        /\ \A d \in Cases \ {c} : stored'[d].status = stored[d].status
    <2>1. \A d \in Cases : [x \in Cases |-> stored'[x].status][d]
            = [[x \in Cases |-> stored[x].status] EXCEPT ![c] = to][d]
      BY DEF Lifecycle!Record
    <2> QED BY <2>1
  <1>3. written' = [written EXCEPT ![c] = Append(@, entry)]
    BY <1>1 DEF Lifecycle!Record, Lifecycle!MoveEntry, MoveEntry
  <1>4. entry.from = stored[c].status /\ entry.to = to
    BY <1>1 DEF MoveEntry
  <1>5. ASSUME NEW d \in Cases
        PROVE  Chained(written'[d], stored'[d].status)
    <2>1. PICK moves \in Seq(Entry), s \in Statuses :
                 moves = written[d] /\ s = stored[d].status
      BY DEF ObjectsOK, CaseObject
    <2>2. Chained(moves, s)
      BY <2>1 DEF MovesChain
    <2>3. CASE d = c
      <3>1. Chained(Append(moves, entry), entry.to)
        BY <1>4, <2>1, <2>2, <2>3, ChainGrows
      <3>2. written'[d] = Append(moves, entry) /\ stored'[d].status = entry.to
        BY <1>2, <1>3, <1>4, <2>1, <2>3 DEF ObjectsOK
      <3> QED BY <3>1, <3>2
    <2>4. CASE d # c
      <3>1. written'[d] = moves /\ stored'[d].status = s
        BY <1>2, <1>3, <2>1, <2>4 DEF ObjectsOK
      <3> QED BY <2>2, <3>1
    <2> QED BY <2>3, <2>4
  <1> QED BY <1>5 DEF MovesChain

(* Two requests never both move a case out of the same visit to a status:   *)
(* the moves of every case chain, when the store checks versions.           *)
THEOREM CasesMoveInChains ==
  ASSUME StoreChecksVersion = TRUE
  PROVE  Spec => []MovesChain
  <1>1. Init => MovesChain
    <2>1. ASSUME Init, NEW c \in Cases
          PROVE  written[c] = <<>> /\ stored[c].status = InitialStatus
      BY <2>1 DEF Init
    <2> QED BY <2>1 DEF MovesChain, Chained
  <1>2. ASSUME Inv, [Next]_vars, MovesChain
        PROVE  MovesChain'
    <2>0. ObjectsOK
      BY <1>2 DEF Inv, TypeInv
    <2>1. CASE UNCHANGED Lifecycle!lifecycleVars
      <3>1. written' = written
        BY <2>1 DEF Lifecycle!lifecycleVars
      <3>2. \A c \in Cases : [d \in Cases |-> stored'[d].status][c]
                            = [d \in Cases |-> stored[d].status][c]
        BY <2>1 DEF Lifecycle!lifecycleVars
      <3>3. \A c \in Cases : stored'[c].status = stored[c].status
        BY <3>2
      <3> QED BY <1>2, <3>1, <3>3 DEF MovesChain
    <2>2. ASSUME NEW c \in Cases, NEW u \in Users, NEW t \in Transitions,
                 Lifecycle!Move(c, t, u) \/ Lifecycle!EffectMove(c, t, u)
          PROVE  MovesChain'
      BY <1>2, <2>0, <2>2, RecordChains DEF Lifecycle!Move, Lifecycle!EffectMove
    <2>3. ASSUME NEW c \in Cases, NEW u \in Users, NEW s \in Statuses,
                 Lifecycle!FreeMove(c, s, u)
          PROVE  MovesChain'
      BY <1>2, <2>0, <2>3, RecordChains DEF Lifecycle!FreeMove
    <2>4. ASSUME NEW c \in Cases, NEW value \in BOOLEAN, Lifecycle!EditField(c, value)
          PROVE  MovesChain'
      <3>1. /\ written' = written
            /\ \A d \in Cases : [x \in Cases |-> stored'[x].status][d]
                              = [x \in Cases |-> stored[x].status][d]
        BY <2>4 DEF Lifecycle!EditField
      <3>2. \A d \in Cases : stored'[d].status = stored[d].status
        BY <3>1
      <3> QED BY <1>2, <3>1, <3>2 DEF MovesChain
    <2>5. [Lifecycle!Next]_(Lifecycle!lifecycleVars)
      BY <1>2, StepRefines
    <2> QED BY <2>1, <2>2, <2>3, <2>4, <2>5 DEF Lifecycle!Next
  <1> QED BY <1>1, <1>2, Invariance, PTL DEF Spec
------------------------------------------------------------------------------
(* The request has written a statusRecord for the case.                     *)
Has(r, c) == \E i \in DOMAIN log : log[i].case = c /\ log[i].by = r

Recorded == {"dispatch", "effectSave", "persist"}

(* What a request has left is new to it: each case once, not reported, and  *)
(* without a record, but for the current case once that is recorded.        *)
LeftIsNew(r) ==
  /\ \A i, j \in 1 .. Len(todo[r]) : todo[r][i] = todo[r][j] => i = j
  /\ \A c \in Cases : \A i \in 1 .. Len(todo[r]) :
       todo[r][i] = c =>
         /\ outcome[r][c] = "none"
         /\ Has(r, c) <=> (i = 1 /\ pc[r] \in Recorded)

Truthful(r, c) ==
  /\ outcome[r][c] = "succeeded" => Has(r, c)
  /\ outcome[r][c] = "failed" => ~Has(r, c)

FaithfulOf(r) ==
  /\ pc[r] = "idle" => \A c \in Cases : outcome[r][c] = "none" /\ ~Has(r, c)
  /\ Served(r) => LeftIsNew(r)
  /\ \A c \in Cases : Truthful(r, c)

Faithful == \A r \in Requests : FaithfulOf(r)

(* A list of cases names none of them twice.                                *)
ListsAreSets ==
  \A list \in CaseLists :
    validateRequest(list) => \A i, j \in 1 .. Len(list) : list[i] = list[j] => i = j
-----------------------------------------------------------------------------
(* A new record adds to what its own request has for its own case.          *)
LEMMA HasGrows ==
  ASSUME ObjectsOK, NEW x, log' = Append(log, x)
  PROVE  \A r \in Requests, c \in Cases : Has(r, c)' <=> Has(r, c) \/ (x.case = c /\ x.by = r)
<1>1. /\ Len(log) \in Nat /\ DOMAIN log = 1 .. Len(log)
      /\ DOMAIN log' = 1 .. Len(log) + 1
      /\ log'[Len(log) + 1] = x
      /\ \A i \in 1 .. Len(log) : log'[i] = log[i]
  BY DEF ObjectsOK
<1> QED BY <1>1 DEF Has

(* Writing the action results back leaves the rest of a record as it is.    *)
LEMMA DispatchedOnly ==
  ASSUME ObjectsOK, NEW k, NEW d, log' = [log EXCEPT ![k].dispatched = d]
  PROVE  /\ DOMAIN log' = DOMAIN log
         /\ \A i \in DOMAIN log :
              /\ log'[i].case = log[i].case /\ log'[i].by = log[i].by
              /\ log'[i].kind = log[i].kind
              /\ log'[i].from = log[i].from /\ log'[i].to = log[i].to
<1>1. \A i \in DOMAIN log : log[i] \in Record
  BY DEF ObjectsOK
<1>2. ASSUME NEW i \in DOMAIN log
      PROVE  /\ log'[i].case = log[i].case /\ log'[i].by = log[i].by
             /\ log'[i].kind = log[i].kind
             /\ log'[i].from = log[i].from /\ log'[i].to = log[i].to
  <2>1. log'[i] = log[i] \/ log'[i] = [log[i] EXCEPT !.dispatched = d]
    OBVIOUS
  <2> QED BY <1>1, <2>1 DEF Record
<1> QED BY <1>2

(* What is true of a request that a step leaves alone stays true.           *)
LEMMA StaysFaithful ==
  ASSUME NEW q \in Requests, FaithfulOf(q),
         pc'[q] = pc[q], todo'[q] = todo[q], outcome'[q] = outcome[q],
         ProgressOK, Served(q) => todo[q] \in Seq(Cases),
         \A c \in Cases : Has(q, c)' <=> Has(q, c)
  PROVE  FaithfulOf(q)'
<1>1. Served(q)' <=> Served(q)
  BY DEF Served
<1>2. Served(q) => \A i \in 1 .. Len(todo[q]) : todo[q][i] \in Cases
  OBVIOUS
<1>3. Served(q) => LeftIsNew(q)'
  BY <1>2 DEF FaithfulOf, LeftIsNew
<1> QED BY <1>1, <1>3 DEF FaithfulOf, Truthful

(* The cases a request has left, its current one first.                     *)
LEMMA TodoParts ==
  ASSUME ProgressOK, NEW r \in Requests, Served(r)
  PROVE  /\ todo[r] \in Seq(Cases) /\ Len(todo[r]) \in Nat \ {0}
         /\ Current(r) = todo[r][1] /\ Current(r) \in Cases
         /\ \A i \in 1 .. Len(todo[r]) : todo[r][i] \in Cases
         /\ Len(Tail(todo[r])) = Len(todo[r]) - 1
         /\ \A i \in 1 .. Len(todo[r]) - 1 : Tail(todo[r])[i] = todo[r][i + 1]
BY DEF ProgressOK, Current

(* Reporting the current case, with a record for it or not as the result    *)
(* says, leaves the other cases of the list as they were.                   *)
LEMMA ReportFaithful ==
  ASSUME ProgressOK, NEW r \in Requests, FaithfulOf(r), Served(r),
         NEW cur \in Cases, cur = Current(r), NEW result \in Outcome, Report(r, result),
         \A c \in Cases : c # cur => (Has(r, c)' <=> Has(r, c)),
         result = "succeeded" => Has(r, cur)',
         result = "failed" => ~Has(r, cur)'
  PROVE  FaithfulOf(r)'
<1> DEFINE n == Len(todo[r])
<1>1. cur = todo[r][1]
  BY TodoParts
<1>2. /\ todo'[r] = Tail(todo[r])
      /\ pc'[r] \in {"done", "load"}
      /\ outcome'[r][cur] = result
      /\ \A c \in Cases : c # cur => outcome'[r][c] = outcome[r][c]
  BY <1>1 DEF Report, ProgressOK
<1>3. /\ n \in Nat \ {0}
      /\ Len(todo'[r]) = n - 1
      /\ \A i \in 1 .. n - 1 : todo'[r][i] = todo[r][i + 1]
      /\ \A i \in 1 .. n : todo[r][i] \in Cases
  BY <1>2, TodoParts
<1>4. LeftIsNew(r)
  BY DEF FaithfulOf
<1>5. ASSUME NEW c \in Cases, NEW i \in 1 .. n - 1, todo'[r][i] = c
      PROVE  c # cur /\ outcome[r][c] = "none" /\ ~Has(r, c)
  <2>1. i + 1 \in 1 .. n /\ 1 \in 1 .. n /\ todo[r][i + 1] = c /\ i + 1 # 1
    BY <1>3, <1>5
  <2> QED BY <1>1, <1>4, <2>1 DEF LeftIsNew
<1>6. LeftIsNew(r)'
  <2>1. \A i, j \in 1 .. n - 1 : todo'[r][i] = todo'[r][j] => i = j
    <3>1. ASSUME NEW i \in 1 .. n - 1, NEW j \in 1 .. n - 1, todo'[r][i] = todo'[r][j]
          PROVE  i = j
      <4>1. /\ i + 1 \in 1 .. n /\ j + 1 \in 1 .. n
            /\ todo[r][i + 1] = todo[r][j + 1]
        BY <1>3, <3>1
      <4>2. i + 1 = j + 1
        BY <1>4, <4>1 DEF LeftIsNew
      <4> QED BY <1>3, <4>2
    <3> QED BY <3>1
  <2>2. ASSUME NEW c \in Cases, NEW i \in 1 .. n - 1, todo'[r][i] = c
        PROVE  outcome'[r][c] = "none" /\ ~Has(r, c)'
    BY <1>1, <1>2, <1>5, <2>2
  <2>3. ~(pc'[r] \in Recorded)
    BY <1>2 DEF Recorded
  <2> HIDE DEF n
  <2> QED BY <1>3, <2>1, <2>2, <2>3 DEF LeftIsNew
<1>7. ASSUME NEW c \in Cases PROVE Truthful(r, c)'
  <2>1. CASE c = cur
    BY <1>1, <1>2, <2>1 DEF Truthful
  <2>2. CASE c # cur
    BY <1>1, <1>2, <2>2 DEF Truthful, FaithfulOf
  <2> QED BY <2>1, <2>2
<1> QED BY <1>2, <1>6, <1>7 DEF FaithfulOf

(* A request that goes on has a record for its current case exactly in the  *)
(* stages after that was written; one that dies leaves what it has.         *)
LEMMA GotoFaithful ==
  ASSUME ProgressOK, NEW r \in Requests, FaithfulOf(r), Served(r),
         NEW cur \in Cases, cur = Current(r), NEW stage, stage # "idle", Goto(r, stage),
         \A c \in Cases : c # cur => (Has(r, c)' <=> Has(r, c)),
         stage = "crashed" => (Has(r, cur)' <=> Has(r, cur)),
         stage # "crashed" => (Has(r, cur)' <=> stage \in Recorded)
  PROVE  FaithfulOf(r)'
<1>1. cur = todo[r][1]
  BY TodoParts
<1>2. todo' = todo /\ outcome' = outcome /\ pc'[r] = stage
  BY DEF Goto, ProgressOK
<1>3. /\ Len(todo[r]) \in Nat \ {0}
      /\ \A i \in 1 .. Len(todo[r]) : todo[r][i] \in Cases
  BY TodoParts
<1>4. LeftIsNew(r)
  BY DEF FaithfulOf
<1>5. outcome[r][cur] = "none"
  BY <1>1, <1>3, <1>4 DEF LeftIsNew
<1>6. ASSUME stage # "crashed" PROVE LeftIsNew(r)'
  <2>1. ASSUME NEW c \in Cases, NEW i \in 1 .. Len(todo[r]), todo[r][i] = c
        PROVE  outcome[r][c] = "none" /\ (Has(r, c)' <=> (i = 1 /\ stage \in Recorded))
    <3>1. CASE i = 1
      BY <1>1, <1>5, <1>6, <2>1, <3>1
    <3>2. CASE i # 1
      <4>1. c # cur
        BY <1>1, <1>3, <1>4, <2>1, <3>2 DEF LeftIsNew
      <4>2. ~Has(r, c) /\ outcome[r][c] = "none"
        BY <1>4, <2>1, <3>2 DEF LeftIsNew
      <4> QED BY <1>1, <3>2, <4>1, <4>2
    <3> QED BY <3>1, <3>2
  <2> QED BY <1>2, <1>4, <2>1 DEF LeftIsNew
<1>7. ASSUME NEW c \in Cases PROVE Truthful(r, c)'
  <2>1. CASE c = cur
    BY <1>2, <1>5, <2>1 DEF Truthful
  <2>2. CASE c # cur
    BY <1>1, <1>2, <2>2 DEF Truthful, FaithfulOf
  <2> QED BY <2>1, <2>2
<1> QED BY <1>2, <1>6, <1>7 DEF FaithfulOf, Served, Terminal
-----------------------------------------------------------------------------
(* What a request has is not touched while the log stays or gets a record   *)
(* of another one.                                                          *)
LEMMA OthersFaithful ==
  ASSUME TypeInv, Faithful, NEW r \in Requests,
         \A q \in Requests : q # r => /\ pc'[q] = pc[q] /\ todo'[q] = todo[q]
                                    /\ outcome'[q] = outcome[q]
                                    /\ \A c \in Cases : Has(q, c)' <=> Has(q, c),
         FaithfulOf(r)'
  PROVE  Faithful'
<1>1. ASSUME NEW q \in Requests, q # r PROVE FaithfulOf(q)'
  BY <1>1, StaysFaithful DEF TypeInv, ProgressOK, Faithful
<1> QED BY <1>1 DEF Faithful

(* Reporting and going on are things a request does to itself only.         *)
LEMMA OnlyItself ==
  ASSUME ProgressOK, NEW r \in Requests,
         \/ \E result : Report(r, result)
         \/ \E stage : Goto(r, stage)
  PROVE  \A q \in Requests : q # r => /\ pc'[q] = pc[q] /\ todo'[q] = todo[q]
                                     /\ outcome'[q] = outcome[q]
BY DEF ProgressOK, Report, Goto

(* A step of a request that reports, or goes on without a new record.       *)
LEMMA PlainFaithful ==
  ASSUME TypeInv, Faithful, NEW r \in Requests, Served(r), pc[r] \notin Recorded,
         \A q \in Requests, c \in Cases : Has(q, c)' <=> Has(q, c),
         \/ \E result \in {"failed", "error"} : Report(r, result)
         \/ \E stage \in Stage \ ({"idle"} \cup Recorded) : Goto(r, stage)
  PROVE  Faithful'
<1>1. ProgressOK /\ FaithfulOf(r) /\ LeftIsNew(r)
  BY DEF TypeInv, Faithful, FaithfulOf
<1>2. PICK cur \in Cases : cur = Current(r) /\ cur = todo[r][1] /\ 1 \in 1 .. Len(todo[r])
  BY <1>1, TodoParts
<1>3. ~Has(r, cur)
  BY <1>1, <1>2 DEF LeftIsNew
<1>4. FaithfulOf(r)'
  <2>1. ASSUME NEW result \in {"failed", "error"}, Report(r, result) PROVE FaithfulOf(r)'
    BY <1>1, <1>2, <1>3, <2>1, ReportFaithful DEF Outcome
  <2>2. ASSUME NEW stage \in Stage \ ({"idle"} \cup Recorded), Goto(r, stage) PROVE FaithfulOf(r)'
    BY <1>1, <1>2, <1>3, <2>2, GotoFaithful
  <2> QED BY <2>1, <2>2
<1>5. \A q \in Requests : q # r => /\ pc'[q] = pc[q] /\ todo'[q] = todo[q]
                                  /\ outcome'[q] = outcome[q]
  BY <1>1, OnlyItself
<1> QED BY <1>4, <1>5, OthersFaithful

(* The log is as it was, or its records but for what was dispatched.        *)
LEMMA HasStays ==
  ASSUME UNCHANGED log
  PROVE  \A q \in Requests, c \in Cases : Has(q, c)' <=> Has(q, c)
BY DEF Has

(* No step reports what the request has not done.                           *)
LEMMA FaithfulStep ==
  ASSUME ListsAreSets, TypeInv, Faithful, [Next]_vars
  PROVE  Faithful'
<1>0. ObjectsOK /\ ProgressOK /\ CheckedInv
  BY DEF TypeInv
<1>1. ASSUME NEW r \in Requests, NEW list \in Seq(Cases), pc[r] = "idle",
             pc'[r] = "load" => /\ todo'[r] = list
                                /\ \A i, j \in 1 .. Len(list) : list[i] = list[j] => i = j,
             pc' = [pc EXCEPT ![r] = pc'[r]], pc'[r] \in {"load", "rejected"},
             todo' = [todo EXCEPT ![r] = todo'[r]], UNCHANGED <<log, outcome>>
      PROVE  Faithful'
  <2>1. FaithfulOf(r)
    BY DEF Faithful
  <2>2. \A q \in Requests, c \in Cases : Has(q, c)' <=> Has(q, c)
    BY <1>1, HasStays
  <2>3. \A c \in Cases : outcome'[r][c] = "none" /\ ~Has(r, c)'
    BY <1>1, <2>1, <2>2 DEF FaithfulOf
  <2>4. pc'[r] = "load" => LeftIsNew(r)'
    BY <1>1, <2>3 DEF LeftIsNew, Recorded
  <2>5. FaithfulOf(r)'
    BY <1>1, <2>3, <2>4 DEF FaithfulOf, Truthful, Served, Terminal
  <2>6. \A q \in Requests : q # r => /\ pc'[q] = pc[q] /\ todo'[q] = todo[q]
                                    /\ outcome'[q] = outcome[q]
    BY <1>0, <1>1 DEF ProgressOK
  <2> QED BY <2>2, <2>5, <2>6, OthersFaithful
<1>2. ASSUME NEW r \in Requests, NEW list \in CaseLists, SubmitExecute(r, list)
      PROVE  Faithful'
  <2>1. list \in Seq(Cases)
    BY StatusTransitionAssumption
  <2>2. /\ pc[r] = "idle"
        /\ pc'[r] = "load" => /\ todo'[r] = list
                              /\ \A i, j \in 1 .. Len(list) : list[i] = list[j] => i = j
        /\ pc' = [pc EXCEPT ![r] = pc'[r]] /\ pc'[r] \in {"load", "rejected"}
        /\ todo' = [todo EXCEPT ![r] = todo'[r]] /\ UNCHANGED <<log, outcome>>
    BY <1>0, <1>2 DEF SubmitExecute, ProgressOK, ListsAreSets
  <2> QED BY <1>1, <2>1, <2>2
<1>3. ASSUME NEW r \in Requests, NEW c \in Cases, SubmitFree(r, c)
      PROVE  Faithful'
  <2>1. <<c>> \in Seq(Cases) /\ \A i, j \in 1 .. Len(<<c>>) : <<c>>[i] = <<c>>[j] => i = j
    OBVIOUS
  <2>2. /\ pc[r] = "idle"
        /\ pc'[r] = "load" => todo'[r] = <<c>>
        /\ pc' = [pc EXCEPT ![r] = pc'[r]] /\ pc'[r] \in {"load", "rejected"}
        /\ todo' = [todo EXCEPT ![r] = todo'[r]] /\ UNCHANGED <<log, outcome>>
    BY <1>0, <1>3 DEF SubmitFree, ProgressOK
  <2> QED BY <1>1, <2>1, <2>2
<1>4. ASSUME NEW r \in Requests,
             \/ loadCase(r) \/ assertTransitionAllowed(r) \/ assertNoConcurrentChange(r)
             \/ saveCase(r) \/ assertStatusBelongsToCaseType(r) \/ saveFreeForm(r)
             \/ StoreThrows(r)
      PROVE  Faithful'
  <2>1. Served(r) /\ pc[r] \notin Recorded /\ UNCHANGED log
    BY <1>4 DEF Served, Terminal, Recorded, loadCase, assertTransitionAllowed,
                assertNoConcurrentChange, saveCase, assertStatusBelongsToCaseType,
                saveFreeForm, StoreThrows
  <2>2. \/ \E result \in {"failed", "error"} : Report(r, result)
        \/ \E stage \in Stage \ ({"idle"} \cup Recorded) : Goto(r, stage)
    <3>1. {"evaluate", "freeCheck", "recheck", "save", "record", "freeSave", "freeRecord"}
            \subseteq Stage \ ({"idle"} \cup Recorded)
      BY DEF Stage, Recorded
    <3> QED
      BY <1>4, <3>1 DEF loadCase, assertTransitionAllowed, assertNoConcurrentChange,
                        saveCase, assertStatusBelongsToCaseType, saveFreeForm, StoreThrows
  <2> QED BY <2>1, <2>2, HasStays, PlainFaithful
<1>5. ASSUME NEW r \in Requests, Crash(r) PROVE Faithful'
  <2>1. Served(r) /\ UNCHANGED log /\ Goto(r, "crashed")
    BY <1>5 DEF Crash, Served
  <2>2. PICK cur \in Cases : cur = Current(r)
    BY <1>0, <2>1, TodoParts
  <2>3. \A q \in Requests, c \in Cases : Has(q, c)' <=> Has(q, c)
    BY <2>1, HasStays
  <2>4. FaithfulOf(r)'
    BY <1>0, <2>1, <2>2, <2>3, GotoFaithful DEF Faithful
  <2> QED BY <1>0, <2>1, <2>3, <2>4, OnlyItself, OthersFaithful
<1>6. ASSUME NEW r \in Requests, NEW kind, NEW to,
             log' = Append(log, StatusRecord(r, kind, to)), Served(r)
      PROVE  \A q \in Requests, c \in Cases :
               Has(q, c)' <=> Has(q, c) \/ (q = r /\ c = Current(r))
  <2>1. StatusRecord(r, kind, to).case = Current(r) /\ StatusRecord(r, kind, to).by = r
    BY DEF StatusRecord
  <2> QED BY <1>0, <1>6, <2>1, HasGrows
<1>7. ASSUME NEW r \in Requests, writeStatusRecord(r) PROVE Faithful'
  <2>1. Served(r) /\ Goto(r, "dispatch")
    BY <1>7 DEF writeStatusRecord, Served, Terminal
  <2>2. PICK cur \in Cases : cur = Current(r)
    BY <1>0, <2>1, TodoParts
  <2>3. \A q \in Requests, c \in Cases : Has(q, c)' <=> Has(q, c) \/ (q = r /\ c = cur)
    BY <1>6, <1>7, <2>1, <2>2 DEF writeStatusRecord
  <2>4. FaithfulOf(r)'
    BY <1>0, <2>1, <2>2, <2>3, GotoFaithful DEF Faithful, Recorded
  <2> QED BY <1>0, <2>1, <2>3, <2>4, OnlyItself, OthersFaithful
<1>8. ASSUME NEW r \in Requests, recordFreeForm(r) PROVE Faithful'
  <2>1. Served(r) /\ Report(r, "succeeded")
    BY <1>8 DEF recordFreeForm, Served, Terminal
  <2>2. PICK cur \in Cases : cur = Current(r)
    BY <1>0, <2>1, TodoParts
  <2>3. \A q \in Requests, c \in Cases : Has(q, c)' <=> Has(q, c) \/ (q = r /\ c = cur)
    BY <1>6, <1>8, <2>1, <2>2 DEF recordFreeForm
  <2>4. FaithfulOf(r)'
    BY <1>0, <2>1, <2>2, <2>3, ReportFaithful DEF Faithful, Outcome
  <2> QED BY <1>0, <2>1, <2>3, <2>4, OnlyItself, OthersFaithful
<1>9. ASSUME NEW r \in Requests, pc[r] \in Recorded, Served(r),
             \A q \in Requests, c \in Cases : Has(q, c)' <=> Has(q, c),
             Goto(r, "persist") \/ Goto(r, "effectSave") \/ Report(r, "succeeded")
      PROVE  Faithful'
  <2>1. PICK cur \in Cases : cur = Current(r) /\ cur = todo[r][1] /\ 1 \in 1 .. Len(todo[r])
    BY <1>0, <1>9, TodoParts
  <2>2. Has(r, cur)
    BY <1>9, <2>1 DEF Faithful, FaithfulOf, LeftIsNew
  <2>3. FaithfulOf(r)'
    BY <1>0, <1>9, <2>1, <2>2, GotoFaithful, ReportFaithful DEF Faithful, Outcome, Recorded
  <2> QED BY <1>0, <1>9, <2>3, OnlyItself, OthersFaithful
<1>10. ASSUME NEW r \in Requests, dispatch(r) \/ findStored(r) \/ saveStored(r)
       PROVE  Faithful'
  BY <1>9, <1>10, HasStays DEF dispatch, findStored, saveStored, Served, Terminal, Recorded
<1>11. ASSUME NEW r \in Requests, persistDispatchedActions(r) PROVE Faithful'
  <2>1. \A q \in Requests, c \in Cases : Has(q, c)' <=> Has(q, c)
    <3>1. CASE UNCHANGED log
      BY <3>1, HasStays
    <3>2. CASE log' = [log EXCEPT ![rec[r]].dispatched = dispatched[r]]
      <4>1. /\ DOMAIN log' = DOMAIN log
            /\ \A i \in DOMAIN log : log'[i].case = log[i].case /\ log'[i].by = log[i].by
        BY <1>0, <3>2, DispatchedOnly
      <4> QED BY <4>1 DEF Has
    <3> QED BY <1>11, <3>1, <3>2 DEF persistDispatchedActions
  <2> QED BY <1>9, <1>11, <2>1 DEF persistDispatchedActions, Served, Terminal, Recorded
<1>12. ASSUME UNCHANGED <<log, pc, todo, outcome>> PROVE Faithful'
  <2>1. \A q \in Requests, c \in Cases : Has(q, c)' <=> Has(q, c)
    BY <1>12, HasStays
  <2>2. ASSUME NEW q \in Requests PROVE FaithfulOf(q)'
    BY <1>0, <1>12, <2>1, StaysFaithful DEF ProgressOK, Faithful
  <2> QED BY <2>2 DEF Faithful
<1>13. ASSUME NEW c \in Cases, EditCase(c) \/ TickChecklist(c) PROVE Faithful'
  BY <1>12, <1>13 DEF EditCase, TickChecklist, reqVars
<1>14. CASE UNCHANGED vars
  BY <1>12, <1>14 DEF vars, reqVars
<1> QED BY <1>2, <1>3, <1>4, <1>5, <1>7, <1>8, <1>10, <1>11, <1>13, <1>14 DEF Next, Serve

(* When no list names a case twice, every result is true, whatever lists,   *)
(* requests, exceptions and crashes interleave: a case reported as          *)
(* succeeded has the request's statusRecord, one whose guards failed none.  *)
THEOREM ResultsAreTrue ==
  ASSUME ListsAreSets
  PROVE  Spec => []ReportsAreFaithful
<1>1. Init => Faithful
  <2> SUFFICES ASSUME Init, NEW r \in Requests PROVE FaithfulOf(r)
    BY DEF Faithful
  <2>1. pc[r] = "idle" /\ DOMAIN log = {}
    BY DEF Init
  <2>2. \A c \in Cases : outcome[r][c] = "none"
    BY DEF Init
  <2>3. \A c \in Cases : ~Has(r, c)
    BY <2>1 DEF Has
  <2> QED BY <2>1, <2>2, <2>3 DEF FaithfulOf, Served, Truthful
<1>2. Faithful => ReportsAreFaithful
  <2> SUFFICES ASSUME Faithful, NEW r \in Requests, NEW c \in Cases
      PROVE  LET mine == {i \in DOMAIN log : log[i].case = c /\ log[i].by = r}
             IN /\ outcome[r][c] = "succeeded" => mine # {}
                /\ outcome[r][c] = "failed" => mine = {}
    BY DEF ReportsAreFaithful
  <2>1. Truthful(r, c)
    BY DEF Faithful, FaithfulOf
  <2> QED BY <2>1 DEF Truthful, Has
<1>3. TypeInv /\ Faithful /\ [Next]_vars => (TypeInv /\ Faithful)'
  BY TypeStep, FaithfulStep
<1> QED BY <1>1, <1>2, <1>3, TypeInit, PTL DEF Spec
-----------------------------------------------------------------------------
(* The trail.  A request that has moved a case and not yet recorded it owes *)
(* a record, of this kind, from and to.                                     *)
Kinds == [kind : {"transition", "free"}, from : Statuses, to : Statuses]

Owes(r, c, e) ==
  /\ Current(r) = c /\ snap[r].status = e.from
  /\ \/ pc[r] = "record" /\ e.kind = "transition" /\ To[call[r].transition] = e.to
     \/ pc[r] = "freeRecord" /\ e.kind = "free" /\ call[r].to = e.to

Owed(c, e) == {r \in Requests : Owes(r, c, e)}

(* Records there are and records owed are no more than the moves made.      *)
Covered(c, e) ==
  /\ IsFiniteSet(Owed(c, e))
  /\ Cardinality(RecordsOf(c, e)) + Cardinality(Owed(c, e)) <= Cardinality(MovesLike(c, e))

Trail == \A c \in Cases, e \in Kinds : Covered(c, e)

(* The positions of a sequence that meet a condition are finitely many.     *)
LEMMA FinitePlaces ==
  ASSUME ObjectsOK, NEW c \in Cases, NEW e
  PROVE  /\ IsFiniteSet(RecordsOf(c, e)) /\ IsFiniteSet(MovesLike(c, e))
         /\ Cardinality(RecordsOf(c, e)) \in Nat /\ Cardinality(MovesLike(c, e)) \in Nat
<1>1. /\ DOMAIN log = 1 .. Len(log) /\ Len(log) \in Nat
      /\ DOMAIN written[c] = 1 .. Len(written[c]) /\ Len(written[c]) \in Nat
  BY DEF ObjectsOK
<1>2. IsFiniteSet(1 .. Len(log)) /\ IsFiniteSet(1 .. Len(written[c]))
  BY <1>1, FS_Interval
<1>3. RecordsOf(c, e) \subseteq 1 .. Len(log) /\ MovesLike(c, e) \subseteq 1 .. Len(written[c])
  BY <1>1 DEF RecordsOf, MovesLike
<1>4. IsFiniteSet(RecordsOf(c, e)) /\ IsFiniteSet(MovesLike(c, e))
  BY <1>2, <1>3, FS_Subset
<1> QED BY <1>4, FS_CardinalityType

(* One element more or less, or none.                                       *)
LEMMA OneMore ==
  ASSUME NEW S, IsFiniteSet(S), NEW x, x \notin S
  PROVE  IsFiniteSet(S \cup {x}) /\ Cardinality(S \cup {x}) = Cardinality(S) + 1
BY FS_AddElement

(* Paying a debt leaves one fewer.                                         *)
LEMMA OneLess ==
  ASSUME NEW S, IsFiniteSet(S), NEW x, x \in S
  PROVE  IsFiniteSet(S \ {x}) /\ Cardinality(S \ {x}) = Cardinality(S) - 1
BY FS_RemoveElement

(* A new record is counted where it belongs, and nowhere else.              *)
LEMMA RecordCounted ==
  ASSUME ObjectsOK, NEW x, log' = Append(log, x), NEW c \in Cases, NEW e
  PROVE  Cardinality(RecordsOf(c, e))' =
           Cardinality(RecordsOf(c, e)) +
             (IF x.case = c /\ x.kind = e.kind /\ x.from = e.from /\ x.to = e.to THEN 1 ELSE 0)
<1>1. /\ Len(log) \in Nat /\ DOMAIN log = 1 .. Len(log)
      /\ DOMAIN log' = 1 .. Len(log) + 1
      /\ log'[Len(log) + 1] = x
      /\ \A i \in 1 .. Len(log) : log'[i] = log[i]
  BY DEF ObjectsOK
<1>2. Len(log) + 1 \notin RecordsOf(c, e)
  BY <1>1 DEF RecordsOf
<1>3. IsFiniteSet(RecordsOf(c, e)) /\ Cardinality(RecordsOf(c, e)) \in Nat
  BY FinitePlaces
<1>4. CASE x.case = c /\ x.kind = e.kind /\ x.from = e.from /\ x.to = e.to
  <2>1. RecordsOf(c, e)' = RecordsOf(c, e) \cup {Len(log) + 1}
    BY <1>1, <1>4 DEF RecordsOf
  <2> QED BY <1>2, <1>3, <1>4, <2>1, OneMore
<1>5. CASE ~(x.case = c /\ x.kind = e.kind /\ x.from = e.from /\ x.to = e.to)
  <2>1. RecordsOf(c, e)' = RecordsOf(c, e)
    BY <1>1, <1>5 DEF RecordsOf
  <2> QED BY <1>3, <1>5, <2>1
<1> QED BY <1>4, <1>5

(* So is a new move.                                                        *)
LEMMA MoveCounted ==
  ASSUME ObjectsOK, NEW d \in Cases, NEW kind, NEW user, NEW from, NEW to,
         Wrote(d, kind, user, from, to), NEW c \in Cases, NEW e
  PROVE  Cardinality(MovesLike(c, e))' =
           Cardinality(MovesLike(c, e)) +
             (IF d = c /\ kind = e.kind /\ from = e.from /\ to = e.to THEN 1 ELSE 0)
<1> DEFINE x == MoveEntry(kind, user, from, to)
<1>1. x.kind = kind /\ x.from = from /\ x.to = to
  BY DEF MoveEntry
<1>2. IsFiniteSet(MovesLike(c, e)) /\ Cardinality(MovesLike(c, e)) \in Nat
  BY FinitePlaces
<1>3. written' = [written EXCEPT ![d] = Append(@, x)]
  BY DEF Wrote
<1> HIDE DEF x
<1>4. CASE d # c
  <2>1. written'[c] = written[c]
    BY <1>3, <1>4 DEF ObjectsOK
  <2>2. MovesLike(c, e)' = MovesLike(c, e)
    BY <2>1 DEF MovesLike
  <2> QED BY <1>2, <1>4, <2>2
<1>5. CASE d = c
  <2>1. written'[c] = Append(written[c], x) /\ written[c] \in Seq(Entry)
    BY <1>3, <1>5 DEF ObjectsOK
  <2>2. /\ Len(written[c]) \in Nat /\ DOMAIN written[c] = 1 .. Len(written[c])
        /\ DOMAIN written'[c] = 1 .. Len(written[c]) + 1
        /\ written'[c][Len(written[c]) + 1] = x
        /\ \A i \in 1 .. Len(written[c]) : written'[c][i] = written[c][i]
    BY <2>1
  <2> DEFINE Like(y) == y.kind = e.kind /\ y.from = e.from /\ y.to = e.to
  <2>a. /\ MovesLike(c, e) = {i \in 1 .. Len(written[c]) : Like(written[c][i])}
        /\ MovesLike(c, e)' = {i \in 1 .. Len(written[c]) + 1 : Like(written'[c][i])}
    BY <2>2 DEF MovesLike
  <2>b. Like(x) <=> kind = e.kind /\ from = e.from /\ to = e.to
    BY <1>1
  <2> HIDE DEF Like
  <2>3. Len(written[c]) + 1 \notin MovesLike(c, e)
    BY <2>2, <2>a
  <2>4. CASE kind = e.kind /\ from = e.from /\ to = e.to
    <3>1. MovesLike(c, e)' = MovesLike(c, e) \cup {Len(written[c]) + 1}
      BY <2>2, <2>4, <2>a, <2>b
    <3> QED BY <1>2, <1>5, <2>3, <2>4, <3>1, OneMore
  <2>5. CASE ~(kind = e.kind /\ from = e.from /\ to = e.to)
    <3>1. MovesLike(c, e)' = MovesLike(c, e)
      BY <2>2, <2>5, <2>a, <2>b
    <3> QED BY <1>2, <1>5, <2>5, <3>1
  <2> QED BY <2>4, <2>5
<1> QED BY <1>4, <1>5
-----------------------------------------------------------------------------
(* Where a request has moved its case and not yet recorded it.              *)
Owing == {"record", "freeRecord"}

(* Only what a request itself does changes what it owes.                    *)
LEMMA OwesAsBefore ==
  ASSUME NEW q \in Requests, NEW c, NEW e,
         pc'[q] = pc[q], todo'[q] = todo[q], snap'[q] = snap[q], call' = call
  PROVE  Owes(q, c, e)' <=> Owes(q, c, e)
BY DEF Owes, Current

(* Nothing that is recorded or moved goes away, and a request that does not *)
(* come to owe anything leaves the trail covered.                           *)
LEMMA StaysCovered ==
  ASSUME ObjectsOK, ObjectsOK', Trail, NEW r \in Requests,
         \A q \in Requests : q # r =>
           pc'[q] = pc[q] /\ todo'[q] = todo[q] /\ snap'[q] = snap[q],
         call' = call, pc'[r] \notin Owing,
         \A c \in Cases, e \in Kinds :
           /\ Cardinality(RecordsOf(c, e))' = Cardinality(RecordsOf(c, e))
           /\ Cardinality(MovesLike(c, e))' = Cardinality(MovesLike(c, e))
  PROVE  Trail'
<1> SUFFICES ASSUME NEW c \in Cases, NEW e \in Kinds PROVE Covered(c, e)'
  BY DEF Trail
<1>1. Covered(c, e)
  BY DEF Trail
<1>2. Owed(c, e)' \subseteq Owed(c, e)
  <2>1. ~Owes(r, c, e)'
    BY DEF Owes, Owing
  <2>2. \A q \in Requests : q # r => (Owes(q, c, e)' <=> Owes(q, c, e))
    BY OwesAsBefore
  <2> QED BY <2>1, <2>2 DEF Owed
<1>3. /\ IsFiniteSet(Owed(c, e)') /\ Cardinality(Owed(c, e)') <= Cardinality(Owed(c, e))
      /\ Cardinality(Owed(c, e)') \in Nat /\ Cardinality(Owed(c, e)) \in Nat
  BY <1>1, <1>2, FS_Subset, FS_CardinalityType DEF Covered
<1>4. Cardinality(RecordsOf(c, e)) \in Nat /\ Cardinality(MovesLike(c, e)) \in Nat
  BY FinitePlaces
<1>5. Cardinality(RecordsOf(c, e)) + Cardinality(Owed(c, e)) <= Cardinality(MovesLike(c, e))
  BY <1>1 DEF Covered
<1>6. Cardinality(RecordsOf(c, e)) + Cardinality(Owed(c, e)') <= Cardinality(MovesLike(c, e))
  BY <1>3, <1>4, <1>5
<1> QED BY <1>3, <1>6 DEF Covered

(* A move and the debt of its record come together.                         *)
LEMMA MoveOwes ==
  ASSUME ObjectsOK, Trail, NEW r \in Requests, NEW cur \in Cases, NEW k \in Kinds, NEW user,
         \A q \in Requests : q # r =>
           pc'[q] = pc[q] /\ todo'[q] = todo[q] /\ snap'[q] = snap[q],
         call' = call, log' = log, pc[r] \notin Owing,
         Wrote(cur, k.kind, user, k.from, k.to),
         \A c \in Cases, e \in Kinds :
           Owes(r, c, e)' <=> (c = cur /\ e.kind = k.kind /\ e.from = k.from /\ e.to = k.to)
  PROVE  Trail'
<1> SUFFICES ASSUME NEW c \in Cases, NEW e \in Kinds PROVE Covered(c, e)'
  BY DEF Trail
<1>1. /\ IsFiniteSet(Owed(c, e))
      /\ Cardinality(RecordsOf(c, e)) + Cardinality(Owed(c, e)) <= Cardinality(MovesLike(c, e))
  BY DEF Trail, Covered
<1>2. /\ Cardinality(RecordsOf(c, e)) \in Nat /\ Cardinality(MovesLike(c, e)) \in Nat
      /\ Cardinality(Owed(c, e)) \in Nat
  BY <1>1, FinitePlaces, FS_CardinalityType
<1>3. RecordsOf(c, e)' = RecordsOf(c, e)
  BY DEF RecordsOf
<1>4. \A q \in Requests : q # r => (Owes(q, c, e)' <=> Owes(q, c, e))
  BY OwesAsBefore
<1>5. r \notin Owed(c, e)
  BY DEF Owed, Owes, Owing
<1>6. Cardinality(MovesLike(c, e))' =
        Cardinality(MovesLike(c, e)) +
          (IF cur = c /\ k.kind = e.kind /\ k.from = e.from /\ k.to = e.to THEN 1 ELSE 0)
  BY MoveCounted
<1>7. CASE cur = c /\ k.kind = e.kind /\ k.from = e.from /\ k.to = e.to
  <2>1. Owed(c, e)' = Owed(c, e) \cup {r}
    BY <1>4, <1>7 DEF Owed
  <2>2. IsFiniteSet(Owed(c, e)') /\ Cardinality(Owed(c, e)') = Cardinality(Owed(c, e)) + 1
    BY <1>1, <1>5, <2>1, OneMore
  <2>3. Cardinality(MovesLike(c, e))' = Cardinality(MovesLike(c, e)) + 1
    BY <1>6, <1>7
  <2>4. Cardinality(RecordsOf(c, e)) + Cardinality(Owed(c, e)') <= Cardinality(MovesLike(c, e))'
    BY <1>1, <1>2, <2>2, <2>3
  <2> QED BY <1>3, <2>2, <2>4 DEF Covered
<1>8. CASE ~(cur = c /\ k.kind = e.kind /\ k.from = e.from /\ k.to = e.to)
  <2>1. Owed(c, e)' = Owed(c, e)
    BY <1>4, <1>5, <1>8 DEF Owed
  <2>2. Cardinality(MovesLike(c, e))' = Cardinality(MovesLike(c, e))
    BY <1>2, <1>6, <1>8
  <2> QED BY <1>1, <1>3, <2>1, <2>2 DEF Covered
<1> QED BY <1>7, <1>8

(* A record pays the debt of its move.                                      *)
LEMMA RecordPays ==
  ASSUME ObjectsOK, Trail, NEW r \in Requests, NEW x,
         \A q \in Requests : q # r =>
           pc'[q] = pc[q] /\ todo'[q] = todo[q] /\ snap'[q] = snap[q],
         call' = call, written' = written, pc'[r] \notin Owing,
         log' = Append(log, x),
         \A c \in Cases, e \in Kinds :
           Owes(r, c, e) <=> (x.case = c /\ x.kind = e.kind /\ x.from = e.from /\ x.to = e.to)
  PROVE  Trail'
<1> SUFFICES ASSUME NEW c \in Cases, NEW e \in Kinds PROVE Covered(c, e)'
  BY DEF Trail
<1>1. /\ IsFiniteSet(Owed(c, e))
      /\ Cardinality(RecordsOf(c, e)) + Cardinality(Owed(c, e)) <= Cardinality(MovesLike(c, e))
  BY DEF Trail, Covered
<1>2. /\ Cardinality(RecordsOf(c, e)) \in Nat /\ Cardinality(MovesLike(c, e)) \in Nat
      /\ Cardinality(Owed(c, e)) \in Nat
  BY <1>1, FinitePlaces, FS_CardinalityType
<1>3. MovesLike(c, e)' = MovesLike(c, e)
  BY DEF MovesLike
<1>4. \A q \in Requests : q # r => (Owes(q, c, e)' <=> Owes(q, c, e))
  BY OwesAsBefore
<1>5. ~Owes(r, c, e)'
  BY DEF Owes, Owing
<1>6. Cardinality(RecordsOf(c, e))' =
        Cardinality(RecordsOf(c, e)) +
          (IF x.case = c /\ x.kind = e.kind /\ x.from = e.from /\ x.to = e.to THEN 1 ELSE 0)
  BY RecordCounted
<1>7. CASE x.case = c /\ x.kind = e.kind /\ x.from = e.from /\ x.to = e.to
  <2>1. r \in Owed(c, e) /\ Owed(c, e)' = Owed(c, e) \ {r}
    BY <1>4, <1>5, <1>7 DEF Owed
  <2>2. IsFiniteSet(Owed(c, e)') /\ Cardinality(Owed(c, e)') = Cardinality(Owed(c, e)) - 1
    BY <1>1, <2>1, OneLess
  <2>3. Cardinality(RecordsOf(c, e))' = Cardinality(RecordsOf(c, e)) + 1
    BY <1>6, <1>7
  <2>4. Cardinality(RecordsOf(c, e))' + Cardinality(Owed(c, e)') <= Cardinality(MovesLike(c, e))
    BY <1>1, <1>2, <2>2, <2>3
  <2> QED BY <1>3, <2>2, <2>4 DEF Covered
<1>8. CASE ~(x.case = c /\ x.kind = e.kind /\ x.from = e.from /\ x.to = e.to)
  <2>1. Owed(c, e)' = Owed(c, e)
    BY <1>4, <1>5, <1>8 DEF Owed
  <2>2. Cardinality(RecordsOf(c, e))' = Cardinality(RecordsOf(c, e))
    BY <1>2, <1>6, <1>8
  <2> QED BY <1>1, <1>3, <2>1, <2>2 DEF Covered
<1> QED BY <1>7, <1>8
-----------------------------------------------------------------------------
(* Steps that neither record nor move leave every count as it is.           *)
LEMMA CountsStay ==
  ASSUME UNCHANGED <<log, written>>
  PROVE  \A c \in Cases, e \in Kinds :
           /\ Cardinality(RecordsOf(c, e))' = Cardinality(RecordsOf(c, e))
           /\ Cardinality(MovesLike(c, e))' = Cardinality(MovesLike(c, e))
<1> SUFFICES ASSUME NEW c \in Cases, NEW e \in Kinds
             PROVE  RecordsOf(c, e)' = RecordsOf(c, e) /\ MovesLike(c, e)' = MovesLike(c, e)
  OBVIOUS
<1> QED BY DEF RecordsOf, MovesLike

(* A step of a request: the trail stays covered.                            *)
LEMMA TrailStep ==
  ASSUME TypeInv, TypeInv', Trail, [Next]_vars
  PROVE  Trail'
<1>0. ObjectsOK /\ ObjectsOK' /\ ProgressOK /\ CheckedInv
  BY DEF TypeInv
<1>1. ASSUME NEW r \in Requests, Serve(r)
      PROVE  /\ call' = call
             /\ \A q \in Requests : q # r =>
                  pc'[q] = pc[q] /\ todo'[q] = todo[q] /\ snap'[q] = snap[q]
  <2>1. \A q \in Requests : q # r => pc'[q] = pc[q] /\ todo'[q] = todo[q]
    BY <1>0, <1>1 DEF ProgressOK, Serve, SubmitExecute, SubmitFree, loadCase,
       assertTransitionAllowed, assertNoConcurrentChange, saveCase, writeStatusRecord, dispatch,
       findStored, saveStored, persistDispatchedActions, assertStatusBelongsToCaseType, saveFreeForm, recordFreeForm,
       StoreThrows, Crash, Report, Goto
  <2>2. \A q \in Requests : q # r => snap'[q] = snap[q]
    BY <1>0, <1>1 DEF ObjectsOK, Serve, SubmitExecute, SubmitFree, loadCase,
       assertTransitionAllowed, assertNoConcurrentChange, saveCase, writeStatusRecord, dispatch,
       findStored, saveStored, persistDispatchedActions, assertStatusBelongsToCaseType, saveFreeForm, recordFreeForm,
       StoreThrows, Crash
  <2>3. call' = call
    BY <1>1 DEF Serve, SubmitExecute, SubmitFree, loadCase,
       assertTransitionAllowed, assertNoConcurrentChange, saveCase, writeStatusRecord, dispatch,
       findStored, saveStored, persistDispatchedActions, assertStatusBelongsToCaseType, saveFreeForm, recordFreeForm,
       StoreThrows, Crash
  <2> QED BY <2>1, <2>2, <2>3
<1>2. ASSUME NEW r \in Requests, Serve(r), pc'[r] \notin Owing, UNCHANGED <<log, written>>
      PROVE  Trail'
  BY <1>0, <1>1, <1>2, CountsStay, StaysCovered
<1>3. ASSUME NEW r \in Requests,
             \/ \E list \in CaseLists : SubmitExecute(r, list)
             \/ \E c \in Cases : SubmitFree(r, c)
             \/ loadCase(r) \/ assertTransitionAllowed(r) \/ assertNoConcurrentChange(r)
             \/ assertStatusBelongsToCaseType(r) \/ StoreThrows(r) \/ Crash(r)
      PROVE  Trail'
  <2>1. Serve(r) /\ UNCHANGED <<log, written>>
    BY <1>3 DEF Serve, SubmitExecute, SubmitFree, loadCase, assertTransitionAllowed,
       assertNoConcurrentChange, assertStatusBelongsToCaseType, StoreThrows, Crash
  <2>2. pc'[r] \notin Owing
    BY <1>0, <1>3 DEF ProgressOK, Owing, SubmitExecute, SubmitFree, loadCase,
       assertTransitionAllowed, assertNoConcurrentChange, assertStatusBelongsToCaseType,
       StoreThrows, Crash, Report, Goto
  <2> QED BY <1>2, <2>1, <2>2
<1>4. ASSUME NEW r \in Requests, saveCase(r) PROVE Trail'
  <2>1. PICK cur \in Cases : cur = Current(r)
    BY <1>0, <1>4, TodoParts DEF saveCase, Served, Terminal
  <2>2. Serve(r)
    BY <1>4 DEF Serve
  <2>3. CASE Report(r, "error") /\ UNCHANGED <<stored, written>>
    <3>1. pc'[r] \notin Owing /\ UNCHANGED <<log, written>>
      BY <1>0, <1>4, <2>3 DEF ProgressOK, Report, Owing, saveCase
    <3> QED BY <1>2, <2>2, <3>1
  <2>4. CASE /\ Goto(r, "record")
             /\ Wrote(cur, "transition", call[r].user, snap[r].status, To[call[r].transition])
    <3> DEFINE k == [kind |-> "transition", from |-> snap[r].status, to |-> To[call[r].transition]]
    <3>1. k \in Kinds
      BY <1>0, <1>4, CallFields, CaseWorkflowAssumption
      DEF Kinds, ObjectsOK, CheckedInv, CaseObject, saveCase
    <3>2. k.kind = "transition" /\ k.from = snap[r].status /\ k.to = To[call[r].transition]
      OBVIOUS
    <3> HIDE DEF k
    <3>3. pc'[r] = "record" /\ todo' = todo /\ snap' = snap /\ call' = call /\ log' = log
      BY <1>0, <1>4, <2>4 DEF ProgressOK, Goto, saveCase
    <3>4. \A c \in Cases, e \in Kinds :
            Owes(r, c, e)' <=> (c = cur /\ e.kind = k.kind /\ e.from = k.from /\ e.to = k.to)
      BY <2>1, <3>2, <3>3 DEF Owes, Current
    <3>5. pc[r] \notin Owing
      BY <1>4 DEF saveCase, Owing
    <3>6. Wrote(cur, k.kind, call[r].user, k.from, k.to)
      BY <2>4, <3>2
    <3> QED BY <1>0, <1>1, <2>2, <3>1, <3>3, <3>4, <3>5, <3>6, MoveOwes
  <2> QED BY <1>4, <2>1, <2>3, <2>4 DEF saveCase
<1>5. ASSUME NEW r \in Requests, saveFreeForm(r) PROVE Trail'
  <2>1. PICK cur \in Cases : cur = Current(r)
    BY <1>0, <1>5, TodoParts DEF saveFreeForm, Served, Terminal
  <2>2. Serve(r)
    BY <1>5 DEF Serve
  <2>3. CASE Report(r, "error") /\ UNCHANGED <<stored, written>>
    <3>1. pc'[r] \notin Owing /\ UNCHANGED <<log, written>>
      BY <1>0, <1>5, <2>3 DEF ProgressOK, Report, Owing, saveFreeForm
    <3> QED BY <1>2, <2>2, <3>1
  <2>4. CASE /\ Goto(r, "freeRecord")
             /\ Wrote(cur, "free", call[r].user, snap[r].status, call[r].to)
    <3> DEFINE k == [kind |-> "free", from |-> snap[r].status, to |-> call[r].to]
    <3>1. k \in Kinds
      BY <1>0, <1>5, CallFields DEF Kinds, ObjectsOK, CheckedInv, CaseObject, saveFreeForm
    <3>2. k.kind = "free" /\ k.from = snap[r].status /\ k.to = call[r].to
      OBVIOUS
    <3> HIDE DEF k
    <3>3. pc'[r] = "freeRecord" /\ todo' = todo /\ snap' = snap /\ call' = call /\ log' = log
      BY <1>0, <1>5, <2>4 DEF ProgressOK, Goto, saveFreeForm
    <3>4. \A c \in Cases, e \in Kinds :
            Owes(r, c, e)' <=> (c = cur /\ e.kind = k.kind /\ e.from = k.from /\ e.to = k.to)
      BY <2>1, <3>2, <3>3 DEF Owes, Current
    <3>5. pc[r] \notin Owing
      BY <1>5 DEF saveFreeForm, Owing
    <3>6. Wrote(cur, k.kind, call[r].user, k.from, k.to)
      BY <2>4, <3>2
    <3> QED BY <1>0, <1>1, <2>2, <3>1, <3>3, <3>4, <3>5, <3>6, MoveOwes
  <2> QED BY <1>5, <2>1, <2>3, <2>4 DEF saveFreeForm
<1>6. ASSUME NEW r \in Requests, writeStatusRecord(r) \/ recordFreeForm(r) PROVE Trail'
  <2>1. PICK x : /\ log' = Append(log, x)
                 /\ \/ pc[r] = "record" /\ x = StatusRecord(r, "transition", To[call[r].transition])
                    \/ pc[r] = "freeRecord" /\ x = StatusRecord(r, "free", call[r].to)
    BY <1>6 DEF writeStatusRecord, recordFreeForm
  <2>2. x.case = Current(r) /\ x.from = snap[r].status
    BY <2>1 DEF StatusRecord
  <2>3. \/ pc[r] = "record" /\ x.kind = "transition" /\ x.to = To[call[r].transition]
        \/ pc[r] = "freeRecord" /\ x.kind = "free" /\ x.to = call[r].to
    BY <2>1 DEF StatusRecord
  <2>4. \A c \in Cases, e \in Kinds :
          Owes(r, c, e) <=> (x.case = c /\ x.kind = e.kind /\ x.from = e.from /\ x.to = e.to)
    BY <2>2, <2>3 DEF Owes
  <2>5. Serve(r) /\ written' = written
    BY <1>6 DEF Serve, writeStatusRecord, recordFreeForm
  <2>6. pc'[r] \notin Owing
    BY <1>0, <1>6 DEF ProgressOK, Owing, writeStatusRecord, recordFreeForm, Report, Goto
  <2> QED BY <1>0, <1>1, <2>1, <2>4, <2>5, <2>6, RecordPays
<1>7. ASSUME NEW r \in Requests, dispatch(r) \/ findStored(r) \/ saveStored(r) PROVE Trail'
  <2>1. Serve(r) /\ log' = log
    BY <1>7 DEF Serve, dispatch, findStored, saveStored
  <2>2. pc'[r] \notin Owing
    BY <1>0, <1>7 DEF ProgressOK, Owing, dispatch, findStored, saveStored, Goto
  <2>3. CASE UNCHANGED written
    BY <1>2, <2>1, <2>2, <2>3
  <2>4. ASSUME NEW d, d = Current(r), NEW from, NEW s,
               Wrote(d, "effect", call[r].user, from, s)
        PROVE  Trail'
    <3>1. d \in Cases
      BY <1>0, <1>7, <2>4, TodoParts DEF dispatch, findStored, saveStored, Served, Terminal
    <3>2. ASSUME NEW c \in Cases, NEW e \in Kinds
          PROVE  /\ Cardinality(RecordsOf(c, e))' = Cardinality(RecordsOf(c, e))
                 /\ Cardinality(MovesLike(c, e))' = Cardinality(MovesLike(c, e))
      <4>1. RecordsOf(c, e)' = RecordsOf(c, e)
        BY <2>1 DEF RecordsOf
      <4>2. e.kind # "effect"
        BY DEF Kinds
      <4>3. Cardinality(MovesLike(c, e)) \in Nat
        BY <1>0, FinitePlaces
      <4>4. Cardinality(MovesLike(c, e))' = Cardinality(MovesLike(c, e)) + 0
        BY <1>0, <2>4, <3>1, <4>2, MoveCounted
      <4> QED BY <4>1, <4>3, <4>4
    <3> QED BY <1>0, <1>1, <2>1, <2>2, <3>2, StaysCovered
  <2> QED BY <1>7, <2>3, <2>4 DEF dispatch, findStored, saveStored
<1>8. ASSUME NEW r \in Requests, persistDispatchedActions(r) PROVE Trail'
  <2>1. Serve(r) /\ written' = written
    BY <1>8 DEF Serve, persistDispatchedActions
  <2>2. pc'[r] \notin Owing
    BY <1>0, <1>8 DEF ProgressOK, Owing, persistDispatchedActions, Report
  <2>3. CASE UNCHANGED log
    BY <1>2, <2>1, <2>2, <2>3
  <2>4. CASE log' = [log EXCEPT ![rec[r]].dispatched = dispatched[r]]
    <3>1. ASSUME NEW c \in Cases, NEW e \in Kinds
          PROVE  RecordsOf(c, e)' = RecordsOf(c, e) /\ MovesLike(c, e)' = MovesLike(c, e)
      BY <1>0, <2>1, <2>4, DispatchedOnly DEF RecordsOf, MovesLike
    <3>2. \A c \in Cases, e \in Kinds :
            /\ Cardinality(RecordsOf(c, e))' = Cardinality(RecordsOf(c, e))
            /\ Cardinality(MovesLike(c, e))' = Cardinality(MovesLike(c, e))
      BY <3>1
    <3> QED BY <1>0, <1>1, <2>1, <2>2, <3>2, StaysCovered
  <2> QED BY <1>8, <2>3, <2>4 DEF persistDispatchedActions
<1>9. ASSUME UNCHANGED <<log, written, pc, todo, snap, call>> PROVE Trail'
  <2> SUFFICES ASSUME NEW c \in Cases, NEW e \in Kinds PROVE Covered(c, e)'
    BY DEF Trail
  <2>1. RecordsOf(c, e)' = RecordsOf(c, e) /\ MovesLike(c, e)' = MovesLike(c, e)
    BY <1>9 DEF RecordsOf, MovesLike
  <2>2. Owed(c, e)' = Owed(c, e)
    BY <1>9 DEF Owed, Owes, Current
  <2> QED BY <2>1, <2>2 DEF Trail, Covered
<1>10. ASSUME NEW c \in Cases, EditCase(c) \/ TickChecklist(c) PROVE Trail'
  BY <1>9, <1>10 DEF EditCase, TickChecklist, reqVars
<1>11. CASE UNCHANGED vars
  BY <1>9, <1>11 DEF vars, reqVars
<1> QED BY <1>3, <1>4, <1>5, <1>6, <1>7, <1>8, <1>10, <1>11 DEF Next, Serve

(* The audit trail never lies, whatever interleaves, throws or dies: for    *)
(* every from, to and kind a case has no more statusRecords than moves.     *)
THEOREM TrailIsTrue == Spec => []RecordsTellTheTruth
<1>1. Init => Trail
  <2> SUFFICES ASSUME Init, NEW c \in Cases, NEW e \in Kinds PROVE Covered(c, e)
    BY DEF Trail
  <2>1. Owed(c, e) = {}
    BY DEF Init, Owed, Owes
  <2>2. DOMAIN log = {} /\ DOMAIN written[c] = {}
    BY DEF Init
  <2>3. RecordsOf(c, e) = {} /\ MovesLike(c, e) = {}
    BY <2>2 DEF RecordsOf, MovesLike
  <2> QED BY <2>1, <2>3, FS_EmptySet DEF Covered
<1>2. ObjectsOK /\ Trail => RecordsTellTheTruth
  <2> SUFFICES ASSUME ObjectsOK, Trail, NEW i \in DOMAIN log
      PROVE  Cardinality(RecordsOf(log[i].case, log[i])) <= Cardinality(MovesLike(log[i].case, log[i]))
    BY DEF RecordsTellTheTruth
  <2>1. PICK x \in Record : x = log[i]
    BY DEF ObjectsOK
  <2> DEFINE e == [kind |-> x.kind, from |-> x.from, to |-> x.to]
  <2>2. x.case \in Cases /\ e \in Kinds
    BY DEF Record, Kinds
  <2>3. e.kind = x.kind /\ e.from = x.from /\ e.to = x.to
    OBVIOUS
  <2> HIDE DEF e
  <2>4. /\ Cardinality(RecordsOf(x.case, e)) \in Nat /\ Cardinality(MovesLike(x.case, e)) \in Nat
        /\ IsFiniteSet(Owed(x.case, e)) /\ Cardinality(Owed(x.case, e)) \in Nat
        /\ Cardinality(RecordsOf(x.case, e)) + Cardinality(Owed(x.case, e))
             <= Cardinality(MovesLike(x.case, e))
    BY <2>2, FinitePlaces, FS_CardinalityType DEF Trail, Covered
  <2>5. RecordsOf(x.case, e) = RecordsOf(x.case, x) /\ MovesLike(x.case, e) = MovesLike(x.case, x)
    BY <2>3 DEF RecordsOf, MovesLike
  <2>6. Cardinality(RecordsOf(x.case, e)) <= Cardinality(MovesLike(x.case, e))
    BY <2>4
  <2> QED BY <2>1, <2>5, <2>6
<1>3. TypeInv /\ Trail /\ [Next]_vars => (TypeInv /\ Trail)'
  BY TypeStep, TrailStep
<1>4. TypeInv => ObjectsOK
  BY DEF TypeInv
<1> QED BY <1>1, <1>2, <1>3, <1>4, TypeInit, PTL DEF Spec
=============================================================================
