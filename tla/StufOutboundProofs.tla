-------------------------- MODULE StufOutboundProofs --------------------------
(***************************************************************************)
(* For any number of messages, workers and retries, any threshold and any  *)
(* number of faults: no row outruns the back-off schedule, and no row that *)
(* waits for a retry is forgotten unless a fault lost its retry.           *)
(*                                                                         *)
(* Both invariants are inductive together.  The argument for the second:   *)
(* a job stays on the list for good (StufRetryJob is a plain Job), so it   *)
(* is enough that the worker that recorded a retry keeps what it read      *)
(* until it has put the job there, whatever others write to the row.       *)
(***************************************************************************)
EXTENDS StufOutbound, TLAPS

Stages == {"idle", "check", "resetCount", "closeCircuit", "log", "send",
           "handle", "readCount", "writeCount", "openCircuit", "schedule"}

(* The stages between recordRetry() and scheduleRetry(). *)
Owing == {"readCount", "writeCount", "openCircuit", "schedule"}

Owes(w, m) == /\ task[w].msg = m /\ MayRetry(w)
              /\ task[w].copy.retries + 1 = message[m].retries
              /\ pc[w] \in Owing

------------------------------------------------------------------------------
(* A worker that moves on to another stage stays among the stages. *)
LEMMA GoesOn ==
  ASSUME TypeOK, NEW w \in Workers, NEW stage \in Stages, Goto(w, stage)
  PROVE  pc' \in [Workers -> Stages]
BY DEF TypeOK, Goto, Stages

LEMMA ProceedsTyped ==
  ASSUME TypeOK, NEW w \in Workers, Proceed(w)
  PROVE  pc' \in [Workers -> Stages]
BY DEF TypeOK, Proceed, Goto, Stages

(* A worker that begins has a task of the right kind: the row as it is now. *)
LEMMA BeginTyped ==
  ASSUME TypeOK, NEW w \in Workers, NEW m \in Messages,
         NEW attempt \in NoJob .. MaxRetries, Begin(w, m, attempt)
  PROVE  TypeOK'
<1> DEFINE new == [msg |-> m, attempt |-> attempt, copy |-> message[m],
                   answer |-> "none", seen |-> 0]
<1>1. new \in Task
  BY StufOutboundAssumption DEF TypeOK, Task
<1>2. task' \in [Workers -> Task]
  BY <1>1 DEF TypeOK, Begin
<1>3. pc' \in [Workers -> Stages]
  BY DEF TypeOK, Begin, Goto, Stages
<1> QED BY <1>2, <1>3 DEF TypeOK, Begin, Stages

(* A row that is written back is a row. *)
LEMMA SaveTyped ==
  ASSUME TypeOK, NEW w \in Workers, NEW row \in Row, Save(w, row)
  PROVE  message' \in [Messages -> Row]
BY DEF TypeOK, Save

LEMMA TypeInit == Init => TypeOK
<1> SUFFICES ASSUME Init PROVE TypeOK
  OBVIOUS
<1>1. Unsent \in Row
  BY StufOutboundAssumption DEF Unsent, Row
<1>2. \A m \in Messages : [msg |-> m, attempt |-> NoJob, copy |-> Unsent,
                            answer |-> "none", seen |-> 0] \in Task
  BY <1>1, StufOutboundAssumption DEF Task, NoJob
<1>3. task \in [Workers -> Task]
  BY <1>2 DEF Init
<1> QED BY <1>1, <1>3, StufOutboundAssumption DEF Init, TypeOK

(* The retry a worker puts on the list is one of the schedule. *)
LEMMA NewJobTyped ==
  ASSUME TypeOK, NEW w \in Workers, MayRetry(w)
  PROVE  [msg |-> task[w].msg, attempt |-> task[w].copy.retries + 1, due |-> FALSE] \in Job
<1>1. task[w] \in Task
  BY DEF TypeOK
<1>2. /\ task[w].msg \in Messages
      /\ task[w].copy.retries \in 0 .. MaxRetries
      /\ task[w].copy.retries < MaxRetries
  BY <1>1 DEF Task, Row, MayRetry
<1> QED BY <1>2, StufOutboundAssumption DEF Job

LEMMA TypeNext == TypeOK /\ [Next]_vars => TypeOK'
<1> SUFFICES ASSUME TypeOK, [Next]_vars PROVE TypeOK'
  OBVIOUS
<1> USE StufOutboundAssumption
<1>1. CASE UNCHANGED vars
  BY <1>1 DEF vars, TypeOK
<1>2. ASSUME NEW w \in Workers, checkEndpoint(w) PROVE TypeOK'
  <2>1. pc' \in [Workers -> Stages]
    BY <1>2, ProceedsTyped DEF checkEndpoint, TypeOK, Goto, Stages
  <2> QED BY <1>2, <2>1 DEF checkEndpoint, TypeOK, Stages
<1>3. ASSUME NEW w \in Workers, resetCount(w) PROVE TypeOK'
  BY <1>3 DEF resetCount, TypeOK, Goto
<1>4. ASSUME NEW w \in Workers, closeCircuit(w) PROVE TypeOK'
  <2>1. pc' \in [Workers -> Stages]
    BY <1>4, ProceedsTyped DEF closeCircuit
  <2> QED BY <1>4, <2>1 DEF closeCircuit, TypeOK, Stages
<1>5. ASSUME NEW w \in Workers, logOutbound(w) PROVE TypeOK'
  <2> DEFINE row == [status |-> "verzonden", retries |-> 0]
  <2>1. row \in Row
    BY DEF Row
  <2>2. message' \in [Messages -> Row]
    BY <1>5, <2>1 DEF logOutbound, TypeOK
  <2>3. [task[w] EXCEPT !.copy = row] \in Task
    BY <2>1 DEF TypeOK, Task
  <2>4. task' = [task EXCEPT ![w] = [task[w] EXCEPT !.copy = row]]
    BY <1>5 DEF logOutbound
  <2>5. task' \in [Workers -> Task]
    BY <2>3, <2>4 DEF TypeOK
  <2> QED BY <1>5, <2>2, <2>5 DEF logOutbound, TypeOK, Goto
<1>6. ASSUME NEW w \in Workers, send(w) PROVE TypeOK'
  <2>1. PICK answer \in {"ok", "transient", "permanent"} :
          task' = [task EXCEPT ![w] = [task[w] EXCEPT !.answer = answer]]
    BY <1>6 DEF send
  <2>2. [task[w] EXCEPT !.answer = answer] \in Task
    BY DEF TypeOK, Task
  <2>3. task' \in [Workers -> Task]
    BY <2>1, <2>2 DEF TypeOK
  <2> QED BY <1>6, <2>3 DEF send, TypeOK, Goto
<1>7. ASSUME NEW w \in Workers, handleResponse(w) PROVE TypeOK'
  <2>1. task[w] \in Task /\ task[w].copy \in Row /\ task[w].copy.retries \in 0 .. MaxRetries
    BY DEF TypeOK, Task, Row
  <2>2. /\ [task[w].copy EXCEPT !.status = "bevestigd"] \in Row
        /\ [task[w].copy EXCEPT !.status = "fout"] \in Row
    BY <2>1 DEF Row
  <2>3. MayRetry(w) =>
          [status |-> "wacht_op_retry", retries |-> task[w].copy.retries + 1] \in Row
    BY <2>1 DEF MayRetry, Row
  <2>4. message' \in [Messages -> Row]
    BY <1>7, <2>2, <2>3, SaveTyped DEF handleResponse
  <2>5. pc' \in [Workers -> Stages]
    BY <1>7 DEF handleResponse, TypeOK, Goto, Stages
  <2> QED BY <1>7, <2>4, <2>5 DEF handleResponse, TypeOK, Stages
<1>8. ASSUME NEW w \in Workers, readCount(w) PROVE TypeOK'
  <2>1. task' = [task EXCEPT ![w] = [task[w] EXCEPT !.seen = count]]
    BY <1>8 DEF readCount
  <2>2. [task[w] EXCEPT !.seen = count] \in Task
    BY DEF TypeOK, Task
  <2>3. task' \in [Workers -> Task]
    BY <2>1, <2>2 DEF TypeOK
  <2> QED BY <1>8, <2>3 DEF readCount, TypeOK, Goto
<1>9. ASSUME NEW w \in Workers, writeCount(w) PROVE TypeOK'
  <2>1. task[w].seen \in 0 .. Threshold
    BY DEF TypeOK, Task
  <2>2. count' \in 0 .. Threshold
    BY <1>9, <2>1 DEF writeCount
  <2>3. pc' \in [Workers -> Stages]
    BY <1>9 DEF writeCount, TypeOK, Goto, Stages
  <2> QED BY <1>9, <2>2, <2>3 DEF writeCount, TypeOK, Stages
<1>10. ASSUME NEW w \in Workers, openCircuit(w) PROVE TypeOK'
  BY <1>10 DEF openCircuit, TypeOK, Goto
<1>11. ASSUME NEW w \in Workers, scheduleRetry(w) PROVE TypeOK'
  <2>1. jobs' \subseteq Job
    BY <1>11, NewJobTyped DEF scheduleRetry, TypeOK
  <2> QED BY <1>11, <2>1 DEF scheduleRetry, TypeOK, Goto
<1>12. ASSUME NEW w \in Workers, Fault(w) PROVE TypeOK'
  <2>1. task[w].msg \in Messages
    BY DEF TypeOK, Task
  <2>2. lost' \subseteq Messages /\ faults' \in 0 .. MaxFaults
    BY <1>12, <2>1 DEF Fault, TypeOK
  <2> QED BY <1>12, <2>2 DEF Fault, TypeOK, Goto
<1>13. ASSUME NEW w \in Workers, NEW m \in Messages, vrijBericht(w, m) PROVE TypeOK'
  BY <1>13, BeginTyped DEF vrijBericht, NoJob
<1>14. ASSUME NEW w \in Workers, NEW job \in jobs, retrySend(w, job) PROVE TypeOK'
  <2>1. job.msg \in Messages /\ job.attempt \in NoJob .. MaxRetries
    BY DEF TypeOK, Job, NoJob
  <2> QED BY <1>14, <2>1, BeginTyped DEF retrySend
<1>15. ASSUME NEW job \in jobs, BackOffPasses(job) PROVE TypeOK'
  <2>1. [job EXCEPT !.due = TRUE] \in Job
    BY DEF TypeOK, Job
  <2> QED BY <1>15, <2>1 DEF BackOffPasses, TypeOK
<1>16. CASE CooldownPasses
  BY <1>16 DEF CooldownPasses, TypeOK
<1> QED BY <1>1, <1>2, <1>3, <1>4, <1>5, <1>6, <1>7, <1>8, <1>9, <1>10, <1>11, <1>12,
           <1>13, <1>14, <1>15, <1>16 DEF Next, Work

(* Every variable keeps to its kind: the retries list of a row is never     *)
(* longer than RETRY_BACKOFF_SECONDS, though every run of a retry job       *)
(* appends to the list it has read.                                         *)
THEOREM TypeCorrect == Spec => []TypeOK
BY TypeInit, TypeNext, PTL DEF Spec
------------------------------------------------------------------------------
LEMMA WaitingInit == Init => WaitingIsScheduled
BY DEF Init, WaitingIsScheduled, Unsent

(* What was on the list stays on it. *)
LEMMA JobsStay ==
  ASSUME TypeOK, [Next]_vars, NEW job \in jobs
  PROVE  \E later \in jobs' : later.msg = job.msg /\ later.attempt = job.attempt
<1>1. CASE jobs \subseteq jobs'
  BY <1>1
<1>2. ASSUME NEW gone \in jobs, BackOffPasses(gone)
      PROVE  \E later \in jobs' : later.msg = job.msg /\ later.attempt = job.attempt
  <2> DEFINE later == [gone EXCEPT !.due = TRUE]
  <2>1. gone \in Job
    BY DEF TypeOK
  <2>2. later.msg = gone.msg /\ later.attempt = gone.attempt
    BY <2>1 DEF Job
  <2>3. jobs' = (jobs \ {gone}) \cup {later}
    BY <1>2 DEF BackOffPasses
  <2> QED BY <2>2, <2>3
<1>3. jobs \subseteq jobs' \/ \E gone \in jobs : BackOffPasses(gone)
  BY DEF Next, vars, Work, Begin, vrijBericht, retrySend, checkEndpoint, resetCount,
     closeCircuit, logOutbound, send, handleResponse, readCount, writeCount, openCircuit,
     scheduleRetry, Fault, CooldownPasses
<1> QED BY <1>1, <1>2, <1>3

(* Nothing lost is taken off the record of losses. *)
LEMMA LostStays ==
  ASSUME [Next]_vars PROVE lost \subseteq lost'
BY DEF Next, vars, Work, Begin, vrijBericht, retrySend, checkEndpoint, resetCount,
   closeCircuit, logOutbound, send, handleResponse, readCount, writeCount, openCircuit,
   scheduleRetry, Fault, BackOffPasses, CooldownPasses

(* A worker that owes a row its retry goes on owing it, or has put it on    *)
(* the list, or a fault has lost it, as long as the row is not rewritten.   *)
LEMMA DebtIsPaid ==
  ASSUME TypeOK, [Next]_vars, NEW m \in Messages, NEW w \in Workers, Owes(w, m),
         message'[m] = message[m]
  PROVE  \/ Owes(w, m)'
         \/ \E job \in jobs' : job.msg = m /\ job.attempt = message'[m].retries
         \/ m \in lost'
<1> DEFINE Goal == \/ Owes(w, m)'
                   \/ \E job \in jobs' : job.msg = m /\ job.attempt = message'[m].retries
                   \/ m \in lost'
<1>0. /\ pc[w] \in Owing /\ pc \in [Workers -> Stages] /\ task \in [Workers -> Task]
      /\ task[w] \in Task
  BY DEF Owes, TypeOK, Stages
<1>1. ASSUME pc'[w] \in Owing, task'[w].msg = task[w].msg, task'[w].copy = task[w].copy,
             task'[w].answer = task[w].answer
      PROVE  Goal
  BY <1>1 DEF Owes, MayRetry
<1>2. ASSUME NEW v \in Workers, v # w, pc' = [pc EXCEPT ![v] = pc'[v]],
             task' = [task EXCEPT ![v] = task'[v]]
      PROVE  Goal
  BY <1>0, <1>1, <1>2
<1>3. ASSUME pc' = pc, task' = task PROVE Goal
  BY <1>0, <1>1, <1>3
<1>4. CASE readCount(w)
  <2>1. task' = [task EXCEPT ![w] = [task[w] EXCEPT !.seen = count]]
    BY <1>4 DEF readCount
  <2>2. /\ task'[w].msg = task[w].msg /\ task'[w].copy = task[w].copy
        /\ task'[w].answer = task[w].answer
    BY <1>0, <2>1 DEF Task
  <2>3. pc'[w] \in Owing
    BY <1>0, <1>4 DEF readCount, Goto, Owing
  <2> QED BY <1>1, <2>2, <2>3
<1>5. CASE writeCount(w)
  BY <1>0, <1>1, <1>5 DEF writeCount, Goto, Owing
<1>6. CASE openCircuit(w)
  BY <1>0, <1>1, <1>6 DEF openCircuit, Goto, Owing
<1>7. CASE scheduleRetry(w)
  <2> DEFINE job == [msg |-> task[w].msg, attempt |-> task[w].copy.retries + 1, due |-> FALSE]
  <2>1. job \in jobs'
    BY <1>7 DEF scheduleRetry, Owes
  <2>2. job.msg = m /\ job.attempt = message'[m].retries
    BY DEF Owes
  <2> QED BY <2>1, <2>2
<1>8. CASE Fault(w)
  <2>1. lost' = lost \cup {task[w].msg}
    BY <1>8 DEF Fault, Owes, Owing
  <2> QED BY <2>1 DEF Owes
<1>9. ASSUME NEW v \in Workers, Work(v) \/ Fault(v) PROVE Goal
  <2>1. CASE v # w
    <3>1. CASE checkEndpoint(v)
      <4>1. \E stage : Goto(v, stage)
        BY <3>1 DEF checkEndpoint, Proceed, TypeOK, Goto
      <4> QED BY <1>0, <1>2, <2>1, <3>1, <4>1 DEF checkEndpoint, Goto
    <3>2. CASE logOutbound(v) \/ send(v) \/ readCount(v)
      BY <1>0, <1>2, <2>1, <3>2 DEF logOutbound, send, readCount, Goto
    <3>3. CASE resetCount(v) \/ closeCircuit(v) \/ handleResponse(v) \/ writeCount(v)
               \/ openCircuit(v) \/ scheduleRetry(v) \/ Fault(v)
      BY <1>0, <1>2, <2>1, <3>3 DEF resetCount, closeCircuit, Proceed, handleResponse,
         writeCount, openCircuit, scheduleRetry, Fault, Goto
    <3> QED BY <1>9, <3>1, <3>2, <3>3 DEF Work
  <2>2. CASE v = w
    BY <1>0, <1>4, <1>5, <1>6, <1>7, <1>8, <1>9, <2>2 DEF Work, checkEndpoint, resetCount,
       closeCircuit, logOutbound, send, handleResponse, Owing
  <2> QED BY <2>1, <2>2
<1>10. ASSUME NEW v \in Workers, NEW n, NEW attempt, Begin(v, n, attempt) PROVE Goal
  <2>1. v # w
    BY <1>0, <1>10 DEF Begin, Owing
  <2>2. pc' = [pc EXCEPT ![v] = pc'[v]] /\ task' = [task EXCEPT ![v] = task'[v]]
    BY <1>0, <1>10 DEF Begin, Goto
  <2> QED BY <1>2, <2>1, <2>2
<1>11. ASSUME UNCHANGED vars \/ CooldownPasses \/ \E job \in jobs : BackOffPasses(job)
       PROVE Goal
  BY <1>3, <1>11 DEF vars, CooldownPasses, BackOffPasses
<1> QED BY <1>9, <1>10, <1>11 DEF Next, vrijBericht, retrySend

(* A row that is rewritten does not wait, or its writer owes it a retry.    *)
LEMMA RewrittenIsOwed ==
  ASSUME TypeOK, [Next]_vars, NEW m \in Messages, message'[m] # message[m],
         message'[m].status = "wacht_op_retry"
  PROVE  \E w \in Workers : Owes(w, m)'
<1>1. PICK w \in Workers : logOutbound(w) \/ handleResponse(w)
  BY DEF Next, vars, Work, Begin, vrijBericht, retrySend, checkEndpoint, resetCount,
     closeCircuit, send, readCount, writeCount, openCircuit,
     scheduleRetry, Fault, BackOffPasses, CooldownPasses
<1>2. /\ task[w] \in Task /\ task[w].msg \in Messages /\ task[w].copy \in Row
      /\ message \in [Messages -> Row] /\ pc \in [Workers -> Stages]
  BY DEF TypeOK, Task, Stages
<1>3. ~logOutbound(w)
  BY <1>2 DEF logOutbound
<1>4. handleResponse(w)
  BY <1>1, <1>3
<1>5. task[w].msg = m
  BY <1>2, <1>4 DEF handleResponse, Save
<1>6. /\ MayRetry(w) /\ Goto(w, "readCount")
      /\ Save(w, [status |-> "wacht_op_retry", retries |-> task[w].copy.retries + 1])
  <2>1. /\ [task[w].copy EXCEPT !.status = "bevestigd"].status = "bevestigd"
        /\ [task[w].copy EXCEPT !.status = "fout"].status = "fout"
    BY <1>2 DEF Row
  <2> QED BY <1>2, <1>4, <1>5, <2>1 DEF handleResponse, Save
<1>7. message'[m].retries = task[w].copy.retries + 1
  BY <1>2, <1>5, <1>6 DEF Save
<1>8. task' = task /\ pc'[w] = "readCount"
  BY <1>2, <1>4, <1>6 DEF handleResponse, Goto
<1>9. Owes(w, m)'
  BY <1>5, <1>6, <1>7, <1>8 DEF Owes, MayRetry, Owing
<1> QED BY <1>9

LEMMA WaitingNext == TypeOK /\ WaitingIsScheduled /\ [Next]_vars => WaitingIsScheduled'
<1> SUFFICES ASSUME TypeOK, WaitingIsScheduled, [Next]_vars,
                    NEW m \in Messages, message'[m].status = "wacht_op_retry"
             PROVE  \/ \E job \in jobs' : job.msg = m /\ job.attempt = message'[m].retries
                    \/ m \in lost'
                    \/ \E w \in Workers : Owes(w, m)'
  BY DEF WaitingIsScheduled, Owes, Owing
<1>1. CASE message'[m] # message[m]
  BY <1>1, RewrittenIsOwed
<1>2. CASE message'[m] = message[m]
  <2>1. \/ \E job \in jobs : job.msg = m /\ job.attempt = message[m].retries
        \/ m \in lost
        \/ \E w \in Workers : Owes(w, m)
    BY <1>2 DEF WaitingIsScheduled, Owes, Owing
  <2>2. ASSUME NEW job \in jobs, job.msg = m, job.attempt = message[m].retries
        PROVE  \E later \in jobs' : later.msg = m /\ later.attempt = message'[m].retries
    BY <1>2, <2>2, JobsStay
  <2>3. CASE m \in lost
    BY <2>3, LostStays
  <2>4. ASSUME NEW w \in Workers, Owes(w, m)
        PROVE  \/ Owes(w, m)'
               \/ \E job \in jobs' : job.msg = m /\ job.attempt = message'[m].retries
               \/ m \in lost'
    BY <1>2, <2>4, DebtIsPaid
  <2> QED BY <2>1, <2>2, <2>3, <2>4
<1> QED BY <1>1, <1>2

(* A row that waits for its n-th retry has that retry on the job list, or   *)
(* a worker about to put it there, unless a fault between recordRetry() and *)
(* scheduleRetry() lost it: whatever the order of workers, and whatever the *)
(* circuit breaker refuses.                                                 *)
THEOREM WaitingKept == Spec => []WaitingIsScheduled
<1>1. Init => TypeOK /\ WaitingIsScheduled
  BY TypeInit, WaitingInit
<1>2. TypeOK /\ WaitingIsScheduled /\ [Next]_vars => TypeOK' /\ WaitingIsScheduled'
  BY TypeNext, WaitingNext
<1> QED BY <1>1, <1>2, PTL DEF Spec
==============================================================================
