----------------------------- MODULE StufOutbound -----------------------------
(***************************************************************************)
(* Sending StUF messages to one endpoint: the vrijBericht REST call, the   *)
(* StufRetryJob that cron runs, and the circuit breaker they share.  Each  *)
(* read or write of a message row or of an app-config value is one step,   *)
(* between which other requests and other cron workers go on.              *)
(*                                                                         *)
(* Time is reduced to what is compared with it: a retry is due or not, and *)
(* an open circuit has cooled down or not.  StufRetryJob is a plain Job:   *)
(* Nextcloud takes a QueuedJob off its list when it runs, and leaves a Job *)
(* there, which is why run() can return early when it is not yet due.      *)
(***************************************************************************)
EXTENDS Naturals, FiniteSets

CONSTANTS
  Messages,   \* the StufMessage rows
  Workers,    \* PHP processes: web requests and cron workers
  MaxRetries, \* count(RETRY_BACKOFF_SECONDS)
  Threshold,  \* failures that open the circuit
  MaxFaults   \* store exceptions, failed scheduling and crashes, at most

ASSUME StufOutboundAssumption ==
  /\ MaxRetries \in Nat \ {0}
  /\ Threshold \in Nat \ {0}
  /\ MaxFaults \in Nat

VARIABLES
  message, \* the rows: status and length of the retries list
  jobs,    \* the StufRetryJobs on the job list
  count,   \* stuf.cb.c: failures, Threshold standing for any number above
  circuit, \* stuf.cb.o: closed (no key), cooling or cooled (since it opened)
  pc,      \* where each worker is
  task,    \* what it works on, and what it has read
  lost,    \* history: messages whose retry was never put on the list
  faults   \* history: faults so far

vars == <<message, jobs, count, circuit, pc, task, lost, faults>>

NoJob == 0
Unsent == [status |-> "none", retries |-> 0]
Row == [status : {"none", "verzonden", "wacht_op_retry", "bevestigd", "fout"},
        retries : 0 .. MaxRetries]
Job == [msg : Messages, attempt : 1 .. MaxRetries, due : BOOLEAN]
Task == [msg : Messages, attempt : NoJob .. MaxRetries, copy : Row,
         answer : {"none", "ok", "transient", "permanent"}, seen : 0 .. Threshold]

Init ==
  /\ message = [m \in Messages |-> Unsent]
  /\ jobs = {}
  /\ count = 0
  /\ circuit = "closed"
  /\ pc = [w \in Workers |-> "idle"]
  /\ task \in [Workers -> {[msg |-> m, attempt |-> NoJob, copy |-> Unsent,
                            answer |-> "none", seen |-> 0] : m \in Messages}]
  /\ lost = {}
  /\ faults = 0

Goto(w, stage) == pc' = [pc EXCEPT ![w] = stage]

Begin(w, m, attempt) ==
  /\ pc[w] = "idle"
  /\ Goto(w, "check")
  /\ task' = [task EXCEPT ![w] = [msg |-> m, attempt |-> attempt, copy |-> message[m],
                                   answer |-> "none", seen |-> 0]]
  /\ UNCHANGED <<message, jobs, count, circuit, lost, faults>>

(* The row gets its id when it is logged, so no two requests share one. *)
vrijBericht(w, m) ==
  /\ message[m] = Unsent
  /\ \A v \in Workers : pc[v] # "idle" => task[v].msg # m
  /\ Begin(w, m, NoJob)

(* A slip: the retry is a QueuedJob, off the list as soon as it runs.      *)
retrySendOnce(w, job) ==
  /\ job \in jobs /\ job.due
  /\ \A v \in Workers :
       pc[v] # "idle" => <<task[v].msg, task[v].attempt>> # <<job.msg, job.attempt>>
  /\ pc[w] = "idle"
  /\ Goto(w, "check")
  /\ task' = [task EXCEPT ![w] = [msg |-> job.msg, attempt |-> job.attempt,
                                   copy |-> message[job.msg], answer |-> "none", seen |-> 0]]
  /\ jobs' = jobs \ {job}
  /\ UNCHANGED <<message, count, circuit, lost, faults>>

(* retrySend(): cron runs a due job in one worker at a time, and looks at  *)
(* no status of the row.                                                   *)
retrySend(w, job) ==
  /\ job \in jobs /\ job.due
  /\ \A v \in Workers :
       pc[v] # "idle" => <<task[v].msg, task[v].attempt>> # <<job.msg, job.attempt>>
  /\ Begin(w, job.msg, job.attempt)
------------------------------------------------------------------------------
(* isCircuitOpen(): a circuit that has cooled down is closed by whoever     *)
(* looks, the counter first; resetEndpoint() takes the same two steps.      *)
Proceed(w) ==
  IF task[w].answer = "ok" THEN Goto(w, "idle")
  ELSE Goto(w, IF task[w].attempt = NoJob THEN "log" ELSE "send")

checkEndpoint(w) ==
  /\ pc[w] = "check"
  /\ CASE circuit = "closed" -> Proceed(w)
       [] circuit = "cooling" -> Goto(w, "idle")
       [] circuit = "cooled" -> Goto(w, "resetCount")
  /\ UNCHANGED <<message, jobs, count, circuit, task, lost, faults>>

resetCount(w) ==
  /\ pc[w] = "resetCount"
  /\ count' = 0
  /\ Goto(w, "closeCircuit")
  /\ UNCHANGED <<message, jobs, circuit, task, lost, faults>>

closeCircuit(w) ==
  /\ pc[w] = "closeCircuit"
  /\ circuit' = "closed"
  /\ Proceed(w)
  /\ UNCHANGED <<message, jobs, count, task, lost, faults>>

logOutbound(w) ==
  /\ pc[w] = "log"
  /\ LET row == [status |-> "verzonden", retries |-> 0]
     IN /\ message' = [message EXCEPT ![task[w].msg] = row]
        /\ task' = [task EXCEPT ![w].copy = row]
  /\ Goto(w, "send")
  /\ UNCHANGED <<jobs, count, circuit, lost, faults>>

send(w) ==
  /\ pc[w] = "send"
  /\ \E answer \in {"ok", "transient", "permanent"} :
       task' = [task EXCEPT ![w].answer = answer]
  /\ Goto(w, "handle")
  /\ UNCHANGED <<message, jobs, count, circuit, lost, faults>>
------------------------------------------------------------------------------
(* handleResponse() writes the row it read before sending, changed.         *)
Save(w, row) == message' = [message EXCEPT ![task[w].msg] = row]

(* A slip: `<=` for `<`. *)
MayRetryOnceMore(w) == task[w].answer = "transient" /\ task[w].copy.retries <= MaxRetries

(* attempt < count(RETRY_BACKOFF_SECONDS) + 1, for attempt = retries + 1 *)
MayRetry(w) == task[w].answer = "transient" /\ task[w].copy.retries < MaxRetries

handleResponse(w) ==
  /\ pc[w] = "handle"
  /\ \/ /\ task[w].answer = "ok"
        /\ Save(w, [task[w].copy EXCEPT !.status = "bevestigd"])
        /\ Goto(w, "resetCount")
     \/ /\ MayRetry(w)
        /\ Save(w, [status |-> "wacht_op_retry", retries |-> task[w].copy.retries + 1])
        /\ Goto(w, "readCount")
     \/ /\ task[w].answer # "ok" /\ ~MayRetry(w)
        /\ Save(w, [task[w].copy EXCEPT !.status = "fout"])
        /\ Goto(w, "readCount")
  /\ UNCHANGED <<jobs, count, circuit, task, lost, faults>>

(* recordFailure(): read, write, and open the circuit at the threshold. *)
readCount(w) ==
  /\ pc[w] = "readCount"
  /\ task' = [task EXCEPT ![w].seen = count]
  /\ Goto(w, "writeCount")
  /\ UNCHANGED <<message, jobs, count, circuit, lost, faults>>

writeCount(w) ==
  /\ pc[w] = "writeCount"
  /\ count' = IF task[w].seen + 1 >= Threshold THEN Threshold ELSE task[w].seen + 1
  /\ Goto(w, IF task[w].seen + 1 >= Threshold THEN "openCircuit" ELSE "schedule")
  /\ UNCHANGED <<message, jobs, circuit, task, lost, faults>>

openCircuit(w) ==
  /\ pc[w] = "openCircuit"
  /\ circuit' = "cooling"
  /\ Goto(w, "schedule")
  /\ UNCHANGED <<message, jobs, count, task, lost, faults>>

(* A slip: no retry while the circuit is open.                              *)
scheduleRetryWhenClosed(w) ==
  /\ pc[w] = "schedule"
  /\ IF MayRetry(w) /\ circuit = "closed"
       THEN jobs' = jobs \cup {[msg |-> task[w].msg, attempt |-> task[w].copy.retries + 1,
                                due |-> FALSE]}
       ELSE UNCHANGED jobs
  /\ Goto(w, "idle")
  /\ UNCHANGED <<message, count, circuit, task, lost, faults>>

(* After a transient failure the retry goes on the job list, to run after   *)
(* its back-off; after any other one the administrators are told.           *)
scheduleRetry(w) ==
  /\ pc[w] = "schedule"
  /\ IF MayRetry(w)
       THEN jobs' = jobs \cup {[msg |-> task[w].msg, attempt |-> task[w].copy.retries + 1,
                                due |-> FALSE]}
       ELSE UNCHANGED jobs
  /\ Goto(w, "idle")
  /\ UNCHANGED <<message, count, circuit, task, lost, faults>>
------------------------------------------------------------------------------
(* A store or job-list call throws, or the process dies, at any step: what  *)
(* it had still to do is not done.                                          *)
Fault(w) ==
  /\ pc[w] # "idle"
  /\ faults < MaxFaults
  /\ faults' = faults + 1
  /\ Goto(w, "idle")
  /\ lost' = IF MayRetry(w) /\ pc[w] \in {"readCount", "writeCount", "openCircuit", "schedule"}
               THEN lost \cup {task[w].msg} ELSE lost
  /\ UNCHANGED <<message, jobs, count, circuit, task>>

(* The back-off of a job has passed; the cooldown of the circuit has. *)
BackOffPasses(job) ==
  /\ job \in jobs /\ ~job.due
  /\ jobs' = (jobs \ {job}) \cup {[job EXCEPT !.due = TRUE]}
  /\ UNCHANGED <<message, count, circuit, pc, task, lost, faults>>

CooldownPasses ==
  /\ circuit = "cooling"
  /\ circuit' = "cooled"
  /\ UNCHANGED <<message, jobs, count, pc, task, lost, faults>>

Work(w) ==
  \/ checkEndpoint(w) \/ resetCount(w) \/ closeCircuit(w) \/ logOutbound(w) \/ send(w)
  \/ handleResponse(w) \/ readCount(w) \/ writeCount(w) \/ openCircuit(w) \/ scheduleRetry(w)

Next ==
  \/ \E w \in Workers : Work(w) \/ Fault(w)
  \/ \E w \in Workers : \E m \in Messages : vrijBericht(w, m)
  \/ \E w \in Workers : \E job \in jobs : retrySend(w, job)
  \/ \E job \in jobs : BackOffPasses(job)
  \/ CooldownPasses

(* A process runs on unless it dies, time passes, and cron goes round its   *)
(* list: it runs the job it looked at longest ago.                          *)
Fairness ==
  /\ \A w \in Workers : WF_vars(Work(w))
  /\ \A job \in Job : /\ WF_vars(BackOffPasses(job))
                      /\ SF_vars(\E w \in Workers : retrySend(w, job))
  /\ WF_vars(CooldownPasses)

Spec == Init /\ [][Next]_vars /\ Fairness
------------------------------------------------------------------------------
(* Every variable holds a value of its kind: in particular no row has more  *)
(* retries than the back-off schedule, however many workers append to it.   *)
TypeOK ==
  /\ message \in [Messages -> Row]
  /\ jobs \subseteq Job
  /\ count \in 0 .. Threshold
  /\ circuit \in {"closed", "cooling", "cooled"}
  /\ pc \in [Workers -> {"idle", "check", "resetCount", "closeCircuit", "log", "send",
                         "handle", "readCount", "writeCount", "openCircuit", "schedule"}]
  /\ task \in [Workers -> Task]
  /\ lost \subseteq Messages
  /\ faults \in 0 .. MaxFaults

Scheduled(m) == \E job \in jobs : job.msg = m

(* A row that waits for its n-th retry has that retry on the list, or a     *)
(* worker about to put it there, unless a fault between recordRetry() and   *)
(* scheduleRetry() lost it: no interleaving of workers and no refusal by    *)
(* the breaker does.                                                        *)
WaitingIsScheduled ==
  \A m \in Messages :
    message[m].status = "wacht_op_retry" =>
      \/ \E job \in jobs : job.msg = m /\ job.attempt = message[m].retries
      \/ m \in lost
      \/ \E w \in Workers : /\ task[w].msg = m /\ MayRetry(w)
                            /\ task[w].copy.retries + 1 = message[m].retries
                            /\ pc[w] \in {"readCount", "writeCount", "openCircuit", "schedule"}

(* A row with a retry on the list is confirmed or given up in the end,      *)
(* whatever the endpoint answers, as long as faults stop.                   *)
RetriesSettle ==
  \A m \in Messages :
    (message[m].status = "wacht_op_retry" /\ Scheduled(m))
      ~> (message[m].status \in {"bevestigd", "fout"})

(* StufRetryJob "retries an outbound StUF kennisgeving whose previous       *)
(* attempt produced a transient failure".                                   *)
RetriesOnlyTransient ==
  \A w \in Workers :
    (pc[w] = "send" /\ task[w].attempt # NoJob) => task[w].copy.status = "wacht_op_retry"
==============================================================================
