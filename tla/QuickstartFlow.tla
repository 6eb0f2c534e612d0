----------------------------- MODULE QuickstartFlow -----------------------------
(***************************************************************************)
(* Workers of crates/azums/src/quickstart.rs on the memory backend: the    *)
(* loop of run_with_shutdown, process_batch and handle_failure.            *)
(*                                                                         *)
(* A flow polls: it may reap, leases a batch, starts an attempt for every  *)
(* job of the batch in one call, then runs the handlers one after the      *)
(* other and reports each result before it goes on to the next.  Only the  *)
(* job whose handler is running is kept alive by a heartbeat.  Between two *)
(* calls of the backend any other flow, client or clock tick may come in.  *)
(***************************************************************************)
EXTENDS MemoryBackend, FailureClass

CONSTANTS
  Flows,       \* running QuickstartFlow instances
  worker_id,   \* the worker_id of each flow
  queue,       \* the queue of each flow
  Outcomes,    \* what handlers can come to
  BatchSize,   \* the batch size of a lease: 32 in the code
  MaxCrashes   \* how often a flow's task may be aborted: a bound of the model

\* The flows are among the clients that MemoryBackend allows.
ASSUME FlowAssumption ==
  /\ worker_id \in [Flows -> Workers]
  /\ queue \in [Flows -> Queues]
  /\ Outcomes \subseteq HandlerOutcomes
  /\ ReasonCodes \subseteq DlqReasons
  /\ BatchSize \in BatchSizes \cap Nat
  /\ MaxCrashes \in Nat

VARIABLES
  pc,          \* where each flow is
  batch,       \* the jobs of the batch that are left, each with its attempt
  crashes      \* aborted tasks so far

flowVars == <<pc, batch, crashes>>

allVars == <<vars, flowVars>>

Down == {"stopped", "failed", "crashed"}

Current(f) == Head(batch[f])

Go(f, where, left) ==
  /\ pc' = [pc EXCEPT ![f] = where]
  /\ batch' = [batch EXCEPT ![f] = left]

\* The next job of the batch, or the top of the loop when the batch is done.
Advance(f) ==
  IF Len(batch[f]) > 1 THEN Go(f, "handler", Tail(batch[f])) ELSE Go(f, "top", <<>>)

FlowInit ==
  /\ Init
  /\ pc = [f \in Flows |-> "top"]
  /\ batch = [f \in Flows |-> <<>>]
  /\ crashes = 0

----------------------------------------------------------------------------
(* The loop                                                                 *)

\* Every reap_interval the top of the loop reaps before it leases.
Reap(f) ==
  /\ pc[f] = "top"
  /\ reap_expired_locks
  /\ Go(f, "reaped", batch[f])
  /\ UNCHANGED crashes

\* The entries of a set in index order.
InOrder(entries) ==
  {s \in [1 .. Cardinality(entries) -> entries] : \A i, k \in DOMAIN s : i < k => Before(s[i], s[k])}

\* Lease up to BatchSize jobs; the returned Vec is in index order.
Lease(f) ==
  LET taken == Candidates(queue[f], BatchSize)
  IN  /\ pc[f] \in {"top", "reaped"}
      /\ lease_jobs_batch(queue[f], worker_id[f], BatchSize)
      /\ \E s \in InOrder(taken) :
           Go(f, IF taken = {} THEN "idle" ELSE "leased",
              [i \in DOMAIN s |-> [job |-> s[i].id, attempt |-> None]])
      /\ UNCHANGED crashes

\* An empty batch waits for a notification or the interval, whichever is first.
Wake(f) ==
  /\ pc[f] = "idle"
  /\ Go(f, "top", <<>>)
  /\ UNCHANGED <<vars, crashes>>

\* The shutdown token is looked at at the top of the loop and while waiting.
Shutdown(f) ==
  /\ pc[f] \in {"top", "idle"}
  /\ Go(f, "stopped", <<>>)
  /\ UNCHANGED <<vars, crashes>>

\* run_until_empty leases without reaping or waiting and returns at its first empty
\* batch; its other batches are those of the loop.
ReturnWhenEmpty(f) ==
  /\ pc[f] = "top"
  /\ Candidates(queue[f], BatchSize) = {}
  /\ lease_jobs_batch(queue[f], worker_id[f], BatchSize)
  /\ Go(f, "stopped", <<>>)
  /\ UNCHANGED crashes

\* process_batch: one start_attempts_batch call for the whole batch.  An error
\* ends the loop and leaves behind the attempts that were inserted before it.
StartAttempts(f) ==
  LET js == [i \in DOMAIN batch[f] |-> batch[f][i].job]
  IN  /\ pc[f] = "leased"
      /\ start_attempts_batch(js, worker_id[f])
      /\ IF Reaches(js, worker_id[f], Len(js))
         THEN Go(f, "handler", [i \in DOMAIN js |-> [job |-> js[i], attempt |-> last_attempt + i]])
         ELSE Go(f, "failed", <<>>)
      /\ UNCHANGED crashes

\* The heartbeat task of the job whose handler is running.
Heartbeat(f) ==
  /\ pc[f] = "handler"
  /\ extend_lease(Current(f).job, worker_id[f])
  /\ UNCHANGED flowVars

CanReport(f) ==
  HoldsLease(Current(f).job, worker_id[f]) /\ OpenAttempt(Current(f).attempt, Current(f).job)

\* The handler returns Ok(()).
HandlerOk(f) ==
  LET j == Current(f).job
      a == Current(f).attempt
  IN  /\ pc[f] = "handler"
      /\ "ok" \in Outcomes
      /\ \/ mark_succeeded_once(j, a, worker_id[f])
         \/ \E id \in Unused : mark_succeeded_recurring(j, a, worker_id[f], id)
      /\ Advance(f)
      /\ UNCHANGED crashes

\* Mutant: the attempt that uses the budget up is retried as well.
handle_failure_OneTooMany(f, outcome) ==
  LET j == Current(f).job
      a == Current(f).attempt
      can_retry == IsRetryable(outcome) /\ attempts[a].attempt_no <= jobs[j].max_attempts
  IN  \/ /\ can_retry
         /\ \E d \in RetryDelays : reschedule_for_retry(j, a, worker_id[f], At(now + d))
      \/ /\ ~ can_retry
         /\ mark_dlq(j, a, worker_id[f], DlqReason(outcome))

\* handle_failure: a retryable class with budget left is rescheduled, the rest
\* goes to the DLQ.
handle_failure(f, outcome) ==
  LET j == Current(f).job
      a == Current(f).attempt
      can_retry == IsRetryable(outcome) /\ attempts[a].attempt_no < jobs[j].max_attempts
  IN  \/ /\ can_retry
         /\ \E d \in RetryDelays : reschedule_for_retry(j, a, worker_id[f], At(now + d))
      \/ /\ ~ can_retry
         /\ mark_dlq(j, a, worker_id[f], DlqReason(outcome))

\* The handler returns an error, or no handler is registered for the job type
\* (UNKNOWN_JOB_TYPE, a permanent error).
HandlerFails(f) ==
  /\ pc[f] = "handler"
  /\ \E outcome \in Outcomes \cap {"retryable", "permanent", "cancelled"} :
       CanReport(f) /\ handle_failure(f, outcome)
  /\ Advance(f)
  /\ UNCHANGED crashes

\* The handler panics: straight to the DLQ.
HandlerPanics(f) ==
  /\ pc[f] = "handler"
  /\ "panic" \in Outcomes
  /\ mark_dlq(Current(f).job, Current(f).attempt, worker_id[f], "PANIC")
  /\ Advance(f)
  /\ UNCHANGED crashes

\* timeout_seconds passes: the failure is reported and process_batch returns, so
\* that the rest of the batch stays leased and its attempts stay open.
HandlerTimesOut(f) ==
  /\ pc[f] = "handler"
  /\ "timeout" \in Outcomes
  /\ CanReport(f) /\ handle_failure(f, "timeout")
  /\ Go(f, "top", <<>>)
  /\ UNCHANGED crashes

\* The backend rejects the report of a lease that was lost: `?` ends the loop.
ReportRejected(f) ==
  /\ pc[f] = "handler"
  /\ ~ CanReport(f)
  /\ Go(f, "failed", <<>>)
  /\ UNCHANGED <<vars, crashes>>

\* The task that runs the flow is aborted at some await.
Crash(f) ==
  /\ pc[f] \notin Down
  /\ crashes < MaxCrashes
  /\ crashes' = crashes + 1
  /\ Go(f, "crashed", <<>>)
  /\ UNCHANGED vars

\* Its owner calls run() again after an error or an abort.
Restart(f) ==
  /\ pc[f] \in {"failed", "crashed"}
  /\ Go(f, "top", <<>>)
  /\ UNCHANGED <<vars, crashes>>

\* Producers, cancellation through the flow, and the clock.
Client ==
  /\ \/ Tick \/ Produce \/ Archive
     \/ \E f \in Flows, j \in JobIds : cancel_running_job(j, worker_id[f])
  /\ UNCHANGED flowVars

Step(f) ==
  \/ Reap(f) \/ Lease(f) \/ Wake(f) \/ StartAttempts(f) \/ Heartbeat(f)
  \/ HandlerOk(f) \/ HandlerFails(f) \/ HandlerPanics(f) \/ HandlerTimesOut(f)
  \/ ReportRejected(f)

FlowNext == Client \/ \E f \in Flows : Step(f) \/ Shutdown(f) \/ ReturnWhenEmpty(f) \/ Crash(f) \/ Restart(f)

FlowSpec == FlowInit /\ [][FlowNext]_allVars

\* A handler comes to one of its outcomes and the flow reports it.
Report(f) ==
  HandlerOk(f) \/ HandlerFails(f) \/ HandlerPanics(f) \/ HandlerTimesOut(f) \/ ReportRejected(f)

\* Time passes; the runtime schedules every flow; handlers return; the reap
\* interval elapses again and again in a loop that keeps coming back to its top;
\* a flow that ended with an error or an abort is run again.  Heartbeats may be
\* late, and nothing makes a flow shut down or crash.
Fairness ==
  /\ WF_allVars(Tick /\ UNCHANGED flowVars)
  /\ \A f \in Flows :
       /\ WF_allVars(Lease(f)) /\ WF_allVars(Wake(f)) /\ WF_allVars(StartAttempts(f))
       /\ WF_allVars(Report(f)) /\ WF_allVars(Restart(f))
       /\ SF_allVars(Reap(f))

FairFlowSpec == FlowSpec /\ Fairness

----------------------------------------------------------------------------
(* Properties                                                               *)

\* Every attempt that is still open belongs to the flow that holds the lease of
\* its job, and is the only open one: a worker whose lease was reaped can not
\* acknowledge, retry or dead-letter the job any more, and no attempt of a job
\* that is over or waiting is left open (reap_expired_locks against
\* start_attempts_batch, process_batch and cancel_job).
OpenAttemptFenced ==
  \A a \in AttemptIds : attempts[a] # None /\ attempts[a].status = "running" =>
    /\ HoldsLease(attempts[a].job_id, attempts[a].worker_id)
    /\ \A b \in AttemptIds : OpenAttempt(b, attempts[a].job_id) => a = b

Failures(j) ==
  {a \in AttemptIds : attempts[a] # None /\ attempts[a].job_id = j
                      /\ attempts[a].error_code = "HANDLER_FAILURE"}

\* However leases expire and batches are abandoned, the handler of a job fails at
\* most max_attempts times, and once if that is not positive (handle_failure).
FailuresWithinBudget ==
  \A j \in Live :
    \/ Cardinality(Failures(j)) <= 1
    \/ Cardinality(Failures(j)) <= jobs[j].max_attempts

\* A job that is leased to a worker none of whose flows has it in its batch: its
\* flow crashed, failed, or returned from the batch after a timeout.
Abandoned(j) ==
  /\ jobs[j] # None
  /\ jobs[j].status = "running"
  /\ \A f \in Flows : \A i \in DOMAIN batch[f] :
       ~ (batch[f][i].job = j /\ worker_id[f] = jobs[j].locked_by)

\* No flow is left to do the work, or the model has no attempt id left.
NobodyWorks == (\A f \in Flows : pc[f] = "stopped") \/ last_attempt = MaxAttemptId

\* Work that was abandoned while leased does not stay leased: some flow reaps it
\* (docs/src/leasing.md, "a committed non-terminal job must not silently disappear
\* because a worker dies").
AbandonedIsRecovered == \A j \in JobIds : Abandoned(j) ~> (~ Abandoned(j) \/ NobodyWorks)

\* Queued work that is due is leased, cancelled or dead-lettered at some point,
\* although no notification is guaranteed to reach an idle flow: retries and
\* reaped jobs are requeued without one (Wake).
DueIsTaken ==
  \A j \in JobIds :
    (jobs[j] # None /\ jobs[j].status = "queued" /\ jobs[j].run_at <= now)
      ~> (jobs[j] = None \/ jobs[j].status # "queued" \/ NobodyWorks)
=============================================================================
