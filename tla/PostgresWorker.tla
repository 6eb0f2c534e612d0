---------------------------- MODULE PostgresWorker ----------------------------
(***************************************************************************)
(* Worker processes of crates/worker/src/main.rs on the Postgres tables:   *)
(* the loop that reaps, leases, starts attempts, runs the handlers of the  *)
(* batch and reports through JobRunner (jobs/runner.rs).                   *)
(*                                                                         *)
(* There is no heartbeat.  A report is two transactions, the attempt       *)
(* first, the job second.  Any error ends the process; the container       *)
(* runtime starts it again under the same worker id.                       *)
(***************************************************************************)
EXTENDS PostgresRepo

CONSTANTS
  Outcomes,      \* what handlers can come to
  RetryDelays,   \* what next_delay_seconds can return
  BatchSize,     \* dequeue_batch_size
  MaxCrashes     \* how often a process may be killed: a bound of the model

ASSUME WorkerAssumption ==
  /\ Outcomes \subseteq HandlerOutcomes
  /\ RetryDelays \subseteq Nat
  /\ BatchSize \in Nat \ {0}
  /\ MaxCrashes \in Nat

VARIABLES
  pc,        \* where each worker is
  work,      \* the jobs of the batch it still has to report, with their attempts
  current,   \* the failed job whose attempt is closed and which is not settled yet
  crashes

workerVars == <<pc, work, current, crashes>>

allVars == <<pgVars, workerVars>>

PcValues ==
  {"top", "reaping", "polling", "leasing", "idle", "leased", "starting", "handling",
   "finishing", "marking", "failing", "settling", "down"}

Entry == [attempt : AttemptIds \cup {None}, outcome : HandlerOutcomes \cup {None}]

WorkerTypeOK ==
  /\ PgTypeOK
  /\ pc \in [Workers -> PcValues]
  /\ \A w \in Workers : DOMAIN work[w] \subseteq JobIds /\ work[w] \in [DOMAIN work[w] -> Entry]
  /\ current \in [Workers -> JobIds \cup {None}]
  /\ crashes \in 0 .. MaxCrashes

Nothing == [j \in {} |-> None]

WorkerInit ==
  /\ PgInit
  /\ pc = [w \in Workers |-> "top"]
  /\ work = [w \in Workers |-> Nothing]
  /\ current = [w \in Workers |-> None]
  /\ crashes = 0

Go(w, where, left) ==
  /\ pc' = [pc EXCEPT ![w] = where]
  /\ work' = [work EXCEPT ![w] = left]
  /\ UNCHANGED <<current, crashes>>

Batch(w) == DOMAIN work[w]

Without(w, S) == [j \in Batch(w) \ S |-> work[w][j]]

Succeeded(w) == {j \in Batch(w) : work[w][j].outcome = "ok"}

----------------------------------------------------------------------------
(* Reap and lease                                                           *)

\* last_reap_at.elapsed() < reap_interval, or nothing has expired.
SkipReap(w) ==
  /\ pc[w] = "top"
  /\ Go(w, "polling", Nothing)
  /\ UNCHANGED pgVars

ReapBegin(w) ==
  /\ pc[w] = "top"
  /\ reap_begin(w)
  /\ Go(w, "reaping", Nothing)

ReapCommit(w) ==
  /\ pc[w] = "reaping"
  /\ reap_commit(w)
  /\ Go(w, "polling", Nothing)

LeaseNothing(w) ==
  /\ pc[w] = "polling"
  /\ lease_nothing(w)
  /\ Go(w, "idle", Nothing)

LeaseBegin(w) ==
  /\ pc[w] = "polling"
  /\ lease_begin(w)
  /\ Go(w, "leasing", Nothing)

LeaseThrottled(w) ==
  /\ pc[w] = "leasing"
  /\ lease_throttled(w)
  /\ Go(w, "idle", Nothing)

LeaseTake(w) ==
  LET taken == Candidates(w, BatchSize)
  IN  /\ pc[w] = "leasing"
      /\ lease_take(w, BatchSize)
      /\ Go(w, IF taken = {} THEN "idle" ELSE "leased",
            [j \in taken |-> [attempt |-> None, outcome |-> None]])

\* An empty batch waits for a notification or the reap interval.
Wake(w) ==
  /\ pc[w] = "idle"
  /\ Go(w, "top", Nothing)
  /\ UNCHANGED pgVars

----------------------------------------------------------------------------
(* Attempts and handlers                                                    *)

StartBegin(w) ==
  /\ pc[w] = "leased"
  /\ start_attempts_begin(Batch(w), w)
  /\ Go(w, "starting", work[w])

\* An attempt for every job, or the process ends and leaves those it inserted.
StartInsert(w) ==
  /\ pc[w] = "starting"
  /\ start_attempts_insert(w)
  /\ IF tx[w].joined = Batch(w)
     THEN Go(w, "handling", [j \in Batch(w) |->
               [attempt |-> NewAttempt(Batch(w), j), outcome |-> None]])
     ELSE Go(w, "down", Nothing)

StartRejected(w) ==
  /\ pc[w] = "starting"
  /\ start_attempts_rejected(w)
  /\ Go(w, "down", Nothing)

StartAttempts(w) == StartBegin(w) \/ StartInsert(w) \/ StartRejected(w)

\* The handlers run concurrently and all of them are joined before any report.
Handle(w) ==
  /\ pc[w] = "handling"
  /\ \E outcome \in [Batch(w) -> Outcomes] :
       Go(w, IF \E j \in Batch(w) : outcome[j] = "ok" THEN "finishing" ELSE "failing",
          [j \in Batch(w) |-> [work[w][j] EXCEPT !.outcome = outcome[j]]])
  /\ UNCHANGED pgVars

----------------------------------------------------------------------------
(* JobRunner                                                                *)

\* on_success_batch: the attempts ...
FinishSucceeded(w) ==
  /\ pc[w] = "finishing"
  /\ finish_succeeded_batch({work[w][j].attempt : j \in Succeeded(w)}, w)
  /\ Go(w, "marking", work[w])

\* Where the loop goes when the jobs in S have been reported.
Reported(w, S) ==
  Go(w, IF Batch(w) \subseteq S THEN "top" ELSE "failing", Without(w, S))

\* Mutant: the job ids of the whole batch are passed on.
MarkSucceeded_WholeBatch(w) ==
  /\ pc[w] = "marking"
  /\ mark_succeeded_batch(Batch(w), w)
  /\ IF StillLeased(Batch(w), w) = Batch(w)
     THEN Reported(w, Batch(w))
     ELSE Go(w, "down", Nothing)

\* ... then the jobs.  The process ends if one of them is not its own any more.
MarkSucceeded(w) ==
  /\ pc[w] = "marking"
  /\ mark_succeeded_batch(Succeeded(w), w)
  /\ IF StillLeased(Succeeded(w), w) = Succeeded(w)
     THEN Reported(w, Succeeded(w))
     ELSE Go(w, "down", Nothing)

\* on_failure: the attempt of the next failed job ...
FinishFailed(w) ==
  /\ pc[w] = "failing"
  /\ \E j \in Batch(w) :
       /\ finish_failed(work[w][j].attempt, w)
       /\ current' = [current EXCEPT ![w] = j]
  /\ pc' = [pc EXCEPT ![w] = "settling"]
  /\ UNCHANGED <<work, crashes>>

\* A panic is reported with max_attempts 0.
CanRetry(w, j) ==
  /\ IsRetryable(work[w][j].outcome)
  /\ job_attempts[work[w][j].attempt].attempt_no < jobs[j].max_attempts

Settled(w, where, left) ==
  /\ pc' = [pc EXCEPT ![w] = where]
  /\ work' = [work EXCEPT ![w] = left]
  /\ current' = [current EXCEPT ![w] = None]
  /\ UNCHANGED crashes

AfterCurrent(w) ==
  LET left == Batch(w) \ {current[w]}
  IN  Settled(w, IF left = {} THEN "top" ELSE "failing", Without(w, {current[w]}))

\* ... then the job: back to the queue after a delay,
Retry(w) ==
  /\ pc[w] = "settling"
  /\ CanRetry(w, current[w])
  /\ \E d \in RetryDelays : reschedule_for_retry(current[w], w, At(now + d))
  /\ AfterCurrent(w)

\* to the DLQ,
DeadLetter(w) ==
  /\ pc[w] = "settling"
  /\ ~ CanRetry(w, current[w])
  /\ mark_dlq(current[w], w, DlqReason(work[w][current[w]].outcome))
  /\ AfterCurrent(w)

\* or an error, since no row matched: the process ends.
SettleRejected(w) ==
  /\ pc[w] = "settling"
  /\ IF CanRetry(w, current[w]) THEN jobs[current[w]].status # "running"
                                ELSE ~ Leased(current[w], w)
  /\ Settled(w, "down", Nothing)
  /\ UNCHANGED pgVars

----------------------------------------------------------------------------
(* Processes and clients                                                    *)

\* The process is killed: its open transaction is rolled back.
Crash(w) ==
  /\ pc[w] # "down"
  /\ crashes < MaxCrashes
  /\ crashes' = crashes + 1
  /\ pc' = [pc EXCEPT ![w] = "down"]
  /\ work' = [work EXCEPT ![w] = Nothing]
  /\ current' = [current EXCEPT ![w] = None]
  /\ Rollback(w)
  /\ UNCHANGED <<tables, now>>

\* restart: unless-stopped
Restart(w) ==
  /\ pc[w] = "down"
  /\ Go(w, "top", Nothing)
  /\ UNCHANGED pgVars

Producer == \E new \in NewJobs : enqueue(new)

CancelRead == \E c \in Clients, j \in JobIds, w \in Workers \cup {None} : cancel_read(c, j, w)

CancelWrite == \E c \in Clients : tx[c] # None /\ cancel_write(c)

Environment ==
  /\ Tick \/ Producer \/ CancelRead \/ CancelWrite
  /\ UNCHANGED workerVars

Settle(w) == Retry(w) \/ DeadLetter(w) \/ SettleRejected(w)

Poll(w) == LeaseNothing(w) \/ LeaseBegin(w) \/ LeaseThrottled(w) \/ LeaseTake(w)

Step(w) ==
  \/ SkipReap(w) \/ ReapBegin(w) \/ ReapCommit(w) \/ Poll(w) \/ Wake(w)
  \/ StartAttempts(w) \/ Handle(w)
  \/ FinishSucceeded(w) \/ MarkSucceeded(w) \/ FinishFailed(w) \/ Settle(w)
  \/ Crash(w) \/ Restart(w)

WorkerNext == Environment \/ \E w \in Workers : Step(w)

WorkerSpec == WorkerInit /\ [][WorkerNext]_allVars

\* Time passes, the runtime schedules the loop, handlers return, a process that
\* ended is started again, and the reap interval elapses again and again at the
\* top of the loop.  Nothing is assumed of producers and clients.
WorkerFairness ==
  /\ WF_allVars(Tick /\ UNCHANGED workerVars)
  /\ \A w \in Workers :
       /\ WF_allVars(SkipReap(w) \/ Poll(w) \/ Wake(w) \/ ReapCommit(w))
       /\ WF_allVars(StartAttempts(w) \/ Handle(w))
       /\ WF_allVars(FinishSucceeded(w) \/ MarkSucceeded(w) \/ FinishFailed(w) \/ Settle(w))
       /\ WF_allVars(Restart(w))
       /\ SF_allVars(ReapBegin(w))

FairWorkerSpec == WorkerSpec /\ WorkerFairness

----------------------------------------------------------------------------
(* Properties                                                               *)

\* No late report, reap, throttle or cancellation makes a finished job active
\* again (docs/src/job_lifecycle.md: "completion, cancellation, and DLQ cannot be
\* mutated back into active work").
NoRevival ==
  [][\A j \in Rows : jobs[j].status \in Terminal => jobs'[j].status \in Terminal]_allVars

\* A job that is succeeded has a succeeded attempt: the two transactions of
\* on_success_batch, interrupted by a crash or a lost lease, never acknowledge a
\* job without the evidence of its execution.
AckedHasAttempt ==
  \A j \in Rows : jobs[j].status = "succeeded" =>
    \E a \in AttemptsOf(j) : job_attempts[a].status = "succeeded"

\* A worker that has a job in its batch and still holds its lease holds the latest
\* attempt: the ACK and the DLQ compare the worker id only, and still can not be
\* applied to a later lease than the one the handler ran under.
HolderHasLatestAttempt ==
  \A w \in Workers : pc[w] \notin {"leased", "starting", "down"} =>
    \A j \in Batch(w) : Leased(j, w) =>
      \A a \in AttemptsOf(j) :
        job_attempts[a].attempt_no <= job_attempts[work[w][j].attempt].attempt_no

\* The attempts of a job are numbered without repetition in the order they were
\* inserted, whichever workers read the numbers, and however long before
\* (start_attempts_batch, and the unique constraint on (job_id, attempt_no)).
AttemptNosIncrease ==
  \A a, b \in Recorded :
    a < b /\ job_attempts[a].job_id = job_attempts[b].job_id
      => job_attempts[a].attempt_no < job_attempts[b].attempt_no

\* A lease that no live process has work for: its process died or gave up.
Abandoned(j) ==
  /\ j \in Rows /\ jobs[j].status = "running"
  /\ j \notin Batch(jobs[j].locked_by)

\* A lease whose process was killed or ended with an error, between whichever two
\* transactions, is given up in the end (docs/src/leasing.md: "a committed
\* non-terminal job must not silently disappear because a worker dies").
LeaseIsRecovered == \A j \in JobIds : Abandoned(j) ~> ~ Abandoned(j)
=============================================================================
