------------------------------ MODULE MemoryBackend ------------------------------
(***************************************************************************)
(* The in-memory implementation of the StorageBackend trait: jobs, their   *)
(* leases, their attempts and the per-queue index of runnable work         *)
(* (crates/azums-core/src/backend/memory.rs).                              *)
(*                                                                         *)
(* Every operation of the backend takes the one RwLock of MemoryBackend,   *)
(* so every operation is one action here.  The clients are arbitrary:      *)
(* any caller may invoke any operation of the trait with any argument, in  *)
(* any order, which is what the trait allows.  QuickstartFlow restricts    *)
(* the callers to the worker loop of the program.  A call that the code    *)
(* rejects before it has written anything changes no state and is not an   *)
(* action.                                                                 *)
(***************************************************************************)
EXTENDS Integers, FiniteSets, Sequences

CONSTANTS
  JobIds,         \* the ids Uuid::new_v4 can return, ordered as Uuid is
  MaxAttemptId,   \* how many attempts can be started: a bound of the model
  Queues,         \* queue names
  Workers,        \* worker identities, the values of locked_by
  Keys,           \* idempotency keys
  NewJobs,        \* the NewJob arguments enqueue may receive
  RetryDelays,    \* delays of reschedule_for_retry, relative to now
  BatchSizes,     \* batch_size arguments of a lease, limit arguments of maintenance
  ReplayTimes,    \* override_run_at arguments of replay_job, None for no override
  Cutoffs,        \* cutoff arguments of archiving and of deleting history
  DlqReasons,     \* reason_code arguments of mark_dlq
  LeaseSeconds,   \* the lease_seconds argument
  Horizon,        \* the last instant that is told apart from later ones
  None            \* Option::None, and the value of an absent map entry

Instants == 0 .. Horizon

\* Attempt ids are handed out in increasing order; 0 is never one.
AttemptIds == 1 .. MaxAttemptId

JobStatus == {"queued", "running", "succeeded", "dlq", "canceled"}

Terminal == {"succeeded", "dlq", "canceled"}

NewJobType ==
  [queue : Queues, idempotency_key : Keys \cup {None}, priority : Int,
   run_at : Instants, deadline_at : Instants \cup {None},
   recurring_interval_seconds : Nat \cup {None}, max_attempts : Int]

ASSUME JobIdsAssumption == JobIds \subseteq Nat /\ IsFiniteSet(JobIds)

ASSUME AttemptsAssumption == MaxAttemptId \in Nat

ASSUME HorizonAssumption == Horizon \in Nat

ASSUME LeaseAssumption == LeaseSeconds \in Nat

ASSUME InputsAssumption ==
  /\ NewJobs \subseteq NewJobType
  /\ RetryDelays \subseteq Nat
  /\ BatchSizes \subseteq Int
  /\ ReplayTimes \subseteq Instants \cup {None}
  /\ Cutoffs \subseteq Instants

ASSUME NoneAssumption ==
  /\ None \notin Nat
  /\ None \notin Workers
  /\ None \notin Keys
  /\ None \notin DlqReasons
  /\ None # "DEADLINE_EXCEEDED"

VARIABLES
  now,            \* Utc::now(), in seconds
  jobs,           \* InnerState.jobs
  queued_jobs,    \* InnerState.queued_jobs: the ordered index of each queue
  archive,        \* InnerState.archive
  attempts,       \* InnerState.attempts
  attempt_counts, \* InnerState.attempt_counts
  last_attempt    \* the last attempt id Uuid::new_v4 returned

vars == <<now, jobs, queued_jobs, archive, attempts, attempt_counts, last_attempt>>

----------------------------------------------------------------------------
(* Types                                                                    *)

ErrorCodes == {"LEASE_EXPIRED", "CANCELLED", "HANDLER_FAILURE"}

\* A row of the jobs map.  payload, job_type, dataset_id and locked_at decide
\* nothing in the backend and are left out.
Job ==
  [queue : Queues, idempotency_key : Keys \cup {None}, priority : Int,
   run_at : Instants, deadline_at : Instants \cup {None},
   recurring_interval_seconds : Nat \cup {None}, max_attempts : Int,
   status : JobStatus, locked_by : Workers \cup {None},
   lock_expires_at : Instants \cup {None}, dlq_reason_code : DlqReasons \cup {"DEADLINE_EXCEEDED", None},
   replay_of_job_id : JobIds \cup {None}, created_at : Instants, updated_at : Instants]

\* MemoryAttempt without the latency and the error text.
Attempt ==
  [job_id : JobIds, attempt_no : Nat, status : {"running", "succeeded", "failed"},
   worker_id : Workers, started_at : Instants, error_code : ErrorCodes \cup {None}]

ASSUME AbsentAssumption == None \notin Job /\ None \notin Attempt /\ None \notin ErrorCodes

QueueEntry == [priority : Int, run_at : Instants, created_at : Instants, id : JobIds]

TypeOK ==
  /\ now \in Instants
  /\ jobs \in [JobIds -> Job \cup {None}]
  /\ queued_jobs \in [Queues -> SUBSET QueueEntry]
  /\ archive \in [JobIds -> Job \cup {None}]
  /\ attempts \in [AttemptIds -> Attempt \cup {None}]
  /\ attempt_counts \in [JobIds -> Nat]
  /\ last_attempt \in 0 .. MaxAttemptId

----------------------------------------------------------------------------
(* Helpers                                                                  *)

\* Instants after the horizon are not told apart: time has passed them all.
At(t) == IF t <= Horizon THEN t ELSE Horizon

Live == {j \in JobIds : jobs[j] # None}

Unused == {j \in JobIds : jobs[j] = None /\ archive[j] = None}

\* QueueEntry::from_job
EntryOf(j, job) ==
  [priority |-> job.priority, run_at |-> job.run_at, created_at |-> job.created_at, id |-> j]

\* impl Ord for QueueEntry: higher priority, then earlier run_at, created_at, id.
Before(e, f) ==
  \/ e.priority > f.priority
  \/ /\ e.priority = f.priority
     /\ \/ e.run_at < f.run_at
        \/ /\ e.run_at = f.run_at
           /\ \/ e.created_at < f.created_at
              \/ /\ e.created_at = f.created_at
                 /\ e.id < f.id

\* Mutant: the report of any worker on any job is accepted.
HoldsLease_Unchecked(j, w) == jobs[j] # None

\* The guard that start_attempts, the three ways to finish an attempt, the
\* heartbeat and the cancellation of a running job share.
HoldsLease(j, w) == jobs[j] # None /\ jobs[j].status = "running" /\ jobs[j].locked_by = w

OpenAttempt(a, j) == attempts[a] # None /\ attempts[a].status = "running" /\ attempts[a].job_id = j

\* Mutant: the expiry outlives the lease.
Unlocked_KeepsExpiry(job) == [job EXCEPT !.locked_by = None, !.updated_at = now]

Unlocked(job) == [job EXCEPT !.locked_by = None, !.lock_expires_at = None, !.updated_at = now]

\* Insertion into the index of one queue.
Indexed(index, q, e) == [index EXCEPT ![q] = @ \cup {e}]

\* A job enters the maps as queued work that nobody holds.
FreshJob(nj, replayOf, key) ==
  [queue |-> nj.queue, idempotency_key |-> key, priority |-> nj.priority,
   run_at |-> nj.run_at, deadline_at |-> nj.deadline_at,
   recurring_interval_seconds |-> nj.recurring_interval_seconds,
   max_attempts |-> nj.max_attempts, status |-> "queued", locked_by |-> None,
   lock_expires_at |-> None, dlq_reason_code |-> None, replay_of_job_id |-> replayOf,
   created_at |-> now, updated_at |-> now]

----------------------------------------------------------------------------
(* Operations                                                               *)

Init ==
  /\ now = 0
  /\ jobs = [j \in JobIds |-> None]
  /\ queued_jobs = [q \in Queues |-> {}]
  /\ archive = [j \in JobIds |-> None]
  /\ attempts = [a \in AttemptIds |-> None]
  /\ attempt_counts = [j \in JobIds |-> 0]
  /\ last_attempt = 0

\* A second passes.
Tick ==
  /\ now < Horizon
  /\ now' = now + 1
  /\ UNCHANGED <<jobs, queued_jobs, archive, attempts, attempt_counts, last_attempt>>

\* The job enqueue finds for a key: only `jobs` is scanned, not the archive.
KeyTaken(key) == key # None /\ \E j \in Live : jobs[j].idempotency_key = key

\* enqueue of a job whose key is free (a taken key returns the existing id).
enqueue(nj, id) ==
  /\ ~ KeyTaken(nj.idempotency_key)
  /\ LET job == FreshJob(nj, None, nj.idempotency_key) IN
       /\ jobs' = [jobs EXCEPT ![id] = job]
       /\ queued_jobs' = Indexed(queued_jobs, nj.queue, EntryOf(id, job))
  /\ UNCHANGED <<now, archive, attempts, attempt_counts, last_attempt>>

\* The first sweep of a lease: runnable entries whose deadline has passed.
ExpiredDeadlines(q) ==
  {e \in queued_jobs[q] :
     /\ e.run_at <= now
     /\ jobs[e.id] # None
     /\ jobs[e.id].deadline_at # None
     /\ jobs[e.id].deadline_at < now}

\* Mutant: work past its deadline is still handed out.
Candidates_IgnoreDeadline(q, batchSize) ==
  LET runnable == {e \in queued_jobs[q] : e.run_at <= now}
  IN  {e \in runnable : Cardinality({f \in runnable : Before(f, e)}) < batchSize}

\* The second: the first batch_size runnable entries in index order.
Candidates(q, batchSize) ==
  LET runnable == {e \in queued_jobs[q] \ ExpiredDeadlines(q) : e.run_at <= now}
  IN  {e \in runnable : Cardinality({f \in runnable : Before(f, e)}) < batchSize}

Ids(entries) == {e.id : e \in entries}

Leased(job, w) ==
  [job EXCEPT !.status = "running", !.locked_by = w,
              !.lock_expires_at = At(now + LeaseSeconds), !.updated_at = now]

PastDeadline(job) ==
  [job EXCEPT !.status = "dlq", !.updated_at = now, !.dlq_reason_code = "DEADLINE_EXCEEDED"]

\* lease_jobs_batch_with_ordering; the ordering argument is ignored.
lease_jobs_batch(q, w, batchSize) ==
  LET expired == ExpiredDeadlines(q)
      taken   == Candidates(q, batchSize)
  IN  /\ queued_jobs' = [queued_jobs EXCEPT ![q] = (@ \ expired) \ taken]
      /\ jobs' = [j \in JobIds |->
           IF j \in Live /\ j \in Ids(taken) THEN Leased(jobs[j], w)
           ELSE IF j \in Ids(expired) THEN PastDeadline(jobs[j])
           ELSE jobs[j]]
      /\ UNCHANGED <<now, archive, attempts, attempt_counts, last_attempt>>

\* Mutant: leases that have not expired are reaped too.
ExpiredLocks_Unexpired == {j \in Live : jobs[j].status = "running"}

\* Mutant: expired leases are found through their open attempts.
ExpiredLocks_OfAttempts ==
  {j \in Live : /\ jobs[j].status = "running"
                /\ jobs[j].lock_expires_at <= now
                /\ \E a \in AttemptIds : OpenAttempt(a, j)}

ExpiredLocks ==
  {j \in Live : /\ jobs[j].status = "running"
                /\ jobs[j].lock_expires_at # None
                /\ jobs[j].lock_expires_at <= now}

\* Mutant: the attempts of a reaped job stay open.
reap_expired_locks_LeavesAttempts ==
  /\ jobs' = [j \in JobIds |->
       IF j \in ExpiredLocks THEN [Unlocked(jobs[j]) EXCEPT !.status = "queued"]
                             ELSE jobs[j]]
  /\ queued_jobs' = [q \in Queues |->
       queued_jobs[q] \cup
         {EntryOf(j, jobs[j]) : j \in {i \in ExpiredLocks : jobs[i].queue = q}}]
  /\ UNCHANGED <<now, archive, attempts, attempt_counts, last_attempt>>

\* Mutant: a reaped job is queued but not put back in the index.
reap_expired_locks_NotIndexed ==
  /\ attempts' = [a \in AttemptIds |->
       IF \E j \in ExpiredLocks : OpenAttempt(a, j)
       THEN [attempts[a] EXCEPT !.status = "failed", !.error_code = "LEASE_EXPIRED"]
       ELSE attempts[a]]
  /\ jobs' = [j \in JobIds |->
       IF j \in ExpiredLocks THEN [Unlocked(jobs[j]) EXCEPT !.status = "queued"]
                             ELSE jobs[j]]
  /\ UNCHANGED <<now, queued_jobs, archive, attempt_counts, last_attempt>>

\* reap_expired_locks: every open attempt of an expired job is closed, the job
\* goes back to its queue under its old run_at.  max_attempts is not consulted.
reap_expired_locks ==
  /\ attempts' = [a \in AttemptIds |->
       IF \E j \in ExpiredLocks : OpenAttempt(a, j)
       THEN [attempts[a] EXCEPT !.status = "failed", !.error_code = "LEASE_EXPIRED"]
       ELSE attempts[a]]
  /\ jobs' = [j \in JobIds |->
       IF j \in ExpiredLocks THEN [Unlocked(jobs[j]) EXCEPT !.status = "queued"]
                             ELSE jobs[j]]
  /\ queued_jobs' = [q \in Queues |->
       queued_jobs[q] \cup
         {EntryOf(j, jobs[j]) : j \in {i \in ExpiredLocks : jobs[i].queue = q}}]
  /\ UNCHANGED <<now, archive, attempt_counts, last_attempt>>

\* Mutant: attempts are numbered by the ones that are still kept open.
NextNo_OpenOnly(j) == Cardinality({a \in AttemptIds : OpenAttempt(a, j)}) + 1

\* The number of the next attempt of a job.
NextNo(j) == attempt_counts[j] + 1

\* start_attempts_batch gets through the first n jobs of a batch: they are leased
\* to w, and the next one, if any, is not, which makes it bail out.
Reaches(js, w, n) ==
  /\ \A i \in 1 .. n : HoldsLease(js[i], w)
  /\ n < Len(js) => ~ HoldsLease(js[n + 1], w)

\* start_attempts_batch: the attempts before the first job that is not leased
\* to w are inserted and stay, whether or not the call fails after them.
start_attempts_batch(js, w) ==
  \E n \in 0 .. Len(js) :
    /\ Reaches(js, w, n)
    /\ last_attempt + n <= MaxAttemptId
    /\ attempts' = [a \in AttemptIds |->
         IF a \in last_attempt + 1 .. last_attempt + n
         THEN [job_id |-> js[a - last_attempt], attempt_no |-> NextNo(js[a - last_attempt]),
               status |-> "running", worker_id |-> w, started_at |-> now, error_code |-> None]
         ELSE attempts[a]]
    /\ attempt_counts' = [j \in JobIds |->
         IF \E i \in 1 .. n : js[i] = j THEN NextNo(j) ELSE attempt_counts[j]]
    /\ last_attempt' = last_attempt + n
    /\ UNCHANGED <<now, jobs, queued_jobs, archive>>

\* What the three finishing operations do to the attempt.
CloseAttempt(a, status, code) ==
  attempts' = [attempts EXCEPT ![a].status = status, ![a].error_code = code]

\* mark_succeeded of a job that does not recur.
mark_succeeded_once(j, a, w) ==
  /\ HoldsLease(j, w)
  /\ OpenAttempt(a, j)
  /\ jobs[j].recurring_interval_seconds = None
  /\ CloseAttempt(a, "succeeded", None)
  /\ jobs' = [jobs EXCEPT ![j] = [Unlocked(@) EXCEPT !.status = "succeeded"]]
  /\ UNCHANGED <<now, queued_jobs, archive, attempt_counts, last_attempt>>

\* Mutant: the next occurrence inherits the idempotency key.
NextOccurrence_KeepsKey(j) == FreshJob(jobs[j], j, jobs[j].idempotency_key)

\* The next occurrence of a recurring job, due one interval after this one was.
NextOccurrence(j) ==
  LET job == jobs[j]
      shifted == [job EXCEPT
        !.run_at = At(@ + job.recurring_interval_seconds),
        !.deadline_at = IF @ = None THEN None ELSE At(@ + job.recurring_interval_seconds)]
  IN  FreshJob(shifted, j, None)

\* mark_succeeded of a recurring job: the same, and the next occurrence.
mark_succeeded_recurring(j, a, w, id) ==
  /\ HoldsLease(j, w)
  /\ OpenAttempt(a, j)
  /\ jobs[j].recurring_interval_seconds # None
  /\ CloseAttempt(a, "succeeded", None)
  /\ LET next == NextOccurrence(j) IN
       /\ jobs' = [jobs EXCEPT ![j] = [Unlocked(@) EXCEPT !.status = "succeeded"],
                               ![id] = next]
       /\ queued_jobs' = Indexed(queued_jobs, next.queue, EntryOf(id, next))
  /\ UNCHANGED <<now, archive, attempt_counts, last_attempt>>

\* reschedule_for_retry
reschedule_for_retry(j, a, w, nextRunAt) ==
  /\ HoldsLease(j, w)
  /\ OpenAttempt(a, j)
  /\ CloseAttempt(a, "failed", "HANDLER_FAILURE")
  /\ LET job == [Unlocked(jobs[j]) EXCEPT !.status = "queued", !.run_at = nextRunAt] IN
       /\ jobs' = [jobs EXCEPT ![j] = job]
       /\ queued_jobs' = Indexed(queued_jobs, job.queue, EntryOf(j, job))
  /\ UNCHANGED <<now, archive, attempt_counts, last_attempt>>

\* Mutant: the reason of the DLQ is written to the attempt's error code.
mark_dlq_SwapsCodes(j, a, w, reason) ==
  /\ HoldsLease(j, w)
  /\ OpenAttempt(a, j)
  /\ CloseAttempt(a, "failed", reason)
  /\ jobs' = [jobs EXCEPT ![j] = [Unlocked(@) EXCEPT !.status = "dlq",
                                                     !.dlq_reason_code = reason]]
  /\ UNCHANGED <<now, queued_jobs, archive, attempt_counts, last_attempt>>

\* mark_dlq
mark_dlq(j, a, w, reason) ==
  /\ HoldsLease(j, w)
  /\ OpenAttempt(a, j)
  /\ CloseAttempt(a, "failed", "HANDLER_FAILURE")
  /\ jobs' = [jobs EXCEPT ![j] = [Unlocked(@) EXCEPT !.status = "dlq",
                                                     !.dlq_reason_code = reason]]
  /\ UNCHANGED <<now, queued_jobs, archive, attempt_counts, last_attempt>>

\* extend_lease: whether the lease has already expired is not checked.
extend_lease(j, w) ==
  /\ HoldsLease(j, w)
  /\ jobs' = [jobs EXCEPT ![j].lock_expires_at = At(now + LeaseSeconds), ![j].updated_at = now]
  /\ UNCHANGED <<now, queued_jobs, archive, attempts, attempt_counts, last_attempt>>

\* Mutant: whatever is not running may be cancelled.
cancel_queued_job_AnyStatus(j) ==
  /\ jobs[j] # None
  /\ jobs[j].status # "running"
  /\ jobs' = [jobs EXCEPT ![j] = [Unlocked(@) EXCEPT !.status = "canceled"]]
  /\ queued_jobs' = [queued_jobs EXCEPT ![jobs[j].queue] = @ \ {EntryOf(j, jobs[j])}]
  /\ UNCHANGED <<now, archive, attempts, attempt_counts, last_attempt>>

\* Mutant: the entry of a cancelled job stays in the index.
cancel_queued_job_LeavesEntry(j) ==
  /\ jobs[j] # None
  /\ jobs[j].status = "queued"
  /\ jobs' = [jobs EXCEPT ![j] = [Unlocked(@) EXCEPT !.status = "canceled"]]
  /\ UNCHANGED <<now, queued_jobs, archive, attempts, attempt_counts, last_attempt>>

\* cancel_job of a queued job: anyone may.
cancel_queued_job(j) ==
  /\ jobs[j] # None
  /\ jobs[j].status = "queued"
  /\ jobs' = [jobs EXCEPT ![j] = [Unlocked(@) EXCEPT !.status = "canceled"]]
  /\ queued_jobs' = [queued_jobs EXCEPT ![jobs[j].queue] = @ \ {EntryOf(j, jobs[j])}]
  /\ UNCHANGED <<now, archive, attempts, attempt_counts, last_attempt>>

\* The open attempt with the highest number, the one cancellation closes.
LatestOpen(a, j) ==
  /\ OpenAttempt(a, j)
  /\ \A b \in AttemptIds : OpenAttempt(b, j) => attempts[b].attempt_no <= attempts[a].attempt_no

\* cancel_job of a running job: only the holder of the lease may.
cancel_running_job(j, w) ==
  /\ HoldsLease(j, w)
  /\ attempts' = [a \in AttemptIds |->
       IF LatestOpen(a, j)
       THEN [attempts[a] EXCEPT !.status = "failed", !.error_code = "CANCELLED"]
       ELSE attempts[a]]
  /\ jobs' = [jobs EXCEPT ![j] = [Unlocked(@) EXCEPT !.status = "canceled"]]
  /\ UNCHANGED <<now, queued_jobs, archive, attempt_counts, last_attempt>>

\* replay_job: new work from a job in any state, archived ones included.  The
\* deadline is copied as it is; the queue and run_at can be overridden.
replay_job(src, id, q, runAt) ==
  /\ src \notin Unused
  /\ LET source == IF jobs[src] # None THEN jobs[src] ELSE archive[src]
         job == FreshJob([source EXCEPT !.queue = q, !.run_at = runAt], src, None)
     IN /\ jobs' = [jobs EXCEPT ![id] = job]
        /\ queued_jobs' = Indexed(queued_jobs, q, EntryOf(id, job))
  /\ UNCHANGED <<now, archive, attempts, attempt_counts, last_attempt>>

\* The first `limit` members of a set in the arbitrary order of a HashMap.
\* A negative limit wraps to a huge usize.
Limited(S, limit) ==
  {T \in SUBSET S : Cardinality(T) = limit \/ (T = S /\ (limit < 0 \/ Cardinality(S) <= limit))}

\* archive_succeeded_older_than
archive_succeeded_older_than(cutoff, limit) ==
  \E moved \in Limited({j \in Live : jobs[j].status = "succeeded" /\ jobs[j].updated_at < cutoff}, limit) :
    /\ archive' = [j \in JobIds |-> IF j \in moved THEN jobs[j] ELSE archive[j]]
    /\ jobs' = [j \in JobIds |-> IF j \in moved THEN None ELSE jobs[j]]
    /\ UNCHANGED <<now, queued_jobs, attempts, attempt_counts, last_attempt>>

\* delete_history_for_succeeded_older_than: attempts of archived jobs only.
delete_history_for_succeeded_older_than(cutoff, limit) ==
  LET old == {a \in AttemptIds :
                /\ attempts[a] # None
                /\ attempts[a].started_at < cutoff
                /\ archive[attempts[a].job_id] # None
                /\ archive[attempts[a].job_id].updated_at < cutoff}
  IN  \E removed \in Limited(old, limit) :
        /\ attempts' = [a \in AttemptIds |-> IF a \in removed THEN None ELSE attempts[a]]
        /\ UNCHANGED <<now, jobs, queued_jobs, archive, attempt_counts, last_attempt>>

----------------------------------------------------------------------------
(* Arbitrary clients                                                        *)

\* The batches of distinct jobs a caller may start attempts for.
Batches ==
  UNION {{s \in [1 .. n -> JobIds] : \A i, k \in 1 .. n : s[i] = s[k] => i = k} :
           n \in 1 .. Cardinality(JobIds)}

Produce ==
  \/ \E nj \in NewJobs, id \in Unused : enqueue(nj, id)
  \/ \E src \in JobIds, id \in Unused, q \in Queues, t \in ReplayTimes :
       replay_job(src, id, q, IF t = None THEN now ELSE t)
  \/ \E j \in JobIds : cancel_queued_job(j)

Work(w) ==
  \/ \E q \in Queues, n \in BatchSizes : lease_jobs_batch(q, w, n)
  \/ \E js \in Batches : start_attempts_batch(js, w)
  \/ \E j \in JobIds : extend_lease(j, w) \/ cancel_running_job(j, w)
  \/ \E j \in JobIds, a \in AttemptIds :
       \/ mark_succeeded_once(j, a, w)
       \/ \E id \in Unused : mark_succeeded_recurring(j, a, w, id)
       \/ \E d \in RetryDelays : reschedule_for_retry(j, a, w, At(now + d))
       \/ \E reason \in DlqReasons : mark_dlq(j, a, w, reason)

Archive ==
  \E cutoff \in Cutoffs, limit \in BatchSizes :
    \/ archive_succeeded_older_than(cutoff, limit)
    \/ delete_history_for_succeeded_older_than(cutoff, limit)

Next == Tick \/ Produce \/ (\E w \in Workers : Work(w)) \/ reap_expired_locks \/ Archive

Spec == Init /\ [][Next]_vars

----------------------------------------------------------------------------
(* Properties                                                               *)

\* The index of a queue holds exactly the entries of its queued jobs: an entry
\* that is missing is a job no lease ever finds again, one too many is work
\* that is leased although it is running or over (queued_jobs against jobs).
IndexMatchesStatus ==
  \A q \in Queues :
    queued_jobs[q] = {EntryOf(j, jobs[j]) :
                        j \in {i \in Live : jobs[i].status = "queued" /\ jobs[i].queue = q}}

\* A job's columns show its status, as docs/src/job_lifecycle.md tabulates it: a
\* job is running exactly while a worker and an expiry are recorded, so that
\* reap_expired_locks can find it, and in the DLQ exactly when it has a reason.
StatusEvidence ==
  \A j \in Live :
    /\ jobs[j].status = "running" <=> jobs[j].locked_by # None
    /\ jobs[j].status = "running" <=> jobs[j].lock_expires_at # None
    /\ jobs[j].status = "dlq" <=> jobs[j].dlq_reason_code # None

Succeeded(a, j) == attempts[a] # None /\ attempts[a].job_id = j /\ attempts[a].status = "succeeded"

\* A job completes through one attempt and no other: no two attempts of a job
\* succeed, whatever is started, reaped and acknowledged in between, and a job
\* that is kept is succeeded exactly when one of its attempts is (mark_succeeded).
CompletedOnce ==
  \A j \in JobIds :
    /\ \A a, b \in AttemptIds : Succeeded(a, j) /\ Succeeded(b, j) => a = b
    /\ j \in Live => (jobs[j].status = "succeeded" <=> \E a \in AttemptIds : Succeeded(a, j))

\* attempt_no orders the attempts of a job as they were started, never repeats
\* and never runs ahead of attempt_counts, also after history was deleted
\* (start_attempts_batch; cancel_job relies on it to find the latest attempt).
AttemptsNumbered ==
  \A a \in AttemptIds : attempts[a] # None =>
    /\ attempts[a].attempt_no \in 1 .. attempt_counts[attempts[a].job_id]
    /\ \A b \in AttemptIds :
         attempts[b] # None /\ attempts[b].job_id = attempts[a].job_id /\ a < b
           => attempts[a].attempt_no < attempts[b].attempt_no

\* Two jobs in `jobs` never share an idempotency key, also when one of them was
\* made by replay_job or by the recurrence of mark_succeeded (enqueue).
UniqueLiveKey ==
  \A i, j \in Live :
    jobs[i].idempotency_key # None /\ jobs[i].idempotency_key = jobs[j].idempotency_key => i = j

\* A step leaves a terminal job as it is, or archives it as it is.
TerminalKept ==
  \A j \in Live : jobs[j].status \in Terminal =>
    \/ jobs'[j] = jobs[j]
    \/ jobs[j].status = "succeeded" /\ jobs'[j] = None /\ archive'[j] = jobs[j]

\* Terminal jobs are final: no operation changes a succeeded, dead-lettered or
\* cancelled job any more; archiving moves a succeeded one as it is
\* (docs/src/job_lifecycle.md, "Terminal states are terminal").
TerminalIsFinal == [][TerminalKept]_vars

\* A lease takes a job only when it is due and not past its deadline, and takes it
\* before every other due job of its queue that it leaves behind
\* (docs/src/ordering.md: priority, run_at, created_at, id).
LeaseInOrder ==
  [][\A j \in Live : jobs[j].status = "queued" /\ jobs'[j].status = "running" =>
       /\ jobs[j].run_at <= now
       /\ jobs[j].deadline_at # None => jobs[j].deadline_at >= now
       /\ \A i \in Live :
            /\ jobs[i].queue = jobs[j].queue
            /\ jobs[i].status = "queued" /\ jobs'[i].status = "queued"
            /\ jobs[i].run_at <= now
            => Before(EntryOf(j, jobs[j]), EntryOf(i, jobs[i]))]_vars
\* What the contract of a job sees of an attempt.
OutcomeOf(a, j) ==
  IF jobs[j] = None \/ attempts[a] = None \/ attempts[a].job_id # j THEN "none"
  ELSE IF attempts[a].status = "running" THEN "open"
  ELSE IF attempts[a].status = "succeeded" THEN "succeeded"
  ELSE attempts[a].error_code

ViewOf(j) ==
  [status  |-> IF jobs[j] # None THEN jobs[j].status ELSE IF archive[j] # None THEN "archived" ELSE "absent",
   holder  |-> IF jobs[j] # None THEN jobs[j].locked_by ELSE None,
   expiry  |-> IF jobs[j] # None THEN jobs[j].lock_expires_at ELSE None,
   run_at  |-> IF jobs[j] # None THEN jobs[j].run_at ELSE None,
   attempt |-> [a \in AttemptIds |-> OutcomeOf(a, j)]]

Contract == INSTANCE JobContract WITH job <- [j \in JobIds |-> ViewOf(j)]

\* The memory backend implements the contract of a job that every backend makes:
\* only due work is leased, a lease ends by its holder's report or after it has run
\* out, each end closes the attempts that explain it, and nothing leaves a terminal
\* state but by archiving (all operations of impl StorageBackend for MemoryBackend).
MemoryKeepsContract == Contract!ContractSpec
=============================================================================
