------------------------------ MODULE SqliteBackend ------------------------------
(***************************************************************************)
(* The SQLite implementation of the StorageBackend trait                   *)
(* (crates/azums/src/backend/sqlite.rs): the tables jobs, job_attempts and *)
(* jobs_archive and the operations on them.                                *)
(*                                                                         *)
(* SQLite serialises the transactions that write and a transaction that    *)
(* fails is rolled back, so an operation that succeeds is one action and   *)
(* one that fails is none.  An operation reads Utc::now() before it gets   *)
(* the write lock: its clock may lag behind the time of its commit.        *)
(* replay_job has no action: its INSERT names 15 columns and gives 12      *)
(* values, so every call of it fails.  The clients are arbitrary.          *)
(***************************************************************************)
EXTENDS Integers, FiniteSets, Sequences

CONSTANTS
  JobIds,         \* the ids Uuid::new_v4 can return, in the order of the id column
  MaxAttemptId,   \* how many attempts can be started: a bound of the model
  Queues,         \* queue names
  Workers,        \* worker identities
  Keys,           \* idempotency keys
  NewJobs,        \* the NewJob arguments of enqueue and of enqueue_in_tx
  RetryDelays,    \* delays of reschedule_for_retry, relative to now
  BatchSizes,     \* batch_size arguments of a lease, limit arguments of archiving
  Orderings,      \* QueueOrdering arguments of a lease
  Cutoffs,        \* cutoff arguments of archiving
  DlqReasons,     \* reason_code arguments of mark_dlq
  LeaseSeconds,   \* the lease_seconds argument
  MaxLag,         \* how long an operation waits for the write lock
  Horizon,        \* the last instant that is told apart from later ones
  None            \* NULL, and the value of an absent row

Instants == 0 .. Horizon

AttemptIds == 1 .. MaxAttemptId

JobStatus == {"queued", "running", "succeeded", "dlq", "canceled"}

NewJobType ==
  [queue : Queues, idempotency_key : Keys \cup {None}, priority : Int, run_at : Instants,
   deadline_at : Instants \cup {None}, recurring_interval_seconds : Int \cup {None}, max_attempts : Int]

ASSUME SqliteAssumption ==
  /\ JobIds \subseteq Nat /\ MaxAttemptId \in Nat /\ Horizon \in Nat /\ MaxLag \in Nat
  /\ NewJobs \subseteq NewJobType
  /\ LeaseSeconds \in Nat /\ RetryDelays \subseteq Nat /\ BatchSizes \subseteq Int
  /\ Orderings \subseteq {"fifo", "fastest"} /\ Cutoffs \subseteq Instants
  /\ None \notin Int /\ None \notin Workers \cup Keys \cup DlqReasons
  /\ None \notin {"LEASE_EXPIRED", "CANCELLED", "HANDLER_FAILURE", "DEADLINE_EXCEEDED"}

VARIABLES
  now,          \* the time
  jobs,         \* table jobs
  job_attempts, \* table job_attempts
  jobs_archive, \* table jobs_archive
  last_attempt  \* the last attempt id Uuid::new_v4 returned

sqliteVars == <<now, jobs, job_attempts, jobs_archive, last_attempt>>

----------------------------------------------------------------------------
(* The schema: run_migrations                                               *)

\* A row of jobs without the columns nothing is decided by.
Job ==
  [queue : Queues, idempotency_key : Keys \cup {None}, priority : Int,
   run_at : Instants, deadline_at : Instants \cup {None},
   recurring_interval_seconds : Int \cup {None}, max_attempts : Int,
   status : JobStatus, locked_by : Workers \cup {None},
   lock_expires_at : Instants \cup {None}, dlq_reason_code : DlqReasons \cup {"DEADLINE_EXCEEDED", None},
   replay_of_job_id : JobIds \cup {None}, created_at : Instants, updated_at : Instants]

\* A row of job_attempts: job_id REFERENCES jobs ON DELETE CASCADE.
AttemptRow ==
  [job_id : JobIds, attempt_no : Nat, status : {"running", "succeeded", "failed"},
   worker_id : Workers, error_code : {"LEASE_EXPIRED", "CANCELLED", "HANDLER_FAILURE", None}]

\* None is no row.
ASSUME AbsentAssumption == None \notin Job /\ None \notin AttemptRow

SqliteTypeOK ==
  /\ now \in Instants
  /\ jobs \in [JobIds -> Job \cup {None}]
  /\ job_attempts \in [AttemptIds -> AttemptRow \cup {None}]
  /\ jobs_archive \in [JobIds -> Job \cup {None}]
  /\ last_attempt \in 0 .. MaxAttemptId

SqliteInit ==
  /\ now = 0
  /\ jobs = [j \in JobIds |-> None]
  /\ job_attempts = [a \in AttemptIds |-> None]
  /\ jobs_archive = [j \in JobIds |-> None]
  /\ last_attempt = 0

----------------------------------------------------------------------------
(* Helpers                                                                  *)

At(t) == IF t <= Horizon THEN t ELSE Horizon

\* What Utc::now() was when the operation that commits now read it.
Clock == {t \in Instants : now - MaxLag <= t /\ t <= now}

Live == {j \in JobIds : jobs[j] # None}

Unused == {j \in JobIds : jobs[j] = None /\ jobs_archive[j] = None}

Rows(j) == {a \in AttemptIds : job_attempts[a] # None /\ job_attempts[a].job_id = j}

OpenAttempt(a, j) == a \in Rows(j) /\ job_attempts[a].status = "running"

\* WHERE id = ? AND status = 'running' AND locked_by = ?
HoldsLease(j, w) == j \in Live /\ jobs[j].status = "running" /\ jobs[j].locked_by = w

\* locked_at = NULL, locked_by = NULL, lock_expires_at = NULL, updated_at = ?
Unlocked(row, t) == [row EXCEPT !.locked_by = None, !.lock_expires_at = None, !.updated_at = t]

Inserted(nj, key, replayOf, t) ==
  [queue |-> nj.queue, idempotency_key |-> key, priority |-> nj.priority,
   run_at |-> nj.run_at, deadline_at |-> nj.deadline_at,
   recurring_interval_seconds |-> nj.recurring_interval_seconds,
   max_attempts |-> nj.max_attempts, status |-> "queued", locked_by |-> None,
   lock_expires_at |-> None, dlq_reason_code |-> None, replay_of_job_id |-> replayOf,
   created_at |-> t, updated_at |-> t]

----------------------------------------------------------------------------
(* Operations                                                               *)

SqliteTick == now < Horizon /\ now' = now + 1 /\ UNCHANGED <<jobs, job_attempts, jobs_archive, last_attempt>>

\* The unique index over the keys that are not NULL.
KeyTaken(key) == key # None /\ \E j \in Live : jobs[j].idempotency_key = key

\* enqueue_in_tx, committed by its caller.  A taken key changes nothing and
\* returns the id of the job that has it.
enqueue_in_tx(nj, id, t) ==
  /\ ~ KeyTaken(nj.idempotency_key)
  /\ jobs' = [jobs EXCEPT ![id] = Inserted(nj, nj.idempotency_key, None, t)]
  /\ UNCHANGED <<now, job_attempts, jobs_archive, last_attempt>>

\* enqueue binds neither the deadline nor the recurrence (nor timeout_seconds).
enqueue(nj, id, t) ==
  enqueue_in_tx([nj EXCEPT !.deadline_at = None, !.recurring_interval_seconds = None], id, t)

Runnable(q, t) == {j \in Live : jobs[j].queue = q /\ jobs[j].status = "queued" /\ jobs[j].run_at <= t}

\* The first statement of a lease: runnable work whose deadline has passed.
Overdue(q, t) == {j \in Runnable(q, t) : jobs[j].deadline_at # None /\ jobs[j].deadline_at < t}

\* ORDER BY: i must come before j.  QueueOrdering::Fastest leaves ties to SQLite.
Precedes(i, j, ordering) ==
  LET key(k) == <<- jobs[k].priority, jobs[k].run_at, jobs[k].created_at, k>>
      n == IF ordering = "fifo" THEN 4 ELSE 2
  IN  \E p \in 1 .. n : key(i)[p] < key(j)[p] /\ \A o \in 1 .. p - 1 : key(i)[o] = key(j)[o]

\* The results of SELECT ... ORDER BY ... LIMIT; a negative limit is none.
Candidates(q, t, ordering, limit) ==
  LET due == Runnable(q, t) \ Overdue(q, t)
  IN  {S \in SUBSET due :
         /\ Cardinality(S) = limit \/ (S = due /\ (limit < 0 \/ Cardinality(due) <= limit))
         /\ \A i \in S, j \in due \ S : ~ Precedes(j, i, ordering)}

\* lease_jobs_batch_with_ordering; lease_jobs_batch asks for "fifo".  The deadline
\* sweep is committed also when nothing is leased.
lease_jobs_batch_with_ordering(q, w, limit, ordering, t) ==
  \E taken \in Candidates(q, t, ordering, limit) :
    /\ jobs' = [j \in JobIds |->
         IF j \in taken
         THEN [jobs[j] EXCEPT !.status = "running", !.locked_by = w,
                              !.lock_expires_at = At(t + LeaseSeconds), !.updated_at = t]
         ELSE IF j \in Overdue(q, t)
         THEN [jobs[j] EXCEPT !.status = "dlq", !.dlq_reason_code = "DEADLINE_EXCEEDED", !.updated_at = t]
         ELSE jobs[j]]
    /\ UNCHANGED <<now, job_attempts, jobs_archive, last_attempt>>

extend_lease(j, w, t) ==
  /\ HoldsLease(j, w)
  /\ jobs' = [jobs EXCEPT ![j].lock_expires_at = At(t + LeaseSeconds), ![j].updated_at = t]
  /\ UNCHANGED <<now, job_attempts, jobs_archive, last_attempt>>

\* The attempt cancel_job closes: ORDER BY attempt_no DESC LIMIT 1.
LatestOpen(j) ==
  {a \in AttemptIds : OpenAttempt(a, j) /\
     \A b \in AttemptIds : OpenAttempt(b, j) => job_attempts[b].attempt_no <= job_attempts[a].attempt_no}

Canceled(j, t) == [jobs EXCEPT ![j] = [Unlocked(@, t) EXCEPT !.status = "canceled"]]

cancel_queued_job(j, t) ==
  /\ j \in Live /\ jobs[j].status = "queued"
  /\ jobs' = Canceled(j, t)
  /\ UNCHANGED <<now, job_attempts, jobs_archive, last_attempt>>

cancel_running_job(j, w, t) ==
  /\ HoldsLease(j, w)
  /\ jobs' = Canceled(j, t)
  /\ job_attempts' = [a \in AttemptIds |->
       IF a \in LatestOpen(j)
       THEN [job_attempts[a] EXCEPT !.status = "failed", !.error_code = "CANCELLED"]
       ELSE job_attempts[a]]
  /\ UNCHANGED <<now, jobs_archive, last_attempt>>

\* Mutant: a lease that still runs is taken back as well.
ExpiredLocks_NextSecond(t) == {j \in Live : jobs[j].status = "running" /\ jobs[j].lock_expires_at <= t + 1}

ExpiredLocks(t) == {j \in Live : jobs[j].status = "running" /\ jobs[j].lock_expires_at # None
                                                            /\ jobs[j].lock_expires_at <= t}

reap_expired_locks(t) ==
  /\ jobs' = [j \in JobIds |->
       IF j \in ExpiredLocks(t) THEN [Unlocked(jobs[j], t) EXCEPT !.status = "queued"] ELSE jobs[j]]
  /\ job_attempts' = [a \in AttemptIds |->
       IF \E j \in ExpiredLocks(t) : OpenAttempt(a, j)
       THEN [job_attempts[a] EXCEPT !.status = "failed", !.error_code = "LEASE_EXPIRED"]
       ELSE job_attempts[a]]
  /\ UNCHANGED <<now, jobs_archive, last_attempt>>

Largest(S) == CHOOSE n \in S : \A m \in S : m <= n

\* Mutant: attempts are numbered by how many are open.
NextNo_OpenOnly(j) == Cardinality({a \in AttemptIds : OpenAttempt(a, j)}) + 1

\* SELECT MAX(attempt_no), 0 when there is none, plus one.
NextNo(j) == Largest({job_attempts[a].attempt_no : a \in Rows(j)} \cup {0}) + 1

\* start_attempts_batch: one transaction, so either every job of the batch is
\* leased to w and gets an attempt, or none does.
start_attempts_batch(js, w) ==
  /\ \A i \in DOMAIN js : HoldsLease(js[i], w)
  /\ last_attempt + Len(js) <= MaxAttemptId
  /\ job_attempts' = [a \in AttemptIds |->
       IF a \in last_attempt + 1 .. last_attempt + Len(js)
       THEN [job_id |-> js[a - last_attempt], attempt_no |-> NextNo(js[a - last_attempt]),
             status |-> "running", worker_id |-> w, error_code |-> None]
       ELSE job_attempts[a]]
  /\ last_attempt' = last_attempt + Len(js)
  /\ UNCHANGED <<now, jobs, jobs_archive>>

\* UPDATE job_attempts ... WHERE id = ? AND job_id = ? AND status = 'running'
CloseAttempt(a, j, status, code) ==
  /\ OpenAttempt(a, j)
  /\ job_attempts' = [job_attempts EXCEPT ![a].status = status, ![a].error_code = code]

\* interval_seconds.max(1)
Interval(row) == IF row.recurring_interval_seconds < 1 THEN 1 ELSE row.recurring_interval_seconds

\* The next occurrence is due one interval, of at least a second, after this one was.
NextOccurrence(j, t) ==
  LET interval == Interval(jobs[j])
  IN  Inserted([jobs[j] EXCEPT !.run_at = At(@ + interval),
                               !.deadline_at = IF @ = None THEN None ELSE At(@ + interval)], None, j, t)

Completed(j, t) == [jobs EXCEPT ![j] = [Unlocked(@, t) EXCEPT !.status = "succeeded"]]

mark_succeeded_once(j, a, w, t) ==
  /\ CloseAttempt(a, j, "succeeded", None)
  /\ HoldsLease(j, w)
  /\ jobs[j].recurring_interval_seconds = None
  /\ jobs' = Completed(j, t)
  /\ UNCHANGED <<now, jobs_archive, last_attempt>>

\* Mutant: the next occurrence is left to another transaction, which is lost.
mark_succeeded_recurring_NotScheduled(j, a, w, id, t) ==
  /\ CloseAttempt(a, j, "succeeded", None)
  /\ HoldsLease(j, w)
  /\ jobs[j].recurring_interval_seconds # None
  /\ jobs' = Completed(j, t)
  /\ UNCHANGED <<now, jobs_archive, last_attempt>>

\* mark_succeeded of a recurring job; mark_succeeded_batch calls it in a loop.
mark_succeeded_recurring(j, a, w, id, t) ==
  /\ CloseAttempt(a, j, "succeeded", None)
  /\ HoldsLease(j, w)
  /\ jobs[j].recurring_interval_seconds # None
  /\ jobs' = [Completed(j, t) EXCEPT ![id] = NextOccurrence(j, t)]
  /\ UNCHANGED <<now, jobs_archive, last_attempt>>

reschedule_for_retry(j, a, w, nextRunAt, t) ==
  /\ CloseAttempt(a, j, "failed", "HANDLER_FAILURE")
  /\ HoldsLease(j, w)
  /\ jobs' = [jobs EXCEPT ![j] = [Unlocked(@, t) EXCEPT !.status = "queued", !.run_at = nextRunAt]]
  /\ UNCHANGED <<now, jobs_archive, last_attempt>>

\* Mutant: reason_code and error_code are bound in the wrong order.
mark_dlq_SwapsCodes(j, a, w, reason, t) ==
  /\ CloseAttempt(a, j, "failed", reason)
  /\ HoldsLease(j, w)
  /\ jobs' = [jobs EXCEPT ![j] = [Unlocked(@, t) EXCEPT !.status = "dlq", !.dlq_reason_code = "HANDLER_FAILURE"]]
  /\ UNCHANGED <<now, jobs_archive, last_attempt>>

mark_dlq(j, a, w, reason, t) ==
  /\ CloseAttempt(a, j, "failed", "HANDLER_FAILURE")
  /\ HoldsLease(j, w)
  /\ jobs' = [jobs EXCEPT ![j] = [Unlocked(@, t) EXCEPT !.status = "dlq", !.dlq_reason_code = reason]]
  /\ UNCHANGED <<now, jobs_archive, last_attempt>>

\* archive_succeeded_older_than: the key is not copied, and the DELETE of the job
\* cascades to its attempts, which are lost.  After that the DELETE of
\* delete_history_for_succeeded_older_than, which looks for attempts of archived
\* jobs, finds no row.
archive_succeeded_older_than(cutoff, limit) ==
  LET old == {j \in Live : jobs[j].status = "succeeded" /\ jobs[j].updated_at < cutoff}
  IN  \E moved \in {S \in SUBSET old : Cardinality(S) = limit \/ (S = old /\ (limit < 0 \/ Cardinality(old) <= limit))} :
        /\ jobs_archive' = [j \in JobIds |-> IF j \in moved THEN [jobs[j] EXCEPT !.idempotency_key = None]
                                                            ELSE jobs_archive[j]]
        /\ jobs' = [j \in JobIds |-> IF j \in moved THEN None ELSE jobs[j]]
        /\ job_attempts' = [a \in AttemptIds |-> IF \E j \in moved : a \in Rows(j) THEN None ELSE job_attempts[a]]
        /\ UNCHANGED <<now, last_attempt>>

----------------------------------------------------------------------------
(* Arbitrary clients                                                        *)

Batches == {<<j>> : j \in JobIds} \cup {s \in JobIds \X JobIds : s[1] # s[2]}

SqliteWork(w, t) ==
  \/ \E q \in Queues, n \in BatchSizes, o \in Orderings : lease_jobs_batch_with_ordering(q, w, n, o, t)
  \/ \E j \in JobIds : extend_lease(j, w, t) \/ cancel_running_job(j, w, t)
  \/ \E j \in JobIds, a \in AttemptIds :
       \/ mark_succeeded_once(j, a, w, t)
       \/ \E id \in Unused : mark_succeeded_recurring(j, a, w, id, t)
       \/ \E d \in RetryDelays : reschedule_for_retry(j, a, w, At(t + d), t)
       \/ \E reason \in DlqReasons : mark_dlq(j, a, w, reason, t)

SqliteNext ==
  \/ SqliteTick
  \/ \E w \in Workers, js \in Batches : start_attempts_batch(js, w)
  \/ \E cutoff \in Cutoffs, limit \in BatchSizes : archive_succeeded_older_than(cutoff, limit)
  \/ \E t \in Clock :
       \/ \E nj \in NewJobs, id \in Unused : enqueue(nj, id, t) \/ enqueue_in_tx(nj, id, t)
       \/ \E j \in JobIds : cancel_queued_job(j, t)
       \/ reap_expired_locks(t)
       \/ \E w \in Workers : SqliteWork(w, t)

SqliteSpec == SqliteInit /\ [][SqliteNext]_sqliteVars

----------------------------------------------------------------------------
(* Properties                                                               *)

\* What the contract sees of an attempt.
OutcomeOf(a, j) ==
  IF a \notin Rows(j) THEN "none"
  ELSE IF job_attempts[a].status = "running" THEN "open"
  ELSE IF job_attempts[a].status = "succeeded" THEN "succeeded"
  ELSE job_attempts[a].error_code

ViewOf(j) ==
  [status  |-> IF j \in Live THEN jobs[j].status ELSE IF jobs_archive[j] # None THEN "archived" ELSE "absent",
   holder  |-> IF j \in Live THEN jobs[j].locked_by ELSE None,
   expiry  |-> IF j \in Live THEN jobs[j].lock_expires_at ELSE None,
   run_at  |-> IF j \in Live THEN jobs[j].run_at ELSE None,
   attempt |-> [a \in AttemptIds |-> OutcomeOf(a, j)]]

Contract == INSTANCE JobContract WITH job <- [j \in JobIds |-> ViewOf(j)]

\* The tables implement the contract of a job, although every operation may act
\* on a clock that lags behind: a lease is taken back only after it has run out,
\* due work only is leased, and every end of a lease closes the attempts that
\* explain it (all operations of impl StorageBackend for SqliteBackend).
SqliteKeepsContract == Contract!ContractSpec

\* The attempts of a job in `jobs` are numbered 1, 2, ..., n in the order of their
\* start, and there is no attempt of a job that is gone: MAX(attempt_no) + 1 repeats
\* no number because rows leave only with their job (start_attempts_batch, CASCADE).
AttemptRowsComplete ==
  /\ \A a \in AttemptIds : job_attempts[a] # None => job_attempts[a].job_id \in Live
  /\ \A j \in Live : \A a \in Rows(j) :
       job_attempts[a].attempt_no = Cardinality({b \in Rows(j) : b <= a})

\* The job was put off by reschedule_for_retry.
Retried(j) == \E a \in Rows(j) : job_attempts[a].error_code = "HANDLER_FAILURE"

\* A recurring job that has succeeded, archived or not, has exactly one next
\* occurrence, due at least a second later until a retry puts it off: the chain neither
\* breaks nor forks, whatever is reaped, retried and acknowledged on the way
\* (mark_succeeded).
RecurrenceUnbroken ==
  LET row(j) == IF j \in Live THEN jobs[j] ELSE jobs_archive[j]
  IN  \A j \in JobIds \ Unused :
        LET next == {i \in JobIds \ Unused : row(i).replay_of_job_id = j}
        IN  IF row(j).status = "succeeded" /\ row(j).recurring_interval_seconds # None
            THEN \E i \in next :
                   /\ next = {i}
                   /\ i \in Live /\ ~ Retried(i) => jobs[i].run_at >= At(row(j).run_at + Interval(row(j)))
            ELSE next = {}
=============================================================================
