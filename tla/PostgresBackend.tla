---------------------------- MODULE PostgresBackend ----------------------------
(***************************************************************************)
(* impl StorageBackend for PostgresBackend                                 *)
(* (crates/azums/src/backend/postgres.rs) over the tables of PostgresRepo, *)
(* with maintenance.rs: reports that close an attempt and move its job in  *)
(* one transaction, recurring work, replay, archiving.                     *)
(*                                                                         *)
(* A report locks the attempt and then the job; the reaper and archiving   *)
(* lock jobs and then attempts.  Statements are steps, so that sessions    *)
(* meet in the middle of their transactions and wait for each other.       *)
(* Leases and INSERTs of attempts, which PostgresRepo splits and           *)
(* PostgresWorker interleaves, are one step here.  cancel_job is left to   *)
(* PostgresWorker: it reads the status without a lock and may overwrite a  *)
(* completion.                                                             *)
(* A report comes at any time, late and repeated ones included: whoever    *)
(* was given an attempt may report on it.                                  *)
(***************************************************************************)
EXTENDS PostgresRepo

CONSTANTS
  Intervals,    \* recurring_interval_seconds of new jobs: numbers, or None
  RetryDelays,
  DlqReasons,
  Cutoffs,      \* cutoff arguments of the maintenance
  BatchSizes    \* limits of leases and of archiving

ASSUME BackendAssumption ==
  /\ Intervals \subseteq Nat \cup {None}
  /\ RetryDelays \subseteq Nat /\ DlqReasons \subseteq ReasonCodes
  /\ Cutoffs \subseteq Instants /\ BatchSizes \subseteq Nat \ {0}

VARIABLES
  recurring,     \* column recurring_interval_seconds
  next_of,       \* replay_of_job_id of rows that mark_succeeded inserted
  updated_at,    \* column updated_at of rows that have succeeded
  jobs_archive,  \* the ids in jobs_archive
  partitions     \* datasets that have a partition of their own

columns == <<recurring, next_of, updated_at>>

backendVars == <<columns, jobs_archive, partitions>>

all == <<pgVars, backendVars>>

Calls == {"mark_succeeded", "mark_succeeded_batch", "reschedule_for_retry", "mark_dlq"}

\* An open report: the attempts locked and still to be locked, the one whose job is
\* updated next, the jobs updated.
ReportTx ==
  [kind : {"report"}, at : Instants, rows : SUBSET JobIds, closing : SUBSET AttemptIds,
   call : Calls, todo : SUBSET AttemptIds, pending : SUBSET AttemptIds, run_at : Instants \cup {None},
   reason : ReasonCodes \cup {None}]

\* An open reap: before and after the UPDATE of the attempts.
ReaperTx ==
  [kind : {"reap"}, at : Instants, rows : SUBSET JobIds, closing : SUBSET AttemptIds,
   closed : BOOLEAN]

\* An open archiving: the rows locked and copied.
ArchiveTx ==
  [kind : {"archive"}, at : Instants, rows : SUBSET JobIds, closing : {{}}, cutoff : Instants]

BackendTypeOK ==
  /\ jobs \in [JobIds -> Job \cup {None}]
  /\ job_attempts \in [AttemptIds -> Attempt \cup {None}]
  /\ policy_decisions \subseteq JobIds \X ThrottleReasons
  /\ tx \in [Sessions -> ReportTx \cup ReaperTx \cup ArchiveTx \cup {None}]
  /\ recurring \in [JobIds -> Nat \cup {None}]
  /\ next_of \in [JobIds -> JobIds \cup {None}]
  /\ updated_at \in [JobIds -> Instants]
  /\ jobs_archive \subseteq JobIds \ Rows
  /\ partitions \subseteq Datasets
  /\ now \in Instants

\* The migration creates the partitions of this hour and the next for the queue
\* "default", and none for any other queue.
BackendInit ==
  /\ PgInit
  /\ recurring = [j \in JobIds |-> None]
  /\ next_of = [j \in JobIds |-> None]
  /\ updated_at = [j \in JobIds |-> 0]
  /\ jobs_archive = {}
  /\ partitions \in {{}, {0, 1} \cap Datasets}

----------------------------------------------------------------------------
(* Rows of jobs                                                             *)

\* gen_random_uuid gives ids that no row ever had.
Unused == JobIds \ (Rows \cup jobs_archive)

QueuedRow(run_at, deadline_at, key, row) ==
  [row EXCEPT !.dataset_id = DatasetOf(run_at), !.run_at = run_at, !.deadline_at = deadline_at,
              !.idempotency_key = key, !.status = "queued", !.locked_by = None,
              !.lock_expires_at = None, !.dlq_reason_code = None]

\* CREATE TABLE ... PARTITION OF jobs waits until no transaction uses jobs.
ensure_dataset_partition(d) ==
  /\ d \in partitions \/ \A s \in Sessions : tx[s] = None
  /\ partitions' = partitions \cup {d}

\* enqueue, enqueue_in_tx: the partition, then INSERT ... ON CONFLICT DO UPDATE.  A
\* duplicate changes no column, but the trigger on UPDATE sets updated_at, which
\* matters where the row has succeeded.
enqueue_job(new, interval) ==
  /\ ensure_dataset_partition(DatasetOf(new.run_at))
  /\ \/ /\ ~ KeyTaken(new)
        /\ Unused # {}
        /\ LET j == Min(Unused) IN
             /\ jobs' = [jobs EXCEPT ![j] =
                  [dataset_id |-> DatasetOf(new.run_at), idempotency_key |-> new.idempotency_key,
                   priority |-> new.priority, run_at |-> new.run_at,
                   deadline_at |-> new.deadline_at, max_attempts |-> new.max_attempts,
                   status |-> "queued", locked_by |-> None, lock_expires_at |-> None,
                   dlq_reason_code |-> None]]
             /\ recurring' = [recurring EXCEPT ![j] = interval]
        /\ UNCHANGED updated_at
     \/ /\ KeyTaken(new)
        /\ \E j \in Rows \ UNION {tx[o].rows : o \in {o \in Sessions : tx[o] # None}} :
             /\ jobs[j].idempotency_key = new.idempotency_key
             /\ jobs[j].dataset_id = DatasetOf(new.run_at)
             /\ jobs[j].status = "succeeded"
             /\ updated_at' = [updated_at EXCEPT ![j] = now]
        /\ UNCHANGED <<jobs, recurring>>
  /\ UNCHANGED <<job_attempts, policy_decisions, tx, now, next_of, jobs_archive>>

\* A copy of a job in any state, with its interval and deadline, without its key.
replay_job(j, run_at) ==
  /\ j \in Rows
  /\ Unused # {}
  /\ ensure_dataset_partition(DatasetOf(run_at))
  /\ jobs' = [jobs EXCEPT ![Min(Unused)] = QueuedRow(run_at, jobs[j].deadline_at, None, jobs[j])]
  /\ recurring' = [recurring EXCEPT ![Min(Unused)] = recurring[j]]
  /\ UNCHANGED <<job_attempts, policy_decisions, tx, now, next_of, updated_at, jobs_archive>>

\* lease_jobs_batch of a queue that is not throttled: the sweep, the dataset of the
\* oldest due job, its first k rows that nobody has locked.
lease_jobs_batch(w, k) ==
  LET due == Due(now) \ Swept(now)
      free == {j \in due \ HeldByOthers(w) : jobs[j].dataset_id = jobs[Oldest(due)].dataset_id}
      taken == {j \in free : Cardinality({i \in free : Before(i, j)}) < k}
  IN  /\ tx[w] = None
      /\ ThrottleReason(now) = None
      /\ Swept(now) \cap HeldByOthers(w) = {}
      /\ jobs' = [j \in JobIds |->
           CASE j \in Swept(now) -> PastDeadline(jobs[j])
             [] j \in taken -> [jobs[j] EXCEPT !.status = "running", !.locked_by = w,
                                              !.lock_expires_at = At(now + LeaseSeconds)]
             [] OTHER -> jobs[j]]
      /\ UNCHANGED <<job_attempts, policy_decisions, tx, now, backendVars>>

\* UPDATE ... WHERE id AND locked_by AND status = 'running'.
extend_lease(j, w) ==
  /\ Leased(j, w)
  /\ j \notin HeldByOthers(w)
  /\ jobs' = [jobs EXCEPT ![j].lock_expires_at = At(now + LeaseSeconds)]
  /\ UNCHANGED <<job_attempts, policy_decisions, tx, now, backendVars>>

----------------------------------------------------------------------------
(* Reports: mark_succeeded, mark_succeeded_batch, reschedule_for_retry,     *)
(* mark_dlq                                                                 *)

AttemptsGivenTo(w) == {a \in Recorded : job_attempts[a].worker_id = w}

Reporting(s) == tx[s] # None /\ tx[s].kind = "report"

\* BEGIN and the UPDATE of the first attempt; one that is not running ends the
\* call without a trace.
report_begin(w, call, A, run_at, reason) ==
  /\ tx[w] = None
  /\ \E a \in A \ ClosedByOthers(w) :
       /\ job_attempts[a].status = "running"
       /\ Begin(w, [kind |-> "report", at |-> now, rows |-> {}, closing |-> {a}, call |-> call,
                    todo |-> A \ {a}, pending |-> {a}, run_at |-> run_at, reason |-> reason])
  /\ UNCHANGED <<tables, now, backendVars>>

\* The next attempt of a batch; an attempt that is not running rolls back all of it.
report_attempt(w) ==
  /\ Reporting(w) /\ tx[w].pending = {}
  /\ \E a \in tx[w].todo \ ClosedByOthers(w) :
       IF a \in Recorded /\ job_attempts[a].status = "running"
       THEN tx' = [tx EXCEPT ![w].closing = @ \cup {a}, ![w].todo = @ \ {a},
                              ![w].pending = {a}]
       ELSE Rollback(w)
  /\ UNCHANGED <<tables, now, backendVars>>

\* Mutant: the UPDATE of the job does not compare locked_by and status.
report_job_AnyHolder(w) ==
  /\ Reporting(w)
  /\ \E a \in tx[w].pending :
       /\ job_attempts[a].job_id \notin HeldByOthers(w)
       /\ tx' = [tx EXCEPT ![w].rows = @ \cup {job_attempts[a].job_id}, ![w].pending = {}]
  /\ UNCHANGED <<tables, now, backendVars>>

\* Mutant: a lost lease is reported to the caller, the transaction stays open.
report_job_KeepsOpen(w) ==
  /\ Reporting(w)
  /\ \E a \in tx[w].pending :
       LET j == job_attempts[a].job_id
       IN  /\ j \notin HeldByOthers(w)
           /\ Leased(j, w) /\ j \notin tx[w].rows
           /\ tx' = [tx EXCEPT ![w].rows = @ \cup {j}, ![w].pending = {}]
  /\ UNCHANGED <<tables, now, backendVars>>

\* The UPDATE of the job: without the lease, or when this transaction has completed
\* it already, everything is rolled back.
report_job(w) ==
  /\ Reporting(w)
  /\ \E a \in tx[w].pending :
       LET j == job_attempts[a].job_id
       IN  /\ j \notin HeldByOthers(w)
           /\ IF Leased(j, w) /\ j \notin tx[w].rows
              THEN tx' = [tx EXCEPT ![w].rows = @ \cup {j}, ![w].pending = {}]
              ELSE Rollback(w)
  /\ UNCHANGED <<tables, now, backendVars>>

ReportedJob(t, row) ==
  CASE t.call \in {"mark_succeeded", "mark_succeeded_batch"} -> Unlocked(row, "succeeded")
    [] t.call = "reschedule_for_retry" -> [Unlocked(row, "queued") EXCEPT !.run_at = t.run_at]
    [] t.call = "mark_dlq" -> [Unlocked(row, "dlq") EXCEPT !.dlq_reason_code = t.reason]

ReportedAttempt(t, row) ==
  IF t.call \in {"mark_succeeded", "mark_succeeded_batch"} THEN [row EXCEPT !.status = "succeeded"]
  ELSE ClosedAttempt(row, "HANDLER_FAILURE")

\* Mutant: every report on a recurring job brings the next occurrence.
Recurs_AnyReport(t) == \E j \in t.rows : recurring[j] # None

\* mark_succeeded_batch does not look at the interval.
Recurs(t) == t.call = "mark_succeeded" /\ \E j \in t.rows : recurring[j] # None

\* COMMIT of a report that brings no next occurrence.
report_commit(w) ==
  LET t == tx[w]
  IN  /\ Reporting(w) /\ tx[w].pending = {} /\ t.todo = {}
      /\ ~ Recurs(t)
      /\ jobs' = [j \in JobIds |-> IF j \in t.rows THEN ReportedJob(t, jobs[j]) ELSE jobs[j]]
      /\ job_attempts' = [a \in AttemptIds |->
           IF a \in t.closing THEN ReportedAttempt(t, job_attempts[a]) ELSE job_attempts[a]]
      /\ updated_at' = [j \in JobIds |->
           IF j \in t.rows /\ jobs'[j].status = "succeeded" THEN t.at ELSE updated_at[j]]
      /\ Commit(w)
      /\ UNCHANGED <<policy_decisions, now, recurring, next_of, jobs_archive, partitions>>

\* The job of mark_succeeded, the seconds to its next occurrence, and when that is due.
Completing(t) == CHOOSE j \in t.rows : TRUE

IntervalOf(t) == Max({recurring[Completing(t)], 1})

NextRunAt(t) == At(jobs[Completing(t)].run_at + IntervalOf(t))

\* The next occurrence of a recurring job.  ensure_dataset_partition runs on another
\* connection while this transaction holds jobs: for a dataset without a partition
\* it waits for this transaction, which waits for it.
report_recurring(w) ==
  LET t == tx[w]
      j == Completing(t)
      deadline_at == IF jobs[j].deadline_at = None THEN None ELSE At(jobs[j].deadline_at + IntervalOf(t))
  IN  /\ Reporting(w) /\ tx[w].pending = {} /\ t.todo = {}
      /\ Recurs(t)
      /\ ensure_dataset_partition(DatasetOf(NextRunAt(t)))
      /\ Unused # {}
      /\ jobs' = [jobs EXCEPT ![j] = ReportedJob(t, @),
                              ![Min(Unused)] = QueuedRow(NextRunAt(t), deadline_at, None, jobs[j])]
      /\ job_attempts' = [a \in AttemptIds |->
           IF a \in t.closing THEN ReportedAttempt(t, job_attempts[a]) ELSE job_attempts[a]]
      /\ recurring' = [recurring EXCEPT ![Min(Unused)] = recurring[j]]
      /\ next_of' = [next_of EXCEPT ![Min(Unused)] = j]
      /\ updated_at' = [updated_at EXCEPT ![j] = t.at]
      /\ Commit(w)
      /\ UNCHANGED <<policy_decisions, now, jobs_archive>>

\* The INSERT fails (the model has no id left): the completion is rolled back with it.
report_recurring_fails(w) ==
  /\ Reporting(w) /\ tx[w].pending = {} /\ tx[w].todo = {}
  /\ Recurs(tx[w])
  /\ DatasetOf(NextRunAt(tx[w])) \in partitions
  /\ Unused = {}
  /\ Rollback(w)
  /\ UNCHANGED <<tables, now, backendVars>>

----------------------------------------------------------------------------
(* reap_expired_locks, statement by statement, and start_attempts_batch     *)

\* SELECT ... FOR UPDATE SKIP LOCKED.
reap_select(s) ==
  LET expired == ExpiredLocks(now) \ HeldByOthers(s)
  IN  /\ tx[s] = None
      /\ expired # {}
      /\ Begin(s, [kind |-> "reap", at |-> now, rows |-> expired, closing |-> {}, closed |-> FALSE])
      /\ UNCHANGED <<tables, now, backendVars>>

Reaping(s, closed) == tx[s] # None /\ tx[s].kind = "reap" /\ tx[s].closed = closed

\* The UPDATE of the open attempts, which reports may have locked.
reap_attempts(s) ==
  LET open == OpenAttempts(tx[s].rows)
  IN  /\ Reaping(s, FALSE)
      /\ open \cap ClosedByOthers(s) = {}
      /\ tx' = [tx EXCEPT ![s].closing = open, ![s].closed = TRUE]
      /\ UNCHANGED <<tables, now, backendVars>>

\* start_attempts_batch: the next number for every job of S, all of them leased to w.
start_attempts_batch(S, w) ==
  /\ tx[w] = None
  /\ S \cap LockedForUpdate(w) = {}
  /\ Max(Recorded \cup {0}) + Cardinality(S) <= MaxAttemptId
  /\ job_attempts' = [a \in AttemptIds |->
       IF \E j \in S : a = NewAttempt(S, j)
       THEN LET j == CHOOSE j \in S : a = NewAttempt(S, j)
            IN  [job_id |-> j, attempt_no |-> NextNo(j), worker_id |-> w, started_at |-> now,
                 status |-> "running", error_code |-> None]
       ELSE job_attempts[a]]
  /\ UNCHANGED <<jobs, policy_decisions, tx, now, backendVars>>

----------------------------------------------------------------------------
(* MaintenanceRepo                                                          *)

OlderSucceeded(cutoff) ==
  {j \in Rows : jobs[j].status = "succeeded" /\ updated_at[j] < cutoff}

\* ORDER BY updated_at ASC LIMIT k.
OldestFirst(S, k) ==
  {T \in SUBSET S :
     /\ Cardinality(T) = Min({k, Cardinality(S)})
     /\ \A i \in T, j \in S \ T : updated_at[i] <= updated_at[j]}

\* archive_succeeded_older_than: SELECT ... FOR UPDATE SKIP LOCKED, INSERT into the
\* archive ...
archive_begin(c, cutoff, k) ==
  /\ tx[c] = None
  /\ \E T \in OldestFirst(OlderSucceeded(cutoff) \ HeldByOthers(c), k) :
       /\ T # {}
       /\ Begin(c, [kind |-> "archive", at |-> now, rows |-> T, closing |-> {}, cutoff |-> cutoff])
  /\ UNCHANGED <<tables, now, backendVars>>

Archiving(c) == tx[c] # None /\ tx[c].kind = "archive"

\* Mutant: the DELETE does not join the archive.
Deleted_NoJoin(c) == OlderSucceeded(tx[c].cutoff)

\* ... DELETE of the old succeeded rows that the archive has ...
Deleted(c) == OlderSucceeded(tx[c].cutoff) \cap (jobs_archive \cup tx[c].rows)

\* ... which takes their attempts and decisions along, and COMMIT.
archive_commit(c) ==
  LET gone == Deleted(c)
  IN  /\ Archiving(c)
      /\ gone \cap HeldByOthers(c) = {}
      /\ ClosedByOthers(c) \cap UNION {AttemptsOf(j) : j \in gone} = {}
      /\ jobs' = [j \in JobIds |-> IF j \in gone THEN None ELSE jobs[j]]
      /\ job_attempts' = [a \in AttemptIds |->
           IF a \in Recorded /\ job_attempts[a].job_id \in gone THEN None ELSE job_attempts[a]]
      /\ policy_decisions' = {d \in policy_decisions : d[1] \notin gone}
      /\ jobs_archive' = jobs_archive \cup tx[c].rows
      /\ Commit(c)
      /\ UNCHANGED <<now, columns, partitions>>

\* delete_history_for_succeeded_older_than: attempts and decisions of old
\* succeeded jobs.
delete_history(c, cutoff, k) ==
  /\ tx[c] = None
  /\ \E T \in OldestFirst(OlderSucceeded(cutoff), k) :
       /\ T # {}
       /\ ClosedByOthers(c) \cap UNION {AttemptsOf(j) : j \in T} = {}
       /\ job_attempts' = [a \in AttemptIds |->
            IF a \in Recorded /\ job_attempts[a].job_id \in T THEN None ELSE job_attempts[a]]
       /\ policy_decisions' = {d \in policy_decisions : d[1] \notin T}
  /\ UNCHANGED <<jobs, tx, now, backendVars>>

----------------------------------------------------------------------------
(* Sessions                                                                 *)

Holding(S, A) ==
  {o \in Sessions : tx[o] # None /\ (tx[o].rows \cap S # {} \/ tx[o].closing \cap A # {})}

\* Whose locks the next statement of s waits for.
WaitsFor(s) ==
  (CASE Reporting(s) -> Holding({job_attempts[a].job_id : a \in tx[s].pending},
                                IF tx[s].pending = {} THEN tx[s].todo ELSE {})
     [] Reaping(s, FALSE) -> Holding({}, OpenAttempts(tx[s].rows))
     [] Reaping(s, TRUE) -> Holding(ExpiredLocks(tx[s].at), {})
     [] Archiving(s) -> Holding(Deleted(s), UNION {AttemptsOf(j) : j \in Deleted(s)})
     [] OTHER -> {}) \ {s}

\* Every session of a cycle waits for the next one.
InCycle(s) ==
  \E S \in SUBSET Sessions :
    /\ s \in S
    /\ \A o \in S : Cardinality(WaitsFor(o) \cap S) = 1
    /\ \A o \in S : \E p \in S : o \in WaitsFor(p)

\* Postgres finds the cycle and aborts one of its sessions.
deadlock_abort(s) ==
  /\ InCycle(s)
  /\ Rollback(s)
  /\ UNCHANGED <<tables, now, backendVars>>

\* A process dies in the middle of a transaction.
Disconnect(s) ==
  /\ tx[s] # None
  /\ Rollback(s)
  /\ UNCHANGED <<tables, now, backendVars>>

\* The next statement of an open transaction.
WorkerStep(w) ==
  \/ report_attempt(w) \/ report_job(w) \/ report_commit(w)
  \/ report_recurring(w) \/ report_recurring_fails(w)

ClientStep(c) ==
  \/ reap_attempts(c)
  \/ Reaping(c, TRUE) /\ reap_commit(c) /\ UNCHANGED backendVars
  \/ archive_commit(c)

Report(w) ==
  \/ \E a \in AttemptsGivenTo(w) :
       \/ report_begin(w, "mark_succeeded", {a}, None, None)
       \/ \E d \in RetryDelays : report_begin(w, "reschedule_for_retry", {a}, At(now + d), None)
       \/ \E r \in DlqReasons : report_begin(w, "mark_dlq", {a}, None, r)
  \/ \E A \in SUBSET AttemptsGivenTo(w) :
       /\ Cardinality({jobs[job_attempts[a].job_id].dataset_id : a \in A}) = 1
       /\ report_begin(w, "mark_succeeded_batch", A, None, None)

WorkerCall(w) ==
  \/ \E k \in BatchSizes : lease_jobs_batch(w, k)
  \/ \E j \in JobIds : extend_lease(j, w)
  \/ \E S \in SUBSET {j \in JobIds : Leased(j, w)} :
       S # {} /\ start_attempts_batch(S, w)
  \/ Report(w)

\* The loop of a worker reaps on another connection than its handlers report on.
ClientCall(c) ==
  \/ reap_select(c)
  \/ \E cutoff \in Cutoffs, k \in BatchSizes : archive_begin(c, cutoff, k) \/ delete_history(c, cutoff, k)

BackendNext ==
  \/ \E w \in Workers : WorkerCall(w) \/ WorkerStep(w)
  \/ \E c \in Clients : ClientCall(c) \/ ClientStep(c)
  \/ \E new \in NewJobs, i \in Intervals : enqueue_job(new, i)
  \/ \E j \in JobIds : replay_job(j, now)
  \/ \E s \in Sessions : deadlock_abort(s) \/ Disconnect(s)
  \/ Tick /\ UNCHANGED backendVars

BackendSpec == BackendInit /\ [][BackendNext]_all

----------------------------------------------------------------------------
(* Properties                                                               *)

\* A job is completed by one attempt and then never active again: whatever is
\* reaped, reported late or twice, no second attempt succeeds, and no
\* job with a successful attempt is queued, running or dead-lettered (the two
\* UPDATEs of mark_succeeded and mark_succeeded_batch in one transaction).
CompletedExactlyOnce ==
  \A a \in Recorded : job_attempts[a].status = "succeeded" =>
    /\ jobs[job_attempts[a].job_id].status = "succeeded"
    /\ \A b \in AttemptsOf(job_attempts[a].job_id) : job_attempts[b].status = "succeeded" => a = b

\* A recurring job has at most one next occurrence, and it has one only once the job
\* itself is over: a completion that is fenced off or rolled back schedules nothing
\* (the INSERT in the transaction of mark_succeeded).
NextOccurrenceOnce ==
  \A i \in JobIds : next_of[i] # None =>
    /\ next_of[i] \in jobs_archive \/ jobs[next_of[i]].status = "succeeded"
    /\ \A k \in JobIds : next_of[k] = next_of[i] => k = i

\* A row leaves jobs only as succeeded work and into the archive, and nothing leaves
\* the archive: neither the LIMIT nor rows that others have locked lose work
\* (archive_succeeded_older_than, "Only delete jobs that exist in archive").
KeptOrArchived ==
  [][/\ jobs_archive \subseteq jobs_archive'
     /\ \A j \in Rows : jobs'[j] # None \/ (jobs[j].status = "succeeded" /\ j \in jobs_archive')]_all

\* The completion of a recurring job whose next occurrence falls into an hour that
\* has no partition yet.
AwaitsOwnPartition(w) ==
  /\ Reporting(w) /\ tx[w].pending = {} /\ tx[w].todo = {}
  /\ Recurs(tx[w])
  /\ DatasetOf(NextRunAt(tx[w])) \notin partitions

\* An open transaction can go on or waits for a lock of another session: whatever
\* reports, the reaper and archiving lock in whatever order, either one of them can go
\* on or Postgres sees the cycle and breaks it.  The one wait that Postgres can not
\* see is that of mark_succeeded for a partition, which ensure_dataset_partition
\* creates on a second connection that waits for this transaction to end.
WaitsAreVisible ==
  /\ \A w \in Workers : tx[w] # None =>
       ENABLED WorkerStep(w) \/ WaitsFor(w) # {} \/ AwaitsOwnPartition(w)
  /\ \A c \in Clients : tx[c] # None => ENABLED ClientStep(c) \/ WaitsFor(c) # {}
=============================================================================
