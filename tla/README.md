# Azums in TLA+

Azums is a job queue and event stream library in Rust with interchangeable storage
backends (in memory, Postgres, SQLite, Redis) behind one trait, `StorageBackend`. Workers
lease batches of jobs, record an attempt for every execution, run handlers and report
success, retry or dead-lettering. Leases that run out are reaped and the job is queued
again. This directory holds the specifications of that core, the TLC runs that check them
on small instances and the TLAPS proofs that hold for all instances.

Source paths are relative to the repository. `PROJECT.json` maps every definition to the
lines it models and lists the hazards the properties are for.

## Inventory

| Part | State it keeps | Operations | What is hard about it | What makes it correct |
|---|---|---|---|---|
| Memory backend, jobs (`azums-core/src/backend/memory.rs`) | `jobs`, `queued_jobs` (an ordered index per queue), `archive`, `attempts`, `attempt_counts`, behind one `RwLock` | enqueue, lease, reap, start attempts, success, retry, DLQ, heartbeat, cancel, replay, archive, delete history | the index and the status are written separately by nine operations; late reports meet reaped leases; batches fail half way | the index is exact, a lease ends for a cause, a job completes once, terminal jobs stay |
| Quickstart worker (`azums/src/quickstart.rs`) | where the loop is, the rest of the batch | reap, lease, start attempts, heartbeat, handler, report, wait, shut down | one heartbeat for a whole batch; a timeout gives up the batch; `?` ends the loop; notifications are not reliable | fencing of open attempts, the failure budget, recovery of abandoned work, progress |
| Retry (`azums/src/jobs/retry.rs`) | none | classify, is_retryable, DLQ reason, backoff | overflow of the exponent | the delay is in `0 .. max_seconds` |
| Postgres repository and backend (`jobs/repo.rs`, `attempts.rs`, `backend/postgres.rs`) | rows of `jobs`, `job_attempts`, `jobs_archive`, the partitions of `jobs` | the same operations as SQL | attempts and jobs are locked in two orders; the worker reports in two transactions; missing conditions on `locked_by`; policy counts read before a lease; DDL in the middle of a completion | a job completes by one attempt, waits can be seen by the database, abandoned leases are recovered |
| Postgres worker (`worker/src/main.rs`, `jobs/runner.rs`) | the batch, a `JoinSet` of handlers | reap, lease, run all handlers, report | no heartbeat; two-transaction reports | fencing, recovery |
| Redis backend (`azums-redis/src/backend.rs`) | a document per job in a hash, a list per queue, a processing list per worker | the same operations as sequences of commands | another client, or the death of this one, between any two commands; documents are written back whole | no job falls out of the lists, one worker has a job at a time |
| SQLite backend (`azums/src/backend/sqlite.rs`) | the tables `jobs`, `job_attempts`, `jobs_archive` | the same operations in transactions | the clock is read before the write lock; attempts cascade away with their job; a completion makes the next occurrence | it keeps the lifecycle contract, recurrence neither breaks nor forks |
| Streams (`backend/stream.rs`, `stream_handle.rs`, the four backends, `jobs/stream_repo.rs`) | a log per stream, an offset per group | publish, ack, read, prune | `read_next` is two calls; numbers become visible out of order (Postgres); offsets are read and written back (Redis); prunes in several statements | no offset and no prune skips an event nobody handled; every event is handled |
| Enqueue guard (`jobs/enqueue_guard.rs`, `ingest_decisions.rs`, `enqueue_job` of the dashboard) | a counter per minute, rows of decisions, the connections of the pool | check payload, check rate, record a denial, enqueue | a second connection is taken under a row lock; the pool is at its limit | the limit holds, denials are recorded, every request is answered |
| Maintenance (`jobs/maintenance.rs`) | the archive | archive, delete history | limits per batch, rows that others have locked | a row leaves `jobs` only into the archive |
| Lifecycle contract (`azums-core/src/model.rs`, `semantics.rs`) | none | `JobLifecycleState`, the list of contracts | the backends take steps the table does not list | the backends implement one contract |
| Policies, inspection, dashboard reads, web adapters, command line, mock backend | policy rows | single statements, queries, routing | nothing concurrent of their own | not modelled, see below |

Components interact through calls of the trait only: a worker loop, its heartbeat tasks, other
workers, producers and the maintenance of the operator call the same backend, each call
takes the backend's lock (or a transaction) once, and everything a caller keeps between two
calls may be stale at the second.

## Modules

| Module | Models | Extends |
|---|---|---|
| `JobContract` | what every backend promises of a job: the abstract specification | |
| `MemoryBackend` | the jobs half of the memory backend, with arbitrary callers; implements `JobContract` | |
| `SqliteBackend` | the SQLite backend, with arbitrary callers; implements `JobContract` | |
| `RedisBackend` | the Redis backend, one step per command, with an application and workers | |
| `QuickstartFlow` | the worker loop on the memory backend | `MemoryBackend`, `FailureClass` |
| `EventStream` | the streams of the four backends and their consumers | |
| `FailureClass` | the error classes of `retry.rs` that both worker loops decide from | |
| `PostgresRepo` | the tables `jobs` and `job_attempts` and the SQL of `JobsRepo` and `AttemptsRepo` | `FailureClass` |
| `PostgresWorker` | worker processes, producers and cancelling clients on those tables | `PostgresRepo` |
| `PostgresBackend` | the transactions of `PostgresBackend` and the maintenance on those tables | `PostgresRepo` |
| `EnqueueGuard` | HTTP enqueues behind the guard, on one pool of connections | |
| `MemoryBackend_proofs` | theorems about the jobs of the memory backend, that it implements the contract, and about the worker loop on it | `QuickstartFlow` |
| `Contracts_proofs` | theorems about the job contract and about the streams | `JobContract`, `EventStream` |
| `PostgresRepo_proofs` | lemmas about the tables and transactions of Postgres | `PostgresRepo` |
| `PostgresBackend_proofs`, `PostgresWorker_proofs` | theorems about the two compositions | the module they are about, `PostgresRepo_proofs` |
| `SqliteBackend_proofs` | theorems about the SQLite backend, and that it implements the contract | `SqliteBackend` |
| `RedisBackend_proofs` | theorems about the Redis backend | `RedisBackend` |
| `EnqueueGuard_proofs` | theorems about the guard | `EnqueueGuard` |
| `MC...` | inputs of the TLC runs | the module they instantiate |

### JobContract

A job is a view: its status, holder, expiry, `run_at` and what became of each attempt.
A step of the contract is one of `Commit`, `Lease`, `StartAttempt`, `Extend`, `Complete`,
`RetryOrBury`, `Recover`, `Cancel`, `MissDeadline`, `Archived`, each stated as a relation between
the view before and after; one call of a backend may move several jobs, each by a step of its
own. The steps are those of `JobLifecycleState` with the two that `legal_successors` does not
list and every backend takes: cancelling and dead-lettering queued work. The contract has
the guards of `semantics.rs`: only due queued work is leased (`RunAtEligibility`,
`LeaseExclusivity`), only an expired lease is taken back, and all its open attempts are closed
then (`CrashRecoveryAfterLeaseExpiry`).

`MemoryKeepsContract` and `SqliteKeepsContract` are `Contract!ContractSpec` under the views
`ViewOf` of the two modules. Postgres and Redis do not implement it at this grain and
are not claimed to: the Postgres worker reports in two transactions and `cancel_job` may
overwrite a completion, and Redis changes the list and the document of a job in separate commands.
Their modules state what does hold instead.

### MemoryBackend

Every method of `impl StorageBackend for MemoryBackend` takes the `RwLock` for its whole
body, so every method is one action. The variables are the fields of `InnerState`; an absent
entry of a map is `None`. `queued_jobs` is a set of `QueueEntry` records per queue and
`Before` is its `Ord`. The callers are arbitrary: any worker id may make any call on
any job with any attempt at any time. A call that the code rejects before it writes
changes nothing and is not an action; a call that fails after it has written is one
(`start_attempts_batch` keeps the attempts it inserted before it bailed out, which `Reaches`
expresses).

Two methods are two actions each, because their cases change different state:
`mark_succeeded` (of a job that recurs, and of one that does not) and `cancel_job` (of a
queued job by anyone, of a running job by its holder). `mark_succeeded_batch` takes the
lock once per job and is a sequence of `mark_succeeded` actions; `lease_jobs_batch` and
`lease_jobs_batch_with_ordering` are the same, since the ordering is ignored.

What is abstracted: payloads, job types, error texts and latencies; `locked_at`, `dlq_at`
and `finished_at`, which nothing reads; the error codes of the handlers are one code. Time is
a counter that stops at `Horizon`: later instants are not told apart, a lease taken
at the horizon counts as expired. `enqueue` reads the clock before it takes the lock;
the model reads it inside. `clear` is a reset for tests and is not modelled.
`perform_maintenance` does nothing in this backend.

### QuickstartFlow

`pc` says where each flow is in `run_with_shutdown` and `process_batch`:

    top -> (Reap) reaped -> (Lease) idle -> (Wake) top
                         -> (Lease) leased -> (StartAttempts) handler -> ... -> top

In `handler` the first job of `batch` is running. The handler comes to one of its outcomes
and the flow reports it: `HandlerOk`, `HandlerFails` (with `handle_failure`), `HandlerPanics`
and `HandlerTimesOut`; all but the last go on to the next job, a timeout returns from
`process_batch` with the rest of the batch still leased. `ReportRejected` is the `?` after
a report that the backend refused because the lease was lost, and it ends the loop.
`Heartbeat` may come at any time while a handler is running, and may be late. `Crash` is the
task of a flow being dropped at an await (bounded by `MaxCrashes`), `Restart` the
application running it again. Whether a notification or the interval wakes an idle flow is
not told apart. `run_until_empty` leases without reaping or waiting and is left at the first
empty lease (`ReturnWhenEmpty`).
A heartbeat already in flight when its job is reported is not modelled: the report ends
the lease, so that it would change nothing unless the same flow leases the job again.

### SqliteBackend

The variables are the tables. SQLite serialises writing transactions and rolls a failed one
back, so a call that succeeds is one action and one that fails is none. Every operation reads
`Utc::now()` before it has the write lock: `Clock` is the set of instants it may have read,
at most `MaxLag` behind `now`. `enqueue` and `enqueue_in_tx` are two actions, since the first does
not bind the deadline, the timeout and the recurrence. Rows of `job_attempts` leave with their job
(`ON DELETE CASCADE`). `replay_job` has no action: its `INSERT` names 15 columns and gives 12
values. Callers are arbitrary, as in `MemoryBackend`.

### RedisBackend

`jobs` is the hash of documents, `lists` the queue lists and processing lists, `idempotency`
the hash of keys. No operation uses `MULTI` or a script, so every command is a step. What
an operation writes after its last read is put in `todo[c]` and executed command by command
(`Execute`); the loops of a lease and of a reap are walked in `loop[w]` (`LeaseStep`,
`ReapStep`). `Abort` ends a client between any two commands. `held` is what the last lease
returned to a worker, `reaped` records that some lease was taken back. Heartbeats and
aborts are bounded (`MaxExtends`, `MaxAborts`), attempt numbers are told apart up to `MaxAttempts`. Priority
and ordering are ignored by this backend; `PUBLISH` is left out.

### EventStream

A behaviour is one of a single store (`store`), and each store has the steps that it makes
atomic: memory one step per call; SQLite one per statement, with a prune of two; Postgres draws
the number (`DrawNumber`) before the row becomes visible (`BecomeVisible`); Redis acknowledges
by `HGET` and `HSET` (`AckRead`, `AckWrite`) and prunes by `HGETALL`, `LRANGE`, `DEL` and
`RPUSH`. A consumer runs `read_next`, which is two steps (`Locate` takes the offset, `Read` the
events after it), handles the events one by one and acknowledges each. `published`, `handled`
and `late` are history: what was published, what each group has handled, and which events became
visible behind one that had been visible before. The order of a result is stated, not computed:
`Listed` gives the list of the events in question in which each comes once and every earlier one first. One prune runs at a time.

### PostgresRepo

The state is the rows of `jobs`, `job_attempts` and `policy_decisions` for one queue, and
`tx`, the open transaction of every session. The isolation level is READ COMMITTED.
A statement that is a transaction of its own and reads and writes the rows it locks is
one step: `finish_succeeded_batch`, `finish_failed`, `mark_succeeded_batch` (the variant for a
dataset, which is the one the worker calls), `reschedule_for_retry`, `mark_dlq`. Where
something may come in between, there are two steps:

| Transaction | First step | Second step |
|---|---|---|
| lease | the sweep of deadlines, the dataset, the counts of the policy | the candidates, throttled or leased, and the commit |
| reap | expired rows locked (`SKIP LOCKED`), open attempts closed | the `UPDATE` that selects expired locks anew, the commit |
| start of attempts | the join with `jobs` and the next numbers, read without a lock | the rows go in, or the unique constraint rejects them |
| cancel | the status, read without a lock | the attempt and the job, written without a condition |

What a transaction writes is visible when it commits. `rows` and `closing` are the rows of
`jobs` and `job_attempts` it has locked: a write of another session to one of them waits (it is a
guard), and `SKIP LOCKED` passes over them. The insertion of an attempt waits too, for the
foreign key takes a share lock on the job, and it then inserts what it had read: a reap may
have queued the job in the meantime. `now()` is the time at which a transaction began.

Abstracted: payloads, error texts, latencies, `locked_at` and the other timestamps that
nothing reads; a dataset is the hour of `run_at`; notifications are an arbitrary wake-up.
Both updates of a cancellation are one step, so that a cancellation and a reap never wait for
each other here; Postgres would abort one of the two. At `Horizon` every instant has
passed, as in `MemoryBackend`, with the consequence that two reapers of two jobs may wait for
each other there; the run with fairness has one job.

### PostgresWorker

`pc` follows the worker task of `worker/src/main.rs`:

    top -> reaping -> polling -> leasing -> leased -> starting -> handling
    handling -> finishing -> marking -> failing -> settling -> failing ... -> top

There is no heartbeat and the handlers of a batch run at the same time, so `Handle` chooses
all their outcomes in one step. `on_success_batch` is `FinishSucceeded` and `MarkSucceeded`,
`on_failure` is `FinishFailed` and then `Retry`, `DeadLetter` or `SettleRejected`. Every `?`
ends the process (`down`), and so does `Crash`, at any point, which rolls back the open
transaction. `Restart` is the `restart: unless-stopped` of the compose file, under the same
worker id. Workers have ids of their own; two processes with one id are not modelled.

### PostgresBackend

The trait implementation reports in one transaction, unlike the worker: close the attempt,
move the job and, for `mark_succeeded` of a recurring job, insert the next occurrence. Each is a
step (`report_attempt`, `report_job`, `report_recurring`, `report_commit`), as are the two halves of a
reap and of archiving. A report locks the attempt and then the job, the reaper and archiving lock
jobs and then attempts, so sessions wait for each other in the middle. `WaitsFor` is the wait
graph that Postgres sees; a session of a cycle is aborted (`deadlock_abort`), and any
session may lose its connection (`Disconnect`). Whoever was given an attempt may report on it at
any time, late and repeatedly. `partitions` are the hours for which `jobs` has a partition:
enqueue and replay create theirs first, and the migration primes this hour and the next for the queue
`default`. Leases and the insertion of attempts are one step here; `PostgresWorker` is the
module that splits them. `cancel_job` is there too.

### EnqueueGuard

`pc` follows `enqueue_job` of the dashboard through `check_payload`, `check_rate` and the
enqueue for one queue. Whether a handler has a connection follows from where it is
(`InTransaction`); the pool has `Connections` of them. The counter of a minute is a row that the handler that incremented it has
locked until it commits. A handler that finds the pool empty gives up after `acquire_timeout`
(`AcquireTimeout`), and any statement may fail (`StatementFails`); both roll back.

## Runs

All runs finish within three minutes on two workers.

| Run | Instance | Shows |
|---|---|---|
| `memory_leases` | 2 jobs, 2 workers, 3 attempts, 2 priorities, a deadline, batch sizes 0 to 2, symmetric in the workers | types, `StatusEvidence`, `CompletedOnce`, `LeaseInOrder`, `TerminalIsFinal`, `MemoryKeepsContract` |
| `memory_history` | 3 job ids, 1 key, a recurring job, replay, archive, deletion | `UniqueLiveKey`, `AttemptsNumbered`, `IndexMatchesStatus` |
| `sqlite_jobs` | 2 job ids, 2 workers, 2 attempts, recurring and keyed work, a clock one behind, both orderings, archive | types, `AttemptRowsComplete`, `RecurrenceUnbroken`, `SqliteKeepsContract` |
| `redis_jobs` | 2 jobs (the second a next occurrence or a replay), 2 workers, an application, 1 key, 1 heartbeat, 1 death | types, `NoJobLost`, `ExclusiveUntilReaped`, `DoneUntilReaped` |
| `redis_crash` | 1 job, 2 fair workers, 1 death | `QueuedIsTaken` is violated |
| `flow_fencing` | 2 flows, 2 jobs, batches of 2, 3 attempts | `OpenAttemptFenced`, `FailuresWithinBudget` |
| `flow_recovery` | 2 fair flows, 1 job, 1 abort, every outcome | `AbandonedIsRecovered`, `DueIsTaken` |
| `stream_groups` | 4 stores, 3 consumers in 2 groups, 2 events, 1 stop, 1 prune | types, `AckedWasHandled`, `PrunedWasHandled`, `EventIsHandled` |
| `pg_worker` | 2 workers, 2 jobs, batches of 2, 3 attempts, a policy of one in flight, symmetric in the workers | types, `AckedHasAttempt`, `AttemptNosIncrease` |
| `pg_recovery` | 2 fair workers, 1 job, 2 attempts, 1 kill, 1 cancelling client, a policy of two attempts a minute | `HolderHasLatestAttempt`, `NoRevival`, `LeaseIsRecovered` |
| `pg_backend` | 2 workers, 1 reaping and archiving client, 2 jobs, 2 attempts, an hour of one instant, symmetric in the workers | types, `CompletedExactlyOnce`, `NextOccurrenceOnce`, `WaitsAreVisible`, `KeptOrArchived` |
| `enqueue_guard` | 3 requests, 2 connections, a limit of 1, 2 minutes | types, `AdmittedWithinLimit`, `DeniedIsRecorded`, `EveryRequestAnswered` |

Why the bounds are enough for what they show. Two jobs and two workers are the least for a
batch that fails half way and for a lease that changes hands; three attempts allow a failure, a
lost lease and a further attempt of one job. Three job ids are the least for an original,
its next occurrence and a replay. The runs have one queue; that operations on one queue leave the
indexes of the others exact is part of the theorem `IndexIsExact`. Two events and two consumers of one group give a reader that
acts on a stale offset while the other acknowledges past it, and the third consumer gives
the slower group that a prune must wait for. Instants beyond `Horizon` add nothing new: a
lease of one second expires at the next instant. Two sessions on two rows are the least
for the lock orders of `pg_backend` to cross, and an hour of one instant makes the next
occurrence fall into an hour without a partition. Three requests on two connections are the
least for one that records its denial, one that waits for its row and one that waits for a
connection.

`CHECK_DEADLOCK FALSE` is set where the model may stop: no job id or attempt id is
left, or every flow was shut down.

### Where the code and the documents differ

`redis_crash` states what `semantics.rs:86` and `docs/src/leasing.md:30` promise (abandoned work
becomes runnable, nothing disappears because a worker dies) and finds a behaviour in which it
fails: a worker dies after `LMOVE` has moved an id to its processing list and before `HSET` has
written the lease. The document says `queued` and has no expiry, so that the reaper passes over it.

Other differences met while modelling. The models contain what the code does, and the properties
are stated so that they hold of it:

- The deadline is checked by the lease only: the second job of a batch may start after its
  deadline (`docs/src/time_semantics.md:21`).
- Expired leases are requeued past `max_attempts` (`docs/src/failure_handling.md:22`). Failures
  reported by handlers stay within the budget, which is `FailuresWithinBudget`.
- The memory backend uses a sequence number again after a prune (`docs/src/semantics.md:183`);
  the stream properties are about the events whose number is unique (`UniquelyNumbered`).
- `ack` of Redis may move an offset backwards when two consumers of a group acknowledge at the same
  time (`semantics.rs:87`, `docs/src/semantics.md:42`); events are then handled again, none is skipped.
- `prune_events` of Redis drops what is published between its `LRANGE` and its `DEL`.
- Postgres shows an event with a smaller number after one with a larger number; a group that has
  acknowledged the larger one never reads it (`late`).
- `reschedule_for_retry` of the Postgres repository does not compare `locked_by`: a late failure
  requeues the job of another worker (`docs/src/leasing.md:26`).
- `cancel_job` of Postgres reads the status without a lock: a job that completes in between ends
  as canceled (`docs/src/job_lifecycle.md:60`). `NoRevival` is what does hold.
- `mark_succeeded` of a recurring Postgres job whose next hour has no partition creates it on a
  second connection while its own transaction holds a lock on `jobs` (`postgres.rs:338`; the
  migration creates the partition with `CREATE TABLE ... PARTITION OF`, which waits for that lock). No
  cycle is visible to Postgres; the call ends with a timeout or a lost connection and the lease is
  reaped. `WaitsAreVisible` names this wait (`AwaitsOwnPartition`) as its one exception.
- `mark_succeeded_batch` of Postgres completes recurring jobs and schedules no next occurrence,
  which is why `NextOccurrenceOnce` says at most one.
- `enqueue` of Redis claims the idempotency key before it writes the job: after a death in between
  the key belongs to an id without a job.
- After a reap Redis may let two workers have one job and make finished work queued again: the
  reaper writes back the document it had read and `mark_dlq` leaves the lock fields in place.
  `ExclusiveUntilReaped` and `DoneUntilReaped` say what holds before the first reap.
- `enqueue` of SQLite drops the deadline, the timeout and the recurrence of a job; `replay_job` of
  SQLite always fails; archiving in SQLite deletes the attempts of the archived jobs.
- The rate window of the enqueue guard is read before the connection is obtained, so a request that
  waited is counted in an earlier minute, and requests whose body is rejected after the count use up
  the limit.

`OpenAttemptFenced` assumes that every flow has a worker id of its own. The default id is
the same for all flows (`quickstart-worker`, `quickstart.rs:70`); flows that share it share their
leases, and two attempts of a job may be open (TLC finds such a state when `worker_id` maps both
flows to one id). What still holds of them is proved: a job completes through one attempt
(`FlowIsAClient` with `JobsCompleteOnce`) and fails within its budget (`FailuresStayWithinBudget`).

`HolderHasLatestAttempt` is why the missing attempt number in the acknowledgment of Postgres
does no harm: a process takes no second lease before it is done with its batch, and a
restarted one has forgotten its batch.

### Fairness

`FairFlowSpec` assumes weak fairness of `Lease`, `Wake`, `StartAttempts`, `Report` and
`Restart` of every flow: the runtime schedules every task, an idle flow wakes up at the latest
after the interval of its `select!`, handlers return, and the application runs a flow again
that ended. `Reap` has strong fairness: the loop comes back to its top again and again, and
every 5 seconds it reaps there before it leases. Time passes (`Tick`). Nothing is assumed about
heartbeats, aborts, shutdown, clients or notifications. Liveness says nothing once
every flow was shut down or the attempt ids of the model are used up (`NobodyWorks`).

`FairStreamSpec` assumes that every consumer goes on reading, handling and acknowledging. It
assumes nothing about `publish`, the start of a prune and `Stop`, but a prune of Redis that has
deleted the list goes on to restore it.

`FairWorkerSpec` assumes that time passes, that every process goes on with its loop, that
handlers return and that a process that ended is started again. `ReapBegin` has strong
fairness: the loop comes to its top again and again, at the latest after the reap interval
when it is idle, and reaps there once the interval has elapsed. Nothing is assumed of
producers, clients and kills.

`FairRedisSpec` assumes that time passes, the server executes what it was sent, and every worker
goes on with its loop: it finishes what it holds, leases and reaps again and again (strong
fairness, since its turn comes between the calls of others). Nothing makes the application act or a
client die. It is the specification of `redis_crash`: the job is lost although everybody else goes on.

`GuardSpec` assumes that handlers are scheduled, that the database answers a statement that does not
wait for a lock, and that the timer of the pool fires. It assumes nothing about failures and the clock.

## Proofs

Everything below holds for every value of the constants that satisfies the named assumptions; TLC
evaluates the assumptions on every instance.

| Module | Theorem | States |
|---|---|---|
| `MemoryBackend_proofs` | `TypeCorrect` | `Spec => []TypeOK` |
| | `IndexIsExact` | `Spec => []IndexMatchesStatus` |
| | `EvidenceIsExact` | `Spec => []StatusEvidence` |
| | `TerminalJobsAreFinal` | `Spec => TerminalIsFinal` |
| | `JobsCompleteOnce` | `Spec => []CompletedOnce` |
| | `KeysAreUnique` | `Spec => []UniqueLiveKey` |
| | `AttemptsAreNumbered` | `Spec => []AttemptsNumbered` |
| | `MemoryImplementsContract` | `Spec => MemoryKeepsContract` |
| | `LeasesAreInOrder` | `Spec => LeaseInOrder` |
| | `FlowIsAClient` | `FlowSpec => Spec` |
| | `FailuresStayWithinBudget` | `FlowSpec => []FailuresWithinBudget` |
| | `LeasesFenceAttempts` | `OwnIds => (FlowSpec => []OpenAttemptFenced)` |
| `Contracts_proofs` | `ContractCompletesOnce` | `ContractSpec => []OneCompletion` |
| | `StreamInvariant` | `StreamSpec => []StreamInv` |
| | `StreamTypeCorrect` | `StreamSpec => []StreamTypeOK` |
| | `AckedEventsWereHandled` | `StreamSpec => []AckedWasHandled` |
| | `PrunedEventsWereHandled` | `StreamSpec => PrunedWasHandled` |
| `SqliteBackend_proofs` | `SqliteTypeCorrect` | `SqliteSpec => []SqliteTypeOK` |
| | `AttemptsAreComplete` | `SqliteSpec => []AttemptRowsComplete` |
| | `RecurrenceHolds` | `SqliteSpec => []RecurrenceUnbroken` |
| | `SqliteImplementsContract` | `SqliteSpec => SqliteKeepsContract` |
| `RedisBackend_proofs` | `RedisKeepsInv` | `RedisSpec => []RedisInv` |
| | `RedisTypeCorrect` | `RedisSpec => []RedisTypeOK` |
| | `WorkIsNotLost` | `RedisSpec => []NoJobLost` |
| | `LeasesAreExclusive` | `RedisSpec => []ExclusiveUntilReaped` |
| | `OverStaysOver` | `RedisSpec => DoneUntilReaped` |
| `EnqueueGuard_proofs` | `GuardTypeCorrect` | `GuardSpec => []GuardTypeOK` |
| | `DenialsAreRecorded` | `GuardSpec => []DeniedIsRecorded` |
| | `AdmissionsAreLimited` | `GuardSpec => []AdmittedWithinLimit` |
| `PostgresBackend_proofs` | `LocksAreRespected` | `BackendSpec => []BackendInv` |
| | `BackendTypeCorrect` | `BackendSpec => []BackendTypeOK` |
| | `JobsCompleteOnce` | `BackendSpec => []CompletedExactlyOnce` |
| | `OneNextOccurrence` | `BackendSpec => []NextOccurrenceOnce` |
| | `NothingIsLost` | `BackendSpec => KeptOrArchived` |
| `PostgresWorker_proofs` | `NumbersArePassedOn` | `WorkerSpec => []WorkerInv` |
| | `WorkerTypeCorrect` | `WorkerSpec => []WorkerTypeOK` |
| | `AcksHaveEvidence` | `WorkerSpec => []AckedHasAttempt` |
| | `NumbersIncrease` | `WorkerSpec => []AttemptNosIncrease` |
| | `HoldersAreLatest` | `WorkerSpec => []HolderHasLatestAttempt` |
| | `FinishedIsFinal` | `WorkerSpec => NoRevival` |

### Memory backend

The theorems rest on the assumptions of `MemoryBackend`: ids, bounds and delays are natural numbers,
there are finitely many job ids (a UUID has 128 bits; a batch is a finite set of jobs only for that),
inputs have their types, and `None` is none of the values it stands beside.

The argument has three inductive invariants, each on top of the one before. `JobInv` is `TypeOK`,
`IndexMatchesStatus` and `StatusEvidence` together. The index is preserved by a lease only because
every entry is the entry of a queued job as it is now, and by a reap only because a running job has
no entry yet; the evidence is preserved by a deadline in a lease only because the entry it starts
from is of a queued job, which has no lock. Four lemmas say what an operation can do to the two
together (a lease, a reap, a job that becomes queued work, one that changes and is not
indexed), and each action is shown to be one of the four.

`CompletionInv` adds to `CompletedOnce` that a job is in `jobs` or in `archive` and not in
both, that an attempt belongs to a job that is known, and that ids not handed out yet have no
attempt. Without the first, history of a job in `jobs` could be deleted; without the second a
new job could meet old attempts; without the third a new attempt could overwrite one that
succeeded. The lemma `StepHasEffect` reduces every action to one of a few effects on a job
(`JobEffect`) and on an attempt (`AttemptEffect`), from which both `CompletionInv` and
`TerminalIsFinal` follow without looking at the actions again.

`HistoryInv` is `AttemptsNumbered` with `FailureCoded`: an attempt that failed has an error code. The
contract tells the outcomes of an attempt apart by that code, so the refinement needs it.

`MemoryImplementsContract` shows `ContractInit` under the view `ViewOf` and then, for every job and
every action, that the views before and after are the same or a step of the contract
(`ContractStep`). An action that touches one job is one step; a lease, a reap, an archiving and a
batch of attempts move each of their jobs by a step of its own. `LeasesAreInOrder` needs that
`Candidates` is a prefix of the due entries in the order `Before`, and that the index has an
entry of every due job, which is `IndexIsExact`.

`ContractCompletesOnce` says what a client gains from the contract: whoever keeps it completes a
job by one attempt, has it succeeded exactly when one of its attempts is, and has a holder and an
expiry exactly while it is running (`OneCompletion`). It assumes only that `None` is neither a
worker nor an instant. The inductive invariant is `Sound` of every job: that a running job has no
succeeded attempt is what makes the step that completes it add the first one.

### Quickstart worker loop

`FlowIsAClient` says that the worker loop is one of the arbitrary callers of `MemoryBackend`, so that
the invariants and the contract above hold under it. Most calls are calls of a client as they stand;
what has to be shown is that a batch given to `start_attempts_batch` holds distinct jobs, and that
a report names an attempt that was started. `LoopInv` says so of every flow: the batch of a flow that has
leased is in `Batches`, and while handlers run, each job that is left has an attempt. It holds because
the entries a lease takes are of different jobs (`JobInv`) and in a strict order (`LeasedBatch`).
`LoopStep` then names, for every step of a flow but its lease, the call it is (`CallOf`), and the two
theorems below look at the calls and never at the places of the loop again.

`FailuresStayWithinBudget` needs `BudgetInv`: a failure whose number is not below `max_attempts` is the
only one of its job, and has left the job in the DLQ. A failure below it may be retried, one that is
not ends the job, and a job in the DLQ has no holder who could report. With the numbers of attempts
being different (`AttemptsNumbered`) the failures of a job inject into `1 .. max_attempts`
(`BudgetBoundsFailures`). Nothing is assumed of worker ids.

`LeasesFenceAttempts` has the hypothesis `OwnIds`, that no two flows share a worker id. The invariant is
`OpenAttemptFenced` with `BatchFresh`: of work that a flow has leased, still holds and has not
started, no attempt is open. `start_attempts_batch` does not look for one, so without it a second
attempt could be opened beside the first. A call that opens nothing keeps the two if it takes no
lease away from an attempt it leaves open (`Fenced`): `reap_expired_locks` closes all open attempts
of the jobs it requeues, and a report or a cancellation closes one, which is enough only because it is
the only one (`OneOpen`). A lease takes queued work, of which no attempt is open; starting a batch
touches only what its flow holds, and by `OwnIds` no other flow holds that.

The theorems rest on the assumptions of `MemoryBackend` and on `FlowAssumption`: the ids, queues, batch
sizes and reason codes of the flows are among those the backend is called with.

### SQLite backend

`SqliteInv` has four parts. `SqliteTypeOK` is the first. `RowInv` says that a job is in `jobs` or in
`jobs_archive` and not in both, that only succeeded work is archived, and that queued work has no
lock, which the deadline sweep of a lease relies on: it leaves the lock columns as they are.
`HistoryInv` adds to `AttemptRowsComplete` that ids not handed out have no attempt and that an attempt
has an error code exactly when it failed. `RecurrenceInv` adds to `RecurrenceUnbroken` that what a next
occurrence replays is a job that is known: without it the id of a new job could be the origin
of an old one.

The proof does not go through the parts action by action. What an operation may do to one row is
named once: it stays (`Same`), queued work is inserted (`Inserts`), work that is not over is updated
(`Moves`), succeeded work is archived (`Archives`); an attempt stays or is closed (`AttemptKept`) or
is started (`Starts`). `StepKept` is what these have to add up to, `StepKeptKeepsInv` that the invariant
then holds after the step, and one lemma per operation (`EnqueueKept` to `ArchiveKept`) that it is such
a step. `NextNoCounts` is the lemma behind the numbers: `MAX(attempt_no)` is the number of attempts
that the job has, since they are numbered without a gap and leave only together.

`SqliteImplementsContract` uses the same lemmas. The lag of the clock is where it could fail: an
operation decides by an instant `t` that is past, `t <= now`, so work that is due at `t` is due now and a
lease that has run out at `t` has run out now (`LeaseKept`, `ReapKept`); a lease is
shorter by the lag, never longer. A cancellation closes one attempt because the numbers of two open
ones differ (`NumbersDiffer`).

The theorems rest on `SqliteAssumption` (ids, bounds and delays are natural numbers, inputs have their
types, `None` is none of the values it stands beside) and `AbsentAssumption` (`None` is not a row). A
delay of 0 is among them: with a clock that lags, `reschedule_for_retry` may then put a next occurrence
at an earlier time than it was due, which is why `RecurrenceUnbroken` says when it is due only until a
retry puts it off.

### Redis backend

Between two commands of an operation any other client may act, so the invariant has to say of every
client what the commands it has still to send (`todo`) may do. `RedisInv` has four parts:

- `BaseInv`: types; `CommandsInOrder`, that an id is pushed only to a queue, that a client removes
  ids only from its own processing list or when it pushes them afterwards, that a document of
  queued work is followed by the push of its id, and that running work is locked by the client that
  writes it; and `OneThingAtATime`, that a worker in a lease or a reaping holds nothing and writes
  running work only for a lease that it has.
- `NothingLost`: unfinished work is `Kept`: its id is in a queue, is pushed by a command under way, is
  moved by a lease that has not written its result yet (`Moving`), or is held by the worker in its lock
  (`Leased`). It is stronger than `NoJobLost`, where any list will do: a processing list that
  another worker is about to reap would not be inductive.
- `Undocumented`: an id that is pushed has a document by then, and what has no document is nowhere. A
  lease that finds no document drops the id, which loses nothing only because of this.
- `PlaceInv`, as long as no lease was taken back: an id is once in one queue or with one client
  (`OnePlace`), work whose id is somewhere is not over (`PlacedIsOpen`), a worker that pushes an id or
  finishes its job has let go of it (`LetGo`), and the application writes cancellations and new
  documents only (`AppWrites`). `ExclusiveUntilReaped` is the second conjunct of `OnePlace`, and
  `DoneUntilReaped` follows because a worker that writes a document has its id.

Steps in which a client reads and plans its commands change neither documents nor lists; what they may
do is `SoundTurn`, and `TurnKeepsInv` says that it keeps the invariant. `ProperTurn` is the same of one
worker in terms of the commands it sends, and there is one lemma per operation (`LeaseReads` to
`AbortKeepsInv`) that it is such a turn. The two steps that change lists and documents are `Execute`,
split by the kind of command (`ListsAfter`, `JobsAfter`), and `LeaseMove`. A death is allowed for by
`NothingLost` and matters to no other part.

The theorems rest on `RedisAssumption` (times, bounds and delays are natural numbers, inputs have their
types, the application is no worker, `None` is none of the values it stands beside) and
`AbsentAssumption` (`None` is not a document). A priority or a wake-up plays no part.

### Streams

One invariant, `StreamInv`, holds of all four stores. It is about the events that are `Due`: those
with a number of their own that did not become visible behind a later one (`Punctual`), and that are in
the log, or in the hands of a prune of Redis which has not been overtaken yet (`Parked`). A group may
forget none of these. Beside the types its parts are:

- `NumbersInv`: the memory backend has given out every number up to the highest, possibly more
  than once, the others number events in the order they ask. What is under way is not the highest
  number seen, so it is late or new when it becomes visible.
- `LogInv`: a log holds events as they were published, the punctual ones before all with a higher number.
  It is what lets the stores that read in the order of the log do without sorting.
- `OffsetsInv`, `BatchInv`, `CutoffInv`: the offset of a group, the offset a consumer has read or is
  going to write, and the cutoff of a prune are numbers that were seen, up to which what is due has been
  handled (`HandledUpTo`); in a batch, what is due below an event comes first in the batch or has
  been handled (`SkipsNothing`). That the numbers were seen matters: an event with a higher one may
  then become due at any time without breaking them.
- `ConsumerInv`: a consumer acknowledges what it has handled.
- `RestoreInv`: what Redis is about to push back came from the log, in its order.

`AckedWasHandled` alone is not inductive: it says nothing of the offset a consumer has read before
an acknowledgment by another one, nor of an event that a prune of Redis has taken out and puts back. A
change of the log is reduced to `LogStep`: events keep their numbers, stay late, and what becomes due
has a higher number than any that was seen. `LogStepKeepsConsumers`, `CutoffKept` and `RestoreKept` then
hold for every such change, `ConsumerStepKeepsInv` for every step of a consumer. That Redis may write
an offset back to a lower one costs nothing here, since the lower one skips nothing either; the group
handles some events again. What a read returns is characterised by `ListedAbove`: every event
above the offset once, in the order of the store. `PrunedEventsWereHandled` follows step by step from
`CutoffInv` (`RemovalLosesHandled`, `PruneLosesHandled`).

The theorems rest on `StreamAssumption`: consumers have a stream and a group, limits are integers,
the arguments of a prune and the bounds are natural numbers, and `NoOffset` is not one. The
numbers of events, consumers, stops and prunes are any.

### Enqueue guard

`GuardInv` adds to the three properties that the row of a minute is locked by one handler
(`RowExclusive`), that the handler that has it locked read the number it has written
(`CountIsFresh`), and that who commits a denial has written it (`StepsInOrder`). The limit follows
because the handlers admitted on a counter are never more than the counter says: a
handler that is admitted is a new one, the counter has gone up by one under the lock, and
a rollback gives back only what nobody was admitted on. Fairness is not used.

### Postgres repository and backend

`PostgresRepo_proofs` has lemmas for both compositions and no theorem: the types of the tables and of
the transactions, what an `UPDATE ... RETURNING` touches, that the attempt ids and numbers of one
`INSERT` differ.

The argument of `PostgresBackend_proofs` is about locks. `LocksExclusive` says that no two open
transactions have locked the same job or attempt. `RespectsLocks` says of a step that what the
transactions of others have locked stays as it is; it is shown of every action once. `ReportPaired` then
carries what a report has read over its later steps: it still holds the lease of every job it has
updated, and of every attempt it has closed the job is one it has updated, one attempt for each job. At
`report_commit` these are what `CompletedExactlyOnce` needs. It is preserved by everybody else
because a running attempt that becomes succeeded belongs to a running job, and a job that is
running has no succeeded attempt. `ForeignKey` and `NextIsOver` (`NextOccurrenceOnce` of a row that
is there) make it inductive. The number of sessions, the order in which reports and
reapers lock, aborts and lost connections play no part in it: a transaction that ends without a commit
has written nothing.

### Postgres worker

The acknowledgment of the worker compares the worker id and not the attempt, so that
`HolderHasLatestAttempt` is a fact about the whole system. The argument is about numbers: those of a
job have no gap (`Numbered`); an `INSERT` that was overtaken while it waited has read a number no
higher than what the holder of the lease has read or has (`StaleNumbers`), and a number that is no
higher is there already, so that the unique constraint rejects the `INSERT`. A worker that
gets a lease has an empty batch (`WorkInv`), which is why an old attempt of its own can not be in the way.

`AckedHasAttempt` needs `HasAttempt`: from the first transaction of `on_success_batch` to the second
one the attempts of the batch are succeeded, wherever leases were lost in between. Steps are reduced to
what they may do to rows (`RowsStay`), attempts (`AttemptsStay`) and the batch (`WorkStays`), and the
parts of `WorkerInv` follow from these for all steps but those of the session itself. `FinishedIsFinal`
rests on the row lock that a cancellation and a report take and on the conditions of the `UPDATE`s.

Both Postgres modules assume `PostgresAssumption` (ids and times are natural numbers, policies and
new jobs have their types, workers are not clients), `AbsentAssumption` (`None` is neither a row nor
a transaction) and the types of their own constants.

### Only model-checked

- Liveness (`AbandonedIsRecovered`, `DueIsTaken`, `EventIsHandled`, `LeaseIsRecovered`,
  `EveryRequestAnswered`): it rests on fairness, and TLAPS does not reason about `ENABLED`.
- `WaitsAreVisible`, whose statement uses `ENABLED`.

## Not modelled

- Inspection (metrics, timeline, debug view, explanations, error code tables) and the reads of every
  backend: they change no state.
- The mock backend, a recording test double.
- The command line, the performance tools, configuration and start-up. The size and the timeout of the
  pool are in `EnqueueGuard`.
- The web adapters and the handlers of the dashboard other than `enqueue_job`: each maps a request to
  one operation that is modelled, or reads.
- The tables of queue policies, which are written by single statements; what a lease makes of a
  policy is in `PostgresRepo`.
- Notifications (`subscribe`, `PUBLISH`, `LISTEN`): an arbitrary wake-up wherever a loop waits for one.
- `next_delay_seconds` (a random jitter in floating point; the models take any delay of a set) and
  `parse_handler_error` (text).
- `vacuum_analyze`, statistics and the incremental vacuum of SQLite.
- `mark_failed` of `JobsRepo`, which nothing calls, and `start_attempt`, which only tests call.

## Plan

Every backend, both worker loops, the streams, the enqueue guard, the maintenance and the contract
are modelled and their invariants are proved. What is left is a coarser contract that
`PostgresBackend`, and `RedisBackend` before its first reap, implement: at the grain of `JobContract`
they do not.
