----------------------------- MODULE PostgresRepo -----------------------------
(***************************************************************************)
(* The tables jobs and job_attempts and the SQL of JobsRepo and            *)
(* AttemptsRepo (crates/azums/src/jobs/repo.rs, attempts.rs), for one      *)
(* queue, under READ COMMITTED.                                            *)
(*                                                                         *)
(* A statement that is its own transaction is one step.  A transaction of  *)
(* several statements whose effect depends on what comes in between is     *)
(* split: the first step takes the row locks and remembers what was read,  *)
(* the second one writes and commits.  What a transaction wrote becomes    *)
(* visible when it commits; a row it has locked makes the writes of others *)
(* wait and is passed over by SKIP LOCKED.  now() is the time at which the *)
(* transaction began.                                                      *)
(***************************************************************************)
EXTENDS Integers, FiniteSets, FiniteSetsExt, FailureClass

CONSTANTS
  JobIds,        \* ids of jobs, in the order of created_at
  MaxAttemptId,  \* rows of job_attempts: a bound of the model
  Workers,       \* worker ids, one per worker process
  Clients,       \* sessions that cancel jobs
  Keys,          \* idempotency keys
  NewJobs,       \* what producers enqueue
  Policy,        \* the row of queue_policies, or None
  LeaseSeconds,
  Hour,          \* length of the hour that datasets are cut at
  Minute,        \* length of the minute that max_attempts_per_minute speaks of
  Horizon,       \* the last instant told apart: a bound of the model
  None

Instants == 0 .. Horizon

AttemptIds == 1 .. MaxAttemptId

Sessions == Workers \cup Clients

Datasets == 0 .. (Horizon \div Hour)

NewJobType ==
  [idempotency_key : Keys \cup {None}, priority : Int, run_at : Instants,
   deadline_at : Instants \cup {None}, max_attempts : Int]

PolicyType ==
  [max_in_flight : Int, max_attempts_per_minute : Int, throttle_delay : Nat]

ASSUME PostgresAssumption ==
  /\ JobIds \subseteq Nat
  /\ MaxAttemptId \in Nat
  /\ NewJobs \subseteq NewJobType
  /\ Policy \in PolicyType \cup {None}
  /\ LeaseSeconds \in Nat /\ Hour \in Nat \ {0} /\ Minute \in Nat /\ Horizon \in Nat
  /\ None \notin Workers /\ None \notin Keys
  /\ None \notin JobIds \cup Instants \cup AttemptIds
  /\ Workers \cap Clients = {}

VARIABLES
  jobs,              \* the rows of jobs, None where there is none
  job_attempts,      \* the rows of job_attempts
  policy_decisions,  \* which jobs were throttled and why
  tx,                \* the open transaction of each session, or None
  now

tables == <<jobs, job_attempts, policy_decisions>>

pgVars == <<jobs, job_attempts, policy_decisions, tx, now>>

Status == {"queued", "running", "succeeded", "dlq", "canceled"}

Terminal == {"succeeded", "dlq", "canceled"}

ThrottleReasons == {"IN_FLIGHT_EXCEEDED", "RETRY_RATE_EXCEEDED"}

Job ==
  [dataset_id : Datasets, idempotency_key : Keys \cup {None}, priority : Int,
   run_at : Instants, deadline_at : Instants \cup {None}, max_attempts : Int,
   status : Status, locked_by : Workers \cup {None},
   lock_expires_at : Instants \cup {None},
   dlq_reason_code : ReasonCodes \cup {"DEADLINE_EXCEEDED", None}]

Attempt ==
  [job_id : JobIds, attempt_no : Nat, worker_id : Workers, started_at : Instants,
   status : {"running", "succeeded", "failed"},
   error_code : {"LEASE_EXPIRED", "CANCELLED", "HANDLER_FAILURE", None}]

\* An open lease: rows swept by the deadline, the dataset it leases from, the
\* policy that throttles it.
LeaseTx ==
  [kind : {"lease"}, at : Instants, rows : SUBSET JobIds, closing : {{}},
   dataset : Datasets, reason : ThrottleReasons \cup {None}]

\* An open reap: the expired rows it locked and the attempts it closes.
ReapTx ==
  [kind : {"reap"}, at : Instants, rows : SUBSET JobIds, closing : SUBSET AttemptIds]

\* An open cancellation: the status that was read, no row lock.
CancelTx ==
  [kind : {"cancel"}, at : Instants, rows : {{}}, closing : {{}},
   job : JobIds, seen : {"queued", "running"}]

\* An open INSERT of attempts: the jobs it joined and the numbers it read for them.
StartTx ==
  [kind : {"start"}, at : Instants, rows : {{}}, closing : {{}},
   joined : SUBSET JobIds, numbers : [JobIds -> Nat]]

\* None is neither a row nor a transaction.
ASSUME AbsentAssumption ==
  /\ None \notin Job /\ None \notin Attempt
  /\ None \notin LeaseTx \cup ReapTx \cup CancelTx \cup StartTx

PgTypeOK ==
  /\ jobs \in [JobIds -> Job \cup {None}]
  /\ job_attempts \in [AttemptIds -> Attempt \cup {None}]
  /\ policy_decisions \subseteq JobIds \X ThrottleReasons
  /\ tx \in [Sessions -> LeaseTx \cup ReapTx \cup StartTx \cup CancelTx \cup {None}]
  /\ now \in Instants

PgInit ==
  /\ jobs = [j \in JobIds |-> None]
  /\ job_attempts = [a \in AttemptIds |-> None]
  /\ policy_decisions = {}
  /\ tx = [s \in Sessions |-> None]
  /\ now = 0

----------------------------------------------------------------------------
(* Rows, time and locks                                                     *)

Rows == {j \in JobIds : jobs[j] # None}

Recorded == {a \in AttemptIds : job_attempts[a] # None}

AttemptsOf(j) == {a \in Recorded : job_attempts[a].job_id = j}

\* Instants from the horizon on are not told apart.
At(t) == IF t > Horizon THEN Horizon ELSE t

\* t < at; at the horizon every instant has passed.
Passed(t, at) == t < at \/ at = Horizon

HeldByOthers(s) == UNION {tx[o].rows : o \in {o \in Sessions \ {s} : tx[o] # None}}

\* Rows that a SELECT ... FOR UPDATE of others holds: those a foreign key waits for.
LockedForUpdate(s) ==
  UNION {tx[o].rows : o \in {o \in Sessions \ {s} : tx[o] # None /\ tx[o].kind \in {"reap", "archive"}}}

ClosedByOthers(s) == UNION {tx[o].closing : o \in {o \in Sessions \ {s} : tx[o] # None}}

Leased(j, w) == j \in Rows /\ jobs[j].status = "running" /\ jobs[j].locked_by = w

Unlocked(row, status) ==
  [row EXCEPT !.status = status, !.locked_by = None, !.lock_expires_at = None]

Begin(s, t) == tx' = [tx EXCEPT ![s] = t]

Commit(s) == tx' = [tx EXCEPT ![s] = None]

\* A worker process that dies rolls its open transaction back.
Rollback(s) == Commit(s)

Tick ==
  /\ now < Horizon
  /\ now' = now + 1
  /\ UNCHANGED <<tables, tx>>

----------------------------------------------------------------------------
(* JobsRepo::enqueue                                                        *)

\* dataset_id_for: the queue and the hour of run_at.
DatasetOf(run_at) == run_at \div Hour

\* The partial unique index on (dataset_id, idempotency_key).
KeyTaken(new) ==
  /\ new.idempotency_key # None
  /\ \E j \in Rows : /\ jobs[j].idempotency_key = new.idempotency_key
                     /\ jobs[j].dataset_id = DatasetOf(new.run_at)

\* A row that is inserted; ON CONFLICT returns the row that has the key and
\* changes nothing.  Ids are handed out in the order of created_at.
enqueue(new) ==
  /\ ~ KeyTaken(new)
  /\ Rows # JobIds
  /\ jobs' = [jobs EXCEPT ![Min(JobIds \ Rows)] =
       [dataset_id |-> DatasetOf(new.run_at), idempotency_key |-> new.idempotency_key,
        priority |-> new.priority, run_at |-> new.run_at, deadline_at |-> new.deadline_at,
        max_attempts |-> new.max_attempts, status |-> "queued", locked_by |-> None,
        lock_expires_at |-> None, dlq_reason_code |-> None]]
  /\ UNCHANGED <<job_attempts, policy_decisions, tx, now>>

----------------------------------------------------------------------------
(* JobsRepo::lease_jobs_batch                                               *)

Due(at) == {j \in Rows : jobs[j].status = "queued" /\ jobs[j].run_at <= at}

\* The first UPDATE: due work whose deadline has passed.
Swept(at) ==
  {j \in Due(at) : jobs[j].deadline_at # None /\ Passed(jobs[j].deadline_at, at)}

\* ORDER BY run_at ASC, created_at ASC LIMIT 1: whose dataset is leased from.
Oldest(S) ==
  CHOOSE j \in S : \A i \in S \ {j} :
    jobs[j].run_at < jobs[i].run_at \/ (jobs[j].run_at = jobs[i].run_at /\ j < i)

InFlight == {j \in Rows : jobs[j].status = "running"}

AttemptsLastMinute(at) == {a \in Recorded : job_attempts[a].started_at >= at - Minute}

\* Without a policy nothing is counted.
ThrottleReason(at) ==
  CASE Policy = None -> None
    [] Policy # None /\ Cardinality(InFlight) >= Policy.max_in_flight -> "IN_FLIGHT_EXCEEDED"
    [] Policy # None /\ Cardinality(InFlight) < Policy.max_in_flight
         /\ Cardinality(AttemptsLastMinute(at)) >= Policy.max_attempts_per_minute
         -> "RETRY_RATE_EXCEEDED"
    [] OTHER -> None

\* ORDER BY priority DESC, run_at ASC, created_at ASC, id ASC.
Before(i, j) ==
  \/ jobs[i].priority > jobs[j].priority
  \/ /\ jobs[i].priority = jobs[j].priority
     /\ jobs[i].run_at < jobs[j].run_at \/ (jobs[i].run_at = jobs[j].run_at /\ i < j)

\* FOR UPDATE SKIP LOCKED LIMIT k, in the dataset that was picked.
Candidates(s, k) ==
  LET S == {j \in Due(tx[s].at) \ (tx[s].rows \cup HeldByOthers(s)) :
              jobs[j].dataset_id = tx[s].dataset}
  IN  {j \in S : Cardinality({i \in S : Before(i, j)}) < k}

PastDeadline(row) == [row EXCEPT !.status = "dlq", !.dlq_reason_code = "DEADLINE_EXCEEDED"]

\* The sweep finds nothing else to lease: it commits at once.
lease_nothing(s) ==
  /\ tx[s] = None
  /\ Swept(now) \cap HeldByOthers(s) = {}
  /\ Due(now) \subseteq Swept(now)
  /\ jobs' = [j \in JobIds |-> IF j \in Swept(now) THEN PastDeadline(jobs[j]) ELSE jobs[j]]
  /\ UNCHANGED <<job_attempts, policy_decisions, tx, now>>

\* The sweep, the choice of a dataset and the counts of the policy.
lease_begin(s) ==
  /\ tx[s] = None
  /\ Swept(now) \cap HeldByOthers(s) = {}
  /\ Due(now) \ Swept(now) # {}
  /\ Begin(s, [kind |-> "lease", at |-> now, rows |-> Swept(now), closing |-> {},
               dataset |-> jobs[Oldest(Due(now) \ Swept(now))].dataset_id,
               reason |-> ThrottleReason(now)])
  /\ UNCHANGED <<tables, now>>

\* Throttled: one candidate is put off, a decision is recorded, nothing leased.
lease_throttled(s) ==
  LET put_off == Candidates(s, 1)
  IN  /\ tx[s].reason # None
      /\ jobs' = [j \in JobIds |->
           CASE j \in tx[s].rows -> PastDeadline(jobs[j])
             [] j \in put_off -> [jobs[j] EXCEPT !.run_at = At(tx[s].at + Policy.throttle_delay)]
             [] OTHER -> jobs[j]]
      /\ policy_decisions' = policy_decisions \cup (put_off \X {tx[s].reason})
      /\ Commit(s)
      /\ UNCHANGED <<job_attempts, now>>

lease_take(s, k) ==
  /\ tx[s].reason = None
  /\ jobs' = [j \in JobIds |->
       CASE j \in tx[s].rows -> PastDeadline(jobs[j])
         [] j \in Candidates(s, k) ->
              [jobs[j] EXCEPT !.status = "running", !.locked_by = s,
                              !.lock_expires_at = At(tx[s].at + LeaseSeconds)]
         [] OTHER -> jobs[j]]
  /\ Commit(s)
  /\ UNCHANGED <<job_attempts, policy_decisions, now>>

----------------------------------------------------------------------------
(* JobsRepo::reap_expired_locks                                             *)

\* Mutant: expired locks are looked up through the attempts.
ExpiredLocks_OfAttempts(at) ==
  {j \in Rows : /\ jobs[j].status = "running"
                /\ jobs[j].lock_expires_at # None
                /\ Passed(jobs[j].lock_expires_at, at)
                /\ AttemptsOf(j) # {}}

ExpiredLocks(at) ==
  {j \in Rows : /\ jobs[j].status = "running"
                /\ jobs[j].lock_expires_at # None
                /\ Passed(jobs[j].lock_expires_at, at)}

OpenAttempts(S) ==
  {a \in Recorded : job_attempts[a].job_id \in S /\ job_attempts[a].status = "running"}

ClosedAttempt(row, code) == [row EXCEPT !.status = "failed", !.error_code = code]

\* SELECT ... FOR UPDATE SKIP LOCKED, then the UPDATE of the open attempts.
reap_begin(s) ==
  LET expired == ExpiredLocks(now) \ HeldByOthers(s)
  IN  /\ tx[s] = None
      /\ expired # {}
      /\ Begin(s, [kind |-> "reap", at |-> now, rows |-> expired,
                   closing |-> OpenAttempts(expired)])
      /\ UNCHANGED <<tables, now>>

\* The UPDATE of the jobs selects expired locks anew, and commits.
reap_commit(s) ==
  LET expired == ExpiredLocks(tx[s].at)
  IN  /\ expired \cap HeldByOthers(s) = {}
      /\ jobs' = [j \in JobIds |->
           IF j \in expired THEN Unlocked(jobs[j], "queued") ELSE jobs[j]]
      /\ job_attempts' = [a \in AttemptIds |->
           IF a \in tx[s].closing THEN ClosedAttempt(job_attempts[a], "LEASE_EXPIRED")
           ELSE job_attempts[a]]
      /\ Commit(s)
      /\ UNCHANGED <<policy_decisions, now>>

----------------------------------------------------------------------------
(* AttemptsRepo                                                             *)

\* Mutant: no COALESCE, the first attempt has no number.
NextNo_Null(j) ==
  IF AttemptsOf(j) = {} THEN None
  ELSE Max({job_attempts[a].attempt_no : a \in AttemptsOf(j)}) + 1

\* COALESCE(MAX(attempt_no), 0) + 1
NextNo(j) == Max({job_attempts[a].attempt_no : a \in AttemptsOf(j)} \cup {0}) + 1

\* The attempt that each job of S gets.
NewAttempt(S, j) == Max(Recorded \cup {0}) + Cardinality({i \in S : i <= j})

\* Mutant: the JOIN does not compare locked_by.
StillLeased_AnyHolder(S, w) == {j \in S : j \in Rows /\ jobs[j].status = "running"}

\* The JOIN on jobs: work of the batch that is still leased to w.
StillLeased(S, w) == {j \in S : Leased(j, w)}

\* One INSERT for the whole batch.  The JOIN and the numbers are read without a
\* lock on the jobs ...
start_attempts_begin(S, w) ==
  /\ tx[w] = None
  /\ Begin(w, [kind |-> "start", at |-> now, rows |-> {}, closing |-> {},
               joined |-> StillLeased(S, w),
               numbers |-> [j \in JobIds |-> IF j \in StillLeased(S, w) THEN NextNo(j) ELSE 0]])
  /\ UNCHANGED <<tables, now>>

\* Mutant: there is no unique constraint.
NumberTaken_Unchecked(w) == FALSE

\* The unique constraint on (job_id, attempt_no).
NumberTaken(w) ==
  \E j \in tx[w].joined : \E a \in AttemptsOf(j) : job_attempts[a].attempt_no = tx[w].numbers[j]

\* ... the rows are in once the foreign key has found the jobs unlocked, whatever
\* has become of their leases; they are counted after the commit.
start_attempts_insert(w) ==
  LET mine == tx[w].joined
  IN  /\ ~ NumberTaken(w)
      /\ mine \cap LockedForUpdate(w) = {}
      /\ Max(Recorded \cup {0}) + Cardinality(mine) <= MaxAttemptId
      /\ job_attempts' = [a \in AttemptIds |->
           IF \E j \in mine : a = NewAttempt(mine, j)
           THEN LET j == CHOOSE j \in mine : a = NewAttempt(mine, j)
                IN  [job_id |-> j, attempt_no |-> tx[w].numbers[j], worker_id |-> w,
                     started_at |-> tx[w].at, status |-> "running", error_code |-> None]
           ELSE job_attempts[a]]
      /\ Commit(w)
      /\ UNCHANGED <<jobs, policy_decisions, now>>

start_attempts_rejected(w) ==
  /\ NumberTaken(w)
  /\ Rollback(w)
  /\ UNCHANGED <<tables, now>>

\* UPDATE job_attempts ... WHERE id, whatever the status is.
finish_succeeded_batch(A, w) ==
  /\ A \cap ClosedByOthers(w) = {}
  /\ job_attempts' = [a \in AttemptIds |->
       IF a \in A THEN [job_attempts[a] EXCEPT !.status = "succeeded"] ELSE job_attempts[a]]
  /\ UNCHANGED <<jobs, policy_decisions, tx, now>>

finish_failed(a, w) ==
  /\ a \notin ClosedByOthers(w)
  /\ job_attempts' = [job_attempts EXCEPT ![a] = ClosedAttempt(@, "HANDLER_FAILURE")]
  /\ UNCHANGED <<jobs, policy_decisions, tx, now>>

----------------------------------------------------------------------------
(* JobsRepo: state transitions                                              *)

\* WHERE id = ANY AND locked_by AND status = 'running': what matches is
\* completed and committed even if the count then turns out wrong.
mark_succeeded_batch(S, w) ==
  LET mine == StillLeased(S, w)
  IN  /\ mine \cap HeldByOthers(w) = {}
      /\ jobs' = [j \in JobIds |->
           IF j \in mine THEN Unlocked(jobs[j], "succeeded") ELSE jobs[j]]
      /\ UNCHANGED <<job_attempts, policy_decisions, tx, now>>

\* Mutant: the status is not compared.
reschedule_for_retry_AnyStatus(j, w, run_at) ==
  /\ j \notin HeldByOthers(w)
  /\ jobs' = [jobs EXCEPT ![j] = [Unlocked(@, "queued") EXCEPT !.run_at = run_at]]
  /\ UNCHANGED <<job_attempts, policy_decisions, tx, now>>

\* WHERE id AND status = 'running': the holder of the lease is not compared.
reschedule_for_retry(j, w, run_at) ==
  /\ jobs[j].status = "running"
  /\ j \notin HeldByOthers(w)
  /\ jobs' = [jobs EXCEPT ![j] = [Unlocked(@, "queued") EXCEPT !.run_at = run_at]]
  /\ UNCHANGED <<job_attempts, policy_decisions, tx, now>>

mark_dlq(j, w, reason) ==
  /\ Leased(j, w)
  /\ j \notin HeldByOthers(w)
  /\ jobs' = [jobs EXCEPT ![j] = [Unlocked(@, "dlq") EXCEPT !.dlq_reason_code = reason]]
  /\ UNCHANGED <<job_attempts, policy_decisions, tx, now>>

\* cancel_job: a plain SELECT, checked in memory.
cancel_read(c, j, worker) ==
  /\ tx[c] = None
  /\ j \in Rows
  /\ jobs[j].status = "queued" \/ Leased(j, worker)
  /\ Begin(c, [kind |-> "cancel", at |-> now, rows |-> {}, closing |-> {},
               job |-> j, seen |-> jobs[j].status])
  /\ UNCHANGED <<tables, now>>

\* ORDER BY attempt_no DESC LIMIT 1 among the open attempts.
LatestOpen(j) ==
  {a \in OpenAttempts({j}) : \A b \in OpenAttempts({j}) :
     job_attempts[b].attempt_no <= job_attempts[a].attempt_no}

\* The UPDATEs that follow do not look at the status again.
cancel_write(c) ==
  LET j == tx[c].job
      closing == IF tx[c].seen = "running" THEN LatestOpen(j) ELSE {}
  IN  /\ j \notin HeldByOthers(c)
      /\ closing \cap ClosedByOthers(c) = {}
      /\ job_attempts' = [a \in AttemptIds |->
           IF a \in closing THEN ClosedAttempt(job_attempts[a], "CANCELLED") ELSE job_attempts[a]]
      /\ jobs' = [jobs EXCEPT ![j] = Unlocked(@, "canceled")]
      /\ Commit(c)
      /\ UNCHANGED <<policy_decisions, now>>
=============================================================================
