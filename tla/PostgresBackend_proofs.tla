------------------------ MODULE PostgresBackend_proofs ------------------------
(***************************************************************************)
(* What holds of the Postgres backend for every number of jobs, attempts,  *)
(* workers and clients, every policy, interval, delay and cutoff, however  *)
(* their transactions interleave, wait, are aborted or die.                *)
(*                                                                         *)
(* The argument is about locks.  No two open transactions have locked the  *)
(* same job or the same attempt (LocksExclusive), and no step changes what *)
(* another transaction has locked (RespectsLocks), so what a report has    *)
(* read of its jobs and attempts still holds when it commits               *)
(* (ReportPaired), and what archiving has copied is still what it deletes  *)
(* (ArchiveIsOld).                                                         *)
(***************************************************************************)
EXTENDS PostgresBackend, PostgresRepo_proofs

Tx == ReportTx \cup ReaperTx \cup ArchiveTx

Open(s) == tx[s] # None

----------------------------------------------------------------------------
(* The inductive invariant                                                  *)

LocksExclusive ==
  \A s, o \in Sessions : s # o /\ Open(s) /\ Open(o) =>
    tx[s].rows \cap tx[o].rows = {} /\ tx[s].closing \cap tx[o].closing = {}

\* What is locked is there, and an attempt that is locked is open.
LockedStays(s) ==
  Open(s) => /\ tx[s].rows \subseteq Rows
             /\ \A a \in tx[s].closing : a \in Recorded /\ job_attempts[a].status = "running"

\* A report holds the lease of every job it has updated, and has updated the job of
\* every attempt it has closed but the one it is at: one attempt for each job.
ReportPaired(s) ==
  Reporting(s) =>
    /\ \A j \in tx[s].rows : Leased(j, s)
    /\ \A a \in tx[s].closing \ tx[s].pending : job_attempts[a].job_id \in tx[s].rows
    /\ \A a, b \in tx[s].closing \ tx[s].pending : job_attempts[a].job_id = job_attempts[b].job_id => a = b

\* mark_succeeded is about one attempt, reschedule_for_retry has a time.
ReportArguments(s) ==
  Reporting(s) =>
    /\ \A j \in tx[s].rows : \E a \in tx[s].closing : job_attempts[a].job_id = j
    /\ tx[s].call = "mark_succeeded" => tx[s].todo = {} /\ \A a, b \in tx[s].closing : a = b
    /\ tx[s].call = "reschedule_for_retry" => tx[s].run_at \in Instants

\* It is at one attempt at a time, which it has closed.
PendingIsOne(s) ==
  Reporting(s) => tx[s].pending \subseteq tx[s].closing /\ \A a, b \in tx[s].pending : a = b

ArchiveIsOld(s) == Archiving(s) => tx[s].rows \subseteq OlderSucceeded(tx[s].cutoff)

SessionInv(s) ==
  LockedStays(s) /\ ReportPaired(s) /\ ReportArguments(s) /\ PendingIsOne(s) /\ ArchiveIsOld(s)

LockInv == LocksExclusive /\ \A s \in Sessions : SessionInv(s)

\* job_attempts.job_id REFERENCES jobs.
ForeignKey == \A a \in Recorded : job_attempts[a].job_id \in Rows

\* What NextOccurrenceOnce says, of a row that is there.
NextIsOver ==
  \A i \in JobIds : next_of[i] # None =>
    /\ next_of[i] \in jobs_archive \/ (next_of[i] \in Rows /\ jobs[next_of[i]].status = "succeeded")
    /\ \A k \in JobIds : next_of[k] = next_of[i] => k = i

BackendInv == BackendTypeOK /\ LockInv /\ ForeignKey /\ CompletedExactlyOnce /\ NextIsOver

----------------------------------------------------------------------------
(* What a step may do to the tables                                         *)

RowKept(j) ==
  /\ jobs'[j] # None
  /\ jobs'[j].status = jobs[j].status /\ jobs'[j].locked_by = jobs[j].locked_by
  /\ updated_at'[j] = updated_at[j]

\* Transactions end or stay, and what one that stays has locked is as it was.
RespectsLocks ==
  \A s \in Sessions : tx'[s] # None =>
    /\ tx'[s] = tx[s]
    /\ \A j \in tx[s].rows : RowKept(j)
    /\ \A a \in tx[s].closing : job_attempts'[a] = job_attempts[a]

\* Rows stay, succeeded work as succeeded work, or go to the archive.
Keeps ==
  /\ jobs_archive \subseteq jobs_archive'
  /\ \A j \in Rows :
       \/ jobs'[j] # None /\ (jobs[j].status = "succeeded" => jobs'[j].status = "succeeded")
       \/ jobs'[j] = None /\ jobs[j].status = "succeeded" /\ j \in jobs_archive'

NoNewSuccess ==
  \A a \in AttemptIds : job_attempts'[a] # None /\ job_attempts'[a].status = "succeeded" =>
    job_attempts'[a] = job_attempts[a]

\* A step that completes nothing and opens no transaction.
PlainStep == RespectsLocks /\ Keeps /\ NoNewSuccess /\ ForeignKey' /\ UNCHANGED next_of

----------------------------------------------------------------------------

\* The fields that all transactions have.
LEMMA TxFields ==
  ASSUME BackendTypeOK, NEW s \in Sessions, Open(s)
  PROVE  /\ tx[s] \in Tx
         /\ tx[s].rows \in SUBSET JobIds /\ tx[s].closing \in SUBSET AttemptIds /\ tx[s].at \in Instants
<1>1. tx[s] \in Tx
  BY DEF BackendTypeOK, Open, Tx
<1> QED BY <1>1 DEF Tx, ReportTx, ReaperTx, ArchiveTx

\* What is known of an open report.
LEMMA ReportFields ==
  ASSUME BackendTypeOK, NEW s \in Sessions, Reporting(s)
  PROVE  /\ tx[s] \in ReportTx
         /\ tx[s].rows \in SUBSET JobIds /\ tx[s].closing \in SUBSET AttemptIds /\ tx[s].at \in Instants
         /\ tx[s].call \in Calls /\ tx[s].todo \in SUBSET AttemptIds /\ tx[s].pending \in SUBSET AttemptIds
         /\ tx[s].run_at \in Instants \cup {None} /\ tx[s].reason \in ReasonCodes \cup {None}
<1>1. tx[s] \in ReportTx
  BY DEF BackendTypeOK, Reporting, ReaperTx, ArchiveTx
<1> QED BY <1>1 DEF ReportTx

\* A step that respects locks keeps every transaction that stays in order.
LEMMA LocksKept ==
  ASSUME BackendTypeOK, LockInv, RespectsLocks
  PROVE  LockInv'
<1>1. LocksExclusive'
  BY DEF LockInv, LocksExclusive, RespectsLocks, Open
<1>2. ASSUME NEW s \in Sessions PROVE SessionInv(s)'
  <2> SUFFICES ASSUME tx'[s] # None PROVE SessionInv(s)'
    BY DEF SessionInv, LockedStays, ReportPaired, ReportArguments, PendingIsOne, ArchiveIsOld, Open, Reporting, Archiving
  <2>1. /\ tx'[s] = tx[s] /\ Open(s)
        /\ \A j \in tx[s].rows : RowKept(j)
        /\ \A a \in tx[s].closing : job_attempts'[a] = job_attempts[a]
    BY DEF RespectsLocks, Open
  <2>2. tx[s].rows \in SUBSET JobIds /\ tx[s].closing \in SUBSET AttemptIds
    BY <2>1, TxFields
  <2>3. SessionInv(s)
    BY DEF LockInv
  <2>4. LockedStays(s)'
    BY <2>1, <2>2, <2>3 DEF SessionInv, LockedStays, Open, Rows, Recorded, RowKept
  <2>5. ReportPaired(s)'
    BY <2>1, <2>2, <2>3 DEF SessionInv, ReportPaired, Reporting, Leased, Rows, RowKept
  <2>6. ReportArguments(s)' /\ PendingIsOne(s)'
    BY <2>1, <2>2, <2>3 DEF SessionInv, ReportArguments, PendingIsOne, Reporting
  <2>7. ArchiveIsOld(s)'
    BY <2>1, <2>2, <2>3 DEF SessionInv, ArchiveIsOld, Archiving, OlderSucceeded, Rows, RowKept
  <2> QED BY <2>4, <2>5, <2>6, <2>7 DEF SessionInv
<1> QED BY <1>1, <1>2 DEF LockInv

\* A step that completes nothing leaves completions as they are.
LEMMA CompletionsKept ==
  ASSUME BackendTypeOK, ForeignKey, ForeignKey', CompletedExactlyOnce, Keeps, NoNewSuccess
  PROVE  CompletedExactlyOnce'
<1> SUFFICES ASSUME NEW a \in Recorded', (job_attempts[a].status = "succeeded")'
             PROVE  (/\ jobs[job_attempts[a].job_id].status = "succeeded"
                     /\ \A b \in AttemptsOf(job_attempts[a].job_id) : job_attempts[b].status = "succeeded" => a = b)'
  BY DEF CompletedExactlyOnce
<1> DEFINE j == job_attempts[a].job_id
<1>1. a \in Recorded /\ job_attempts'[a] = job_attempts[a] /\ job_attempts[a].status = "succeeded"
  BY DEF Recorded, NoNewSuccess
<1>2. j \in Rows /\ jobs[j].status = "succeeded" /\ jobs'[j] # None
  BY <1>1 DEF ForeignKey, CompletedExactlyOnce, Rows
<1>3. jobs'[j].status = "succeeded"
  BY <1>2 DEF Keeps
<1>4. ASSUME NEW b \in AttemptsOf(j)', job_attempts'[b].status = "succeeded" PROVE a = b
  <2>1. b \in AttemptIds /\ job_attempts'[b] # None /\ job_attempts'[b].job_id = j'
    BY <1>4 DEF AttemptsOf, Recorded
  <2>2. job_attempts'[b] = job_attempts[b]
    BY <1>4, <2>1 DEF NoNewSuccess
  <2>3. b \in AttemptsOf(j) /\ job_attempts[b].status = "succeeded"
    BY <1>1, <1>4, <2>1, <2>2 DEF AttemptsOf, Recorded
  <2> QED BY <1>1, <2>3 DEF CompletedExactlyOnce
<1> QED BY <1>1, <1>3, <1>4

\* A step that schedules nothing leaves next occurrences as they are.
LEMMA OccurrencesKept ==
  ASSUME BackendTypeOK, NextIsOver, Keeps, UNCHANGED next_of
  PROVE  NextIsOver'
<1> SUFFICES ASSUME NEW i \in JobIds, next_of[i] # None
             PROVE  next_of[i] \in jobs_archive' \/ (next_of[i] \in Rows' /\ jobs'[next_of[i]].status = "succeeded")
  BY DEF NextIsOver
<1>1. next_of[i] \in JobIds
  BY DEF BackendTypeOK
<1> QED BY <1>1 DEF NextIsOver, Keeps, Rows

\* All of it together.
LEMMA PlainStepKeepsInv ==
  ASSUME BackendInv, BackendTypeOK', PlainStep
  PROVE  BackendInv'
  BY LocksKept, CompletionsKept, OccurrencesKept DEF BackendInv, PlainStep

----------------------------------------------------------------------------
(* Rows                                                                     *)

\* A row that enqueue, replay_job or a recurrence inserts.
LEMMA QueuedRowType ==
  ASSUME NEW row \in Job, NEW run_at \in Instants, NEW deadline_at \in Instants \cup {None},
         NEW key \in Keys \cup {None}
  PROVE  QueuedRow(run_at, deadline_at, key, row) \in Job
<1>1. DatasetOf(run_at) \in Datasets
  BY DatasetOfInstant
<1> QED BY <1>1 DEF QueuedRow, Job, Status

\* A row that is leased.
LEMMA LeasedRow ==
  ASSUME NEW row \in Job, NEW w \in Workers, NEW t \in Instants
  PROVE  LET new == [row EXCEPT !.status = "running", !.locked_by = w, !.lock_expires_at = t]
         IN  new \in Job /\ new.status = "running"
  BY DEF Job, Status

\* A row whose lease is extended.
LEMMA ExtendedRow ==
  ASSUME NEW row \in Job, NEW t \in Instants
  PROVE  LET new == [row EXCEPT !.lock_expires_at = t]
         IN  new \in Job /\ new.status = row.status /\ new.locked_by = row.locked_by
  BY DEF Job

\* An id that is still unused names no row.
LEMMA UnusedIsNew ==
  ASSUME BackendTypeOK, Unused # {}
  PROVE  Min(Unused) \in JobIds /\ Min(Unused) \notin Rows /\ Min(Unused) \notin jobs_archive
<1>1. Unused \in SUBSET Nat
  BY PostgresAssumption DEF Unused
<1>2. Min(Unused) \in Unused
  BY <1>1, MinOfNumbers
<1> QED BY <1>2 DEF Unused

\* What another session has locked is what HeldByOthers and ClosedByOthers hold.
LEMMA OthersHold ==
  ASSUME NEW s \in Sessions, NEW o \in Sessions, o # s, Open(o)
  PROVE  tx[o].rows \subseteq HeldByOthers(s) /\ tx[o].closing \subseteq ClosedByOthers(s)
  BY DEF HeldByOthers, ClosedByOthers, Open

\* What is inserted is new, so no transaction has locked it.
LEMMA InsertIsPlain ==
  ASSUME BackendInv, Unused # {}, NEW row \in Job, jobs' = [jobs EXCEPT ![Min(Unused)] = row],
         UNCHANGED <<job_attempts, tx, updated_at, jobs_archive, next_of>>
  PROVE  jobs' \in [JobIds -> Job \cup {None}] /\ jobs_archive' \subseteq JobIds \ Rows' /\ PlainStep
<1> DEFINE n == Min(Unused)
<1>1. n \in JobIds /\ n \notin Rows /\ n \notin jobs_archive
  BY UnusedIsNew DEF BackendInv
<1> HIDE DEF n
<1>2. jobs \in [JobIds -> Job \cup {None}] /\ jobs' = [jobs EXCEPT ![n] = row] /\ jobs_archive \subseteq JobIds \ Rows
  BY DEF BackendInv, BackendTypeOK, n
<1>3. \A j \in Rows : j \in JobIds /\ jobs'[j] = jobs[j] /\ jobs[j] # None
  BY <1>1, <1>2 DEF Rows
<1>4. jobs_archive' \subseteq JobIds \ Rows'
  BY <1>1, <1>2 DEF Rows
<1>5. RespectsLocks
  <2> SUFFICES ASSUME NEW s \in Sessions, tx'[s] # None, NEW j \in tx[s].rows PROVE RowKept(j)
    BY DEF RespectsLocks
  <2>1. j \in Rows
    BY DEF BackendInv, LockInv, SessionInv, LockedStays, Open
  <2> QED BY <1>3, <2>1 DEF RowKept
<1>6. Keeps /\ NoNewSuccess
  BY <1>3 DEF Keeps, NoNewSuccess
<1>7. ForeignKey'
  BY <1>3 DEF BackendInv, ForeignKey, Recorded, Rows
<1> QED BY <1>2, <1>4, <1>5, <1>6, <1>7 DEF PlainStep

----------------------------------------------------------------------------
(* Producers, leases and attempts                                           *)

\* A partition is one of a dataset.
LEMMA PartitionType ==
  ASSUME BackendTypeOK, NEW d \in Datasets, ensure_dataset_partition(d)
  PROVE  partitions' \subseteq Datasets
  BY DEF BackendTypeOK, ensure_dataset_partition

\* enqueue: the row is new; where the key is taken only updated_at of a row that nobody
\* has locked moves.
LEMMA EnqueueStep ==
  ASSUME BackendInv, NEW new \in NewJobs, NEW i \in Intervals, enqueue_job(new, i)
  PROVE  BackendTypeOK' /\ PlainStep
<1>1. new \in NewJobType /\ new.run_at \in Instants /\ i \in Nat \cup {None}
  BY PostgresAssumption, BackendAssumption DEF NewJobType
<1>2. DatasetOf(new.run_at) \in Datasets
  BY <1>1, DatasetOfInstant
<1>3. partitions' \subseteq Datasets
  BY <1>2, PartitionType DEF enqueue_job, BackendInv
<1>4. UNCHANGED <<job_attempts, policy_decisions, tx, now, next_of, jobs_archive>>
  BY DEF enqueue_job
<1>5. CASE ~ KeyTaken(new)
  <2> DEFINE row == [dataset_id |-> DatasetOf(new.run_at), idempotency_key |-> new.idempotency_key,
                     priority |-> new.priority, run_at |-> new.run_at,
                     deadline_at |-> new.deadline_at, max_attempts |-> new.max_attempts,
                     status |-> "queued", locked_by |-> None, lock_expires_at |-> None,
                     dlq_reason_code |-> None]
  <2>1. row \in Job
    BY <1>1, <1>2 DEF NewJobType, Job, Status
  <2>2. /\ Unused # {} /\ jobs' = [jobs EXCEPT ![Min(Unused)] = row]
        /\ recurring' = [recurring EXCEPT ![Min(Unused)] = i] /\ UNCHANGED updated_at
    BY <1>5 DEF enqueue_job
  <2> HIDE DEF row
  <2>3. jobs' \in [JobIds -> Job \cup {None}] /\ jobs_archive' \subseteq JobIds \ Rows' /\ PlainStep
    BY <1>4, <2>1, <2>2, InsertIsPlain
  <2>4. recurring' \in [JobIds -> Nat \cup {None}]
    BY <1>1, <2>2 DEF BackendInv, BackendTypeOK
  <2> QED BY <1>3, <1>4, <2>2, <2>3, <2>4 DEF BackendInv, BackendTypeOK
<1>6. CASE KeyTaken(new)
  <2>1. /\ UNCHANGED <<jobs, recurring>>
        /\ \E j \in Rows \ UNION {tx[o].rows : o \in {o \in Sessions : tx[o] # None}} :
             updated_at' = [updated_at EXCEPT ![j] = now]
    BY <1>6 DEF enqueue_job
  <2>2. PICK j \in Rows \ UNION {tx[o].rows : o \in {o \in Sessions : tx[o] # None}} :
           updated_at' = [updated_at EXCEPT ![j] = now]
    BY <2>1
  <2>3. BackendTypeOK'
    <3>1. updated_at' \in [JobIds -> Instants]
      BY <2>2 DEF BackendInv, BackendTypeOK
    <3>2. Rows' = Rows
      BY <2>1 DEF Rows
    <3> QED BY <1>3, <1>4, <2>1, <3>1, <3>2 DEF BackendInv, BackendTypeOK
  <2>4. RespectsLocks
    <3> SUFFICES ASSUME NEW s \in Sessions, tx'[s] # None, NEW k \in tx[s].rows PROVE RowKept(k)
      BY <1>4 DEF RespectsLocks
    <3>1. k \in Rows /\ k # j
      BY <1>4, <2>2 DEF BackendInv, LockInv, SessionInv, LockedStays, Open
    <3> QED BY <2>1, <2>2, <3>1 DEF RowKept, Rows, BackendInv, BackendTypeOK
  <2>5. Keeps /\ NoNewSuccess
    BY <1>4, <2>1 DEF Keeps, NoNewSuccess, Rows
  <2>6. ForeignKey'
    BY <1>4, <2>1 DEF BackendInv, ForeignKey, Recorded, Rows
  <2> QED BY <1>4, <2>3, <2>4, <2>5, <2>6 DEF PlainStep
<1> QED BY <1>5, <1>6

\* replay_job inserts a copy.
LEMMA ReplayStep ==
  ASSUME BackendInv, NEW j \in JobIds, replay_job(j, now)
  PROVE  BackendTypeOK' /\ PlainStep
<1>1. jobs[j] \in Job /\ now \in Instants
  BY DEF BackendInv, BackendTypeOK, replay_job, Rows
<1>2. jobs[j].deadline_at \in Instants \cup {None}
  BY <1>1 DEF Job
<1> DEFINE row == QueuedRow(now, jobs[j].deadline_at, None, jobs[j])
<1>3. row \in Job
  BY <1>1, <1>2, QueuedRowType
<1>4. /\ Unused # {} /\ jobs' = [jobs EXCEPT ![Min(Unused)] = row]
      /\ recurring' = [recurring EXCEPT ![Min(Unused)] = recurring[j]]
      /\ UNCHANGED <<job_attempts, policy_decisions, tx, now, next_of, updated_at, jobs_archive>>
      /\ ensure_dataset_partition(DatasetOf(now))
  BY DEF replay_job
<1> HIDE DEF row
<1>5. jobs' \in [JobIds -> Job \cup {None}] /\ jobs_archive' \subseteq JobIds \ Rows' /\ PlainStep
  BY <1>3, <1>4, InsertIsPlain
<1>6. recurring' \in [JobIds -> Nat \cup {None}] /\ partitions' \subseteq Datasets
  BY <1>1, <1>4, DatasetOfInstant, PartitionType DEF BackendInv, BackendTypeOK
<1> QED BY <1>4, <1>5, <1>6 DEF BackendInv, BackendTypeOK

\* An UPDATE of jobs that leaves succeeded work and what others have locked alone.
LEMMA UpdateIsPlain ==
  ASSUME BackendInv, jobs' \in [JobIds -> Job \cup {None}], UNCHANGED <<job_attempts, tx, backendVars>>,
         \A j \in JobIds : jobs'[j] = None <=> jobs[j] = None,
         \A j \in Rows : jobs[j].status = "succeeded" => jobs'[j] = jobs[j],
         \A s \in Sessions : Open(s) => \A j \in tx[s].rows : RowKept(j)
  PROVE  Rows' = Rows /\ PlainStep
<1>1. Rows' = Rows
  BY DEF Rows
<1>2. UNCHANGED <<next_of, jobs_archive>>
  BY DEF backendVars, columns
<1>3. RespectsLocks
  BY DEF RespectsLocks, Open
<1>4. Keeps /\ NoNewSuccess
  BY <1>2 DEF Keeps, NoNewSuccess, Rows
<1>5. ForeignKey'
  BY <1>1 DEF BackendInv, ForeignKey, Recorded
<1> QED BY <1>1, <1>2, <1>3, <1>4, <1>5 DEF PlainStep

\* lease_jobs_batch changes rows that are queued and that nobody has locked.
LEMMA LeaseStep ==
  ASSUME BackendInv, NEW w \in Workers, NEW k \in BatchSizes, lease_jobs_batch(w, k)
  PROVE  BackendTypeOK' /\ PlainStep
<1> DEFINE due == Due(now) \ Swept(now)
           free == {j \in due \ HeldByOthers(w) : jobs[j].dataset_id = jobs[Oldest(due)].dataset_id}
           taken == {j \in free : Cardinality({i \in free : Before(i, j)}) < k}
           leased(j) == [jobs[j] EXCEPT !.status = "running", !.locked_by = w,
                                        !.lock_expires_at = At(now + LeaseSeconds)]
<1>1. /\ tx[w] = None /\ Swept(now) \cap HeldByOthers(w) = {}
      /\ jobs' = [j \in JobIds |-> CASE j \in Swept(now) -> PastDeadline(jobs[j])
                                    [] j \in taken -> leased(j)
                                    [] OTHER -> jobs[j]]
      /\ UNCHANGED <<job_attempts, policy_decisions, tx, now, backendVars>>
  BY DEF lease_jobs_batch
<1>2. \A j \in Swept(now) \cup taken : j \in Rows /\ jobs[j].status = "queued" /\ j \notin HeldByOthers(w)
  BY <1>1 DEF Due, Swept
<1>3. jobs \in [JobIds -> Job \cup {None}] /\ \A j \in Rows : j \in JobIds /\ jobs[j] \in Job
  BY DEF BackendInv, BackendTypeOK, Rows
<1>4. At(now + LeaseSeconds) \in Instants
  <2>1. now + LeaseSeconds \in Nat
    BY PostgresAssumption DEF BackendInv, BackendTypeOK, Instants
  <2> QED BY <2>1, AtIsInstant
<1>5. \A j \in Rows : PastDeadline(jobs[j]) \in Job /\ leased(j) \in Job
  BY <1>3, <1>4, SweptRow, LeasedRow
<1> HIDE DEF taken, leased
<1>6. \A j \in JobIds : \/ j \in Rows /\ jobs[j].status = "queued" /\ j \notin HeldByOthers(w) /\ jobs'[j] \in Job
                        \/ jobs'[j] = jobs[j]
  BY <1>1, <1>2, <1>5
<1>7. jobs' \in [JobIds -> Job \cup {None}]
  <2>1. DOMAIN jobs' = JobIds /\ jobs' = [j \in JobIds |-> jobs'[j]]
    BY <1>1
  <2>2. \A j \in JobIds : jobs'[j] \in Job \cup {None}
    BY <1>3, <1>6
  <2> QED BY <2>1, <2>2
<1>8. \A j \in JobIds : jobs'[j] = None <=> jobs[j] = None
  BY <1>6, AbsentAssumption DEF Rows
<1>9. \A j \in Rows : jobs[j].status = "succeeded" => jobs'[j] = jobs[j]
  BY <1>3, <1>6
<1>10. ASSUME NEW s \in Sessions, Open(s), NEW j \in tx[s].rows PROVE RowKept(j)
  <2>1. s # w /\ w \in Sessions
    BY <1>1, <1>10 DEF Open, Sessions
  <2>2. j \in HeldByOthers(w)
    BY <1>10, <2>1, OthersHold
  <2>3. j \in Rows
    BY <1>10 DEF BackendInv, LockInv, SessionInv, LockedStays
  <2>4. jobs'[j] = jobs[j]
    BY <1>6, <2>2, <2>3 DEF Rows
  <2> QED BY <1>1, <2>3, <2>4 DEF RowKept, Rows, backendVars, columns
<1>11. Rows' = Rows /\ PlainStep
  BY <1>1, <1>7, <1>8, <1>9, <1>10, UpdateIsPlain
<1> QED BY <1>1, <1>7, <1>11 DEF BackendInv, BackendTypeOK, backendVars, columns

\* extend_lease moves lock_expires_at and nothing else.
LEMMA ExtendStep ==
  ASSUME BackendInv, NEW w \in Workers, NEW j \in JobIds, extend_lease(j, w)
  PROVE  BackendTypeOK' /\ PlainStep
<1>1. /\ Leased(j, w) /\ jobs' = [jobs EXCEPT ![j].lock_expires_at = At(now + LeaseSeconds)]
      /\ UNCHANGED <<job_attempts, policy_decisions, tx, now, backendVars>>
  BY DEF extend_lease
<1>2. jobs \in [JobIds -> Job \cup {None}] /\ jobs[j] \in Job /\ jobs[j].status = "running"
  BY <1>1 DEF BackendInv, BackendTypeOK, Leased, Rows
<1>3. At(now + LeaseSeconds) \in Instants
  <2>1. now + LeaseSeconds \in Nat
    BY PostgresAssumption DEF BackendInv, BackendTypeOK, Instants
  <2> QED BY <2>1, AtIsInstant
<1> DEFINE new == [jobs[j] EXCEPT !.lock_expires_at = At(now + LeaseSeconds)]
<1>4. new \in Job /\ new.status = jobs[j].status /\ new.locked_by = jobs[j].locked_by
  BY <1>2, <1>3, ExtendedRow
<1>5. jobs' = [jobs EXCEPT ![j] = new]
  BY <1>1
<1> HIDE DEF new
<1>6. jobs' \in [JobIds -> Job \cup {None}] /\ \A i \in JobIds \ {j} : jobs'[i] = jobs[i]
  BY <1>2, <1>4, <1>5
<1>7. jobs'[j] = new /\ new # None /\ jobs[j] # None
  BY <1>2, <1>4, <1>5, AbsentAssumption
<1>8. \A i \in JobIds : jobs'[i] = None <=> jobs[i] = None
  BY <1>6, <1>7
<1>9. \A i \in Rows : jobs[i].status = "succeeded" => jobs'[i] = jobs[i]
  BY <1>2, <1>6 DEF Rows
<1>10. ASSUME NEW s \in Sessions, Open(s), NEW i \in tx[s].rows PROVE RowKept(i)
  <2>1. i \in Rows /\ i \in JobIds
    BY <1>10 DEF BackendInv, LockInv, SessionInv, LockedStays, Rows
  <2> QED BY <1>1, <1>4, <1>6, <1>7, <2>1 DEF RowKept, Rows, backendVars, columns
<1>11. Rows' = Rows /\ PlainStep
  BY <1>1, <1>6, <1>8, <1>9, <1>10, UpdateIsPlain
<1> QED BY <1>1, <1>6, <1>11 DEF BackendInv, BackendTypeOK, backendVars, columns

\* The clock moves, or nothing does.
LEMMA ClockStep ==
  ASSUME BackendInv, (Tick /\ UNCHANGED backendVars) \/ UNCHANGED all
  PROVE  BackendTypeOK' /\ PlainStep
<1>1. UNCHANGED <<jobs, job_attempts, policy_decisions, tx, backendVars>>
  BY DEF Tick, tables, all, pgVars
<1>2. now' \in Instants
  BY PostgresAssumption DEF Tick, all, pgVars, BackendInv, BackendTypeOK, Instants
<1>3. ASSUME NEW s \in Sessions, Open(s), NEW j \in tx[s].rows PROVE RowKept(j)
  BY <1>1, <1>3 DEF BackendInv, LockInv, SessionInv, LockedStays, Rows, RowKept, backendVars, columns
<1>4. jobs' \in [JobIds -> Job \cup {None}]
  BY <1>1 DEF BackendInv, BackendTypeOK
<1>5. Rows' = Rows /\ PlainStep
  BY <1>1, <1>3, <1>4, UpdateIsPlain
<1> QED BY <1>1, <1>2, <1>5 DEF BackendInv, BackendTypeOK, backendVars, columns

\* An INSERT or a DELETE of attempts that others have not locked.
LEMMA HistoryIsPlain ==
  ASSUME BackendInv, UNCHANGED <<jobs, tx, backendVars>>, NoNewSuccess, ForeignKey',
         \A s \in Sessions : Open(s) => \A a \in tx[s].closing : job_attempts'[a] = job_attempts[a]
  PROVE  Rows' = Rows /\ PlainStep
<1>1. Rows' = Rows
  BY DEF Rows
<1>2. UNCHANGED <<next_of, jobs_archive, updated_at>>
  BY DEF backendVars, columns
<1>3. RespectsLocks
  BY <1>2 DEF RespectsLocks, Open, RowKept, BackendInv, LockInv, SessionInv, LockedStays, Rows
<1>4. Keeps
  BY <1>2 DEF Keeps, Rows
<1> QED BY <1>1, <1>2, <1>3, <1>4 DEF PlainStep

\* start_attempts_batch inserts open attempts of jobs that are there.
LEMMA StartStep ==
  ASSUME BackendInv, NEW w \in Workers, NEW S \in SUBSET {j \in JobIds : Leased(j, w)}, start_attempts_batch(S, w)
  PROVE  BackendTypeOK' /\ PlainStep
<1> DEFINE new(a) == \E j \in S : a = NewAttempt(S, j)
           of(a) == CHOOSE j \in S : a = NewAttempt(S, j)
           row(a) == [job_id |-> of(a), attempt_no |-> NextNo(of(a)), worker_id |-> w, started_at |-> now,
                      status |-> "running", error_code |-> None]
<1>1. /\ job_attempts' = [a \in AttemptIds |-> IF new(a) THEN row(a) ELSE job_attempts[a]]
      /\ UNCHANGED <<jobs, policy_decisions, tx, now, backendVars>>
  BY DEF start_attempts_batch
<1>2. /\ job_attempts \in [AttemptIds -> Attempt \cup {None}] /\ now \in Instants
      /\ S \in SUBSET JobIds
  BY DEF BackendInv, BackendTypeOK
<1>3. \A a \in AttemptIds : new(a) => of(a) \in S /\ a \notin Recorded
  BY <1>2, NewAttemptIsNew
<1>4. \A j \in JobIds : NextNo(j) \in Nat
  BY NextNoIsNumber DEF BackendInv, BackendTypeOK
<1>5. \A a \in AttemptIds : new(a) => row(a) \in Attempt /\ row(a).status = "running" /\ row(a).job_id = of(a)
  BY <1>2, <1>3, <1>4 DEF Attempt
<1> HIDE DEF new, of, row
<1>6. \A a \in AttemptIds : IF new(a) THEN job_attempts'[a] = row(a) ELSE job_attempts'[a] = job_attempts[a]
  BY <1>1
<1>7. job_attempts' \in [AttemptIds -> Attempt \cup {None}]
  BY <1>1, <1>2, <1>5
<1>8. NoNewSuccess
  BY <1>5, <1>6 DEF NoNewSuccess
<1>9. Rows' = Rows /\ \A j \in S : j \in Rows
  BY <1>1 DEF Rows, Leased
<1>10. ForeignKey'
  BY <1>3, <1>5, <1>6, <1>9 DEF BackendInv, ForeignKey, Recorded
<1>11. \A s \in Sessions : Open(s) => \A a \in tx[s].closing : job_attempts'[a] = job_attempts[a]
  BY <1>3, <1>6 DEF BackendInv, LockInv, SessionInv, LockedStays, Recorded
<1>12. PlainStep
  BY <1>1, <1>8, <1>10, <1>11, HistoryIsPlain
<1> QED BY <1>1, <1>7, <1>9, <1>12 DEF BackendInv, BackendTypeOK, backendVars, columns

\* The attempts of what is deleted are not locked by others.
LEMMA NotClosed ==
  ASSUME NEW c, NEW S, ClosedByOthers(c) \cap UNION {AttemptsOf(i) : i \in S} = {},
         NEW a \in ClosedByOthers(c), a \in Recorded
  PROVE  job_attempts[a].job_id \notin S
<1> DEFINE j == job_attempts[a].job_id
           U == UNION {AttemptsOf(i) : i \in S}
<1>1. a \in AttemptsOf(j)
  BY DEF AttemptsOf
<1>2. j \in S => a \in U
  BY <1>1
<1> HIDE DEF j
<1>3. U \cap ClosedByOthers(c) = {}
  BY Zenon
<1> HIDE DEF U
<1>4. a \notin U
  BY <1>3
<1> QED BY <1>2, <1>4 DEF j

\* delete_history takes attempts that nobody has locked.
LEMMA DeleteHistoryStep ==
  ASSUME BackendInv, NEW c \in Clients, NEW cutoff \in Cutoffs, NEW k \in BatchSizes, delete_history(c, cutoff, k)
  PROVE  BackendTypeOK' /\ PlainStep
<1>1. PICK T \in OldestFirst(OlderSucceeded(cutoff), k) :
        /\ ClosedByOthers(c) \cap UNION {AttemptsOf(j) : j \in T} = {}
        /\ job_attempts' = [a \in AttemptIds |->
             IF a \in Recorded /\ job_attempts[a].job_id \in T THEN None ELSE job_attempts[a]]
        /\ policy_decisions' = {d \in policy_decisions : d[1] \notin T}
  BY DEF delete_history
<1>2. tx[c] = None /\ UNCHANGED <<jobs, tx, now, backendVars>>
  BY DEF delete_history
<1>3. \A a \in AttemptIds : job_attempts'[a] = None \/ job_attempts'[a] = job_attempts[a]
  BY <1>1
<1>4. Rows' = Rows
  BY <1>2 DEF Rows
<1>5. NoNewSuccess /\ ForeignKey'
  BY <1>3, <1>4 DEF NoNewSuccess, BackendInv, ForeignKey, Recorded
<1>6. ASSUME NEW s \in Sessions, Open(s), NEW a \in tx[s].closing PROVE job_attempts'[a] = job_attempts[a]
  <2>1. s # c /\ c \in Sessions
    BY <1>2, <1>6 DEF Open, Sessions
  <2>2. a \in ClosedByOthers(c) /\ a \in Recorded
    BY <1>6, <2>1, OthersHold DEF BackendInv, LockInv, SessionInv, LockedStays
  <2>3. job_attempts[a].job_id \notin T
    <3>1. ClosedByOthers(c) \cap UNION {AttemptsOf(j) : j \in T} = {}
      BY <1>1, Zenon
    <3> QED BY <2>2, <3>1, NotClosed
  <2> QED BY <1>1, <2>2, <2>3 DEF Recorded
<1>7. PlainStep
  BY <1>2, <1>5, <1>6, HistoryIsPlain
<1>8. job_attempts' \in [AttemptIds -> Attempt \cup {None}] /\ policy_decisions' \subseteq JobIds \X ThrottleReasons
  BY <1>1 DEF BackendInv, BackendTypeOK
<1> QED BY <1>2, <1>4, <1>7, <1>8 DEF BackendInv, BackendTypeOK, backendVars, columns

----------------------------------------------------------------------------
(* The commits of the reaper and of archiving                               *)

\* The reaper puts expired leases back that nobody has locked, and closes the attempts
\* it has locked itself.
LEMMA ReapStep ==
  ASSUME BackendInv, NEW c \in Clients, Reaping(c, TRUE), reap_commit(c), UNCHANGED backendVars
  PROVE  BackendTypeOK' /\ PlainStep
<1> DEFINE expired == ExpiredLocks(tx[c].at)
<1>1. /\ expired \cap HeldByOthers(c) = {}
      /\ jobs' = [j \in JobIds |-> IF j \in expired THEN Unlocked(jobs[j], "queued") ELSE jobs[j]]
      /\ job_attempts' = [a \in AttemptIds |->
           IF a \in tx[c].closing THEN ClosedAttempt(job_attempts[a], "LEASE_EXPIRED") ELSE job_attempts[a]]
      /\ tx' = [tx EXCEPT ![c] = None]
      /\ UNCHANGED <<policy_decisions, now>>
  BY DEF reap_commit, Commit
<1>2. /\ tx \in [Sessions -> Tx \cup {None}] /\ c \in Sessions /\ Open(c)
      /\ jobs \in [JobIds -> Job \cup {None}] /\ job_attempts \in [AttemptIds -> Attempt \cup {None}]
  BY DEF BackendInv, BackendTypeOK, Tx, Sessions, Reaping, Open
<1>3. \A j \in expired : j \in Rows /\ j \in JobIds /\ jobs[j].status = "running" /\ jobs[j] \in Job
  BY <1>2 DEF ExpiredLocks, Rows
<1>4. \A j \in expired : Unlocked(jobs[j], "queued") \in Job
  BY <1>3, UnlockedRow DEF Status
<1>5. tx[c].closing \in SUBSET AttemptIds /\ \A a \in tx[c].closing : a \in Recorded /\ job_attempts[a] \in Attempt
  BY <1>2, TxFields DEF BackendInv, LockInv, SessionInv, LockedStays, Recorded
<1>6. \A a \in tx[c].closing : LET r == ClosedAttempt(job_attempts[a], "LEASE_EXPIRED")
                               IN  r \in Attempt /\ r.status = "failed" /\ r.job_id = job_attempts[a].job_id
  BY <1>5, ClosedRow
<1> HIDE DEF expired
<1>7. jobs' \in [JobIds -> Job \cup {None}] /\ job_attempts' \in [AttemptIds -> Attempt \cup {None}]
  BY <1>1, <1>2, <1>4, <1>6
<1>8. \A j \in JobIds : IF j \in expired THEN jobs'[j] \in Job ELSE jobs'[j] = jobs[j]
  BY <1>1, <1>4
<1>9. Rows' = Rows
  BY <1>3, <1>8, AbsentAssumption DEF Rows
<1>10. \A a \in AttemptIds : IF a \in tx[c].closing
                             THEN job_attempts'[a].status = "failed" /\ job_attempts'[a].job_id = job_attempts[a].job_id
                             ELSE job_attempts'[a] = job_attempts[a]
  BY <1>1, <1>6
<1>11. UNCHANGED <<next_of, jobs_archive, updated_at>>
  BY DEF backendVars, columns
<1>12. RespectsLocks
  <2> SUFFICES ASSUME NEW s \in Sessions, tx'[s] # None
               PROVE  /\ tx'[s] = tx[s]
                      /\ \A j \in tx[s].rows : RowKept(j)
                      /\ \A a \in tx[s].closing : job_attempts'[a] = job_attempts[a]
    BY DEF RespectsLocks
  <2>1. s # c /\ tx'[s] = tx[s] /\ Open(s)
    BY <1>1, <1>2 DEF Open
  <2>2. /\ tx[s].rows \subseteq HeldByOthers(c) /\ tx[s].rows \subseteq Rows /\ tx[s].closing \in SUBSET AttemptIds
        /\ tx[s].closing \cap tx[c].closing = {}
    BY <1>2, <2>1, OthersHold, TxFields DEF BackendInv, LockInv, LocksExclusive, SessionInv, LockedStays
  <2>3. \A j \in tx[s].rows : j \in JobIds /\ jobs'[j] = jobs[j] /\ jobs[j] # None
    BY <1>1, <1>8, <2>2 DEF Rows
  <2>4. \A a \in tx[s].closing : job_attempts'[a] = job_attempts[a]
    BY <1>10, <2>2
  <2> QED BY <1>11, <2>1, <2>3, <2>4 DEF RowKept
<1>13. Keeps
  BY <1>3, <1>8, <1>9, <1>11 DEF Keeps, Rows
<1>14. NoNewSuccess
  BY <1>10 DEF NoNewSuccess
<1>15. ForeignKey'
  <2> SUFFICES ASSUME NEW a \in AttemptIds, job_attempts'[a] # None PROVE job_attempts'[a].job_id \in Rows
    BY <1>9 DEF ForeignKey, Recorded
  <2> QED BY <1>5, <1>10 DEF BackendInv, ForeignKey, Recorded
<1>16. tx' \in [Sessions -> Tx \cup {None}]
  BY <1>1, <1>2
<1> QED BY <1>1, <1>7, <1>9, <1>11, <1>12, <1>13, <1>14, <1>15, <1>16
        DEF BackendInv, BackendTypeOK, Tx, PlainStep, backendVars, columns

\* Archiving deletes what it has copied: its rows are still old and succeeded, and the
\* archive has nothing that is still in jobs.
LEMMA ArchiveStep ==
  ASSUME BackendInv, NEW c \in Clients, archive_commit(c)
  PROVE  BackendTypeOK' /\ PlainStep
<1> DEFINE gone == Deleted(c)
<1>1. /\ Archiving(c)
      /\ gone \cap HeldByOthers(c) = {}
      /\ ClosedByOthers(c) \cap UNION {AttemptsOf(j) : j \in gone} = {}
      /\ jobs' = [j \in JobIds |-> IF j \in gone THEN None ELSE jobs[j]]
      /\ job_attempts' = [a \in AttemptIds |->
           IF a \in Recorded /\ job_attempts[a].job_id \in gone THEN None ELSE job_attempts[a]]
      /\ policy_decisions' = {d \in policy_decisions : d[1] \notin gone}
      /\ jobs_archive' = jobs_archive \cup tx[c].rows
      /\ tx' = [tx EXCEPT ![c] = None]
      /\ UNCHANGED <<now, columns, partitions>>
  BY DEF archive_commit, Commit
<1>2. /\ tx \in [Sessions -> Tx \cup {None}] /\ c \in Sessions /\ Open(c)
      /\ jobs \in [JobIds -> Job \cup {None}] /\ job_attempts \in [AttemptIds -> Attempt \cup {None}]
      /\ jobs_archive \subseteq JobIds \ Rows
  BY <1>1 DEF BackendInv, BackendTypeOK, Tx, Sessions, Archiving, Open
<1>3. gone = tx[c].rows /\ gone \subseteq Rows /\ \A j \in gone : jobs[j].status = "succeeded"
  <2>1. tx[c].rows \subseteq OlderSucceeded(tx[c].cutoff)
    BY <1>1, <1>2 DEF BackendInv, LockInv, SessionInv, ArchiveIsOld
  <2> QED BY <1>2, <2>1 DEF Deleted, OlderSucceeded
<1> HIDE DEF gone
<1>4. \A j \in JobIds : IF j \in gone THEN jobs'[j] = None ELSE jobs'[j] = jobs[j]
  BY <1>1
<1>5. Rows' = Rows \ gone
  BY <1>3, <1>4 DEF Rows
<1>6. \A a \in AttemptIds : IF a \in Recorded /\ job_attempts[a].job_id \in gone
                            THEN job_attempts'[a] = None ELSE job_attempts'[a] = job_attempts[a]
  BY <1>1
<1>7. jobs' \in [JobIds -> Job \cup {None}] /\ job_attempts' \in [AttemptIds -> Attempt \cup {None}]
  BY <1>1, <1>2
<1>8. tx' \in [Sessions -> Tx \cup {None}] /\ policy_decisions' \subseteq JobIds \X ThrottleReasons
  BY <1>1, <1>2 DEF BackendInv, BackendTypeOK
<1>9. jobs_archive' \subseteq JobIds \ Rows'
  BY <1>1, <1>2, <1>3, <1>5 DEF Rows
<1>10. UNCHANGED <<next_of, updated_at, recurring>>
  BY <1>1 DEF columns
<1>11. RespectsLocks
  <2> SUFFICES ASSUME NEW s \in Sessions, tx'[s] # None
               PROVE  /\ tx'[s] = tx[s]
                      /\ \A j \in tx[s].rows : RowKept(j)
                      /\ \A a \in tx[s].closing : job_attempts'[a] = job_attempts[a]
    BY DEF RespectsLocks
  <2>1. s # c /\ tx'[s] = tx[s] /\ Open(s)
    BY <1>1, <1>2 DEF Open
  <2>2. /\ tx[s].rows \subseteq HeldByOthers(c) /\ tx[s].closing \subseteq ClosedByOthers(c)
        /\ tx[s].rows \subseteq Rows /\ tx[s].closing \subseteq Recorded
    BY <1>2, <2>1, OthersHold DEF BackendInv, LockInv, SessionInv, LockedStays
  <2>3. \A j \in tx[s].rows : j \in JobIds /\ jobs'[j] = jobs[j] /\ jobs[j] # None
    BY <1>1, <1>4, <2>2 DEF Rows
  <2>4. ASSUME NEW a \in tx[s].closing PROVE job_attempts'[a] = job_attempts[a]
    <3>1. a \in Recorded /\ a \in ClosedByOthers(c)
      BY <2>2
    <3>2. ClosedByOthers(c) \cap UNION {AttemptsOf(j) : j \in gone} = {}
      BY <1>1, Zenon
    <3>3. job_attempts[a].job_id \notin gone
      BY <3>1, <3>2, NotClosed
    <3> QED BY <1>6, <3>1, <3>3 DEF Recorded
  <2> QED BY <1>10, <2>1, <2>3, <2>4 DEF RowKept
<1>12. Keeps
  BY <1>1, <1>3, <1>4 DEF Keeps, Rows
<1>13. NoNewSuccess
  BY <1>6 DEF NoNewSuccess
<1>14. ForeignKey'
  <2> SUFFICES ASSUME NEW a \in AttemptIds, job_attempts'[a] # None PROVE job_attempts'[a].job_id \in Rows \ gone
    BY <1>5 DEF ForeignKey, Recorded
  <2> QED BY <1>6 DEF BackendInv, ForeignKey, Recorded
<1> QED BY <1>1, <1>7, <1>8, <1>9, <1>10, <1>11, <1>12, <1>13, <1>14
        DEF BackendInv, BackendTypeOK, Tx, PlainStep

----------------------------------------------------------------------------
(* Transactions that open, go on and are rolled back                        *)

TablesKept == UNCHANGED <<jobs, job_attempts, policy_decisions, now, backendVars>>

\* A session whose transaction opens or goes on: the locks it has now are its own, and what
\* it relies on holds.
LEMMA TxStep ==
  ASSUME BackendInv, TablesKept, NEW s \in Sessions, NEW t \in Tx, tx' = [tx EXCEPT ![s] = t],
         \A o \in Sessions : o # s /\ Open(o) => t.rows \cap tx[o].rows = {} /\ t.closing \cap tx[o].closing = {},
         SessionInv(s)'
  PROVE  BackendInv'
<1>1. tx \in [Sessions -> Tx \cup {None}]
  BY DEF BackendInv, BackendTypeOK, Tx
<1>2. tx'[s] = t /\ \A o \in Sessions \ {s} : tx'[o] = tx[o]
  BY <1>1
<1>3. Rows' = Rows /\ Recorded' = Recorded /\ UNCHANGED <<next_of, jobs_archive, updated_at, recurring, partitions>>
  BY DEF TablesKept, Rows, Recorded, backendVars, columns
<1>4. BackendTypeOK'
  <2>1. tx' \in [Sessions -> Tx \cup {None}]
    BY <1>1
  <2> QED BY <1>3, <2>1 DEF BackendInv, BackendTypeOK, TablesKept, Tx
<1>5. LocksExclusive'
  BY <1>2 DEF BackendInv, LockInv, LocksExclusive, Open
<1>6. ASSUME NEW o \in Sessions \ {s} PROVE SessionInv(o)'
  <2>1. SessionInv(o) /\ tx'[o] = tx[o]
    BY <1>2 DEF BackendInv, LockInv
  <2>2. LockedStays(o)' /\ ReportPaired(o)'
    BY <1>3, <2>1 DEF TablesKept, SessionInv, LockedStays, ReportPaired, Open, Reporting, Leased
  <2>3. ReportArguments(o)' /\ PendingIsOne(o)' /\ ArchiveIsOld(o)'
    BY <1>3, <2>1 DEF TablesKept, SessionInv, ReportArguments, PendingIsOne, ArchiveIsOld, Reporting, Archiving, OlderSucceeded
  <2> QED BY <2>2, <2>3 DEF SessionInv
<1>7. ForeignKey' /\ NextIsOver'
  BY <1>3 DEF BackendInv, ForeignKey, NextIsOver, TablesKept
<1>8. CompletedExactlyOnce'
  BY <1>3 DEF BackendInv, CompletedExactlyOnce, AttemptsOf, TablesKept
<1> QED BY <1>4, <1>5, <1>6, <1>7, <1>8 DEF BackendInv, LockInv

\* A transaction that is rolled back gives up its locks.
LEMMA RollbackStep ==
  ASSUME BackendInv, TablesKept, NEW s \in Sessions, Rollback(s)
  PROVE  BackendInv'
<1>1. tx \in [Sessions -> Tx \cup {None}] /\ tx' = [tx EXCEPT ![s] = None]
  BY DEF BackendInv, BackendTypeOK, Tx, Rollback, Commit
<1>2. Rows' = Rows /\ Recorded' = Recorded /\ UNCHANGED <<next_of, jobs_archive, updated_at, recurring, partitions>>
  BY DEF TablesKept, Rows, Recorded, backendVars, columns
<1>3. BackendTypeOK'
  <2>1. tx' \in [Sessions -> Tx \cup {None}]
    BY <1>1
  <2> QED BY <1>2, <2>1 DEF BackendInv, BackendTypeOK, TablesKept, Tx
<1>4. RespectsLocks
  <2> SUFFICES ASSUME NEW o \in Sessions, tx'[o] # None PROVE tx'[o] = tx[o] /\ \A j \in tx[o].rows : RowKept(j)
    BY DEF RespectsLocks, TablesKept
  <2>1. tx'[o] = tx[o] /\ Open(o)
    BY <1>1 DEF Open
  <2> QED BY <1>2, <2>1 DEF BackendInv, LockInv, SessionInv, LockedStays, Rows, RowKept, TablesKept
<1>5. Keeps /\ NoNewSuccess /\ ForeignKey'
  BY <1>2 DEF Keeps, NoNewSuccess, BackendInv, ForeignKey, TablesKept, Rows
<1> QED BY <1>2, <1>3, <1>4, <1>5, PlainStepKeepsInv DEF PlainStep

\* A report begins with one attempt that is open and that nobody has locked.
LEMMA ReportBeginStep ==
  ASSUME BackendInv, NEW w \in Workers, NEW call \in Calls, NEW A \in SUBSET AttemptsGivenTo(w),
         NEW run_at \in Instants \cup {None}, NEW reason \in ReasonCodes \cup {None},
         call = "mark_succeeded" => \E a \in A : A = {a},
         call = "reschedule_for_retry" => run_at \in Instants,
         report_begin(w, call, A, run_at, reason)
  PROVE  BackendInv'
<1>1. PICK a \in A \ ClosedByOthers(w) :
        /\ job_attempts[a].status = "running"
        /\ Begin(w, [kind |-> "report", at |-> now, rows |-> {}, closing |-> {a}, call |-> call,
                     todo |-> A \ {a}, pending |-> {a}, run_at |-> run_at, reason |-> reason])
  BY DEF report_begin
<1> DEFINE t == [kind |-> "report", at |-> now, rows |-> {}, closing |-> {a}, call |-> call,
                 todo |-> A \ {a}, pending |-> {a}, run_at |-> run_at, reason |-> reason]
<1>2. /\ tx' = [tx EXCEPT ![w] = t] /\ TablesKept /\ w \in Sessions /\ now \in Instants
      /\ tx \in [Sessions -> Tx \cup {None}]
  BY <1>1 DEF report_begin, Begin, TablesKept, tables, Sessions, BackendInv, BackendTypeOK, Tx
<1>3. a \in Recorded /\ a \in AttemptIds /\ A \in SUBSET AttemptIds
  BY DEF AttemptsGivenTo, Recorded
<1>4. t \in Tx /\ t.rows = {} /\ t.closing = {a} /\ t.pending = {a} /\ t.kind = "report" /\ t.call = call
      /\ t.run_at = run_at /\ t.todo = A \ {a}
  BY <1>2, <1>3 DEF Tx, ReportTx
<1>5. call = "mark_succeeded" => A \ {a} = {}
  OBVIOUS
<1> HIDE DEF t
<1>6. tx'[w] = t
  BY <1>2
<1>7. \A o \in Sessions : o # w /\ Open(o) => t.rows \cap tx[o].rows = {} /\ t.closing \cap tx[o].closing = {}
  BY <1>2, <1>4, OthersHold
<1>8. LockedStays(w)'
  BY <1>1, <1>2, <1>3, <1>4, <1>6 DEF LockedStays, TablesKept, Recorded
<1>9. ReportPaired(w)' /\ ReportArguments(w)' /\ PendingIsOne(w)' /\ ArchiveIsOld(w)'
  BY <1>4, <1>5, <1>6 DEF ReportPaired, ReportArguments, PendingIsOne, ArchiveIsOld, Archiving
<1> QED BY <1>2, <1>4, <1>7, <1>8, <1>9, TxStep DEF SessionInv

\* It goes on with the next attempt of its batch, or is rolled back.
LEMMA ReportAttemptStep ==
  ASSUME BackendInv, NEW w \in Workers, report_attempt(w)
  PROVE  BackendInv'
<1>1. /\ TablesKept /\ w \in Sessions /\ Reporting(w) /\ Open(w) /\ tx[w].pending = {}
      /\ tx \in [Sessions -> Tx \cup {None}]
  BY DEF report_attempt, TablesKept, tables, Sessions, Reporting, Open, BackendInv, BackendTypeOK, Tx
<1>2. CASE Rollback(w)
  BY <1>1, <1>2, RollbackStep
<1>3. CASE ~ Rollback(w)
  <2>1. PICK a \in tx[w].todo \ ClosedByOthers(w) :
          /\ a \in Recorded /\ job_attempts[a].status = "running"
          /\ tx' = [tx EXCEPT ![w].closing = @ \cup {a}, ![w].todo = @ \ {a}, ![w].pending = {a}]
    BY <1>3 DEF report_attempt
  <2>2. /\ tx[w] \in ReportTx /\ tx[w].closing \in SUBSET AttemptIds /\ tx[w].todo \in SUBSET AttemptIds
        /\ a \in AttemptIds
    BY <1>1, ReportFields DEF BackendInv
  <2> DEFINE t == [tx[w] EXCEPT !.closing = @ \cup {a}, !.todo = @ \ {a}, !.pending = {a}]
  <2>3. tx' = [tx EXCEPT ![w] = t]
    BY <1>1, <2>1, <2>2 DEF ReportTx
  <2>4. /\ t \in ReportTx /\ t.kind = "report" /\ t.rows = tx[w].rows /\ t.closing = tx[w].closing \cup {a}
        /\ t.todo = tx[w].todo \ {a} /\ t.pending = {a} /\ t.call = tx[w].call /\ t.run_at = tx[w].run_at
    BY <2>2 DEF ReportTx
  <2> HIDE DEF t
  <2>5. tx'[w] = t /\ t \in Tx
    BY <1>1, <2>3, <2>4 DEF Tx
  <2>6. SessionInv(w)
    BY <1>1 DEF BackendInv, LockInv
  <2>7. \A o \in Sessions : o # w /\ Open(o) => t.rows \cap tx[o].rows = {} /\ t.closing \cap tx[o].closing = {}
    BY <1>1, <2>1, <2>4, OthersHold DEF BackendInv, LockInv, LocksExclusive
  <2>8. LockedStays(w)'
    BY <1>1, <2>1, <2>4, <2>5, <2>6 DEF SessionInv, LockedStays, TablesKept, Recorded, Rows
  <2>9. ReportPaired(w)'
    BY <1>1, <2>4, <2>5, <2>6 DEF SessionInv, ReportPaired, Reporting, TablesKept, Leased, Rows
  <2>10. ReportArguments(w)' /\ PendingIsOne(w)' /\ ArchiveIsOld(w)'
    BY <1>1, <2>1, <2>4, <2>5, <2>6 DEF SessionInv, ReportArguments, PendingIsOne, ArchiveIsOld, Archiving, Reporting, TablesKept
  <2> QED BY <1>1, <2>3, <2>5, <2>7, <2>8, <2>9, <2>10, TxStep DEF SessionInv
<1> QED BY <1>2, <1>3

\* It updates the job of that attempt, which it holds the lease of and has not updated
\* before, or is rolled back.
LEMMA ReportJobStep ==
  ASSUME BackendInv, NEW w \in Workers, report_job(w)
  PROVE  BackendInv'
<1>1. /\ TablesKept /\ w \in Sessions /\ Reporting(w) /\ Open(w)
      /\ tx \in [Sessions -> Tx \cup {None}]
  BY DEF report_job, TablesKept, tables, Sessions, Reporting, Open, BackendInv, BackendTypeOK, Tx
<1>2. CASE Rollback(w)
  BY <1>1, <1>2, RollbackStep
<1>3. CASE ~ Rollback(w)
  <2>1. PICK a \in tx[w].pending :
          LET j == job_attempts[a].job_id
          IN  /\ j \notin HeldByOthers(w) /\ Leased(j, w) /\ j \notin tx[w].rows
              /\ tx' = [tx EXCEPT ![w].rows = @ \cup {j}, ![w].pending = {}]
    BY <1>3 DEF report_job
  <2>2. PICK j : j = job_attempts[a].job_id
    OBVIOUS
  <2>3. /\ j \notin HeldByOthers(w) /\ Leased(j, w) /\ j \notin tx[w].rows /\ j \in Rows /\ j \in JobIds
        /\ tx' = [tx EXCEPT ![w].rows = @ \cup {j}, ![w].pending = {}]
    BY <2>1, <2>2 DEF Leased, Rows
  <2>4. tx[w] \in ReportTx /\ tx[w].rows \in SUBSET JobIds
    BY <1>1, ReportFields DEF BackendInv
  <2> DEFINE t == [tx[w] EXCEPT !.rows = @ \cup {j}, !.pending = {}]
  <2>5. tx' = [tx EXCEPT ![w] = t]
    BY <1>1, <2>3, <2>4 DEF ReportTx
  <2>6. /\ t \in ReportTx /\ t.kind = "report" /\ t.rows = tx[w].rows \cup {j} /\ t.closing = tx[w].closing
        /\ t.todo = tx[w].todo /\ t.pending = {} /\ t.call = tx[w].call /\ t.run_at = tx[w].run_at
    BY <2>3, <2>4 DEF ReportTx
  <2> HIDE DEF t
  <2>7. tx'[w] = t /\ t \in Tx
    BY <1>1, <2>5, <2>6 DEF Tx
  <2>8. SessionInv(w)
    BY <1>1 DEF BackendInv, LockInv
  <2>9. \A o \in Sessions : o # w /\ Open(o) => t.rows \cap tx[o].rows = {} /\ t.closing \cap tx[o].closing = {}
    BY <1>1, <2>3, <2>6, OthersHold DEF BackendInv, LockInv, LocksExclusive
  <2>10. LockedStays(w)'
    BY <1>1, <2>3, <2>6, <2>7, <2>8 DEF SessionInv, LockedStays, TablesKept, Recorded, Rows
  <2>11. ReportPaired(w)'
    BY <1>1, <2>1, <2>2, <2>3, <2>6, <2>7, <2>8
       DEF SessionInv, ReportPaired, PendingIsOne, Reporting, TablesKept, Leased, Rows
  <2>12. ReportArguments(w)' /\ ArchiveIsOld(w)' /\ PendingIsOne(w)'
    BY <1>1, <2>1, <2>2, <2>6, <2>7, <2>8
       DEF SessionInv, ReportArguments, ArchiveIsOld, PendingIsOne, Archiving, Reporting, TablesKept
  <2> QED BY <1>1, <2>5, <2>7, <2>9, <2>10, <2>11, <2>12, TxStep DEF SessionInv
<1> QED BY <1>2, <1>3

\* The reaper locks the expired leases that nobody else has locked ...
LEMMA ReapSelectStep ==
  ASSUME BackendInv, NEW c \in Clients, reap_select(c)
  PROVE  BackendInv'
<1> DEFINE expired == ExpiredLocks(now) \ HeldByOthers(c)
           t == [kind |-> "reap", at |-> now, rows |-> expired, closing |-> {}, closed |-> FALSE]
<1>1. /\ tx' = [tx EXCEPT ![c] = t] /\ TablesKept /\ c \in Sessions /\ now \in Instants
      /\ tx \in [Sessions -> Tx \cup {None}]
  BY DEF reap_select, Begin, TablesKept, tables, Sessions, BackendInv, BackendTypeOK, Tx
<1>2. expired \subseteq Rows /\ expired \in SUBSET JobIds /\ expired \cap HeldByOthers(c) = {}
  BY DEF ExpiredLocks, Rows
<1> HIDE DEF expired
<1>3. t \in Tx /\ t.rows = expired /\ t.closing = {} /\ t.kind = "reap"
  BY <1>1, <1>2 DEF Tx, ReaperTx
<1> HIDE DEF t
<1>4. tx'[c] = t
  BY <1>1
<1>5. \A o \in Sessions : o # c /\ Open(o) => t.rows \cap tx[o].rows = {} /\ t.closing \cap tx[o].closing = {}
  BY <1>1, <1>2, <1>3, OthersHold
<1>6. SessionInv(c)'
  BY <1>1, <1>2, <1>3, <1>4
     DEF SessionInv, LockedStays, ReportPaired, ReportArguments, PendingIsOne, ArchiveIsOld, Reporting, Archiving,
         TablesKept, Rows
<1> QED BY <1>1, <1>3, <1>5, <1>6, TxStep

\* ... and their open attempts.
LEMMA ReapAttemptsStep ==
  ASSUME BackendInv, NEW c \in Clients, reap_attempts(c)
  PROVE  BackendInv'
<1> DEFINE open == OpenAttempts(tx[c].rows)
           t == [tx[c] EXCEPT !.closing = open, !.closed = TRUE]
<1>1. /\ Reaping(c, FALSE) /\ open \cap ClosedByOthers(c) = {}
      /\ tx' = [tx EXCEPT ![c].closing = open, ![c].closed = TRUE]
      /\ TablesKept /\ c \in Sessions /\ Open(c) /\ tx \in [Sessions -> Tx \cup {None}]
  BY DEF reap_attempts, TablesKept, tables, Sessions, BackendInv, BackendTypeOK, Tx, Reaping, Open
<1>2. tx[c] \in ReaperTx /\ tx[c].rows \in SUBSET JobIds
  BY <1>1 DEF Reaping, BackendInv, BackendTypeOK, ReportTx, ReaperTx, ArchiveTx
<1>3. open \in SUBSET AttemptIds /\ \A a \in open : a \in Recorded /\ job_attempts[a].status = "running"
  BY DEF OpenAttempts, Recorded
<1> HIDE DEF open
<1>4. tx' = [tx EXCEPT ![c] = t]
  BY <1>1, <1>2 DEF ReaperTx
<1>5. t \in ReaperTx /\ t.rows = tx[c].rows /\ t.closing = open /\ t.kind = "reap"
  BY <1>2, <1>3 DEF ReaperTx
<1> HIDE DEF t
<1>6. tx'[c] = t /\ t \in Tx
  BY <1>1, <1>4, <1>5 DEF Tx
<1>7. \A o \in Sessions : o # c /\ Open(o) => t.rows \cap tx[o].rows = {} /\ t.closing \cap tx[o].closing = {}
  BY <1>1, <1>5, OthersHold DEF BackendInv, LockInv, LocksExclusive
<1>8. SessionInv(c)'
  <2>1. tx[c].rows \subseteq Rows
    BY <1>1 DEF BackendInv, LockInv, SessionInv, LockedStays
  <2>2. LockedStays(c)'
    BY <1>1, <1>3, <1>5, <1>6, <2>1 DEF LockedStays, TablesKept, Rows, Recorded
  <2>3. ReportPaired(c)' /\ ReportArguments(c)' /\ PendingIsOne(c)' /\ ArchiveIsOld(c)'
    BY <1>5, <1>6 DEF ReportPaired, ReportArguments, PendingIsOne, ArchiveIsOld, Reporting, Archiving
  <2> QED BY <2>2, <2>3 DEF SessionInv
<1> QED BY <1>1, <1>4, <1>6, <1>7, <1>8, TxStep

\* Archiving locks old succeeded rows that nobody else has locked.
LEMMA ArchiveBeginStep ==
  ASSUME BackendInv, NEW c \in Clients, NEW cutoff \in Cutoffs, NEW k \in BatchSizes, archive_begin(c, cutoff, k)
  PROVE  BackendInv'
<1>1. PICK T \in OldestFirst(OlderSucceeded(cutoff) \ HeldByOthers(c), k) :
        Begin(c, [kind |-> "archive", at |-> now, rows |-> T, closing |-> {}, cutoff |-> cutoff])
  BY DEF archive_begin
<1> DEFINE t == [kind |-> "archive", at |-> now, rows |-> T, closing |-> {}, cutoff |-> cutoff]
<1>2. /\ tx' = [tx EXCEPT ![c] = t] /\ TablesKept /\ c \in Sessions /\ now \in Instants /\ cutoff \in Instants
      /\ tx \in [Sessions -> Tx \cup {None}]
  BY <1>1, BackendAssumption DEF archive_begin, Begin, TablesKept, tables, Sessions, BackendInv, BackendTypeOK, Tx
<1>3. T \subseteq OlderSucceeded(cutoff) /\ T \cap HeldByOthers(c) = {}
  BY DEF OldestFirst
<1>4. T \subseteq Rows /\ T \in SUBSET JobIds
  BY <1>3 DEF OlderSucceeded, Rows
<1>5. t \in Tx /\ t.rows = T /\ t.closing = {} /\ t.kind = "archive" /\ t.cutoff = cutoff
  BY <1>2, <1>4 DEF Tx, ArchiveTx
<1> HIDE DEF t
<1>6. tx'[c] = t
  BY <1>2
<1>7. \A o \in Sessions : o # c /\ Open(o) => t.rows \cap tx[o].rows = {} /\ t.closing \cap tx[o].closing = {}
  BY <1>2, <1>3, <1>5, OthersHold
<1>8. OlderSucceeded(cutoff)' = OlderSucceeded(cutoff) /\ Rows' = Rows
  BY <1>2 DEF OlderSucceeded, Rows, TablesKept, backendVars, columns
<1>9. SessionInv(c)'
  BY <1>3, <1>4, <1>5, <1>6, <1>8
     DEF SessionInv, LockedStays, ReportPaired, ReportArguments, PendingIsOne, ArchiveIsOld, Reporting, Archiving,
         OlderSucceeded
<1> QED BY <1>2, <1>5, <1>7, <1>9, TxStep

----------------------------------------------------------------------------
(* The commits of reports                                                   *)

\* What a report does to the jobs it has updated.
LEMMA ReportedRow ==
  ASSUME NEW t \in ReportTx, NEW row \in Job, t.call = "reschedule_for_retry" => t.run_at \in Instants
  PROVE  /\ ReportedJob(t, row) \in Job
         /\ t.call \in {"mark_succeeded", "mark_succeeded_batch"} => ReportedJob(t, row).status = "succeeded"
<1>1. t.call \in Calls /\ t.reason \in ReasonCodes \cup {None}
  BY DEF ReportTx
<1>2. /\ \A status \in Status : Unlocked(row, status) \in Job /\ Unlocked(row, status).status = status
  BY UnlockedRow
<1>3. CASE t.call \in {"mark_succeeded", "mark_succeeded_batch"}
  <2>1. ReportedJob(t, row) = Unlocked(row, "succeeded")
    BY <1>3 DEF ReportedJob
  <2> QED BY <1>2, <2>1 DEF Status
<1>4. CASE t.call = "reschedule_for_retry"
  <2>1. ReportedJob(t, row) = [Unlocked(row, "queued") EXCEPT !.run_at = t.run_at]
    BY <1>4 DEF ReportedJob
  <2>2. Unlocked(row, "queued") \in Job
    BY <1>2 DEF Status
  <2>3. ReportedJob(t, row) \in Job
    BY <1>4, <2>1, <2>2 DEF Job
  <2> QED BY <1>4, <2>3
<1>5. CASE t.call = "mark_dlq"
  <2>1. ReportedJob(t, row) = [Unlocked(row, "dlq") EXCEPT !.dlq_reason_code = t.reason]
    BY <1>5 DEF ReportedJob
  <2>2. Unlocked(row, "dlq") \in Job
    BY <1>2 DEF Status
  <2>3. ReportedJob(t, row) \in Job
    BY <1>1, <2>1, <2>2 DEF Job
  <2> QED BY <1>5, <2>3
<1> QED BY <1>1, <1>3, <1>4, <1>5 DEF Calls

\* What it does to the attempts it has closed.
LEMMA ReportedAttemptRow ==
  ASSUME NEW t \in ReportTx, NEW row \in Attempt
  PROVE  /\ ReportedAttempt(t, row) \in Attempt
         /\ ReportedAttempt(t, row).job_id = row.job_id
         /\ ReportedAttempt(t, row).status = "succeeded" => t.call \in {"mark_succeeded", "mark_succeeded_batch"}
<1>1. CASE t.call \in {"mark_succeeded", "mark_succeeded_batch"}
  <2>1. ReportedAttempt(t, row) = [row EXCEPT !.status = "succeeded"]
    BY <1>1 DEF ReportedAttempt
  <2> QED BY <1>1, <2>1 DEF Attempt
<1>2. CASE t.call \notin {"mark_succeeded", "mark_succeeded_batch"}
  <2>1. ReportedAttempt(t, row) = ClosedAttempt(row, "HANDLER_FAILURE")
    BY <1>2 DEF ReportedAttempt
  <2> QED BY <2>1, ClosedRow
<1> QED BY <1>1, <1>2

\* What both commits of a report do to the rows that are there.
ReportEffect(w) ==
  LET t == tx[w]
  IN  /\ Reporting(w) /\ t.pending = {} /\ t.todo = {}
      /\ \A j \in Rows : jobs'[j] = IF j \in t.rows THEN ReportedJob(t, jobs[j]) ELSE jobs[j]
      /\ job_attempts' = [a \in AttemptIds |->
           IF a \in t.closing THEN ReportedAttempt(t, job_attempts[a]) ELSE job_attempts[a]]
      /\ \A j \in Rows \ t.rows : updated_at'[j] = updated_at[j]
      /\ tx' = [tx EXCEPT ![w] = None]
      /\ UNCHANGED jobs_archive

\* A report changes the jobs it holds the leases of and the attempts it has closed, each
\* of them the one attempt of its job; everything that is succeeded stays so.
LEMMA ReportTables ==
  ASSUME BackendInv, NEW w \in Workers, ReportEffect(w)
  PROVE  /\ job_attempts' \in [AttemptIds -> Attempt \cup {None}]
         /\ \A j \in Rows : jobs'[j] \in Job
         /\ tx' \in [Sessions -> Tx \cup {None}]
         /\ RespectsLocks /\ Keeps /\ ForeignKey' /\ CompletedExactlyOnce'
<1> DEFINE t == tx[w]
<1>1. /\ Reporting(w) /\ t.pending = {} /\ t.todo = {}
      /\ \A j \in Rows : jobs'[j] = IF j \in t.rows THEN ReportedJob(t, jobs[j]) ELSE jobs[j]
      /\ job_attempts' = [a \in AttemptIds |->
           IF a \in t.closing THEN ReportedAttempt(t, job_attempts[a]) ELSE job_attempts[a]]
      /\ \A j \in Rows \ t.rows : updated_at'[j] = updated_at[j]
      /\ tx' = [tx EXCEPT ![w] = None]
      /\ UNCHANGED jobs_archive
  BY DEF ReportEffect
<1>2. /\ w \in Sessions /\ Open(w) /\ tx \in [Sessions -> Tx \cup {None}]
      /\ jobs \in [JobIds -> Job \cup {None}] /\ job_attempts \in [AttemptIds -> Attempt \cup {None}]
  BY <1>1 DEF BackendInv, BackendTypeOK, Tx, Sessions, Reporting, Open
<1>3. t \in ReportTx /\ t.rows \in SUBSET JobIds /\ t.closing \in SUBSET AttemptIds
  BY <1>1, <1>2, ReportFields DEF BackendInv
<1>4. SessionInv(w)
  BY <1>2 DEF BackendInv, LockInv
<1>5. /\ \A j \in t.rows : j \in Rows /\ jobs[j].status = "running"
      /\ \A a \in t.closing : /\ a \in Recorded /\ job_attempts[a] \in Attempt
                             /\ job_attempts[a].status = "running" /\ job_attempts[a].job_id \in t.rows
      /\ \A a, b \in t.closing : job_attempts[a].job_id = job_attempts[b].job_id => a = b
      /\ t.call = "reschedule_for_retry" => t.run_at \in Instants
  BY <1>1, <1>2, <1>4 DEF SessionInv, LockedStays, ReportPaired, ReportArguments, Leased, Recorded
<1>6. \A j \in Rows : j \in JobIds /\ jobs[j] \in Job
  BY <1>2 DEF Rows
<1>7. \A j \in Rows :
        /\ ReportedJob(t, jobs[j]) \in Job
        /\ t.call \in {"mark_succeeded", "mark_succeeded_batch"} => ReportedJob(t, jobs[j]).status = "succeeded"
  BY <1>3, <1>5, <1>6, ReportedRow
<1>8. \A a \in t.closing :
        /\ ReportedAttempt(t, job_attempts[a]) \in Attempt
        /\ ReportedAttempt(t, job_attempts[a]).job_id = job_attempts[a].job_id
        /\ ReportedAttempt(t, job_attempts[a]).status = "succeeded"
              => t.call \in {"mark_succeeded", "mark_succeeded_batch"}
  BY <1>3, <1>5, ReportedAttemptRow
<1> HIDE DEF t
<1>9. \A a \in AttemptIds :
        IF a \in t.closing
        THEN /\ job_attempts'[a] \in Attempt /\ job_attempts'[a].job_id = job_attempts[a].job_id
             /\ job_attempts'[a].status = "succeeded" => t.call \in {"mark_succeeded", "mark_succeeded_batch"}
        ELSE job_attempts'[a] = job_attempts[a]
  BY <1>1, <1>8
<1>10. \A j \in Rows : IF j \in t.rows
                        THEN /\ jobs'[j] \in Job
                             /\ t.call \in {"mark_succeeded", "mark_succeeded_batch"} => jobs'[j].status = "succeeded"
                        ELSE jobs'[j] = jobs[j] /\ jobs'[j] \in Job
  BY <1>1, <1>6, <1>7
<1>11. job_attempts' \in [AttemptIds -> Attempt \cup {None}]
  BY <1>1, <1>2, <1>8
<1>12. tx' \in [Sessions -> Tx \cup {None}]
  BY <1>1, <1>2
<1>13. RespectsLocks
  <2> SUFFICES ASSUME NEW s \in Sessions, tx'[s] # None
               PROVE  /\ tx'[s] = tx[s]
                      /\ \A j \in tx[s].rows : RowKept(j)
                      /\ \A a \in tx[s].closing : job_attempts'[a] = job_attempts[a]
    BY DEF RespectsLocks
  <2>1. s # w /\ tx'[s] = tx[s] /\ Open(s)
    BY <1>1, <1>2 DEF Open
  <2>2. /\ tx[s].rows \cap t.rows = {} /\ tx[s].closing \cap t.closing = {}
        /\ tx[s].rows \subseteq Rows /\ tx[s].closing \in SUBSET AttemptIds
    BY <1>2, <2>1, TxFields DEF BackendInv, LockInv, LocksExclusive, SessionInv, LockedStays, t
  <2>3. \A j \in tx[s].rows : j \in JobIds /\ jobs'[j] = jobs[j] /\ jobs[j] # None /\ updated_at'[j] = updated_at[j]
    BY <1>1, <1>10, <2>2 DEF Rows
  <2>4. \A a \in tx[s].closing : job_attempts'[a] = job_attempts[a]
    BY <1>9, <2>2
  <2> QED BY <2>1, <2>3, <2>4 DEF RowKept
<1>14. Keeps
  <2>1. \A j \in Rows : jobs'[j] # None
    BY <1>10, AbsentAssumption
  <2>2. \A j \in Rows : jobs[j].status = "succeeded" => jobs'[j].status = "succeeded"
    BY <1>5, <1>10
  <2> QED BY <1>1, <2>1, <2>2 DEF Keeps
<1>15. \A j \in Rows : j \in Rows'
  BY <1>10, AbsentAssumption DEF Rows
<1>16. ForeignKey'
  <2> SUFFICES ASSUME NEW a \in AttemptIds, job_attempts'[a] # None PROVE job_attempts'[a].job_id \in Rows
    BY <1>15 DEF ForeignKey, Recorded
  <2> QED BY <1>5, <1>9 DEF BackendInv, ForeignKey, Recorded
<1>17. CompletedExactlyOnce'
  <2> SUFFICES ASSUME NEW a \in AttemptIds, job_attempts'[a] # None, job_attempts'[a].status = "succeeded"
               PROVE  /\ jobs'[job_attempts'[a].job_id].status = "succeeded"
                      /\ \A b \in AttemptIds :
                           (/\ job_attempts'[b] # None /\ job_attempts'[b].status = "succeeded"
                            /\ job_attempts'[b].job_id = job_attempts'[a].job_id) => a = b
    BY DEF CompletedExactlyOnce, AttemptsOf, Recorded
  <2>1. ASSUME NEW b \in AttemptIds, job_attempts'[b] # None, job_attempts'[b].status = "succeeded"
        PROVE  \/ /\ b \in t.closing /\ job_attempts[b].job_id \in t.rows
                  /\ job_attempts'[b].job_id = job_attempts[b].job_id
                  /\ jobs'[job_attempts[b].job_id].status = "succeeded"
               \/ /\ b \in Recorded /\ job_attempts'[b] = job_attempts[b] /\ job_attempts[b].status = "succeeded"
                  /\ job_attempts[b].job_id \in Rows \ t.rows
                  /\ jobs'[job_attempts[b].job_id].status = "succeeded"
    <3>1. CASE b \in t.closing
      BY <1>5, <1>9, <1>10, <2>1, <3>1
    <3>2. CASE b \notin t.closing
      <4>1. b \in Recorded /\ job_attempts'[b] = job_attempts[b] /\ job_attempts[b].status = "succeeded"
        BY <1>9, <2>1, <3>2 DEF Recorded
      <4>2. job_attempts[b].job_id \in Rows /\ jobs[job_attempts[b].job_id].status = "succeeded"
        BY <4>1 DEF BackendInv, ForeignKey, CompletedExactlyOnce
      <4>3. job_attempts[b].job_id \notin t.rows
        BY <1>5, <4>2
      <4> QED BY <1>10, <4>1, <4>2, <4>3
    <3> QED BY <3>1, <3>2
  <2>2. jobs'[job_attempts'[a].job_id].status = "succeeded"
    BY <2>1
  <2>3. ASSUME NEW b \in AttemptIds, job_attempts'[b] # None, job_attempts'[b].status = "succeeded",
               job_attempts'[b].job_id = job_attempts'[a].job_id
        PROVE  a = b
    <3>1. CASE a \in t.closing
      BY <1>5, <2>1, <2>3, <3>1
    <3>2. CASE a \notin t.closing
      <4>1. /\ a \in Recorded /\ job_attempts'[a] = job_attempts[a] /\ job_attempts[a].status = "succeeded"
            /\ job_attempts[a].job_id \notin t.rows
        BY <2>1, <3>2
      <4>2. b \in Recorded /\ job_attempts'[b] = job_attempts[b] /\ job_attempts[b].status = "succeeded"
        BY <2>1, <2>3, <4>1
      <4>3. b \in AttemptsOf(job_attempts[a].job_id)
        BY <2>3, <4>1, <4>2 DEF AttemptsOf
      <4> QED BY <4>1, <4>2, <4>3 DEF BackendInv, CompletedExactlyOnce
    <3> QED BY <3>1, <3>2
  <2> QED BY <2>2, <2>3
<1> QED BY <1>10, <1>11, <1>12, <1>13, <1>14, <1>16, <1>17

\* The COMMIT of a report without a next occurrence.
LEMMA ReportCommitStep ==
  ASSUME BackendInv, NEW w \in Workers, report_commit(w)
  PROVE  BackendInv' /\ Keeps
<1> DEFINE t == tx[w]
<1>1. /\ Reporting(w) /\ t.pending = {} /\ t.todo = {}
      /\ jobs' = [j \in JobIds |-> IF j \in t.rows THEN ReportedJob(t, jobs[j]) ELSE jobs[j]]
      /\ job_attempts' = [a \in AttemptIds |->
           IF a \in t.closing THEN ReportedAttempt(t, job_attempts[a]) ELSE job_attempts[a]]
      /\ updated_at' = [j \in JobIds |->
           IF j \in t.rows /\ jobs'[j].status = "succeeded" THEN t.at ELSE updated_at[j]]
      /\ tx' = [tx EXCEPT ![w] = None]
      /\ UNCHANGED <<policy_decisions, now, recurring, next_of, jobs_archive, partitions>>
  BY DEF report_commit, Commit
<1>2. /\ jobs \in [JobIds -> Job \cup {None}] /\ updated_at \in [JobIds -> Instants]
      /\ t.at \in Instants /\ t.rows \subseteq Rows
  BY <1>1, ReportFields
     DEF BackendInv, BackendTypeOK, Reporting, Open, LockInv, SessionInv, LockedStays, Sessions
<1>3. ReportEffect(w)
  <2>1. \A j \in Rows : j \in JobIds
    BY DEF Rows
  <2>2. \A j \in Rows : jobs'[j] = IF j \in t.rows THEN ReportedJob(t, jobs[j]) ELSE jobs[j]
    BY <1>1, <2>1
  <2>3. \A j \in Rows \ t.rows : updated_at'[j] = updated_at[j]
    BY <1>1, <2>1
  <2> QED BY <1>1, <2>2, <2>3 DEF ReportEffect
<1> HIDE DEF t
<1>4. /\ job_attempts' \in [AttemptIds -> Attempt \cup {None}]
      /\ \A j \in Rows : jobs'[j] \in Job
      /\ tx' \in [Sessions -> Tx \cup {None}]
      /\ RespectsLocks /\ Keeps /\ ForeignKey' /\ CompletedExactlyOnce'
  BY <1>3, ReportTables
<1>5. \A j \in JobIds : (jobs'[j] = jobs[j] /\ jobs'[j] = None) \/ (j \in Rows /\ jobs'[j] \in Job)
  BY <1>1, <1>2, <1>4 DEF Rows
<1>6. jobs' \in [JobIds -> Job \cup {None}]
  <2>1. jobs' = [j \in JobIds |-> jobs'[j]]
    BY <1>1
  <2> QED BY <1>5, <2>1
<1>7. Rows' = Rows
  BY <1>5, AbsentAssumption DEF Rows
<1>8. updated_at' \in [JobIds -> Instants]
  BY <1>1, <1>2
<1>9. BackendTypeOK'
  BY <1>1, <1>4, <1>6, <1>7, <1>8 DEF BackendInv, BackendTypeOK, Tx
<1>10. LockInv' /\ NextIsOver'
  BY <1>1, <1>4, LocksKept, OccurrencesKept DEF BackendInv
<1> QED BY <1>4, <1>9, <1>10 DEF BackendInv

\* The next occurrence is due at an instant.
LEMMA NextRunAtIsInstant ==
  ASSUME BackendInv, NEW j \in Rows, recurring[j] # None, NEW t, j = Completing(t)
  PROVE  /\ IntervalOf(t) \in Nat /\ NextRunAt(t) \in Instants
         /\ \A d \in Instants : At(d + IntervalOf(t)) \in Instants
<1>1. jobs[j] \in Job /\ jobs[j].run_at \in Instants /\ recurring[j] \in Nat
  BY DEF BackendInv, BackendTypeOK, Rows, Job
<1>2. IntervalOf(t) \in Nat
  BY <1>1, MaxOfTwo DEF IntervalOf
<1>3. \A d \in Instants : d + IntervalOf(t) \in Nat
  BY <1>2, PostgresAssumption DEF Instants
<1>4. \A d \in Instants : At(d + IntervalOf(t)) \in Instants
  BY <1>3, AtIsInstant
<1> QED BY <1>1, <1>2, <1>4 DEF NextRunAt


\* COMMIT of mark_succeeded on a recurring job: its one job is completed and a new row
\* inserted; a job that holds its lease has had no next occurrence yet.
LEMMA ReportRecurringStep ==
  ASSUME BackendInv, NEW w \in Workers, report_recurring(w)
  PROVE  BackendInv' /\ Keeps
<1> DEFINE t == tx[w]
           n == Min(Unused)
           deadline_at(j) == IF jobs[j].deadline_at = None THEN None ELSE At(jobs[j].deadline_at + IntervalOf(t))
           row(j) == QueuedRow(NextRunAt(t), deadline_at(j), None, jobs[j])
<1>1. PICK j : j = Completing(t)
  OBVIOUS
<1>2. /\ Reporting(w) /\ t.pending = {} /\ t.todo = {} /\ Recurs(t)
      /\ ensure_dataset_partition(DatasetOf(NextRunAt(t))) /\ Unused # {}
      /\ jobs' = [jobs EXCEPT ![j] = ReportedJob(t, @), ![n] = row(j)]
      /\ job_attempts' = [a \in AttemptIds |->
           IF a \in t.closing THEN ReportedAttempt(t, job_attempts[a]) ELSE job_attempts[a]]
      /\ recurring' = [recurring EXCEPT ![n] = recurring[j]]
      /\ next_of' = [next_of EXCEPT ![n] = j]
      /\ updated_at' = [updated_at EXCEPT ![j] = t.at]
      /\ tx' = [tx EXCEPT ![w] = None]
      /\ UNCHANGED <<policy_decisions, now, jobs_archive>>
  BY <1>1 DEF report_recurring, Commit
<1>3. /\ jobs \in [JobIds -> Job \cup {None}] /\ updated_at \in [JobIds -> Instants]
      /\ recurring \in [JobIds -> Nat \cup {None}] /\ next_of \in [JobIds -> JobIds \cup {None}]
      /\ jobs_archive \subseteq JobIds \ Rows
      /\ t.at \in Instants /\ t.rows \in SUBSET Rows
  BY <1>2, ReportFields
     DEF BackendInv, BackendTypeOK, Reporting, Open, LockInv, SessionInv, LockedStays, Sessions
<1>4. t.rows = {j} /\ recurring[j] # None /\ t.call = "mark_succeeded"
  <2>1. t.call = "mark_succeeded" /\ \E i \in t.rows : recurring[i] # None
    BY <1>2 DEF Recurs
  <2>2. SessionInv(w)
    BY DEF BackendInv, LockInv, Sessions
  <2>3. \A a, b \in t.closing : a = b
    BY <1>2, <2>1, <2>2 DEF SessionInv, ReportArguments
  <2>4. \A i \in t.rows : \E a \in t.closing : job_attempts[a].job_id = i
    BY <1>2, <2>2 DEF SessionInv, ReportArguments
  <2>5. \A i, k \in t.rows : i = k
    BY <2>3, <2>4
  <2>6. j \in t.rows
    BY <1>1, <2>1, Zenon DEF Completing
  <2> QED BY <2>1, <2>5, <2>6
<1>5. j \in Rows /\ j \in JobIds /\ jobs[j] \in Job /\ jobs[j].status = "running"
  BY <1>2, <1>3, <1>4 DEF Rows, BackendInv, LockInv, SessionInv, ReportPaired, Leased, Sessions
<1>6. n \in JobIds /\ n \notin Rows /\ n \notin jobs_archive
  BY <1>2, UnusedIsNew DEF BackendInv
<1>7. row(j) \in Job /\ NextRunAt(t) \in Instants
  <2>1. /\ NextRunAt(t) \in Instants
        /\ \A d \in Instants : At(d + IntervalOf(t)) \in Instants
    BY <1>1, <1>4, <1>5, NextRunAtIsInstant
  <2>2. deadline_at(j) \in Instants \cup {None}
    BY <1>5, <2>1 DEF Job
  <2> QED BY <1>5, <2>1, <2>2, QueuedRowType
<1> HIDE DEF n, row
<1>8. ReportEffect(w)
  <2>1. \A i \in Rows : jobs'[i] = IF i \in t.rows THEN ReportedJob(t, jobs[i]) ELSE jobs[i]
    BY <1>2, <1>3, <1>4, <1>5, <1>6 DEF Rows
  <2>2. \A i \in Rows \ t.rows : updated_at'[i] = updated_at[i]
    BY <1>2, <1>3, <1>4 DEF Rows
  <2> QED BY <1>2, <2>1, <2>2 DEF ReportEffect
<1>9. /\ job_attempts' \in [AttemptIds -> Attempt \cup {None}]
      /\ \A i \in Rows : jobs'[i] \in Job
      /\ tx' \in [Sessions -> Tx \cup {None}]
      /\ RespectsLocks /\ Keeps /\ ForeignKey' /\ CompletedExactlyOnce'
  BY <1>8, ReportTables
<1>10. jobs'[j].status = "succeeded"
  <2>1. t \in ReportTx
    BY <1>2, ReportFields DEF BackendInv, Sessions
  <2>2. jobs'[j] = ReportedJob(t, jobs[j])
    BY <1>2, <1>3, <1>5, <1>6
  <2> QED BY <1>4, <1>5, <2>1, <2>2, ReportedRow
<1> HIDE DEF t
<1>11. jobs' \in [JobIds -> Job \cup {None}] /\ Rows' = Rows \cup {n}
  <2>1. jobs'[n] = row(j) /\ \A i \in JobIds \ {n} : i \notin Rows => jobs'[i] = None
    BY <1>2, <1>3, <1>5, <1>6 DEF Rows
  <2>2. \A i \in JobIds : IF i \in Rows \cup {n} THEN jobs'[i] \in Job ELSE jobs'[i] = None
    BY <1>7, <1>9, <2>1
  <2>3. jobs' = [i \in JobIds |-> jobs'[i]]
    BY <1>2, <1>3
  <2>4. jobs' \in [JobIds -> Job \cup {None}]
    BY <2>2, <2>3
  <2>5. Rows' = Rows \cup {n}
    BY <1>6, <2>2, AbsentAssumption DEF Rows
  <2> QED BY <2>4, <2>5
<1>12. partitions' \subseteq Datasets
  BY <1>2, <1>7, DatasetOfInstant, PartitionType DEF BackendInv
<1>13. /\ updated_at' \in [JobIds -> Instants] /\ next_of' \in [JobIds -> JobIds \cup {None}]
       /\ recurring' \in [JobIds -> Nat \cup {None}]
  BY <1>2, <1>3, <1>5
<1>14. jobs_archive' \subseteq JobIds \ Rows'
  BY <1>2, <1>3, <1>6, <1>11
<1>15. BackendTypeOK'
  BY <1>2, <1>9, <1>11, <1>12, <1>13, <1>14 DEF BackendInv, BackendTypeOK, Tx
<1>16. LockInv'
  BY <1>9, LocksKept DEF BackendInv
<1>17. NextIsOver'
  <2>1. \A i \in JobIds : next_of'[i] = IF i = n THEN j ELSE next_of[i]
    BY <1>2, <1>3
  <2>2. \A i \in JobIds : next_of[i] # None =>
          next_of[i] \in jobs_archive' \/ (next_of[i] \in Rows' /\ jobs'[next_of[i]].status = "succeeded")
    BY <1>2, <1>9, <1>11 DEF BackendInv, NextIsOver, Keeps
  <2>3. \A i \in JobIds : next_of[i] # j
    BY <1>3, <1>5, PostgresAssumption DEF BackendInv, NextIsOver
  <2>4. \A i, k \in JobIds : next_of'[i] # None /\ next_of'[k] = next_of'[i] => k = i
    BY <2>1, <2>3 DEF BackendInv, NextIsOver
  <2>5. \A i \in JobIds : next_of'[i] # None =>
          next_of'[i] \in jobs_archive' \/ (next_of'[i] \in Rows' /\ jobs'[next_of'[i]].status = "succeeded")
    BY <1>5, <1>10, <1>11, <2>1, <2>2
  <2> QED BY <2>4, <2>5 DEF NextIsOver
<1> QED BY <1>9, <1>15, <1>16, <1>17 DEF BackendInv

----------------------------------------------------------------------------
(* Every step                                                               *)

\* A step that writes no table loses nothing.
LEMMA TablesKeptKeeps ==
  ASSUME TablesKept
  PROVE  Keeps
  BY DEF TablesKept, backendVars, Keeps, Rows

\* A report begins with attempts that the worker was given.
LEMMA ReportStep ==
  ASSUME BackendInv, NEW w \in Workers, Report(w)
  PROVE  BackendInv' /\ Keeps
<1> USE DEF Calls
<1>1. ASSUME NEW call, NEW A, NEW run_at, NEW reason, report_begin(w, call, A, run_at, reason) PROVE Keeps
  BY <1>1, TablesKeptKeeps DEF report_begin, TablesKept, tables
<1>2. CASE \E a \in AttemptsGivenTo(w) : report_begin(w, "mark_succeeded", {a}, None, None)
  <2>1. PICK a \in AttemptsGivenTo(w) : report_begin(w, "mark_succeeded", {a}, None, None)
    BY <1>2
  <2>2. {a} \in SUBSET AttemptsGivenTo(w) /\ \E b \in {a} : {a} = {b}
    OBVIOUS
  <2> QED BY <1>1, <2>1, <2>2, ReportBeginStep
<1>3. CASE \E a \in AttemptsGivenTo(w), d \in RetryDelays :
             report_begin(w, "reschedule_for_retry", {a}, At(now + d), None)
  <2>1. PICK a \in AttemptsGivenTo(w), d \in RetryDelays :
          report_begin(w, "reschedule_for_retry", {a}, At(now + d), None)
    BY <1>3
  <2>2. now + d \in Nat
    BY PostgresAssumption, BackendAssumption DEF BackendInv, BackendTypeOK, Instants
  <2>3. At(now + d) \in Instants /\ {a} \in SUBSET AttemptsGivenTo(w)
    BY <2>2, AtIsInstant
  <2> QED BY <1>1, <2>1, <2>3, ReportBeginStep
<1>4. CASE \E a \in AttemptsGivenTo(w), r \in DlqReasons : report_begin(w, "mark_dlq", {a}, None, r)
  <2>1. PICK a \in AttemptsGivenTo(w), r \in DlqReasons : report_begin(w, "mark_dlq", {a}, None, r)
    BY <1>4
  <2>2. r \in ReasonCodes \cup {None} /\ {a} \in SUBSET AttemptsGivenTo(w)
    BY BackendAssumption
  <2> QED BY <1>1, <2>1, <2>2, ReportBeginStep
<1>5. CASE \E A \in SUBSET AttemptsGivenTo(w) : report_begin(w, "mark_succeeded_batch", A, None, None)
  <2>1. PICK A \in SUBSET AttemptsGivenTo(w) : report_begin(w, "mark_succeeded_batch", A, None, None)
    BY <1>5
  <2> QED BY <1>1, <2>1, ReportBeginStep
<1> QED BY <1>2, <1>3, <1>4, <1>5 DEF Report

\* What a worker calls.
LEMMA WorkerCallStep ==
  ASSUME BackendInv, NEW w \in Workers, WorkerCall(w)
  PROVE  BackendInv' /\ Keeps
<1>1. CASE \E k \in BatchSizes : lease_jobs_batch(w, k)
  BY <1>1, LeaseStep, PlainStepKeepsInv DEF PlainStep
<1>2. CASE \E j \in JobIds : extend_lease(j, w)
  BY <1>2, ExtendStep, PlainStepKeepsInv DEF PlainStep
<1>3. CASE \E S \in SUBSET {j \in JobIds : Leased(j, w)} : S # {} /\ start_attempts_batch(S, w)
  BY <1>3, StartStep, PlainStepKeepsInv DEF PlainStep
<1>4. CASE Report(w)
  BY <1>4, ReportStep
<1> QED BY <1>1, <1>2, <1>3, <1>4 DEF WorkerCall

\* The next statement of a report.
LEMMA WorkerStepKeepsInv ==
  ASSUME BackendInv, NEW w \in Workers, WorkerStep(w)
  PROVE  BackendInv' /\ Keeps
<1>1. CASE report_attempt(w)
  BY <1>1, ReportAttemptStep, TablesKeptKeeps DEF report_attempt, TablesKept, tables
<1>2. CASE report_job(w)
  BY <1>2, ReportJobStep, TablesKeptKeeps DEF report_job, TablesKept, tables
<1>3. CASE report_commit(w)
  BY <1>3, ReportCommitStep
<1>4. CASE report_recurring(w)
  BY <1>4, ReportRecurringStep
<1>5. CASE report_recurring_fails(w)
  <2>1. TablesKept /\ Rollback(w) /\ w \in Sessions
    BY <1>5 DEF report_recurring_fails, TablesKept, tables, Sessions
  <2> QED BY <2>1, RollbackStep, TablesKeptKeeps
<1> QED BY <1>1, <1>2, <1>3, <1>4, <1>5 DEF WorkerStep

\* The reaper and the maintenance.
LEMMA ClientCallStep ==
  ASSUME BackendInv, NEW c \in Clients, ClientCall(c)
  PROVE  BackendInv' /\ Keeps
<1>1. CASE reap_select(c)
  BY <1>1, ReapSelectStep, TablesKeptKeeps DEF reap_select, TablesKept, tables
<1>2. CASE \E cutoff \in Cutoffs, k \in BatchSizes : archive_begin(c, cutoff, k)
  BY <1>2, ArchiveBeginStep, TablesKeptKeeps DEF archive_begin, TablesKept, tables
<1>3. CASE \E cutoff \in Cutoffs, k \in BatchSizes : delete_history(c, cutoff, k)
  BY <1>3, DeleteHistoryStep, PlainStepKeepsInv DEF PlainStep
<1> QED BY <1>1, <1>2, <1>3 DEF ClientCall

\* Their next statements.
LEMMA ClientStepKeepsInv ==
  ASSUME BackendInv, NEW c \in Clients, ClientStep(c)
  PROVE  BackendInv' /\ Keeps
<1>1. CASE reap_attempts(c)
  BY <1>1, ReapAttemptsStep, TablesKeptKeeps DEF reap_attempts, TablesKept, tables
<1>2. CASE Reaping(c, TRUE) /\ reap_commit(c) /\ UNCHANGED backendVars
  BY <1>2, ReapStep, PlainStepKeepsInv DEF PlainStep
<1>3. CASE archive_commit(c)
  BY <1>3, ArchiveStep, PlainStepKeepsInv DEF PlainStep
<1> QED BY <1>1, <1>2, <1>3 DEF ClientStep

\* The invariant is inductive, and every step keeps or archives the rows.
LEMMA BackendStep ==
  ASSUME BackendInv, [BackendNext]_all
  PROVE  BackendInv' /\ Keeps
<1>1. CASE \E w \in Workers : WorkerCall(w) \/ WorkerStep(w)
  BY <1>1, WorkerCallStep, WorkerStepKeepsInv
<1>2. CASE \E c \in Clients : ClientCall(c) \/ ClientStep(c)
  BY <1>2, ClientCallStep, ClientStepKeepsInv
<1>3. CASE \E new \in NewJobs, i \in Intervals : enqueue_job(new, i)
  BY <1>3, EnqueueStep, PlainStepKeepsInv DEF PlainStep
<1>4. CASE \E j \in JobIds : replay_job(j, now)
  BY <1>4, ReplayStep, PlainStepKeepsInv DEF PlainStep
<1>5. CASE \E s \in Sessions : deadlock_abort(s) \/ Disconnect(s)
  BY <1>5, RollbackStep, TablesKeptKeeps DEF deadlock_abort, Disconnect, TablesKept, tables
<1>6. CASE (Tick /\ UNCHANGED backendVars) \/ UNCHANGED all
  BY <1>6, ClockStep, PlainStepKeepsInv DEF PlainStep
<1> QED BY <1>1, <1>2, <1>3, <1>4, <1>5, <1>6 DEF BackendNext

\* It holds of the empty tables.
LEMMA BackendInitInv ==
  ASSUME BackendInit
  PROVE  BackendInv
<1>1. /\ jobs = [j \in JobIds |-> None] /\ job_attempts = [a \in AttemptIds |-> None]
      /\ policy_decisions = {} /\ tx = [s \in Sessions |-> None] /\ now = 0
      /\ recurring = [j \in JobIds |-> None] /\ next_of = [j \in JobIds |-> None]
      /\ updated_at = [j \in JobIds |-> 0] /\ jobs_archive = {} /\ partitions \in {{}, {0, 1} \cap Datasets}
  BY DEF BackendInit, PgInit
<1>2. Rows = {} /\ Recorded = {} /\ \A s \in Sessions : tx[s] = None
  BY <1>1 DEF Rows, Recorded
<1>3. 0 \in Instants /\ partitions \subseteq Datasets
  BY <1>1, PostgresAssumption DEF Instants
<1>4. BackendTypeOK
  BY <1>1, <1>3 DEF BackendTypeOK
<1>5. LockInv
  BY <1>2 DEF LockInv, LocksExclusive, SessionInv, LockedStays, ReportPaired, ReportArguments, PendingIsOne,
             ArchiveIsOld, Open, Reporting, Archiving
<1>6. ForeignKey /\ CompletedExactlyOnce /\ NextIsOver
  BY <1>1, <1>2 DEF ForeignKey, CompletedExactlyOnce, NextIsOver
<1> QED BY <1>4, <1>5, <1>6 DEF BackendInv

----------------------------------------------------------------------------
(* Theorems                                                                 *)

\* The invariant of the locks, of whoever reports, reaps and archives.
THEOREM LocksAreRespected == BackendSpec => []BackendInv
<1>1. BackendInit => BackendInv
  BY BackendInitInv
<1>2. BackendInv /\ [BackendNext]_all => BackendInv'
  BY BackendStep
<1> QED BY <1>1, <1>2, PTL DEF BackendSpec

\* The tables and the open transactions have their types: every row that is written is
\* a row of its table, whoever wrote it.
THEOREM BackendTypeCorrect == BackendSpec => []BackendTypeOK
<1>1. BackendInv => BackendTypeOK
  BY DEF BackendInv
<1> QED BY <1>1, LocksAreRespected, PTL

\* mark_succeeded and mark_succeeded_batch complete a job once: however late or often
\* workers report and whenever they are reaped, no second attempt of a job succeeds, and
\* the job stays succeeded.
THEOREM JobsCompleteOnce == BackendSpec => []CompletedExactlyOnce
<1>1. BackendInv => CompletedExactlyOnce
  BY DEF BackendInv
<1> QED BY <1>1, LocksAreRespected, PTL

\* A recurring job brings one next occurrence, and only when it is completed.
THEOREM OneNextOccurrence == BackendSpec => []NextOccurrenceOnce
<1>1. BackendInv => NextOccurrenceOnce
  BY DEF BackendInv, NextIsOver, NextOccurrenceOnce
<1> QED BY <1>1, LocksAreRespected, PTL

\* archive_succeeded_older_than deletes nothing but succeeded work that the archive has,
\* and no other step deletes a row.
THEOREM NothingIsLost == BackendSpec => KeptOrArchived
<1> DEFINE Kept == /\ jobs_archive \subseteq jobs_archive'
                   /\ \A j \in Rows : jobs'[j] # None \/ (jobs[j].status = "succeeded" /\ j \in jobs_archive')
<1>1. BackendInv /\ [BackendNext]_all => [Kept]_all
  BY BackendStep DEF Keeps
<1> QED BY <1>1, LocksAreRespected, PTL DEF BackendSpec, KeptOrArchived
=============================================================================
