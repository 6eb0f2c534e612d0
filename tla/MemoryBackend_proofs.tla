--------------------------- MODULE MemoryBackend_proofs ---------------------------
(***************************************************************************)
(* Theorems about MemoryBackend, for every set of jobs, queues, workers    *)
(* and inputs and every horizon: who holds a lease, that a job completes   *)
(* once, that keys are unique and attempts are numbered in order, that the *)
(* backend implements JobContract, and that leases follow the index.  Then *)
(* about QuickstartFlow on top of it, for every set of flows: that it is   *)
(* one of the clients, that handlers fail within the budget of their job,  *)
(* and that leases fence attempts.                                         *)
(***************************************************************************)
EXTENDS QuickstartFlow, FiniteSetTheorems, TLAPS

----------------------------------------------------------------------------
(* What the helpers return                                                  *)

\* An instant after the horizon is the horizon (At).
LEMMA AtType == \A t \in Nat : At(t) \in Instants
  BY HorizonAssumption DEF At, Instants

\* A job enters the maps queued and unlocked, with the fields it was given
\* (FreshJob, from enqueue, replay_job and the recurrence of mark_succeeded).
LEMMA FreshJobType ==
  ASSUME now \in Instants,
         NEW nj, NEW r \in JobIds \cup {None}, NEW k \in Keys \cup {None},
         nj.queue \in Queues, nj.priority \in Int, nj.run_at \in Instants,
         nj.deadline_at \in Instants \cup {None},
         nj.recurring_interval_seconds \in Nat \cup {None}, nj.max_attempts \in Int
  PROVE  /\ FreshJob(nj, r, k) \in Job
         /\ FreshJob(nj, r, k).status = "queued"
         /\ FreshJob(nj, r, k).queue = nj.queue
         /\ FreshJob(nj, r, k).idempotency_key = k
         /\ FreshJob(nj, r, k).locked_by = None
         /\ FreshJob(nj, r, k).lock_expires_at = None
         /\ FreshJob(nj, r, k).dlq_reason_code = None
  BY DEF FreshJob, Job, JobStatus

\* A job with another status is a job.
LEMMA StatusType ==
  ASSUME NEW job \in Job, NEW s \in JobStatus
  PROVE  [job EXCEPT !.status = s] \in Job
  BY DEF Job

\* Releasing a lease clears the lock and keeps the rest (Unlocked, from every
\* operation that ends a lease).
LEMMA UnlockedType ==
  ASSUME now \in Instants, NEW job \in Job
  PROVE  /\ Unlocked(job) \in Job
         /\ \A s \in JobStatus : [Unlocked(job) EXCEPT !.status = s] \in Job
<1>1. Unlocked(job) \in Job
  BY DEF Unlocked, Job
<1> QED BY <1>1, StatusType

\* A job that is leased, and one whose deadline has passed (Leased, PastDeadline).
LEMMA LeasedType ==
  ASSUME now \in Instants, NEW job \in Job, NEW w \in Workers
  PROVE  Leased(job, w) \in Job /\ PastDeadline(job) \in Job
<1>1. At(now + LeaseSeconds) \in Instants
  BY AtType, LeaseAssumption, HorizonAssumption DEF Instants
<1>2. Leased(job, w) \in Job
  BY <1>1 DEF Leased, Job, JobStatus
<1>3. PastDeadline(job) \in Job
  BY DEF PastDeadline, Job, JobStatus
<1> QED BY <1>2, <1>3

\* The index entry of a job (EntryOf).
LEMMA EntryType ==
  ASSUME NEW j \in JobIds, NEW job \in Job
  PROVE  EntryOf(j, job) \in QueueEntry
  BY DEF EntryOf, QueueEntry, Job

\* The next occurrence of a recurring job is a job (NextOccurrence).
LEMMA NextOccurrenceType ==
  ASSUME TypeOK, NEW j \in JobIds, jobs[j] # None, jobs[j].recurring_interval_seconds # None
  PROVE  /\ NextOccurrence(j) \in Job
         /\ NextOccurrence(j).status = "queued"
         /\ NextOccurrence(j).queue = jobs[j].queue
         /\ NextOccurrence(j).idempotency_key = None
         /\ NextOccurrence(j).locked_by = None
         /\ NextOccurrence(j).lock_expires_at = None
         /\ NextOccurrence(j).dlq_reason_code = None
<1> DEFINE job == jobs[j]
           interval == job.recurring_interval_seconds
           shifted == [job EXCEPT
             !.run_at = At(@ + interval),
             !.deadline_at = IF @ = None THEN None ELSE At(@ + interval)]
<1>1. job \in Job
  BY DEF TypeOK
<1>2. interval \in Nat /\ job.run_at \in Nat
  BY <1>1, HorizonAssumption DEF Job, Instants
<1>3. At(job.run_at + interval) \in Instants
  BY <1>2, AtType
<1>4. job.deadline_at # None => At(job.deadline_at + interval) \in Instants
  <2>1. job.deadline_at # None => job.deadline_at \in Nat
    BY <1>1, HorizonAssumption DEF Job, Instants
  <2> QED BY <2>1, <1>2, AtType
<1>5. /\ shifted.queue = job.queue
      /\ shifted.queue \in Queues
      /\ shifted.priority \in Int
      /\ shifted.run_at \in Instants
      /\ shifted.deadline_at \in Instants \cup {None}
      /\ shifted.recurring_interval_seconds \in Nat \cup {None}
      /\ shifted.max_attempts \in Int
  BY <1>1, <1>3, <1>4 DEF Job
<1>6. now \in Instants
  BY DEF TypeOK
<1>7. NextOccurrence(j) = FreshJob(shifted, j, None)
  BY DEF NextOccurrence
<1> HIDE DEF shifted, job
<1> QED BY <1>5, <1>6, <1>7, FreshJobType DEF job

\* The step puts `job`, queued work that nobody holds, into the maps as id.
Inserted(id, job) ==
  /\ job.status = "queued" /\ job.locked_by = None
  /\ job.lock_expires_at = None /\ job.dlq_reason_code = None
  /\ jobs' = [jobs EXCEPT ![id] = job]
  /\ queued_jobs' = Indexed(queued_jobs, job.queue, EntryOf(id, job))
  /\ UNCHANGED <<now, archive, attempts, attempt_counts, last_attempt>>

\* enqueue inserts a job with the key it was given.
LEMMA EnqueueInserts ==
  ASSUME TypeOK, NEW nj \in NewJobs, NEW id \in Unused, enqueue(nj, id)
  PROVE  \E job \in Job : Inserted(id, job) /\ job.idempotency_key = nj.idempotency_key
<1> DEFINE job == FreshJob(nj, None, nj.idempotency_key)
<1>1. /\ nj.queue \in Queues /\ nj.idempotency_key \in Keys \cup {None}
      /\ nj.priority \in Int /\ nj.run_at \in Instants
      /\ nj.deadline_at \in Instants \cup {None}
      /\ nj.recurring_interval_seconds \in Nat \cup {None} /\ nj.max_attempts \in Int
  BY InputsAssumption DEF NewJobType
<1>2. now \in Instants /\ None \in JobIds \cup {None}
  BY DEF TypeOK
<1>3. /\ job \in Job /\ job.status = "queued" /\ job.queue = nj.queue
      /\ job.idempotency_key = nj.idempotency_key /\ job.locked_by = None
      /\ job.lock_expires_at = None /\ job.dlq_reason_code = None
  BY <1>1, <1>2, FreshJobType
<1>4. /\ jobs' = [jobs EXCEPT ![id] = job]
      /\ queued_jobs' = Indexed(queued_jobs, nj.queue, EntryOf(id, job))
      /\ UNCHANGED <<now, archive, attempts, attempt_counts, last_attempt>>
  BY DEF enqueue
<1> HIDE DEF job
<1> QED BY <1>3, <1>4 DEF Inserted

\* replay_job inserts a job without a key.
LEMMA ReplayInserts ==
  ASSUME TypeOK, NEW src \in JobIds, NEW id \in Unused, NEW q \in Queues, NEW runAt \in Instants,
         replay_job(src, id, q, runAt)
  PROVE  \E job \in Job : Inserted(id, job) /\ job.idempotency_key = None
<1> DEFINE source == IF jobs[src] # None THEN jobs[src] ELSE archive[src]
           given == [source EXCEPT !.queue = q, !.run_at = runAt]
           job == FreshJob(given, src, None)
<1>1. source \in Job
  BY DEF replay_job, Unused, TypeOK
<1>2. /\ jobs' = [jobs EXCEPT ![id] = job]
      /\ queued_jobs' = Indexed(queued_jobs, q, EntryOf(id, job))
      /\ UNCHANGED <<now, archive, attempts, attempt_counts, last_attempt>>
  BY DEF replay_job
<1> HIDE DEF source
<1>3. /\ given.queue = q /\ given.priority \in Int /\ given.run_at \in Instants
      /\ given.deadline_at \in Instants \cup {None}
      /\ given.recurring_interval_seconds \in Nat \cup {None} /\ given.max_attempts \in Int
  BY <1>1 DEF Job
<1> HIDE DEF given
<1>4. now \in Instants
  BY DEF TypeOK
<1>5. /\ job \in Job /\ job.status = "queued" /\ job.queue = q
      /\ job.idempotency_key = None /\ job.locked_by = None
      /\ job.lock_expires_at = None /\ job.dlq_reason_code = None
  BY <1>3, <1>4, FreshJobType
<1> HIDE DEF job
<1> QED BY <1>2, <1>5 DEF Inserted

\* An inserted job keeps the types.
LEMMA InsertedType ==
  ASSUME TypeOK, NEW id \in Unused, NEW job \in Job, Inserted(id, job)
  PROVE  TypeOK'
<1>1. EntryOf(id, job) \in QueueEntry /\ job.queue \in Queues
  BY EntryType DEF Unused, Job
<1> QED BY <1>1 DEF TypeOK, Inserted, Indexed, Unused

----------------------------------------------------------------------------
(* Type correctness                                                         *)

\* What finishing an attempt leaves in `attempts` (CloseAttempt).
LEMMA CloseAttemptType ==
  ASSUME TypeOK, NEW a \in AttemptIds, NEW j, OpenAttempt(a, j),
         NEW s \in {"succeeded", "failed"}, NEW c \in ErrorCodes \cup {None}, CloseAttempt(a, s, c)
  PROVE  attempts' \in [AttemptIds -> Attempt \cup {None}]
<1>1. attempts[a] \in Attempt
  BY DEF TypeOK, OpenAttempt
<1>2. [attempts[a] EXCEPT !.status = s, !.error_code = c] \in Attempt
  BY <1>1 DEF Attempt
<1>3. attempts' = [attempts EXCEPT ![a] = [@ EXCEPT !.status = s, !.error_code = c]]
  BY <1>1 DEF CloseAttempt, Attempt
<1> QED BY <1>2, <1>3 DEF TypeOK

\* Every operation keeps the types.
LEMMA TypeOKInductive == TypeOK /\ [Next]_vars => TypeOK'
<1> SUFFICES ASSUME TypeOK, [Next]_vars PROVE TypeOK'
  OBVIOUS
<1> USE DEF TypeOK
<1>1. ASSUME Tick PROVE TypeOK'
  BY <1>1, HorizonAssumption DEF Tick, Instants
<1>2. ASSUME NEW nj \in NewJobs, NEW id \in Unused, enqueue(nj, id) PROVE TypeOK'
  BY <1>2, EnqueueInserts, InsertedType
<1>3. ASSUME NEW src \in JobIds, NEW id \in Unused, NEW q \in Queues, NEW t \in ReplayTimes,
             replay_job(src, id, q, IF t = None THEN now ELSE t)
      PROVE  TypeOK'
  <2>1. (IF t = None THEN now ELSE t) \in Instants
    BY InputsAssumption
  <2> HIDE DEF TypeOK
  <2> QED BY <1>3, <2>1, ReplayInserts, InsertedType
<1>4. ASSUME NEW j \in JobIds, cancel_queued_job(j) PROVE TypeOK'
  <2>1. [Unlocked(jobs[j]) EXCEPT !.status = "canceled"] \in Job
    BY <1>4, UnlockedType DEF cancel_queued_job, JobStatus
  <2>2. jobs[j].queue \in Queues
    BY <1>4 DEF cancel_queued_job, Job
  <2> QED BY <1>4, <2>1, <2>2 DEF cancel_queued_job
<1>5. ASSUME NEW w \in Workers, NEW q \in Queues, NEW n \in BatchSizes, lease_jobs_batch(q, w, n)
      PROVE  TypeOK'
  <2>1. \A j \in Live : Leased(jobs[j], w) \in Job /\ PastDeadline(jobs[j]) \in Job
    BY LeasedType DEF Live
  <2>2. \A j \in Ids(ExpiredDeadlines(q)) : j \in Live
    BY DEF Ids, ExpiredDeadlines, Live, QueueEntry
  <2>3. jobs' \in [JobIds -> Job \cup {None}]
    BY <1>5, <2>1, <2>2 DEF lease_jobs_batch
  <2>4. queued_jobs' \in [Queues -> SUBSET QueueEntry]
    BY <1>5 DEF lease_jobs_batch
  <2> QED BY <1>5, <2>3, <2>4 DEF lease_jobs_batch
<1>6. ASSUME NEW w \in Workers, NEW js \in Batches, start_attempts_batch(js, w) PROVE TypeOK'
  <2> PICK n \in 0 .. Len(js) :
        /\ Reaches(js, w, n)
        /\ last_attempt + n <= MaxAttemptId
        /\ attempts' = [a \in AttemptIds |->
             IF a \in last_attempt + 1 .. last_attempt + n
             THEN [job_id |-> js[a - last_attempt], attempt_no |-> NextNo(js[a - last_attempt]),
                   status |-> "running", worker_id |-> w, started_at |-> now, error_code |-> None]
             ELSE attempts[a]]
        /\ attempt_counts' = [j \in JobIds |->
             IF \E i \in 1 .. n : js[i] = j THEN NextNo(j) ELSE attempt_counts[j]]
        /\ last_attempt' = last_attempt + n
        /\ UNCHANGED <<now, jobs, queued_jobs, archive>>
    BY <1>6 DEF start_attempts_batch
  <2>1. \A i \in 1 .. n : js[i] \in JobIds
    BY DEF Batches
  <2>2. \A j \in JobIds : NextNo(j) \in Nat
    BY DEF NextNo
  <2>3. n \in Nat /\ last_attempt \in Nat /\ last_attempt' \in 0 .. MaxAttemptId
    BY AttemptsAssumption DEF Batches
  <2>4. ASSUME NEW a \in AttemptIds, a \in last_attempt + 1 .. last_attempt + n
        PROVE  [job_id |-> js[a - last_attempt], attempt_no |-> NextNo(js[a - last_attempt]),
                status |-> "running", worker_id |-> w, started_at |-> now, error_code |-> None] \in Attempt
    <3>1. a - last_attempt \in 1 .. n
      BY <2>3, <2>4
    <3> QED BY <3>1, <2>1, <2>2 DEF Attempt
  <2>5. attempts' \in [AttemptIds -> Attempt \cup {None}]
    BY <2>4
  <2>6. attempt_counts' \in [JobIds -> Nat]
    BY <2>2
  <2> QED BY <2>3, <2>5, <2>6
<1>7. ASSUME NEW w \in Workers, NEW j \in JobIds, extend_lease(j, w) PROVE TypeOK'
  <2>1. At(now + LeaseSeconds) \in Instants
    BY AtType, LeaseAssumption, HorizonAssumption DEF Instants
  <2>2. jobs[j] \in Job
    BY <1>7 DEF extend_lease, HoldsLease
  <2>3. [jobs[j] EXCEPT !.lock_expires_at = At(now + LeaseSeconds), !.updated_at = now] \in Job
    BY <2>1, <2>2 DEF Job
  <2>4. jobs' = [jobs EXCEPT ![j] = [@ EXCEPT !.lock_expires_at = At(now + LeaseSeconds), !.updated_at = now]]
    BY <1>7, <2>2 DEF extend_lease, Job
  <2> QED BY <1>7, <2>3, <2>4 DEF extend_lease
<1>8. ASSUME NEW w \in Workers, NEW j \in JobIds, cancel_running_job(j, w) PROVE TypeOK'
  <2>1. [Unlocked(jobs[j]) EXCEPT !.status = "canceled"] \in Job
    BY <1>8, UnlockedType DEF cancel_running_job, HoldsLease, JobStatus
  <2>2. \A a \in AttemptIds : LatestOpen(a, j) =>
          [attempts[a] EXCEPT !.status = "failed", !.error_code = "CANCELLED"] \in Attempt
    BY DEF LatestOpen, OpenAttempt, Attempt, ErrorCodes
  <2>3. attempts' \in [AttemptIds -> Attempt \cup {None}]
    BY <1>8, <2>2 DEF cancel_running_job
  <2> QED BY <1>8, <2>1, <2>3 DEF cancel_running_job
<1>9. ASSUME NEW w \in Workers, NEW j \in JobIds, NEW a \in AttemptIds, mark_succeeded_once(j, a, w)
      PROVE  TypeOK'
  <2>1. [Unlocked(jobs[j]) EXCEPT !.status = "succeeded"] \in Job
    BY <1>9, UnlockedType DEF mark_succeeded_once, HoldsLease, JobStatus
  <2>2. attempts' \in [AttemptIds -> Attempt \cup {None}]
    BY <1>9, CloseAttemptType DEF mark_succeeded_once
  <2> QED BY <1>9, <2>1, <2>2 DEF mark_succeeded_once
<1>10. ASSUME NEW w \in Workers, NEW j \in JobIds, NEW a \in AttemptIds, NEW id \in Unused,
              mark_succeeded_recurring(j, a, w, id)
       PROVE  TypeOK'
  <2>1. [Unlocked(jobs[j]) EXCEPT !.status = "succeeded"] \in Job
    BY <1>10, UnlockedType DEF mark_succeeded_recurring, HoldsLease, JobStatus
  <2>2. attempts' \in [AttemptIds -> Attempt \cup {None}]
    BY <1>10, CloseAttemptType DEF mark_succeeded_recurring
  <2>3. NextOccurrence(j) \in Job
    BY <1>10, NextOccurrenceType DEF mark_succeeded_recurring, HoldsLease
  <2>4. NextOccurrence(j).queue \in Queues /\ EntryOf(id, NextOccurrence(j)) \in QueueEntry
    BY <2>3, EntryType DEF Job, Unused
  <2> QED BY <1>10, <2>1, <2>2, <2>3, <2>4 DEF mark_succeeded_recurring, Indexed, Unused
<1>11. ASSUME NEW w \in Workers, NEW j \in JobIds, NEW a \in AttemptIds, NEW d \in RetryDelays,
              reschedule_for_retry(j, a, w, At(now + d))
       PROVE  TypeOK'
  <2> DEFINE job == [Unlocked(jobs[j]) EXCEPT !.status = "queued", !.run_at = At(now + d)]
  <2>1. At(now + d) \in Instants
    BY AtType, InputsAssumption, HorizonAssumption DEF Instants
  <2>2. Unlocked(jobs[j]) \in Job
    BY <1>11, UnlockedType DEF reschedule_for_retry, HoldsLease
  <2>3. job \in Job
    BY <2>1, <2>2 DEF Job, JobStatus
  <2>4. job.queue \in Queues /\ EntryOf(j, job) \in QueueEntry
    BY <2>3, EntryType DEF Job
  <2>5. attempts' \in [AttemptIds -> Attempt \cup {None}]
    BY <1>11, CloseAttemptType DEF reschedule_for_retry, ErrorCodes
  <2>6. /\ jobs' = [jobs EXCEPT ![j] = job]
        /\ queued_jobs' = Indexed(queued_jobs, job.queue, EntryOf(j, job))
    BY <1>11 DEF reschedule_for_retry
  <2>7. UNCHANGED <<now, archive, attempt_counts, last_attempt>>
    BY <1>11 DEF reschedule_for_retry
  <2> HIDE DEF job
  <2> QED BY <2>3, <2>4, <2>5, <2>6, <2>7 DEF Indexed
<1>12. ASSUME NEW w \in Workers, NEW j \in JobIds, NEW a \in AttemptIds, NEW reason \in DlqReasons,
              mark_dlq(j, a, w, reason)
       PROVE  TypeOK'
  <2>1. Unlocked(jobs[j]) \in Job
    BY <1>12, UnlockedType DEF mark_dlq, HoldsLease
  <2>2. [Unlocked(jobs[j]) EXCEPT !.status = "dlq", !.dlq_reason_code = reason] \in Job
    BY <2>1 DEF Job, JobStatus
  <2>3. attempts' \in [AttemptIds -> Attempt \cup {None}]
    BY <1>12, CloseAttemptType DEF mark_dlq, ErrorCodes
  <2> QED BY <1>12, <2>2, <2>3 DEF mark_dlq
<1>13. ASSUME reap_expired_locks PROVE TypeOK'
  <2>1. \A j \in ExpiredLocks : j \in JobIds /\ jobs[j] \in Job
    BY DEF ExpiredLocks, Live
  <2>2. \A j \in ExpiredLocks : [Unlocked(jobs[j]) EXCEPT !.status = "queued"] \in Job
    BY <2>1, UnlockedType DEF JobStatus
  <2>3. \A j \in ExpiredLocks : EntryOf(j, jobs[j]) \in QueueEntry
    BY <2>1, EntryType
  <2>4. \A a \in AttemptIds : (\E j \in ExpiredLocks : OpenAttempt(a, j)) =>
          [attempts[a] EXCEPT !.status = "failed", !.error_code = "LEASE_EXPIRED"] \in Attempt
    BY DEF OpenAttempt, Attempt, ErrorCodes
  <2>5. attempts' \in [AttemptIds -> Attempt \cup {None}]
    BY <1>13, <2>4 DEF reap_expired_locks
  <2>6. jobs' \in [JobIds -> Job \cup {None}]
    BY <1>13, <2>2 DEF reap_expired_locks
  <2>7. \A q \in Queues :
          {EntryOf(j, jobs[j]) : j \in {i \in ExpiredLocks : jobs[i].queue = q}} \subseteq QueueEntry
    BY <2>3
  <2>8. queued_jobs' \in [Queues -> SUBSET QueueEntry]
    BY <1>13, <2>7 DEF reap_expired_locks
  <2> QED BY <1>13, <2>5, <2>6, <2>8 DEF reap_expired_locks
<1>14. ASSUME NEW cutoff \in Cutoffs, NEW limit \in BatchSizes,
              archive_succeeded_older_than(cutoff, limit)
       PROVE  TypeOK'
  BY <1>14 DEF archive_succeeded_older_than
<1>15. ASSUME NEW cutoff \in Cutoffs, NEW limit \in BatchSizes,
              delete_history_for_succeeded_older_than(cutoff, limit)
       PROVE  TypeOK'
  BY <1>15 DEF delete_history_for_succeeded_older_than
<1>16. CASE UNCHANGED vars
  BY <1>16 DEF vars
<1> QED
  BY <1>1, <1>2, <1>3, <1>4, <1>5, <1>6, <1>7, <1>8, <1>9, <1>10, <1>11, <1>12, <1>13, <1>14,
     <1>15, <1>16 DEF Next, Produce, Work, Archive

\* Every variable of the backend keeps its type, whatever the clients call
\* (InnerState).
THEOREM TypeCorrect == Spec => []TypeOK
<1>1. Init => TypeOK
  BY HorizonAssumption, AttemptsAssumption DEF Init, TypeOK, Instants
<1> QED BY <1>1, TypeOKInductive, PTL DEF Spec

----------------------------------------------------------------------------
(* The index and the evidence of a status                                   *)

\* What ends a lease writes (Unlocked).
LEMMA UnlockedFields ==
  ASSUME NEW job \in Job, NEW s
  PROVE  LET new == [Unlocked(job) EXCEPT !.status = s]
         IN  /\ new.status = s
             /\ new.locked_by = None
             /\ new.lock_expires_at = None
             /\ new.dlq_reason_code = job.dlq_reason_code
             /\ new.queue = job.queue
             /\ new.idempotency_key = job.idempotency_key
             /\ new.max_attempts = job.max_attempts
             /\ new.recurring_interval_seconds = job.recurring_interval_seconds
             /\ \A j : EntryOf(j, new) = EntryOf(j, job)
  BY DEF Unlocked, Job, EntryOf

\* What a lease writes to the jobs it takes and to the ones it finds too late.
LEMMA LeasedFields ==
  ASSUME NEW job \in Job, NEW w
  PROVE  /\ Leased(job, w).status = "running"
         /\ Leased(job, w).locked_by = w
         /\ Leased(job, w).lock_expires_at = At(now + LeaseSeconds)
         /\ Leased(job, w).dlq_reason_code = job.dlq_reason_code
         /\ Leased(job, w).idempotency_key = job.idempotency_key
         /\ Leased(job, w).max_attempts = job.max_attempts
         /\ PastDeadline(job).status = "dlq"
         /\ PastDeadline(job).locked_by = job.locked_by
         /\ PastDeadline(job).lock_expires_at = job.lock_expires_at
         /\ PastDeadline(job).dlq_reason_code = "DEADLINE_EXCEEDED"
         /\ PastDeadline(job).idempotency_key = job.idempotency_key
         /\ PastDeadline(job).max_attempts = job.max_attempts
  BY DEF Leased, PastDeadline, Job

\* An entry names its job.
LEMMA EntryNamesJob == \A j, job : EntryOf(j, job).id = j
  BY DEF EntryOf

\* In the map J, j is queued work of q.
Waiting(J, j, q) == J[j] # None /\ J[j].status = "queued" /\ J[j].queue = q

\* The index X holds the queued work of the map J, entry by entry.
Indexes(X, J) ==
  \A q \in Queues : \A e : e \in X[q] <=> \E j \in JobIds : Waiting(J, j, q) /\ e = EntryOf(j, J[j])

\* Indexes is IndexMatchesStatus, for any index and any map.
LEMMA IndexEntries ==
  ASSUME NEW X, NEW J
  PROVE  Indexes(X, J) <=> \A q \in Queues :
           X[q] = {EntryOf(j, J[j]) :
                     j \in {i \in {k \in JobIds : J[k] # None} : J[i].status = "queued" /\ J[i].queue = q}}
<1>1. \A q : {i \in {k \in JobIds : J[k] # None} : J[i].status = "queued" /\ J[i].queue = q}
             = {i \in JobIds : Waiting(J, i, q)}
  BY DEF Waiting
<1>2. \A q \in Queues :
        X[q] = {EntryOf(j, J[j]) : j \in {i \in JobIds : Waiting(J, i, q)}}
          <=> \A e : e \in X[q] <=> \E j \in JobIds : Waiting(J, j, q) /\ e = EntryOf(j, J[j])
  OBVIOUS
<1>3. Indexes(X, J) <=> \A q \in Queues :
        X[q] = {EntryOf(j, J[j]) : j \in {i \in JobIds : Waiting(J, i, q)}}
  BY <1>2, Zenon DEF Indexes
<1> QED BY <1>1, <1>3, Zenon

\* IndexMatchesStatus in the words of Indexes, in this state.
LEMMA IndexNow == IndexMatchesStatus <=> Indexes(queued_jobs, jobs)
  BY IndexEntries, Zenon DEF IndexMatchesStatus, Live

\* The same in the next state.
LEMMA IndexNext == IndexMatchesStatus' <=> Indexes(queued_jobs', jobs')
  BY IndexEntries, Zenon DEF IndexMatchesStatus, Live

\* A job that was not waiting and is queued now gets its entry (enqueue, replay_job,
\* reschedule_for_retry).
LEMMA IndexInsert ==
  ASSUME NEW J \in [JobIds -> Job \cup {None}], NEW X \in [Queues -> SUBSET QueueEntry],
         Indexes(X, J), NEW j \in JobIds, NEW job \in Job,
         J[j] = None \/ J[j].status # "queued", job.status = "queued"
  PROVE  Indexes(Indexed(X, job.queue, EntryOf(j, job)), [J EXCEPT ![j] = job])
<1> DEFINE X2 == Indexed(X, job.queue, EntryOf(j, job))
           J2 == [J EXCEPT ![j] = job]
<1> SUFFICES ASSUME NEW q \in Queues, NEW e
             PROVE  e \in X2[q] <=> \E i \in JobIds : Waiting(J2, i, q) /\ e = EntryOf(i, J2[i])
  BY DEF Indexes
<1>1. \A i \in JobIds : i # j => J2[i] = J[i]
  OBVIOUS
<1>2. J2[j] = job /\ (Waiting(J2, j, q) <=> job.queue = q) /\ ~ Waiting(J, j, q)
  BY AbsentAssumption DEF Waiting
<1>3. e \in X2[q] <=> e \in X[q] \/ (job.queue = q /\ e = EntryOf(j, job))
  BY DEF Indexed
<1>4. e \in X[q] <=> \E i \in JobIds : Waiting(J, i, q) /\ e = EntryOf(i, J[i])
  BY DEF Indexes
<1> HIDE DEF X2, J2
<1> QED BY <1>1, <1>2, <1>3, <1>4 DEF Waiting

\* A job that was not waiting and is not waiting now has no entry (the other ways
\* to finish an attempt, cancel_job of a running job, extend_lease).
LEMMA IndexKeep ==
  ASSUME NEW J \in [JobIds -> Job \cup {None}], NEW X \in [Queues -> SUBSET QueueEntry],
         Indexes(X, J), NEW j \in JobIds, NEW job,
         J[j] = None \/ J[j].status # "queued", job.status # "queued"
  PROVE  Indexes(X, [J EXCEPT ![j] = job])
<1> DEFINE J2 == [J EXCEPT ![j] = job]
<1> SUFFICES ASSUME NEW q \in Queues, NEW e
             PROVE  e \in X[q] <=> \E i \in JobIds : Waiting(J2, i, q) /\ e = EntryOf(i, J2[i])
  BY DEF Indexes
<1>1. \A i \in JobIds : i # j => J2[i] = J[i]
  OBVIOUS
<1>2. ~ Waiting(J2, j, q) /\ ~ Waiting(J, j, q)
  BY DEF Waiting
<1>3. e \in X[q] <=> \E i \in JobIds : Waiting(J, i, q) /\ e = EntryOf(i, J[i])
  BY DEF Indexes
<1> HIDE DEF J2
<1> QED BY <1>1, <1>2, <1>3 DEF Waiting

\* The columns of one job show its status.
Evidence(job) ==
  /\ job.status = "running" <=> job.locked_by # None
  /\ job.status = "running" <=> job.lock_expires_at # None
  /\ job.status = "dlq" <=> job.dlq_reason_code # None

\* One job changes, and its columns show its new status.
LEMMA EvidenceUpdate ==
  ASSUME TypeOK, StatusEvidence, NEW j \in JobIds, NEW job, Evidence(job),
         jobs' = [jobs EXCEPT ![j] = job]
  PROVE  StatusEvidence'
  BY DEF TypeOK, StatusEvidence, Live, Evidence

\* The inductive invariant: the index is what makes a lease take queued work only,
\* and a lease needs it to keep the evidence of a status.
JobInv == TypeOK /\ IndexMatchesStatus /\ StatusEvidence

\* An entry of the index stands for queued work of its queue, as it is in `jobs`.
LEMMA EntryIsWaiting ==
  ASSUME TypeOK, IndexMatchesStatus, NEW q \in Queues, NEW e \in queued_jobs[q]
  PROVE  e.id \in JobIds /\ Waiting(jobs, e.id, q) /\ e = EntryOf(e.id, jobs[e.id])
  BY IndexNow, EntryNamesJob DEF Indexes

\* A lease leaves the entries of what it took and of what was too late out of the
\* index, and changes the status of exactly those jobs (lease_jobs_batch).
LEMMA LeaseKeepsJobInv ==
  ASSUME JobInv, NEW q \in Queues, NEW w \in Workers, NEW n, lease_jobs_batch(q, w, n)
  PROVE  IndexMatchesStatus' /\ StatusEvidence'
<1> DEFINE expired == ExpiredDeadlines(q)
           taken == Candidates(q, n)
           gone == Ids(expired) \cup Ids(taken)
<1> USE DEF JobInv
<1>1. expired \subseteq queued_jobs[q] /\ taken \subseteq queued_jobs[q]
  BY DEF ExpiredDeadlines, Candidates
<1>2. \A j \in gone : j \in JobIds /\ Waiting(jobs, j, q) /\ jobs[j] \in Job
  BY <1>1, EntryIsWaiting DEF Ids, Waiting, TypeOK
<1>3. \A j \in JobIds : Waiting(jobs, j, q) =>
        (j \in gone <=> EntryOf(j, jobs[j]) \in expired \cup taken)
  BY <1>1, EntryIsWaiting, EntryNamesJob DEF Ids
<1>4. \A j \in JobIds :
        /\ j \notin gone => jobs'[j] = jobs[j]
        /\ j \in gone => jobs'[j] \in {Leased(jobs[j], w), PastDeadline(jobs[j])}
  BY <1>2 DEF lease_jobs_batch, Live, Waiting
<1>5. queued_jobs' = [queued_jobs EXCEPT ![q] = (@ \ expired) \ taken]
  BY DEF lease_jobs_batch
<1> HIDE DEF expired, taken, gone
<1>6. \A j \in gone : jobs'[j].status # "queued"
  BY <1>2, <1>4, LeasedFields
<1>7. IndexMatchesStatus'
  <2> SUFFICES ASSUME NEW r \in Queues, NEW e
               PROVE  e \in queued_jobs'[r] <=>
                        \E j \in JobIds : Waiting(jobs', j, r) /\ e = EntryOf(j, jobs'[j])
    BY IndexNext DEF Indexes
  <2>1. e \in queued_jobs[r] <=> \E j \in JobIds : Waiting(jobs, j, r) /\ e = EntryOf(j, jobs[j])
    BY IndexNow DEF Indexes
  <2>2. \A j \in JobIds : Waiting(jobs', j, r) <=> Waiting(jobs, j, r) /\ j \notin gone
    BY <1>4, <1>6 DEF Waiting
  <2>3. e \in queued_jobs'[r] <=> e \in queued_jobs[r] /\ (r = q => e \notin expired \cup taken)
    BY <1>5 DEF TypeOK
  <2>4. CASE r = q
    BY <1>3, <1>4, <2>1, <2>2, <2>3, <2>4
  <2>5. CASE r # q
    <3>1. \A j \in JobIds : Waiting(jobs, j, r) => j \notin gone
      BY <1>2, <2>5 DEF Waiting
    <3> QED BY <1>4, <2>1, <2>2, <2>3, <2>5, <3>1
  <2> QED BY <2>4, <2>5
<1>8. StatusEvidence'
  <2> SUFFICES ASSUME NEW j \in JobIds, jobs'[j] # None PROVE Evidence(jobs'[j])
    BY DEF StatusEvidence, Live, Evidence
  <2>1. CASE j \notin gone
    BY <1>4, <2>1 DEF StatusEvidence, Live, Evidence
  <2>2. CASE j \in gone
    <3>1. jobs[j] \in Job /\ jobs[j].status = "queued" /\ Evidence(jobs[j])
      BY <1>2, <2>2 DEF Waiting, StatusEvidence, Live, Evidence
    <3>2. At(now + LeaseSeconds) # None
      BY AtType, LeaseAssumption, HorizonAssumption, NoneAssumption DEF TypeOK, Instants
    <3>3. Evidence(Leased(jobs[j], w))
      BY <3>1, <3>2, LeasedFields, NoneAssumption DEF Evidence
    <3>4. Evidence(PastDeadline(jobs[j]))
      BY <3>1, LeasedFields, NoneAssumption DEF Evidence
    <3> QED BY <1>4, <2>2, <3>3, <3>4
  <2> QED BY <2>1, <2>2
<1> QED BY <1>7, <1>8

\* A reaped job gets the entry it had when it was leased (reap_expired_locks).
LEMMA ReapKeepsJobInv ==
  ASSUME JobInv, reap_expired_locks
  PROVE  IndexMatchesStatus' /\ StatusEvidence'
<1> USE DEF JobInv
<1>1. \A j \in ExpiredLocks : j \in JobIds /\ jobs[j] \in Job /\ jobs[j].status = "running"
  BY DEF ExpiredLocks, Live, TypeOK
<1>2. \A j \in JobIds :
        jobs'[j] = IF j \in ExpiredLocks THEN [Unlocked(jobs[j]) EXCEPT !.status = "queued"]
                                         ELSE jobs[j]
  BY DEF reap_expired_locks
<1>3. \A j \in ExpiredLocks :
        /\ jobs'[j] # None
        /\ jobs'[j].status = "queued" /\ jobs'[j].queue = jobs[j].queue
        /\ EntryOf(j, jobs'[j]) = EntryOf(j, jobs[j])
        /\ jobs'[j].locked_by = None /\ jobs'[j].lock_expires_at = None
        /\ jobs'[j].dlq_reason_code = jobs[j].dlq_reason_code
  <2> SUFFICES ASSUME NEW j \in ExpiredLocks
               PROVE  /\ jobs'[j] # None
                      /\ jobs'[j].status = "queued" /\ jobs'[j].queue = jobs[j].queue
                      /\ EntryOf(j, jobs'[j]) = EntryOf(j, jobs[j])
                      /\ jobs'[j].locked_by = None /\ jobs'[j].lock_expires_at = None
                      /\ jobs'[j].dlq_reason_code = jobs[j].dlq_reason_code
    OBVIOUS
  <2> DEFINE new == [Unlocked(jobs[j]) EXCEPT !.status = "queued"]
  <2>1. jobs'[j] = new /\ jobs[j] \in Job
    BY <1>1, <1>2
  <2>2. new \in Job
    BY <2>1, UnlockedType DEF TypeOK, JobStatus
  <2>3. /\ new.status = "queued" /\ new.queue = jobs[j].queue
        /\ EntryOf(j, new) = EntryOf(j, jobs[j])
        /\ new.locked_by = None /\ new.lock_expires_at = None
        /\ new.dlq_reason_code = jobs[j].dlq_reason_code
    BY <2>1, UnlockedFields
  <2> QED BY <2>1, <2>2, <2>3, AbsentAssumption
<1>4. IndexMatchesStatus'
  <2> SUFFICES ASSUME NEW r \in Queues, NEW e
               PROVE  e \in queued_jobs'[r] <=>
                        \E j \in JobIds : Waiting(jobs', j, r) /\ e = EntryOf(j, jobs'[j])
    BY IndexNext DEF Indexes
  <2>1. e \in queued_jobs[r] <=> \E j \in JobIds : Waiting(jobs, j, r) /\ e = EntryOf(j, jobs[j])
    BY IndexNow DEF Indexes
  <2>2. e \in queued_jobs'[r] <=> \/ e \in queued_jobs[r]
                                  \/ \E j \in ExpiredLocks : jobs[j].queue = r /\ e = EntryOf(j, jobs[j])
    BY DEF reap_expired_locks
  <2>3. \A j \in JobIds :
          Waiting(jobs', j, r) <=> Waiting(jobs, j, r) \/ (j \in ExpiredLocks /\ jobs[j].queue = r)
    BY <1>1, <1>2, <1>3 DEF Waiting
  <2>4. \A j \in JobIds : EntryOf(j, jobs'[j]) = EntryOf(j, jobs[j])
    BY <1>2, <1>3
  <2> QED BY <1>1, <2>1, <2>2, <2>3, <2>4
<1>5. StatusEvidence'
  <2> SUFFICES ASSUME NEW j \in JobIds, jobs'[j] # None PROVE Evidence(jobs'[j])
    BY DEF StatusEvidence, Live, Evidence
  <2>1. jobs[j] # None => Evidence(jobs[j])
    BY DEF StatusEvidence, Live, Evidence
  <2>2. CASE j \notin ExpiredLocks
    BY <1>2, <2>1, <2>2
  <2>3. CASE j \in ExpiredLocks
    BY <1>1, <1>3, <2>1, <2>3, AbsentAssumption DEF Evidence
  <2> QED BY <2>2, <2>3
<1> QED BY <1>4, <1>5

\* A job becomes queued work and is indexed (enqueue, replay_job, reschedule_for_retry).
LEMMA InsertKeepsJobInv ==
  ASSUME JobInv, NEW j \in JobIds, NEW job \in Job, jobs[j] = None \/ jobs[j].status # "queued",
         job.status = "queued", Evidence(job),
         jobs' = [jobs EXCEPT ![j] = job],
         queued_jobs' = Indexed(queued_jobs, job.queue, EntryOf(j, job))
  PROVE  IndexMatchesStatus' /\ StatusEvidence'
<1>1. Indexes(queued_jobs', jobs')
  BY IndexNow, IndexInsert DEF JobInv, TypeOK
<1> QED BY <1>1, IndexNext, EvidenceUpdate DEF JobInv

\* The same for a job that was not there.
LEMMA InsertedKeepsJobInv ==
  ASSUME JobInv, NEW id \in Unused, NEW job \in Job, Inserted(id, job)
  PROVE  IndexMatchesStatus' /\ StatusEvidence'
<1>1. id \in JobIds /\ jobs[id] = None
  BY DEF Unused
<1>2. Evidence(job)
  BY DEF Evidence, Inserted
<1> QED BY <1>1, <1>2, InsertKeepsJobInv DEF Inserted

\* A job that is not queued work stays out of the index (mark_succeeded, mark_dlq,
\* extend_lease, cancel_job of a running job).
LEMMA UpdateKeepsJobInv ==
  ASSUME JobInv, NEW j \in JobIds, NEW job \in Job, jobs[j].status # "queued",
         job.status # "queued", Evidence(job),
         jobs' = [jobs EXCEPT ![j] = job], UNCHANGED queued_jobs
  PROVE  IndexMatchesStatus' /\ StatusEvidence'
<1>1. Indexes(queued_jobs', jobs')
  BY IndexNow, IndexKeep DEF JobInv, TypeOK
<1> QED BY <1>1, IndexNext, EvidenceUpdate DEF JobInv

\* The job that loses its lease and is not queued again.
LEMMA EndedLease ==
  ASSUME JobInv, NEW j \in JobIds, NEW w, HoldsLease(j, w), NEW s \in {"succeeded", "canceled"}
  PROVE  LET new == [Unlocked(jobs[j]) EXCEPT !.status = s]
         IN  new \in Job /\ new.status = s /\ Evidence(new)
<1> DEFINE new == [Unlocked(jobs[j]) EXCEPT !.status = s]
<1>1. jobs[j] \in Job /\ jobs[j].dlq_reason_code = None
  BY DEF JobInv, TypeOK, HoldsLease, StatusEvidence, Live
<1>2. new \in Job
  BY <1>1, UnlockedType DEF JobInv, TypeOK, JobStatus
<1>3. new.status = s /\ new.locked_by = None /\ new.lock_expires_at = None
      /\ new.dlq_reason_code = None
  BY <1>1, UnlockedFields
<1> HIDE DEF new
<1>4. Evidence(new)
  BY <1>3 DEF Evidence
<1> QED BY <1>2, <1>3, <1>4 DEF new

\* Every operation keeps the index and the evidence.
LEMMA JobInvInductive == JobInv /\ [Next]_vars => JobInv'
<1> SUFFICES ASSUME JobInv, [Next]_vars PROVE IndexMatchesStatus' /\ StatusEvidence'
  BY TypeOKInductive DEF JobInv
<1> TypeOK /\ TypeOK'
  BY TypeOKInductive DEF JobInv
<1>1. CASE UNCHANGED <<jobs, queued_jobs>>
  BY <1>1 DEF JobInv, IndexMatchesStatus, StatusEvidence, Live
<1>2. ASSUME NEW nj \in NewJobs, NEW id \in Unused, enqueue(nj, id)
      PROVE  IndexMatchesStatus' /\ StatusEvidence'
  BY <1>2, EnqueueInserts, InsertedKeepsJobInv
<1>3. ASSUME NEW src \in JobIds, NEW id \in Unused, NEW q \in Queues, NEW t \in ReplayTimes,
             replay_job(src, id, q, IF t = None THEN now ELSE t)
      PROVE  IndexMatchesStatus' /\ StatusEvidence'
  <2>1. (IF t = None THEN now ELSE t) \in Instants
    BY InputsAssumption DEF TypeOK
  <2> QED BY <1>3, <2>1, ReplayInserts, InsertedKeepsJobInv
<1>4. ASSUME NEW j \in JobIds, cancel_queued_job(j)
      PROVE  IndexMatchesStatus' /\ StatusEvidence'
  <2> DEFINE new == [Unlocked(jobs[j]) EXCEPT !.status = "canceled"]
  <2>1. jobs[j] \in Job /\ jobs[j].status = "queued" /\ jobs[j].dlq_reason_code = None
        /\ jobs[j].queue \in Queues
    BY <1>4 DEF cancel_queued_job, JobInv, TypeOK, StatusEvidence, Live, Job
  <2>2. new.status = "canceled" /\ new.locked_by = None /\ new.lock_expires_at = None
        /\ new.dlq_reason_code = None
    BY <2>1, UnlockedFields
  <2>3. /\ jobs' = [jobs EXCEPT ![j] = new]
        /\ queued_jobs' = [queued_jobs EXCEPT ![jobs[j].queue] = @ \ {EntryOf(j, jobs[j])}]
    BY <1>4 DEF cancel_queued_job
  <2> HIDE DEF new
  <2>4. StatusEvidence'
    BY <2>2, <2>3, EvidenceUpdate DEF Evidence, JobInv
  <2>5. ASSUME NEW r \in Queues, NEW e
        PROVE  e \in queued_jobs'[r] <=>
                 \E i \in JobIds : Waiting(jobs', i, r) /\ e = EntryOf(i, jobs'[i])
    <3>1. e \in queued_jobs[r] <=> \E i \in JobIds : Waiting(jobs, i, r) /\ e = EntryOf(i, jobs[i])
      BY IndexNow DEF Indexes, JobInv
    <3>2. \A i \in JobIds : i # j => jobs'[i] = jobs[i]
      BY <2>3 DEF TypeOK
    <3>3. jobs'[j] = new /\ ~ Waiting(jobs', j, r)
      BY <2>2, <2>3 DEF TypeOK, Waiting
    <3>4. e \in queued_jobs'[r] <=>
            e \in queued_jobs[r] /\ (r = jobs[j].queue => e # EntryOf(j, jobs[j]))
      BY <2>1, <2>3 DEF TypeOK
    <3> QED BY <2>1, <3>1, <3>2, <3>3, <3>4, EntryNamesJob DEF Waiting
  <2> QED BY <2>4, <2>5, IndexNext DEF Indexes
<1>5. ASSUME NEW w \in Workers, NEW j \in JobIds, extend_lease(j, w)
      PROVE  IndexMatchesStatus' /\ StatusEvidence'
  <2> DEFINE new == [jobs[j] EXCEPT !.lock_expires_at = At(now + LeaseSeconds), !.updated_at = now]
  <2>1. At(now + LeaseSeconds) \in Instants /\ At(now + LeaseSeconds) # None
    BY AtType, LeaseAssumption, HorizonAssumption, NoneAssumption DEF Instants, TypeOK
  <2>2. jobs[j] \in Job /\ jobs[j].status = "running" /\ Evidence(jobs[j])
    BY <1>5 DEF extend_lease, HoldsLease, JobInv, TypeOK, StatusEvidence, Live, Evidence
  <2>3. new \in Job /\ new.status = "running" /\ new.locked_by = jobs[j].locked_by
        /\ new.lock_expires_at # None /\ new.dlq_reason_code = jobs[j].dlq_reason_code
    BY <2>1, <2>2 DEF Job, TypeOK
  <2>4. jobs' = [jobs EXCEPT ![j] = new] /\ UNCHANGED queued_jobs
    BY <1>5, <2>2 DEF extend_lease, Job
  <2> HIDE DEF new
  <2>5. Evidence(new)
    BY <2>2, <2>3 DEF Evidence
  <2> QED BY <2>2, <2>3, <2>4, <2>5, UpdateKeepsJobInv
<1>6. ASSUME NEW w \in Workers, NEW j \in JobIds, cancel_running_job(j, w)
      PROVE  IndexMatchesStatus' /\ StatusEvidence'
  <2>1. jobs[j].status # "queued"
    BY <1>6 DEF cancel_running_job, HoldsLease
  <2> QED BY <1>6, <2>1, EndedLease, UpdateKeepsJobInv DEF cancel_running_job
<1>7. ASSUME NEW w \in Workers, NEW j \in JobIds, NEW a \in AttemptIds, mark_succeeded_once(j, a, w)
      PROVE  IndexMatchesStatus' /\ StatusEvidence'
  <2>1. jobs[j].status # "queued"
    BY <1>7 DEF mark_succeeded_once, HoldsLease
  <2> QED BY <1>7, <2>1, EndedLease, UpdateKeepsJobInv DEF mark_succeeded_once
<1>8. ASSUME NEW w \in Workers, NEW j \in JobIds, NEW a \in AttemptIds, NEW id \in Unused,
             mark_succeeded_recurring(j, a, w, id)
      PROVE  IndexMatchesStatus' /\ StatusEvidence'
  <2> DEFINE new == [Unlocked(jobs[j]) EXCEPT !.status = "succeeded"]
             next == NextOccurrence(j)
             between == [jobs EXCEPT ![j] = new]
  <2>1. jobs[j] # None /\ jobs[j].status = "running" /\ jobs[j].recurring_interval_seconds # None
        /\ id \in JobIds /\ jobs[id] = None
    BY <1>8 DEF mark_succeeded_recurring, HoldsLease, Unused
  <2>2. new \in Job /\ new.status = "succeeded" /\ Evidence(new)
    BY <1>8, EndedLease DEF mark_succeeded_recurring
  <2>3. next \in Job /\ next.status = "queued" /\ next.locked_by = None
        /\ next.lock_expires_at = None /\ next.dlq_reason_code = None
    BY <2>1, NextOccurrenceType
  <2>4. /\ jobs' = [between EXCEPT ![id] = next]
        /\ queued_jobs' = Indexed(queued_jobs, next.queue, EntryOf(id, next))
    BY <1>8 DEF mark_succeeded_recurring
  <2> HIDE DEF new, next
  <2>5. between \in [JobIds -> Job \cup {None}] /\ between[id] = None
    BY <2>1, <2>2 DEF TypeOK
  <2>6. Indexes(queued_jobs, between)
    BY <2>1, <2>2, IndexNow, IndexKeep DEF JobInv, TypeOK
  <2> HIDE DEF between
  <2>7. Indexes(queued_jobs', jobs')
    BY <2>1, <2>3, <2>4, <2>5, <2>6, IndexInsert DEF TypeOK
  <2>8. \A i \in JobIds : jobs'[i] # None => Evidence(jobs'[i])
    <3>1. Evidence(next)
      BY <2>3 DEF Evidence
    <3>2. \A i \in JobIds : jobs'[i] = IF i = id THEN next ELSE IF i = j THEN new ELSE jobs[i]
      BY <2>1, <2>4, <2>5 DEF between, TypeOK
    <3>3. \A i \in JobIds : jobs[i] # None => Evidence(jobs[i])
      BY DEF JobInv, StatusEvidence, Live, Evidence
    <3> QED BY <2>2, <3>1, <3>2, <3>3
  <2>9. StatusEvidence'
    BY <2>8 DEF StatusEvidence, Live, Evidence
  <2> QED BY <2>7, <2>9, IndexNext
<1>9. ASSUME NEW w \in Workers, NEW j \in JobIds, NEW a \in AttemptIds, NEW d \in RetryDelays,
             reschedule_for_retry(j, a, w, At(now + d))
      PROVE  IndexMatchesStatus' /\ StatusEvidence'
  <2> DEFINE job == [Unlocked(jobs[j]) EXCEPT !.status = "queued", !.run_at = At(now + d)]
  <2>1. At(now + d) \in Instants
    BY AtType, InputsAssumption, HorizonAssumption DEF Instants, TypeOK
  <2>2. jobs[j] \in Job /\ jobs[j].status = "running" /\ jobs[j].dlq_reason_code = None
    BY <1>9 DEF reschedule_for_retry, HoldsLease, JobInv, TypeOK, StatusEvidence, Live
  <2>3. job \in Job /\ job.status = "queued" /\ job.locked_by = None
        /\ job.lock_expires_at = None /\ job.dlq_reason_code = None
    <3>1. Unlocked(jobs[j]) \in Job
      BY <2>2, UnlockedType DEF TypeOK
    <3>2. /\ Unlocked(jobs[j]).locked_by = None /\ Unlocked(jobs[j]).lock_expires_at = None
          /\ Unlocked(jobs[j]).dlq_reason_code = None
      BY <2>2 DEF Unlocked, Job
    <3> QED BY <2>1, <3>1, <3>2 DEF Job, JobStatus
  <2>4. /\ jobs' = [jobs EXCEPT ![j] = job]
        /\ queued_jobs' = Indexed(queued_jobs, job.queue, EntryOf(j, job))
    BY <1>9 DEF reschedule_for_retry
  <2> HIDE DEF job
  <2>5. Evidence(job)
    BY <2>3 DEF Evidence
  <2> QED BY <2>2, <2>3, <2>4, <2>5, InsertKeepsJobInv
<1>10. ASSUME NEW w \in Workers, NEW j \in JobIds, NEW a \in AttemptIds, NEW reason \in DlqReasons,
              mark_dlq(j, a, w, reason)
       PROVE  IndexMatchesStatus' /\ StatusEvidence'
  <2> DEFINE new == [Unlocked(jobs[j]) EXCEPT !.status = "dlq", !.dlq_reason_code = reason]
  <2>1. jobs[j] \in Job /\ jobs[j].status = "running"
    BY <1>10 DEF mark_dlq, HoldsLease, TypeOK
  <2>2. new \in Job /\ new.status = "dlq" /\ new.locked_by = None
        /\ new.lock_expires_at = None /\ new.dlq_reason_code = reason
    <3>1. Unlocked(jobs[j]) \in Job
      BY <2>1, UnlockedType DEF TypeOK
    <3>2. Unlocked(jobs[j]).locked_by = None /\ Unlocked(jobs[j]).lock_expires_at = None
      BY <2>1 DEF Unlocked, Job
    <3> QED BY <3>1, <3>2 DEF Job, JobStatus
  <2>3. jobs' = [jobs EXCEPT ![j] = new] /\ UNCHANGED queued_jobs
    BY <1>10 DEF mark_dlq
  <2> HIDE DEF new
  <2>4. Evidence(new)
    BY <2>2, NoneAssumption DEF Evidence
  <2> QED BY <2>1, <2>2, <2>3, <2>4, UpdateKeepsJobInv
<1>11. ASSUME NEW cutoff \in Cutoffs, NEW limit \in BatchSizes,
              archive_succeeded_older_than(cutoff, limit)
       PROVE  IndexMatchesStatus' /\ StatusEvidence'
  <2>1. PICK moved \in Limited({j \in Live : jobs[j].status = "succeeded" /\ jobs[j].updated_at < cutoff}, limit) :
          /\ jobs' = [j \in JobIds |-> IF j \in moved THEN None ELSE jobs[j]]
          /\ UNCHANGED queued_jobs
    BY <1>11 DEF archive_succeeded_older_than
  <2>2. \A j \in moved : jobs[j].status = "succeeded"
    BY DEF Limited
  <2>3. \A q \in Queues : \A j \in JobIds :
          /\ Waiting(jobs', j, q) <=> Waiting(jobs, j, q)
          /\ Waiting(jobs, j, q) => jobs'[j] = jobs[j]
    BY <2>1, <2>2 DEF Waiting
  <2>4. Indexes(queued_jobs', jobs')
    BY <2>1, <2>3, IndexNow DEF Indexes, JobInv
  <2>5. StatusEvidence'
    BY <2>1 DEF JobInv, StatusEvidence, Live
  <2> QED BY <2>4, <2>5, IndexNext
<1>12. ASSUME Tick \/ (\E w \in Workers, js \in Batches : start_attempts_batch(js, w))
              \/ (\E cutoff \in Cutoffs, limit \in BatchSizes :
                    delete_history_for_succeeded_older_than(cutoff, limit))
              \/ UNCHANGED vars
       PROVE  UNCHANGED <<jobs, queued_jobs>>
  BY <1>12 DEF Tick, start_attempts_batch, delete_history_for_succeeded_older_than, vars
<1> QED
  BY <1>1, <1>2, <1>3, <1>4, <1>5, <1>6, <1>7, <1>8, <1>9, <1>10, <1>11, <1>12,
     LeaseKeepsJobInv, ReapKeepsJobInv DEF Next, Produce, Work, Archive

\* The types, the index and the evidence hold after every sequence of calls.
LEMMA JobInvHolds == Spec => []JobInv
<1>1. Init => JobInv
  <2>1. Init => TypeOK
    BY HorizonAssumption, AttemptsAssumption DEF Init, TypeOK, Instants
  <2>2. Init => Indexes(queued_jobs, jobs)
    BY DEF Init, Indexes, Waiting
  <2> QED BY <2>1, <2>2, IndexNow DEF Init, JobInv, StatusEvidence, Live
<1> QED BY <1>1, JobInvInductive, PTL DEF Spec

\* No job is lost to the index and nothing in the index is running or over,
\* for every sequence of calls (queued_jobs against jobs).
THEOREM IndexIsExact == Spec => []IndexMatchesStatus
  BY JobInvHolds, PTL DEF JobInv

\* The lock columns are set exactly while a job is running and the reason exactly
\* when it is in the DLQ, for every sequence of calls.
THEOREM EvidenceIsExact == Spec => []StatusEvidence
  BY JobInvHolds, PTL DEF JobInv


----------------------------------------------------------------------------
(* What one step does to one job and to one attempt                         *)

\* A job stays as it is, appears as queued work, moves on from queued or running to
\* something other than succeeded, succeeds through an attempt that was open, or is
\* archived.
JobEffect(j) ==
  \/ jobs'[j] = jobs[j] /\ archive'[j] = archive[j]
  \/ /\ j \in Unused /\ archive'[j] = archive[j]
     /\ jobs'[j] # None /\ jobs'[j].status = "queued"
  \/ /\ jobs[j] # None /\ jobs[j].status \in {"queued", "running"} /\ archive'[j] = archive[j]
     /\ jobs'[j] # None /\ jobs'[j].status # "succeeded"
  \/ /\ jobs[j] # None /\ jobs[j].status = "running" /\ archive'[j] = archive[j]
     /\ jobs'[j] # None /\ jobs'[j].status = "succeeded"
     /\ \E a \in AttemptIds : OpenAttempt(a, j) /\ Succeeded(a, j)'
  \/ /\ jobs[j] # None /\ jobs[j].status = "succeeded"
     /\ jobs'[j] = None /\ archive'[j] = jobs[j]

\* An attempt stays as it is, is deleted after its job was archived, is closed as
\* failed, succeeds together with its running job while no other attempt changes, or
\* is started, under a new id, for a job that is there.
AttemptEffect(a) ==
  \/ attempts'[a] = attempts[a]
  \/ attempts[a] # None /\ attempts'[a] = None /\ archive[attempts[a].job_id] # None
  \/ /\ attempts[a] # None /\ attempts[a].status = "running"
     /\ attempts'[a] # None /\ attempts'[a].status = "failed"
     /\ attempts'[a].job_id = attempts[a].job_id
  \/ /\ attempts[a] # None /\ attempts[a].status = "running"
     /\ attempts'[a] # None /\ attempts'[a].status = "succeeded"
     /\ attempts'[a].job_id = attempts[a].job_id
     /\ jobs[attempts[a].job_id] # None /\ jobs[attempts[a].job_id].status = "running"
     /\ jobs'[attempts[a].job_id] # None /\ jobs'[attempts[a].job_id].status = "succeeded"
     /\ \A b \in AttemptIds : b # a => attempts'[b] = attempts[b]
  \/ /\ last_attempt < a /\ a <= last_attempt'
     /\ attempts'[a] # None /\ attempts'[a].status = "running"
     /\ attempts'[a].job_id \in JobIds /\ jobs[attempts'[a].job_id] # None

StepEffect ==
  /\ last_attempt' \in Nat /\ last_attempt <= last_attempt'
  /\ \A j \in JobIds : JobEffect(j)
  /\ \A a \in AttemptIds : AttemptEffect(a)

\* What finishing an attempt does to it and to the others (CloseAttempt).
LEMMA CloseAttemptEffect ==
  ASSUME TypeOK, NEW a \in AttemptIds, NEW j, OpenAttempt(a, j),
         NEW s \in {"succeeded", "failed"}, NEW c \in ErrorCodes \cup {None}, CloseAttempt(a, s, c)
  PROVE  /\ attempts[a] # None /\ attempts[a].status = "running" /\ attempts[a].job_id = j
         /\ attempts'[a] # None /\ attempts'[a].status = s /\ attempts'[a].job_id = j
         /\ \A b \in AttemptIds : b # a => attempts'[b] = attempts[b]
<1>1. attempts[a] \in Attempt
  BY DEF TypeOK, OpenAttempt
<1>2. attempts' = [attempts EXCEPT ![a] = [@ EXCEPT !.status = s, !.error_code = c]]
  BY <1>1 DEF CloseAttempt, Attempt
<1>3. attempts'[a] = [attempts[a] EXCEPT !.status = s, !.error_code = c]
  BY <1>2 DEF TypeOK
<1>4. attempts'[a].status = s /\ attempts'[a].job_id = attempts[a].job_id
  BY <1>1, <1>3 DEF Attempt
<1>5. attempts'[a] # None
  <2>1. [attempts[a] EXCEPT !.status = s, !.error_code = c] \in Attempt
    BY <1>1 DEF Attempt
  <2> QED BY <1>3, <2>1, AbsentAssumption
<1>6. \A b \in AttemptIds : b # a => attempts'[b] = attempts[b]
  BY <1>2 DEF TypeOK
<1> QED BY <1>4, <1>5, <1>6 DEF OpenAttempt

\* A step that leaves the attempts alone and changes one job.
LEMMA OneJobEffect ==
  ASSUME TypeOK, NEW j \in JobIds, NEW job, jobs' = [jobs EXCEPT ![j] = job],
         UNCHANGED archive
  PROVE  /\ jobs'[j] = job
         /\ \A i \in JobIds : i # j => JobEffect(i)
  BY DEF TypeOK, JobEffect

\* A job that ends its lease, whatever its new status.
LEMMA UnlockedIsJob ==
  ASSUME TypeOK, NEW j \in JobIds, jobs[j] # None, NEW s \in JobStatus,
         NEW new, new = [Unlocked(jobs[j]) EXCEPT !.status = s]
  PROVE  new # None /\ new.status = s
<1>1. jobs[j] \in Job
  BY DEF TypeOK
<1>2. new \in Job
  BY <1>1, UnlockedType DEF TypeOK
<1>3. new.status = s
  BY <1>1, UnlockedFields
<1> QED BY <1>2, <1>3, AbsentAssumption

\* An open attempt that a step closes as failed (reap_expired_locks, cancel_job).
LEMMA FailedEffect ==
  ASSUME TypeOK, NEW a \in AttemptIds, attempts[a] # None, attempts[a].status = "running",
         NEW c \in ErrorCodes, attempts'[a] = [attempts[a] EXCEPT !.status = "failed", !.error_code = c]
  PROVE  AttemptEffect(a)
<1>1. attempts[a] \in Attempt
  BY DEF TypeOK
<1>2. attempts'[a].status = "failed" /\ attempts'[a].job_id = attempts[a].job_id
  BY <1>1 DEF Attempt
<1>3. attempts'[a] \in Attempt
  BY <1>1 DEF Attempt
<1> QED BY <1>2, <1>3, AbsentAssumption DEF AttemptEffect

\* A lease changes queued work of its queue only (lease_jobs_batch).
LEMMA LeaseEffect ==
  ASSUME JobInv, NEW q \in Queues, NEW w \in Workers, NEW n, lease_jobs_batch(q, w, n),
         NEW j \in JobIds
  PROVE  \/ jobs'[j] = jobs[j]
         \/ /\ jobs[j] # None /\ jobs[j].status = "queued"
            /\ jobs'[j] \in {Leased(jobs[j], w), PastDeadline(jobs[j])}
<1> DEFINE gone == Ids(ExpiredDeadlines(q)) \cup Ids(Candidates(q, n))
<1>1. ExpiredDeadlines(q) \subseteq queued_jobs[q] /\ Candidates(q, n) \subseteq queued_jobs[q]
  BY DEF ExpiredDeadlines, Candidates
<1>2. \A i \in gone : Waiting(jobs, i, q)
  BY <1>1, EntryIsWaiting DEF Ids, JobInv
<1>3. /\ j \notin gone => jobs'[j] = jobs[j]
      /\ j \in gone => jobs'[j] \in {Leased(jobs[j], w), PastDeadline(jobs[j]), jobs[j]}
  BY DEF lease_jobs_batch
<1> HIDE DEF gone
<1> QED BY <1>2, <1>3 DEF Waiting

\* Every step has these effects, given that the index holds queued work only.
LEMMA StepHasEffect == JobInv /\ [Next]_vars => StepEffect
<1> SUFFICES ASSUME JobInv, [Next]_vars PROVE StepEffect
  OBVIOUS
<1>0. TypeOK /\ last_attempt \in Nat
  BY AttemptsAssumption DEF JobInv, TypeOK
<1>a. ASSUME UNCHANGED <<attempts, last_attempt>>
      PROVE  /\ \A a \in AttemptIds : AttemptEffect(a)
             /\ last_attempt' \in Nat /\ last_attempt <= last_attempt'
  BY <1>0, <1>a DEF AttemptEffect
<1>j. ASSUME UNCHANGED <<jobs, archive>> PROVE \A j \in JobIds : JobEffect(j)
  BY <1>j DEF JobEffect
<1>i. ASSUME NEW id \in Unused, NEW job \in Job, Inserted(id, job) PROVE StepEffect
  <2>1. /\ job # None /\ job.status = "queued" /\ id \in JobIds
        /\ jobs' = [jobs EXCEPT ![id] = job] /\ UNCHANGED <<archive, attempts, last_attempt>>
    BY <1>i, AbsentAssumption DEF Inserted, Unused
  <2>2. \A j \in JobIds : JobEffect(j)
    BY <1>0, <2>1, OneJobEffect DEF JobEffect
  <2> QED BY <1>a, <2>1, <2>2 DEF StepEffect
<1>1. CASE Tick \/ UNCHANGED vars
  BY <1>1, <1>a, <1>j DEF Tick, vars, StepEffect
<1>2. ASSUME NEW nj \in NewJobs, NEW id \in Unused, enqueue(nj, id) PROVE StepEffect
  BY <1>0, <1>2, <1>i, EnqueueInserts
<1>3. ASSUME NEW src \in JobIds, NEW id \in Unused, NEW q \in Queues, NEW t \in ReplayTimes,
             replay_job(src, id, q, IF t = None THEN now ELSE t)
      PROVE  StepEffect
  <2>1. (IF t = None THEN now ELSE t) \in Instants
    BY <1>0, InputsAssumption DEF TypeOK
  <2> QED BY <1>0, <1>3, <1>i, <2>1, ReplayInserts
<1>4. ASSUME NEW j \in JobIds, cancel_queued_job(j) PROVE StepEffect
  <2> DEFINE new == [Unlocked(jobs[j]) EXCEPT !.status = "canceled"]
  <2>1. /\ jobs[j] # None /\ jobs[j].status = "queued"
        /\ jobs' = [jobs EXCEPT ![j] = new] /\ UNCHANGED <<archive, attempts, last_attempt>>
    BY <1>4 DEF cancel_queued_job
  <2>2. new # None /\ new.status = "canceled"
    BY <1>0, <2>1, UnlockedIsJob DEF JobStatus
  <2> HIDE DEF new
  <2>3. \A i \in JobIds : JobEffect(i)
    BY <1>0, <2>1, <2>2, OneJobEffect DEF JobEffect
  <2> QED BY <1>a, <2>1, <2>3 DEF StepEffect
<1>5. ASSUME NEW w \in Workers, NEW q \in Queues, NEW n \in BatchSizes, lease_jobs_batch(q, w, n)
      PROVE  StepEffect
  <2>1. UNCHANGED <<archive, attempts, last_attempt>>
    BY <1>5 DEF lease_jobs_batch
  <2>2. \A j \in JobIds : jobs[j] # None =>
          /\ Leased(jobs[j], w) # None /\ Leased(jobs[j], w).status = "running"
          /\ PastDeadline(jobs[j]) # None /\ PastDeadline(jobs[j]).status = "dlq"
    BY <1>0, LeasedType, LeasedFields, AbsentAssumption DEF TypeOK
  <2>3. \A j \in JobIds : JobEffect(j)
    BY <1>5, <2>1, <2>2, LeaseEffect DEF JobEffect
  <2> QED BY <1>a, <2>1, <2>3 DEF StepEffect
<1>6. ASSUME NEW w \in Workers, NEW js \in Batches, start_attempts_batch(js, w) PROVE StepEffect
  <2> PICK n \in 0 .. Len(js) :
        /\ Reaches(js, w, n)
        /\ last_attempt + n <= MaxAttemptId
        /\ attempts' = [a \in AttemptIds |->
             IF a \in last_attempt + 1 .. last_attempt + n
             THEN [job_id |-> js[a - last_attempt], attempt_no |-> NextNo(js[a - last_attempt]),
                   status |-> "running", worker_id |-> w, started_at |-> now, error_code |-> None]
             ELSE attempts[a]]
        /\ last_attempt' = last_attempt + n
        /\ UNCHANGED <<jobs, archive>>
    BY <1>6 DEF start_attempts_batch
  <2>1. \A i \in 1 .. n : js[i] \in JobIds /\ jobs[js[i]] # None
    BY DEF Batches, Reaches, HoldsLease
  <2>2. n \in Nat
    BY DEF Batches
  <2>3. last_attempt' \in Nat /\ last_attempt <= last_attempt'
    BY <1>0, <2>2
  <2>4. ASSUME NEW a \in AttemptIds PROVE AttemptEffect(a)
    <3>1. CASE a \notin last_attempt + 1 .. last_attempt + n
      BY <3>1 DEF AttemptEffect
    <3>2. CASE a \in last_attempt + 1 .. last_attempt + n
      <4>1. a - last_attempt \in 1 .. n /\ last_attempt < a /\ a <= last_attempt'
        BY <1>0, <2>2, <3>2 DEF AttemptIds
      <4>2. attempts'[a].status = "running" /\ attempts'[a].job_id = js[a - last_attempt]
        BY <3>2
      <4>3. attempts'[a] \in Attempt \cup {None} /\ attempts'[a] # None
        <5>1. attempts'[a] = [job_id |-> js[a - last_attempt], attempt_no |-> NextNo(js[a - last_attempt]),
                   status |-> "running", worker_id |-> w, started_at |-> now, error_code |-> None]
          BY <3>2
        <5>2. js[a - last_attempt] \in JobIds /\ NextNo(js[a - last_attempt]) \in Nat
          BY <1>0, <2>1, <4>1 DEF NextNo, TypeOK
        <5>3. attempts'[a] \in Attempt
          BY <1>0, <5>1, <5>2 DEF Attempt, TypeOK
        <5> QED BY <5>3, AbsentAssumption
      <4> QED BY <2>1, <4>1, <4>2, <4>3 DEF AttemptEffect
    <3> QED BY <3>1, <3>2
  <2> QED BY <1>j, <2>3, <2>4 DEF StepEffect
<1>7. ASSUME NEW w \in Workers, NEW j \in JobIds, extend_lease(j, w) PROVE StepEffect
  <2>1. UNCHANGED <<archive, attempts, last_attempt>> /\ jobs[j] \in Job /\ jobs[j] # None
        /\ jobs[j].status = "running"
    BY <1>0, <1>7 DEF extend_lease, HoldsLease, TypeOK
  <2>2. jobs' = [jobs EXCEPT ![j] = [@ EXCEPT !.lock_expires_at = At(now + LeaseSeconds), !.updated_at = now]]
    BY <1>7, <2>1 DEF extend_lease, Job
  <2>3. [jobs[j] EXCEPT !.lock_expires_at = At(now + LeaseSeconds), !.updated_at = now].status = "running"
    BY <2>1 DEF Job
  <2>4. jobs'[j] # None /\ jobs'[j].status = "running"
    <3>1. TypeOK'
      BY TypeOKInductive DEF JobInv
    <3>2. [jobs[j] EXCEPT !.lock_expires_at = At(now + LeaseSeconds), !.updated_at = now] \in Job
      <4>1. At(now + LeaseSeconds) \in Instants /\ now \in Instants
        BY <1>0, AtType, LeaseAssumption, HorizonAssumption DEF Instants, TypeOK
      <4> QED BY <2>1, <4>1 DEF Job
    <3> QED BY <1>0, <2>2, <2>3, <3>2, AbsentAssumption DEF TypeOK
  <2>5. \A i \in JobIds : JobEffect(i)
    BY <1>0, <2>1, <2>2, <2>4, OneJobEffect DEF JobEffect
  <2> QED BY <1>a, <2>1, <2>5 DEF StepEffect
<1>8. ASSUME NEW w \in Workers, NEW j \in JobIds, cancel_running_job(j, w) PROVE StepEffect
  <2> DEFINE new == [Unlocked(jobs[j]) EXCEPT !.status = "canceled"]
  <2>1. /\ jobs[j] # None /\ jobs[j].status = "running"
        /\ jobs' = [jobs EXCEPT ![j] = new] /\ UNCHANGED <<archive, last_attempt>>
    BY <1>8 DEF cancel_running_job, HoldsLease
  <2>2. new # None /\ new.status = "canceled"
    BY <1>0, <2>1, UnlockedIsJob DEF JobStatus
  <2> HIDE DEF new
  <2>3. \A i \in JobIds : JobEffect(i)
    BY <1>0, <2>1, <2>2, OneJobEffect DEF JobEffect
  <2>4. ASSUME NEW a \in AttemptIds PROVE AttemptEffect(a)
    <3>1. CASE ~ LatestOpen(a, j)
      BY <1>8, <3>1 DEF cancel_running_job, AttemptEffect
    <3>2. CASE LatestOpen(a, j)
      BY <1>0, <1>8, <3>2, FailedEffect DEF cancel_running_job, LatestOpen, OpenAttempt, ErrorCodes
    <3> QED BY <3>1, <3>2
  <2> QED BY <1>0, <2>1, <2>3, <2>4 DEF StepEffect
<1>9. ASSUME NEW w \in Workers, NEW j \in JobIds, NEW a \in AttemptIds, mark_succeeded_once(j, a, w)
      PROVE  StepEffect
  <2> DEFINE new == [Unlocked(jobs[j]) EXCEPT !.status = "succeeded"]
  <2>1. /\ jobs[j] # None /\ jobs[j].status = "running" /\ OpenAttempt(a, j)
        /\ CloseAttempt(a, "succeeded", None)
        /\ jobs' = [jobs EXCEPT ![j] = new] /\ UNCHANGED <<archive, last_attempt>>
    BY <1>9 DEF mark_succeeded_once, HoldsLease
  <2>2. new # None /\ new.status = "succeeded"
    BY <1>0, <2>1, UnlockedIsJob DEF JobStatus
  <2> HIDE DEF new
  <2>3. jobs'[j] = new /\ \A i \in JobIds : i # j => JobEffect(i)
    BY <1>0, <2>1, OneJobEffect
  <2>4. (\A b \in AttemptIds : AttemptEffect(b)) /\ Succeeded(a, j)'
    BY <1>0, <2>1, <2>2, <2>3, CloseAttemptEffect DEF AttemptEffect, Succeeded
  <2>5. JobEffect(j)
    BY <2>1, <2>2, <2>3, <2>4 DEF JobEffect
  <2> QED BY <1>0, <2>1, <2>3, <2>4, <2>5 DEF StepEffect
<1>10. ASSUME NEW w \in Workers, NEW j \in JobIds, NEW a \in AttemptIds, NEW id \in Unused,
              mark_succeeded_recurring(j, a, w, id)
       PROVE  StepEffect
  <2> DEFINE new == [Unlocked(jobs[j]) EXCEPT !.status = "succeeded"]
             next == NextOccurrence(j)
  <2>1. /\ jobs[j] # None /\ jobs[j].status = "running" /\ OpenAttempt(a, j)
        /\ jobs[j].recurring_interval_seconds # None
        /\ CloseAttempt(a, "succeeded", None) /\ id \in JobIds /\ jobs[id] = None
        /\ jobs' = [jobs EXCEPT ![j] = new, ![id] = next] /\ UNCHANGED <<archive, last_attempt>>
    BY <1>10 DEF mark_succeeded_recurring, HoldsLease, Unused
  <2>2. new # None /\ new.status = "succeeded"
    BY <1>0, <2>1, UnlockedIsJob DEF JobStatus
  <2>3. next # None /\ next.status = "queued"
    BY <1>0, <2>1, NextOccurrenceType, AbsentAssumption
  <2> HIDE DEF new, next
  <2>4. jobs'[j] = new /\ jobs'[id] = next
        /\ \A i \in JobIds : i # j /\ i # id => jobs'[i] = jobs[i]
    BY <1>0, <2>1 DEF TypeOK
  <2>5. (\A b \in AttemptIds : AttemptEffect(b)) /\ Succeeded(a, j)'
    BY <1>0, <2>1, <2>2, <2>4, CloseAttemptEffect DEF AttemptEffect, Succeeded
  <2>6. \A i \in JobIds : JobEffect(i)
    BY <2>1, <2>2, <2>3, <2>4, <2>5 DEF JobEffect
  <2> QED BY <1>0, <2>1, <2>5, <2>6 DEF StepEffect
<1>11. ASSUME NEW w \in Workers, NEW j \in JobIds, NEW a \in AttemptIds, NEW d \in RetryDelays,
              reschedule_for_retry(j, a, w, At(now + d))
       PROVE  StepEffect
  <2> DEFINE new == [Unlocked(jobs[j]) EXCEPT !.status = "queued", !.run_at = At(now + d)]
  <2>1. /\ jobs[j] \in Job /\ jobs[j] # None /\ jobs[j].status = "running" /\ OpenAttempt(a, j)
        /\ CloseAttempt(a, "failed", "HANDLER_FAILURE")
        /\ jobs' = [jobs EXCEPT ![j] = new] /\ UNCHANGED <<archive, last_attempt>>
    BY <1>0, <1>11 DEF reschedule_for_retry, HoldsLease, TypeOK
  <2>2. new # None /\ new.status = "queued"
    <3>1. At(now + d) \in Instants
      BY <1>0, AtType, InputsAssumption, HorizonAssumption DEF Instants, TypeOK
    <3>2. Unlocked(jobs[j]) \in Job
      BY <1>0, <2>1, UnlockedType DEF TypeOK
    <3>3. new \in Job /\ new.status = "queued"
      BY <3>1, <3>2 DEF Job, JobStatus
    <3> QED BY <3>3, AbsentAssumption
  <2> HIDE DEF new
  <2>3. \A i \in JobIds : JobEffect(i)
    BY <1>0, <2>1, <2>2, OneJobEffect DEF JobEffect
  <2>4. \A b \in AttemptIds : AttemptEffect(b)
    BY <1>0, <2>1, CloseAttemptEffect DEF AttemptEffect, ErrorCodes
  <2> QED BY <1>0, <2>1, <2>3, <2>4 DEF StepEffect
<1>12. ASSUME NEW w \in Workers, NEW j \in JobIds, NEW a \in AttemptIds, NEW reason \in DlqReasons,
              mark_dlq(j, a, w, reason)
       PROVE  StepEffect
  <2> DEFINE new == [Unlocked(jobs[j]) EXCEPT !.status = "dlq", !.dlq_reason_code = reason]
  <2>1. /\ jobs[j] \in Job /\ jobs[j] # None /\ jobs[j].status = "running" /\ OpenAttempt(a, j)
        /\ CloseAttempt(a, "failed", "HANDLER_FAILURE")
        /\ jobs' = [jobs EXCEPT ![j] = new] /\ UNCHANGED <<archive, last_attempt>>
    BY <1>0, <1>12 DEF mark_dlq, HoldsLease, TypeOK
  <2>2. new # None /\ new.status = "dlq"
    <3>1. Unlocked(jobs[j]) \in Job
      BY <1>0, <2>1, UnlockedType DEF TypeOK
    <3>2. new \in Job /\ new.status = "dlq"
      BY <3>1 DEF Job, JobStatus
    <3> QED BY <3>2, AbsentAssumption
  <2> HIDE DEF new
  <2>3. \A i \in JobIds : JobEffect(i)
    BY <1>0, <2>1, <2>2, OneJobEffect DEF JobEffect
  <2>4. \A b \in AttemptIds : AttemptEffect(b)
    BY <1>0, <2>1, CloseAttemptEffect DEF AttemptEffect, ErrorCodes
  <2> QED BY <1>0, <2>1, <2>3, <2>4 DEF StepEffect
<1>13. ASSUME reap_expired_locks PROVE StepEffect
  <2>1. UNCHANGED <<archive, last_attempt>>
    BY <1>13 DEF reap_expired_locks
  <2>2. ASSUME NEW j \in JobIds PROVE JobEffect(j)
    <3>1. CASE j \notin ExpiredLocks
      BY <1>13, <2>1, <3>1 DEF reap_expired_locks, JobEffect
    <3>2. CASE j \in ExpiredLocks
      <4>1. jobs[j] # None /\ jobs[j].status = "running"
        BY <3>2 DEF ExpiredLocks, Live
      <4>2. jobs'[j] = [Unlocked(jobs[j]) EXCEPT !.status = "queued"]
        BY <1>13, <3>2 DEF reap_expired_locks
      <4>3. jobs'[j] # None /\ jobs'[j].status = "queued"
        BY <1>0, <4>1, <4>2, UnlockedIsJob DEF JobStatus
      <4> QED BY <2>1, <4>1, <4>3 DEF JobEffect
    <3> QED BY <3>1, <3>2
  <2>3. ASSUME NEW a \in AttemptIds PROVE AttemptEffect(a)
    <3>1. CASE ~ \E j \in ExpiredLocks : OpenAttempt(a, j)
      BY <1>13, <3>1 DEF reap_expired_locks, AttemptEffect
    <3>2. CASE \E j \in ExpiredLocks : OpenAttempt(a, j)
      BY <1>0, <1>13, <3>2, FailedEffect DEF reap_expired_locks, OpenAttempt, ErrorCodes
    <3> QED BY <3>1, <3>2
  <2> QED BY <1>0, <2>1, <2>2, <2>3 DEF StepEffect
<1>14. ASSUME NEW cutoff \in Cutoffs, NEW limit \in BatchSizes,
              archive_succeeded_older_than(cutoff, limit)
       PROVE  StepEffect
  <2>1. PICK moved \in Limited({j \in Live : jobs[j].status = "succeeded" /\ jobs[j].updated_at < cutoff}, limit) :
          /\ archive' = [j \in JobIds |-> IF j \in moved THEN jobs[j] ELSE archive[j]]
          /\ jobs' = [j \in JobIds |-> IF j \in moved THEN None ELSE jobs[j]]
          /\ UNCHANGED <<attempts, last_attempt>>
    BY <1>14 DEF archive_succeeded_older_than
  <2>2. \A j \in moved : jobs[j] # None /\ jobs[j].status = "succeeded"
    BY DEF Limited, Live
  <2>3. \A j \in JobIds : JobEffect(j)
    BY <2>1, <2>2 DEF JobEffect
  <2> QED BY <1>a, <2>1, <2>3 DEF StepEffect
<1>15. ASSUME NEW cutoff \in Cutoffs, NEW limit \in BatchSizes,
              delete_history_for_succeeded_older_than(cutoff, limit)
       PROVE  StepEffect
  <2> DEFINE old == {a \in AttemptIds :
                       /\ attempts[a] # None
                       /\ attempts[a].started_at < cutoff
                       /\ archive[attempts[a].job_id] # None
                       /\ archive[attempts[a].job_id].updated_at < cutoff}
  <2>1. PICK removed \in Limited(old, limit) :
          /\ attempts' = [a \in AttemptIds |-> IF a \in removed THEN None ELSE attempts[a]]
          /\ UNCHANGED <<jobs, archive, last_attempt>>
    BY <1>15 DEF delete_history_for_succeeded_older_than
  <2>2. \A a \in removed : attempts[a] # None /\ archive[attempts[a].job_id] # None
    BY DEF Limited
  <2>3. \A a \in AttemptIds : AttemptEffect(a)
    BY <2>1, <2>2 DEF AttemptEffect
  <2> QED BY <1>0, <1>j, <2>1, <2>3 DEF StepEffect
<1> QED
  BY <1>1, <1>2, <1>3, <1>4, <1>5, <1>6, <1>7, <1>8, <1>9, <1>10, <1>11, <1>12, <1>13, <1>14,
     <1>15 DEF Next, Produce, Work, Archive

\* A terminal job is never changed again, only archived as it is, for every
\* sequence of calls (every operation that writes to jobs).
THEOREM TerminalJobsAreFinal == Spec => TerminalIsFinal
<1>1. JobInv /\ [Next]_vars => [TerminalKept]_vars
  <2> SUFFICES ASSUME JobInv, [Next]_vars PROVE TerminalKept
    OBVIOUS
  <2>1. \A j \in JobIds : JobEffect(j)
    BY StepHasEffect DEF StepEffect
  <2> QED BY <2>1 DEF JobEffect, TerminalKept, Terminal, Live, Unused
<1> QED BY <1>1, JobInvHolds, PTL DEF Spec, TerminalIsFinal

----------------------------------------------------------------------------
(* A job completes once                                                     *)

\* A job is in `jobs` or in `archive`, never in both.
OneHome == \A j \in JobIds : jobs[j] = None \/ archive[j] = None

\* An attempt belongs to a job that is known.
AttemptHasJob == \A a \in AttemptIds : attempts[a] # None => attempts[a].job_id \notin Unused

\* The ids that have not been handed out have no attempt.
NoFutureAttempt == \A a \in AttemptIds : a > last_attempt => attempts[a] = None

\* CompletedOnce alone is not inductive: a replayed or fresh id could meet old
\* attempts, a started attempt could overwrite a succeeded one, and history could be
\* deleted of a job that is still in `jobs`.
CompletionInv == OneHome /\ AttemptHasJob /\ NoFutureAttempt /\ CompletedOnce

\* Every operation keeps the completion of a job unique, given the types and the index.
LEMMA CompletionInvInductive ==
  JobInv /\ CompletionInv /\ [Next]_vars => CompletionInv'
<1> SUFFICES ASSUME JobInv, CompletionInv, [Next]_vars PROVE CompletionInv'
  OBVIOUS
<1>1. /\ last_attempt \in Nat /\ last_attempt' \in Nat /\ last_attempt <= last_attempt'
      /\ \A j \in JobIds : JobEffect(j)
      /\ \A a \in AttemptIds : AttemptEffect(a)
  BY StepHasEffect, AttemptsAssumption DEF StepEffect, JobInv, TypeOK
<1>2. \A a \in AttemptIds : attempts[a] # None => attempts[a].job_id \in JobIds
  BY DEF JobInv, TypeOK, Attempt
<1>3. OneHome'
  BY <1>1 DEF JobEffect, CompletionInv, OneHome, Unused
<1>4. AttemptHasJob'
  BY <1>1, <1>2 DEF JobEffect, AttemptEffect, CompletionInv, AttemptHasJob, Unused
<1>5. NoFutureAttempt'
  BY <1>1 DEF AttemptEffect, CompletionInv, NoFutureAttempt, AttemptIds
<1>6. CompletedOnce'
  <2> SUFFICES ASSUME NEW j \in JobIds
               PROVE  /\ \A a, b \in AttemptIds : Succeeded(a, j)' /\ Succeeded(b, j)' => a = b
                      /\ jobs'[j] # None =>
                           (jobs'[j].status = "succeeded" <=> \E a \in AttemptIds : Succeeded(a, j)')
    BY DEF CompletedOnce, Live
  <2>1. ASSUME NEW a \in AttemptIds, Succeeded(a, j)'
        PROVE  \/ Succeeded(a, j)
               \/ /\ jobs[j] # None /\ jobs[j].status = "running"
                  /\ jobs'[j] # None /\ jobs'[j].status = "succeeded"
                  /\ \A b \in AttemptIds : b # a => attempts'[b] = attempts[b]
    BY <1>1, <2>1 DEF AttemptEffect, Succeeded
  <2>2. ASSUME NEW a \in AttemptIds, Succeeded(a, j), jobs[j] # None
        PROVE  Succeeded(a, j)'
    <3>1. archive[j] = None
      BY <2>2 DEF CompletionInv, OneHome
    <3>2. a <= last_attempt
      BY <1>1, <2>2 DEF CompletionInv, NoFutureAttempt, AttemptIds, Succeeded
    <3> QED BY <1>1, <2>2, <3>1, <3>2 DEF AttemptEffect, Succeeded, AttemptIds
  <2>3. jobs[j] # None => (jobs[j].status = "succeeded" <=> \E a \in AttemptIds : Succeeded(a, j))
    BY DEF CompletionInv, CompletedOnce, Live
  <2>4. j \in Unused => \A a \in AttemptIds : ~ Succeeded(a, j)
    BY DEF CompletionInv, AttemptHasJob, Succeeded
  <2>5. \A a, b \in AttemptIds : Succeeded(a, j) /\ Succeeded(b, j) => a = b
    BY DEF CompletionInv, CompletedOnce
  <2>6. \A a, b \in AttemptIds : Succeeded(a, j)' /\ Succeeded(b, j)' => a = b
    BY <2>1, <2>3, <2>5 DEF Succeeded
  <2>7. jobs'[j] # None =>
          (jobs'[j].status = "succeeded" <=> \E a \in AttemptIds : Succeeded(a, j)')
    <3> SUFFICES ASSUME jobs'[j] # None
                 PROVE  jobs'[j].status = "succeeded" <=> \E a \in AttemptIds : Succeeded(a, j)'
      OBVIOUS
    <3>1. JobEffect(j)
      BY <1>1
    <3> QED BY <2>1, <2>2, <2>3, <2>4, <3>1 DEF JobEffect, Unused
  <2> QED BY <2>6, <2>7
<1> QED BY <1>3, <1>4, <1>5, <1>6 DEF CompletionInv

\* No two attempts of a job ever succeed, and a job in `jobs` is succeeded exactly
\* when one of its attempts is, for every sequence of calls (mark_succeeded against
\* reap_expired_locks, start_attempts_batch, replay and the deletion of history).
THEOREM JobsCompleteOnce == Spec => []CompletedOnce
<1>1. Init => CompletionInv
  BY DEF Init, CompletionInv, OneHome, AttemptHasJob, NoFutureAttempt, CompletedOnce, Live, Succeeded
<1> QED BY <1>1, JobInvHolds, CompletionInvInductive, PTL DEF Spec, CompletionInv

----------------------------------------------------------------------------
(* Idempotency keys                                                         *)

\* A job that is there after the step was there before, under the same key.
KeyKept(j) ==
  jobs'[j] # None => jobs[j] # None /\ jobs'[j].idempotency_key = jobs[j].idempotency_key

\* At most one job is new, and its key was free.
LEMMA KeysStayUnique ==
  ASSUME UniqueLiveKey, NEW id,
         \A j \in JobIds : j # id => KeyKept(j),
         \/ KeyKept(id)
         \/ jobs'[id].idempotency_key = None
         \/ ~ KeyTaken(jobs'[id].idempotency_key)
  PROVE  UniqueLiveKey'
  BY DEF UniqueLiveKey, KeyKept, KeyTaken, Live

\* No job is new.
LEMMA KeysKept ==
  ASSUME UniqueLiveKey, \A j \in JobIds : KeyKept(j)
  PROVE  UniqueLiveKey'
  BY DEF UniqueLiveKey, KeyKept, Live

\* One job is replaced by one with the same key.
LEMMA OneKeyKept ==
  ASSUME TypeOK, UniqueLiveKey, NEW j \in JobIds, NEW job, jobs[j] # None,
         job.idempotency_key = jobs[j].idempotency_key, jobs' = [jobs EXCEPT ![j] = job]
  PROVE  UniqueLiveKey'
<1>1. \A i \in JobIds : KeyKept(i)
  BY DEF KeyKept, TypeOK
<1> QED BY <1>1, KeysKept

\* Every operation keeps the keys unique: enqueue looks for the key among `jobs`, and
\* replays and next occurrences have none.
LEMMA KeysInductive == JobInv /\ UniqueLiveKey /\ [Next]_vars => UniqueLiveKey'
<1> SUFFICES ASSUME JobInv, UniqueLiveKey, [Next]_vars PROVE UniqueLiveKey'
  OBVIOUS
<1>0. TypeOK
  BY DEF JobInv
<1>1. CASE UNCHANGED jobs
  BY <1>1, KeysKept DEF KeyKept
<1>i. ASSUME NEW id \in Unused, NEW job \in Job, Inserted(id, job),
             job.idempotency_key = None \/ ~ KeyTaken(job.idempotency_key)
      PROVE  UniqueLiveKey'
  <2>1. id \in JobIds /\ jobs'[id] = job /\ \A j \in JobIds : j # id => jobs'[j] = jobs[j]
    BY <1>0, <1>i DEF Inserted, Unused, TypeOK
  <2> QED BY <1>i, <2>1, KeysStayUnique DEF KeyKept
<1>2. ASSUME NEW nj \in NewJobs, NEW id \in Unused, enqueue(nj, id) PROVE UniqueLiveKey'
  <2>1. ~ KeyTaken(nj.idempotency_key)
    BY <1>2 DEF enqueue
  <2> QED BY <1>0, <1>2, <1>i, <2>1, EnqueueInserts
<1>3. ASSUME NEW src \in JobIds, NEW id \in Unused, NEW q \in Queues, NEW t \in ReplayTimes,
             replay_job(src, id, q, IF t = None THEN now ELSE t)
      PROVE  UniqueLiveKey'
  <2>1. (IF t = None THEN now ELSE t) \in Instants
    BY <1>0, InputsAssumption DEF TypeOK
  <2> QED BY <1>0, <1>3, <1>i, <2>1, ReplayInserts
<1>u. ASSUME NEW j \in JobIds, jobs[j] # None, NEW s,
             jobs' = [jobs EXCEPT ![j] = [Unlocked(@) EXCEPT !.status = s]]
      PROVE  UniqueLiveKey'
  <2>1. jobs[j] \in Job
    BY <1>0, <1>u DEF TypeOK
  <2> QED BY <1>0, <1>u, <2>1, UnlockedFields, OneKeyKept
<1>4. ASSUME NEW j \in JobIds, cancel_queued_job(j) PROVE UniqueLiveKey'
  BY <1>4, <1>u DEF cancel_queued_job
<1>5. ASSUME NEW w \in Workers, NEW q \in Queues, NEW n \in BatchSizes, lease_jobs_batch(q, w, n)
      PROVE  UniqueLiveKey'
  <2>1. ASSUME NEW j \in JobIds PROVE KeyKept(j)
    <3>1. \/ jobs'[j] = jobs[j]
          \/ /\ jobs[j] # None /\ jobs[j] \in Job
             /\ jobs'[j] \in {Leased(jobs[j], w), PastDeadline(jobs[j])}
      BY <1>0, <1>5, LeaseEffect DEF TypeOK
    <3> QED BY <3>1, LeasedFields DEF KeyKept
  <2> QED BY <2>1, KeysKept
<1>6. ASSUME NEW w \in Workers, NEW j \in JobIds, extend_lease(j, w) PROVE UniqueLiveKey'
  <2> DEFINE new == [jobs[j] EXCEPT !.lock_expires_at = At(now + LeaseSeconds), !.updated_at = now]
  <2>1. jobs[j] \in Job /\ jobs[j] # None
    BY <1>0, <1>6 DEF extend_lease, HoldsLease, TypeOK
  <2>2. jobs' = [jobs EXCEPT ![j] = new] /\ new.idempotency_key = jobs[j].idempotency_key
    BY <1>6, <2>1 DEF extend_lease, Job
  <2> QED BY <1>0, <2>1, <2>2, OneKeyKept
<1>7. ASSUME NEW w \in Workers, NEW j \in JobIds, cancel_running_job(j, w) PROVE UniqueLiveKey'
  BY <1>7, <1>u DEF cancel_running_job, HoldsLease
<1>8. ASSUME NEW w \in Workers, NEW j \in JobIds, NEW a \in AttemptIds, mark_succeeded_once(j, a, w)
      PROVE  UniqueLiveKey'
  BY <1>8, <1>u DEF mark_succeeded_once, HoldsLease
<1>9. ASSUME NEW w \in Workers, NEW j \in JobIds, NEW a \in AttemptIds, NEW id \in Unused,
             mark_succeeded_recurring(j, a, w, id)
      PROVE  UniqueLiveKey'
  <2> DEFINE new == [Unlocked(jobs[j]) EXCEPT !.status = "succeeded"]
  <2>1. /\ jobs[j] \in Job /\ jobs[j] # None /\ jobs[j].recurring_interval_seconds # None
        /\ id \in JobIds /\ jobs[id] = None
        /\ jobs' = [jobs EXCEPT ![j] = new, ![id] = NextOccurrence(j)]
    BY <1>0, <1>9 DEF mark_succeeded_recurring, HoldsLease, Unused, TypeOK
  <2>2. new.idempotency_key = jobs[j].idempotency_key
    BY <2>1, UnlockedFields
  <2>3. NextOccurrence(j).idempotency_key = None
    BY <1>0, <2>1, NextOccurrenceType
  <2> HIDE DEF new
  <2>4. jobs'[id].idempotency_key = None /\ \A i \in JobIds : i # id => KeyKept(i)
    BY <1>0, <2>1, <2>2, <2>3 DEF KeyKept, TypeOK
  <2> QED BY <2>4, KeysStayUnique
<1>10. ASSUME NEW w \in Workers, NEW j \in JobIds, NEW a \in AttemptIds, NEW d \in RetryDelays,
              reschedule_for_retry(j, a, w, At(now + d))
       PROVE  UniqueLiveKey'
  <2> DEFINE new == [Unlocked(jobs[j]) EXCEPT !.status = "queued", !.run_at = At(now + d)]
  <2>1. jobs[j] \in Job /\ jobs[j] # None /\ jobs' = [jobs EXCEPT ![j] = new]
    BY <1>0, <1>10 DEF reschedule_for_retry, HoldsLease, TypeOK
  <2>2. new.idempotency_key = jobs[j].idempotency_key
    BY <2>1 DEF Unlocked, Job
  <2> QED BY <1>0, <2>1, <2>2, OneKeyKept
<1>11. ASSUME NEW w \in Workers, NEW j \in JobIds, NEW a \in AttemptIds, NEW reason \in DlqReasons,
              mark_dlq(j, a, w, reason)
       PROVE  UniqueLiveKey'
  <2> DEFINE new == [Unlocked(jobs[j]) EXCEPT !.status = "dlq", !.dlq_reason_code = reason]
  <2>1. jobs[j] \in Job /\ jobs[j] # None /\ jobs' = [jobs EXCEPT ![j] = new]
    BY <1>0, <1>11 DEF mark_dlq, HoldsLease, TypeOK
  <2>2. new.idempotency_key = jobs[j].idempotency_key
    BY <2>1 DEF Unlocked, Job
  <2> QED BY <1>0, <2>1, <2>2, OneKeyKept
<1>12. ASSUME reap_expired_locks PROVE UniqueLiveKey'
  <2>1. \A j \in ExpiredLocks : jobs[j] \in Job /\ jobs[j] # None
    BY <1>0 DEF ExpiredLocks, Live, TypeOK
  <2>2. ASSUME NEW j \in JobIds PROVE KeyKept(j)
    BY <1>12, <2>1, UnlockedFields DEF reap_expired_locks, KeyKept
  <2> QED BY <2>2, KeysKept
<1>13. ASSUME NEW cutoff \in Cutoffs, NEW limit \in BatchSizes,
              archive_succeeded_older_than(cutoff, limit)
       PROVE  UniqueLiveKey'
  BY <1>13, KeysKept DEF archive_succeeded_older_than, KeyKept
<1>14. ASSUME Tick \/ (\E w \in Workers, js \in Batches : start_attempts_batch(js, w))
              \/ (\E cutoff \in Cutoffs, limit \in BatchSizes :
                    delete_history_for_succeeded_older_than(cutoff, limit))
              \/ UNCHANGED vars
       PROVE  UNCHANGED jobs
  BY <1>14 DEF Tick, start_attempts_batch, delete_history_for_succeeded_older_than, vars
<1> QED
  BY <1>1, <1>2, <1>3, <1>4, <1>5, <1>6, <1>7, <1>8, <1>9, <1>10, <1>11, <1>12, <1>13, <1>14
     DEF Next, Produce, Work, Archive

\* Two jobs in `jobs` never share an idempotency key, for every sequence of calls:
\* enqueue against replay_job, the recurrence of mark_succeeded and archiving, which
\* frees the key.
THEOREM KeysAreUnique == Spec => []UniqueLiveKey
<1>1. Init => UniqueLiveKey
  BY DEF Init, UniqueLiveKey, Live
<1> QED BY <1>1, JobInvHolds, KeysInductive, PTL DEF Spec

----------------------------------------------------------------------------
(* The numbers of attempts                                                  *)

\* The step closes the attempt with a status and a code.
ClosedAs(a, s, c) == attempts'[a] = [attempts[a] EXCEPT !.status = s, !.error_code = c]

\* A closed attempt is the attempt it was, with its new status and code.
LEMMA ClosedFields ==
  ASSUME TypeOK, NEW a \in AttemptIds, attempts[a] # None,
         NEW s \in {"succeeded", "failed"}, NEW c \in ErrorCodes \cup {None},
         ClosedAs(a, s, c)
  PROVE  /\ attempts'[a] # None
         /\ attempts'[a].job_id = attempts[a].job_id
         /\ attempts'[a].attempt_no = attempts[a].attempt_no
         /\ attempts'[a].worker_id = attempts[a].worker_id
         /\ attempts'[a].status = s
         /\ attempts'[a].error_code = c
<1>1. attempts[a] \in Attempt
  BY DEF TypeOK
<1>2. attempts'[a] \in Attempt
  BY <1>1 DEF Attempt, ClosedAs
<1>3. /\ attempts'[a].job_id = attempts[a].job_id /\ attempts'[a].attempt_no = attempts[a].attempt_no
      /\ attempts'[a].worker_id = attempts[a].worker_id
      /\ attempts'[a].status = s /\ attempts'[a].error_code = c
  BY <1>1 DEF Attempt, ClosedAs
<1> QED BY <1>2, <1>3, AbsentAssumption

\* Finishing an attempt closes it and no other (CloseAttempt).
LEMMA CloseAttemptFields ==
  ASSUME TypeOK, NEW a \in AttemptIds, NEW j, OpenAttempt(a, j),
         NEW s \in {"succeeded", "failed"}, NEW c \in ErrorCodes \cup {None}, CloseAttempt(a, s, c)
  PROVE  /\ attempts'[a] # None
         /\ attempts'[a].job_id = attempts[a].job_id
         /\ attempts'[a].attempt_no = attempts[a].attempt_no
         /\ attempts'[a].worker_id = attempts[a].worker_id
         /\ attempts'[a].status = s
         /\ attempts'[a].error_code = c
         /\ \A b \in AttemptIds : b # a => attempts'[b] = attempts[b]
<1>1. attempts[a] \in Attempt /\ attempts[a] # None
  BY DEF TypeOK, OpenAttempt
<1>2. attempts' = [attempts EXCEPT ![a] = [@ EXCEPT !.status = s, !.error_code = c]]
  BY <1>1 DEF CloseAttempt, Attempt
<1>3. ClosedAs(a, s, c)
  BY <1>2 DEF TypeOK, ClosedAs
<1>4. \A b \in AttemptIds : b # a => attempts'[b] = attempts[b]
  BY <1>2 DEF TypeOK
<1> QED BY <1>1, <1>3, <1>4, ClosedFields

\* An attempt that failed says why: reap_expired_locks, cancel_job, reschedule_for_retry
\* and mark_dlq all write an error code.
FailureCoded ==
  \A a \in AttemptIds :
    attempts[a] # None /\ attempts[a].status = "failed" => attempts[a].error_code \in ErrorCodes

\* The attempts and their numbers, with what a started attempt must not run into.
HistoryInv == AttemptsNumbered /\ FailureCoded

\* An attempt that is there after the step was there before, for the same job and
\* under the same number, and if the step failed it, it has a code.
AttemptKept(a) ==
  attempts'[a] # None =>
    /\ attempts[a] # None
    /\ attempts'[a].job_id = attempts[a].job_id
    /\ attempts'[a].attempt_no = attempts[a].attempt_no
    /\ attempts'[a].status = "failed" => attempts'[a] = attempts[a] \/ attempts'[a].error_code \in ErrorCodes

\* Every operation but start_attempts_batch only closes or deletes attempts.
LEMMA OnlyStartsNumber ==
  ASSUME JobInv, [Next]_vars, ~ \E w \in Workers, js \in Batches : start_attempts_batch(js, w)
  PROVE  UNCHANGED attempt_counts /\ \A a \in AttemptIds : AttemptKept(a)
<1> DEFINE Goal == UNCHANGED attempt_counts /\ \A a \in AttemptIds : AttemptKept(a)
<1>0. TypeOK
  BY DEF JobInv
<1>1. CASE UNCHANGED <<attempts, attempt_counts>>
  BY <1>1 DEF AttemptKept
<1>c. ASSUME NEW j \in JobIds, NEW a \in AttemptIds, OpenAttempt(a, j), NEW s \in {"succeeded", "failed"},
             NEW c \in ErrorCodes \cup {None}, s = "failed" => c \in ErrorCodes,
             CloseAttempt(a, s, c), UNCHANGED attempt_counts
      PROVE  Goal
  <2>1. attempts[a] # None
    BY <1>c DEF OpenAttempt
  <2> QED BY <1>0, <1>c, <2>1, CloseAttemptFields DEF AttemptKept
<1>2. ASSUME NEW w \in Workers, NEW j \in JobIds, cancel_running_job(j, w) PROVE Goal
  <2>1. ASSUME NEW a \in AttemptIds PROVE AttemptKept(a)
    <3>1. CASE ~ LatestOpen(a, j)
      BY <1>2, <3>1 DEF cancel_running_job, AttemptKept
    <3>2. CASE LatestOpen(a, j)
      <4>1. attempts[a] # None
        BY <3>2 DEF LatestOpen, OpenAttempt
      <4>2. ClosedAs(a, "failed", "CANCELLED")
        BY <1>2, <3>2 DEF cancel_running_job, ClosedAs
      <4>3. "CANCELLED" \in ErrorCodes
        BY DEF ErrorCodes
      <4> QED BY <1>0, <4>1, <4>2, <4>3, ClosedFields DEF AttemptKept
    <3> QED BY <3>1, <3>2
  <2> QED BY <1>2, <2>1 DEF cancel_running_job
<1>3. ASSUME NEW w \in Workers, NEW j \in JobIds, NEW a \in AttemptIds,
             \/ mark_succeeded_once(j, a, w)
             \/ \E id \in Unused : mark_succeeded_recurring(j, a, w, id)
      PROVE  Goal
  BY <1>3, <1>c DEF mark_succeeded_once, mark_succeeded_recurring
<1>4. ASSUME NEW w \in Workers, NEW j \in JobIds, NEW a \in AttemptIds,
             \/ \E d \in RetryDelays : reschedule_for_retry(j, a, w, At(now + d))
             \/ \E reason \in DlqReasons : mark_dlq(j, a, w, reason)
      PROVE  Goal
  <2>1. OpenAttempt(a, j) /\ CloseAttempt(a, "failed", "HANDLER_FAILURE") /\ UNCHANGED attempt_counts
    BY <1>4 DEF reschedule_for_retry, mark_dlq
  <2>2. "HANDLER_FAILURE" \in ErrorCodes
    BY DEF ErrorCodes
  <2> QED BY <1>c, <2>1, <2>2
<1>5. ASSUME reap_expired_locks PROVE Goal
  <2>1. ASSUME NEW a \in AttemptIds PROVE AttemptKept(a)
    <3>1. CASE ~ \E j \in ExpiredLocks : OpenAttempt(a, j)
      BY <1>5, <3>1 DEF reap_expired_locks, AttemptKept
    <3>2. CASE \E j \in ExpiredLocks : OpenAttempt(a, j)
      <4>1. attempts[a] # None
        BY <3>2 DEF OpenAttempt
      <4>2. ClosedAs(a, "failed", "LEASE_EXPIRED")
        BY <1>5, <3>2 DEF reap_expired_locks, ClosedAs
      <4>3. "LEASE_EXPIRED" \in ErrorCodes
        BY DEF ErrorCodes
      <4> QED BY <1>0, <4>1, <4>2, <4>3, ClosedFields DEF AttemptKept
    <3> QED BY <3>1, <3>2
  <2> QED BY <1>5, <2>1 DEF reap_expired_locks
<1>6. ASSUME NEW cutoff \in Cutoffs, NEW limit \in BatchSizes,
             delete_history_for_succeeded_older_than(cutoff, limit)
      PROVE  Goal
  BY <1>6 DEF delete_history_for_succeeded_older_than, AttemptKept
<1>7. ASSUME \/ Tick \/ UNCHANGED vars
             \/ \E nj \in NewJobs, id \in Unused : enqueue(nj, id)
             \/ \E src \in JobIds, id \in Unused, q \in Queues, t \in ReplayTimes :
                  replay_job(src, id, q, IF t = None THEN now ELSE t)
             \/ \E j \in JobIds : cancel_queued_job(j)
             \/ \E w \in Workers, q \in Queues, n \in BatchSizes : lease_jobs_batch(q, w, n)
             \/ \E w \in Workers, j \in JobIds : extend_lease(j, w)
             \/ \E cutoff \in Cutoffs, limit \in BatchSizes : archive_succeeded_older_than(cutoff, limit)
      PROVE  UNCHANGED <<attempts, attempt_counts>>
  BY <1>7 DEF Tick, vars, enqueue, replay_job, cancel_queued_job, lease_jobs_batch, extend_lease,
              archive_succeeded_older_than
<1> HIDE DEF Goal
<1>8. Goal
  BY <1>1, <1>2, <1>3, <1>4, <1>5, <1>6, <1>7 DEF Next, Produce, Work, Archive, Goal
<1> QED BY <1>8 DEF Goal

\* The step starts one attempt for each of the first n jobs of js, which w has leased,
\* under the next ids.
Started(js, w, n) ==
  /\ last_attempt' = last_attempt + n
  /\ \A i \in 1 .. n : js[i] \in JobIds /\ HoldsLease(js[i], w) /\ last_attempt + i \in AttemptIds
  /\ \A i, k \in 1 .. n : js[i] = js[k] => i = k
  /\ \A a \in AttemptIds :
       IF a \in last_attempt + 1 .. last_attempt + n
       THEN /\ attempts'[a] # None
            /\ attempts'[a].job_id = js[a - last_attempt]
            /\ attempts'[a].attempt_no = attempt_counts[js[a - last_attempt]] + 1
            /\ attempts'[a].status = "running"
            /\ attempts'[a].worker_id = w
            /\ attempts'[a].error_code = None
       ELSE attempts'[a] = attempts[a]
  /\ \A j \in JobIds :
       attempt_counts'[j] = IF \E i \in 1 .. n : js[i] = j THEN attempt_counts[j] + 1
                                                          ELSE attempt_counts[j]
  /\ UNCHANGED <<now, jobs, queued_jobs, archive>>

\* What start_attempts_batch does to the attempts, also when it bails out half-way.
LEMMA StartsAttempts ==
  ASSUME TypeOK, NEW w \in Workers, NEW js \in Batches, start_attempts_batch(js, w)
  PROVE  \E n \in Nat : Started(js, w, n)
<1>1. last_attempt \in Nat
  BY AttemptsAssumption DEF TypeOK
<1>2. PICK n \in 0 .. Len(js) :
        /\ Reaches(js, w, n)
        /\ last_attempt + n <= MaxAttemptId
        /\ attempts' = [a \in AttemptIds |->
             IF a \in last_attempt + 1 .. last_attempt + n
             THEN [job_id |-> js[a - last_attempt], attempt_no |-> NextNo(js[a - last_attempt]),
                   status |-> "running", worker_id |-> w, started_at |-> now, error_code |-> None]
             ELSE attempts[a]]
        /\ attempt_counts' = [j \in JobIds |->
             IF \E i \in 1 .. n : js[i] = j THEN NextNo(j) ELSE attempt_counts[j]]
        /\ last_attempt' = last_attempt + n
        /\ UNCHANGED <<now, jobs, queued_jobs, archive>>
  BY DEF start_attempts_batch
<1>3. n \in Nat /\ \A i \in 1 .. n : js[i] \in JobIds
  BY DEF Batches
<1>4. \A i, k \in 1 .. n : js[i] = js[k] => i = k
  BY DEF Batches
<1>5. \A i \in 1 .. n : HoldsLease(js[i], w)
  BY <1>2 DEF Reaches
<1>6. \A i \in 1 .. n : last_attempt + i \in AttemptIds
  BY <1>1, <1>2, <1>3, AttemptsAssumption DEF AttemptIds
<1>7. ASSUME NEW a \in AttemptIds, a \in last_attempt + 1 .. last_attempt + n
      PROVE  /\ attempts'[a] # None
             /\ attempts'[a].job_id = js[a - last_attempt]
             /\ attempts'[a].attempt_no = attempt_counts[js[a - last_attempt]] + 1
             /\ attempts'[a].status = "running"
             /\ attempts'[a].worker_id = w
             /\ attempts'[a].error_code = None
  <2>1. a - last_attempt \in 1 .. n
    BY <1>1, <1>3, <1>7 DEF AttemptIds
  <2>2. js[a - last_attempt] \in JobIds /\ NextNo(js[a - last_attempt]) \in Nat
    BY <1>3, <2>1 DEF NextNo, TypeOK
  <2>3. attempts'[a] = [job_id |-> js[a - last_attempt], attempt_no |-> NextNo(js[a - last_attempt]),
                   status |-> "running", worker_id |-> w, started_at |-> now, error_code |-> None]
    BY <1>2, <1>7
  <2>4. attempts'[a] \in Attempt
    BY <2>2, <2>3 DEF Attempt, TypeOK
  <2> QED BY <2>3, <2>4, AbsentAssumption DEF NextNo
<1>8. \A a \in AttemptIds : a \notin last_attempt + 1 .. last_attempt + n => attempts'[a] = attempts[a]
  BY <1>2
<1>9. \A j \in JobIds :
        attempt_counts'[j] = IF \E i \in 1 .. n : js[i] = j THEN attempt_counts[j] + 1
                                                           ELSE attempt_counts[j]
  BY <1>2 DEF NextNo
<1> QED BY <1>2, <1>3, <1>4, <1>5, <1>6, <1>7, <1>8, <1>9 DEF Started

\* Numbering survives every operation: a new attempt gets a number above every number
\* its job has handed out, and an id above every attempt there is.
LEMMA HistoryInductive ==
  JobInv /\ NoFutureAttempt /\ HistoryInv /\ [Next]_vars => HistoryInv'
<1> SUFFICES ASSUME JobInv, NoFutureAttempt, HistoryInv, [Next]_vars PROVE HistoryInv'
  OBVIOUS
<1>0. TypeOK /\ last_attempt \in Nat
  BY AttemptsAssumption DEF JobInv, TypeOK
<1>t. \A a \in AttemptIds : attempts[a] # None =>
        /\ attempts[a].job_id \in JobIds /\ attempts[a].attempt_no \in Nat
        /\ attempt_counts[attempts[a].job_id] \in Nat
  BY <1>0 DEF TypeOK, Attempt
<1>1. CASE ~ \E w \in Workers, js \in Batches : start_attempts_batch(js, w)
  <2>1. attempt_counts' = attempt_counts /\ \A a \in AttemptIds : AttemptKept(a)
    BY <1>1, OnlyStartsNumber
  <2>2. AttemptsNumbered'
    BY <2>1 DEF AttemptsNumbered, HistoryInv, AttemptKept
  <2>3. FailureCoded'
    BY <2>1 DEF FailureCoded, HistoryInv, AttemptKept
  <2> QED BY <2>2, <2>3 DEF HistoryInv
<1>2. ASSUME NEW w \in Workers, NEW js \in Batches, start_attempts_batch(js, w)
      PROVE  HistoryInv'
  <2>1. PICK n \in Nat : Started(js, w, n)
    BY <1>0, <1>2, StartsAttempts
  <2> DEFINE new == last_attempt + 1 .. last_attempt + n
  <2>2. \A a \in AttemptIds : a \notin new => attempts'[a] = attempts[a]
    BY <2>1 DEF Started
  <2>3. \A a \in AttemptIds : a \in new =>
          /\ attempts'[a] # None /\ attempts'[a].status = "running"
          /\ a - last_attempt \in 1 .. n
          /\ attempts'[a].job_id = js[a - last_attempt] /\ js[a - last_attempt] \in JobIds
          /\ attempts'[a].attempt_no = attempt_counts[attempts'[a].job_id] + 1
          /\ attempt_counts'[attempts'[a].job_id] = attempt_counts[attempts'[a].job_id] + 1
          /\ attempt_counts[attempts'[a].job_id] \in Nat
    BY <1>0, <2>1 DEF Started, AttemptIds, TypeOK
  <2>4. \A a \in AttemptIds : a \notin new /\ attempts'[a] # None => a <= last_attempt
    BY <1>0, <2>2 DEF NoFutureAttempt, AttemptIds
  <2>5. \A j \in JobIds : attempt_counts[j] \in Nat /\ attempt_counts'[j] \in Nat
                          /\ attempt_counts[j] <= attempt_counts'[j]
    BY <1>0, <2>1 DEF Started, TypeOK
  <2>6. FailureCoded'
    BY <2>2, <2>3 DEF FailureCoded, HistoryInv
  <2>7. ASSUME NEW a \in AttemptIds, attempts'[a] # None
        PROVE  attempts'[a].attempt_no \in 1 .. attempt_counts'[attempts'[a].job_id]
    BY <1>t, <2>2, <2>3, <2>5, <2>7 DEF HistoryInv, AttemptsNumbered
  <2>8. ASSUME NEW a \in AttemptIds, NEW b \in AttemptIds, attempts'[a] # None, attempts'[b] # None,
               attempts'[b].job_id = attempts'[a].job_id, a < b
        PROVE  attempts'[a].attempt_no < attempts'[b].attempt_no
    <3>1. CASE a \in new /\ b \in new
      <4>1. a - last_attempt = b - last_attempt
        BY <2>1, <2>3, <2>8, <3>1 DEF Started
      <4> QED BY <1>0, <2>8, <4>1 DEF AttemptIds
    <3>2. CASE a \in new /\ b \notin new
      BY <1>0, <2>4, <2>8, <3>2 DEF AttemptIds
    <3>3. CASE a \notin new /\ b \in new
      <4>1. attempts[a] # None /\ attempts'[a] = attempts[a]
        BY <2>2, <2>8, <3>3
      <4>2. attempts[a].attempt_no \in 1 .. attempt_counts[attempts[a].job_id]
        BY <4>1 DEF HistoryInv, AttemptsNumbered
      <4> QED BY <1>t, <2>3, <2>8, <3>3, <4>1, <4>2
    <3>4. CASE a \notin new /\ b \notin new
      BY <2>2, <2>8, <3>4 DEF HistoryInv, AttemptsNumbered
    <3> QED BY <3>1, <3>2, <3>3, <3>4
  <2>9. AttemptsNumbered'
    BY <2>7, <2>8 DEF AttemptsNumbered
  <2> QED BY <2>6, <2>9 DEF HistoryInv
<1> QED BY <1>1, <1>2

\* The invariants of MemoryBackend together: what the contract is proved from.
BackendInv == JobInv /\ CompletionInv /\ HistoryInv

\* They hold after every sequence of calls.
LEMMA BackendInvHolds == Spec => []BackendInv
<1>1. Init => CompletionInv /\ HistoryInv
  BY DEF Init, CompletionInv, OneHome, AttemptHasJob, NoFutureAttempt, CompletedOnce, Live, Succeeded,
         HistoryInv, AttemptsNumbered, FailureCoded
<1>2. JobInv /\ CompletionInv /\ HistoryInv /\ [Next]_vars => CompletionInv' /\ HistoryInv'
  BY CompletionInvInductive, HistoryInductive DEF CompletionInv
<1> QED BY <1>1, <1>2, JobInvHolds, PTL DEF Spec, BackendInv

\* The attempts of a job are numbered in the order they were started, no number comes
\* twice and none is above the count, for every sequence of calls and also after
\* history was deleted (start_attempts_batch; cancel_job finds the latest attempt by it).
THEOREM AttemptsAreNumbered == Spec => []AttemptsNumbered
  BY BackendInvHolds, PTL DEF BackendInv, HistoryInv

----------------------------------------------------------------------------
(* The contract                                                             *)

\* The outcomes of the attempts of a job, as the contract sees them.
OutcomesOf(j) == [a \in AttemptIds |-> OutcomeOf(a, j)]

\* A view of a job, by its parts.
ViewWith(status, holder, expiry, run_at, attempt) ==
  [status |-> status, holder |-> holder, expiry |-> expiry, run_at |-> run_at, attempt |-> attempt]

\* The view of a job in the map `jobs`, and of one that is not.
RowView(job, outcomes) ==
  ViewWith(job.status, job.locked_by, job.lock_expires_at, job.run_at, outcomes)

\* The attempt is one of the job's.
AttemptOf(a, j) == attempts[a] # None /\ attempts[a].job_id = j

\* What the contract sees of a job that is in `jobs`, and of one that is not.
LEMMA ViewFields ==
  ASSUME NEW j \in JobIds
  PROVE  /\ jobs[j] # None => ViewOf(j) = RowView(jobs[j], OutcomesOf(j))
         /\ jobs[j] = None /\ archive[j] # None => ViewOf(j) = Contract!Gone("archived")
         /\ jobs[j] = None /\ archive[j] = None => ViewOf(j) = Contract!Gone("absent")
<1>1. jobs[j] # None => ViewOf(j) = RowView(jobs[j], OutcomesOf(j))
  BY DEF ViewOf, RowView, ViewWith, OutcomesOf
<1>2. jobs[j] = None => [a \in AttemptIds |-> OutcomeOf(a, j)] = Contract!NoAttempts
  BY DEF OutcomeOf, Contract!NoAttempts
<1> QED BY <1>1, <1>2 DEF ViewOf, Contract!Gone

\* The same after a step.
LEMMA ViewFieldsNext ==
  ASSUME NEW j \in JobIds
  PROVE  /\ jobs'[j] # None => ViewOf(j)' = RowView(jobs'[j], OutcomesOf(j)')
         /\ jobs'[j] = None /\ archive'[j] # None => ViewOf(j)' = Contract!Gone("archived")
         /\ jobs'[j] = None /\ archive'[j] = None => ViewOf(j)' = Contract!Gone("absent")
<1>1. jobs'[j] # None => ViewOf(j)' = RowView(jobs'[j], OutcomesOf(j)')
  BY DEF ViewOf, RowView, ViewWith, OutcomesOf
<1>2. jobs'[j] = None => [a \in AttemptIds |-> OutcomeOf(a, j)]' = Contract!NoAttempts
  BY DEF OutcomeOf, Contract!NoAttempts
<1> QED BY <1>1, <1>2 DEF ViewOf, Contract!Gone

\* A job whose row and whose attempts stay as they are looks the same.
LEMMA ViewKept ==
  ASSUME NEW j \in JobIds, jobs'[j] = jobs[j], archive'[j] = archive[j],
         \A a \in AttemptIds : attempts'[a] = attempts[a] \/ (~ AttemptOf(a, j) /\ ~ AttemptOf(a, j)')
  PROVE  ViewOf(j)' = ViewOf(j)
<1>1. \A a \in AttemptIds : OutcomeOf(a, j)' = OutcomeOf(a, j)
  BY DEF OutcomeOf, AttemptOf
<1>2. [a \in AttemptIds |-> OutcomeOf(a, j)]' = [a \in AttemptIds |-> OutcomeOf(a, j)]
  BY <1>1
<1> QED BY <1>2 DEF ViewOf

\* A job that stays in `jobs` and whose attempts stay keeps their outcomes.
LEMMA OutcomesKept ==
  ASSUME NEW j \in JobIds, jobs[j] # None, jobs'[j] # None,
         \A a \in AttemptIds : attempts'[a] = attempts[a] \/ (~ AttemptOf(a, j) /\ ~ AttemptOf(a, j)')
  PROVE  OutcomesOf(j)' = OutcomesOf(j)
<1>1. \A a \in AttemptIds : OutcomeOf(a, j)' = OutcomeOf(a, j)
  BY DEF OutcomeOf, AttemptOf
<1> QED BY <1>1 DEF OutcomesOf

\* One attempt of the job changes.
LEMMA OneOutcome ==
  ASSUME NEW j \in JobIds, jobs[j] # None, jobs'[j] # None, NEW a \in AttemptIds,
         \A b \in AttemptIds :
           b # a => attempts'[b] = attempts[b] \/ (~ AttemptOf(b, j) /\ ~ AttemptOf(b, j)')
  PROVE  OutcomesOf(j)' = [OutcomesOf(j) EXCEPT ![a] = OutcomeOf(a, j)']
<1>1. \A b \in AttemptIds : b # a => OutcomeOf(b, j)' = OutcomeOf(b, j)
  BY DEF OutcomeOf, AttemptOf
<1> QED BY <1>1 DEF OutcomesOf

\* What the contract sees is a view of a job.
LEMMA ViewTypeNext ==
  ASSUME TypeOK', FailureCoded', NEW j \in JobIds
  PROVE  ViewOf(j)' \in Contract!View
<1>1. ASSUME NEW a \in AttemptIds
      PROVE  OutcomeOf(a, j)' \in Contract!AttemptOutcomes \cup {"none", "open"}
  BY DEF OutcomeOf, Contract!AttemptOutcomes, TypeOK, Attempt, FailureCoded, ErrorCodes
<1>2. [a \in AttemptIds |-> OutcomeOf(a, j)]' \in
        [AttemptIds -> Contract!AttemptOutcomes \cup {"none", "open"}]
  BY <1>1
<1>3. jobs'[j] # None => jobs'[j] \in Job
  BY DEF TypeOK
<1> QED BY <1>2, <1>3 DEF ViewOf, Contract!View, Contract!States, Job, JobStatus

\* What a step of the backend is to one job: a step of the contract, or none.
ContractStep(j) == ViewOf(j)' = ViewOf(j) \/ Contract!JobStep(ViewOf(j), ViewOf(j)')

\* A job that enters `jobs` is committed: no attempt is left from before, because ids
\* that are not in use have none (enqueue, replay_job, the recurrence of mark_succeeded).
LEMMA CommitStep ==
  ASSUME AttemptHasJob, NEW id \in Unused,
         jobs'[id] # None, jobs'[id].status = "queued", jobs'[id].locked_by = None,
         jobs'[id].lock_expires_at = None,
         \A a \in AttemptIds : attempts'[a] = attempts[a] \/ ~ AttemptOf(a, id)'
  PROVE  ContractStep(id)
<1>1. id \in JobIds /\ jobs[id] = None /\ archive[id] = None
  BY DEF Unused
<1>2. ViewOf(id) = Contract!Gone("absent")
  BY <1>1, ViewFields
<1>3. ViewOf(id)' = RowView(jobs'[id], OutcomesOf(id)')
  BY <1>1, ViewFieldsNext
<1>4. \A a \in AttemptIds : OutcomeOf(a, id)' = "none"
  BY DEF AttemptHasJob, OutcomeOf, AttemptOf
<1>5. OutcomesOf(id)' = Contract!NoAttempts
  BY <1>4 DEF OutcomesOf, Contract!NoAttempts
<1>6. Contract!Commit(ViewOf(id), ViewOf(id)')
  BY <1>2, <1>3, <1>5 DEF Contract!Commit, Contract!Gone, Contract!Queued, RowView, ViewWith
<1> QED BY <1>6 DEF ContractStep, Contract!JobStep

\* The report of a worker closes one open attempt of its job and touches no other job.
LEMMA ClosingStep ==
  ASSUME TypeOK, NEW j \in JobIds, NEW a \in AttemptIds, OpenAttempt(a, j),
         NEW s \in {"succeeded", "failed"}, NEW c \in ErrorCodes \cup {None}, CloseAttempt(a, s, c),
         jobs[j] # None, jobs'[j] # None, UNCHANGED archive
  PROVE  /\ Contract!OneAttempt(ViewOf(j), ViewOf(j)', "open", IF s = "succeeded" THEN s ELSE c)
         /\ \A i \in JobIds : i # j /\ jobs'[i] = jobs[i] => ViewOf(i)' = ViewOf(i)
<1>1. /\ attempts'[a] # None /\ attempts'[a].job_id = j /\ attempts'[a].status = s
      /\ attempts'[a].error_code = c
      /\ \A b \in AttemptIds : b # a => attempts'[b] = attempts[b]
  BY CloseAttemptFields DEF OpenAttempt
<1>2. OutcomeOf(a, j) = "open" /\ OutcomeOf(a, j)' = IF s = "succeeded" THEN s ELSE c
  BY <1>1 DEF OutcomeOf, OpenAttempt
<1>3. OutcomesOf(j)' = [OutcomesOf(j) EXCEPT ![a] = OutcomeOf(a, j)']
  BY <1>1, OneOutcome
<1>4. ViewOf(j).attempt = OutcomesOf(j) /\ ViewOf(j)'.attempt = OutcomesOf(j)'
  BY ViewFields, ViewFieldsNext DEF RowView, ViewWith
<1>5. OutcomesOf(j)[a] = OutcomeOf(a, j)
  BY DEF OutcomesOf
<1>6. Contract!OneAttempt(ViewOf(j), ViewOf(j)', "open", IF s = "succeeded" THEN s ELSE c)
  BY <1>2, <1>3, <1>4, <1>5 DEF Contract!OneAttempt
<1>7. ASSUME NEW i \in JobIds, i # j, jobs'[i] = jobs[i]
      PROVE  ViewOf(i)' = ViewOf(i)
  <2>1. \A b \in AttemptIds : attempts'[b] = attempts[b] \/ (~ AttemptOf(b, i) /\ ~ AttemptOf(b, i)')
    BY <1>1, <1>7 DEF AttemptOf, OpenAttempt
  <2> QED BY <1>7, <2>1, ViewKept
<1> QED BY <1>6, <1>7

\* The row of a job that loses its lease (Unlocked).
LEMMA UnlockedRow ==
  ASSUME TypeOK, NEW j \in JobIds, jobs[j] # None, NEW s \in JobStatus
  PROVE  LET new == [Unlocked(jobs[j]) EXCEPT !.status = s]
         IN  /\ new # None /\ new.status = s /\ new.locked_by = None /\ new.lock_expires_at = None
             /\ new.run_at = jobs[j].run_at
<1> DEFINE new == [Unlocked(jobs[j]) EXCEPT !.status = s]
<1>1. jobs[j] \in Job
  BY DEF TypeOK
<1>2. new # None
  BY UnlockedIsJob
<1>3. /\ new.status = s /\ new.locked_by = None /\ new.lock_expires_at = None
      /\ new.run_at = jobs[j].run_at
  BY <1>1 DEF Unlocked, Job
<1> QED BY <1>2, <1>3

\* A job that is cancelled while it is running: the numbers of its open attempts differ,
\* so at most one of them is the latest and is closed (cancel_job).
LEMMA CancelRunningStep ==
  ASSUME BackendInv, NEW w \in Workers, NEW j \in JobIds, cancel_running_job(j, w)
  PROVE  \A i \in JobIds : ContractStep(i)
<1>0. TypeOK /\ AttemptsNumbered
  BY DEF BackendInv, JobInv, HistoryInv
<1> DEFINE new == [Unlocked(jobs[j]) EXCEPT !.status = "canceled"]
<1>1. /\ jobs[j] # None /\ jobs[j] \in Job /\ jobs[j].status = "running"
      /\ jobs' = [jobs EXCEPT ![j] = new] /\ UNCHANGED archive
  BY <1>0 DEF cancel_running_job, HoldsLease, TypeOK
<1>2. new # None /\ new.status = "canceled" /\ new.locked_by = None /\ new.lock_expires_at = None
  BY <1>0, <1>1, UnlockedRow DEF JobStatus
<1> HIDE DEF new
<1>3. jobs'[j] = new /\ \A i \in JobIds : i # j => jobs'[i] = jobs[i]
  BY <1>0, <1>1 DEF TypeOK
<1>4. \A a \in AttemptIds : ~ LatestOpen(a, j) => attempts'[a] = attempts[a]
  BY DEF cancel_running_job
<1>5. ASSUME NEW a \in AttemptIds, LatestOpen(a, j)
      PROVE  /\ attempts[a] # None /\ attempts[a].job_id = j /\ attempts[a].status = "running"
             /\ attempts'[a] # None /\ attempts'[a].job_id = j
             /\ attempts'[a].status = "failed" /\ attempts'[a].error_code = "CANCELLED"
  <2>1. attempts[a] # None /\ attempts[a].job_id = j /\ attempts[a].status = "running"
    BY <1>5 DEF LatestOpen, OpenAttempt
  <2>2. ClosedAs(a, "failed", "CANCELLED")
    BY <1>5 DEF cancel_running_job, ClosedAs
  <2>3. "CANCELLED" \in ErrorCodes
    BY DEF ErrorCodes
  <2> QED BY <1>0, <2>1, <2>2, <2>3, ClosedFields
<1>6. \A a, b \in AttemptIds : LatestOpen(a, j) /\ LatestOpen(b, j) => a = b
  <2> SUFFICES ASSUME NEW a \in AttemptIds, NEW b \in AttemptIds, LatestOpen(a, j), LatestOpen(b, j)
               PROVE  a = b
    OBVIOUS
  <2>1. /\ attempts[a] # None /\ attempts[b] # None
        /\ attempts[a].job_id = j /\ attempts[b].job_id = j
        /\ attempts[a].attempt_no = attempts[b].attempt_no
    BY <1>0 DEF LatestOpen, OpenAttempt, TypeOK, Attempt
  <2>2. ~ (a < b) /\ ~ (b < a)
    BY <1>0, <2>1 DEF AttemptsNumbered, TypeOK, Attempt
  <2> QED BY <2>2, AttemptsAssumption DEF AttemptIds
<1>7. ASSUME NEW i \in JobIds, i # j PROVE ViewOf(i)' = ViewOf(i)
  <2>1. \A a \in AttemptIds : attempts'[a] = attempts[a] \/ (~ AttemptOf(a, i) /\ ~ AttemptOf(a, i)')
    BY <1>4, <1>5, <1>7 DEF AttemptOf
  <2> QED BY <1>1, <1>3, <1>7, <2>1, ViewKept
<1>8. /\ ViewOf(j) = RowView(jobs[j], OutcomesOf(j))
      /\ ViewOf(j)' = RowView(new, OutcomesOf(j)')
  BY <1>1, <1>2, <1>3, ViewFields, ViewFieldsNext
<1>9. Contract!Cancel(ViewOf(j), ViewOf(j)')
  <2>1. CASE \A a \in AttemptIds : ~ LatestOpen(a, j)
    <3>1. OutcomesOf(j)' = OutcomesOf(j)
      BY <1>1, <1>2, <1>3, <1>4, <2>1, OutcomesKept
    <3> QED BY <1>1, <1>2, <1>8, <3>1 DEF Contract!Cancel, Contract!Over, RowView, ViewWith
  <2>2. ASSUME NEW a \in AttemptIds, LatestOpen(a, j) PROVE Contract!Cancel(ViewOf(j), ViewOf(j)')
    <3>1. OutcomeOf(a, j) = "open" /\ OutcomeOf(a, j)' = "CANCELLED"
      BY <1>1, <1>2, <1>3, <1>5, <2>2 DEF OutcomeOf
    <3>2. OutcomesOf(j)' = [OutcomesOf(j) EXCEPT ![a] = OutcomeOf(a, j)']
      BY <1>1, <1>2, <1>3, <1>4, <1>6, <2>2, OneOutcome
    <3>3. OutcomesOf(j)[a] = "open"
      BY <3>1 DEF OutcomesOf
    <3>4. ViewOf(j).attempt = OutcomesOf(j) /\ ViewOf(j)'.attempt = OutcomesOf(j)'
      BY <1>8 DEF RowView, ViewWith
    <3>5. Contract!OneAttempt(ViewOf(j), ViewOf(j)', "open", "CANCELLED")
      BY <3>1, <3>2, <3>3, <3>4 DEF Contract!OneAttempt
    <3> QED BY <1>1, <1>2, <1>8, <3>5 DEF Contract!Cancel, Contract!Over, RowView, ViewWith
  <2> QED BY <2>1, <2>2
<1> QED BY <1>7, <1>9 DEF ContractStep, Contract!JobStep

\* A lease takes queued work that is due, and dead-letters queued work (lease_jobs_batch).
LEMMA LeaseTakesDue ==
  ASSUME JobInv, NEW q \in Queues, NEW w \in Workers, NEW n, lease_jobs_batch(q, w, n),
         NEW j \in JobIds
  PROVE  \/ jobs'[j] = jobs[j]
         \/ /\ jobs[j] # None /\ jobs[j].status = "queued"
            /\ \/ jobs'[j] = Leased(jobs[j], w) /\ jobs[j].run_at <= now
               \/ jobs'[j] = PastDeadline(jobs[j])
<1> DEFINE expired == Ids(ExpiredDeadlines(q))
           taken == Ids(Candidates(q, n))
<1>1. ExpiredDeadlines(q) \subseteq queued_jobs[q] /\ Candidates(q, n) \subseteq queued_jobs[q]
  BY DEF ExpiredDeadlines, Candidates
<1>2. \A i \in expired \cup taken : jobs[i] # None /\ jobs[i].status = "queued"
  BY <1>1, EntryIsWaiting DEF Ids, JobInv, Waiting
<1>3. \A i \in taken : jobs[i].run_at <= now
  <2> SUFFICES ASSUME NEW e \in Candidates(q, n) PROVE jobs[e.id].run_at <= now
    BY DEF Ids
  <2>1. e.run_at <= now
    BY DEF Candidates
  <2>2. e = EntryOf(e.id, jobs[e.id])
    BY <1>1, EntryIsWaiting DEF JobInv
  <2>3. EntryOf(e.id, jobs[e.id]).run_at = jobs[e.id].run_at
    BY DEF EntryOf
  <2> QED BY <2>1, <2>2, <2>3
<1>4. jobs'[j] = IF j \in Live /\ j \in taken THEN Leased(jobs[j], w)
                 ELSE IF j \in expired THEN PastDeadline(jobs[j])
                 ELSE jobs[j]
  BY DEF lease_jobs_batch
<1> HIDE DEF expired, taken
<1> QED BY <1>2, <1>3, <1>4

\* Every job of a lease makes a step of the contract: it is leased, or its deadline is
\* missed, or nothing happens to it.
LEMMA LeaseStep ==
  ASSUME BackendInv, NEW q \in Queues, NEW w \in Workers, NEW n, lease_jobs_batch(q, w, n),
         NEW j \in JobIds
  PROVE  ContractStep(j)
<1>0. JobInv /\ TypeOK
  BY DEF BackendInv, JobInv
<1>1. UNCHANGED <<archive, attempts>>
  BY DEF lease_jobs_batch
<1>2. CASE jobs'[j] = jobs[j]
  BY <1>1, <1>2, ViewKept DEF ContractStep
<1>3. CASE jobs'[j] # jobs[j]
  <2>1. /\ jobs[j] # None /\ jobs[j] \in Job /\ jobs[j].status = "queued"
        /\ jobs[j].locked_by = None /\ jobs[j].lock_expires_at = None
        /\ \/ jobs'[j] = Leased(jobs[j], w) /\ jobs[j].run_at <= now
           \/ jobs'[j] = PastDeadline(jobs[j])
    BY <1>0, <1>3, LeaseTakesDue DEF JobInv, TypeOK, StatusEvidence, Live
  <2>2. jobs'[j] # None
    BY <1>0, <2>1, LeasedType, AbsentAssumption DEF TypeOK
  <2>3. ViewOf(j) = RowView(jobs[j], OutcomesOf(j)) /\ ViewOf(j)' = RowView(jobs'[j], OutcomesOf(j))
    BY <1>1, <2>1, <2>2, ViewFields, ViewFieldsNext, OutcomesKept
  <2>4. CASE jobs'[j] = Leased(jobs[j], w) /\ jobs[j].run_at <= now
    <3>1. At(now + LeaseSeconds) \in Instants
      BY <1>0, AtType, LeaseAssumption, HorizonAssumption DEF TypeOK, Instants
    <3>2. /\ jobs'[j].status = "running" /\ jobs'[j].locked_by = w
          /\ jobs'[j].lock_expires_at = At(now + LeaseSeconds) /\ jobs'[j].run_at = jobs[j].run_at
      BY <2>1, <2>4 DEF Leased, Job
    <3>3. ViewOf(j)' = [ViewOf(j) EXCEPT !.status = "running", !.holder = w,
                                         !.expiry = At(now + LeaseSeconds)]
      <4> DEFINE View(status, holder, expiry) ==
                   ViewWith(status, holder, expiry, jobs[j].run_at, OutcomesOf(j))
                 expiry == At(now + LeaseSeconds)
      <4>1. ViewOf(j) = View("queued", None, None)
        BY <2>1, <2>3, Zenon DEF RowView
      <4>2. ViewOf(j)' = View("running", w, expiry)
        BY <2>3, <3>2, Zenon DEF RowView
      <4>3. [View("queued", None, None) EXCEPT !.status = "running"] = View("running", None, None)
        BY DEF ViewWith
      <4>4. [View("running", None, None) EXCEPT !.holder = w] = View("running", w, None)
        BY DEF ViewWith
      <4>5. [View("running", w, None) EXCEPT !.expiry = expiry] = View("running", w, expiry)
        BY DEF ViewWith
      <4> HIDE DEF View, expiry
      <4>6. [ViewOf(j) EXCEPT !.status = "running", !.holder = w, !.expiry = expiry]
              = View("running", w, expiry)
        BY <4>1, <4>3, <4>4, <4>5, Zenon
      <4> QED BY <4>2, <4>6, Zenon DEF expiry
    <3>4. ViewOf(j).status = "queued" /\ ViewOf(j).run_at <= now
      BY <2>1, <2>3, <2>4 DEF RowView, ViewWith
    <3>5. Contract!Lease(ViewOf(j), ViewOf(j)')
      BY <3>1, <3>3, <3>4 DEF Contract!Lease
    <3> QED BY <3>5 DEF ContractStep, Contract!JobStep
  <2>5. CASE jobs'[j] = PastDeadline(jobs[j])
    <3>1. jobs'[j].status = "dlq" /\ jobs'[j].locked_by = None /\ jobs'[j].lock_expires_at = None
      BY <2>1, <2>5, LeasedFields
    <3>2. Contract!MissDeadline(ViewOf(j), ViewOf(j)')
      BY <2>1, <2>3, <3>1 DEF Contract!MissDeadline, Contract!Over, RowView, ViewWith
    <3> QED BY <3>2 DEF ContractStep, Contract!JobStep
  <2> QED BY <2>1, <2>4, <2>5
<1> QED BY <1>2, <1>3

\* Each job of a batch that is reached gets one open attempt, under an id that had none
\* (start_attempts_batch).
LEMMA StartStep ==
  ASSUME BackendInv, NEW w \in Workers, NEW js \in Batches, start_attempts_batch(js, w),
         NEW j \in JobIds
  PROVE  ContractStep(j)
<1>0. TypeOK /\ last_attempt \in Nat /\ NoFutureAttempt
  BY AttemptsAssumption DEF BackendInv, JobInv, CompletionInv, TypeOK
<1>1. PICK n \in Nat : Started(js, w, n)
  BY <1>0, StartsAttempts
<1>2. UNCHANGED <<jobs, archive>>
  BY <1>1 DEF Started
<1>3. \A a \in AttemptIds : a \in last_attempt + 1 .. last_attempt + n =>
        /\ attempts[a] = None /\ attempts'[a] # None /\ attempts'[a].status = "running"
        /\ attempts'[a].job_id = js[a - last_attempt] /\ a - last_attempt \in 1 .. n
  BY <1>0, <1>1 DEF Started, NoFutureAttempt, AttemptIds
<1>4. \A a \in AttemptIds : a \notin last_attempt + 1 .. last_attempt + n => attempts'[a] = attempts[a]
  BY <1>1 DEF Started
<1>5. CASE \A i \in 1 .. n : js[i] # j
  <2>1. \A a \in AttemptIds : attempts'[a] = attempts[a] \/ (~ AttemptOf(a, j) /\ ~ AttemptOf(a, j)')
    BY <1>3, <1>4, <1>5 DEF AttemptOf
  <2> QED BY <1>2, <2>1, ViewKept DEF ContractStep
<1>6. ASSUME NEW i \in 1 .. n, js[i] = j PROVE ContractStep(j)
  <2> PICK a \in AttemptIds : a = last_attempt + i
    BY <1>1 DEF Started
  <2>1. a \in last_attempt + 1 .. last_attempt + n /\ a - last_attempt = i
    BY <1>0
  <2>2. jobs[j] # None /\ jobs[j].status = "running"
    BY <1>1, <1>6 DEF Started, HoldsLease
  <2>3. \A b \in AttemptIds : b # a => attempts'[b] = attempts[b] \/ (~ AttemptOf(b, j) /\ ~ AttemptOf(b, j)')
    <3> SUFFICES ASSUME NEW b \in AttemptIds, b # a, b \in last_attempt + 1 .. last_attempt + n
                 PROVE  ~ AttemptOf(b, j) /\ ~ AttemptOf(b, j)'
      BY <1>4
    <3>1. b - last_attempt \in 1 .. n /\ b - last_attempt # i
      BY <1>0, <1>3 DEF AttemptIds
    <3>2. js[b - last_attempt] # j
      BY <1>1, <1>6, <3>1 DEF Started
    <3> QED BY <1>3, <3>2 DEF AttemptOf
  <2>4. OutcomeOf(a, j) = "none" /\ OutcomeOf(a, j)' = "open"
    BY <1>2, <1>3, <1>6, <2>1, <2>2 DEF OutcomeOf
  <2>5. OutcomesOf(j)' = [OutcomesOf(j) EXCEPT ![a] = "open"] /\ OutcomesOf(j)[a] = "none"
    <3>1. OutcomesOf(j)' = [OutcomesOf(j) EXCEPT ![a] = OutcomeOf(a, j)']
      BY <1>2, <2>1, <2>2, <2>3, OneOutcome
    <3> QED BY <2>1, <2>4, <3>1 DEF OutcomesOf
  <2>6. ViewOf(j) = RowView(jobs[j], OutcomesOf(j)) /\ ViewOf(j)' = RowView(jobs[j], OutcomesOf(j)')
    BY <1>2, <2>2, ViewFields, ViewFieldsNext
  <2>7. ViewOf(j).attempt = OutcomesOf(j) /\ ViewOf(j)'.attempt = OutcomesOf(j)'
    BY <2>6 DEF RowView, ViewWith
  <2>8. Contract!OneAttempt(ViewOf(j), ViewOf(j)', "none", "open")
    BY <2>1, <2>5, <2>7 DEF Contract!OneAttempt
  <2>9. ViewOf(j)' = [ViewOf(j) EXCEPT !.attempt = ViewOf(j)'.attempt] /\ ViewOf(j).status = "running"
    BY <2>2, <2>6 DEF RowView, ViewWith
  <2> QED BY <2>8, <2>9 DEF ContractStep, Contract!JobStep, Contract!StartAttempt
<1> QED BY <1>5, <1>6

\* A job whose lease has run out is queued again under its old run_at, and every attempt
\* that was open is closed (reap_expired_locks).
LEMMA ReapStep ==
  ASSUME BackendInv, reap_expired_locks, NEW j \in JobIds
  PROVE  ContractStep(j)
<1>0. TypeOK /\ FailureCoded
  BY DEF BackendInv, JobInv, HistoryInv
<1>1. UNCHANGED archive /\ \A i \in JobIds :
        jobs'[i] = IF i \in ExpiredLocks THEN [Unlocked(jobs[i]) EXCEPT !.status = "queued"]
                                         ELSE jobs[i]
  BY DEF reap_expired_locks
<1>2. \A a \in AttemptIds : (~ \E i \in ExpiredLocks : OpenAttempt(a, i)) => attempts'[a] = attempts[a]
  BY DEF reap_expired_locks
<1>3. ASSUME NEW a \in AttemptIds, NEW i \in ExpiredLocks, OpenAttempt(a, i)
      PROVE  /\ attempts'[a] # None /\ attempts'[a].job_id = i
             /\ attempts'[a].status = "failed" /\ attempts'[a].error_code = "LEASE_EXPIRED"
  <2>1. attempts[a] # None /\ attempts[a].job_id = i
    BY <1>3 DEF OpenAttempt
  <2>2. ClosedAs(a, "failed", "LEASE_EXPIRED")
    BY <1>3 DEF reap_expired_locks, ClosedAs
  <2>3. "LEASE_EXPIRED" \in ErrorCodes
    BY DEF ErrorCodes
  <2> QED BY <1>0, <2>1, <2>2, <2>3, ClosedFields
<1>4. CASE j \notin ExpiredLocks
  <2>1. \A a \in AttemptIds : attempts'[a] = attempts[a] \/ (~ AttemptOf(a, j) /\ ~ AttemptOf(a, j)')
    BY <1>2, <1>3, <1>4 DEF AttemptOf, OpenAttempt
  <2> QED BY <1>1, <1>4, <2>1, ViewKept DEF ContractStep
<1>5. CASE j \in ExpiredLocks
  <2> DEFINE new == [Unlocked(jobs[j]) EXCEPT !.status = "queued"]
  <2>1. jobs[j] # None /\ jobs[j].status = "running" /\ jobs[j].lock_expires_at <= now
    BY <1>5 DEF ExpiredLocks, Live
  <2>2. /\ new # None /\ new.status = "queued" /\ new.locked_by = None /\ new.lock_expires_at = None
        /\ new.run_at = jobs[j].run_at
    BY <1>0, <2>1, UnlockedRow DEF JobStatus
  <2>3. jobs'[j] = new
    BY <1>1, <1>5
  <2> HIDE DEF new
  <2>4. ViewOf(j) = RowView(jobs[j], OutcomesOf(j)) /\ ViewOf(j)' = RowView(new, OutcomesOf(j)')
    BY <2>1, <2>2, <2>3, ViewFields, ViewFieldsNext
  <2>5. ASSUME NEW a \in AttemptIds
        PROVE  OutcomeOf(a, j)' = IF OutcomeOf(a, j) = "open" THEN "LEASE_EXPIRED" ELSE OutcomeOf(a, j)
    <3>1. CASE OpenAttempt(a, j)
      BY <1>3, <1>5, <2>1, <2>2, <2>3, <3>1 DEF OutcomeOf, OpenAttempt
    <3>2. CASE ~ OpenAttempt(a, j)
      <4>1. attempts'[a] = attempts[a] \/ (~ AttemptOf(a, j) /\ ~ AttemptOf(a, j)')
        BY <1>2, <1>3, <3>2 DEF AttemptOf, OpenAttempt
      <4>2. OutcomeOf(a, j)' = OutcomeOf(a, j)
        BY <2>1, <2>2, <2>3, <4>1 DEF OutcomeOf, AttemptOf
      <4>3. OutcomeOf(a, j) # "open"
        <5>1. attempts[a] # None => attempts[a] \in Attempt
          BY <1>0 DEF TypeOK
        <5> QED BY <1>0, <3>2, <5>1 DEF OutcomeOf, OpenAttempt, Attempt, ErrorCodes, FailureCoded
      <4> QED BY <4>2, <4>3
    <3> QED BY <3>1, <3>2
  <2>6. OutcomesOf(j)' = [a \in AttemptIds |-> IF OutcomesOf(j)[a] = "open" THEN "LEASE_EXPIRED"
                                                                        ELSE OutcomesOf(j)[a]]
    BY <2>5 DEF OutcomesOf
  <2>7. ViewOf(j).attempt = OutcomesOf(j) /\ ViewOf(j)'.attempt = OutcomesOf(j)'
    BY <2>4 DEF RowView, ViewWith
  <2>8. /\ ViewOf(j).status = "running" /\ ViewOf(j).expiry <= now
        /\ Contract!Queued(ViewOf(j)') /\ ViewOf(j)'.run_at = ViewOf(j).run_at
    BY <2>1, <2>2, <2>4 DEF Contract!Queued, RowView, ViewWith
  <2> QED BY <2>6, <2>7, <2>8 DEF ContractStep, Contract!JobStep, Contract!Recover
<1> QED BY <1>4, <1>5

\* A report that completes a job, sends it back to its queue or dead-letters it, and
\* leaves the jobs other than it (and `id`) alone.
LEMMA ReportStep ==
  ASSUME TypeOK, NEW j \in JobIds, NEW a \in AttemptIds, OpenAttempt(a, j), NEW new,
         jobs[j] # None, jobs[j].status = "running", jobs'[j] = new, new # None,
         new.locked_by = None, new.lock_expires_at = None, UNCHANGED archive,
         \/ CloseAttempt(a, "succeeded", None) /\ new.status = "succeeded"
         \/ CloseAttempt(a, "failed", "HANDLER_FAILURE") /\ new.status \in {"queued", "dlq"}
  PROVE  /\ ContractStep(j)
         /\ \A i \in JobIds : i # j /\ jobs'[i] = jobs[i] => ContractStep(i)
<1>1. /\ ViewOf(j).status = "running" /\ ViewOf(j)'.status = new.status
      /\ ViewOf(j)'.holder = None /\ ViewOf(j)'.expiry = None
  BY ViewFields, ViewFieldsNext DEF RowView, ViewWith
<1>2. "HANDLER_FAILURE" \in ErrorCodes
  BY DEF ErrorCodes
<1>3. CASE CloseAttempt(a, "succeeded", None) /\ new.status = "succeeded"
  <2>1. /\ Contract!OneAttempt(ViewOf(j), ViewOf(j)', "open", "succeeded")
        /\ \A i \in JobIds : i # j /\ jobs'[i] = jobs[i] => ViewOf(i)' = ViewOf(i)
    BY <1>3, ClosingStep
  <2>2. Contract!Complete(ViewOf(j), ViewOf(j)')
    BY <1>1, <1>3, <2>1 DEF Contract!Complete, Contract!Over
  <2> QED BY <2>1, <2>2 DEF ContractStep, Contract!JobStep
<1>4. CASE CloseAttempt(a, "failed", "HANDLER_FAILURE") /\ new.status \in {"queued", "dlq"}
  <2>1. /\ Contract!OneAttempt(ViewOf(j), ViewOf(j)', "open", "HANDLER_FAILURE")
        /\ \A i \in JobIds : i # j /\ jobs'[i] = jobs[i] => ViewOf(i)' = ViewOf(i)
    BY <1>2, <1>4, ClosingStep
  <2>2. Contract!RetryOrBury(ViewOf(j), ViewOf(j)')
    BY <1>1, <1>4, <2>1 DEF Contract!RetryOrBury, Contract!Over, Contract!Queued
  <2> QED BY <2>1, <2>2 DEF ContractStep, Contract!JobStep
<1> QED BY <1>3, <1>4

\* Whatever an operation does, each job makes a step of the contract or none.
LEMMA EveryStepIsContractStep ==
  ASSUME BackendInv, [Next]_vars
  PROVE  \A i \in JobIds : ContractStep(i)
<1> DEFINE Goal == \A i \in JobIds : ContractStep(i)
<1>0. TypeOK /\ JobInv /\ AttemptHasJob /\ OneHome
  BY DEF BackendInv, JobInv, CompletionInv
<1>1. ASSUME UNCHANGED <<jobs, archive, attempts>> PROVE Goal
  BY <1>1, ViewKept DEF ContractStep
<1>i. ASSUME NEW id \in Unused, NEW job \in Job, Inserted(id, job) PROVE Goal
  <2>1. /\ id \in JobIds /\ jobs'[id] = job /\ job # None /\ UNCHANGED <<archive, attempts>>
        /\ \A i \in JobIds : i # id => jobs'[i] = jobs[i]
    BY <1>0, <1>i, AbsentAssumption DEF Inserted, Unused, TypeOK
  <2>2. ContractStep(id)
    BY <1>0, <1>i, <2>1, CommitStep DEF Inserted
  <2>3. \A i \in JobIds : i # id => ContractStep(i)
    BY <2>1, ViewKept DEF ContractStep
  <2> QED BY <2>2, <2>3
<1>2. ASSUME NEW nj \in NewJobs, NEW id \in Unused, enqueue(nj, id) PROVE Goal
  BY <1>0, <1>2, <1>i, EnqueueInserts
<1>3. ASSUME NEW src \in JobIds, NEW id \in Unused, NEW q \in Queues, NEW t \in ReplayTimes,
             replay_job(src, id, q, IF t = None THEN now ELSE t)
      PROVE  Goal
  <2>1. (IF t = None THEN now ELSE t) \in Instants
    BY <1>0, InputsAssumption DEF TypeOK
  <2> QED BY <1>0, <1>3, <1>i, <2>1, ReplayInserts
<1>4. ASSUME NEW j \in JobIds, cancel_queued_job(j) PROVE Goal
  <2> DEFINE new == [Unlocked(jobs[j]) EXCEPT !.status = "canceled"]
  <2>1. /\ jobs[j] # None /\ jobs[j].status = "queued"
        /\ jobs' = [jobs EXCEPT ![j] = new] /\ UNCHANGED <<archive, attempts>>
    BY <1>4 DEF cancel_queued_job
  <2>2. new # None /\ new.status = "canceled" /\ new.locked_by = None /\ new.lock_expires_at = None
    BY <1>0, <2>1, UnlockedRow DEF JobStatus
  <2> HIDE DEF new
  <2>3. jobs'[j] = new /\ \A i \in JobIds : i # j => jobs'[i] = jobs[i]
    BY <1>0, <2>1 DEF TypeOK
  <2>4. OutcomesOf(j)' = OutcomesOf(j)
    BY <2>1, <2>2, <2>3, OutcomesKept
  <2>5. ViewOf(j) = RowView(jobs[j], OutcomesOf(j)) /\ ViewOf(j)' = RowView(new, OutcomesOf(j))
    BY <2>1, <2>2, <2>3, <2>4, ViewFields, ViewFieldsNext
  <2>6. Contract!Cancel(ViewOf(j), ViewOf(j)')
    BY <2>1, <2>2, <2>5 DEF Contract!Cancel, Contract!Over, RowView, ViewWith
  <2>7. \A i \in JobIds : i # j => ContractStep(i)
    BY <2>1, <2>3, ViewKept DEF ContractStep
  <2> QED BY <2>6, <2>7 DEF ContractStep, Contract!JobStep
<1>5. ASSUME NEW w \in Workers, NEW j \in JobIds, extend_lease(j, w) PROVE Goal
  <2> DEFINE new == [jobs[j] EXCEPT !.lock_expires_at = At(now + LeaseSeconds), !.updated_at = now]
             expiry == At(now + LeaseSeconds)
  <2>1. /\ jobs[j] # None /\ jobs[j] \in Job /\ jobs[j].status = "running"
        /\ UNCHANGED <<archive, attempts>>
    BY <1>0, <1>5 DEF extend_lease, HoldsLease, TypeOK
  <2>2. expiry \in Instants /\ now \in Instants
    BY <1>0, AtType, LeaseAssumption, HorizonAssumption DEF Instants, TypeOK
  <2>3. /\ new \in Job /\ new.status = jobs[j].status /\ new.locked_by = jobs[j].locked_by
        /\ new.lock_expires_at = expiry /\ new.run_at = jobs[j].run_at
    BY <2>1, <2>2 DEF Job
  <2>4. jobs' = [jobs EXCEPT ![j] = new]
    BY <1>5, <2>1 DEF extend_lease, Job
  <2> HIDE DEF new, expiry
  <2>5. jobs'[j] = new /\ new # None /\ \A i \in JobIds : i # j => jobs'[i] = jobs[i]
    BY <1>0, <2>3, <2>4, AbsentAssumption DEF TypeOK
  <2>6. ViewOf(j) = RowView(jobs[j], OutcomesOf(j)) /\ ViewOf(j)' = RowView(new, OutcomesOf(j))
    BY <2>1, <2>5, OutcomesKept, ViewFields, ViewFieldsNext
  <2>7. ViewOf(j)' = [ViewOf(j) EXCEPT !.expiry = expiry] /\ ViewOf(j)'.expiry = expiry
        /\ ViewOf(j).status = "running"
    BY <2>1, <2>3, <2>6 DEF RowView, ViewWith
  <2>8. Contract!Extend(ViewOf(j), ViewOf(j)')
    BY <2>2, <2>7 DEF Contract!Extend
  <2>9. \A i \in JobIds : i # j => ContractStep(i)
    BY <2>1, <2>5, ViewKept DEF ContractStep
  <2> QED BY <2>8, <2>9 DEF ContractStep, Contract!JobStep
<1>6. ASSUME NEW w \in Workers, NEW j \in JobIds, NEW a \in AttemptIds, mark_succeeded_once(j, a, w)
      PROVE  Goal
  <2> DEFINE new == [Unlocked(jobs[j]) EXCEPT !.status = "succeeded"]
  <2>1. /\ jobs[j] # None /\ jobs[j].status = "running" /\ OpenAttempt(a, j)
        /\ CloseAttempt(a, "succeeded", None)
        /\ jobs' = [jobs EXCEPT ![j] = new] /\ UNCHANGED archive
    BY <1>6 DEF mark_succeeded_once, HoldsLease
  <2>2. new # None /\ new.status = "succeeded" /\ new.locked_by = None /\ new.lock_expires_at = None
    BY <1>0, <2>1, UnlockedRow DEF JobStatus
  <2> HIDE DEF new
  <2>3. jobs'[j] = new /\ \A i \in JobIds : i # j => jobs'[i] = jobs[i]
    BY <1>0, <2>1 DEF TypeOK
  <2> QED BY <1>0, <2>1, <2>2, <2>3, ReportStep
<1>7. ASSUME NEW w \in Workers, NEW j \in JobIds, NEW a \in AttemptIds, NEW id \in Unused,
             mark_succeeded_recurring(j, a, w, id)
      PROVE  Goal
  <2> DEFINE new == [Unlocked(jobs[j]) EXCEPT !.status = "succeeded"]
             next == NextOccurrence(j)
  <2>1. /\ jobs[j] # None /\ jobs[j].status = "running" /\ OpenAttempt(a, j)
        /\ jobs[j].recurring_interval_seconds # None
        /\ CloseAttempt(a, "succeeded", None) /\ id \in JobIds /\ jobs[id] = None
        /\ jobs' = [jobs EXCEPT ![j] = new, ![id] = next] /\ UNCHANGED archive
    BY <1>7 DEF mark_succeeded_recurring, HoldsLease, Unused
  <2>2. new # None /\ new.status = "succeeded" /\ new.locked_by = None /\ new.lock_expires_at = None
    BY <1>0, <2>1, UnlockedRow DEF JobStatus
  <2>3. next # None /\ next.status = "queued" /\ next.locked_by = None /\ next.lock_expires_at = None
    BY <1>0, <2>1, NextOccurrenceType, AbsentAssumption
  <2> HIDE DEF new, next
  <2>4. jobs'[j] = new /\ jobs'[id] = next
        /\ \A i \in JobIds : i # j /\ i # id => jobs'[i] = jobs[i]
    BY <1>0, <2>1 DEF TypeOK
  <2>5. ContractStep(j) /\ \A i \in JobIds : i # j /\ jobs'[i] = jobs[i] => ContractStep(i)
    BY <1>0, <2>1, <2>2, <2>4, ReportStep
  <2>6. \A b \in AttemptIds : attempts'[b] = attempts[b] \/ ~ AttemptOf(b, id)'
    BY <1>0, <2>1, CloseAttemptFields DEF AttemptOf, OpenAttempt
  <2>7. ContractStep(id)
    BY <1>0, <2>3, <2>4, <2>6, CommitStep
  <2> QED BY <2>4, <2>5, <2>7
<1>8. ASSUME NEW w \in Workers, NEW j \in JobIds, NEW a \in AttemptIds, NEW d \in RetryDelays,
             reschedule_for_retry(j, a, w, At(now + d))
      PROVE  Goal
  <2> DEFINE new == [Unlocked(jobs[j]) EXCEPT !.status = "queued", !.run_at = At(now + d)]
  <2>1. /\ jobs[j] \in Job /\ jobs[j] # None /\ jobs[j].status = "running" /\ OpenAttempt(a, j)
        /\ CloseAttempt(a, "failed", "HANDLER_FAILURE")
        /\ jobs' = [jobs EXCEPT ![j] = new] /\ UNCHANGED archive
    BY <1>0, <1>8 DEF reschedule_for_retry, HoldsLease, TypeOK
  <2>2. At(now + d) \in Instants /\ now \in Instants
    BY <1>0, AtType, InputsAssumption, HorizonAssumption DEF Instants, TypeOK
  <2>3. Unlocked(jobs[j]) \in Job /\ Unlocked(jobs[j]).locked_by = None
        /\ Unlocked(jobs[j]).lock_expires_at = None
    BY <2>1, <2>2 DEF Unlocked, Job
  <2>4. new \in Job /\ new.status = "queued" /\ new.locked_by = None /\ new.lock_expires_at = None
    BY <2>2, <2>3 DEF Job, JobStatus
  <2> HIDE DEF new
  <2>5. new # None /\ jobs'[j] = new /\ \A i \in JobIds : i # j => jobs'[i] = jobs[i]
    BY <1>0, <2>1, <2>4, AbsentAssumption DEF TypeOK
  <2> QED BY <1>0, <2>1, <2>4, <2>5, ReportStep
<1>9. ASSUME NEW w \in Workers, NEW j \in JobIds, NEW a \in AttemptIds, NEW reason \in DlqReasons,
             mark_dlq(j, a, w, reason)
      PROVE  Goal
  <2> DEFINE new == [Unlocked(jobs[j]) EXCEPT !.status = "dlq", !.dlq_reason_code = reason]
  <2>1. /\ jobs[j] \in Job /\ jobs[j] # None /\ jobs[j].status = "running" /\ OpenAttempt(a, j)
        /\ CloseAttempt(a, "failed", "HANDLER_FAILURE")
        /\ jobs' = [jobs EXCEPT ![j] = new] /\ UNCHANGED archive
    BY <1>0, <1>9 DEF mark_dlq, HoldsLease, TypeOK
  <2>2. Unlocked(jobs[j]) \in Job /\ Unlocked(jobs[j]).locked_by = None
        /\ Unlocked(jobs[j]).lock_expires_at = None
    BY <1>0, <2>1 DEF Unlocked, Job, TypeOK
  <2>3. new \in Job /\ new.status = "dlq" /\ new.locked_by = None /\ new.lock_expires_at = None
    BY <2>2 DEF Job, JobStatus
  <2> HIDE DEF new
  <2>4. new # None /\ jobs'[j] = new /\ \A i \in JobIds : i # j => jobs'[i] = jobs[i]
    BY <1>0, <2>1, <2>3, AbsentAssumption DEF TypeOK
  <2> QED BY <1>0, <2>1, <2>3, <2>4, ReportStep
<1>10. ASSUME NEW cutoff \in Cutoffs, NEW limit \in BatchSizes,
              archive_succeeded_older_than(cutoff, limit)
       PROVE  Goal
  <2>1. PICK moved \in Limited({j \in Live : jobs[j].status = "succeeded" /\ jobs[j].updated_at < cutoff}, limit) :
          /\ archive' = [j \in JobIds |-> IF j \in moved THEN jobs[j] ELSE archive[j]]
          /\ jobs' = [j \in JobIds |-> IF j \in moved THEN None ELSE jobs[j]]
          /\ UNCHANGED attempts
    BY <1>10 DEF archive_succeeded_older_than
  <2>2. \A j \in moved : jobs[j] # None /\ jobs[j].status = "succeeded"
    BY DEF Limited, Live
  <2>3. ASSUME NEW j \in JobIds PROVE ContractStep(j)
    <3>1. CASE j \notin moved
      BY <2>1, <3>1, ViewKept DEF ContractStep
    <3>2. CASE j \in moved
      <4>1. jobs[j] # None /\ jobs[j].status = "succeeded" /\ jobs'[j] = None /\ archive'[j] # None
        BY <2>1, <2>2, <3>2
      <4>2. ViewOf(j).status = "succeeded" /\ ViewOf(j)' = Contract!Gone("archived")
        BY <4>1, ViewFields, ViewFieldsNext DEF RowView, ViewWith
      <4> QED BY <4>2 DEF ContractStep, Contract!JobStep, Contract!Archived
    <3> QED BY <3>1, <3>2
  <2> QED BY <2>3
<1>11. ASSUME NEW cutoff \in Cutoffs, NEW limit \in BatchSizes,
              delete_history_for_succeeded_older_than(cutoff, limit)
       PROVE  Goal
  <2> DEFINE old == {a \in AttemptIds :
                       /\ attempts[a] # None
                       /\ attempts[a].started_at < cutoff
                       /\ archive[attempts[a].job_id] # None
                       /\ archive[attempts[a].job_id].updated_at < cutoff}
  <2>1. PICK removed \in Limited(old, limit) :
          /\ attempts' = [a \in AttemptIds |-> IF a \in removed THEN None ELSE attempts[a]]
          /\ UNCHANGED <<jobs, archive>>
    BY <1>11 DEF delete_history_for_succeeded_older_than
  <2>2. \A a \in removed : attempts[a] # None /\ archive[attempts[a].job_id] # None
    BY DEF Limited
  <2>3. ASSUME NEW j \in JobIds PROVE ContractStep(j)
    <3>1. CASE archive[j] = None
      <4>1. \A a \in AttemptIds : attempts'[a] = attempts[a] \/ (~ AttemptOf(a, j) /\ ~ AttemptOf(a, j)')
        BY <2>1, <2>2, <3>1 DEF AttemptOf
      <4> QED BY <2>1, <4>1, ViewKept DEF ContractStep
    <3>2. CASE archive[j] # None
      <4>1. jobs[j] = None /\ jobs'[j] = None /\ archive'[j] = archive[j]
        BY <1>0, <2>1, <3>2 DEF OneHome
      <4> QED BY <3>2, <4>1, ViewFields, ViewFieldsNext DEF ContractStep
    <3> QED BY <3>1, <3>2
  <2> QED BY <2>3
<1>12. CASE Tick \/ UNCHANGED vars
  BY <1>1, <1>12 DEF Tick, vars
<1> HIDE DEF Goal
<1>13. (\E w \in Workers : Work(w)) => Goal
  BY <1>5, <1>6, <1>7, <1>8, <1>9, LeaseStep, StartStep, CancelRunningStep DEF Work, Goal
<1>14. Goal
  BY <1>2, <1>3, <1>4, <1>10, <1>11, <1>12, <1>13, ReapStep DEF Next, Produce, Archive, Goal
<1> QED BY <1>14 DEF Goal

\* No operation sets the clock back.
LEMMA ClockSteps ==
  ASSUME [Next]_vars
  PROVE  now' = now \/ now' = now + 1
<1>1. CASE Tick \/ UNCHANGED vars
  BY <1>1 DEF Tick, vars
<1>2. CASE Produce
  BY <1>2, Zenon DEF Produce, enqueue, replay_job, cancel_queued_job
<1>3. ASSUME NEW w \in Workers, Work(w) PROVE now' = now
  <2>1. CASE \E q \in Queues, n \in BatchSizes : lease_jobs_batch(q, w, n)
    BY <2>1, Zenon DEF lease_jobs_batch
  <2>2. CASE \E js \in Batches : start_attempts_batch(js, w)
    BY <2>2, Zenon DEF start_attempts_batch
  <2>3. CASE \E j \in JobIds : extend_lease(j, w) \/ cancel_running_job(j, w)
    BY <2>3, Zenon DEF extend_lease, cancel_running_job
  <2>4. CASE \E j \in JobIds, a \in AttemptIds :
               \/ mark_succeeded_once(j, a, w)
               \/ \E id \in Unused : mark_succeeded_recurring(j, a, w, id)
               \/ \E d \in RetryDelays : reschedule_for_retry(j, a, w, At(now + d))
               \/ \E reason \in DlqReasons : mark_dlq(j, a, w, reason)
    BY <2>4, Zenon DEF mark_succeeded_once, mark_succeeded_recurring, reschedule_for_retry, mark_dlq
  <2> QED BY <1>3, <2>1, <2>2, <2>3, <2>4 DEF Work
<1>4. CASE reap_expired_locks \/ Archive
  BY <1>4, Zenon DEF reap_expired_locks, Archive, archive_succeeded_older_than,
                     delete_history_for_succeeded_older_than
<1> QED BY <1>1, <1>2, <1>3, <1>4 DEF Next

\* The memory backend implements the contract of JobContract, for every set of jobs,
\* workers and inputs and every sequence of calls: every operation of StorageBackend is,
\* for each job, a step of the contract or none.
THEOREM MemoryImplementsContract == Spec => MemoryKeepsContract
<1>1. Init => Contract!ContractInit
  <2> SUFFICES ASSUME Init PROVE Contract!ContractInit
    OBVIOUS
  <2>1. \A j \in JobIds : ViewOf(j) = Contract!Gone("absent")
    BY ViewFields DEF Init
  <2>2. now \in Instants
    BY HorizonAssumption DEF Init, Instants
  <2> QED BY <2>1, <2>2 DEF Contract!ContractInit
<1>2. BackendInv /\ BackendInv' /\ [Next]_vars
        => [Contract!ContractNext]_<<now, [j \in JobIds |-> ViewOf(j)]>>
  <2> SUFFICES ASSUME BackendInv, BackendInv', [Next]_vars PROVE Contract!ContractNext
    OBVIOUS
  <2>1. now' \in Instants /\ now' >= now
    <3>1. now \in Nat /\ now' \in Instants
      BY HorizonAssumption DEF BackendInv, JobInv, TypeOK, Instants
    <3>2. now' = now \/ now' = now + 1
      BY ClockSteps
    <3> QED BY <3>1, <3>2
  <2>2. \A j \in JobIds : ViewOf(j)' \in Contract!View /\ ContractStep(j)
    BY ViewTypeNext, EveryStepIsContractStep DEF BackendInv, JobInv, HistoryInv
  <2> QED BY <2>1, <2>2 DEF ContractStep, Contract!ContractNext
<1> QED BY <1>1, <1>2, BackendInvHolds, PTL DEF Spec, MemoryKeepsContract, Contract!ContractSpec

----------------------------------------------------------------------------
(* The order of leases                                                      *)

\* Everything that impl Ord for QueueEntry compares is a number.
LEMMA EntryIntegers ==
  ASSUME NEW e \in QueueEntry
  PROVE  e.priority \in Int /\ e.run_at \in Int /\ e.created_at \in Int /\ e.id \in Int
<1>1. e.priority \in Int /\ e.run_at \in Instants /\ e.created_at \in Instants /\ e.id \in JobIds
  BY DEF QueueEntry
<1>2. Instants \subseteq Int /\ JobIds \subseteq Int
  BY HorizonAssumption, JobIdsAssumption DEF Instants
<1> QED BY <1>1, <1>2

\* impl Ord for QueueEntry orders any two entries that differ in their job.
LEMMA BeforeIsTotal ==
  ASSUME NEW e \in QueueEntry, NEW f \in QueueEntry, e.id # f.id
  PROVE  Before(e, f) \/ Before(f, e)
<1>1. /\ e.priority \in Int /\ e.run_at \in Int /\ e.created_at \in Int /\ e.id \in Int
      /\ f.priority \in Int /\ f.run_at \in Int /\ f.created_at \in Int /\ f.id \in Int
  BY EntryIntegers
<1> QED BY <1>1 DEF Before

\* What comes before an entry comes before everything after it.
LEMMA BeforeIsTransitive ==
  ASSUME NEW e \in QueueEntry, NEW f \in QueueEntry, NEW g \in QueueEntry, Before(e, f), Before(f, g)
  PROVE  Before(e, g)
<1>1. /\ e.priority \in Int /\ e.run_at \in Int /\ e.created_at \in Int /\ e.id \in Int
      /\ f.priority \in Int /\ f.run_at \in Int /\ f.created_at \in Int /\ f.id \in Int
      /\ g.priority \in Int /\ g.run_at \in Int /\ g.created_at \in Int /\ g.id \in Int
  BY EntryIntegers
<1> QED BY <1>1 DEF Before

\* A queue has finitely many entries, one for each of its jobs at most.
LEMMA IndexIsFinite ==
  ASSUME TypeOK, IndexMatchesStatus, NEW q \in Queues
  PROVE  IsFiniteSet(queued_jobs[q])
<1> DEFINE f == [e \in queued_jobs[q] |-> e.id]
<1>1. \A e \in queued_jobs[q] : e.id \in JobIds /\ e = EntryOf(e.id, jobs[e.id])
  BY EntryIsWaiting
<1>2. f \in Injection(queued_jobs[q], JobIds)
  BY <1>1 DEF Injection, IsInjective
<1> QED BY <1>2, FS_Injection, JobIdsAssumption

\* The first n entries of a finite set of due entries are closed under what comes before
\* them: an entry that is left behind comes after every entry that is taken.
LEMMA FirstAreBefore ==
  ASSUME NEW runnable \in SUBSET QueueEntry, IsFiniteSet(runnable), NEW n \in Int,
         NEW e \in runnable, NEW f \in runnable, e.id # f.id,
         Cardinality({g \in runnable : Before(g, e)}) < n,
         ~ (Cardinality({g \in runnable : Before(g, f)}) < n)
  PROVE  Before(e, f)
<1> SUFFICES ASSUME Before(f, e) PROVE FALSE
  BY BeforeIsTotal
<1> DEFINE E == {g \in runnable : Before(g, e)}
           F == {g \in runnable : Before(g, f)}
<1>1. F \in SUBSET E
  BY BeforeIsTransitive
<1>2. IsFiniteSet(E)
  BY FS_Subset
<1>3. IsFiniteSet(F) /\ Cardinality(F) <= Cardinality(E)
  BY <1>1, <1>2, FS_Subset
<1>4. Cardinality(E) \in Nat /\ Cardinality(F) \in Nat
  BY <1>2, <1>3, FS_CardinalityType
<1> QED BY <1>3, <1>4

\* The job that a lease takes is due and in time, and the due work of its queue that stays
\* queued comes after it.
TakenInOrder(j) ==
  /\ jobs[j].run_at <= now
  /\ jobs[j].deadline_at # None => jobs[j].deadline_at >= now
  /\ \A i \in Live :
       /\ jobs[i].queue = jobs[j].queue
       /\ jobs[i].status = "queued" /\ jobs'[i].status = "queued"
       /\ jobs[i].run_at <= now
       => Before(EntryOf(j, jobs[j]), EntryOf(i, jobs[i]))

\* lease_jobs_batch takes jobs in order.
LEMMA LeaseTakesInOrder ==
  ASSUME JobInv, NEW q \in Queues, NEW w \in Workers, NEW n \in BatchSizes, lease_jobs_batch(q, w, n),
         NEW j \in Live, jobs[j].status = "queued", jobs'[j].status = "running"
  PROVE  TakenInOrder(j)
<1> DEFINE expired == ExpiredDeadlines(q)
           taken == Candidates(q, n)
           runnable == {e \in queued_jobs[q] \ expired : e.run_at <= now}
<1>0. /\ TypeOK /\ IndexMatchesStatus /\ n \in Int /\ j \in JobIds
      /\ \A i \in Live : i \in JobIds /\ jobs[i] \in Job
  BY InputsAssumption DEF JobInv, TypeOK, Live
<1>1. \A i \in Live : jobs'[i] = IF i \in Ids(taken) THEN Leased(jobs[i], w)
                                 ELSE IF i \in Ids(expired) THEN PastDeadline(jobs[i])
                                 ELSE jobs[i]
  BY <1>0 DEF lease_jobs_batch
<1>2. \A e \in queued_jobs[q] : /\ e \in QueueEntry /\ e.id \in JobIds /\ Waiting(jobs, e.id, q)
                                /\ e = EntryOf(e.id, jobs[e.id])
  BY <1>0, EntryIsWaiting DEF TypeOK
<1>3. taken = {e \in runnable : Cardinality({f \in runnable : Before(f, e)}) < n}
  BY DEF Candidates
<1>4. runnable \in SUBSET QueueEntry /\ runnable \subseteq queued_jobs[q] /\ IsFiniteSet(runnable)
  BY <1>0, <1>2, IndexIsFinite, FS_Subset
<1>5. \A i \in Live : EntryOf(i, jobs[i]).run_at = jobs[i].run_at /\ EntryOf(i, jobs[i]).id = i
  BY DEF EntryOf
<1>6. j \in Ids(taken)
  BY <1>0, <1>1, LeasedFields
<1> HIDE DEF taken, expired, runnable
<1>7. PICK e \in taken : e.id = j
  BY <1>6 DEF Ids
<1>8. e \in runnable /\ Cardinality({f \in runnable : Before(f, e)}) < n
  BY <1>3
<1>9. e = EntryOf(j, jobs[j]) /\ e \in queued_jobs[q] /\ jobs[j].queue = q
  BY <1>2, <1>4, <1>7, <1>8 DEF Waiting
<1>10. e \notin expired /\ e.run_at <= now
  BY <1>8 DEF runnable
<1>11. jobs[j].run_at <= now
  BY <1>5, <1>9, <1>10
<1>12. jobs[j].deadline_at # None => jobs[j].deadline_at >= now
  <2>1. jobs[j].deadline_at # None => ~ (jobs[j].deadline_at < now)
    BY <1>7, <1>9, <1>10 DEF expired, ExpiredDeadlines, Live
  <2>2. jobs[j].deadline_at # None => jobs[j].deadline_at \in Nat
    BY <1>0, HorizonAssumption DEF Job, Instants
  <2>3. now \in Nat
    BY <1>0, HorizonAssumption DEF TypeOK, Instants
  <2> QED BY <2>1, <2>2, <2>3
<1>13. ASSUME NEW i \in Live, jobs[i].queue = jobs[j].queue, jobs[i].status = "queued",
              jobs'[i].status = "queued", jobs[i].run_at <= now
       PROVE  Before(EntryOf(j, jobs[j]), EntryOf(i, jobs[i]))
  <2> DEFINE f == EntryOf(i, jobs[i])
  <2>1. f \in queued_jobs[q] /\ f.id = i
    BY <1>0, <1>5, <1>9, <1>13, IndexNow DEF Indexes, Waiting, Live
  <2>2. i \notin Ids(taken) /\ i \notin Ids(expired)
    BY <1>0, <1>1, <1>13, LeasedFields
  <2>3. f \notin taken /\ f \notin expired
    BY <2>1, <2>2 DEF Ids
  <2>4. f \in runnable
    BY <1>5, <1>13, <2>1, <2>3 DEF runnable
  <2>5. ~ (Cardinality({g \in runnable : Before(g, f)}) < n)
    BY <1>3, <2>3, <2>4
  <2>6. e.id # f.id
    BY <1>7, <1>13, <2>1, <2>2, <1>6
  <2> HIDE DEF f
  <2>7. Before(e, f)
    BY <1>0, <1>4, <1>8, <2>4, <2>5, <2>6, FirstAreBefore
  <2> QED BY <1>9, <2>7 DEF f
<1> QED BY <1>11, <1>12, <1>13 DEF TakenInOrder

\* Nothing but a lease makes queued work run.
LEMMA OnlyLeasesRun ==
  ASSUME JobInv, [Next]_vars, NEW j \in Live, jobs[j].status = "queued", jobs'[j].status = "running"
  PROVE  \E q \in Queues, w \in Workers, n \in BatchSizes : lease_jobs_batch(q, w, n)
<1>0. TypeOK /\ j \in JobIds /\ jobs[j] \in Job /\ jobs[j] # None
  BY DEF JobInv, TypeOK, Live
<1>s. jobs'[j] # jobs[j]
  OBVIOUS
<1>i. ASSUME NEW id \in Unused, NEW job \in Job, Inserted(id, job) PROVE FALSE
  BY <1>0, <1>s, <1>i DEF Inserted, Unused, TypeOK
<1>1. ASSUME NEW nj \in NewJobs, NEW id \in Unused, enqueue(nj, id) PROVE FALSE
  BY <1>0, <1>1, <1>i, EnqueueInserts
<1>2. ASSUME NEW src \in JobIds, NEW id \in Unused, NEW q \in Queues, NEW t \in ReplayTimes,
             replay_job(src, id, q, IF t = None THEN now ELSE t)
      PROVE  FALSE
  <2>1. (IF t = None THEN now ELSE t) \in Instants
    BY <1>0, InputsAssumption DEF TypeOK
  <2> QED BY <1>0, <1>2, <1>i, <2>1, ReplayInserts
<1>3. ASSUME NEW i \in JobIds, cancel_queued_job(i) PROVE FALSE
  <2>1. jobs'[i] = [Unlocked(jobs[i]) EXCEPT !.status = "canceled"] /\ jobs[i] # None
    BY <1>0, <1>3 DEF cancel_queued_job, TypeOK
  <2>2. jobs'[i].status = "canceled"
    BY <1>0, <2>1, UnlockedRow DEF JobStatus
  <2>3. i # j => jobs'[j] = jobs[j]
    BY <1>0, <1>3 DEF cancel_queued_job, TypeOK
  <2> QED BY <1>s, <2>2, <2>3
<1>4. ASSUME NEW w \in Workers, NEW i \in JobIds, HoldsLease(i, w), NEW new,
             jobs' = [jobs EXCEPT ![i] = new]
      PROVE  FALSE
  BY <1>0, <1>s, <1>4 DEF HoldsLease, TypeOK
<1>5. ASSUME NEW w \in Workers, NEW i \in JobIds, extend_lease(i, w) PROVE FALSE
  <2>1. i # j
    BY <1>5 DEF extend_lease, HoldsLease
  <2>2. jobs'[j] = jobs[j]
    BY <1>0, <1>5, <2>1 DEF extend_lease, TypeOK
  <2> QED BY <1>s, <2>2
<1>6. ASSUME NEW w \in Workers, NEW i \in JobIds, cancel_running_job(i, w) PROVE FALSE
  BY <1>4, <1>6 DEF cancel_running_job
<1>7. ASSUME NEW w \in Workers, NEW i \in JobIds, NEW a \in AttemptIds,
             \/ mark_succeeded_once(i, a, w)
             \/ \E d \in RetryDelays : reschedule_for_retry(i, a, w, At(now + d))
             \/ \E reason \in DlqReasons : mark_dlq(i, a, w, reason)
      PROVE  FALSE
  BY <1>4, <1>7 DEF mark_succeeded_once, reschedule_for_retry, mark_dlq
<1>8. ASSUME NEW w \in Workers, NEW i \in JobIds, NEW a \in AttemptIds, NEW id \in Unused,
             mark_succeeded_recurring(i, a, w, id)
      PROVE  FALSE
  <2>1. i # j /\ id # j
    BY <1>0, <1>8 DEF mark_succeeded_recurring, HoldsLease, Unused
  <2>2. jobs'[j] = jobs[j]
    BY <1>0, <1>8, <2>1 DEF mark_succeeded_recurring, TypeOK
  <2> QED BY <1>s, <2>2
<1>9. ASSUME reap_expired_locks PROVE FALSE
  BY <1>0, <1>s, <1>9 DEF reap_expired_locks, ExpiredLocks
<1>10. ASSUME NEW cutoff \in Cutoffs, NEW limit \in BatchSizes,
              archive_succeeded_older_than(cutoff, limit)
       PROVE  FALSE
  <2>1. PICK moved \in Limited({i \in Live : jobs[i].status = "succeeded" /\ jobs[i].updated_at < cutoff}, limit) :
          jobs' = [i \in JobIds |-> IF i \in moved THEN None ELSE jobs[i]]
    BY <1>10 DEF archive_succeeded_older_than
  <2>2. \A i \in moved : jobs[i].status = "succeeded"
    BY DEF Limited
  <2> QED BY <1>0, <1>s, <2>1, <2>2
<1>11. ASSUME Tick \/ (\E w \in Workers, js \in Batches : start_attempts_batch(js, w))
              \/ (\E cutoff \in Cutoffs, limit \in BatchSizes :
                    delete_history_for_succeeded_older_than(cutoff, limit))
              \/ UNCHANGED vars
       PROVE  FALSE
  BY <1>s, <1>11 DEF Tick, start_attempts_batch, delete_history_for_succeeded_older_than, vars
<1> QED
  BY <1>1, <1>2, <1>3, <1>5, <1>6, <1>7, <1>8, <1>9, <1>10, <1>11 DEF Next, Produce, Work, Archive

\* A lease takes a job only when it is due and in time, and before every other due job of
\* its queue that it leaves behind, for every sequence of calls, every batch size and every
\* number of queues (lease_jobs_batch against the order of QueueEntry).
THEOREM LeasesAreInOrder == Spec => LeaseInOrder
<1>1. JobInv /\ [Next]_vars =>
        [\A j \in Live : jobs[j].status = "queued" /\ jobs'[j].status = "running" =>
           TakenInOrder(j)]_vars
  BY OnlyLeasesRun, LeaseTakesInOrder
<1> QED BY <1>1, JobInvHolds, PTL DEF Spec, LeaseInOrder, TakenInOrder

----------------------------------------------------------------------------
(* The worker loop is one of the clients                                    *)

\* What a flow holds of each job of its batch.
Round == [job : JobIds, attempt : AttemptIds \cup {None}]

Places == {"top", "reaped", "idle", "leased", "handler"} \cup Down

JobsOf(rounds) == [i \in DOMAIN rounds |-> rounds[i].job]

\* Every round has an attempt that was started, so that the handler can report.
Ready(rounds) == rounds # <<>> /\ \A i \in DOMAIN rounds : rounds[i].attempt \in AttemptIds

\* The batch of a flow that has leased holds distinct jobs; while handlers run, there is a
\* job left and every job that is left has an attempt.
LoopInv ==
  /\ pc \in [Flows -> Places]
  /\ batch \in [Flows -> Seq(Round)]
  /\ \A f \in Flows : pc[f] = "leased" => JobsOf(batch[f]) \in Batches
  /\ \A f \in Flows : pc[f] = "handler" => Ready(batch[f])

\* No entry comes before itself.
LEMMA BeforeIsStrict == ASSUME NEW e \in QueueEntry PROVE ~ Before(e, e)
  BY EntryIntegers DEF Before

\* A sequence of distinct jobs is a batch.
LEMMA BatchOfDistinct ==
  ASSUME NEW m \in 1 .. Cardinality(JobIds), NEW js \in [1 .. m -> JobIds],
         \A i, k \in 1 .. m : js[i] = js[k] => i = k
  PROVE  js \in Batches
  BY DEF Batches

\* The Vec of a lease that found work holds distinct jobs, and not more than there are.
LEMMA LeasedBatch ==
  ASSUME JobInv, NEW q \in Queues, NEW n \in Nat, Candidates(q, n) # {},
         NEW s \in InOrder(Candidates(q, n)),
         NEW rounds, rounds = [i \in DOMAIN s |-> [job |-> s[i].id, attempt |-> None]]
  PROVE  rounds \in Seq(Round) /\ JobsOf(rounds) \in Batches
<1> DEFINE taken == Candidates(q, n)
           m == Cardinality(taken)
<1>0. TypeOK /\ IndexMatchesStatus
  BY DEF JobInv
<1>1. taken \subseteq queued_jobs[q]
  BY DEF Candidates
<1>2. \A e \in taken : e \in QueueEntry /\ e.id \in JobIds /\ e = EntryOf(e.id, jobs[e.id])
  BY <1>0, <1>1, EntryIsWaiting DEF TypeOK
<1>3. IsFiniteSet(taken)
  BY <1>0, <1>1, IndexIsFinite, FS_Subset
<1> DEFINE g == [e \in taken |-> e.id]
<1>4. g \in Injection(taken, JobIds)
  BY <1>2 DEF Injection, IsInjective
<1>5. m \in Nat /\ m <= Cardinality(JobIds)
  <2> HIDE DEF g, taken
  <2> QED BY <1>3, <1>4, FS_CardinalityType, FS_Injection, JobIdsAssumption
<1>6. m # 0
  BY <1>3, FS_EmptySet
<1>7. Cardinality(JobIds) \in Nat /\ m \in 1 .. Cardinality(JobIds)
  BY <1>5, <1>6, FS_CardinalityType, JobIdsAssumption
<1>8. s \in [1 .. m -> taken] /\ \A i, k \in 1 .. m : i < k => Before(s[i], s[k])
  BY DEF InOrder
<1> HIDE DEF taken, m
<1>9. \A i, k \in 1 .. m : s[i].id = s[k].id => i = k
  <2> SUFFICES ASSUME NEW i \in 1 .. m, NEW k \in 1 .. m, s[i].id = s[k].id, i < k PROVE FALSE
    BY <1>5
  <2>1. s[i] \in taken /\ s[k] \in taken
    BY <1>8
  <2>2. s[i] = s[k]
    BY <1>2, <2>1
  <2> QED BY <1>2, <1>8, <2>1, <2>2, BeforeIsStrict
<1>10. JobsOf(rounds) = [i \in 1 .. m |-> s[i].id]
  BY <1>8 DEF JobsOf
<1>11. JobsOf(rounds) \in Batches
  <2>1. JobsOf(rounds) \in [1 .. m -> JobIds]
    BY <1>2, <1>8, <1>10
  <2>2. \A i, k \in 1 .. m : JobsOf(rounds)[i] = JobsOf(rounds)[k] => i = k
    BY <1>9, <1>10
  <2> QED BY <1>7, <2>1, <2>2, BatchOfDistinct
<1>12. rounds \in [1 .. m -> Round]
  BY <1>2, <1>8 DEF Round
<1> QED BY <1>5, <1>11, <1>12

\* When start_attempts_batch gets through the batch, every job has its attempt.
LEMMA StartedBatch ==
  ASSUME TypeOK, NEW w \in Workers, NEW js \in Batches, start_attempts_batch(js, w),
         Reaches(js, w, Len(js)),
         NEW rounds, rounds = [i \in DOMAIN js |-> [job |-> js[i], attempt |-> last_attempt + i]]
  PROVE  rounds \in Seq(Round) /\ Ready(rounds)
<1>1. last_attempt \in Nat
  BY AttemptsAssumption DEF TypeOK
<1>2. PICK m \in 1 .. Cardinality(JobIds) : js \in [1 .. m -> JobIds]
  BY DEF Batches
<1>3. m \in Nat \ {0} /\ Len(js) = m /\ DOMAIN js = 1 .. m
  BY <1>2, FS_CardinalityType, JobIdsAssumption
<1>4. PICK n \in 0 .. m : Reaches(js, w, n) /\ last_attempt + n <= MaxAttemptId
  BY <1>3 DEF start_attempts_batch
<1>5. n = m
  <2> SUFFICES ASSUME n < m PROVE FALSE
    BY <1>3, <1>4
  <2>1. n + 1 \in 1 .. m
    BY <1>3
  <2> QED BY <1>3, <1>4, <2>1 DEF Reaches
<1>6. \A i \in 1 .. m : last_attempt + i \in AttemptIds
  BY <1>1, <1>3, <1>4, <1>5, AttemptsAssumption DEF AttemptIds
<1>7. rounds \in [1 .. m -> Round]
  BY <1>2, <1>3, <1>6 DEF Round
<1>8. rounds \in Seq(Round) /\ rounds # <<>>
  BY <1>3, <1>7
<1>9. \A i \in DOMAIN rounds : rounds[i].attempt \in AttemptIds
  BY <1>3, <1>6
<1> QED BY <1>8, <1>9 DEF Ready

\* A flow that is at a lease it took was there before, with the same batch.
NoneLeased == \A f \in Flows : pc'[f] = "leased" => pc[f] = "leased" /\ batch'[f] = batch[f]

\* Moving one flow keeps the invariant of the loop if the place fits the batch.
LEMMA GoKeepsLoopInv ==
  ASSUME LoopInv, NEW f \in Flows, NEW where \in Places, NEW left \in Seq(Round), Go(f, where, left),
         where = "leased" => JobsOf(left) \in Batches, where = "handler" => Ready(left)
  PROVE  LoopInv'
<1>1. pc' \in [Flows -> Places] /\ batch' \in [Flows -> Seq(Round)]
  BY DEF LoopInv, Go
<1>2. /\ pc'[f] = where /\ batch'[f] = left
      /\ \A g \in Flows : g # f => pc'[g] = pc[g] /\ batch'[g] = batch[g]
  BY DEF LoopInv, Go
<1>3. \A g \in Flows : pc'[g] = "leased" => JobsOf(batch'[g]) \in Batches
  BY <1>2 DEF LoopInv
<1>4. \A g \in Flows : pc'[g] = "handler" => Ready(batch'[g])
  BY <1>2 DEF LoopInv
<1>5. \A g : JobsOf(batch[g])' = JobsOf(batch'[g]) /\ Ready(batch[g])' = Ready(batch'[g]) /\ Batches' = Batches
  BY DEF JobsOf, Ready, Batches
<1> QED BY <1>1, <1>3, <1>4, <1>5 DEF LoopInv

\* Only Lease takes a flow to "leased".
LEMMA GoElsewhere ==
  ASSUME LoopInv, NEW f \in Flows, NEW where, where # "leased", NEW left, Go(f, where, left)
  PROVE  NoneLeased
  BY DEF LoopInv, Go, NoneLeased

\* The job whose handler runs and its attempt.
LEMMA CurrentType ==
  ASSUME LoopInv, NEW f \in Flows, pc[f] = "handler"
  PROVE  Current(f).job \in JobIds /\ Current(f).attempt \in AttemptIds
<1>1. batch[f] \in Seq(Round) /\ batch[f] # <<>> /\ \A i \in DOMAIN batch[f] : batch[f][i].attempt \in AttemptIds
  BY DEF LoopInv, Ready
<1>2. 1 \in DOMAIN batch[f] /\ Head(batch[f]) = batch[f][1] /\ batch[f][1] \in Round
  BY <1>1
<1> QED BY <1>1, <1>2 DEF Current, Round

\* What is left of a sequence that has more than one element.
LEMMA TailType ==
  ASSUME NEW S, NEW s \in Seq(S), Len(s) > 1, NEW t, t = Tail(s)
  PROVE  t \in Seq(S) /\ t # <<>>
<1>1. s # <<>> /\ Len(s) \in Nat
  OBVIOUS
<1>2. t \in Seq(S) /\ Len(t) = Len(s) - 1
  BY <1>1
<1>3. Len(t) # 0
  BY <1>1, <1>2
<1>4. ASSUME NEW u, u = <<>> PROVE Len(u) = 0
  BY <1>4
<1> QED BY <1>2, <1>3, <1>4

\* Going on with the next job of the batch, or to the top.
LEMMA AdvanceKeeps ==
  ASSUME LoopInv, NEW f \in Flows, pc[f] = "handler", Advance(f)
  PROVE  LoopInv' /\ NoneLeased
<1> DEFINE left == Tail(batch[f])
<1>1. batch[f] \in Seq(Round) /\ Ready(batch[f])
  BY DEF LoopInv
<1>2. CASE Len(batch[f]) > 1
  <2>1. left \in Seq(Round) /\ left # <<>>
    BY <1>1, <1>2, TailType
  <2>2. ASSUME NEW i \in DOMAIN left PROVE left[i].attempt \in AttemptIds
    <3>1. i + 1 \in DOMAIN batch[f] /\ left[i] = batch[f][i + 1]
      BY <1>1, <1>2, <2>2
    <3> QED BY <1>1, <3>1 DEF Ready
  <2>3. Ready(left)
    BY <2>1, <2>2 DEF Ready
  <2>4. Go(f, "handler", left)
    BY <1>2 DEF Advance
  <2> HIDE DEF left
  <2> QED BY <2>1, <2>3, <2>4, GoKeepsLoopInv, GoElsewhere DEF Places
<1>3. CASE ~ (Len(batch[f]) > 1)
  <2>1. Go(f, "top", <<>>) /\ <<>> \in Seq(Round)
    BY <1>3 DEF Advance
  <2> QED BY <2>1, GoKeepsLoopInv, GoElsewhere DEF Places
<1> QED BY <1>2, <1>3

\* Going to the top, waiting or going down drops the batch.
LEMMA DropKeeps ==
  ASSUME LoopInv, NEW f \in Flows, NEW where \in Places \ {"leased", "handler"}, Go(f, where, <<>>)
  PROVE  LoopInv' /\ NoneLeased
<1>1. <<>> \in Seq(Round)
  OBVIOUS
<1> QED BY <1>1, GoKeepsLoopInv, GoElsewhere

\* A handler's failure reaches the backend: a retry only while the budget lasts.
FailureReported(j, a, w) ==
  \/ /\ attempts[a].attempt_no < jobs[j].max_attempts
     /\ \E d \in RetryDelays : reschedule_for_retry(j, a, w, At(now + d))
  \/ \E reason \in DlqReasons : mark_dlq(j, a, w, reason)

\* The calls that neither lease, nor start attempts, nor report a failure.
CalmCall ==
  \/ UNCHANGED vars \/ Tick \/ Produce \/ Archive \/ reap_expired_locks
  \/ \E w \in Workers, j \in JobIds :
       \/ extend_lease(j, w)
       \/ cancel_running_job(j, w)
       \/ \E a \in AttemptIds : \/ mark_succeeded_once(j, a, w)
                                \/ \E id \in Unused : mark_succeeded_recurring(j, a, w, id)

\* A flow that is at a lease starts the attempts of its batch.
StartOf(f) ==
  /\ pc[f] = "leased" /\ pc'[f] # "leased"
  /\ start_attempts_batch(JobsOf(batch[f]), worker_id[f])

\* The step is one call of the backend and leaves no flow at a lease.
CallOf ==
  /\ NoneLeased
  /\ \/ CalmCall
     \/ \E w \in Workers, q \in Queues : lease_jobs_batch(q, w, BatchSize)
     \/ \E f \in Flows : StartOf(f)
     \/ \E w \in Workers, j \in JobIds, a \in AttemptIds : FailureReported(j, a, w)

\* handle_failure reports with a reason code of its own.
LEMMA FailureIsReported ==
  ASSUME LoopInv, NEW f \in Flows, pc[f] = "handler",
         NEW outcome \in HandlerOutcomes \ {"ok"}, handle_failure(f, outcome)
  PROVE  FailureReported(Current(f).job, Current(f).attempt, worker_id[f])
<1>1. DlqReason(outcome) \in DlqReasons
  BY FlowAssumption DEF ReasonCodes
<1> QED BY <1>1, Zenon DEF handle_failure, FailureReported

\* Every step of the loop but the lease is a call of the backend that a client may make.
LEMMA LoopStep ==
  ASSUME JobInv, LoopInv, FlowNext, ~ \E f \in Flows : Lease(f)
  PROVE  LoopInv' /\ CallOf
<1>0. TypeOK /\ BatchSize \in BatchSizes
  BY FlowAssumption DEF JobInv
<1>w. \A f \in Flows : worker_id[f] \in Workers /\ queue[f] \in Queues
  BY FlowAssumption
<1>u. ASSUME UNCHANGED flowVars PROVE LoopInv' /\ NoneLeased
  BY <1>u DEF flowVars, LoopInv, NoneLeased, JobsOf, Ready, Batches
<1>1. ASSUME Client PROVE LoopInv' /\ CallOf
  <2>1. UNCHANGED flowVars
    BY <1>1 DEF Client
  <2>2. CalmCall
    BY <1>1, <1>w DEF Client, CalmCall
  <2> QED BY <1>u, <2>1, <2>2 DEF CallOf
<1> SUFFICES ASSUME NEW f \in Flows, ~ Lease(f),
                    Step(f) \/ Shutdown(f) \/ ReturnWhenEmpty(f) \/ Crash(f) \/ Restart(f)
             PROVE  LoopInv' /\ CallOf
  BY <1>1 DEF FlowNext
<1> DEFINE j == Current(f).job
           a == Current(f).attempt
<1>2. ASSUME Reap(f) PROVE LoopInv' /\ CallOf
  <2>1. batch[f] \in Seq(Round) /\ "reaped" \in Places /\ "reaped" # "leased" /\ "reaped" # "handler"
    BY DEF LoopInv, Places
  <2>2. LoopInv' /\ NoneLeased
    BY <1>2, <2>1, GoKeepsLoopInv, GoElsewhere DEF Reap
  <2> QED BY <1>2, <2>2 DEF Reap, CallOf, CalmCall
<1>3. ASSUME \E where \in Places \ {"leased", "handler"} : Go(f, where, <<>>)
      PROVE  LoopInv' /\ NoneLeased
  BY <1>3, DropKeeps
<1>4. ASSUME Wake(f) \/ Shutdown(f) \/ Crash(f) \/ Restart(f) \/ ReportRejected(f)
      PROVE  LoopInv' /\ CallOf
  <2>1. UNCHANGED vars /\ \E where \in Places \ {"leased", "handler"} : Go(f, where, <<>>)
    BY <1>4 DEF Wake, Shutdown, Crash, Restart, ReportRejected, Places, Down
  <2> QED BY <1>3, <2>1 DEF CallOf, CalmCall
<1>5. ASSUME ReturnWhenEmpty(f) PROVE LoopInv' /\ CallOf
  <2>1. \E where \in Places \ {"leased", "handler"} : Go(f, where, <<>>)
    BY <1>5 DEF ReturnWhenEmpty, Places, Down
  <2>2. lease_jobs_batch(queue[f], worker_id[f], BatchSize)
    BY <1>5 DEF ReturnWhenEmpty
  <2> QED BY <1>3, <1>w, <2>1, <2>2 DEF CallOf
<1>6. ASSUME StartAttempts(f) PROVE LoopInv' /\ CallOf
  <2> DEFINE js == JobsOf(batch[f])
             rounds == [i \in DOMAIN js |-> [job |-> js[i], attempt |-> last_attempt + i]]
  <2>1. /\ pc[f] = "leased" /\ start_attempts_batch(js, worker_id[f])
        /\ IF Reaches(js, worker_id[f], Len(js)) THEN Go(f, "handler", rounds) ELSE Go(f, "failed", <<>>)
    BY <1>6 DEF StartAttempts, JobsOf
  <2>2. js \in Batches
    BY <2>1 DEF LoopInv
  <2> HIDE DEF js
  <2>3. CASE Reaches(js, worker_id[f], Len(js))
    <3>1. rounds \in Seq(Round) /\ Ready(rounds)
      BY <1>0, <1>w, <2>1, <2>2, <2>3, StartedBatch
    <3>2. Go(f, "handler", rounds) /\ "handler" \in Places /\ "handler" # "leased"
      BY <2>1, <2>3 DEF Places
    <3> HIDE DEF rounds
    <3>3. LoopInv' /\ NoneLeased
      BY <3>1, <3>2, GoKeepsLoopInv, GoElsewhere
    <3>4. pc'[f] # "leased"
      BY <3>2 DEF Go, LoopInv
    <3> QED BY <2>1, <3>3, <3>4 DEF CallOf, StartOf, js
  <2>4. CASE ~ Reaches(js, worker_id[f], Len(js))
    <3>1. Go(f, "failed", <<>>) /\ "failed" \in Places \ {"leased", "handler"}
      BY <2>1, <2>4 DEF Places, Down
    <3>2. LoopInv' /\ NoneLeased
      BY <1>3, <3>1
    <3>3. pc'[f] # "leased"
      BY <3>1 DEF Go, LoopInv
    <3> QED BY <2>1, <3>2, <3>3 DEF CallOf, StartOf, js
  <2> QED BY <2>3, <2>4
<1>7. ASSUME Heartbeat(f) PROVE LoopInv' /\ CallOf
  <2>1. j \in JobIds /\ extend_lease(j, worker_id[f]) /\ UNCHANGED flowVars
    BY <1>7, CurrentType DEF Heartbeat
  <2> HIDE DEF j
  <2> QED BY <1>u, <1>w, <2>1 DEF CallOf, CalmCall
<1>8. ASSUME HandlerOk(f) PROVE LoopInv' /\ CallOf
  <2>1. pc[f] = "handler" /\ Advance(f)
    BY <1>8 DEF HandlerOk
  <2>2. j \in JobIds /\ a \in AttemptIds
    BY <2>1, CurrentType
  <2>3. \/ mark_succeeded_once(j, a, worker_id[f])
        \/ \E id \in Unused : mark_succeeded_recurring(j, a, worker_id[f], id)
    BY <1>8 DEF HandlerOk
  <2>4. LoopInv' /\ NoneLeased
    BY <2>1, AdvanceKeeps
  <2> HIDE DEF j, a
  <2> QED BY <1>w, <2>2, <2>3, <2>4 DEF CallOf, CalmCall
<1>9. ASSUME FailureReported(j, a, worker_id[f]), pc[f] = "handler", Advance(f) \/ Go(f, "top", <<>>)
      PROVE  LoopInv' /\ CallOf
  <2>1. LoopInv' /\ NoneLeased
    BY <1>3, <1>9, AdvanceKeeps DEF Places
  <2>2. j \in JobIds /\ a \in AttemptIds
    BY <1>9, CurrentType
  <2> HIDE DEF j, a
  <2> QED BY <1>9, <1>w, <2>1, <2>2 DEF CallOf
<1>10. ASSUME HandlerFails(f) PROVE LoopInv' /\ CallOf
  <2>1. PICK outcome \in Outcomes \cap {"retryable", "permanent", "cancelled"} :
          CanReport(f) /\ handle_failure(f, outcome)
    BY <1>10 DEF HandlerFails
  <2>2. outcome \in HandlerOutcomes \ {"ok"} /\ pc[f] = "handler" /\ Advance(f)
    BY <1>10 DEF HandlerOutcomes, HandlerFails
  <2> QED BY <1>9, <2>1, <2>2, FailureIsReported
<1>11. ASSUME HandlerTimesOut(f) PROVE LoopInv' /\ CallOf
  <2>1. handle_failure(f, "timeout") /\ pc[f] = "handler" /\ Go(f, "top", <<>>)
    BY <1>11 DEF HandlerTimesOut
  <2>2. "timeout" \in HandlerOutcomes \ {"ok"}
    BY DEF HandlerOutcomes
  <2> QED BY <1>9, <2>1, <2>2, FailureIsReported
<1>12. ASSUME HandlerPanics(f) PROVE LoopInv' /\ CallOf
  <2>1. mark_dlq(j, a, worker_id[f], "PANIC") /\ pc[f] = "handler" /\ Advance(f)
    BY <1>12 DEF HandlerPanics
  <2>2. "panic" \in HandlerOutcomes \ {"ok"} /\ DlqReason("panic") = "PANIC"
    BY DEF HandlerOutcomes, DlqReason
  <2>3. "PANIC" \in DlqReasons
    BY <2>2, FlowAssumption DEF ReasonCodes
  <2>4. FailureReported(j, a, worker_id[f])
    BY <2>1, <2>3 DEF FailureReported
  <2> QED BY <1>9, <2>1, <2>4
<1> HIDE DEF j, a
<1> QED BY <1>2, <1>4, <1>5, <1>6, <1>7, <1>8, <1>10, <1>11, <1>12 DEF Step

\* A lease by a flow: the backend's call, and the batch it returns.
LEMMA LeaseKeepsLoopInv ==
  ASSUME JobInv, LoopInv, NEW f \in Flows, Lease(f)
  PROVE  LoopInv'
<1>1. queue[f] \in Queues /\ BatchSize \in Nat
  BY FlowAssumption
<1> DEFINE taken == Candidates(queue[f], BatchSize)
<1>2. PICK s \in InOrder(taken) :
        Go(f, IF taken = {} THEN "idle" ELSE "leased",
           [i \in DOMAIN s |-> [job |-> s[i].id, attempt |-> None]])
  BY DEF Lease
<1> DEFINE rounds == [i \in DOMAIN s |-> [job |-> s[i].id, attempt |-> None]]
<1>3. CASE taken = {}
  <2>1. DOMAIN s = {}
    BY <1>2, <1>3, FS_EmptySet DEF InOrder
  <2>2. rounds = <<>>
    BY <2>1
  <2>3. Go(f, "idle", <<>>) /\ "idle" \in Places \ {"leased", "handler"}
    BY <1>2, <1>3, <2>2 DEF Places
  <2> QED BY <2>3, DropKeeps
<1>4. CASE taken # {}
  <2>1. rounds \in Seq(Round) /\ JobsOf(rounds) \in Batches
    BY <1>1, <1>4, LeasedBatch
  <2>2. Go(f, "leased", rounds) /\ "leased" \in Places /\ "leased" # "handler"
    BY <1>2, <1>4 DEF Places
  <2> HIDE DEF rounds
  <2> QED BY <2>1, <2>2, GoKeepsLoopInv
<1> QED BY <1>3, <1>4

\* What a flow calls, a client may call.
LEMMA CallIsNext ==
  ASSUME LoopInv,
         \/ CallOf
         \/ \E f \in Flows : Lease(f)
  PROVE  [Next]_vars
<1>1. \A f \in Flows : worker_id[f] \in Workers /\ queue[f] \in Queues
  BY FlowAssumption
<1>2. BatchSize \in BatchSizes
  BY FlowAssumption
<1>3. ASSUME CalmCall PROVE [Next]_vars
  BY <1>3 DEF CalmCall, Next, Work
<1>4. ASSUME NEW w \in Workers, NEW q \in Queues, lease_jobs_batch(q, w, BatchSize) PROVE Next
  BY <1>2, <1>4 DEF Next, Work
<1>5. ASSUME NEW f \in Flows, StartOf(f) PROVE Next
  <2>1. JobsOf(batch[f]) \in Batches /\ start_attempts_batch(JobsOf(batch[f]), worker_id[f])
    BY <1>5 DEF StartOf, LoopInv
  <2> QED BY <1>1, <2>1 DEF Next, Work
<1>6. ASSUME NEW w \in Workers, NEW j \in JobIds, NEW a \in AttemptIds, FailureReported(j, a, w) PROVE Next
  BY <1>6 DEF FailureReported, Next, Work
<1>7. ASSUME NEW f \in Flows, Lease(f) PROVE Next
  <2>1. lease_jobs_batch(queue[f], worker_id[f], BatchSize)
    BY <1>7 DEF Lease
  <2> QED BY <1>1, <1>4, <2>1
<1> QED BY <1>3, <1>4, <1>5, <1>6, <1>7 DEF CallOf

\* Each step of the flows, alone or with their clients, is a step of the backend.
LEMMA FlowStepIsNext == JobInv /\ LoopInv /\ [FlowNext]_allVars => LoopInv' /\ [Next]_vars
<1> SUFFICES ASSUME JobInv, LoopInv, [FlowNext]_allVars PROVE LoopInv' /\ [Next]_vars
  OBVIOUS
<1>1. CASE UNCHANGED allVars
  BY <1>1 DEF allVars, flowVars, LoopInv, JobsOf, Ready, Batches
<1>2. CASE FlowNext /\ ~ \E f \in Flows : Lease(f)
  BY <1>2, LoopStep, CallIsNext
<1>3. ASSUME NEW f \in Flows, Lease(f) PROVE LoopInv' /\ [Next]_vars
  BY <1>3, LeaseKeepsLoopInv, CallIsNext
<1> QED BY <1>1, <1>2, <1>3

\* The flows keep their own invariant and those of the backend: JobInv is what makes a
\* batch a batch of distinct jobs, and that is what makes start_attempts_batch a call
\* the invariants of the backend are proved for.
LEMMA FlowInvHolds == FlowSpec => [](BackendInv /\ LoopInv)
<1>1. FlowInit => Init /\ LoopInv
  BY DEF FlowInit, LoopInv, Places
<1>2. Init => BackendInv
  <2>1. Init => TypeOK /\ IndexMatchesStatus /\ StatusEvidence
    BY HorizonAssumption, AttemptsAssumption
       DEF Init, TypeOK, Instants, IndexMatchesStatus, StatusEvidence, Live
  <2>2. Init => CompletionInv /\ HistoryInv
    BY DEF Init, CompletionInv, OneHome, AttemptHasJob, NoFutureAttempt, CompletedOnce, Live, Succeeded,
           HistoryInv, AttemptsNumbered, FailureCoded
  <2> QED BY <2>1, <2>2 DEF BackendInv, JobInv
<1>3. BackendInv /\ LoopInv /\ [FlowNext]_allVars => (BackendInv /\ LoopInv)'
  <2> SUFFICES ASSUME BackendInv, LoopInv, [FlowNext]_allVars PROVE BackendInv' /\ LoopInv'
    OBVIOUS
  <2>1. LoopInv' /\ [Next]_vars
    BY FlowStepIsNext DEF BackendInv
  <2>2. JobInv' /\ CompletionInv' /\ HistoryInv'
    BY <2>1, JobInvInductive, CompletionInvInductive, HistoryInductive DEF BackendInv, CompletionInv
  <2> QED BY <2>1, <2>2 DEF BackendInv
<1> QED BY <1>1, <1>2, <1>3, PTL DEF FlowSpec

\* The worker loop is one of the clients of the trait: whatever the flows do, their
\* leases, crashes and lost reports included, the backend is only called in ways
\* MemoryBackend allows, so that all that is proved of it holds under the loop
\* (run_with_shutdown, process_batch, run_until_empty).
THEOREM FlowIsAClient == FlowSpec => Spec
<1>1. FlowInit => Init
  BY DEF FlowInit
<1>2. BackendInv /\ LoopInv /\ [FlowNext]_allVars => [Next]_vars
  BY FlowStepIsNext DEF BackendInv
<1> QED BY <1>1, <1>2, FlowInvHolds, PTL DEF FlowSpec, Spec

----------------------------------------------------------------------------
(* What the calls of the loop do to leases and attempts                     *)

\* No two attempts of a job are open.
OneOpen == \A a, b \in AttemptIds : \A j : OpenAttempt(a, j) /\ OpenAttempt(b, j) => a = b

\* The job is new and queued, or keeps its budget and gets no lease.
RowKept(j) ==
  jobs'[j] # None =>
    \/ j \in Unused /\ jobs'[j].status = "queued"
    \/ /\ jobs[j] # None
       /\ jobs'[j].max_attempts = jobs[j].max_attempts
       /\ jobs'[j].status = "running" => jobs[j].status = "running" /\ jobs'[j].locked_by = jobs[j].locked_by

\* A job of which an attempt is left open keeps its lease.
FenceKept(j) ==
  jobs[j] # None /\ jobs[j].status = "running" /\ (\E a \in AttemptIds : OpenAttempt(a, j)') =>
    jobs'[j] # None /\ jobs'[j].status = "running" /\ jobs'[j].locked_by = jobs[j].locked_by

\* The attempt is gone, or is the same attempt of the same worker and not opened.
AttemptRow(a) ==
  attempts'[a] # None =>
    /\ attempts[a] # None
    /\ attempts'[a].job_id = attempts[a].job_id
    /\ attempts'[a].attempt_no = attempts[a].attempt_no
    /\ attempts'[a].worker_id = attempts[a].worker_id
    /\ attempts'[a].status = "running" => attempts[a].status = "running"

\* The step records no failure of a handler.
NoFailure(a) ==
  attempts'[a] # None /\ attempts'[a].error_code = "HANDLER_FAILURE" =>
    attempts[a] # None /\ attempts[a].error_code = "HANDLER_FAILURE"

\* A job that is replaced by one that does not run: its lease ends, and the fence holds
\* if its open attempt is closed, if any.
LEMMA LeaseEnds ==
  ASSUME TypeOK, NEW j \in JobIds, jobs[j] # None, NEW job,
         jobs' = [jobs EXCEPT ![j] = job],
         job.max_attempts = jobs[j].max_attempts, job.status # "running"
  PROVE  /\ \A i \in JobIds : RowKept(i)
         /\ (\A a \in AttemptIds : ~ OpenAttempt(a, j)') => \A i \in JobIds : FenceKept(i)
<1>1. jobs'[j] = job /\ \A i \in JobIds : i # j => jobs'[i] = jobs[i]
  BY DEF TypeOK
<1>2. ASSUME NEW i \in JobIds, i # j PROVE RowKept(i) /\ FenceKept(i)
  <2>1. jobs'[i] = jobs[i]
    BY <1>1, <1>2
  <2> QED BY <2>1 DEF RowKept, FenceKept
<1>3. RowKept(j)
  BY <1>1 DEF RowKept
<1>4. (\A a \in AttemptIds : ~ OpenAttempt(a, j)') => FenceKept(j)
  BY DEF FenceKept
<1> QED BY <1>2, <1>3, <1>4

\* Finishing an attempt opens none, and leaves none open if it was the only one.
LEMMA ClosingRows ==
  ASSUME TypeOK, NEW a \in AttemptIds, NEW j, OpenAttempt(a, j),
         NEW s \in {"succeeded", "failed"}, NEW c \in ErrorCodes \cup {None}, CloseAttempt(a, s, c)
  PROVE  /\ \A b \in AttemptIds : AttemptRow(b)
         /\ OneOpen => \A b \in AttemptIds : ~ OpenAttempt(b, j)'
         /\ c # "HANDLER_FAILURE" => \A b \in AttemptIds : NoFailure(b)
<1>1. /\ attempts'[a] # None /\ attempts'[a].job_id = attempts[a].job_id
      /\ attempts'[a].attempt_no = attempts[a].attempt_no
      /\ attempts'[a].worker_id = attempts[a].worker_id
      /\ attempts'[a].status = s /\ attempts'[a].error_code = c
      /\ \A b \in AttemptIds : b # a => attempts'[b] = attempts[b]
  BY CloseAttemptFields
<1>2. ASSUME NEW b \in AttemptIds PROVE AttemptRow(b)
  BY <1>1 DEF AttemptRow, OpenAttempt
<1>3. ASSUME OneOpen, NEW b \in AttemptIds PROVE ~ OpenAttempt(b, j)'
  BY <1>1, <1>3 DEF OneOpen, OpenAttempt
<1>4. ASSUME c # "HANDLER_FAILURE", NEW b \in AttemptIds PROVE NoFailure(b)
  BY <1>1, <1>4 DEF NoFailure
<1> QED BY <1>2, <1>3, <1>4

\* What a new job changes.
LEMMA InsertRows ==
  ASSUME TypeOK, NEW id \in Unused, NEW job \in Job, Inserted(id, job)
  PROVE  \A i \in JobIds : RowKept(i) /\ FenceKept(i)
<1>1. jobs'[id] = job /\ job.status = "queued" /\ \A i \in JobIds : i # id => jobs'[i] = jobs[i]
  BY DEF Inserted, TypeOK, Unused
<1> QED BY <1>1 DEF RowKept, FenceKept, Unused

\* What reaping changes: every open attempt of a job that is reaped is closed.
LEMMA ReapRows ==
  ASSUME TypeOK, reap_expired_locks
  PROVE  /\ \A i \in JobIds : RowKept(i) /\ FenceKept(i)
         /\ \A b \in AttemptIds : AttemptRow(b) /\ NoFailure(b)
<1>1. \A j \in ExpiredLocks : j \in JobIds /\ jobs[j] \in Job /\ jobs[j] # None
  BY DEF ExpiredLocks, Live, TypeOK
<1>2. \A j \in JobIds : jobs'[j] = IF j \in ExpiredLocks THEN [Unlocked(jobs[j]) EXCEPT !.status = "queued"]
                                                         ELSE jobs[j]
  BY DEF reap_expired_locks
<1>3. ASSUME NEW b \in AttemptIds
      PROVE  /\ AttemptRow(b) /\ NoFailure(b)
             /\ \A j \in ExpiredLocks : ~ OpenAttempt(b, j)'
  <2>1. CASE \E j \in ExpiredLocks : OpenAttempt(b, j)
    <3>1. ClosedAs(b, "failed", "LEASE_EXPIRED") /\ attempts[b] # None
      BY <2>1 DEF reap_expired_locks, ClosedAs, OpenAttempt
    <3>2. "LEASE_EXPIRED" \in ErrorCodes
      BY DEF ErrorCodes
    <3>3. /\ attempts'[b].job_id = attempts[b].job_id /\ attempts'[b].attempt_no = attempts[b].attempt_no
          /\ attempts'[b].worker_id = attempts[b].worker_id
          /\ attempts'[b].status = "failed" /\ attempts'[b].error_code = "LEASE_EXPIRED"
      BY <3>1, <3>2, ClosedFields
    <3> QED BY <3>1, <3>3 DEF AttemptRow, NoFailure, OpenAttempt
  <2>2. CASE ~ \E j \in ExpiredLocks : OpenAttempt(b, j)
    <3>1. attempts'[b] = attempts[b]
      BY <2>2 DEF reap_expired_locks
    <3> QED BY <2>2, <3>1 DEF AttemptRow, NoFailure, OpenAttempt
  <2> QED BY <2>1, <2>2
<1>4. ASSUME NEW i \in JobIds PROVE RowKept(i) /\ FenceKept(i)
  <2>1. CASE i \in ExpiredLocks
    <3>1. jobs'[i].status = "queued" /\ jobs'[i].max_attempts = jobs[i].max_attempts
      <4> DEFINE new == [Unlocked(jobs[i]) EXCEPT !.status = "queued"]
      <4>1. jobs[i] \in Job
        BY <1>1, <2>1
      <4>2. new.status = "queued" /\ new.max_attempts = jobs[i].max_attempts
        BY <4>1, UnlockedFields
      <4>3. jobs'[i] = new
        BY <1>2, <2>1
      <4> QED BY <4>2, <4>3
    <3> QED BY <1>1, <1>3, <2>1, <3>1 DEF RowKept, FenceKept
  <2>2. CASE i \notin ExpiredLocks
    <3>1. jobs'[i] = jobs[i]
      BY <1>2, <2>2
    <3> QED BY <3>1 DEF RowKept, FenceKept
  <2> QED BY <2>1, <2>2
<1> QED BY <1>3, <1>4

\* The step opens no lease and no attempt, and where attempts are alone on their jobs, it
\* takes no lease away from an attempt that it leaves open.
Fenced ==
  /\ \A i \in JobIds : RowKept(i)
  /\ OneOpen => \A i \in JobIds : FenceKept(i)
  /\ \A b \in AttemptIds : AttemptRow(b)

\* The same for a job that ends its lease with a status.
LEMMA EndedRows ==
  ASSUME TypeOK, NEW j \in JobIds, jobs[j] # None, NEW s, s # "running",
         jobs' = [jobs EXCEPT ![j] = [Unlocked(@) EXCEPT !.status = s]]
  PROVE  /\ \A i \in JobIds : RowKept(i)
         /\ (\A a \in AttemptIds : ~ OpenAttempt(a, j)') => \A i \in JobIds : FenceKept(i)
<1> DEFINE new == [Unlocked(jobs[j]) EXCEPT !.status = s]
<1>1. jobs[j] \in Job
  BY DEF TypeOK
<1>2. new.max_attempts = jobs[j].max_attempts /\ new.status = s
  BY <1>1, UnlockedFields
<1>3. jobs' = [jobs EXCEPT ![j] = new]
  OBVIOUS
<1> HIDE DEF new
<1> QED BY <1>2, <1>3, LeaseEnds

\* Calls that start nothing and report no failure neither open nor fail an attempt, and
\* take a lease away only with the attempts of its job.
LEMMA CalmRows ==
  ASSUME JobInv, CalmCall
  PROVE  Fenced /\ \A b \in AttemptIds : NoFailure(b)
<1> DEFINE Goal == Fenced /\ \A b \in AttemptIds : NoFailure(b)
<1>0. TypeOK
  BY DEF JobInv
<1>a. ASSUME UNCHANGED attempts PROVE \A b \in AttemptIds : AttemptRow(b) /\ NoFailure(b)
  BY <1>a DEF AttemptRow, NoFailure
<1>j. ASSUME UNCHANGED jobs PROVE \A i \in JobIds : RowKept(i) /\ FenceKept(i)
  BY <1>j DEF RowKept, FenceKept
<1>1. ASSUME UNCHANGED vars \/ Tick PROVE Goal
  BY <1>1, <1>a, <1>j DEF vars, Tick, Fenced
<1>i. ASSUME NEW id \in Unused, NEW job \in Job, Inserted(id, job) PROVE Goal
  <2>1. UNCHANGED attempts
    BY <1>i DEF Inserted
  <2> QED BY <1>0, <1>a, <1>i, <2>1, InsertRows DEF Fenced
<1>2. ASSUME NEW nj \in NewJobs, NEW id \in Unused, enqueue(nj, id) PROVE Goal
  <2> HIDE DEF Goal
  <2> QED BY <1>0, <1>2, <1>i, EnqueueInserts
<1>3. ASSUME NEW src \in JobIds, NEW id \in Unused, NEW q \in Queues, NEW t \in ReplayTimes,
             replay_job(src, id, q, IF t = None THEN now ELSE t)
      PROVE  Goal
  <2>1. (IF t = None THEN now ELSE t) \in Instants
    BY <1>0, InputsAssumption DEF TypeOK
  <2> HIDE DEF Goal
  <2> QED BY <1>0, <1>3, <1>i, <2>1, ReplayInserts
<1>4. ASSUME NEW j \in JobIds, cancel_queued_job(j) PROVE Goal
  <2> DEFINE new == [Unlocked(jobs[j]) EXCEPT !.status = "canceled"]
  <2>1. jobs[j] # None /\ jobs[j] \in Job /\ jobs[j].status = "queued" /\ UNCHANGED attempts
    BY <1>0, <1>4 DEF cancel_queued_job, TypeOK
  <2>2. new.status = "canceled" /\ new.max_attempts = jobs[j].max_attempts
    BY <2>1, UnlockedFields
  <2>3. \A i \in JobIds : jobs'[i] = IF i = j THEN new ELSE jobs[i]
    BY <1>0, <1>4 DEF cancel_queued_job, TypeOK
  <2> HIDE DEF new
  <2>4. \A i \in JobIds : RowKept(i) /\ FenceKept(i)
    BY <2>1, <2>2, <2>3 DEF RowKept, FenceKept
  <2> QED BY <1>a, <2>1, <2>4 DEF Fenced
<1>5. ASSUME NEW cutoff \in Cutoffs, NEW limit \in BatchSizes, archive_succeeded_older_than(cutoff, limit)
      PROVE  Goal
  <2> DEFINE old == {j \in Live : jobs[j].status = "succeeded" /\ jobs[j].updated_at < cutoff}
  <2>1. PICK moved \in Limited(old, limit) :
          /\ jobs' = [j \in JobIds |-> IF j \in moved THEN None ELSE jobs[j]]
          /\ UNCHANGED attempts
    BY <1>5 DEF archive_succeeded_older_than
  <2>2. \A j \in moved : jobs[j].status = "succeeded"
    BY DEF Limited
  <2> HIDE DEF old
  <2>3. \A i \in JobIds : RowKept(i) /\ FenceKept(i)
    BY <2>1, <2>2 DEF RowKept, FenceKept
  <2> QED BY <1>a, <2>1, <2>3 DEF Fenced
<1>6. ASSUME NEW cutoff \in Cutoffs, NEW limit \in BatchSizes,
             delete_history_for_succeeded_older_than(cutoff, limit)
      PROVE  Goal
  <2>1. PICK removed :
          /\ attempts' = [a \in AttemptIds |-> IF a \in removed THEN None ELSE attempts[a]]
          /\ UNCHANGED jobs
    BY <1>6 DEF delete_history_for_succeeded_older_than
  <2>2. \A b \in AttemptIds : AttemptRow(b) /\ NoFailure(b)
    BY <2>1 DEF AttemptRow, NoFailure
  <2> QED BY <1>j, <2>1, <2>2 DEF Fenced
<1>7. ASSUME reap_expired_locks PROVE Goal
  BY <1>0, <1>7, ReapRows DEF Fenced
<1>8. ASSUME NEW w \in Workers, NEW j \in JobIds, extend_lease(j, w) PROVE Goal
  <2> DEFINE new == [jobs[j] EXCEPT !.lock_expires_at = At(now + LeaseSeconds), !.updated_at = now]
  <2>1. jobs[j] \in Job /\ jobs[j] # None
    BY <1>0, <1>8 DEF extend_lease, HoldsLease, TypeOK
  <2>2. jobs' = [jobs EXCEPT ![j] = new] /\ UNCHANGED attempts
    BY <1>8, <2>1 DEF extend_lease, Job
  <2>3. /\ new.max_attempts = jobs[j].max_attempts
        /\ new.status = jobs[j].status /\ new.locked_by = jobs[j].locked_by
    BY <2>1 DEF Job
  <2>4. new # None
    <3>1. At(now + LeaseSeconds) \in Instants /\ now \in Instants
      BY <1>0, AtType, LeaseAssumption, HorizonAssumption DEF TypeOK, Instants
    <3>2. new \in Job
      BY <2>1, <3>1 DEF Job
    <3> QED BY <3>2, AbsentAssumption
  <2>5. \A i \in JobIds : jobs'[i] = IF i = j THEN new ELSE jobs[i]
    BY <1>0, <2>2 DEF TypeOK
  <2> HIDE DEF new
  <2>6. \A i \in JobIds : RowKept(i) /\ FenceKept(i)
    BY <2>1, <2>3, <2>4, <2>5 DEF RowKept, FenceKept
  <2> QED BY <1>a, <2>2, <2>6 DEF Fenced
<1>9. ASSUME NEW w \in Workers, NEW j \in JobIds, cancel_running_job(j, w) PROVE Goal
  <2>1. /\ jobs[j] # None /\ "canceled" # "running"
        /\ jobs' = [jobs EXCEPT ![j] = [Unlocked(@) EXCEPT !.status = "canceled"]]
    BY <1>9 DEF cancel_running_job, HoldsLease
  <2>2. ASSUME NEW b \in AttemptIds PROVE AttemptRow(b) /\ NoFailure(b) /\ (OneOpen => ~ OpenAttempt(b, j)')
    <3>1. CASE LatestOpen(b, j)
      <4>1. ClosedAs(b, "failed", "CANCELLED") /\ attempts[b] # None
        BY <1>9, <3>1 DEF cancel_running_job, ClosedAs, LatestOpen, OpenAttempt
      <4>2. "CANCELLED" \in ErrorCodes
        BY DEF ErrorCodes
      <4>3. /\ attempts'[b].job_id = attempts[b].job_id /\ attempts'[b].attempt_no = attempts[b].attempt_no
            /\ attempts'[b].worker_id = attempts[b].worker_id
            /\ attempts'[b].status = "failed" /\ attempts'[b].error_code = "CANCELLED"
        BY <1>0, <4>1, <4>2, ClosedFields
      <4> QED BY <4>1, <4>3 DEF AttemptRow, NoFailure, OpenAttempt
    <3>2. CASE ~ LatestOpen(b, j)
      <4>1. attempts'[b] = attempts[b]
        BY <1>9, <3>2 DEF cancel_running_job
      <4>2. OneOpen => ~ OpenAttempt(b, j)
        <5> SUFFICES ASSUME OneOpen, OpenAttempt(b, j) PROVE LatestOpen(b, j)
          BY <3>2
        <5>1. attempts[b].attempt_no \in Nat
          BY <1>0 DEF OpenAttempt, TypeOK, Attempt
        <5> QED BY <5>1 DEF LatestOpen, OneOpen
      <4> QED BY <4>1, <4>2 DEF AttemptRow, NoFailure, OpenAttempt
    <3> QED BY <3>1, <3>2
  <2>3. (\A i \in JobIds : RowKept(i)) /\ (OneOpen => \A i \in JobIds : FenceKept(i))
    BY <1>0, <2>1, <2>2, EndedRows
  <2> QED BY <2>2, <2>3 DEF Fenced
<1>10. ASSUME NEW w \in Workers, NEW j \in JobIds, NEW a \in AttemptIds, mark_succeeded_once(j, a, w)
       PROVE  Goal
  <2>1. /\ jobs[j] # None /\ "succeeded" # "running"
        /\ jobs' = [jobs EXCEPT ![j] = [Unlocked(@) EXCEPT !.status = "succeeded"]]
        /\ OpenAttempt(a, j) /\ CloseAttempt(a, "succeeded", None) /\ None # "HANDLER_FAILURE"
    BY <1>10, AbsentAssumption DEF mark_succeeded_once, HoldsLease, ErrorCodes
  <2>2. \A b \in AttemptIds : AttemptRow(b) /\ NoFailure(b) /\ (OneOpen => ~ OpenAttempt(b, j)')
    BY <1>0, <2>1, ClosingRows
  <2>3. (\A i \in JobIds : RowKept(i)) /\ (OneOpen => \A i \in JobIds : FenceKept(i))
    BY <1>0, <2>1, <2>2, EndedRows
  <2> QED BY <2>2, <2>3 DEF Fenced
<1>11. ASSUME NEW w \in Workers, NEW j \in JobIds, NEW a \in AttemptIds, NEW id \in Unused,
              mark_succeeded_recurring(j, a, w, id)
       PROVE  Goal
  <2> DEFINE new == [Unlocked(jobs[j]) EXCEPT !.status = "succeeded"]
  <2>1. /\ jobs[j] \in Job /\ jobs[j] # None /\ jobs[j].recurring_interval_seconds # None
        /\ jobs[j].status = "running" /\ id \in JobIds /\ jobs[id] = None
        /\ jobs' = [jobs EXCEPT ![j] = new, ![id] = NextOccurrence(j)]
        /\ OpenAttempt(a, j) /\ CloseAttempt(a, "succeeded", None) /\ None # "HANDLER_FAILURE"
    BY <1>0, <1>11, AbsentAssumption DEF mark_succeeded_recurring, HoldsLease, Unused, TypeOK, ErrorCodes
  <2>2. \A b \in AttemptIds : AttemptRow(b) /\ NoFailure(b) /\ (OneOpen => ~ OpenAttempt(b, j)')
    BY <1>0, <2>1, ClosingRows
  <2>3. new.max_attempts = jobs[j].max_attempts /\ new.status = "succeeded"
    BY <2>1, UnlockedFields
  <2>4. NextOccurrence(j).status = "queued"
    BY <1>0, <2>1, NextOccurrenceType
  <2> HIDE DEF new
  <2>5. j # id /\ \A i \in JobIds : jobs'[i] = IF i = id THEN NextOccurrence(j) ELSE IF i = j THEN new ELSE jobs[i]
    BY <1>0, <2>1 DEF TypeOK
  <2>6. ASSUME NEW i \in JobIds PROVE RowKept(i) /\ (OneOpen => FenceKept(i))
    BY <1>11, <2>1, <2>2, <2>3, <2>4, <2>5 DEF RowKept, FenceKept
  <2> QED BY <2>2, <2>6 DEF Fenced
<1> HIDE DEF Goal
<1>12. Goal
  BY <1>1, <1>2, <1>3, <1>4, <1>5, <1>6, <1>7, <1>8, <1>9, <1>10, <1>11 DEF CalmCall, Produce, Archive
<1> QED BY <1>12 DEF Goal

\* A reported failure closes an open attempt of its job, and ends its lease.
LEMMA FailureRows ==
  ASSUME JobInv, NEW w \in Workers, NEW j \in JobIds, NEW a \in AttemptIds, FailureReported(j, a, w)
  PROVE  /\ Fenced
         /\ \A b \in AttemptIds : b # a => attempts'[b] = attempts[b]
         /\ HoldsLease(j, w) /\ OpenAttempt(a, j)
         /\ attempts[a].attempt_no < jobs[j].max_attempts \/ jobs'[j].status = "dlq"
<1>0. TypeOK
  BY DEF JobInv
<1>1. /\ HoldsLease(j, w) /\ OpenAttempt(a, j) /\ CloseAttempt(a, "failed", "HANDLER_FAILURE")
      /\ jobs[j] # None /\ jobs[j] \in Job
  BY <1>0 DEF FailureReported, reschedule_for_retry, mark_dlq, HoldsLease, TypeOK
<1>2. "HANDLER_FAILURE" \in ErrorCodes
  BY DEF ErrorCodes
<1>3. \A b \in AttemptIds : AttemptRow(b) /\ (OneOpen => ~ OpenAttempt(b, j)')
  BY <1>0, <1>1, <1>2, ClosingRows
<1>4. \A b \in AttemptIds : b # a => attempts'[b] = attempts[b]
  BY <1>0, <1>1, <1>2, CloseAttemptFields
<1>5. ASSUME NEW d \in RetryDelays, reschedule_for_retry(j, a, w, At(now + d))
      PROVE  (\A i \in JobIds : RowKept(i)) /\ (OneOpen => \A i \in JobIds : FenceKept(i))
  <2> DEFINE new == [Unlocked(jobs[j]) EXCEPT !.status = "queued", !.run_at = At(now + d)]
  <2>1. jobs' = [jobs EXCEPT ![j] = new]
    BY <1>5 DEF reschedule_for_retry
  <2>2. new.max_attempts = jobs[j].max_attempts /\ new.status = "queued"
    BY <1>1 DEF Unlocked, Job
  <2> HIDE DEF new
  <2> QED BY <1>0, <1>1, <1>3, <2>1, <2>2, LeaseEnds
<1>6. ASSUME NEW reason \in DlqReasons, mark_dlq(j, a, w, reason)
      PROVE  /\ \A i \in JobIds : RowKept(i)
             /\ OneOpen => \A i \in JobIds : FenceKept(i)
             /\ jobs'[j].status = "dlq"
  <2> DEFINE new == [Unlocked(jobs[j]) EXCEPT !.status = "dlq", !.dlq_reason_code = reason]
  <2>1. jobs' = [jobs EXCEPT ![j] = new]
    BY <1>6 DEF mark_dlq
  <2>2. new.max_attempts = jobs[j].max_attempts /\ new.status = "dlq"
    BY <1>1 DEF Unlocked, Job
  <2> HIDE DEF new
  <2>3. jobs'[j] = new
    BY <1>0, <2>1 DEF TypeOK
  <2> QED BY <1>0, <1>1, <1>3, <2>1, <2>2, <2>3, LeaseEnds
<1> QED BY <1>1, <1>3, <1>4, <1>5, <1>6 DEF FailureReported, Fenced

\* A lease takes queued work only: no lease and no attempt of anyone else is touched.
LEMMA LeaseRows ==
  ASSUME JobInv, NEW q \in Queues, NEW w \in Workers, NEW n, lease_jobs_batch(q, w, n)
  PROVE  /\ UNCHANGED attempts
         /\ \A j \in JobIds :
              \/ jobs'[j] = jobs[j]
              \/ /\ jobs[j] # None /\ jobs[j].status = "queued"
                 /\ jobs'[j].max_attempts = jobs[j].max_attempts
                 /\ \/ jobs'[j].status = "running" /\ jobs'[j].locked_by = w
                    \/ jobs'[j].status = "dlq"
<1>1. UNCHANGED attempts
  BY DEF lease_jobs_batch
<1>2. ASSUME NEW j \in JobIds
      PROVE  \/ jobs'[j] = jobs[j]
             \/ /\ jobs[j] # None /\ jobs[j].status = "queued"
                /\ jobs'[j].max_attempts = jobs[j].max_attempts
                /\ \/ jobs'[j].status = "running" /\ jobs'[j].locked_by = w
                   \/ jobs'[j].status = "dlq"
  <2>1. \/ jobs'[j] = jobs[j]
        \/ /\ jobs[j] # None /\ jobs[j].status = "queued" /\ jobs[j] \in Job
           /\ jobs'[j] \in {Leased(jobs[j], w), PastDeadline(jobs[j])}
    BY LeaseEffect DEF JobInv, TypeOK
  <2> QED BY <2>1, LeasedFields
<1> QED BY <1>1, <1>2

----------------------------------------------------------------------------
(* The budget of a job                                                      *)

Failed(a, j) == a \in Failures(j)

\* The failure of the attempt used the budget of its job up.
OverBudget(a, j) == Failed(a, j) /\ ~ (attempts[a].attempt_no < jobs[j].max_attempts)

\* The failure that uses the budget up is the last one: it leaves the job in the DLQ,
\* where no attempt of it is started or reported any more.
BudgetInv ==
  \A j \in Live : \A a \in AttemptIds : OverBudget(a, j) =>
    /\ jobs[j].status = "dlq"
    /\ \A b \in AttemptIds : OverBudget(b, j) => a = b

\* A job that is dead-lettered or over budget stays so and the rest keeps its budget, when
\* the step records no failure.
LEMMA NoFailureKeepsBudget ==
  ASSUME JobInv, CompletionInv, BudgetInv, [Next]_vars,
         \A a \in AttemptIds : NoFailure(a),
         \A a \in AttemptIds : attempts[a] # None /\ attempts'[a] # None =>
           attempts'[a].job_id = attempts[a].job_id /\ attempts'[a].attempt_no = attempts[a].attempt_no,
         \A j \in JobIds : jobs[j] # None /\ jobs'[j] # None => jobs'[j].max_attempts = jobs[j].max_attempts
  PROVE  BudgetInv'
<1> SUFFICES ASSUME NEW j \in JobIds, jobs'[j] # None, NEW a \in AttemptIds, OverBudget(a, j)'
             PROVE  /\ jobs'[j].status = "dlq"
                    /\ \A b \in AttemptIds : OverBudget(b, j)' => a = b
  BY DEF BudgetInv, Live
<1>1. ASSUME NEW b \in AttemptIds, OverBudget(b, j)'
      PROVE  /\ Failed(b, j) /\ attempts'[b].attempt_no = attempts[b].attempt_no
  BY <1>1 DEF OverBudget, Failed, Failures, NoFailure
<1>2. JobEffect(j)
  BY StepHasEffect DEF StepEffect
<1>3. jobs[j] # None
  <2>1. j \notin Unused
    BY <1>1 DEF CompletionInv, AttemptHasJob, Failed, Failures
  <2> QED BY <1>2, <2>1 DEF JobEffect
<1>4. \A b \in AttemptIds : OverBudget(b, j)' => OverBudget(b, j)
  BY <1>1, <1>3 DEF OverBudget
<1>5. jobs[j].status = "dlq" /\ \A b \in AttemptIds : OverBudget(b, j) => a = b
  BY <1>3, <1>4 DEF BudgetInv, Live
<1>6. jobs'[j].status = "dlq"
  BY <1>2, <1>3, <1>5 DEF JobEffect, Unused
<1> QED BY <1>4, <1>5, <1>6

\* handle_failure retries while the attempt's number is below max_attempts, so that a
\* failure above it dead-letters the job, and a step of the flows keeps BudgetInv.
LEMMA BudgetInductive ==
  BackendInv /\ LoopInv /\ BudgetInv /\ [FlowNext]_allVars => BudgetInv'
<1> SUFFICES ASSUME BackendInv, LoopInv, BudgetInv, [FlowNext]_allVars PROVE BudgetInv'
  OBVIOUS
<1>0. JobInv /\ CompletionInv /\ TypeOK /\ [Next]_vars
  BY FlowStepIsNext DEF BackendInv, JobInv
<1>1. ASSUME Fenced, \A a \in AttemptIds : NoFailure(a) PROVE BudgetInv'
  <2>1. \A a \in AttemptIds : attempts[a] # None /\ attempts'[a] # None =>
          attempts'[a].job_id = attempts[a].job_id /\ attempts'[a].attempt_no = attempts[a].attempt_no
    BY <1>1 DEF Fenced, AttemptRow
  <2>2. \A j \in JobIds : jobs[j] # None /\ jobs'[j] # None => jobs'[j].max_attempts = jobs[j].max_attempts
    BY <1>1 DEF Fenced, RowKept, Unused
  <2> QED BY <1>0, <1>1, <2>1, <2>2, NoFailureKeepsBudget
<1>2. ASSUME CalmCall PROVE BudgetInv'
  BY <1>0, <1>1, <1>2, CalmRows
<1>3. ASSUME NEW w \in Workers, NEW q \in Queues, NEW n, lease_jobs_batch(q, w, n) PROVE BudgetInv'
  <2>1. /\ UNCHANGED attempts
        /\ \A j \in JobIds : jobs[j] # None => jobs'[j].max_attempts = jobs[j].max_attempts
    BY <1>0, <1>3, LeaseRows
  <2>2. \A a \in AttemptIds : NoFailure(a)
    BY <2>1 DEF NoFailure
  <2> QED BY <1>0, <2>1, <2>2, NoFailureKeepsBudget
<1>4. ASSUME NEW w \in Workers, NEW js \in Batches, start_attempts_batch(js, w) PROVE BudgetInv'
  <2>1. PICK n \in Nat : Started(js, w, n)
    BY <1>0, <1>4, StartsAttempts
  <2>2. last_attempt \in Nat /\ None # "HANDLER_FAILURE"
    BY <1>0, AttemptsAssumption, AbsentAssumption DEF TypeOK, ErrorCodes
  <2>3. ASSUME NEW a \in AttemptIds
        PROVE  /\ NoFailure(a)
               /\ attempts[a] # None => attempts'[a] = attempts[a]
    <3>1. CASE a \in last_attempt + 1 .. last_attempt + n
      <4>1. attempts[a] = None
        BY <1>0, <2>2, <3>1 DEF CompletionInv, NoFutureAttempt, AttemptIds
      <4>2. attempts'[a].error_code = None
        BY <2>1, <3>1 DEF Started
      <4> QED BY <2>2, <4>1, <4>2 DEF NoFailure
    <3>2. CASE a \notin last_attempt + 1 .. last_attempt + n
      <4>1. attempts'[a] = attempts[a]
        BY <2>1, <3>2 DEF Started
      <4> QED BY <4>1 DEF NoFailure
    <3> QED BY <3>1, <3>2
  <2>4. jobs' = jobs
    BY <2>1 DEF Started
  <2> QED BY <1>0, <2>3, <2>4, NoFailureKeepsBudget
<1>5. ASSUME NEW w \in Workers, NEW j \in JobIds, NEW a \in AttemptIds, FailureReported(j, a, w)
      PROVE  BudgetInv'
  <2>1. /\ Fenced
        /\ \A b \in AttemptIds : b # a => attempts'[b] = attempts[b]
        /\ HoldsLease(j, w) /\ OpenAttempt(a, j)
        /\ attempts[a].attempt_no < jobs[j].max_attempts \/ jobs'[j].status = "dlq"
    BY <1>0, <1>5, FailureRows
  <2>2. jobs[j] # None /\ jobs[j].status = "running" /\ attempts[a] # None /\ attempts[a].job_id = j
    BY <2>1 DEF HoldsLease, OpenAttempt
  <2>3. \A b \in AttemptIds : ~ OverBudget(b, j)
    BY <2>2 DEF BudgetInv, Live
  <2> SUFFICES ASSUME NEW i \in JobIds, jobs'[i] # None, NEW b \in AttemptIds, OverBudget(b, i)'
               PROVE  /\ jobs'[i].status = "dlq"
                      /\ \A c \in AttemptIds : OverBudget(c, i)' => b = c
    BY DEF BudgetInv, Live
  <2>4. /\ attempts'[b] # None /\ attempts[b] # None
        /\ attempts'[b].job_id = i /\ attempts[b].job_id = i
        /\ attempts'[b].attempt_no = attempts[b].attempt_no
    BY <2>1 DEF OverBudget, Failed, Failures, Fenced, AttemptRow
  <2>5. JobEffect(i) /\ i \notin Unused
    BY <1>0, <2>4, StepHasEffect DEF StepEffect, CompletionInv, AttemptHasJob
  <2>6. jobs[i] # None /\ jobs'[i].max_attempts = jobs[i].max_attempts
    BY <2>1, <2>5 DEF JobEffect, Fenced, RowKept
  <2>7. \A c \in AttemptIds : c # a /\ OverBudget(c, i)' => OverBudget(c, i)
    BY <2>1, <2>6 DEF OverBudget, Failed, Failures
  <2>8. CASE i = j
    <3>1. \A c \in AttemptIds : OverBudget(c, i)' => c = a
      BY <2>3, <2>7, <2>8
    <3>2. b = a
      BY <3>1
    <3>3. ~ (attempts[a].attempt_no < jobs[j].max_attempts)
      BY <2>4, <2>6, <2>8, <3>2 DEF OverBudget
    <3> QED BY <2>1, <2>8, <3>1, <3>2, <3>3
  <2>9. CASE i # j
    <3>1. \A c \in AttemptIds : OverBudget(c, i)' => c # a
      BY <2>1, <2>2, <2>9 DEF OverBudget, Failed, Failures, Fenced, AttemptRow
    <3>2. OverBudget(b, i)
      BY <2>7, <3>1
    <3>3. jobs[i].status = "dlq" /\ \A c \in AttemptIds : OverBudget(c, i) => b = c
      BY <2>6, <3>2 DEF BudgetInv, Live
    <3>4. jobs'[i].status = "dlq"
      BY <2>5, <2>6, <3>3 DEF JobEffect, Unused
    <3> QED BY <2>7, <3>1, <3>3, <3>4
  <2> QED BY <2>8, <2>9
<1>6. CASE UNCHANGED allVars
  <2>1. CalmCall
    BY <1>6 DEF allVars, CalmCall
  <2> QED BY <1>2, <2>1
<1>7. CASE \E f \in Flows : Lease(f)
  <2>1. PICK f \in Flows : lease_jobs_batch(queue[f], worker_id[f], BatchSize)
    BY <1>7 DEF Lease
  <2> QED BY <1>3, <2>1, FlowAssumption
<1>8. CASE CallOf
  <2>1. ASSUME NEW f \in Flows, StartOf(f) PROVE BudgetInv'
    <3>1. JobsOf(batch[f]) \in Batches /\ start_attempts_batch(JobsOf(batch[f]), worker_id[f])
      BY <2>1 DEF StartOf, LoopInv
    <3> QED BY <1>4, <3>1, FlowAssumption
  <2> QED BY <1>2, <1>3, <1>5, <1>8, <2>1 DEF CallOf
<1>9. CallOf \/ (\E f \in Flows : Lease(f)) \/ UNCHANGED allVars
  BY <1>0, LoopStep
<1> QED BY <1>6, <1>7, <1>8, <1>9

\* The failures of a job that are numbered and of which one at most is over the budget
\* are not more than the budget, or one.
LEMMA BudgetBoundsFailures ==
  ASSUME TypeOK, AttemptsNumbered, BudgetInv, NEW j \in Live
  PROVE  Cardinality(Failures(j)) <= 1 \/ Cardinality(Failures(j)) <= jobs[j].max_attempts
<1> DEFINE F == Failures(j)
           max == jobs[j].max_attempts
<1>1. max \in Int
  BY DEF TypeOK, Live, Job
<1>2. F \subseteq AttemptIds
  BY DEF Failures
<1>3. IsFiniteSet(F)
  <2>1. IsFiniteSet(AttemptIds)
    BY AttemptsAssumption, FS_Interval DEF AttemptIds
  <2> HIDE DEF F
  <2> QED BY <1>2, <2>1, FS_Subset
<1>4. \A a \in F : /\ attempts[a].attempt_no \in Nat /\ attempts[a].attempt_no >= 1
                   /\ \A b \in F : a < b => attempts[a].attempt_no < attempts[b].attempt_no
  <2> SUFFICES ASSUME NEW a \in F
               PROVE  /\ attempts[a].attempt_no \in Nat /\ attempts[a].attempt_no >= 1
                      /\ \A b \in F : a < b => attempts[a].attempt_no < attempts[b].attempt_no
    OBVIOUS
  <2>1. a \in AttemptIds /\ attempts[a] # None /\ attempts[a].job_id = j
    BY DEF Failures
  <2>2. attempts[a].attempt_no \in 1 .. attempt_counts[j] /\ attempt_counts[j] \in Nat
    BY <2>1 DEF AttemptsNumbered, TypeOK, Live
  <2>3. ASSUME NEW b \in F, a < b PROVE attempts[a].attempt_no < attempts[b].attempt_no
    <3>1. b \in AttemptIds /\ attempts[b] # None /\ attempts[b].job_id = j
      BY DEF Failures
    <3> QED BY <2>1, <2>3, <3>1 DEF AttemptsNumbered
  <2> QED BY <2>2, <2>3
<1>5. \A a, b \in F : ~ (attempts[a].attempt_no < max) /\ ~ (attempts[b].attempt_no < max) => a = b
  BY <1>2 DEF BudgetInv, OverBudget, Failed
<1> HIDE DEF F, max
<1>6. \A a, b \in F : attempts[a].attempt_no = attempts[b].attempt_no => a = b
  BY <1>2, <1>4 DEF AttemptIds
<1>7. CASE max >= 1
  <2> DEFINE g == [a \in F |-> IF attempts[a].attempt_no < max THEN attempts[a].attempt_no ELSE max]
  <2>1. g \in [F -> 1 .. max]
    BY <1>1, <1>4, <1>7
  <2>2. \A a, b \in F : g[a] = g[b] => a = b
    BY <1>1, <1>4, <1>5, <1>6
  <2>3. g \in Injection(F, 1 .. max)
    BY <2>1, <2>2 DEF Injection, IsInjective
  <2>4. IsFiniteSet(1 .. max) /\ Cardinality(1 .. max) = max
    BY <1>1, <1>7, FS_Interval
  <2> HIDE DEF g
  <2>5. Cardinality(F) <= max
    BY <2>3, <2>4, FS_Injection
  <2> QED BY <2>5 DEF F, max
<1>8. CASE ~ (max >= 1)
  <2>1. \A a, b \in F : a = b
    BY <1>1, <1>4, <1>5, <1>8
  <2>2. Cardinality(F) <= 1
    <3>1. CASE F = {}
      BY <3>1, FS_EmptySet
    <3>2. CASE F # {}
      <4>1. PICK a \in F : TRUE
        BY <3>2
      <4>2. F = {a}
        BY <2>1
      <4>3. Cardinality({a}) = 1
        BY FS_Singleton
      <4> QED BY <4>2, <4>3
    <3> QED BY <3>1, <3>2
  <2> QED BY <2>2 DEF F
<1> QED BY <1>7, <1>8

\* However leases expire, batches are abandoned and flows crash, and whether or not flows
\* share a worker id: the handler of a job fails at most max_attempts times, and once if
\* that is not positive (handle_failure against reap_expired_locks and the numbers of
\* start_attempts_batch).
THEOREM FailuresStayWithinBudget == FlowSpec => []FailuresWithinBudget
<1>1. FlowInit => BudgetInv
  BY DEF FlowInit, Init, BudgetInv, Live
<1>2. BackendInv /\ BudgetInv => FailuresWithinBudget
  BY BudgetBoundsFailures DEF BackendInv, JobInv, HistoryInv, FailuresWithinBudget
<1> QED BY <1>1, <1>2, BudgetInductive, FlowInvHolds, PTL DEF FlowSpec

----------------------------------------------------------------------------
(* Leases fence attempts                                                    *)

\* Every flow works under a worker id of its own.
OwnIds == \A f, g \in Flows : worker_id[f] = worker_id[g] => f = g

\* No attempt is open of a job that a flow has leased, still holds and has not started.
BatchFresh ==
  \A f \in Flows : pc[f] = "leased" =>
    \A i \in DOMAIN batch[f] : HoldsLease(batch[f][i].job, worker_id[f]) =>
      \A a \in AttemptIds : ~ OpenAttempt(a, batch[f][i].job)

\* OpenAttemptFenced alone is not inductive: start_attempts_batch does not look for an
\* attempt that is open already, so that there must be none.
FenceInv == OpenAttemptFenced /\ BatchFresh

\* What the fence says of one attempt.
LEMMA OpenIsHeld ==
  ASSUME TypeOK, OpenAttemptFenced, NEW a \in AttemptIds, NEW j, OpenAttempt(a, j)
  PROVE  /\ j \in JobIds /\ HoldsLease(j, attempts[a].worker_id)
         /\ \A b \in AttemptIds : OpenAttempt(b, j) => a = b
  BY DEF OpenAttemptFenced, OpenAttempt, TypeOK, Attempt

\* The fence of the next state, attempt by attempt.
LEMMA FenceOfNext ==
  ASSUME \A a \in AttemptIds : \A j, w : OpenAttempt(a, j)' /\ w = attempts'[a].worker_id =>
           HoldsLease(j, w)' /\ \A b \in AttemptIds : OpenAttempt(b, j)' => a = b
  PROVE  OpenAttemptFenced'
  BY DEF OpenAttemptFenced, OpenAttempt, HoldsLease

\* The jobs of a batch.
LEMMA BatchJobs ==
  ASSUME LoopInv, NEW f \in Flows, NEW i \in DOMAIN batch[f]
  PROVE  batch[f][i].job \in JobIds
<1>1. batch[f] \in Seq(Round)
  BY DEF LoopInv
<1>2. batch[f][i] \in Round
  BY <1>1
<1> QED BY <1>2 DEF Round

\* Calls that open no attempt and no lease.
LEMMA FencedKeepsFence ==
  ASSUME TypeOK, LoopInv, FenceInv, Fenced, NoneLeased
  PROVE  FenceInv'
<1>1. OneOpen
  BY OpenIsHeld DEF FenceInv, OneOpen
<1>2. /\ \A i \in JobIds : RowKept(i) /\ FenceKept(i)
      /\ \A b \in AttemptIds : AttemptRow(b)
  BY <1>1 DEF Fenced
<1>3. \A b \in AttemptIds : \A j : OpenAttempt(b, j)' =>
        OpenAttempt(b, j) /\ attempts'[b].worker_id = attempts[b].worker_id
  BY <1>2 DEF OpenAttempt, AttemptRow
<1>4. ASSUME NEW a \in AttemptIds, NEW j, NEW w, OpenAttempt(a, j)', w = attempts'[a].worker_id
      PROVE  HoldsLease(j, w)' /\ \A b \in AttemptIds : OpenAttempt(b, j)' => a = b
  <2>1. /\ j \in JobIds /\ HoldsLease(j, attempts[a].worker_id)
        /\ \A b \in AttemptIds : OpenAttempt(b, j) => a = b
    BY <1>3, <1>4, OpenIsHeld DEF FenceInv
  <2>2. FenceKept(j)
    BY <1>2, <2>1
  <2>3. HoldsLease(j, w)'
    BY <1>3, <1>4, <2>1, <2>2 DEF FenceKept, HoldsLease
  <2> QED BY <1>3, <2>1, <2>3
<1>5. OpenAttemptFenced'
  BY <1>4, FenceOfNext
<1>6. BatchFresh'
  <2> SUFFICES ASSUME NEW f \in Flows, pc'[f] = "leased", NEW i \in DOMAIN batch'[f],
                      NEW j, j = batch'[f][i].job, HoldsLease(j, worker_id[f])',
                      NEW a \in AttemptIds, OpenAttempt(a, j)'
               PROVE  FALSE
    BY DEF BatchFresh
  <2>1. pc[f] = "leased" /\ batch'[f] = batch[f]
    BY DEF NoneLeased
  <2>2. j \in JobIds /\ j = batch[f][i].job /\ i \in DOMAIN batch[f]
    BY <2>1, BatchJobs
  <2>3. HoldsLease(j, worker_id[f])
    BY <1>2, <2>2 DEF RowKept, HoldsLease
  <2>4. OpenAttempt(a, j)
    BY <1>3
  <2> QED BY <2>1, <2>2, <2>3, <2>4 DEF FenceInv, BatchFresh
<1> QED BY <1>5, <1>6 DEF FenceInv

\* A lease takes queued work only, of which no attempt is open.
LEMMA LeaseKeepsFence ==
  ASSUME JobInv, LoopInv, FenceInv, NEW q \in Queues, NEW w \in Workers, NEW n, lease_jobs_batch(q, w, n),
         \A f \in Flows : pc'[f] = "leased" =>
           \/ pc[f] = "leased" /\ batch'[f] = batch[f]
           \/ \A i \in DOMAIN batch'[f] : Waiting(jobs, batch'[f][i].job, q)
  PROVE  FenceInv'
<1>0. TypeOK
  BY DEF JobInv
<1>1. attempts' = attempts
  BY LeaseRows
<1>2. \A j \in JobIds :
        \/ jobs'[j] = jobs[j]
        \/ jobs[j] # None /\ jobs[j].status = "queued"
  BY LeaseRows
<1>3. \A a \in AttemptIds : \A j : OpenAttempt(a, j)' <=> OpenAttempt(a, j)
  BY <1>1 DEF OpenAttempt
<1>4. \A j : jobs[j].status = "queued" => \A a \in AttemptIds : ~ OpenAttempt(a, j)
  BY <1>0, OpenIsHeld DEF FenceInv, HoldsLease
<1>5. ASSUME NEW a \in AttemptIds, NEW j, NEW v, OpenAttempt(a, j)', v = attempts'[a].worker_id
      PROVE  HoldsLease(j, v)' /\ \A b \in AttemptIds : OpenAttempt(b, j)' => a = b
  <2>1. /\ j \in JobIds /\ HoldsLease(j, v)
        /\ \A b \in AttemptIds : OpenAttempt(b, j) => a = b
    BY <1>0, <1>1, <1>3, <1>5, OpenIsHeld DEF FenceInv
  <2>2. jobs'[j] = jobs[j]
    BY <1>2, <2>1 DEF HoldsLease
  <2> QED BY <1>3, <2>1, <2>2 DEF HoldsLease
<1>6. OpenAttemptFenced'
  BY <1>5, FenceOfNext
<1>7. BatchFresh'
  <2> SUFFICES ASSUME NEW f \in Flows, pc'[f] = "leased", NEW i \in DOMAIN batch'[f],
                      NEW j, j = batch'[f][i].job, HoldsLease(j, worker_id[f])',
                      NEW a \in AttemptIds, OpenAttempt(a, j)'
               PROVE  FALSE
    BY DEF BatchFresh
  <2>1. OpenAttempt(a, j)
    BY <1>3
  <2>2. CASE pc[f] = "leased" /\ batch'[f] = batch[f]
    <3>1. j \in JobIds /\ j = batch[f][i].job /\ i \in DOMAIN batch[f]
      BY <2>2, BatchJobs
    <3>2. jobs'[j] = jobs[j]
      BY <1>2, <1>4, <2>1, <3>1
    <3>3. HoldsLease(j, worker_id[f])
      BY <3>2 DEF HoldsLease
    <3> QED BY <2>1, <2>2, <3>1, <3>3 DEF FenceInv, BatchFresh
  <2>3. CASE Waiting(jobs, j, q)
    BY <1>4, <2>1, <2>3 DEF Waiting
  <2> QED BY <2>2, <2>3
<1> QED BY <1>6, <1>7 DEF FenceInv

\* A flow that leases gets work that was queued.
LEMMA LeasedWasWaiting ==
  ASSUME JobInv, LoopInv, NEW f \in Flows, Lease(f)
  PROVE  \A g \in Flows : pc'[g] = "leased" =>
           \/ pc[g] = "leased" /\ batch'[g] = batch[g]
           \/ \A i \in DOMAIN batch'[g] : Waiting(jobs, batch'[g][i].job, queue[f])
<1> DEFINE taken == Candidates(queue[f], BatchSize)
<1>1. PICK s \in InOrder(taken) :
        Go(f, IF taken = {} THEN "idle" ELSE "leased",
           [i \in DOMAIN s |-> [job |-> s[i].id, attempt |-> None]])
  BY DEF Lease
<1>2. /\ batch'[f] = [i \in DOMAIN s |-> [job |-> s[i].id, attempt |-> None]]
      /\ \A g \in Flows : g # f => pc'[g] = pc[g] /\ batch'[g] = batch[g]
  BY <1>1 DEF Go, LoopInv
<1>3. \A i \in DOMAIN s : s[i] \in taken
  BY DEF InOrder
<1>4. \A e \in taken : Waiting(jobs, e.id, queue[f])
  <2>1. queue[f] \in Queues /\ taken \subseteq queued_jobs[queue[f]]
    BY FlowAssumption DEF Candidates
  <2> HIDE DEF taken
  <2> QED BY <2>1, EntryIsWaiting DEF JobInv
<1> HIDE DEF taken
<1>5. \A i \in DOMAIN batch'[f] : Waiting(jobs, batch'[f][i].job, queue[f])
  BY <1>2, <1>3, <1>4
<1> QED BY <1>2, <1>5

\* start_attempts_batch opens attempts of work that its flow holds, which has none; a flow
\* of another worker id holds none of that work.
LEMMA StartKeepsFence ==
  ASSUME OwnIds, JobInv, LoopInv, FenceInv, NEW f \in Flows, StartOf(f), NoneLeased
  PROVE  FenceInv'
<1> DEFINE w == worker_id[f]
           js == JobsOf(batch[f])
<1>0. TypeOK /\ last_attempt \in Nat /\ w \in Workers /\ js \in Batches /\ pc[f] = "leased"
  BY AttemptsAssumption, FlowAssumption DEF JobInv, TypeOK, LoopInv, StartOf
<1>1. PICK n \in Nat : Started(js, w, n)
  BY <1>0, StartsAttempts DEF StartOf
<1>2. UNCHANGED jobs /\ \A i \in 1 .. n : js[i] \in JobIds /\ HoldsLease(js[i], w)
  BY <1>1 DEF Started
<1>d. \A i, k \in 1 .. n : js[i] = js[k] => i = k
  BY <1>1 DEF Started
<1> DEFINE new == last_attempt + 1 .. last_attempt + n
<1>3. \A a \in AttemptIds : a \notin new => attempts'[a] = attempts[a]
  BY <1>1 DEF Started
<1>4. \A a \in AttemptIds : a \in new =>
        /\ a - last_attempt \in 1 .. n
        /\ attempts'[a].job_id = js[a - last_attempt] /\ attempts'[a].worker_id = w
  BY <1>0, <1>1 DEF Started, AttemptIds
<1>5. ASSUME NEW i \in 1 .. n, NEW a \in AttemptIds PROVE ~ OpenAttempt(a, js[i])
  <2>1. PICK m \in 1 .. Cardinality(JobIds) : js \in [1 .. m -> JobIds]
    BY <1>0 DEF Batches
  <2>2. n <= m
    <3>1. PICK k \in 0 .. Len(js) : last_attempt' = last_attempt + k
      BY DEF StartOf, start_attempts_batch
    <3>2. m \in Nat /\ Len(js) = m
      BY <2>1, FS_CardinalityType, JobIdsAssumption
    <3> QED BY <1>0, <1>1, <3>1, <3>2 DEF Started
  <2>3. i \in DOMAIN js
    BY <2>1, <2>2, FS_CardinalityType, JobIdsAssumption
  <2>4. i \in DOMAIN batch[f] /\ js[i] = batch[f][i].job
    BY <2>3 DEF JobsOf
  <2>5. HoldsLease(batch[f][i].job, w)
    BY <1>2, <2>4
  <2> QED BY <1>0, <2>4, <2>5 DEF FenceInv, BatchFresh
<1> HIDE DEF w, js, new
<1>6. ASSUME NEW a \in AttemptIds, NEW j, OpenAttempt(a, j)'
      PROVE  \/ a \notin new /\ OpenAttempt(a, j)
             \/ /\ a \in new /\ HoldsLease(j, w) /\ attempts'[a].worker_id = w
                /\ \E i \in 1 .. n : j = js[i] /\ i = a - last_attempt
  BY <1>2, <1>3, <1>4, <1>6 DEF OpenAttempt
<1>7. ASSUME NEW a \in AttemptIds, NEW j, NEW v, OpenAttempt(a, j)', v = attempts'[a].worker_id
      PROVE  HoldsLease(j, v)' /\ \A b \in AttemptIds : OpenAttempt(b, j)' => a = b
  <2>1. CASE a \notin new /\ OpenAttempt(a, j)
    <3>1. /\ HoldsLease(j, v)
          /\ \A b \in AttemptIds : OpenAttempt(b, j) => a = b
      BY <1>0, <1>3, <1>7, <2>1, OpenIsHeld DEF FenceInv
    <3>2. \A b \in AttemptIds : OpenAttempt(b, j)' => OpenAttempt(b, j)
      BY <1>5, <1>6, <2>1
    <3> QED BY <1>2, <3>1, <3>2 DEF HoldsLease
  <2>2. CASE /\ a \in new /\ HoldsLease(j, w) /\ attempts'[a].worker_id = w
             /\ \E i \in 1 .. n : j = js[i] /\ i = a - last_attempt
    <3>1. PICK i \in 1 .. n : j = js[i] /\ i = a - last_attempt
      BY <2>2
    <3>2. ASSUME NEW b \in AttemptIds, OpenAttempt(b, j)' PROVE a = b
      <4>1. PICK k \in 1 .. n : j = js[k] /\ k = b - last_attempt
        BY <1>5, <1>6, <3>1, <3>2
      <4>2. a - last_attempt = b - last_attempt
        BY <1>d, <3>1, <4>1 DEF js
      <4> QED BY <1>0, <4>2 DEF AttemptIds
    <3> QED BY <1>2, <1>7, <2>2, <3>2 DEF HoldsLease
  <2> QED BY <1>6, <1>7, <2>1, <2>2
<1>8. OpenAttemptFenced'
  BY <1>7, FenceOfNext
<1>9. BatchFresh'
  <2> SUFFICES ASSUME NEW g \in Flows, pc'[g] = "leased", NEW i \in DOMAIN batch'[g],
                      NEW j, j = batch'[g][i].job, HoldsLease(j, worker_id[g])',
                      NEW a \in AttemptIds, OpenAttempt(a, j)'
               PROVE  FALSE
    BY DEF BatchFresh
  <2>1. pc[g] = "leased" /\ batch'[g] = batch[g]
    BY DEF NoneLeased
  <2>2. g # f
    BY DEF StartOf
  <2>3. HoldsLease(j, worker_id[g])
    BY <1>2 DEF HoldsLease
  <2>4. ~ HoldsLease(j, w)
    BY <2>2, <2>3 DEF OwnIds, HoldsLease, w
  <2>5. OpenAttempt(a, j)
    BY <1>6, <2>4
  <2> QED BY <2>1, <2>3, <2>5 DEF FenceInv, BatchFresh
<1> QED BY <1>8, <1>9 DEF FenceInv

\* Every step of flows with worker ids of their own keeps the fence.
LEMMA FenceInductive ==
  OwnIds /\ BackendInv /\ LoopInv /\ FenceInv /\ [FlowNext]_allVars => FenceInv'
<1> SUFFICES ASSUME OwnIds, BackendInv, LoopInv, FenceInv, [FlowNext]_allVars PROVE FenceInv'
  OBVIOUS
<1>0. JobInv /\ TypeOK
  BY DEF BackendInv, JobInv
<1>1. CASE UNCHANGED allVars
  <2>1. CalmCall /\ NoneLeased
    BY <1>1 DEF allVars, flowVars, CalmCall, NoneLeased
  <2> QED BY <1>0, <2>1, CalmRows, FencedKeepsFence
<1>2. ASSUME NEW f \in Flows, Lease(f) PROVE FenceInv'
  <2>1. /\ lease_jobs_batch(queue[f], worker_id[f], BatchSize)
        /\ queue[f] \in Queues /\ worker_id[f] \in Workers
    BY <1>2, FlowAssumption DEF Lease
  <2> QED BY <1>0, <1>2, <2>1, LeasedWasWaiting, LeaseKeepsFence
<1>3. ASSUME CallOf PROVE FenceInv'
  <2>1. NoneLeased
    BY <1>3 DEF CallOf
  <2>2. ASSUME CalmCall PROVE FenceInv'
    BY <1>0, <2>1, <2>2, CalmRows, FencedKeepsFence
  <2>3. ASSUME NEW w \in Workers, NEW q \in Queues, lease_jobs_batch(q, w, BatchSize) PROVE FenceInv'
    <3>1. \A f \in Flows : pc'[f] = "leased" => pc[f] = "leased" /\ batch'[f] = batch[f]
      BY <2>1 DEF NoneLeased
    <3> QED BY <1>0, <2>3, <3>1, LeaseKeepsFence
  <2>4. ASSUME NEW f \in Flows, StartOf(f) PROVE FenceInv'
    BY <1>0, <2>1, <2>4, StartKeepsFence
  <2>5. ASSUME NEW w \in Workers, NEW j \in JobIds, NEW a \in AttemptIds, FailureReported(j, a, w)
        PROVE  FenceInv'
    BY <1>0, <2>1, <2>5, FailureRows, FencedKeepsFence
  <2> QED BY <1>3, <2>2, <2>3, <2>4, <2>5 DEF CallOf
<1>4. CallOf \/ (\E f \in Flows : Lease(f)) \/ UNCHANGED allVars
  BY <1>0, LoopStep
<1> QED BY <1>1, <1>2, <1>3, <1>4

\* Of flows with worker ids of their own, whatever leases expire and however often flows
\* crash: an open attempt belongs to the worker that holds the lease of its job and is the
\* only open one, so that a report that comes after the lease was reaped is rejected
\* (reap_expired_locks against start_attempts_batch, process_batch and cancel_job).
THEOREM LeasesFenceAttempts == OwnIds => (FlowSpec => []OpenAttemptFenced)
<1>1. FlowInit => FenceInv
  BY DEF FlowInit, Init, FenceInv, OpenAttemptFenced, BatchFresh
<1>2. SUFFICES ASSUME OwnIds PROVE FlowSpec => []OpenAttemptFenced
  OBVIOUS
<1>3. BackendInv /\ LoopInv /\ FenceInv /\ [FlowNext]_allVars => FenceInv'
  BY <1>2, FenceInductive
<1> QED BY <1>1, <1>3, FlowInvHolds, PTL DEF FlowSpec, FenceInv
=============================================================================
