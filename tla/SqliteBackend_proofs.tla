------------------------- MODULE SqliteBackend_proofs -------------------------
(***************************************************************************)
(* What holds of the SQLite backend for every number of jobs, attempts,    *)
(* workers and queues, every retry delay, limit and cutoff, and however    *)
(* long an operation waits for the write lock after it has read the clock. *)
(***************************************************************************)
EXTENDS SqliteBackend, FiniteSetTheorems, TLAPS

ErrorCodes == {"LEASE_EXPIRED", "CANCELLED", "HANDLER_FAILURE"}

\* The row of a job, wherever it is.
Row(j) == IF j \in Live THEN jobs[j] ELSE jobs_archive[j]

Known == JobIds \ Unused

NextOf(j) == {i \in Known : Row(i).replay_of_job_id = j}

----------------------------------------------------------------------------
(* The inductive invariant                                                  *)

\* A job is in jobs or in jobs_archive, and only succeeded work is archived.
OneHome ==
  \A j \in JobIds : jobs_archive[j] # None => jobs[j] = None /\ jobs_archive[j].status = "succeeded"

\* Queued work is not locked.
QueuedIsFree ==
  \A j \in Live : jobs[j].status = "queued" => jobs[j].locked_by = None /\ jobs[j].lock_expires_at = None

\* An attempt that failed says why, an open one has no code; an id that was not handed
\* out has no attempt.
AttemptsCoded ==
  \A a \in AttemptIds : job_attempts[a] # None =>
    /\ a <= last_attempt
    /\ job_attempts[a].status = "failed" => job_attempts[a].error_code \in ErrorCodes
    /\ job_attempts[a].status = "running" => job_attempts[a].error_code = None

\* What a next occurrence replays is known.
OriginKnown ==
  \A i \in Known : Row(i).replay_of_job_id # None => Row(i).replay_of_job_id \in Known

RowInv == OneHome /\ QueuedIsFree

HistoryInv == AttemptRowsComplete /\ AttemptsCoded

RecurrenceInv == RecurrenceUnbroken /\ OriginKnown

SqliteInv == SqliteTypeOK /\ RowInv /\ HistoryInv /\ RecurrenceInv

----------------------------------------------------------------------------
(* Operators                                                                *)

\* The model's last instant bounds every time.
LEMMA AtIsInstant ==
  ASSUME NEW t \in Nat
  PROVE  At(t) \in Instants
  BY SqliteAssumption DEF At, Instants

\* None is not the id of a job.
LEMMA NoneIsNoJob == None \notin JobIds
<1>1. JobIds \subseteq Nat /\ None \notin Int
  BY SqliteAssumption
<1>2. \A n \in Nat : n \in Int
  OBVIOUS
<1> QED BY <1>1, <1>2, Zenon

\* An operation read an instant that is not later than now.
LEMMA ClockIsPast ==
  ASSUME SqliteTypeOK, NEW t \in Clock
  PROVE  t \in Instants /\ t \in Nat /\ t <= now
  BY SqliteAssumption DEF Clock, Instants, SqliteTypeOK

\* The fields of a row that is there.
LEMMA LiveRow ==
  ASSUME SqliteTypeOK, NEW j \in Live
  PROVE  j \in JobIds /\ jobs[j] \in Job
  BY DEF SqliteTypeOK, Live

\* What Unlocked makes of a row, in any status.
LEMMA UnlockedRow ==
  ASSUME NEW row \in Job, NEW t \in Instants, NEW s \in JobStatus
  PROVE  LET new == [Unlocked(row, t) EXCEPT !.status = s]
         IN  /\ new \in Job /\ new.status = s /\ new.locked_by = None /\ new.lock_expires_at = None
             /\ new.run_at = row.run_at /\ new.replay_of_job_id = row.replay_of_job_id
             /\ new.recurring_interval_seconds = row.recurring_interval_seconds
  BY DEF Unlocked, Job

\* The next occurrence is queued work that replays the job and is due an interval later.
LEMMA NextOccurrenceRow ==
  ASSUME SqliteTypeOK, NEW j \in Live, NEW t \in Instants, jobs[j].recurring_interval_seconds # None
  PROVE  LET new == NextOccurrence(j, t)
         IN  /\ new \in Job /\ new.status = "queued" /\ new.locked_by = None /\ new.lock_expires_at = None
             /\ new.replay_of_job_id = j
             /\ new.run_at = At(jobs[j].run_at + Interval(jobs[j]))
<1>1. j \in JobIds /\ jobs[j] \in Job
  BY LiveRow
<1> DEFINE n == Interval(jobs[j])
<1>2. n \in Nat
  BY <1>1 DEF Interval, Job
<1> DEFINE nj == [jobs[j] EXCEPT !.run_at = At(@ + n), !.deadline_at = IF @ = None THEN None ELSE At(@ + n)]
<1>3. /\ jobs[j].run_at \in Nat
      /\ jobs[j].deadline_at # None => jobs[j].deadline_at \in Nat
  BY <1>1, SqliteAssumption DEF Job, Instants
<1>4. /\ jobs[j].run_at + n \in Nat
      /\ jobs[j].deadline_at # None => jobs[j].deadline_at + n \in Nat
  BY <1>2, <1>3
<1>5. /\ At(jobs[j].run_at + n) \in Instants
      /\ jobs[j].deadline_at # None => At(jobs[j].deadline_at + n) \in Instants
  BY <1>4, AtIsInstant
<1>6. NextOccurrence(j, t) = Inserted(nj, None, j, t)
  BY DEF NextOccurrence
<1> HIDE DEF n
<1>7. /\ nj.queue = jobs[j].queue /\ nj.priority = jobs[j].priority /\ nj.run_at = At(jobs[j].run_at + n)
      /\ nj.deadline_at \in Instants \cup {None}
      /\ nj.recurring_interval_seconds = jobs[j].recurring_interval_seconds
      /\ nj.max_attempts = jobs[j].max_attempts
  BY <1>1, <1>5 DEF Job
<1>8. /\ nj.queue \in Queues /\ nj.priority \in Int /\ nj.run_at \in Instants
      /\ nj.recurring_interval_seconds \in Int \cup {None} /\ nj.max_attempts \in Int
  BY <1>1, <1>5, <1>7 DEF Job
<1> HIDE DEF nj
<1>9. LET new == Inserted(nj, None, j, t)
      IN  /\ new \in Job /\ new.status = "queued" /\ new.locked_by = None /\ new.lock_expires_at = None
          /\ new.replay_of_job_id = j /\ new.run_at = nj.run_at
  BY <1>1, <1>7, <1>8 DEF Inserted, Job, JobStatus
<1> QED BY <1>6, <1>7, <1>9 DEF n

----------------------------------------------------------------------------
(* Attempts                                                                 *)

\* The step closes an open attempt, with a status and a code.
Closes(a, s, c) ==
  /\ job_attempts[a] # None /\ job_attempts[a].status = "running"
  /\ job_attempts'[a] # None
  /\ job_attempts'[a].job_id = job_attempts[a].job_id
  /\ job_attempts'[a].attempt_no = job_attempts[a].attempt_no
  /\ job_attempts'[a].status = s /\ job_attempts'[a].error_code = c

\* The step leaves the attempt or closes it.
AttemptKept(a) ==
  \/ job_attempts'[a] = job_attempts[a]
  \/ Closes(a, "succeeded", None)
  \/ \E c \in ErrorCodes : Closes(a, "failed", c)

AttemptsKept ==
  /\ job_attempts' \in [AttemptIds -> AttemptRow \cup {None}]
  /\ \A a \in AttemptIds : AttemptKept(a)
  /\ last_attempt' = last_attempt

\* An UPDATE of the status and the code of an open attempt closes it.
LEMMA ClosedFields ==
  ASSUME SqliteTypeOK, NEW a \in AttemptIds, job_attempts[a] # None, job_attempts[a].status = "running",
         NEW s \in {"succeeded", "failed"}, NEW c \in ErrorCodes \cup {None},
         job_attempts'[a] = [job_attempts[a] EXCEPT !.status = s, !.error_code = c]
  PROVE  Closes(a, s, c) /\ job_attempts'[a] \in AttemptRow
<1>1. job_attempts[a] \in AttemptRow
  BY DEF SqliteTypeOK
<1>2. job_attempts'[a] \in AttemptRow
  BY <1>1 DEF AttemptRow, ErrorCodes
<1>3. job_attempts'[a] # None
  BY <1>2, AbsentAssumption
<1> QED BY <1>1, <1>2, <1>3 DEF Closes, AttemptRow

\* A report closes its attempt and no other one.
LEMMA CloseAttemptFields ==
  ASSUME SqliteTypeOK, NEW j, NEW a \in AttemptIds, NEW s \in {"succeeded", "failed"},
         NEW c \in ErrorCodes \cup {None}, CloseAttempt(a, j, s, c)
  PROVE  /\ Closes(a, s, c) /\ a \in Rows(j)
         /\ \A b \in AttemptIds : b # a => job_attempts'[b] = job_attempts[b]
         /\ job_attempts' \in [AttemptIds -> AttemptRow \cup {None}]
<1>1. job_attempts[a] # None /\ job_attempts[a].status = "running" /\ a \in Rows(j)
  BY DEF CloseAttempt, OpenAttempt, Rows
<1>2. /\ job_attempts'[a] = [job_attempts[a] EXCEPT !.status = s, !.error_code = c]
      /\ \A b \in AttemptIds : b # a => job_attempts'[b] = job_attempts[b]
      /\ DOMAIN job_attempts' = AttemptIds
      /\ job_attempts' = [b \in AttemptIds |-> job_attempts'[b]]
  BY <1>1 DEF CloseAttempt, SqliteTypeOK
<1>3. Closes(a, s, c) /\ job_attempts'[a] \in AttemptRow
  BY <1>1, <1>2, ClosedFields
<1>4. \A b \in AttemptIds : job_attempts'[b] \in AttemptRow \cup {None}
  BY <1>2, <1>3 DEF SqliteTypeOK
<1>5. job_attempts' \in [AttemptIds -> AttemptRow \cup {None}]
  BY <1>2, <1>4
<1> QED BY <1>1, <1>2, <1>3, <1>5

\* So it keeps the attempts.
LEMMA ReportKeepsAttempts ==
  ASSUME SqliteTypeOK, NEW j, NEW a \in AttemptIds, UNCHANGED last_attempt,
         \/ CloseAttempt(a, j, "succeeded", None)
         \/ CloseAttempt(a, j, "failed", "HANDLER_FAILURE")
  PROVE  AttemptsKept
<1>1. CASE CloseAttempt(a, j, "succeeded", None)
  BY <1>1, CloseAttemptFields DEF AttemptsKept, AttemptKept
<1>2. CASE CloseAttempt(a, j, "failed", "HANDLER_FAILURE")
  BY <1>2, CloseAttemptFields DEF AttemptsKept, AttemptKept, ErrorCodes
<1> QED BY <1>1, <1>2

\* Attempts that are kept belong to the same jobs.
LEMMA RowsKept ==
  ASSUME AttemptsKept, NEW j
  PROVE  Rows(j)' = Rows(j)
<1>1. \A a \in AttemptIds : a \in Rows(j)' <=> a \in Rows(j)
  <2> SUFFICES ASSUME NEW a \in AttemptIds PROVE a \in Rows(j)' <=> a \in Rows(j)
    OBVIOUS
  <2>1. AttemptKept(a)
    BY DEF AttemptsKept
  <2> QED BY <2>1 DEF Rows, AttemptKept, Closes
<1> QED BY <1>1 DEF Rows

\* A job that has no row has no attempt.
LEMMA NoRowNoAttempt ==
  ASSUME HistoryInv, NEW j, j \notin Live
  PROVE  Rows(j) = {}
  BY DEF HistoryInv, AttemptRowsComplete, Rows

\* Attempts that are left or closed are numbered as they were.
LEMMA HistoryKept ==
  ASSUME HistoryInv, AttemptsKept, Live \subseteq Live'
  PROVE  HistoryInv'
<1>1. AttemptsCoded'
  <2> SUFFICES ASSUME NEW a \in AttemptIds, job_attempts'[a] # None
               PROVE  /\ a <= last_attempt'
                      /\ job_attempts'[a].status = "failed" => job_attempts'[a].error_code \in ErrorCodes
                      /\ job_attempts'[a].status = "running" => job_attempts'[a].error_code = None
    BY DEF AttemptsCoded
  <2>1. AttemptKept(a) /\ last_attempt' = last_attempt
    BY DEF AttemptsKept
  <2> QED BY <2>1 DEF HistoryInv, AttemptsCoded, AttemptKept, Closes
<1>2. ASSUME NEW a \in AttemptIds, job_attempts'[a] # None
      PROVE  job_attempts'[a].job_id \in Live'
  <2>1. AttemptKept(a)
    BY DEF AttemptsKept
  <2>2. job_attempts[a] # None /\ job_attempts'[a].job_id = job_attempts[a].job_id
    BY <1>2, <2>1 DEF AttemptKept, Closes
  <2> QED BY <2>2 DEF HistoryInv, AttemptRowsComplete
<1>3. ASSUME NEW j \in Live', NEW a \in Rows(j)'
      PROVE  job_attempts'[a].attempt_no = Cardinality({b \in Rows(j)' : b <= a})
  <2>1. Rows(j)' = Rows(j)
    BY RowsKept
  <2>2. j \in Live
    BY <1>3, <2>1, NoRowNoAttempt
  <2>3. AttemptKept(a) /\ a \in AttemptIds
    BY <1>3, <2>1 DEF AttemptsKept, Rows
  <2>4. job_attempts'[a].attempt_no = job_attempts[a].attempt_no
    BY <2>3 DEF AttemptKept, Closes
  <2>5. job_attempts[a].attempt_no = Cardinality({b \in Rows(j) : b <= a})
    BY <1>3, <2>1, <2>2 DEF HistoryInv, AttemptRowsComplete
  <2> QED BY <2>1, <2>4, <2>5
<1>4. AttemptRowsComplete'
  BY <1>2, <1>3 DEF AttemptRowsComplete
<1> QED BY <1>1, <1>4 DEF HistoryInv

----------------------------------------------------------------------------
(* The numbers of attempts                                                  *)

\* A set of attempts that is not empty has a last one.
LEMMA LastAttempt ==
  ASSUME NEW S \in SUBSET AttemptIds, S # {}
  PROVE  \E x \in S : \A y \in S : y <= x
<1> DEFINE D == {MaxAttemptId - x : x \in S}
<1>1. \A x \in S : x \in Nat /\ MaxAttemptId - x \in Nat
  BY SqliteAssumption DEF AttemptIds
<1>2. D \subseteq Nat /\ D # {}
  BY <1>1
<1> HIDE DEF D
<1>3. PICK d \in D : \A e \in D : ~ (<<e, d>> \in OpToRel(<, Nat))
  BY <1>2, NatLessThanWellFounded, WFMin, Zenon
<1>4. \A e \in D : d <= e
  <2> SUFFICES ASSUME NEW e \in D PROVE d <= e
    OBVIOUS
  <2>1. d \in Nat /\ e \in Nat
    BY <1>2
  <2>2. <<e, d>> \in OpToRel(<, Nat) <=> e < d
    BY <2>1 DEF OpToRel
  <2>3. ~ (e < d)
    BY <1>3, <2>2, Zenon
  <2> QED BY <2>1, <2>3
<1>5. PICK x \in S : d = MaxAttemptId - x
  BY DEF D
<1>6. \A y \in S : MaxAttemptId - x <= MaxAttemptId - y
  BY <1>4, <1>5 DEF D
<1>7. \A y \in S : y <= x
  BY <1>1, <1>6, SqliteAssumption
<1> QED BY <1>7

\* The attempts of a job are finitely many.
LEMMA RowsAreFinite ==
  ASSUME NEW S \in SUBSET AttemptIds
  PROVE  IsFiniteSet(S) /\ Cardinality(S) \in Nat
<1>1. IsFiniteSet(AttemptIds)
  BY FS_Interval, SqliteAssumption DEF AttemptIds
<1> QED BY <1>1, FS_Subset, FS_CardinalityType

\* The largest of a set of numbers is the one that is.
LEMMA LargestIs ==
  ASSUME NEW S \in SUBSET Int, NEW n \in S, \A m \in S : m <= n
  PROVE  Largest(S) = n
<1>1. Largest(S) \in S /\ \A m \in S : m <= Largest(S)
  BY Zenon DEF Largest
<1>2. Largest(S) \in Int /\ n \in Int /\ Largest(S) <= n /\ n <= Largest(S)
  BY <1>1
<1> QED BY <1>2

\* MAX(attempt_no) is the number of attempts that the job has.
LEMMA NextNoCounts ==
  ASSUME HistoryInv, NEW j \in Live
  PROVE  NextNo(j) = Cardinality(Rows(j)) + 1
<1> DEFINE n == Cardinality(Rows(j))
           N == {job_attempts[a].attempt_no : a \in Rows(j)} \cup {0}
<1>1. Rows(j) \in SUBSET AttemptIds
  BY DEF Rows
<1>2. IsFiniteSet(Rows(j)) /\ n \in Nat
  BY <1>1, RowsAreFinite
<1>3. \A a \in Rows(j) : job_attempts[a].attempt_no = Cardinality({b \in Rows(j) : b <= a})
  BY DEF HistoryInv, AttemptRowsComplete
<1>4. \A a \in Rows(j) : job_attempts[a].attempt_no \in Nat /\ job_attempts[a].attempt_no <= n
  <2> SUFFICES ASSUME NEW a \in Rows(j)
               PROVE  job_attempts[a].attempt_no \in Nat /\ job_attempts[a].attempt_no <= n
    OBVIOUS
  <2> DEFINE B == {b \in Rows(j) : b <= a}
  <2>1. B \in SUBSET Rows(j) /\ B \in SUBSET AttemptIds
    BY <1>1
  <2> HIDE DEF B
  <2>2. Cardinality(B) \in Nat /\ Cardinality(B) <= n
    BY <1>2, <2>1, RowsAreFinite, FS_Subset
  <2> QED BY <1>3, <2>2 DEF B
<1>5. N \in SUBSET Int /\ \A m \in N : m <= n
  BY <1>2, <1>4
<1>6. n \in N
  <2>1. CASE Rows(j) = {}
    BY <2>1, FS_EmptySet
  <2>2. CASE Rows(j) # {}
    <3>1. PICK x \in Rows(j) : \A y \in Rows(j) : y <= x
      BY <1>1, <2>2, LastAttempt
    <3>2. {b \in Rows(j) : b <= x} = Rows(j)
      BY <3>1
    <3>3. job_attempts[x].attempt_no = n
      BY <1>3, <3>2
    <3> QED BY <3>3
  <2> QED BY <2>1, <2>2
<1>7. Largest(N) = n
  BY <1>5, <1>6, LargestIs
<1> QED BY <1>7 DEF NextNo

\* Later attempts have higher numbers, so two that are the latest are the same (cancel_job).
LEMMA NumbersDiffer ==
  ASSUME HistoryInv, NEW j \in Live, NEW a \in Rows(j), NEW b \in Rows(j),
         job_attempts[a].attempt_no = job_attempts[b].attempt_no
  PROVE  a = b
<1>1. a \in AttemptIds /\ b \in AttemptIds /\ \A c \in Rows(j) : c \in Nat
  BY SqliteAssumption DEF Rows, AttemptIds
<1>2. ASSUME NEW x \in Rows(j), NEW y \in Rows(j), x < y
      PROVE  job_attempts[x].attempt_no # job_attempts[y].attempt_no
  <2> DEFINE X == {c \in Rows(j) : c <= x}
             Y == {c \in Rows(j) : c <= y}
  <2>1. X \in SUBSET Y /\ y \in Y /\ y \notin X
    BY <1>1, <1>2
  <2>2. Y \in SUBSET AttemptIds
    BY DEF Rows
  <2>3. job_attempts[x].attempt_no = Cardinality(X) /\ job_attempts[y].attempt_no = Cardinality(Y)
    BY DEF HistoryInv, AttemptRowsComplete
  <2> HIDE DEF X, Y
  <2>4. X # Y
    BY <2>1
  <2>5. IsFiniteSet(Y)
    BY <2>2, RowsAreFinite
  <2>6. Cardinality(X) # Cardinality(Y)
    BY <2>1, <2>4, <2>5, FS_Subset
  <2> QED BY <2>3, <2>6
<1>3. ~ (a < b) /\ ~ (b < a)
  BY <1>2
<1> QED BY <1>1, <1>3

\* The jobs of a batch are different ones.
LEMMA BatchFields ==
  ASSUME NEW js \in Batches
  PROVE  /\ Len(js) \in Nat /\ DOMAIN js = 1 .. Len(js)
         /\ \A i \in 1 .. Len(js) : js[i] \in JobIds
         /\ \A i, k \in 1 .. Len(js) : js[i] = js[k] => i = k
<1>1. CASE \E j \in JobIds : js = <<j>>
  BY <1>1
<1>2. CASE js \in JobIds \X JobIds /\ js[1] # js[2]
  <2>1. PICK i \in JobIds, k \in JobIds : js = <<i, k>>
    BY <1>2
  <2>2. Len(js) = 2 /\ DOMAIN js = 1 .. 2 /\ js[1] = i /\ js[2] = k
    BY <2>1
  <2> QED BY <1>2, <2>2
<1> QED BY <1>1, <1>2 DEF Batches

\* What start_attempts_batch does: the attempt a is new, for the job j.
Starts(a, j) ==
  /\ a \in AttemptIds /\ a > last_attempt /\ job_attempts[a] = None /\ j \in Live /\ jobs[j].status = "running"
  /\ job_attempts'[a] \in AttemptRow /\ job_attempts'[a] # None
  /\ job_attempts'[a].job_id = j /\ job_attempts'[a].attempt_no = Cardinality(Rows(j)) + 1
  /\ job_attempts'[a].status = "running" /\ job_attempts'[a].error_code = None

\* Every attempt is left or new, and no two new ones are of one job.
StartEffect ==
  /\ \A a \in AttemptIds : job_attempts'[a] = job_attempts[a] \/ \E j \in JobIds : Starts(a, j)
  /\ \A a, b \in AttemptIds, j \in JobIds : Starts(a, j) /\ Starts(b, j) => a = b

\* What start_attempts_batch does to the attempts.
LEMMA StartFields ==
  ASSUME SqliteTypeOK, HistoryInv, NEW w \in Workers, NEW js \in Batches, start_attempts_batch(js, w)
  PROVE  /\ StartEffect
         /\ job_attempts' \in [AttemptIds -> AttemptRow \cup {None}]
         /\ last_attempt' \in 0 .. MaxAttemptId /\ last_attempt' >= last_attempt
         /\ \A a \in AttemptIds : job_attempts'[a] # job_attempts[a] => a <= last_attempt'
<1> DEFINE l == last_attempt
           m == last_attempt + Len(js)
<1>1. /\ Len(js) \in Nat /\ DOMAIN js = 1 .. Len(js)
      /\ \A i \in 1 .. Len(js) : js[i] \in JobIds
      /\ \A i, k \in 1 .. Len(js) : js[i] = js[k] => i = k
  BY BatchFields
<1>2. l \in Nat /\ m \in Nat /\ m <= MaxAttemptId /\ m >= l /\ last_attempt' = m
  BY <1>1, SqliteAssumption DEF start_attempts_batch, SqliteTypeOK
<1>3. \A i \in 1 .. Len(js) : js[i] \in Live /\ jobs[js[i]].status = "running"
  BY <1>1 DEF start_attempts_batch, HoldsLease
<1> DEFINE new(a) == [job_id |-> js[a - l], attempt_no |-> NextNo(js[a - l]), status |-> "running",
                      worker_id |-> w, error_code |-> None]
<1>4. job_attempts' = [a \in AttemptIds |-> IF a \in l + 1 .. m THEN new(a) ELSE job_attempts[a]]
  BY DEF start_attempts_batch
<1>5. ASSUME NEW a \in l + 1 .. m
      PROVE  a - l \in 1 .. Len(js) /\ a > l /\ a \in AttemptIds
  BY <1>1, <1>2, SqliteAssumption DEF AttemptIds
<1> HIDE DEF l, m
<1>6. ASSUME NEW a \in l + 1 .. m
      PROVE  Starts(a, js[a - l])
  <2>1. a - l \in 1 .. Len(js) /\ a > l /\ a \in AttemptIds
    BY <1>5
  <2>2. PICK j \in JobIds : j = js[a - l] /\ j \in Live /\ jobs[j].status = "running"
    BY <1>1, <1>3, <2>1
  <2>3. NextNo(j) = Cardinality(Rows(j)) + 1 /\ Cardinality(Rows(j)) \in Nat
    BY <2>2, NextNoCounts, RowsAreFinite DEF Rows
  <2>4. job_attempts'[a] = [job_id |-> j, attempt_no |-> NextNo(j), status |-> "running",
                            worker_id |-> w, error_code |-> None]
    BY <1>4, <2>1, <2>2
  <2>5. job_attempts'[a] \in AttemptRow
    BY <2>3, <2>4 DEF AttemptRow
  <2>6. job_attempts'[a] # None
    BY <2>5, AbsentAssumption
  <2>7. a > last_attempt /\ last_attempt \in Nat /\ a \in Nat
    BY <1>2, <2>1, SqliteAssumption DEF l, AttemptIds
  <2>8. job_attempts[a] = None
    BY <2>1, <2>7 DEF HistoryInv, AttemptsCoded
  <2> QED BY <2>1, <2>2, <2>3, <2>4, <2>5, <2>6, <2>7, <2>8 DEF Starts
<1>7. \A a \in AttemptIds : a \notin l + 1 .. m => job_attempts'[a] = job_attempts[a]
  BY <1>4
<1>8. \A a \in AttemptIds : job_attempts'[a] = job_attempts[a] \/ \E j \in JobIds : Starts(a, j)
  BY <1>1, <1>5, <1>6, <1>7
<1>9. ASSUME NEW a \in AttemptIds, NEW b \in AttemptIds, NEW j \in JobIds, Starts(a, j), Starts(b, j)
      PROVE  a = b
  <2>1. a \in l + 1 .. m /\ b \in l + 1 .. m
    BY <1>7, <1>9 DEF Starts
  <2>2. Starts(a, js[a - l]) /\ Starts(b, js[b - l])
    BY <1>6, <2>1
  <2>3. js[a - l] = j /\ js[b - l] = j
    BY <1>9, <2>2 DEF Starts
  <2>4. a - l = b - l
    BY <1>1, <1>5, <2>1, <2>3
  <2> QED BY <1>2, <2>1, <2>4
<1>10. StartEffect
  BY <1>8, <1>9 DEF StartEffect
<1>11. \A a \in AttemptIds : job_attempts'[a] \in AttemptRow \cup {None}
  BY <1>8 DEF Starts, SqliteTypeOK
<1>12. job_attempts' \in [AttemptIds -> AttemptRow \cup {None}]
  BY <1>4, <1>11
<1>13. \A a \in AttemptIds : job_attempts'[a] # job_attempts[a] => a <= last_attempt'
  BY <1>2, <1>7
<1>14. last_attempt' \in 0 .. MaxAttemptId /\ last_attempt' >= last_attempt
  BY <1>2, SqliteAssumption DEF l
<1> QED BY <1>10, <1>12, <1>13, <1>14

\* A new attempt of the job has the next number.
LEMMA StartKeepsHistory ==
  ASSUME SqliteTypeOK, HistoryInv, UNCHANGED jobs, StartEffect, last_attempt' \in Nat,
         last_attempt' >= last_attempt,
         \A a \in AttemptIds : job_attempts'[a] # job_attempts[a] => a <= last_attempt'
  PROVE  HistoryInv'
<1>0. Live' = Live /\ \A a \in AttemptIds : a \in Nat
  BY SqliteAssumption DEF Live, AttemptIds
<1>1. ASSUME NEW a \in AttemptIds, job_attempts'[a] # None
      PROVE  /\ a <= last_attempt' /\ job_attempts'[a].job_id \in Live'
             /\ job_attempts'[a].status = "failed" => job_attempts'[a].error_code \in ErrorCodes
             /\ job_attempts'[a].status = "running" => job_attempts'[a].error_code = None
  <2>1. CASE job_attempts'[a] = job_attempts[a]
    <3>1. a <= last_attempt /\ last_attempt \in Nat
      BY <1>1, <2>1 DEF HistoryInv, AttemptsCoded, SqliteTypeOK
    <3>2. a <= last_attempt'
      BY <1>0, <3>1
    <3> QED BY <1>0, <1>1, <2>1, <3>2 DEF HistoryInv, AttemptsCoded, AttemptRowsComplete
  <2>2. CASE \E j \in JobIds : Starts(a, j)
    BY <1>0, <2>2 DEF Starts
  <2> QED BY <2>1, <2>2 DEF StartEffect
<1>2. ASSUME NEW j \in Live', NEW a \in Rows(j)'
      PROVE  job_attempts'[a].attempt_no = Cardinality({b \in Rows(j)' : b <= a})
  <2>0. j \in Live /\ j \in JobIds /\ a \in AttemptIds
    BY <1>0 DEF Live, Rows
  <2>1. \A b \in AttemptIds : b \in Rows(j)' <=> b \in Rows(j) \/ Starts(b, j)
    <3> SUFFICES ASSUME NEW b \in AttemptIds PROVE b \in Rows(j)' <=> b \in Rows(j) \/ Starts(b, j)
      OBVIOUS
    <3>1. CASE job_attempts'[b] = job_attempts[b]
      BY <3>1 DEF Rows, Starts
    <3>2. CASE \E i \in JobIds : Starts(b, i)
      BY <3>2 DEF Rows, Starts
    <3> QED BY <3>1, <3>2 DEF StartEffect
  <2>2. \A b \in Rows(j) : b \in AttemptIds /\ b <= last_attempt /\ ~ Starts(b, j)
    BY DEF Rows, HistoryInv, AttemptsCoded, Starts
  <2>3. last_attempt \in Nat
    BY DEF SqliteTypeOK
  <2>4. CASE a \in Rows(j)
    <3>1. job_attempts'[a] = job_attempts[a]
      BY <2>0, <2>4 DEF StartEffect, Starts, Rows
    <3>2. {b \in Rows(j)' : b <= a} = {b \in Rows(j) : b <= a}
      <4>1. \A b \in AttemptIds : Starts(b, j) => ~ (b <= a)
        BY <1>0, <2>0, <2>2, <2>3, <2>4 DEF Starts
      <4>2. Rows(j)' \in SUBSET AttemptIds /\ Rows(j) \in SUBSET AttemptIds
        BY DEF Rows
      <4> QED BY <2>1, <4>1, <4>2
    <3> QED BY <2>0, <2>4, <3>1, <3>2 DEF HistoryInv, AttemptRowsComplete
  <2>5. CASE Starts(a, j)
    <3>1. \A b \in AttemptIds : Starts(b, j) => b = a
      BY <2>0, <2>5 DEF StartEffect
    <3>2. \A b \in Rows(j) : b <= a
      BY <1>0, <2>0, <2>2, <2>3, <2>5 DEF Starts
    <3>3. Rows(j)' \in SUBSET AttemptIds /\ Rows(j) \in SUBSET AttemptIds
      BY DEF Rows
    <3>4. a <= a
      BY <1>0, <2>0
    <3>5. {b \in Rows(j)' : b <= a} = Rows(j) \cup {a}
      BY <2>0, <2>1, <2>5, <3>1, <3>2, <3>3, <3>4
    <3>6. a \notin Rows(j) /\ IsFiniteSet(Rows(j))
      BY <2>2, <2>5, <3>3, RowsAreFinite
    <3>7. Cardinality(Rows(j) \cup {a}) = Cardinality(Rows(j)) + 1
      BY <3>6, FS_AddElement
    <3> QED BY <2>5, <3>5, <3>7 DEF Starts
  <2> QED BY <1>2, <2>0, <2>1, <2>4, <2>5
<1>3. AttemptsCoded'
  BY <1>1 DEF AttemptsCoded
<1>4. AttemptRowsComplete'
  BY <1>1, <1>2 DEF AttemptRowsComplete
<1> QED BY <1>3, <1>4 DEF HistoryInv

----------------------------------------------------------------------------
(* Rows                                                                     *)

\* The recurrence of one job, and when its next occurrence is due.
DueAfter(i, j) == i \in Live /\ ~ Retried(i) => jobs[i].run_at >= At(Row(j).run_at + Interval(Row(j)))

RecursOnce(j) ==
  IF Row(j).status = "succeeded" /\ Row(j).recurring_interval_seconds # None
  THEN \E i \in NextOf(j) : NextOf(j) = {i} /\ DueAfter(i, j)
  ELSE NextOf(j) = {}

\* RecurrenceUnbroken says so of every job that is known.
LEMMA RecurrenceByJob == RecurrenceUnbroken <=> \A j \in Known : RecursOnce(j)
<1>1. \A j \in Known : NextOf(j) \in SUBSET Known
  BY DEF NextOf
<1> QED BY DEF RecurrenceUnbroken, RecursOnce, DueAfter, NextOf, Row, Known

\* The same after a step.
LEMMA RecurrenceByJobNext == RecurrenceUnbroken' <=> \A j \in Known' : RecursOnce(j)'
  BY DEF RecurrenceUnbroken, RecursOnce, DueAfter, NextOf, Row, Known

\* The row stays in its table as it is.
Same(i) == jobs'[i] = jobs[i] /\ jobs_archive'[i] = jobs_archive[i]

\* A row of queued work is inserted under a new id; r is what it replays.
Inserts(i, r) ==
  /\ i \in Unused /\ jobs_archive'[i] = jobs_archive[i]
  /\ jobs'[i] \in Job /\ jobs'[i].status = "queued" /\ jobs'[i].locked_by = None
  /\ jobs'[i].lock_expires_at = None /\ jobs'[i].replay_of_job_id = r

\* A row of work that is not over is updated.
Moves(i) ==
  /\ i \in Live /\ jobs[i].status \in {"queued", "running"} /\ jobs_archive'[i] = jobs_archive[i]
  /\ jobs'[i] \in Job
  /\ jobs'[i].replay_of_job_id = jobs[i].replay_of_job_id
  /\ jobs'[i].recurring_interval_seconds = jobs[i].recurring_interval_seconds
  /\ jobs'[i].status = "queued" => jobs'[i].locked_by = None /\ jobs'[i].lock_expires_at = None
  /\ jobs'[i].run_at = jobs[i].run_at \/ Retried(i)'

\* Completion of a job that does not recur, and other updates.
PlainlyMoves(i) ==
  Moves(i) /\ (jobs'[i].status = "succeeded" => jobs[i].recurring_interval_seconds = None)

\* A row of succeeded work goes to the archive.
Archives(i) ==
  /\ i \in Live /\ jobs[i].status = "succeeded" /\ jobs'[i] = None
  /\ jobs_archive'[i] \in Job /\ jobs_archive'[i].status = "succeeded"
  /\ jobs_archive'[i].run_at = jobs[i].run_at
  /\ jobs_archive'[i].replay_of_job_id = jobs[i].replay_of_job_id
  /\ jobs_archive'[i].recurring_interval_seconds = jobs[i].recurring_interval_seconds

Tables == jobs' = [j \in JobIds |-> jobs'[j]] /\ jobs_archive' = [j \in JobIds |-> jobs_archive'[j]]

\* A job that was put off stays so while it has a row.
RetriesStay == \A i \in JobIds : Retried(i) /\ jobs'[i] # None => Retried(i)'

PlainRows ==
  /\ Tables /\ RetriesStay
  /\ \A i \in JobIds : Same(i) \/ Inserts(i, None) \/ PlainlyMoves(i) \/ Archives(i)

\* A completion that schedules the next occurrence id of j.
RecurringRows(j, id) ==
  /\ Tables /\ RetriesStay /\ j # id /\ j \in JobIds /\ id \in JobIds
  /\ Moves(j) /\ jobs'[j].status = "succeeded" /\ jobs[j].recurring_interval_seconds # None
  /\ jobs'[j].run_at = jobs[j].run_at
  /\ Inserts(id, j) /\ jobs'[id].run_at >= At(jobs[j].run_at + Interval(jobs[j]))
  /\ \A i \in JobIds \ {j, id} : Same(i)

RowsStep ==
  Tables /\ \A i \in JobIds : Same(i) \/ (\E r : Inserts(i, r)) \/ Moves(i) \/ Archives(i)

\* Both keep the types of the tables, and where rows are.
LEMMA RowsStayTyped ==
  ASSUME SqliteTypeOK, RowInv, RowsStep
  PROVE  /\ jobs' \in [JobIds -> Job \cup {None}] /\ jobs_archive' \in [JobIds -> Job \cup {None}]
         /\ RowInv'
<1>1. \A i \in JobIds : jobs[i] \in Job \cup {None} /\ jobs_archive[i] \in Job \cup {None}
  BY DEF SqliteTypeOK
<1> USE DEF RowsStep
<1>2. ASSUME NEW i \in JobIds
      PROVE  /\ jobs'[i] \in Job \cup {None} /\ jobs_archive'[i] \in Job \cup {None}
             /\ jobs_archive'[i] # None => jobs'[i] = None /\ jobs_archive'[i].status = "succeeded"
             /\ jobs'[i] # None /\ jobs'[i].status = "queued" =>
                  jobs'[i].locked_by = None /\ jobs'[i].lock_expires_at = None
  <2>1. CASE Same(i)
    BY <1>1, <2>1 DEF Same, RowInv, OneHome, QueuedIsFree, Live
  <2>2. CASE \E r : Inserts(i, r)
    BY <1>1, <2>2 DEF Inserts, Unused
  <2>3. CASE Moves(i)
    BY <1>1, <2>3 DEF Moves, RowInv, OneHome, Live
  <2>4. CASE Archives(i)
    BY <1>1, <2>4 DEF Archives
  <2> QED BY <2>1, <2>2, <2>3, <2>4
<1>3. jobs' \in [JobIds -> Job \cup {None}] /\ jobs_archive' \in [JobIds -> Job \cup {None}]
  BY <1>2 DEF Tables
<1>4. RowInv'
  BY <1>2 DEF RowInv, OneHome, QueuedIsFree, Live
<1> QED BY <1>3, <1>4

\* A job that is known stays known, with what its recurrence is read from.
LEMMA KnownKept ==
  ASSUME SqliteTypeOK, RowInv, NEW i \in Known, Same(i) \/ Moves(i) \/ Archives(i)
  PROVE  /\ i \in Known' /\ (i \in Live' => i \in Live)
         /\ Row(i)'.replay_of_job_id = Row(i).replay_of_job_id
         /\ Row(i)'.recurring_interval_seconds = Row(i).recurring_interval_seconds
         /\ Row(i).status = "succeeded" => Row(i)'.status = "succeeded" /\ Row(i)'.run_at = Row(i).run_at
         /\ Same(i) \/ Archives(i) => (Row(i)'.status = "succeeded" <=> Row(i).status = "succeeded")
<1>0. i \in JobIds
  BY DEF Known
<1>1. CASE Same(i)
  BY <1>0, <1>1 DEF Same, Row, Known, Unused, Live
<1>2. CASE Moves(i)
  <2>1. jobs'[i] # None /\ jobs'[i] \in Job
    BY <1>2, AbsentAssumption DEF Moves
  <2>2. i \in Known' /\ i \in Live' /\ i \in Live /\ Row(i) = jobs[i] /\ Row(i)' = jobs'[i]
    BY <1>0, <1>2, <2>1 DEF Row, Known, Unused, Live, Moves
  <2>3. ~ Same(i) \/ jobs'[i] = jobs[i]
    BY DEF Same
  <2>4. ~ Archives(i)
    BY <2>1 DEF Archives
  <2> QED BY <1>2, <2>2, <2>3, <2>4 DEF Moves
<1>3. CASE Archives(i)
  <2>1. jobs_archive'[i] # None /\ jobs'[i] = None
    BY <1>3, AbsentAssumption DEF Archives
  <2>2. i \in Known' /\ i \notin Live' /\ i \in Live /\ Row(i) = jobs[i] /\ Row(i)' = jobs_archive'[i]
    BY <1>0, <1>3, <2>1 DEF Row, Known, Unused, Live, Archives
  <2> QED BY <1>3, <2>2 DEF Archives
<1> QED BY <1>1, <1>2, <1>3

\* A job that is inserted becomes known, is queued and replays what it was given.
LEMMA InsertedIsKnown ==
  ASSUME SqliteTypeOK, NEW i \in JobIds, NEW r, Inserts(i, r)
  PROVE  /\ i \notin Known /\ i \in Known' /\ i \in Live'
         /\ Row(i)' = jobs'[i] /\ Row(i)'.status = "queued" /\ Row(i)'.replay_of_job_id = r
<1>1. jobs'[i] # None
  BY AbsentAssumption DEF Inserts
<1> QED BY <1>1 DEF Inserts, Known, Unused, Live, Row

\* When the next occurrence is due is not changed but by a retry.
LEMMA DueKept ==
  ASSUME SqliteTypeOK, RowInv, RetriesStay, NEW i \in Known, NEW j \in Known,
         Same(i) \/ Moves(i) \/ Archives(i), DueAfter(i, j),
         Row(j)'.run_at = Row(j).run_at,
         Row(j)'.recurring_interval_seconds = Row(j).recurring_interval_seconds
  PROVE  DueAfter(i, j)'
<1>1. Interval(Row(j))' = Interval(Row(j))
  BY DEF Interval
<1>2. At(Row(j).run_at + Interval(Row(j)))' = At(Row(j).run_at + Interval(Row(j)))
  BY <1>1 DEF At
<1>3. ASSUME i \in Live', ~ Retried(i)'
      PROVE  i \in Live /\ ~ Retried(i) /\ jobs'[i].run_at = jobs[i].run_at
  <2>1. i \in Live /\ i \in JobIds /\ jobs'[i] # None
    BY <1>3, KnownKept DEF Live
  <2>2. ~ Retried(i)
    BY <1>3, <2>1 DEF RetriesStay
  <2>3. jobs'[i].run_at = jobs[i].run_at
    BY <1>3, <2>1 DEF Same, Moves, Archives
  <2> QED BY <2>1, <2>2, <2>3
<1>4. PICK due : due = At(Row(j).run_at + Interval(Row(j))) /\ due = At(Row(j).run_at + Interval(Row(j)))'
  BY <1>2
<1>5. i \in Live /\ ~ Retried(i) => jobs[i].run_at >= due
  BY <1>4, Zenon DEF DueAfter
<1>6. i \in Live' /\ ~ Retried(i)' => jobs'[i].run_at >= due
  BY <1>3, <1>5
<1> QED BY <1>4, <1>6, Zenon DEF DueAfter

\* Steps that complete no job that recurs keep the chains as they are.
LEMMA PlainKeepsRecurrence ==
  ASSUME SqliteTypeOK, RowInv, RecurrenceInv, PlainRows
  PROVE  RecurrenceInv'
<1>0. None \notin JobIds
  BY NoneIsNoJob
<1>1. \A i \in JobIds : Same(i) \/ Inserts(i, None) \/ Moves(i) \/ Archives(i)
  BY DEF PlainRows, PlainlyMoves
<1>2. \A i \in Known : i \in JobIds /\ (Same(i) \/ Moves(i) \/ Archives(i))
  BY <1>1 DEF Inserts, Known
<1>3. \A i \in Known' : i \in JobIds /\ (i \in Known \/ Inserts(i, None))
  BY <1>1 DEF Known, Same, Moves, Archives, Unused, Live
<1>4. ASSUME NEW i \in Known' PROVE Row(i)'.replay_of_job_id # None => Row(i)'.replay_of_job_id \in Known'
  <2>1. CASE Inserts(i, None)
    BY <1>3, <2>1, InsertedIsKnown
  <2>2. CASE i \in Known
    <3>1. Row(i)'.replay_of_job_id = Row(i).replay_of_job_id
      BY <1>2, <2>2, KnownKept
    <3>2. Known \subseteq Known'
      BY <1>2, KnownKept
    <3> QED BY <2>2, <3>1, <3>2 DEF RecurrenceInv, OriginKnown
  <2> QED BY <1>3, <2>1, <2>2
<1>5. ASSUME NEW j \in JobIds PROVE NextOf(j)' = NextOf(j)
  <2>1. \A i \in Known' : Row(i)'.replay_of_job_id = j <=> i \in Known /\ Row(i).replay_of_job_id = j
    <3> SUFFICES ASSUME NEW i \in Known'
                 PROVE  Row(i)'.replay_of_job_id = j <=> i \in Known /\ Row(i).replay_of_job_id = j
      OBVIOUS
    <3>1. CASE Inserts(i, None)
      <4>1. Row(i)'.replay_of_job_id = None /\ i \notin Known
        BY <1>3, <3>1, InsertedIsKnown
      <4> QED BY <1>0, <4>1
    <3>2. CASE i \in Known
      <4>1. Row(i)'.replay_of_job_id = Row(i).replay_of_job_id
        BY <1>2, <3>2, KnownKept
      <4> QED BY <3>2, <4>1
    <3> QED BY <1>3, <3>1, <3>2
  <2>2. Known \subseteq Known'
    BY <1>2, KnownKept
  <2> QED BY <2>1, <2>2 DEF NextOf
<1>6. ASSUME NEW j \in Known' PROVE RecursOnce(j)'
  <2>1. CASE Inserts(j, None)
    <3>1. Row(j)'.status = "queued" /\ j \notin Known
      BY <1>3, <2>1, InsertedIsKnown
    <3>2. NextOf(j) = {}
      BY <1>0, <1>3, <3>1 DEF NextOf, RecurrenceInv, OriginKnown
    <3>3. NextOf(j)' = {}
      BY <1>3, <1>5, <3>2
    <3> QED BY <3>1, <3>3 DEF RecursOnce
  <2>2. CASE j \in Known
    <3>1. RecursOnce(j)
      BY <2>2, RecurrenceByJob DEF RecurrenceInv
    <3>2. /\ Row(j)'.recurring_interval_seconds = Row(j).recurring_interval_seconds
          /\ Row(j).status = "succeeded" => Row(j)'.status = "succeeded" /\ Row(j)'.run_at = Row(j).run_at
      BY <1>2, <2>2, KnownKept
    <3>3. Row(j)'.status = "succeeded" /\ Row(j)'.recurring_interval_seconds # None => Row(j).status = "succeeded"
      <4>1. CASE Same(j) \/ Archives(j)
        BY <2>2, <4>1, KnownKept
      <4>2. CASE PlainlyMoves(j)
        <5>1. jobs'[j] # None /\ j \in Live /\ j \in Live'
          BY <1>2, <2>2, <4>2, AbsentAssumption DEF PlainlyMoves, Moves, Live
        <5>2. Row(j)' = jobs'[j] /\ Row(j) = jobs[j]
          BY <5>1 DEF Row
        <5> QED BY <3>2, <4>2, <5>2 DEF PlainlyMoves
      <4> QED BY <1>2, <2>2, <4>1, <4>2 DEF PlainRows, Inserts, Known
    <3>4. NextOf(j)' = NextOf(j)
      BY <1>2, <1>5, <2>2
    <3>5. CASE Row(j)'.status = "succeeded" /\ Row(j)'.recurring_interval_seconds # None
      <4>1. PICK i \in NextOf(j) : NextOf(j) = {i} /\ DueAfter(i, j)
        BY <3>1, <3>2, <3>3, <3>5 DEF RecursOnce
      <4>2. i \in Known
        BY DEF NextOf
      <4>3. DueAfter(i, j)'
        BY <1>2, <2>2, <3>2, <3>3, <3>5, <4>1, <4>2, DueKept DEF PlainRows
      <4>4. i \in NextOf(j)' /\ NextOf(j)' = {i}
        BY <3>4, <4>1
      <4> QED BY <3>5, <4>3, <4>4 DEF RecursOnce
    <3>6. CASE ~ (Row(j)'.status = "succeeded" /\ Row(j)'.recurring_interval_seconds # None)
      <4>1. NextOf(j) = {}
        BY <3>1, <3>2, <3>6 DEF RecursOnce
      <4> QED BY <3>4, <3>6, <4>1 DEF RecursOnce
    <3> QED BY <3>5, <3>6
  <2> QED BY <1>3, <2>1, <2>2
<1>7. RecurrenceUnbroken'
  BY <1>6, RecurrenceByJobNext
<1>8. OriginKnown'
  BY <1>4 DEF OriginKnown
<1> QED BY <1>7, <1>8 DEF RecurrenceInv

\* The completion of a job that recurs adds the one next occurrence it had not.
LEMMA RecurringKeepsRecurrence ==
  ASSUME SqliteTypeOK, RowInv, RecurrenceInv, NEW j, NEW id, RecurringRows(j, id)
  PROVE  RecurrenceInv'
<1>0. None \notin JobIds /\ j \in JobIds /\ id \in JobIds /\ j # id
  BY NoneIsNoJob DEF RecurringRows
<1>1. /\ id \notin Known /\ id \in Known' /\ id \in Live' /\ Row(id)' = jobs'[id]
      /\ Row(id)'.status = "queued" /\ Row(id)'.replay_of_job_id = j
  BY <1>0, InsertedIsKnown DEF RecurringRows
<1>2. /\ j \in Known /\ Row(j) = jobs[j] /\ Row(j)' = jobs'[j] /\ j \in Live
      /\ jobs[j].status # "succeeded" /\ jobs'[j].status = "succeeded"
      /\ jobs'[j].recurring_interval_seconds = jobs[j].recurring_interval_seconds
      /\ jobs[j].recurring_interval_seconds # None /\ jobs'[j].run_at = jobs[j].run_at
  <2>1. jobs'[j] # None /\ j \in Live
    BY AbsentAssumption DEF RecurringRows, Moves
  <2>2. j \in Known /\ Row(j) = jobs[j] /\ Row(j)' = jobs'[j]
    BY <1>0, <2>1 DEF Known, Unused, Live, Row
  <2> QED BY <2>1, <2>2 DEF RecurringRows, Moves
<1>3. \A i \in Known : i \in JobIds /\ (Same(i) \/ Moves(i))
  BY <1>1 DEF RecurringRows, Known
<1>4. \A i \in Known' : i \in Known \/ i = id
  <2>1. \A i \in Known' : i \in JobIds
    BY DEF Known
  <2>2. \A i \in JobIds \ {j, id} : Same(i)
    BY DEF RecurringRows
  <2> QED BY <1>2, <2>1, <2>2 DEF Known, Same, Unused
<1>5. Known \subseteq Known'
  BY <1>3, KnownKept
<1>6. \A i \in Known : /\ Row(i)'.replay_of_job_id = Row(i).replay_of_job_id
                       /\ Row(i)'.recurring_interval_seconds = Row(i).recurring_interval_seconds
  BY <1>3, KnownKept
<1>7. ASSUME NEW i \in Known' PROVE Row(i)'.replay_of_job_id # None => Row(i)'.replay_of_job_id \in Known'
  BY <1>1, <1>2, <1>4, <1>5, <1>6 DEF RecurrenceInv, OriginKnown
<1>8. NextOf(j) = {}
  BY <1>2, RecurrenceByJob DEF RecurrenceInv, RecursOnce
<1>9. NextOf(id) = {}
  BY <1>0, <1>1 DEF NextOf, RecurrenceInv, OriginKnown
<1>10. ASSUME NEW k \in JobIds, k # j PROVE NextOf(k)' = NextOf(k)
  <2>1. \A i \in Known' : Row(i)'.replay_of_job_id = k <=> i \in Known /\ Row(i).replay_of_job_id = k
    BY <1>1, <1>4, <1>6, <1>10
  <2> QED BY <1>5, <2>1 DEF NextOf
<1>11. NextOf(j)' = {id}
  <2>1. \A i \in Known' : Row(i)'.replay_of_job_id = j <=> i = id
    <3> SUFFICES ASSUME NEW i \in Known' PROVE Row(i)'.replay_of_job_id = j <=> i = id
      OBVIOUS
    <3>1. CASE i = id
      BY <1>1, <3>1
    <3>2. CASE i \in Known
      BY <1>1, <1>6, <1>8, <3>2 DEF NextOf
    <3> QED BY <1>4, <3>1, <3>2
  <2> QED BY <1>1, <2>1 DEF NextOf
<1>12. DueAfter(id, j)'
  <2>1. Interval(Row(j))' = Interval(jobs[j])
    BY <1>2 DEF Interval
  <2>2. Row(j)'.run_at + Interval(Row(j))' = jobs[j].run_at + Interval(jobs[j])
    BY <1>2, <2>1
  <2>3. At(Row(j).run_at + Interval(Row(j)))' = At(jobs[j].run_at + Interval(jobs[j]))
    BY <2>2 DEF At
  <2>4. PICK due : due = At(jobs[j].run_at + Interval(jobs[j]))
    OBVIOUS
  <2>5. jobs'[id].run_at >= due
    BY <2>4, Zenon DEF RecurringRows
  <2> QED BY <2>3, <2>4, <2>5, Zenon DEF DueAfter
<1>13. ASSUME NEW k \in Known' PROVE RecursOnce(k)'
  <2>1. CASE k = j
    <3>1. id \in NextOf(j)' /\ NextOf(j)' = {id}
      BY <1>11
    <3>2. Row(j)'.status = "succeeded" /\ Row(j)'.recurring_interval_seconds # None
      BY <1>2
    <3> QED BY <1>12, <2>1, <3>1, <3>2 DEF RecursOnce
  <2>2. CASE k = id
    <3>1. NextOf(k)' = {} /\ Row(k)'.status = "queued"
      BY <1>0, <1>1, <1>9, <1>10, <2>2
    <3> QED BY <3>1 DEF RecursOnce
  <2>3. CASE k # j /\ k # id
    <3>1. k \in Known /\ k \in JobIds /\ Same(k)
      BY <1>3, <1>4, <2>3 DEF RecurringRows
    <3>2. /\ Row(k)'.recurring_interval_seconds = Row(k).recurring_interval_seconds
          /\ Row(k).status = "succeeded" => Row(k)'.run_at = Row(k).run_at
          /\ Row(k)'.status = "succeeded" <=> Row(k).status = "succeeded"
      BY <3>1, KnownKept
    <3>3. RecursOnce(k) /\ NextOf(k)' = NextOf(k)
      BY <1>10, <2>3, <3>1, RecurrenceByJob DEF RecurrenceInv
    <3>4. CASE Row(k).status = "succeeded" /\ Row(k).recurring_interval_seconds # None
      <4>1. PICK i \in NextOf(k) : NextOf(k) = {i} /\ DueAfter(i, k)
        BY <3>3, <3>4 DEF RecursOnce
      <4>2. i \in Known
        BY DEF NextOf
      <4>3. DueAfter(i, k)'
        BY <1>3, <3>1, <3>2, <3>4, <4>1, <4>2, DueKept DEF RecurringRows
      <4>4. i \in NextOf(k)' /\ NextOf(k)' = {i}
        BY <3>3, <4>1
      <4> QED BY <3>2, <3>4, <4>3, <4>4 DEF RecursOnce
    <3>5. CASE ~ (Row(k).status = "succeeded" /\ Row(k).recurring_interval_seconds # None)
      BY <3>2, <3>3, <3>5 DEF RecursOnce
    <3> QED BY <3>4, <3>5
  <2> QED BY <2>1, <2>2, <2>3
<1>14. RecurrenceUnbroken'
  BY <1>13, RecurrenceByJobNext
<1>15. OriginKnown'
  BY <1>7 DEF OriginKnown
<1> QED BY <1>14, <1>15 DEF RecurrenceInv

----------------------------------------------------------------------------
(* Operations                                                               *)

\* Closing attempts keeps the jobs that were put off.
LEMMA KeptRetries ==
  ASSUME HistoryInv, AttemptsKept
  PROVE  RetriesStay
<1> SUFFICES ASSUME NEW i \in JobIds, Retried(i) PROVE Retried(i)'
  BY DEF RetriesStay
<1>1. PICK a \in Rows(i) : job_attempts[a].error_code = "HANDLER_FAILURE"
  BY DEF Retried
<1>2. a \in AttemptIds /\ job_attempts[a] # None /\ job_attempts[a].job_id = i
  BY DEF Rows
<1>3. "HANDLER_FAILURE" # None
  BY SqliteAssumption
<1>4. job_attempts[a].status # "running"
  BY <1>1, <1>2, <1>3 DEF HistoryInv, AttemptsCoded
<1>5. job_attempts'[a] = job_attempts[a]
  BY <1>2, <1>4 DEF AttemptsKept, AttemptKept, Closes
<1>6. a \in Rows(i)'
  BY <1>2, <1>5 DEF Rows
<1> QED BY <1>1, <1>5, <1>6 DEF Retried

\* What a step must do for the invariant to hold after it.
StepKept ==
  /\ now' \in Instants /\ last_attempt' \in 0 .. MaxAttemptId
  /\ job_attempts' \in [AttemptIds -> AttemptRow \cup {None}]
  /\ HistoryInv'
  /\ PlainRows \/ \E j, id : RecurringRows(j, id)

\* It does.
LEMMA StepKeptKeepsInv ==
  ASSUME SqliteInv, StepKept
  PROVE  SqliteInv'
<1>1. RowsStep
  <2>1. CASE PlainRows
    BY <2>1 DEF PlainRows, PlainlyMoves, RowsStep
  <2>2. ASSUME NEW j, NEW id, RecurringRows(j, id) PROVE RowsStep
    BY <2>2 DEF RecurringRows, RowsStep
  <2> QED BY <2>1, <2>2 DEF StepKept
<1>2. SqliteTypeOK' /\ RowInv'
  BY <1>1, RowsStayTyped DEF StepKept, SqliteInv, SqliteTypeOK
<1>3. RecurrenceInv'
  BY PlainKeepsRecurrence, RecurringKeepsRecurrence DEF StepKept, SqliteInv
<1> QED BY <1>2, <1>3 DEF StepKept, SqliteInv

\* An UPDATE or INSERT of one row.
LEMMA OneRow ==
  ASSUME SqliteTypeOK, NEW j \in JobIds, NEW new, jobs' = [jobs EXCEPT ![j] = new], UNCHANGED jobs_archive
  PROVE  Tables /\ jobs'[j] = new /\ jobs_archive'[j] = jobs_archive[j] /\ \A i \in JobIds : i # j => Same(i)
  BY DEF SqliteTypeOK, Tables, Same

\* A statement that touches no attempt.
LEMMA AttemptsUntouched ==
  ASSUME SqliteTypeOK, UNCHANGED <<job_attempts, last_attempt>>
  PROVE  AttemptsKept
  BY DEF AttemptsKept, AttemptKept, SqliteTypeOK

\* One row moves, is inserted or stays, and attempts are kept: the invariant holds after it.
LEMMA PlainStepKept ==
  ASSUME SqliteInv, AttemptsKept, Tables, now' \in Instants,
         \A i \in JobIds : Same(i) \/ Inserts(i, None) \/ PlainlyMoves(i)
  PROVE  StepKept
<1>1. Live \subseteq Live'
  <2> SUFFICES ASSUME NEW i \in Live PROVE i \in Live'
    OBVIOUS
  <2>1. i \in JobIds /\ jobs[i] # None
    BY DEF Live
  <2>2. jobs'[i] # None
    BY <2>1, AbsentAssumption DEF Same, Inserts, PlainlyMoves, Moves
  <2> QED BY <2>1, <2>2 DEF Live
<1>2. HistoryInv'
  BY <1>1, HistoryKept DEF SqliteInv
<1>3. RetriesStay
  BY KeptRetries DEF SqliteInv
<1>4. PlainRows
  BY <1>3 DEF PlainRows
<1>5. last_attempt' \in 0 .. MaxAttemptId
  BY DEF AttemptsKept, SqliteInv, SqliteTypeOK
<1> QED BY <1>2, <1>4, <1>5 DEF StepKept, AttemptsKept

\* enqueue and enqueue_in_tx insert queued work that replays nothing.
LEMMA EnqueueKept ==
  ASSUME SqliteInv, NEW nj, NEW id \in Unused, NEW t \in Clock, enqueue_in_tx(nj, id, t),
         nj.queue \in Queues, nj.priority \in Int, nj.run_at \in Instants,
         nj.idempotency_key \in Keys \cup {None},
         nj.deadline_at \in Instants \cup {None}, nj.recurring_interval_seconds \in Int \cup {None},
         nj.max_attempts \in Int
  PROVE  StepKept /\ AttemptsKept /\ Inserts(id, None) /\ \A i \in JobIds : i # id => Same(i)
<1>0. SqliteTypeOK /\ t \in Instants /\ id \in JobIds
  BY ClockIsPast DEF SqliteInv, Unused
<1>1. PICK new : new = Inserted(nj, nj.idempotency_key, None, t)
  OBVIOUS
<1>2. /\ new \in Job /\ new.status = "queued" /\ new.locked_by = None /\ new.lock_expires_at = None
      /\ new.replay_of_job_id = None
  BY <1>0, <1>1 DEF Inserted, Job, JobStatus
<1>3. jobs' = [jobs EXCEPT ![id] = new] /\ UNCHANGED jobs_archive
  BY <1>1, Zenon DEF enqueue_in_tx
<1>4. Tables /\ jobs'[id] = new /\ jobs_archive'[id] = jobs_archive[id] /\ \A i \in JobIds : i # id => Same(i)
  BY <1>0, <1>3, OneRow
<1>5. Inserts(id, None)
  BY <1>2, <1>4 DEF Inserts
<1>6. AttemptsKept /\ now' \in Instants
  BY <1>0, AttemptsUntouched DEF enqueue_in_tx, SqliteTypeOK
<1>7. StepKept
  BY <1>4, <1>5, <1>6, PlainStepKept
<1> QED BY <1>4, <1>5, <1>6, <1>7

\* What enqueue and enqueue_in_tx do with the arguments a client may give them.
LEMMA EnqueueEffect ==
  ASSUME SqliteInv, NEW nj \in NewJobs, NEW id \in Unused, NEW t \in Clock,
         enqueue(nj, id, t) \/ enqueue_in_tx(nj, id, t)
  PROVE  StepKept /\ AttemptsKept /\ Inserts(id, None) /\ \A i \in JobIds : i # id => Same(i)
<1>0. /\ nj \in NewJobType
      /\ nj.queue \in Queues /\ nj.priority \in Int /\ nj.run_at \in Instants
      /\ nj.idempotency_key \in Keys \cup {None}
      /\ nj.deadline_at \in Instants \cup {None} /\ nj.recurring_interval_seconds \in Int \cup {None}
      /\ nj.max_attempts \in Int
  BY SqliteAssumption DEF NewJobType
<1>1. CASE enqueue_in_tx(nj, id, t)
  BY <1>0, <1>1, EnqueueKept
<1>2. CASE enqueue(nj, id, t)
  <2>1. PICK plain : plain = [nj EXCEPT !.deadline_at = None, !.recurring_interval_seconds = None]
    OBVIOUS
  <2>2. /\ plain.queue \in Queues /\ plain.priority \in Int /\ plain.run_at \in Instants
        /\ plain.idempotency_key \in Keys \cup {None}
        /\ plain.deadline_at \in Instants \cup {None} /\ plain.recurring_interval_seconds \in Int \cup {None}
        /\ plain.max_attempts \in Int
    BY <1>0, <2>1 DEF NewJobType
  <2>3. enqueue_in_tx(plain, id, t)
    BY <1>2, <2>1, Zenon DEF enqueue
  <2> QED BY <2>2, <2>3, EnqueueKept
<1> QED BY <1>1, <1>2

\* The row that a report, a reap or a cancellation leaves behind.
Released(j, s) ==
  /\ j \in Live /\ jobs'[j] \in Job /\ jobs'[j] # None /\ jobs'[j].status = s
  /\ jobs'[j].locked_by = None /\ jobs'[j].lock_expires_at = None

\* A row that is unlocked moves.
LEMMA UnlockedMoves ==
  ASSUME SqliteTypeOK, NEW j \in Live, NEW t \in Instants, NEW s \in JobStatus,
         jobs[j].status \in {"queued", "running"}, jobs_archive'[j] = jobs_archive[j],
         jobs'[j] = [Unlocked(jobs[j], t) EXCEPT !.status = s]
  PROVE  Moves(j) /\ Released(j, s) /\ jobs'[j].run_at = jobs[j].run_at
<1>1. jobs[j] \in Job
  BY LiveRow
<1>2. /\ jobs'[j] \in Job /\ jobs'[j].status = s /\ jobs'[j].locked_by = None
      /\ jobs'[j].lock_expires_at = None
      /\ jobs'[j].run_at = jobs[j].run_at /\ jobs'[j].replay_of_job_id = jobs[j].replay_of_job_id
      /\ jobs'[j].recurring_interval_seconds = jobs[j].recurring_interval_seconds
  BY <1>1, UnlockedRow
<1>3. jobs'[j] # None
  BY <1>2, AbsentAssumption
<1> QED BY <1>2, <1>3 DEF Moves, Released

\* cancel_job unlocks the row.
LEMMA CanceledRow ==
  ASSUME SqliteTypeOK, NEW j \in Live, NEW t \in Instants, jobs[j].status \in {"queued", "running"},
         jobs' = Canceled(j, t), UNCHANGED jobs_archive
  PROVE  Tables /\ PlainlyMoves(j) /\ Released(j, "canceled") /\ \A i \in JobIds : i # j => Same(i)
<1>1. j \in JobIds
  BY LiveRow
<1>2. PICK new : new = [Unlocked(jobs[j], t) EXCEPT !.status = "canceled"]
  OBVIOUS
<1>3. jobs' = [jobs EXCEPT ![j] = new]
  BY <1>2, Zenon DEF Canceled
<1>4. Tables /\ jobs'[j] = new /\ jobs_archive'[j] = jobs_archive[j] /\ \A i \in JobIds : i # j => Same(i)
  BY <1>1, <1>3, OneRow
<1>5. Moves(j) /\ Released(j, "canceled")
  BY <1>2, <1>4, UnlockedMoves DEF JobStatus
<1> QED BY <1>4, <1>5 DEF PlainlyMoves, Released

\* Queued work that is cancelled, with no attempt of it touched.
LEMMA CancelQueuedKept ==
  ASSUME SqliteInv, NEW j \in JobIds, NEW t \in Clock, cancel_queued_job(j, t)
  PROVE  /\ StepKept /\ AttemptsKept /\ UNCHANGED job_attempts
         /\ Released(j, "canceled") /\ jobs[j].status = "queued" /\ \A i \in JobIds : i # j => Same(i)
<1>0. SqliteTypeOK /\ t \in Instants /\ j \in Live /\ jobs[j].status = "queued"
  BY ClockIsPast DEF SqliteInv, cancel_queued_job
<1>1. Tables /\ PlainlyMoves(j) /\ Released(j, "canceled") /\ \A i \in JobIds : i # j => Same(i)
  BY <1>0, CanceledRow DEF cancel_queued_job
<1>2. AttemptsKept /\ now' \in Instants
  BY <1>0, AttemptsUntouched DEF cancel_queued_job, SqliteTypeOK
<1>3. StepKept
  BY <1>1, <1>2, PlainStepKept
<1> QED BY <1>0, <1>1, <1>2, <1>3 DEF cancel_queued_job

\* A running job that is cancelled: its latest open attempt fails.
LEMMA CancelRunningKept ==
  ASSUME SqliteInv, NEW j \in JobIds, NEW w \in Workers, NEW t \in Clock, cancel_running_job(j, w, t)
  PROVE  /\ StepKept /\ AttemptsKept
         /\ Released(j, "canceled") /\ jobs[j].status = "running" /\ \A i \in JobIds : i # j => Same(i)
         /\ \A a \in LatestOpen(j) : a \in Rows(j) /\ Closes(a, "failed", "CANCELLED")
         /\ \A a \in AttemptIds : a \notin LatestOpen(j) => job_attempts'[a] = job_attempts[a]
<1>0. SqliteTypeOK /\ t \in Instants /\ j \in Live /\ jobs[j].status = "running"
  BY ClockIsPast DEF SqliteInv, cancel_running_job, HoldsLease
<1>1. Tables /\ PlainlyMoves(j) /\ Released(j, "canceled") /\ \A i \in JobIds : i # j => Same(i)
  BY <1>0, CanceledRow DEF cancel_running_job
<1>2. job_attempts' = [a \in AttemptIds |->
        IF a \in LatestOpen(j)
        THEN [job_attempts[a] EXCEPT !.status = "failed", !.error_code = "CANCELLED"]
        ELSE job_attempts[a]]
  BY DEF cancel_running_job
<1>3. ASSUME NEW a \in LatestOpen(j)
      PROVE  a \in AttemptIds /\ a \in Rows(j) /\ Closes(a, "failed", "CANCELLED") /\ job_attempts'[a] \in AttemptRow
  <2>1. a \in AttemptIds /\ a \in Rows(j) /\ job_attempts[a] # None /\ job_attempts[a].status = "running"
    BY DEF LatestOpen, OpenAttempt, Rows
  <2>2. job_attempts'[a] = [job_attempts[a] EXCEPT !.status = "failed", !.error_code = "CANCELLED"]
    BY <1>2, <2>1
  <2> QED BY <1>0, <2>1, <2>2, ClosedFields DEF ErrorCodes
<1>4. \A a \in AttemptIds : a \notin LatestOpen(j) => job_attempts'[a] = job_attempts[a]
  BY <1>2
<1>5. \A a \in AttemptIds : AttemptKept(a) /\ job_attempts'[a] \in AttemptRow \cup {None}
  BY <1>0, <1>3, <1>4 DEF AttemptKept, ErrorCodes, SqliteTypeOK
<1>6. AttemptsKept /\ now' \in Instants
  BY <1>0, <1>2, <1>5 DEF AttemptsKept, cancel_running_job, SqliteTypeOK
<1>7. StepKept
  BY <1>1, <1>6, PlainStepKept
<1> QED BY <1>0, <1>1, <1>3, <1>4, <1>6, <1>7

\* Time passes.
LEMMA TickKept ==
  ASSUME SqliteInv, SqliteTick
  PROVE  StepKept /\ AttemptsKept /\ UNCHANGED job_attempts /\ \A i \in JobIds : Same(i)
<1>0. SqliteTypeOK
  BY DEF SqliteInv
<1>1. now' \in Instants
  BY <1>0, SqliteAssumption DEF SqliteTick, SqliteTypeOK, Instants
<1>2. Tables /\ \A i \in JobIds : Same(i)
  BY <1>0 DEF SqliteTick, SqliteTypeOK, Tables, Same
<1>3. AttemptsKept
  BY <1>0, AttemptsUntouched DEF SqliteTick
<1>4. StepKept
  BY <1>1, <1>2, <1>3, PlainStepKept
<1> QED BY <1>2, <1>3, <1>4 DEF SqliteTick

\* An extension moves the expiry of a lease and nothing else that is decided by.
LEMMA ExtendKept ==
  ASSUME SqliteInv, NEW j \in JobIds, NEW w \in Workers, NEW t \in Clock, extend_lease(j, w, t)
  PROVE  /\ StepKept /\ AttemptsKept /\ UNCHANGED job_attempts /\ \A i \in JobIds : i # j => Same(i)
         /\ j \in Live /\ jobs[j].status = "running" /\ jobs'[j] # None
         /\ jobs'[j].status = jobs[j].status /\ jobs'[j].locked_by = jobs[j].locked_by
         /\ jobs'[j].run_at = jobs[j].run_at /\ jobs'[j].lock_expires_at \in Instants
<1>0. SqliteTypeOK /\ t \in Instants /\ t \in Nat /\ j \in Live /\ jobs[j].status = "running"
  BY ClockIsPast DEF SqliteInv, extend_lease, HoldsLease
<1>1. jobs[j] \in Job
  BY <1>0, LiveRow
<1>2. t + LeaseSeconds \in Nat
  BY <1>0, SqliteAssumption
<1>3. PICK e \in Instants : e = At(t + LeaseSeconds)
  BY <1>2, AtIsInstant
<1>4. PICK new : new = [jobs[j] EXCEPT !.lock_expires_at = e, !.updated_at = t]
  OBVIOUS
<1>5. /\ new \in Job /\ new.status = jobs[j].status /\ new.locked_by = jobs[j].locked_by
      /\ new.run_at = jobs[j].run_at /\ new.lock_expires_at = e
      /\ new.replay_of_job_id = jobs[j].replay_of_job_id
      /\ new.recurring_interval_seconds = jobs[j].recurring_interval_seconds
  BY <1>0, <1>1, <1>4 DEF Job
<1>6. jobs' = [jobs EXCEPT ![j] = new] /\ UNCHANGED jobs_archive
  <2>1. jobs' = [jobs EXCEPT ![j].lock_expires_at = e, ![j].updated_at = t]
    BY <1>3, Zenon DEF extend_lease
  <2>2. jobs \in [JobIds -> Job \cup {None}]
    BY <1>0 DEF SqliteTypeOK
  <2>3. UNCHANGED jobs_archive
    BY DEF extend_lease
  <2> QED BY <1>1, <1>4, <2>1, <2>2, <2>3 DEF Job
<1>7. Tables /\ jobs'[j] = new /\ jobs_archive'[j] = jobs_archive[j] /\ \A i \in JobIds : i # j => Same(i)
  BY <1>0, <1>6, OneRow
<1>8. new # None
  BY <1>5, AbsentAssumption
<1>9. PlainlyMoves(j)
  BY <1>0, <1>5, <1>7 DEF PlainlyMoves, Moves
<1>10. AttemptsKept /\ now' \in Instants
  BY <1>0, AttemptsUntouched DEF extend_lease, SqliteTypeOK
<1>11. StepKept
  BY <1>7, <1>9, <1>10, PlainStepKept
<1> QED BY <1>0, <1>5, <1>7, <1>8, <1>10, <1>11 DEF extend_lease

\* A job whose lease has run out is queued again and its open attempts fail.
LEMMA ReapKept ==
  ASSUME SqliteInv, NEW t \in Clock, reap_expired_locks(t)
  PROVE  /\ StepKept /\ AttemptsKept
         /\ \A i \in JobIds : i \notin ExpiredLocks(t) => Same(i)
         /\ \A i \in ExpiredLocks(t) :
              /\ Released(i, "queued") /\ jobs'[i].run_at = jobs[i].run_at
              /\ jobs[i].status = "running" /\ jobs[i].lock_expires_at <= now
         /\ \A a \in AttemptIds, i \in ExpiredLocks(t) :
              OpenAttempt(a, i) => Closes(a, "failed", "LEASE_EXPIRED")
         /\ \A a \in AttemptIds :
              (~ \E i \in ExpiredLocks(t) : OpenAttempt(a, i)) => job_attempts'[a] = job_attempts[a]
<1>0. SqliteTypeOK /\ t \in Instants /\ t \in Nat /\ t <= now /\ now \in Instants
  BY ClockIsPast DEF SqliteInv, SqliteTypeOK
<1>1. /\ jobs' = [j \in JobIds |-> IF j \in ExpiredLocks(t)
                                   THEN [Unlocked(jobs[j], t) EXCEPT !.status = "queued"] ELSE jobs[j]]
      /\ UNCHANGED <<now, jobs_archive, last_attempt>>
  BY DEF reap_expired_locks
<1>2. job_attempts' = [a \in AttemptIds |->
        IF \E j \in ExpiredLocks(t) : OpenAttempt(a, j)
        THEN [job_attempts[a] EXCEPT !.status = "failed", !.error_code = "LEASE_EXPIRED"]
        ELSE job_attempts[a]]
  BY DEF reap_expired_locks
<1>3. Tables /\ \A i \in JobIds : i \notin ExpiredLocks(t) => Same(i)
  BY <1>0, <1>1 DEF Tables, Same, SqliteTypeOK
<1>4. ASSUME NEW i \in ExpiredLocks(t)
      PROVE  /\ i \in JobIds /\ PlainlyMoves(i) /\ Released(i, "queued") /\ jobs'[i].run_at = jobs[i].run_at
             /\ jobs[i].status = "running" /\ jobs[i].lock_expires_at <= now
  <2>1. /\ i \in Live /\ i \in JobIds /\ jobs[i].status = "running"
        /\ jobs[i].lock_expires_at # None /\ jobs[i].lock_expires_at <= t
    BY DEF ExpiredLocks, Live
  <2>2. jobs[i].lock_expires_at \in Instants
    BY <1>0, <2>1, LiveRow DEF Job
  <2>3. jobs[i].lock_expires_at <= now
    BY <1>0, <2>1, <2>2, SqliteAssumption DEF Instants
  <2>4. jobs'[i] = [Unlocked(jobs[i], t) EXCEPT !.status = "queued"] /\ jobs_archive'[i] = jobs_archive[i]
    BY <1>1, <2>1
  <2>5. Moves(i) /\ Released(i, "queued") /\ jobs'[i].run_at = jobs[i].run_at
    BY <1>0, <2>1, <2>4, UnlockedMoves DEF JobStatus
  <2> QED BY <2>1, <2>3, <2>5 DEF PlainlyMoves, Released
<1>5. ASSUME NEW a \in AttemptIds, NEW i \in ExpiredLocks(t), OpenAttempt(a, i)
      PROVE  Closes(a, "failed", "LEASE_EXPIRED") /\ job_attempts'[a] \in AttemptRow
  <2>1. job_attempts[a] # None /\ job_attempts[a].status = "running"
    BY <1>5 DEF OpenAttempt, Rows
  <2>2. job_attempts'[a] = [job_attempts[a] EXCEPT !.status = "failed", !.error_code = "LEASE_EXPIRED"]
    BY <1>2, <1>5
  <2> QED BY <1>0, <2>1, <2>2, ClosedFields DEF ErrorCodes
<1>6. \A a \in AttemptIds :
        (~ \E i \in ExpiredLocks(t) : OpenAttempt(a, i)) => job_attempts'[a] = job_attempts[a]
  BY <1>2
<1>7. \A a \in AttemptIds : AttemptKept(a) /\ job_attempts'[a] \in AttemptRow \cup {None}
  BY <1>0, <1>5, <1>6 DEF AttemptKept, ErrorCodes, SqliteTypeOK
<1>8. AttemptsKept /\ now' \in Instants
  BY <1>0, <1>1, <1>2, <1>7 DEF AttemptsKept
<1>9. StepKept
  BY <1>3, <1>4, <1>8, PlainStepKept
<1> QED BY <1>3, <1>4, <1>5, <1>6, <1>8, <1>9

\* The row of due work that a lease took for w.
LeasedTo(i, w) ==
  /\ i \in Live /\ jobs[i].status = "queued" /\ jobs[i].run_at <= now
  /\ jobs'[i] # None /\ jobs'[i].status = "running" /\ jobs'[i].locked_by = w
  /\ jobs'[i].lock_expires_at \in Instants /\ jobs'[i].run_at = jobs[i].run_at

\* A lease takes due work, and dead-letters queued work that has missed its deadline.
LEMMA LeaseKept ==
  ASSUME SqliteInv, NEW q \in Queues, NEW w \in Workers, NEW limit, NEW ordering, NEW t \in Clock,
         lease_jobs_batch_with_ordering(q, w, limit, ordering, t)
  PROVE  /\ StepKept /\ AttemptsKept /\ UNCHANGED job_attempts
         /\ \A i \in JobIds :
              Same(i) \/ LeasedTo(i, w) \/ (Released(i, "dlq") /\ jobs[i].status = "queued")
<1>0. SqliteTypeOK /\ t \in Instants /\ t \in Nat /\ t <= now /\ now \in Instants
  BY ClockIsPast DEF SqliteInv, SqliteTypeOK
<1>1. t + LeaseSeconds \in Nat
  BY <1>0, SqliteAssumption
<1>2. PICK e \in Instants : e = At(t + LeaseSeconds)
  BY <1>1, AtIsInstant
<1>3. PICK taken \in Candidates(q, t, ordering, limit) :
        /\ jobs' = [j \in JobIds |->
             IF j \in taken
             THEN [jobs[j] EXCEPT !.status = "running", !.locked_by = w, !.lock_expires_at = e, !.updated_at = t]
             ELSE IF j \in Overdue(q, t)
             THEN [jobs[j] EXCEPT !.status = "dlq", !.dlq_reason_code = "DEADLINE_EXCEEDED", !.updated_at = t]
             ELSE jobs[j]]
        /\ UNCHANGED <<now, job_attempts, jobs_archive, last_attempt>>
  BY <1>2, Zenon DEF lease_jobs_batch_with_ordering
<1>4. taken \subseteq Runnable(q, t) /\ Overdue(q, t) \subseteq Runnable(q, t)
  BY DEF Candidates, Overdue
<1>5. ASSUME NEW i \in Runnable(q, t)
      PROVE  /\ i \in Live /\ i \in JobIds /\ jobs[i] \in Job /\ jobs[i].status = "queued"
             /\ jobs[i].locked_by = None /\ jobs[i].lock_expires_at = None
             /\ jobs[i].run_at <= now
  <2>1. i \in Live /\ i \in JobIds /\ jobs[i].status = "queued" /\ jobs[i].run_at <= t
    BY DEF Runnable, Live
  <2>2. jobs[i] \in Job /\ jobs[i].locked_by = None /\ jobs[i].lock_expires_at = None
    BY <1>0, <2>1, LiveRow DEF SqliteInv, RowInv, QueuedIsFree
  <2>3. jobs[i].run_at \in Instants
    BY <2>2 DEF Job
  <2>4. jobs[i].run_at <= now
    BY <1>0, <2>1, <2>3, SqliteAssumption DEF Instants
  <2> QED BY <2>1, <2>2, <2>4
<1>6. ASSUME NEW i \in JobIds, i \in taken
      PROVE  PlainlyMoves(i) /\ LeasedTo(i, w)
  <2>0. i \in Runnable(q, t)
    BY <1>4, <1>6
  <2>1. jobs'[i] = [jobs[i] EXCEPT !.status = "running", !.locked_by = w, !.lock_expires_at = e, !.updated_at = t]
    BY <1>3, <1>6
  <2>2. /\ jobs'[i] \in Job /\ jobs'[i].status = "running" /\ jobs'[i].locked_by = w
        /\ jobs'[i].lock_expires_at = e /\ jobs'[i].run_at = jobs[i].run_at
        /\ jobs'[i].replay_of_job_id = jobs[i].replay_of_job_id
        /\ jobs'[i].recurring_interval_seconds = jobs[i].recurring_interval_seconds
    BY <1>0, <1>5, <2>0, <2>1 DEF Job, JobStatus
  <2>3. jobs'[i] # None
    BY <2>2, AbsentAssumption
  <2> QED BY <1>3, <1>5, <2>0, <2>2, <2>3 DEF PlainlyMoves, Moves, LeasedTo
<1>7. ASSUME NEW i \in JobIds, i \notin taken, i \in Overdue(q, t)
      PROVE  PlainlyMoves(i) /\ Released(i, "dlq") /\ jobs[i].status = "queued"
  <2>0. i \in Runnable(q, t)
    BY <1>4, <1>7
  <2>1. jobs'[i] = [jobs[i] EXCEPT !.status = "dlq", !.dlq_reason_code = "DEADLINE_EXCEEDED", !.updated_at = t]
    BY <1>3, <1>7
  <2>2. /\ jobs'[i] \in Job /\ jobs'[i].status = "dlq" /\ jobs'[i].locked_by = jobs[i].locked_by
        /\ jobs'[i].lock_expires_at = jobs[i].lock_expires_at /\ jobs'[i].run_at = jobs[i].run_at
        /\ jobs'[i].replay_of_job_id = jobs[i].replay_of_job_id
        /\ jobs'[i].recurring_interval_seconds = jobs[i].recurring_interval_seconds
    BY <1>0, <1>5, <2>0, <2>1 DEF Job, JobStatus
  <2>3. jobs'[i] # None
    BY <2>2, AbsentAssumption
  <2> QED BY <1>3, <1>5, <2>0, <2>2, <2>3 DEF PlainlyMoves, Moves, Released
<1>8. ASSUME NEW i \in JobIds, i \notin taken, i \notin Overdue(q, t)
      PROVE  Same(i)
  BY <1>3, <1>8 DEF Same
<1>9. Tables
  BY <1>0, <1>3 DEF Tables, SqliteTypeOK
<1>10. AttemptsKept /\ now' \in Instants
  BY <1>0, <1>3, AttemptsUntouched
<1>11. \A i \in JobIds : Same(i) \/ PlainlyMoves(i)
  BY <1>6, <1>7, <1>8
<1>12. StepKept
  BY <1>9, <1>10, <1>11, PlainStepKept
<1> QED BY <1>3, <1>6, <1>7, <1>8, <1>10, <1>12

\* What the report of a worker does to the job and to the attempt it reports on.
Reports(j, a, s, c, status) ==
  /\ AttemptsKept /\ Closes(a, s, c) /\ a \in Rows(j)
  /\ \A b \in AttemptIds : b # a => job_attempts'[b] = job_attempts[b]
  /\ jobs[j].status = "running" /\ Released(j, status)

\* mark_succeeded completes work that does not recur.
LEMMA SucceedKept ==
  ASSUME SqliteInv, NEW j \in JobIds, NEW a \in AttemptIds, NEW w \in Workers, NEW t \in Clock,
         mark_succeeded_once(j, a, w, t)
  PROVE  StepKept /\ Reports(j, a, "succeeded", None, "succeeded") /\ \A i \in JobIds : i # j => Same(i)
<1>0. SqliteTypeOK /\ t \in Instants /\ j \in Live /\ jobs[j].status = "running"
  BY ClockIsPast DEF SqliteInv, mark_succeeded_once, HoldsLease
<1>1. PICK new : new = [Unlocked(jobs[j], t) EXCEPT !.status = "succeeded"]
  OBVIOUS
<1>2. jobs' = [jobs EXCEPT ![j] = new]
  BY <1>1, Zenon DEF mark_succeeded_once, Completed
<1>3. UNCHANGED <<now, jobs_archive, last_attempt>> /\ jobs[j].recurring_interval_seconds = None
  BY DEF mark_succeeded_once
<1>4. Tables /\ jobs'[j] = new /\ jobs_archive'[j] = jobs_archive[j] /\ \A i \in JobIds : i # j => Same(i)
  BY <1>2, <1>3, <1>0, OneRow
<1>5. Moves(j) /\ Released(j, "succeeded")
  BY <1>0, <1>1, <1>4, UnlockedMoves DEF JobStatus
<1>6. PlainlyMoves(j)
  BY <1>3, <1>5 DEF PlainlyMoves
<1>7. CloseAttempt(a, j, "succeeded", None)
  BY DEF mark_succeeded_once
<1>8. /\ Closes(a, "succeeded", None) /\ a \in Rows(j)
      /\ \A b \in AttemptIds : b # a => job_attempts'[b] = job_attempts[b]
  BY <1>0, <1>7, CloseAttemptFields
<1>9. AttemptsKept /\ now' \in Instants
  BY <1>0, <1>3, <1>7, ReportKeepsAttempts DEF SqliteTypeOK
<1>10. StepKept
  BY <1>4, <1>6, <1>9, PlainStepKept
<1> QED BY <1>0, <1>4, <1>5, <1>8, <1>9, <1>10 DEF Reports

\* A job that failed was put off.
LEMMA FailureIsRetried ==
  ASSUME NEW j, NEW a \in Rows(j), Closes(a, "failed", "HANDLER_FAILURE")
  PROVE  Retried(j)'
  BY DEF Retried, Rows, Closes

\* reschedule_for_retry queues the job again, for the time it is given.
LEMMA RetryKept ==
  ASSUME SqliteInv, NEW j \in JobIds, NEW a \in AttemptIds, NEW w \in Workers, NEW t \in Clock,
         NEW nextRunAt \in Instants, reschedule_for_retry(j, a, w, nextRunAt, t)
  PROVE  StepKept /\ Reports(j, a, "failed", "HANDLER_FAILURE", "queued") /\ \A i \in JobIds : i # j => Same(i)
<1>0. SqliteTypeOK /\ t \in Instants /\ j \in Live /\ jobs[j].status = "running" /\ jobs[j] \in Job
  BY ClockIsPast, LiveRow DEF SqliteInv, reschedule_for_retry, HoldsLease
<1>1. PICK new : new = [Unlocked(jobs[j], t) EXCEPT !.status = "queued", !.run_at = nextRunAt]
  OBVIOUS
<1>2. jobs' = [jobs EXCEPT ![j] = new]
  BY <1>1, Zenon DEF reschedule_for_retry
<1>3. UNCHANGED <<now, jobs_archive, last_attempt>>
  BY DEF reschedule_for_retry
<1>4. Tables /\ jobs'[j] = new /\ jobs_archive'[j] = jobs_archive[j] /\ \A i \in JobIds : i # j => Same(i)
  BY <1>2, <1>3, <1>0, OneRow
<1>5. CloseAttempt(a, j, "failed", "HANDLER_FAILURE")
  BY DEF reschedule_for_retry
<1>6. /\ Closes(a, "failed", "HANDLER_FAILURE") /\ a \in Rows(j)
      /\ \A b \in AttemptIds : b # a => job_attempts'[b] = job_attempts[b]
  BY <1>0, <1>5, CloseAttemptFields DEF ErrorCodes
<1>7. Retried(j)'
  BY <1>6, FailureIsRetried
<1>8. /\ new \in Job /\ new.status = "queued" /\ new.locked_by = None /\ new.lock_expires_at = None
      /\ new.replay_of_job_id = jobs[j].replay_of_job_id
      /\ new.recurring_interval_seconds = jobs[j].recurring_interval_seconds
  BY <1>0, <1>1 DEF Unlocked, Job, JobStatus
<1>9. new # None
  BY <1>8, AbsentAssumption
<1>10. PlainlyMoves(j) /\ Released(j, "queued")
  BY <1>0, <1>4, <1>7, <1>8, <1>9 DEF PlainlyMoves, Moves, Released
<1>11. AttemptsKept /\ now' \in Instants
  BY <1>0, <1>3, <1>5, ReportKeepsAttempts DEF SqliteTypeOK
<1>12. StepKept
  BY <1>4, <1>10, <1>11, PlainStepKept
<1> QED BY <1>0, <1>4, <1>6, <1>10, <1>11, <1>12 DEF Reports

\* mark_dlq gives the job up.
LEMMA DlqKept ==
  ASSUME SqliteInv, NEW j \in JobIds, NEW a \in AttemptIds, NEW w \in Workers, NEW t \in Clock,
         NEW reason \in DlqReasons, mark_dlq(j, a, w, reason, t)
  PROVE  StepKept /\ Reports(j, a, "failed", "HANDLER_FAILURE", "dlq") /\ \A i \in JobIds : i # j => Same(i)
<1>0. SqliteTypeOK /\ t \in Instants /\ j \in Live /\ jobs[j].status = "running" /\ jobs[j] \in Job
  BY ClockIsPast, LiveRow DEF SqliteInv, mark_dlq, HoldsLease
<1>1. PICK new : new = [Unlocked(jobs[j], t) EXCEPT !.status = "dlq", !.dlq_reason_code = reason]
  OBVIOUS
<1>2. jobs' = [jobs EXCEPT ![j] = new]
  BY <1>1, Zenon DEF mark_dlq
<1>3. UNCHANGED <<now, jobs_archive, last_attempt>>
  BY DEF mark_dlq
<1>4. Tables /\ jobs'[j] = new /\ jobs_archive'[j] = jobs_archive[j] /\ \A i \in JobIds : i # j => Same(i)
  BY <1>2, <1>3, <1>0, OneRow
<1>5. CloseAttempt(a, j, "failed", "HANDLER_FAILURE")
  BY DEF mark_dlq
<1>6. /\ Closes(a, "failed", "HANDLER_FAILURE") /\ a \in Rows(j)
      /\ \A b \in AttemptIds : b # a => job_attempts'[b] = job_attempts[b]
  BY <1>0, <1>5, CloseAttemptFields DEF ErrorCodes
<1>7. /\ new \in Job /\ new.status = "dlq" /\ new.locked_by = None /\ new.lock_expires_at = None
      /\ new.run_at = jobs[j].run_at
      /\ new.replay_of_job_id = jobs[j].replay_of_job_id
      /\ new.recurring_interval_seconds = jobs[j].recurring_interval_seconds
  BY <1>0, <1>1 DEF Unlocked, Job, JobStatus
<1>8. new # None
  BY <1>7, AbsentAssumption
<1>9. PlainlyMoves(j) /\ Released(j, "dlq")
  BY <1>0, <1>4, <1>7, <1>8 DEF PlainlyMoves, Moves, Released
<1>10. AttemptsKept /\ now' \in Instants
  BY <1>0, <1>3, <1>5, ReportKeepsAttempts DEF SqliteTypeOK
<1>11. StepKept
  BY <1>4, <1>9, <1>10, PlainStepKept
<1> QED BY <1>0, <1>4, <1>6, <1>9, <1>10, <1>11 DEF Reports

\* mark_succeeded of a recurring job completes it and inserts its next occurrence.
LEMMA RecurKept ==
  ASSUME SqliteInv, NEW j \in JobIds, NEW a \in AttemptIds, NEW w \in Workers, NEW id \in Unused,
         NEW t \in Clock, mark_succeeded_recurring(j, a, w, id, t)
  PROVE  /\ StepKept /\ Reports(j, a, "succeeded", None, "succeeded") /\ Inserts(id, j) /\ id # j
         /\ \A i \in JobIds : i # j /\ i # id => Same(i)
<1>0. /\ SqliteTypeOK /\ t \in Instants /\ j \in Live /\ jobs[j].status = "running" /\ jobs[j] \in Job
      /\ jobs[j].recurring_interval_seconds # None /\ id \in JobIds /\ id # j
  BY ClockIsPast, LiveRow DEF SqliteInv, mark_succeeded_recurring, HoldsLease, Unused, Live
<1>1. PICK new : new = [Unlocked(jobs[j], t) EXCEPT !.status = "succeeded"]
  OBVIOUS
<1>2. PICK next : next = NextOccurrence(j, t)
  OBVIOUS
<1>3. jobs' = [[jobs EXCEPT ![j] = new] EXCEPT ![id] = next]
  BY <1>1, <1>2, Zenon DEF mark_succeeded_recurring, Completed
<1>4. UNCHANGED <<now, jobs_archive, last_attempt>>
  BY DEF mark_succeeded_recurring
<1>5. /\ Tables /\ jobs'[j] = new /\ jobs'[id] = next
      /\ jobs_archive'[j] = jobs_archive[j] /\ jobs_archive'[id] = jobs_archive[id]
      /\ \A i \in JobIds : i # j /\ i # id => Same(i)
  BY <1>0, <1>3, <1>4 DEF Tables, Same, SqliteTypeOK
<1>6. Moves(j) /\ Released(j, "succeeded") /\ jobs'[j].run_at = jobs[j].run_at
  BY <1>0, <1>1, <1>5, UnlockedMoves DEF JobStatus
<1>7. /\ next \in Job /\ next.status = "queued" /\ next.locked_by = None /\ next.lock_expires_at = None
      /\ next.replay_of_job_id = j
  BY <1>0, <1>2, NextOccurrenceRow
<1>8. Inserts(id, j)
  BY <1>5, <1>7 DEF Inserts
<1>9. jobs'[id].run_at >= At(jobs[j].run_at + Interval(jobs[j]))
  <2>1. PICK due : due = At(jobs[j].run_at + Interval(jobs[j]))
    OBVIOUS
  <2>2. next.run_at = due
    BY <1>0, <1>2, <2>1, NextOccurrenceRow, Zenon
  <2>3. next.run_at \in Nat
    BY <1>7, SqliteAssumption DEF Job, Instants
  <2>4. jobs'[id].run_at >= due
    BY <1>5, <2>2, <2>3
  <2> QED BY <2>1, <2>4, Zenon
<1>10. CloseAttempt(a, j, "succeeded", None)
  BY DEF mark_succeeded_recurring
<1>11. /\ Closes(a, "succeeded", None) /\ a \in Rows(j)
       /\ \A b \in AttemptIds : b # a => job_attempts'[b] = job_attempts[b]
  BY <1>0, <1>10, CloseAttemptFields
<1>12. AttemptsKept /\ now' \in Instants /\ last_attempt' \in 0 .. MaxAttemptId
  BY <1>0, <1>4, <1>10, ReportKeepsAttempts DEF SqliteTypeOK
<1>13. Live \subseteq Live'
  <2> SUFFICES ASSUME NEW i \in Live PROVE i \in Live'
    OBVIOUS
  <2>1. i \in JobIds /\ jobs[i] # None
    BY DEF Live
  <2>2. jobs'[i] # None
    BY <1>5, <1>6, <1>7, <2>1, AbsentAssumption DEF Same, Released
  <2> QED BY <2>1, <2>2 DEF Live
<1>14. HistoryInv' /\ RetriesStay
  BY <1>12, <1>13, HistoryKept, KeptRetries DEF SqliteInv
<1>15. jobs'[j].status = "succeeded"
  BY <1>6 DEF Released
<1>16. RecurringRows(j, id)
  BY <1>0, <1>5, <1>6, <1>8, <1>9, <1>14, <1>15, Zenon DEF RecurringRows
<1>17. StepKept
  BY <1>12, <1>14, <1>16 DEF StepKept, AttemptsKept
<1> QED BY <1>0, <1>5, <1>6, <1>8, <1>11, <1>12, <1>17 DEF Reports

\* start_attempts_batch touches no job.
LEMMA StartKept ==
  ASSUME SqliteInv, NEW w \in Workers, NEW js \in Batches, start_attempts_batch(js, w)
  PROVE  StepKept /\ StartEffect /\ \A i \in JobIds : Same(i)
<1>0. SqliteTypeOK /\ HistoryInv
  BY DEF SqliteInv
<1>1. UNCHANGED <<now, jobs, jobs_archive>>
  BY DEF start_attempts_batch
<1>2. /\ StartEffect
      /\ job_attempts' \in [AttemptIds -> AttemptRow \cup {None}]
      /\ last_attempt' \in 0 .. MaxAttemptId /\ last_attempt' >= last_attempt
      /\ \A a \in AttemptIds : job_attempts'[a] # job_attempts[a] => a <= last_attempt'
  BY <1>0, StartFields
<1>3. last_attempt' \in Nat
  BY <1>2
<1>4. HistoryInv'
  BY <1>0, <1>1, <1>2, <1>3, StartKeepsHistory
<1>5. Tables /\ \A i \in JobIds : Same(i)
  BY <1>0, <1>1 DEF Tables, Same, SqliteTypeOK
<1>6. RetriesStay
  <2> SUFFICES ASSUME NEW i \in JobIds, Retried(i) PROVE Retried(i)'
    BY DEF RetriesStay
  <2>1. PICK a \in Rows(i) : job_attempts[a].error_code = "HANDLER_FAILURE"
    BY DEF Retried
  <2>2. a \in AttemptIds /\ job_attempts[a] # None
    BY DEF Rows
  <2>3. job_attempts'[a] = job_attempts[a]
    BY <1>2, <2>2 DEF StartEffect, Starts
  <2> QED BY <2>1, <2>2, <2>3 DEF Retried, Rows
<1>7. PlainRows
  BY <1>5, <1>6 DEF PlainRows
<1>8. now' \in Instants
  BY <1>0, <1>1 DEF SqliteTypeOK
<1> QED BY <1>2, <1>4, <1>5, <1>7, <1>8 DEF StepKept

\* Archiving moves succeeded work, and its attempts go with it.
LEMMA ArchiveKept ==
  ASSUME SqliteInv, NEW cutoff, NEW limit, archive_succeeded_older_than(cutoff, limit)
  PROVE  /\ StepKept
         /\ \A i \in JobIds :
              \/ Archives(i)
              \/ Same(i) /\ \A a \in AttemptIds :
                   job_attempts'[a] = job_attempts[a] \/ (a \notin Rows(i) /\ a \notin Rows(i)')
<1>0. SqliteTypeOK /\ HistoryInv
  BY DEF SqliteInv
<1> DEFINE old == {j \in Live : jobs[j].status = "succeeded" /\ jobs[j].updated_at < cutoff}
<1>1. PICK moved \in SUBSET old :
        /\ jobs_archive' = [j \in JobIds |-> IF j \in moved THEN [jobs[j] EXCEPT !.idempotency_key = None]
                                                            ELSE jobs_archive[j]]
        /\ jobs' = [j \in JobIds |-> IF j \in moved THEN None ELSE jobs[j]]
        /\ job_attempts' = [a \in AttemptIds |-> IF \E j \in moved : a \in Rows(j) THEN None ELSE job_attempts[a]]
        /\ UNCHANGED <<now, last_attempt>>
  BY DEF archive_succeeded_older_than
<1>2. \A i \in moved : i \in Live /\ jobs[i].status = "succeeded"
  OBVIOUS
<1> HIDE DEF old
<1>3. ASSUME NEW i \in JobIds, i \in moved
      PROVE  Archives(i)
  <2>1. i \in Live /\ jobs[i].status = "succeeded" /\ jobs[i] \in Job
    BY <1>0, <1>2, <1>3, LiveRow
  <2>2. jobs_archive'[i] = [jobs[i] EXCEPT !.idempotency_key = None] /\ jobs'[i] = None
    BY <1>1, <1>3
  <2>3. /\ jobs_archive'[i] \in Job /\ jobs_archive'[i].status = jobs[i].status
        /\ jobs_archive'[i].run_at = jobs[i].run_at
        /\ jobs_archive'[i].replay_of_job_id = jobs[i].replay_of_job_id
        /\ jobs_archive'[i].recurring_interval_seconds = jobs[i].recurring_interval_seconds
    BY <2>1, <2>2 DEF Job
  <2> QED BY <2>1, <2>2, <2>3 DEF Archives
<1>4. ASSUME NEW i \in JobIds, i \notin moved
      PROVE  Same(i)
  BY <1>1, <1>4 DEF Same
<1>5. \A a \in AttemptIds : job_attempts'[a] = IF \E j \in moved : a \in Rows(j) THEN None ELSE job_attempts[a]
  BY <1>1
<1>6. \A a \in AttemptIds : job_attempts'[a] # None => job_attempts'[a] = job_attempts[a]
  BY <1>5
<1>7. ASSUME NEW i \in JobIds, i \notin moved
      PROVE  Rows(i)' = Rows(i) /\ \A a \in Rows(i) : job_attempts'[a] = job_attempts[a]
  <2>1. ASSUME NEW a \in Rows(i) PROVE job_attempts'[a] = job_attempts[a]
    BY <1>5, <1>7, <2>1 DEF Rows
  <2>2. \A a \in AttemptIds : a \in Rows(i)' <=> a \in Rows(i)
    BY <1>6, <2>1 DEF Rows
  <2> QED BY <2>1, <2>2 DEF Rows
<1>8. ASSUME NEW i \in moved PROVE Rows(i)' = {}
  BY <1>5 DEF Rows
<1>9. job_attempts' \in [AttemptIds -> AttemptRow \cup {None}]
  BY <1>0, <1>1, <1>5 DEF SqliteTypeOK
<1>10. HistoryInv'
  <2>1. AttemptsCoded'
    <3> SUFFICES ASSUME NEW a \in AttemptIds, job_attempts'[a] # None
                 PROVE  /\ a <= last_attempt'
                        /\ job_attempts'[a].status = "failed" => job_attempts'[a].error_code \in ErrorCodes
                        /\ job_attempts'[a].status = "running" => job_attempts'[a].error_code = None
      BY DEF AttemptsCoded
    <3> QED BY <1>0, <1>1, <1>6 DEF HistoryInv, AttemptsCoded
  <2>2. ASSUME NEW a \in AttemptIds, job_attempts'[a] # None
        PROVE  job_attempts'[a].job_id \in Live'
    <3>1. job_attempts'[a] = job_attempts[a]
      BY <1>6, <2>2
    <3>2. PICK i \in Live : i = job_attempts[a].job_id
      BY <1>0, <2>2, <3>1 DEF HistoryInv, AttemptRowsComplete
    <3>3. i \notin moved
      BY <1>5, <2>2, <3>1, <3>2 DEF Rows
    <3>4. i \in Live'
      BY <1>1, <3>3 DEF Live
    <3> QED BY <3>1, <3>2, <3>4
  <2>3. ASSUME NEW i \in Live', NEW a \in Rows(i)'
        PROVE  job_attempts'[a].attempt_no = Cardinality({b \in Rows(i)' : b <= a})
    <3>1. i \in JobIds /\ i \notin moved
      BY <1>8, <2>3 DEF Live
    <3>2. Rows(i)' = Rows(i) /\ job_attempts'[a] = job_attempts[a] /\ i \in Live
      BY <1>1, <1>7, <2>3, <3>1 DEF Live
    <3>3. job_attempts[a].attempt_no = Cardinality({b \in Rows(i) : b <= a})
      BY <1>0, <2>3, <3>2 DEF HistoryInv, AttemptRowsComplete
    <3> QED BY <3>2, <3>3
  <2>4. AttemptRowsComplete'
    BY <2>2, <2>3 DEF AttemptRowsComplete
  <2> QED BY <2>1, <2>4 DEF HistoryInv
<1>11. Tables
  BY <1>1 DEF Tables
<1>12. RetriesStay
  <2> SUFFICES ASSUME NEW i \in JobIds, Retried(i), jobs'[i] # None PROVE Retried(i)'
    BY DEF RetriesStay
  <2>1. i \notin moved
    BY <1>1
  <2> QED BY <1>7, <2>1 DEF Retried
<1>13. PlainRows
  BY <1>3, <1>4, <1>11, <1>12 DEF PlainRows
<1>14. now' \in Instants /\ last_attempt' \in 0 .. MaxAttemptId
  BY <1>0, <1>1 DEF SqliteTypeOK
<1>15. StepKept
  BY <1>9, <1>10, <1>13, <1>14 DEF StepKept
<1>16. ASSUME NEW i \in JobIds, i \notin moved
       PROVE  \A a \in AttemptIds :
                job_attempts'[a] = job_attempts[a] \/ (a \notin Rows(i) /\ a \notin Rows(i)')
  BY <1>7, <1>16
<1> QED BY <1>3, <1>4, <1>15, <1>16

----------------------------------------------------------------------------
(* What always holds                                                        *)

\* Every step keeps the invariant.
LEMMA StepsAreKept ==
  ASSUME SqliteInv, SqliteNext
  PROVE  StepKept
<1>1. CASE \E t \in Clock, nj \in NewJobs, id \in Unused : enqueue(nj, id, t) \/ enqueue_in_tx(nj, id, t)
  BY <1>1, EnqueueEffect
<1>2. ASSUME NEW t \in Clock, NEW w \in Workers, SqliteWork(w, t)
      PROVE  StepKept
  <2>1. CASE \E q \in Queues, n \in BatchSizes, o \in Orderings : lease_jobs_batch_with_ordering(q, w, n, o, t)
    BY <2>1, LeaseKept
  <2>2. CASE \E j \in JobIds : extend_lease(j, w, t) \/ cancel_running_job(j, w, t)
    BY <2>2, ExtendKept, CancelRunningKept
  <2>3. ASSUME NEW j \in JobIds, NEW a \in AttemptIds, NEW d \in RetryDelays,
               reschedule_for_retry(j, a, w, At(t + d), t)
        PROVE  StepKept
    <3>1. t + d \in Nat
      BY ClockIsPast, SqliteAssumption DEF SqliteInv
    <3>2. PICK e \in Instants : e = At(t + d)
      BY <3>1, AtIsInstant
    <3>3. reschedule_for_retry(j, a, w, e, t)
      BY <2>3, <3>2, Zenon
    <3> QED BY <3>3, RetryKept
  <2>4. CASE \E j \in JobIds, a \in AttemptIds :
               \/ mark_succeeded_once(j, a, w, t)
               \/ \E id \in Unused : mark_succeeded_recurring(j, a, w, id, t)
               \/ \E reason \in DlqReasons : mark_dlq(j, a, w, reason, t)
    BY <2>4, SucceedKept, RecurKept, DlqKept
  <2> QED BY <1>2, <2>1, <2>2, <2>3, <2>4 DEF SqliteWork
<1>3. CASE SqliteTick
  BY <1>3, TickKept
<1>4. CASE \E w \in Workers, js \in Batches : start_attempts_batch(js, w)
  BY <1>4, StartKept
<1>5. CASE \E cutoff \in Cutoffs, limit \in BatchSizes : archive_succeeded_older_than(cutoff, limit)
  BY <1>5, ArchiveKept
<1>6. ASSUME NEW t \in Clock, (\E j \in JobIds : cancel_queued_job(j, t)) \/ reap_expired_locks(t)
      PROVE  StepKept
  BY <1>6, CancelQueuedKept, ReapKept
<1> QED BY <1>1, <1>2, <1>3, <1>4, <1>5, <1>6 DEF SqliteNext

\* The invariant holds at the start.
LEMMA InitEstablishesInv == SqliteInit => SqliteInv
<1> SUFFICES ASSUME SqliteInit PROVE SqliteInv
  OBVIOUS
<1>1. Live = {} /\ Known = {} /\ \A j \in JobIds : jobs_archive[j] = None
  BY DEF SqliteInit, Live, Known, Unused
<1>2. SqliteTypeOK
  BY SqliteAssumption DEF SqliteInit, SqliteTypeOK, Instants
<1>3. RowInv
  BY <1>1 DEF RowInv, OneHome, QueuedIsFree
<1>4. HistoryInv
  BY <1>1 DEF HistoryInv, AttemptRowsComplete, AttemptsCoded, SqliteInit
<1>5. RecurrenceUnbroken
  BY <1>1, RecurrenceByJob
<1>6. OriginKnown
  BY <1>1 DEF OriginKnown
<1> QED BY <1>2, <1>3, <1>4, <1>5, <1>6 DEF SqliteInv, RecurrenceInv

\* A step that changes nothing keeps the invariant.
LEMMA StutterKeepsInv ==
  ASSUME SqliteInv, UNCHANGED sqliteVars
  PROVE  SqliteInv'
<1>1. AttemptsKept /\ now' \in Instants
  BY AttemptsUntouched DEF SqliteInv, SqliteTypeOK, sqliteVars
<1>2. Tables /\ \A i \in JobIds : Same(i)
  BY DEF SqliteInv, SqliteTypeOK, sqliteVars, Tables, Same
<1>3. StepKept
  BY <1>1, <1>2, PlainStepKept
<1> QED BY <1>3, StepKeptKeepsInv

\* The invariant holds of every reachable state.
LEMMA SqliteInvHolds == SqliteSpec => []SqliteInv
<1>1. SqliteInv /\ [SqliteNext]_sqliteVars => SqliteInv'
  BY StepsAreKept, StepKeptKeepsInv, StutterKeepsInv
<1> QED BY <1>1, InitEstablishesInv, PTL DEF SqliteSpec

\* Every row has the columns of its table, for every schedule and however old the clock of
\* an operation is (run_migrations and every statement that writes).
THEOREM SqliteTypeCorrect == SqliteSpec => []SqliteTypeOK
  BY SqliteInvHolds, PTL DEF SqliteInv

\* The attempts of a job are numbered 1 to n in the order of their start and leave with
\* their job, so MAX(attempt_no) + 1 never repeats a number (start_attempts_batch).
THEOREM AttemptsAreComplete == SqliteSpec => []AttemptRowsComplete
  BY SqliteInvHolds, PTL DEF SqliteInv, HistoryInv

\* A recurring job that has succeeded has exactly one next occurrence, on time until a retry
\* puts it off, and no other job has one (mark_succeeded).
THEOREM RecurrenceHolds == SqliteSpec => []RecurrenceUnbroken
  BY SqliteInvHolds, PTL DEF SqliteInv, RecurrenceInv

----------------------------------------------------------------------------
(* The contract                                                             *)

\* The outcomes of the attempts of a job, as the contract sees them.
OutcomesOf(j) == [a \in AttemptIds |-> OutcomeOf(a, j)]

\* A view of a job, by its parts.
ViewWith(status, holder, expiry, run_at, attempt) ==
  [status |-> status, holder |-> holder, expiry |-> expiry, run_at |-> run_at, attempt |-> attempt]

\* The view of a job that has a row.
RowView(row, outcomes) == ViewWith(row.status, row.locked_by, row.lock_expires_at, row.run_at, outcomes)

\* What the step does to an attempt is nothing to the job.
AttemptUnseen(a, j) == job_attempts'[a] = job_attempts[a] \/ (a \notin Rows(j) /\ a \notin Rows(j)')

\* What a step of the backend is to one job: a step of the contract, or none.
ContractStep(j) == ViewOf(j)' = ViewOf(j) \/ Contract!JobStep(ViewOf(j), ViewOf(j)')

\* What the contract sees of a job that has a row, and of one that has none.
LEMMA ViewFields ==
  ASSUME HistoryInv, NEW j \in JobIds
  PROVE  /\ jobs[j] # None => ViewOf(j) = RowView(jobs[j], OutcomesOf(j))
         /\ jobs[j] = None /\ jobs_archive[j] # None => ViewOf(j) = Contract!Gone("archived")
         /\ jobs[j] = None /\ jobs_archive[j] = None => ViewOf(j) = Contract!Gone("absent")
<1>1. jobs[j] # None => ViewOf(j) = RowView(jobs[j], OutcomesOf(j))
  BY DEF ViewOf, Live, RowView, ViewWith, OutcomesOf
<1>2. jobs[j] = None => j \notin Live /\ Rows(j) = {}
  BY NoRowNoAttempt DEF Live
<1>3. jobs[j] = None => [a \in AttemptIds |-> OutcomeOf(a, j)] = Contract!NoAttempts
  BY <1>2 DEF OutcomeOf, Contract!NoAttempts
<1> QED BY <1>1, <1>2, <1>3 DEF ViewOf, Contract!Gone

\* The same after a step.
LEMMA ViewFieldsNext ==
  ASSUME HistoryInv', NEW j \in JobIds
  PROVE  /\ jobs'[j] # None => ViewOf(j)' = RowView(jobs'[j], OutcomesOf(j)')
         /\ jobs'[j] = None /\ jobs_archive'[j] # None => ViewOf(j)' = Contract!Gone("archived")
         /\ jobs'[j] = None /\ jobs_archive'[j] = None => ViewOf(j)' = Contract!Gone("absent")
<1>1. jobs'[j] # None => ViewOf(j)' = RowView(jobs'[j], OutcomesOf(j)')
  BY DEF ViewOf, Live, RowView, ViewWith, OutcomesOf
<1>2. jobs'[j] = None => j \notin Live' /\ Rows(j)' = {}
  BY DEF Live, HistoryInv, AttemptRowsComplete, Rows
<1>3. jobs'[j] = None => [a \in AttemptIds |-> OutcomeOf(a, j)]' = Contract!NoAttempts
  BY <1>2 DEF OutcomeOf, Contract!NoAttempts
<1> QED BY <1>1, <1>2, <1>3 DEF ViewOf, Contract!Gone

\* Attempts of which the step does nothing that is seen keep their outcomes.
LEMMA OutcomesKept ==
  ASSUME NEW j, \A a \in AttemptIds : AttemptUnseen(a, j)
  PROVE  OutcomesOf(j)' = OutcomesOf(j)
<1>1. \A a \in AttemptIds : OutcomeOf(a, j)' = OutcomeOf(a, j)
  BY DEF OutcomeOf, AttemptUnseen, Rows
<1> QED BY <1>1 DEF OutcomesOf

\* One attempt changes.
LEMMA OneOutcome ==
  ASSUME NEW j, NEW a \in AttemptIds, \A b \in AttemptIds : b # a => AttemptUnseen(b, j)
  PROVE  OutcomesOf(j)' = [OutcomesOf(j) EXCEPT ![a] = OutcomeOf(a, j)']
<1>1. \A b \in AttemptIds : b # a => OutcomeOf(b, j)' = OutcomeOf(b, j)
  BY DEF OutcomeOf, AttemptUnseen, Rows
<1> QED BY <1>1 DEF OutcomesOf

\* A job whose row and whose attempts stay as they are looks the same.
LEMMA ViewKept ==
  ASSUME NEW j \in JobIds, Same(j), \A a \in AttemptIds : AttemptUnseen(a, j)
  PROVE  ContractStep(j)
<1>1. OutcomesOf(j)' = OutcomesOf(j)
  BY OutcomesKept
<1> QED BY <1>1 DEF ViewOf, Same, Live, OutcomesOf, ContractStep

\* What the contract sees is a view of a job.
LEMMA ViewTypeNext ==
  ASSUME SqliteTypeOK', AttemptsCoded', NEW j \in JobIds
  PROVE  ViewOf(j)' \in Contract!View
<1>1. ASSUME NEW a \in AttemptIds
      PROVE  OutcomeOf(a, j)' \in Contract!AttemptOutcomes \cup {"none", "open"}
  BY DEF OutcomeOf, Contract!AttemptOutcomes, SqliteTypeOK, AttemptRow, AttemptsCoded, ErrorCodes, Rows
<1>2. [a \in AttemptIds |-> OutcomeOf(a, j)]' \in
        [AttemptIds -> Contract!AttemptOutcomes \cup {"none", "open"}]
  BY <1>1
<1>3. j \in Live' => jobs'[j] \in Job
  BY DEF SqliteTypeOK, Live
<1> QED BY <1>2, <1>3 DEF ViewOf, Contract!View, Contract!States, Job, JobStatus

\* A job that is inserted is committed, with no attempt from before: ids that are not in use
\* have none (enqueue, enqueue_in_tx, the next occurrence of mark_succeeded).
LEMMA InsertStep ==
  ASSUME HistoryInv, HistoryInv', NEW id \in JobIds, NEW r, Inserts(id, r), AttemptsKept
  PROVE  ContractStep(id)
<1>1. jobs[id] = None /\ jobs_archive[id] = None /\ jobs'[id] # None
  BY AbsentAssumption DEF Inserts, Unused
<1>2. ViewOf(id) = Contract!Gone("absent") /\ ViewOf(id)' = RowView(jobs'[id], OutcomesOf(id)')
  BY <1>1, ViewFields, ViewFieldsNext
<1>3. Rows(id)' = {}
  BY <1>1, RowsKept, NoRowNoAttempt DEF Live
<1>4. OutcomesOf(id)' = Contract!NoAttempts
  BY <1>3 DEF OutcomesOf, OutcomeOf, Contract!NoAttempts
<1>5. Contract!Commit(ViewOf(id), ViewOf(id)')
  BY <1>2, <1>4 DEF Inserts, Contract!Commit, Contract!Gone, Contract!Queued, RowView, ViewWith
<1> QED BY <1>5 DEF ContractStep, Contract!JobStep

\* The views of a job that has a row before and after a step.
LEMMA RowViews ==
  ASSUME HistoryInv, HistoryInv', NEW j \in Live, jobs'[j] # None
  PROVE  /\ ViewOf(j) = RowView(jobs[j], OutcomesOf(j)) /\ ViewOf(j)' = RowView(jobs'[j], OutcomesOf(j)')
         /\ ViewOf(j).attempt = OutcomesOf(j) /\ ViewOf(j)'.attempt = OutcomesOf(j)'
<1>1. j \in JobIds /\ jobs[j] # None
  BY DEF Live
<1>2. ViewOf(j) = RowView(jobs[j], OutcomesOf(j)) /\ ViewOf(j)' = RowView(jobs'[j], OutcomesOf(j)')
  BY <1>1, ViewFields, ViewFieldsNext
<1> QED BY <1>2 DEF RowView, ViewWith

\* An attempt of the job that is closed, and no other one of it.
LEMMA ClosedOutcome ==
  ASSUME NEW j \in JobIds, NEW a \in Rows(j), NEW s \in {"succeeded", "failed"}, NEW c, Closes(a, s, c),
         \A b \in AttemptIds : b # a => job_attempts'[b] = job_attempts[b]
  PROVE  /\ OutcomesOf(j)[a] = "open"
         /\ OutcomesOf(j)' = [OutcomesOf(j) EXCEPT ![a] = IF s = "succeeded" THEN s ELSE c]
         /\ \A i \in JobIds, b \in AttemptIds : i # j => AttemptUnseen(b, i)
<1>1. a \in AttemptIds /\ a \in Rows(j)'
  BY DEF Rows, Closes
<1>2. OutcomeOf(a, j) = "open" /\ OutcomeOf(a, j)' = IF s = "succeeded" THEN s ELSE c
  BY <1>1 DEF OutcomeOf, Closes
<1>3. OutcomesOf(j)' = [OutcomesOf(j) EXCEPT ![a] = OutcomeOf(a, j)']
  BY <1>1, OneOutcome DEF AttemptUnseen
<1>4. OutcomesOf(j)[a] = OutcomeOf(a, j)
  BY <1>1 DEF OutcomesOf
<1>5. \A i \in JobIds, b \in AttemptIds : i # j => AttemptUnseen(b, i)
  BY <1>1 DEF AttemptUnseen, Rows, Closes
<1> QED BY <1>2, <1>3, <1>4, <1>5

\* A report completes the job, sends it back to its queue or dead-letters it.
LEMMA ReportStep ==
  ASSUME HistoryInv, HistoryInv', NEW j \in JobIds, NEW a \in AttemptIds,
         \/ Reports(j, a, "succeeded", None, "succeeded")
         \/ \E s \in {"queued", "dlq"} : Reports(j, a, "failed", "HANDLER_FAILURE", s)
  PROVE  ContractStep(j) /\ \A i \in JobIds, b \in AttemptIds : i # j => AttemptUnseen(b, i)
<1>1. /\ j \in Live /\ jobs'[j] # None /\ jobs[j].status = "running" /\ a \in Rows(j)
      /\ jobs'[j].locked_by = None /\ jobs'[j].lock_expires_at = None
      /\ \A b \in AttemptIds : b # a => job_attempts'[b] = job_attempts[b]
  BY DEF Reports, Released
<1>2. /\ ViewOf(j) = RowView(jobs[j], OutcomesOf(j)) /\ ViewOf(j)' = RowView(jobs'[j], OutcomesOf(j)')
      /\ ViewOf(j).attempt = OutcomesOf(j) /\ ViewOf(j)'.attempt = OutcomesOf(j)'
  BY <1>1, RowViews
<1>3. /\ ViewOf(j).status = "running" /\ ViewOf(j)'.status = jobs'[j].status
      /\ ViewOf(j)'.holder = None /\ ViewOf(j)'.expiry = None
  BY <1>1, <1>2 DEF RowView, ViewWith
<1>4. CASE Reports(j, a, "succeeded", None, "succeeded")
  <2>1. Closes(a, "succeeded", None) /\ jobs'[j].status = "succeeded"
    BY <1>4 DEF Reports, Released
  <2>2. /\ OutcomesOf(j)[a] = "open" /\ OutcomesOf(j)' = [OutcomesOf(j) EXCEPT ![a] = "succeeded"]
        /\ \A i \in JobIds, b \in AttemptIds : i # j => AttemptUnseen(b, i)
    BY <1>1, <2>1, ClosedOutcome
  <2>3. Contract!Complete(ViewOf(j), ViewOf(j)')
    BY <1>2, <1>3, <2>1, <2>2 DEF Contract!Complete, Contract!Over, Contract!OneAttempt
  <2> QED BY <2>2, <2>3 DEF ContractStep, Contract!JobStep
<1>5. ASSUME NEW s \in {"queued", "dlq"}, Reports(j, a, "failed", "HANDLER_FAILURE", s)
      PROVE  ContractStep(j) /\ \A i \in JobIds, b \in AttemptIds : i # j => AttemptUnseen(b, i)
  <2>1. Closes(a, "failed", "HANDLER_FAILURE") /\ jobs'[j].status = s
    BY <1>5 DEF Reports, Released
  <2>2. /\ OutcomesOf(j)[a] = "open" /\ OutcomesOf(j)' = [OutcomesOf(j) EXCEPT ![a] = "HANDLER_FAILURE"]
        /\ \A i \in JobIds, b \in AttemptIds : i # j => AttemptUnseen(b, i)
    BY <1>1, <2>1, ClosedOutcome
  <2>3. Contract!RetryOrBury(ViewOf(j), ViewOf(j)')
    BY <1>2, <1>3, <1>5, <2>1, <2>2
       DEF Contract!RetryOrBury, Contract!Over, Contract!Queued, Contract!OneAttempt
  <2> QED BY <2>2, <2>3 DEF ContractStep, Contract!JobStep
<1> QED BY <1>4, <1>5

\* Queued work that is cancelled, or that has missed its deadline.
LEMMA QueuedEnds ==
  ASSUME HistoryInv, HistoryInv', NEW j \in JobIds, jobs[j].status = "queued",
         Released(j, "canceled") \/ Released(j, "dlq"), \A a \in AttemptIds : AttemptUnseen(a, j)
  PROVE  ContractStep(j)
<1>1. /\ ViewOf(j) = RowView(jobs[j], OutcomesOf(j)) /\ ViewOf(j)' = RowView(jobs'[j], OutcomesOf(j)')
      /\ ViewOf(j).attempt = OutcomesOf(j) /\ ViewOf(j)'.attempt = OutcomesOf(j)'
  BY RowViews DEF Released
<1>2. ViewOf(j)'.attempt = ViewOf(j).attempt /\ ViewOf(j).status = "queued"
  BY <1>1, OutcomesKept DEF RowView, ViewWith
<1>3. CASE Released(j, "canceled")
  <2>1. Contract!Over(ViewOf(j)', "canceled")
    BY <1>1, <1>3 DEF Released, Contract!Over, RowView, ViewWith
  <2> QED BY <1>2, <2>1 DEF ContractStep, Contract!JobStep, Contract!Cancel
<1>4. CASE Released(j, "dlq")
  <2>1. Contract!Over(ViewOf(j)', "dlq")
    BY <1>1, <1>4 DEF Released, Contract!Over, RowView, ViewWith
  <2> QED BY <1>2, <2>1 DEF ContractStep, Contract!JobStep, Contract!MissDeadline
<1> QED BY <1>3, <1>4

\* The attempt that a cancellation closes is the only one that it closes: two open attempts
\* of a job have different numbers (cancel_job).
LEMMA CancelRunningStep ==
  ASSUME SqliteInv, HistoryInv', NEW j \in JobIds, NEW w \in Workers, NEW t \in Clock, cancel_running_job(j, w, t)
  PROVE  \A i \in JobIds : ContractStep(i)
<1>0. SqliteTypeOK /\ HistoryInv
  BY DEF SqliteInv
<1>1. /\ Released(j, "canceled") /\ jobs[j].status = "running" /\ \A i \in JobIds : i # j => Same(i)
      /\ \A a \in LatestOpen(j) : a \in Rows(j) /\ Closes(a, "failed", "CANCELLED")
      /\ \A a \in AttemptIds : a \notin LatestOpen(j) => job_attempts'[a] = job_attempts[a]
  BY CancelRunningKept
<1>2. /\ ViewOf(j) = RowView(jobs[j], OutcomesOf(j)) /\ ViewOf(j)' = RowView(jobs'[j], OutcomesOf(j)')
      /\ ViewOf(j).attempt = OutcomesOf(j) /\ ViewOf(j)'.attempt = OutcomesOf(j)'
  BY <1>0, <1>1, RowViews DEF Released
<1>3. Contract!Over(ViewOf(j)', "canceled") /\ ViewOf(j).status = "running"
  BY <1>1, <1>2 DEF Released, Contract!Over, RowView, ViewWith
<1>4. CASE LatestOpen(j) = {}
  <2>1. \A i \in JobIds, a \in AttemptIds : AttemptUnseen(a, i)
    BY <1>1, <1>4 DEF AttemptUnseen
  <2>2. ViewOf(j)'.attempt = ViewOf(j).attempt
    BY <1>2, <2>1, OutcomesKept
  <2>3. Contract!Cancel(ViewOf(j), ViewOf(j)')
    BY <1>3, <2>2 DEF Contract!Cancel
  <2>4. \A i \in JobIds : i # j => ContractStep(i)
    BY <1>1, <2>1, ViewKept
  <2> QED BY <2>3, <2>4 DEF ContractStep, Contract!JobStep
<1>5. ASSUME NEW a \in LatestOpen(j) PROVE \A i \in JobIds : ContractStep(i)
  <2>1. a \in Rows(j) /\ Closes(a, "failed", "CANCELLED") /\ a \in AttemptIds
    BY <1>1 DEF Rows
  <2>2. LatestOpen(j) = {a}
    <3> SUFFICES ASSUME NEW b \in LatestOpen(j) PROVE b = a
      OBVIOUS
    <3>1. b \in Rows(j) /\ j \in Live
      BY <1>1 DEF Released
    <3>2. /\ job_attempts[a].attempt_no <= job_attempts[b].attempt_no
          /\ job_attempts[b].attempt_no <= job_attempts[a].attempt_no
      BY DEF LatestOpen
    <3>3. job_attempts[a].attempt_no \in Nat /\ job_attempts[b].attempt_no \in Nat
      BY <1>0, <2>1, <3>1 DEF SqliteTypeOK, AttemptRow, Rows
    <3>4. job_attempts[a].attempt_no = job_attempts[b].attempt_no
      BY <3>2, <3>3
    <3> QED BY <1>0, <2>1, <3>1, <3>4, NumbersDiffer
  <2>3. \A b \in AttemptIds : b # a => job_attempts'[b] = job_attempts[b]
    BY <1>1, <2>2
  <2>4. /\ OutcomesOf(j)[a] = "open" /\ OutcomesOf(j)' = [OutcomesOf(j) EXCEPT ![a] = "CANCELLED"]
        /\ \A i \in JobIds, b \in AttemptIds : i # j => AttemptUnseen(b, i)
    BY <2>1, <2>3, ClosedOutcome
  <2>5. Contract!Cancel(ViewOf(j), ViewOf(j)')
    BY <1>2, <1>3, <2>1, <2>4 DEF Contract!Cancel, Contract!OneAttempt
  <2>6. \A i \in JobIds : i # j => ContractStep(i)
    BY <1>1, <2>4, ViewKept
  <2> QED BY <2>5, <2>6 DEF ContractStep, Contract!JobStep
<1> QED BY <1>4, <1>5

\* What a lease does to a job (lease_jobs_batch_with_ordering).
LEMMA LeaseStep ==
  ASSUME HistoryInv, HistoryInv', QueuedIsFree, NEW j \in JobIds, NEW w \in Workers, LeasedTo(j, w),
         \A a \in AttemptIds : AttemptUnseen(a, j)
  PROVE  ContractStep(j)
<1>1. /\ ViewOf(j) = RowView(jobs[j], OutcomesOf(j)) /\ ViewOf(j)' = RowView(jobs'[j], OutcomesOf(j))
      /\ j \in Live /\ jobs[j].status = "queued" /\ jobs[j].run_at <= now
  BY RowViews, OutcomesKept DEF LeasedTo
<1>2. jobs[j].locked_by = None /\ jobs[j].lock_expires_at = None
  BY <1>1 DEF QueuedIsFree
<1>3. PICK e \in Instants : e = jobs'[j].lock_expires_at
  BY DEF LeasedTo
<1>4. jobs'[j].status = "running" /\ jobs'[j].locked_by = w /\ jobs'[j].run_at = jobs[j].run_at
  BY DEF LeasedTo
<1> DEFINE View(status, holder, expiry) == ViewWith(status, holder, expiry, jobs[j].run_at, OutcomesOf(j))
<1>5. ViewOf(j) = View("queued", None, None)
  BY <1>1, <1>2, Zenon DEF RowView
<1>6. ViewOf(j)' = View("running", w, e)
  BY <1>1, <1>3, <1>4, Zenon DEF RowView
<1>7. [View("queued", None, None) EXCEPT !.status = "running"] = View("running", None, None)
  BY DEF ViewWith
<1>8. [View("running", None, None) EXCEPT !.holder = w] = View("running", w, None)
  BY DEF ViewWith
<1>9. [View("running", w, None) EXCEPT !.expiry = e] = View("running", w, e)
  BY DEF ViewWith
<1>10. View("queued", None, None).status = "queued" /\ View("queued", None, None).run_at <= now
  BY <1>1 DEF ViewWith
<1> HIDE DEF View
<1>11. ViewOf(j)' = [ViewOf(j) EXCEPT !.status = "running", !.holder = w, !.expiry = e]
  BY <1>5, <1>6, <1>7, <1>8, <1>9, Zenon
<1>12. ViewOf(j).status = "queued" /\ ViewOf(j).run_at <= now
  BY <1>5, <1>10
<1>13. Contract!Lease(ViewOf(j), ViewOf(j)')
  BY <1>11, <1>12 DEF Contract!Lease
<1> QED BY <1>13 DEF ContractStep, Contract!JobStep

\* What an extension does to the job (extend_lease).
LEMMA ExtendStep ==
  ASSUME SqliteInv, HistoryInv', NEW j \in JobIds, NEW w \in Workers, NEW t \in Clock, extend_lease(j, w, t)
  PROVE  \A i \in JobIds : ContractStep(i)
<1>1. /\ UNCHANGED job_attempts /\ \A i \in JobIds : i # j => Same(i)
      /\ j \in Live /\ jobs[j].status = "running" /\ jobs'[j] # None
      /\ jobs'[j].status = jobs[j].status /\ jobs'[j].locked_by = jobs[j].locked_by
      /\ jobs'[j].run_at = jobs[j].run_at /\ jobs'[j].lock_expires_at \in Instants
  BY ExtendKept
<1>2. \A i \in JobIds, a \in AttemptIds : AttemptUnseen(a, i)
  BY <1>1 DEF AttemptUnseen
<1>3. HistoryInv
  BY DEF SqliteInv
<1>4. ViewOf(j) = RowView(jobs[j], OutcomesOf(j)) /\ ViewOf(j)' = RowView(jobs'[j], OutcomesOf(j))
  BY <1>1, <1>2, <1>3, RowViews, OutcomesKept
<1>5. PICK e \in Instants : e = jobs'[j].lock_expires_at
  BY <1>1
<1>6. ViewOf(j)' = [ViewOf(j) EXCEPT !.expiry = e] /\ ViewOf(j)'.expiry = e /\ ViewOf(j).status = "running"
  BY <1>1, <1>4, <1>5 DEF RowView, ViewWith
<1>7. Contract!Extend(ViewOf(j), ViewOf(j)')
  BY <1>6 DEF Contract!Extend
<1>8. \A i \in JobIds : i # j => ContractStep(i)
  BY <1>1, <1>2, ViewKept
<1> QED BY <1>7, <1>8 DEF ContractStep, Contract!JobStep

\* A lease is taken back only after it has run out, and every attempt that it left open is
\* closed (reap_expired_locks).
LEMMA ReapStep ==
  ASSUME SqliteInv, HistoryInv', NEW t \in Clock, reap_expired_locks(t), NEW j \in JobIds
  PROVE  ContractStep(j)
<1>0. SqliteTypeOK /\ HistoryInv
  BY DEF SqliteInv
<1>1. /\ \A i \in JobIds : i \notin ExpiredLocks(t) => Same(i)
      /\ \A i \in ExpiredLocks(t) :
           /\ Released(i, "queued") /\ jobs'[i].run_at = jobs[i].run_at
           /\ jobs[i].status = "running" /\ jobs[i].lock_expires_at <= now
      /\ \A a \in AttemptIds, i \in ExpiredLocks(t) : OpenAttempt(a, i) => Closes(a, "failed", "LEASE_EXPIRED")
      /\ \A a \in AttemptIds :
           (~ \E i \in ExpiredLocks(t) : OpenAttempt(a, i)) => job_attempts'[a] = job_attempts[a]
  BY ReapKept
<1>2. ASSUME NEW a \in AttemptIds, ~ (j \in ExpiredLocks(t) /\ OpenAttempt(a, j))
      PROVE  AttemptUnseen(a, j)
  <2>1. CASE \E i \in ExpiredLocks(t) : OpenAttempt(a, i)
    <3>1. PICK i \in ExpiredLocks(t) : OpenAttempt(a, i)
      BY <2>1
    <3>2. i # j /\ Closes(a, "failed", "LEASE_EXPIRED") /\ a \in Rows(i)
      BY <1>1, <1>2, <3>1 DEF OpenAttempt
    <3> QED BY <3>2 DEF Closes, Rows, AttemptUnseen
  <2>2. CASE ~ \E i \in ExpiredLocks(t) : OpenAttempt(a, i)
    BY <1>1, <2>2 DEF AttemptUnseen
  <2> QED BY <2>1, <2>2
<1>3. CASE j \notin ExpiredLocks(t)
  BY <1>1, <1>2, <1>3, ViewKept
<1>4. CASE j \in ExpiredLocks(t)
  <2>1. /\ Released(j, "queued") /\ jobs'[j].run_at = jobs[j].run_at
        /\ jobs[j].status = "running" /\ jobs[j].lock_expires_at <= now
    BY <1>1, <1>4
  <2>2. /\ ViewOf(j) = RowView(jobs[j], OutcomesOf(j)) /\ ViewOf(j)' = RowView(jobs'[j], OutcomesOf(j)')
        /\ ViewOf(j).attempt = OutcomesOf(j) /\ ViewOf(j)'.attempt = OutcomesOf(j)'
    BY <1>0, <2>1, RowViews DEF Released
  <2>3. ASSUME NEW a \in AttemptIds
        PROVE  OutcomeOf(a, j)' = IF OutcomeOf(a, j) = "open" THEN "LEASE_EXPIRED" ELSE OutcomeOf(a, j)
    <3>1. CASE OpenAttempt(a, j)
      <4>1. Closes(a, "failed", "LEASE_EXPIRED") /\ a \in Rows(j)
        BY <1>1, <1>4, <3>1 DEF OpenAttempt
      <4>2. a \in Rows(j)'
        BY <4>1 DEF Rows, Closes
      <4> QED BY <4>1, <4>2 DEF OutcomeOf, Closes
    <3>2. CASE ~ OpenAttempt(a, j)
      <4>1. OutcomeOf(a, j)' = OutcomeOf(a, j)
        BY <1>2, <3>2 DEF AttemptUnseen, OutcomeOf, Rows
      <4>2. OutcomeOf(a, j) # "open"
        <5>1. job_attempts[a] # None => job_attempts[a] \in AttemptRow
          BY <1>0 DEF SqliteTypeOK
        <5> QED BY <1>0, <3>2, <5>1 DEF OutcomeOf, OpenAttempt, Rows, AttemptRow, ErrorCodes, HistoryInv, AttemptsCoded
      <4> QED BY <4>1, <4>2
    <3> QED BY <3>1, <3>2
  <2>4. OutcomesOf(j)' = [a \in AttemptIds |-> IF OutcomesOf(j)[a] = "open" THEN "LEASE_EXPIRED"
                                                                        ELSE OutcomesOf(j)[a]]
    BY <2>3 DEF OutcomesOf
  <2>5. /\ ViewOf(j).status = "running" /\ ViewOf(j).expiry <= now
        /\ Contract!Queued(ViewOf(j)') /\ ViewOf(j)'.run_at = ViewOf(j).run_at
    BY <2>1, <2>2 DEF Released, Contract!Queued, RowView, ViewWith
  <2> QED BY <2>2, <2>4, <2>5 DEF ContractStep, Contract!JobStep, Contract!Recover
<1> QED BY <1>3, <1>4

\* Each job of a batch gets one open attempt, under an id that had none (start_attempts_batch).
LEMMA StartStep ==
  ASSUME SqliteInv, HistoryInv', NEW w \in Workers, NEW js \in Batches, start_attempts_batch(js, w), NEW j \in JobIds
  PROVE  ContractStep(j)
<1>0. HistoryInv
  BY DEF SqliteInv
<1>1. StartEffect /\ Same(j)
  BY StartKept
<1>2. \A b \in AttemptIds : ~ Starts(b, j) => AttemptUnseen(b, j)
  <2> SUFFICES ASSUME NEW b \in AttemptIds, ~ Starts(b, j) PROVE AttemptUnseen(b, j)
    OBVIOUS
  <2>1. CASE job_attempts'[b] = job_attempts[b]
    BY <2>1 DEF AttemptUnseen
  <2>2. ASSUME NEW i \in JobIds, Starts(b, i) PROVE AttemptUnseen(b, j)
    BY <2>2 DEF Starts, AttemptUnseen, Rows
  <2> QED BY <1>1, <2>1, <2>2 DEF StartEffect
<1>3. CASE ~ \E a \in AttemptIds : Starts(a, j)
  BY <1>1, <1>2, <1>3, ViewKept
<1>4. ASSUME NEW a \in AttemptIds, Starts(a, j) PROVE ContractStep(j)
  <2>1. \A b \in AttemptIds : b # a => AttemptUnseen(b, j)
    BY <1>1, <1>2, <1>4 DEF StartEffect
  <2>2. OutcomeOf(a, j) = "none" /\ OutcomeOf(a, j)' = "open"
    BY <1>4 DEF OutcomeOf, Starts, Rows
  <2>3. OutcomesOf(j)' = [OutcomesOf(j) EXCEPT ![a] = "open"] /\ OutcomesOf(j)[a] = "none"
    BY <2>1, <2>2, OneOutcome DEF OutcomesOf
  <2>4. j \in Live /\ jobs[j].status = "running" /\ jobs'[j] = jobs[j] /\ jobs'[j] # None
    BY <1>1, <1>4 DEF Starts, Same, Live
  <2>5. /\ ViewOf(j) = RowView(jobs[j], OutcomesOf(j)) /\ ViewOf(j)' = RowView(jobs[j], OutcomesOf(j)')
        /\ ViewOf(j).attempt = OutcomesOf(j) /\ ViewOf(j)'.attempt = OutcomesOf(j)'
    BY <1>0, <2>4, RowViews
  <2>6. Contract!OneAttempt(ViewOf(j), ViewOf(j)', "none", "open")
    BY <2>3, <2>5 DEF Contract!OneAttempt
  <2>7. ViewOf(j)' = [ViewOf(j) EXCEPT !.attempt = ViewOf(j)'.attempt] /\ ViewOf(j).status = "running"
    BY <2>4, <2>5 DEF RowView, ViewWith
  <2> QED BY <2>6, <2>7 DEF ContractStep, Contract!JobStep, Contract!StartAttempt
<1> QED BY <1>3, <1>4

\* A job that goes to the archive takes its attempts out of sight.
LEMMA ArchiveStep ==
  ASSUME HistoryInv, HistoryInv', NEW j \in JobIds, Archives(j)
  PROVE  ContractStep(j)
<1>1. jobs[j] # None /\ jobs[j].status = "succeeded" /\ jobs'[j] = None /\ jobs_archive'[j] # None
  BY AbsentAssumption DEF Archives, Live
<1>2. ViewOf(j).status = "succeeded" /\ ViewOf(j)' = Contract!Gone("archived")
  BY <1>1, ViewFields, ViewFieldsNext DEF RowView, ViewWith
<1> QED BY <1>2 DEF ContractStep, Contract!JobStep, Contract!Archived

\* Whatever an operation does, each job makes a step of the contract or none.
LEMMA EveryStepIsContractStep ==
  ASSUME SqliteInv, SqliteInv', [SqliteNext]_sqliteVars, NEW i \in JobIds
  PROVE  ContractStep(i)
<1>0. HistoryInv /\ HistoryInv' /\ QueuedIsFree
  BY DEF SqliteInv, RowInv
<1>1. ASSUME UNCHANGED job_attempts PROVE \A a \in AttemptIds : AttemptUnseen(a, i)
  BY <1>1 DEF AttemptUnseen
<1>2. ASSUME NEW nj \in NewJobs, NEW id \in Unused, NEW t \in Clock, enqueue(nj, id, t) \/ enqueue_in_tx(nj, id, t)
      PROVE  ContractStep(i)
  <2>1. PICK new : enqueue_in_tx(new, id, t)
    BY <1>2, Zenon DEF enqueue
  <2>2. UNCHANGED job_attempts
    BY <2>1 DEF enqueue_in_tx
  <2>3. AttemptsKept /\ Inserts(id, None) /\ \A k \in JobIds : k # id => Same(k)
    BY <1>2, EnqueueEffect
  <2>4. CASE i = id
    BY <1>0, <2>3, <2>4, InsertStep
  <2>5. CASE i # id
    BY <1>1, <2>2, <2>3, <2>5, ViewKept
  <2> QED BY <2>4, <2>5
<1>3. ASSUME NEW t \in Clock, NEW j \in JobIds, cancel_queued_job(j, t) PROVE ContractStep(i)
  <2>1. /\ UNCHANGED job_attempts /\ Released(j, "canceled") /\ jobs[j].status = "queued"
        /\ \A k \in JobIds : k # j => Same(k)
    BY <1>3, CancelQueuedKept
  <2> QED BY <1>0, <1>1, <2>1, QueuedEnds, ViewKept
<1>4. ASSUME NEW t \in Clock, NEW w \in Workers, NEW q \in Queues, NEW n \in BatchSizes, NEW o \in Orderings,
             lease_jobs_batch_with_ordering(q, w, n, o, t)
      PROVE  ContractStep(i)
  <2>1. /\ UNCHANGED job_attempts
        /\ Same(i) \/ LeasedTo(i, w) \/ (Released(i, "dlq") /\ jobs[i].status = "queued")
    BY <1>4, LeaseKept
  <2> QED BY <1>0, <1>1, <2>1, ViewKept, LeaseStep, QueuedEnds
<1>5. ASSUME NEW t \in Clock, NEW w \in Workers, NEW j \in JobIds, NEW a \in AttemptIds,
             \/ mark_succeeded_once(j, a, w, t)
             \/ \E d \in RetryDelays : reschedule_for_retry(j, a, w, At(t + d), t)
             \/ \E reason \in DlqReasons : mark_dlq(j, a, w, reason, t)
      PROVE  ContractStep(i)
  <2>1. /\ \/ Reports(j, a, "succeeded", None, "succeeded")
           \/ \E s \in {"queued", "dlq"} : Reports(j, a, "failed", "HANDLER_FAILURE", s)
        /\ \A k \in JobIds : k # j => Same(k)
    <3>1. ASSUME NEW d \in RetryDelays, reschedule_for_retry(j, a, w, At(t + d), t)
          PROVE  Reports(j, a, "failed", "HANDLER_FAILURE", "queued") /\ \A k \in JobIds : k # j => Same(k)
      <4>1. t + d \in Nat
        BY ClockIsPast, SqliteAssumption DEF SqliteInv
      <4>2. PICK e \in Instants : e = At(t + d)
        BY <4>1, AtIsInstant
      <4>3. reschedule_for_retry(j, a, w, e, t)
        BY <3>1, <4>2, Zenon
      <4> QED BY <4>3, RetryKept
    <3> QED BY <1>5, <3>1, SucceedKept, DlqKept
  <2>2. ContractStep(j) /\ \A k \in JobIds, b \in AttemptIds : k # j => AttemptUnseen(b, k)
    BY <1>0, <2>1, ReportStep
  <2> QED BY <2>1, <2>2, ViewKept
<1>6. ASSUME NEW t \in Clock, NEW w \in Workers, NEW j \in JobIds, NEW a \in AttemptIds, NEW id \in Unused,
             mark_succeeded_recurring(j, a, w, id, t)
      PROVE  ContractStep(i)
  <2>1. /\ Reports(j, a, "succeeded", None, "succeeded") /\ Inserts(id, j) /\ id # j /\ id \in JobIds
        /\ \A k \in JobIds : k # j /\ k # id => Same(k)
    BY <1>6, RecurKept DEF Unused
  <2>2. ContractStep(j) /\ \A k \in JobIds, b \in AttemptIds : k # j => AttemptUnseen(b, k)
    BY <1>0, <2>1, ReportStep
  <2>3. ContractStep(id)
    BY <1>0, <2>1, InsertStep DEF Reports
  <2> QED BY <2>1, <2>2, <2>3, ViewKept
<1>7. ASSUME NEW cutoff \in Cutoffs, NEW limit \in BatchSizes, archive_succeeded_older_than(cutoff, limit)
      PROVE  ContractStep(i)
  <2>1. Archives(i) \/ (Same(i) /\ \A a \in AttemptIds : AttemptUnseen(a, i))
    BY <1>7, ArchiveKept DEF AttemptUnseen
  <2> QED BY <1>0, <2>1, ArchiveStep, ViewKept
<1>8. CASE SqliteTick \/ UNCHANGED sqliteVars
  <2>1. Same(i) /\ UNCHANGED job_attempts
    BY <1>8 DEF SqliteTick, sqliteVars, Same
  <2> QED BY <1>1, <2>1, ViewKept
<1>9. ASSUME NEW t \in Clock, NEW w \in Workers, SqliteWork(w, t) PROVE ContractStep(i)
  BY <1>0, <1>4, <1>5, <1>6, <1>9, ExtendStep, CancelRunningStep DEF SqliteWork
<1> QED BY <1>0, <1>2, <1>3, <1>7, <1>8, <1>9, ReapStep, StartStep DEF SqliteNext

\* No operation sets the clock back.
LEMMA ClockSteps ==
  ASSUME [SqliteNext]_sqliteVars
  PROVE  now' = now \/ now' = now + 1
<1>1. CASE SqliteTick \/ UNCHANGED sqliteVars
  BY <1>1 DEF SqliteTick, sqliteVars
<1>2. ASSUME NEW t, \E nj \in NewJobs, id \in Unused : enqueue(nj, id, t) \/ enqueue_in_tx(nj, id, t)
      PROVE  now' = now
  <2>1. PICK new, id : enqueue_in_tx(new, id, t)
    BY <1>2, Zenon DEF enqueue
  <2> QED BY <2>1, Zenon DEF enqueue_in_tx
<1>3. ASSUME NEW t, NEW w, SqliteWork(w, t) PROVE now' = now
  <2>1. CASE \E q \in Queues, n \in BatchSizes, o \in Orderings : lease_jobs_batch_with_ordering(q, w, n, o, t)
    BY <2>1, Zenon DEF lease_jobs_batch_with_ordering
  <2>2. CASE \E j \in JobIds : extend_lease(j, w, t) \/ cancel_running_job(j, w, t)
    BY <2>2, Zenon DEF extend_lease, cancel_running_job
  <2>3. CASE \E j \in JobIds, a \in AttemptIds :
               \/ mark_succeeded_once(j, a, w, t)
               \/ \E id \in Unused : mark_succeeded_recurring(j, a, w, id, t)
               \/ \E d \in RetryDelays : reschedule_for_retry(j, a, w, At(t + d), t)
               \/ \E reason \in DlqReasons : mark_dlq(j, a, w, reason, t)
    BY <2>3, Zenon DEF mark_succeeded_once, mark_succeeded_recurring, reschedule_for_retry, mark_dlq
  <2> QED BY <1>3, <2>1, <2>2, <2>3 DEF SqliteWork
<1>4. ASSUME NEW t, (\E j \in JobIds : cancel_queued_job(j, t)) \/ reap_expired_locks(t) PROVE now' = now
  BY <1>4, Zenon DEF cancel_queued_job, reap_expired_locks
<1>5. CASE \/ \E w \in Workers, js \in Batches : start_attempts_batch(js, w)
           \/ \E cutoff \in Cutoffs, limit \in BatchSizes : archive_succeeded_older_than(cutoff, limit)
  BY <1>5, Zenon DEF start_attempts_batch, archive_succeeded_older_than
<1> QED BY <1>1, <1>2, <1>3, <1>4, <1>5 DEF SqliteNext

\* The SQLite backend implements the contract of JobContract, for every set of jobs, workers
\* and inputs, every sequence of calls and every lag of their clocks: every operation of
\* StorageBackend is, for each job, a step of the contract or none.
THEOREM SqliteImplementsContract == SqliteSpec => SqliteKeepsContract
<1>1. SqliteInit => Contract!ContractInit
  <2> SUFFICES ASSUME SqliteInit PROVE Contract!ContractInit
    OBVIOUS
  <2>1. HistoryInv
    BY InitEstablishesInv DEF SqliteInv
  <2>2. \A j \in JobIds : ViewOf(j) = Contract!Gone("absent")
    BY <2>1, ViewFields DEF SqliteInit
  <2>3. now \in Instants
    BY SqliteAssumption DEF SqliteInit, Instants
  <2> QED BY <2>2, <2>3 DEF Contract!ContractInit
<1>2. SqliteInv /\ SqliteInv' /\ [SqliteNext]_sqliteVars
        => [Contract!ContractNext]_<<now, [j \in JobIds |-> ViewOf(j)]>>
  <2> SUFFICES ASSUME SqliteInv, SqliteInv', [SqliteNext]_sqliteVars PROVE Contract!ContractNext
    OBVIOUS
  <2>1. now' \in Instants /\ now' >= now
    <3>1. now \in Nat /\ now' \in Instants
      BY SqliteAssumption DEF SqliteInv, SqliteTypeOK, Instants
    <3>2. now' = now \/ now' = now + 1
      BY ClockSteps
    <3> QED BY <3>1, <3>2
  <2>2. \A j \in JobIds : ViewOf(j)' \in Contract!View /\ ContractStep(j)
    BY ViewTypeNext, EveryStepIsContractStep DEF SqliteInv, HistoryInv
  <2> QED BY <2>1, <2>2 DEF ContractStep, Contract!ContractNext
<1> QED BY <1>1, <1>2, SqliteInvHolds, PTL DEF SqliteSpec, SqliteKeepsContract, Contract!ContractSpec
=============================================================================
