------------------------- MODULE PostgresWorker_proofs -------------------------
(***************************************************************************)
(* What holds of the worker processes on Postgres for every number of      *)
(* jobs, attempts, workers and clients, every policy, batch size and       *)
(* number of crashes, wherever between two transactions a process dies,    *)
(* loses its leases or is overtaken.                                       *)
(*                                                                         *)
(* Nothing compares the attempt when a worker acknowledges or dead-letters *)
(* a job: that it acts on the latest attempt follows from the numbers.     *)
(* The numbers of a job have no gap (Numbered), an INSERT that still waits *)
(* read a number no higher than the one that the holder of the lease has   *)
(* or has read (StaleNumbers), so it fails on the unique constraint.       *)
(***************************************************************************)
EXTENDS PostgresWorker, PostgresRepo_proofs

Open(s) == tx[s] # None

TxIs(s, kind) == tx[s] # None /\ tx[s].kind = kind

\* The worker has attempts for its batch.
Handles(w) == pc[w] \in {"handling", "finishing", "marking", "failing", "settling"}

----------------------------------------------------------------------------
(* The inductive invariant                                                  *)

LocksExclusive ==
  \A s, o \in Sessions : s # o /\ Open(s) /\ Open(o) => tx[s].rows \cap tx[o].rows = {}

\* What is locked is there, and an attempt that is locked is open; a lease is put off by
\* a policy only.
LockedStays(s) ==
  Open(s) => /\ tx[s].rows \subseteq Rows
             /\ tx[s].closing \subseteq OpenAttempts(tx[s].rows)
             /\ tx[s].kind = "lease" => tx[s].reason = None \/ Policy # None

\* The transaction that a worker has open, by where it is.
TxOf(w) ==
  /\ pc[w] = "reaping" => TxIs(w, "reap")
  /\ pc[w] = "leasing" => TxIs(w, "lease")
  /\ pc[w] = "starting" => TxIs(w, "start")
  /\ pc[w] \notin {"reaping", "leasing", "starting"} => tx[w] = None

\* Its attempt of a job of its batch: succeeded from the first transaction of
\* on_success_batch to the second one, and otherwise not.
HasAttempt(w, j) ==
  LET a == work[w][j].attempt
  IN  /\ a \in AttemptsOf(j) /\ job_attempts[a].worker_id = w
      /\ job_attempts[a].status = "succeeded" <=> (pc[w] = "marking" /\ work[w][j].outcome = "ok")

WorkInv(w) ==
  /\ Batch(w) \subseteq Rows
  /\ pc[w] \notin {"leased", "starting"} /\ ~ Handles(w) => Batch(w) = {}
  /\ Handles(w) => \A j \in Batch(w) : HasAttempt(w, j)
  /\ pc[w] \in {"finishing", "marking"} => \A j \in Batch(w) : work[w][j].outcome \in HandlerOutcomes
  /\ pc[w] \in {"failing", "settling"} =>
       \A j \in Batch(w) : work[w][j].outcome \in HandlerOutcomes \ {"ok"}
  /\ pc[w] = "settling" => current[w] \in Batch(w)

NumbersUpTo(j, n) == \A m \in 1 .. n : \E a \in AttemptsOf(j) : job_attempts[a].attempt_no = m

\* The numbers that an open INSERT has read follow numbers that are there.
NumbersRead(w) ==
  TxIs(w, "start") =>
    /\ tx[w].joined \subseteq Batch(w)
    /\ \A j \in tx[w].joined : tx[w].numbers[j] \in Nat \ {0} /\ NumbersUpTo(j, tx[w].numbers[j] - 1)

SessionInv(s) ==
  /\ LockedStays(s)
  /\ s \in Workers => TxOf(s) /\ WorkInv(s) /\ NumbersRead(s)
  /\ s \in Clients => (Open(s) => TxIs(s, "cancel") /\ tx[s].job \in Rows)

\* job_attempts.job_id REFERENCES jobs; the numbers of a job have no gap.
Numbered ==
  \A a \in Recorded :
    /\ job_attempts[a].job_id \in Rows
    /\ job_attempts[a].attempt_no \in Nat \ {0}
    /\ NumbersUpTo(job_attempts[a].job_id, job_attempts[a].attempt_no)

\* The holder v of a lease has read, or has, a number no lower than what any other
\* worker w has read.
StaleNumbers ==
  \A w, v \in Workers : \A j \in JobIds :
    w # v /\ TxIs(w, "start") /\ j \in tx[w].joined /\ Leased(j, v) =>
      /\ TxIs(v, "start") /\ j \in tx[v].joined => tx[w].numbers[j] <= tx[v].numbers[j]
      /\ Handles(v) /\ j \in Batch(v) => tx[w].numbers[j] <= job_attempts[work[v][j].attempt].attempt_no

WorkIsFunction == work = [w \in Workers |-> work[w]]

WorkerInv ==
  /\ WorkerTypeOK /\ WorkIsFunction /\ IsFiniteSet(Rows)
  /\ LocksExclusive /\ \A s \in Sessions : SessionInv(s)
  /\ Numbered /\ AttemptNosIncrease /\ StaleNumbers
  /\ HolderHasLatestAttempt /\ AckedHasAttempt

----------------------------------------------------------------------------
(* What a step of a session may do                                          *)

\* Other sessions stay as they are.
Frame(s) ==
  /\ \A v \in Workers \ {s} : pc'[v] = pc[v] /\ work'[v] = work[v] /\ current'[v] = current[v]
  /\ \A o \in Sessions \ {s} : tx'[o] = tx[o]

\* Rows stay, finished work stays finished and is acknowledged with a succeeded attempt;
\* nobody else gets a lease, and one who does has no attempt yet.
RowsStay(s) ==
  /\ jobs' \in [JobIds -> Job \cup {None}]
  /\ Rows \subseteq Rows' /\ IsFiniteSet(Rows')
  /\ \A j \in JobIds, v \in Workers : Leased(j, v)' => Leased(j, v) \/ (v = s /\ ~ Handles(s)')
  /\ \A j \in Rows : jobs[j].status \in Terminal => jobs'[j].status \in Terminal
  /\ \A j \in Rows' : jobs'[j].status = "succeeded" =>
       \/ j \in Rows /\ jobs[j].status = "succeeded"
       \/ \E a \in AttemptsOf(j) : job_attempts'[a] # None /\ job_attempts'[a].job_id = j
                                   /\ job_attempts'[a].status = "succeeded"

\* Attempts stay and keep their job, number and worker, succeeded ones stay succeeded,
\* those of others do not become so, and those that others have locked are as they were.
AttemptsStay(s) ==
  /\ job_attempts' \in [AttemptIds -> Attempt \cup {None}]
  /\ \A a \in Recorded :
       /\ job_attempts'[a] # None
       /\ job_attempts'[a].job_id = job_attempts[a].job_id
       /\ job_attempts'[a].attempt_no = job_attempts[a].attempt_no
       /\ job_attempts'[a].worker_id = job_attempts[a].worker_id
       /\ job_attempts[a].status = "succeeded" => job_attempts'[a].status = "succeeded"
       /\ job_attempts'[a].status = "succeeded" =>
            job_attempts[a].status = "succeeded" \/ job_attempts[a].worker_id = s
       /\ a \in ClosedByOthers(s) => job_attempts'[a] = job_attempts[a]

\* The session has attempts only for work it had attempts for.
WorkStays(s) ==
  s \in Workers /\ Handles(s)' =>
    /\ Handles(s)
    /\ Batch(s)' \subseteq Batch(s)
    /\ \A j \in Batch(s)' : work'[s][j].attempt = work[s][j].attempt

\* Nothing that is finished becomes active again.
StaysFinished == \A j \in Rows : jobs[j].status \in Terminal => jobs'[j].status \in Terminal

\* The rows that the session has locked now are its own.
LocksOwn(s) == s \in Sessions /\ tx'[s] # None => tx'[s].rows \cap HeldByOthers(s) = {}

----------------------------------------------------------------------------
(* What follows of such a step                                              *)

\* What is known of the types.
LEMMA Types ==
  ASSUME WorkerInv
  PROVE  /\ jobs \in [JobIds -> Job \cup {None}] /\ job_attempts \in [AttemptIds -> Attempt \cup {None}]
         /\ \A j \in Rows : j \in JobIds /\ jobs[j] \in Job
         /\ \A a \in Recorded : a \in AttemptIds /\ job_attempts[a] \in Attempt
         /\ \A s \in Sessions : Open(s) => /\ tx[s] \in LeaseTx \cup ReapTx \cup StartTx \cup CancelTx
                                         /\ tx[s].rows \in SUBSET JobIds /\ tx[s].closing \in SUBSET AttemptIds
                                         /\ tx[s].at \in Instants
         /\ now \in Instants
<1>1. PgTypeOK
  BY DEF WorkerInv, WorkerTypeOK
<1>2. ASSUME NEW s \in Sessions, Open(s)
      PROVE  /\ tx[s] \in LeaseTx \cup ReapTx \cup StartTx \cup CancelTx
             /\ tx[s].rows \in SUBSET JobIds /\ tx[s].closing \in SUBSET AttemptIds
             /\ tx[s].at \in Instants
  <2>1. tx[s] \in LeaseTx \cup ReapTx \cup StartTx \cup CancelTx
    BY <1>1, <1>2 DEF PgTypeOK, Open
  <2> QED BY <2>1 DEF LeaseTx, ReapTx, StartTx, CancelTx
<1> QED BY <1>1, <1>2 DEF PgTypeOK, Rows, Recorded

\* Attempts that are there stay those of their job.
LEMMA AttemptsOfStay ==
  ASSUME WorkerInv, NEW s, AttemptsStay(s)
  PROVE  /\ Recorded \subseteq Recorded'
         /\ \A j : AttemptsOf(j) \subseteq AttemptsOf(j)'
         /\ \A j, n : NumbersUpTo(j, n) => NumbersUpTo(j, n)'
<1>1. Recorded \subseteq Recorded'
  BY DEF AttemptsStay, Recorded
<1>2. \A j : \A a \in AttemptsOf(j) : a \in AttemptsOf(j)' /\ job_attempts'[a].attempt_no = job_attempts[a].attempt_no
  BY <1>1 DEF AttemptsStay, AttemptsOf
<1> QED BY <1>1, <1>2 DEF NumbersUpTo

\* Other sessions find everything as it was.
LEMMA OthersStay ==
  ASSUME WorkerInv, NEW s, Frame(s), RowsStay(s), AttemptsStay(s), NEW o \in Sessions \ {s}
  PROVE  SessionInv(o)'
<1>1. SessionInv(o) /\ tx'[o] = tx[o] /\ Rows \subseteq Rows'
  BY DEF WorkerInv, Frame, RowsStay
<1>2. /\ Recorded \subseteq Recorded' /\ \A j : AttemptsOf(j) \subseteq AttemptsOf(j)'
      /\ \A j, n : NumbersUpTo(j, n) => NumbersUpTo(j, n)'
  BY AttemptsOfStay
<1>3. LockedStays(o)'
  <2> SUFFICES ASSUME Open(o) PROVE LockedStays(o)'
    BY <1>1 DEF LockedStays, Open
  <2>1. tx[o].closing \subseteq OpenAttempts(tx[o].rows) /\ tx[o].closing \subseteq ClosedByOthers(s)
    BY <1>1 DEF SessionInv, LockedStays, ClosedByOthers, Open
  <2>2. \A a \in tx[o].closing : a \in OpenAttempts(tx[o].rows)'
    BY <1>1, <1>2, <2>1 DEF OpenAttempts, AttemptsStay
  <2> QED BY <1>1, <2>2 DEF SessionInv, LockedStays, Open
<1>4. ASSUME o \in Workers PROVE TxOf(o)' /\ WorkInv(o)' /\ NumbersRead(o)'
  <2>1. pc'[o] = pc[o] /\ work'[o] = work[o] /\ current'[o] = current[o]
    BY <1>4 DEF Frame
  <2>2. TxOf(o)'
    BY <1>1, <1>4, <2>1 DEF SessionInv, TxOf, TxIs
  <2>3. NumbersRead(o)'
    BY <1>1, <1>2, <1>4, <2>1 DEF SessionInv, NumbersRead, TxIs, Batch
  <2>4. ASSUME Handles(o), NEW j \in Batch(o), HasAttempt(o, j) PROVE HasAttempt(o, j)'
    BY <1>2, <2>1, <2>4 DEF HasAttempt, AttemptsOf, AttemptsStay
  <2>5. WorkInv(o)'
    BY <1>1, <1>4, <2>1, <2>4 DEF SessionInv, WorkInv, Handles, Batch
  <2> QED BY <2>2, <2>3, <2>5
<1> QED BY <1>1, <1>3, <1>4 DEF SessionInv, TxIs, Open

\* Locks stay exclusive.
LEMMA LocksStayExclusive ==
  ASSUME WorkerInv, NEW s, Frame(s), LocksOwn(s)
  PROVE  LocksExclusive'
<1> SUFFICES ASSUME NEW o \in Sessions, NEW q \in Sessions, o # q, Open(o)', Open(q)'
             PROVE  tx'[o].rows \cap tx'[q].rows = {}
  BY DEF LocksExclusive
<1>1. CASE o # s /\ q # s
  BY <1>1 DEF Frame, WorkerInv, LocksExclusive, Open
<1>2. CASE o = s
  <2>1. tx'[q].rows \subseteq HeldByOthers(s)
    BY <1>2 DEF Frame, HeldByOthers, Open
  <2> QED BY <1>2, <2>1 DEF LocksOwn, Open
<1>3. CASE q = s
  <2>1. tx'[o].rows \subseteq HeldByOthers(s)
    BY <1>3 DEF Frame, HeldByOthers, Open
  <2> QED BY <1>3, <2>1 DEF LocksOwn, Open
<1> QED BY <1>1, <1>2, <1>3

\* Without new attempts the numbers stay as they are.
LEMMA NumbersStay ==
  ASSUME WorkerInv, NEW s, RowsStay(s), AttemptsStay(s), Recorded' = Recorded
  PROVE  Numbered' /\ AttemptNosIncrease'
<1>1. \A j, n : NumbersUpTo(j, n) => NumbersUpTo(j, n)'
  BY AttemptsOfStay
<1>2. Numbered'
  BY <1>1 DEF WorkerInv, Numbered, AttemptsStay, RowsStay
<1>3. AttemptNosIncrease'
  BY DEF WorkerInv, AttemptNosIncrease, AttemptsStay
<1> QED BY <1>2, <1>3

\* Nor does a holder's attempt stop to be the latest ...
LEMMA HoldersStay ==
  ASSUME WorkerInv, NEW s, Frame(s), RowsStay(s), AttemptsStay(s), WorkStays(s), Recorded' = Recorded,
         \A o \in Sessions : SessionInv(o)'
  PROVE  HolderHasLatestAttempt'
<1> SUFFICES ASSUME NEW w \in Workers, (pc[w] \notin {"leased", "starting", "down"})',
                    NEW j \in Batch(w)', Leased(j, w)', NEW a \in AttemptsOf(j)'
             PROVE  job_attempts'[a].attempt_no <= job_attempts'[work'[w][j].attempt].attempt_no
  BY DEF HolderHasLatestAttempt
<1>1. Handles(w)'
  BY DEF SessionInv, WorkInv, Sessions
<1>2. Handles(w) /\ j \in Batch(w) /\ work'[w][j].attempt = work[w][j].attempt
  BY <1>1 DEF Frame, WorkStays, Handles, Batch
<1>3. Leased(j, w)
  <2>1. j \in JobIds
    BY DEF Leased, Rows
  <2> QED BY <1>1, <2>1 DEF RowsStay
<1>4. HasAttempt(w, j)
  BY <1>2 DEF WorkerInv, SessionInv, WorkInv, Sessions
<1>5. a \in AttemptsOf(j) /\ job_attempts'[a].attempt_no = job_attempts[a].attempt_no
  BY DEF AttemptsStay, AttemptsOf
<1>6. LET b == work[w][j].attempt IN b \in Recorded /\ job_attempts'[b].attempt_no = job_attempts[b].attempt_no
  BY <1>4 DEF HasAttempt, AttemptsOf, AttemptsStay
<1>7. job_attempts[a].attempt_no <= job_attempts[work[w][j].attempt].attempt_no
  BY <1>2, <1>3, <1>5 DEF WorkerInv, HolderHasLatestAttempt, Handles
<1> QED BY <1>2, <1>5, <1>6, <1>7

\* ... nor does anybody read new numbers.
LEMMA StaleNumbersStay ==
  ASSUME WorkerInv, NEW s, Frame(s), RowsStay(s), AttemptsStay(s), WorkStays(s),
         s \in Workers => ~ TxIs(s, "start")'
  PROVE  StaleNumbers'
<1> SUFFICES ASSUME NEW w \in Workers, NEW v \in Workers, NEW j \in JobIds, w # v,
                    TxIs(w, "start")', (j \in tx[w].joined)', Leased(j, v)'
             PROVE  /\ TxIs(v, "start")' /\ (j \in tx[v].joined)' => tx'[w].numbers[j] <= tx'[v].numbers[j]
                    /\ Handles(v)' /\ j \in Batch(v)' =>
                         tx'[w].numbers[j] <= job_attempts'[work'[v][j].attempt].attempt_no
  BY DEF StaleNumbers
<1>1. w # s /\ tx'[w] = tx[w] /\ TxIs(w, "start") /\ j \in tx[w].joined
  BY DEF Frame, TxIs, Sessions
<1>2. ASSUME TxIs(v, "start")', (j \in tx[v].joined)' PROVE tx'[w].numbers[j] <= tx'[v].numbers[j]
  <2>1. v # s /\ tx'[v] = tx[v] /\ TxIs(v, "start")
    BY <1>2 DEF Frame, TxIs, Sessions
  <2>2. Leased(j, v)
    BY <2>1 DEF RowsStay
  <2> QED BY <1>1, <1>2, <2>1, <2>2 DEF WorkerInv, StaleNumbers
<1>3. ASSUME Handles(v)', j \in Batch(v)'
      PROVE  tx'[w].numbers[j] <= job_attempts'[work'[v][j].attempt].attempt_no
  <2>1. Handles(v) /\ j \in Batch(v) /\ work'[v][j].attempt = work[v][j].attempt
    BY <1>3 DEF Frame, WorkStays, Handles, Batch
  <2>2. Leased(j, v)
    BY <1>3 DEF RowsStay
  <2>3. HasAttempt(v, j)
    BY <2>1 DEF WorkerInv, SessionInv, WorkInv, Sessions
  <2>4. LET b == work[v][j].attempt IN job_attempts'[b].attempt_no = job_attempts[b].attempt_no
    BY <2>3 DEF HasAttempt, AttemptsOf, AttemptsStay
  <2> QED BY <1>1, <2>1, <2>2, <2>4 DEF WorkerInv, StaleNumbers
<1> QED BY <1>2, <1>3

\* What is acknowledged keeps its evidence.
LEMMA EvidenceStays ==
  ASSUME WorkerInv, NEW s, RowsStay(s), AttemptsStay(s)
  PROVE  AckedHasAttempt'
<1> SUFFICES ASSUME NEW j \in Rows', jobs'[j].status = "succeeded"
             PROVE  \E a \in AttemptsOf(j)' : job_attempts'[a].status = "succeeded"
  BY DEF AckedHasAttempt
<1>1. AttemptsOf(j) \subseteq AttemptsOf(j)'
  BY AttemptsOfStay
<1>2. CASE j \in Rows /\ jobs[j].status = "succeeded"
  <2>1. PICK a \in AttemptsOf(j) : job_attempts[a].status = "succeeded"
    BY <1>2 DEF WorkerInv, AckedHasAttempt
  <2> QED BY <1>1, <2>1 DEF AttemptsStay, AttemptsOf
<1>3. CASE ~ (j \in Rows /\ jobs[j].status = "succeeded")
  BY <1>1, <1>3 DEF RowsStay
<1> QED BY <1>2, <1>3

\* All of it together, for a step that inserts no attempt and begins no INSERT.
LEMMA PlainStep ==
  ASSUME WorkerInv, WorkerTypeOK', WorkIsFunction', NEW s, Frame(s), RowsStay(s), AttemptsStay(s),
         WorkStays(s), Recorded' = Recorded, LocksOwn(s), s \in Workers => ~ TxIs(s, "start")',
         s \in Sessions => SessionInv(s)'
  PROVE  WorkerInv' /\ StaysFinished
<1>1. \A o \in Sessions : SessionInv(o)'
  BY OthersStay
<1>2. LocksExclusive'
  BY LocksStayExclusive
<1>3. Numbered' /\ AttemptNosIncrease' /\ StaleNumbers' /\ HolderHasLatestAttempt' /\ AckedHasAttempt'
  BY <1>1, NumbersStay, HoldersStay, StaleNumbersStay, EvidenceStays
<1> QED BY <1>1, <1>2, <1>3 DEF WorkerInv, RowsStay, StaysFinished

----------------------------------------------------------------------------
(* What the statements do                                                   *)

\* A worker that goes on, with what it has left to do.
LEMMA GoEffect ==
  ASSUME WorkerInv, NEW w \in Workers, NEW where \in PcValues, NEW S \in SUBSET JobIds, NEW left \in [S -> Entry],
         pc' = [pc EXCEPT ![w] = where], work' = [work EXCEPT ![w] = left]
  PROVE  /\ pc' \in [Workers -> PcValues] /\ WorkIsFunction'
         /\ \A v \in Workers : DOMAIN work'[v] \subseteq JobIds /\ work'[v] \in [DOMAIN work'[v] -> Entry]
         /\ pc'[w] = where /\ work'[w] = left /\ Batch(w)' = S
         /\ \A v \in Workers \ {w} : pc'[v] = pc[v] /\ work'[v] = work[v]
<1>1. /\ pc \in [Workers -> PcValues] /\ work = [v \in Workers |-> work[v]]
      /\ \A v \in Workers : DOMAIN work[v] \subseteq JobIds /\ work[v] \in [DOMAIN work[v] -> Entry]
  BY DEF WorkerInv, WorkerTypeOK, WorkIsFunction
<1>2. /\ pc' \in [Workers -> PcValues] /\ pc'[w] = where
      /\ \A v \in Workers \ {w} : pc'[v] = pc[v]
  BY <1>1
<1>3. work'[w] = left /\ \A v \in Workers \ {w} : work'[v] = work[v]
  BY <1>1
<1>4. work' = [v \in Workers |-> work'[v]]
  BY <1>1
<1>5. DOMAIN left = S
  OBVIOUS
<1>6. \A v \in Workers : DOMAIN work'[v] \subseteq JobIds /\ work'[v] \in [DOMAIN work'[v] -> Entry]
  BY <1>1, <1>3, <1>5
<1> QED BY <1>2, <1>3, <1>4, <1>5, <1>6 DEF WorkIsFunction, Batch

\* An empty batch.
LEMMA NothingIsBatch == {} \in SUBSET JobIds /\ Nothing \in [{} -> Entry]
  BY DEF Nothing

\* A session that opens or ends its transaction.
LEMMA TxEffect ==
  ASSUME WorkerInv, NEW s \in Sessions, NEW t \in LeaseTx \cup ReapTx \cup StartTx \cup CancelTx \cup {None},
         tx' = [tx EXCEPT ![s] = t]
  PROVE  /\ tx' \in [Sessions -> LeaseTx \cup ReapTx \cup StartTx \cup CancelTx \cup {None}]
         /\ tx'[s] = t /\ \A o \in Sessions \ {s} : tx'[o] = tx[o]
<1>1. tx \in [Sessions -> LeaseTx \cup ReapTx \cup StartTx \cup CancelTx \cup {None}]
  BY DEF WorkerInv, WorkerTypeOK, PgTypeOK
<1> DEFINE T == LeaseTx \cup ReapTx \cup StartTx \cup CancelTx \cup {None}
<1> HIDE DEF T
<1>2. tx \in [Sessions -> T] /\ t \in T
  BY <1>1 DEF T
<1>3. tx' \in [Sessions -> T] /\ tx'[s] = t /\ \A o \in Sessions \ {s} : tx'[o] = tx[o]
  BY <1>2
<1> QED BY <1>3 DEF T

\* No statement on jobs.
LEMMA JobsUnchanged ==
  ASSUME WorkerInv, NEW s, UNCHANGED jobs
  PROVE  RowsStay(s) /\ Rows' = Rows
<1>1. Rows' = Rows /\ \A j, v : Leased(j, v)' => Leased(j, v)
  BY DEF Rows, Leased
<1> QED BY <1>1, Types DEF RowsStay, WorkerInv

\* No statement on job_attempts.
LEMMA AttemptsUnchanged ==
  ASSUME WorkerInv, NEW s, UNCHANGED job_attempts
  PROVE  AttemptsStay(s) /\ Recorded' = Recorded
<1>1. Recorded' = Recorded
  BY DEF Recorded
<1> QED BY <1>1, Types DEF AttemptsStay, Recorded

\* An UPDATE of a job: finished work stays finished, a lease is one of the session's own
\* that has no attempt yet, what becomes succeeded has a succeeded attempt.
UpdatedRow(s, j) ==
  /\ j \in Rows /\ jobs'[j] \in Job
  /\ jobs[j].status \in Terminal => jobs'[j].status \in Terminal
  /\ jobs'[j].status = "running" => jobs'[j].locked_by = s /\ ~ Handles(s)'
  /\ jobs'[j].status = "succeeded" =>
       \E a \in AttemptsOf(j) : job_attempts'[a] # None /\ job_attempts'[a].job_id = j
                                /\ job_attempts'[a].status = "succeeded"

\* An UPDATE of jobs.
LEMMA JobsUpdated ==
  ASSUME WorkerInv, NEW s, jobs' = [j \in JobIds |-> jobs'[j]],
         \A j \in JobIds : jobs'[j] = jobs[j] \/ UpdatedRow(s, j)
  PROVE  RowsStay(s) /\ Rows' = Rows
<1>1. /\ jobs \in [JobIds -> Job \cup {None}] /\ \A j \in Rows : j \in JobIds /\ jobs[j] \in Job
  BY Types
<1>2. \A j \in JobIds : (jobs'[j] = jobs[j]) \/ (j \in Rows /\ jobs'[j] \in Job)
  BY DEF UpdatedRow
<1>3. Rows' = Rows
  BY <1>1, <1>2, AbsentAssumption DEF Rows
<1>4. jobs' \in [JobIds -> Job \cup {None}]
  BY <1>1, <1>2
<1>5. \A j \in JobIds, v \in Workers : Leased(j, v)' => Leased(j, v) \/ (v = s /\ ~ Handles(s)')
  BY <1>3 DEF Leased, UpdatedRow
<1>6. \A j \in Rows : jobs[j].status \in Terminal => jobs'[j].status \in Terminal
  BY <1>1 DEF UpdatedRow
<1>7. \A j \in Rows' : jobs'[j].status = "succeeded" =>
       \/ j \in Rows /\ jobs[j].status = "succeeded"
       \/ \E a \in AttemptsOf(j) : job_attempts'[a] # None /\ job_attempts'[a].job_id = j
                                   /\ job_attempts'[a].status = "succeeded"
  BY <1>1, <1>3 DEF UpdatedRow
<1> QED BY <1>3, <1>4, <1>5, <1>6, <1>7 DEF RowsStay, WorkerInv

\* An UPDATE of an attempt that nobody else has locked: only the session's own attempts
\* succeed, and no succeeded one is closed as failed.
UpdatedAttempt(s, a) ==
  /\ a \in Recorded /\ a \notin ClosedByOthers(s)
  /\ job_attempts'[a] \in Attempt
  /\ job_attempts'[a].job_id = job_attempts[a].job_id
  /\ job_attempts'[a].attempt_no = job_attempts[a].attempt_no
  /\ job_attempts'[a].worker_id = job_attempts[a].worker_id
  /\ job_attempts[a].status = "succeeded" => job_attempts'[a].status = "succeeded"
  /\ job_attempts'[a].status = "succeeded" => job_attempts[a].worker_id = s

\* An UPDATE of job_attempts.
LEMMA AttemptsUpdated ==
  ASSUME WorkerInv, NEW s, job_attempts' = [a \in AttemptIds |-> job_attempts'[a]],
         \A a \in AttemptIds : job_attempts'[a] = job_attempts[a] \/ UpdatedAttempt(s, a)
  PROVE  AttemptsStay(s) /\ Recorded' = Recorded
<1>1. /\ job_attempts \in [AttemptIds -> Attempt \cup {None}]
      /\ \A a \in Recorded : a \in AttemptIds /\ job_attempts[a] \in Attempt
  BY Types
<1>2. \A a \in AttemptIds : (job_attempts'[a] = job_attempts[a]) \/ (a \in Recorded /\ job_attempts'[a] \in Attempt)
  BY DEF UpdatedAttempt
<1>3. Recorded' = Recorded
  BY <1>1, <1>2, AbsentAssumption DEF Recorded
<1>4. job_attempts' \in [AttemptIds -> Attempt \cup {None}]
  BY <1>1, <1>2
<1>5. ASSUME NEW a \in Recorded
      PROVE  /\ job_attempts'[a] # None
             /\ job_attempts'[a].job_id = job_attempts[a].job_id
             /\ job_attempts'[a].attempt_no = job_attempts[a].attempt_no
             /\ job_attempts'[a].worker_id = job_attempts[a].worker_id
             /\ job_attempts[a].status = "succeeded" => job_attempts'[a].status = "succeeded"
             /\ job_attempts'[a].status = "succeeded" =>
                  job_attempts[a].status = "succeeded" \/ job_attempts[a].worker_id = s
             /\ a \in ClosedByOthers(s) => job_attempts'[a] = job_attempts[a]
  BY <1>1, <1>3, <1>5 DEF UpdatedAttempt, Recorded
<1> QED BY <1>3, <1>4, <1>5 DEF AttemptsStay

AnyTx == LeaseTx \cup ReapTx \cup StartTx \cup CancelTx \cup {None}

\* A worker that goes from one place to another, in whatever transaction but an INSERT.
LEMMA WorkerMoves ==
  ASSUME WorkerInv, NEW w \in Workers, NEW where \in PcValues, NEW S \in SUBSET JobIds, NEW left \in [S -> Entry],
         pc' = [pc EXCEPT ![w] = where], work' = [work EXCEPT ![w] = left],
         current' \in [Workers -> JobIds \cup {None}], \A v \in Workers \ {w} : current'[v] = current[v],
         crashes' \in 0 .. MaxCrashes, NEW t \in AnyTx, tx' = [tx EXCEPT ![w] = t],
         UNCHANGED now, policy_decisions' \subseteq JobIds \X ThrottleReasons,
         RowsStay(w), AttemptsStay(w), Recorded' = Recorded, WorkStays(w), SessionInv(w)',
         t # None => t.kind # "start" /\ t.rows \cap HeldByOthers(w) = {}
  PROVE  WorkerInv' /\ StaysFinished
<1>1. /\ pc' \in [Workers -> PcValues] /\ WorkIsFunction'
      /\ \A v \in Workers : DOMAIN work'[v] \subseteq JobIds /\ work'[v] \in [DOMAIN work'[v] -> Entry]
      /\ \A v \in Workers \ {w} : pc'[v] = pc[v] /\ work'[v] = work[v]
  BY GoEffect
<1>2. /\ tx' \in [Sessions -> AnyTx] /\ tx'[w] = t /\ \A o \in Sessions \ {w} : tx'[o] = tx[o]
  BY TxEffect DEF AnyTx, Sessions
<1>3. Frame(w)
  BY <1>1, <1>2 DEF Frame
<1>4. now' \in Instants
  BY Types
<1>5. WorkerTypeOK'
  BY <1>1, <1>2, <1>4 DEF WorkerTypeOK, PgTypeOK, RowsStay, AttemptsStay, AnyTx
<1>6. LocksOwn(w) /\ ~ TxIs(w, "start")'
  BY <1>2 DEF LocksOwn, TxIs
<1> QED BY <1>1, <1>3, <1>5, <1>6, PlainStep

\* One that has no batch afterwards.
LEMMA WorkerMovesOn ==
  ASSUME WorkerInv, NEW w \in Workers, NEW where \in PcValues \ {"leased", "starting"},
         where \notin {"handling", "finishing", "marking", "failing", "settling"},
         pc' = [pc EXCEPT ![w] = where], work' = [work EXCEPT ![w] = Nothing],
         current' \in [Workers -> JobIds \cup {None}], \A v \in Workers \ {w} : current'[v] = current[v],
         crashes' \in 0 .. MaxCrashes, NEW t \in AnyTx, tx' = [tx EXCEPT ![w] = t],
         UNCHANGED now, policy_decisions' \subseteq JobIds \X ThrottleReasons,
         RowsStay(w), AttemptsStay(w), Recorded' = Recorded,
         where = "reaping" => t # None /\ t.kind = "reap",
         where = "leasing" => t # None /\ t.kind = "lease",
         where \notin {"reaping", "leasing"} => t = None,
         t # None => t.rows \cap HeldByOthers(w) = {},
         LockedStays(w)'
  PROVE  WorkerInv' /\ StaysFinished
<1>1. pc'[w] = where /\ Batch(w)' = {} /\ tx'[w] = t
  BY GoEffect, NothingIsBatch, TxEffect DEF AnyTx, Sessions
<1>2. ~ Handles(w)' /\ WorkStays(w)
  BY <1>1 DEF Handles, WorkStays
<1>3. TxOf(w)' /\ ~ TxIs(w, "start")'
  BY <1>1 DEF TxOf, TxIs
<1>4. WorkInv(w)' /\ NumbersRead(w)'
  BY <1>1, <1>2, <1>3 DEF WorkInv, NumbersRead, Handles
<1>5. SessionInv(w)'
  BY <1>3, <1>4, PostgresAssumption DEF SessionInv
<1>6. t # None => t.kind # "start"
  BY <1>1, <1>3 DEF TxIs
<1> QED BY <1>2, <1>5, <1>6, NothingIsBatch, WorkerMoves

\* A worker between transactions has none open.
LEMMA NoTx ==
  ASSUME WorkerInv, NEW w \in Workers, pc[w] \notin {"reaping", "leasing", "starting"}
  PROVE  tx[w] = None /\ tx = [tx EXCEPT ![w] = None] /\ None \in AnyTx
<1>1. tx[w] = None
  BY DEF WorkerInv, SessionInv, TxOf, Sessions
<1>2. tx \in [Sessions -> LeaseTx \cup ReapTx \cup StartTx \cup CancelTx \cup {None}]
  BY DEF WorkerInv, WorkerTypeOK, PgTypeOK
<1> QED BY <1>1, <1>2 DEF AnyTx

\* Without a transaction a session has nothing locked.
LEMMA NothingLocked ==
  ASSUME NEW s, tx'[s] = None
  PROVE  LockedStays(s)'
  BY DEF LockedStays, Open

\* What the other variables may be.
LEMMA OtherTypes ==
  ASSUME WorkerInv
  PROVE  /\ current \in [Workers -> JobIds \cup {None}] /\ crashes \in 0 .. MaxCrashes
         /\ policy_decisions \subseteq JobIds \X ThrottleReasons
  BY DEF WorkerInv, WorkerTypeOK, PgTypeOK

----------------------------------------------------------------------------
(* Steps without a batch                                                    *)

\* The loop passes over the reap, wakes up, or starts again after a restart.
LEMMA IdleSteps ==
  ASSUME WorkerInv, NEW w \in Workers, SkipReap(w) \/ Wake(w) \/ Restart(w)
  PROVE  WorkerInv' /\ StaysFinished
<1>1. PICK where \in {"polling", "top"} : Go(w, where, Nothing) /\ UNCHANGED pgVars
  BY DEF SkipReap, Wake, Restart
<1>2. pc[w] \in {"top", "idle", "down"}
  BY DEF SkipReap, Wake, Restart
<1>3. /\ pc' = [pc EXCEPT ![w] = where] /\ work' = [work EXCEPT ![w] = Nothing]
      /\ UNCHANGED <<current, crashes, jobs, job_attempts, policy_decisions, tx, now>>
  BY <1>1 DEF Go, pgVars
<1>4. tx[w] = None /\ tx' = [tx EXCEPT ![w] = None] /\ None \in AnyTx
  BY <1>2, <1>3, NoTx
<1>5. RowsStay(w) /\ AttemptsStay(w) /\ Recorded' = Recorded
  BY <1>3, JobsUnchanged, AttemptsUnchanged
<1>6. LockedStays(w)'
  BY <1>3, <1>4, NothingLocked
<1>7. where \in PcValues \ {"leased", "starting"} /\ where \notin {"reaping", "leasing"}
  BY DEF PcValues
<1>8. /\ current' \in [Workers -> JobIds \cup {None}] /\ crashes' \in 0 .. MaxCrashes
      /\ policy_decisions' \subseteq JobIds \X ThrottleReasons
  BY <1>3, OtherTypes
<1> QED BY <1>3, <1>4, <1>5, <1>6, <1>7, <1>8, WorkerMovesOn

\* The reaper locks leases that have expired and that nobody has locked.
LEMMA ReapBeginStep ==
  ASSUME WorkerInv, NEW w \in Workers, ReapBegin(w)
  PROVE  WorkerInv' /\ StaysFinished
<1> DEFINE expired == ExpiredLocks(now) \ HeldByOthers(w)
           t == [kind |-> "reap", at |-> now, rows |-> expired, closing |-> OpenAttempts(expired)]
<1>1. /\ pc' = [pc EXCEPT ![w] = "reaping"] /\ work' = [work EXCEPT ![w] = Nothing]
      /\ tx' = [tx EXCEPT ![w] = t]
      /\ UNCHANGED <<current, crashes, jobs, job_attempts, policy_decisions, now>>
  BY DEF ReapBegin, reap_begin, Begin, Go, tables
<1>2. expired \in SUBSET Rows /\ expired \cap HeldByOthers(w) = {} /\ OpenAttempts(expired) \in SUBSET AttemptIds
  BY DEF ExpiredLocks, OpenAttempts, Recorded
<1> HIDE DEF expired
<1>3. t \in ReapTx
  BY <1>2, Types DEF ReapTx, Rows
<1>4. t \in AnyTx /\ t # None /\ t.rows = expired /\ t.closing = OpenAttempts(expired) /\ t.kind = "reap"
  BY <1>3, AbsentAssumption DEF AnyTx
<1> HIDE DEF t
<1>5. RowsStay(w) /\ AttemptsStay(w) /\ Recorded' = Recorded
  BY <1>1, JobsUnchanged, AttemptsUnchanged
<1>6. tx'[w] = t
  BY <1>1, <1>4, TxEffect DEF AnyTx, Sessions
<1>7. LockedStays(w)'
  BY <1>1, <1>2, <1>4, <1>6 DEF LockedStays, Rows, OpenAttempts, Recorded
<1>8. "reaping" \in PcValues \ {"leased", "starting"}
  BY DEF PcValues
<1>9. /\ current' \in [Workers -> JobIds \cup {None}] /\ crashes' \in 0 .. MaxCrashes
      /\ policy_decisions' \subseteq JobIds \X ThrottleReasons
  BY <1>1, OtherTypes
<1> QED BY <1>1, <1>2, <1>4, <1>5, <1>7, <1>8, <1>9, WorkerMovesOn

\* Its commit puts expired leases back and closes the attempts it has locked.
LEMMA ReapCommitStep ==
  ASSUME WorkerInv, NEW w \in Workers, ReapCommit(w)
  PROVE  WorkerInv' /\ StaysFinished
<1> DEFINE expired == ExpiredLocks(tx[w].at)
<1>1. /\ pc' = [pc EXCEPT ![w] = "polling"] /\ work' = [work EXCEPT ![w] = Nothing]
      /\ jobs' = [j \in JobIds |-> IF j \in expired THEN Unlocked(jobs[j], "queued") ELSE jobs[j]]
      /\ job_attempts' = [a \in AttemptIds |->
           IF a \in tx[w].closing THEN ClosedAttempt(job_attempts[a], "LEASE_EXPIRED") ELSE job_attempts[a]]
      /\ tx' = [tx EXCEPT ![w] = None]
      /\ UNCHANGED <<current, crashes, policy_decisions, now>>
  BY DEF ReapCommit, reap_commit, Commit, Go
<1>2. TxIs(w, "reap") /\ LockedStays(w) /\ w \in Sessions
  BY DEF ReapCommit, WorkerInv, SessionInv, TxOf, Sessions
<1>3. /\ jobs \in [JobIds -> Job \cup {None}] /\ job_attempts \in [AttemptIds -> Attempt \cup {None}]
      /\ \A j \in Rows : j \in JobIds /\ jobs[j] \in Job
      /\ \A a \in Recorded : a \in AttemptIds /\ job_attempts[a] \in Attempt
  BY Types
<1>4. \A j \in expired : /\ j \in Rows /\ jobs[j].status = "running" /\ Unlocked(jobs[j], "queued") \in Job
                        /\ Unlocked(jobs[j], "queued").status = "queued"
  BY <1>3, UnlockedRow DEF ExpiredLocks, Status
<1> HIDE DEF expired
<1>5. RowsStay(w) /\ Rows' = Rows
  <2>1. \A j \in JobIds : jobs'[j] = jobs[j] \/ UpdatedRow(w, j)
    BY <1>1, <1>4 DEF UpdatedRow, Terminal
  <2>2. jobs' = [j \in JobIds |-> jobs'[j]]
    BY <1>1
  <2> QED BY <2>1, <2>2, JobsUpdated
<1>6. \A a \in tx[w].closing : a \in OpenAttempts(tx[w].rows)
  BY <1>2 DEF LockedStays, TxIs, Open
<1>7. \A a \in tx[w].closing : a \notin ClosedByOthers(w)
  <2> SUFFICES ASSUME NEW a \in tx[w].closing, NEW o \in Sessions \ {w}, tx[o] # None, a \in tx[o].closing
               PROVE  FALSE
    BY DEF ClosedByOthers
  <2>1. LockedStays(o)
    BY DEF WorkerInv, SessionInv
  <2>2. job_attempts[a].job_id \in tx[o].rows /\ job_attempts[a].job_id \in tx[w].rows
    BY <1>6, <2>1 DEF LockedStays, Open, OpenAttempts
  <2> QED BY <1>2, <2>2 DEF WorkerInv, LocksExclusive, Open, TxIs
<1>8. \A a \in AttemptIds : job_attempts'[a] = job_attempts[a] \/ UpdatedAttempt(w, a)
  <2> SUFFICES ASSUME NEW a \in tx[w].closing PROVE UpdatedAttempt(w, a)
    BY <1>1
  <2>1. a \in Recorded /\ job_attempts[a] \in Attempt /\ job_attempts[a].status = "running" /\ a \in AttemptIds
    BY <1>3, <1>6 DEF OpenAttempts
  <2>2. job_attempts'[a] = ClosedAttempt(job_attempts[a], "LEASE_EXPIRED")
    BY <1>1, <2>1
  <2>3. job_attempts'[a] \in Attempt /\ job_attempts'[a].status = "failed"
        /\ job_attempts'[a].job_id = job_attempts[a].job_id
        /\ job_attempts'[a].attempt_no = job_attempts[a].attempt_no
        /\ job_attempts'[a].worker_id = job_attempts[a].worker_id
    BY <2>1, <2>2, ClosedRow
  <2> QED BY <1>7, <2>1, <2>3 DEF UpdatedAttempt
<1>9. AttemptsStay(w) /\ Recorded' = Recorded
  <2>1. job_attempts' = [a \in AttemptIds |-> job_attempts'[a]]
    BY <1>1
  <2> QED BY <1>8, <2>1, AttemptsUpdated
<1>10. LockedStays(w)'
  BY <1>1, TxEffect, NothingLocked, <1>2
<1>11. "polling" \in PcValues \ {"leased", "starting"} /\ None \in AnyTx
  BY DEF PcValues, AnyTx
<1>12. /\ current' \in [Workers -> JobIds \cup {None}] /\ crashes' \in 0 .. MaxCrashes
       /\ policy_decisions' \subseteq JobIds \X ThrottleReasons
  BY <1>1, OtherTypes
<1> QED BY <1>1, <1>5, <1>9, <1>10, <1>11, <1>12, WorkerMovesOn

----------------------------------------------------------------------------
(* Leases                                                                   *)

\* Only a policy throttles.
LEMMA ThrottleReasonType ==
  ASSUME NEW at
  PROVE  /\ ThrottleReason(at) \in ThrottleReasons \cup {None}
         /\ ThrottleReason(at) # None => Policy # None
  BY DEF ThrottleReason, ThrottleReasons

\* The sweep alone.
LEMMA LeaseNothingStep ==
  ASSUME WorkerInv, NEW w \in Workers, LeaseNothing(w)
  PROVE  WorkerInv' /\ StaysFinished
<1>1. /\ pc' = [pc EXCEPT ![w] = "idle"] /\ work' = [work EXCEPT ![w] = Nothing]
      /\ jobs' = [j \in JobIds |-> IF j \in Swept(now) THEN PastDeadline(jobs[j]) ELSE jobs[j]]
      /\ UNCHANGED <<current, crashes, job_attempts, policy_decisions, tx, now>>
      /\ pc[w] = "polling"
  BY DEF LeaseNothing, lease_nothing, Go
<1>2. \A j \in Swept(now) : j \in Rows /\ PastDeadline(jobs[j]) \in Job /\ PastDeadline(jobs[j]).status = "dlq"
  BY Types, DueIsQueued, SweptRow
<1>3. RowsStay(w)
  <2>1. \A j \in JobIds : jobs'[j] = jobs[j] \/ UpdatedRow(w, j)
    BY <1>1, <1>2 DEF UpdatedRow, Terminal
  <2>2. jobs' = [j \in JobIds |-> jobs'[j]]
    BY <1>1
  <2> QED BY <2>1, <2>2, JobsUpdated
<1>4. AttemptsStay(w) /\ Recorded' = Recorded
  BY <1>1, AttemptsUnchanged
<1>5. tx' = [tx EXCEPT ![w] = None] /\ None \in AnyTx /\ tx'[w] = None
  BY <1>1, NoTx
<1>6. LockedStays(w)' /\ "idle" \in PcValues \ {"leased", "starting"}
  BY <1>5, NothingLocked DEF PcValues
<1>7. /\ current' \in [Workers -> JobIds \cup {None}] /\ crashes' \in 0 .. MaxCrashes
      /\ policy_decisions' \subseteq JobIds \X ThrottleReasons
  BY <1>1, OtherTypes
<1> QED BY <1>1, <1>3, <1>4, <1>5, <1>6, <1>7, WorkerMovesOn

\* A lease begins with the rows it sweeps, which nobody has locked.
LEMMA LeaseBeginStep ==
  ASSUME WorkerInv, NEW w \in Workers, LeaseBegin(w)
  PROVE  WorkerInv' /\ StaysFinished
<1> DEFINE due == Due(now) \ Swept(now)
           t == [kind |-> "lease", at |-> now, rows |-> Swept(now), closing |-> {},
                 dataset |-> jobs[Oldest(due)].dataset_id, reason |-> ThrottleReason(now)]
<1>1. /\ pc' = [pc EXCEPT ![w] = "leasing"] /\ work' = [work EXCEPT ![w] = Nothing]
      /\ Swept(now) \cap HeldByOthers(w) = {} /\ due # {}
      /\ tx' = [tx EXCEPT ![w] = t]
      /\ UNCHANGED <<current, crashes, jobs, job_attempts, policy_decisions, now>>
  BY DEF LeaseBegin, lease_begin, Begin, Go, tables
<1>2. Swept(now) \in SUBSET Rows /\ due \in SUBSET Rows
  BY DueIsQueued
<1> HIDE DEF due
<1>3. jobs[Oldest(due)].dataset_id \in Datasets
  <2>1. due \in SUBSET JobIds /\ \A j \in due : jobs[j].run_at \in Nat
    BY <1>2, Types DEF Job, Instants
  <2>2. Oldest(due) \in due
    BY <1>1, <2>1, OldestIsOne
  <2> QED BY <1>2, <2>2, Types DEF Job
<1>4. ThrottleReason(now) \in ThrottleReasons \cup {None} /\ (ThrottleReason(now) # None => Policy # None)
  BY ThrottleReasonType
<1>5. t \in LeaseTx
  BY <1>2, <1>3, <1>4, Types DEF LeaseTx, Rows
<1>6. /\ t \in AnyTx /\ t # None /\ t.rows = Swept(now) /\ t.closing = {} /\ t.kind = "lease"
      /\ t.reason = ThrottleReason(now)
  BY <1>5, AbsentAssumption DEF AnyTx
<1> HIDE DEF t
<1>7. RowsStay(w) /\ AttemptsStay(w) /\ Recorded' = Recorded
  BY <1>1, JobsUnchanged, AttemptsUnchanged
<1>8. tx'[w] = t
  BY <1>1, <1>6, TxEffect DEF AnyTx, Sessions
<1>9. LockedStays(w)'
  BY <1>1, <1>2, <1>4, <1>6, <1>8 DEF LockedStays, Rows
<1>10. "leasing" \in PcValues \ {"leased", "starting"}
  BY DEF PcValues
<1>11. /\ current' \in [Workers -> JobIds \cup {None}] /\ crashes' \in 0 .. MaxCrashes
       /\ policy_decisions' \subseteq JobIds \X ThrottleReasons
  BY <1>1, OtherTypes
<1> QED BY <1>1, <1>6, <1>7, <1>9, <1>10, <1>11, WorkerMovesOn

\* The transaction of a worker that leases, and what it can take.
LEMMA LeasingTx ==
  ASSUME WorkerInv, NEW w \in Workers, pc[w] = "leasing"
  PROVE  /\ tx[w] \in LeaseTx /\ tx[w].rows \in SUBSET Rows /\ tx[w].at \in Instants
         /\ tx[w].reason \in ThrottleReasons \cup {None}
         /\ tx[w].reason # None => Policy \in PolicyType
         /\ \A j \in tx[w].rows : PastDeadline(jobs[j]) \in Job /\ PastDeadline(jobs[j]).status = "dlq"
         /\ \A k : \A j \in Candidates(w, k) :
              j \in Rows /\ j \notin tx[w].rows /\ jobs[j] \in Job /\ jobs[j].status = "queued"
<1>1. TxIs(w, "lease") /\ LockedStays(w) /\ w \in Sessions
  BY DEF WorkerInv, SessionInv, TxOf, Sessions
<1>2. tx[w] \in LeaseTx
  BY <1>1, Types DEF TxIs, Open, ReapTx, StartTx, CancelTx
<1>3. tx[w].rows \in SUBSET Rows /\ (tx[w].reason # None => Policy \in PolicyType)
  BY <1>1, PostgresAssumption DEF TxIs, LockedStays, Open
<1>4. \A j \in tx[w].rows : PastDeadline(jobs[j]) \in Job /\ PastDeadline(jobs[j]).status = "dlq"
  BY <1>3, Types, SweptRow
<1>5. \A k : \A j \in Candidates(w, k) : j \in Due(tx[w].at) /\ j \notin tx[w].rows
  BY DEF Candidates
<1>6. \A k : \A j \in Candidates(w, k) : j \in Rows /\ j \notin tx[w].rows /\ jobs[j] \in Job /\ jobs[j].status = "queued"
  BY <1>5, Types, DueIsQueued
<1> QED BY <1>2, <1>3, <1>4, <1>6 DEF LeaseTx

\* A throttled lease puts one queued job off.
LEMMA LeaseThrottledStep ==
  ASSUME WorkerInv, NEW w \in Workers, LeaseThrottled(w)
  PROVE  WorkerInv' /\ StaysFinished
<1> DEFINE put_off == Candidates(w, 1)
           later == At(tx[w].at + Policy.throttle_delay)
           delayed(j) == [jobs[j] EXCEPT !.run_at = later]
<1>1. /\ pc' = [pc EXCEPT ![w] = "idle"] /\ work' = [work EXCEPT ![w] = Nothing]
      /\ pc[w] = "leasing" /\ tx[w].reason # None
      /\ jobs' = [j \in JobIds |-> CASE j \in tx[w].rows -> PastDeadline(jobs[j])
                                    [] j \in put_off -> delayed(j)
                                    [] OTHER -> jobs[j]]
      /\ policy_decisions' = policy_decisions \cup (put_off \X {tx[w].reason})
      /\ tx' = [tx EXCEPT ![w] = None]
      /\ UNCHANGED <<current, crashes, job_attempts, now>>
  BY DEF LeaseThrottled, lease_throttled, Commit, Go
<1>2. /\ tx[w].rows \in SUBSET Rows /\ tx[w].at \in Instants
      /\ tx[w].reason \in ThrottleReasons /\ Policy \in PolicyType
      /\ \A j \in tx[w].rows : PastDeadline(jobs[j]) \in Job /\ PastDeadline(jobs[j]).status = "dlq"
      /\ \A j \in put_off : j \in Rows /\ j \in JobIds /\ jobs[j] \in Job /\ jobs[j].status = "queued"
  BY <1>1, LeasingTx, Types
<1>3. later \in Instants
  <2>1. tx[w].at + Policy.throttle_delay \in Nat
    BY <1>2, PostgresAssumption DEF PolicyType, Instants
  <2> QED BY <2>1, AtIsInstant
<1> HIDE DEF put_off, later
<1>4. \A j \in put_off : delayed(j) \in Job /\ delayed(j).status = "queued"
  BY <1>2, <1>3 DEF Job
<1> HIDE DEF delayed
<1>5. RowsStay(w)
  <2>1. \A j \in JobIds : jobs'[j] = jobs[j] \/ UpdatedRow(w, j)
    BY <1>1, <1>2, <1>4 DEF UpdatedRow, Terminal
  <2>2. jobs' = [j \in JobIds |-> jobs'[j]]
    BY <1>1
  <2> QED BY <2>1, <2>2, JobsUpdated
<1>6. AttemptsStay(w) /\ Recorded' = Recorded
  BY <1>1, AttemptsUnchanged
<1>7. LockedStays(w)' /\ None \in AnyTx
  BY <1>1, TxEffect, NothingLocked DEF Sessions, AnyTx
<1>8. "idle" \in PcValues \ {"leased", "starting"}
  BY DEF PcValues
<1>9. policy_decisions' \subseteq JobIds \X ThrottleReasons
  BY <1>1, <1>2, OtherTypes
<1>10. /\ current' \in [Workers -> JobIds \cup {None}] /\ crashes' \in 0 .. MaxCrashes
  BY <1>1, OtherTypes
<1> QED BY <1>1, <1>5, <1>6, <1>7, <1>8, <1>9, <1>10, WorkerMovesOn

\* A lease makes queued jobs the worker's own, which has no attempt for them yet.
LEMMA LeaseTakeStep ==
  ASSUME WorkerInv, NEW w \in Workers, LeaseTake(w)
  PROVE  WorkerInv' /\ StaysFinished
<1> DEFINE taken == Candidates(w, BatchSize)
           where == IF taken = {} THEN "idle" ELSE "leased"
           left == [j \in taken |-> [attempt |-> None, outcome |-> None]]
           expiry == At(tx[w].at + LeaseSeconds)
           leased(j) == [jobs[j] EXCEPT !.status = "running", !.locked_by = w, !.lock_expires_at = expiry]
<1>1. /\ pc' = [pc EXCEPT ![w] = where] /\ work' = [work EXCEPT ![w] = left]
      /\ pc[w] = "leasing"
      /\ jobs' = [j \in JobIds |-> CASE j \in tx[w].rows -> PastDeadline(jobs[j])
                                    [] j \in taken -> leased(j)
                                    [] OTHER -> jobs[j]]
      /\ tx' = [tx EXCEPT ![w] = None]
      /\ UNCHANGED <<current, crashes, job_attempts, policy_decisions, now>>
  BY DEF LeaseTake, lease_take, Commit, Go
<1>2. /\ tx[w].rows \in SUBSET Rows /\ tx[w].at \in Instants
      /\ \A j \in tx[w].rows : PastDeadline(jobs[j]) \in Job /\ PastDeadline(jobs[j]).status = "dlq"
      /\ \A j \in taken : j \in Rows /\ j \notin tx[w].rows /\ j \in JobIds /\ jobs[j] \in Job /\ jobs[j].status = "queued"
  BY <1>1, LeasingTx, Types
<1>3. expiry \in Instants
  <2>1. tx[w].at + LeaseSeconds \in Nat
    BY <1>2, PostgresAssumption DEF Instants
  <2> QED BY <2>1, AtIsInstant
<1> HIDE DEF taken, expiry
<1>4. \A j \in taken : leased(j) \in Job /\ leased(j).status = "running" /\ leased(j).locked_by = w
  BY <1>2, <1>3 DEF Job, Status
<1> HIDE DEF leased
<1>5. where \in {"idle", "leased"} /\ where \in PcValues /\ (where = "idle" => taken = {})
  BY DEF PcValues
<1>6. taken \in SUBSET JobIds /\ left \in [taken -> Entry]
  BY <1>2 DEF Entry
<1> HIDE DEF where, left
<1>7. pc'[w] = where /\ Batch(w)' = taken /\ tx'[w] = None /\ None \in AnyTx
  BY <1>1, <1>5, <1>6, GoEffect, TxEffect DEF Sessions, AnyTx
<1>8. ~ Handles(w)' /\ WorkStays(w)
  BY <1>5, <1>7 DEF Handles, WorkStays
<1>9. RowsStay(w) /\ Rows' = Rows
  <2>1. \A j \in JobIds : jobs'[j] = jobs[j] \/ UpdatedRow(w, j)
    <3> SUFFICES ASSUME NEW j \in JobIds PROVE jobs'[j] = jobs[j] \/ UpdatedRow(w, j)
      OBVIOUS
    <3>1. CASE j \in tx[w].rows
      <4>1. jobs'[j] = PastDeadline(jobs[j])
        BY <1>1, <1>2, <3>1
      <4> QED BY <1>2, <3>1, <4>1 DEF UpdatedRow, Terminal
    <3>2. CASE j \notin tx[w].rows /\ j \in taken
      <4>1. jobs'[j] = leased(j)
        BY <1>1, <3>2
      <4>2. /\ j \in Rows /\ jobs[j].status = "queued" /\ jobs'[j] \in Job
            /\ jobs'[j].status = "running" /\ jobs'[j].locked_by = w
        BY <1>2, <1>4, <3>2, <4>1
      <4> QED BY <1>8, <4>2 DEF UpdatedRow, Terminal
    <3>3. CASE j \notin tx[w].rows /\ j \notin taken
      BY <1>1, <3>3
    <3> QED BY <3>1, <3>2, <3>3
  <2>2. jobs' = [j \in JobIds |-> jobs'[j]]
    BY <1>1
  <2> QED BY <2>1, <2>2, JobsUpdated
<1>10. AttemptsStay(w) /\ Recorded' = Recorded
  BY <1>1, AttemptsUnchanged
<1>11. SessionInv(w)'
  <2>1. LockedStays(w)' /\ TxOf(w)' /\ NumbersRead(w)'
    BY <1>5, <1>7 DEF LockedStays, Open, TxOf, TxIs, NumbersRead
  <2>2. WorkInv(w)'
    BY <1>2, <1>5, <1>7, <1>8, <1>9 DEF WorkInv, Handles
  <2> QED BY <1>7, <2>1, <2>2 DEF SessionInv, Open
<1>12. /\ current' \in [Workers -> JobIds \cup {None}] /\ crashes' \in 0 .. MaxCrashes
       /\ policy_decisions' \subseteq JobIds \X ThrottleReasons
  BY <1>1, OtherTypes
<1> QED BY <1>1, <1>5, <1>6, <1>7, <1>8, <1>9, <1>10, <1>11, <1>12, WorkerMoves

----------------------------------------------------------------------------
(* Steps that end a process                                                 *)

\* The INSERT fails on the unique constraint.
LEMMA StartRejectedStep ==
  ASSUME WorkerInv, NEW w \in Workers, StartRejected(w)
  PROVE  WorkerInv' /\ StaysFinished
<1>1. /\ pc' = [pc EXCEPT ![w] = "down"] /\ work' = [work EXCEPT ![w] = Nothing]
      /\ tx' = [tx EXCEPT ![w] = None]
      /\ UNCHANGED <<current, crashes, jobs, job_attempts, policy_decisions, now>>
  BY DEF StartRejected, start_attempts_rejected, Rollback, Commit, Go, tables
<1>2. RowsStay(w) /\ AttemptsStay(w) /\ Recorded' = Recorded
  BY <1>1, JobsUnchanged, AttemptsUnchanged
<1>3. LockedStays(w)' /\ None \in AnyTx
  BY <1>1, TxEffect, NothingLocked DEF Sessions, AnyTx
<1>4. "down" \in PcValues \ {"leased", "starting"}
  BY DEF PcValues
<1>5. /\ current' \in [Workers -> JobIds \cup {None}] /\ crashes' \in 0 .. MaxCrashes
      /\ policy_decisions' \subseteq JobIds \X ThrottleReasons
  BY <1>1, OtherTypes
<1> QED BY <1>1, <1>2, <1>3, <1>4, <1>5, WorkerMovesOn

\* A process is killed, or ends since its job is not its own any more.
LEMMA DownSteps ==
  ASSUME WorkerInv, NEW w \in Workers, Crash(w) \/ SettleRejected(w)
  PROVE  WorkerInv' /\ StaysFinished
<1>1. /\ pc' = [pc EXCEPT ![w] = "down"] /\ work' = [work EXCEPT ![w] = Nothing]
      /\ current' = [current EXCEPT ![w] = None]
      /\ UNCHANGED <<jobs, job_attempts, policy_decisions, now>>
  BY DEF Crash, SettleRejected, Settled, tables, pgVars
<1>2. tx' = [tx EXCEPT ![w] = None] /\ None \in AnyTx
  <2>1. CASE Crash(w)
    BY <2>1 DEF Crash, Rollback, Commit, AnyTx
  <2>2. CASE SettleRejected(w)
    BY <2>2, NoTx DEF SettleRejected, pgVars
  <2> QED BY <2>1, <2>2
<1>3. crashes' \in 0 .. MaxCrashes
  BY OtherTypes, WorkerAssumption DEF Crash, SettleRejected, Settled
<1>4. RowsStay(w) /\ AttemptsStay(w) /\ Recorded' = Recorded
  BY <1>1, JobsUnchanged, AttemptsUnchanged
<1>5. LockedStays(w)'
  BY <1>2, TxEffect, NothingLocked DEF Sessions, AnyTx
<1>6. "down" \in PcValues \ {"leased", "starting"}
  BY DEF PcValues
<1>7. /\ current' \in [Workers -> JobIds \cup {None}] /\ \A v \in Workers \ {w} : current'[v] = current[v]
      /\ policy_decisions' \subseteq JobIds \X ThrottleReasons
  BY <1>1, OtherTypes
<1> QED BY <1>1, <1>2, <1>3, <1>4, <1>5, <1>6, <1>7, WorkerMovesOn

----------------------------------------------------------------------------
(* Handlers and reports                                                     *)

\* Where a worker is afterwards, and with what.
LEMMA Moved ==
  ASSUME WorkerInv, NEW w \in Workers, NEW where, NEW left,
         pc' = [pc EXCEPT ![w] = where], work' = [work EXCEPT ![w] = left]
  PROVE  pc'[w] = where /\ work'[w] = left /\ Batch(w)' = DOMAIN left
<1>1. pc'[w] = where
  BY DEF WorkerInv, WorkerTypeOK
<1>2. work'[w] = left
  BY DEF WorkerInv, WorkIsFunction
<1> QED BY <1>1, <1>2 DEF Batch

\* A worker that goes on with what is left of a batch it has attempts for.
GoesOn(w, where, S, left) ==
  /\ Handles(w) /\ where \in {"finishing", "marking", "failing", "settling", "top", "down"}
  /\ S \in SUBSET Batch(w) /\ left \in [S -> Entry]
  /\ \A j \in S : left[j].attempt = work[w][j].attempt
  /\ pc' = [pc EXCEPT ![w] = where] /\ work' = [work EXCEPT ![w] = left]
  /\ current' \in [Workers -> JobIds \cup {None}]
  /\ \A v \in Workers \ {w} : current'[v] = current[v]
  /\ UNCHANGED <<crashes, tx, now, policy_decisions>>
  /\ RowsStay(w) /\ AttemptsStay(w) /\ Recorded' = Recorded

LEMMA BatchMoves ==
  ASSUME WorkerInv, NEW w \in Workers, NEW where, NEW S, NEW left,
         GoesOn(w, where, S, left), WorkInv(w)'
  PROVE  WorkerInv' /\ StaysFinished
<1> USE DEF GoesOn
<1>1. S \in SUBSET JobIds /\ where \in PcValues
  BY DEF WorkerInv, WorkerTypeOK, Batch, PcValues
<1>2. tx' = [tx EXCEPT ![w] = None] /\ None \in AnyTx /\ tx'[w] = None
  BY NoTx DEF Handles
<1>3. pc'[w] = where /\ work'[w] = left /\ Batch(w)' = S
  <2>1. DOMAIN left = S
    OBVIOUS
  <2> QED BY <2>1, Moved
<1>4. WorkStays(w)
  BY <1>3 DEF WorkStays
<1>5. SessionInv(w)'
  <2>1. LockedStays(w)' /\ TxOf(w)' /\ NumbersRead(w)'
    BY <1>2, <1>3 DEF LockedStays, Open, TxOf, TxIs, NumbersRead
  <2> QED BY <1>2, <2>1 DEF SessionInv, Open
<1>6. crashes' \in 0 .. MaxCrashes /\ policy_decisions' \subseteq JobIds \X ThrottleReasons
  BY OtherTypes
<1> QED BY <1>1, <1>2, <1>4, <1>5, <1>6, WorkerMoves

\* What a worker has in its batch.
LEMMA BatchFields ==
  ASSUME WorkerInv, NEW w \in Workers, Handles(w)
  PROVE  /\ Batch(w) \in SUBSET Rows /\ Batch(w) \in SUBSET JobIds /\ work[w] \in [Batch(w) -> Entry]
         /\ \A j \in Batch(w) : HasAttempt(w, j)
         /\ \A j \in Batch(w) : /\ work[w][j].attempt \in Recorded /\ work[w][j].attempt \in AttemptIds
                                /\ job_attempts[work[w][j].attempt] \in Attempt
                                /\ job_attempts[work[w][j].attempt].job_id = j
                                /\ job_attempts[work[w][j].attempt].worker_id = w
<1>1. WorkInv(w)
  BY DEF WorkerInv, SessionInv, Sessions
<1>2. Batch(w) \in SUBSET JobIds /\ work[w] \in [Batch(w) -> Entry]
  BY DEF WorkerInv, WorkerTypeOK, Batch
<1>3. \A j \in Batch(w) : HasAttempt(w, j)
  BY <1>1 DEF WorkInv
<1>4. \A j \in Batch(w) : /\ work[w][j].attempt \in Recorded
                         /\ job_attempts[work[w][j].attempt].job_id = j
                         /\ job_attempts[work[w][j].attempt].worker_id = w
  BY <1>3 DEF HasAttempt, AttemptsOf
<1> QED BY <1>1, <1>2, <1>3, <1>4, Types DEF WorkInv

\* The handlers return.
LEMMA HandleStep ==
  ASSUME WorkerInv, NEW w \in Workers, Handle(w)
  PROVE  WorkerInv' /\ StaysFinished
<1>1. PICK outcome :
        /\ outcome \in [Batch(w) -> Outcomes]
        /\ Go(w, IF \E j \in Batch(w) : outcome[j] = "ok" THEN "finishing" ELSE "failing",
              [j \in Batch(w) |-> [work[w][j] EXCEPT !.outcome = outcome[j]]])
  BY DEF Handle
<1> DEFINE where == IF \E j \in Batch(w) : outcome[j] = "ok" THEN "finishing" ELSE "failing"
           left == [j \in Batch(w) |-> [work[w][j] EXCEPT !.outcome = outcome[j]]]
<1>2. /\ pc' = [pc EXCEPT ![w] = where] /\ work' = [work EXCEPT ![w] = left]
      /\ UNCHANGED <<current, crashes, jobs, job_attempts, policy_decisions, tx, now>>
      /\ pc[w] = "handling" /\ Handles(w)
  BY <1>1 DEF Handle, Go, pgVars, Handles
<1>3. /\ Batch(w) \in SUBSET Rows /\ Batch(w) \in SUBSET JobIds /\ work[w] \in [Batch(w) -> Entry]
      /\ \A j \in Batch(w) : HasAttempt(w, j)
  BY <1>2, BatchFields
<1>4. \A j \in Batch(w) : outcome[j] \in HandlerOutcomes
  BY <1>1, WorkerAssumption
<1>5. /\ left \in [Batch(w) -> Entry]
      /\ \A j \in Batch(w) : left[j].attempt = work[w][j].attempt /\ left[j].outcome = outcome[j]
  BY <1>3, <1>4 DEF Entry
<1>6. /\ where \in {"finishing", "failing"} /\ where \in PcValues
      /\ where = "failing" => \A j \in Batch(w) : outcome[j] # "ok"
  BY DEF PcValues
<1> HIDE DEF where, left
<1>7. pc'[w] = where /\ work'[w] = left /\ Batch(w)' = Batch(w)
  <2>1. DOMAIN left = Batch(w)
    BY <1>5
  <2> QED BY <1>2, <2>1, Moved
<1>8. RowsStay(w) /\ AttemptsStay(w) /\ Rows' = Rows /\ Recorded' = Recorded
  BY <1>2, JobsUnchanged, AttemptsUnchanged
<1>9. WorkInv(w)'
  <2>1. \A j \in Batch(w) : HasAttempt(w, j)'
    BY <1>2, <1>3, <1>5, <1>6, <1>7, <1>8 DEF HasAttempt, AttemptsOf
  <2> QED BY <1>3, <1>4, <1>5, <1>6, <1>7, <1>8, <2>1 DEF WorkInv, Handles
<1>10. current' \in [Workers -> JobIds \cup {None}]
  BY <1>2, OtherTypes
<1>11. /\ where \in {"finishing", "marking", "failing", "settling", "top", "down"}
       /\ Batch(w) \in SUBSET Batch(w)
       /\ \A v \in Workers \ {w} : current'[v] = current[v]
       /\ UNCHANGED <<crashes, tx, now, policy_decisions>>
  BY <1>2, <1>6
<1>12. left \in [Batch(w) -> Entry] /\ \A j \in Batch(w) : left[j].attempt = work[w][j].attempt
  BY <1>5
<1>13. pc' = [pc EXCEPT ![w] = where] /\ work' = [work EXCEPT ![w] = left] /\ Handles(w)
  BY <1>2
<1>14. GoesOn(w, where, Batch(w), left)
  BY <1>8, <1>10, <1>11, <1>12, <1>13 DEF GoesOn
<1> QED BY <1>9, <1>14, BatchMoves

\* on_success_batch, first the attempts: those of the jobs whose handlers returned Ok
\* succeed, the others of the batch are other attempts.
LEMMA FinishSucceededStep ==
  ASSUME WorkerInv, NEW w \in Workers, FinishSucceeded(w)
  PROVE  WorkerInv' /\ StaysFinished
<1> DEFINE A == {work[w][j].attempt : j \in Succeeded(w)}
           done(a) == [job_attempts[a] EXCEPT !.status = "succeeded"]
<1>1. /\ pc' = [pc EXCEPT ![w] = "marking"] /\ work' = [work EXCEPT ![w] = work[w]]
      /\ A \cap ClosedByOthers(w) = {}
      /\ job_attempts' = [a \in AttemptIds |-> IF a \in A THEN done(a) ELSE job_attempts[a]]
      /\ UNCHANGED <<current, crashes, jobs, policy_decisions, tx, now>>
      /\ pc[w] = "finishing" /\ Handles(w)
  BY DEF FinishSucceeded, finish_succeeded_batch, Go, Handles
<1>2. /\ Batch(w) \in SUBSET Rows /\ Batch(w) \in SUBSET JobIds /\ work[w] \in [Batch(w) -> Entry]
      /\ \A j \in Batch(w) : HasAttempt(w, j)
      /\ \A j \in Batch(w) : /\ work[w][j].attempt \in Recorded /\ work[w][j].attempt \in AttemptIds
                             /\ job_attempts[work[w][j].attempt] \in Attempt
                             /\ job_attempts[work[w][j].attempt].job_id = j
                             /\ job_attempts[work[w][j].attempt].worker_id = w
  BY <1>1, BatchFields
<1>3. \A j \in Batch(w) : work[w][j].attempt \in A <=> work[w][j].outcome = "ok"
  BY <1>2 DEF Succeeded
<1>4. \A a \in A : /\ a \in Recorded /\ a \in AttemptIds /\ job_attempts[a] \in Attempt
                  /\ job_attempts[a].worker_id = w
  BY <1>2 DEF Succeeded
<1> HIDE DEF A
<1>5. \A a \in A : /\ done(a) \in Attempt /\ done(a).status = "succeeded"
                  /\ done(a).job_id = job_attempts[a].job_id
                  /\ done(a).attempt_no = job_attempts[a].attempt_no
                  /\ done(a).worker_id = job_attempts[a].worker_id
  BY <1>4 DEF Attempt
<1> HIDE DEF done
<1>6. \A a \in A : job_attempts'[a] = done(a)
  BY <1>1, <1>4
<1>7. \A a \in AttemptIds : job_attempts'[a] = job_attempts[a] \/ UpdatedAttempt(w, a)
  <2> SUFFICES ASSUME NEW a \in A PROVE UpdatedAttempt(w, a)
    BY <1>1
  <2> QED BY <1>1, <1>4, <1>5, <1>6 DEF UpdatedAttempt
<1>8. AttemptsStay(w) /\ Recorded' = Recorded
  <2>1. job_attempts' = [a \in AttemptIds |-> job_attempts'[a]]
    BY <1>1
  <2> QED BY <1>7, <2>1, AttemptsUpdated
<1>9. RowsStay(w) /\ Rows' = Rows
  BY <1>1, JobsUnchanged
<1>10. "marking" \in PcValues
  BY DEF PcValues
<1>11. pc'[w] = "marking" /\ work'[w] = work[w] /\ Batch(w)' = Batch(w)
  <2>1. pc' = [pc EXCEPT ![w] = "marking"] /\ work' = [work EXCEPT ![w] = work[w]]
    BY <1>1
  <2> QED BY <2>1, Moved DEF Batch
<1>12. WorkInv(w)'
  <2>1. ASSUME NEW j \in Batch(w) PROVE HasAttempt(w, j)'
    <3>1. LET a == work[w][j].attempt
          IN  /\ a \in AttemptIds /\ a \in Recorded' /\ job_attempts'[a].job_id = j /\ job_attempts'[a].worker_id = w
              /\ a \notin A => job_attempts'[a] = job_attempts[a]
      <4>1. work[w][j].attempt \in AttemptIds /\ work[w][j].attempt \in Recorded
            /\ job_attempts[work[w][j].attempt].job_id = j
            /\ job_attempts[work[w][j].attempt].worker_id = w
        BY <1>2
      <4>2. job_attempts'[work[w][j].attempt].job_id = j /\ job_attempts'[work[w][j].attempt].worker_id = w
        BY <1>8, <4>1 DEF AttemptsStay
      <4>3. work[w][j].attempt \notin A =>
              job_attempts'[work[w][j].attempt] = job_attempts[work[w][j].attempt]
        BY <1>1, <4>1
      <4> QED BY <1>8, <4>1, <4>2, <4>3
    <3>2. work[w][j].attempt \in A => job_attempts'[work[w][j].attempt].status = "succeeded"
      BY <1>5, <1>6
    <3>3. job_attempts[work[w][j].attempt].status # "succeeded"
      BY <1>1, <1>2 DEF HasAttempt
    <3> QED BY <1>3, <1>11, <3>1, <3>2, <3>3 DEF HasAttempt, AttemptsOf
  <2>2. \A j \in Batch(w) : work[w][j].outcome \in HandlerOutcomes
    BY <1>1 DEF WorkerInv, SessionInv, WorkInv, Sessions
  <2> QED BY <1>2, <1>9, <1>11, <2>1, <2>2 DEF WorkInv, Handles
<1>13. current' \in [Workers -> JobIds \cup {None}]
  BY <1>1, OtherTypes
<1>14. GoesOn(w, "marking", Batch(w), work[w])
  BY <1>1, <1>2, <1>8, <1>9, <1>13 DEF GoesOn
<1> QED BY <1>12, <1>14, BatchMoves

\* A worker that has reported some jobs goes on with the rest of its batch.
LEMMA RestOfBatch ==
  ASSUME WorkerInv, NEW w \in Workers, pc[w] \in {"marking", "settling"},
         NEW S \in SUBSET Batch(w), \A j \in S : work[w][j].outcome \in HandlerOutcomes \ {"ok"},
         NEW where \in {"top", "failing"}, where = "top" => S = {},
         NEW left \in [S -> Entry], \A j \in S : left[j] = work[w][j],
         pc' = [pc EXCEPT ![w] = where], work' = [work EXCEPT ![w] = left],
         current' \in [Workers -> JobIds \cup {None}], \A v \in Workers \ {w} : current'[v] = current[v],
         UNCHANGED <<crashes, tx, now, policy_decisions>>, UNCHANGED job_attempts,
         RowsStay(w), Rows' = Rows
  PROVE  WorkerInv' /\ StaysFinished
<1>1. Handles(w)
  BY DEF Handles
<1>2. /\ Batch(w) \in SUBSET Rows /\ work[w] \in [Batch(w) -> Entry]
      /\ \A j \in Batch(w) : HasAttempt(w, j)
  BY <1>1, BatchFields
<1>3. pc'[w] = where /\ work'[w] = left /\ Batch(w)' = S
  <2>1. DOMAIN left = S
    OBVIOUS
  <2> QED BY <2>1, Moved
<1>4. AttemptsStay(w) /\ Recorded' = Recorded
  BY AttemptsUnchanged
<1>5. WorkInv(w)'
  <2>1. ASSUME NEW j \in S PROVE HasAttempt(w, j)'
    <3>1. HasAttempt(w, j) /\ job_attempts[work[w][j].attempt].status # "succeeded"
      BY <1>2 DEF HasAttempt
    <3> QED BY <1>3, <1>4, <3>1 DEF HasAttempt, AttemptsOf
  <2>2. S \subseteq Rows'
    BY <1>2
  <2>3. \A j \in S : work'[w][j].outcome \in HandlerOutcomes \ {"ok"}
    BY <1>3
  <2>4. CASE where = "top"
    BY <1>3, <2>4 DEF WorkInv, Handles
  <2>5. CASE where = "failing"
    BY <1>3, <2>1, <2>2, <2>3, <2>5 DEF WorkInv, Handles
  <2> QED BY <2>4, <2>5
<1>6. \A j \in S : left[j].attempt = work[w][j].attempt
  OBVIOUS
<1>7. where \in {"finishing", "marking", "failing", "settling", "top", "down"}
  OBVIOUS
<1>8. GoesOn(w, where, S, left)
  BY <1>1, <1>4, <1>6, <1>7 DEF GoesOn
<1> QED BY <1>5, <1>8, BatchMoves

\* ... then the jobs that are still its own, each with its succeeded attempt.
LEMMA MarkSucceededStep ==
  ASSUME WorkerInv, NEW w \in Workers, MarkSucceeded(w)
  PROVE  WorkerInv' /\ StaysFinished
<1> DEFINE mine == StillLeased(Succeeded(w), w)
           S == Batch(w) \ Succeeded(w)
<1>1. /\ pc[w] = "marking" /\ Handles(w)
      /\ jobs' = [j \in JobIds |-> IF j \in mine THEN Unlocked(jobs[j], "succeeded") ELSE jobs[j]]
      /\ UNCHANGED <<current, crashes, job_attempts, policy_decisions, tx, now>>
  BY DEF MarkSucceeded, mark_succeeded_batch, Reported, Go, Handles
<1>2. \/ /\ pc' = [pc EXCEPT ![w] = IF S = {} THEN "top" ELSE "failing"]
         /\ work' = [work EXCEPT ![w] = [j \in S |-> work[w][j]]]
      \/ /\ pc' = [pc EXCEPT ![w] = "down"]
         /\ work' = [work EXCEPT ![w] = Nothing]
  <2>1. S = {} <=> Batch(w) \subseteq Succeeded(w)
    OBVIOUS
  <2> QED BY <2>1 DEF MarkSucceeded, Reported, Go, Without
<1>3. /\ Batch(w) \in SUBSET Rows /\ Batch(w) \in SUBSET JobIds
      /\ \A j \in Batch(w) : HasAttempt(w, j)
  BY <1>1, BatchFields
<1>4. \A j \in mine : /\ j \in Batch(w) /\ j \in Rows /\ j \in JobIds /\ jobs[j] \in Job
                     /\ jobs[j].status = "running" /\ work[w][j].outcome = "ok"
  BY <1>3, Types DEF StillLeased, Leased, Succeeded
<1>5. \A j \in mine : Unlocked(jobs[j], "succeeded") \in Job /\ Unlocked(jobs[j], "succeeded").status = "succeeded"
  BY <1>4, UnlockedRow DEF Status
<1> HIDE DEF mine
<1>6. RowsStay(w) /\ Rows' = Rows
  <2>1. ASSUME NEW j \in mine PROVE UpdatedRow(w, j)
    <3>1. jobs'[j] = Unlocked(jobs[j], "succeeded")
      BY <1>1, <1>4
    <3>2. /\ work[w][j].attempt \in AttemptsOf(j)
          /\ job_attempts[work[w][j].attempt].status = "succeeded"
      BY <1>1, <1>3, <1>4 DEF HasAttempt
    <3>3. \E a \in AttemptsOf(j) : job_attempts'[a] # None /\ job_attempts'[a].job_id = j
                                   /\ job_attempts'[a].status = "succeeded"
      BY <1>1, <3>2 DEF AttemptsOf, Recorded
    <3>4. j \in Rows /\ jobs[j].status = "running" /\ jobs'[j] \in Job /\ jobs'[j].status = "succeeded"
      BY <1>4, <1>5, <3>1
    <3> QED BY <3>3, <3>4 DEF UpdatedRow, Terminal
  <2>2. \A j \in JobIds : jobs'[j] = jobs[j] \/ UpdatedRow(w, j)
    BY <1>1, <2>1
  <2>3. jobs' = [j \in JobIds |-> jobs'[j]]
    BY <1>1
  <2> QED BY <2>2, <2>3, JobsUpdated
<1>7. \A j \in S : work[w][j].outcome \in HandlerOutcomes \ {"ok"}
  <2>1. \A j \in Batch(w) : work[w][j].outcome \in HandlerOutcomes
    BY <1>1 DEF WorkerInv, SessionInv, WorkInv, Sessions
  <2>2. \A j \in S : j \in Batch(w) /\ work[w][j].outcome # "ok"
    BY Zenon DEF Succeeded
  <2> QED BY <2>1, <2>2
<1> HIDE DEF S
<1>8. S \in SUBSET Batch(w)
  BY DEF S
<1>9. /\ current' \in [Workers -> JobIds \cup {None}] /\ crashes' \in 0 .. MaxCrashes
      /\ policy_decisions' \subseteq JobIds \X ThrottleReasons
      /\ \A v \in Workers \ {w} : current'[v] = current[v]
      /\ UNCHANGED <<crashes, tx, now, policy_decisions, job_attempts>>
  BY <1>1, OtherTypes
<1>10. CASE /\ pc' = [pc EXCEPT ![w] = IF S = {} THEN "top" ELSE "failing"]
            /\ work' = [work EXCEPT ![w] = [j \in S |-> work[w][j]]]
  <2>1. work[w] \in [Batch(w) -> Entry]
    BY <1>1, BatchFields
  <2>2. PICK where \in {"top", "failing"}, left \in [S -> Entry] :
          where = (IF S = {} THEN "top" ELSE "failing") /\ left = [j \in S |-> work[w][j]]
    BY <1>8, <2>1
  <2>3. /\ pc' = [pc EXCEPT ![w] = where]
        /\ work' = [work EXCEPT ![w] = left]
        /\ where = "top" => S = {}
        /\ \A j \in S : left[j] = work[w][j]
    BY <1>10, <2>2
  <2> QED BY <1>1, <1>6, <1>7, <1>8, <1>9, <2>3, RestOfBatch
<1>11. CASE pc' = [pc EXCEPT ![w] = "down"] /\ work' = [work EXCEPT ![w] = Nothing]
  <2>1. AttemptsStay(w) /\ Recorded' = Recorded
    BY <1>1, AttemptsUnchanged
  <2>2. tx' = [tx EXCEPT ![w] = None] /\ None \in AnyTx /\ tx'[w] = None /\ UNCHANGED now
    BY <1>1, NoTx
  <2>3. LockedStays(w)' /\ "down" \in PcValues \ {"leased", "starting"}
    BY <2>2, NothingLocked DEF PcValues
  <2> QED BY <1>6, <1>9, <1>11, <2>1, <2>2, <2>3, WorkerMovesOn
<1> QED BY <1>2, <1>10, <1>11

\* on_failure, first the attempt of one job that has failed.
LEMMA FinishFailedStep ==
  ASSUME WorkerInv, NEW w \in Workers, FinishFailed(w)
  PROVE  WorkerInv' /\ StaysFinished
<1>1. PICK j \in Batch(w) : finish_failed(work[w][j].attempt, w) /\ current' = [current EXCEPT ![w] = j]
  BY DEF FinishFailed
<1>2. PICK b : b = work[w][j].attempt
  OBVIOUS
<1>3. /\ b \notin ClosedByOthers(w)
      /\ job_attempts' = [job_attempts EXCEPT ![b] = ClosedAttempt(job_attempts[b], "HANDLER_FAILURE")]
      /\ UNCHANGED <<jobs, policy_decisions, tx, now>>
  BY <1>1, <1>2 DEF finish_failed
<1>4. /\ pc' = [pc EXCEPT ![w] = "settling"]
      /\ UNCHANGED <<work, crashes>>
      /\ pc[w] = "failing" /\ Handles(w)
  BY DEF FinishFailed, Handles
<1>5. work' = [work EXCEPT ![w] = work[w]]
  BY <1>4 DEF WorkerInv, WorkIsFunction
<1>6. /\ Batch(w) \in SUBSET Rows /\ Batch(w) \in SUBSET JobIds /\ work[w] \in [Batch(w) -> Entry]
      /\ \A i \in Batch(w) : HasAttempt(w, i)
      /\ b \in Recorded /\ b \in AttemptIds /\ job_attempts[b] \in Attempt
  BY <1>2, <1>4, BatchFields
<1>7. \A i \in Batch(w) : job_attempts[work[w][i].attempt].status # "succeeded"
  BY <1>4, <1>6 DEF HasAttempt
<1>8. /\ job_attempts \in [AttemptIds -> Attempt \cup {None}]
      /\ current \in [Workers -> JobIds \cup {None}]
  BY Types, OtherTypes
<1>9. /\ job_attempts'[b] = ClosedAttempt(job_attempts[b], "HANDLER_FAILURE")
      /\ \A a \in AttemptIds : a # b => job_attempts'[a] = job_attempts[a]
      /\ job_attempts' = [a \in AttemptIds |-> job_attempts'[a]]
  BY <1>3, <1>6, <1>8
<1>10. /\ job_attempts'[b] \in Attempt /\ job_attempts'[b].status = "failed"
       /\ job_attempts'[b].job_id = job_attempts[b].job_id
       /\ job_attempts'[b].attempt_no = job_attempts[b].attempt_no
       /\ job_attempts'[b].worker_id = job_attempts[b].worker_id
  BY <1>6, <1>9, ClosedRow
<1>11. AttemptsStay(w) /\ Recorded' = Recorded
  <2>1. UpdatedAttempt(w, b)
    BY <1>2, <1>3, <1>6, <1>7, <1>10 DEF UpdatedAttempt
  <2>2. \A a \in AttemptIds : job_attempts'[a] = job_attempts[a] \/ UpdatedAttempt(w, a)
    BY <1>9, <2>1
  <2> QED BY <1>9, <2>2, AttemptsUpdated
<1>12. RowsStay(w) /\ Rows' = Rows
  BY <1>3, JobsUnchanged
<1>13. pc'[w] = "settling" /\ work'[w] = work[w] /\ Batch(w)' = Batch(w)
  BY <1>4, <1>5, Moved DEF Batch
<1>14. /\ current' \in [Workers -> JobIds \cup {None}] /\ current'[w] = j
       /\ \A v \in Workers \ {w} : current'[v] = current[v]
  BY <1>1, <1>6, <1>8
<1>15. WorkInv(w)'
  <2>1. ASSUME NEW i \in Batch(w) PROVE HasAttempt(w, i)'
    <3>1. work[w][i].attempt \in AttemptsOf(i) /\ job_attempts[work[w][i].attempt].worker_id = w
      BY <1>6 DEF HasAttempt
    <3>2. work[w][i].attempt \in AttemptsOf(i)' /\ job_attempts'[work[w][i].attempt].worker_id = w
      BY <1>11, <3>1 DEF AttemptsStay, AttemptsOf
    <3>3. job_attempts'[work[w][i].attempt].status # "succeeded"
      BY <1>7, <1>9, <1>10, <3>1 DEF AttemptsOf, Recorded
    <3> QED BY <1>13, <3>2, <3>3 DEF HasAttempt
  <2>2. \A i \in Batch(w) : work[w][i].outcome \in HandlerOutcomes \ {"ok"}
    BY <1>4 DEF WorkerInv, SessionInv, WorkInv, Sessions
  <2> QED BY <1>6, <1>12, <1>13, <1>14, <2>1, <2>2 DEF WorkInv, Handles
<1>16. pc' = [pc EXCEPT ![w] = "settling"] /\ UNCHANGED <<crashes, tx, now, policy_decisions>>
  BY <1>3, <1>4
<1>17. GoesOn(w, "settling", Batch(w), work[w])
  BY <1>4, <1>5, <1>6, <1>11, <1>12, <1>14, <1>16 DEF GoesOn
<1> QED BY <1>15, <1>17, BatchMoves

\* The job that a worker settles is one of its batch.
LEMMA CurrentJob ==
  ASSUME WorkerInv, NEW w \in Workers, pc[w] = "settling"
  PROVE  /\ current[w] \in Batch(w) /\ current[w] \in Rows /\ current[w] \in JobIds /\ jobs[current[w]] \in Job
         /\ \A j \in Batch(w) : work[w][j].outcome \in HandlerOutcomes \ {"ok"}
<1>1. current[w] \in Batch(w) /\ \A j \in Batch(w) : work[w][j].outcome \in HandlerOutcomes \ {"ok"}
  BY DEF WorkerInv, SessionInv, WorkInv, Sessions
<1>2. Batch(w) \in SUBSET Rows
  BY BatchFields DEF Handles
<1> QED BY <1>1, <1>2, Types

\* A job that is settled leaves the batch.
LEMMA CurrentIsSettled ==
  ASSUME WorkerInv, NEW w \in Workers, pc[w] = "settling", AfterCurrent(w),
         UNCHANGED <<job_attempts, policy_decisions, tx, now>>, RowsStay(w), Rows' = Rows
  PROVE  WorkerInv' /\ StaysFinished
<1> DEFINE S == Batch(w) \ {current[w]}
<1>1. /\ pc' = [pc EXCEPT ![w] = IF S = {} THEN "top" ELSE "failing"]
      /\ work' = [work EXCEPT ![w] = [j \in S |-> work[w][j]]]
      /\ current' = [current EXCEPT ![w] = None]
      /\ UNCHANGED crashes
  BY DEF AfterCurrent, Settled, Without
<1>2. work[w] \in [Batch(w) -> Entry]
  BY BatchFields DEF Handles
<1>3. S \in SUBSET Batch(w) /\ \A j \in S : work[w][j].outcome \in HandlerOutcomes \ {"ok"}
  BY CurrentJob
<1> HIDE DEF S
<1>4. PICK where \in {"top", "failing"}, left \in [S -> Entry] :
        where = (IF S = {} THEN "top" ELSE "failing") /\ left = [j \in S |-> work[w][j]]
  BY <1>2, <1>3
<1>5. /\ pc' = [pc EXCEPT ![w] = where]
      /\ work' = [work EXCEPT ![w] = left]
      /\ where = "top" => S = {}
      /\ \A j \in S : left[j] = work[w][j]
  BY <1>1, <1>4
<1>6. /\ current' \in [Workers -> JobIds \cup {None}]
      /\ \A v \in Workers \ {w} : current'[v] = current[v]
  BY <1>1, OtherTypes
<1>7. UNCHANGED <<crashes, tx, now, policy_decisions>> /\ UNCHANGED job_attempts
  BY <1>1
<1> QED BY <1>3, <1>5, <1>6, <1>7, RestOfBatch

\* ... then the job: back to the queue,
LEMMA RetryStep ==
  ASSUME WorkerInv, NEW w \in Workers, Retry(w)
  PROVE  WorkerInv' /\ StaysFinished
<1>1. PICK d \in RetryDelays : reschedule_for_retry(current[w], w, At(now + d))
  BY DEF Retry
<1>2. PICK j : j = current[w]
  OBVIOUS
<1>3. PICK later : later = At(now + d)
  OBVIOUS
<1>4. later \in Instants
  <2>1. now + d \in Nat
    BY Types, WorkerAssumption, PostgresAssumption DEF Instants
  <2> QED BY <1>3, <2>1, AtIsInstant
<1>5. pc[w] = "settling" /\ AfterCurrent(w)
  BY DEF Retry
<1>6. j \in Rows /\ j \in JobIds /\ jobs[j] \in Job
  BY <1>2, <1>5, CurrentJob
<1>7. /\ jobs[j].status = "running"
      /\ jobs' = [jobs EXCEPT ![j] = [Unlocked(jobs[j], "queued") EXCEPT !.run_at = later]]
      /\ UNCHANGED <<job_attempts, policy_decisions, tx, now>>
  BY <1>1, <1>2, <1>3 DEF reschedule_for_retry
<1>8. PICK row \in Job : row = Unlocked(jobs[j], "queued") /\ row.status = "queued"
  BY <1>6, UnlockedRow DEF Status
<1>9. [row EXCEPT !.run_at = later] \in Job /\ [row EXCEPT !.run_at = later].status = "queued"
  BY <1>4, <1>8 DEF Job
<1>10. /\ jobs'[j] \in Job /\ jobs'[j].status = "queued"
       /\ \A i \in JobIds : i # j => jobs'[i] = jobs[i]
       /\ jobs' = [i \in JobIds |-> jobs'[i]]
  BY <1>6, <1>7, <1>8, <1>9, Types
<1>11. RowsStay(w) /\ Rows' = Rows
  <2>1. UpdatedRow(w, j)
    BY <1>6, <1>7, <1>10 DEF UpdatedRow, Terminal
  <2>2. \A i \in JobIds : jobs'[i] = jobs[i] \/ UpdatedRow(w, i)
    BY <1>10, <2>1
  <2> QED BY <1>10, <2>2, JobsUpdated
<1> QED BY <1>5, <1>7, <1>11, CurrentIsSettled

\* or to the DLQ.
LEMMA DeadLetterStep ==
  ASSUME WorkerInv, NEW w \in Workers, DeadLetter(w)
  PROVE  WorkerInv' /\ StaysFinished
<1>1. PICK j : j = current[w]
  OBVIOUS
<1>2. PICK reason : reason = DlqReason(work[w][j].outcome)
  OBVIOUS
<1>3. pc[w] = "settling" /\ AfterCurrent(w)
  BY DEF DeadLetter
<1>4. /\ j \in Batch(w) /\ j \in Rows /\ j \in JobIds /\ jobs[j] \in Job
      /\ work[w][j].outcome \in HandlerOutcomes \ {"ok"}
  BY <1>1, <1>3, CurrentJob
<1>5. reason \in ReasonCodes
  BY <1>2, <1>4 DEF ReasonCodes
<1>6. /\ jobs[j].status = "running"
      /\ jobs' = [jobs EXCEPT ![j] = [Unlocked(jobs[j], "dlq") EXCEPT !.dlq_reason_code = reason]]
      /\ UNCHANGED <<job_attempts, policy_decisions, tx, now>>
  BY <1>1, <1>2 DEF DeadLetter, mark_dlq, Leased
<1>7. PICK row \in Job : row = Unlocked(jobs[j], "dlq") /\ row.status = "dlq"
  BY <1>4, UnlockedRow DEF Status
<1>8. [row EXCEPT !.dlq_reason_code = reason] \in Job /\ [row EXCEPT !.dlq_reason_code = reason].status = "dlq"
  BY <1>5, <1>7 DEF Job
<1>9. /\ jobs'[j] \in Job /\ jobs'[j].status = "dlq"
      /\ \A i \in JobIds : i # j => jobs'[i] = jobs[i]
      /\ jobs' = [i \in JobIds |-> jobs'[i]]
  BY <1>4, <1>6, <1>7, <1>8, Types
<1>10. RowsStay(w) /\ Rows' = Rows
  <2>1. UpdatedRow(w, j)
    BY <1>4, <1>6, <1>9 DEF UpdatedRow, Terminal
  <2>2. \A i \in JobIds : jobs'[i] = jobs[i] \/ UpdatedRow(w, i)
    BY <1>9, <2>1
  <2> QED BY <1>9, <2>2, JobsUpdated
<1> QED BY <1>3, <1>6, <1>10, CurrentIsSettled

----------------------------------------------------------------------------
(* Attempts                                                                 *)

\* The number that is read follows all that are there, without a gap.
LEMMA NextNoFollows ==
  ASSUME WorkerInv, NEW j \in JobIds
  PROVE  /\ NextNo(j) \in Nat \ {0}
         /\ \A a \in AttemptsOf(j) : job_attempts[a].attempt_no < NextNo(j)
         /\ NumbersUpTo(j, NextNo(j) - 1)
         /\ \A n \in Nat \ {0} : NumbersUpTo(j, n - 1) => n <= NextNo(j)
<1>1. /\ NextNo(j) \in Nat \ {0}
      /\ \A a \in AttemptsOf(j) : job_attempts[a].attempt_no < NextNo(j)
      /\ NextNo(j) = 1 \/ \E a \in AttemptsOf(j) : job_attempts[a].attempt_no = NextNo(j) - 1
  BY Types, NextNoIsNumber
<1>2. NumbersUpTo(j, NextNo(j) - 1)
  <2>1. CASE NextNo(j) = 1
    BY <2>1 DEF NumbersUpTo
  <2>2. ASSUME NEW a \in AttemptsOf(j), job_attempts[a].attempt_no = NextNo(j) - 1
        PROVE  NumbersUpTo(j, NextNo(j) - 1)
    <3>1. a \in Recorded /\ job_attempts[a].job_id = j
      BY DEF AttemptsOf
    <3>2. NumbersUpTo(job_attempts[a].job_id, job_attempts[a].attempt_no)
      BY <3>1 DEF WorkerInv, Numbered
    <3> QED BY <2>2, <3>1, <3>2
  <2> QED BY <1>1, <2>1, <2>2
<1>3. ASSUME NEW n \in Nat \ {0}, NumbersUpTo(j, n - 1) PROVE n <= NextNo(j)
  <2>1. CASE n = 1
    BY <1>1, <2>1
  <2>2. CASE n # 1
    <3>1. n - 1 \in 1 .. (n - 1)
      BY <2>2
    <3>2. PICK a \in AttemptsOf(j) : job_attempts[a].attempt_no = n - 1
      BY <1>3, <3>1 DEF NumbersUpTo
    <3>3. n - 1 < NextNo(j)
      BY <1>1, <3>2
    <3> QED BY <1>1, <3>3
  <2> QED BY <2>1, <2>2
<1> QED BY <1>1, <1>2, <1>3

\* A worker reads the numbers for the jobs of its batch that it still holds.
LEMMA StartBeginStep ==
  ASSUME WorkerInv, NEW w \in Workers, StartBegin(w)
  PROVE  WorkerInv' /\ StaysFinished
<1>1. PICK joined : joined = StillLeased(Batch(w), w)
  OBVIOUS
<1>2. PICK numbers : numbers = [j \in JobIds |-> IF j \in joined THEN NextNo(j) ELSE 0]
  OBVIOUS
<1>3. PICK t : t = [kind |-> "start", at |-> now, rows |-> {}, closing |-> {},
                    joined |-> joined, numbers |-> numbers]
  OBVIOUS
<1>4. /\ pc[w] = "leased"
      /\ pc' = [pc EXCEPT ![w] = "starting"] /\ work' = [work EXCEPT ![w] = work[w]]
      /\ tx' = [tx EXCEPT ![w] = t]
      /\ UNCHANGED <<current, crashes, jobs, job_attempts, policy_decisions, now>>
  <2>1. Begin(w, [kind |-> "start", at |-> now, rows |-> {}, closing |-> {},
                  joined |-> joined, numbers |-> numbers])
    BY <1>1, <1>2, Zenon DEF StartBegin, start_attempts_begin
  <2> QED BY <1>3, <2>1 DEF StartBegin, start_attempts_begin, Begin, Go, tables
<1>5. /\ Batch(w) \in SUBSET Rows /\ Batch(w) \in SUBSET JobIds
      /\ work[w] \in [Batch(w) -> Entry]
  <2>1. WorkInv(w)
    BY DEF WorkerInv, SessionInv, Sessions
  <2>2. DOMAIN work[w] \subseteq JobIds /\ work[w] \in [DOMAIN work[w] -> Entry]
    BY DEF WorkerInv, WorkerTypeOK
  <2> QED BY <2>1, <2>2 DEF WorkInv, Batch
<1>6. \A j \in joined : j \in Batch(w) /\ j \in JobIds /\ Leased(j, w)
  BY <1>1, <1>5 DEF StillLeased
<1>7. numbers \in [JobIds -> Nat] /\ \A j \in joined : numbers[j] = NextNo(j)
  <2>1. \A j \in JobIds : NextNo(j) \in Nat
    BY NextNoFollows
  <2> QED BY <1>2, <1>6, <2>1
<1>8. t \in StartTx
  BY <1>3, <1>6, <1>7, Types DEF StartTx
<1>9. /\ t \in AnyTx /\ t # None /\ t.kind = "start" /\ t.rows = {} /\ t.closing = {}
      /\ t.joined = joined /\ t.numbers = numbers
  BY <1>3, <1>8, AbsentAssumption DEF AnyTx
<1>10. tx' \in [Sessions -> AnyTx] /\ tx'[w] = t /\ \A o \in Sessions \ {w} : tx'[o] = tx[o]
  BY <1>4, <1>9, TxEffect DEF Sessions, AnyTx
<1>11. /\ pc' \in [Workers -> PcValues] /\ WorkIsFunction'
       /\ \A v \in Workers : DOMAIN work'[v] \subseteq JobIds /\ work'[v] \in [DOMAIN work'[v] -> Entry]
       /\ pc'[w] = "starting" /\ work'[w] = work[w] /\ Batch(w)' = Batch(w)
       /\ \A v \in Workers \ {w} : pc'[v] = pc[v] /\ work'[v] = work[v]
  <2>1. "starting" \in PcValues
    BY DEF PcValues
  <2> QED BY <1>4, <1>5, <2>1, GoEffect
<1>12. Frame(w)
  BY <1>4, <1>10, <1>11 DEF Frame
<1>13. /\ RowsStay(w) /\ AttemptsStay(w) /\ Rows' = Rows /\ Recorded' = Recorded
       /\ \A j, n : NumbersUpTo(j, n) => NumbersUpTo(j, n)'
       /\ \A j, v : Leased(j, v)' <=> Leased(j, v)
  <2>1. RowsStay(w) /\ AttemptsStay(w) /\ Rows' = Rows /\ Recorded' = Recorded
    BY <1>4, JobsUnchanged, AttemptsUnchanged
  <2>2. \A j, n : NumbersUpTo(j, n) => NumbersUpTo(j, n)'
    BY <2>1, AttemptsOfStay
  <2> QED BY <1>4, <2>1, <2>2 DEF Leased
<1>14. ~ Handles(w)' /\ WorkStays(w)
  BY <1>11 DEF Handles, WorkStays
<1>15. WorkerTypeOK'
  <2>1. /\ current' \in [Workers -> JobIds \cup {None}] /\ crashes' \in 0 .. MaxCrashes
        /\ policy_decisions' \subseteq JobIds \X ThrottleReasons /\ now' \in Instants
    BY <1>4, OtherTypes, Types
  <2> QED BY <1>10, <1>11, <1>13, <2>1 DEF WorkerTypeOK, PgTypeOK, RowsStay, AttemptsStay, AnyTx
<1>16. SessionInv(w)'
  <2>1. LockedStays(w)'
    BY <1>9, <1>10 DEF LockedStays
  <2>2. TxOf(w)'
    BY <1>9, <1>10, <1>11 DEF TxOf, TxIs
  <2>3. WorkInv(w)'
    BY <1>5, <1>11, <1>13, <1>14 DEF WorkInv
  <2>4. \A j \in joined : NextNo(j) \in Nat \ {0} /\ NumbersUpTo(j, NextNo(j) - 1)
    BY <1>6, NextNoFollows
  <2>5. NumbersRead(w)'
    BY <1>6, <1>7, <1>9, <1>10, <1>11, <1>13, <2>4 DEF NumbersRead
  <2>6. w \notin Clients
    BY PostgresAssumption
  <2> QED BY <2>1, <2>2, <2>3, <2>5, <2>6 DEF SessionInv
<1>17. \A o \in Sessions : SessionInv(o)'
  BY <1>12, <1>13, <1>16, OthersStay
<1>18. LocksExclusive'
  <2>1. LocksOwn(w)
    BY <1>9, <1>10 DEF LocksOwn
  <2> QED BY <1>12, <2>1, LocksStayExclusive
<1>19. StaleNumbers'
  <2> SUFFICES ASSUME NEW x \in Workers, NEW v \in Workers, NEW j \in JobIds, x # v,
                      TxIs(x, "start")', (j \in tx[x].joined)', Leased(j, v)'
               PROVE  /\ TxIs(v, "start")' /\ (j \in tx[v].joined)' => tx'[x].numbers[j] <= tx'[v].numbers[j]
                      /\ Handles(v)' /\ j \in Batch(v)' =>
                           tx'[x].numbers[j] <= job_attempts'[work'[v][j].attempt].attempt_no
    BY DEF StaleNumbers
  <2>1. Leased(j, v)
    BY <1>13
  <2>2. x # w
    <3> SUFFICES ASSUME x = w PROVE FALSE
      OBVIOUS
    <3>1. Leased(j, w)
      BY <1>6, <1>9, <1>10
    <3> QED BY <2>1, <3>1 DEF Leased
  <2>3. tx'[x] = tx[x] /\ TxIs(x, "start") /\ j \in tx[x].joined
    BY <1>10, <2>2 DEF TxIs, Sessions
  <2>4. CASE v = w
    <3>1. tx[x].numbers[j] \in Nat \ {0} /\ NumbersUpTo(j, tx[x].numbers[j] - 1)
      BY <2>3 DEF WorkerInv, SessionInv, NumbersRead, Sessions
    <3>2. tx[x].numbers[j] <= NextNo(j)
      BY <3>1, NextNoFollows
    <3> QED BY <1>7, <1>9, <1>10, <1>14, <2>3, <2>4, <3>2
  <2>5. CASE v # w
    <3>1. tx'[v] = tx[v] /\ pc'[v] = pc[v] /\ work'[v] = work[v]
      BY <1>10, <1>11, <2>5 DEF Sessions
    <3>2. /\ TxIs(v, "start")' = TxIs(v, "start") /\ Handles(v)' = Handles(v) /\ Batch(v)' = Batch(v)
      BY <3>1 DEF TxIs, Handles, Batch
    <3> QED BY <1>4, <2>1, <2>3, <3>1, <3>2 DEF WorkerInv, StaleNumbers
  <2> QED BY <2>4, <2>5
<1>20. Numbered' /\ AttemptNosIncrease' /\ HolderHasLatestAttempt' /\ AckedHasAttempt'
  BY <1>12, <1>13, <1>14, <1>17, NumbersStay, HoldersStay, EvidenceStays
<1> QED BY <1>11, <1>13, <1>15, <1>17, <1>18, <1>19, <1>20 DEF WorkerInv, RowsStay, StaysFinished

\* What the INSERT of attempts does: each job that was joined gets one attempt with the
\* number that was read, later than all that are there and higher than all of its job.
Inserted(w, j, a) ==
  /\ a \in AttemptIds \ Recorded /\ \A b \in Recorded : b < a
  /\ job_attempts'[a] \in Attempt
  /\ job_attempts'[a].job_id = j /\ job_attempts'[a].attempt_no = tx[w].numbers[j]
  /\ job_attempts'[a].worker_id = w /\ job_attempts'[a].status = "running"

LEMMA InsertEffect ==
  ASSUME WorkerInv, NEW w \in Workers, StartInsert(w), NEW new,
         new = [j \in tx[w].joined |-> NewAttempt(tx[w].joined, j)]
  PROVE  /\ tx[w].joined \in SUBSET Batch(w)
         /\ \A j \in tx[w].joined : Inserted(w, j, new[j])
         /\ \A j \in tx[w].joined : /\ tx[w].numbers[j] \in Nat \ {0} /\ NumbersUpTo(j, tx[w].numbers[j] - 1)
                                    /\ \A a \in AttemptsOf(j) : job_attempts[a].attempt_no < tx[w].numbers[j]
         /\ \A a \in Recorded : job_attempts'[a] = job_attempts[a]
         /\ job_attempts' \in [AttemptIds -> Attempt \cup {None}]
         /\ Recorded' = Recorded \cup {new[j] : j \in tx[w].joined}
<1>1. PICK mine : mine = tx[w].joined
  OBVIOUS
<1>2. PICK numbers : numbers = tx[w].numbers
  OBVIOUS
<1> DEFINE row(j) == [job_id |-> j, attempt_no |-> numbers[j], worker_id |-> w,
                      started_at |-> tx[w].at, status |-> "running", error_code |-> None]
<1>3. /\ ~ NumberTaken(w)
      /\ Max(Recorded \cup {0}) + Cardinality(mine) <= MaxAttemptId
      /\ job_attempts' = [a \in AttemptIds |->
           IF \E j \in mine : a = NewAttempt(mine, j)
           THEN row(CHOOSE j \in mine : a = NewAttempt(mine, j)) ELSE job_attempts[a]]
      /\ pc[w] = "starting"
  BY <1>1, <1>2, Zenon DEF StartInsert, start_attempts_insert
<1>4. /\ mine \in SUBSET Batch(w)
      /\ \A j \in mine : numbers[j] \in Nat \ {0} /\ NumbersUpTo(j, numbers[j] - 1)
  BY <1>1, <1>2, <1>3 DEF WorkerInv, SessionInv, TxOf, NumbersRead, Sessions
<1>5. Batch(w) \in SUBSET Rows
  BY DEF WorkerInv, SessionInv, WorkInv, Sessions
<1>6. mine \in SUBSET JobIds /\ IsFiniteSet(mine) /\ \A j \in mine : j \in Rows /\ j \in JobIds
  <2>1. IsFiniteSet(Rows) /\ mine \in SUBSET Rows
    BY <1>4, <1>5 DEF WorkerInv
  <2> QED BY <2>1, FS_Subset DEF Rows
<1>7. tx[w].at \in Instants
  BY <1>3, Types DEF WorkerInv, SessionInv, TxOf, TxIs, Open, Sessions
<1>8. \A j \in mine : row(j) \in Attempt
  BY <1>4, <1>6, <1>7 DEF Attempt
<1>9. /\ \A i, j \in mine : NewAttempt(mine, i) = NewAttempt(mine, j) => i = j
      /\ \A j \in mine : NewAttempt(mine, j) \in 1 .. (Max(Recorded \cup {0}) + Cardinality(mine))
  BY <1>6, NewAttemptsDiffer
<1>10. \A j \in mine : NewAttempt(mine, j) \notin Recorded /\ \A b \in Recorded : b < NewAttempt(mine, j)
  BY <1>6, NewAttemptIsNew
<1>11. new = [j \in mine |-> NewAttempt(mine, j)]
  BY <1>1
<1> HIDE DEF row
<1>12. \A i, j \in mine : new[i] = new[j] => i = j
  BY <1>9, <1>11
<1>13. \A j \in mine : new[j] \in AttemptIds \ Recorded /\ \A b \in Recorded : b < new[j]
  <2> SUFFICES ASSUME NEW j \in mine
               PROVE  new[j] \in AttemptIds \ Recorded /\ \A b \in Recorded : b < new[j]
    OBVIOUS
  <2>1. new[j] = NewAttempt(mine, j)
    BY <1>11
  <2>2. PICK m : m = Max(Recorded \cup {0}) + Cardinality(mine)
    OBVIOUS
  <2>3. new[j] \in 1 .. m /\ m <= MaxAttemptId /\ MaxAttemptId \in Nat
    BY <1>3, <1>9, <2>1, <2>2, PostgresAssumption
  <2>4. m \in Int
    <3>1. Cardinality(mine) \in Nat
      BY <1>6, FS_CardinalityType
    <3>2. Max(Recorded \cup {0}) \in Nat
      <4>1. Recorded \cup {0} \in SUBSET (0 .. MaxAttemptId) /\ MaxAttemptId \in Nat
        BY PostgresAssumption DEF Recorded, AttemptIds
      <4>2. Max(Recorded \cup {0}) \in Recorded \cup {0}
        BY <4>1, MaxOfNumbers
      <4> QED BY <4>1, <4>2
    <3> QED BY <2>2, <3>1, <3>2
  <2>5. new[j] \in AttemptIds
    BY <2>3, <2>4 DEF AttemptIds
  <2> QED BY <1>10, <2>1, <2>5
<1>14. \A j \in mine : job_attempts'[new[j]] = row(j)
  <2> SUFFICES ASSUME NEW j \in mine PROVE job_attempts'[new[j]] = row(j)
    OBVIOUS
  <2>1. new[j] = NewAttempt(mine, j) /\ new[j] \in AttemptIds
    BY <1>11, <1>13
  <2>2. (CHOOSE i \in mine : new[j] = NewAttempt(mine, i)) = j
    BY <1>9, <2>1
  <2>3. \E i \in mine : new[j] = NewAttempt(mine, i)
    BY <2>1
  <2>4. job_attempts'[new[j]] = row(CHOOSE i \in mine : new[j] = NewAttempt(mine, i))
    BY <1>3, <2>1, <2>3
  <2> QED BY <2>2, <2>4
<1>15. \A a \in AttemptIds : (\A j \in mine : a # new[j]) => job_attempts'[a] = job_attempts[a]
  BY <1>3, <1>11
<1>16. \A a \in Recorded : job_attempts'[a] = job_attempts[a]
  BY <1>13, <1>15 DEF Recorded
<1>17. job_attempts' \in [AttemptIds -> Attempt \cup {None}]
  <2>1. \A a \in AttemptIds : job_attempts'[a] \in Attempt \cup {None}
    BY <1>8, <1>14, <1>15, Types
  <2>2. job_attempts' = [a \in AttemptIds |-> job_attempts'[a]]
    BY <1>3
  <2> QED BY <2>1, <2>2
<1>18. Recorded' = Recorded \cup {new[j] : j \in mine}
  <2>1. \A j \in mine : job_attempts'[new[j]] # None
    BY <1>8, <1>14, AbsentAssumption
  <2> QED BY <1>13, <1>15, <1>16, <2>1 DEF Recorded
<1>19. \A j \in mine : Inserted(w, j, new[j])
  <2> SUFFICES ASSUME NEW j \in mine PROVE Inserted(w, j, new[j])
    OBVIOUS
  <2>1. job_attempts'[new[j]] = row(j) /\ row(j) \in Attempt
    BY <1>8, <1>14
  <2>2. /\ row(j).job_id = j /\ row(j).attempt_no = numbers[j]
        /\ row(j).worker_id = w /\ row(j).status = "running"
    BY DEF row
  <2> QED BY <1>2, <1>13, <2>1, <2>2 DEF Inserted
<1>20. ASSUME NEW j \in mine, NEW a \in AttemptsOf(j) PROVE job_attempts[a].attempt_no < numbers[j]
  <2>1. job_attempts[a].attempt_no # numbers[j]
    BY <1>1, <1>2, <1>3 DEF NumberTaken
  <2>2. a \in Recorded /\ job_attempts[a].job_id = j
    BY DEF AttemptsOf
  <2>3. job_attempts[a].attempt_no \in Nat /\ NumbersUpTo(j, job_attempts[a].attempt_no)
    BY <2>2 DEF WorkerInv, Numbered
  <2>4. ASSUME numbers[j] < job_attempts[a].attempt_no PROVE FALSE
    <3>1. numbers[j] \in 1 .. job_attempts[a].attempt_no
      BY <1>4, <2>3, <2>4
    <3>2. \E b \in AttemptsOf(j) : job_attempts[b].attempt_no = numbers[j]
      BY <2>3, <3>1 DEF NumbersUpTo
    <3> QED BY <1>1, <1>2, <1>3, <3>2 DEF NumberTaken
  <2> QED BY <1>4, <2>1, <2>3, <2>4
<1> QED BY <1>1, <1>2, <1>4, <1>16, <1>17, <1>18, <1>19, <1>20


\* Whatever a worker has read before it lost its leases, the numbers stay in order, and
\* the holder of a lease keeps the latest attempt.
LEMMA StartInsertStep ==
  ASSUME WorkerInv, NEW w \in Workers, StartInsert(w)
  PROVE  WorkerInv' /\ StaysFinished
<1>1. PICK new : new = [j \in tx[w].joined |-> NewAttempt(tx[w].joined, j)]
  OBVIOUS
<1>2. PICK mine : mine = tx[w].joined
  OBVIOUS
<1>3. PICK numbers : numbers = tx[w].numbers
  OBVIOUS
<1>4. /\ mine \in SUBSET Batch(w)
      /\ \A j \in mine : Inserted(w, j, new[j])
      /\ \A j \in mine : /\ numbers[j] \in Nat \ {0} /\ NumbersUpTo(j, numbers[j] - 1)
                         /\ \A a \in AttemptsOf(j) : job_attempts[a].attempt_no < numbers[j]
      /\ \A a \in Recorded : job_attempts'[a] = job_attempts[a]
      /\ job_attempts' \in [AttemptIds -> Attempt \cup {None}]
      /\ Recorded' = Recorded \cup {new[j] : j \in mine}
  BY <1>1, <1>2, <1>3, InsertEffect
<1>5. \A a \in Recorded' : \/ a \in Recorded /\ job_attempts'[a] = job_attempts[a]
                           \/ \E j \in mine : a = new[j] /\ Inserted(w, j, a)
  BY <1>4
<1>6. /\ pc[w] = "starting" /\ tx' = [tx EXCEPT ![w] = None]
      /\ UNCHANGED <<current, crashes, jobs, policy_decisions, now>>
  BY DEF StartInsert, start_attempts_insert, Commit, Go
<1>7. \/ /\ mine = Batch(w)
         /\ pc' = [pc EXCEPT ![w] = "handling"]
         /\ work' = [work EXCEPT ![w] = [j \in Batch(w) |-> [attempt |-> NewAttempt(Batch(w), j), outcome |-> None]]]
      \/ /\ pc' = [pc EXCEPT ![w] = "down"]
         /\ work' = [work EXCEPT ![w] = Nothing]
  BY <1>2 DEF StartInsert, Go
<1>8. Batch(w) \in SUBSET Rows /\ Batch(w) \in SUBSET JobIds
  BY DEF WorkerInv, SessionInv, WorkInv, Sessions, Rows
<1>9. PICK where, S, left :
        /\ where \in {"handling", "down"} /\ S \in SUBSET mine /\ left \in [S -> Entry]
        /\ pc' = [pc EXCEPT ![w] = where] /\ work' = [work EXCEPT ![w] = left]
        /\ where = "down" => S = {}
        /\ \A j \in S : left[j].attempt = new[j]
  <2>1. CASE /\ mine = Batch(w)
             /\ pc' = [pc EXCEPT ![w] = "handling"]
             /\ work' = [work EXCEPT ![w] = [j \in Batch(w) |-> [attempt |-> NewAttempt(Batch(w), j), outcome |-> None]]]
    <3>1. PICK left : left = [j \in mine |-> [attempt |-> NewAttempt(mine, j), outcome |-> None]]
      OBVIOUS
    <3>2. \A j \in mine : new[j] = NewAttempt(mine, j) /\ new[j] \in AttemptIds
      BY <1>1, <1>2, <1>4 DEF Inserted
    <3>3. left \in [mine -> Entry] /\ \A j \in mine : left[j].attempt = new[j]
      BY <3>1, <3>2 DEF Entry
    <3>4. work' = [work EXCEPT ![w] = left]
      BY <2>1, <3>1
    <3>5. /\ "handling" \in {"handling", "down"} /\ mine \in SUBSET mine /\ left \in [mine -> Entry]
          /\ pc' = [pc EXCEPT ![w] = "handling"] /\ work' = [work EXCEPT ![w] = left]
          /\ "handling" = "down" => mine = {}
          /\ \A j \in mine : left[j].attempt = new[j]
      BY <2>1, <3>3, <3>4
    <3> QED BY <3>5, Zenon
  <2>2. CASE pc' = [pc EXCEPT ![w] = "down"] /\ work' = [work EXCEPT ![w] = Nothing]
    BY <2>2, NothingIsBatch
  <2> QED BY <1>7, <2>1, <2>2
<1>10. S \in SUBSET JobIds /\ where \in PcValues
  BY <1>4, <1>8, <1>9 DEF PcValues
<1>11. /\ pc' \in [Workers -> PcValues] /\ WorkIsFunction'
       /\ \A v \in Workers : DOMAIN work'[v] \subseteq JobIds /\ work'[v] \in [DOMAIN work'[v] -> Entry]
       /\ pc'[w] = where /\ work'[w] = left /\ Batch(w)' = S
       /\ \A v \in Workers \ {w} : pc'[v] = pc[v] /\ work'[v] = work[v]
  BY <1>9, <1>10, GoEffect
<1>12. tx' \in [Sessions -> AnyTx] /\ tx'[w] = None /\ \A o \in Sessions \ {w} : tx'[o] = tx[o]
  BY <1>6, TxEffect DEF Sessions, AnyTx
<1>13. Frame(w)
  BY <1>6, <1>11, <1>12 DEF Frame
<1>14. RowsStay(w) /\ Rows' = Rows /\ \A j, v : Leased(j, v)' <=> Leased(j, v)
  <2>1. RowsStay(w) /\ Rows' = Rows
    BY <1>6, JobsUnchanged
  <2> QED BY <1>6, <2>1 DEF Leased
<1>15. AttemptsStay(w)
  <2>1. \A a \in Recorded : job_attempts[a] # None
    BY DEF Recorded
  <2> QED BY <1>4, <2>1 DEF AttemptsStay
<1>16. \A j, n : NumbersUpTo(j, n) => NumbersUpTo(j, n)'
  BY <1>15, AttemptsOfStay
<1>17. WorkerTypeOK'
  <2>1. /\ current' \in [Workers -> JobIds \cup {None}] /\ crashes' \in 0 .. MaxCrashes
        /\ policy_decisions' \subseteq JobIds \X ThrottleReasons /\ now' \in Instants
    BY <1>6, OtherTypes, Types
  <2> QED BY <1>11, <1>12, <1>14, <1>15, <2>1 DEF WorkerTypeOK, PgTypeOK, RowsStay, AttemptsStay, AnyTx
<1>18. \A j \in mine : new[j] \in AttemptsOf(j)'
  BY <1>4 DEF Inserted, AttemptsOf
<1>19. SessionInv(w)'
  <2>1. LockedStays(w)' /\ TxOf(w)' /\ NumbersRead(w)'
    BY <1>9, <1>11, <1>12 DEF LockedStays, Open, TxOf, TxIs, NumbersRead
  <2>2. ASSUME NEW j \in S, where = "handling" PROVE HasAttempt(w, j)'
    <3>1. work'[w][j].attempt = new[j] /\ new[j] \in AttemptsOf(j)' /\ Inserted(w, j, new[j])
      BY <1>4, <1>9, <1>11, <1>18
    <3> QED BY <1>11, <2>2, <3>1 DEF HasAttempt, Inserted
  <2>3. S \subseteq Rows'
    BY <1>4, <1>8, <1>9, <1>14
  <2>4. WorkInv(w)'
    <3>1. CASE where = "down"
      BY <1>9, <1>11, <3>1 DEF WorkInv, Handles
    <3>2. CASE where = "handling"
      BY <1>11, <2>2, <2>3, <3>2 DEF WorkInv, Handles
    <3> QED BY <1>9, <3>1, <3>2
  <2>5. w \notin Clients
    BY PostgresAssumption
  <2> QED BY <2>1, <2>4, <2>5 DEF SessionInv
<1>20. \A o \in Sessions : SessionInv(o)'
  BY <1>13, <1>14, <1>15, <1>19, OthersStay
<1>21. LocksExclusive'
  <2>1. LocksOwn(w)
    BY <1>12 DEF LocksOwn
  <2> QED BY <1>13, <2>1, LocksStayExclusive
<1>22. Numbered'
  <2>1. ASSUME NEW a \in Recorded', NEW i, NEW n, i = job_attempts'[a].job_id, n = job_attempts'[a].attempt_no
        PROVE  i \in Rows' /\ n \in Nat \ {0} /\ NumbersUpTo(i, n)'
    <3>1. CASE a \in Recorded
      <4>1. job_attempts'[a] = job_attempts[a]
        BY <1>4, <3>1
      <4>2. i \in Rows /\ n \in Nat \ {0} /\ NumbersUpTo(i, n)
        BY <2>1, <3>1, <4>1 DEF WorkerInv, Numbered
      <4> QED BY <1>14, <1>16, <4>2
    <3>2. ASSUME NEW j \in mine, a = new[j], Inserted(w, j, a)
          PROVE  i \in Rows' /\ n \in Nat \ {0} /\ NumbersUpTo(i, n)'
      <4>1. i = j /\ n = numbers[j]
        BY <1>3, <2>1, <3>2 DEF Inserted
      <4>2. i \in Rows'
        BY <1>4, <1>8, <1>14, <4>1
      <4>3. NumbersUpTo(i, n - 1)' /\ n \in Nat \ {0} /\ a \in AttemptsOf(i)'
        BY <1>4, <1>16, <1>18, <3>2, <4>1
      <4>4. ASSUME NEW m \in 1 .. n
            PROVE  \E b \in AttemptsOf(i)' : job_attempts'[b].attempt_no = m
        <5>1. CASE m = n
          BY <2>1, <4>3, <5>1
        <5>2. CASE m # n
          <6>1. m \in 1 .. (n - 1)
            BY <4>3, <5>2
          <6> QED BY <4>3, <6>1 DEF NumbersUpTo
        <5> QED BY <5>1, <5>2
      <4> QED BY <4>2, <4>3, <4>4 DEF NumbersUpTo
    <3> QED BY <1>5, <3>1, <3>2
  <2>2. ASSUME NEW a \in Recorded'
        PROVE  \A m \in 1 .. job_attempts'[a].attempt_no :
                 \E b \in Recorded' : job_attempts'[b].job_id = job_attempts'[a].job_id
                                      /\ job_attempts'[b].attempt_no = m
    BY <2>1 DEF NumbersUpTo, AttemptsOf
  <2> QED BY <2>1, <2>2 DEF Numbered, NumbersUpTo, AttemptsOf
<1>23. AttemptNosIncrease'
  <2> SUFFICES ASSUME NEW a \in Recorded', NEW b \in Recorded', a < b,
                      job_attempts'[a].job_id = job_attempts'[b].job_id
               PROVE  job_attempts'[a].attempt_no < job_attempts'[b].attempt_no
    BY DEF AttemptNosIncrease
  <2>1. CASE a \in Recorded /\ b \in Recorded
    BY <1>4, <2>1 DEF WorkerInv, AttemptNosIncrease
  <2>2. ASSUME a \in Recorded, NEW j \in mine, b = new[j], Inserted(w, j, b)
        PROVE  job_attempts'[a].attempt_no < job_attempts'[b].attempt_no
    <3>1. job_attempts'[b].job_id = j /\ job_attempts'[b].attempt_no = numbers[j]
      BY <1>3, <2>2 DEF Inserted
    <3>2. a \in AttemptsOf(j) /\ job_attempts'[a] = job_attempts[a]
      BY <1>4, <2>2, <3>1 DEF AttemptsOf
    <3> QED BY <1>4, <3>1, <3>2
  <2>3. ASSUME NEW i \in mine, a = new[i], Inserted(w, i, a) PROVE b \notin Recorded
    <3>1. a \in Int /\ \A c \in Recorded : c < a /\ c \in Int
      BY <2>3 DEF Inserted, Recorded, AttemptIds
    <3> QED BY <3>1
  <2>4. ASSUME NEW i \in mine, a = new[i], Inserted(w, i, a), NEW j \in mine, b = new[j], Inserted(w, j, b)
        PROVE  FALSE
    <3>1. i = j /\ a \in Int
      BY <2>4 DEF Inserted, AttemptIds
    <3> QED BY <2>4, <3>1
  <2> QED BY <1>5, <2>1, <2>2, <2>3, <2>4
<1>24. AckedHasAttempt'
  BY <1>14, <1>15, EvidenceStays
<1>25. \A v \in Workers \ {w} : /\ TxIs(v, "start")' = TxIs(v, "start") /\ Handles(v)' = Handles(v)
                               /\ Batch(v)' = Batch(v) /\ tx'[v] = tx[v] /\ work'[v] = work[v]
  BY <1>11, <1>12 DEF TxIs, Handles, Batch, Sessions
<1>26. TxIs(w, "start") /\ w \in Sessions
  BY <1>6 DEF WorkerInv, SessionInv, TxOf, Sessions
<1>27. ASSUME NEW v \in Workers \ {w}, Handles(v), NEW j \in Batch(v)
       PROVE  /\ work[v][j].attempt \in AttemptsOf(j)
              /\ job_attempts'[work[v][j].attempt] = job_attempts[work[v][j].attempt]
  <2>1. work[v][j].attempt \in AttemptsOf(j)
    BY <1>27, BatchFields DEF HasAttempt
  <2> QED BY <1>4, <2>1 DEF AttemptsOf
<1>28. ASSUME where = "handling", NEW j \in S
       PROVE  work'[w][j].attempt = new[j] /\ job_attempts'[new[j]].attempt_no = numbers[j] /\ j \in mine
  BY <1>3, <1>4, <1>9, <1>11, <1>28 DEF Inserted
<1>29. HolderHasLatestAttempt'
  <2> SUFFICES ASSUME NEW v \in Workers, (pc[v] \notin {"leased", "starting", "down"})',
                      NEW j \in Batch(v)', Leased(j, v)', NEW a \in AttemptsOf(j)'
               PROVE  job_attempts'[a].attempt_no <= job_attempts'[work'[v][j].attempt].attempt_no
    BY DEF HolderHasLatestAttempt
  <2>1. a \in Recorded' /\ job_attempts'[a].job_id = j
    BY DEF AttemptsOf
  <2>2. \/ a \in AttemptsOf(j) /\ job_attempts'[a] = job_attempts[a]
        \/ j \in mine /\ a = new[j] /\ job_attempts'[a].attempt_no = numbers[j]
    BY <1>3, <1>5, <2>1 DEF AttemptsOf, Inserted
  <2>3. CASE v = w
    <3>1. where = "handling" /\ j \in S
      BY <1>9, <1>11, <2>3
    <3>2. /\ work'[w][j].attempt = new[j] /\ job_attempts'[new[j]].attempt_no = numbers[j]
          /\ j \in mine /\ numbers[j] \in Nat
      BY <1>4, <1>28, <3>1
    <3>3. CASE a \in AttemptsOf(j) /\ job_attempts'[a] = job_attempts[a]
      <4>1. job_attempts[a].attempt_no < numbers[j] /\ job_attempts[a].attempt_no \in Nat
        BY <1>4, <3>2, <3>3 DEF WorkerInv, Numbered, AttemptsOf
      <4> QED BY <2>3, <3>2, <3>3, <4>1
    <3>4. CASE j \in mine /\ a = new[j] /\ job_attempts'[a].attempt_no = numbers[j]
      BY <2>3, <3>2, <3>4
    <3> QED BY <2>2, <3>3, <3>4
  <2>4. CASE v # w
    <3>1. Handles(v)'
      BY <1>20 DEF SessionInv, WorkInv, Sessions
    <3>2. Handles(v) /\ j \in Batch(v) /\ work'[v] = work[v] /\ Leased(j, v) /\ v \in Workers \ {w}
      BY <1>14, <1>25, <2>4, <3>1
    <3>3. /\ work[v][j].attempt \in AttemptsOf(j)
          /\ job_attempts'[work[v][j].attempt] = job_attempts[work[v][j].attempt]
      BY <1>27, <3>2
    <3>4. CASE a \in AttemptsOf(j) /\ job_attempts'[a] = job_attempts[a]
      <4>1. pc[v] \notin {"leased", "starting", "down"}
        BY <3>2 DEF Handles
      <4>2. job_attempts[a].attempt_no <= job_attempts[work[v][j].attempt].attempt_no
        BY <3>2, <3>4, <4>1 DEF WorkerInv, HolderHasLatestAttempt
      <4> QED BY <3>2, <3>3, <3>4, <4>2
    <3>5. CASE j \in mine
      <4>1. job_attempts[work[v][j].attempt].attempt_no < numbers[j] /\ numbers[j] \in Nat
        BY <1>4, <3>3, <3>5
      <4>2. job_attempts[work[v][j].attempt].attempt_no \in Nat
        BY <3>3 DEF WorkerInv, Numbered, AttemptsOf
      <4>3. numbers[j] <= job_attempts[work[v][j].attempt].attempt_no
        <5>1. j \in JobIds /\ j \in tx[w].joined /\ w # v
          BY <1>2, <1>4, <1>8, <2>4, <3>5
        <5> QED BY <1>3, <1>26, <3>2, <5>1 DEF WorkerInv, StaleNumbers
      <4> QED BY <4>1, <4>2, <4>3
    <3> QED BY <2>2, <3>4, <3>5
  <2> QED BY <2>3, <2>4
<1>30. StaleNumbers'
  <2> SUFFICES ASSUME NEW x \in Workers, NEW v \in Workers, NEW j \in JobIds, x # v,
                      TxIs(x, "start")', (j \in tx[x].joined)', Leased(j, v)'
               PROVE  /\ TxIs(v, "start")' /\ (j \in tx[v].joined)' => tx'[x].numbers[j] <= tx'[v].numbers[j]
                      /\ Handles(v)' /\ j \in Batch(v)' =>
                           tx'[x].numbers[j] <= job_attempts'[work'[v][j].attempt].attempt_no
    BY DEF StaleNumbers
  <2>1. x # w /\ Leased(j, v) /\ ~ TxIs(w, "start")'
    BY <1>12, <1>14 DEF TxIs
  <2>2. tx'[x] = tx[x] /\ TxIs(x, "start") /\ j \in tx[x].joined
    BY <1>25, <2>1
  <2>3. CASE v = w
    <3> SUFFICES ASSUME Handles(w)', j \in Batch(w)'
                 PROVE  tx'[x].numbers[j] <= job_attempts'[work'[w][j].attempt].attempt_no
      BY <2>1, <2>3
    <3>1. where = "handling" /\ j \in S
      BY <1>9, <1>11
    <3>2. /\ work'[w][j].attempt = new[j] /\ job_attempts'[new[j]].attempt_no = numbers[j]
          /\ j \in tx[w].joined
      BY <1>2, <1>28, <3>1
    <3>3. tx[x].numbers[j] <= tx[w].numbers[j]
      BY <1>26, <2>1, <2>2, <2>3, <3>2 DEF WorkerInv, StaleNumbers
    <3> QED BY <1>3, <2>2, <3>2, <3>3
  <2>4. CASE v # w
    <3>1. /\ TxIs(v, "start")' = TxIs(v, "start") /\ Handles(v)' = Handles(v) /\ Batch(v)' = Batch(v)
          /\ tx'[v] = tx[v] /\ work'[v] = work[v]
      BY <1>25, <2>4
    <3>2. Handles(v) /\ j \in Batch(v) =>
            job_attempts'[work[v][j].attempt] = job_attempts[work[v][j].attempt]
      BY <1>27, <2>4
    <3> QED BY <2>1, <2>2, <3>1, <3>2 DEF WorkerInv, StaleNumbers
  <2> QED BY <2>3, <2>4
<1> QED BY <1>11, <1>14, <1>17, <1>20, <1>21, <1>22, <1>23, <1>24, <1>29, <1>30
        DEF WorkerInv, RowsStay, StaysFinished

----------------------------------------------------------------------------
(* Time, producers and clients                                              *)

\* There are steps of no session: no set has everything.
LEMMA NobodysStep == \E s : s \notin Sessions
<1> DEFINE R == {s \in Sessions : s \notin s}
<1>1. R \notin Sessions
  OBVIOUS
<1> QED BY <1>1

\* Steps in which no worker takes part.
LEMMA EnvironmentMoves ==
  ASSUME WorkerInv, NEW s, s \notin Workers, UNCHANGED workerVars,
         tx' \in [Sessions -> AnyTx], \A o \in Sessions \ {s} : tx'[o] = tx[o],
         now' \in Instants, UNCHANGED policy_decisions,
         RowsStay(s), AttemptsStay(s), Recorded' = Recorded, LocksOwn(s),
         s \in Sessions => SessionInv(s)'
  PROVE  WorkerInv' /\ StaysFinished
<1>1. UNCHANGED <<pc, work, current, crashes>>
  BY DEF workerVars
<1>2. Frame(s)
  BY <1>1 DEF Frame
<1>3. WorkerTypeOK'
  <2>1. WorkerTypeOK
    BY DEF WorkerInv
  <2> QED BY <1>1, <2>1 DEF WorkerTypeOK, PgTypeOK, RowsStay, AttemptsStay, AnyTx
<1>4. WorkIsFunction'
  BY <1>1 DEF WorkerInv, WorkIsFunction
<1>5. WorkStays(s)
  BY DEF WorkStays
<1> QED BY <1>2, <1>3, <1>4, <1>5, PlainStep

\* Time passes.
LEMMA TickStep ==
  ASSUME WorkerInv, Tick, UNCHANGED workerVars
  PROVE  WorkerInv' /\ StaysFinished
<1>1. PICK s : s \notin Sessions
  BY NobodysStep
<1>2. UNCHANGED <<jobs, job_attempts, policy_decisions, tx>>
  BY DEF Tick, tables
<1>3. now' \in Instants
  BY Types, PostgresAssumption DEF Tick, Instants
<1>4. tx' \in [Sessions -> AnyTx]
  BY <1>2 DEF WorkerInv, WorkerTypeOK, PgTypeOK, AnyTx
<1>5. RowsStay(s) /\ AttemptsStay(s) /\ Recorded' = Recorded
  BY <1>2, JobsUnchanged, AttemptsUnchanged
<1>6. s \notin Workers /\ LocksOwn(s)
  BY <1>1 DEF Sessions, LocksOwn
<1> QED BY <1>1, <1>2, <1>3, <1>4, <1>5, <1>6, EnvironmentMoves

\* A producer inserts a queued job under the next id.
LEMMA ProducerStep ==
  ASSUME WorkerInv, Producer, UNCHANGED workerVars
  PROVE  WorkerInv' /\ StaysFinished
<1>1. PICK new \in NewJobs : enqueue(new)
  BY DEF Producer
<1>2. PICK n : n = Min(JobIds \ Rows)
  OBVIOUS
<1>3. PICK row : row =
        [dataset_id |-> DatasetOf(new.run_at), idempotency_key |-> new.idempotency_key,
         priority |-> new.priority, run_at |-> new.run_at, deadline_at |-> new.deadline_at,
         max_attempts |-> new.max_attempts, status |-> "queued", locked_by |-> None,
         lock_expires_at |-> None, dlq_reason_code |-> None]
  OBVIOUS
<1>4. /\ Rows # JobIds /\ jobs' = [jobs EXCEPT ![n] = row]
      /\ UNCHANGED <<job_attempts, policy_decisions, tx, now>>
  BY <1>1, <1>2, <1>3 DEF enqueue
<1>5. n \in JobIds /\ n \notin Rows
  <2>1. JobIds \ Rows \in SUBSET Nat /\ JobIds \ Rows # {}
    BY <1>4, PostgresAssumption DEF Rows
  <2> QED BY <1>2, <2>1, MinOfNumbers
<1>6. row \in Job /\ row.status = "queued"
  <2>1. new \in NewJobType
    BY PostgresAssumption
  <2>2. new.run_at \in Instants
    BY <2>1 DEF NewJobType
  <2>3. DatasetOf(new.run_at) \in Datasets
    BY <2>2, DatasetOfInstant
  <2> QED BY <1>3, <2>1, <2>2, <2>3 DEF NewJobType, Job, Status
<1>7. /\ jobs' \in [JobIds -> Job \cup {None}] /\ jobs'[n] = row
      /\ \A j \in JobIds \ {n} : jobs'[j] = jobs[j]
  BY <1>4, <1>5, <1>6, Types
<1>8. Rows' = Rows \cup {n}
  <2>1. row # None
    BY <1>6, AbsentAssumption
  <2> QED BY <1>5, <1>7, <2>1 DEF Rows
<1>9. PICK s : s \notin Sessions
  BY NobodysStep
<1>10. RowsStay(s)
  <2>1. IsFiniteSet(Rows')
    BY <1>8, FS_AddElement DEF WorkerInv
  <2>2. \A j \in JobIds, v \in Workers : Leased(j, v)' => Leased(j, v)
    BY <1>6, <1>7, <1>8 DEF Leased
  <2>3. \A j \in Rows : jobs'[j] = jobs[j]
    BY <1>5, <1>7 DEF Rows
  <2>4. \A j \in Rows' : jobs'[j].status = "succeeded" => j \in Rows /\ jobs[j].status = "succeeded"
    BY <1>6, <1>7, <1>8, <2>3
  <2> QED BY <1>7, <1>8, <2>1, <2>2, <2>3, <2>4 DEF RowsStay
<1>11. AttemptsStay(s) /\ Recorded' = Recorded
  BY <1>4, AttemptsUnchanged
<1>12. tx' \in [Sessions -> AnyTx] /\ now' \in Instants
  BY <1>4 DEF WorkerInv, WorkerTypeOK, PgTypeOK, AnyTx
<1>13. s \notin Workers /\ LocksOwn(s)
  BY <1>9 DEF Sessions, LocksOwn
<1> QED BY <1>4, <1>9, <1>10, <1>11, <1>12, <1>13, EnvironmentMoves

\* A client reads a job.
LEMMA CancelReadStep ==
  ASSUME WorkerInv, CancelRead, UNCHANGED workerVars
  PROVE  WorkerInv' /\ StaysFinished
<1>1. PICK c \in Clients, j \in JobIds, w \in Workers \cup {None} : cancel_read(c, j, w)
  BY DEF CancelRead
<1>2. PICK t : t = [kind |-> "cancel", at |-> now, rows |-> {}, closing |-> {}, job |-> j, seen |-> jobs[j].status]
  OBVIOUS
<1>3. /\ j \in Rows /\ jobs[j].status \in {"queued", "running"}
      /\ tx' = [tx EXCEPT ![c] = t]
      /\ UNCHANGED <<jobs, job_attempts, policy_decisions, now>>
  BY <1>1, <1>2 DEF cancel_read, Begin, tables, Leased
<1>4. t \in CancelTx
  BY <1>2, <1>3, Types DEF CancelTx
<1>5. t \in AnyTx /\ t # None /\ t.kind = "cancel" /\ t.rows = {} /\ t.closing = {} /\ t.job = j
  BY <1>2, <1>4, AbsentAssumption DEF AnyTx
<1>6. tx' \in [Sessions -> AnyTx] /\ tx'[c] = t /\ \A o \in Sessions \ {c} : tx'[o] = tx[o]
  BY <1>3, <1>5, TxEffect DEF Sessions, AnyTx
<1>7. RowsStay(c) /\ AttemptsStay(c) /\ Rows' = Rows /\ Recorded' = Recorded
  BY <1>3, JobsUnchanged, AttemptsUnchanged
<1>8. c \notin Workers
  BY PostgresAssumption
<1>9. LocksOwn(c)
  BY <1>5, <1>6 DEF LocksOwn
<1>10. SessionInv(c)'
  <2>1. LockedStays(c)'
    BY <1>5, <1>6 DEF LockedStays
  <2> QED BY <1>3, <1>5, <1>6, <1>7, <1>8, <2>1 DEF SessionInv, TxIs
<1>11. now' \in Instants
  BY <1>3, Types
<1> QED BY <1>3, <1>6, <1>7, <1>8, <1>9, <1>10, <1>11, EnvironmentMoves

\* The cancellation is written, whatever has become of the job.
LEMMA CancelWriteStep ==
  ASSUME WorkerInv, CancelWrite, UNCHANGED workerVars
  PROVE  WorkerInv' /\ StaysFinished
<1>1. PICK c \in Clients : tx[c] # None /\ cancel_write(c)
  BY DEF CancelWrite
<1>2. PICK j : j = tx[c].job
  OBVIOUS
<1>3. PICK closing : closing = (IF tx[c].seen = "running" THEN LatestOpen(j) ELSE {})
  OBVIOUS
<1>4. /\ closing \cap ClosedByOthers(c) = {}
      /\ job_attempts' = [a \in AttemptIds |->
           IF a \in closing THEN ClosedAttempt(job_attempts[a], "CANCELLED") ELSE job_attempts[a]]
      /\ jobs' = [jobs EXCEPT ![j] = Unlocked(jobs[j], "canceled")]
      /\ tx' = [tx EXCEPT ![c] = None]
      /\ UNCHANGED <<policy_decisions, now>>
  BY <1>1, <1>2, <1>3, Zenon DEF cancel_write, Commit
<1>5. j \in Rows /\ j \in JobIds /\ jobs[j] \in Job
  <2>1. j \in Rows
    BY <1>1, <1>2 DEF WorkerInv, SessionInv, Sessions, Open
  <2> QED BY <2>1, Types
<1>6. \A a \in closing : /\ a \in Recorded /\ a \in AttemptIds /\ job_attempts[a] \in Attempt
                        /\ job_attempts[a].status = "running" /\ a \notin ClosedByOthers(c)
  BY <1>3, <1>4, Types DEF LatestOpen, OpenAttempts
<1>7. c \notin Workers /\ c \in Sessions
  BY PostgresAssumption DEF Sessions
<1>8. /\ jobs'[j] \in Job /\ jobs'[j].status = "canceled"
      /\ \A i \in JobIds : i # j => jobs'[i] = jobs[i]
      /\ jobs' = [i \in JobIds |-> jobs'[i]]
  BY <1>4, <1>5, UnlockedRow, Types DEF Status
<1>9. RowsStay(c)
  <2>1. UpdatedRow(c, j)
    BY <1>5, <1>8 DEF UpdatedRow, Terminal
  <2>2. \A i \in JobIds : jobs'[i] = jobs[i] \/ UpdatedRow(c, i)
    BY <1>8, <2>1
  <2> QED BY <1>8, <2>2, JobsUpdated
<1>10. AttemptsStay(c) /\ Recorded' = Recorded
  <2>1. ASSUME NEW a \in closing PROVE UpdatedAttempt(c, a)
    <3>1. job_attempts'[a] = ClosedAttempt(job_attempts[a], "CANCELLED")
      BY <1>4, <1>6
    <3>2. /\ job_attempts'[a] \in Attempt /\ job_attempts'[a].status = "failed"
          /\ job_attempts'[a].job_id = job_attempts[a].job_id
          /\ job_attempts'[a].attempt_no = job_attempts[a].attempt_no
          /\ job_attempts'[a].worker_id = job_attempts[a].worker_id
      BY <1>6, <3>1, ClosedRow
    <3> QED BY <1>6, <3>2 DEF UpdatedAttempt
  <2>2. \A a \in AttemptIds : job_attempts'[a] = job_attempts[a] \/ UpdatedAttempt(c, a)
    BY <1>4, <2>1
  <2>3. job_attempts' = [a \in AttemptIds |-> job_attempts'[a]]
    BY <1>4
  <2> QED BY <2>2, <2>3, AttemptsUpdated
<1>11. tx' \in [Sessions -> AnyTx] /\ tx'[c] = None /\ \A o \in Sessions \ {c} : tx'[o] = tx[o]
  BY <1>4, <1>7, TxEffect DEF AnyTx
<1>12. SessionInv(c)' /\ LocksOwn(c)
  BY <1>7, <1>11 DEF SessionInv, LockedStays, Open, LocksOwn
<1>13. now' \in Instants
  BY <1>4, Types
<1> QED BY <1>4, <1>7, <1>9, <1>10, <1>11, <1>12, <1>13, EnvironmentMoves

----------------------------------------------------------------------------
(* The theorems                                                             *)

\* Empty tables and workers at the top of their loops.
LEMMA WorkerInitInv == WorkerInit => WorkerInv
<1> SUFFICES ASSUME WorkerInit PROVE WorkerInv
  OBVIOUS
<1>1. /\ jobs = [j \in JobIds |-> None] /\ job_attempts = [a \in AttemptIds |-> None]
      /\ policy_decisions = {} /\ tx = [s \in Sessions |-> None] /\ now = 0
      /\ pc = [w \in Workers |-> "top"] /\ work = [w \in Workers |-> Nothing]
      /\ current = [w \in Workers |-> None] /\ crashes = 0
  BY DEF WorkerInit, PgInit
<1>2. Rows = {} /\ Recorded = {}
  BY <1>1 DEF Rows, Recorded
<1>3. PgTypeOK
  BY <1>1, PostgresAssumption DEF PgTypeOK, Instants
<1>4. WorkerTypeOK
  BY <1>1, <1>3, WorkerAssumption, NothingIsBatch DEF WorkerTypeOK, PcValues, Nothing
<1>5. WorkIsFunction
  BY <1>1 DEF WorkIsFunction
<1>6. IsFiniteSet(Rows)
  BY <1>2, FS_EmptySet
<1>7. \A s \in Sessions : ~ Open(s)
  BY <1>1 DEF Open
<1>8. LocksExclusive /\ StaleNumbers
  BY <1>7 DEF LocksExclusive, StaleNumbers, TxIs, Open, Sessions
<1>9. \A w \in Workers : Batch(w) = {} /\ pc[w] = "top" /\ ~ Handles(w)
  BY <1>1 DEF Batch, Nothing, Handles
<1>10. ASSUME NEW s \in Sessions PROVE SessionInv(s)
  <2>1. tx[s] = None
    BY <1>1
  <2>2. ASSUME s \in Workers PROVE TxOf(s) /\ WorkInv(s) /\ NumbersRead(s)
    BY <1>9, <2>1, <2>2 DEF TxOf, WorkInv, NumbersRead, TxIs
  <2> QED BY <2>1, <2>2 DEF SessionInv, LockedStays, Open
<1>11. Numbered /\ AttemptNosIncrease /\ HolderHasLatestAttempt /\ AckedHasAttempt
  BY <1>2, <1>9 DEF Numbered, AttemptNosIncrease, HolderHasLatestAttempt, AckedHasAttempt
<1> QED BY <1>4, <1>5, <1>6, <1>8, <1>10, <1>11 DEF WorkerInv

\* One step of a worker, action by action.
LEMMA WorkerStep ==
  ASSUME WorkerInv, NEW w \in Workers, Step(w)
  PROVE  WorkerInv' /\ StaysFinished
<1>1. CASE SkipReap(w) \/ Wake(w) \/ Restart(w)
  BY <1>1, IdleSteps
<1>2. CASE ReapBegin(w)
  BY <1>2, ReapBeginStep
<1>3. CASE ReapCommit(w)
  BY <1>3, ReapCommitStep
<1>4. CASE Poll(w)
  BY <1>4, LeaseNothingStep, LeaseBeginStep, LeaseThrottledStep, LeaseTakeStep DEF Poll
<1>5. CASE StartAttempts(w)
  BY <1>5, StartBeginStep, StartInsertStep, StartRejectedStep DEF StartAttempts
<1>6. CASE Handle(w)
  BY <1>6, HandleStep
<1>7. CASE FinishSucceeded(w)
  BY <1>7, FinishSucceededStep
<1>8. CASE MarkSucceeded(w)
  BY <1>8, MarkSucceededStep
<1>9. CASE FinishFailed(w)
  BY <1>9, FinishFailedStep
<1>10. CASE Settle(w)
  BY <1>10, RetryStep, DeadLetterStep, DownSteps DEF Settle
<1>11. CASE Crash(w)
  BY <1>11, DownSteps
<1> QED BY <1>1, <1>2, <1>3, <1>4, <1>5, <1>6, <1>7, <1>8, <1>9, <1>10, <1>11 DEF Step

\* One step of the system.
LEMMA WorkerNextInv ==
  ASSUME WorkerInv, [WorkerNext]_allVars
  PROVE  WorkerInv' /\ StaysFinished
<1>1. CASE Environment
  BY <1>1, TickStep, ProducerStep, CancelReadStep, CancelWriteStep DEF Environment
<1>2. CASE \E w \in Workers : Step(w)
  BY <1>2, WorkerStep
<1>3. CASE UNCHANGED allVars
  <2>1. PICK s : s \notin Sessions
    BY NobodysStep
  <2>2. /\ UNCHANGED <<jobs, job_attempts, policy_decisions, tx, now>>
        /\ UNCHANGED workerVars
    BY <1>3 DEF allVars, pgVars
  <2>3. RowsStay(s) /\ AttemptsStay(s) /\ Recorded' = Recorded
    BY <2>2, JobsUnchanged, AttemptsUnchanged
  <2>4. tx' \in [Sessions -> AnyTx] /\ now' \in Instants
    BY <2>2 DEF WorkerInv, WorkerTypeOK, PgTypeOK, AnyTx
  <2>5. s \notin Workers /\ LocksOwn(s)
    BY <2>1 DEF Sessions, LocksOwn
  <2> QED BY <2>1, <2>2, <2>3, <2>4, <2>5, EnvironmentMoves
<1> QED BY <1>1, <1>2, <1>3 DEF WorkerNext

\* The invariant holds in every reachable state: locks, batches and numbers.
THEOREM NumbersArePassedOn == WorkerSpec => []WorkerInv
<1>1. WorkerInit => WorkerInv
  BY WorkerInitInv
<1>2. WorkerInv /\ [WorkerNext]_allVars => WorkerInv'
  BY WorkerNextInv
<1> QED BY <1>1, <1>2, PTL DEF WorkerSpec

\* Every variable stays in its type (the columns and enums of the two tables, and the
\* places of the loop).
THEOREM WorkerTypeCorrect == WorkerSpec => []WorkerTypeOK
<1>1. WorkerInv => WorkerTypeOK
  BY DEF WorkerInv
<1> QED BY <1>1, NumbersArePassedOn, PTL

\* A job is acknowledged with a succeeded attempt only (on_success_batch), wherever
\* between its two transactions a process dies or loses its lease.
THEOREM AcksHaveEvidence == WorkerSpec => []AckedHasAttempt
<1>1. WorkerInv => AckedHasAttempt
  BY DEF WorkerInv
<1> QED BY <1>1, NumbersArePassedOn, PTL

\* The numbers of the attempts of a job increase in the order of insertion, whoever
\* read them and when (start_attempts_batch).
THEOREM NumbersIncrease == WorkerSpec => []AttemptNosIncrease
<1>1. WorkerInv => AttemptNosIncrease
  BY DEF WorkerInv
<1> QED BY <1>1, NumbersArePassedOn, PTL

\* A worker that still holds the lease of a job of its batch holds the job's latest
\* attempt, so the ACK and the DLQ concern the execution they are about
\* (mark_succeeded_batch, mark_dlq).
THEOREM HoldersAreLatest == WorkerSpec => []HolderHasLatestAttempt
<1>1. WorkerInv => HolderHasLatestAttempt
  BY DEF WorkerInv
<1> QED BY <1>1, NumbersArePassedOn, PTL

\* No late report, reap, throttle or cancellation makes a finished job active again.
THEOREM FinishedIsFinal == WorkerSpec => NoRevival
<1>1. WorkerInv /\ [WorkerNext]_allVars =>
        [\A j \in Rows : jobs[j].status \in Terminal => jobs'[j].status \in Terminal]_allVars
  BY WorkerNextInv DEF StaysFinished
<1> QED BY <1>1, NumbersArePassedOn, PTL DEF WorkerSpec, NoRevival
=============================================================================
