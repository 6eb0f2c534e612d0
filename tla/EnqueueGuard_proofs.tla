-------------------------- MODULE EnqueueGuard_proofs --------------------------
(***************************************************************************)
(* What holds of enqueueing over HTTP for every number of requests, every  *)
(* size of the pool, every limit and however many minutes pass.            *)
(***************************************************************************)
EXTENDS EnqueueGuard, FiniteSetTheorems, TLAPS

\* From the INSERT to the end of its transaction a handler holds the row of its minute.
HoldsRow(r) == pc[r] \in {"decide", "record", "commit"}

Pooled == {r \in Requests : pc[r] \in InTransaction}

Admitted(m) == {r \in Requests : window[r] = m /\ (r \in jobs \/ pc[r] = "enqueue")}

\* One handler at a time holds the row of a minute.
RowExclusive ==
  \A r, q \in Requests : HoldsRow(r) /\ HoldsRow(q) /\ window[r] = window[q] => r = q

\* What the holder of a row was told is one more than what is committed.
CountIsFresh == \A r \in Requests : HoldsRow(r) => count[r] = counters[window[r]] + 1

\* A denial is recorded before the transaction that counted it commits; a request that
\* became a job is over.
StepsInOrder ==
  \A r \in Requests : /\ pc[r] = "commit" => r \in ingest_decisions
                      /\ r \in jobs => pc[r] = "done"

GuardInv ==
  GuardTypeOK /\ RowExclusive /\ CountIsFresh /\ StepsInOrder /\ DeniedIsRecorded /\ AdmittedWithinLimit

----------------------------------------------------------------------------
(* The pool                                                                 *)

\* The handlers that hold a connection are finitely many.
LEMMA PoolIsFinite == IsFiniteSet(Pooled) /\ Cardinality(Pooled) \in Nat
<1>1. Pooled \in SUBSET Requests
  BY DEF Pooled
<1> QED BY <1>1, FS_Subset, FS_CardinalityType, GuardAssumption

\* A handler that has a connection already, that gives it back or that finds one free
\* leaves the pool within max_connections.
LEMMA PoolKept ==
  ASSUME GuardTypeOK, NEW r \in Requests, NEW step \in Steps, GoTo(r, step),
         \/ step \notin InTransaction
         \/ pc[r] \in InTransaction
         \/ FreeConnection
  PROVE  Cardinality(Pooled') <= Connections
<1>0. pc \in [Requests -> Steps] /\ pc' = [pc EXCEPT ![r] = step] /\ Cardinality(Pooled) <= Connections
  BY DEF GuardTypeOK, GoTo, Pooled
<1>1. IsFiniteSet(Pooled) /\ Cardinality(Pooled) \in Nat /\ Connections \in Nat
  BY PoolIsFinite, GuardAssumption
<1>2. CASE step \notin InTransaction \/ pc[r] \in InTransaction
  <2>1. Pooled' \in SUBSET Pooled
    BY <1>0, <1>2 DEF Pooled
  <2>2. IsFiniteSet(Pooled') /\ Cardinality(Pooled') <= Cardinality(Pooled)
    BY <1>1, <2>1, FS_Subset
  <2> QED BY <1>0, <1>1, <2>2, FS_CardinalityType
<1>3. CASE FreeConnection
  <2>1. Pooled' \in SUBSET (Pooled \cup {r})
    BY <1>0 DEF Pooled
  <2>2. /\ IsFiniteSet(Pooled \cup {r})
        /\ Cardinality(Pooled \cup {r}) = Cardinality(Pooled) \/ Cardinality(Pooled \cup {r}) = Cardinality(Pooled) + 1
    BY <1>1, FS_AddElement
  <2>3. IsFiniteSet(Pooled') /\ Cardinality(Pooled') <= Cardinality(Pooled \cup {r})
    BY <2>1, <2>2, FS_Subset
  <2>4. Cardinality(Pooled) < Connections
    BY <1>3 DEF FreeConnection, Pooled
  <2>5. Cardinality(Pooled') \in Nat
    BY <2>3, FS_CardinalityType
  <2> QED BY <1>1, <2>2, <2>3, <2>4, <2>5
<1> QED BY <1>2, <1>3

\* Whatever a handler does, the state keeps its shape and the pool its limit.
LEMMA TypeInductive ==
  ASSUME GuardTypeOK, [GuardNext]_guardVars
  PROVE  GuardTypeOK'
<1>1. LastMinute \in Nat /\ \A m \in Minutes : m \in Nat
  BY GuardAssumption DEF Minutes
<1>2. CASE UNCHANGED guardVars
  BY <1>2 DEF guardVars, GuardTypeOK
<1>3. CASE NextMinute
  <2>1. minute' \in Minutes
    BY <1>1, <1>3 DEF NextMinute, GuardTypeOK, Minutes
  <2> QED BY <1>3, <2>1 DEF NextMinute, GuardTypeOK
<1>4. ASSUME NEW r \in Requests, HandlerStep(r) \/ StatementFails(r) PROVE GuardTypeOK'
  <2>1. /\ body' \in [Requests -> Bodies] /\ minute' \in Minutes
        /\ ingest_decisions' \subseteq Requests /\ jobs' \subseteq Requests
    BY <1>4 DEF GuardTypeOK, HandlerStep, Receive, check_payload, ReadClock, BeginRate, Increment, Admit, Deny,
                RecordDenial, CommitDenial, Enqueue, AcquireTimeout, StatementFails
  <2>2. window' \in [Requests -> Minutes]
    <3>1. window' = window \/ window' = [window EXCEPT ![r] = minute]
      BY <1>4 DEF HandlerStep, Receive, check_payload, ReadClock, BeginRate, Increment, Admit, Deny,
                  RecordDenial, CommitDenial, Enqueue, AcquireTimeout, StatementFails
    <3> QED BY <3>1 DEF GuardTypeOK
  <2>3. count' \in [Requests -> Nat]
    <3>1. count' = count \/ count' = [count EXCEPT ![r] = counters[window[r]] + 1]
      BY <1>4 DEF HandlerStep, Receive, check_payload, ReadClock, BeginRate, Increment, Admit, Deny,
                  RecordDenial, CommitDenial, Enqueue, AcquireTimeout, StatementFails
    <3>2. counters[window[r]] + 1 \in Nat
      BY DEF GuardTypeOK
    <3> QED BY <3>1, <3>2 DEF GuardTypeOK
  <2>4. counters' \in [Minutes -> Nat]
    BY <1>4 DEF GuardTypeOK, HandlerStep, Receive, check_payload, ReadClock, BeginRate, Increment, Admit, Deny,
                RecordDenial, CommitDenial, Enqueue, AcquireTimeout, StatementFails, CommitCount
  <2>5. answer' \in [Requests -> Answers]
    <3>1. answer' = answer \/ \E status \in Answers : answer' = [answer EXCEPT ![r] = status]
      BY <1>4 DEF HandlerStep, Receive, check_payload, ReadClock, BeginRate, Increment, Admit, Deny,
                  RecordDenial, CommitDenial, Enqueue, AcquireTimeout, StatementFails, Answer, Answers
    <3> QED BY <3>1 DEF GuardTypeOK
  <2>6. \E step \in Steps : GoTo(r, step) /\ (step \notin InTransaction \/ pc[r] \in InTransaction \/ FreeConnection)
    <3>1. /\ "done" \in Steps \ InTransaction /\ "payload" \in Steps \ InTransaction
          /\ "clock" \in Steps \ InTransaction /\ "begin" \in Steps \ InTransaction
          /\ "enqueue" \in Steps \ InTransaction
          /\ {"increment", "decide", "record", "commit"} = InTransaction /\ InTransaction \subseteq Steps
      BY DEF Steps, InTransaction
    <3>2. CASE Receive(r) \/ check_payload(r) \/ ReadClock(r) \/ Enqueue(r) \/ AcquireTimeout(r) \/ StatementFails(r)
      BY <3>1, <3>2 DEF Receive, check_payload, ReadClock, Enqueue, AcquireTimeout, StatementFails, Answer
    <3>3. CASE BeginRate(r) \/ Increment(r) \/ Deny(r) \/ RecordDenial(r)
      BY <3>1, <3>3 DEF BeginRate, Increment, Deny, RecordDenial
    <3>4. CASE Admit(r) \/ CommitDenial(r)
      BY <3>1, <3>4 DEF Admit, CommitDenial, Answer
    <3> QED BY <1>4, <3>2, <3>3, <3>4 DEF HandlerStep
  <2>7. pc' \in [Requests -> Steps]
    BY <2>6 DEF GuardTypeOK, GoTo
  <2>8. Cardinality(Pooled') <= Connections
    BY <2>6, PoolKept
  <2> QED BY <2>1, <2>2, <2>3, <2>4, <2>5, <2>7, <2>8 DEF GuardTypeOK, Pooled
<1> QED BY <1>2, <1>3, <1>4 DEF GuardNext

\* Before the first request arrives the pool is idle.
LEMMA InitIsTyped ==
  ASSUME GuardInit
  PROVE  GuardTypeOK
<1>1. {r \in Requests : pc[r] \in InTransaction} = {}
  BY DEF GuardInit, InTransaction
<1>2. Cardinality({r \in Requests : pc[r] \in InTransaction}) <= Connections
  BY <1>1, FS_EmptySet, GuardAssumption
<1>3. 0 \in Minutes
  BY GuardAssumption DEF Minutes
<1> QED BY <1>2, <1>3 DEF GuardInit, GuardTypeOK, Steps, Answers

\* The handlers together never hold more connections than make_pool allows, and nothing
\* leaves its type, however many requests arrive at a time.
THEOREM GuardTypeCorrect == GuardSpec => []GuardTypeOK
<1>1. GuardInit => GuardTypeOK
  BY InitIsTyped
<1>2. GuardTypeOK /\ [GuardNext]_guardVars => GuardTypeOK'
  BY TypeInductive
<1> QED BY <1>1, <1>2, PTL DEF GuardSpec

----------------------------------------------------------------------------
(* The row lock and the counter                                             *)

\* A step of one handler leaves the others where they are.
LEMMA OthersStay ==
  ASSUME GuardTypeOK, NEW r \in Requests, HandlerStep(r) \/ StatementFails(r)
  PROVE  \A q \in Requests \ {r} :
           /\ pc'[q] = pc[q] /\ window'[q] = window[q] /\ count'[q] = count[q] /\ answer'[q] = answer[q]
           /\ q \in jobs' <=> q \in jobs
           /\ q \in ingest_decisions' <=> q \in ingest_decisions
<1> SUFFICES ASSUME NEW q \in Requests \ {r}
             PROVE  /\ pc'[q] = pc[q] /\ window'[q] = window[q] /\ count'[q] = count[q] /\ answer'[q] = answer[q]
                    /\ q \in jobs' <=> q \in jobs
                    /\ q \in ingest_decisions' <=> q \in ingest_decisions
  OBVIOUS
<1>1. /\ pc \in [Requests -> Steps] /\ window \in [Requests -> Minutes]
      /\ count \in [Requests -> Nat] /\ answer \in [Requests -> Answers]
  BY DEF GuardTypeOK
<1>2. CASE Receive(r) \/ check_payload(r) \/ ReadClock(r)
  BY <1>1, <1>2 DEF Receive, check_payload, ReadClock, Answer, GoTo
<1>3. CASE Enqueue(r) \/ AcquireTimeout(r) \/ StatementFails(r)
  BY <1>1, <1>3 DEF Enqueue, AcquireTimeout, StatementFails, Answer, GoTo
<1>4. CASE BeginRate(r) \/ Increment(r) \/ Deny(r) \/ RecordDenial(r)
  BY <1>1, <1>4 DEF BeginRate, Increment, Deny, RecordDenial, GoTo
<1>5. CASE Admit(r) \/ CommitDenial(r)
  BY <1>1, <1>5 DEF Admit, CommitDenial, Answer, GoTo
<1> QED BY <1>2, <1>3, <1>4, <1>5 DEF HandlerStep

\* What a step does to its own handler, as far as the row is concerned: it takes a free
\* row and reads the counter, or keeps the row and what it read, or has no row.
LEMMA OwnRow ==
  ASSUME GuardTypeOK, NEW r \in Requests, HandlerStep(r) \/ StatementFails(r)
  PROVE  HoldsRow(r)' => /\ window' = window /\ counters' = counters
                         /\ \/ HoldsRow(r) /\ count' = count
                            \/ RowFree(r) /\ count'[r] = counters[window[r]] + 1
<1>1. /\ pc \in [Requests -> Steps] /\ count \in [Requests -> Nat]
  BY DEF GuardTypeOK
<1>2. CASE Receive(r) \/ check_payload(r) \/ ReadClock(r) \/ BeginRate(r)
  BY <1>1, <1>2 DEF Receive, check_payload, ReadClock, BeginRate, Answer, GoTo, HoldsRow
<1>3. CASE Enqueue(r) \/ AcquireTimeout(r) \/ StatementFails(r)
  BY <1>1, <1>3 DEF Enqueue, AcquireTimeout, StatementFails, Answer, GoTo, HoldsRow
<1>4. CASE Increment(r)
  BY <1>1, <1>4 DEF Increment, GoTo
<1>5. CASE Deny(r) \/ RecordDenial(r)
  BY <1>1, <1>5 DEF Deny, RecordDenial, GoTo, HoldsRow
<1>6. CASE Admit(r) \/ CommitDenial(r)
  BY <1>1, <1>6 DEF Admit, CommitDenial, Answer, GoTo, HoldsRow
<1> QED BY <1>2, <1>3, <1>4, <1>5, <1>6 DEF HandlerStep

\* Counters move when the holder of a row commits what it was told, and at no other time.
LEMMA CounterMoves ==
  ASSUME GuardTypeOK, NEW r \in Requests, HandlerStep(r) \/ StatementFails(r)
  PROVE  \/ counters' = counters
         \/ HoldsRow(r) /\ ~ HoldsRow(r)' /\ counters' = [counters EXCEPT ![window[r]] = count[r]]
<1>1. pc \in [Requests -> Steps]
  BY DEF GuardTypeOK
<1>2. CASE Admit(r) \/ CommitDenial(r)
  BY <1>1, <1>2 DEF Admit, CommitDenial, CommitCount, Answer, GoTo, HoldsRow
<1>3. CASE ~ (Admit(r) \/ CommitDenial(r))
  BY <1>3 DEF HandlerStep, Receive, check_payload, ReadClock, BeginRate, Increment, Deny, RecordDenial, Enqueue,
              AcquireTimeout, StatementFails
<1> QED BY <1>2, <1>3

\* The row of a minute has one holder, and its holder knows the count: nobody else can
\* have committed since it was read.
LEMMA RowInductive ==
  ASSUME GuardTypeOK, RowExclusive, CountIsFresh, NEW r \in Requests, HandlerStep(r) \/ StatementFails(r)
  PROVE  RowExclusive' /\ CountIsFresh'
<1>1. /\ counters \in [Minutes -> Nat] /\ window \in [Requests -> Minutes]
  BY DEF GuardTypeOK
<1>2. \A q \in Requests \ {r} :
        (HoldsRow(q)' <=> HoldsRow(q)) /\ window'[q] = window[q] /\ count'[q] = count[q]
  BY OthersStay DEF HoldsRow
<1>3. RowExclusive'
  <2> SUFFICES ASSUME NEW p \in Requests, NEW q \in Requests, HoldsRow(p)', HoldsRow(q)',
                      window'[p] = window'[q], p # q
               PROVE  FALSE
    BY DEF RowExclusive
  <2>1. CASE p # r /\ q # r
    BY <1>2, <2>1 DEF RowExclusive
  <2>2. CASE p = r
    BY <1>2, <2>2, OwnRow DEF RowExclusive, RowFree, HoldsRow
  <2>3. CASE q = r
    BY <1>2, <2>3, OwnRow DEF RowExclusive, RowFree, HoldsRow
  <2> QED BY <2>1, <2>2, <2>3
<1>4. CountIsFresh'
  <2> SUFFICES ASSUME NEW q \in Requests, HoldsRow(q)' PROVE count'[q] = counters'[window'[q]] + 1
    BY DEF CountIsFresh
  <2>1. CASE q = r
    BY <2>1, OwnRow DEF CountIsFresh
  <2>2. CASE q # r
    <3>1. HoldsRow(q) /\ window'[q] = window[q] /\ count'[q] = counters[window[q]] + 1
      BY <1>2, <2>2 DEF CountIsFresh
    <3>2. counters'[window[q]] = counters[window[q]]
      BY <1>1, <2>2, <3>1, CounterMoves DEF RowExclusive
    <3> QED BY <3>1, <3>2
  <2> QED BY <2>1, <2>2
<1> QED BY <1>3, <1>4

----------------------------------------------------------------------------
(* Denials and admissions                                                   *)

\* A denial is recorded before it is answered, on both ways to be denied.
LEMMA DenialInductive ==
  ASSUME GuardTypeOK, StepsInOrder, DeniedIsRecorded, NEW r \in Requests, HandlerStep(r) \/ StatementFails(r)
  PROVE  StepsInOrder' /\ DeniedIsRecorded'
<1>1. /\ pc \in [Requests -> Steps] /\ answer \in [Requests -> Answers]
  BY DEF GuardTypeOK
<1>2. /\ pc'[r] = "commit" => r \in ingest_decisions'
      /\ r \in jobs' => pc'[r] = "done"
      /\ answer'[r] \in {"payload too large", "too many requests"} => r \in ingest_decisions'
  <2>1. /\ pc[r] = "commit" => r \in ingest_decisions
        /\ r \in jobs => pc[r] = "done"
        /\ answer[r] \in {"payload too large", "too many requests"} => r \in ingest_decisions
    BY DEF StepsInOrder, DeniedIsRecorded
  <2>2. CASE Receive(r) \/ check_payload(r) \/ ReadClock(r)
    BY <1>1, <2>1, <2>2 DEF Receive, check_payload, ReadClock, Answer, GoTo
  <2>3. CASE Enqueue(r) \/ AcquireTimeout(r) \/ StatementFails(r)
    BY <1>1, <2>1, <2>3 DEF Enqueue, AcquireTimeout, StatementFails, Answer, GoTo
  <2>4. CASE BeginRate(r) \/ Increment(r) \/ Deny(r) \/ RecordDenial(r)
    BY <1>1, <2>1, <2>4 DEF BeginRate, Increment, Deny, RecordDenial, GoTo
  <2>5. CASE Admit(r) \/ CommitDenial(r)
    BY <1>1, <2>1, <2>5 DEF Admit, CommitDenial, Answer, GoTo
  <2> QED BY <2>2, <2>3, <2>4, <2>5 DEF HandlerStep
<1> QED BY <1>2, OthersStay DEF StepsInOrder, DeniedIsRecorded

\* The admitted requests of a minute are finitely many.
LEMMA AdmittedIsFinite ==
  ASSUME NEW m \in Minutes
  PROVE  IsFiniteSet(Admitted(m)) /\ Cardinality(Admitted(m)) \in Nat
<1>1. Admitted(m) \in SUBSET Requests
  BY DEF Admitted
<1> QED BY <1>1, FS_Subset, FS_CardinalityType, GuardAssumption

\* Only Admit lets a request in.
LEMMA OnlyAdmitAdmits ==
  ASSUME GuardTypeOK, StepsInOrder, NEW r \in Requests, HandlerStep(r) \/ StatementFails(r), ~ Admit(r),
         NEW m \in Minutes
  PROVE  Admitted(m)' \subseteq Admitted(m)
<1>1. /\ pc \in [Requests -> Steps] /\ window \in [Requests -> Minutes] /\ (r \in jobs => pc[r] = "done")
  BY DEF GuardTypeOK, StepsInOrder
<1>2. r \in Admitted(m)' => r \in Admitted(m)
  <2>2. CASE Receive(r) \/ check_payload(r) \/ ReadClock(r)
    BY <1>1, <2>2 DEF Receive, check_payload, ReadClock, Answer, GoTo, Admitted
  <2>3. CASE Enqueue(r) \/ AcquireTimeout(r) \/ StatementFails(r)
    BY <1>1, <2>3 DEF Enqueue, AcquireTimeout, StatementFails, Answer, GoTo, Admitted
  <2>4. CASE BeginRate(r) \/ Increment(r) \/ Deny(r) \/ RecordDenial(r) \/ CommitDenial(r)
    BY <1>1, <2>4 DEF BeginRate, Increment, Deny, RecordDenial, CommitDenial, Answer, GoTo, Admitted
  <2> QED BY <2>2, <2>3, <2>4 DEF HandlerStep
<1> QED BY <1>2, OthersStay DEF Admitted

\* The one that is let in was counted: the counter of its minute grows with the admitted,
\* and is what the limit was compared with.
LEMMA AdmittedInductive ==
  ASSUME GuardTypeOK, RowExclusive, CountIsFresh, StepsInOrder, AdmittedWithinLimit,
         NEW r \in Requests, HandlerStep(r) \/ StatementFails(r)
  PROVE  AdmittedWithinLimit'
<1> SUFFICES ASSUME NEW m \in Minutes
             PROVE  Cardinality(Admitted(m)') <= MaxPerMinute /\ Cardinality(Admitted(m)') <= counters'[m]
  BY DEF AdmittedWithinLimit, Admitted
<1>0. /\ counters \in [Minutes -> Nat] /\ window \in [Requests -> Minutes] /\ count \in [Requests -> Nat]
      /\ MaxPerMinute \in Nat
  BY GuardAssumption DEF GuardTypeOK
<1>1. Cardinality(Admitted(m)) <= MaxPerMinute /\ Cardinality(Admitted(m)) <= counters[m]
  BY DEF AdmittedWithinLimit, Admitted
<1>2. IsFiniteSet(Admitted(m)) /\ Cardinality(Admitted(m)) \in Nat
  BY AdmittedIsFinite
<1>3. counters'[m] \in Nat /\ counters'[m] >= counters[m]
  <2>1. HoldsRow(r) => count[r] = counters[window[r]] + 1
    BY DEF CountIsFresh
  <2>2. CASE counters' = counters
    BY <1>0, <2>2
  <2>3. CASE HoldsRow(r) /\ counters' = [counters EXCEPT ![window[r]] = count[r]]
    BY <1>0, <2>1, <2>3
  <2> QED BY <2>2, <2>3, CounterMoves
<1>4. CASE Admitted(m)' \in SUBSET Admitted(m)
  <2>1. IsFiniteSet(Admitted(m)') /\ Cardinality(Admitted(m)') <= Cardinality(Admitted(m))
    BY <1>2, <1>4, FS_Subset
  <2>2. Cardinality(Admitted(m)') \in Nat
    BY <2>1, FS_CardinalityType
  <2> QED BY <1>0, <1>1, <1>2, <1>3, <2>1, <2>2
<1>5. CASE Admit(r) /\ window[r] = m
  <2>1. HoldsRow(r) /\ count[r] <= MaxPerMinute /\ counters' = [counters EXCEPT ![window[r]] = count[r]]
    BY <1>5 DEF Admit, HoldsRow, CommitCount
  <2>2. count[r] = counters[m] + 1 /\ counters'[m] = count[r]
    BY <1>0, <1>5, <2>1 DEF CountIsFresh
  <2>3. Admitted(m)' \in SUBSET (Admitted(m) \cup {r})
    BY OthersStay DEF Admitted
  <2>4. /\ IsFiniteSet(Admitted(m) \cup {r})
        /\ \/ Cardinality(Admitted(m) \cup {r}) = Cardinality(Admitted(m))
           \/ Cardinality(Admitted(m) \cup {r}) = Cardinality(Admitted(m)) + 1
    BY <1>2, FS_AddElement
  <2>5. IsFiniteSet(Admitted(m)') /\ Cardinality(Admitted(m)') <= Cardinality(Admitted(m) \cup {r})
    BY <2>3, <2>4, FS_Subset
  <2>6. Cardinality(Admitted(m)') \in Nat
    BY <2>5, FS_CardinalityType
  <2> QED BY <1>0, <1>1, <1>2, <2>1, <2>2, <2>4, <2>5, <2>6
<1>6. CASE Admit(r) /\ window[r] # m
  <2>1. r \notin Admitted(m)'
    BY <1>6 DEF Admit, Admitted
  <2>2. Admitted(m)' \in SUBSET Admitted(m)
    BY <2>1, OthersStay DEF Admitted
  <2> QED BY <1>4, <2>2
<1> QED BY <1>4, <1>5, <1>6, OnlyAdmitAdmits

\* Every step keeps what the guard is for.
LEMMA GuardInductive ==
  ASSUME GuardInv, [GuardNext]_guardVars
  PROVE  GuardInv'
<1>1. GuardTypeOK'
  BY TypeInductive DEF GuardInv
<1>2. ASSUME NEW r \in Requests, HandlerStep(r) \/ StatementFails(r) PROVE GuardInv'
  BY <1>1, <1>2, RowInductive, DenialInductive, AdmittedInductive DEF GuardInv
<1>3. ASSUME UNCHANGED <<pc, window, count, counters, ingest_decisions, jobs, answer>> PROVE GuardInv'
  <2>1. RowExclusive' /\ CountIsFresh'
    BY <1>3 DEF GuardInv, RowExclusive, CountIsFresh, HoldsRow
  <2>2. StepsInOrder' /\ DeniedIsRecorded' /\ AdmittedWithinLimit'
    BY <1>3 DEF GuardInv, StepsInOrder, DeniedIsRecorded, AdmittedWithinLimit
  <2> QED BY <1>1, <2>1, <2>2 DEF GuardInv
<1> QED BY <1>2, <1>3 DEF GuardNext, NextMinute, guardVars

\* The invariant holds of every behaviour, whatever the scheduler and the database do.
LEMMA GuardInvHolds == GuardSpec => []GuardInv
<1>1. GuardInit => GuardInv
  <2> SUFFICES ASSUME GuardInit PROVE GuardInv
    OBVIOUS
  <2>1. GuardTypeOK
    BY InitIsTyped
  <2>2. RowExclusive /\ CountIsFresh /\ StepsInOrder /\ DeniedIsRecorded
    BY DEF GuardInit, RowExclusive, CountIsFresh, StepsInOrder, DeniedIsRecorded, HoldsRow
  <2>3. AdmittedWithinLimit
    <3> SUFFICES ASSUME NEW m \in Minutes
                 PROVE  Cardinality(Admitted(m)) <= MaxPerMinute /\ Cardinality(Admitted(m)) <= counters[m]
      BY DEF AdmittedWithinLimit, Admitted
    <3>1. Admitted(m) = {} /\ counters[m] = 0
      BY DEF GuardInit, Admitted
    <3> QED BY <3>1, FS_EmptySet, GuardAssumption
  <2> QED BY <2>1, <2>2, <2>3 DEF GuardInv
<1>2. GuardInv /\ [GuardNext]_guardVars => GuardInv'
  BY GuardInductive
<1> QED BY <1>1, <1>2, PTL DEF GuardSpec

\* Whoever is told to be denied has a row in ingest_decisions, though the row is written
\* over a connection of its own and either transaction may fail.
THEOREM DenialsAreRecorded == GuardSpec => []DeniedIsRecorded
<1>1. GuardInv => DeniedIsRecorded
  BY DEF GuardInv
<1> QED BY <1>1, GuardInvHolds, PTL

\* check_rate is a limit: however many handlers count at a time, and whatever fails in
\* between, the counter of a minute lets in no more than max_enqueues_per_minute_per_queue.
THEOREM AdmissionsAreLimited == GuardSpec => []AdmittedWithinLimit
<1>1. GuardInv => AdmittedWithinLimit
  BY DEF GuardInv
<1> QED BY <1>1, GuardInvHolds, PTL
=============================================================================
