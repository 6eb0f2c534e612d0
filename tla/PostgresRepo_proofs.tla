-------------------------- MODULE PostgresRepo_proofs --------------------------
(***************************************************************************)
(* Facts about the rows, the clock, the ids and the locks of PostgresRepo  *)
(* that the proofs about its users rest on.                                *)
(***************************************************************************)
EXTENDS PostgresRepo, FiniteSetTheorems, TLAPS

----------------------------------------------------------------------------
(* Smallest and largest numbers                                             *)

\* A set of numbers that is not empty has a smallest member: the next id.
LEMMA MinOfNumbers ==
  ASSUME NEW S \in SUBSET Nat, S # {}
  PROVE  Min(S) \in S /\ \A y \in S : Min(S) <= y
<1>1. PICK x \in S : \A y \in S : ~ (<<y, x>> \in OpToRel(<, Nat))
  BY NatLessThanWellFounded, WFMin, Zenon
<1>2. \A y \in S : x <= y
  <2> SUFFICES ASSUME NEW y \in S PROVE x <= y
    OBVIOUS
  <2>1. <<y, x>> \in OpToRel(<, Nat) <=> y < x
    BY DEF OpToRel
  <2>2. ~ (y < x)
    BY <1>1, <2>1, Zenon
  <2> QED BY <2>2
<1>3. \E z \in S : \A y \in S : z =< y
  BY <1>2
<1> QED BY <1>3, Zenon DEF Min

\* A set of numbers that is not empty and bounded has a largest member.
LEMMA MaxOfNumbers ==
  ASSUME NEW n \in Nat, NEW S \in SUBSET (0 .. n), S # {}
  PROVE  Max(S) \in S /\ \A y \in S : y <= Max(S)
<1> DEFINE D == {n - x : x \in S}
<1>1. D \in SUBSET Nat /\ D # {}
  <2>1. \A x \in S : n - x \in Nat
    OBVIOUS
  <2> QED BY <2>1
<1>2. Min(D) \in D /\ \A d \in D : Min(D) <= d
  BY <1>1, MinOfNumbers
<1>3. PICK x \in S : Min(D) = n - x
  BY <1>2
<1>4. \A y \in S : x >= y
  BY <1>2, <1>3
<1>5. \E z \in S : \A y \in S : z >= y
  BY <1>4
<1>6. Max(S) \in S /\ \A y \in S : Max(S) >= y
  BY <1>5, Zenon DEF Max
<1> QED BY <1>6

\* The larger of two numbers.
LEMMA MaxOfTwo ==
  ASSUME NEW a \in Nat, NEW b \in Nat
  PROVE  Max({a, b}) \in Nat /\ Max({a, b}) >= a /\ Max({a, b}) >= b
<1>1. PICK x \in {a, b} : \A y \in {a, b} : x >= y
  OBVIOUS
<1>2. Max({a, b}) \in {a, b} /\ \A y \in {a, b} : Max({a, b}) >= y
  BY <1>1 DEF Max
<1> QED BY <1>2

----------------------------------------------------------------------------
(* Time                                                                     *)

\* The horizon of the model is an instant that stands for all later ones.
LEMMA AtIsInstant ==
  ASSUME NEW t \in Nat
  PROVE  At(t) \in Instants
  BY PostgresAssumption DEF At, Instants

\* dataset_id_for gives every instant one of the datasets.
LEMMA DatasetOfInstant ==
  ASSUME NEW t \in Instants
  PROVE  DatasetOf(t) \in Datasets
<1>1. t \in Nat /\ Horizon \in Nat /\ Hour \in Nat /\ Hour > 0 /\ t <= Horizon
  BY PostgresAssumption DEF Instants
<1> QED BY <1>1 DEF DatasetOf, Datasets

----------------------------------------------------------------------------
(* Rows                                                                     *)

\* UPDATE jobs SET status, locked_by = NULL, lock_expires_at = NULL.
LEMMA UnlockedRow ==
  ASSUME NEW row \in Job, NEW status \in Status
  PROVE  /\ Unlocked(row, status) \in Job
         /\ Unlocked(row, status).status = status
         /\ Unlocked(row, status).locked_by = None
  BY DEF Unlocked, Job

\* The sweep by the deadline changes the status and the reason.
LEMMA SweptRow ==
  ASSUME NEW row \in Job
  PROVE  PastDeadline(row) \in Job /\ PastDeadline(row).status = "dlq"
  BY DEF PastDeadline, Job, Status

\* UPDATE job_attempts that closes an attempt.
LEMMA ClosedRow ==
  ASSUME NEW row \in Attempt, NEW code \in {"LEASE_EXPIRED", "CANCELLED", "HANDLER_FAILURE", None}
  PROVE  /\ ClosedAttempt(row, code) \in Attempt
         /\ ClosedAttempt(row, code).status = "failed"
         /\ ClosedAttempt(row, code).job_id = row.job_id
         /\ ClosedAttempt(row, code).attempt_no = row.attempt_no
         /\ ClosedAttempt(row, code).worker_id = row.worker_id
  BY DEF ClosedAttempt, Attempt

----------------------------------------------------------------------------
(* New attempts                                                             *)

\* The INSERT of attempts draws ids that no row has.
LEMMA NewAttemptIsNew ==
  ASSUME NEW S \in SUBSET JobIds, NEW j \in S
  PROVE  /\ NewAttempt(S, j) \notin Recorded
         /\ \A a \in Recorded : a < NewAttempt(S, j)
         /\ NewAttempt(S, j) \in Nat
<1> DEFINE R == Recorded \cup {0}
           I == {i \in S : i <= j}
<1>1. R \in SUBSET (0 .. MaxAttemptId) /\ MaxAttemptId \in Nat /\ R # {}
  <2>1. MaxAttemptId \in Nat
    BY PostgresAssumption
  <2> QED BY <2>1 DEF Recorded, AttemptIds
<1>2. j \in Nat /\ I \in SUBSET (0 .. j) /\ j \in I
  <2>1. j \in Nat /\ \A i \in S : i \in Nat
    BY PostgresAssumption
  <2>2. \A i \in I : i \in 0 .. j
    BY <2>1
  <2>3. j \in I
    BY <2>1
  <2> HIDE DEF I
  <2> QED BY <2>1, <2>2, <2>3
<1>3. \A a \in Recorded : a \in R
  OBVIOUS
<1>4. NewAttempt(S, j) = Max(R) + Cardinality(I)
  BY DEF NewAttempt
<1> HIDE DEF R, I
<1>5. Max(R) \in R /\ \A a \in R : a <= Max(R)
  BY <1>1, MaxOfNumbers
<1>6. IsFiniteSet(0 .. j)
  BY <1>2, FS_Interval
<1>7. IsFiniteSet(I)
  BY <1>2, <1>6, FS_Subset
<1>8. Cardinality(I) \in Nat /\ Cardinality(I) # 0
  <2>1. I # {}
    BY <1>2
  <2>2. Cardinality(I) \in Nat
    BY <1>7, FS_CardinalityType
  <2>3. Cardinality(I) # 0
    BY <1>7, <2>1, FS_EmptySet
  <2> QED BY <2>2, <2>3
<1>9. Max(R) \in Nat /\ \A a \in Recorded : a \in Nat /\ a <= Max(R)
  <2>1. \A a \in R : a \in Nat
    BY <1>1
  <2> QED BY <2>1, <1>3, <1>5
<1> QED BY <1>4, <1>8, <1>9

\* A finite set of numbers that is not empty has a largest member: a smallest subset
\* without one would have one as soon as a member is put back.
LEMMA MaxOfFinite ==
  ASSUME NEW F \in SUBSET Nat, IsFiniteSet(F), F # {}
  PROVE  Max(F) \in F /\ \A y \in F : y <= Max(F)
<1> DEFINE HasMax(X) == \E x \in X : \A y \in X : x >= y
           T == {X \in SUBSET F : X # {} /\ ~ HasMax(X)}
           R == StrictSubsetOrdering(F)
<1>1. IsWellFoundedOn(R, SUBSET F)
  BY FS_StrictSubsetOrderingWellFounded, FS_FiniteSubsetsOfFinite
<1>2. ASSUME T # {} PROVE FALSE
  <2>1. T \subseteq SUBSET F
    OBVIOUS
  <2>2. \E X \in T : \A Y \in T : ~ (<<Y, X>> \in R)
    <3> HIDE DEF T, R
    <3> QED BY <1>1, <1>2, <2>1, WFMin, Zenon
  <2>3. PICK X \in T : \A Y \in T : ~ (<<Y, X>> \in R)
    BY <2>2
  <2>4. X \in SUBSET F /\ X # {} /\ ~ HasMax(X)
    OBVIOUS
  <2>5. PICK x \in X : x \in Nat
    BY <2>4
  <2> DEFINE Y == X \ {x}
  <2>6. Y \in SUBSET F /\ <<Y, X>> \in R
    BY <2>4 DEF StrictSubsetOrdering
  <2>7. Y \notin T
    <3> HIDE DEF T, R, Y
    <3> QED BY <2>3, <2>6
  <2>8. CASE Y = {}
    <3>1. \A y \in X : y = x
      BY <2>8
    <3>2. HasMax(X)
      BY <2>5, <3>1
    <3> QED BY <2>4, <3>2
  <2>9. CASE Y # {}
    <3>1. HasMax(Y)
      BY <2>6, <2>7, <2>9
    <3>2. PICK m \in Y : \A y \in Y : m >= y
      BY <3>1
    <3>3. m \in X /\ m \in Nat /\ \A y \in X : y \in Nat /\ (y = x \/ m >= y)
      BY <2>4, <3>2
    <3>4. CASE m >= x
      <4>1. \A y \in X : m >= y
        BY <3>3, <3>4
      <4> QED BY <2>4, <3>3, <4>1
    <3>5. CASE x >= m
      <4>1. \A y \in X : x >= y
        BY <2>5, <3>3, <3>5
      <4> QED BY <2>4, <2>5, <4>1
    <3> QED BY <2>5, <3>3, <3>4, <3>5
  <2> QED BY <2>8, <2>9
<1>3. \E x \in F : \A y \in F : x >= y
  BY <1>2
<1>4. Max(F) \in F /\ \A y \in F : Max(F) >= y
  BY <1>3, Zenon DEF Max
<1> QED BY <1>4

\* COALESCE(MAX(attempt_no), 0) + 1 is the number that follows those of the attempts that
\* are there.
LEMMA NextNoIsNumber ==
  ASSUME job_attempts \in [AttemptIds -> Attempt \cup {None}], NEW j \in JobIds
  PROVE  /\ NextNo(j) \in Nat \ {0} /\ \A a \in AttemptsOf(j) : job_attempts[a].attempt_no < NextNo(j)
         /\ NextNo(j) = 1 \/ \E a \in AttemptsOf(j) : job_attempts[a].attempt_no = NextNo(j) - 1
<1> DEFINE N == {job_attempts[a].attempt_no : a \in AttemptsOf(j)}
           F == N \cup {0}
           no == [a \in AttemptsOf(j) |-> job_attempts[a].attempt_no]
<1>1. \A a \in AttemptsOf(j) : a \in AttemptIds /\ job_attempts[a].attempt_no \in Nat
  BY DEF AttemptsOf, Recorded, Attempt
<1>2. IsFiniteSet(AttemptsOf(j))
  <2>1. IsFiniteSet(AttemptIds)
    BY PostgresAssumption, FS_Interval DEF AttemptIds
  <2>2. AttemptsOf(j) \in SUBSET AttemptIds
    BY <1>1
  <2> QED BY <2>1, <2>2, FS_Subset
<1>3. no \in Surjection(AttemptsOf(j), N)
  BY DEF Surjection
<1>4. IsFiniteSet(N)
  <2> HIDE DEF N, no
  <2> QED BY <1>2, <1>3, FS_Surjection
<1>5. F \in SUBSET Nat /\ F # {} /\ \A a \in AttemptsOf(j) : job_attempts[a].attempt_no \in F
  BY <1>1
<1>6. IsFiniteSet(F)
  <2> HIDE DEF N
  <2> QED BY <1>4, FS_AddElement
<1>7. NextNo(j) = Max(F) + 1
  BY DEF NextNo
<1> HIDE DEF F
<1>8. Max(F) \in F /\ \A y \in F : y <= Max(F)
  BY <1>5, <1>6, MaxOfFinite
<1>9. Max(F) \in Nat
  BY <1>5, <1>8
<1>10. Max(F) = 0 \/ \E a \in AttemptsOf(j) : job_attempts[a].attempt_no = Max(F)
  BY <1>8 DEF F
<1> QED BY <1>1, <1>5, <1>7, <1>8, <1>9, <1>10

----------------------------------------------------------------------------
(* Leases                                                                   *)

\* ORDER BY run_at, created_at LIMIT 1 finds a row where there is one.
LEMMA OldestIsOne ==
  ASSUME NEW S \in SUBSET JobIds, S # {}, \A j \in S : jobs[j].run_at \in Nat
  PROVE  Oldest(S) \in S
<1> DEFINE R == {jobs[j].run_at : j \in S}
           first == Min(R)
           T == {j \in S : jobs[j].run_at = first}
           oldest == Min(T)
<1>1. R \in SUBSET Nat /\ R # {}
  OBVIOUS
<1>2. first \in R /\ \A r \in R : first <= r
  <2> HIDE DEF R
  <2> QED BY <1>1, MinOfNumbers
<1>3. \A j \in S : first <= jobs[j].run_at
  BY <1>2
<1>4. T \in SUBSET Nat /\ T # {}
  <2>1. T # {}
    BY <1>2
  <2> QED BY <2>1, PostgresAssumption
<1> HIDE DEF first
<1>5. oldest \in T /\ \A j \in T : oldest <= j
  <2> HIDE DEF T
  <2> QED BY <1>4, MinOfNumbers
<1> HIDE DEF oldest
<1>6. ASSUME NEW i \in S \ {oldest}
      PROVE  jobs[oldest].run_at < jobs[i].run_at \/ (jobs[oldest].run_at = jobs[i].run_at /\ oldest < i)
  <2>1. oldest \in S /\ jobs[oldest].run_at = first /\ first \in Nat /\ jobs[i].run_at \in Nat /\ first <= jobs[i].run_at
    BY <1>1, <1>2, <1>3, <1>5
  <2>2. jobs[i].run_at = first => oldest <= i /\ oldest \in Nat /\ i \in Nat
    BY <1>4, <1>5
  <2> QED BY <2>1, <2>2
<1>7. \E j \in S : \A i \in S \ {j} :
        jobs[j].run_at < jobs[i].run_at \/ (jobs[j].run_at = jobs[i].run_at /\ j < i)
  BY <1>5, <1>6
<1> QED BY <1>7, Zenon DEF Oldest

\* What is due and what of it is swept is queued.
LEMMA DueIsQueued ==
  ASSUME NEW at
  PROVE  /\ Due(at) \in SUBSET Rows /\ Swept(at) \in SUBSET Due(at)
         /\ \A j \in Due(at) : jobs[j].status = "queued"
  BY DEF Due, Swept

\* One INSERT gives its jobs different ids, all within what the INSERT has counted.
LEMMA NewAttemptsDiffer ==
  ASSUME NEW S \in SUBSET JobIds, IsFiniteSet(S)
  PROVE  /\ \A i, j \in S : NewAttempt(S, i) = NewAttempt(S, j) => i = j
         /\ \A j \in S : NewAttempt(S, j) \in 1 .. (Max(Recorded \cup {0}) + Cardinality(S))
<1> DEFINE m == Max(Recorded \cup {0})
           I(j) == {i \in S : i <= j}
<1>1. m \in Nat
  <2>1. Recorded \cup {0} \in SUBSET (0 .. MaxAttemptId) /\ MaxAttemptId \in Nat
    BY PostgresAssumption DEF Recorded, AttemptIds
  <2>2. m \in Recorded \cup {0}
    BY <2>1, MaxOfNumbers
  <2> QED BY <2>1, <2>2
<1>2. \A j \in S : NewAttempt(S, j) = m + Cardinality(I(j))
  BY DEF NewAttempt
<1> HIDE DEF m
<1>3. \A j \in S : /\ IsFiniteSet(I(j)) /\ I(j) \in SUBSET S
                  /\ Cardinality(I(j)) \in Nat /\ Cardinality(I(j)) <= Cardinality(S)
  <2> SUFFICES ASSUME NEW j \in S
               PROVE  /\ IsFiniteSet(I(j)) /\ I(j) \in SUBSET S
                      /\ Cardinality(I(j)) \in Nat /\ Cardinality(I(j)) <= Cardinality(S)
    OBVIOUS
  <2>1. I(j) \in SUBSET S
    OBVIOUS
  <2> HIDE DEF I
  <2>2. IsFiniteSet(I(j)) /\ Cardinality(I(j)) <= Cardinality(S)
    BY <2>1, FS_Subset
  <2>3. Cardinality(I(j)) \in Nat
    BY <2>2, FS_CardinalityType
  <2> QED BY <2>1, <2>2, <2>3
<1>4. \A i, j \in S : i < j => Cardinality(I(i)) < Cardinality(I(j))
  <2> SUFFICES ASSUME NEW i \in S, NEW j \in S, i < j
               PROVE  Cardinality(I(i)) < Cardinality(I(j))
    OBVIOUS
  <2>1. i \in Nat /\ j \in Nat /\ \A k \in S : k \in Nat
    BY PostgresAssumption
  <2>2. I(i) \in SUBSET I(j)
    <3> SUFFICES ASSUME NEW k \in S, k <= i PROVE k <= j
      OBVIOUS
    <3> QED BY <2>1
  <2>3. j \in I(j) /\ j \notin I(i)
    BY <2>1
  <2> HIDE DEF I
  <2>4. IsFiniteSet(I(j)) /\ Cardinality(I(i)) \in Nat /\ Cardinality(I(j)) \in Nat
    BY <1>3
  <2>5. Cardinality(I(i)) <= Cardinality(I(j)) /\ (Cardinality(I(j)) = Cardinality(I(i)) => I(j) = I(i))
    BY <2>2, <2>4, FS_Subset
  <2> QED BY <2>3, <2>4, <2>5
<1>5. ASSUME NEW j \in S PROVE j \in I(j)
  <2>1. j \in Nat
    BY PostgresAssumption
  <2> QED BY <2>1
<1> HIDE DEF I
<1>6. ASSUME NEW i \in S, NEW j \in S, NewAttempt(S, i) = NewAttempt(S, j) PROVE i = j
  <2>1. i \in Nat /\ j \in Nat
    BY PostgresAssumption
  <2>2. Cardinality(I(i)) = Cardinality(I(j)) /\ Cardinality(I(i)) \in Nat
    BY <1>1, <1>2, <1>3, <1>6
  <2>3. ~ (i < j) /\ ~ (j < i)
    BY <1>4, <2>2
  <2> QED BY <2>1, <2>3
<1>7. ASSUME NEW j \in S PROVE NewAttempt(S, j) \in 1 .. (m + Cardinality(S))
  <2>1. NewAttempt(S, j) = m + Cardinality(I(j)) /\ Cardinality(I(j)) \in Nat /\ Cardinality(I(j)) <= Cardinality(S)
    BY <1>2, <1>3
  <2>2. Cardinality(I(j)) # 0
    <3>1. IsFiniteSet(I(j)) /\ I(j) # {}
      BY <1>3, <1>5
    <3> QED BY <3>1, FS_EmptySet
  <2>3. Cardinality(S) \in Nat
    BY FS_CardinalityType
  <2> QED BY <1>1, <2>1, <2>2, <2>3
<1> QED BY <1>6, <1>7 DEF m
=============================================================================
