------------------------- MODULE RedisBackend_proofs -------------------------
(***************************************************************************)
(* What holds of the Redis backend for every number of jobs, workers and   *)
(* queues, every batch size, delay and lease time, and every interleaving  *)
(* of the commands: no work is lost while no client dies, and until a      *)
(* lease is taken back no two workers have a job in hand and work that is  *)
(* over stays as it is.                                                    *)
(***************************************************************************)
EXTENDS RedisBackend, SequenceTheorems, WellFoundedInduction, TLAPS

Pushing == {"RPUSH", "LPUSH"}

Over == {"succeeded", "dlq"}

----------------------------------------------------------------------------
(* The commands under way                                                   *)

\* A command after the i-th of s pushes the id of the i-th.
PushedAfter(s, i) == \E k \in DOMAIN s : i < k /\ s[k].op \in Pushing /\ s[k].id = s[i].id

\* Two writes of one id by a client: a document of queued work, then the push.
WritesInOrder(s) ==
  \A i, k \in DOMAIN s : i < k /\ s[i].id = s[k].id =>
    \/ s[i].op = "LREM" \/ s[k].op = "LREM"
    \/ s[i].op = "HSET" /\ s[i].row.status = "queued" /\ s[k].op \in Pushing

\* An id is only pushed to a queue.  It is removed only from the processing list of the
\* client itself, or when it is pushed afterwards.  Queued work is pushed after its
\* document is written; running work is locked by the client that writes it.
CommandInPlace(c, s, i) ==
  /\ s[i].op \in Pushing => \E q \in Queues : s[i].key = QueueKey(q)
  /\ s[i].op = "LREM" =>
       /\ s[i].key \in ProcessingKeys
       /\ PushedAfter(s, i) \/ \E q \in Queues : c \in Workers /\ s[i].key = ProcessingKey(q, c)
  /\ s[i].op = "HSET" =>
       /\ s[i].row.status = "queued" => PushedAfter(s, i)
       /\ s[i].row.status = "running" => c \in Workers /\ s[i].row.locked_by = c

WellFormed(c, s) == WritesInOrder(s) /\ \A i \in DOMAIN s : CommandInPlace(c, s, i)

CommandsInOrder == \A c \in Clients : WellFormed(c, todo[c])

\* The lease of the job is one that the worker has, or its lease call will return.
Returned(w, j) == j \in held[w] \/ (loop[w].kind = "lease" /\ j \in loop[w].got)

LeaseUnderWay(w, j) == loop[w].kind = "lease" /\ loop[w].id = j

Writes(c, j) == \E i \in DOMAIN todo[c] : todo[c][i].op = "HSET" /\ todo[c][i].id = j

Pushes(c, j) == \E i \in DOMAIN todo[c] : todo[c][i].op \in Pushing /\ todo[c][i].id = j

\* InHand, with the commands spelled out.
Holds(w, j) == Returned(w, j) \/ LeaseUnderWay(w, j) \/ Writes(w, j)

\* A client does one thing at a time, and writes running work only for a lease it has.
OneThing(w) ==
  /\ loop[w] # Idle => held[w] = {}
  /\ loop[w].kind = "lease" /\ loop[w].id # None => todo[w] = <<>> /\ loop[w].left > 0
  /\ loop[w].kind = "reap" /\ loop[w].ids # <<>> => loop[w].key \in ProcessingKeys
  /\ started[w] \subseteq held[w]
  /\ \A i \in DOMAIN todo[w] :
       todo[w][i].op = "HSET" /\ todo[w][i].row.status = "running" => Returned(w, todo[w][i].id)

OneThingAtATime == loop[App] = Idle /\ \A w \in Workers : OneThing(w)

----------------------------------------------------------------------------
(* The inductive invariant for lost work                                    *)

Queued(j) == \E q \in Queues : Contains(lists[QueueKey(q)], j)

\* A lease has moved the id and its result is not written yet: the id is still in the
\* processing list of the worker, whatever reapers do.
Moving(w, j) ==
  /\ loop[w].kind = "lease"
  /\ \/ loop[w].id = j
     \/ todo[w] # <<>> /\ Head(todo[w]).op = "HSET" /\ Head(todo[w]).id = j
  /\ Contains(lists[ProcessingKey(loop[w].queue, w)], j)

Leased(w, j) == jobs[j].status = "running" /\ jobs[j].locked_by = w /\ Holds(w, j)

Unfinished(j) == jobs[j] # None /\ jobs[j].status \in {"queued", "running"}

Kept(j) ==
  \/ Queued(j)
  \/ \E c \in Clients : Pushes(c, j)
  \/ \E w \in Workers : Moving(w, j) \/ Leased(w, j)

NothingLost == calls.abort = 0 => \A j \in JobIds : Unfinished(j) => Kept(j)

\* Every id that is pushed has a document by then.
Documented(s) ==
  \A i \in DOMAIN s : s[i].op \in Pushing =>
    jobs[s[i].id] # None \/ \E k \in DOMAIN s : k < i /\ s[k].op = "HSET" /\ s[k].id = s[i].id

\* What has no document is nowhere, except in the hands of the client that writes it.
Undocumented ==
  /\ \A j \in JobIds : jobs[j] = None => ~ Queued(j) /\ \A w \in Workers : ~ Returned(w, j) /\ ~ LeaseUnderWay(w, j)
  /\ \A c \in Clients : Documented(todo[c])

----------------------------------------------------------------------------
(* The inductive invariant for exclusive leases                             *)

\* The client has the job in its hands or is about to push its id.
Has(c, j) == Pushes(c, j) \/ (c \in Workers /\ Holds(c, j))

\* An id is in one place: once in one queue, or with one client.
OnePlace ==
  /\ \A j \in JobIds : \A c \in Clients : Queued(j) => ~ Has(c, j)
  /\ \A j \in JobIds : \A c, d \in Clients : Has(c, j) /\ Has(d, j) => c = d
  /\ \A j \in JobIds : \A q, r \in Queues : Contains(lists[QueueKey(q)], j) /\ Contains(lists[QueueKey(r)], j) => q = r
  /\ \A q \in Queues : IsInjective(lists[QueueKey(q)])

\* Where an id is, its job is not over yet.
PlacedIsOpen ==
  \A j \in JobIds : jobs[j] # None /\ (Queued(j) \/ \E c \in Clients : Has(c, j)) => jobs[j].status \notin Over

\* A worker that pushes an id, or finishes the job, has let go of it.
LetGo(w) ==
  /\ \A j \in JobIds : Pushes(w, j) \/ LeaseUnderWay(w, j) => ~ Returned(w, j)
  /\ \A i \in DOMAIN todo[w] :
       todo[w][i].op = "HSET" /\ todo[w][i].row.status \in Over => ~ Returned(w, todo[w][i].id)

\* The application writes a cancellation, or a document that is not there yet.
AppWrites ==
  \A i \in DOMAIN todo[App] : todo[App][i].op = "HSET" =>
    \/ todo[App][i].row.status = "canceled"
    \/ todo[App][i].row.status = "queued" /\ jobs[todo[App][i].id] = None

PlaceInv == ~ reaped => OnePlace /\ PlacedIsOpen /\ AppWrites /\ \A w \in Workers : LetGo(w)

BaseInv == RedisTypeOK /\ CommandsInOrder /\ OneThingAtATime

RedisInv == BaseInv /\ NothingLost /\ Undocumented /\ PlaceInv

----------------------------------------------------------------------------
(* Lists and commands                                                       *)

\* A set of numbers that is not empty has a smallest member.
LEMMA MinOfNumbers ==
  ASSUME NEW S \in SUBSET Nat, S # {}
  PROVE  Min(S) \in S
<1>1. PICK x \in S : \A y \in S : ~ (<<y, x>> \in OpToRel(<, Nat))
  BY NatLessThanWellFounded, WFMin, Zenon
<1>2. \A y \in S : x <= y
  <2> SUFFICES ASSUME NEW y \in S PROVE x <= y
    OBVIOUS
  <2>1. <<y, x>> \in OpToRel(<, Nat) <=> y < x
    BY DEF OpToRel
  <2>2. ~ (y < x)
    BY <1>1, <2>1, Zenon
  <2> QED BY <2>2
<1>3. \E z \in S : \A y \in S : z =< y
  BY <1>2
<1> QED BY <1>3, Zenon DEF Min

\* Removing an id from a list keeps everything else in it (LREM).
LEMMA RemoveFirstKeeps ==
  ASSUME NEW S, NEW s \in Seq(S), NEW e
  PROVE  /\ RemoveFirst(s, e) \in Seq(S)
         /\ \A x : x # e /\ Contains(s, x) => Contains(RemoveFirst(s, e), x)
<1>1. CASE ~ \E i \in 1 .. Len(s) : s[i] = e
  BY <1>1 DEF RemoveFirst
<1>2. CASE \E i \in 1 .. Len(s) : s[i] = e
  <2> DEFINE n == Min({i \in 1 .. Len(s) : s[i] = e})
             front == SubSeq(s, 1, n - 1)
             rest == SubSeq(s, n + 1, Len(s))
  <2>1. n \in 1 .. Len(s) /\ s[n] = e
    <3> DEFINE I == {i \in 1 .. Len(s) : s[i] = e}
    <3>1. I \in SUBSET Nat /\ I # {}
      BY <1>2
    <3>2. Min(I) \in I
      BY <3>1, MinOfNumbers
    <3> QED BY <3>2
  <2>2. RemoveFirst(s, e) = front \o rest
    <3>1. {i \in 1 .. Len(s) : s[i] = e} # {}
      BY <1>2
    <3> QED BY <1>2, <3>1, Zenon DEF RemoveFirst, RemoveAt, SelectInSeq
  <2> HIDE DEF n
  <2>3. /\ front \in Seq(S) /\ Len(front) = n - 1
        /\ \A i \in 1 .. n - 1 : front[i] = s[i]
    <3>1. \A i \in 1 .. n - 1 : s[i] \in S
      BY <2>1, ElementOfSeq, LenProperties
    <3> QED BY <2>1, <3>1, SubSeqProperties
  <2>4. /\ rest \in Seq(S) /\ Len(rest) = Len(s) - n
        /\ \A i \in 1 .. Len(s) - n : rest[i] = s[n + i]
    <3>1. \A i \in n + 1 .. Len(s) : s[i] \in S
      BY <2>1, ElementOfSeq, LenProperties
    <3>2. Len(s) \in Nat
      BY LenProperties
    <3> QED BY <2>1, <3>1, <3>2, SubSeqProperties
  <2> HIDE DEF front, rest
  <2>5. /\ front \o rest \in Seq(S) /\ Len(front \o rest) = Len(s) - 1
        /\ \A i \in 1 .. Len(s) - 1 : (front \o rest)[i] = IF i <= n - 1 THEN front[i] ELSE rest[i - (n - 1)]
    <3>1. Len(front) + Len(rest) = Len(s) - 1
      BY <2>1, <2>3, <2>4, LenProperties
    <3> QED BY <2>3, <2>4, <3>1, ConcatProperties
  <2>6. ASSUME NEW x, x # e, NEW i \in 1 .. Len(s), s[i] = x
        PROVE  \E k \in 1 .. Len(s) - 1 : (front \o rest)[k] = x
    <3>1. Len(s) \in Nat
      BY LenProperties
    <3>2. CASE i < n
      <4>1. i \in 1 .. Len(s) - 1 /\ i \in 1 .. n - 1 /\ i <= n - 1
        BY <2>1, <3>1, <3>2
      <4> QED BY <2>3, <2>5, <2>6, <4>1
    <3>3. CASE i > n
      <4>1. i - 1 \in 1 .. Len(s) - 1 /\ ~ i - 1 <= n - 1
        BY <2>1, <3>1, <3>3
      <4>2. i - n \in 1 .. Len(s) - n /\ i - 1 - (n - 1) = i - n /\ n + (i - n) = i
        BY <2>1, <3>1, <3>3
      <4> QED BY <2>4, <2>5, <2>6, <4>1, <4>2
    <3>4. i < n \/ i > n
      BY <2>1, <2>6, <3>1
    <3> QED BY <3>2, <3>3, <3>4
  <2> QED BY <2>2, <2>5, <2>6 DEF Contains
<1> QED BY <1>1, <1>2

\* Pushing an id at either end of a list.
LEMMA PushAdds ==
  ASSUME NEW S, NEW s \in Seq(S), NEW e \in S, NEW t, t = Append(s, e) \/ t = <<e>> \o s
  PROVE  /\ t \in Seq(S)
         /\ \A x : Contains(t, x) <=> Contains(s, x) \/ x = e
         /\ IsInjective(s) /\ ~ Contains(s, e) => IsInjective(t)
<1>1. Len(s) \in Nat /\ DOMAIN s = 1 .. Len(s)
  BY LenProperties
<1>2. CASE t = Append(s, e)
  <2>1. t \in Seq(S) /\ DOMAIN t = 1 .. Len(s) + 1 /\ Len(t) = Len(s) + 1
        /\ t[Len(s) + 1] = e /\ \A i \in 1 .. Len(s) : t[i] = s[i]
    BY <1>2, AppendProperties, LenProperties
  <2> QED BY <1>1, <2>1 DEF Contains, IsInjective
<1>3. CASE t = <<e>> \o s
  <2> DEFINE u == <<e>>
  <2>1. u \in Seq(S) /\ Len(u) = 1 /\ u[1] = e
    OBVIOUS
  <2> HIDE DEF u
  <2>2. t \in Seq(S) /\ Len(t) = 1 + Len(s) /\ \A i \in 1 .. 1 + Len(s) : t[i] = IF i <= 1 THEN u[i] ELSE s[i - 1]
    BY <1>3, <2>1, ConcatProperties DEF u
  <2>3. DOMAIN t = 1 .. 1 + Len(s) /\ t[1] = e
    BY <1>1, <2>1, <2>2, LenProperties
  <2>4. \A i \in 1 .. Len(s) : i + 1 \in 1 .. 1 + Len(s) /\ t[i + 1] = s[i]
    BY <1>1, <2>2
  <2>5. \A i \in 1 .. 1 + Len(s) : i # 1 => i - 1 \in 1 .. Len(s) /\ t[i] = s[i - 1]
    BY <1>1, <2>2
  <2>6. \A x : Contains(t, x) <=> Contains(s, x) \/ x = e
    <3>1. 1 \in 1 .. Len(t) /\ Len(t) = 1 + Len(s)
      BY <1>1, <2>2
    <3>2. ASSUME NEW x, Contains(t, x) PROVE Contains(s, x) \/ x = e
      BY <2>3, <2>5, <3>1, <3>2 DEF Contains
    <3>3. ASSUME NEW x, Contains(s, x) PROVE Contains(t, x)
      BY <2>4, <3>1, <3>3 DEF Contains
    <3>4. Contains(t, e)
      BY <2>3, <3>1 DEF Contains
    <3> QED BY <3>2, <3>3, <3>4
  <2>7. IsInjective(s) /\ ~ Contains(s, e) => IsInjective(t)
    <3> SUFFICES ASSUME IsInjective(s), ~ Contains(s, e), NEW a \in DOMAIN t, NEW b \in DOMAIN t, t[a] = t[b]
                 PROVE  a = b
      BY DEF IsInjective
    <3>1. \A i \in 1 .. Len(s) : s[i] # e
      BY DEF Contains
    <3>2. a = 1 <=> b = 1
      BY <2>3, <2>5, <3>1
    <3>3. CASE a # 1
      <4>1. a - 1 \in DOMAIN s /\ b - 1 \in DOMAIN s /\ s[a - 1] = s[b - 1]
        BY <1>1, <2>3, <2>5, <3>2, <3>3
      <4>2. a - 1 = b - 1
        BY <4>1 DEF IsInjective
      <4> QED BY <1>1, <2>3, <4>2
    <3> QED BY <3>2, <3>3
  <2> QED BY <2>2, <2>6, <2>7
<1> QED BY <1>2, <1>3

\* Taking the id at the head of a list.
LEMMA TailTakes ==
  ASSUME NEW S, NEW s \in Seq(S), s # <<>>
  PROVE  /\ Tail(s) \in Seq(S) /\ Head(s) \in S /\ Contains(s, Head(s))
         /\ \A x : Contains(Tail(s), x) => Contains(s, x)
         /\ \A x : Contains(s, x) => Contains(Tail(s), x) \/ x = Head(s)
         /\ IsInjective(s) => IsInjective(Tail(s)) /\ ~ Contains(Tail(s), Head(s))
<1> DEFINE t == Tail(s)
<1>1. Len(s) \in Nat \ {0} /\ DOMAIN s = 1 .. Len(s)
  BY LenProperties, EmptySeq
<1>2. /\ t \in Seq(S) /\ Head(s) \in S /\ Head(s) = s[1] /\ Len(t) = Len(s) - 1 /\ DOMAIN t = 1 .. Len(s) - 1
      /\ \A i \in 1 .. Len(s) - 1 : t[i] = s[i + 1]
  BY <1>1, HeadTailProperties, LenProperties
<1> HIDE DEF t
<1>3. \A i \in 1 .. Len(s) - 1 : i + 1 \in 1 .. Len(s) /\ i + 1 # 1
  BY <1>1
<1>4. \A i \in 1 .. Len(s) : i # 1 => i - 1 \in 1 .. Len(s) - 1 /\ t[i - 1] = s[i]
  BY <1>1, <1>2
<1>5. 1 \in 1 .. Len(s)
  BY <1>1
<1>6. ASSUME NEW x, Contains(t, x) PROVE Contains(s, x)
  BY <1>2, <1>3, <1>6 DEF Contains
<1>7. ASSUME NEW x, Contains(s, x) PROVE Contains(t, x) \/ x = Head(s)
  BY <1>2, <1>4, <1>7 DEF Contains
<1>8. ASSUME IsInjective(s) PROVE IsInjective(t) /\ ~ Contains(t, Head(s))
  <2>1. \A a, b \in 1 .. Len(s) : s[a] = s[b] => a = b
    BY <1>1, <1>8 DEF IsInjective
  <2>2. ~ Contains(t, Head(s))
    BY <1>2, <1>3, <1>5, <2>1 DEF Contains
  <2>3. ASSUME NEW a \in DOMAIN t, NEW b \in DOMAIN t, t[a] = t[b]
        PROVE  a = b
    <3>1. a + 1 = b + 1
      BY <1>2, <1>3, <2>1, <2>3
    <3> QED BY <1>1, <1>2, <3>1
  <2> QED BY <2>2, <2>3 DEF IsInjective
<1>9. Contains(s, Head(s))
  BY <1>2, <1>5 DEF Contains
<1> QED BY <1>2, <1>6, <1>7, <1>8, <1>9 DEF t

\* The members of a short sequence.
LEMMA Members ==
  ASSUME NEW a, NEW b, NEW c, NEW d
  PROVE  /\ \A i \in DOMAIN <<a>> : <<a>>[i] = a
         /\ \A i \in DOMAIN <<a, b>> : <<a, b>>[i] = a \/ <<a, b>>[i] = b
         /\ \A i \in DOMAIN <<a, b, c>> : <<a, b, c>>[i] = a \/ <<a, b, c>>[i] = b \/ <<a, b, c>>[i] = c
         /\ \A i \in DOMAIN <<a, b, c, d>> : \/ <<a, b, c, d>>[i] = a \/ <<a, b, c, d>>[i] = b
                                            \/ <<a, b, c, d>>[i] = c \/ <<a, b, c, d>>[i] = d
  OBVIOUS

\* What is left of the commands of a client after the first.
LEMMA TailOf ==
  ASSUME NEW S, NEW s \in Seq(S), s # <<>>
  PROVE  /\ Tail(s) \in Seq(S)
         /\ DOMAIN s = 1 .. Len(s) /\ Len(s) \in Nat \ {0}
         /\ 1 \in DOMAIN s /\ Head(s) = s[1]
         /\ \A i \in DOMAIN Tail(s) : i \in Nat \ {0} /\ i + 1 \in DOMAIN s /\ Tail(s)[i] = s[i + 1]
         /\ \A i \in DOMAIN s : i \in Nat /\ (i # 1 => i - 1 \in DOMAIN Tail(s) /\ Tail(s)[i - 1] = s[i])
  BY HeadTailProperties, LenProperties, EmptySeq

\* The rest of well-formed commands is well formed.
LEMMA TailWellFormed ==
  ASSUME NEW c, NEW s \in Seq(Command), s # <<>>, WellFormed(c, s)
  PROVE  WellFormed(c, Tail(s))
<1> DEFINE t == Tail(s)
<1>1. /\ \A i \in DOMAIN t : i \in Nat \ {0} /\ i + 1 \in DOMAIN s /\ t[i] = s[i + 1]
      /\ \A i \in DOMAIN s : i \in Nat /\ (i # 1 => i - 1 \in DOMAIN t /\ t[i - 1] = s[i])
  BY TailOf
<1> HIDE DEF t
<1>2. WritesInOrder(t)
  <2> SUFFICES ASSUME NEW i \in DOMAIN t, NEW k \in DOMAIN t, i < k, t[i].id = t[k].id
               PROVE  \/ t[i].op = "LREM" \/ t[k].op = "LREM"
                      \/ t[i].op = "HSET" /\ t[i].row.status = "queued" /\ t[k].op \in Pushing
    BY DEF WritesInOrder
  <2>1. i + 1 \in DOMAIN s /\ k + 1 \in DOMAIN s /\ i + 1 < k + 1 /\ t[i] = s[i + 1] /\ t[k] = s[k + 1]
    BY <1>1
  <2> QED BY <2>1, Zenon DEF WellFormed, WritesInOrder
<1>3. ASSUME NEW i \in DOMAIN t, PushedAfter(s, i + 1)
      PROVE  PushedAfter(t, i)
  <2>1. PICK k \in DOMAIN s : i + 1 < k /\ s[k].op \in Pushing /\ s[k].id = s[i + 1].id
    BY <1>3 DEF PushedAfter
  <2>2. k - 1 \in DOMAIN t /\ t[k - 1] = s[k] /\ i < k - 1
    BY <1>1, <2>1
  <2> QED BY <1>1, <2>1, <2>2 DEF PushedAfter
<1>4. ASSUME NEW i \in DOMAIN t
      PROVE  CommandInPlace(c, t, i)
  <2>1. CommandInPlace(c, s, i + 1) /\ t[i] = s[i + 1]
    BY <1>1 DEF WellFormed
  <2> QED BY <1>3, <2>1 DEF CommandInPlace
<1> QED BY <1>2, <1>4 DEF WellFormed, t

\* A command has the type of its fields.
LEMMA CommandTypes ==
  ASSUME NEW j \in JobIds
  PROVE  /\ \A row \in Document : Hset(j, row) \in Command
         /\ \A k \in ListKeys : /\ Lrem(k, j) \in Command
                                /\ Rpush(k, j) \in Command
                                /\ Lpush(k, j) \in Command
         /\ Incr(j) \in Command
  BY DEF Command, Hset, Lrem, Rpush, Lpush, Incr

\* A key of a queue is none of a processing list.
LEMMA KeysAreApart ==
  /\ \A q \in Queues : QueueKey(q) \in ListKeys /\ QueueKey(q) \notin ProcessingKeys
  /\ \A q \in Queues, w \in Workers : ProcessingKey(q, w) \in ProcessingKeys
  /\ ProcessingKeys \subseteq ListKeys
  BY DEF QueueKey, ProcessingKey, ProcessingKeys, ListKeys

\* No command, one command that is not a push, and INCR.
LEMMA SingleCommand ==
  ASSUME NEW c \in Clients, NEW j \in JobIds, NEW row \in Document,
         row.status # "queued", row.status = "running" => c \in Workers /\ row.locked_by = c
  PROVE  /\ <<>> \in Seq(Command) /\ WellFormed(c, <<>>)
         /\ <<Hset(j, row)>> \in Seq(Command) /\ WellFormed(c, <<Hset(j, row)>>)
         /\ <<Incr(j)>> \in Seq(Command) /\ WellFormed(c, <<Incr(j)>>)
  BY CommandTypes DEF WellFormed, WritesInOrder, CommandInPlace, Hset, Incr, Pushing

\* Work that is published.
LEMMA PublicationCommands ==
  ASSUME NEW c \in Clients, NEW j \in JobIds, NEW row \in Document, row.status = "queued"
  PROVE  Publication(j, row) \in Seq(Command) /\ WellFormed(c, Publication(j, row))
<1>1. row.queue \in Queues
  BY DEF Document
<1>2. WellFormed(c, Publication(j, row))
  <2> DEFINE s == <<Hset(j, row), Rpush(QueueKey(row.queue), j)>>
  <2>1. DOMAIN s = 1 .. 2 /\ s[1] = Hset(j, row) /\ s[2] = Rpush(QueueKey(row.queue), j)
    OBVIOUS
  <2>2. Publication(j, row) = s
    BY DEF Publication
  <2> HIDE DEF s
  <2>3. PushedAfter(s, 1)
    BY <2>1 DEF PushedAfter, Pushing, Hset, Rpush
  <2> QED BY <1>1, <2>1, <2>2, <2>3 DEF WellFormed, WritesInOrder, CommandInPlace, Hset, Rpush, Pushing
<1> QED BY <1>1, <1>2, CommandTypes, KeysAreApart DEF Publication

\* Work that goes back to its queue.
LEMMA QueueingCommands ==
  ASSUME NEW c \in Clients, NEW j \in JobIds, NEW row \in Document, row.status = "queued",
         NEW q \in Queues, NEW k \in ProcessingKeys
  PROVE  /\ <<Hset(j, row), Lrem(k, j), Rpush(QueueKey(q), j)>> \in Seq(Command)
         /\ WellFormed(c, <<Hset(j, row), Lrem(k, j), Rpush(QueueKey(q), j)>>)
<1> DEFINE s == <<Hset(j, row), Lrem(k, j), Rpush(QueueKey(q), j)>>
<1>1. s \in Seq(Command)
  BY CommandTypes, KeysAreApart
<1>2. DOMAIN s = 1 .. 3 /\ s[1] = Hset(j, row) /\ s[2] = Lrem(k, j) /\ s[3] = Rpush(QueueKey(q), j)
  OBVIOUS
<1> HIDE DEF s
<1>3. PushedAfter(s, 1) /\ PushedAfter(s, 2)
  BY <1>2 DEF PushedAfter, Pushing, Hset, Rpush, Lrem
<1>4. WritesInOrder(s)
  BY <1>2 DEF WritesInOrder, Hset, Rpush, Lrem, Pushing
<1>5. \A i \in DOMAIN s : CommandInPlace(c, s, i)
  BY <1>2, <1>3 DEF CommandInPlace, Hset, Rpush, Lrem, Pushing
<1> QED BY <1>1, <1>4, <1>5 DEF WellFormed, s

\* What a worker writes about work that it leases, finishes or puts back, and about a
\* next occurrence.
LEMMA WorkerCommands ==
  ASSUME NEW w \in Workers, NEW j \in JobIds, NEW row \in Document,
         row.status \notin {"queued", "running"},
         NEW q \in Queues, NEW k, \E r \in Queues : k = ProcessingKey(r, w)
  PROVE  /\ <<Lpush(QueueKey(q), j), Lrem(k, j)>> \in Seq(Command)
         /\ WellFormed(w, <<Lpush(QueueKey(q), j), Lrem(k, j)>>)
         /\ <<Hset(j, row), Lrem(k, j)>> \in Seq(Command)
         /\ WellFormed(w, <<Hset(j, row), Lrem(k, j)>>)
         /\ <<Lrem(k, j), Hset(j, row)>> \in Seq(Command)
         /\ WellFormed(w, <<Lrem(k, j), Hset(j, row)>>)
<1>1. k \in ProcessingKeys
  BY KeysAreApart
<1>2. WellFormed(w, <<Lpush(QueueKey(q), j), Lrem(k, j)>>)
  <2> DEFINE s == <<Lpush(QueueKey(q), j), Lrem(k, j)>>
  <2>1. DOMAIN s = 1 .. 2 /\ s[1] = Lpush(QueueKey(q), j) /\ s[2] = Lrem(k, j)
    OBVIOUS
  <2> HIDE DEF s
  <2> QED BY <1>1, <2>1 DEF WellFormed, WritesInOrder, CommandInPlace, Lpush, Lrem, Pushing, s
<1>3. WellFormed(w, <<Hset(j, row), Lrem(k, j)>>)
  <2> DEFINE s == <<Hset(j, row), Lrem(k, j)>>
  <2>1. DOMAIN s = 1 .. 2 /\ s[1] = Hset(j, row) /\ s[2] = Lrem(k, j)
    OBVIOUS
  <2> HIDE DEF s
  <2> QED BY <1>1, <2>1 DEF WellFormed, WritesInOrder, CommandInPlace, Hset, Lrem, Pushing, s
<1>4. WellFormed(w, <<Lrem(k, j), Hset(j, row)>>)
  <2> DEFINE s == <<Lrem(k, j), Hset(j, row)>>
  <2>1. DOMAIN s = 1 .. 2 /\ s[1] = Lrem(k, j) /\ s[2] = Hset(j, row)
    OBVIOUS
  <2> HIDE DEF s
  <2> QED BY <1>1, <2>1 DEF WellFormed, WritesInOrder, CommandInPlace, Hset, Lrem, Pushing, s
<1> QED BY <1>1, <1>2, <1>3, <1>4, CommandTypes, KeysAreApart

\* The two commands of a completion and the two of a publication.
LEMMA TwoAndTwo ==
  ASSUME NEW S, NEW a \in S, NEW b \in S, NEW c \in S, NEW d \in S
  PROVE  <<a, b>> \o <<c, d>> = <<a, b, c, d>>
<1> DEFINE s == <<a, b>>
           t == <<c, d>>
           u == <<a, b, c, d>>
<1>1. s \in Seq(S) /\ Len(s) = 2 /\ s[1] = a /\ s[2] = b
  OBVIOUS
<1>2. t \in Seq(S) /\ Len(t) = 2 /\ t[1] = c /\ t[2] = d
  OBVIOUS
<1>3. u \in Seq(S) /\ Len(u) = 4 /\ u[1] = a /\ u[2] = b /\ u[3] = c /\ u[4] = d
  OBVIOUS
<1> HIDE DEF s, t, u
<1>4. s \o t \in Seq(S)
  BY <1>1, <1>2, ConcatProperties
<1>5. Len(s \o t) = Len(s) + Len(t)
  BY <1>1, <1>2, ConcatProperties
<1>6. \A i \in 1 .. Len(s) + Len(t) : (s \o t)[i] = IF i <= Len(s) THEN s[i] ELSE t[i - Len(s)]
  BY <1>1, <1>2, ConcatProperties
<1>7. Len(s) + Len(t) = 4 /\ Len(s) = 2
  BY <1>1, <1>2
<1>8. ASSUME NEW i \in 1 .. 4
      PROVE  (s \o t)[i] = u[i]
  <2>1. i = 1 \/ i = 2 \/ i = 3 \/ i = 4
    OBVIOUS
  <2>2. (s \o t)[i] = IF i <= 2 THEN s[i] ELSE t[i - 2]
    BY <1>6, <1>7
  <2> QED BY <1>1, <1>2, <1>3, <2>1, <2>2
<1>9. s \o t = u
  BY <1>3, <1>4, <1>5, <1>7, <1>8, SeqEqual
<1> QED BY <1>9 DEF s, t, u

\* A completion of recurring work: its document and list, then the next occurrence.
Recurrence(j, row, k, id, next) == <<Hset(j, row), Lrem(k, j), Hset(id, next), Rpush(QueueKey(next.queue), id)>>

LEMMA RecurringCommands ==
  ASSUME NEW w \in Workers, NEW j \in JobIds, NEW row \in Document,
         row.status \notin {"queued", "running"},
         NEW k, \E r \in Queues : k = ProcessingKey(r, w),
         NEW id \in JobIds, id # j, NEW next \in Document, next.status = "queued"
  PROVE  /\ <<Hset(j, row), Lrem(k, j)>> \o Publication(id, next) = Recurrence(j, row, k, id, next)
         /\ Recurrence(j, row, k, id, next) \in Seq(Command)
         /\ WellFormed(w, Recurrence(j, row, k, id, next))
<1> DEFINE s == <<Hset(j, row), Lrem(k, j), Hset(id, next), Rpush(QueueKey(next.queue), id)>>
<1>1. k \in ProcessingKeys /\ next.queue \in Queues
  BY KeysAreApart DEF Document
<1>2. s \in Seq(Command)
  BY <1>1, CommandTypes, KeysAreApart
<1>3. <<Hset(j, row), Lrem(k, j)>> \o Publication(id, next) = s
  BY <1>1, CommandTypes, KeysAreApart, TwoAndTwo DEF Publication
<1>4. /\ DOMAIN s = 1 .. 4 /\ s[1] = Hset(j, row) /\ s[2] = Lrem(k, j)
      /\ s[3] = Hset(id, next) /\ s[4] = Rpush(QueueKey(next.queue), id)
  OBVIOUS
<1> HIDE DEF s
<1>5. PushedAfter(s, 3)
  BY <1>4 DEF PushedAfter, Pushing, Hset, Rpush
<1>6. WritesInOrder(s)
  BY <1>4 DEF WritesInOrder, Hset, Rpush, Lrem, Pushing
<1>7. \A i \in DOMAIN s : CommandInPlace(w, s, i)
  BY <1>1, <1>4, <1>5 DEF CommandInPlace, Hset, Rpush, Lrem, Pushing
<1> QED BY <1>2, <1>3, <1>6, <1>7 DEF WellFormed, s, Recurrence

----------------------------------------------------------------------------
(* Documents                                                                *)

\* What is published is queued work (enqueue, replay_job, the recurrence of
\* mark_succeeded).
LEMMA FreshIsDocument ==
  ASSUME NEW src, src.deadline_at \in Nat \cup {None}, src.recurring_interval_seconds \in Int \cup {None},
         NEW q \in Queues, NEW t \in Instants
  PROVE  Fresh(src, q, t) \in Document /\ Fresh(src, q, t).status = "queued"
  BY DEF Fresh, Document

\* A document that is written back with another status.
LEMMA Rewritten ==
  ASSUME NEW row \in Document, NEW status \in {"queued", "running", "succeeded", "dlq", "canceled"}
  PROVE  /\ Released(row, status) \in Document
         /\ Released(row, status).status = status
         /\ [row EXCEPT !.status = status] \in Document
         /\ [row EXCEPT !.status = status].status = status
  BY DEF Released, Document

\* The document that a retry writes.
LEMMA RetryDocument ==
  ASSUME NEW row \in Document, NEW t \in Instants
  PROVE  /\ [Released(row, "queued") EXCEPT !.run_at = t] \in Document
         /\ [Released(row, "queued") EXCEPT !.run_at = t].status = "queued"
<1> DEFINE r == Released(row, "queued")
<1>1. r \in Document /\ r.status = "queued"
  BY Rewritten
<1> HIDE DEF r
<1>2. [r EXCEPT !.run_at = t] \in Document /\ [r EXCEPT !.run_at = t].status = "queued"
  BY <1>1 DEF Document
<1> QED BY <1>2 DEF r

\* The document that a heartbeat writes.
LEMMA ExtendedDocument ==
  ASSUME NEW row \in Document, NEW e \in 0 .. Horizon + LeaseSeconds
  PROVE  /\ [row EXCEPT !.lock_expires_at = e] \in Document
         /\ [row EXCEPT !.lock_expires_at = e].status = row.status
         /\ [row EXCEPT !.lock_expires_at = e].locked_by = row.locked_by
  BY DEF Document

\* The document that a lease writes.
LEMMA LeasedDocument ==
  ASSUME NEW row \in Document, NEW w \in Workers, NEW e \in 0 .. Horizon + LeaseSeconds
  PROVE  /\ [row EXCEPT !.status = "running", !.locked_by = w, !.lock_expires_at = e] \in Document
         /\ [row EXCEPT !.status = "running", !.locked_by = w, !.lock_expires_at = e].status = "running"
         /\ [row EXCEPT !.status = "running", !.locked_by = w, !.lock_expires_at = e].locked_by = w
  BY DEF Document

\* A lease that is taken now ends before the horizon and a lease time.
LEMMA ExpiryType ==
  ASSUME NEW t \in Instants
  PROVE  t \in Nat /\ t + LeaseSeconds \in 0 .. Horizon + LeaseSeconds
  BY RedisAssumption DEF Instants

----------------------------------------------------------------------------
(* Types, commands in order, one thing at a time                            *)

\* What a client is in the middle of: nothing, a lease or a reaping.
LEMMA LoopCases ==
  ASSUME NEW l \in Loop
  PROVE  /\ l.kind \in {"idle", "lease", "reap"}
         /\ l.kind = "idle" <=> l = Idle
         /\ l.kind = "lease" =>
              l \in [kind : {"lease"}, at : Instants, queue : Queues, left : Nat, id : JobIds \cup {None}, got : SUBSET JobIds]
         /\ l.kind = "reap" =>
              l \in [kind : {"reap"}, at : Instants, keys : SUBSET ProcessingKeys, key : ProcessingKeys \cup {None}, ids : Seq(JobIds)]
  BY DEF Loop, Idle

\* A worker does one thing at a time after a step of another client.
LEMMA OthersGoOn ==
  ASSUME BaseInv, NEW w \in Workers,
         todo'[w] = todo[w], loop'[w] = loop[w], held'[w] = held[w], started'[w] = started[w]
  PROVE  OneThing(w)'
  BY DEF BaseInv, OneThingAtATime, OneThing, Returned

\* A step of one client that sends commands, or goes on in its code: neither documents
\* nor lists change, and nothing of another client does.
Turn(c) ==
  /\ jobs' = jobs /\ lists' = lists
  /\ \A d \in Clients \ {c} : todo'[d] = todo[d] /\ loop'[d] = loop[d]
  /\ \A v \in Workers \ {c} : held'[v] = held[v] /\ started'[v] = started[v]

\* A worker goes on: it is in the middle of l, holds the leases h and has started st.
GoesOn(w, l, h, st) ==
  /\ l \in Loop /\ h \in SUBSET JobIds /\ st \in SUBSET h
  /\ loop' = [loop EXCEPT ![w] = l] /\ held' = [held EXCEPT ![w] = h] /\ started' = [started EXCEPT ![w] = st]
  /\ now' = now /\ jobs' = jobs /\ lists' = lists /\ idempotency' = idempotency /\ attempts' = attempts
  /\ reaped' \in BOOLEAN /\ calls' \in [extend : 0 .. MaxExtends, abort : 0 .. MaxAborts]
  /\ l # Idle => h = {}
  /\ l.kind = "lease" /\ l.id # None => l.left > 0
  /\ l.kind = "reap" /\ l.ids # <<>> => l.key \in ProcessingKeys

\* It sends s.
Sends(w, s, l, h) ==
  /\ s \in Seq(Command) /\ WellFormed(w, s) /\ todo' = [todo EXCEPT ![w] = s]
  /\ l.kind = "lease" /\ l.id # None => s = <<>>
  /\ \A i \in DOMAIN s : s[i].op = "HSET" /\ s[i].row.status = "running" =>
       s[i].id \in h \/ (l.kind = "lease" /\ s[i].id \in l.got)

\* Such a step of a worker keeps the types and the order.
LEMMA TurnKeepsBase ==
  ASSUME BaseInv, NEW w \in Workers, NEW s, NEW l, NEW h, NEW st, GoesOn(w, l, h, st), Sends(w, s, l, h)
  PROVE  /\ BaseInv' /\ Turn(w)
         /\ todo'[w] = s /\ loop'[w] = l /\ held'[w] = h /\ started'[w] = st
<1> USE DEF GoesOn, Sends
<1>1. RedisTypeOK /\ CommandsInOrder /\ OneThingAtATime
  BY DEF BaseInv
<1>2. w \in Clients /\ App \in Clients /\ w # App
  BY RedisAssumption DEF Clients
<1>3. /\ todo'[w] = s /\ loop'[w] = l /\ held'[w] = h /\ started'[w] = st
      /\ \A d \in Clients \ {w} : todo'[d] = todo[d] /\ loop'[d] = loop[d]
      /\ \A v \in Workers \ {w} : held'[v] = held[v] /\ started'[v] = started[v]
  BY <1>1, <1>2 DEF RedisTypeOK
<1>4. RedisTypeOK'
  <2>1. st \in SUBSET JobIds
    OBVIOUS
  <2> QED BY <1>1, <1>2, <2>1 DEF RedisTypeOK
<1>5. CommandsInOrder'
  BY <1>1, <1>3 DEF CommandsInOrder
<1>6. OneThing(w)'
  BY <1>3 DEF OneThing, Returned
<1>7. OneThingAtATime'
  BY <1>1, <1>2, <1>3, <1>6, OthersGoOn DEF OneThingAtATime, Clients
<1> QED BY <1>3, <1>4, <1>5, <1>7 DEF BaseInv, Turn

\* The same for the application, which is never in the middle of a lease.
LEMMA AppTurnKeepsBase ==
  ASSUME BaseInv, NEW s \in Seq(Command), WellFormed(App, s), todo' = [todo EXCEPT ![App] = s],
         UNCHANGED <<now, jobs, lists, attempts, loop, held, started, reaped, calls>>,
         idempotency' \in [Keys -> JobIds \cup {None}]
  PROVE  BaseInv' /\ Turn(App) /\ todo'[App] = s
<1>1. RedisTypeOK /\ CommandsInOrder /\ OneThingAtATime
  BY DEF BaseInv
<1>2. App \in Clients /\ App \notin Workers
  BY RedisAssumption DEF Clients
<1>3. todo'[App] = s /\ \A d \in Clients \ {App} : todo'[d] = todo[d]
  BY <1>1, <1>2 DEF RedisTypeOK
<1>4. RedisTypeOK'
  BY <1>1, <1>2 DEF RedisTypeOK
<1>5. CommandsInOrder'
  BY <1>1, <1>3 DEF CommandsInOrder
<1>6. ASSUME NEW w \in Workers PROVE OneThing(w)'
  BY <1>2, <1>3, OthersGoOn DEF Clients
<1> QED BY <1>1, <1>2, <1>3, <1>4, <1>5, <1>6 DEF BaseInv, Turn, OneThingAtATime

\* What a worker has is typed.
LEMMA WorkerTypes ==
  ASSUME BaseInv, NEW w \in Workers
  PROVE  /\ w \in Clients
         /\ todo \in [Clients -> Seq(Command)] /\ todo[w] \in Seq(Command) /\ WellFormed(w, todo[w])
         /\ loop \in [Clients -> Loop] /\ loop[w] \in Loop
         /\ held \in [Workers -> SUBSET JobIds] /\ held[w] \in SUBSET JobIds
         /\ started \in [Workers -> SUBSET JobIds] /\ started[w] \in SUBSET held[w]
         /\ OneThing(w)
         /\ \A j \in JobIds : jobs[j] # None => jobs[j] \in Document
         /\ now \in Instants
         /\ reaped \in BOOLEAN /\ calls \in [extend : 0 .. MaxExtends, abort : 0 .. MaxAborts]
  BY DEF BaseInv, RedisTypeOK, CommandsInOrder, OneThingAtATime, OneThing, Clients

\* A worker in the middle of a lease or a reaping holds nothing.
LEMMA HoldsNothing ==
  ASSUME BaseInv, NEW w \in Workers, loop[w].kind # "idle"
  PROVE  held[w] = {} /\ started[w] = {}
<1>1. loop[w] # Idle
  BY DEF Idle
<1>2. held[w] = {}
  BY <1>1 DEF BaseInv, OneThingAtATime, OneThing
<1>3. started[w] \subseteq held[w]
  BY DEF BaseInv, OneThingAtATime, OneThing
<1> QED BY <1>2, <1>3

\* The loop of a lease after one id.
LEMMA NextOfLease ==
  ASSUME NEW l \in [kind : {"lease"}, at : Instants, queue : Queues, left : Nat, id : JobIds \cup {None}, got : SUBSET JobIds],
         l.left > 0, NEW got \in SUBSET JobIds
  PROVE  LET next == [l EXCEPT !.id = None, !.left = @ - 1, !.got = got]
         IN  /\ next \in Loop
             /\ next.kind = "lease" /\ next.id = None /\ next.queue = l.queue /\ next.got = got
             /\ next.left = l.left - 1
<1> DEFINE next == [l EXCEPT !.id = None, !.left = @ - 1, !.got = got]
<1>1. l.left - 1 \in Nat
  OBVIOUS
<1>2. next \in [kind : {"lease"}, at : Instants, queue : Queues, left : Nat, id : JobIds \cup {None}, got : SUBSET JobIds]
  BY <1>1
<1>3. next.kind = "lease" /\ next.id = None /\ next.queue = l.queue /\ next.got = got /\ next.left = l.left - 1
  OBVIOUS
<1> QED BY <1>2, <1>3, Zenon DEF Loop

----------------------------------------------------------------------------
(* Steps that change neither documents nor lists                            *)

\* Such a step drops no work that it had, has nothing without a document, and has no
\* job that it had not, but for a new one.
SoundTurn(c) ==
  /\ Turn(c)
  /\ calls'.abort = 0 =>
       /\ calls.abort = 0 /\ todo[c] = <<>>
       /\ \A j \in JobIds : c \in Workers /\ Unfinished(j) /\ (Moving(c, j) \/ Leased(c, j)) =>
            Pushes(c, j)' \/ Moving(c, j)' \/ Leased(c, j)'
  /\ \A j \in JobIds : c \in Workers /\ jobs[j] = None => ~ Returned(c, j)' /\ ~ LeaseUnderWay(c, j)'
  /\ Documented(todo'[c])
  /\ ~ reaped' =>
       /\ ~ reaped
       /\ \A j \in JobIds : Has(c, j)' => Has(c, j) \/ j \in Unused
       /\ c \in Workers => LetGo(c)'
       /\ c = App => AppWrites'

\* The other clients go on as before.
LEMMA OthersKeep ==
  ASSUME NEW c \in Clients, Turn(c), NEW d \in Clients \ {c}
  PROVE  /\ \A j : Pushes(d, j)' = Pushes(d, j) /\ Has(d, j)' = Has(d, j)
         /\ d \in Workers => /\ \A j : /\ Returned(d, j)' = Returned(d, j)
                                       /\ LeaseUnderWay(d, j)' = LeaseUnderWay(d, j)
                                       /\ Moving(d, j)' = Moving(d, j)
                                       /\ Leased(d, j)' = Leased(d, j)
                             /\ LetGo(d)' = LetGo(d)
         /\ Documented(todo'[d]) = Documented(todo[d])
<1>1. todo'[d] = todo[d] /\ loop'[d] = loop[d] /\ jobs' = jobs /\ lists' = lists
      /\ (d \in Workers => held'[d] = held[d])
  BY DEF Turn
<1>2. \A j : Pushes(d, j)' = Pushes(d, j)
  BY <1>1 DEF Pushes
<1>3. ASSUME d \in Workers, NEW j
      PROVE  /\ Returned(d, j)' = Returned(d, j) /\ LeaseUnderWay(d, j)' = LeaseUnderWay(d, j)
             /\ Writes(d, j)' = Writes(d, j)
             /\ Holds(d, j)' = Holds(d, j)
             /\ Leased(d, j)' = Leased(d, j)
  BY <1>1, <1>3 DEF Returned, LeaseUnderWay, Writes, Holds, Leased
<1>4. ASSUME d \in Workers, NEW j
      PROVE  Moving(d, j)' = Moving(d, j)
  BY <1>1, <1>4 DEF Moving
<1>5. ASSUME d \in Workers
      PROVE  LetGo(d)' = LetGo(d)
  BY <1>1, <1>2, <1>3, <1>5 DEF LetGo
<1>6. \A j : Has(d, j)' = Has(d, j)
  BY <1>2, <1>3 DEF Has
<1>7. Documented(todo'[d]) = Documented(todo[d])
  BY <1>1
<1> QED BY <1>2, <1>3, <1>4, <1>5, <1>6, <1>7

\* An id that is not used is nowhere.
LEMMA UnusedIsNowhere ==
  ASSUME RedisInv, NEW j \in Unused
  PROVE  /\ j \in JobIds /\ jobs[j] = None /\ ~ Queued(j)
         /\ \A c \in Clients : ~ Has(c, j) /\ \A i \in DOMAIN todo[c] : todo[c][i].id # j
         /\ \A w \in Workers : ~ Returned(w, j)
<1>1. j \in JobIds /\ jobs[j] = None /\ \A c \in Clients : \A i \in DOMAIN todo[c] : todo[c][i].id # j
  BY DEF Unused
<1>2. ~ Queued(j) /\ \A w \in Workers : ~ Returned(w, j) /\ ~ LeaseUnderWay(w, j)
  BY <1>1 DEF RedisInv, Undocumented
<1> QED BY <1>1, <1>2 DEF Has, Holds, Pushes, Writes, Clients

\* Such a step keeps the invariant.
LEMMA TurnKeepsInv ==
  ASSUME RedisInv, BaseInv', NEW c \in Clients, SoundTurn(c)
  PROVE  RedisInv'
<1>1. /\ jobs' = jobs /\ lists' = lists /\ Turn(c)
      /\ \A j : Queued(j)' = Queued(j) /\ Unfinished(j)' = Unfinished(j)
  BY DEF SoundTurn, Turn, Queued, Unfinished
<1>2. NothingLost'
  <2> SUFFICES ASSUME calls'.abort = 0, NEW j \in JobIds, Unfinished(j)'
               PROVE  Kept(j)'
    BY DEF NothingLost
  <2>1. Unfinished(j) /\ Kept(j) /\ todo[c] = <<>>
    BY <1>1 DEF SoundTurn, RedisInv, NothingLost
  <2>2. CASE Queued(j)
    BY <1>1, <2>2 DEF Kept
  <2>3. CASE \E d \in Clients : Pushes(d, j)
    <3>1. PICK d \in Clients : Pushes(d, j)
      BY <2>3
    <3>2. d # c
      BY <2>1, <3>1 DEF Pushes
    <3>3. Pushes(d, j)'
      BY <1>1, <3>1, <3>2, OthersKeep
    <3> QED BY <3>3 DEF Kept
  <2>4. CASE \E w \in Workers : Moving(w, j) \/ Leased(w, j)
    <3>1. PICK w \in Workers : Moving(w, j) \/ Leased(w, j)
      BY <2>4
    <3>2. w \in Clients
      BY DEF Clients
    <3>3. CASE w = c
      <4>1. Pushes(c, j)' \/ Moving(c, j)' \/ Leased(c, j)'
        BY <2>1, <3>1, <3>3 DEF SoundTurn
      <4> QED BY <3>3, <4>1 DEF Kept
    <3>4. CASE w # c
      <4>1. Moving(w, j)' \/ Leased(w, j)'
        BY <1>1, <3>1, <3>2, <3>4, OthersKeep
      <4> QED BY <4>1 DEF Kept
    <3> QED BY <3>3, <3>4
  <2> QED BY <2>1, <2>2, <2>3, <2>4 DEF Kept
<1>3. Undocumented'
  <2>1. ASSUME NEW j \in JobIds, jobs'[j] = None, NEW w \in Workers
        PROVE  ~ Returned(w, j)' /\ ~ LeaseUnderWay(w, j)'
    <3>1. ~ Returned(w, j) /\ ~ LeaseUnderWay(w, j) /\ w \in Clients
      BY <1>1, <2>1 DEF RedisInv, Undocumented, Clients
    <3>2. CASE w = c
      BY <1>1, <2>1, <3>2 DEF SoundTurn
    <3>3. CASE w # c
      BY <1>1, <3>1, <3>3, OthersKeep
    <3> QED BY <3>2, <3>3
  <2>2. ASSUME NEW d \in Clients
        PROVE  Documented(todo[d])'
    <3>1. Documented(todo'[d])
      BY <1>1, OthersKeep DEF SoundTurn, RedisInv, Undocumented
    <3> QED BY <1>1, <3>1 DEF Documented
  <2> QED BY <1>1, <2>1, <2>2 DEF RedisInv, Undocumented
<1>4. PlaceInv'
  <2> SUFFICES ASSUME ~ reaped'
               PROVE  OnePlace' /\ PlacedIsOpen' /\ AppWrites' /\ \A w \in Workers : LetGo(w)'
    BY DEF PlaceInv
  <2>1. /\ OnePlace /\ PlacedIsOpen /\ AppWrites /\ \A w \in Workers : LetGo(w)
        /\ \A j \in JobIds : Has(c, j)' => Has(c, j) \/ j \in Unused
    BY DEF SoundTurn, RedisInv, PlaceInv
  <2>2. ASSUME NEW j \in JobIds, NEW d \in Clients, Has(d, j)'
        PROVE  Has(d, j) \/ (d = c /\ j \in Unused)
    BY <1>1, <2>1, <2>2, OthersKeep
  <2>3. \A j \in Unused : ~ Queued(j) /\ jobs[j] = None /\ \A d \in Clients : ~ Has(d, j)
    BY UnusedIsNowhere
  <2>4. OnePlace'
    <3>1. \A j \in JobIds : \A d \in Clients : Queued(j)' => ~ Has(d, j)'
      BY <1>1, <2>1, <2>2, <2>3 DEF OnePlace
    <3>2. \A j \in JobIds : \A d, e \in Clients : Has(d, j)' /\ Has(e, j)' => d = e
      BY <2>1, <2>2, <2>3 DEF OnePlace
    <3> QED BY <1>1, <2>1, <3>1, <3>2 DEF OnePlace
  <2>5. PlacedIsOpen'
    BY <1>1, <2>1, <2>2, <2>3 DEF PlacedIsOpen
  <2>6. AppWrites'
    <3>1. CASE c = App
      BY <3>1 DEF SoundTurn
    <3>2. CASE c # App
      <4>1. todo'[App] = todo[App]
        BY <1>1, <3>2 DEF Turn, Clients
      <4> QED BY <1>1, <2>1, <4>1 DEF AppWrites
    <3> QED BY <3>1, <3>2
  <2>7. ASSUME NEW w \in Workers
        PROVE  LetGo(w)'
    <3>1. w \in Clients
      BY DEF Clients
    <3> QED BY <1>1, <2>1, <3>1, OthersKeep DEF SoundTurn
  <2> QED BY <2>4, <2>5, <2>6, <2>7
<1> QED BY <1>2, <1>3, <1>4 DEF RedisInv

\* The leases of a worker that is in the middle of l and holds h.
Having(l, h, j) == j \in h \/ (l.kind = "lease" /\ j \in l.got)

\* What a worker sends, keeps and lets go of: nothing that it has is dropped, what it has
\* is not new, and what it pushes or finishes it does not keep.
ProperTurn(w, s, l, h) ==
  /\ l.kind = "lease" => l.id = None
  /\ \A j \in JobIds : Unfinished(j) /\ LeaseUnderWay(w, j) =>
       \/ \E i \in DOMAIN s : s[i].op \in Pushing /\ s[i].id = j
       \/ s # <<>> /\ Head(s).op = "HSET" /\ Head(s).id = j /\ l.kind = "lease" /\ l.queue = loop[w].queue
  /\ \A j \in JobIds : HoldsLease(j, w) /\ Returned(w, j) =>
       Having(l, h, j) \/ \E i \in DOMAIN s : s[i].op = "HSET" /\ s[i].id = j
  /\ \A j \in JobIds : Having(l, h, j) => Returned(w, j) \/ (LeaseUnderWay(w, j) /\ jobs[j] # None)
  /\ Documented(s)
  /\ ~ reaped' =>
       /\ ~ reaped
       /\ \A i \in DOMAIN s : s[i].op = "HSET" \/ s[i].op \in Pushing =>
            Returned(w, s[i].id) \/ LeaseUnderWay(w, s[i].id) \/ s[i].id \in Unused
       /\ \A i \in DOMAIN s : (s[i].op = "HSET" /\ s[i].row.status \in Over) \/ s[i].op \in Pushing =>
            ~ Having(l, h, s[i].id)

\* A turn of a worker keeps the invariant.
LEMMA WorkerTurnKeepsInv ==
  ASSUME RedisInv, NEW w \in Workers, NEW s, NEW l, NEW h, NEW st, GoesOn(w, l, h, st), Sends(w, s, l, h),
         ProperTurn(w, s, l, h), todo[w] = <<>>, calls'.abort = calls.abort
  PROVE  RedisInv'
<1>1. /\ BaseInv /\ BaseInv' /\ Turn(w)
      /\ todo'[w] = s /\ loop'[w] = l /\ held'[w] = h
  BY TurnKeepsBase DEF RedisInv
<1>2. w \in Clients /\ w # App /\ jobs' = jobs /\ lists' = lists
  BY <1>1, RedisAssumption DEF Clients, Turn
<1>3. s \in Seq(Command)
  BY DEF Sends
<1>4. /\ \A j : Pushes(w, j)' <=> \E i \in DOMAIN s : s[i].op \in Pushing /\ s[i].id = j
      /\ \A j : Writes(w, j)' <=> \E i \in DOMAIN s : s[i].op = "HSET" /\ s[i].id = j
      /\ \A j : Returned(w, j)' <=> Having(l, h, j)
      /\ \A j \in JobIds : ~ LeaseUnderWay(w, j)'
      /\ \A j : ~ Pushes(w, j) /\ ~ Writes(w, j)
  <2>1. \A j : /\ Pushes(w, j)' <=> \E i \in DOMAIN s : s[i].op \in Pushing /\ s[i].id = j
               /\ Writes(w, j)' <=> \E i \in DOMAIN s : s[i].op = "HSET" /\ s[i].id = j
               /\ Returned(w, j)' <=> Having(l, h, j)
    BY <1>1 DEF Pushes, Writes, Returned, Having
  <2>2. \A j \in JobIds : ~ LeaseUnderWay(w, j)'
    BY <1>1, RedisAssumption DEF LeaseUnderWay, ProperTurn
  <2> QED BY <2>1, <2>2 DEF Pushes, Writes
<1>5. ASSUME NEW j \in JobIds, Unfinished(j), Moving(w, j) \/ Leased(w, j)
      PROVE  Pushes(w, j)' \/ Moving(w, j)' \/ Leased(w, j)'
  <2>1. CASE LeaseUnderWay(w, j)
    <3>1. CASE \E i \in DOMAIN s : s[i].op \in Pushing /\ s[i].id = j
      BY <1>4, <3>1
    <3>2. CASE s # <<>> /\ Head(s).op = "HSET" /\ Head(s).id = j /\ l.kind = "lease" /\ l.queue = loop[w].queue
      <4>1. Writes(w, j)'
        BY <1>3, <1>4, <3>2, TailOf
      <4>2. CASE Leased(w, j)
        BY <1>2, <4>1, <4>2 DEF Leased, Holds
      <4>3. CASE Moving(w, j)
        BY <1>1, <1>2, <3>2, <4>3 DEF Moving
      <4> QED BY <1>5, <4>2, <4>3
    <3> QED BY <1>5, <2>1, <3>1, <3>2 DEF ProperTurn
  <2>2. CASE ~ LeaseUnderWay(w, j)
    <3>1. Leased(w, j) /\ Returned(w, j) /\ HoldsLease(j, w)
      BY <1>4, <1>5, <2>2 DEF Moving, Leased, Holds, LeaseUnderWay, HoldsLease, Unfinished
    <3>2. Returned(w, j)' \/ Writes(w, j)'
      BY <1>4, <3>1 DEF ProperTurn
    <3> QED BY <1>2, <3>1, <3>2 DEF Leased, Holds
  <2> QED BY <2>1, <2>2
<1>6. ASSUME NEW j \in JobIds, jobs[j] = None
      PROVE  ~ Returned(w, j)' /\ ~ LeaseUnderWay(w, j)'
  BY <1>4, <1>6 DEF ProperTurn, RedisInv, Undocumented
<1>7. ASSUME ~ reaped'
      PROVE  /\ ~ reaped /\ LetGo(w)'
             /\ \A j \in JobIds : Has(w, j)' => Has(w, j) \/ j \in Unused
  <2>1. \A j \in JobIds : Pushes(w, j)' \/ Writes(w, j)' => Returned(w, j) \/ LeaseUnderWay(w, j) \/ j \in Unused
    BY <1>4, <1>7 DEF ProperTurn
  <2>2. \A j \in JobIds : Returned(w, j)' => Returned(w, j) \/ LeaseUnderWay(w, j)
    BY <1>4 DEF ProperTurn
  <2>3. \A j \in JobIds : Has(w, j)' => Has(w, j) \/ j \in Unused
    BY <1>4, <2>1, <2>2 DEF Has, Holds
  <2>4. LetGo(w)'
    BY <1>1, <1>4, <1>7 DEF ProperTurn, LetGo
  <2> QED BY <1>7, <2>3, <2>4 DEF ProperTurn
<1>8. SoundTurn(w)
  BY <1>1, <1>2, <1>5, <1>6, <1>7 DEF SoundTurn, ProperTurn
<1> QED BY <1>1, <1>2, <1>8, TurnKeepsInv

\* A turn that sends nothing, of a worker that holds the same leases, or drops one that
\* is no longer there.
LEMMA QuietTurnKeepsInv ==
  ASSUME RedisInv, NEW w \in Workers, NEW l, NEW h, NEW st, GoesOn(w, l, h, st),
         todo[w] = <<>>, todo' = todo, UNCHANGED <<reaped, calls>>,
         l.kind = "lease" => l.id = None,
         loop[w].kind = "lease" => loop[w].id = None,
         \A j \in JobIds : Having(l, h, j) => Returned(w, j),
         \A j \in JobIds : HoldsLease(j, w) /\ Returned(w, j) => Having(l, h, j)
  PROVE  RedisInv'
<1> DEFINE s == <<>>
<1>1. s \in Seq(Command) /\ DOMAIN s = {} /\ todo[w] = s
  OBVIOUS
<1> HIDE DEF s
<1>2. WellFormed(w, s)
  BY <1>1 DEF RedisInv, BaseInv, CommandsInOrder, Clients
<1>3. todo' = [todo EXCEPT ![w] = s]
  BY <1>1 DEF RedisInv, BaseInv, RedisTypeOK
<1>4. Sends(w, s, l, h)
  BY <1>1, <1>2, <1>3 DEF Sends
<1>5. ProperTurn(w, s, l, h)
  BY <1>1, RedisAssumption DEF ProperTurn, Documented, LeaseUnderWay
<1> QED BY <1>4, <1>5, WorkerTurnKeepsInv

----------------------------------------------------------------------------
(* The turns of a worker, one by one                                        *)

\* A lease call begins.
LEMMA LeaseBegins ==
  ASSUME RedisInv, NEW w \in Workers, NEW q \in Queues, NEW n \in BatchSizes, lease_jobs_batch(w, q, n)
  PROVE  RedisInv'
<1> DEFINE l == [kind |-> "lease", at |-> now, queue |-> q, left |-> n, id |-> None, got |-> {}]
<1>0. BaseInv
  BY DEF RedisInv
<1>1. todo[w] = <<>> /\ loop[w] = Idle /\ held[w] = {}
  BY DEF lease_jobs_batch, Ready
<1>2. l \in Loop /\ l.kind = "lease" /\ l.id = None /\ l.got = {}
  BY <1>0, WorkerTypes, RedisAssumption DEF Loop
<1>3. /\ loop' = [loop EXCEPT ![w] = l] /\ todo' = todo /\ UNCHANGED <<now, jobs, lists, idempotency, attempts>>
      /\ UNCHANGED <<held, started, reaped, calls>>
  BY DEF lease_jobs_batch, serverVars
<1> HIDE DEF l
<1>4. GoesOn(w, l, {}, {})
  BY <1>0, <1>1, <1>2, <1>3, WorkerTypes DEF GoesOn
<1>5. \A j : ~ Having(l, {}, j) /\ ~ Returned(w, j)
  BY <1>1, <1>2 DEF Having, Returned, Idle
<1> QED BY <1>1, <1>2, <1>3, <1>4, <1>5, QuietTurnKeepsInv DEF Idle

\* A lease call returns what it got.
LEMMA LeaseReturns ==
  ASSUME RedisInv, NEW w \in Workers, LeaseReturn(w)
  PROVE  RedisInv'
<1>0. BaseInv
  BY DEF RedisInv
<1>1. todo[w] = <<>> /\ loop[w].kind = "lease" /\ loop[w].id = None
  BY DEF LeaseReturn, Leasing
<1>2. loop[w].got \in SUBSET JobIds /\ held[w] = {} /\ started[w] = {}
  BY <1>0, <1>1, WorkerTypes, LoopCases, HoldsNothing
<1>3. GoesOn(w, Idle, loop[w].got, {})
  <2>1. Idle \in Loop /\ Idle.kind = "idle"
    BY DEF Loop, Idle
  <2> QED BY <1>0, <1>2, <2>1, WorkerTypes DEF GoesOn, LeaseReturn, serverVars
<1>4. \A j : Having(Idle, loop[w].got, j) <=> Returned(w, j)
  BY <1>1, <1>2 DEF Having, Returned, Idle
<1> QED BY <1>1, <1>3, <1>4, QuietTurnKeepsInv DEF Idle, LeaseReturn

\* A worker that is not in a lease call and holds nothing, and goes on to something that
\* is no lease either (the steps of reap_expired_locks that send nothing).
LEMMA NothingInHand ==
  ASSUME RedisInv, NEW w \in Workers, NEW l \in Loop, todo[w] = <<>>, loop[w].kind # "lease", held[w] = {},
         l.kind # "lease", l.kind = "reap" /\ l.ids # <<>> => l.key \in ProcessingKeys,
         loop' = [loop EXCEPT ![w] = l],
         UNCHANGED <<now, serverVars, todo, held, started, reaped, calls>>
  PROVE  RedisInv'
<1>0. BaseInv
  BY DEF RedisInv
<1>1. GoesOn(w, l, {}, {})
  <2>1. started[w] = {}
    BY <1>0, WorkerTypes
  <2> QED BY <1>0, <2>1, WorkerTypes DEF GoesOn, serverVars
<1>2. \A j : ~ Having(l, {}, j) /\ ~ Returned(w, j)
  BY DEF Having, Returned
<1> QED BY <1>1, <1>2, QuietTurnKeepsInv

\* A reaping begins.
LEMMA ReapBegins ==
  ASSUME RedisInv, NEW w \in Workers, reap_expired_locks(w)
  PROVE  RedisInv'
<1> DEFINE l == [kind |-> "reap", at |-> now, key |-> None, ids |-> <<>>, keys |-> {k \in ProcessingKeys : lists[k] # <<>>}]
<1>1. l \in Loop /\ l.kind = "reap" /\ l.ids = <<>>
  BY DEF Loop, RedisInv, BaseInv, RedisTypeOK
<1>2. loop' = [loop EXCEPT ![w] = l]
  BY DEF reap_expired_locks
<1> HIDE DEF l
<1> QED BY <1>1, <1>2, NothingInHand DEF reap_expired_locks, Ready, Idle

\* A reaping reads a processing list.
LEMMA ReapLists ==
  ASSUME RedisInv, NEW w \in Workers, NEW k \in ProcessingKeys, ReapList(w, k)
  PROVE  RedisInv'
<1> DEFINE l == [loop[w] EXCEPT !.keys = @ \ {k}, !.key = k, !.ids = lists[k]]
<1>0. BaseInv
  BY DEF RedisInv
<1>1. loop[w].kind = "reap" /\ todo[w] = <<>>
  BY DEF ReapList, Reaping
<1>2. loop[w] \in [kind : {"reap"}, at : Instants, keys : SUBSET ProcessingKeys, key : ProcessingKeys \cup {None}, ids : Seq(JobIds)]
  BY <1>0, <1>1, WorkerTypes, LoopCases
<1>3. lists[k] \in Seq(JobIds)
  BY <1>0, KeysAreApart DEF BaseInv, RedisTypeOK
<1>4. l \in Loop /\ l.kind = "reap" /\ l.key = k
  BY <1>2, <1>3 DEF Loop
<1>5. loop' = [loop EXCEPT ![w] = l]
  BY <1>0, <1>2, WorkerTypes DEF ReapList
<1>6. held[w] = {}
  BY <1>0, <1>1, HoldsNothing
<1> HIDE DEF l
<1> QED BY <1>1, <1>4, <1>5, <1>6, NothingInHand DEF ReapList

\* A reaping is over.
LEMMA ReapReturns ==
  ASSUME RedisInv, NEW w \in Workers, ReapReturn(w)
  PROVE  RedisInv'
<1>1. loop[w].kind = "reap" /\ todo[w] = <<>>
  BY DEF ReapReturn, Reaping
<1>2. held[w] = {}
  BY <1>1, HoldsNothing DEF RedisInv
<1>3. Idle \in Loop /\ Idle.kind = "idle"
  BY DEF Loop, Idle
<1> QED BY <1>1, <1>2, <1>3, NothingInHand DEF ReapReturn

\* A lease reads the document of the id it has moved (LeaseRead).
LEMMA LeaseReads ==
  ASSUME RedisInv, NEW w \in Workers, LeaseRead(w)
  PROVE  RedisInv'
<1> DEFINE j == loop[w].id
           q == loop[w].queue
           row == jobs[j]
           k == ProcessingKey(q, w)
           got == IF row # None /\ Leasable(w, row) THEN loop[w].got \cup {j} ELSE loop[w].got
           s == IF row # None THEN LeaseCommands(w, j, row) ELSE <<>>
           l == [loop[w] EXCEPT !.id = None, !.left = @ - 1, !.got = got]
<1>0. BaseInv
  BY DEF RedisInv
<1>1. todo[w] = <<>> /\ loop[w].kind = "lease" /\ j # None
  BY DEF LeaseRead, Leasing
<1>2. loop[w] \in [kind : {"lease"}, at : Instants, queue : Queues, left : Nat, id : JobIds \cup {None}, got : SUBSET JobIds]
  BY <1>1, <1>0, WorkerTypes, LoopCases
<1>3. j \in JobIds /\ q \in Queues /\ loop[w].left > 0 /\ held[w] = {} /\ started[w] = {} /\ loop[w].at \in Instants
  <2>1. loop[w].left > 0
    BY <1>0, <1>1 DEF BaseInv, OneThingAtATime, OneThing
  <2> QED BY <1>0, <1>1, <1>2, <2>1, HoldsNothing
<1>4. row # None => row \in Document
  BY <1>3, <1>0, WorkerTypes
<1>5. l \in Loop /\ l.kind = "lease" /\ l.id = None /\ l.queue = q /\ l.got = got
  <2>1. got \in SUBSET JobIds
    BY <1>2, <1>3
  <2> HIDE DEF got
  <2> QED BY <1>2, <1>3, <2>1, NextOfLease
<1>6. todo' = [todo EXCEPT ![w] = s] /\ loop' = [loop EXCEPT ![w] = l]
      /\ UNCHANGED <<now, serverVars, held, started, reaped, calls>>
  <2> DEFINE M == [loop EXCEPT ![w].id = None, ![w].left = @ - 1,
                    ![w].got = IF row # None /\ Leasable(w, row) THEN @ \cup {j} ELSE @]
  <2>1. todo' = [todo EXCEPT ![w] = s] /\ loop' = M /\ UNCHANGED <<now, serverVars, held, started, reaped, calls>>
    BY DEF LeaseRead, Send
  <2>2. M = [loop EXCEPT ![w] = l]
    BY <1>2, <1>0, WorkerTypes
  <2> QED BY <2>1, <2>2
<1>7. \/ row = None /\ s = <<>> /\ got = loop[w].got
      \/ row \in Document /\ s = <<Lpush(QueueKey(q), j), Lrem(k, j)>> /\ got = loop[w].got
      \/ row \in Document /\ s = <<Hset(j, [row EXCEPT !.status = "dlq"]), Lrem(k, j)>> /\ got = loop[w].got
      \/ /\ row \in Document /\ got = loop[w].got \cup {j}
         /\ s = <<Hset(j, [row EXCEPT !.status = "running", !.locked_by = w, !.lock_expires_at = loop[w].at + LeaseSeconds])>>
  <2>1. CASE row = None
    BY <2>1
  <2>2. CASE row # None
    <3>1. row \in Document /\ row.run_at \in Nat /\ (row.deadline_at = None \/ row.deadline_at \in Nat) /\ loop[w].at \in Nat
      BY <1>3, <1>4, <2>2 DEF Document, Instants
    <3> QED BY <2>2, <3>1, RedisAssumption DEF LeaseCommands, Leasable
  <2> QED BY <2>1, <2>2
<1> HIDE DEF l, s, j, q, row, k, got
<1>8. \E r \in Queues : k = ProcessingKey(r, w)
  BY <1>3 DEF k
<1>d. row \in Document => [row EXCEPT !.status = "dlq"] \in Document /\ [row EXCEPT !.status = "dlq"].status = "dlq"
  BY Rewritten, Zenon
<1>9. /\ s \in Seq(Command) /\ WellFormed(w, s)
      /\ \A i \in DOMAIN s : s[i].op = "HSET" /\ s[i].row.status = "running" => s[i].id \in got
  <2>0. w \in Clients
    BY <1>0, WorkerTypes
  <2>1. CASE row = None /\ s = <<>> /\ got = loop[w].got
    <3>1. s = todo[w] /\ DOMAIN s = {}
      BY <1>1, <2>1
    <3> QED BY <3>1, <1>0, WorkerTypes
  <2>2. CASE row \in Document /\ s = <<Lpush(QueueKey(q), j), Lrem(k, j)>> /\ got = loop[w].got
    <3>1. [row EXCEPT !.status = "dlq"] \in Document /\ [row EXCEPT !.status = "dlq"].status = "dlq"
      BY <1>d, <2>2
    <3>2. s \in Seq(Command) /\ WellFormed(w, s)
      BY <1>3, <1>8, <2>2, <3>1, WorkerCommands
    <3>3. \A i \in DOMAIN s : s[i] = Lpush(QueueKey(q), j) \/ s[i] = Lrem(k, j)
      BY <2>2, Members
    <3> QED BY <3>2, <3>3 DEF Lpush, Lrem
  <2>3. CASE row \in Document /\ s = <<Hset(j, [row EXCEPT !.status = "dlq"]), Lrem(k, j)>> /\ got = loop[w].got
    <3>1. [row EXCEPT !.status = "dlq"] \in Document /\ [row EXCEPT !.status = "dlq"].status = "dlq"
      BY <1>d, <2>3
    <3>2. s \in Seq(Command) /\ WellFormed(w, s)
      BY <1>3, <1>8, <2>3, <3>1, WorkerCommands
    <3> DEFINE r == [row EXCEPT !.status = "dlq"]
    <3>3. r.status = "dlq"
      BY <3>1
    <3>4. \A i \in DOMAIN s : s[i] = Hset(j, r) \/ s[i] = Lrem(k, j)
      BY <2>3, Members
    <3> HIDE DEF r
    <3>5. Hset(j, r).row = r /\ Lrem(k, j).op = "LREM"
      BY DEF Hset, Lrem
    <3> QED BY <3>2, <3>3, <3>4, <3>5
  <2>4. CASE /\ row \in Document /\ got = loop[w].got \cup {j}
             /\ s = <<Hset(j, [row EXCEPT !.status = "running", !.locked_by = w, !.lock_expires_at = loop[w].at + LeaseSeconds])>>
    <3> DEFINE r == [row EXCEPT !.status = "running", !.locked_by = w, !.lock_expires_at = loop[w].at + LeaseSeconds]
    <3>1. r \in Document /\ r.status = "running" /\ r.locked_by = w
      <4> DEFINE e == loop[w].at + LeaseSeconds
      <4>1. e \in 0 .. Horizon + LeaseSeconds
        BY <1>3, ExpiryType
      <4> HIDE DEF e
      <4>2. /\ [row EXCEPT !.status = "running", !.locked_by = w, !.lock_expires_at = e] \in Document
            /\ [row EXCEPT !.status = "running", !.locked_by = w, !.lock_expires_at = e].status = "running"
            /\ [row EXCEPT !.status = "running", !.locked_by = w, !.lock_expires_at = e].locked_by = w
        BY <2>4, <4>1, LeasedDocument, Zenon
      <4> QED BY <4>2, Zenon DEF e, r
    <3> HIDE DEF r
    <3>2. s = <<Hset(j, r)>> /\ s \in Seq(Command) /\ WellFormed(w, s)
      BY <1>3, <2>0, <2>4, <3>1, SingleCommand DEF r
    <3> QED BY <2>4, <3>2 DEF Hset
  <2> QED BY <1>7, <2>1, <2>2, <2>3, <2>4
<1>10. GoesOn(w, l, {}, {})
  BY <1>3, <1>5, <1>6, <1>0, WorkerTypes DEF GoesOn, serverVars
<1>11. Sends(w, s, l, {})
  BY <1>5, <1>6, <1>9 DEF Sends
<1>12. \A i \in DOMAIN s : s[i].id = j
  BY <1>7, Members DEF Hset, Lrem, Lpush
<1>13. \/ row = None /\ DOMAIN s = {} /\ got = loop[w].got
       \/ /\ row \in Document /\ got = loop[w].got
          /\ \E i \in DOMAIN s : s[i].op \in Pushing
       \/ /\ row \in Document /\ s # <<>> /\ Head(s).op = "HSET" /\ Head(s).id = j
          /\ \A i \in DOMAIN s : s[i].op \notin Pushing
          /\ \/ got = loop[w].got
             \/ got = loop[w].got \cup {j} /\ \A i \in DOMAIN s : s[i].op = "HSET" => s[i].row.status = "running"
  <2>1. CASE row = None /\ s = <<>> /\ got = loop[w].got
    BY <2>1
  <2>2. CASE row \in Document /\ s = <<Lpush(QueueKey(q), j), Lrem(k, j)>> /\ got = loop[w].got
    <3>1. 1 \in DOMAIN s /\ s[1].op \in Pushing
      BY <2>2 DEF Lpush, Pushing
    <3> QED BY <2>2, <3>1
  <2>3. CASE row \in Document /\ s = <<Hset(j, [row EXCEPT !.status = "dlq"]), Lrem(k, j)>> /\ got = loop[w].got
    <3> DEFINE r == [row EXCEPT !.status = "dlq"]
    <3>1. s = <<Hset(j, r), Lrem(k, j)>>
      BY <2>3
    <3> HIDE DEF r
    <3>2. s # <<>> /\ Head(s) = Hset(j, r) /\ \A i \in DOMAIN s : s[i] = Hset(j, r) \/ s[i] = Lrem(k, j)
      BY <3>1, Members
    <3> QED BY <2>3, <3>2 DEF Hset, Lrem, Pushing
  <2>4. CASE /\ row \in Document /\ got = loop[w].got \cup {j}
             /\ s = <<Hset(j, [row EXCEPT !.status = "running", !.locked_by = w, !.lock_expires_at = loop[w].at + LeaseSeconds])>>
    <3> DEFINE r == [row EXCEPT !.status = "running", !.locked_by = w, !.lock_expires_at = loop[w].at + LeaseSeconds]
    <3>1. r.status = "running" /\ s = <<Hset(j, r)>>
      BY <2>4 DEF Document
    <3> HIDE DEF r
    <3>2. s # <<>> /\ Head(s) = Hset(j, r) /\ \A i \in DOMAIN s : s[i] = Hset(j, r)
      BY <3>1, Members
    <3> QED BY <2>4, <3>1, <3>2 DEF Hset, Pushing
  <2> QED BY <1>7, <2>1, <2>2, <2>3, <2>4
<1>14. ProperTurn(w, s, l, {})
  <2>1. /\ \A i : LeaseUnderWay(w, i) <=> i = j
        /\ \A i : Returned(w, i) <=> i \in loop[w].got
        /\ \A i : Having(l, {}, i) <=> i \in got
    BY <1>1, <1>3, <1>5 DEF LeaseUnderWay, Returned, Having, j
  <2>2. jobs[j] = row /\ (row \in Document => row # None)
    BY AbsentAssumption DEF row
  <2>3. \A i \in JobIds : Unfinished(i) /\ LeaseUnderWay(w, i) =>
          \/ \E k0 \in DOMAIN s : s[k0].op \in Pushing /\ s[k0].id = i
          \/ s # <<>> /\ Head(s).op = "HSET" /\ Head(s).id = i /\ l.kind = "lease" /\ l.queue = loop[w].queue
    BY <1>5, <1>12, <1>13, <2>1, <2>2 DEF Unfinished, q
  <2>4. \A i \in JobIds : Having(l, {}, i) => Returned(w, i) \/ (LeaseUnderWay(w, i) /\ jobs[i] # None)
    BY <1>13, <2>1, <2>2
  <2>5. Documented(s)
    BY <1>12, <1>13, <2>2 DEF Documented
  <2>6. \A i \in DOMAIN s : LeaseUnderWay(w, s[i].id)
    BY <1>12, <2>1
  <2>7. ASSUME ~ reaped, NEW i \in DOMAIN s, (s[i].op = "HSET" /\ s[i].row.status \in Over) \/ s[i].op \in Pushing
        PROVE  ~ Having(l, {}, s[i].id)
    <3>1. ~ Returned(w, j)
      BY <1>3, <2>1, <2>7 DEF RedisInv, PlaceInv, LetGo
    <3>2. got = loop[w].got
      BY <1>13, <2>7 DEF Over
    <3> QED BY <1>12, <2>1, <3>1, <3>2
  <2>8. reaped' = reaped
    BY <1>6
  <2> QED BY <1>5, <1>13, <2>1, <2>3, <2>4, <2>5, <2>6, <2>7, <2>8 DEF ProperTurn
<1> QED BY <1>1, <1>6, <1>10, <1>11, <1>14, WorkerTurnKeepsInv

\* No commands.
LEMMA NoCommands ==
  ASSUME NEW c, NEW s, s = <<>>
  PROVE  s \in Seq(Command) /\ DOMAIN s = {} /\ WellFormed(c, s) /\ Documented(s)
<1>1. s \in Seq(Command) /\ DOMAIN s = {}
  OBVIOUS
<1>2. WellFormed(c, s) /\ Documented(s)
  BY <1>1 DEF WellFormed, WritesInOrder, Documented
<1> QED BY <1>1, <1>2

\* The commands are about one job, and write this document of it.
AboutOne(s, j, row) ==
  /\ \A i \in DOMAIN s : s[i].id = j /\ (s[i].op = "HSET" => s[i].row = row)
  /\ \E i \in DOMAIN s : s[i].op = "HSET"
  /\ Documented(s)

\* A heartbeat or a cancellation, a completion, a cancellation by the holder, a retry and
\* a publication.
LEMMA AboutOneJob ==
  ASSUME NEW j, NEW row, NEW k, NEW key
  PROVE  /\ AboutOne(<<Hset(j, row)>>, j, row)
         /\ AboutOne(<<Hset(j, row), Lrem(k, j)>>, j, row)
         /\ AboutOne(<<Lrem(k, j), Hset(j, row)>>, j, row)
         /\ AboutOne(<<Hset(j, row), Lrem(k, j), Rpush(key, j)>>, j, row)
         /\ AboutOne(Publication(j, row), j, row)
<1> DEFINE P(s) == /\ DOMAIN s \subseteq Int
                   /\ \A i \in DOMAIN s : s[i].id = j /\ (s[i].op = "HSET" => s[i].row = row)
                   /\ \E n \in DOMAIN s : /\ s[n].op = "HSET"
                                          /\ \A i \in DOMAIN s : s[i].op \in Pushing => n < i
<1>1. ASSUME NEW s, P(s) PROVE AboutOne(s, j, row)
  BY <1>1 DEF AboutOne, Documented
<1> USE DEF Hset, Lrem, Rpush, Pushing
<1>2. P(<<Hset(j, row)>>)
  <2> DEFINE s == <<Hset(j, row)>>
  <2>1. DOMAIN s = {1} /\ s[1] = Hset(j, row)
    OBVIOUS
  <2> HIDE DEF s
  <2> QED BY <2>1
<1>3. P(<<Hset(j, row), Lrem(k, j)>>)
  <2> DEFINE s == <<Hset(j, row), Lrem(k, j)>>
  <2>1. DOMAIN s = {1, 2} /\ s[1] = Hset(j, row) /\ s[2] = Lrem(k, j)
    OBVIOUS
  <2> HIDE DEF s
  <2> QED BY <2>1
<1>4. P(<<Lrem(k, j), Hset(j, row)>>)
  <2> DEFINE s == <<Lrem(k, j), Hset(j, row)>>
  <2>1. DOMAIN s = {1, 2} /\ s[1] = Lrem(k, j) /\ s[2] = Hset(j, row)
    OBVIOUS
  <2> HIDE DEF s
  <2> QED BY <2>1
<1>5. P(<<Hset(j, row), Lrem(k, j), Rpush(key, j)>>)
  <2> DEFINE s == <<Hset(j, row), Lrem(k, j), Rpush(key, j)>>
  <2>1. DOMAIN s = {1, 2, 3} /\ s[1] = Hset(j, row) /\ s[2] = Lrem(k, j) /\ s[3] = Rpush(key, j)
    OBVIOUS
  <2> HIDE DEF s
  <2> QED BY <2>1
<1>6. P(Publication(j, row))
  <2> DEFINE s == <<Hset(j, row), Rpush(QueueKey(row.queue), j)>>
  <2>1. DOMAIN s = {1, 2} /\ s[1] = Hset(j, row) /\ s[2] = Rpush(QueueKey(row.queue), j) /\ Publication(j, row) = s
    BY DEF Publication
  <2> HIDE DEF s
  <2>2. P(s)
    BY <2>1
  <2> QED BY <2>1, <2>2
<1> HIDE DEF P
<1> QED BY <1>1, <1>2, <1>3, <1>4, <1>5, <1>6

\* A reaping reads the document of an id, and takes an expired lease back.
LEMMA ReapReads ==
  ASSUME RedisInv, NEW w \in Workers, ReapRead(w)
  PROVE  RedisInv'
<1> DEFINE j == Head(loop[w].ids)
           row == jobs[j]
           k == loop[w].key
           expired == row # None /\ Abandoned(row, loop[w].at)
           l == [loop[w] EXCEPT !.ids = Tail(@)]
<1>0. BaseInv
  BY DEF RedisInv
<1>1. loop[w].kind = "reap" /\ todo[w] = <<>> /\ loop[w].ids # <<>>
  BY DEF ReapRead, Reaping
<1>2. loop[w] \in [kind : {"reap"}, at : Instants, keys : SUBSET ProcessingKeys, key : ProcessingKeys \cup {None}, ids : Seq(JobIds)]
  BY <1>0, <1>1, WorkerTypes, LoopCases
<1>3. k \in ProcessingKeys
  BY <1>0, <1>1 DEF BaseInv, OneThingAtATime, OneThing
<1>4. j \in JobIds /\ Tail(loop[w].ids) \in Seq(JobIds)
  BY <1>1, <1>2, HeadTailProperties
<1>5. l \in Loop /\ l.kind = "reap" /\ l.key = k
  BY <1>2, <1>4 DEF Loop
<1>6. loop' = [loop EXCEPT ![w] = l] /\ UNCHANGED <<now, serverVars, held, started, calls>>
  BY <1>0, <1>2, WorkerTypes DEF ReapRead
<1>7. held[w] = {} /\ started[w] = {}
  BY <1>0, <1>1, HoldsNothing
<1>8. reaped' = (reaped \/ expired)
  BY Zenon DEF ReapRead
<1>9. todo' = [todo EXCEPT ![w] = IF expired THEN <<Hset(j, Released(row, "queued")), Lrem(k, j), Rpush(QueueKey(k[2]), j)>> ELSE <<>>]
  BY Zenon DEF ReapRead, Send
<1>10. row # None => row \in Document
  BY <1>0, <1>4, WorkerTypes
<1> HIDE DEF j, row, k, l
<1>11. CASE ~ expired
  <2>1. todo' = todo
    BY <1>0, <1>1, <1>9, <1>11 DEF BaseInv, RedisTypeOK
  <2>2. UNCHANGED <<now, serverVars, todo, held, started, reaped, calls>>
    BY <1>0, <1>6, <1>8, <1>11, <2>1, WorkerTypes
  <2> QED BY <1>1, <1>3, <1>5, <1>6, <1>7, <2>2, NothingInHand
<1>12. CASE expired
  <2> DEFINE r == Released(row, "queued")
             s == <<Hset(j, r), Lrem(k, j), Rpush(QueueKey(k[2]), j)>>
  <2>1. r \in Document /\ r.status = "queued"
    BY <1>10, <1>12, Rewritten
  <2>2. k[2] \in Queues
    BY <1>3 DEF ProcessingKeys, ProcessingKey
  <2> HIDE DEF r
  <2>3. s \in Seq(Command) /\ WellFormed(w, s) /\ AboutOne(s, j, r)
    BY <1>0, <1>3, <1>4, <2>1, <2>2, WorkerTypes, QueueingCommands, AboutOneJob
  <2>4. todo' = [todo EXCEPT ![w] = s] /\ reaped'
    BY <1>8, <1>9, <1>12 DEF r
  <2> HIDE DEF s
  <2>5. GoesOn(w, l, {}, {})
    BY <1>0, <1>3, <1>5, <1>6, <1>7, <2>4, WorkerTypes DEF GoesOn, serverVars
  <2>6. Sends(w, s, l, {})
    BY <1>5, <2>1, <2>3, <2>4 DEF Sends, AboutOne
  <2>7. ProperTurn(w, s, l, {})
    BY <1>1, <1>5, <1>7, <2>3, <2>4 DEF ProperTurn, LeaseUnderWay, Returned, Having, AboutOne
  <2> QED BY <1>1, <1>6, <2>5, <2>6, <2>7, WorkerTurnKeepsInv
<1> QED BY <1>11, <1>12

\* The application sends commands about work that is queued, or that is new.
LEMMA AppTurnKeepsInv ==
  ASSUME RedisInv, NEW s \in Seq(Command), WellFormed(App, s), Ready(App), Send(App, s),
         UNCHANGED <<now, jobs, lists, attempts, loop, held, started, reaped, calls>>,
         idempotency' \in [Keys -> JobIds \cup {None}],
         Documented(s), \A i \in DOMAIN s : s[i].op \in Pushing => s[i].id \in Unused,
         \A i \in DOMAIN s : s[i].op = "HSET" =>
           \/ s[i].row.status = "canceled"
           \/ s[i].row.status = "queued" /\ jobs[s[i].id] = None
  PROVE  RedisInv'
<1>1. BaseInv' /\ Turn(App) /\ todo'[App] = s
  BY AppTurnKeepsBase DEF RedisInv, Send
<1>2. App \in Clients /\ App \notin Workers /\ todo[App] = <<>>
  BY RedisAssumption DEF Clients, Ready
<1>3. AppWrites'
  BY <1>1 DEF AppWrites
<1>4. \A j : Has(App, j)' => j \in Unused
  BY <1>1, <1>2 DEF Has, Pushes
<1>5. SoundTurn(App)
  BY <1>1, <1>2, <1>3, <1>4 DEF SoundTurn
<1> QED BY <1>1, <1>2, <1>5, TurnKeepsInv

\* New work is published under an id that nothing has.
LEMMA Publishes ==
  ASSUME RedisInv, NEW id \in Unused, NEW row \in Document, row.status = "queued",
         Ready(App), Send(App, Publication(id, row)),
         UNCHANGED <<now, jobs, lists, attempts, loop, held, started, reaped, calls>>,
         idempotency' \in [Keys -> JobIds \cup {None}]
  PROVE  RedisInv'
<1> DEFINE s == Publication(id, row)
<1>1. id \in JobIds /\ jobs[id] = None
  BY UnusedIsNowhere
<1>2. row.queue \in Queues /\ App \in Clients
  BY DEF Document, Clients
<1>3. s \in Seq(Command) /\ WellFormed(App, s)
  BY <1>1, <1>2, PublicationCommands
<1>4. AboutOne(s, id, row)
  BY AboutOneJob
<1> HIDE DEF s
<1>5. Send(App, s)
  BY DEF s
<1> QED BY <1>1, <1>3, <1>4, <1>5, AppTurnKeepsInv DEF AboutOne

\* enqueue
LEMMA EnqueueKeepsInv ==
  ASSUME RedisInv, NEW nj \in NewJobs, NEW id \in Unused, enqueue(nj, id)
  PROVE  RedisInv'
<1>1. /\ nj.queue \in Queues /\ nj.run_at \in Instants
      /\ nj.deadline_at \in Nat \cup {None} /\ nj.recurring_interval_seconds \in Int \cup {None}
  BY RedisAssumption DEF NewJobType, Instants
<1>2. Fresh(nj, nj.queue, nj.run_at) \in Document /\ Fresh(nj, nj.queue, nj.run_at).status = "queued"
  BY <1>1, FreshIsDocument, Zenon
<1>3. idempotency' \in [Keys -> JobIds \cup {None}]
  <2>1. idempotency \in [Keys -> JobIds \cup {None}] /\ id \in JobIds
    BY UnusedIsNowhere DEF RedisInv, BaseInv, RedisTypeOK
  <2>2. idempotency' = [k \in Keys |-> IF k = nj.idempotency_key THEN id ELSE idempotency[k]]
    BY Zenon DEF enqueue
  <2> QED BY <2>1, <2>2
<1> QED BY <1>2, <1>3, Publishes DEF enqueue

\* replay_job
LEMMA ReplayKeepsInv ==
  ASSUME RedisInv, NEW src \in JobIds, NEW id \in Unused, NEW q \in Queues, NEW t \in ReplayTimes, replay_job(src, id, q, t)
  PROVE  RedisInv'
<1>1. jobs[src] \in Document /\ t \in Instants
  BY RedisAssumption DEF replay_job, RedisInv, BaseInv, RedisTypeOK
<1>2. Fresh(jobs[src], q, t) \in Document /\ Fresh(jobs[src], q, t).status = "queued"
  BY <1>1, FreshIsDocument DEF Document
<1>3. idempotency' \in [Keys -> JobIds \cup {None}]
  BY DEF replay_job, serverVars, RedisInv, BaseInv, RedisTypeOK
<1> QED BY <1>2, <1>3, Publishes DEF replay_job, serverVars

\* cancel_job of queued work
LEMMA CancelKeepsInv ==
  ASSUME RedisInv, NEW j \in JobIds, cancel_queued_job(j)
  PROVE  RedisInv'
<1> DEFINE row == Released(jobs[j], "canceled")
           s == <<Hset(j, row)>>
<1>1. jobs[j] \in Document
  BY DEF cancel_queued_job, RedisInv, BaseInv, RedisTypeOK
<1>2. row \in Document /\ row.status = "canceled"
  BY <1>1, Rewritten
<1>3. Send(App, s) /\ Ready(App) /\ App \in Clients
  BY DEF cancel_queued_job, Clients
<1> HIDE DEF row
<1>4. s \in Seq(Command) /\ WellFormed(App, s) /\ AboutOne(s, j, row)
  BY <1>2, <1>3, SingleCommand, AboutOneJob
<1>5. \A i \in DOMAIN s : s[i].op = "HSET"
  BY Members DEF Hset
<1>6. idempotency' \in [Keys -> JobIds \cup {None}]
  BY DEF cancel_queued_job, serverVars, RedisInv, BaseInv, RedisTypeOK
<1> HIDE DEF s
<1> QED BY <1>2, <1>3, <1>4, <1>5, <1>6, AppTurnKeepsInv DEF AboutOne, cancel_queued_job, serverVars, Pushing

\* What a report sends about the job: a document of it that is no lease, and nothing about
\* any other job but a new one.
Reporting(w, s, j) ==
  /\ s \in Seq(Command) /\ WellFormed(w, s) /\ Documented(s)
  /\ \A i \in DOMAIN s : s[i].id = j \/ s[i].id \in Unused
  /\ \A i \in DOMAIN s : s[i].op = "HSET" => s[i].row.status # "running"
  /\ \E i \in DOMAIN s : s[i].op = "HSET" /\ s[i].id = j

\* The lease that an operation of its holder finds.
LEMMA LeaseFound ==
  ASSUME RedisInv, NEW w \in Workers, NEW j \in held[w], HoldsLease(j, w)
  PROVE  /\ j \in JobIds /\ jobs[j] \in Document /\ jobs[j].queue \in Queues
         /\ \E q \in Queues : Processing(w, j) = ProcessingKey(q, w)
<1>1. j \in JobIds /\ jobs[j] \in Document
  BY DEF RedisInv, BaseInv, RedisTypeOK, HoldsLease
<1>2. jobs[j].queue \in Queues
  BY <1>1 DEF Document
<1> QED BY <1>1, <1>2 DEF Processing

\* A report keeps the invariant.
LEMMA ReportKeepsInv ==
  ASSUME RedisInv, NEW w \in Workers, NEW j \in held[w], NEW commands, Report(w, j, commands),
         HoldsLease(j, w) => Reporting(w, commands, j)
  PROVE  RedisInv'
<1> DEFINE s == IF HoldsLease(j, w) THEN commands ELSE <<>>
           h == held[w] \ {j}
           st == started[w] \ {j}
<1>0. BaseInv /\ j \in JobIds
  BY WorkerTypes DEF RedisInv
<1>1. todo[w] = <<>> /\ loop[w] = Idle /\ Idle \in Loop /\ Idle.kind = "idle"
  BY DEF Report, Ready, Loop, Idle
<1>2. GoesOn(w, Idle, h, st)
  <2>1. loop' = [loop EXCEPT ![w] = Idle]
    BY <1>0, <1>1, WorkerTypes DEF Report
  <2> QED BY <1>0, <1>1, <2>1, WorkerTypes DEF GoesOn, Report, Drop, serverVars
<1>3. s \in Seq(Command) /\ WellFormed(w, s) /\ Documented(s)
  <2>1. CASE HoldsLease(j, w)
    BY <2>1 DEF Reporting
  <2>2. CASE ~ HoldsLease(j, w)
    BY <2>2, NoCommands
  <2> QED BY <2>1, <2>2
<1>4. /\ \A i \in DOMAIN s : s[i].id = j \/ s[i].id \in Unused
      /\ \A i \in DOMAIN s : s[i].op = "HSET" => s[i].row.status # "running"
      /\ HoldsLease(j, w) => \E i \in DOMAIN s : s[i].op = "HSET" /\ s[i].id = j
  <2>1. CASE HoldsLease(j, w)
    BY <2>1 DEF Reporting
  <2>2. CASE ~ HoldsLease(j, w)
    <3>1. s = <<>>
      BY <2>2
    <3> HIDE DEF s
    <3> QED BY <2>2, <3>1, NoCommands
  <2> QED BY <2>1, <2>2
<1>5. todo' = [todo EXCEPT ![w] = s] /\ UNCHANGED <<reaped, calls>>
  BY DEF Report, Send
<1> HIDE DEF s
<1>6. Sends(w, s, Idle, h)
  BY <1>1, <1>3, <1>4, <1>5 DEF Sends
<1>7. \A i : (Returned(w, i) <=> i \in held[w]) /\ (Having(Idle, h, i) <=> i \in held[w] /\ i # j) /\ ~ LeaseUnderWay(w, i)
  BY <1>1 DEF Returned, Having, LeaseUnderWay
<1>8. \A i \in Unused : i \notin held[w]
  BY <1>7, UnusedIsNowhere
<1>9. ProperTurn(w, s, Idle, h)
  BY <1>1, <1>3, <1>4, <1>5, <1>7, <1>8 DEF ProperTurn
<1> QED BY <1>1, <1>2, <1>5, <1>6, <1>9, WorkerTurnKeepsInv

\* A report of one job.
LEMMA ReportOfOne ==
  ASSUME NEW w, NEW j, NEW row, NEW s \in Seq(Command), WellFormed(w, s), AboutOne(s, j, row), row.status # "running"
  PROVE  Reporting(w, s, j)
  BY DEF Reporting, AboutOne

\* mark_succeeded, mark_dlq, cancel_job and reschedule_for_retry of a lease that is there.
LEMMA ReportsOfOne ==
  ASSUME RedisInv, NEW w \in Workers, NEW j \in held[w], HoldsLease(j, w)
  PROVE  /\ Reporting(w, Done(w, j), j)
         /\ Reporting(w, <<Hset(j, [jobs[j] EXCEPT !.status = "dlq"]), Lrem(Processing(w, j), j)>>, j)
         /\ Reporting(w, <<Lrem(Processing(w, j), j), Hset(j, Released(jobs[j], "canceled"))>>, j)
         /\ \A t \in Instants :
              Reporting(w, <<Hset(j, [Released(jobs[j], "queued") EXCEPT !.run_at = t]), Lrem(Processing(w, j), j),
                             Rpush(QueueKey(jobs[j].queue), j)>>, j)
<1> DEFINE k == Processing(w, j)
           q == jobs[j].queue
<1>1. j \in JobIds /\ jobs[j] \in Document /\ q \in Queues /\ w \in Clients /\ \E r \in Queues : k = ProcessingKey(r, w)
  BY LeaseFound DEF Clients
<1>2. k \in ProcessingKeys
  BY <1>1, KeysAreApart
<1> HIDE DEF k, q
<1>3. ASSUME NEW row \in Document, row.status \notin {"queued", "running"}
      PROVE  /\ Reporting(w, <<Hset(j, row), Lrem(k, j)>>, j)
             /\ Reporting(w, <<Lrem(k, j), Hset(j, row)>>, j)
  <2> DEFINE s == <<Hset(j, row), Lrem(k, j)>>
             t == <<Lrem(k, j), Hset(j, row)>>
  <2>1. /\ s \in Seq(Command) /\ WellFormed(w, s) /\ t \in Seq(Command) /\ WellFormed(w, t)
        /\ AboutOne(s, j, row) /\ AboutOne(t, j, row)
    BY <1>1, <1>3, WorkerCommands, AboutOneJob
  <2> HIDE DEF s, t
  <2>2. Reporting(w, s, j) /\ Reporting(w, t, j)
    BY <1>3, <2>1, ReportOfOne
  <2> QED BY <2>2 DEF s, t
<1>4. ASSUME NEW row \in Document, row.status = "queued"
      PROVE  Reporting(w, <<Hset(j, row), Lrem(k, j), Rpush(QueueKey(q), j)>>, j)
  <2> DEFINE s == <<Hset(j, row), Lrem(k, j), Rpush(QueueKey(q), j)>>
  <2>1. s \in Seq(Command) /\ WellFormed(w, s) /\ AboutOne(s, j, row)
    BY <1>1, <1>2, <1>4, QueueingCommands, AboutOneJob
  <2> HIDE DEF s
  <2>2. Reporting(w, s, j)
    BY <1>4, <2>1, ReportOfOne
  <2> QED BY <2>2 DEF s
<1>5. ASSUME NEW status \in {"succeeded", "dlq", "canceled"}
      PROVE  /\ Released(jobs[j], status) \in Document /\ Released(jobs[j], status).status = status
             /\ [jobs[j] EXCEPT !.status = status] \in Document /\ [jobs[j] EXCEPT !.status = status].status = status
  <2>1. status \in {"queued", "running", "succeeded", "dlq", "canceled"} /\ jobs[j] \in Document
    BY <1>1
  <2> QED BY <2>1, Rewritten, Zenon
<1>6. \A t \in Instants : /\ [Released(jobs[j], "queued") EXCEPT !.run_at = t] \in Document
                          /\ [Released(jobs[j], "queued") EXCEPT !.run_at = t].status = "queued"
  BY <1>1, RetryDocument
<1> QED BY <1>3, <1>4, <1>5, <1>6 DEF Done, k, q

\* mark_succeeded of recurring work whose lease is there.
LEMMA ReportOfRecurring ==
  ASSUME RedisInv, NEW w \in Workers, NEW j \in held[w], HoldsLease(j, w), NEW id \in Unused,
         NEW next \in Document, next.status = "queued"
  PROVE  Reporting(w, Done(w, j) \o Publication(id, next), j)
<1> DEFINE k == Processing(w, j)
           row == Released(jobs[j], "succeeded")
           s == Recurrence(j, row, k, id, next)
<1>1. j \in JobIds /\ jobs[j] \in Document /\ \E r \in Queues : k = ProcessingKey(r, w)
  BY LeaseFound
<1>2. id \in JobIds /\ id # j
  <2>1. Returned(w, j)
    BY DEF Returned
  <2> QED BY <2>1, UnusedIsNowhere
<1>3. row \in Document /\ row.status = "succeeded"
  <2>1. "succeeded" \in {"queued", "running", "succeeded", "dlq", "canceled"}
    OBVIOUS
  <2> QED BY <1>1, <2>1, Rewritten, Zenon
<1>4. Done(w, j) \o Publication(id, next) = <<Hset(j, row), Lrem(k, j)>> \o Publication(id, next)
  BY DEF Done
<1> HIDE DEF k, row
<1>5. /\ <<Hset(j, row), Lrem(k, j)>> \o Publication(id, next) = s
      /\ s \in Seq(Command) /\ WellFormed(w, s)
  <2>1. row.status \notin {"queued", "running"}
    BY <1>3
  <2> QED BY <1>1, <1>2, <1>3, <2>1, RecurringCommands
<1>6. /\ DOMAIN s = 1 .. 4 /\ s[1] = Hset(j, row) /\ s[2] = Lrem(k, j)
      /\ s[3] = Hset(id, next) /\ s[4] = Rpush(QueueKey(next.queue), id)
  BY DEF Recurrence
<1> HIDE DEF s
<1>7. Documented(s)
  BY <1>6 DEF Documented, Hset, Lrem, Rpush, Pushing
<1>8. Reporting(w, s, j)
  BY <1>3, <1>5, <1>6, <1>7 DEF Reporting, Hset, Lrem, Rpush
<1> QED BY <1>4, <1>5, <1>8

\* The attempt of a lease that is there is counted; another lease is let go.
LEMMA StartKeepsInv ==
  ASSUME RedisInv, NEW w \in Workers, NEW j \in held[w], start_attempt(w, j)
  PROVE  RedisInv'
<1>0. BaseInv /\ j \in JobIds
  BY WorkerTypes DEF RedisInv
<1>1. todo[w] = <<>> /\ loop[w] = Idle /\ Idle \in Loop /\ Idle.kind = "idle" /\ j \in held[w] \ started[w]
  BY DEF start_attempt, Ready, Loop, Idle
<1>2. loop' = [loop EXCEPT ![w] = Idle] /\ UNCHANGED <<now, serverVars, reaped, calls>>
  BY <1>0, <1>1, WorkerTypes DEF start_attempt
<1>3. \A h, i : Having(Idle, h, i) <=> i \in h
  BY <1>1 DEF Having
<1>4. \A i : (Returned(w, i) <=> i \in held[w]) /\ ~ LeaseUnderWay(w, i)
  BY <1>1 DEF Returned, LeaseUnderWay
<1>5. CASE HoldsLease(j, w)
  <2> DEFINE s == <<Incr(j)>>
             st == started[w] \cup {j}
  <2>1. todo' = [todo EXCEPT ![w] = s] /\ started' = [started EXCEPT ![w] = st] /\ held' = [held EXCEPT ![w] = held[w]]
    BY <1>0, <1>5, WorkerTypes DEF start_attempt, Send
  <2>2. s \in Seq(Command) /\ WellFormed(w, s)
    BY <1>0, CommandTypes DEF WellFormed, WritesInOrder, CommandInPlace, Incr, Pushing
  <2>3. \A i \in DOMAIN s : s[i].op = "INCR"
    BY Members DEF Incr
  <2> HIDE DEF s
  <2>4. GoesOn(w, Idle, held[w], st)
    BY <1>0, <1>1, <1>2, <2>1, WorkerTypes DEF GoesOn, serverVars
  <2>5. Sends(w, s, Idle, held[w])
    BY <1>1, <2>1, <2>2, <2>3 DEF Sends
  <2>6. ProperTurn(w, s, Idle, held[w])
    BY <1>1, <1>2, <1>3, <1>4, <2>3 DEF ProperTurn, Documented, Pushing
  <2> QED BY <1>1, <1>2, <2>4, <2>5, <2>6, WorkerTurnKeepsInv
<1>6. CASE ~ HoldsLease(j, w)
  <2> DEFINE h == held[w] \ {j}
             st == started[w] \ {j}
  <2>1. todo' = todo /\ started' = [started EXCEPT ![w] = st] /\ held' = [held EXCEPT ![w] = h]
    BY <1>6 DEF start_attempt, Drop
  <2>2. GoesOn(w, Idle, h, st)
    BY <1>0, <1>1, <1>2, <2>1, WorkerTypes DEF GoesOn, serverVars
  <2>3. /\ \A i \in JobIds : Having(Idle, h, i) => Returned(w, i)
        /\ \A i \in JobIds : HoldsLease(i, w) /\ Returned(w, i) => Having(Idle, h, i)
    BY <1>3, <1>4, <1>6
  <2> QED BY <1>1, <1>2, <2>1, <2>2, <2>3, QuietTurnKeepsInv
<1> QED BY <1>5, <1>6

\* A heartbeat of a lease that is there.
LEMMA ExtendKeepsInv ==
  ASSUME RedisInv, NEW w \in Workers, NEW j \in JobIds, extend_lease(w, j)
  PROVE  RedisInv'
<1> DEFINE e == now + LeaseSeconds
           row == [jobs[j] EXCEPT !.lock_expires_at = e]
           s == <<Hset(j, row)>>
<1>0. BaseInv
  BY DEF RedisInv
<1>1. todo[w] = <<>> /\ loop[w] = Idle /\ Idle \in Loop /\ Idle.kind = "idle" /\ j \in held[w] /\ HoldsLease(j, w)
  BY DEF extend_lease, Ready, Loop, Idle
<1>2. jobs[j] \in Document /\ jobs[j].status = "running" /\ jobs[j].locked_by = w
  BY <1>1, LeaseFound DEF HoldsLease
<1>3. e \in 0 .. Horizon + LeaseSeconds
  BY <1>0, WorkerTypes, ExpiryType
<1>4. todo' = [todo EXCEPT ![w] = s]
  BY Zenon DEF extend_lease, Send
<1> HIDE DEF e
<1>5. row \in Document /\ row.status = "running" /\ row.locked_by = w
  <2>1. row \in Document /\ row.status = jobs[j].status /\ row.locked_by = jobs[j].locked_by
    BY <1>2, <1>3, ExtendedDocument, Zenon
  <2> QED BY <1>2, <2>1
<1> HIDE DEF row
<1>6. s \in Seq(Command) /\ WellFormed(w, s) /\ AboutOne(s, j, row)
  BY <1>0, <1>5, WorkerTypes, SingleCommand, AboutOneJob
<1>7. \A i \in DOMAIN s : s[i].op = "HSET"
  BY Members DEF Hset
<1> HIDE DEF s
<1>8. GoesOn(w, Idle, held[w], started[w])
  <2>1. calls.extend < MaxExtends /\ calls' = [calls EXCEPT !.extend = @ + 1]
    BY DEF extend_lease
  <2>2. calls' \in [extend : 0 .. MaxExtends, abort : 0 .. MaxAborts]
    <3>1. calls \in [extend : 0 .. MaxExtends, abort : 0 .. MaxAborts] /\ MaxExtends \in Nat
      BY <1>0, WorkerTypes, RedisAssumption
    <3> QED BY <2>1, <3>1
  <2> QED BY <1>0, <1>1, <2>2, WorkerTypes DEF GoesOn, extend_lease, serverVars
<1>9. Sends(w, s, Idle, held[w])
  BY <1>1, <1>4, <1>6 DEF Sends, AboutOne
<1>10. \A i : (Returned(w, i) <=> i \in held[w]) /\ (Having(Idle, held[w], i) <=> i \in held[w]) /\ ~ LeaseUnderWay(w, i)
  BY <1>1 DEF Returned, Having, LeaseUnderWay
<1>11. reaped' = reaped /\ calls'.abort = calls.abort
  BY <1>0, WorkerTypes DEF extend_lease
<1>12. ProperTurn(w, s, Idle, held[w])
  BY <1>1, <1>5, <1>6, <1>7, <1>10, <1>11 DEF ProperTurn, AboutOne, Over, Pushing
<1> QED BY <1>1, <1>8, <1>9, <1>11, <1>12, WorkerTurnKeepsInv

\* mark_succeeded of recurring work
LEMMA RecurringKeepsInv ==
  ASSUME RedisInv, NEW w \in Workers, NEW j \in held[w], NEW id \in Unused, mark_succeeded_recurring(w, j, id)
  PROVE  RedisInv'
<1> DEFINE row == jobs[j]
           interval == IF row.recurring_interval_seconds < 1 THEN 1 ELSE row.recurring_interval_seconds
           src == [row EXCEPT !.deadline_at = IF @ = None THEN None ELSE @ + interval]
           next == Fresh(src, row.queue, row.run_at + interval)
<1>1. /\ row.recurring_interval_seconds # None /\ row.run_at + interval <= Horizon
      /\ Report(w, j, Done(w, j) \o Publication(id, next))
  BY DEF mark_succeeded_recurring
<1>2. ASSUME HoldsLease(j, w)
      PROVE  next \in Document /\ next.status = "queued"
  <2>1. row \in Document
    BY <1>2, LeaseFound
  <2>2. /\ row.queue \in Queues /\ row.run_at \in 0 .. Horizon /\ row.recurring_interval_seconds \in Int
        /\ row.deadline_at \in Nat \cup {None}
    BY <1>1, <2>1 DEF Document, Instants
  <2>3. interval \in Nat /\ interval >= 1
    BY <2>2
  <2> HIDE DEF interval
  <2>4. row.run_at + interval \in Instants
    BY <1>1, <2>2, <2>3, RedisAssumption DEF Instants
  <2>5. src.deadline_at \in Nat \cup {None} /\ src.recurring_interval_seconds \in Int \cup {None}
    BY <2>1, <2>2, <2>3 DEF Document
  <2> HIDE DEF row, src
  <2> QED BY <2>2, <2>4, <2>5, FreshIsDocument
<1> HIDE DEF next
<1>3. HoldsLease(j, w) => Reporting(w, Done(w, j) \o Publication(id, next), j)
  BY <1>2, ReportOfRecurring
<1> QED BY <1>1, <1>3, ReportKeepsInv

\* The attempts and reports of a worker.
LEMMA FinishKeepsInv ==
  ASSUME RedisInv, NEW w \in Workers, Finish(w)
  PROVE  RedisInv'
<1>1. PICK j \in held[w] :
        \/ start_attempt(w, j)
        \/ mark_succeeded_once(w, j)
        \/ \E id \in Unused : mark_succeeded_recurring(w, j, id)
        \/ \E d \in RetryDelays : now + d <= Horizon /\ reschedule_for_retry(w, j, now + d)
        \/ mark_dlq(w, j)
        \/ cancel_running_job(w, j)
  BY DEF Finish
<1>2. CASE start_attempt(w, j)
  BY <1>2, StartKeepsInv
<1>3. CASE mark_succeeded_once(w, j)
  BY <1>3, ReportKeepsInv, ReportsOfOne DEF mark_succeeded_once
<1>4. CASE \E id \in Unused : mark_succeeded_recurring(w, j, id)
  BY <1>4, RecurringKeepsInv
<1>5. CASE \E d \in RetryDelays : now + d <= Horizon /\ reschedule_for_retry(w, j, now + d)
  <2>1. PICK d \in RetryDelays : now + d <= Horizon /\ reschedule_for_retry(w, j, now + d)
    BY <1>5
  <2> DEFINE t == now + d
  <2>2. t \in Instants
    BY <2>1, RedisAssumption DEF RedisInv, BaseInv, RedisTypeOK, Instants
  <2>3. reschedule_for_retry(w, j, t)
    BY <2>1
  <2> HIDE DEF t
  <2> QED BY <2>2, <2>3, ReportKeepsInv, ReportsOfOne DEF reschedule_for_retry
<1>6. CASE mark_dlq(w, j)
  BY <1>6, ReportKeepsInv, ReportsOfOne DEF mark_dlq
<1>7. CASE cancel_running_job(w, j)
  BY <1>7, ReportKeepsInv, ReportsOfOne DEF cancel_running_job
<1> QED BY <1>1, <1>2, <1>3, <1>4, <1>5, <1>6, <1>7

\* A worker that dies has nothing any more; what it had is not promised then.
LEMMA AbortKeepsInv ==
  ASSUME RedisInv, NEW w \in Workers, Abort(w)
  PROVE  RedisInv'
<1> DEFINE s == <<>>
<1>0. BaseInv
  BY DEF RedisInv
<1>1. s \in Seq(Command) /\ DOMAIN s = {} /\ WellFormed(w, s) /\ Documented(s)
  BY NoCommands
<1>2. todo' = [todo EXCEPT ![w] = s]
  BY DEF Abort, Send
<1> HIDE DEF s
<1>3. Idle \in Loop /\ Idle.kind = "idle"
  BY DEF Loop, Idle
<1>4. calls.abort < MaxAborts /\ calls' = [calls EXCEPT !.abort = @ + 1]
  BY DEF Abort
<1>5. calls' \in [extend : 0 .. MaxExtends, abort : 0 .. MaxAborts] /\ calls'.abort # 0
  <2>1. calls \in [extend : 0 .. MaxExtends, abort : 0 .. MaxAborts] /\ MaxAborts \in Nat
    BY <1>0, WorkerTypes, RedisAssumption
  <2> QED BY <1>4, <2>1
<1>6. GoesOn(w, Idle, {}, {})
  BY <1>0, <1>3, <1>5, WorkerTypes DEF GoesOn, Abort, serverVars
<1>7. Sends(w, s, Idle, {})
  BY <1>1, <1>2, <1>3 DEF Sends
<1>8. BaseInv' /\ Turn(w) /\ todo'[w] = s /\ loop'[w] = Idle /\ held'[w] = {}
  BY <1>0, <1>6, <1>7, TurnKeepsBase
<1>9. \A j : ~ Returned(w, j)' /\ ~ LeaseUnderWay(w, j)' /\ ~ Pushes(w, j)' /\ ~ Has(w, j)'
  BY <1>1, <1>3, <1>8 DEF Returned, LeaseUnderWay, Pushes, Has, Holds, Writes
<1>10. LetGo(w)'
  BY <1>1, <1>8, <1>9 DEF LetGo
<1>11. w \in Clients /\ w # App
  BY RedisAssumption DEF Clients
<1>12. SoundTurn(w)
  BY <1>1, <1>5, <1>8, <1>9, <1>10, <1>11 DEF SoundTurn, Abort
<1> QED BY <1>8, <1>11, <1>12, TurnKeepsInv

----------------------------------------------------------------------------
(* Commands that the server executes                                        *)

\* The fields of a command.
LEMMA CommandCases ==
  ASSUME NEW command \in Command
  PROVE  /\ command.id \in JobIds
         /\ \/ command.op = "HSET" /\ command.row \in Document
            \/ command.op \in {"LREM", "RPUSH", "LPUSH"} /\ command.key \in ListKeys
            \/ command.op = "INCR"
  BY DEF Command

\* What a list holds after a command on it.
LEMMA AppliedType ==
  ASSUME NEW list \in Seq(JobIds), NEW command \in Command, command.op \in {"LREM", "RPUSH", "LPUSH"}
  PROVE  Applied(list, command) \in Seq(JobIds)
<1>1. command.id \in JobIds
  BY CommandCases
<1>2. CASE command.op = "LREM"
  BY <1>2, RemoveFirstKeeps DEF Applied
<1>3. CASE command.op = "RPUSH"
  BY <1>1, <1>3 DEF Applied
<1>4. CASE command.op = "LPUSH"
  BY <1>1, <1>4 DEF Applied
<1> QED BY <1>2, <1>3, <1>4

\* A command in the middle of the others.
LEMMA Executing ==
  ASSUME BaseInv, NEW c \in Clients, Execute(c)
  PROVE  /\ todo[c] \in Seq(Command) /\ todo[c] # <<>> /\ WellFormed(c, todo[c])
         /\ Head(todo[c]) \in Command /\ Head(todo[c]) = todo[c][1] /\ 1 \in DOMAIN todo[c]
         /\ todo'[c] = Tail(todo[c]) /\ todo' \in [Clients -> Seq(Command)]
         /\ \A d \in Clients \ {c} : todo'[d] = todo[d]
         /\ c \in Workers => ~ (loop[c].kind = "lease" /\ loop[c].id # None)
         /\ UNCHANGED <<now, idempotency, loop, held, started, reaped, calls>>
         /\ Head(todo[c]).op = "HSET" =>
              jobs' = [jobs EXCEPT ![Head(todo[c]).id] = Head(todo[c]).row] /\ lists' = lists /\ attempts' = attempts
         /\ Head(todo[c]).op \in {"LREM", "RPUSH", "LPUSH"} =>
              /\ jobs' = jobs /\ attempts' = attempts
              /\ lists' = [lists EXCEPT ![Head(todo[c]).key] = Applied(@, Head(todo[c]))]
         /\ Head(todo[c]).op = "INCR" =>
              /\ jobs' = jobs /\ lists' = lists
              /\ attempts' = [attempts EXCEPT ![Head(todo[c]).id] = IF @ < MaxAttempts THEN @ + 1 ELSE @]
<1>1. /\ todo \in [Clients -> Seq(Command)] /\ todo[c] \in Seq(Command) /\ todo[c] # <<>> /\ WellFormed(c, todo[c])
  BY DEF Execute, BaseInv, RedisTypeOK, CommandsInOrder
<1>2. Head(todo[c]) \in Command /\ Head(todo[c]) = todo[c][1] /\ 1 \in DOMAIN todo[c] /\ Tail(todo[c]) \in Seq(Command)
  BY <1>1, TailOf, HeadTailProperties
<1>3. todo' = [todo EXCEPT ![c] = Tail(@)] /\ UNCHANGED <<now, idempotency, loop, held, started, reaped, calls>>
  BY DEF Execute
<1>4. c \in Workers => ~ (loop[c].kind = "lease" /\ loop[c].id # None)
  BY <1>1 DEF BaseInv, OneThingAtATime, OneThing
<1>5. /\ Head(todo[c]).op = "HSET" =>
           jobs' = [jobs EXCEPT ![Head(todo[c]).id] = Head(todo[c]).row] /\ lists' = lists /\ attempts' = attempts
      /\ Head(todo[c]).op \in {"LREM", "RPUSH", "LPUSH"} =>
           /\ jobs' = jobs /\ attempts' = attempts
           /\ lists' = [lists EXCEPT ![Head(todo[c]).key] = Applied(@, Head(todo[c]))]
      /\ Head(todo[c]).op = "INCR" =>
           /\ jobs' = jobs /\ lists' = lists
           /\ attempts' = [attempts EXCEPT ![Head(todo[c]).id] = IF @ < MaxAttempts THEN @ + 1 ELSE @]
  BY DEF Execute
<1> QED BY <1>1, <1>2, <1>3, <1>4, <1>5

\* The types and the order survive a command.
LEMMA ExecuteKeepsBase ==
  ASSUME BaseInv, NEW c \in Clients, Execute(c)
  PROVE  BaseInv'
<1> DEFINE command == Head(todo[c])
<1>1. /\ todo[c] \in Seq(Command) /\ todo[c] # <<>> /\ WellFormed(c, todo[c])
      /\ todo'[c] = Tail(todo[c]) /\ todo' \in [Clients -> Seq(Command)]
      /\ \A d \in Clients \ {c} : todo'[d] = todo[d]
      /\ UNCHANGED <<now, idempotency, loop, held, started, reaped, calls>>
      /\ command \in Command
  BY Executing
<1>2. RedisTypeOK'
  <2>1. RedisTypeOK
    BY DEF BaseInv
  <2>2. /\ jobs' \in [JobIds -> Document \cup {None}]
        /\ lists' \in [ListKeys -> Seq(JobIds)]
        /\ attempts' \in [JobIds -> 0 .. MaxAttempts]
    <3> HIDE DEF command
    <3>1. CASE command.op = "HSET" /\ command.row \in Document
      <4>1. jobs' = [jobs EXCEPT ![command.id] = command.row] /\ lists' = lists /\ attempts' = attempts
        BY <3>1, Executing DEF command
      <4> QED BY <2>1, <3>1, <4>1 DEF RedisTypeOK
    <3>2. CASE command.op \in {"LREM", "RPUSH", "LPUSH"} /\ command.key \in ListKeys
      <4>1. jobs' = jobs /\ attempts' = attempts /\ lists' = [lists EXCEPT ![command.key] = Applied(lists[command.key], command)]
        BY <3>2, Executing DEF command
      <4>2. Applied(lists[command.key], command) \in Seq(JobIds)
        BY <1>1, <2>1, <3>2, AppliedType DEF RedisTypeOK
      <4> QED BY <2>1, <4>1, <4>2 DEF RedisTypeOK
    <3>3. CASE command.op = "INCR"
      <4>1. /\ jobs' = jobs /\ lists' = lists
            /\ attempts' = [attempts EXCEPT ![command.id] = IF @ < MaxAttempts THEN @ + 1 ELSE @]
        BY <3>3, Executing DEF command
      <4>2. MaxAttempts \in Nat /\ attempts \in [JobIds -> 0 .. MaxAttempts]
        BY <2>1, RedisAssumption DEF RedisTypeOK
      <4> DEFINE n == IF attempts[command.id] < MaxAttempts THEN attempts[command.id] + 1 ELSE attempts[command.id]
      <4>3. n \in 0 .. MaxAttempts
        <5>1. attempts[command.id] \in 0 .. MaxAttempts
          BY <1>1, <4>2, CommandCases
        <5> QED BY <4>2, <5>1
      <4>4. attempts' \in [JobIds -> 0 .. MaxAttempts]
        <5>1. attempts' = [attempts EXCEPT ![command.id] = n]
          BY <4>1
        <5> HIDE DEF n
        <5> QED BY <4>2, <4>3, <5>1
      <4> QED BY <2>1, <4>1, <4>4 DEF RedisTypeOK
    <3> QED BY <1>1, <3>1, <3>2, <3>3, CommandCases
  <2> QED BY <1>1, <2>1, <2>2 DEF RedisTypeOK
<1>3. CommandsInOrder'
  BY <1>1, TailWellFormed DEF CommandsInOrder, BaseInv
<1>4. ASSUME NEW w \in Workers
      PROVE  OneThing(w)'
  <2>1. w \in Clients /\ loop' = loop /\ held' = held /\ started' = started
    BY <1>1 DEF Clients
  <2>2. CASE w = c
    <3>1. \A i \in DOMAIN Tail(todo[c]) : i + 1 \in DOMAIN todo[c] /\ Tail(todo[c])[i] = todo[c][i + 1]
      BY <1>1, TailOf
    <3>2. OneThing(c)
      BY <2>2 DEF BaseInv, OneThingAtATime
    <3>3. loop[c].kind = "lease" => loop[c].id = None
      BY <2>2, Executing
    <3>4. \A i \in DOMAIN todo'[c] : todo'[c][i].op = "HSET" /\ todo'[c][i].row.status = "running" => Returned(c, todo'[c][i].id)
      BY <1>1, <3>1, <3>2 DEF OneThing
    <3> QED BY <2>1, <2>2, <3>2, <3>3, <3>4 DEF OneThing, Returned
  <2>3. CASE w # c
    BY <1>1, <2>1, <2>3, OthersGoOn
  <2> QED BY <2>2, <2>3
<1> QED BY <1>1, <1>2, <1>3, <1>4 DEF BaseInv, OneThingAtATime

\* A command takes nothing to a client: what it pushes or writes is what is left.
LEMMA Shrinks ==
  ASSUME BaseInv, NEW c \in Clients, Execute(c), NEW d \in Clients
  PROVE  /\ \A j : Pushes(d, j)' => Pushes(d, j)
         /\ \A j : Pushes(d, j) => Pushes(d, j)' \/ (d = c /\ Head(todo[c]).op \in Pushing /\ Head(todo[c]).id = j)
         /\ \A j : Writes(d, j)' => Writes(d, j)
         /\ \A j : Writes(d, j) => Writes(d, j)' \/ (d = c /\ Head(todo[c]).op = "HSET" /\ Head(todo[c]).id = j)
         /\ d \in Workers => \A j : Returned(d, j)' = Returned(d, j) /\ LeaseUnderWay(d, j)' = LeaseUnderWay(d, j)
         /\ \A j : Has(d, j)' => Has(d, j)
<1>1. /\ todo[c] \in Seq(Command) /\ todo[c] # <<>> /\ todo'[c] = Tail(todo[c])
      /\ \A e \in Clients \ {c} : todo'[e] = todo[e]
      /\ UNCHANGED <<loop, held>>
  BY Executing
<1> DEFINE s == todo[c]
           t == todo'[c]
<1>2. /\ \A i \in DOMAIN t : i + 1 \in DOMAIN s /\ t[i] = s[i + 1]
      /\ \A i \in DOMAIN s : i \in Nat /\ (i # 1 => i - 1 \in DOMAIN t /\ t[i - 1] = s[i])
      /\ Head(s) = s[1]
  BY <1>1, TailOf
<1>3. d = c \/ todo'[d] = todo[d]
  BY <1>1
<1> HIDE DEF s, t
<1>4. \A j : /\ Pushes(c, j) <=> \E i \in DOMAIN s : s[i].op \in Pushing /\ s[i].id = j
             /\ Writes(c, j) <=> \E i \in DOMAIN s : s[i].op = "HSET" /\ s[i].id = j
             /\ Pushes(c, j)' <=> \E i \in DOMAIN t : t[i].op \in Pushing /\ t[i].id = j
             /\ Writes(c, j)' <=> \E i \in DOMAIN t : t[i].op = "HSET" /\ t[i].id = j
  BY DEF Pushes, Writes, s, t
<1>5. ASSUME NEW j
      PROVE  /\ Pushes(c, j)' => Pushes(c, j)
             /\ Pushes(c, j) => Pushes(c, j)' \/ (Head(s).op \in Pushing /\ Head(s).id = j)
             /\ Writes(c, j)' => Writes(c, j)
             /\ Writes(c, j) => Writes(c, j)' \/ (Head(s).op = "HSET" /\ Head(s).id = j)
  BY <1>2, <1>4
<1>6. \A j : todo'[d] = todo[d] => Pushes(d, j)' = Pushes(d, j) /\ Writes(d, j)' = Writes(d, j)
  BY DEF Pushes, Writes
<1>7. \A j : /\ Pushes(d, j)' => Pushes(d, j)
             /\ Pushes(d, j) => Pushes(d, j)' \/ (d = c /\ Head(todo[c]).op \in Pushing /\ Head(todo[c]).id = j)
             /\ Writes(d, j)' => Writes(d, j)
             /\ Writes(d, j) => Writes(d, j)' \/ (d = c /\ Head(todo[c]).op = "HSET" /\ Head(todo[c]).id = j)
  BY <1>3, <1>5, <1>6 DEF s
<1>8. d \in Workers => \A j : Returned(d, j)' = Returned(d, j) /\ LeaseUnderWay(d, j)' = LeaseUnderWay(d, j)
  BY <1>1 DEF Returned, LeaseUnderWay
<1>9. \A j : Has(d, j)' => Has(d, j)
  BY <1>7, <1>8 DEF Has, Holds
<1> QED BY <1>7, <1>8, <1>9

\* Where ids are after a command.
LEMMA ListsAfter ==
  ASSUME RedisInv, NEW c \in Clients, Execute(c)
  PROVE  /\ \A j : Queued(j) => Queued(j)'
         /\ \A j : Queued(j)' => Queued(j) \/ (Head(todo[c]).op \in Pushing /\ Head(todo[c]).id = j)
         /\ \A j : Head(todo[c]).op \in Pushing /\ Head(todo[c]).id = j => Queued(j)'
         /\ \A q \in Queues, w \in Workers : \A j : Contains(lists[ProcessingKey(q, w)], j) =>
              \/ Contains(lists'[ProcessingKey(q, w)], j)
              \/ Head(todo[c]).op = "LREM" /\ Head(todo[c]).key = ProcessingKey(q, w) /\ Head(todo[c]).id = j
         /\ Head(todo[c]).op \notin Pushing => \A q \in Queues : lists'[QueueKey(q)] = lists[QueueKey(q)]
         /\ Head(todo[c]).op \in Pushing => \E q \in Queues :
              /\ \A r \in Queues : r # q => lists'[QueueKey(r)] = lists[QueueKey(r)]
              /\ \A j : Contains(lists'[QueueKey(q)], j) <=> Contains(lists[QueueKey(q)], j) \/ j = Head(todo[c]).id
              /\ IsInjective(lists[QueueKey(q)]) /\ ~ Contains(lists[QueueKey(q)], Head(todo[c]).id) =>
                   IsInjective(lists'[QueueKey(q)])
<1> DEFINE command == Head(todo[c])
<1>1. lists \in [ListKeys -> Seq(JobIds)] /\ BaseInv
  BY DEF RedisInv, BaseInv, RedisTypeOK
<1>2. command \in Command /\ CommandInPlace(c, todo[c], 1) /\ command = todo[c][1]
  BY <1>1, Executing DEF WellFormed
<1>3. command.id \in JobIds
  BY <1>2, CommandCases
<1>4. CASE command.op \in {"HSET", "INCR"}
  <2>1. lists' = lists
    BY <1>1, <1>4, Executing
  <2> QED BY <1>4, <2>1 DEF Queued, Pushing
<1>5. CASE command.op = "LREM"
  <2>1. command.key \in ProcessingKeys /\ command.key \in ListKeys
    BY <1>2, <1>5, KeysAreApart DEF CommandInPlace
  <2>2. lists' = [lists EXCEPT ![command.key] = RemoveFirst(lists[command.key], command.id)]
    BY <1>1, <1>5, Executing DEF Applied
  <2>3. \A q \in Queues : lists'[QueueKey(q)] = lists[QueueKey(q)]
    BY <1>1, <2>1, <2>2, KeysAreApart
  <2>4. \A x : x # command.id /\ Contains(lists[command.key], x) => Contains(RemoveFirst(lists[command.key], command.id), x)
    BY <1>1, <2>1, RemoveFirstKeeps
  <2>5. ASSUME NEW k \in ProcessingKeys, NEW j, Contains(lists[k], j)
        PROVE  Contains(lists'[k], j) \/ (command.key = k /\ command.id = j)
    <3>1. k \in ListKeys
      BY KeysAreApart
    <3>2. CASE k = command.key
      BY <1>1, <2>1, <2>2, <2>4, <2>5, <3>2
    <3>3. CASE k # command.key
      BY <1>1, <2>2, <2>5, <3>1, <3>3
    <3> QED BY <3>2, <3>3
  <2> HIDE DEF command
  <2> QED BY <1>5, <2>3, <2>5, KeysAreApart DEF Queued, Pushing, command
<1>6. CASE command.op \in Pushing
  <2>1. PICK q \in Queues : command.key = QueueKey(q)
    BY <1>2, <1>6 DEF CommandInPlace
  <2> DEFINE list == lists[QueueKey(q)]
             new == Applied(list, command)
  <2>2. list \in Seq(JobIds) /\ QueueKey(q) \in ListKeys
    BY <1>1, KeysAreApart
  <2>3. new = Append(list, command.id) \/ new = <<command.id>> \o list
    BY <1>6 DEF Applied, Pushing
  <2>4. lists' = [lists EXCEPT ![QueueKey(q)] = new]
    BY <1>1, <1>6, <2>1, Executing DEF Pushing
  <2> HIDE DEF new, command
  <2>5. /\ \A x : Contains(new, x) <=> Contains(list, x) \/ x = command.id
        /\ IsInjective(list) /\ ~ Contains(list, command.id) => IsInjective(new)
    BY <1>3, <2>2, <2>3, PushAdds
  <2>6. lists'[QueueKey(q)] = new /\ \A k \in ListKeys : k # QueueKey(q) => lists'[k] = lists[k]
    BY <1>1, <2>2, <2>4
  <2>7. \A r \in Queues : r # q => lists'[QueueKey(r)] = lists[QueueKey(r)]
    BY <2>6, KeysAreApart DEF QueueKey
  <2>8. \A r \in Queues, w \in Workers : lists'[ProcessingKey(r, w)] = lists[ProcessingKey(r, w)]
    BY <2>6, KeysAreApart
  <2>9. /\ \A j : Queued(j) => Queued(j)'
        /\ \A j : Queued(j)' => Queued(j) \/ command.id = j
        /\ \A j : command.id = j => Queued(j)'
    <3>1. ASSUME NEW r \in Queues, NEW j
          PROVE  Contains(lists'[QueueKey(r)], j) <=> Contains(lists[QueueKey(r)], j) \/ (r = q /\ j = command.id)
      BY <2>5, <2>6, <2>7
    <3>2. ASSUME NEW j, Queued(j) PROVE Queued(j)'
      BY <3>1, <3>2 DEF Queued
    <3>3. ASSUME NEW j, Queued(j)' PROVE Queued(j) \/ command.id = j
      BY <3>1, <3>3 DEF Queued
    <3>4. ASSUME NEW j, command.id = j PROVE Queued(j)'
      BY <3>1, <3>4 DEF Queued
    <3> QED BY <3>2, <3>3, <3>4
  <2> QED BY <1>6, <2>5, <2>6, <2>7, <2>8, <2>9 DEF command
<1>7. command.op \in {"HSET", "INCR"} \/ command.op = "LREM" \/ command.op \in Pushing
  BY <1>2, CommandCases DEF Pushing
<1> QED BY <1>4, <1>5, <1>6, <1>7

\* Documents after a command.
LEMMA JobsAfter ==
  ASSUME RedisInv, NEW c \in Clients, Execute(c), NEW j \in JobIds
  PROVE  \/ Head(todo[c]).op = "HSET" /\ Head(todo[c]).id = j /\ jobs'[j] = Head(todo[c]).row /\ jobs'[j] \in Document /\ jobs'[j] # None
         \/ ~ (Head(todo[c]).op = "HSET" /\ Head(todo[c]).id = j) /\ jobs'[j] = jobs[j]
<1> DEFINE command == Head(todo[c])
<1>1. jobs \in [JobIds -> Document \cup {None}] /\ BaseInv
  BY DEF RedisInv, BaseInv, RedisTypeOK
<1>2. command \in Command
  BY <1>1, Executing
<1>3. CASE command.op = "HSET"
  <2>1. jobs' = [jobs EXCEPT ![command.id] = command.row]
    BY <1>1, <1>3, Executing
  <2>2. command.row \in Document
    BY <1>2, <1>3, CommandCases
  <2> QED BY <1>1, <1>3, <2>1, <2>2, AbsentAssumption
<1>4. CASE command.op # "HSET"
  <2>1. jobs' = jobs
    BY <1>1, <1>2, <1>4, Executing, CommandCases
  <2> QED BY <1>4, <2>1
<1> QED BY <1>3, <1>4

\* Work that is pushed after its document or its removal is pushed still.
LEMMA StillPushed ==
  ASSUME BaseInv, NEW c \in Clients, Execute(c), PushedAfter(todo[c], 1), NEW j, Head(todo[c]).id = j
  PROVE  Pushes(c, j)'
<1>1. PICK k \in DOMAIN todo[c] : 1 < k /\ todo[c][k].op \in Pushing /\ todo[c][k].id = todo[c][1].id
  BY DEF PushedAfter
<1>2. todo[c] \in Seq(Command) /\ todo[c] # <<>> /\ todo'[c] = Tail(todo[c]) /\ Head(todo[c]) = todo[c][1]
  BY Executing
<1>3. k - 1 \in DOMAIN Tail(todo[c]) /\ Tail(todo[c])[k - 1] = todo[c][k]
  BY <1>1, <1>2, TailOf
<1> QED BY <1>1, <1>2, <1>3 DEF Pushes

\* What has no document stays nowhere.
LEMMA ExecuteKeepsUndocumented ==
  ASSUME RedisInv, NEW c \in Clients, Execute(c)
  PROVE  Undocumented'
<1> DEFINE s == todo[c]
           t == todo'[c]
<1>1. /\ BaseInv /\ Undocumented
      /\ s \in Seq(Command) /\ s # <<>> /\ t = Tail(s) /\ Head(s) = s[1] /\ 1 \in DOMAIN s
      /\ \A d \in Clients \ {c} : todo'[d] = todo[d]
      /\ todo \in [Clients -> Seq(Command)]
  BY Executing DEF RedisInv, BaseInv, RedisTypeOK
<1>2. /\ \A i \in DOMAIN t : i \in Nat \ {0} /\ i + 1 \in DOMAIN s /\ t[i] = s[i + 1]
      /\ \A i \in DOMAIN s : i \in Nat /\ (i # 1 => i - 1 \in DOMAIN t /\ t[i - 1] = s[i])
      /\ DOMAIN s \subseteq Nat \ {0}
  BY <1>1, TailOf
<1>3. \A j \in JobIds : jobs[j] # None => jobs'[j] # None
  BY JobsAfter
<1>4. ASSUME NEW j \in JobIds, jobs'[j] = None
      PROVE  ~ Queued(j)' /\ \A w \in Workers : ~ Returned(w, j)' /\ ~ LeaseUnderWay(w, j)'
  <2>1. jobs[j] = None
    BY <1>3, <1>4
  <2>2. ~ Queued(j) /\ \A w \in Workers : ~ Returned(w, j) /\ ~ LeaseUnderWay(w, j)
    BY <1>1, <2>1 DEF Undocumented
  <2>3. ~ (Head(s).op \in Pushing /\ Head(s).id = j)
    <3> SUFFICES ASSUME Head(s).op \in Pushing, Head(s).id = j
                 PROVE  FALSE
      OBVIOUS
    <3>1. Documented(s) /\ s[1].op \in Pushing /\ s[1].id = j /\ 1 \in DOMAIN s
      BY <1>1 DEF Undocumented
    <3> HIDE DEF s
    <3>2. \E k \in DOMAIN s : k < 1
      BY <2>1, <3>1 DEF Documented
    <3> QED BY <1>2, <3>2
  <2>4. ~ Queued(j)'
    BY <2>2, <2>3, ListsAfter
  <2>5. \A w \in Workers : ~ Returned(w, j)' /\ ~ LeaseUnderWay(w, j)'
    BY <1>1, <2>2, Shrinks DEF Clients
  <2> QED BY <2>4, <2>5
<1>5. ASSUME NEW d \in Clients
      PROVE  Documented(todo[d])'
  <2>1. \A i \in DOMAIN todo[d] : todo[d][i].id \in JobIds
    <3>1. todo[d] \in Seq(Command)
      BY <1>1
    <3>2. \A i \in DOMAIN todo[d] : todo[d][i] \in Command
      BY <3>1, ElementOfSeq, LenProperties
    <3> QED BY <3>2, CommandCases
  <2>2. CASE d # c
    <3>1. todo'[d] = todo[d]
      BY <1>1, <2>2
    <3> QED BY <1>1, <1>3, <2>1, <3>1 DEF Undocumented, Documented
  <2>3. CASE d = c
    <3> SUFFICES ASSUME NEW i \in DOMAIN t, t[i].op \in Pushing
                 PROVE  jobs'[t[i].id] # None \/ \E k \in DOMAIN t : k < i /\ t[k].op = "HSET" /\ t[k].id = t[i].id
      BY <2>3 DEF Documented
    <3>1. i + 1 \in DOMAIN s /\ t[i] = s[i + 1] /\ t[i].id \in JobIds
      BY <1>2, <2>1, <2>3
    <3>2. jobs[t[i].id] # None \/ \E k \in DOMAIN s : k < i + 1 /\ s[k].op = "HSET" /\ s[k].id = t[i].id
      BY <1>1, <3>1 DEF Undocumented, Documented
    <3>3. CASE jobs[t[i].id] # None
      BY <1>3, <3>1, <3>3
    <3>4. CASE \E k \in DOMAIN s : k < i + 1 /\ s[k].op = "HSET" /\ s[k].id = t[i].id
      <4>1. PICK k \in DOMAIN s : k < i + 1 /\ s[k].op = "HSET" /\ s[k].id = t[i].id
        BY <3>4
      <4>2. CASE k = 1
        <5>1. Head(s).op = "HSET" /\ Head(s).id = t[i].id
          BY <1>1, <4>1, <4>2
        <5> HIDE DEF s, t
        <5>2. jobs'[t[i].id] # None
          BY <3>1, <5>1, JobsAfter DEF s
        <5> QED BY <5>2
      <4>3. CASE k # 1
        <5>1. k - 1 \in DOMAIN t /\ t[k - 1] = s[k] /\ k - 1 < i
          BY <1>2, <4>1, <4>3
        <5> QED BY <4>1, <5>1
      <4> QED BY <4>2, <4>3
    <3> QED BY <3>2, <3>3, <3>4
  <2> QED BY <2>2, <2>3
<1> QED BY <1>4, <1>5 DEF Undocumented

\* No command loses work: a document of queued work is followed by its push, one of running
\* work is written by the worker that has it, and an id is removed by its holder or to be pushed.
LEMMA ExecuteKeepsWork ==
  ASSUME RedisInv, NEW c \in Clients, Execute(c)
  PROVE  NothingLost'
<1> DEFINE command == Head(todo[c])
<1>1. /\ BaseInv /\ CommandInPlace(c, todo[c], 1) /\ command = todo[c][1] /\ 1 \in DOMAIN todo[c]
      /\ UNCHANGED <<loop, held, calls>>
      /\ \A d \in Clients \ {c} : todo'[d] = todo[d]
  BY Executing DEF RedisInv, WellFormed
<1> SUFFICES ASSUME calls'.abort = 0, NEW j \in JobIds, Unfinished(j)'
             PROVE  Kept(j)'
  BY DEF NothingLost
<1>2. CASE command.op = "HSET" /\ command.id = j
  <2>1. jobs'[j] = command.row
    BY <1>2, JobsAfter
  <2>2. CASE command.row.status = "queued"
    <3>1. Pushes(c, j)'
      BY <1>1, <1>2, <2>2, StillPushed DEF CommandInPlace
    <3> QED BY <3>1 DEF Kept
  <2>3. CASE command.row.status = "running"
    <3>1. c \in Workers /\ command.row.locked_by = c
      BY <1>1, <1>2, <2>3 DEF CommandInPlace
    <3>2. Returned(c, j)
      BY <1>1, <1>2, <2>3, <3>1 DEF BaseInv, OneThingAtATime, OneThing
    <3>3. Leased(c, j)'
      BY <1>1, <2>1, <2>3, <3>1, <3>2 DEF Leased, Holds, Returned
    <3> QED BY <3>1, <3>3 DEF Kept
  <2> QED BY <2>1, <2>2, <2>3 DEF Unfinished
<1>3. CASE ~ (command.op = "HSET" /\ command.id = j)
  <2>1. jobs'[j] = jobs[j]
    BY <1>3, JobsAfter
  <2>2. Kept(j)
    BY <1>1, <2>1 DEF RedisInv, NothingLost, Unfinished
  <2>3. CASE Queued(j)
    BY <2>3, ListsAfter DEF Kept
  <2>4. CASE \E d \in Clients : Pushes(d, j)
    <3>1. PICK d \in Clients : Pushes(d, j)
      BY <2>4
    <3>2. Pushes(d, j)' \/ (command.op \in Pushing /\ command.id = j)
      BY <1>1, <3>1, Shrinks
    <3>3. Pushes(d, j)' \/ Queued(j)'
      BY <3>2, ListsAfter
    <3> QED BY <3>3 DEF Kept
  <2>5. CASE \E w \in Workers : Leased(w, j)
    <3>1. PICK w \in Workers : Leased(w, j)
      BY <2>5
    <3>2. w \in Clients
      BY DEF Clients
    <3>3. Holds(w, j)'
      BY <1>1, <1>3, <3>1, <3>2, Shrinks DEF Leased, Holds
    <3>4. Leased(w, j)'
      BY <2>1, <3>1, <3>3 DEF Leased
    <3> QED BY <3>4 DEF Kept
  <2>6. CASE \E w \in Workers : Moving(w, j)
    <3>1. PICK w \in Workers : Moving(w, j)
      BY <2>6
    <3>2. w \in Clients /\ w # c
      <4>1. w \in Clients
        BY DEF Clients
      <4>2. ASSUME w = c PROVE FALSE
        <5>1. ~ (loop[c].kind = "lease" /\ loop[c].id # None) /\ None \notin JobIds
          BY <1>1, <4>2, Executing, RedisAssumption
        <5> QED BY <1>3, <3>1, <4>2, <5>1 DEF Moving
      <4> QED BY <4>1, <4>2
    <3>3. loop[w].queue \in Queues
      <4>1. loop[w].kind = "lease" /\ loop[w] \in Loop
        BY <1>1, <3>1, <3>2 DEF Moving, BaseInv, RedisTypeOK
      <4> QED BY <4>1, LoopCases
    <3> DEFINE k == ProcessingKey(loop[w].queue, w)
    <3>4. CASE Contains(lists'[k], j)
      <4>1. Moving(w, j)'
        BY <1>1, <3>1, <3>2, <3>4 DEF Moving
      <4> QED BY <4>1 DEF Kept
    <3>5. CASE ~ Contains(lists'[k], j)
      <4>1. Contains(lists[k], j)
        BY <3>1 DEF Moving
      <4>2. command.op = "LREM" /\ command.key = k /\ command.id = j
        BY <3>3, <3>5, <4>1, ListsAfter
      <4>3. ~ \E q \in Queues : c \in Workers /\ command.key = ProcessingKey(q, c)
        BY <3>2, <4>2 DEF ProcessingKey
      <4>4. Pushes(c, j)'
        BY <1>1, <4>2, <4>3, StillPushed DEF CommandInPlace
      <4> QED BY <4>4 DEF Kept
    <3> QED BY <3>4, <3>5
  <2> QED BY <2>2, <2>3, <2>4, <2>5, <2>6 DEF Kept
<1> QED BY <1>2, <1>3

\* What a client pushes or finishes leaves its hands: nothing more of it is under way.
LEMMA LastOfJob ==
  ASSUME RedisInv, ~ reaped, NEW c \in Clients, Execute(c), NEW j, Head(todo[c]).id = j,
         \/ Head(todo[c]).op \in Pushing
         \/ Head(todo[c]).op = "HSET" /\ Head(todo[c]).row.status \in Over
  PROVE  ~ Has(c, j)'
<1> DEFINE s == todo[c]
           t == todo'[c]
<1>1. /\ BaseInv /\ s \in Seq(Command) /\ s # <<>> /\ WellFormed(c, s) /\ t = Tail(s)
      /\ Head(s) = s[1] /\ 1 \in DOMAIN s
      /\ c \in Workers => ~ (loop[c].kind = "lease" /\ loop[c].id # None)
      /\ UNCHANGED <<loop, held>>
  BY Executing DEF RedisInv
<1>2. \A i \in DOMAIN t : i \in Nat \ {0} /\ i + 1 \in DOMAIN s /\ t[i] = s[i + 1]
  BY <1>1, TailOf
<1>3. j \in JobIds
  BY <1>1, CommandCases, Executing
<1>4. c \in Workers => ~ Returned(c, j) /\ ~ LeaseUnderWay(c, j)
  <2> SUFFICES ASSUME c \in Workers PROVE ~ Returned(c, j) /\ ~ LeaseUnderWay(c, j)
    OBVIOUS
  <2>1. LetGo(c)
    BY DEF RedisInv, PlaceInv
  <2>2. ~ Returned(c, j)
    <3>1. CASE Head(s).op \in Pushing
      <4>1. Pushes(c, j)
        BY <1>1, <3>1 DEF Pushes
      <4> QED BY <1>3, <2>1, <4>1 DEF LetGo
    <3>2. CASE Head(s).op = "HSET" /\ Head(s).row.status \in Over
      BY <1>1, <2>1, <3>2 DEF LetGo
    <3> QED BY <3>1, <3>2
  <2>3. ~ LeaseUnderWay(c, j)
    BY <1>1, <1>3, RedisAssumption DEF LeaseUnderWay
  <2> QED BY <2>2, <2>3
<1>5. ASSUME NEW i \in DOMAIN t, t[i].id = j, t[i].op = "HSET" \/ t[i].op \in Pushing
      PROVE  FALSE
  <2>1. i + 1 \in DOMAIN s /\ 1 < i + 1 /\ t[i] = s[i + 1]
    BY <1>2
  <2>2. s[1].id = s[i + 1].id
    BY <1>1, <1>5, <2>1
  <2> HIDE DEF s, t
  <2>3. \/ s[1].op = "LREM" \/ s[i + 1].op = "LREM"
        \/ s[1].op = "HSET" /\ s[1].row.status = "queued" /\ s[i + 1].op \in Pushing
    BY <1>1, <2>1, <2>2 DEF WellFormed, WritesInOrder
  <2> QED BY <1>1, <1>5, <2>1, <2>3 DEF Pushing, Over, s
<1>6. ~ Pushes(c, j)' /\ ~ Writes(c, j)'
  BY <1>5 DEF Pushes, Writes
<1>7. c \in Workers => ~ Returned(c, j)' /\ ~ LeaseUnderWay(c, j)'
  BY <1>1, <1>4 DEF Returned, LeaseUnderWay
<1> QED BY <1>6, <1>7 DEF Has, Holds

\* The place of a job and its document stay in step.
LEMMA ExecuteKeepsPlaces ==
  ASSUME RedisInv, NEW c \in Clients, Execute(c)
  PROVE  PlaceInv'
<1> DEFINE command == Head(todo[c])
<1> SUFFICES ASSUME ~ reaped'
             PROVE  OnePlace' /\ PlacedIsOpen' /\ AppWrites' /\ \A w \in Workers : LetGo(w)'
  BY DEF PlaceInv
<1>1. /\ BaseInv /\ ~ reaped /\ command \in Command /\ command.id \in JobIds
      /\ command = todo[c][1] /\ 1 \in DOMAIN todo[c] /\ WellFormed(c, todo[c]) /\ CommandInPlace(c, todo[c], 1)
      /\ todo[c] \in Seq(Command) /\ todo[c] # <<>> /\ todo'[c] = Tail(todo[c])
      /\ \A d \in Clients \ {c} : todo'[d] = todo[d]
      /\ UNCHANGED <<loop, held>>
  BY Executing, CommandCases DEF RedisInv, WellFormed
<1>2. OnePlace /\ PlacedIsOpen /\ AppWrites /\ \A w \in Workers : LetGo(w)
  BY <1>1 DEF RedisInv, PlaceInv
<1>9. \A i \in DOMAIN todo'[c] : i \in Nat \ {0} /\ i + 1 \in DOMAIN todo[c] /\ todo'[c][i] = todo[c][i + 1]
  <2>1. todo[c] \in Seq(Command) /\ todo[c] # <<>> /\ todo'[c] = Tail(todo[c])
    BY <1>1
  <2> QED BY <2>1, TailOf
<1>3. \A d \in Clients : \A j : Has(d, j)' => Has(d, j)
  BY <1>1, Shrinks
<1>4. ASSUME NEW j, command.id = j, command.op \in Pushing
      PROVE  j \in JobIds /\ Has(c, j) /\ ~ Queued(j) /\ \A d \in Clients : ~ Has(d, j)'
  <2>1. Has(c, j) /\ j \in JobIds
    BY <1>1, <1>4 DEF Has, Pushes
  <2>2. ~ Queued(j) /\ \A d \in Clients \ {c} : ~ Has(d, j)
    BY <1>2, <2>1 DEF OnePlace
  <2>3. ~ Has(c, j)'
    BY <1>1, <1>4, LastOfJob
  <2> QED BY <1>3, <2>1, <2>2, <2>3
<1>5. OnePlace'
  <2>1. \A j \in JobIds : \A d \in Clients : Queued(j)' => ~ Has(d, j)'
    BY <1>2, <1>3, <1>4, ListsAfter DEF OnePlace
  <2>2. \A j \in JobIds : \A d, e \in Clients : Has(d, j)' /\ Has(e, j)' => d = e
    BY <1>2, <1>3 DEF OnePlace
  <2>3. /\ \A j \in JobIds : \A q, r \in Queues : Contains(lists'[QueueKey(q)], j) /\ Contains(lists'[QueueKey(r)], j) => q = r
        /\ \A q \in Queues : IsInjective(lists'[QueueKey(q)])
    <3>1. CASE command.op \notin Pushing
      <4>1. \A q \in Queues : lists'[QueueKey(q)] = lists[QueueKey(q)]
        BY <3>1, ListsAfter
      <4> QED BY <1>2, <4>1 DEF OnePlace
    <3>2. CASE command.op \in Pushing
      <4>1. PICK q \in Queues :
              /\ \A r \in Queues : r # q => lists'[QueueKey(r)] = lists[QueueKey(r)]
              /\ \A j : Contains(lists'[QueueKey(q)], j) <=> Contains(lists[QueueKey(q)], j) \/ j = command.id
              /\ IsInjective(lists[QueueKey(q)]) /\ ~ Contains(lists[QueueKey(q)], command.id) => IsInjective(lists'[QueueKey(q)])
        BY <3>2, ListsAfter
      <4>2. \A r \in Queues : ~ Contains(lists[QueueKey(r)], command.id)
        BY <1>4, <3>2 DEF Queued
      <4>3. \A r \in Queues : IsInjective(lists[QueueKey(r)])
        BY <1>2 DEF OnePlace
      <4>4. \A r \in Queues : IsInjective(lists'[QueueKey(r)])
        BY <4>1, <4>2, <4>3
      <4>5. \A j \in JobIds : \A r, p \in Queues : Contains(lists[QueueKey(r)], j) /\ Contains(lists[QueueKey(p)], j) => r = p
        BY <1>2 DEF OnePlace
      <4> HIDE DEF command
      <4>6. \A j \in JobIds : \A r, p \in Queues : Contains(lists'[QueueKey(r)], j) /\ Contains(lists'[QueueKey(p)], j) => r = p
        BY <4>1, <4>2, <4>5
      <4> QED BY <4>4, <4>6
    <3> QED BY <3>1, <3>2
  <2> QED BY <2>1, <2>2, <2>3 DEF OnePlace
<1>6. PlacedIsOpen'
  <2> SUFFICES ASSUME NEW j \in JobIds, jobs'[j] # None, Queued(j)' \/ \E d \in Clients : Has(d, j)'
               PROVE  jobs'[j].status \notin Over
    BY DEF PlacedIsOpen
  <2>1. Queued(j) \/ \E d \in Clients : Has(d, j)
    BY <1>3, <1>4, ListsAfter
  <2>2. CASE jobs'[j] = jobs[j]
    BY <1>2, <2>1, <2>2 DEF PlacedIsOpen
  <2>3. CASE command.op = "HSET" /\ command.id = j /\ jobs'[j] = command.row
    <3> SUFFICES ASSUME command.row.status \in Over PROVE FALSE
      BY <2>3
    <3>1. c # App
      BY <1>1, <1>2, <2>3 DEF AppWrites, Over
    <3>2. c \in Workers /\ Has(c, j)
      BY <1>1, <2>3, <3>1 DEF Clients, Has, Holds, Writes
    <3>3. ~ Queued(j) /\ \A d \in Clients \ {c} : ~ Has(d, j)
      BY <1>2, <3>2 DEF OnePlace
    <3>4. ~ Has(c, j)'
      BY <1>1, <2>3, LastOfJob
    <3>5. ~ Queued(j)'
      BY <2>3, <3>3, ListsAfter DEF Pushing
    <3> QED BY <1>3, <3>3, <3>4, <3>5
  <2> QED BY <2>2, <2>3, JobsAfter
<1>7. AppWrites'
  <2>1. App \in Clients /\ todo[App] \in Seq(Command) /\ WellFormed(App, todo[App])
    BY <1>1 DEF BaseInv, RedisTypeOK, CommandsInOrder, Clients
  <2> SUFFICES ASSUME NEW i \in DOMAIN todo'[App], todo'[App][i].op = "HSET", todo'[App][i].row.status # "canceled"
               PROVE  todo'[App][i].row.status = "queued" /\ jobs'[todo'[App][i].id] = None
    BY DEF AppWrites
  <2>2. PICK k \in DOMAIN todo[App] : todo[App][k] = todo'[App][i] /\ (c = App => k > 1)
    <3>1. CASE c = App
      <4>1. i \in Nat \ {0} /\ i + 1 \in DOMAIN todo[App] /\ todo'[App][i] = todo[App][i + 1]
        BY <1>9, <3>1
      <4> QED BY <4>1
    <3>2. CASE c # App
      BY <1>1, <2>1, <3>2
    <3> QED BY <3>1, <3>2
  <2> DEFINE j == todo[App][k].id
  <2>3. todo[App][k].row.status = "queued" /\ jobs[j] = None
    BY <1>2, <2>2 DEF AppWrites
  <2>4. j \in JobIds
    <3>1. todo[App][k] \in Command
      BY <2>1, <2>2, ElementOfSeq, LenProperties
    <3> QED BY <3>1, CommandCases
  <2>5. ~ (command.op = "HSET" /\ command.id = j)
    <3> SUFFICES ASSUME command.op = "HSET", command.id = j PROVE FALSE
      OBVIOUS
    <3>1. CASE c = App
      <4>1. todo[App][1].op = "HSET" /\ todo[App][1].id = todo[App][k].id /\ 1 \in DOMAIN todo[App] /\ 1 < k
        BY <1>1, <2>2, <3>1
      <4> HIDE DEF command, j
      <4>2. \/ todo[App][1].op = "LREM" \/ todo[App][k].op = "LREM" \/ todo[App][k].op \in Pushing
        BY <2>1, <4>1 DEF WellFormed, WritesInOrder
      <4> QED BY <2>2, <4>1, <4>2 DEF Pushing
    <3>2. CASE c # App
      <4>1. c \in Workers /\ Has(c, j)
        BY <1>1, <3>2 DEF Clients, Has, Holds, Writes
      <4>2. PushedAfter(todo[App], k)
        BY <2>1, <2>2, <2>3 DEF WellFormed, CommandInPlace
      <4>3. Has(App, j)
        BY <4>2 DEF PushedAfter, Has, Pushes
      <4> QED BY <1>2, <2>1, <2>4, <3>2, <4>1, <4>3 DEF OnePlace
    <3> QED BY <3>1, <3>2
  <2>6. jobs'[j] = None
    BY <2>3, <2>4, <2>5, JobsAfter
  <2> QED BY <2>2, <2>3, <2>6
<1>8. ASSUME NEW w \in Workers
      PROVE  LetGo(w)'
  <2>1. w \in Clients
    BY DEF Clients
  <2>2. \A j : /\ Pushes(w, j)' => Pushes(w, j)
               /\ Returned(w, j)' = Returned(w, j)
               /\ LeaseUnderWay(w, j)' = LeaseUnderWay(w, j)
    BY <1>1, <2>1, Shrinks
  <2>3. \A i \in DOMAIN todo'[w] : \E k \in DOMAIN todo[w] : todo[w][k] = todo'[w][i]
    <3>1. CASE w = c
      BY <1>9, <3>1
    <3>2. CASE w # c
      BY <1>1, <2>1, <3>2
    <3> QED BY <3>1, <3>2
  <2>4. LetGo(w)
    BY <1>2
  <2>5. \A j \in JobIds : Pushes(w, j)' \/ LeaseUnderWay(w, j)' => ~ Returned(w, j)'
    BY <2>2, <2>4 DEF LetGo
  <2>6. \A i \in DOMAIN todo'[w] : todo'[w][i].op = "HSET" /\ todo'[w][i].row.status \in Over => ~ Returned(w, todo'[w][i].id)
    BY <2>3, <2>4 DEF LetGo
  <2>7. \A j : Returned(w, j)' => Returned(w, j)
    BY <2>2
  <2> QED BY <1>1, <2>5, <2>6 DEF LetGo, Returned
<1> QED BY <1>5, <1>6, <1>7, <1>8

\* A command keeps the invariant.
LEMMA ExecuteKeepsInv ==
  ASSUME RedisInv, NEW c \in Clients, Execute(c)
  PROVE  RedisInv'
  BY ExecuteKeepsBase, ExecuteKeepsWork, ExecuteKeepsUndocumented, ExecuteKeepsPlaces DEF RedisInv

\* LMOVE takes an id from the head of a queue into the processing list of a worker.
LEMMA Moves ==
  ASSUME BaseInv, NEW w \in Workers, LeaseMove(w)
  PROVE  LET q == loop[w].queue
             j == Head(lists[QueueKey(q)])
         IN  /\ q \in Queues /\ j \in JobIds /\ w \in Clients
             /\ todo[w] = <<>> /\ loop[w].kind = "lease" /\ loop[w].id = None /\ held[w] = {}
             /\ UNCHANGED <<now, jobs, idempotency, attempts, todo, held, started, reaped, calls>>
             /\ loop'[w].kind = "lease" /\ loop'[w].id = j /\ loop'[w].queue = q /\ loop'[w].got = loop[w].got
             /\ \A d \in Clients \ {w} : loop'[d] = loop[d]
             /\ lists[QueueKey(q)] \in Seq(JobIds) /\ lists[QueueKey(q)] # <<>>
             /\ lists'[QueueKey(q)] = Tail(lists[QueueKey(q)])
             /\ \A r \in Queues : r # q => lists'[QueueKey(r)] = lists[QueueKey(r)]
             /\ Contains(lists'[ProcessingKey(q, w)], j)
             /\ \A r \in Queues, v \in Workers : v # w => lists'[ProcessingKey(r, v)] = lists[ProcessingKey(r, v)]
             /\ BaseInv'
<1> DEFINE q == loop[w].queue
           from == QueueKey(q)
           to == ProcessingKey(q, w)
           j == Head(lists[from])
           l == [loop[w] EXCEPT !.id = j]
<1>1. todo[w] = <<>> /\ loop[w].kind = "lease" /\ loop[w].id = None /\ loop[w].left > 0 /\ lists[from] # <<>>
  BY DEF LeaseMove, Leasing
<1>2. loop[w] \in [kind : {"lease"}, at : Instants, queue : Queues, left : Nat, id : JobIds \cup {None}, got : SUBSET JobIds]
  BY <1>1, WorkerTypes, LoopCases
<1>3. q \in Queues /\ from \in ListKeys /\ to \in ListKeys /\ from # to /\ held[w] = {} /\ started[w] = {} /\ w \in Clients
  BY <1>1, <1>2, KeysAreApart, HoldsNothing DEF Clients
<1>4. lists \in [ListKeys -> Seq(JobIds)] /\ loop \in [Clients -> Loop] /\ lists[from] \in Seq(JobIds) /\ lists[to] \in Seq(JobIds)
  BY <1>3 DEF BaseInv, RedisTypeOK
<1>5. j \in JobIds /\ Tail(lists[from]) \in Seq(JobIds)
  BY <1>1, <1>4, TailTakes
<1>6. Append(lists[to], j) \in Seq(JobIds) /\ Contains(Append(lists[to], j), j)
  <2> DEFINE s == lists[to]
             e == j
             t == Append(s, e)
  <2>1. s \in Seq(JobIds) /\ e \in JobIds /\ (t = Append(s, e) \/ t = <<e>> \o s)
    BY <1>4, <1>5
  <2> HIDE DEF s, e, t
  <2>2. t \in Seq(JobIds) /\ \A x : Contains(t, x) <=> Contains(s, x) \/ x = e
    BY <2>1, PushAdds
  <2>3. Contains(t, e)
    BY <2>2
  <2> QED BY <2>2, <2>3 DEF s, e, t
<1>7. l \in Loop /\ l.kind = "lease" /\ l.id = j /\ l.queue = q /\ l.got = loop[w].got /\ l.left = loop[w].left
  BY <1>2, <1>5 DEF Loop
<1>8. /\ loop' = [loop EXCEPT ![w] = l]
      /\ lists' = [lists EXCEPT ![from] = Tail(@), ![to] = Append(@, j)]
      /\ UNCHANGED <<now, jobs, idempotency, attempts, todo, held, started, reaped, calls>>
  BY <1>2, <1>4 DEF LeaseMove
<1> HIDE DEF l, j
<1>9. /\ lists'[from] = Tail(lists[from]) /\ lists'[to] = Append(lists[to], j)
      /\ \A k \in ListKeys : k # from /\ k # to => lists'[k] = lists[k]
      /\ lists' \in [ListKeys -> Seq(JobIds)]
  BY <1>3, <1>4, <1>5, <1>6, <1>8
<1>10. /\ \A r \in Queues : r # q => lists'[QueueKey(r)] = lists[QueueKey(r)]
       /\ \A r \in Queues, v \in Workers : v # w => lists'[ProcessingKey(r, v)] = lists[ProcessingKey(r, v)]
  <2>1. \A r \in Queues : QueueKey(r) \in ListKeys /\ (r # q => QueueKey(r) # from) /\ QueueKey(r) # to
    BY <1>3, KeysAreApart DEF QueueKey
  <2>2. \A r \in Queues, v \in Workers : ProcessingKey(r, v) \in ListKeys /\ (v # w => ProcessingKey(r, v) # to) /\ ProcessingKey(r, v) # from
    BY <1>3, KeysAreApart DEF ProcessingKey
  <2> HIDE DEF from, to
  <2> QED BY <1>9, <2>1, <2>2 DEF from, to
<1>11. loop'[w] = l /\ \A d \in Clients \ {w} : loop'[d] = loop[d]
  BY <1>3, <1>4, <1>8
<1>12. BaseInv'
  <2>1. RedisTypeOK'
    BY <1>3, <1>4, <1>7, <1>8, <1>9 DEF BaseInv, RedisTypeOK
  <2>2. CommandsInOrder'
    BY <1>8 DEF BaseInv, CommandsInOrder
  <2>3. OneThing(w)'
    BY <1>1, <1>3, <1>7, <1>8, <1>11, WorkerTypes DEF OneThing, Returned
  <2>4. \A v \in Workers \ {w} : OneThing(v)'
    BY <1>8, <1>11, OthersGoOn DEF Clients
  <2>5. App \in Clients \ {w}
    BY RedisAssumption DEF Clients
  <2> QED BY <1>11, <2>1, <2>2, <2>3, <2>4, <2>5 DEF BaseInv, OneThingAtATime
<1> QED BY <1>1, <1>3, <1>4, <1>5, <1>6, <1>7, <1>8, <1>9, <1>10, <1>11, <1>12 DEF j

\* The move keeps the invariant: the id is in the processing list of the worker, and was
\* in no other place before.
LEMMA MoveKeepsInv ==
  ASSUME RedisInv, NEW w \in Workers, LeaseMove(w)
  PROVE  RedisInv'
<1> DEFINE q == loop[w].queue
           j == Head(lists[QueueKey(q)])
<1>0. BaseInv /\ NothingLost /\ Undocumented /\ PlaceInv
  BY DEF RedisInv
<1>1. /\ q \in Queues /\ j \in JobIds /\ w \in Clients /\ BaseInv'
      /\ todo[w] = <<>> /\ loop[w].kind = "lease" /\ loop[w].id = None /\ held[w] = {}
      /\ UNCHANGED <<now, jobs, idempotency, attempts, todo, held, started, reaped, calls>>
      /\ loop'[w].kind = "lease" /\ loop'[w].id = j /\ loop'[w].queue = q /\ loop'[w].got = loop[w].got
      /\ \A d \in Clients \ {w} : loop'[d] = loop[d]
  BY <1>0, Moves
<1>2. /\ lists[QueueKey(q)] \in Seq(JobIds) /\ lists[QueueKey(q)] # <<>>
      /\ lists'[QueueKey(q)] = Tail(lists[QueueKey(q)])
      /\ \A r \in Queues : r # q => lists'[QueueKey(r)] = lists[QueueKey(r)]
      /\ Contains(lists'[ProcessingKey(q, w)], j)
      /\ \A r \in Queues, v \in Workers : v # w => lists'[ProcessingKey(r, v)] = lists[ProcessingKey(r, v)]
  BY <1>0, Moves
<1>3. /\ Contains(lists[QueueKey(q)], j)
      /\ \A x : Contains(lists'[QueueKey(q)], x) => Contains(lists[QueueKey(q)], x)
      /\ \A x : Contains(lists[QueueKey(q)], x) => Contains(lists'[QueueKey(q)], x) \/ x = j
      /\ IsInjective(lists[QueueKey(q)]) => IsInjective(lists'[QueueKey(q)]) /\ ~ Contains(lists'[QueueKey(q)], j)
  BY <1>2, TailTakes
<1> HIDE DEF q, j
<1>4. /\ Queued(j)
      /\ \A x : Queued(x)' => Queued(x)
      /\ \A x : Queued(x) => Queued(x)' \/ x = j
  <2>1. \A r \in Queues : \A x : Contains(lists'[QueueKey(r)], x) => Contains(lists[QueueKey(r)], x)
    BY <1>2, <1>3
  <2>2. \A r \in Queues : \A x : Contains(lists[QueueKey(r)], x) => Contains(lists'[QueueKey(r)], x) \/ x = j
    BY <1>2, <1>3
  <2>3. Queued(j)
    BY <1>1, <1>3 DEF Queued
  <2>4. ASSUME NEW x, Queued(x)' PROVE Queued(x)
    BY <2>1, <2>4 DEF Queued
  <2>5. ASSUME NEW x, Queued(x) PROVE Queued(x)' \/ x = j
    BY <2>2, <2>5 DEF Queued
  <2> QED BY <2>3, <2>4, <2>5
<1>5. /\ \A c \in Clients : \A x : Pushes(c, x)' = Pushes(c, x) /\ Writes(c, x)' = Writes(c, x)
      /\ \A x : ~ Pushes(w, x) /\ ~ Writes(w, x)
      /\ \A v \in Workers : \A x : Returned(v, x)' = Returned(v, x)
      /\ \A v \in Workers : v # w => \A x : LeaseUnderWay(v, x)' = LeaseUnderWay(v, x)
      /\ \A x : LeaseUnderWay(w, x)' <=> x = j
  <2>1. \A c \in Clients : \A x : Pushes(c, x)' = Pushes(c, x) /\ Writes(c, x)' = Writes(c, x)
    BY <1>1 DEF Pushes, Writes
  <2>2. \A x : ~ Pushes(w, x) /\ ~ Writes(w, x)
    BY <1>1 DEF Pushes, Writes
  <2>3. ASSUME NEW v \in Workers, v # w
        PROVE  loop'[v] = loop[v] /\ held'[v] = held[v]
    BY <1>1, <2>3 DEF Clients
  <2>4. \A v \in Workers : \A x : Returned(v, x)' = Returned(v, x)
    BY <1>1, <2>3 DEF Returned
  <2>5. \A v \in Workers : v # w => \A x : LeaseUnderWay(v, x)' = LeaseUnderWay(v, x)
    BY <2>3 DEF LeaseUnderWay
  <2>6. \A x : LeaseUnderWay(w, x)' <=> x = j
    BY <1>1 DEF LeaseUnderWay
  <2> QED BY <2>1, <2>2, <2>4, <2>5, <2>6
<1>6. \A x \in JobIds : ~ LeaseUnderWay(w, x)
  BY <1>1, RedisAssumption DEF LeaseUnderWay
<1>7. NothingLost'
  <2> SUFFICES ASSUME calls'.abort = 0, NEW i \in JobIds, Unfinished(i)'
               PROVE  Kept(i)'
    BY DEF NothingLost
  <2>1. Unfinished(i) /\ Kept(i) /\ jobs' = jobs
    BY <1>0, <1>1 DEF NothingLost, Unfinished
  <2>2. CASE i = j
    <3>1. Moving(w, i)'
      BY <1>1, <1>2, <2>2 DEF Moving
    <3> QED BY <3>1 DEF Kept
  <2>3. CASE i # j
    <3>1. Queued(i) => Queued(i)'
      BY <1>4, <2>3
    <3>2. \A c \in Clients : Pushes(c, i) => Pushes(c, i)'
      BY <1>5
    <3>3. ASSUME NEW v \in Workers, Leased(v, i)
          PROVE  Leased(v, i)'
      <4>1. v = w => ~ LeaseUnderWay(v, i)
        BY <1>6
      <4>2. v \in Clients
        BY DEF Clients
      <4>3. Holds(v, i)'
        BY <1>5, <3>3, <4>1, <4>2 DEF Leased, Holds
      <4> QED BY <2>1, <3>3, <4>3 DEF Leased
    <3>4. ASSUME NEW v \in Workers, Moving(v, i)
          PROVE  Moving(v, i)'
      <4>1. v # w
        BY <1>1, <1>6, <3>4 DEF Moving, LeaseUnderWay
      <4>2. loop'[v] = loop[v] /\ loop[v] \in Loop /\ todo' = todo
        BY <1>0, <1>1, <4>1, WorkerTypes DEF Clients
      <4>3. loop[v].queue \in Queues
        BY <3>4, <4>2, LoopCases DEF Moving
      <4>4. lists'[ProcessingKey(loop[v].queue, v)] = lists[ProcessingKey(loop[v].queue, v)]
        BY <1>2, <4>1, <4>3
      <4> QED BY <3>4, <4>2, <4>4 DEF Moving
    <3> QED BY <2>1, <3>1, <3>2, <3>3, <3>4 DEF Kept
  <2> QED BY <2>2, <2>3
<1>8. Undocumented'
  <2>1. ASSUME NEW i \in JobIds, jobs'[i] = None
        PROVE  ~ Queued(i)' /\ \A v \in Workers : ~ Returned(v, i)' /\ ~ LeaseUnderWay(v, i)'
    <3>1. ~ Queued(i) /\ \A v \in Workers : ~ Returned(v, i) /\ ~ LeaseUnderWay(v, i)
      BY <1>0, <1>1, <2>1 DEF Undocumented
    <3>2. i # j
      BY <1>4, <3>1
    <3> QED BY <1>4, <1>5, <3>1, <3>2
  <2>2. \A c \in Clients : Documented(todo[c])'
    BY <1>0, <1>1 DEF Undocumented, Documented
  <2> QED BY <2>1, <2>2 DEF Undocumented
<1>9. PlaceInv'
  <2> SUFFICES ASSUME ~ reaped'
               PROVE  OnePlace' /\ PlacedIsOpen' /\ AppWrites' /\ \A v \in Workers : LetGo(v)'
    BY DEF PlaceInv
  <2>1. OnePlace /\ PlacedIsOpen /\ AppWrites /\ (\A v \in Workers : LetGo(v)) /\ jobs' = jobs /\ todo' = todo
    BY <1>0, <1>1 DEF PlaceInv
  <2>2. \A c \in Clients : ~ Has(c, j)
    BY <1>1, <1>4, <2>1 DEF OnePlace
  <2>3. ASSUME NEW c \in Clients, NEW i \in JobIds, Has(c, i)'
        PROVE  Has(c, i) \/ (c = w /\ i = j)
    BY <1>5, <2>3 DEF Has, Holds
  <2>4. ASSUME NEW i, i = j PROVE ~ Queued(i)'
    <3>1. \A r \in Queues : r # q => ~ Contains(lists[QueueKey(r)], j)
      BY <1>1, <1>3, <2>1 DEF OnePlace
    <3>2. ~ Contains(lists'[QueueKey(q)], j)
      BY <1>1, <1>3, <2>1 DEF OnePlace
    <3> QED BY <1>2, <2>4, <3>1, <3>2 DEF Queued
  <2>5. OnePlace'
    <3>1. \A i \in JobIds : \A c \in Clients : Queued(i)' => ~ Has(c, i)'
      <4> SUFFICES ASSUME NEW i \in JobIds, NEW c \in Clients, Queued(i)', Has(c, i)'
                   PROVE  FALSE
        OBVIOUS
      <4>1. Queued(i) /\ i # j
        BY <1>4, <2>4
      <4>2. Has(c, i)
        BY <2>3, <4>1
      <4> QED BY <2>1, <4>1, <4>2 DEF OnePlace
    <3>2. \A i \in JobIds : \A c, d \in Clients : Has(c, i)' /\ Has(d, i)' => c = d
      BY <2>1, <2>2, <2>3 DEF OnePlace
    <3>3. \A r \in Queues : \A x : Contains(lists'[QueueKey(r)], x) => Contains(lists[QueueKey(r)], x)
      BY <1>2, <1>3
    <3>4. \A i \in JobIds : \A r, u \in Queues : Contains(lists[QueueKey(r)], i)' /\ Contains(lists[QueueKey(u)], i)' => r = u
      BY <2>1, <3>3 DEF OnePlace
    <3>5. \A r \in Queues : IsInjective(lists'[QueueKey(r)])
      BY <1>1, <1>2, <1>3, <2>1 DEF OnePlace
    <3> QED BY <3>1, <3>2, <3>4, <3>5 DEF OnePlace
  <2>6. PlacedIsOpen'
    BY <1>4, <2>1, <2>3 DEF PlacedIsOpen
  <2>7. AppWrites'
    BY <2>1 DEF AppWrites
  <2>8. ASSUME NEW v \in Workers
        PROVE  LetGo(v)'
    <3>1. v \in Clients /\ LetGo(v)
      BY <2>1 DEF Clients
    <3>2. ~ Returned(w, j)
      BY <1>1, <2>2 DEF Has, Holds
    <3>3. \A i \in JobIds : Pushes(v, i)' \/ LeaseUnderWay(v, i)' => ~ Returned(v, i)'
      BY <1>5, <3>1, <3>2 DEF LetGo
    <3>4. \A i : Returned(v, i)' = Returned(v, i)
      BY <1>5
    <3>5. \A i \in DOMAIN todo'[v] : todo'[v][i].op = "HSET" /\ todo'[v][i].row.status \in Over => ~ Returned(v, todo'[v][i].id)
      BY <2>1, <3>1 DEF LetGo
    <3> QED BY <2>1, <3>3, <3>4, <3>5 DEF LetGo
  <2> QED BY <2>5, <2>6, <2>7, <2>8
<1> QED BY <1>1, <1>7, <1>8, <1>9 DEF RedisInv

----------------------------------------------------------------------------
(* The inductive invariant                                                  *)

\* Time passes, and nothing else does.
LEMMA NothingHappens ==
  ASSUME RedisInv, RedisTypeOK', UNCHANGED <<jobs, lists, todo, loop, held, started, reaped, calls>>
  PROVE  RedisInv'
<1>0. BaseInv /\ NothingLost /\ Undocumented /\ PlaceInv
  BY DEF RedisInv
<1>1. BaseInv'
  <2>1. CommandsInOrder'
    BY <1>0 DEF BaseInv, CommandsInOrder
  <2>2. \A w \in Workers : OneThing(w)'
    BY <1>0, OthersGoOn
  <2> QED BY <1>0, <2>1, <2>2 DEF BaseInv, OneThingAtATime
<1>2. /\ \A c : \A j : Pushes(c, j)' = Pushes(c, j) /\ Writes(c, j)' = Writes(c, j)
      /\ \A w : \A j : Returned(w, j)' = Returned(w, j) /\ LeaseUnderWay(w, j)' = LeaseUnderWay(w, j)
      /\ \A j : Queued(j)' = Queued(j)
  BY DEF Pushes, Writes, Returned, LeaseUnderWay, Queued
<1>3. \A c : \A j : Holds(c, j)' = Holds(c, j) /\ Has(c, j)' = Has(c, j)
  BY <1>2 DEF Holds, Has
<1>4. \A w : \A j : Moving(w, j)' = Moving(w, j) /\ Leased(w, j)' = Leased(w, j)
  BY <1>3 DEF Moving, Leased
<1>5. NothingLost'
  <2>1. \A j : Kept(j)' = Kept(j) /\ Unfinished(j)' = Unfinished(j)
    BY <1>2, <1>4 DEF Kept, Unfinished
  <2> QED BY <1>0, <2>1 DEF NothingLost
<1>6. Undocumented'
  <2>1. \A c \in Clients : Documented(todo[c])'
    BY <1>0 DEF Undocumented, Documented
  <2> QED BY <1>0, <1>2, <2>1 DEF Undocumented
<1>7. PlaceInv'
  <2>1. OnePlace' = OnePlace
    BY <1>2, <1>3 DEF OnePlace
  <2>2. PlacedIsOpen' = PlacedIsOpen
    BY <1>2, <1>3 DEF PlacedIsOpen
  <2>3. AppWrites' = AppWrites
    BY DEF AppWrites
  <2>4. \A w : LetGo(w)' = LetGo(w)
    BY <1>2 DEF LetGo
  <2> QED BY <1>0, <2>1, <2>2, <2>3, <2>4 DEF PlaceInv
<1> QED BY <1>1, <1>5, <1>6, <1>7 DEF RedisInv

\* The clock ticks up to the horizon.
LEMMA TickKeepsInv ==
  ASSUME RedisInv, RedisTick
  PROVE  RedisInv'
<1>1. RedisTypeOK
  BY DEF RedisInv, BaseInv
<1>2. now' \in Instants
  <2>1. now \in 0 .. Horizon /\ Horizon \in Nat /\ now < Horizon /\ now' = now + 1
    BY <1>1, RedisAssumption DEF RedisTypeOK, Instants, RedisTick
  <2> QED BY <2>1 DEF Instants
<1>3. RedisTypeOK'
  BY <1>1, <1>2 DEF RedisTypeOK, RedisTick, serverVars
<1> QED BY <1>3, NothingHappens DEF RedisTick, serverVars

\* The invariant holds of the empty server.
LEMMA InitInv ==
  ASSUME RedisInit
  PROVE  RedisInv
<1> DEFINE empty == <<>>
<1>1. empty \in Seq(JobIds) /\ empty \in Seq(Command) /\ DOMAIN empty = {} /\ Len(empty) = 0
  OBVIOUS
<1>2. /\ \A k \in ListKeys : lists[k] = empty
      /\ \A c \in Clients : todo[c] = empty /\ loop[c] = Idle
      /\ \A w \in Workers : held[w] = {} /\ started[w] = {}
      /\ \A j \in JobIds : jobs[j] = None
      /\ lists = [k \in ListKeys |-> empty] /\ todo = [c \in Clients |-> empty]
  BY DEF RedisInit, Clients
<1> HIDE DEF empty
<1>3. Idle \in Loop /\ Idle.kind = "idle"
  BY DEF Idle, Loop
<1>4. RedisTypeOK
  <2>1. 0 \in Instants /\ 0 \in 0 .. MaxAttempts /\ [extend |-> 0, abort |-> 0] \in [extend : 0 .. MaxExtends, abort : 0 .. MaxAborts]
    BY RedisAssumption DEF Instants
  <2> QED BY <1>1, <1>2, <1>3, <2>1 DEF RedisTypeOK, RedisInit
<1>5. CommandsInOrder
  BY <1>1, <1>2 DEF CommandsInOrder, WellFormed, WritesInOrder
<1>6. OneThingAtATime
  BY <1>1, <1>2, <1>3 DEF OneThingAtATime, OneThing, Clients
<1>7. /\ \A j : ~ Queued(j)
      /\ \A c \in Clients : \A j : ~ Pushes(c, j) /\ ~ Writes(c, j)
      /\ \A w \in Workers : \A j : ~ Returned(w, j) /\ ~ LeaseUnderWay(w, j)
  <2>1. \A q \in Queues : lists[QueueKey(q)] = empty
    BY <1>2, KeysAreApart
  <2> QED BY <1>1, <1>2, <1>3, <2>1 DEF Queued, Contains, Pushes, Writes, Returned, LeaseUnderWay, Clients
<1>8. NothingLost
  BY <1>2 DEF NothingLost, Unfinished
<1>9. Undocumented
  BY <1>1, <1>2, <1>7 DEF Undocumented, Documented
<1>10. PlaceInv
  <2>1. \A c \in Clients : \A j : ~ Has(c, j)
    BY <1>7 DEF Has, Holds
  <2>2. \A q \in Queues : lists[QueueKey(q)] = empty
    BY <1>2, KeysAreApart
  <2>3. OnePlace
    BY <1>1, <1>7, <2>1, <2>2 DEF OnePlace, IsInjective, Contains
  <2>4. PlacedIsOpen
    BY <1>7, <2>1 DEF PlacedIsOpen
  <2>5. AppWrites
    BY <1>1, <1>2 DEF AppWrites, Clients
  <2>6. \A w \in Workers : LetGo(w)
    BY <1>1, <1>2, <1>7 DEF LetGo, Clients
  <2> QED BY <2>3, <2>4, <2>5, <2>6 DEF PlaceInv
<1> QED BY <1>4, <1>5, <1>6, <1>8, <1>9, <1>10 DEF RedisInv, BaseInv

\* Every step keeps the invariant.
LEMMA StepKeepsInv ==
  ASSUME RedisInv, [RedisNext]_redisVars
  PROVE  RedisInv'
<1>1. CASE RedisTick
  BY <1>1, TickKeepsInv
<1>2. CASE Apply
  BY <1>2, EnqueueKeepsInv, ReplayKeepsInv, CancelKeepsInv DEF Apply
<1>3. CASE \E c \in Clients : Execute(c)
  BY <1>3, ExecuteKeepsInv
<1>4. ASSUME NEW w \in Workers, TakeWork(w) \/ LeaseStep(w)
      PROVE  RedisInv'
  BY <1>4, LeaseBegins, MoveKeepsInv, LeaseReads, LeaseReturns DEF TakeWork, LeaseStep
<1>5. ASSUME NEW w \in Workers, reap_expired_locks(w) \/ ReapStep(w)
      PROVE  RedisInv'
  BY <1>5, ReapBegins, ReapLists, ReapReads, ReapReturns DEF ReapStep
<1>6. ASSUME NEW w \in Workers, (\E j \in JobIds : extend_lease(w, j)) \/ Finish(w) \/ Abort(w)
      PROVE  RedisInv'
  BY <1>6, ExtendKeepsInv, FinishKeepsInv, AbortKeepsInv
<1>7. CASE UNCHANGED redisVars
  <2>1. UNCHANGED <<now, jobs, lists, idempotency, attempts, todo, loop, held, started, reaped, calls>>
    BY <1>7 DEF redisVars, serverVars
  <2>2. RedisTypeOK'
    BY <2>1 DEF RedisInv, BaseInv, RedisTypeOK
  <2> QED BY <2>1, <2>2, NothingHappens
<1> QED BY <1>1, <1>2, <1>3, <1>4, <1>5, <1>6, <1>7 DEF RedisNext

\* InHand and the commands under way, in the terms of the invariant.
LEMMA InHandIsHolds ==
  ASSUME NEW c, NEW j
  PROVE  /\ j \in Pending(c, {"RPUSH", "LPUSH"}) <=> Pushes(c, j)
         /\ InHand(c, j) <=> Holds(c, j)
<1>1. j \in Pending(c, {"RPUSH", "LPUSH"}) <=> Pushes(c, j)
  BY DEF Pending, Pushes, Pushing
<1>2. j \in Pending(c, {"HSET"}) <=> Writes(c, j)
  BY DEF Pending, Writes
<1> QED BY <1>1, <1>2 DEF InHand, Holds, Returned, LeaseUnderWay

\* What the invariant says of lost work, of exclusive leases and of the types.
LEMMA InvGives ==
  ASSUME RedisInv
  PROVE  RedisTypeOK /\ NoJobLost /\ ExclusiveUntilReaped
<1>1. RedisTypeOK
  BY DEF RedisInv, BaseInv
<1>2. NoJobLost
  <2> SUFFICES ASSUME calls.abort = 0, NEW j \in JobIds, jobs[j] # None, jobs[j].status \in {"queued", "running"}
               PROVE  \/ \E k \in ListKeys : Contains(lists[k], j)
                      \/ \E c \in Clients : j \in Pending(c, {"RPUSH", "LPUSH"})
                      \/ \E w \in Workers : jobs[j].locked_by = w /\ InHand(w, j)
    BY DEF NoJobLost
  <2>1. Kept(j)
    BY DEF RedisInv, NothingLost, Unfinished
  <2>2. CASE Queued(j)
    BY <2>2, KeysAreApart DEF Queued
  <2>3. CASE \E c \in Clients : Pushes(c, j)
    BY <2>3, InHandIsHolds
  <2>4. ASSUME NEW w \in Workers, Moving(w, j)
        PROVE  \E k \in ListKeys : Contains(lists[k], j)
    <3>1. loop[w] \in Loop /\ loop[w].kind = "lease"
      BY <1>1, <2>4 DEF RedisTypeOK, Clients, Moving
    <3>2. loop[w].queue \in Queues
      BY <3>1, LoopCases
    <3> QED BY <2>4, <3>2, KeysAreApart DEF Moving
  <2>5. ASSUME NEW w \in Workers, Leased(w, j)
        PROVE  jobs[j].locked_by = w /\ InHand(w, j)
    BY <2>5, InHandIsHolds DEF Leased
  <2> QED BY <2>1, <2>2, <2>3, <2>4, <2>5 DEF Kept
<1>3. ExclusiveUntilReaped
  <2> SUFFICES ASSUME ~ reaped, NEW j \in JobIds, NEW v \in Workers, NEW w \in Workers, InHand(v, j), InHand(w, j)
               PROVE  v = w
    BY DEF ExclusiveUntilReaped
  <2>1. Has(v, j) /\ Has(w, j) /\ v \in Clients /\ w \in Clients
    BY InHandIsHolds DEF Has, Clients
  <2> QED BY <2>1 DEF RedisInv, PlaceInv, OnePlace
<1> QED BY <1>1, <1>2, <1>3

\* Only the execution of a command changes a document.
LEMMA OnlyCommandsWrite ==
  ASSUME [RedisNext]_redisVars, ~ \E c \in Clients : Execute(c)
  PROVE  jobs' = jobs
<1>1. CASE RedisTick
  BY <1>1 DEF RedisTick, serverVars
<1>2. CASE Apply
  BY <1>2 DEF Apply, enqueue, replay_job, cancel_queued_job, serverVars
<1>3. ASSUME NEW w \in Workers, TakeWork(w) \/ LeaseStep(w)
      PROVE  jobs' = jobs
  BY <1>3 DEF TakeWork, lease_jobs_batch, LeaseStep, LeaseMove, LeaseRead, LeaseReturn, serverVars
<1>4. ASSUME NEW w \in Workers, reap_expired_locks(w) \/ ReapStep(w)
      PROVE  jobs' = jobs
  BY <1>4 DEF reap_expired_locks, ReapStep, ReapList, ReapRead, ReapReturn, serverVars
<1>5. ASSUME NEW w \in Workers, Finish(w)
      PROVE  jobs' = jobs
  <2>1. \A j : \A commands : Report(w, j, commands) => jobs' = jobs
    BY DEF Report, serverVars
  <2>2. \A j : start_attempt(w, j) => jobs' = jobs
    BY DEF start_attempt, serverVars
  <2> QED BY <1>5, <2>1, <2>2
        DEF Finish, mark_succeeded_once, mark_succeeded_recurring, reschedule_for_retry, mark_dlq, cancel_running_job
<1>6. ASSUME NEW w \in Workers, (\E j \in JobIds : extend_lease(w, j)) \/ Abort(w)
      PROVE  jobs' = jobs
  BY <1>6 DEF extend_lease, Abort, serverVars
<1>7. CASE UNCHANGED redisVars
  BY <1>7 DEF redisVars, serverVars
<1> QED BY <1>1, <1>2, <1>3, <1>4, <1>5, <1>6, <1>7 DEF RedisNext

\* A step that overwrites work that is over executes a cancellation of the application:
\* a worker that writes the document has the id, and where an id is its job is not over.
LEMMA OverIsKept ==
  ASSUME RedisInv, [RedisNext]_redisVars, ~ reaped',
         NEW j \in JobIds, jobs[j] # None, jobs[j].status \in Over, jobs'[j] # jobs[j]
  PROVE  jobs'[j].status = "canceled" /\ Head(todo[App]).id = j
<1>1. PICK c \in Clients : Execute(c)
  BY OnlyCommandsWrite
<1>2. Head(todo[c]).op = "HSET" /\ Head(todo[c]).id = j /\ jobs'[j] = Head(todo[c]).row
  BY <1>1, JobsAfter
<1>3. BaseInv /\ PlaceInv
  BY DEF RedisInv
<1>4. Head(todo[c]) = todo[c][1] /\ 1 \in DOMAIN todo[c] /\ reaped' = reaped
  BY <1>1, <1>3, Executing
<1>5. PlacedIsOpen /\ AppWrites
  BY <1>3, <1>4 DEF PlaceInv
<1>6. c \notin Workers
  <2>1. Writes(c, j)
    BY <1>2, <1>4 DEF Writes
  <2>2. ~ Has(c, j)
    BY <1>5 DEF PlacedIsOpen
  <2> QED BY <2>1, <2>2 DEF Has, Holds
<1>7. c = App
  BY <1>6 DEF Clients
<1> QED BY <1>2, <1>4, <1>5, <1>7 DEF AppWrites, Over

----------------------------------------------------------------------------
(* Theorems                                                                 *)

\* The invariant of the commands, of what is kept and of what is in one place, for every
\* interleaving of the commands that operations send.
THEOREM RedisKeepsInv == RedisSpec => []RedisInv
<1>1. RedisInit => RedisInv
  BY InitInv
<1>2. RedisInv /\ [RedisNext]_redisVars => RedisInv'
  BY StepKeepsInv
<1> QED BY <1>1, <1>2, PTL DEF RedisSpec

\* Documents, lists and commands under way have their types: whatever an operation writes
\* back is a document, whichever other commands came between.
THEOREM RedisTypeCorrect == RedisSpec => []RedisTypeOK
<1>1. RedisInv => RedisTypeOK
  BY InvGives
<1> QED BY <1>1, RedisKeepsInv, PTL

\* No interleaving of leases, heartbeats, reports and reapers loses work while no client
\* dies: queued or running work has its id in a list or about to be pushed, or is in the
\* hands of the worker its lock names.
THEOREM WorkIsNotLost == RedisSpec => []NoJobLost
<1>1. RedisInv => NoJobLost
  BY InvGives
<1> QED BY <1>1, RedisKeepsInv, PTL

\* No two workers have a job in hand as long as no lease was taken back.
THEOREM LeasesAreExclusive == RedisSpec => []ExclusiveUntilReaped
<1>1. RedisInv => ExclusiveUntilReaped
  BY InvGives
<1> QED BY <1>1, RedisKeepsInv, PTL

\* Completed and dead-lettered work stays as it is as long as no lease was taken back, but
\* for a cancellation that read it while it was queued.
THEOREM OverStaysOver == RedisSpec => DoneUntilReaped
<1> DEFINE Stays == ~ reaped' => \A j \in JobIds :
             jobs[j] # None /\ jobs[j].status \in {"succeeded", "dlq"} =>
               jobs'[j] = jobs[j] \/ (jobs'[j].status = "canceled" /\ Head(todo[App]).id = j)
<1>1. RedisInv /\ [RedisNext]_redisVars => [Stays]_redisVars
  BY OverIsKept DEF Over
<1> QED BY <1>1, RedisKeepsInv, PTL DEF RedisSpec, DoneUntilReaped
=============================================================================
