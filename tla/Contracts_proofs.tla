---------------------------- MODULE Contracts_proofs ----------------------------
(***************************************************************************)
(* What the contracts of the backends imply: JobContract, for every        *)
(* backend that keeps it and any number of jobs, attempts, workers and     *)
(* instants, and EventStream, for each of the four stores and any number   *)
(* of streams, groups, consumers, events, stops and prunes.                *)
(***************************************************************************)
EXTENDS JobContract, EventStream, SequenceTheorems, FiniteSetTheorems, WellFoundedInduction, TLAPS

----------------------------------------------------------------------------
(* The life of a job                                                        *)

\* The value for "nobody" and "never" is neither a worker nor an instant.
NoneIsApart == None \notin Workers /\ None \notin Instants

\* OneCompletion for one job.  That succeeded attempts and the status go together
\* in both directions makes it inductive: a running job has none yet, so the step
\* that completes it adds the first.
Sound(v) ==
  /\ v \in View
  /\ v.status = "succeeded" <=> Succeeded(v) # {}
  /\ \A a, b \in Succeeded(v) : a = b
  /\ v.status = "running" <=> v.holder # None
  /\ v.status = "running" <=> v.expiry # None

AllSound == \A j \in JobIds : Sound(job[j])

\* A job that is not there yet, or was archived, has no attempt that succeeded.
LEMMA GoneIsSound ==
  ASSUME NEW status \in {"absent", "archived"}
  PROVE  Sound(Gone(status))
  BY DEF Sound, Gone, View, States, Succeeded, NoAttempts, AttemptOutcomes

\* A step that leaves the set of succeeded attempts as it is and ends without a
\* lease in a state other than completed.
LEMMA NoSuccessAdded ==
  ASSUME NEW o, NEW n \in View, Sound(o), o.status # "succeeded",
         \A a \in AttemptIds : n.attempt[a] = "succeeded" => o.attempt[a] = "succeeded"
  PROVE  Succeeded(n) = {}
  BY DEF Sound, Succeeded

\* One attempt that goes to another outcome than success adds no success.
LEMMA OneAttemptFails ==
  ASSUME NEW o \in View, NEW n \in View, NEW from, NEW to, to # "succeeded",
         OneAttempt(o, n, from, to)
  PROVE  \A a \in AttemptIds : n.attempt[a] = "succeeded" => o.attempt[a] = "succeeded"
  BY DEF OneAttempt, View

\* Every step of a job keeps it sound.
LEMMA StepKeepsSound ==
  ASSUME NoneIsApart, NEW o, NEW n \in View, Sound(o), JobStep(o, n)
  PROVE  Sound(n)
<1> o \in View
  BY DEF Sound
<1>1. CASE Commit(o, n)
  BY <1>1 DEF Commit, Queued, NoAttempts, Sound, Succeeded
<1>2. CASE Lease(o, n)
  <2> PICK w \in Workers, t \in Instants :
        n = [o EXCEPT !.status = "running", !.holder = w, !.expiry = t]
    BY <1>2 DEF Lease
  <2>1. n.status = "running" /\ n.holder = w /\ n.expiry = t /\ n.attempt = o.attempt
    BY DEF View
  <2>2. o.status = "queued"
    BY <1>2 DEF Lease
  <2> QED
    BY <2>1, <2>2 DEF Sound, Succeeded, NoneIsApart
<1>3. CASE StartAttempt(o, n)
  <2>1. Succeeded(n) = {}
    BY <1>3, OneAttemptFails, NoSuccessAdded DEF StartAttempt
  <2>2. o.status = "running" /\ n.status = o.status /\ n.holder = o.holder /\ n.expiry = o.expiry
    BY <1>3 DEF StartAttempt, View
  <2> QED
    BY <2>1, <2>2 DEF Sound
<1>4. CASE Extend(o, n)
  <2>1. /\ o.status = "running" /\ n.status = o.status /\ n.holder = o.holder
        /\ n.attempt = o.attempt /\ n.expiry \in Instants
    BY <1>4 DEF Extend, View
  <2> QED
    BY <2>1 DEF Sound, Succeeded, NoneIsApart
<1>5. CASE Complete(o, n)
  <2>1. o.status = "running" /\ n.status = "succeeded" /\ n.holder = None /\ n.expiry = None
    BY <1>5 DEF Complete, Over
  <2>2. \A a \in AttemptIds : o.attempt[a] # "succeeded"
    BY <2>1 DEF Sound, Succeeded
  <2>3. PICK a \in AttemptIds :
          o.attempt[a] = "open" /\ n.attempt = [o.attempt EXCEPT ![a] = "succeeded"]
    BY <1>5 DEF Complete, OneAttempt
  <2>4. Succeeded(n) = {a}
    BY <2>2, <2>3 DEF Succeeded, View
  <2> QED
    BY <2>1, <2>4 DEF Sound
<1>6. CASE RetryOrBury(o, n)
  <2>1. Succeeded(n) = {}
    BY <1>6, OneAttemptFails, NoSuccessAdded DEF RetryOrBury
  <2> QED
    BY <1>6, <2>1 DEF RetryOrBury, Queued, Over, Sound
<1>7. CASE Recover(o, n)
  <2>1. \A a \in AttemptIds : n.attempt[a] = "succeeded" => o.attempt[a] = "succeeded"
    BY <1>7 DEF Recover
  <2>2. Succeeded(n) = {}
    BY <1>7, <2>1, NoSuccessAdded DEF Recover
  <2> QED
    BY <1>7, <2>2 DEF Recover, Queued, Sound
<1>8. CASE Cancel(o, n)
  <2>1. \A a \in AttemptIds : n.attempt[a] = "succeeded" => o.attempt[a] = "succeeded"
    BY <1>8, OneAttemptFails DEF Cancel
  <2>2. Succeeded(n) = {}
    BY <1>8, <2>1, NoSuccessAdded DEF Cancel
  <2> QED
    BY <1>8, <2>2 DEF Cancel, Over, Sound
<1>9. CASE MissDeadline(o, n)
  <2>1. Succeeded(n) = {}
    BY <1>9, NoSuccessAdded DEF MissDeadline
  <2> QED
    BY <1>9, <2>1 DEF MissDeadline, Over, Sound
<1>10. CASE Archived(o, n)
  BY <1>10, GoneIsSound DEF Archived
<1> QED
  BY <1>1, <1>2, <1>3, <1>4, <1>5, <1>6, <1>7, <1>8, <1>9, <1>10 DEF JobStep

\* Whoever keeps the contract completes a job by one attempt: a job is succeeded
\* exactly when one of its attempts is, never by two, and it has a holder and an
\* expiry exactly while it is running (mark_succeeded, reap_expired_locks and the
\* other operations of StorageBackend).
THEOREM ContractCompletesOnce ==
  ASSUME NoneIsApart
  PROVE  ContractSpec => []OneCompletion
<1>1. ContractInit => AllSound
  BY GoneIsSound DEF ContractInit, AllSound, Sound
<1>2. AllSound /\ [ContractNext]_<<now, job>> => AllSound'
  <2> SUFFICES ASSUME AllSound, [ContractNext]_<<now, job>>, NEW j \in JobIds
               PROVE  Sound(job'[j])
    BY DEF AllSound
  <2>1. CASE job'[j] = job[j]
    BY <2>1 DEF AllSound
  <2>2. CASE job'[j] \in View /\ JobStep(job[j], job'[j])
    BY <2>2, StepKeepsSound DEF AllSound
  <2> QED
    BY <2>1, <2>2 DEF ContractNext
<1>3. AllSound => OneCompletion
  BY DEF AllSound, Sound, OneCompletion
<1> QED
  BY <1>1, <1>2, <1>3, PTL DEF ContractSpec

----------------------------------------------------------------------------
(* The streams: the invariant                                               *)

\* The memory backend gives out every number up to the highest, possibly again; the
\* other stores number the events in the order they ask.  What is under way has not
\* been seen, and a store that publishes in one step has nothing under way.
NumbersInv ==
  \A s \in Streams :
    /\ highest[s] <= Len(published[s])
    /\ under_way[s] \subseteq DOMAIN published[s] \ {highest[s]}
    /\ store \in {"memory", "sqlite"} => under_way[s] = {}
    /\ store # "memory" => \A i \in DOMAIN published[s] : published[s][i] = i
    /\ store = "memory" =>
         /\ Len(streams[s]) <= highest[s]
         /\ \A n \in 1 .. highest[s] : \E i \in DOMAIN published[s] : published[s][i] = n

\* An event as it was published, that was visible.
Genuine(numbers, top, e) ==
  /\ e.payload \in DOMAIN numbers
  /\ e.sequence_no = numbers[e.payload]
  /\ e.sequence_no <= top

\* The events that no other has the number of, and that did not arrive behind a later one.
Punctual(s) == UniquelyNumbered(s) \ late[s]

\* Those among P stand before every event with a higher number.
Ordered(P, events) ==
  \A j, k \in DOMAIN events :
    events[k].payload \in P /\ events[j].sequence_no > events[k].sequence_no => k < j

\* A log holds published events, the punctual ones in order.
LogInv ==
  \A s \in Streams :
    /\ \A k \in DOMAIN streams[s] : Genuine(published[s], highest[s], streams[s][k])
    /\ Ordered(Punctual(s), streams[s])

\* In the hands of a prune of Redis, and not behind what was published since.
Parked(s) ==
  {i \in Punctual(s) :
     /\ pruner.pc = "deleted" /\ pruner.stream = s
     /\ \E m \in DOMAIN pruner.retained :
          /\ pruner.retained[m].payload = i
          /\ \A k \in DOMAIN streams[s] : streams[s][k].sequence_no <= pruner.retained[m].sequence_no}

\* The events that must not be skipped.
Due(s) == (Punctual(s) \cap Retained(s)) \cup Parked(s)

\* What is due up to the number n, which was seen, has been handled.
HandledUpTo(s, g, n) ==
  /\ n <= highest[s]
  /\ \A i \in Due(s) : published[s][i] <= n => i \in handled[<<s, g>>]

OffsetsInv ==
  \A s \in Streams, g \in Groups :
    stream_offsets[<<s, g>>] # NoOffset => HandledUpTo(s, g, stream_offsets[<<s, g>>])

\* What is due and below an event of the list is handled or comes first in it.
SkipsNothing(s, g, events) ==
  \A k \in DOMAIN events :
    /\ Genuine(published[s], highest[s], events[k])
    /\ \A i \in Due(s) : published[s][i] <= events[k].sequence_no =>
         i \in handled[<<s, g>>] \/ \E j \in 1 .. k : events[j].payload = i

\* What a consumer has read as an offset, or is going to write as one, skips nothing, and
\* nor does its batch.
BatchInv ==
  \A c \in Consumers :
    /\ HandledUpTo(stream_of[c], group_of[c], after_seq[c])
    /\ SkipsNothing(stream_of[c], group_of[c], batch[c])

\* A consumer at work has a batch, and acknowledges what it has handled.
ConsumerInv ==
  \A c \in Consumers :
    /\ pc[c] \in {"reading", "handled", "acking"} => batch[c] # <<>>
    /\ pc[c] \in {"handled", "acking"} =>
         Head(batch[c]).payload \in handled[<<stream_of[c], group_of[c]>>]

\* Only SQLite and Redis prune in several steps, up to a cutoff that skips nothing.
CutoffInv ==
  pruner.pc # "idle" =>
    /\ store \in {"sqlite", "redis"}
    /\ \A g \in pruner.known : HandledUpTo(pruner.stream, g, pruner.cutoff)

\* What Redis is going to restore are events of the log, in order.
RestoreInv ==
  pruner.pc \in {"listed", "deleted"} =>
    /\ \A m \in DOMAIN pruner.retained :
         Genuine(published[pruner.stream], highest[pruner.stream], pruner.retained[m])
    /\ Ordered(Punctual(pruner.stream), pruner.retained)
    /\ pruner.pc = "listed" =>
         \A m \in DOMAIN pruner.retained : \E k \in DOMAIN streams[pruner.stream] :
           streams[pruner.stream][k] = pruner.retained[m]

StreamInv ==
  /\ StreamTypeOK /\ NumbersInv /\ LogInv /\ OffsetsInv /\ BatchInv /\ ConsumerInv
  /\ CutoffInv /\ RestoreInv

----------------------------------------------------------------------------
(* Listing a log                                                            *)

\* The fields of an event.
LEMMA EventType ==
  ASSUME NEW e \in Event
  PROVE  e.sequence_no \in 1 .. MaxEvents /\ e.payload \in 1 .. MaxEvents
  BY DEF Event

\* p gives the place of every event of the list: it takes the events above n once each
\* and in order.
Enumerates(p, list, events, by_number, n) ==
  /\ p \in [DOMAIN list -> DOMAIN events]
  /\ \A k \in DOMAIN list : list[k] = events[p[k]] /\ events[p[k]].sequence_no > n
  /\ \A q \in DOMAIN events : events[q].sequence_no > n => \E k \in DOMAIN list : p[k] = q
  /\ \A j, k \in DOMAIN list : j < k => Precedes(events, by_number, p[j], p[k])

\* Listing the events of a log above a number gives each of them once, in order.
LEMMA ListedAbove ==
  ASSUME NEW events \in Seq(Event), NEW by_number \in BOOLEAN, NEW n \in Int,
         NEW list \in Listed(events, by_number, PlacesAbove(events, n))
  PROVE  /\ list \in Seq(Event) /\ Len(list) <= Len(events)
         /\ \E p : Enumerates(p, list, events, by_number, n)
<1> DEFINE K == PlacesAbove(events, n)
<1>1. K \subseteq 1 .. Len(events) /\ \A k \in K : events[k].sequence_no > n /\ events[k] \in Event
  BY ElementOfSeq DEF PlacesAbove
<1>2. Len(events) \in Nat /\ DOMAIN events = 1 .. Len(events)
  BY LenProperties
<1>3. /\ IsFiniteSet(1 .. Len(events)) /\ Cardinality(1 .. Len(events)) = Len(events)
  <2>1. /\ IsFiniteSet(1 .. Len(events))
        /\ Cardinality(1 .. Len(events)) = IF 1 > Len(events) THEN 0 ELSE Len(events) - 1 + 1
    BY <1>2, FS_Interval
  <2> QED BY <1>2, <2>1
<1>4. Cardinality(K) \in Nat /\ Cardinality(K) <= Len(events)
  BY <1>1, <1>3, FS_Subset, FS_CardinalityType
<1>5. PICK p \in [1 .. Cardinality(K) -> K] :
        /\ \A k \in K : \E m \in DOMAIN p : p[m] = k
        /\ \A l, m \in DOMAIN p : l < m => Precedes(events, by_number, p[l], p[m])
        /\ list = [m \in DOMAIN p |-> events[p[m]]]
  BY DEF Listed
<1>6. DOMAIN p = 1 .. Cardinality(K)
  OBVIOUS
<1> HIDE DEF K
<1>7. list \in [1 .. Cardinality(K) -> Event]
  BY <1>1, <1>5, <1>6
<1>8. list \in Seq(Event) /\ Len(list) = Cardinality(K) /\ DOMAIN list = 1 .. Cardinality(K)
  BY <1>4, <1>7, IsASeq, LenProperties
<1>9. p \in [DOMAIN list -> DOMAIN events]
  BY <1>1, <1>2, <1>5, <1>8
<1>10. \A k \in DOMAIN list : list[k] = events[p[k]] /\ events[p[k]].sequence_no > n
  BY <1>1, <1>5, <1>6, <1>8
<1>11. \A q \in DOMAIN events : events[q].sequence_no > n => \E k \in DOMAIN list : p[k] = q
  BY <1>5, <1>6, <1>8 DEF K, PlacesAbove
<1> QED
  BY <1>4, <1>5, <1>6, <1>8, <1>9, <1>10, <1>11 DEF Enumerates

\* What a prune leaves are the events above its cutoff, in the order they had.
LEMMA KeptAbove ==
  ASSUME NEW events \in Seq(Event), NEW n \in Int, NEW kept \in Above(events, n)
  PROVE  /\ kept \in Seq(Event) /\ Len(kept) <= Len(events)
         /\ \A k \in DOMAIN kept : \E q \in DOMAIN events : kept[k] = events[q]
         /\ \A q \in DOMAIN events : events[q].sequence_no > n => \E k \in DOMAIN kept : kept[k] = events[q]
         /\ \A P : Ordered(P, events) => Ordered(P, kept)
<1>1. kept \in Listed(events, FALSE, PlacesAbove(events, n))
  BY DEF Above
<1>2. kept \in Seq(Event) /\ Len(kept) <= Len(events)
  BY <1>1, ListedAbove
<1>3. PICK p : Enumerates(p, kept, events, FALSE, n)
  BY <1>1, ListedAbove
<1>4. /\ \A k \in DOMAIN kept : kept[k] = events[p[k]]
      /\ \A q \in DOMAIN events : events[q].sequence_no > n => \E k \in DOMAIN kept : p[k] = q
      /\ \A j, k \in DOMAIN kept : j < k => p[j] < p[k]
  BY <1>3 DEF Enumerates, Precedes
<1>5. \A k \in DOMAIN kept : p[k] \in DOMAIN events
  BY <1>3 DEF Enumerates
<1>6. \A P : Ordered(P, events) => Ordered(P, kept)
  <2> SUFFICES ASSUME NEW P, Ordered(P, events), NEW j \in DOMAIN kept, NEW k \in DOMAIN kept,
                      kept[k].payload \in P, kept[j].sequence_no > kept[k].sequence_no
               PROVE  k < j
    BY DEF Ordered
  <2>1. p[k] < p[j]
    BY <1>4, <1>5 DEF Ordered
  <2>2. ~ (j < k)
    BY <1>2, <1>4, <1>5, <2>1, LenProperties
  <2>3. j # k
    BY <1>2, <1>5, <2>1, LenProperties
  <2> QED
    BY <1>2, <2>2, <2>3, LenProperties
<1> QED
  BY <1>2, <1>4, <1>5, <1>6

\* A set of numbers that is not empty has a smallest member.
LEMMA LeastNumber ==
  ASSUME NEW S \in SUBSET Nat, S # {}
  PROVE  \E x \in S : \A y \in S : x <= y
<1>1. PICK x \in S : \A y \in S : ~ (<<y, x>> \in OpToRel(<, Nat))
  BY NatLessThanWellFounded, WFMin, Zenon
<1>2. SUFFICES ASSUME NEW y \in S PROVE x <= y
  OBVIOUS
<1>3. <<y, x>> \in OpToRel(<, Nat) <=> y < x
  BY DEF OpToRel
<1>4. ~ (y < x)
  BY <1>1, <1>3, Zenon
<1> QED BY <1>4

\* The smallest offset, or the argument.
LEMMA CutoffIsLeast ==
  ASSUME StreamTypeOK, NEW s \in Streams, NEW through_seq \in Throughs
  PROVE  /\ Cutoff(s, through_seq) \in 0 .. MaxEvents
         /\ \A g \in KnownGroups(s) :
              stream_offsets[<<s, g>>] \in Nat /\ Cutoff(s, through_seq) <= stream_offsets[<<s, g>>]
<1> DEFINE bounds == {stream_offsets[<<s, g>>] : g \in KnownGroups(s)} \cup {through_seq}
<1>1. bounds \subseteq 0 .. MaxEvents /\ bounds # {} /\ MaxEvents \in Nat
  BY StreamAssumption DEF StreamTypeOK, KnownGroups
<1>2. bounds \in SUBSET Nat
  BY <1>1
<1>3. PICK x \in bounds : \A y \in bounds : x <= y
  <2> HIDE DEF bounds
  <2> QED BY <1>1, <1>2, LeastNumber
<1>4. Cutoff(s, through_seq) \in bounds /\ \A m \in bounds : Cutoff(s, through_seq) <= m
  <2>1. Cutoff(s, through_seq) = CHOOSE m \in bounds : \A y \in bounds : m <= y
    BY DEF Cutoff
  <2> HIDE DEF bounds
  <2> QED BY <1>3, <2>1
<1> QED
  BY <1>1, <1>4

----------------------------------------------------------------------------
(* Types                                                                    *)

Working ==
  [pc : {"cutoff", "listed", "deleted"}, stream : Streams, cutoff : 0 .. MaxEvents,
   known : SUBSET Groups, retained : Seq(Event)]

\* A prune under way has all its fields.
LEMMA PrunerType ==
  ASSUME StreamTypeOK
  PROVE  /\ pruner.pc # "idle" => pruner \in Working
         /\ pruner = NoPrune <=> pruner.pc = "idle"
  BY DEF StreamTypeOK, Pruner, Working, NoPrune

\* A new event has a number within the bound.
LEMMA NextNumberType ==
  ASSUME StreamTypeOK, NumbersInv, NEW s \in Streams, Len(published[s]) < MaxEvents
  PROVE  NextSequenceNo(s) \in 1 .. MaxEvents /\ Len(published[s]) + 1 \in 1 .. MaxEvents
<1>1. Len(published[s]) \in Nat /\ Len(streams[s]) \in Nat /\ highest[s] \in Nat /\ MaxEvents \in Nat
  BY StreamAssumption, LenProperties DEF StreamTypeOK
<1> QED
  BY <1>1 DEF NumbersInv, NextSequenceNo

\* An event that becomes visible is appended to the log.
LEMMA ArriveType ==
  ASSUME StreamTypeOK, NEW s \in Streams, NEW i \in 1 .. MaxEvents, NEW seq \in 1 .. MaxEvents,
         Arrive(s, i, seq)
  PROVE  /\ streams' \in [Streams -> Seq(Event)]
         /\ highest' \in [Streams -> 0 .. MaxEvents]
         /\ late' \in [Streams -> SUBSET (1 .. MaxEvents)]
<1>1. [sequence_no |-> seq, payload |-> i] \in Event /\ MaxEvents \in Nat
  BY StreamAssumption DEF Event
<1>2. Append(streams[s], [sequence_no |-> seq, payload |-> i]) \in Seq(Event)
  BY <1>1, AppendProperties DEF StreamTypeOK
<1>3. seq \in 0 .. MaxEvents
  BY <1>1
<1> QED
  BY <1>2, <1>3 DEF Arrive, StreamTypeOK

\* Reading gives a batch of events of the log; whatever is above the offset and not in the
\* batch up to an event comes after that event.
LEMMA BatchIsRead ==
  ASSUME StreamTypeOK, NEW s \in Streams, NEW after \in Nat, NEW limit \in Int,
         NEW events \in EventsAfter(s, after, limit)
  PROVE  /\ events \in Seq(Event)
         /\ \A k \in DOMAIN events : \E r \in DOMAIN streams[s] :
              /\ events[k] = streams[s][r]
              /\ \A q \in DOMAIN streams[s] : streams[s][q].sequence_no > after =>
                   \/ \E j \in 1 .. k : events[j] = streams[s][q]
                   \/ streams[s][r].sequence_no < streams[s][q].sequence_no
                   \/ r < q
<1> DEFINE log == streams[s]
           by_number == store \in {"sqlite", "postgres"}
<1>1. PICK later \in InReadingOrder(s, after) : events = UpTo(later, Clamped(limit))
  BY DEF EventsAfter
<1>2. log \in Seq(Event)
  BY DEF StreamTypeOK
<1>3. later \in Listed(log, by_number, PlacesAbove(log, after)) /\ by_number \in BOOLEAN
  BY DEF InReadingOrder
<1> HIDE DEF log, by_number
<1>4. later \in Seq(Event)
  BY <1>2, <1>3, ListedAbove
<1>5. PICK p : Enumerates(p, later, log, by_number, after)
  BY <1>2, <1>3, ListedAbove
<1>6. Clamped(limit) \in Nat \ {0}
  BY DEF Clamped
<1>7. Len(later) \in Nat /\ DOMAIN later = 1 .. Len(later)
  BY <1>4, LenProperties
<1>8. /\ events \in Seq(Event) /\ Len(events) <= Len(later)
      /\ \A k \in 1 .. Len(events) : events[k] = later[k]
  BY <1>1, <1>4, <1>6, <1>7, SubSeqProperties DEF UpTo
<1>9. DOMAIN events = 1 .. Len(events) /\ Len(events) \in Nat
  BY <1>8, LenProperties
<1>10. ASSUME NEW k \in DOMAIN events
       PROVE  /\ p[k] \in DOMAIN log /\ events[k] = log[p[k]]
              /\ \A q \in DOMAIN log : log[q].sequence_no > after =>
                   \/ \E j \in 1 .. k : events[j] = log[q]
                   \/ log[p[k]].sequence_no < log[q].sequence_no
                   \/ p[k] < q
  <2>1. k \in DOMAIN later /\ p[k] \in DOMAIN log /\ events[k] = log[p[k]]
    BY <1>5, <1>7, <1>8, <1>9 DEF Enumerates
  <2>2. SUFFICES ASSUME NEW q \in DOMAIN log, log[q].sequence_no > after
                 PROVE  \/ \E j \in 1 .. k : events[j] = log[q]
                        \/ log[p[k]].sequence_no < log[q].sequence_no
                        \/ p[k] < q
    BY <2>1
  <2>3. PICK j \in DOMAIN later : p[j] = q
    BY <2>2, <1>5 DEF Enumerates
  <2>4. CASE j <= k
    <3>1. j \in 1 .. k /\ j \in 1 .. Len(events) /\ later[j] = log[q]
      BY <1>5, <1>7, <1>9, <2>3, <2>4 DEF Enumerates
    <3> QED BY <1>8, <3>1
  <2>5. CASE k < j
    BY <1>5, <2>1, <2>3, <2>5 DEF Enumerates, Precedes
  <2> QED
    BY <1>7, <1>9, <2>1, <2>4, <2>5
<1> QED
  BY <1>8, <1>10 DEF log

\* The publishing steps keep the types.
LEMMA PublishKeepsTypes ==
  ASSUME StreamTypeOK, NumbersInv, NEW s \in Streams,
         publish(s) \/ DrawNumber(s) \/ \E i \in 1 .. MaxEvents : BecomeVisible(s, i)
  PROVE  StreamTypeOK'
<1>1. CASE publish(s) \/ DrawNumber(s)
  <2>1. NextSequenceNo(s) \in 1 .. MaxEvents /\ Len(published[s]) + 1 \in 1 .. MaxEvents
    BY <1>1, NextNumberType DEF publish, DrawNumber
  <2>2. Append(published[s], NextSequenceNo(s)) \in Seq(1 .. MaxEvents)
    BY <2>1, AppendProperties DEF StreamTypeOK
  <2>3. published' \in [Streams -> Seq(1 .. MaxEvents)]
    BY <1>1, <2>2 DEF publish, DrawNumber, StreamTypeOK
  <2>4. CASE publish(s)
    BY <2>1, <2>3, <2>4, ArriveType DEF publish, StreamTypeOK, consumerVars
  <2>5. CASE DrawNumber(s)
    BY <2>1, <2>3, <2>5 DEF DrawNumber, StreamTypeOK, consumerVars
  <2> QED
    BY <1>1, <2>4, <2>5
<1>2. ASSUME NEW i \in 1 .. MaxEvents, BecomeVisible(s, i) PROVE StreamTypeOK'
  <2>1. i \in DOMAIN published[s]
    BY <1>2 DEF BecomeVisible, NumbersInv
  <2>2. published[s][i] \in 1 .. MaxEvents
    BY <2>1, ElementOfSeq, LenProperties DEF StreamTypeOK
  <2> QED
    BY <1>2, <2>2, ArriveType DEF BecomeVisible, StreamTypeOK, consumerVars
<1> QED
  BY <1>1, <1>2

\* So do the steps of a prune.
LEMMA PruneKeepsTypes ==
  ASSUME StreamTypeOK, Prune
  PROVE  StreamTypeOK'
<1> USE StreamAssumption
<1>1. ASSUME NEW s \in Streams, NEW n \in Throughs, prune_events(s, n) PROVE StreamTypeOK'
  <2>1. PICK kept \in Above(streams[s], Cutoff(s, n)) : streams' = [streams EXCEPT ![s] = kept]
    BY <1>1 DEF prune_events
  <2>2. kept \in Seq(Event)
    BY CutoffIsLeast, KeptAbove DEF StreamTypeOK
  <2> QED
    BY <1>1, <2>1, <2>2 DEF prune_events, StreamTypeOK, consumerVars
<1>2. ASSUME NEW s \in Streams, NEW n \in Throughs, PruneReadOffsets(s, n) PROVE StreamTypeOK'
  <2>1. Cutoff(s, n) \in 0 .. MaxEvents /\ KnownGroups(s) \in SUBSET Groups /\ <<>> \in Seq(Event)
    BY CutoffIsLeast, EmptySeq DEF KnownGroups
  <2>2. pruner' \in Pruner
    BY <1>2, <2>1 DEF PruneReadOffsets, Pruner
  <2> QED
    BY <1>2, <2>2 DEF PruneReadOffsets, StreamTypeOK, logVars, consumerVars
<1>3. CASE PruneDelete
  <2>1. pruner \in Working
    BY <1>3, PrunerType DEF PruneDelete
  <2>2. PICK kept \in Above(streams[pruner.stream], pruner.cutoff) :
          streams' = [streams EXCEPT ![pruner.stream] = kept]
    BY <1>3 DEF PruneDelete
  <2>3. pruner.stream \in Streams /\ pruner.cutoff \in Int
    BY <2>1 DEF Working
  <2>4. kept \in Seq(Event)
    BY <2>3, KeptAbove DEF StreamTypeOK
  <2> QED
    BY <1>3, <2>2, <2>3, <2>4 DEF PruneDelete, StreamTypeOK, Pruner, consumerVars
<1>4. CASE PruneList
  <2>1. pruner \in Working
    BY <1>4, PrunerType DEF PruneList
  <2>2. PICK kept \in Above(streams[pruner.stream], pruner.cutoff) :
          pruner' = [pruner EXCEPT !.pc = "listed", !.retained = kept]
    BY <1>4 DEF PruneList
  <2>3. pruner.stream \in Streams /\ pruner.cutoff \in Int
    BY <2>1 DEF Working
  <2>4. kept \in Seq(Event)
    BY <2>3, KeptAbove DEF StreamTypeOK
  <2>5. pruner' \in Pruner
    BY <2>1, <2>2, <2>4 DEF Working, Pruner
  <2> QED
    BY <1>4, <2>5 DEF PruneList, StreamTypeOK, logVars, consumerVars
<1>5. CASE PruneDel
  <2>1. pruner \in Working
    BY <1>5, PrunerType DEF PruneDel
  <2>2. pruner' \in Pruner
    BY <1>5, <2>1 DEF PruneDel, Working, Pruner
  <2>3. <<>> \in Seq(Event)
    BY EmptySeq
  <2> QED
    BY <1>5, <2>1, <2>2, <2>3 DEF PruneDel, Working, StreamTypeOK, consumerVars
<1>6. CASE PruneRestore
  <2>1. pruner.stream \in Streams /\ pruner.retained \in Seq(Event)
    BY <1>6, PrunerType DEF PruneRestore, Working
  <2>2. streams[pruner.stream] \o pruner.retained \in Seq(Event)
    BY <2>1, ConcatProperties DEF StreamTypeOK
  <2>3. \A i \in DOMAIN pruner.retained : pruner.retained[i].payload \in 1 .. MaxEvents
    <3> SUFFICES ASSUME NEW i \in DOMAIN pruner.retained PROVE pruner.retained[i].payload \in 1 .. MaxEvents
      OBVIOUS
    <3>1. pruner.retained[i] \in Event
      BY <2>1, ElementOfSeq, LenProperties
    <3> QED BY <3>1, EventType
  <2>4. streams' \in [Streams -> Seq(Event)] /\ late' \in [Streams -> SUBSET (1 .. MaxEvents)]
    BY <1>6, <2>1, <2>2, <2>3 DEF PruneRestore, StreamTypeOK
  <2> QED
    BY <1>6, <2>4 DEF PruneRestore, StreamTypeOK, Pruner, consumerVars
<1> QED
  BY <1>1, <1>2, <1>3, <1>4, <1>5, <1>6 DEF Prune

\* The offset after an acknowledgment is one of the two.
LEMMA AckedType ==
  ASSUME NEW n \in Nat, NEW offset \in 0 .. n \cup {NoOffset}, NEW seq \in 1 .. n
  PROVE  /\ Acked(offset, seq) \in 0 .. n
         /\ Acked(offset, seq) = seq \/ (offset # NoOffset /\ Acked(offset, seq) = offset)
  BY StreamAssumption DEF Acked

\* What a consumer at work is about to acknowledge.
LEMMA HeadType ==
  ASSUME StreamTypeOK, ConsumerInv, NEW c \in Consumers, pc[c] \in {"reading", "handled", "acking"}
  PROVE  /\ Len(batch[c]) \in Nat \ {0} /\ DOMAIN batch[c] = 1 .. Len(batch[c])
         /\ Head(batch[c]) = batch[c][1] /\ batch[c][1] \in Event
         /\ Tail(batch[c]) \in Seq(Event)
         /\ DOMAIN Tail(batch[c]) = 1 .. Len(batch[c]) - 1
         /\ \A k \in DOMAIN Tail(batch[c]) : Tail(batch[c])[k] = batch[c][k + 1]
<1>1. batch[c] \in Seq(Event) /\ batch[c] # <<>>
  BY DEF StreamTypeOK, ConsumerInv
<1>2. Len(batch[c]) \in Nat /\ Len(batch[c]) # 0 /\ DOMAIN batch[c] = 1 .. Len(batch[c])
  BY <1>1, LenProperties, EmptySeq
<1>3. batch[c][1] \in Event
  BY <1>1, <1>2, ElementOfSeq
<1>4. /\ Tail(batch[c]) \in Seq(Event) /\ Len(Tail(batch[c])) = Len(batch[c]) - 1
      /\ \A k \in 1 .. Len(Tail(batch[c])) : Tail(batch[c])[k] = batch[c][k + 1]
  BY <1>1, HeadTailProperties
<1>5. DOMAIN Tail(batch[c]) = 1 .. Len(Tail(batch[c]))
  BY <1>4, LenProperties
<1> QED
  BY <1>2, <1>3, <1>4, <1>5

\* And so do the steps of a consumer.
LEMMA ConsumerKeepsTypes ==
  ASSUME StreamTypeOK, ConsumerInv, NEW c \in Consumers, Consume(c) \/ Stop(c)
  PROVE  StreamTypeOK'
<1> USE StreamAssumption
<1> DEFINE k == <<stream_of[c], group_of[c]>>
<1>0. k \in Streams \X Groups /\ stream_offsets[k] \in 0 .. MaxEvents \cup {NoOffset}
      /\ stream_of[c] \in Streams
  BY DEF StreamTypeOK
<1>1. CASE Locate(c)
  BY <1>0, <1>1 DEF Locate, StreamTypeOK, logVars
<1>2. CASE Read(c)
  <2>1. PICK limit \in Limits : \E events \in EventsAfter(stream_of[c], after_seq[c], limit) :
          /\ batch' = [batch EXCEPT ![c] = events]
          /\ pc' = [pc EXCEPT ![c] = IF events = <<>> THEN "idle" ELSE "reading"]
    BY <1>2 DEF Read
  <2>2. PICK events \in EventsAfter(stream_of[c], after_seq[c], limit) :
          /\ batch' = [batch EXCEPT ![c] = events]
          /\ pc' = [pc EXCEPT ![c] = IF events = <<>> THEN "idle" ELSE "reading"]
    BY <2>1
  <2>3. after_seq[c] \in Nat /\ limit \in Int
    BY DEF StreamTypeOK
  <2>4. events \in Seq(Event)
    BY <1>0, <2>3, BatchIsRead
  <2> QED
    BY <1>2, <2>2, <2>4 DEF Read, StreamTypeOK, logVars
<1>3. CASE Handle(c)
  <2>1. Head(batch[c]).payload \in 1 .. MaxEvents
    BY <1>3, HeadType, EventType DEF Handle
  <2> QED
    BY <1>0, <1>3, <2>1 DEF Handle, StreamTypeOK, logVars
<1>4. ASSUME pc[c] \in {"handled", "acking"}, NextOfBatch(c)
      PROVE  /\ batch' \in [Consumers -> Seq(Event)]
             /\ pc' \in [Consumers -> {"idle", "located", "reading", "handled", "acking"}]
  BY <1>4, HeadType DEF NextOfBatch, StreamTypeOK
<1>5. ASSUME pc[c] = "handled"
      PROVE  Acked(stream_offsets[k], Head(batch[c]).sequence_no) \in 0 .. MaxEvents
  <2>1. Head(batch[c]).sequence_no \in 1 .. MaxEvents
    BY <1>5, HeadType, EventType
  <2> QED
    BY <1>0, <2>1, AckedType
<1>6. CASE Acknowledge(c)
  BY <1>0, <1>4, <1>5, <1>6 DEF Acknowledge, StreamTypeOK, logVars
<1>7. CASE AckRead(c)
  BY <1>0, <1>5, <1>7 DEF AckRead, StreamTypeOK, logVars
<1>8. CASE AckWrite(c)
  BY <1>0, <1>4, <1>8 DEF AckWrite, StreamTypeOK, logVars
<1>9. CASE Stop(c)
  <2>1. <<>> \in Seq(Event)
    BY EmptySeq
  <2> QED
    BY <1>9, <2>1 DEF Stop, StreamTypeOK, logVars
<1> QED
  BY <1>1, <1>2, <1>3, <1>6, <1>7, <1>8, <1>9 DEF Consume

\* Every step keeps the types.
LEMMA StreamTypesKept ==
  ASSUME StreamTypeOK, NumbersInv, ConsumerInv, [StreamNext]_streamVars
  PROVE  StreamTypeOK'
<1>1. CASE UNCHANGED streamVars
  BY <1>1 DEF streamVars, logVars, consumerVars, StreamTypeOK
<1> QED
  BY <1>1, PublishKeepsTypes, PruneKeepsTypes, ConsumerKeepsTypes DEF StreamNext

----------------------------------------------------------------------------
(* The log changes                                                          *)

\* Events keep their numbers and stay late.
NumbersGrow ==
  \A s \in Streams :
    /\ highest[s] <= highest'[s]
    /\ late[s] \subseteq late'[s]
    /\ DOMAIN published[s] \subseteq DOMAIN published'[s]
    /\ \A i \in DOMAIN published[s] : published'[s][i] = published[s][i]

\* What becomes due has a higher number than any that was seen.
LogStep ==
  /\ NumbersGrow
  /\ \A s \in Streams : \A i \in Due(s)' : i \in Due(s) \/ published'[s][i] > highest[s]

\* The numbers and the log of a stream.
LEMMA StreamTypes ==
  ASSUME StreamTypeOK, NEW s \in Streams
  PROVE  /\ Len(published[s]) \in Nat /\ DOMAIN published[s] = 1 .. Len(published[s])
         /\ \A i \in DOMAIN published[s] : published[s][i] \in 1 .. MaxEvents
         /\ Len(streams[s]) \in Nat /\ DOMAIN streams[s] = 1 .. Len(streams[s])
         /\ \A k \in DOMAIN streams[s] : streams[s][k] \in Event
         /\ highest[s] \in Nat /\ MaxEvents \in Nat
<1>1. published[s] \in Seq(1 .. MaxEvents) /\ streams[s] \in Seq(Event) /\ highest[s] \in 0 .. MaxEvents
  BY DEF StreamTypeOK
<1> QED
  BY <1>1, ElementOfSeq, LenProperties, StreamAssumption

\* What is due has a number.
LEMMA DueIsPublished ==
  ASSUME NEW s \in Streams
  PROVE  Due(s) \subseteq Punctual(s) /\ Punctual(s) \subseteq DOMAIN published[s]
  BY DEF Due, Parked, Punctual, UniquelyNumbered

\* An old event does not become punctual.
LEMMA PunctualShrinks ==
  ASSUME NumbersGrow, NEW s \in Streams, NEW i \in DOMAIN published[s], i \in Punctual(s)'
  PROVE  i \in Punctual(s)
  BY DEF NumbersGrow, Punctual, UniquelyNumbered

\* A list stays in order when events are published or become late.
LEMMA OrderedKept ==
  ASSUME NumbersGrow, NEW s \in Streams, NEW events, Ordered(Punctual(s), events),
         \A k \in DOMAIN events : events[k].payload \in DOMAIN published[s]
  PROVE  Ordered(Punctual(s)', events)
  BY PunctualShrinks DEF Ordered

\* A published event keeps its number.
LEMMA GenuineKept ==
  ASSUME NumbersGrow, StreamTypeOK, StreamTypeOK', NEW s \in Streams, NEW e \in Event,
         Genuine(published[s], highest[s], e)
  PROVE  Genuine(published'[s], highest'[s], e)
<1>1. highest[s] \in Nat /\ highest'[s] \in Nat /\ e.sequence_no \in Nat
  BY StreamTypes, EventType DEF StreamTypeOK
<1> QED
  BY <1>1 DEF LogStep, NumbersGrow, Genuine

\* What was handled up to a number stays so when later events become due.
LEMMA HandledUpToKept ==
  ASSUME LogStep, StreamTypeOK, StreamTypeOK', NEW s \in Streams, NEW g \in Groups, NEW n \in Nat,
         HandledUpTo(s, g, n), handled[<<s, g>>] \subseteq handled'[<<s, g>>]
  PROVE  /\ n <= highest'[s]
         /\ \A i \in Due(s)' : published'[s][i] <= n => i \in handled'[<<s, g>>]
<1>1. highest[s] \in Nat /\ highest'[s] \in Nat /\ n <= highest[s]
  BY StreamTypes DEF StreamTypeOK, HandledUpTo
<1>2. ASSUME NEW i \in Due(s)', published'[s][i] <= n PROVE i \in handled'[<<s, g>>]
  <2>1. published'[s][i] \in 1 .. MaxEvents
    <3>1. i \in DOMAIN published'[s]
      BY <1>2 DEF Due, Parked, Punctual, UniquelyNumbered
    <3>2. published'[s] \in Seq(1 .. MaxEvents)
      BY DEF StreamTypeOK
    <3> QED BY <3>1, <3>2, ElementOfSeq, LenProperties
  <2>2. i \in Due(s)
    BY <1>1, <1>2, <2>1, StreamAssumption DEF LogStep, NumbersGrow
  <2>3. published'[s][i] = published[s][i]
    BY <2>2, DueIsPublished DEF LogStep, NumbersGrow
  <2> QED
    BY <1>2, <2>2, <2>3 DEF HandledUpTo
<1> QED
  BY <1>1, <1>2 DEF LogStep, NumbersGrow

\* What a change of the log leaves alone: the offsets and the consumers ...
LEMMA LogStepKeepsConsumers ==
  ASSUME LogStep, StreamTypeOK, StreamTypeOK', OffsetsInv, BatchInv, ConsumerInv,
         UNCHANGED <<stream_offsets, consumerVars>>
  PROVE  OffsetsInv' /\ BatchInv' /\ ConsumerInv'
<1>0. UNCHANGED <<stream_offsets, handled, pc, after_seq, batch, stops>>
  BY DEF consumerVars
<1>1. OffsetsInv'
  <2> SUFFICES ASSUME NEW s \in Streams, NEW g \in Groups, stream_offsets[<<s, g>>] # NoOffset
               PROVE  HandledUpTo(s, g, stream_offsets[<<s, g>>])'
    BY <1>0 DEF OffsetsInv
  <2>1. stream_offsets[<<s, g>>] \in Nat
    BY DEF StreamTypeOK
  <2>2. HandledUpTo(s, g, stream_offsets[<<s, g>>])
    BY DEF OffsetsInv
  <2> QED
    BY <1>0, <2>1, <2>2, HandledUpToKept DEF HandledUpTo
<1>2. BatchInv'
  <2> SUFFICES ASSUME NEW c \in Consumers
               PROVE  /\ HandledUpTo(stream_of[c], group_of[c], after_seq[c])'
                      /\ \A k \in DOMAIN batch[c] :
                           /\ Genuine(published'[stream_of[c]], highest'[stream_of[c]], batch[c][k])
                           /\ \A i \in Due(stream_of[c])' :
                                published'[stream_of[c]][i] <= batch[c][k].sequence_no =>
                                  \/ i \in handled[<<stream_of[c], group_of[c]>>]
                                  \/ \E j \in 1 .. k : batch[c][j].payload = i
    BY <1>0 DEF BatchInv, SkipsNothing
  <2> DEFINE s == stream_of[c]
             g == group_of[c]
  <2>1. s \in Streams /\ g \in Groups /\ after_seq[c] \in Nat /\ HandledUpTo(s, g, after_seq[c])
    <3>1. s \in Streams /\ g \in Groups /\ after_seq[c] \in 0 .. MaxEvents /\ MaxEvents \in Nat
      BY StreamAssumption DEF StreamTypeOK
    <3>2. HandledUpTo(s, g, after_seq[c])
      BY DEF BatchInv, SkipsNothing
    <3> QED BY <3>1, <3>2
  <2>2. HandledUpTo(s, g, after_seq[c])'
    BY <1>0, <2>1, HandledUpToKept DEF HandledUpTo
  <2>3. ASSUME NEW k \in DOMAIN batch[c]
        PROVE  /\ Genuine(published'[s], highest'[s], batch[c][k])
               /\ \A i \in Due(s)' : published'[s][i] <= batch[c][k].sequence_no =>
                    \/ i \in handled[<<s, g>>]
                    \/ \E j \in 1 .. k : batch[c][j].payload = i
    <3>1. batch[c][k] \in Event /\ Genuine(published[s], highest[s], batch[c][k])
      BY ElementOfSeq, LenProperties DEF StreamTypeOK, BatchInv, SkipsNothing
    <3>2. batch[c][k].sequence_no \in Nat /\ highest[s] \in Nat
      BY <2>1, <3>1, EventType, StreamTypes
    <3>3. Genuine(published'[s], highest'[s], batch[c][k])
      BY <1>0, <2>1, <3>1, GenuineKept DEF Genuine, LogStep
    <3>4. ASSUME NEW i \in Due(s)', published'[s][i] <= batch[c][k].sequence_no
          PROVE  i \in Due(s) /\ published[s][i] <= batch[c][k].sequence_no
      <4>1. published'[s][i] \in 1 .. MaxEvents
        <5>1. i \in DOMAIN published'[s]
          BY DEF Due, Parked, Punctual, UniquelyNumbered
        <5>2. published'[s] \in Seq(1 .. MaxEvents)
          BY <2>1 DEF StreamTypeOK
        <5> QED BY <5>1, <5>2, ElementOfSeq, LenProperties
      <4>2. i \in Due(s)
        BY <2>1, <3>1, <3>2, <3>4, <4>1, StreamAssumption DEF LogStep, NumbersGrow, Genuine
      <4> QED
        BY <2>1, <3>4, <4>2, DueIsPublished DEF LogStep, NumbersGrow
    <3> QED
      BY <3>3, <3>4 DEF BatchInv, SkipsNothing
  <2> QED
    BY <2>2, <2>3
<1>3. ConsumerInv'
  BY <1>0 DEF ConsumerInv
<1> QED
  BY <1>1, <1>2, <1>3

\* ... the cutoff of a prune that goes on ...
LEMMA CutoffKept ==
  ASSUME LogStep, StreamTypeOK, StreamTypeOK', CutoffInv, UNCHANGED <<store, handled>>,
         pruner'.pc # "idle" =>
           /\ pruner.pc # "idle" /\ pruner'.stream = pruner.stream
           /\ pruner'.cutoff = pruner.cutoff /\ pruner'.known = pruner.known
  PROVE  CutoffInv'
<1> SUFFICES ASSUME pruner'.pc # "idle", NEW g \in pruner.known
             PROVE  HandledUpTo(pruner.stream, g, pruner.cutoff)'
  BY DEF CutoffInv
<1>1. pruner.stream \in Streams /\ pruner.cutoff \in Nat /\ pruner.known \subseteq Groups
  BY PrunerType, StreamAssumption DEF Working
<1>2. HandledUpTo(pruner.stream, g, pruner.cutoff)
  BY DEF CutoffInv
<1> QED
  BY <1>1, <1>2, HandledUpToKept DEF HandledUpTo

\* ... and what Redis is going to restore.
LEMMA RestoreKept ==
  ASSUME LogStep, StreamTypeOK, StreamTypeOK', RestoreInv,
         pruner'.pc \in {"listed", "deleted"} =>
           /\ pruner.pc \in {"listed", "deleted"}
           /\ pruner'.stream = pruner.stream /\ pruner'.retained = pruner.retained,
         pruner'.pc = "listed" =>
           /\ pruner.pc = "listed"
           /\ \A k \in DOMAIN streams[pruner.stream] :
                /\ k \in DOMAIN streams'[pruner.stream]
                /\ streams'[pruner.stream][k] = streams[pruner.stream][k]
  PROVE  RestoreInv'
<1> SUFFICES ASSUME pruner'.pc \in {"listed", "deleted"}
             PROVE  /\ \A m \in DOMAIN pruner.retained :
                         Genuine(published'[pruner.stream], highest'[pruner.stream], pruner.retained[m])
                    /\ Ordered(Punctual(pruner.stream)', pruner.retained)
                    /\ pruner'.pc = "listed" =>
                         \A m \in DOMAIN pruner.retained : \E k \in DOMAIN streams'[pruner.stream] :
                           streams'[pruner.stream][k] = pruner.retained[m]
  BY DEF RestoreInv, Genuine
<1>1. pruner.stream \in Streams /\ pruner.retained \in Seq(Event)
  BY PrunerType DEF Working
<1>2. \A m \in DOMAIN pruner.retained : pruner.retained[m] \in Event
  BY <1>1, ElementOfSeq, LenProperties
<1>3. \A m \in DOMAIN pruner.retained :
        Genuine(published[pruner.stream], highest[pruner.stream], pruner.retained[m])
  BY DEF RestoreInv
<1> QED
  BY <1>1, <1>2, <1>3, GenuineKept, OrderedKept DEF RestoreInv, Genuine, LogStep

\* An event becomes due by arriving; one that stays in the log, and one that Redis is going
\* to restore while nothing leaves the log, was due before.
LEMMA DueByArrival ==
  ASSUME NumbersGrow, StreamTypeOK, StreamTypeOK', LogInv, RestoreInv,
         pruner'.pc = "deleted" => pruner' = pruner,
         \A s \in Streams : \A k \in DOMAIN streams'[s] :
           \/ \E q \in DOMAIN streams[s] : streams[s][q] = streams'[s][k]
           \/ streams'[s][k].payload \in Punctual(s)' =>
                published'[s][streams'[s][k].payload] > highest[s],
         pruner'.pc = "deleted" => \A s \in Streams : \A q \in DOMAIN streams[s] :
           \E k \in DOMAIN streams'[s] : streams[s][q] = streams'[s][k]
  PROVE  LogStep
<1> SUFFICES ASSUME NEW s \in Streams, NEW i \in Due(s)'
             PROVE  i \in Due(s) \/ published'[s][i] > highest[s]
  BY DEF LogStep
<1>1. i \in Punctual(s)'
  BY DEF Due, Parked
<1>2. CASE i \in Retained(s)'
  <2>1. PICK k \in DOMAIN streams'[s] : streams'[s][k].payload = i
    BY <1>2 DEF Retained, Payloads
  <2>2. ASSUME NEW q \in DOMAIN streams[s], streams[s][q] = streams'[s][k] PROVE i \in Due(s)
    <3>1. i \in DOMAIN published[s] /\ i \in Retained(s)
      BY <2>1, <2>2 DEF LogInv, Genuine, Retained, Payloads
    <3> QED
      BY <1>1, <3>1, PunctualShrinks DEF Due
  <2> QED
    BY <1>1, <2>1, <2>2
<1>3. CASE i \in Parked(s)'
  <2>1. PICK m \in DOMAIN pruner'.retained :
          /\ pruner'.retained[m].payload = i
          /\ \A k \in DOMAIN streams'[s] : streams'[s][k].sequence_no <= pruner'.retained[m].sequence_no
    BY <1>3 DEF Parked
  <2>2. pruner'.pc = "deleted" /\ pruner' = pruner /\ pruner.stream = s
    BY <1>3 DEF Parked
  <2>3. i \in DOMAIN published[s]
    BY <2>1, <2>2 DEF RestoreInv, Genuine
  <2>4. i \in Punctual(s)
    BY <1>1, <2>3, PunctualShrinks
  <2> QED
    BY <2>1, <2>2, <2>4 DEF Due, Parked
<1> QED
  BY <1>2, <1>3 DEF Due

\* A punctual event arrives behind all others: the log stays in order.
LEMMA ArrivalKeepsLog ==
  ASSUME NumbersGrow, StreamTypeOK, StreamTypeOK', LogInv, NEW s \in Streams,
         NEW i \in 1 .. MaxEvents, NEW seq \in 1 .. MaxEvents, Arrive(s, i, seq),
         i \in DOMAIN published'[s], published'[s][i] = seq,
         i \in Punctual(s)' => seq > highest[s]
  PROVE  /\ LogInv'
         /\ \A t \in Streams : \A k \in DOMAIN streams[t] :
              k \in DOMAIN streams'[t] /\ streams'[t][k] = streams[t][k]
         /\ \A t \in Streams : \A k \in DOMAIN streams'[t] :
              \/ \E q \in DOMAIN streams[t] : streams[t][q] = streams'[t][k]
              \/ streams'[t][k].payload \in Punctual(t)' =>
                   published'[t][streams'[t][k].payload] > highest[t]
<1> DEFINE e == [sequence_no |-> seq, payload |-> i]
<1>1. /\ Len(streams[s]) \in Nat /\ DOMAIN streams[s] = 1 .. Len(streams[s])
      /\ \A k \in DOMAIN streams[s] : streams[s][k] \in Event
      /\ highest[s] \in Nat /\ highest'[s] \in Nat
  BY StreamTypes DEF StreamTypeOK
<1>2. /\ e \in Event /\ streams[s] \in Seq(Event)
      /\ streams'[s] = Append(streams[s], e) /\ \A t \in Streams \ {s} : streams'[t] = streams[t]
  BY DEF Arrive, StreamTypeOK, Event
<1>3. /\ DOMAIN streams'[s] = 1 .. Len(streams[s]) + 1
      /\ \A k \in DOMAIN streams[s] : streams'[s][k] = streams[s][k]
      /\ streams'[s][Len(streams[s]) + 1] = e
  BY <1>1, <1>2, AppendProperties, LenProperties
<1>4. \A t \in Streams : \A k \in DOMAIN streams[t] :
        k \in DOMAIN streams'[t] /\ streams'[t][k] = streams[t][k]
  <2> HIDE DEF e
  <2> SUFFICES ASSUME NEW t \in Streams, NEW k \in DOMAIN streams[t]
               PROVE  k \in DOMAIN streams'[t] /\ streams'[t][k] = streams[t][k]
    OBVIOUS
  <2>1. CASE t = s
    BY <1>1, <1>3, <2>1
  <2>2. CASE t # s
    BY <1>2, <2>2
  <2> QED BY <2>1, <2>2
<1>5. \A t \in Streams : \A k \in DOMAIN streams'[t] :
        \/ \E q \in DOMAIN streams[t] : streams[t][q] = streams'[t][k]
        \/ streams'[t][k].payload \in Punctual(t)' =>
             published'[t][streams'[t][k].payload] > highest[t]
  <2> SUFFICES ASSUME NEW t \in Streams, NEW k \in DOMAIN streams'[t]
               PROVE  \/ \E q \in DOMAIN streams[t] : streams[t][q] = streams'[t][k]
                      \/ streams'[t][k].payload \in Punctual(t)' =>
                           published'[t][streams'[t][k].payload] > highest[t]
    OBVIOUS
  <2>1. CASE t # s \/ k \in DOMAIN streams[t]
    BY <1>2, <1>4, <2>1
  <2>2. CASE t = s /\ k = Len(streams[s]) + 1
    <3>1. streams'[t][k].payload = i
      BY <1>3, <2>2
    <3> QED BY <2>2, <3>1
  <2> QED
    BY <1>1, <1>3, <2>1, <2>2
<1>6. LogInv'
  <2> SUFFICES ASSUME NEW t \in Streams
               PROVE  /\ \A k \in DOMAIN streams'[t] : Genuine(published'[t], highest'[t], streams'[t][k])
                      /\ Ordered(Punctual(t)', streams'[t])
    BY DEF LogInv, Genuine
  <2>1. \A k \in DOMAIN streams[t] : streams[t][k] \in Event /\ Genuine(published[t], highest[t], streams[t][k])
    BY StreamTypes DEF LogInv
  <2>2. \A k \in DOMAIN streams[t] : Genuine(published'[t], highest'[t], streams[t][k])
    BY <1>4, <2>1, GenuineKept DEF Genuine
  <2>3. Ordered(Punctual(t)', streams[t])
    BY <2>1, OrderedKept DEF LogInv, Genuine
  <2>4. CASE t # s
    BY <1>2, <2>2, <2>3, <2>4 DEF Genuine
  <2>5. CASE t = s
    <3>1. Genuine(published'[s], highest'[s], e)
      <4>1. seq <= highest'[s]
        BY <1>1 DEF Arrive, StreamTypeOK
      <4> QED BY <4>1 DEF Genuine
    <3>2. \A k \in DOMAIN streams'[s] : Genuine(published'[s], highest'[s], streams'[s][k])
      BY <1>1, <1>3, <2>2, <2>5, <3>1 DEF Genuine
    <3>3. Ordered(Punctual(s)', streams'[s])
      <4> SUFFICES ASSUME NEW j \in DOMAIN streams'[s], NEW k \in DOMAIN streams'[s],
                          streams'[s][k].payload \in Punctual(s)',
                          streams'[s][j].sequence_no > streams'[s][k].sequence_no
                   PROVE  k < j
        BY DEF Ordered
      <4>1. CASE k \in DOMAIN streams[s] /\ j \in DOMAIN streams[s]
        BY <1>3, <2>3, <2>5, <4>1 DEF Ordered
      <4>2. CASE k \in DOMAIN streams[s] /\ j = Len(streams[s]) + 1
        BY <1>1, <4>2
      <4>3. CASE k = Len(streams[s]) + 1
        <5>1. streams'[s][k] = e /\ seq > highest[s]
          BY <1>3, <4>3
        <5>2. j \in DOMAIN streams[s]
          BY <1>1, <1>3, <4>3, <5>1
        <5>3. streams'[s][j] = streams[s][j] /\ streams[s][j].sequence_no <= highest[s]
          BY <1>3, <2>1, <2>5, <5>2 DEF Genuine
        <5>4. streams[s][j].sequence_no \in Nat
          BY <1>1, <5>2, EventType
        <5> QED
          BY <1>1, <5>1, <5>3, <5>4
      <4> QED
        BY <1>1, <1>3, <4>1, <4>2, <4>3
    <3> QED
      BY <2>5, <3>2, <3>3
  <2> QED
    BY <2>4, <2>5
<1> QED
  BY <1>4, <1>5, <1>6

\* A log that does not change stays in order.
LEMMA LogKept ==
  ASSUME NumbersGrow, StreamTypeOK, StreamTypeOK', LogInv, UNCHANGED streams
  PROVE  LogInv'
<1> SUFFICES ASSUME NEW s \in Streams
             PROVE  /\ \A k \in DOMAIN streams[s] : Genuine(published'[s], highest'[s], streams[s][k])
                    /\ Ordered(Punctual(s)', streams[s])
  BY DEF LogInv
<1>1. \A k \in DOMAIN streams[s] : streams[s][k] \in Event /\ Genuine(published[s], highest[s], streams[s][k])
  BY StreamTypes DEF LogInv
<1> QED
  BY <1>1, GenuineKept, OrderedKept DEF LogInv, Genuine

----------------------------------------------------------------------------
(* Publishing                                                               *)

\* What a new number does to the numbers of a stream.
LEMMA NumberAppended ==
  ASSUME StreamTypeOK, NEW s \in Streams, NEW n \in 1 .. MaxEvents,
         published' = [published EXCEPT ![s] = Append(@, n)]
  PROVE  /\ DOMAIN published'[s] = 1 .. Len(published[s]) + 1
         /\ Len(published'[s]) = Len(published[s]) + 1
         /\ \A i \in DOMAIN published[s] : published'[s][i] = published[s][i]
         /\ published'[s][Len(published[s]) + 1] = n
         /\ \A t \in Streams \ {s} : published'[t] = published[t]
         /\ \A t \in Streams : /\ DOMAIN published[t] \subseteq DOMAIN published'[t]
                               /\ \A i \in DOMAIN published[t] : published'[t][i] = published[t][i]
<1>1. published[s] \in Seq(1 .. MaxEvents) /\ published'[s] = Append(published[s], n)
  BY DEF StreamTypeOK
<1>2. Len(published[s]) \in Nat /\ DOMAIN published[s] = 1 .. Len(published[s])
  BY StreamTypes
<1>3. /\ DOMAIN published'[s] = 1 .. Len(published[s]) + 1
      /\ Len(published'[s]) = Len(published[s]) + 1
      /\ \A i \in DOMAIN published[s] : published'[s][i] = published[s][i]
      /\ published'[s][Len(published[s]) + 1] = n
  BY <1>1, <1>2, AppendProperties, LenProperties
<1>4. \A t \in Streams \ {s} : published'[t] = published[t]
  BY DEF StreamTypeOK
<1> QED
  BY <1>2, <1>3, <1>4

\* The larger of the two is the highest number after an arrival.
LEMMA HighestAfter ==
  ASSUME StreamTypeOK, NEW s \in Streams, NEW i, NEW seq \in Nat, Arrive(s, i, seq)
  PROVE  /\ highest'[s] = IF seq > highest[s] THEN seq ELSE highest[s]
         /\ \A t \in Streams \ {s} : highest'[t] = highest[t] /\ streams'[t] = streams[t]
         /\ \A t \in Streams : highest[t] <= highest'[t] /\ late[t] \subseteq late'[t]
         /\ i \notin late'[s] => ~ (seq < highest[s])
<1>1. \A t \in Streams : highest[t] \in Nat
  BY StreamTypes
<1> QED
  BY <1>1 DEF Arrive, StreamTypeOK

\* publish of the memory backend and of SQLite keeps the invariant.
LEMMA PublishKeepsInv ==
  ASSUME StreamInv, StreamTypeOK', NEW s \in Streams, publish(s)
  PROVE  StreamInv'
<1> DEFINE n == NextSequenceNo(s)
           i == Len(published[s]) + 1
<1>0. StreamTypeOK /\ NumbersInv /\ LogInv /\ OffsetsInv /\ BatchInv /\ ConsumerInv /\ CutoffInv /\ RestoreInv
  BY DEF StreamInv
<1>1. /\ Arrive(s, i, n) /\ published' = [published EXCEPT ![s] = Append(@, n)]
      /\ UNCHANGED <<store, under_way, stream_offsets, pruner, prunes, consumerVars>>
      /\ Len(published[s]) < MaxEvents /\ store \in {"memory", "sqlite"}
  BY DEF publish
<1>2. n \in 1 .. MaxEvents /\ i \in 1 .. MaxEvents
  BY <1>0, <1>1, NextNumberType
<1>3. /\ i = Len(published[s]) + 1 /\ i \in DOMAIN published'[s] /\ published'[s][i] = n
      /\ DOMAIN published'[s] = 1 .. i /\ Len(published'[s]) = i
      /\ \A m \in DOMAIN published[s] : m \in DOMAIN published'[s] /\ published'[s][m] = published[s][m]
  <2>1. /\ DOMAIN published'[s] = 1 .. i /\ Len(published'[s]) = i
        /\ \A m \in DOMAIN published[s] : published'[s][m] = published[s][m]
        /\ published'[s][i] = n
        /\ DOMAIN published[s] \subseteq DOMAIN published'[s]
    BY <1>0, <1>1, <1>2, NumberAppended
  <2> QED BY <1>2, <2>1
<1>4. /\ n = IF store = "memory" THEN Len(streams[s]) + 1 ELSE i
      /\ Len(published[s]) \in Nat /\ DOMAIN published[s] = 1 .. Len(published[s])
      /\ Len(streams[s]) \in Nat /\ highest[s] \in Nat /\ highest[s] <= Len(published[s])
      /\ MaxEvents \in Nat
  BY <1>0, StreamTypes DEF NextSequenceNo, NumbersInv
<1> HIDE DEF n, i
<1>5. NumbersGrow
  BY <1>0, <1>1, <1>2, NumberAppended, HighestAfter DEF NumbersGrow
<1>6. ASSUME n <= highest[s] PROVE i \notin Punctual(s)'
  <2>1. store = "memory"
    BY <1>3, <1>4, <1>6 DEF i
  <2>2. PICK q \in DOMAIN published[s] : published[s][q] = n
    BY <1>0, <1>2, <1>3, <1>4, <1>6, <2>1 DEF NumbersInv
  <2>3. q \in DOMAIN published'[s] /\ published'[s][q] = n /\ q # i
    BY <1>3, <1>4, <2>2
  <2> QED
    BY <1>3, <2>3 DEF Punctual, UniquelyNumbered
<1>7. i \in Punctual(s)' => n > highest[s]
  BY <1>2, <1>4, <1>6
<1>8. /\ LogInv'
      /\ \A t \in Streams : \A k \in DOMAIN streams[t] :
           k \in DOMAIN streams'[t] /\ streams'[t][k] = streams[t][k]
      /\ \A t \in Streams : \A k \in DOMAIN streams'[t] :
           \/ \E q \in DOMAIN streams[t] : streams[t][q] = streams'[t][k]
           \/ streams'[t][k].payload \in Punctual(t)' =>
                published'[t][streams'[t][k].payload] > highest[t]
  BY <1>0, <1>1, <1>2, <1>3, <1>5, <1>7, ArrivalKeepsLog
<1>9. LogStep
  BY <1>0, <1>1, <1>5, <1>8, DueByArrival
<1>10. OffsetsInv' /\ BatchInv' /\ ConsumerInv'
  BY <1>0, <1>1, <1>9, LogStepKeepsConsumers
<1>11. CutoffInv'
  BY <1>0, <1>1, <1>9, CutoffKept DEF consumerVars
<1>12. RestoreInv'
  <2>1. pruner.pc = "listed" => pruner.stream \in Streams
    BY <1>0, PrunerType DEF Working
  <2> QED
    BY <1>0, <1>1, <1>8, <1>9, <2>1, RestoreKept
<1>13. NumbersInv'
  <2> SUFFICES ASSUME NEW t \in Streams
               PROVE  /\ highest'[t] <= Len(published'[t])
                      /\ under_way'[t] = {}
                      /\ store' # "memory" => \A m \in DOMAIN published'[t] : published'[t][m] = m
                      /\ store' = "memory" =>
                           /\ Len(streams'[t]) <= highest'[t]
                           /\ \A m \in 1 .. highest'[t] : \E q \in DOMAIN published'[t] : published'[t][q] = m
    BY DEF NumbersInv
  <2>1. under_way'[t] = {} /\ store' = store
    BY <1>0, <1>1 DEF NumbersInv
  <2>2. CASE t # s
    BY <1>0, <1>1, <1>2, <2>1, <2>2, NumberAppended, HighestAfter DEF NumbersInv
  <2>3. CASE t = s
    <3>2. highest'[s] = IF n > highest[s] THEN n ELSE highest[s]
      BY <1>0, <1>1, <1>2, HighestAfter
    <3>3. CASE store = "memory"
      <4>1. Len(streams[s]) <= highest[s] /\ n = Len(streams[s]) + 1
        BY <1>0, <1>3, <1>4, <3>3 DEF NumbersInv
      <4>2. Len(streams'[s]) = n
        <5>1. [sequence_no |-> n, payload |-> i] \in Event /\ streams[s] \in Seq(Event)
          BY <1>0, <1>2 DEF Event, StreamTypeOK
        <5>2. streams'[s] = Append(streams[s], [sequence_no |-> n, payload |-> i])
          BY <1>0, <1>1 DEF Arrive, StreamTypeOK
        <5> QED BY <4>1, <5>1, <5>2, AppendProperties
      <4>3. \A m \in 1 .. highest[s] : \E q \in DOMAIN published[s] : published[s][q] = m
        BY <1>0, <3>3 DEF NumbersInv
      <4>4. ASSUME NEW m \in 1 .. highest'[s]
            PROVE  \E q \in DOMAIN published'[s] : published'[s][q] = m
        <5>1. m = n \/ m \in 1 .. highest[s]
          BY <1>2, <1>3, <1>4, <3>2, <4>1, <4>4
        <5> QED
          BY <1>3, <4>3, <5>1
      <4>5. highest'[s] <= Len(published'[s]) /\ Len(streams'[s]) <= highest'[s]
        BY <1>2, <1>3, <1>4, <3>2, <4>1, <4>2
      <4> QED
        BY <2>1, <2>3, <3>3, <4>4, <4>5
    <3>4. CASE store # "memory"
      <4>1. \A m \in DOMAIN published[s] : published[s][m] = m
        BY <1>0, <3>4 DEF NumbersInv
      <4> QED
        BY <1>2, <1>3, <1>4, <2>1, <2>3, <3>2, <3>4, <4>1
    <3> QED
      BY <3>3, <3>4
  <2> QED
    BY <2>2, <2>3
<1> QED
  BY <1>8, <1>10, <1>11, <1>13, <1>12 DEF StreamInv

\* A number that is drawn is not visible yet.
LEMMA DrawKeepsInv ==
  ASSUME StreamInv, StreamTypeOK', NEW s \in Streams, DrawNumber(s)
  PROVE  StreamInv'
<1> DEFINE i == Len(published[s]) + 1
<1>0. StreamTypeOK /\ NumbersInv /\ LogInv /\ OffsetsInv /\ BatchInv /\ ConsumerInv /\ CutoffInv /\ RestoreInv
  BY DEF StreamInv
<1>1. /\ published' = [published EXCEPT ![s] = Append(@, i)]
      /\ under_way' = [under_way EXCEPT ![s] = @ \cup {i}]
      /\ UNCHANGED <<store, streams, highest, late, stream_offsets, pruner, prunes, consumerVars>>
      /\ Len(published[s]) < MaxEvents /\ store \in {"postgres", "redis"}
  BY DEF DrawNumber, NextSequenceNo
<1>2. i \in 1 .. MaxEvents
  BY <1>0, <1>1, NextNumberType
<1>3. /\ Len(published[s]) \in Nat /\ DOMAIN published[s] = 1 .. Len(published[s])
      /\ highest[s] \in Nat /\ highest[s] <= Len(published[s])
  BY <1>0, StreamTypes DEF NumbersInv
<1>4. /\ i = Len(published[s]) + 1 /\ DOMAIN published'[s] = 1 .. i /\ Len(published'[s]) = i
      /\ \A m \in DOMAIN published[s] : published'[s][m] = published[s][m]
      /\ published'[s][i] = i
      /\ \A t \in Streams \ {s} : published'[t] = published[t]
  BY <1>0, <1>1, <1>2, NumberAppended
<1>5. \A t \in Streams : highest[t] <= highest[t]
  BY <1>0, StreamTypes
<1>6. NumbersGrow
  BY <1>0, <1>1, <1>2, <1>5, NumberAppended DEF NumbersGrow
<1> HIDE DEF i
<1>7. LogInv'
  BY <1>0, <1>1, <1>6, LogKept
<1>8. LogStep
  BY <1>0, <1>1, <1>6, DueByArrival
<1>9. OffsetsInv' /\ BatchInv' /\ ConsumerInv'
  BY <1>0, <1>1, <1>8, LogStepKeepsConsumers
<1>10. CutoffInv'
  BY <1>0, <1>1, <1>8, CutoffKept DEF consumerVars
<1>11. RestoreInv'
  BY <1>0, <1>1, <1>8, RestoreKept
<1>12. NumbersInv'
  <2> SUFFICES ASSUME NEW t \in Streams
               PROVE  /\ highest[t] <= Len(published'[t])
                      /\ under_way'[t] \subseteq DOMAIN published'[t] \ {highest[t]}
                      /\ \A m \in DOMAIN published'[t] : published'[t][m] = m
    BY <1>1 DEF NumbersInv
  <2>1. /\ under_way[t] \subseteq DOMAIN published[t] \ {highest[t]}
        /\ \A m \in DOMAIN published[t] : published[t][m] = m
        /\ highest[t] <= Len(published[t])
    BY <1>0, <1>1 DEF NumbersInv
  <2>2. CASE t # s
    BY <1>0, <1>1, <1>4, <2>1, <2>2 DEF StreamTypeOK
  <2>3. CASE t = s
    <3>1. under_way'[s] = under_way[s] \cup {i}
      BY <1>0, <1>1 DEF StreamTypeOK
    <3>2. \A m \in DOMAIN published'[s] : published'[s][m] = m
      BY <1>3, <1>4, <2>1, <2>3
    <3>3. highest[s] <= Len(published'[s]) /\ i # highest[s]
      BY <1>3, <1>4
    <3>4. under_way[s] \cup {i} \subseteq DOMAIN published'[s] \ {highest[s]}
      BY <1>2, <1>3, <1>4, <2>1, <2>3, <3>3
    <3> QED
      BY <2>3, <3>1, <3>2, <3>3, <3>4
  <2> QED
    BY <2>2, <2>3
<1> QED
  BY <1>7, <1>9, <1>10, <1>11, <1>12 DEF StreamInv

\* An event that becomes visible is late, or has the highest number.
LEMMA BecomeVisibleKeepsInv ==
  ASSUME StreamInv, StreamTypeOK', NEW s \in Streams, NEW i \in 1 .. MaxEvents, BecomeVisible(s, i)
  PROVE  StreamInv'
<1>0. StreamTypeOK /\ NumbersInv /\ LogInv /\ OffsetsInv /\ BatchInv /\ ConsumerInv /\ CutoffInv /\ RestoreInv
  BY DEF StreamInv
<1>1. /\ Arrive(s, i, published[s][i])
      /\ i \in under_way[s] /\ under_way' = [under_way EXCEPT ![s] = @ \ {i}]
      /\ UNCHANGED <<store, published, stream_offsets, pruner, prunes, consumerVars>>
  BY DEF BecomeVisible
<1>2. /\ store \notin {"memory", "sqlite"} /\ i \in DOMAIN published[s] /\ i # highest[s]
      /\ \A t \in Streams : \A m \in DOMAIN published[t] : published[t][m] = m
  BY <1>0, <1>1 DEF NumbersInv
<1>3. Arrive(s, i, i) /\ published[s][i] = i /\ i \in Nat
  BY <1>1, <1>2
<1>4. /\ highest[s] \in Nat /\ highest[s] <= Len(published[s])
      /\ Len(published[s]) \in Nat /\ DOMAIN published[s] = 1 .. Len(published[s])
  BY <1>0, StreamTypes DEF NumbersInv
<1>5. NumbersGrow
  BY <1>0, <1>1, <1>3, HighestAfter DEF NumbersGrow
<1>6. i \in Punctual(s)' => i > highest[s]
  <2>1. i \notin late'[s] => ~ (i < highest[s])
    BY <1>0, <1>3, HighestAfter
  <2> QED
    BY <1>2, <1>3, <1>4, <2>1 DEF Punctual
<1>7. /\ LogInv'
      /\ \A t \in Streams : \A k \in DOMAIN streams[t] :
           k \in DOMAIN streams'[t] /\ streams'[t][k] = streams[t][k]
      /\ \A t \in Streams : \A k \in DOMAIN streams'[t] :
           \/ \E q \in DOMAIN streams[t] : streams[t][q] = streams'[t][k]
           \/ streams'[t][k].payload \in Punctual(t)' =>
                published'[t][streams'[t][k].payload] > highest[t]
  BY <1>0, <1>1, <1>2, <1>3, <1>5, <1>6, ArrivalKeepsLog
<1>8. LogStep
  BY <1>0, <1>1, <1>5, <1>7, DueByArrival
<1>9. OffsetsInv' /\ BatchInv' /\ ConsumerInv'
  BY <1>0, <1>1, <1>8, LogStepKeepsConsumers
<1>10. CutoffInv'
  BY <1>0, <1>1, <1>8, CutoffKept DEF consumerVars
<1>11. RestoreInv'
  <2>1. pruner.pc = "listed" => pruner.stream \in Streams
    BY <1>0, PrunerType DEF Working
  <2> QED
    BY <1>0, <1>1, <1>7, <1>8, <2>1, RestoreKept
<1>12. NumbersInv'
  <2> SUFFICES ASSUME NEW t \in Streams
               PROVE  /\ highest'[t] <= Len(published[t])
                      /\ under_way'[t] \subseteq DOMAIN published[t] \ {highest'[t]}
    BY <1>1, <1>2 DEF NumbersInv
  <2>1. highest[t] <= Len(published[t]) /\ under_way[t] \subseteq DOMAIN published[t] \ {highest[t]}
    BY <1>0 DEF NumbersInv
  <2>2. CASE t # s
    <3>1. highest'[t] = highest[t]
      BY <1>0, <1>3, <2>2, HighestAfter
    <3> QED
      BY <1>0, <1>1, <2>1, <2>2, <3>1 DEF StreamTypeOK
  <2>3. CASE t = s
    <3>1. highest'[s] = IF i > highest[s] THEN i ELSE highest[s]
      BY <1>0, <1>3, HighestAfter
    <3>2. under_way'[s] = under_way[s] \ {i}
      BY <1>0, <1>1 DEF StreamTypeOK
    <3> QED
      BY <1>2, <1>4, <2>1, <2>3, <3>1, <3>2
  <2> QED
    BY <2>2, <2>3
<1> QED
  BY <1>7, <1>9, <1>10, <1>11, <1>12 DEF StreamInv

----------------------------------------------------------------------------
(* Pruning                                                                  *)

\* What changes no number.
LEMMA SameNumbers ==
  ASSUME StreamTypeOK, UNCHANGED <<published, highest, late>>
  PROVE  /\ NumbersGrow
         /\ \A s \in Streams : Punctual(s)' = Punctual(s) /\ UniquelyNumbered(s)' = UniquelyNumbered(s)
<1>1. \A s \in Streams : highest[s] <= highest[s]
  BY StreamTypes
<1> QED
  BY <1>1 DEF NumbersGrow, Punctual, UniquelyNumbered

\* Removing the events up to a number makes nothing due.
LEMMA RemovalKeepsInv ==
  ASSUME StreamInv, StreamTypeOK', NEW s \in Streams, NEW n \in Int, NEW kept \in Above(streams[s], n),
         streams' = [streams EXCEPT ![s] = kept], pruner' = NoPrune,
         UNCHANGED <<store, published, under_way, highest, late, stream_offsets, consumerVars>>
  PROVE  StreamInv'
<1>0. StreamTypeOK /\ NumbersInv /\ LogInv /\ OffsetsInv /\ BatchInv /\ ConsumerInv
  BY DEF StreamInv
<1>1. streams[s] \in Seq(Event) /\ streams'[s] = kept /\ \A t \in Streams \ {s} : streams'[t] = streams[t]
  BY <1>0 DEF StreamTypeOK
<1>2. /\ kept \in Seq(Event) /\ Len(kept) <= Len(streams[s])
      /\ \A k \in DOMAIN kept : \E q \in DOMAIN streams[s] : kept[k] = streams[s][q]
      /\ Ordered(Punctual(s), streams[s]) => Ordered(Punctual(s), kept)
  BY <1>1, KeptAbove
<1>3. NumbersGrow /\ \A t \in Streams : Punctual(t)' = Punctual(t)
  BY <1>0, SameNumbers
<1>4. pruner'.pc = "idle"
  BY DEF NoPrune
<1>5. \A t \in Streams : \A k \in DOMAIN streams'[t] : \E q \in DOMAIN streams[t] : streams[t][q] = streams'[t][k]
  BY <1>1, <1>2
<1>6. LogInv'
  <2> SUFFICES ASSUME NEW t \in Streams
               PROVE  /\ \A k \in DOMAIN streams'[t] : Genuine(published[t], highest[t], streams'[t][k])
                      /\ Ordered(Punctual(t), streams'[t])
    BY <1>3 DEF LogInv
  <2>1. \A k \in DOMAIN streams[t] : Genuine(published[t], highest[t], streams[t][k])
    BY <1>0 DEF LogInv
  <2>2. Ordered(Punctual(t), streams[t])
    BY <1>0 DEF LogInv
  <2> QED
    BY <1>1, <1>2, <1>5, <2>1, <2>2
<1>7. LogStep
  <2> SUFFICES ASSUME NEW t \in Streams, NEW i \in Due(t)' PROVE i \in Due(t)
    BY <1>3 DEF LogStep
  <2>1. i \in Punctual(t) /\ i \in Retained(t)'
    BY <1>3, <1>4 DEF Due, Parked
  <2>2. i \in Retained(t)
    BY <1>5, <2>1 DEF Retained, Payloads
  <2> QED
    BY <2>1, <2>2 DEF Due
<1>8. OffsetsInv' /\ BatchInv' /\ ConsumerInv'
  BY <1>0, <1>7, LogStepKeepsConsumers
<1>9. CutoffInv' /\ RestoreInv'
  BY <1>4 DEF CutoffInv, RestoreInv
<1>10. NumbersInv'
  <2>1. Len(kept) <= highest[s] \/ store # "memory"
    BY <1>0, <1>2, StreamTypes, LenProperties DEF NumbersInv
  <2>2. \A t \in Streams : store = "memory" => Len(streams'[t]) <= highest[t]
    BY <1>0, <1>1, <2>1 DEF NumbersInv
  <2> QED
    BY <1>0, <2>2 DEF NumbersInv
<1> QED
  BY <1>6, <1>8, <1>9, <1>10 DEF StreamInv

\* Steps that change the prune and nothing that is stored.
LEMMA PrunerStepKeepsInv ==
  ASSUME StreamInv, StreamTypeOK', UNCHANGED <<store, logVars, stream_offsets, consumerVars>>,
         pruner.pc # "deleted", pruner'.pc # "deleted"
  PROVE  /\ LogStep
         /\ NumbersInv' /\ LogInv' /\ OffsetsInv' /\ BatchInv' /\ ConsumerInv'
<1>0. StreamTypeOK /\ NumbersInv /\ LogInv /\ OffsetsInv /\ BatchInv /\ ConsumerInv /\ RestoreInv
  BY DEF StreamInv
<1>1. UNCHANGED <<streams, published, under_way, highest, late>>
  BY DEF logVars
<1>2. NumbersGrow
  BY <1>0, <1>1, SameNumbers
<1>3. LogStep
  BY <1>0, <1>1, <1>2, DueByArrival
<1>4. LogInv'
  BY <1>0, <1>1, <1>2, LogKept
<1>5. OffsetsInv' /\ BatchInv' /\ ConsumerInv'
  BY <1>0, <1>3, LogStepKeepsConsumers
<1>6. NumbersInv'
  BY <1>0, <1>1 DEF NumbersInv
<1> QED
  BY <1>3, <1>4, <1>5, <1>6

\* Up to the cutoff every group that is known has handled what is due.
LEMMA CutoffSkipsNothing ==
  ASSUME StreamTypeOK, OffsetsInv, NEW s \in Streams, NEW n \in Throughs, NEW g \in KnownGroups(s)
  PROVE  g \in Groups /\ Cutoff(s, n) \in Nat /\ HandledUpTo(s, g, Cutoff(s, n))
<1>1. /\ Cutoff(s, n) \in 0 .. MaxEvents /\ stream_offsets[<<s, g>>] \in Nat
      /\ Cutoff(s, n) <= stream_offsets[<<s, g>>] /\ g \in Groups /\ stream_offsets[<<s, g>>] # NoOffset
  BY CutoffIsLeast DEF KnownGroups
<1>2. HandledUpTo(s, g, stream_offsets[<<s, g>>])
  BY <1>1 DEF OffsetsInv
<1>3. highest[s] \in Nat /\ MaxEvents \in Nat /\ \A i \in Due(s) : published[s][i] \in 1 .. MaxEvents
  BY StreamTypes, DueIsPublished
<1> QED
  BY <1>1, <1>2, <1>3 DEF HandledUpTo

\* The offsets that were read bound the cutoff.
LEMMA PruneReadOffsetsKeepsInv ==
  ASSUME StreamInv, StreamTypeOK', NEW s \in Streams, NEW n \in Throughs, PruneReadOffsets(s, n)
  PROVE  StreamInv'
<1>0. StreamTypeOK /\ OffsetsInv
  BY DEF StreamInv
<1>1. /\ store \in {"sqlite", "redis"} /\ pruner.pc = "idle"
      /\ pruner'.pc = "cutoff" /\ pruner'.stream = s /\ pruner'.cutoff = Cutoff(s, n)
      /\ pruner'.known = KnownGroups(s)
      /\ UNCHANGED <<store, logVars, stream_offsets, consumerVars>>
  BY <1>0, PrunerType DEF PruneReadOffsets
<1>2. /\ LogStep
      /\ NumbersInv' /\ LogInv' /\ OffsetsInv' /\ BatchInv' /\ ConsumerInv'
  BY <1>1, PrunerStepKeepsInv
<1>3. CutoffInv'
  <2> SUFFICES ASSUME NEW g \in KnownGroups(s)
               PROVE  /\ Cutoff(s, n) <= highest'[s]
                      /\ \A i \in Due(s)' : published'[s][i] <= Cutoff(s, n) => i \in handled'[<<s, g>>]
    BY <1>1 DEF CutoffInv, HandledUpTo
  <2>1. g \in Groups /\ Cutoff(s, n) \in Nat /\ HandledUpTo(s, g, Cutoff(s, n))
    BY <1>0, CutoffSkipsNothing
  <2>2. handled' = handled
    BY <1>1 DEF consumerVars
  <2> QED
    BY <1>0, <1>2, <2>1, <2>2, HandledUpToKept
<1>4. RestoreInv'
  BY <1>1 DEF RestoreInv
<1> QED
  BY <1>2, <1>3, <1>4 DEF StreamInv

\* prune_events of the memory backend and of Postgres, and the DELETE of SQLite.
LEMMA DeleteKeepsInv ==
  ASSUME StreamInv, StreamTypeOK',
         (\E s \in Streams, n \in Throughs : prune_events(s, n)) \/ PruneDelete
  PROVE  StreamInv'
<1>0. StreamTypeOK /\ CutoffInv
  BY DEF StreamInv
<1>1. ASSUME NEW s \in Streams, NEW n \in Throughs, prune_events(s, n) PROVE StreamInv'
  <2>1. PICK kept \in Above(streams[s], Cutoff(s, n)) : streams' = [streams EXCEPT ![s] = kept]
    BY <1>1 DEF prune_events
  <2>2. pruner' = NoPrune
    BY <1>0, <1>1, PrunerType DEF prune_events, CutoffInv
  <2>3. Cutoff(s, n) \in Int
    BY <1>0, CutoffIsLeast, StreamAssumption
  <2>4. UNCHANGED <<store, published, under_way, highest, late, stream_offsets, consumerVars>>
    BY <1>1 DEF prune_events
  <2> QED
    BY <2>1, <2>2, <2>3, <2>4, RemovalKeepsInv
<1>2. CASE PruneDelete
  <2>1. pruner.stream \in Streams /\ pruner.cutoff \in Int
    BY <1>0, <1>2, PrunerType, StreamAssumption DEF PruneDelete, Working
  <2>2. PICK kept \in Above(streams[pruner.stream], pruner.cutoff) :
          streams' = [streams EXCEPT ![pruner.stream] = kept]
    BY <1>2 DEF PruneDelete
  <2>3. /\ pruner' = NoPrune
        /\ UNCHANGED <<store, published, under_way, highest, late, stream_offsets, consumerVars>>
    BY <1>2 DEF PruneDelete
  <2> QED
    BY <2>1, <2>2, <2>3, RemovalKeepsInv
<1> QED
  BY <1>1, <1>2

\* LRANGE: what is retained is in the log, in its order.
LEMMA PruneListKeepsInv ==
  ASSUME StreamInv, StreamTypeOK', PruneList
  PROVE  StreamInv'
<1> DEFINE s == pruner.stream
<1>0. StreamTypeOK /\ LogInv /\ CutoffInv
  BY DEF StreamInv
<1>1. PICK kept \in Above(streams[s], pruner.cutoff) :
        pruner' = [pruner EXCEPT !.pc = "listed", !.retained = kept]
  BY DEF PruneList
<1>2. pruner.pc = "cutoff" /\ UNCHANGED <<store, logVars, stream_offsets, consumerVars>>
  BY DEF PruneList
<1>3. s \in Streams /\ pruner.cutoff \in Int /\ pruner \in Working
  BY <1>0, <1>2, PrunerType, StreamAssumption DEF Working
<1>4. /\ pruner'.pc = "listed" /\ pruner'.stream = s /\ pruner'.cutoff = pruner.cutoff
      /\ pruner'.known = pruner.known /\ pruner'.retained = kept
  BY <1>1, <1>3 DEF Working
<1>5. /\ LogStep
      /\ NumbersInv' /\ LogInv' /\ OffsetsInv' /\ BatchInv' /\ ConsumerInv'
  BY <1>2, <1>4, PrunerStepKeepsInv
<1>6. CutoffInv'
  BY <1>0, <1>2, <1>4, <1>5, CutoffKept DEF consumerVars
<1>7. RestoreInv'
  <2>1. streams[s] \in Seq(Event)
    BY <1>0, <1>3 DEF StreamTypeOK
  <2>2. /\ \A k \in DOMAIN kept : \E q \in DOMAIN streams[s] : kept[k] = streams[s][q]
        /\ Ordered(Punctual(s), streams[s]) => Ordered(Punctual(s), kept)
    BY <1>3, <2>1, KeptAbove
  <2>3. UNCHANGED <<streams, published, highest, late>> /\ Punctual(s)' = Punctual(s)
    <3>1. UNCHANGED <<streams, published, highest, late>>
      BY <1>2 DEF logVars
    <3>2. \A t \in Streams : Punctual(t)' = Punctual(t)
      BY <1>0, <3>1, SameNumbers
    <3>3. pruner'.stream = pruner.stream
      BY <1>4
    <3> QED
      BY <1>3, <3>1, <3>2, <3>3 DEF Punctual, UniquelyNumbered
  <2>4. /\ \A k \in DOMAIN streams[s] : Genuine(published[s], highest[s], streams[s][k])
        /\ Ordered(Punctual(s), streams[s])
    BY <1>0, <1>3 DEF LogInv
  <2>5. /\ \A m \in DOMAIN kept : Genuine(published[s], highest[s], kept[m])
        /\ Ordered(Punctual(s), kept)
        /\ \A m \in DOMAIN kept : \E k \in DOMAIN streams[s] : streams[s][k] = kept[m]
    BY <2>2, <2>4
  <2> QED
    BY <1>4, <2>3, <2>5 DEF RestoreInv, Punctual, UniquelyNumbered
<1> QED
  BY <1>5, <1>6, <1>7 DEF StreamInv

\* DEL: what is due is in the hands of the prune.
LEMMA PruneDelKeepsInv ==
  ASSUME StreamInv, StreamTypeOK', PruneDel
  PROVE  StreamInv'
<1>0. StreamTypeOK /\ NumbersInv /\ LogInv /\ OffsetsInv /\ BatchInv /\ ConsumerInv /\ CutoffInv /\ RestoreInv
  BY DEF StreamInv
<1>1. /\ store = "redis" /\ pruner.pc = "listed"
      /\ streams' = [streams EXCEPT ![pruner.stream] = <<>>]
      /\ pruner' = [pruner EXCEPT !.pc = "deleted"]
      /\ UNCHANGED <<store, published, under_way, highest, late, stream_offsets, prunes, consumerVars>>
  BY DEF PruneDel
<1>2. pruner.stream \in Streams /\ pruner \in Working
  BY <1>0, <1>1, PrunerType DEF Working
<1>3. /\ pruner'.pc = "deleted" /\ pruner'.stream = pruner.stream /\ pruner'.cutoff = pruner.cutoff
      /\ pruner'.known = pruner.known /\ pruner'.retained = pruner.retained
  BY <1>1, <1>2 DEF Working
<1>4. NumbersGrow /\ \A t \in Streams : Punctual(t)' = Punctual(t)
  BY <1>0, <1>1, SameNumbers
<1>5. streams'[pruner.stream] = <<>> /\ \A t \in Streams \ {pruner.stream} : streams'[t] = streams[t]
  BY <1>0, <1>1, <1>2 DEF StreamTypeOK
<1>6. LogInv'
  <2> SUFFICES ASSUME NEW t \in Streams
               PROVE  /\ \A k \in DOMAIN streams'[t] : Genuine(published[t], highest[t], streams'[t][k])
                      /\ Ordered(Punctual(t), streams'[t])
    BY <1>1, <1>4 DEF LogInv
  <2>1. CASE t = pruner.stream
    BY <1>5, <2>1 DEF Ordered
  <2>2. CASE t # pruner.stream
    BY <1>0, <1>5, <2>2 DEF LogInv
  <2> QED BY <2>1, <2>2
<1>7. LogStep
  <2> SUFFICES ASSUME NEW t \in Streams, NEW i \in Due(t)' PROVE i \in Due(t)
    BY <1>4 DEF LogStep
  <2>1. i \in Punctual(t) /\ (i \in Retained(t)' \/ i \in Parked(t)')
    BY <1>4 DEF Due, Parked
  <2>2. CASE i \in Retained(t)'
    <3>1. t # pruner.stream /\ streams'[t] = streams[t]
      BY <1>5, <2>2 DEF Retained, Payloads
    <3> QED
      BY <2>1, <2>2, <3>1 DEF Due, Retained, Payloads
  <2>3. CASE i \in Parked(t)'
    <3>1. t = pruner.stream /\ \E m \in DOMAIN pruner.retained : pruner.retained[m].payload = i
      BY <1>3, <2>3 DEF Parked
    <3>2. i \in Retained(t)
      BY <1>0, <1>1, <3>1 DEF RestoreInv, Retained, Payloads
    <3> QED
      BY <2>1, <3>2 DEF Due
  <2> QED BY <2>1, <2>2, <2>3
<1>8. OffsetsInv' /\ BatchInv' /\ ConsumerInv'
  BY <1>0, <1>1, <1>7, LogStepKeepsConsumers
<1>9. CutoffInv'
  BY <1>0, <1>1, <1>3, <1>7, CutoffKept DEF consumerVars
<1>10. RestoreInv'
  BY <1>0, <1>1, <1>3, <1>7, RestoreKept
<1>11. NumbersInv'
  BY <1>0, <1>1 DEF NumbersInv
<1> QED
  BY <1>6, <1>8, <1>9, <1>10, <1>11 DEF StreamInv

\* RPUSH: what was overtaken in the meantime is late.
LEMMA PruneRestoreKeepsInv ==
  ASSUME StreamInv, StreamTypeOK', PruneRestore
  PROVE  StreamInv'
<1> DEFINE s == pruner.stream
           log == streams[s]
           retained == pruner.retained
<1>0. StreamTypeOK /\ NumbersInv /\ LogInv /\ OffsetsInv /\ BatchInv /\ ConsumerInv /\ CutoffInv /\ RestoreInv
  BY DEF StreamInv
<1>1. /\ store = "redis" /\ pruner.pc = "deleted" /\ pruner' = NoPrune
      /\ streams' = [streams EXCEPT ![s] = @ \o retained]
      /\ late' = [late EXCEPT ![s] = @ \cup
           {retained[i].payload : i \in {i \in DOMAIN retained : \E k \in DOMAIN log :
              log[k].sequence_no > retained[i].sequence_no}}]
      /\ UNCHANGED <<store, published, under_way, highest, stream_offsets, prunes, consumerVars>>
  BY DEF PruneRestore
<1>2. s \in Streams /\ retained \in Seq(Event) /\ log \in Seq(Event) /\ pruner'.pc = "idle"
  BY <1>0, <1>1, PrunerType DEF Working, StreamTypeOK, NoPrune
<1>3. /\ \A t \in Streams : late[t] \subseteq late'[t]
      /\ \A m \in DOMAIN retained : \A k \in DOMAIN log :
           log[k].sequence_no > retained[m].sequence_no => retained[m].payload \in late'[s]
      /\ streams'[s] = log \o retained /\ \A t \in Streams \ {s} : streams'[t] = streams[t]
  BY <1>0, <1>1, <1>2 DEF StreamTypeOK
<1> HIDE DEF log, retained
<1>4. /\ Len(log) \in Nat /\ Len(retained) \in Nat
      /\ DOMAIN log = 1 .. Len(log) /\ DOMAIN retained = 1 .. Len(retained)
      /\ \A k \in DOMAIN log : log[k] \in Event
      /\ \A m \in DOMAIN retained : retained[m] \in Event
  BY <1>2, ElementOfSeq, LenProperties
<1>5. /\ DOMAIN streams'[s] = 1 .. Len(log) + Len(retained)
      /\ \A k \in 1 .. Len(log) + Len(retained) :
           streams'[s][k] = IF k <= Len(log) THEN log[k] ELSE retained[k - Len(log)]
  BY <1>2, <1>3, <1>4, ConcatProperties, LenProperties
<1>6. NumbersGrow
  <2>1. \A t \in Streams : highest[t] <= highest[t]
    BY <1>0, StreamTypes
  <2> QED
    BY <1>1, <1>3, <2>1 DEF NumbersGrow
<1>7. \A t \in Streams : Punctual(t)' \subseteq Punctual(t)
  BY <1>1, <1>3 DEF Punctual, UniquelyNumbered
<1>8. /\ \A k \in DOMAIN log : Genuine(published[s], highest[s], log[k])
      /\ \A m \in DOMAIN retained : Genuine(published[s], highest[s], retained[m])
      /\ Ordered(Punctual(s), log) /\ Ordered(Punctual(s), retained)
  BY <1>0, <1>1, <1>2 DEF LogInv, RestoreInv, log, retained
<1>9. LogInv'
  <2> SUFFICES ASSUME NEW t \in Streams
               PROVE  /\ \A k \in DOMAIN streams'[t] : Genuine(published[t], highest[t], streams'[t][k])
                      /\ Ordered(Punctual(t)', streams'[t])
    BY <1>1 DEF LogInv
  <2>1. CASE t # s
    BY <1>0, <1>3, <1>7, <2>1 DEF LogInv, Ordered
  <2>2. CASE t = s
    <3>1. \A k \in DOMAIN streams'[s] : Genuine(published[s], highest[s], streams'[s][k])
      BY <1>4, <1>5, <1>8
    <3>2. Ordered(Punctual(t)', streams'[s])
      <4> SUFFICES ASSUME NEW j \in DOMAIN streams'[s], NEW k \in DOMAIN streams'[s],
                          streams'[s][k].payload \in Punctual(t)',
                          streams'[s][j].sequence_no > streams'[s][k].sequence_no
                   PROVE  k < j
        BY DEF Ordered
      <4>1. j \in 1 .. Len(log) + Len(retained) /\ k \in 1 .. Len(log) + Len(retained)
        BY <1>5
      <4>2. streams'[s][k].payload \in Punctual(s) /\ streams'[s][k].payload \notin late'[s]
        BY <1>2, <1>7, <2>2 DEF Punctual
      <4>3. CASE k <= Len(log) /\ j <= Len(log)
        <5>1. /\ k \in DOMAIN log /\ j \in DOMAIN log
              /\ streams'[s][k] = log[k] /\ streams'[s][j] = log[j]
          BY <1>4, <1>5, <4>1, <4>3
        <5> QED
          BY <1>8, <4>2, <5>1 DEF Ordered
      <4>4. CASE k <= Len(log) /\ ~ (j <= Len(log))
        BY <1>4, <4>1, <4>4
      <4>5. CASE ~ (k <= Len(log)) /\ j <= Len(log)
        <5>1. /\ k - Len(log) \in DOMAIN retained /\ j \in DOMAIN log
              /\ streams'[s][k] = retained[k - Len(log)] /\ streams'[s][j] = log[j]
          BY <1>4, <1>5, <4>1, <4>5
        <5> QED
          BY <1>3, <4>2, <5>1
      <4>6. CASE ~ (k <= Len(log)) /\ ~ (j <= Len(log))
        <5>1. /\ k - Len(log) \in DOMAIN retained /\ j - Len(log) \in DOMAIN retained
              /\ streams'[s][k] = retained[k - Len(log)] /\ streams'[s][j] = retained[j - Len(log)]
          BY <1>4, <1>5, <4>1, <4>6
        <5>2. k - Len(log) < j - Len(log)
          BY <1>8, <4>2, <5>1 DEF Ordered
        <5> QED
          BY <1>4, <4>1, <5>2
      <4> QED
        BY <4>3, <4>4, <4>5, <4>6
    <3> QED
      BY <2>2, <3>1, <3>2
  <2> QED BY <2>1, <2>2
<1>10. LogStep
  <2> SUFFICES ASSUME NEW t \in Streams, NEW i \in Due(t)' PROVE i \in Due(t)
    BY <1>6 DEF LogStep
  <2>1. i \in Punctual(t) /\ i \notin late'[t] /\ i \in Retained(t)'
    BY <1>2, <1>7 DEF Due, Parked, Punctual
  <2>2. CASE t # s
    BY <1>3, <2>1, <2>2 DEF Due, Retained, Payloads
  <2>3. CASE t = s
    <3>1. PICK k \in DOMAIN streams'[s] : streams'[s][k].payload = i
      BY <2>1, <2>3 DEF Retained, Payloads
    <3>2. CASE k <= Len(log)
      <4>1. k \in DOMAIN log /\ log[k].payload = i
        BY <1>4, <1>5, <3>1, <3>2
      <4> QED
        BY <2>1, <2>3, <4>1 DEF Due, Retained, Payloads, log
    <3>3. CASE ~ (k <= Len(log))
      <4> DEFINE m == k - Len(log)
      <4>1. m \in DOMAIN retained /\ retained[m].payload = i
        BY <1>4, <1>5, <3>1, <3>3
      <4> HIDE DEF m
      <4>2. \A q \in DOMAIN log : log[q].sequence_no <= retained[m].sequence_no
        <5> SUFFICES ASSUME NEW q \in DOMAIN log PROVE log[q].sequence_no <= retained[m].sequence_no
          OBVIOUS
        <5>1. ~ (log[q].sequence_no > retained[m].sequence_no)
          BY <1>3, <2>1, <2>3, <4>1
        <5>2. log[q].sequence_no \in Int /\ retained[m].sequence_no \in Int
          BY <1>4, <4>1, EventType
        <5> QED BY <5>1, <5>2
      <4> QED
        BY <1>1, <2>1, <2>3, <4>1, <4>2 DEF Due, Parked, log, retained
    <3> QED BY <3>2, <3>3
  <2> QED BY <2>2, <2>3
<1>11. OffsetsInv' /\ BatchInv' /\ ConsumerInv'
  BY <1>0, <1>1, <1>10, LogStepKeepsConsumers
<1>12. CutoffInv' /\ RestoreInv'
  BY <1>2 DEF CutoffInv, RestoreInv
<1>13. NumbersInv'
  BY <1>0, <1>1 DEF NumbersInv
<1> QED
  BY <1>9, <1>11, <1>12, <1>13 DEF StreamInv

----------------------------------------------------------------------------
(* The consumers                                                            *)

\* What a step of a consumer leaves alone.
LEMMA SameLog ==
  ASSUME UNCHANGED <<logVars, pruner>>, NEW s \in Streams
  PROVE  /\ UNCHANGED <<streams, published, under_way, highest, late, pruner>>
         /\ Punctual(s)' = Punctual(s) /\ Due(s)' = Due(s)
  BY DEF logVars, Punctual, UniquelyNumbered, Due, Parked, Retained, Payloads

\* A step of one consumer keeps the invariant if what it reads and writes skips nothing.
LEMMA ConsumerStepKeepsInv ==
  ASSUME StreamInv, StreamTypeOK', NEW c \in Consumers, UNCHANGED <<store, logVars, pruner>>,
         \A k \in Streams \X Groups : handled[k] \subseteq handled'[k],
         \A d \in Consumers \ {c} :
           pc'[d] = pc[d] /\ after_seq'[d] = after_seq[d] /\ batch'[d] = batch[d],
         HandledUpTo(stream_of[c], group_of[c], after_seq'[c]),
         SkipsNothing(stream_of[c], group_of[c], batch'[c]),
         pc'[c] \in {"reading", "handled", "acking"} => batch'[c] # <<>>,
         pc'[c] \in {"handled", "acking"} =>
           Head(batch'[c]).payload \in handled'[<<stream_of[c], group_of[c]>>],
         \A s \in Streams, g \in Groups : stream_offsets'[<<s, g>>] # NoOffset =>
           \/ stream_offsets'[<<s, g>>] = stream_offsets[<<s, g>>]
           \/ HandledUpTo(s, g, stream_offsets'[<<s, g>>])
  PROVE  StreamInv'
<1>0. StreamTypeOK /\ NumbersInv /\ LogInv /\ OffsetsInv /\ BatchInv /\ ConsumerInv /\ CutoffInv /\ RestoreInv
  BY DEF StreamInv
<1>1. \A s \in Streams :
        /\ UNCHANGED <<store, streams, published, under_way, highest, late, pruner>>
        /\ Punctual(s)' = Punctual(s) /\ Due(s)' = Due(s)
  BY SameLog
<1>2. ASSUME NEW s \in Streams, NEW g \in Groups, NEW n, HandledUpTo(s, g, n)
      PROVE  /\ n <= highest'[s]
             /\ \A i \in Due(s)' : published'[s][i] <= n => i \in handled'[<<s, g>>]
  <2>1. handled[<<s, g>>] \subseteq handled'[<<s, g>>]
    OBVIOUS
  <2> QED
    BY <1>1, <1>2, <2>1 DEF HandledUpTo
<1>3. ASSUME NEW s \in Streams, NEW g \in Groups, NEW events, SkipsNothing(s, g, events)
      PROVE  \A k \in DOMAIN events :
               /\ Genuine(published'[s], highest'[s], events[k])
               /\ \A i \in Due(s)' : published'[s][i] <= events[k].sequence_no =>
                    i \in handled'[<<s, g>>] \/ \E j \in 1 .. k : events[j].payload = i
  <2>1. handled[<<s, g>>] \subseteq handled'[<<s, g>>]
    OBVIOUS
  <2> QED
    BY <1>1, <1>3, <2>1 DEF SkipsNothing
<1>4. OffsetsInv'
  <2> SUFFICES ASSUME NEW s \in Streams, NEW g \in Groups, stream_offsets'[<<s, g>>] # NoOffset
               PROVE  /\ stream_offsets'[<<s, g>>] <= highest'[s]
                      /\ \A i \in Due(s)' : published'[s][i] <= stream_offsets'[<<s, g>>] =>
                           i \in handled'[<<s, g>>]
    BY DEF OffsetsInv, HandledUpTo
  <2>1. HandledUpTo(s, g, stream_offsets'[<<s, g>>])
    BY <1>0 DEF OffsetsInv
  <2> QED BY <1>2, <2>1
<1>5. BatchInv'
  <2> SUFFICES ASSUME NEW d \in Consumers
               PROVE  /\ HandledUpTo(stream_of[d], group_of[d], after_seq[d])'
                      /\ SkipsNothing(stream_of[d], group_of[d], batch[d])'
    BY DEF BatchInv
  <2>1. /\ HandledUpTo(stream_of[d], group_of[d], after_seq'[d])
        /\ SkipsNothing(stream_of[d], group_of[d], batch'[d])
    BY <1>0 DEF BatchInv
  <2>2. stream_of[d] \in Streams /\ group_of[d] \in Groups
    BY StreamAssumption
  <2>3. HandledUpTo(stream_of[d], group_of[d], after_seq[d])'
    BY <1>2, <2>1, <2>2 DEF HandledUpTo
  <2>4. SkipsNothing(stream_of[d], group_of[d], batch[d])'
    BY <1>3, <2>1, <2>2 DEF SkipsNothing
  <2> QED BY <2>3, <2>4
<1>6. ConsumerInv'
  <2> SUFFICES ASSUME NEW d \in Consumers
               PROVE  /\ pc'[d] \in {"reading", "handled", "acking"} => batch'[d] # <<>>
                      /\ pc'[d] \in {"handled", "acking"} =>
                           Head(batch'[d]).payload \in handled'[<<stream_of[d], group_of[d]>>]
    BY DEF ConsumerInv
  <2>1. <<stream_of[d], group_of[d]>> \in Streams \X Groups
    BY StreamAssumption
  <2> QED
    BY <1>0, <2>1 DEF ConsumerInv
<1>7. CutoffInv'
  <2> SUFFICES ASSUME pruner.pc # "idle"
               PROVE  /\ store \in {"sqlite", "redis"}
                      /\ \A g \in pruner.known : HandledUpTo(pruner.stream, g, pruner.cutoff)'
    BY <1>1, StreamAssumption DEF CutoffInv
  <2>1. pruner.stream \in Streams /\ pruner.known \subseteq Groups
    BY <1>0, PrunerType DEF Working
  <2>2. /\ store \in {"sqlite", "redis"}
        /\ \A g \in pruner.known : HandledUpTo(pruner.stream, g, pruner.cutoff)
    BY <1>0 DEF CutoffInv
  <2> QED
    BY <1>1, <1>2, <2>1, <2>2 DEF HandledUpTo
<1>8. NumbersInv' /\ LogInv'
  BY <1>0, <1>1 DEF NumbersInv, LogInv
<1>9. RestoreInv'
  <2>1. pruner.pc \in {"listed", "deleted"} => pruner.stream \in Streams
    BY <1>0, PrunerType DEF Working
  <2> QED
    BY <1>0, <1>1, <2>1 DEF RestoreInv
<1> QED
  BY <1>4, <1>5, <1>6, <1>7, <1>8, <1>9 DEF StreamInv

\* Nothing is due up to 0.
LEMMA NothingUpToZero ==
  ASSUME StreamTypeOK, NEW s \in Streams, NEW g \in Groups
  PROVE  HandledUpTo(s, g, 0) /\ SkipsNothing(s, g, <<>>)
<1>1. highest[s] \in Nat /\ \A i \in Due(s) : published[s][i] \in 1 .. MaxEvents
  BY StreamTypes, DueIsPublished
<1> QED
  BY <1>1, StreamAssumption DEF HandledUpTo, SkipsNothing

\* read_events after an offset that skips nothing reads a batch that skips nothing.
LEMMA ReadSkipsNothing ==
  ASSUME StreamTypeOK, LogInv, RestoreInv, NEW s \in Streams, NEW g \in Groups, NEW after \in Nat,
         NEW limit \in Int, NEW events \in EventsAfter(s, after, limit), HandledUpTo(s, g, after)
  PROVE  SkipsNothing(s, g, events)
<1> SUFFICES ASSUME NEW k \in DOMAIN events
             PROVE  /\ Genuine(published[s], highest[s], events[k])
                    /\ \A i \in Due(s) : published[s][i] <= events[k].sequence_no =>
                         i \in handled[<<s, g>>] \/ \E j \in 1 .. k : events[j].payload = i
  BY DEF SkipsNothing
<1>1. PICK r \in DOMAIN streams[s] :
        /\ events[k] = streams[s][r]
        /\ \A q \in DOMAIN streams[s] : streams[s][q].sequence_no > after =>
             \/ \E j \in 1 .. k : events[j] = streams[s][q]
             \/ streams[s][r].sequence_no < streams[s][q].sequence_no
             \/ r < q
  BY BatchIsRead
<1>2. k \in Nat \ {0}
  BY BatchIsRead, LenProperties
<1>3. \A q \in DOMAIN streams[s] :
        /\ Genuine(published[s], highest[s], streams[s][q])
        /\ streams[s][q].sequence_no \in Nat /\ q \in Nat
  <2> SUFFICES ASSUME NEW q \in DOMAIN streams[s]
               PROVE  /\ Genuine(published[s], highest[s], streams[s][q])
                      /\ streams[s][q].sequence_no \in Nat /\ q \in Nat
    OBVIOUS
  <2>1. streams[s][q] \in Event /\ q \in Nat
    BY StreamTypes
  <2> QED
    BY <2>1, EventType DEF LogInv
<1>4. ASSUME NEW i \in Due(s), published[s][i] <= events[k].sequence_no, i \notin handled[<<s, g>>]
      PROVE  \E j \in 1 .. k : events[j].payload = i
  <2>1. i \in Punctual(s) /\ i \in DOMAIN published[s] /\ published[s][i] \in Nat
    BY DueIsPublished, StreamTypes
  <2>2. published[s][i] > after
    BY <1>4, <2>1 DEF HandledUpTo
  <2>3. ASSUME events[k].sequence_no = published[s][i] PROVE events[k].payload = i
    BY <1>1, <1>3, <2>1, <2>3 DEF Genuine, Punctual, UniquelyNumbered
  <2>4. CASE events[k].sequence_no = published[s][i]
    BY <1>2, <2>3, <2>4
  <2>5. CASE events[k].sequence_no # published[s][i] /\ i \in Retained(s)
    <3>1. PICK q \in DOMAIN streams[s] : streams[s][q].payload = i
      BY <2>5 DEF Retained, Payloads
    <3>2. streams[s][q].sequence_no = published[s][i]
      BY <1>3, <3>1 DEF Genuine
    <3>3. streams[s][r].sequence_no > streams[s][q].sequence_no
      BY <1>1, <1>3, <1>4, <2>1, <2>5, <3>2
    <3>4. q < r
      BY <2>1, <3>1, <3>3 DEF LogInv, Ordered
    <3>5. \E j \in 1 .. k : events[j] = streams[s][q]
      BY <1>1, <1>3, <2>2, <3>2, <3>3, <3>4
    <3> QED
      BY <3>1, <3>5
  <2>6. CASE events[k].sequence_no # published[s][i] /\ i \in Parked(s)
    <3>1. PICK m \in DOMAIN pruner.retained :
            /\ pruner.retained[m].payload = i
            /\ \A q \in DOMAIN streams[s] : streams[s][q].sequence_no <= pruner.retained[m].sequence_no
      BY <2>6 DEF Parked
    <3>2. pruner.retained[m].sequence_no = published[s][i]
      BY <2>6, <3>1 DEF Parked, RestoreInv, Genuine
    <3> QED
      BY <1>1, <1>3, <1>4, <2>1, <2>6, <3>1, <3>2
  <2> QED
    BY <2>4, <2>5, <2>6 DEF Due
<1> QED
  BY <1>1, <1>3, <1>4

\* A consumer that has handled the first event of its batch may acknowledge it and go on.
LEMMA HeadIsHandled ==
  ASSUME StreamInv, NEW c \in Consumers, pc[c] \in {"handled", "acking"}
  PROVE  /\ HandledUpTo(stream_of[c], group_of[c], Head(batch[c]).sequence_no)
         /\ SkipsNothing(stream_of[c], group_of[c], Tail(batch[c]))
<1> DEFINE s == stream_of[c]
           g == group_of[c]
<1>0. StreamTypeOK /\ BatchInv /\ ConsumerInv
  BY DEF StreamInv
<1>1. /\ Len(batch[c]) \in Nat \ {0} /\ DOMAIN batch[c] = 1 .. Len(batch[c])
      /\ Head(batch[c]) = batch[c][1]
      /\ DOMAIN Tail(batch[c]) = 1 .. Len(batch[c]) - 1
      /\ \A k \in DOMAIN Tail(batch[c]) : Tail(batch[c])[k] = batch[c][k + 1]
  BY <1>0, HeadType
<1>2. SkipsNothing(s, g, batch[c]) /\ batch[c][1].payload \in handled[<<s, g>>]
  BY <1>0, <1>1 DEF BatchInv, ConsumerInv
<1>3. HandledUpTo(s, g, batch[c][1].sequence_no)
  <2>1. 1 \in DOMAIN batch[c]
    BY <1>1
  <2> QED
    BY <1>2, <2>1 DEF SkipsNothing, HandledUpTo, Genuine
<1>4. SkipsNothing(s, g, Tail(batch[c]))
  <2> SUFFICES ASSUME NEW k \in DOMAIN Tail(batch[c])
               PROVE  /\ Genuine(published[s], highest[s], Tail(batch[c])[k])
                      /\ \A i \in Due(s) : published[s][i] <= Tail(batch[c])[k].sequence_no =>
                           i \in handled[<<s, g>>] \/ \E j \in 1 .. k : Tail(batch[c])[j].payload = i
    BY DEF SkipsNothing
  <2>1. k \in 1 .. Len(batch[c]) - 1 /\ k + 1 \in DOMAIN batch[c] /\ Tail(batch[c])[k] = batch[c][k + 1]
    BY <1>1
  <2>2. Genuine(published[s], highest[s], Tail(batch[c])[k])
    BY <1>2, <2>1 DEF SkipsNothing
  <2>3. ASSUME NEW i \in Due(s), published[s][i] <= Tail(batch[c])[k].sequence_no,
               i \notin handled[<<s, g>>]
        PROVE  \E j \in 1 .. k : Tail(batch[c])[j].payload = i
    <3>1. PICK j \in 1 .. k + 1 : batch[c][j].payload = i
      BY <1>2, <2>1, <2>3 DEF SkipsNothing
    <3>2. j # 1
      BY <1>2, <2>3, <3>1
    <3>3. j - 1 \in 1 .. k /\ j - 1 \in DOMAIN Tail(batch[c]) /\ (j - 1) + 1 = j
      BY <1>1, <2>1, <3>2
    <3>4. Tail(batch[c])[j - 1] = batch[c][j]
      BY <1>1, <3>3
    <3> QED
      BY <3>1, <3>3, <3>4
  <2> QED
    BY <2>2, <2>3
<1> QED
  BY <1>1, <1>3, <1>4

\* The steps of a consumer.
LEMMA ConsumerKeepsInv ==
  ASSUME StreamInv, StreamTypeOK', NEW c \in Consumers, Consume(c) \/ Stop(c)
  PROVE  StreamInv'
<1> DEFINE s == stream_of[c]
           g == group_of[c]
           key == <<s, g>>
           offset == stream_offsets[key]
<1>0. StreamTypeOK /\ OffsetsInv /\ BatchInv /\ ConsumerInv /\ LogInv /\ RestoreInv
  BY DEF StreamInv
<1>1. /\ s \in Streams /\ g \in Groups /\ key \in Streams \X Groups
      /\ offset \in 0 .. MaxEvents \cup {NoOffset} /\ MaxEvents \in Nat
      /\ DOMAIN pc = Consumers /\ DOMAIN after_seq = Consumers /\ DOMAIN batch = Consumers
      /\ DOMAIN stream_offsets = Streams \X Groups /\ DOMAIN handled = Streams \X Groups
      /\ after_seq[c] \in Nat
  BY <1>0, StreamAssumption DEF StreamTypeOK
<1>2. HandledUpTo(s, g, 0) /\ SkipsNothing(s, g, <<>>)
  BY <1>0, <1>1, NothingUpToZero
<1>3. HandledUpTo(s, g, after_seq[c]) /\ SkipsNothing(s, g, batch[c])
  BY <1>0 DEF BatchInv
<1>4. offset # NoOffset => HandledUpTo(s, g, offset)
  BY <1>0, <1>1 DEF OffsetsInv
<1>5. ASSUME pc[c] \in {"handled", "acking"}
      PROVE  HandledUpTo(s, g, Head(batch[c]).sequence_no) /\ SkipsNothing(s, g, Tail(batch[c]))
  BY <1>5, HeadIsHandled
<1>6. ASSUME pc[c] = "handled"
      PROVE  HandledUpTo(s, g, Acked(offset, Head(batch[c]).sequence_no))
  <2>1. Head(batch[c]).sequence_no \in 1 .. MaxEvents
    BY <1>0, <1>6, HeadType, EventType
  <2>2. \/ Acked(offset, Head(batch[c]).sequence_no) = Head(batch[c]).sequence_no
        \/ offset # NoOffset /\ Acked(offset, Head(batch[c]).sequence_no) = offset
    BY <1>1, <2>1, AckedType
  <2> QED
    BY <1>4, <1>5, <1>6, <2>2
<1>7. ASSUME pc[c] \in {"handled", "acking"}, NextOfBatch(c)
      PROVE  /\ batch'[c] = Tail(batch[c]) /\ pc'[c] \in {"reading", "idle"}
             /\ pc'[c] = "reading" => batch'[c] # <<>>
             /\ \A d \in Consumers \ {c} : pc'[d] = pc[d] /\ batch'[d] = batch[d]
  <2>1. /\ batch'[c] = Tail(batch[c]) /\ pc'[c] = IF Len(batch[c]) > 1 THEN "reading" ELSE "idle"
        /\ \A d \in Consumers \ {c} : pc'[d] = pc[d] /\ batch'[d] = batch[d]
    BY <1>1, <1>7 DEF NextOfBatch
  <2>2. ASSUME Len(batch[c]) > 1 PROVE Tail(batch[c]) # <<>>
    <3>1. Len(batch[c]) \in Nat /\ DOMAIN Tail(batch[c]) = 1 .. Len(batch[c]) - 1
      BY <1>0, <1>7, HeadType
    <3>2. 1 \in DOMAIN Tail(batch[c])
      BY <2>2, <3>1
    <3>3. DOMAIN <<>> = {}
      OBVIOUS
    <3> QED
      BY <3>2, <3>3
  <2> QED
    BY <2>1, <2>2
<1>8. CASE Locate(c)
  <2>1. /\ UNCHANGED <<store, logVars, stream_offsets, pruner, handled, batch>>
        /\ pc'[c] = "located" /\ after_seq'[c] = IF offset = NoOffset THEN 0 ELSE offset
        /\ \A d \in Consumers \ {c} : pc'[d] = pc[d] /\ after_seq'[d] = after_seq[d]
    BY <1>1, <1>8 DEF Locate
  <2>2. HandledUpTo(s, g, after_seq'[c])
    BY <1>2, <1>4, <2>1
  <2> QED
    BY <1>3, <2>1, <2>2, ConsumerStepKeepsInv
<1>9. CASE Read(c)
  <2>1. PICK limit \in Limits : \E events \in EventsAfter(s, after_seq[c], limit) :
          /\ batch' = [batch EXCEPT ![c] = events]
          /\ pc' = [pc EXCEPT ![c] = IF events = <<>> THEN "idle" ELSE "reading"]
    BY <1>9 DEF Read
  <2>2. PICK events \in EventsAfter(s, after_seq[c], limit) :
          /\ batch' = [batch EXCEPT ![c] = events]
          /\ pc' = [pc EXCEPT ![c] = IF events = <<>> THEN "idle" ELSE "reading"]
    BY <2>1
  <2>3. SkipsNothing(s, g, events)
    BY <1>0, <1>1, <1>3, ReadSkipsNothing, StreamAssumption
  <2>4. /\ UNCHANGED <<store, logVars, stream_offsets, pruner, handled>>
        /\ after_seq'[c] = 0 /\ batch'[c] = events
        /\ pc'[c] = IF events = <<>> THEN "idle" ELSE "reading"
        /\ \A d \in Consumers \ {c} :
             pc'[d] = pc[d] /\ after_seq'[d] = after_seq[d] /\ batch'[d] = batch[d]
    BY <1>1, <1>9, <2>2 DEF Read
  <2> QED
    BY <1>2, <2>3, <2>4, ConsumerStepKeepsInv
<1>10. CASE Handle(c)
  <2>1. /\ UNCHANGED <<store, logVars, stream_offsets, pruner, after_seq, batch>>
        /\ pc[c] = "reading" /\ pc'[c] = "handled"
        /\ Head(batch[c]).payload \in handled'[key]
        /\ \A k \in Streams \X Groups : handled[k] \subseteq handled'[k]
        /\ \A d \in Consumers \ {c} : pc'[d] = pc[d]
    BY <1>1, <1>10 DEF Handle
  <2>2. batch[c] # <<>>
    BY <1>0, <2>1 DEF ConsumerInv
  <2> QED
    BY <1>3, <2>1, <2>2, ConsumerStepKeepsInv
<1>11. CASE Acknowledge(c)
  <2>1. /\ UNCHANGED <<store, logVars, pruner, handled, after_seq>>
        /\ pc[c] = "handled" /\ NextOfBatch(c)
        /\ stream_offsets'[key] = Acked(offset, Head(batch[c]).sequence_no)
        /\ \A k \in (Streams \X Groups) \ {key} : stream_offsets'[k] = stream_offsets[k]
    BY <1>1, <1>11 DEF Acknowledge
  <2>2. \A t \in Streams, h \in Groups :
          \/ stream_offsets'[<<t, h>>] = stream_offsets[<<t, h>>]
          \/ HandledUpTo(t, h, stream_offsets'[<<t, h>>])
    BY <1>6, <2>1
  <2> QED
    BY <1>3, <1>5, <1>7, <2>1, <2>2, ConsumerStepKeepsInv
<1>12. CASE AckRead(c)
  <2>1. /\ UNCHANGED <<store, logVars, stream_offsets, pruner, handled, batch>>
        /\ pc[c] = "handled" /\ pc'[c] = "acking"
        /\ after_seq'[c] = Acked(offset, Head(batch[c]).sequence_no)
        /\ \A d \in Consumers \ {c} : pc'[d] = pc[d] /\ after_seq'[d] = after_seq[d]
    BY <1>1, <1>12 DEF AckRead
  <2>2. batch[c] # <<>> /\ Head(batch[c]).payload \in handled[key]
    BY <1>0, <2>1 DEF ConsumerInv
  <2> QED
    BY <1>3, <1>6, <2>1, <2>2, ConsumerStepKeepsInv
<1>13. CASE AckWrite(c)
  <2>1. /\ UNCHANGED <<store, logVars, pruner, handled>>
        /\ pc[c] = "acking" /\ NextOfBatch(c)
        /\ after_seq'[c] = 0 /\ \A d \in Consumers \ {c} : after_seq'[d] = after_seq[d]
        /\ stream_offsets'[key] = after_seq[c]
        /\ \A k \in (Streams \X Groups) \ {key} : stream_offsets'[k] = stream_offsets[k]
    BY <1>1, <1>13 DEF AckWrite
  <2>2. \A t \in Streams, h \in Groups :
          \/ stream_offsets'[<<t, h>>] = stream_offsets[<<t, h>>]
          \/ HandledUpTo(t, h, stream_offsets'[<<t, h>>])
    BY <1>3, <2>1
  <2> QED
    BY <1>2, <1>5, <1>7, <2>1, <2>2, ConsumerStepKeepsInv
<1>14. CASE Stop(c)
  <2>1. /\ UNCHANGED <<store, logVars, stream_offsets, pruner, handled>>
        /\ pc'[c] = "idle" /\ after_seq'[c] = 0 /\ batch'[c] = <<>>
        /\ \A d \in Consumers \ {c} :
             pc'[d] = pc[d] /\ after_seq'[d] = after_seq[d] /\ batch'[d] = batch[d]
    BY <1>1, <1>14 DEF Stop
  <2> QED
    BY <1>2, <2>1, ConsumerStepKeepsInv
<1> QED
  BY <1>8, <1>9, <1>10, <1>11, <1>12, <1>13, <1>14 DEF Consume

----------------------------------------------------------------------------
(* What leaves a log                                                        *)

\* PrunedWasHandled, of one step.
LostWasHandled ==
  \A s \in Streams : \A i \in ((Stored(s) \ Stored(s)') \cap UniquelyNumbered(s)) \ late[s] :
    \/ \A g \in Consulted(s) : i \in handled[<<s, g>>]
    \/ store = "redis" /\ published[s][i] > pruner.cutoff

\* Nothing leaves a log that keeps its events, unless a prune of Redis lets go of them.
LEMMA StoredKept ==
  ASSUME NEW s \in Streams, pruner.pc = "deleted" => UNCHANGED pruner,
         \A k \in DOMAIN streams[s] : \E q \in DOMAIN streams'[s] : streams'[s][q] = streams[s][k]
  PROVE  Stored(s) \subseteq Stored(s)'
<1>1. Retained(s) \subseteq Retained(s)'
  <2> SUFFICES ASSUME NEW k \in DOMAIN streams[s]
               PROVE  \E q \in DOMAIN streams'[s] : streams'[s][q].payload = streams[s][k].payload
    BY DEF Retained, Payloads
  <2> QED OBVIOUS
<1> QED
  BY <1>1 DEF Stored, Payloads

\* An event that becomes visible takes none away.
LEMMA ArrivalLosesNothing ==
  ASSUME StreamTypeOK, NEW s \in Streams, NEW i \in 1 .. MaxEvents, NEW seq \in 1 .. MaxEvents,
         Arrive(s, i, seq), UNCHANGED pruner
  PROVE  LostWasHandled
<1> DEFINE e == [sequence_no |-> seq, payload |-> i]
<1> SUFFICES ASSUME NEW t \in Streams PROVE Stored(t) \subseteq Stored(t)'
  BY DEF LostWasHandled
<1>1. \A k \in DOMAIN streams[t] : \E q \in DOMAIN streams'[t] : streams'[t][q] = streams[t][k]
  <2>1. CASE t = s
    <3>1. streams'[t] = Append(streams[t], e)
      BY <2>1 DEF Arrive, StreamTypeOK
    <3>2. streams[t] \in Seq(Event) /\ e \in Event
      BY DEF StreamTypeOK, Event
    <3> HIDE DEF e
    <3>3. \A k \in DOMAIN streams[t] : k \in DOMAIN streams'[t] /\ streams'[t][k] = streams[t][k]
      BY <3>1, <3>2, AppendProperties, LenProperties
    <3> QED
      BY <3>3
  <2>2. CASE t # s
    BY <2>2 DEF Arrive, StreamTypeOK
  <2> QED
    BY <2>1, <2>2
<1> QED
  BY <1>1, StoredKept

\* A removal up to a number takes away what every group has handled that has handled
\* everything up to it.
LEMMA RemovalLosesHandled ==
  ASSUME StreamTypeOK, LogInv, NEW s \in Streams, NEW n \in Int, NEW kept \in Above(streams[s], n),
         streams' = [streams EXCEPT ![s] = kept], pruner.pc # "deleted",
         \A g \in Consulted(s) : HandledUpTo(s, g, n)
  PROVE  LostWasHandled
<1> SUFFICES ASSUME NEW t \in Streams, NEW i \in Stored(t), i \notin Stored(t)', i \in Punctual(t),
                    NEW g \in Consulted(t)
             PROVE  i \in handled[<<t, g>>]
  BY DEF LostWasHandled, Punctual
<1>1. i \in Retained(t) /\ i \notin Retained(t)'
  BY DEF Stored
<1>2. t = s /\ streams'[s] = kept
  <2>1. t # s => streams'[t] = streams[t]
    BY DEF StreamTypeOK
  <2> QED
    BY <1>1, <2>1 DEF StreamTypeOK, Retained, Payloads
<1>3. PICK k \in DOMAIN streams[s] : streams[s][k].payload = i
  BY <1>1, <1>2 DEF Retained, Payloads
<1>4. ~ (streams[s][k].sequence_no > n)
  <2>1. \A q \in DOMAIN kept : kept[q] # streams[s][k]
    BY <1>1, <1>2, <1>3 DEF Retained, Payloads
  <2>2. streams[s] \in Seq(Event)
    BY DEF StreamTypeOK
  <2> QED
    BY <2>1, <2>2, KeptAbove
<1>5. streams[s][k].sequence_no = published[s][i] /\ streams[s][k].sequence_no \in Nat
  BY <1>3, StreamTypes, EventType DEF LogInv, Genuine
<1>6. i \in Due(s) /\ published[s][i] <= n
  BY <1>1, <1>2, <1>4, <1>5 DEF Due
<1> QED
  BY <1>2, <1>6 DEF HandledUpTo

\* The steps of a prune.
LEMMA PruneLosesHandled ==
  ASSUME StreamInv, Prune
  PROVE  LostWasHandled
<1> DEFINE u == pruner.stream
<1>0. StreamTypeOK /\ LogInv /\ OffsetsInv /\ CutoffInv /\ RestoreInv
  BY DEF StreamInv
<1>1. ASSUME UNCHANGED streams, pruner.pc # "deleted" PROVE LostWasHandled
  <2> SUFFICES ASSUME NEW t \in Streams PROVE Stored(t) \subseteq Stored(t)'
    BY DEF LostWasHandled
  <2> QED
    BY <1>1, StoredKept
<1>2. ASSUME NEW s \in Streams, NEW n \in Throughs, prune_events(s, n) PROVE LostWasHandled
  <2>1. PICK kept \in Above(streams[s], Cutoff(s, n)) : streams' = [streams EXCEPT ![s] = kept]
    BY <1>2 DEF prune_events
  <2>2. pruner = NoPrune /\ pruner.pc # "deleted"
    BY <1>0, <1>2, PrunerType DEF prune_events, CutoffInv
  <2>3. \A g \in Consulted(s) : HandledUpTo(s, g, Cutoff(s, n))
    BY <1>0, <2>2, CutoffSkipsNothing DEF Consulted
  <2>4. Cutoff(s, n) \in Int
    BY <1>0, CutoffIsLeast, StreamAssumption
  <2> QED
    BY <1>0, <2>1, <2>2, <2>3, <2>4, RemovalLosesHandled
<1>3. ASSUME NEW s \in Streams, NEW n \in Throughs, PruneReadOffsets(s, n) PROVE LostWasHandled
  BY <1>0, <1>1, <1>3, PrunerType DEF PruneReadOffsets, logVars
<1>4. CASE PruneDelete
  <2>1. u \in Streams /\ pruner.cutoff \in Int /\ pruner # NoPrune /\ pruner.pc = "cutoff"
    BY <1>0, <1>4, PrunerType, StreamAssumption DEF PruneDelete, Working
  <2>2. PICK kept \in Above(streams[u], pruner.cutoff) : streams' = [streams EXCEPT ![u] = kept]
    BY <1>4 DEF PruneDelete
  <2>3. \A g \in Consulted(u) : HandledUpTo(u, g, pruner.cutoff)
    BY <1>0, <2>1 DEF Consulted, CutoffInv
  <2> QED
    BY <1>0, <2>1, <2>2, <2>3, RemovalLosesHandled
<1>5. CASE PruneList
  BY <1>1, <1>5 DEF PruneList, logVars
<1>6. CASE PruneDel
  <2>1. /\ store = "redis" /\ pruner.pc = "listed" /\ pruner # NoPrune /\ pruner.cutoff \in Nat
        /\ u \in Streams /\ \A t \in Streams \ {u} : streams'[t] = streams[t]
    BY <1>0, <1>6, PrunerType, StreamAssumption DEF PruneDel, Working, StreamTypeOK
  <2> SUFFICES ASSUME NEW t \in Streams, NEW i \in Stored(t), i \notin Stored(t)', i \in Punctual(t),
                      ~ (published[t][i] > pruner.cutoff), NEW g \in pruner.known
               PROVE  i \in handled[<<t, g>>]
    BY <2>1 DEF LostWasHandled, Punctual, Consulted
  <2>2. i \in Retained(t) /\ i \notin Retained(t)'
    BY <2>1 DEF Stored
  <2>3. t = u
    BY <2>1, <2>2 DEF Retained, Payloads
  <2>4. i \in Due(u) /\ published[u][i] <= pruner.cutoff
    <3>1. i \in Due(u)
      BY <2>2, <2>3 DEF Due
    <3>2. published[u][i] \in Nat
      BY <1>0, <2>1, <3>1, DueIsPublished, StreamTypes
    <3> QED
      BY <2>1, <2>3, <3>1, <3>2
  <2>5. HandledUpTo(u, g, pruner.cutoff)
    BY <1>0, <2>1 DEF CutoffInv
  <2> QED
    BY <2>3, <2>4, <2>5 DEF HandledUpTo
<1>7. CASE PruneRestore
  <2> DEFINE log == streams[u]
             retained == pruner.retained
  <2>1. /\ u \in Streams /\ log \in Seq(Event) /\ retained \in Seq(Event)
        /\ streams'[u] = log \o retained /\ \A t \in Streams \ {u} : streams'[t] = streams[t]
    BY <1>0, <1>7, PrunerType DEF PruneRestore, Working, StreamTypeOK
  <2> SUFFICES ASSUME NEW t \in Streams, NEW i \in Stored(t) PROVE i \in Retained(t)'
    BY DEF LostWasHandled, Stored
  <2>2. CASE t # u
    BY <2>1, <2>2 DEF Stored, Retained, Payloads
  <2>3. CASE t = u
    <3>1. i \in Payloads(log) \/ i \in Payloads(retained)
      BY <2>3 DEF Stored, Retained
    <3>2. i \in Payloads(log \o retained)
      <4> HIDE DEF log, retained
      <4>1. /\ Len(log) \in Nat /\ DOMAIN log = 1 .. Len(log)
            /\ Len(retained) \in Nat /\ DOMAIN retained = 1 .. Len(retained)
            /\ DOMAIN (log \o retained) = 1 .. Len(log) + Len(retained)
            /\ \A k \in 1 .. Len(log) + Len(retained) :
                 (log \o retained)[k] = IF k <= Len(log) THEN log[k] ELSE retained[k - Len(log)]
        BY <2>1, ConcatProperties, LenProperties
      <4>2. CASE i \in Payloads(log)
        <5>1. PICK k \in DOMAIN log : log[k].payload = i
          BY <4>2 DEF Payloads
        <5>2. k \in DOMAIN (log \o retained) /\ (log \o retained)[k] = log[k]
          BY <4>1
        <5> QED
          BY <5>1, <5>2 DEF Payloads
      <4>3. CASE i \in Payloads(retained)
        <5>1. PICK m \in DOMAIN retained : retained[m].payload = i
          BY <4>3 DEF Payloads
        <5>2. /\ Len(log) + m \in DOMAIN (log \o retained)
              /\ (log \o retained)[Len(log) + m] = retained[m]
          BY <4>1
        <5> QED
          BY <5>1, <5>2 DEF Payloads
      <4> QED
        BY <3>1, <4>2, <4>3
    <3> QED
      BY <2>1, <2>3, <3>2 DEF Retained, Payloads
  <2> QED
    BY <2>2, <2>3
<1> QED
  BY <1>2, <1>3, <1>4, <1>5, <1>6, <1>7 DEF Prune

----------------------------------------------------------------------------
(* The theorems                                                             *)

\* An empty log skips nothing.
LEMMA StreamInvInitially ==
  ASSUME StreamInit
  PROVE  StreamInv
<1> USE StreamAssumption
<1>1. StreamTypeOK
  BY EmptySeq DEF StreamInit, StreamTypeOK, Pruner
<1>2. NumbersInv
  BY DEF StreamInit, NumbersInv
<1>3. LogInv /\ OffsetsInv /\ ConsumerInv
  BY DEF StreamInit, LogInv, Ordered, OffsetsInv, ConsumerInv
<1>4. BatchInv
  <2> SUFFICES ASSUME NEW c \in Consumers
               PROVE  /\ HandledUpTo(stream_of[c], group_of[c], after_seq[c])
                      /\ SkipsNothing(stream_of[c], group_of[c], batch[c])
    BY DEF BatchInv
  <2>1. after_seq[c] = 0 /\ batch[c] = <<>>
    BY DEF StreamInit
  <2> QED
    BY <1>1, <2>1, NothingUpToZero
<1>5. CutoffInv /\ RestoreInv
  BY DEF StreamInit, NoPrune, CutoffInv, RestoreInv
<1> QED
  BY <1>1, <1>2, <1>3, <1>4, <1>5 DEF StreamInv

\* Every step of the stores, of a prune and of the consumers keeps the invariant.
LEMMA StreamInvKept ==
  ASSUME StreamInv, [StreamNext]_streamVars
  PROVE  StreamInv'
<1>1. StreamTypeOK'
  BY StreamTypesKept DEF StreamInv
<1>2. CASE UNCHANGED streamVars
  <2>1. /\ UNCHANGED <<store, streams, published, under_way, highest, late, stream_offsets, pruner>>
        /\ UNCHANGED consumerVars /\ UNCHANGED <<handled, pc, after_seq, batch>>
    BY <1>2 DEF streamVars, logVars, consumerVars
  <2>2. NumbersInv' /\ ConsumerInv'
    BY <2>1 DEF StreamInv, NumbersInv, ConsumerInv
  <2>3. LogInv' /\ RestoreInv'
    BY <2>1 DEF StreamInv, LogInv, RestoreInv, Punctual, UniquelyNumbered
  <2>4. LogStep
    <3>1. NumbersGrow
      BY <2>1, StreamTypes DEF StreamInv, NumbersGrow
    <3>2. \A s \in Streams : Due(s)' = Due(s)
      BY <2>1, SameLog DEF logVars
    <3> QED BY <3>1, <3>2 DEF LogStep
  <2>5. OffsetsInv' /\ BatchInv' /\ CutoffInv'
    BY <1>1, <2>1, <2>4, LogStepKeepsConsumers, CutoffKept DEF StreamInv, consumerVars
  <2> QED
    BY <1>1, <2>2, <2>3, <2>5 DEF StreamInv
<1>3. CASE Prune
  BY <1>1, <1>3, PruneReadOffsetsKeepsInv, DeleteKeepsInv, PruneListKeepsInv, PruneDelKeepsInv,
    PruneRestoreKeepsInv DEF Prune
<1> QED
  BY <1>1, <1>2, <1>3, PublishKeepsInv, DrawKeepsInv, BecomeVisibleKeepsInv, ConsumerKeepsInv
    DEF StreamNext

\* Only a prune takes events away, and only handled ones.
LEMMA StepLosesHandled ==
  ASSUME StreamInv, [StreamNext]_streamVars
  PROVE  LostWasHandled
<1>0. StreamTypeOK /\ NumbersInv
  BY DEF StreamInv
<1>1. ASSUME UNCHANGED <<streams, pruner>> PROVE LostWasHandled
  BY <1>1, StoredKept DEF LostWasHandled
<1>2. CASE UNCHANGED streamVars
  BY <1>1, <1>2 DEF streamVars, logVars
<1>3. ASSUME NEW s \in Streams, publish(s) PROVE LostWasHandled
  <2>1. Len(published[s]) < MaxEvents /\ Arrive(s, Len(published[s]) + 1, NextSequenceNo(s))
        /\ UNCHANGED pruner
    BY <1>3 DEF publish
  <2>2. NextSequenceNo(s) \in 1 .. MaxEvents /\ Len(published[s]) + 1 \in 1 .. MaxEvents
    BY <1>0, <2>1, NextNumberType
  <2> QED
    BY <1>0, <2>1, <2>2, ArrivalLosesNothing
<1>4. ASSUME NEW s \in Streams, DrawNumber(s) PROVE LostWasHandled
  BY <1>1, <1>4 DEF DrawNumber
<1>5. ASSUME NEW s \in Streams, NEW i \in 1 .. MaxEvents, BecomeVisible(s, i) PROVE LostWasHandled
  <2>1. i \in DOMAIN published[s] /\ Arrive(s, i, published[s][i]) /\ UNCHANGED pruner
    BY <1>0, <1>5 DEF BecomeVisible, NumbersInv
  <2> QED
    BY <1>0, <2>1, StreamTypes, ArrivalLosesNothing
<1>6. ASSUME NEW c \in Consumers, Consume(c) \/ Stop(c) PROVE LostWasHandled
  BY <1>1, <1>6 DEF Consume, Locate, Read, Handle, Acknowledge, AckRead, AckWrite, Stop, logVars
<1> QED
  BY <1>2, <1>3, <1>4, <1>5, <1>6, PruneLosesHandled DEF StreamNext

\* In each of the four stores, whatever the streams, the groups and the consumers, every
\* offset, every batch that was read and every cutoff of a prune skips no event that is
\* due (publish, ack, read_events, prune_events).
THEOREM StreamInvariant ==
  StreamSpec => []StreamInv
<1>1. StreamInit => StreamInv
  BY StreamInvInitially
<1>2. StreamInv /\ [StreamNext]_streamVars => StreamInv'
  BY StreamInvKept
<1> QED
  BY <1>1, <1>2, PTL DEF StreamSpec

\* The state of the streams keeps its types: numbers, offsets and batches stay within what
\* was published (StreamBackend and its four implementations).
THEOREM StreamTypeCorrect ==
  StreamSpec => []StreamTypeOK
<1>1. StreamInv => StreamTypeOK
  BY DEF StreamInv
<1> QED
  BY <1>1, StreamInvariant, PTL

\* With any number of consumers per group, which read from stale offsets, acknowledge out of
\* order or stop half way, and although Redis may write an offset back, an event that is
\* stored at or below the offset of a group was handled by that group, unless it became
\* visible behind a later one or shares its number (read_next, ack).
THEOREM AckedEventsWereHandled ==
  StreamSpec => []AckedWasHandled
<1>1. StreamInv => AckedWasHandled
  BY DEF StreamInv, OffsetsInv, HandledUpTo, Due, Punctual, AckedWasHandled
<1> QED
  BY <1>1, StreamInvariant, PTL

\* A prune never takes away an event that a group known when the offsets were read has not
\* handled, unless it is of Redis and the event is past the cutoff (prune_events, of one
\* step in memory and Postgres, of two statements in SQLite, of four commands in Redis).
THEOREM PrunedEventsWereHandled ==
  StreamSpec => PrunedWasHandled
<1>1. StreamInv /\ [StreamNext]_streamVars => [LostWasHandled]_streamVars
  BY StepLosesHandled
<1>2. StreamSpec => [][LostWasHandled]_streamVars
  BY <1>1, StreamInvariant, PTL DEF StreamSpec
<1> QED
  BY <1>2 DEF PrunedWasHandled, LostWasHandled
=============================================================================
