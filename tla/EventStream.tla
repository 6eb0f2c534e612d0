------------------------------ MODULE EventStream ------------------------------
(***************************************************************************)
(* The event streams: the StreamBackend trait, its four implementations    *)
(* and read_next, which asks for the offset of the group first and reads   *)
(* the events after it then.                                               *)
(*                                                                         *)
(* The stores differ in what is atomic.  The memory backend holds its lock *)
(* for each call.  SQLite runs a statement at a time and prunes with two.  *)
(* Postgres draws the number of an event from a sequence before the insert *)
(* commits and becomes visible.  Redis executes a command at a time: INCR  *)
(* and RPUSH to publish, HGET and HSET to acknowledge, HGETALL, LRANGE,    *)
(* DEL and RPUSH to prune.  A behaviour is one of a single store.          *)
(*                                                                         *)
(* The consumers are applications, which do what docs/src/streams.md shows:*)
(* read the next events of the group, handle them one by one, acknowledge  *)
(* each after it was handled.  Consumers of one group run concurrently and *)
(* may stop at any point.  One prune runs at a time.                       *)
(***************************************************************************)
EXTENDS Integers, Sequences, FiniteSets

CONSTANTS
  Stores,       \* the implementations a behaviour may be of
  Streams,      \* stream names
  Groups,       \* consumer group names
  Consumers,    \* running consumers
  stream_of,    \* the stream each consumer reads
  group_of,     \* the group each consumer belongs to
  Limits,       \* limit arguments of read_next
  Throughs,     \* through_seq arguments of prune_events
  MaxEvents,    \* events published per stream: a bound of the model
  MaxStops,     \* consumers that stop in the middle: a bound of the model
  MaxPrunes,    \* prunes of SQLite and Redis: a bound of the model
  NoOffset      \* the offset of a group that has acknowledged nothing

ASSUME StreamAssumption ==
  /\ Stores \subseteq {"memory", "sqlite", "postgres", "redis"}
  /\ stream_of \in [Consumers -> Streams]
  /\ group_of \in [Consumers -> Groups]
  /\ Limits \subseteq Int
  /\ Throughs \subseteq 0 .. MaxEvents
  /\ MaxEvents \in Nat
  /\ MaxStops \in Nat
  /\ MaxPrunes \in Nat
  /\ NoOffset \notin Nat

VARIABLES
  store,          \* the implementation
  streams,        \* the events of each stream that are stored and visible, in order of arrival
  stream_offsets, \* last_acked_seq of each group
  published,      \* the number of every event, in the order the numbers were drawn
  under_way,      \* events that have a number and are not visible yet
  highest,        \* the highest number that was ever visible
  late,           \* events that became visible behind one with a higher number
  pruner,         \* the prune under way
  prunes,         \* the prunes of several steps so far
  handled,        \* the events each group's consumers have handled
  pc,             \* where each consumer is
  after_seq,      \* the offset a consumer has read
  batch,          \* the events a consumer has read and not acknowledged
  stops           \* consumers that stopped so far

consumerVars == <<handled, pc, after_seq, batch, stops>>

logVars == <<streams, published, under_way, highest, late>>

streamVars == <<store, logVars, stream_offsets, pruner, prunes, consumerVars>>

\* The payload is the event's place in the order of publication.
Event == [sequence_no : 1 .. MaxEvents, payload : 1 .. MaxEvents]

NoPrune == [pc |-> "idle"]

Pruner ==
  {NoPrune} \cup [pc : {"cutoff", "listed", "deleted"}, stream : Streams, cutoff : 0 .. MaxEvents,
                  known : SUBSET Groups, retained : Seq(Event)]

StreamTypeOK ==
  /\ store \in Stores
  /\ streams \in [Streams -> Seq(Event)]
  /\ stream_offsets \in [Streams \X Groups -> 0 .. MaxEvents \cup {NoOffset}]
  /\ published \in [Streams -> Seq(1 .. MaxEvents)]
  /\ under_way \in [Streams -> SUBSET (1 .. MaxEvents)]
  /\ highest \in [Streams -> 0 .. MaxEvents]
  /\ late \in [Streams -> SUBSET (1 .. MaxEvents)]
  /\ pruner \in Pruner
  /\ prunes \in 0 .. MaxPrunes
  /\ handled \in [Streams \X Groups -> SUBSET (1 .. MaxEvents)]
  /\ pc \in [Consumers -> {"idle", "located", "reading", "handled", "acking"}]
  /\ after_seq \in [Consumers -> 0 .. MaxEvents]
  /\ batch \in [Consumers -> Seq(Event)]
  /\ stops \in 0 .. MaxStops

StreamInit ==
  /\ store \in Stores
  /\ streams = [s \in Streams |-> <<>>]
  /\ stream_offsets = [k \in Streams \X Groups |-> NoOffset]
  /\ published = [s \in Streams |-> <<>>]
  /\ under_way = [s \in Streams |-> {}]
  /\ highest = [s \in Streams |-> 0]
  /\ late = [s \in Streams |-> {}]
  /\ pruner = NoPrune
  /\ prunes = 0
  /\ handled = [k \in Streams \X Groups |-> {}]
  /\ pc = [c \in Consumers |-> "idle"]
  /\ after_seq = [c \in Consumers |-> 0]
  /\ batch = [c \in Consumers |-> <<>>]
  /\ stops = 0

----------------------------------------------------------------------------
(* Publishing                                                               *)

\* Mutant: numbers start at 0.
NextSequenceNo_ZeroBased(s) == IF store = "memory" THEN Len(streams[s]) ELSE Len(published[s])

\* The number of a new event.  The memory backend takes one more than the events
\* the log holds now; AUTOINCREMENT, the sequence of Postgres and INCR repeat none.
NextSequenceNo(s) == (IF store = "memory" THEN Len(streams[s]) ELSE Len(published[s])) + 1

\* The i-th event becomes visible under the number seq.
Arrive(s, i, seq) ==
  /\ streams' = [streams EXCEPT ![s] = Append(@, [sequence_no |-> seq, payload |-> i])]
  /\ highest' = [highest EXCEPT ![s] = IF seq > @ THEN seq ELSE @]
  /\ late' = [late EXCEPT ![s] = IF seq < highest[s] THEN @ \cup {i} ELSE @]

\* publish of the memory backend, under its lock, and of SQLite, one INSERT.
publish(s) ==
  /\ store \in {"memory", "sqlite"}
  /\ Len(published[s]) < MaxEvents
  /\ Arrive(s, Len(published[s]) + 1, NextSequenceNo(s))
  /\ published' = [published EXCEPT ![s] = Append(@, NextSequenceNo(s))]
  /\ UNCHANGED <<store, under_way, stream_offsets, pruner, prunes, consumerVars>>

\* publish of Postgres and of Redis, first half: nextval, INCR.
DrawNumber(s) ==
  /\ store \in {"postgres", "redis"}
  /\ Len(published[s]) < MaxEvents
  /\ published' = [published EXCEPT ![s] = Append(@, NextSequenceNo(s))]
  /\ under_way' = [under_way EXCEPT ![s] = @ \cup {Len(published[s]) + 1}]
  /\ UNCHANGED <<store, streams, highest, late, stream_offsets, pruner, prunes, consumerVars>>

\* Second half: the commit of the INSERT, RPUSH.
BecomeVisible(s, i) ==
  /\ i \in under_way[s]
  /\ Arrive(s, i, published[s][i])
  /\ under_way' = [under_way EXCEPT ![s] = @ \ {i}]
  /\ UNCHANGED <<store, published, stream_offsets, pruner, prunes, consumerVars>>

----------------------------------------------------------------------------
(* Acknowledging and reading                                                *)

\* last_acked_seq after an acknowledgment of seq: the larger of the two.
Acked(offset, seq) ==
  LET current == IF offset = NoOffset THEN 0 ELSE offset
  IN  IF seq > current THEN seq ELSE current

\* limit.clamp(1, 1000)
Clamped(limit) == IF limit < 1 THEN 1 ELSE IF limit > 1000 THEN 1000 ELSE limit

\* The order of two events of a log: SQL sorts by the number, the others go through the log.
Precedes(events, by_number, j, k) ==
  IF by_number THEN events[j].sequence_no < events[k].sequence_no ELSE j < k

\* The events at the places K of a log, listed in that order (there is one such list).
Listed(events, by_number, K) ==
  LET Places == {p \in [1 .. Cardinality(K) -> K] :
                   /\ \A k \in K : \E n \in DOMAIN p : p[n] = k
                   /\ \A m, n \in DOMAIN p : m < n => Precedes(events, by_number, p[m], p[n])}
  IN  {[n \in DOMAIN p |-> events[p[n]]] : p \in Places}

PlacesAbove(events, n) == {k \in DOMAIN events : events[k].sequence_no > n}

InReadingOrder(s, after) ==
  Listed(streams[s], store \in {"sqlite", "postgres"}, PlacesAbove(streams[s], after))

UpTo(events, limit) == SubSeq(events, 1, IF Len(events) < limit THEN Len(events) ELSE limit)

\* Mutant: the event right after the offset is left out.
EventsAfter_SkipsOne(s, after, limit) ==
  {UpTo(later, Clamped(limit)) : later \in InReadingOrder(s, after + 1)}

\* The result of read_events: the first `limit` events after `after`.
EventsAfter(s, after, limit) == {UpTo(later, Clamped(limit)) : later \in InReadingOrder(s, after)}

----------------------------------------------------------------------------
(* Pruning                                                                  *)

KnownGroups(s) == {g \in Groups : stream_offsets[<<s, g>>] # NoOffset}

\* Mutant: the offsets of the groups are not looked at.
Cutoff_Unconditional(s, through_seq) == through_seq

\* Not past the slowest group that is known.
Cutoff(s, through_seq) ==
  LET bounds == {stream_offsets[<<s, g>>] : g \in KnownGroups(s)} \cup {through_seq}
  IN  CHOOSE n \in bounds : \A m \in bounds : n <= m

\* What a prune leaves of a log, in the order of the log.
Above(events, cutoff) == Listed(events, FALSE, PlacesAbove(events, cutoff))

\* prune_events of the memory backend, under its lock, and of Postgres, one DELETE.
prune_events(s, through_seq) ==
  /\ store \in {"memory", "postgres"}
  /\ \E kept \in Above(streams[s], Cutoff(s, through_seq)) : streams' = [streams EXCEPT ![s] = kept]
  /\ UNCHANGED <<store, published, under_way, highest, late, stream_offsets, pruner, prunes, consumerVars>>

\* prune_events of SQLite and of Redis: the offsets are read first.
PruneReadOffsets(s, through_seq) ==
  /\ store \in {"sqlite", "redis"}
  /\ pruner = NoPrune
  /\ prunes < MaxPrunes
  /\ prunes' = prunes + 1
  /\ pruner' = [pc |-> "cutoff", stream |-> s, cutoff |-> Cutoff(s, through_seq),
                known |-> KnownGroups(s), retained |-> <<>>]
  /\ UNCHANGED <<store, logVars, stream_offsets, consumerVars>>

\* SQLite: one DELETE.
PruneDelete ==
  /\ store = "sqlite" /\ pruner.pc = "cutoff"
  /\ \E kept \in Above(streams[pruner.stream], pruner.cutoff) :
       streams' = [streams EXCEPT ![pruner.stream] = kept]
  /\ pruner' = NoPrune
  /\ UNCHANGED <<store, published, under_way, highest, late, stream_offsets, prunes, consumerVars>>

\* Redis: LRANGE, and what is retained of it.
PruneList ==
  /\ store = "redis" /\ pruner.pc = "cutoff"
  /\ \E kept \in Above(streams[pruner.stream], pruner.cutoff) :
       pruner' = [pruner EXCEPT !.pc = "listed", !.retained = kept]
  /\ UNCHANGED <<store, logVars, stream_offsets, prunes, consumerVars>>

\* Redis: DEL of the list.
PruneDel ==
  /\ store = "redis" /\ pruner.pc = "listed"
  /\ streams' = [streams EXCEPT ![pruner.stream] = <<>>]
  /\ pruner' = [pruner EXCEPT !.pc = "deleted"]
  /\ UNCHANGED <<store, published, under_way, highest, late, stream_offsets, prunes, consumerVars>>

\* Redis: RPUSH of what is retained, behind what was published since.
PruneRestore ==
  /\ store = "redis" /\ pruner.pc = "deleted"
  /\ LET s == pruner.stream
         overtaken == {i \in DOMAIN pruner.retained : \E k \in DOMAIN streams[s] :
                         streams[s][k].sequence_no > pruner.retained[i].sequence_no}
     IN  /\ streams' = [streams EXCEPT ![s] = @ \o pruner.retained]
         /\ late' = [late EXCEPT ![s] = @ \cup {pruner.retained[i].payload : i \in overtaken}]
  /\ pruner' = NoPrune
  /\ UNCHANGED <<store, published, under_way, highest, stream_offsets, prunes, consumerVars>>

----------------------------------------------------------------------------
(* The consumers                                                            *)

\* read_next, first half: consumer_group_info.
Locate(c) ==
  LET offset == stream_offsets[<<stream_of[c], group_of[c]>>]
  IN  /\ pc[c] = "idle"
      /\ pc' = [pc EXCEPT ![c] = "located"]
      /\ after_seq' = [after_seq EXCEPT ![c] = IF offset = NoOffset THEN 0 ELSE offset]
      /\ UNCHANGED <<store, logVars, stream_offsets, pruner, prunes, handled, batch, stops>>

\* read_next, second half: read_events after the offset that was found.
Read(c) ==
  /\ pc[c] = "located"
  /\ \E limit \in Limits : \E events \in EventsAfter(stream_of[c], after_seq[c], limit) :
       /\ batch' = [batch EXCEPT ![c] = events]
       /\ pc' = [pc EXCEPT ![c] = IF events = <<>> THEN "idle" ELSE "reading"]
  /\ after_seq' = [after_seq EXCEPT ![c] = 0]
  /\ UNCHANGED <<store, logVars, stream_offsets, pruner, prunes, handled, stops>>

\* The application handles the first event of what it read.
Handle(c) ==
  /\ pc[c] = "reading"
  /\ handled' = [handled EXCEPT ![<<stream_of[c], group_of[c]>>] = @ \cup {Head(batch[c]).payload}]
  /\ pc' = [pc EXCEPT ![c] = "handled"]
  /\ UNCHANGED <<store, logVars, stream_offsets, pruner, prunes, after_seq, batch, stops>>

\* The consumer goes on with the next event of its batch, or reads again.
NextOfBatch(c) ==
  /\ batch' = [batch EXCEPT ![c] = Tail(@)]
  /\ pc' = [pc EXCEPT ![c] = IF Len(batch[c]) > 1 THEN "reading" ELSE "idle"]

\* Mutant: the whole batch is acknowledged with its first event.
Acknowledge_WholeBatch(c) ==
  /\ store # "redis" /\ pc[c] = "handled"
  /\ stream_offsets' = [stream_offsets EXCEPT ![<<stream_of[c], group_of[c]>>] =
                          Acked(@, batch[c][Len(batch[c])].sequence_no)]
  /\ NextOfBatch(c)
  /\ UNCHANGED <<store, logVars, pruner, prunes, handled, after_seq, stops>>

\* It acknowledges the event it handled and goes on: one step of the memory
\* backend and of SQL.
Acknowledge(c) ==
  /\ store # "redis" /\ pc[c] = "handled"
  /\ stream_offsets' = [stream_offsets EXCEPT ![<<stream_of[c], group_of[c]>>] =
                          Acked(@, Head(batch[c]).sequence_no)]
  /\ NextOfBatch(c)
  /\ UNCHANGED <<store, logVars, pruner, prunes, handled, after_seq, stops>>

\* ack of Redis: HGET of the offset, the larger value is kept in after_seq.
AckRead(c) ==
  /\ store = "redis" /\ pc[c] = "handled"
  /\ after_seq' = [after_seq EXCEPT ![c] = Acked(stream_offsets[<<stream_of[c], group_of[c]>>],
                                                 Head(batch[c]).sequence_no)]
  /\ pc' = [pc EXCEPT ![c] = "acking"]
  /\ UNCHANGED <<store, logVars, stream_offsets, pruner, prunes, handled, batch, stops>>

\* ack of Redis: HSET of the offset, which may be lower than it has become since.
AckWrite(c) ==
  /\ pc[c] = "acking"
  /\ stream_offsets' = [stream_offsets EXCEPT ![<<stream_of[c], group_of[c]>>] = after_seq[c]]
  /\ after_seq' = [after_seq EXCEPT ![c] = 0]
  /\ NextOfBatch(c)
  /\ UNCHANGED <<store, logVars, pruner, prunes, handled, stops>>

\* The consumer stops, possibly between handling and acknowledging, and is run again.
Stop(c) ==
  /\ pc[c] # "idle"
  /\ stops < MaxStops
  /\ stops' = stops + 1
  /\ pc' = [pc EXCEPT ![c] = "idle"]
  /\ after_seq' = [after_seq EXCEPT ![c] = 0]
  /\ batch' = [batch EXCEPT ![c] = <<>>]
  /\ UNCHANGED <<store, logVars, stream_offsets, pruner, prunes, handled>>

Consume(c) == Locate(c) \/ Read(c) \/ Handle(c) \/ Acknowledge(c) \/ AckRead(c) \/ AckWrite(c)

Prune ==
  \/ \E s \in Streams, n \in Throughs : prune_events(s, n) \/ PruneReadOffsets(s, n)
  \/ PruneDelete \/ PruneList \/ PruneDel \/ PruneRestore

StreamNext ==
  \/ \E s \in Streams : publish(s) \/ DrawNumber(s) \/ \E i \in 1 .. MaxEvents : BecomeVisible(s, i)
  \/ Prune
  \/ \E c \in Consumers : Consume(c) \/ Stop(c)

StreamSpec == StreamInit /\ [][StreamNext]_streamVars

\* The runtime schedules every consumer and its handler returns; a prune that has
\* deleted the list of Redis goes on.
FairStreamSpec ==
  /\ StreamSpec
  /\ \A c \in Consumers : WF_streamVars(Consume(c))
  /\ WF_streamVars(PruneRestore)

----------------------------------------------------------------------------
(* Properties                                                               *)

\* The events of s whose number no other event of s was given: after a prune, the
\* memory backend hands out numbers again.
UniquelyNumbered(s) ==
  {i \in DOMAIN published[s] : \A k \in DOMAIN published[s] : published[s][k] = published[s][i] => k = i}

Payloads(events) == {events[i].payload : i \in DOMAIN events}

Retained(s) == Payloads(streams[s])

\* What is stored, also in the hands of a prune of Redis between DEL and RPUSH.
Stored(s) ==
  Retained(s) \cup (IF pruner.pc = "deleted" /\ pruner.stream = s THEN Payloads(pruner.retained) ELSE {})

\* What is below the offset of a group was handled by the group: with several
\* consumers reading from stale offsets, acknowledging out of order, Redis writing
\* offsets back, and consumers stopping half way, no acknowledgment skips an event
\* that is still there, unless it became visible behind a later one (read_next, ack).
AckedWasHandled ==
  \A s \in Streams, g \in Groups : stream_offsets[<<s, g>>] # NoOffset =>
    \A i \in (UniquelyNumbered(s) \cap Retained(s)) \ late[s] :
      published[s][i] <= stream_offsets[<<s, g>>] => i \in handled[<<s, g>>]

\* The groups the offsets of the next removal were read from.
Consulted(s) == IF pruner = NoPrune THEN KnownGroups(s) ELSE pruner.known

\* An event leaves the log only when every group that was known when the prune read
\* the offsets has handled it: "Implementations must not prune past the lowest known
\* consumer-group offset" (crates/azums-core/src/backend/stream.rs, prune_events).
\* Redis also drops what is published between its LRANGE and its DEL.
PrunedWasHandled ==
  [][\A s \in Streams : \A i \in ((Stored(s) \ Stored(s)') \cap UniquelyNumbered(s)) \ late[s] :
       \/ \A g \in Consulted(s) : i \in handled[<<s, g>>]
       \/ store = "redis" /\ published[s][i] > pruner.cutoff]_streamVars

\* In the end every event that is stored has been handled by every group that has a
\* consumer on its stream, unless it became visible behind a later one: nothing else
\* is skipped for ever, whichever consumer stops and whatever the store (read_next,
\* ack; there are finitely many events, so this is the same as handling each).
EventIsHandled ==
  <>[](\A k \in {<<stream_of[c], group_of[c]>> : c \in Consumers} :
         (UniquelyNumbered(k[1]) \cap Stored(k[1])) \ late[k[1]] \subseteq handled[k])
=============================================================================
