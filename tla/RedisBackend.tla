------------------------------ MODULE RedisBackend ------------------------------
(***************************************************************************)
(* The Redis implementation of the StorageBackend trait                    *)
(* (crates/azums-redis/src/backend.rs).  A job is a JSON document in the   *)
(* hash azums:jobs; where it stands is the list its id is in: the list of  *)
(* its queue, or the processing list of the worker that took it.           *)
(*                                                                         *)
(* Redis executes one command at a time and no operation uses MULTI or a   *)
(* script, so every command is a step of its own.  The commands that an    *)
(* operation writes after its last read are known when it has read: they   *)
(* are put in todo[c] and executed one by one, between the commands of the *)
(* other clients.  A client that dies, or whose connection fails, leaves   *)
(* the rest undone.                                                        *)
(*                                                                         *)
(* The clients are an application, which enqueues, cancels and replays,    *)
(* and workers, which lease and reap when they hold nothing, and start,    *)
(* extend and report what their lease returned, one call after another.    *)
(* The priority and the ordering argument are ignored by the code, the     *)
(* wake-ups of PUBLISH are left out.                                       *)
(***************************************************************************)
EXTENDS Integers, FiniteSets, Sequences, SequencesExt

CONSTANTS
  JobIds,         \* the ids Uuid::new_v4 can return
  Queues,         \* queue names
  Workers,        \* worker identities
  App,            \* the application that enqueues
  Keys,           \* idempotency keys
  NewJobs,        \* the NewJob arguments of enqueue
  BatchSizes,     \* batch_size arguments of a lease
  RetryDelays,    \* delays of reschedule_for_retry
  ReplayTimes,    \* override_run_at arguments of replay_job
  LeaseSeconds,   \* the lease_seconds argument
  Horizon,        \* the last instant: a bound of the model
  MaxAttempts,    \* the last attempt number that is told apart from later ones
  MaxExtends,     \* calls of extend_lease: a bound of the model
  MaxAborts,      \* workers that die: a bound of the model
  None            \* Option::None, and the value of an absent field

Instants == 0 .. Horizon

Clients == Workers \cup {App}

QueueKey(q) == <<"queue", q>>

ProcessingKey(q, w) == <<"processing", q, w>>

ProcessingKeys == {ProcessingKey(q, w) : q \in Queues, w \in Workers}

ListKeys == {QueueKey(q) : q \in Queues} \cup ProcessingKeys

\* The arguments of enqueue.
NewJobType ==
  [queue : Queues, idempotency_key : Keys \cup {None}, run_at : Instants,
   deadline_at : Instants \cup {None}, recurring_interval_seconds : Int \cup {None}]

ASSUME RedisAssumption ==
  /\ App \notin Workers /\ None \notin Workers \cup JobIds \cup Keys \cup Int
  /\ NewJobs \subseteq NewJobType
  /\ BatchSizes \subseteq Nat \ {0} /\ RetryDelays \subseteq Nat /\ ReplayTimes \subseteq Instants
  /\ {LeaseSeconds, Horizon, MaxAttempts, MaxExtends, MaxAborts} \subseteq Nat

VARIABLES
  now,         \* the time
  jobs,        \* the hash azums:jobs
  lists,       \* the lists azums:queue:Q and azums:processing:Q:W
  idempotency, \* the hash azums:idempotency
  attempts,    \* the counters azums:attempts:J
  todo,        \* the write commands each client has still to send
  loop,        \* the lease or the reaping a client is in the middle of
  held,        \* the jobs a worker's lease returned and it has not reported
  started,     \* those of them it has started an attempt of
  reaped,      \* whether any lease was taken back so far
  calls        \* the bounded calls and aborts so far

serverVars == <<jobs, lists, idempotency, attempts>>

redisVars == <<now, serverVars, todo, loop, held, started, reaped, calls>>

----------------------------------------------------------------------------
(* Types                                                                    *)

\* The deadline of a next occurrence may lie behind the last instant.
Document ==
  [queue : Queues, run_at : Instants, deadline_at : Nat \cup {None},
   recurring_interval_seconds : Int \cup {None},
   status : {"queued", "running", "succeeded", "dlq", "canceled"},
   locked_by : Workers \cup {None}, lock_expires_at : 0 .. Horizon + LeaseSeconds \cup {None}]

ASSUME AbsentAssumption == None \notin Document

Command ==
  [op : {"HSET"}, id : JobIds, row : Document]
    \cup [op : {"LREM", "RPUSH", "LPUSH"}, key : ListKeys, id : JobIds]
    \cup [op : {"INCR"}, id : JobIds]

Hset(id, row) == [op |-> "HSET", id |-> id, row |-> row]
Lrem(key, id) == [op |-> "LREM", key |-> key, id |-> id]
Rpush(key, id) == [op |-> "RPUSH", key |-> key, id |-> id]
Lpush(key, id) == [op |-> "LPUSH", key |-> key, id |-> id]
Incr(id) == [op |-> "INCR", id |-> id]

Idle == [kind |-> "idle"]

Loop ==
  {Idle}
    \cup [kind : {"lease"}, at : Instants, queue : Queues, left : Nat, id : JobIds \cup {None}, got : SUBSET JobIds]
    \cup [kind : {"reap"}, at : Instants, keys : SUBSET ProcessingKeys, key : ProcessingKeys \cup {None}, ids : Seq(JobIds)]

RedisTypeOK ==
  /\ now \in Instants
  /\ jobs \in [JobIds -> Document \cup {None}]
  /\ lists \in [ListKeys -> Seq(JobIds)]
  /\ idempotency \in [Keys -> JobIds \cup {None}]
  /\ attempts \in [JobIds -> 0 .. MaxAttempts]
  /\ todo \in [Clients -> Seq(Command)]
  /\ loop \in [Clients -> Loop]
  /\ held \in [Workers -> SUBSET JobIds]
  /\ started \in [Workers -> SUBSET JobIds]
  /\ reaped \in BOOLEAN
  /\ calls \in [extend : 0 .. MaxExtends, abort : 0 .. MaxAborts]

RedisInit ==
  /\ now = 0
  /\ jobs = [j \in JobIds |-> None]
  /\ lists = [k \in ListKeys |-> <<>>]
  /\ idempotency = [k \in Keys |-> None]
  /\ attempts = [j \in JobIds |-> 0]
  /\ todo = [c \in Clients |-> <<>>]
  /\ loop = [c \in Clients |-> Idle]
  /\ held = [w \in Workers |-> {}]
  /\ started = [w \in Workers |-> {}]
  /\ reaped = FALSE
  /\ calls = [extend |-> 0, abort |-> 0]

----------------------------------------------------------------------------
(* The commands                                                             *)

RedisTick ==
  /\ now < Horizon
  /\ now' = now + 1
  /\ UNCHANGED <<serverVars, todo, loop, held, started, reaped, calls>>

\* What a list holds after a command on it.
Applied(list, command) ==
  CASE command.op = "LREM"  -> RemoveFirst(list, command.id)
    [] command.op = "RPUSH" -> Append(list, command.id)
    [] command.op = "LPUSH" -> <<command.id>> \o list

\* The server executes the next command of a client.
Execute(c) ==
  /\ todo[c] # <<>>
  /\ LET command == Head(todo[c]) IN
       /\ jobs' = IF command.op = "HSET" THEN [jobs EXCEPT ![command.id] = command.row] ELSE jobs
       /\ attempts' = IF command.op = "INCR" THEN [attempts EXCEPT ![command.id] = IF @ < MaxAttempts THEN @ + 1 ELSE @]
                      ELSE attempts
       /\ lists' = IF command.op \in {"LREM", "RPUSH", "LPUSH"}
                   THEN [lists EXCEPT ![command.key] = Applied(@, command)] ELSE lists
  /\ todo' = [todo EXCEPT ![c] = Tail(@)]
  /\ UNCHANGED <<now, idempotency, loop, held, started, reaped, calls>>

\* The client has no command under way.
Ready(c) == todo[c] = <<>> /\ loop[c] = Idle

Send(c, commands) == todo' = [todo EXCEPT ![c] = commands]

----------------------------------------------------------------------------
(* enqueue, replay_job, cancel_job of queued work                           *)

\* Ids that no document, claim or command under way has.
Unused ==
  {j \in JobIds : /\ jobs[j] = None
                  /\ \A k \in Keys : idempotency[k] # j
                  /\ \A c \in Clients : \A i \in DOMAIN todo[c] : todo[c][i].id # j}

Fresh(src, q, runAt) ==
  [queue |-> q, run_at |-> runAt, deadline_at |-> src.deadline_at,
   recurring_interval_seconds |-> src.recurring_interval_seconds,
   status |-> "queued", locked_by |-> None, lock_expires_at |-> None]

\* The document first, then its id in the list of the queue.
Publication(id, row) == <<Hset(id, row), Rpush(QueueKey(row.queue), id)>>

\* enqueue of a key that HSETNX could claim, or of no key; a claimed key returns
\* the id it was claimed for.
enqueue(nj, id) ==
  /\ Ready(App)
  /\ nj.idempotency_key # None => idempotency[nj.idempotency_key] = None
  /\ idempotency' = [k \in Keys |-> IF k = nj.idempotency_key THEN id ELSE idempotency[k]]
  /\ Send(App, Publication(id, Fresh(nj, nj.queue, nj.run_at)))
  /\ UNCHANGED <<now, jobs, lists, attempts, loop, held, started, reaped, calls>>

replay_job(src, id, q, runAt) ==
  /\ Ready(App)
  /\ jobs[src] # None
  /\ Send(App, Publication(id, Fresh(jobs[src], q, runAt)))
  /\ UNCHANGED <<now, serverVars, loop, held, started, reaped, calls>>

Released(row, status) == [row EXCEPT !.status = status, !.locked_by = None, !.lock_expires_at = None]

\* The id of the cancelled job stays in the list of its queue.
cancel_queued_job(j) ==
  /\ Ready(App)
  /\ jobs[j] # None /\ jobs[j].status = "queued"
  /\ Send(App, <<Hset(j, Released(jobs[j], "canceled"))>>)
  /\ UNCHANGED <<now, serverVars, loop, held, started, reaped, calls>>

----------------------------------------------------------------------------
(* lease_jobs_batch                                                         *)

lease_jobs_batch(w, q, n) ==
  /\ Ready(w) /\ held[w] = {}
  /\ loop' = [loop EXCEPT ![w] = [kind |-> "lease", at |-> now, queue |-> q, left |-> n, id |-> None, got |-> {}]]
  /\ UNCHANGED <<now, serverVars, todo, held, started, reaped, calls>>

Leasing(w) == todo[w] = <<>> /\ loop[w].kind = "lease"

\* LMOVE queue processing LEFT RIGHT
LeaseMove(w) ==
  /\ Leasing(w) /\ loop[w].id = None /\ loop[w].left > 0
  /\ LET from == QueueKey(loop[w].queue)
         to   == ProcessingKey(loop[w].queue, w)
     IN  /\ lists[from] # <<>>
         /\ loop' = [loop EXCEPT ![w].id = Head(lists[from])]
         /\ lists' = [lists EXCEPT ![from] = Tail(@), ![to] = Append(@, Head(lists[from]))]
  /\ UNCHANGED <<now, jobs, idempotency, attempts, todo, held, started, reaped, calls>>

\* What a lease does with the document of the id it moved: back to the head of
\* the queue, into the DLQ, or leased.  The status is not looked at.
LeaseCommands(w, j, row) ==
  LET queue == QueueKey(loop[w].queue)
      processing == ProcessingKey(loop[w].queue, w)
  IN  IF row.run_at > loop[w].at THEN <<Lpush(queue, j), Lrem(processing, j)>>
      ELSE IF row.deadline_at # None /\ row.deadline_at < loop[w].at
           THEN <<Hset(j, [row EXCEPT !.status = "dlq"]), Lrem(processing, j)>>
           ELSE <<Hset(j, [row EXCEPT !.status = "running", !.locked_by = w,
                                      !.lock_expires_at = loop[w].at + LeaseSeconds])>>

\* The document passes both tests of the lease.
Leasable(w, row) ==
  row.run_at <= loop[w].at /\ (row.deadline_at = None \/ row.deadline_at >= loop[w].at)

\* HGET of the id that was moved.
LeaseRead(w) ==
  /\ Leasing(w) /\ loop[w].id # None
  /\ LET j == loop[w].id
         found == jobs[j] # None
     IN  /\ Send(w, IF found THEN LeaseCommands(w, j, jobs[j]) ELSE <<>>)
         /\ loop' = [loop EXCEPT ![w].id = None, ![w].left = @ - 1,
                                 ![w].got = IF found /\ Leasable(w, jobs[j]) THEN @ \cup {j} ELSE @]
  /\ UNCHANGED <<now, serverVars, held, started, reaped, calls>>

\* The batch is full, or LMOVE found the queue empty.
LeaseReturn(w) ==
  /\ Leasing(w) /\ loop[w].id = None
  /\ loop[w].left = 0 \/ lists[QueueKey(loop[w].queue)] = <<>>
  /\ held' = [held EXCEPT ![w] = loop[w].got]
  /\ loop' = [loop EXCEPT ![w] = Idle]
  /\ UNCHANGED <<now, serverVars, todo, started, reaped, calls>>

----------------------------------------------------------------------------
(* reap_expired_locks, which is perform_maintenance                         *)

\* KEYS azums:processing:*
reap_expired_locks(w) ==
  /\ Ready(w) /\ held[w] = {}
  /\ loop' = [loop EXCEPT ![w] = [kind |-> "reap", at |-> now, key |-> None, ids |-> <<>>,
                                  keys |-> {k \in ProcessingKeys : lists[k] # <<>>}]]
  /\ UNCHANGED <<now, serverVars, todo, held, started, reaped, calls>>

Reaping(w) == todo[w] = <<>> /\ loop[w].kind = "reap"

\* LRANGE of one processing list
ReapList(w, k) ==
  /\ Reaping(w) /\ loop[w].ids = <<>> /\ k \in loop[w].keys
  /\ loop' = [loop EXCEPT ![w].keys = @ \ {k}, ![w].key = k, ![w].ids = lists[k]]
  /\ UNCHANGED <<now, serverVars, todo, held, started, reaped, calls>>

\* The status is not looked at here either.
Abandoned(row, at) == row.lock_expires_at # None /\ row.lock_expires_at <= at

\* HGET of one id of the list
ReapRead(w) ==
  /\ Reaping(w) /\ loop[w].ids # <<>>
  /\ LET j == Head(loop[w].ids)
         expired == jobs[j] # None /\ Abandoned(jobs[j], loop[w].at)
     IN  /\ Send(w, IF expired THEN <<Hset(j, Released(jobs[j], "queued")), Lrem(loop[w].key, j),
                                      Rpush(QueueKey(loop[w].key[2]), j)>> ELSE <<>>)
         /\ reaped' = (reaped \/ expired)
  /\ loop' = [loop EXCEPT ![w].ids = Tail(@)]
  /\ UNCHANGED <<now, serverVars, held, started, calls>>

ReapReturn(w) ==
  /\ Reaping(w) /\ loop[w].ids = <<>> /\ loop[w].keys = {}
  /\ loop' = [loop EXCEPT ![w] = Idle]
  /\ UNCHANGED <<now, serverVars, todo, held, started, reaped, calls>>

----------------------------------------------------------------------------
(* Attempts, heartbeats and reports                                         *)

\* What HGET finds for the caller of an operation that needs the lease.
HoldsLease(j, w) == jobs[j] # None /\ jobs[j].status = "running" /\ jobs[j].locked_by = w

Drop(w, j) ==
  /\ held' = [held EXCEPT ![w] = @ \ {j}]
  /\ started' = [started EXCEPT ![w] = @ \ {j}]

\* start_attempts_batch for one job of the batch; the worker lets a job go whose
\* attempt could not be started.
start_attempt(w, j) ==
  /\ Ready(w) /\ j \in held[w] \ started[w]
  /\ IF HoldsLease(j, w)
     THEN /\ Send(w, <<Incr(j)>>)
          /\ started' = [started EXCEPT ![w] = @ \cup {j}]
          /\ UNCHANGED held
     ELSE Drop(w, j) /\ UNCHANGED todo
  /\ UNCHANGED <<now, serverVars, loop, reaped, calls>>

\* extend_lease of a lease that is still there.
extend_lease(w, j) ==
  /\ Ready(w) /\ j \in held[w]
  /\ HoldsLease(j, w)
  /\ calls.extend < MaxExtends
  /\ calls' = [calls EXCEPT !.extend = @ + 1]
  /\ Send(w, <<Hset(j, [jobs[j] EXCEPT !.lock_expires_at = now + LeaseSeconds])>>)
  /\ UNCHANGED <<now, serverVars, loop, held, started, reaped>>

\* A report that finds the lease writes; one that does not is an error and writes
\* nothing.  The worker is done with the job in both cases.
Report(w, j, commands) ==
  /\ Ready(w) /\ j \in started[w]
  /\ Send(w, IF HoldsLease(j, w) THEN commands ELSE <<>>)
  /\ Drop(w, j)
  /\ UNCHANGED <<now, serverVars, loop, reaped, calls>>

Processing(w, j) == ProcessingKey(jobs[j].queue, w)

Done(w, j) == <<Hset(j, Released(jobs[j], "succeeded")), Lrem(Processing(w, j), j)>>

mark_succeeded_once(w, j) ==
  jobs[j].recurring_interval_seconds = None /\ Report(w, j, Done(w, j))

\* mark_succeeded of a recurring job: four commands; mark_succeeded_batch loops.
mark_succeeded_recurring(w, j, id) ==
  LET row == jobs[j]
      interval == IF row.recurring_interval_seconds < 1 THEN 1 ELSE row.recurring_interval_seconds
      next == Fresh([row EXCEPT !.deadline_at = IF @ = None THEN None ELSE @ + interval], row.queue, row.run_at + interval)
  IN  /\ row.recurring_interval_seconds # None
      /\ row.run_at + interval <= Horizon
      /\ Report(w, j, Done(w, j) \o Publication(id, next))

\* Mutant: the id is only taken out of the processing list.
reschedule_for_retry_NotPushed(w, j, runAt) ==
  Report(w, j, <<Hset(j, [Released(jobs[j], "queued") EXCEPT !.run_at = runAt]), Lrem(Processing(w, j), j)>>)

\* Mutant: the id is pushed before the document is written.
reschedule_for_retry_PushFirst(w, j, runAt) ==
  Report(w, j, <<Rpush(QueueKey(jobs[j].queue), j), Hset(j, [Released(jobs[j], "queued") EXCEPT !.run_at = runAt]),
                 Lrem(Processing(w, j), j)>>)

reschedule_for_retry(w, j, runAt) ==
  Report(w, j, <<Hset(j, [Released(jobs[j], "queued") EXCEPT !.run_at = runAt]), Lrem(Processing(w, j), j),
                 Rpush(QueueKey(jobs[j].queue), j)>>)

\* Mutant: the reason is written as the status.
mark_dlq_ReasonAsStatus(w, j) ==
  Report(w, j, <<Hset(j, [jobs[j] EXCEPT !.status = "MAX_ATTEMPTS_EXCEEDED"]), Lrem(Processing(w, j), j)>>)

\* mark_dlq leaves locked_by and lock_expires_at in the document.
mark_dlq(w, j) == Report(w, j, <<Hset(j, [jobs[j] EXCEPT !.status = "dlq"]), Lrem(Processing(w, j), j)>>)

\* cancel_job by the holder removes the id before it writes the document.
cancel_running_job(w, j) ==
  Report(w, j, <<Lrem(Processing(w, j), j), Hset(j, Released(jobs[j], "canceled"))>>)

\* The worker dies, or a command of its fails; it comes back under its name.
Abort(w) ==
  /\ ~ Ready(w) \/ held[w] # {}
  /\ calls.abort < MaxAborts
  /\ calls' = [calls EXCEPT !.abort = @ + 1]
  /\ Send(w, <<>>)
  /\ loop' = [loop EXCEPT ![w] = Idle]
  /\ held' = [held EXCEPT ![w] = {}]
  /\ started' = [started EXCEPT ![w] = {}]
  /\ UNCHANGED <<now, serverVars, reaped>>

----------------------------------------------------------------------------

Apply ==
  \/ \E nj \in NewJobs, id \in Unused : enqueue(nj, id)
  \/ \E src \in JobIds, id \in Unused, q \in Queues, t \in ReplayTimes : replay_job(src, id, q, t)
  \/ \E j \in JobIds : cancel_queued_job(j)

LeaseStep(w) == LeaseMove(w) \/ LeaseRead(w) \/ LeaseReturn(w)

ReapStep(w) == (\E k \in ProcessingKeys : ReapList(w, k)) \/ ReapRead(w) \/ ReapReturn(w)

TakeWork(w) == \E q \in Queues, n \in BatchSizes : lease_jobs_batch(w, q, n)

Finish(w) ==
  \E j \in held[w] :
    \/ start_attempt(w, j)
    \/ mark_succeeded_once(w, j)
    \/ \E id \in Unused : mark_succeeded_recurring(w, j, id)
    \/ \E d \in RetryDelays : now + d <= Horizon /\ reschedule_for_retry(w, j, now + d)
    \/ mark_dlq(w, j)
    \/ cancel_running_job(w, j)

RedisNext ==
  \/ RedisTick
  \/ Apply
  \/ \E c \in Clients : Execute(c)
  \/ \E w \in Workers :
       \/ TakeWork(w) \/ LeaseStep(w)
       \/ reap_expired_locks(w) \/ ReapStep(w)
       \/ \E j \in JobIds : extend_lease(w, j)
       \/ Finish(w)
       \/ Abort(w)

RedisSpec == RedisInit /\ [][RedisNext]_redisVars

\* Time passes, the server answers, and every worker goes on: it finishes what it
\* holds, asks for work and reaps again and again, as the worker loop does.
FairRedisSpec ==
  /\ RedisSpec
  /\ WF_redisVars(RedisTick)
  /\ \A c \in Clients : WF_redisVars(Execute(c))
  /\ \A w \in Workers : /\ WF_redisVars(LeaseStep(w))
                        /\ WF_redisVars(ReapStep(w))
                        /\ SF_redisVars(TakeWork(w))
                        /\ SF_redisVars(reap_expired_locks(w))
                        /\ SF_redisVars(Finish(w))

----------------------------------------------------------------------------
(* Properties                                                               *)

\* The ids a client's commands under way will write.
Pending(c, op) == {todo[c][i].id : i \in {k \in DOMAIN todo[c] : todo[c][k].op \in op}}

\* A worker has the job in its hands: a lease of it is being taken or reported.
InHand(w, j) == j \in held[w] \/ (loop[w].kind = "lease" /\ (loop[w].id = j \/ j \in loop[w].got)) \/ j \in Pending(w, {"HSET"})

\* Work that is not over can still be found: its id is in a list, is about to be
\* pushed, or the worker whose name its lock carries still has it in hand, however
\* leases, heartbeats, reports and reapers interleave (while no client dies).
NoJobLost ==
  calls.abort = 0 =>
    \A j \in JobIds : jobs[j] # None /\ jobs[j].status \in {"queued", "running"} =>
      \/ \E k \in ListKeys : Contains(lists[k], j)
      \/ \E c \in Clients : j \in Pending(c, {"RPUSH", "LPUSH"})
      \/ \E w \in Workers : jobs[j].locked_by = w /\ InHand(w, j)

\* As long as no lease had to be taken back, no two workers have the same job in
\* hand: LMOVE hands an id to one of them, and neither a retry, a future run_at nor
\* a cancellation puts it into a second place (SemanticContract::LeaseExclusivity).
ExclusiveUntilReaped ==
  ~ reaped => \A j \in JobIds : \A v, w \in Workers : InHand(v, j) /\ InHand(w, j) => v = w

\* As long as no lease had to be taken back, completed and dead-lettered work stays
\* as it is: only a cancellation that read the document while it was queued can
\* still overwrite it (every HSET writes back a document read before).
DoneUntilReaped ==
  [][~ reaped' => \A j \in JobIds :
       jobs[j] # None /\ jobs[j].status \in {"succeeded", "dlq"} =>
         jobs'[j] = jobs[j] \/ (jobs'[j].status = "canceled" /\ Head(todo[App]).id = j)]_redisVars

\* Queued work is taken, dead-lettered or cancelled in the end: no interleaving of
\* the commands leaves a due job where no lease finds it (LMOVE, LPUSH of work that
\* is not due, RPUSH of retries and of reaped work).
QueuedIsTaken ==
  \A j \in JobIds :
    (jobs[j] # None /\ jobs[j].status = "queued") ~> (jobs[j] # None /\ jobs[j].status # "queued")
=============================================================================
