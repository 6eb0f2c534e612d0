----------------------------- MODULE EnqueueGuard -----------------------------
(***************************************************************************)
(* Enqueueing over HTTP: enqueue_job of the dashboard                      *)
(* (crates/azums-dashboard/src/api/mod.rs) behind EnqueueGuard             *)
(* (crates/azums/src/jobs/enqueue_guard.rs), for one queue.                *)
(*                                                                         *)
(* Requests run at the same time and share the connections of one pool.    *)
(* check_rate holds a connection, and the lock on the counter of its       *)
(* minute, while the denial is recorded over a second connection; whoever  *)
(* finds the pool empty gives up after acquire_timeout.                    *)
(***************************************************************************)
EXTENDS Integers, FiniteSets

CONSTANTS
  Requests,      \* HTTP requests
  Connections,   \* max_connections of the pool
  MaxPerMinute,  \* max_enqueues_per_minute_per_queue
  LastMinute     \* a bound of the model

Minutes == 0 .. LastMinute

ASSUME GuardAssumption ==
  IsFiniteSet(Requests) /\ Connections \in Nat \ {0} /\ MaxPerMinute \in Nat /\ LastMinute \in Nat

VARIABLES
  body,              \* what is wrong with each request
  pc,                \* the next statement of its handler
  window,            \* window_start: the minute read from the clock
  count,             \* what its INSERT ... RETURNING count gave
  counters,          \* the committed rows of enqueue_rate_counters
  ingest_decisions,  \* the requests whose denial has a row
  jobs,              \* the requests that became jobs
  answer,            \* the status of the response
  minute

guardVars == <<body, pc, window, count, counters, ingest_decisions, jobs, answer, minute>>

Bodies == {"good", "no job_type", "large payload", "no attempts"}

\* A handler that has a transaction open, and so a connection, is at one of these.
InTransaction == {"increment", "decide", "record", "commit"}

Steps == InTransaction \cup {"arriving", "payload", "clock", "begin", "enqueue", "done"}

Answers == {"none", "ok", "bad request", "payload too large", "too many requests", "internal error"}

GuardTypeOK ==
  /\ body \in [Requests -> Bodies]
  /\ pc \in [Requests -> Steps]
  /\ window \in [Requests -> Minutes]
  /\ count \in [Requests -> Nat]
  /\ counters \in [Minutes -> Nat]
  /\ ingest_decisions \subseteq Requests /\ jobs \subseteq Requests
  /\ answer \in [Requests -> Answers]
  /\ minute \in Minutes
  /\ Cardinality({r \in Requests : pc[r] \in InTransaction}) <= Connections

GuardInit ==
  /\ body \in [Requests -> Bodies]
  /\ pc = [r \in Requests |-> "arriving"]
  /\ window = [r \in Requests |-> 0]
  /\ count = [r \in Requests |-> 0]
  /\ counters = [m \in Minutes |-> 0]
  /\ ingest_decisions = {} /\ jobs = {}
  /\ answer = [r \in Requests |-> "none"]
  /\ minute = 0

----------------------------------------------------------------------------
(* The pool and the row lock                                                *)

\* Mutant: the pool opens as many connections as are asked for.
FreeConnection_Unbounded == TRUE

\* make_pool: a connection that no transaction holds.
FreeConnection == Cardinality({r \in Requests : pc[r] \in InTransaction}) < Connections

GoTo(r, step) == pc' = [pc EXCEPT ![r] = step]

Answer(r, status) ==
  /\ answer' = [answer EXCEPT ![r] = status]
  /\ GoTo(r, "done")

\* Mutant: nobody holds the row.
RowFree_Unlocked(r) == TRUE

\* The row of the counter is locked from the INSERT to the end of the transaction.
RowFree(r) ==
  \A q \in Requests \ {r} : pc[q] \in {"decide", "record", "commit"} => window[q] # window[r]

----------------------------------------------------------------------------
(* enqueue_job, statement by statement                                      *)

\* The body is looked at; a payload that fits needs no statement.
Receive(r) ==
  /\ pc[r] = "arriving"
  /\ \/ body[r] = "no job_type" /\ Answer(r, "bad request")
     \/ body[r] = "large payload" /\ GoTo(r, "payload") /\ UNCHANGED answer
     \/ body[r] \in {"good", "no attempts"} /\ GoTo(r, "clock") /\ UNCHANGED answer
  /\ UNCHANGED <<body, window, count, counters, ingest_decisions, jobs, minute>>

\* check_payload: the denial is recorded, then answered.
check_payload(r) ==
  /\ pc[r] = "payload"
  /\ FreeConnection
  /\ ingest_decisions' = ingest_decisions \cup {r}
  /\ Answer(r, "payload too large")
  /\ UNCHANGED <<body, window, count, counters, jobs, minute>>

\* check_rate: the minute is read before a connection is asked for.
ReadClock(r) ==
  /\ pc[r] = "clock"
  /\ window' = [window EXCEPT ![r] = minute]
  /\ GoTo(r, "begin")
  /\ UNCHANGED <<body, count, counters, ingest_decisions, jobs, answer, minute>>

BeginRate(r) ==
  /\ pc[r] = "begin"
  /\ FreeConnection
  /\ GoTo(r, "increment")
  /\ UNCHANGED <<body, window, count, counters, ingest_decisions, jobs, answer, minute>>

\* INSERT ... ON CONFLICT DO UPDATE SET count = count + 1 RETURNING count.
Increment(r) ==
  /\ pc[r] = "increment"
  /\ RowFree(r)
  /\ count' = [count EXCEPT ![r] = counters[window[r]] + 1]
  /\ GoTo(r, "decide")
  /\ UNCHANGED <<body, window, counters, ingest_decisions, jobs, answer, minute>>

CommitCount(r) == counters' = [counters EXCEPT ![window[r]] = count[r]]

\* Within the limit: the transaction is committed and the handler goes on.
Admit(r) ==
  /\ pc[r] = "decide"
  /\ count[r] <= MaxPerMinute
  /\ CommitCount(r)
  /\ \/ body[r] = "no attempts" /\ Answer(r, "bad request")
     \/ body[r] # "no attempts" /\ GoTo(r, "enqueue") /\ UNCHANGED answer
  /\ UNCHANGED <<body, window, count, ingest_decisions, jobs, minute>>

\* Above the limit: the denial is recorded over a second connection ...
Deny(r) ==
  /\ pc[r] = "decide"
  /\ count[r] > MaxPerMinute
  /\ GoTo(r, "record")
  /\ UNCHANGED <<body, window, count, counters, ingest_decisions, jobs, answer, minute>>

RecordDenial(r) ==
  /\ pc[r] = "record"
  /\ FreeConnection
  /\ ingest_decisions' = ingest_decisions \cup {r}
  /\ GoTo(r, "commit")
  /\ UNCHANGED <<body, window, count, counters, jobs, answer, minute>>

\* ... and the transaction committed.
CommitDenial(r) ==
  /\ pc[r] = "commit"
  /\ CommitCount(r)
  /\ Answer(r, "too many requests")
  /\ UNCHANGED <<body, window, count, ingest_decisions, jobs, minute>>

\* JobsRepo::enqueue; its statements take a connection each.
Enqueue(r) ==
  /\ pc[r] = "enqueue"
  /\ FreeConnection
  /\ jobs' = jobs \cup {r}
  /\ Answer(r, "ok")
  /\ UNCHANGED <<body, window, count, counters, ingest_decisions, minute>>

\* Mutant: a handler waits for a connection as long as it takes.
AcquireTimeout_None(r) == FALSE /\ UNCHANGED guardVars

\* Mutant: the result of record is ignored altogether, its error included.
AcquireTimeout_Ignored(r) ==
  /\ pc[r] = "record"
  /\ ~ FreeConnection
  /\ Answer(r, "too many requests")
  /\ UNCHANGED <<body, window, count, counters, ingest_decisions, jobs, minute>>

\* The pool stays empty for acquire_timeout: the error ends the handler, and what it
\* had counted is rolled back.
AcquireTimeout(r) ==
  /\ pc[r] \in {"payload", "begin", "record", "enqueue"}
  /\ ~ FreeConnection
  /\ Answer(r, "internal error")
  /\ UNCHANGED <<body, window, count, counters, ingest_decisions, jobs, minute>>

\* The database fails the statement, or the connection is lost: rollback.
StatementFails(r) ==
  /\ pc[r] \in Steps \ {"arriving", "clock", "done"}
  /\ Answer(r, "internal error")
  /\ UNCHANGED <<body, window, count, counters, ingest_decisions, jobs, minute>>

NextMinute ==
  /\ minute < LastMinute
  /\ minute' = minute + 1
  /\ UNCHANGED <<body, pc, window, count, counters, ingest_decisions, jobs, answer>>

----------------------------------------------------------------------------

\* What the runtime, the database and the timer of the pool do for a handler.
HandlerStep(r) ==
  \/ Receive(r) \/ check_payload(r) \/ ReadClock(r) \/ BeginRate(r) \/ Increment(r)
  \/ Admit(r) \/ Deny(r) \/ RecordDenial(r) \/ CommitDenial(r) \/ Enqueue(r)
  \/ AcquireTimeout(r)

GuardNext ==
  \/ \E r \in Requests : HandlerStep(r) \/ StatementFails(r)
  \/ NextMinute

\* Handlers are scheduled; nothing is assumed of failures and of the clock.
GuardSpec ==
  GuardInit /\ [][GuardNext]_guardVars /\ \A r \in Requests : WF_guardVars(HandlerStep(r))

----------------------------------------------------------------------------
(* Properties                                                               *)

\* However many requests count at a time, no more than the limit become jobs on
\* the counter of one minute, and none becomes a job without having been counted
\* (check_rate: "Atomically increments the queue's minute counter").
AdmittedWithinLimit ==
  \A m \in Minutes :
    LET admitted == {r \in Requests : window[r] = m /\ (r \in jobs \/ pc[r] = "enqueue")}
    IN  Cardinality(admitted) <= MaxPerMinute /\ Cardinality(admitted) <= counters[m]

\* Who is told to be denied has a row that says so, whatever the pool and the
\* database do in between (enqueue_guard.rs: "Writes ingest_decisions rows for denials
\* so Law 4 is provable without logs").
DeniedIsRecorded ==
  \A r \in Requests :
    answer[r] \in {"payload too large", "too many requests"} => r \in ingest_decisions

\* Every request is answered, although handlers hold a connection and a row lock
\* while they wait for a second connection: acquire_timeout breaks the circle of
\* handlers that wait for the row and the one that waits for their connections.
EveryRequestAnswered == \A r \in Requests : <>(pc[r] = "done" /\ answer[r] # "none")
=============================================================================
