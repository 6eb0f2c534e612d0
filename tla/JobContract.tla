------------------------------ MODULE JobContract ------------------------------
(***************************************************************************)
(* What every storage backend promises about the life of a job, whatever   *)
(* it stores the job in: the lifecycle of JobLifecycleState in             *)
(* crates/azums-core/src/model.rs with the contracts of                    *)
(* crates/azums-core/src/semantics.rs (LeaseExclusivity, RunAtEligibility, *)
(* CrashRecoveryAfterLeaseExpiry).  MemoryBackend and SqliteBackend are    *)
(* shown to implement it.                                                  *)
(*                                                                         *)
(* Cancelled and dead-lettered queued work, which legal_successors does    *)
(* not list and every backend produces (cancel_job, the deadline sweep of  *)
(* a lease), are steps here; archiving is the step after completion.       *)
(***************************************************************************)
EXTENDS Integers

CONSTANTS JobIds, AttemptIds, Workers, Instants, None

VARIABLES
  now,   \* the clock the leases are measured by
  job    \* the contract's view of every job

AttemptOutcomes == {"succeeded", "HANDLER_FAILURE", "LEASE_EXPIRED", "CANCELLED"}

\* The lifecycle states as they are persisted; RETRY_WAIT is a queued row whose
\* run_at lies ahead.
States == {"absent", "queued", "running", "succeeded", "dlq", "canceled", "archived"}

View ==
  [status : States, holder : Workers \cup {None}, expiry : Instants \cup {None},
   run_at : Instants \cup {None}, attempt : [AttemptIds -> AttemptOutcomes \cup {"none", "open"}]]

NoAttempts == [a \in AttemptIds |-> "none"]

\* A job before it is committed, and after it was archived.
Gone(status) ==
  [status |-> status, holder |-> None, expiry |-> None, run_at |-> None, attempt |-> NoAttempts]

ContractInit == now \in Instants /\ job = [j \in JobIds |-> Gone("absent")]

----------------------------------------------------------------------------
(* The steps of one job from the view o to the view n                       *)

Queued(n) == n.status = "queued" /\ n.holder = None /\ n.expiry = None

Over(n, status) == n.status = status /\ n.holder = None /\ n.expiry = None

\* Exactly one attempt goes from one state to another.
OneAttempt(o, n, from, to) ==
  \E a \in AttemptIds : o.attempt[a] = from /\ n.attempt = [o.attempt EXCEPT ![a] = to]

Commit(o, n) == o.status = "absent" /\ Queued(n) /\ n.attempt = NoAttempts

\* RunAtEligibility and LeaseExclusivity: only queued work that is due is leased.
Lease(o, n) ==
  /\ o.status = "queued" /\ o.run_at <= now
  /\ \E w \in Workers, t \in Instants :
       n = [o EXCEPT !.status = "running", !.holder = w, !.expiry = t]

StartAttempt(o, n) ==
  /\ o.status = "running"
  /\ OneAttempt(o, n, "none", "open")
  /\ n = [o EXCEPT !.attempt = n.attempt]

Extend(o, n) == o.status = "running" /\ n = [o EXCEPT !.expiry = n.expiry] /\ n.expiry \in Instants

Complete(o, n) ==
  o.status = "running" /\ Over(n, "succeeded") /\ OneAttempt(o, n, "open", "succeeded")

RetryOrBury(o, n) ==
  /\ o.status = "running"
  /\ Queued(n) \/ Over(n, "dlq")
  /\ OneAttempt(o, n, "open", "HANDLER_FAILURE")

\* CrashRecoveryAfterLeaseExpiry: only an expired lease is taken back, and then
\* every attempt its holder left open is closed.
Recover(o, n) ==
  /\ o.status = "running" /\ o.expiry <= now
  /\ Queued(n) /\ n.run_at = o.run_at
  /\ n.attempt = [a \in AttemptIds |-> IF o.attempt[a] = "open" THEN "LEASE_EXPIRED" ELSE o.attempt[a]]

Cancel(o, n) ==
  /\ o.status \in {"queued", "running"} /\ Over(n, "canceled")
  /\ n.attempt = o.attempt \/ (o.status = "running" /\ OneAttempt(o, n, "open", "CANCELLED"))

MissDeadline(o, n) == o.status = "queued" /\ Over(n, "dlq") /\ n.attempt = o.attempt

Archived(o, n) == o.status = "succeeded" /\ n = Gone("archived")

JobStep(o, n) ==
  \/ Commit(o, n) \/ Lease(o, n) \/ StartAttempt(o, n) \/ Extend(o, n) \/ Complete(o, n)
  \/ RetryOrBury(o, n) \/ Recover(o, n) \/ Cancel(o, n) \/ MissDeadline(o, n) \/ Archived(o, n)

\* One operation may move several jobs, each by a step of its own.
ContractNext ==
  /\ now' \in Instants /\ now' >= now
  /\ \A j \in JobIds : \E o \in {job[j]}, n \in {job'[j]} : n = o \/ (n \in View /\ JobStep(o, n))

ContractSpec == ContractInit /\ [][ContractNext]_<<now, job>>

----------------------------------------------------------------------------
(* What the contract implies                                                *)

Succeeded(v) == {a \in AttemptIds : v.attempt[a] = "succeeded"}

\* A job is completed by one attempt: it is succeeded exactly when one of its
\* attempts is and never by two, and a lease and its expiry are there together
\* exactly while the job is running (from_persisted reads the state off the row).
OneCompletion ==
  \A j \in JobIds :
    /\ job[j].status = "succeeded" <=> Succeeded(job[j]) # {}
    /\ \A a, b \in Succeeded(job[j]) : a = b
    /\ job[j].status = "running" <=> job[j].holder # None
    /\ job[j].status = "running" <=> job[j].expiry # None
=============================================================================
