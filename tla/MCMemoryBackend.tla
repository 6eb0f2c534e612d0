---------------------------- MODULE MCMemoryBackend ----------------------------
(* Instances of MemoryBackend for TLC.  Each run gives the clients the arguments *)
(* that its question is about and leaves out the others.                         *)
EXTENDS MemoryBackend, TLC

CONSTANTS q1, k1, w1, w2

TwoJobs == 1 .. 2

ThreeJobs == 1 .. 3

Plain ==
  [queue |-> q1, idempotency_key |-> None, priority |-> 0, run_at |-> 0, deadline_at |-> None,
   recurring_interval_seconds |-> None, max_attempts |-> 2]

\* memory_leases: work of a low priority, and of a high one that has to start at once.
LeaseInputs == {Plain, [Plain EXCEPT !.priority = 1, !.deadline_at = 0]}

\* memory_history: one key, used by a job that runs once and by one that recurs.
HistoryInputs ==
  {[Plain EXCEPT !.idempotency_key = k1],
   [Plain EXCEPT !.idempotency_key = k1, !.recurring_interval_seconds = 1]}

WorkerSymmetry == Permutations({w1, w2})
=============================================================================
