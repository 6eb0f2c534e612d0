---------------------------- MODULE MCSqliteBackend ----------------------------
(* An instance of SqliteBackend for TLC.                                        *)
EXTENDS SqliteBackend, TLC

CONSTANTS q1, k1, w1, w2

TwoJobs == 1 .. 2

Plain ==
  [queue |-> q1, idempotency_key |-> None, priority |-> 0, run_at |-> 0, deadline_at |-> None,
   recurring_interval_seconds |-> None, max_attempts |-> 2]

\* Work that recurs under a key, and work of a higher priority with a deadline.
Inputs ==
  {[Plain EXCEPT !.idempotency_key = k1, !.recurring_interval_seconds = 0],
   [Plain EXCEPT !.priority = 1, !.deadline_at = 0]}

\* One row, and all of them: LIMIT -1.
Limits == {-1, 1}

WorkerSymmetry == Permutations({w1, w2})
=============================================================================
