---------------------------- MODULE MCRedisBackend ----------------------------
(* Instances of RedisBackend for TLC.                                           *)
EXTENDS RedisBackend

CONSTANTS q1, k1, w1, w2, app, j1, j2

\* Work under a key that recurs and has to be started at once.  The next occurrence
\* and a replay are work for later.
Inputs ==
  {[queue |-> q1, idempotency_key |-> k1, run_at |-> 0, deadline_at |-> 0,
    recurring_interval_seconds |-> 0]}

WorkerSymmetry == Permutations({w1, w2})
=============================================================================
