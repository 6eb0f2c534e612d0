--------------------------- MODULE MCPostgresBackend ---------------------------
(* Instances of PostgresBackend for TLC.                                        *)
EXTENDS PostgresBackend, TLC

CONSTANTS w1, w2, c1, k1

TwoJobs == 1 .. 2

KeyedJob ==
  {[idempotency_key |-> k1, priority |-> 0, run_at |-> 0, deadline_at |-> None,
    max_attempts |-> 2]}

NoPolicy == None

WorkerSymmetry == Permutations({w1, w2})
=============================================================================
