--------------------------- MODULE MCPostgresWorker ---------------------------
(* Instances of PostgresWorker for TLC.                                         *)
EXTENDS PostgresWorker, TLC

CONSTANTS w1, w2, c1, k1

TwoJobs == 1 .. 2

OneJob == {1}

Plain ==
  [idempotency_key |-> None, priority |-> 0, run_at |-> 0, deadline_at |-> None,
   max_attempts |-> 2]

\* One that must start at once, one with a key.
MixedJobs == {[Plain EXCEPT !.idempotency_key = k1], [Plain EXCEPT !.deadline_at = 0]}

TwoAMinute == [max_in_flight |-> 2, max_attempts_per_minute |-> 2, throttle_delay |-> 1]

OneInFlight == [max_in_flight |-> 1, max_attempts_per_minute |-> 9, throttle_delay |-> 1]

WorkerSymmetry == Permutations({w1, w2})
=============================================================================
