---------------------------- MODULE MCQuickstartFlow ----------------------------
(* Instances of QuickstartFlow for TLC.                                          *)
EXTENDS QuickstartFlow

CONSTANTS q1, w1, w2, f1, f2

OneJob == {1}

TwoJobs == 1 .. 2

Plain ==
  [queue |-> q1, idempotency_key |-> None, priority |-> 0, run_at |-> 0, deadline_at |-> None,
   recurring_interval_seconds |-> None, max_attempts |-> 2]

PlainJob == {Plain}

OwnIdentity == [f \in {f1, f2} |-> IF f = f1 THEN w1 ELSE w2]

OneQueue == [f \in {f1, f2} |-> q1]
=============================================================================
