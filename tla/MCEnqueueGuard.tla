---------------------------- MODULE MCEnqueueGuard ----------------------------
(* An instance of EnqueueGuard for TLC.                                        *)
EXTENDS EnqueueGuard

CONSTANTS r1, r2, r3
=============================================================================
