---------------------------- MODULE MCEventStream ----------------------------
(* Instances of EventStream for TLC.                                           *)
EXTENDS EventStream

CONSTANTS s1, g1, g2, c1, c2, c3

AllOnOneStream == [c \in {c1, c2, c3} |-> s1]

\* Two consumers share a group, the third has its own.
TwoGroups == [c \in {c1, c2, c3} |-> IF c = c3 THEN g2 ELSE g1]
=============================================================================
