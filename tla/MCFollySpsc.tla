---------------------------- MODULE MCFollySpsc ----------------------------
(* Small instances of the Folly ring.  Two pairs that differ in both words *)
(* make a torn pair visible.                                               *)
EXTENDS FollySpsc, TLC

CONSTANTS k1, k2, v1, v2

MCKey == {k1, k2}
MCValue == {v1, v2}
MCItem == {[key |-> k1, value |-> v1], [key |-> k2, value |-> v2]}
=============================================================================
