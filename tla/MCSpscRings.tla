---------------------------- MODULE MCSpscRings ----------------------------
(* A CK ring of four slots, three of them usable, and an io_uring ring of  *)
(* two.  The pairs differ in both words.                                   *)
EXTENDS SpscRings

CONSTANTS k1, k2, v1, v2

MCItem == {[key |-> k1, value |-> v1], [key |-> k2, value |-> v2]}
MCSize == [ck |-> 4, io_uring |-> 2]
=============================================================================
