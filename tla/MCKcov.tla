------------------------------- MODULE MCKcov -------------------------------
(* Pairs that differ in both words. *)
EXTENDS Kcov

CONSTANTS k1, k2, v1, v2

MCItem == {[key |-> k1, value |-> v1], [key |-> k2, value |-> v2]}
=============================================================================
