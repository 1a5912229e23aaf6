------------------------------ MODULE MCCkFifo ------------------------------
(* A small instance of the CK FIFO. *)
EXTENDS CkFifo

CONSTANTS k1, k2, v1, v2

MCKey == {k1, k2}
MCValue == {v1, v2}
MCItem == {[key |-> k1, value |-> v1], [key |-> k2, value |-> v2]}
=============================================================================
