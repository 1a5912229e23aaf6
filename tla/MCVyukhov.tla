----------------------------- MODULE MCVyukhov -----------------------------
(* Small instances of the Vyukhov ring. *)
EXTENDS Vyukhov

CONSTANTS k1, k2, v1, v2

MCKey == {k1, k2}
MCValue == {v1, v2}
MCItem == {[key |-> k1, value |-> v1], [key |-> k2, value |-> v2]}
MCOneItem == {[key |-> k1, value |-> v1]}

\* Calls in progress go on, and the relay thread polls whenever it may run.
FairExitSpec ==
  /\ ExitSpec /\ ProducerFairness
  /\ \A c \in Consumer : SF_vars(ds_vyukhov_pop(c) /\ RelayJoined)
  /\ \A o \in Observer : WF_vars(VerifyDeq(o) \/ VerifyCount(o))
=============================================================================
