----------------------------- MODULE FifoQueue -----------------------------
(***************************************************************************)
(* What the queues of this repository promise their callers: a bounded     *)
(* first-in first-out queue whose insert and pop take effect at one        *)
(* instant.  The ring and list modules are shown to implement it.          *)
(***************************************************************************)
EXTENDS Naturals, Sequences

CONSTANTS Item,      \* the key/value pairs that may be inserted
          Capacity   \* the largest number of items held at once

VARIABLES queue,     \* the items inserted and not yet popped, oldest first
          delivered  \* every item handed to a consumer, in the order of the pops

Init == queue = <<>> /\ delivered = <<>>

Insert(x) ==
  /\ Len(queue) < Capacity
  /\ queue' = Append(queue, x)
  /\ UNCHANGED delivered

Pop ==
  /\ queue # <<>>
  /\ queue' = Tail(queue)
  /\ delivered' = Append(delivered, Head(queue))

Next == Pop \/ \E x \in Item : Insert(x)

Spec == Init /\ [][Next]_<<queue, delivered>>
=============================================================================
