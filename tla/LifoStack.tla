----------------------------- MODULE LifoStack -----------------------------
(***************************************************************************)
(* What the stack-like structures of this repository promise: a bounded    *)
(* last-in first-out stack whose push and pop take effect at one instant.  *)
(***************************************************************************)
EXTENDS Naturals, Sequences

CONSTANTS Item,      \* the key/value pairs that may be pushed
          Capacity   \* the largest number of items held at once

VARIABLES stack,     \* the items pushed and not yet popped, newest first
          delivered  \* every item handed to a consumer, in the order of the pops

Init == stack = <<>> /\ delivered = <<>>

Push(x) ==
  /\ Len(stack) < Capacity
  /\ stack' = <<x>> \o stack
  /\ UNCHANGED delivered

Pop ==
  /\ stack # <<>>
  /\ stack' = Tail(stack)
  /\ delivered' = Append(delivered, Head(stack))

Next == Pop \/ \E x \in Item : Push(x)

Spec == Init /\ [][Next]_<<stack, delivered>>
=============================================================================
