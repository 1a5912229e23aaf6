------------------------------ MODULE CkStack ------------------------------
(***************************************************************************)
(* The stack of ds_ck_stack_upmc.h: any number of threads push and pop by  *)
(* compare-and-swap on head.  One action per access to shared memory;      *)
(* _lkmm and _c share their control except for can_loop, which ends a loop *)
(* of kernel code after a number of rounds and is 1 in user space.  try-   *)
(* push and trypop, which nothing calls, are the loops left after their    *)
(* first round.                                                            *)
(*                                                                         *)
(* A popped entry is not given back to the allocator; that is what keeps a *)
(* compare-and-swap with an old head from succeeding by accident.  The     *)
(* pair and the link of an entry are written while the entry is private.   *)
(* A pair is named after the thread that pushes it.                        *)
(***************************************************************************)
EXTENDS Integers, Sequences, FiniteSets

CONSTANTS Producer, Consumer,
          Kernel,          \* the threads that run BPF code
          Observer,        \* threads that call verify
          MaxEntries,      \* bound: entries the arena has room for
          MaxRounds,       \* rounds can_loop grants a loop in the kernel
          CountModulus     \* 2^64: the statistics counter is unsigned and wraps

ASSUME BoundsAssumption == MaxEntries \in Nat /\ MaxRounds \in Nat \ {0}
ASSUME CountAssumption == CountModulus \in Nat /\ CountModulus > MaxEntries
ASSUME ThreadAssumption == IsFiniteSet(Producer) /\ IsFiniteSet(Consumer)

VARIABLES
  head, count,             \* struct ds_ck_stack_upmc_head
  next, elem, used,        \* the entries: links, pairs, those the allocator handed out
  prod,                    \* a push: step, and entry, head, rounds done
  cons,                    \* a pop: step, and head, next, rounds done
  obs,                     \* a verify: step, and slow, fast; its result
  popped, lost, delivered  \* history: entries taken off, entries never linked, pairs popped

stackVars == <<head, count>>
entryVars == <<next, elem, used>>
histVars == <<popped, lost, delivered>>
vars == <<stackVars, entryVars, prod, cons, obs, histVars>>

Null == 0
Entry == 1 .. MaxEntries
NoItem == "none"           \* the pair of an entry nobody has filled

IdleProducer == [pc |-> "idle", entry |-> Null, head |-> Null, rounds |-> 0]
IdleConsumer == [pc |-> "idle", head |-> Null, next |-> Null, rounds |-> 0]
IdleObserver == [pc |-> "idle", slow |-> Null, fast |-> Null]

\* ds_ck_stack_upmc_init
Init ==
  /\ head = Null /\ count = 0
  /\ next = [e \in Entry |-> Null] /\ elem = [e \in Entry |-> NoItem] /\ used = {}
  /\ prod = [p \in Producer |-> IdleProducer]
  /\ cons = [c \in Consumer |-> IdleConsumer]
  /\ obs = [o \in Observer |-> IdleObserver]
  /\ popped = {} /\ lost = {} /\ delivered = <<>>

\* can_loop: the rounds after another one, and whether there may be another.
Round(t, rounds) == IF t \in Kernel THEN rounds + 1 ELSE rounds
CanLoop(t, rounds) == t \notin Kernel \/ rounds + 1 < MaxRounds
----------------------------------------------------------------------------
(* ds_ck_stack_upmc_insert and push_upmc *)

\* The entry bpf_arena_alloc returns: one that is not in use.
Fresh == CHOOSE e \in Entry \ used : \A f \in Entry \ used : e <= f

\* The entry is allocated and filled.
InsertBegin(p) ==
  /\ prod[p].pc = "idle" /\ used # Entry
  /\ used' = used \cup {Fresh}
  /\ elem' = [elem EXCEPT ![Fresh] = p]
  /\ prod' = [prod EXCEPT ![p].pc = "head", ![p].entry = Fresh]
  /\ UNCHANGED <<stackVars, next, cons, obs, histVars>>

\* head = stack->head
PushHead(p) ==
  /\ prod[p].pc = "head"
  /\ prod' = [prod EXCEPT ![p].pc = "swap", ![p].head = head]
  /\ UNCHANGED <<stackVars, entryVars, cons, obs, histVars>>

\* Mutant of PushSwap: a plain store instead of the compare-and-swap.
MutantPushSwap(p) ==
  /\ prod[p].pc = "swap"
  /\ next' = [next EXCEPT ![prod[p].entry] = prod[p].head]
  /\ head' = prod[p].entry
  /\ prod' = [prod EXCEPT ![p].pc = "count"]
  /\ UNCHANGED <<count, elem, used, cons, obs, histVars>>

\* entry->next = head, stored in every round, is seen only when this succeeds:
\* cmpxchg(&stack->head, head, entry)
PushSwap(p) ==
  /\ prod[p].pc = "swap" /\ head = prod[p].head
  /\ next' = [next EXCEPT ![prod[p].entry] = prod[p].head]
  /\ head' = prod[p].entry
  /\ prod' = [prod EXCEPT ![p].pc = "count"]
  /\ UNCHANGED <<count, elem, used, cons, obs, histVars>>

\* ... fails: head = observed, another round
PushRetry(p) ==
  /\ prod[p].pc = "swap" /\ head # prod[p].head
  /\ CanLoop(p, prod[p].rounds)
  /\ prod' = [prod EXCEPT ![p].head = head, ![p].rounds = Round(p, prod[p].rounds)]
  /\ UNCHANGED <<stackVars, entryVars, cons, obs, histVars>>

\* ... fails in the last round: insert returns DS_SUCCESS all the same
PushGiveUp(p) ==
  /\ prod[p].pc = "swap" /\ head # prod[p].head
  /\ ~CanLoop(p, prod[p].rounds)
  /\ prod' = [prod EXCEPT ![p] = IdleProducer]
  /\ lost' = lost \cup {prod[p].entry}
  /\ UNCHANGED <<stackVars, entryVars, cons, obs, popped, delivered>>

\* count + 1; DS_SUCCESS
PushCount(p) ==
  /\ prod[p].pc = "count"
  /\ count' = (count + 1) % CountModulus
  /\ prod' = [prod EXCEPT ![p] = IdleProducer]
  /\ UNCHANGED <<head, entryVars, cons, obs, histVars>>

PushStep(p) == PushHead(p) \/ PushSwap(p) \/ PushRetry(p) \/ PushGiveUp(p) \/ PushCount(p)

ds_ck_stack_upmc_insert(p) == InsertBegin(p) \/ PushStep(p)
----------------------------------------------------------------------------
(* ds_ck_stack_upmc_pop and pop_upmc *)

\* What the loop does with the head it has read: go on, or leave with
\* DS_ERROR_NOT_FOUND when there is none or no round is left.
PopLoop(c, h, rounds, more) ==
  cons' = [cons EXCEPT ![c] = IF h # Null /\ more
                              THEN [pc |-> "next", head |-> h, next |-> Null, rounds |-> rounds]
                              ELSE IdleConsumer]

\* head = stack->head
PopHead(c) ==
  /\ cons[c].pc = "idle"
  /\ PopLoop(c, head, 0, TRUE)
  /\ UNCHANGED <<stackVars, entryVars, prod, obs, histVars>>

\* Mutant of PopNext: the loop ends at the last entry instead of behind it.
MutantPopNext(c) ==
  /\ cons[c].pc = "next"
  /\ LET after == next[cons[c].head]
     IN  cons' = [cons EXCEPT ![c] = IF after = Null THEN IdleConsumer
                                     ELSE [@ EXCEPT !.pc = "swap", !.next = after]]
  /\ UNCHANGED <<stackVars, entryVars, prod, obs, histVars>>

\* next = head->next
PopNext(c) ==
  /\ cons[c].pc = "next"
  /\ cons' = [cons EXCEPT ![c].pc = "swap", ![c].next = next[cons[c].head]]
  /\ UNCHANGED <<stackVars, entryVars, prod, obs, histVars>>

\* Mutant of PopSwap: the entry is given back to the allocator at once.
MutantPopSwap(c) ==
  /\ cons[c].pc = "swap" /\ head = cons[c].head
  /\ head' = cons[c].next
  /\ popped' = popped \cup {cons[c].head}
  /\ used' = used \ {cons[c].head}
  /\ delivered' = Append(delivered, elem[cons[c].head])
  /\ cons' = [cons EXCEPT ![c].pc = "count"]
  /\ UNCHANGED <<count, next, elem, prod, obs, lost>>

\* cmpxchg(&stack->head, head, next) succeeds: the entry, whose pair nobody
\* writes again, belongs to this consumer
PopSwap(c) ==
  /\ cons[c].pc = "swap" /\ head = cons[c].head
  /\ head' = cons[c].next
  /\ popped' = popped \cup {cons[c].head}
  /\ delivered' = Append(delivered, elem[cons[c].head])
  /\ cons' = [cons EXCEPT ![c].pc = "count"]
  /\ UNCHANGED <<count, entryVars, prod, obs, lost>>

\* ... fails: head = observed
PopRetry(c) ==
  /\ cons[c].pc = "swap" /\ head # cons[c].head
  /\ PopLoop(c, head, Round(c, cons[c].rounds), CanLoop(c, cons[c].rounds))
  /\ UNCHANGED <<stackVars, entryVars, prod, obs, histVars>>

\* count - 1; DS_SUCCESS
PopCount(c) ==
  /\ cons[c].pc = "count"
  /\ count' = (count - 1) % CountModulus
  /\ cons' = [cons EXCEPT ![c] = IdleConsumer]
  /\ UNCHANGED <<head, entryVars, prod, obs, histVars>>

ds_ck_stack_upmc_pop_upmc(c) ==
  PopHead(c) \/ PopNext(c) \/ PopSwap(c) \/ PopRetry(c) \/ PopCount(c)

\* The pair of the entry that pop_upmc returns is copied out.
ds_ck_stack_upmc_pop(c) == ds_ck_stack_upmc_pop_upmc(c)
----------------------------------------------------------------------------
(* ds_ck_stack_upmc_verify, beside the other threads *)

\* slow = fast = stack->head
VerifyBegin(o) ==
  /\ obs[o].pc = "idle"
  /\ obs' = [obs EXCEPT ![o] = [pc |-> "walk", slow |-> head, fast |-> head]]
  /\ UNCHANGED <<stackVars, entryVars, prod, cons, histVars>>

\* Mutant of VerifyRound: fast advances by one link only.
MutantVerifyRound(o) ==
  /\ obs[o].pc = "walk"
  /\ LET fast == obs[o].fast
         slow == next[obs[o].slow]
     IN  obs' = [obs EXCEPT ![o] =
                   IF fast = Null \/ next[fast] = Null THEN IdleObserver
                   ELSE [pc |-> IF slow # Null /\ slow = next[fast] THEN "corrupt" ELSE "walk",
                         slow |-> slow, fast |-> next[fast]]]
  /\ UNCHANGED <<stackVars, entryVars, prod, cons, histVars>>

\* One round of the loop, three loads of links that no longer change: the end of
\* the list (DS_SUCCESS), or slow and fast meet (DS_ERROR_CORRUPT).
VerifyRound(o) ==
  /\ obs[o].pc = "walk"
  /\ LET fast == obs[o].fast
         slow == next[obs[o].slow]
     IN  obs' = [obs EXCEPT ![o] =
                   IF fast = Null \/ next[fast] = Null THEN IdleObserver
                   ELSE [pc |-> IF slow # Null /\ slow = next[next[fast]] THEN "corrupt" ELSE "walk",
                         slow |-> slow, fast |-> next[next[fast]]]]
  /\ UNCHANGED <<stackVars, entryVars, prod, cons, histVars>>

ds_ck_stack_upmc_verify(o) == VerifyBegin(o) \/ VerifyRound(o)

----------------------------------------------------------------------------
Next ==
  \/ \E p \in Producer : ds_ck_stack_upmc_insert(p)
  \/ \E c \in Consumer : ds_ck_stack_upmc_pop(c)
  \/ \E o \in Observer : ds_ck_stack_upmc_verify(o)

Spec == Init /\ [][Next]_vars

\* A call in progress goes on, and consumers poll.
Fairness ==
  /\ \A p \in Producer : WF_vars(PushStep(p))
  /\ \A c \in Consumer : WF_vars(ds_ck_stack_upmc_pop(c))

FairSpec == Spec /\ Fairness
----------------------------------------------------------------------------
(* Properties *)

Link == Entry \cup {Null}
Pair == Producer \cup {NoItem}

ProducerRecord == [pc : {"idle", "head", "swap", "count"}, entry : Link, head : Link,
                   rounds : 0 .. MaxRounds]
ConsumerRecord == [pc : {"idle", "next", "swap", "count"}, head : Link, next : Link,
                   rounds : 0 .. MaxRounds]
ObserverRecord == [pc : {"idle", "walk", "corrupt"}, slow : Link, fast : Link]

\* Type invariant.
TypeOK ==
  /\ head \in Link /\ count \in 0 .. CountModulus - 1
  /\ next \in [Entry -> Link] /\ elem \in [Entry -> Pair] /\ used \subseteq Entry
  /\ prod \in [Producer -> ProducerRecord] /\ cons \in [Consumer -> ConsumerRecord]
  /\ obs \in [Observer -> ObserverRecord]
  /\ popped \subseteq Entry /\ lost \subseteq Entry /\ delivered \in Seq(Pair)

\* The cursor of ds_ck_stack_upmc_search after k rounds, and all it meets.
Hop[k \in 0 .. MaxEntries] ==
  IF k = 0 THEN head ELSE IF Hop[k - 1] = Null THEN Null ELSE next[Hop[k - 1]]
Linked == {Hop[k] : k \in 0 .. MaxEntries} \ {Null}

Depth == IF head = Null THEN 0 ELSE CHOOSE k \in Entry : Hop[k - 1] # Null /\ next[Hop[k - 1]] = Null

Pushing == {prod[p].entry : p \in {q \in Producer : prod[q].pc \in {"head", "swap"}}}

\* An entry that was handed out is being pushed, linked, popped, or was given up
\* by a push out of rounds, and only one of these: no pair is on the stack twice,
\* or comes back after it was popped, or is lost in another way, although insert
\* reports success even for those that were given up.  The counter that stats and
\* the exit report print is the number of linked entries whenever nobody is about
\* to update it.
EntriesAccounted ==
  /\ TypeOK
  /\ used = Pushing \cup Linked \cup popped \cup lost
  /\ Pushing \cap Linked = {} /\ Pushing \cap popped = {} /\ Pushing \cap lost = {}
  /\ Linked \cap popped = {} /\ Linked \cap lost = {} /\ popped \cap lost = {}
  /\ \/ count = Depth
     \/ \E p \in Producer : prod[p].pc = "count"
     \/ \E c \in Consumer : cons[c].pc = "count"

\* The pairs on the stack, newest first.
Contents == [k \in 1 .. Depth |-> elem[Hop[k - 1]]]

\* A verification beside pushes and pops never takes the list for a cycle.
VerifyNeverCorrupt == \A o \in Observer : obs[o].pc # "corrupt"

\* The list implements the abstract stack: a push takes effect when the entry is
\* linked (and has no effect when it gives up), a pop when the head moves.
Lifo == INSTANCE LifoStack WITH Item <- Producer, stack <- Contents, Capacity <- MaxEntries
ImplementsLifo == Lifo!Spec

\* Polling consumers empty the stack once the pushes have ended.
EventuallyDrained == <>[](Contents = <<>>)
=============================================================================
