------------------------------ MODULE MsQueue ------------------------------
(***************************************************************************)
(* The Michael-Scott queue of ds_msqueue.h, one action per access to       *)
(* shared memory; _lkmm and _c share their control.  Unlike the published  *)
(* algorithm the enqueuer does not look at tail again before it acts on    *)
(* tail->next, and both loops give up after MaxRetries rounds.             *)
(*                                                                         *)
(* The allocator is taken to carve every node out of fresh memory, so      *)
(* nodes are numbered in the order of allocation; node 0 is the dummy of   *)
(* ds_msqueue_init.  A pop may read anything from a node that was freed;   *)
(* the link of a freed node that an insert still holds is taken to stay.   *)
(* A node's pair is written before the node is linked and never again, so  *)
(* it is copied in one step; a pair is named after the thread that inserts *)
(* it.  A thread's locals are forgotten when its call returns or its loop  *)
(* starts another round.                                                   *)
(***************************************************************************)
EXTENDS Integers, Sequences, FiniteSets

CONSTANTS Producer, Consumer,
          MaxRetries,      \* max_retries (10 in the code)
          MaxIterations,   \* max_iterations of search and verify (100000 in the code)
          MaxNodes,        \* bound: nodes the arena has room for, besides the dummy
          CountModulus,    \* 2^64: the statistics counter is unsigned and wraps
          VerifySlack      \* tolerance of ds_msqueue_verify (100 in the code)

ASSUME BoundsAssumption == MaxRetries \in Nat \ {0} /\ MaxNodes \in Nat /\ MaxIterations \in Nat \ {0}
ASSUME VerifyAssumption ==
  VerifySlack \in Nat \ {0} /\ CountModulus \in Nat /\ CountModulus > MaxNodes + VerifySlack
ASSUME ThreadAssumption == IsFiniteSet(Producer) /\ IsFiniteSet(Consumer)

VARIABLES
  head, tail, count,       \* struct ds_msqueue
  next, elem, allocated,   \* the nodes: links, pairs, how many exist
  prod,                    \* producer: step, and new_node, tail, next, retry_count
  cons,                    \* consumer: step, and head, tail, next, *data, retry_count
  order, delivered, freed  \* history: nodes in linking order, pairs popped, nodes freed

queueVars == <<head, tail, count>>
nodeVars == <<next, elem, allocated>>
histVars == <<order, delivered, freed>>
vars == <<queueVars, nodeVars, prod, cons, histVars>>

Dummy == 0
Null == -1
NoItem == "none"           \* the pair of a node nobody has filled
Node == 0 .. MaxNodes
Link == Node \cup {Null}
Pair == Producer \cup {NoItem}

\* A thread outside of any call; empty: the queue was empty when next was read.
IdleProducer == [pc |-> "idle", node |-> Dummy, tail |-> Dummy, next |-> Null, retries |-> 0]
IdleConsumer == [pc |-> "idle", head |-> Dummy, tail |-> Dummy, next |-> Null, data |-> NoItem,
                 retries |-> 0, empty |-> FALSE]

\* ds_msqueue_init
Init ==
  /\ head = Dummy /\ tail = Dummy /\ count = 0
  /\ next = [n \in Node |-> Null] /\ elem = [n \in Node |-> NoItem] /\ allocated = 0
  /\ prod = [p \in Producer |-> IdleProducer]
  /\ cons = [c \in Consumer |-> IdleConsumer]
  /\ order = <<Dummy>> /\ delivered = <<>> /\ freed = {}
----------------------------------------------------------------------------
(* ds_msqueue_insert and __msqueue_add_node *)

\* The node is allocated and filled while it is still private.
InsertBegin(p) ==
  /\ prod[p].pc = "idle" /\ allocated < MaxNodes
  /\ allocated' = allocated + 1
  /\ elem' = [elem EXCEPT ![allocated + 1] = p]
  /\ next' = [next EXCEPT ![allocated + 1] = Null]
  /\ prod' = [prod EXCEPT ![p].pc = "tail", ![p].node = allocated + 1]
  /\ UNCHANGED <<queueVars, cons, histVars>>

\* tail = queue->tail
InsertTail(p) ==
  /\ prod[p].pc = "tail"
  /\ prod' = [prod EXCEPT ![p].pc = "next", ![p].tail = tail]
  /\ UNCHANGED <<queueVars, nodeVars, cons, histVars>>

\* next = tail->node.next; if it is set the tail is lagging
InsertNext(p) ==
  /\ prod[p].pc = "next"
  /\ LET n == next[prod[p].tail]
     IN  prod' = [prod EXCEPT ![p].pc = IF n = Null THEN "link" ELSE "help", ![p].next = n]
  /\ UNCHANGED <<queueVars, nodeVars, cons, histVars>>

\* retry_count++, and the test at the head of the loop; after the last round
\* the private node is freed and insert returns DS_ERROR_INVALID.
InsertRetry(p) ==
  \/ /\ prod[p].retries + 1 < MaxRetries
     /\ prod' = [prod EXCEPT ![p] = [IdleProducer EXCEPT !.pc = "tail", !.node = prod[p].node,
                                                         !.retries = prod[p].retries + 1]]
     /\ UNCHANGED freed
  \/ /\ prod[p].retries + 1 = MaxRetries
     /\ prod' = [prod EXCEPT ![p] = IdleProducer]
     /\ freed' = freed \cup {prod[p].node}

\* cmpxchg(&queue->tail, tail, next), whatever it returns
InsertHelp(p) ==
  /\ prod[p].pc = "help"
  /\ tail' = IF tail = prod[p].tail THEN prod[p].next ELSE tail
  /\ InsertRetry(p)
  /\ UNCHANGED <<head, count, nodeVars, cons, order, delivered>>

\* Mutant of InsertLink: a plain store instead of the compare-and-swap.
MutantInsertLink(p) ==
  /\ prod[p].pc = "link"
  /\ next' = [next EXCEPT ![prod[p].tail] = prod[p].node]
  /\ order' = Append(order, prod[p].node)
  /\ prod' = [prod EXCEPT ![p].pc = "count"]
  /\ UNCHANGED <<queueVars, elem, allocated, cons, delivered, freed>>

\* cmpxchg(&tail->node.next, NULL, new_node) succeeds: the pair is enqueued
InsertLink(p) ==
  /\ prod[p].pc = "link" /\ next[prod[p].tail] = Null
  /\ next' = [next EXCEPT ![prod[p].tail] = prod[p].node]
  /\ order' = Append(order, prod[p].node)
  /\ prod' = [prod EXCEPT ![p].pc = "count"]
  /\ UNCHANGED <<queueVars, elem, allocated, cons, delivered, freed>>

\* ... fails
InsertLose(p) ==
  /\ prod[p].pc = "link" /\ next[prod[p].tail] # Null
  /\ InsertRetry(p)
  /\ UNCHANGED <<queueVars, nodeVars, cons, order, delivered>>

\* arena_atomic_inc(&queue->count)
InsertCount(p) ==
  /\ prod[p].pc = "count"
  /\ count' = (count + 1) % CountModulus
  /\ prod' = [prod EXCEPT ![p].pc = "swing"]
  /\ UNCHANGED <<head, tail, nodeVars, cons, histVars>>

\* Mutant of InsertSwing: the tail is stored without a compare-and-swap.
MutantInsertSwing(p) ==
  /\ prod[p].pc = "swing"
  /\ tail' = prod[p].node
  /\ prod' = [prod EXCEPT ![p] = IdleProducer]
  /\ UNCHANGED <<head, count, nodeVars, cons, histVars>>

\* cmpxchg(&queue->tail, tail, new_node); DS_SUCCESS either way
InsertSwing(p) ==
  /\ prod[p].pc = "swing"
  /\ tail' = IF tail = prod[p].tail THEN prod[p].node ELSE tail
  /\ prod' = [prod EXCEPT ![p] = IdleProducer]
  /\ UNCHANGED <<head, count, nodeVars, cons, histVars>>

ds_msqueue_insert(p) ==
  \/ InsertBegin(p)
  \/ InsertTail(p) \/ InsertNext(p) \/ InsertHelp(p) \/ InsertLink(p) \/ InsertLose(p)
  \/ InsertCount(p) \/ InsertSwing(p)
----------------------------------------------------------------------------
(* ds_msqueue_pop *)

\* The pairs in the queue: those of the nodes linked after the dummy.
Popped == Len(delivered)
Contents == [k \in 1 .. Len(order) - 1 - Popped |-> elem[order[Popped + 1 + k]]]

\* head = queue->head, in the first round of the loop or a later one
PopHead(c) ==
  /\ cons[c].pc \in {"idle", "head"}
  /\ cons' = [cons EXCEPT ![c].pc = "tail", ![c].head = head]
  /\ UNCHANGED <<queueVars, nodeVars, prod, histVars>>

\* tail = queue->tail
PopTail(c) ==
  /\ cons[c].pc = "tail"
  /\ cons' = [cons EXCEPT ![c].pc = "next", ![c].tail = tail]
  /\ UNCHANGED <<queueVars, nodeVars, prod, histVars>>

\* What a pop may read from a node: once another pop has freed it, its page may be
\* gone or in other use, and the words are arbitrary.
NextOf(n) == IF n \in freed THEN Link ELSE {next[n]}
DataOf(n) == IF n \in freed THEN Pair ELSE {elem[n]}

\* next = head->node.next
PopNext(c) ==
  /\ cons[c].pc = "next"
  /\ \E n \in NextOf(cons[c].head) :
       cons' = [cons EXCEPT ![c].pc = "check", ![c].next = n, ![c].empty = (Contents = <<>>)]
  /\ UNCHANGED <<queueVars, nodeVars, prod, histVars>>

\* retry_count++, and the test at the head of the loop (DS_ERROR_INVALID)
PopRetry(c) ==
  cons' = [cons EXCEPT ![c] = IF cons[c].retries + 1 < MaxRetries
                              THEN [IdleConsumer EXCEPT !.pc = "head", !.retries = cons[c].retries + 1]
                              ELSE IdleConsumer]

\* queue->head != head
PopStale(c) ==
  /\ cons[c].pc = "check" /\ head # cons[c].head
  /\ PopRetry(c)
  /\ UNCHANGED <<queueVars, nodeVars, prod, histVars>>

\* Mutant of PopEmpty: a queue whose head and tail are equal is taken for an empty
\* one, a lagging tail included.
MutantPopEmpty(c) ==
  /\ cons[c].pc = "check" /\ head = cons[c].head /\ cons[c].head = cons[c].tail
  /\ cons' = [cons EXCEPT ![c] = IdleConsumer]
  /\ UNCHANGED <<queueVars, nodeVars, prod, histVars>>

\* next == NULL: DS_ERROR_NOT_FOUND
PopEmpty(c) ==
  /\ cons[c].pc = "check" /\ head = cons[c].head /\ cons[c].next = Null
  /\ cons' = [cons EXCEPT ![c] = IdleConsumer]
  /\ UNCHANGED <<queueVars, nodeVars, prod, histVars>>

\* a lagging tail, or an element
PopFound(c) ==
  /\ cons[c].pc = "check" /\ head = cons[c].head /\ cons[c].next # Null
  /\ cons' = [cons EXCEPT ![c].pc = IF cons[c].head = cons[c].tail THEN "help" ELSE "data"]
  /\ UNCHANGED <<queueVars, nodeVars, prod, histVars>>

\* cmpxchg(&queue->tail, tail, next), whatever it returns
PopHelp(c) ==
  /\ cons[c].pc = "help"
  /\ tail' = IF tail = cons[c].tail THEN cons[c].next ELSE tail
  /\ PopRetry(c)
  /\ UNCHANGED <<head, count, nodeVars, prod, histVars>>

\* data->key and data->value are copied before the compare-and-swap
PopData(c) ==
  /\ cons[c].pc = "data"
  /\ \E d \in DataOf(cons[c].next) : cons' = [cons EXCEPT ![c].pc = "swing", ![c].data = d]
  /\ UNCHANGED <<queueVars, nodeVars, prod, histVars>>

\* Mutant of PopSwing: the head is stored without a compare-and-swap.
MutantPopSwing(c) ==
  /\ cons[c].pc = "swing"
  /\ head' = cons[c].next
  /\ freed' = freed \cup {cons[c].head}
  /\ delivered' = Append(delivered, cons[c].data)
  /\ cons' = [cons EXCEPT ![c].pc = "count"]
  /\ UNCHANGED <<tail, count, nodeVars, prod, order>>

\* cmpxchg(&queue->head, head, next) succeeds; the old dummy is freed
PopSwing(c) ==
  /\ cons[c].pc = "swing" /\ head = cons[c].head
  /\ head' = cons[c].next
  /\ freed' = freed \cup {cons[c].head}
  /\ delivered' = Append(delivered, cons[c].data)
  /\ cons' = [cons EXCEPT ![c].pc = "count"]
  /\ UNCHANGED <<tail, count, nodeVars, prod, order>>

\* ... fails
PopLose(c) ==
  /\ cons[c].pc = "swing" /\ head # cons[c].head
  /\ PopRetry(c)
  /\ UNCHANGED <<queueVars, nodeVars, prod, histVars>>

\* arena_atomic_dec(&queue->count); DS_SUCCESS
PopCount(c) ==
  /\ cons[c].pc = "count"
  /\ count' = (count - 1) % CountModulus
  /\ cons' = [cons EXCEPT ![c] = IdleConsumer]
  /\ UNCHANGED <<head, tail, nodeVars, prod, histVars>>

ds_msqueue_pop(c) ==
  \/ PopHead(c) \/ PopTail(c) \/ PopNext(c) \/ PopStale(c) \/ PopEmpty(c) \/ PopFound(c)
  \/ PopHelp(c) \/ PopData(c) \/ PopSwing(c) \/ PopLose(c) \/ PopCount(c)
----------------------------------------------------------------------------
(* ds_msqueue_verify and ds_msqueue_search, as functions of the state *)

\* The k-th node met when following next from the head.
Hop[k \in 0 .. MaxNodes + 1] ==
  IF k = 0 THEN head ELSE IF Hop[k - 1] = Null THEN Null ELSE next[Hop[k - 1]]

Reached == {k \in 1 .. MaxNodes + 1 : Hop[k] # Null}
Length == IF Reached = {} THEN 0 ELSE CHOOSE k \in Reached : \A j \in Reached : j <= k

\* The loops of ds_msqueue_search and ds_msqueue_verify stop after MaxIterations nodes.
Visited == {k \in Reached : k <= MaxIterations}

\* The number the loop of ds_msqueue_verify arrives at: one less than it has visited.
Counted == IF Length = 0 THEN 0 ELSE (IF Length <= MaxIterations THEN Length ELSE MaxIterations) - 1

\* DS_SUCCESS, rather than one of the DS_ERROR_CORRUPT codes.  The sums of the
\* tolerance test are unsigned and wrap with the counter; the test for an infinite
\* loop never fires, since Counted stays below MaxIterations.
ds_msqueue_verify ==
  \/ head = tail /\ next[head] = Null
  \/ /\ \E k \in Visited : Hop[k] = tail
     /\ Counted <= (count + VerifySlack) % CountModulus
     /\ count <= Counted + VerifySlack

ds_msqueue_search(x) == \E k \in Visited : elem[Hop[k]] = x
----------------------------------------------------------------------------
Next ==
  \/ \E p \in Producer : ds_msqueue_insert(p)
  \/ \E c \in Consumer : ds_msqueue_pop(c)

Spec == Init /\ [][Next]_vars

\* A call in progress goes on (it never blocks), and consumers poll.
Fairness ==
  /\ \A p \in Producer : WF_vars(prod[p].pc # "idle" /\ ds_msqueue_insert(p))
  /\ \A c \in Consumer : WF_vars(ds_msqueue_pop(c))

FairSpec == Spec /\ Fairness
----------------------------------------------------------------------------
(* Properties *)

ProducerRecord ==
  [pc : {"idle", "tail", "next", "help", "link", "count", "swing"},
   node : Node, tail : Node, next : Link, retries : Nat]
ConsumerRecord ==
  [pc : {"idle", "head", "tail", "next", "check", "help", "data", "swing", "count"},
   head : Node, tail : Node, next : Link, data : Pair, retries : Nat, empty : BOOLEAN]

\* Type invariant.
TypeOK ==
  /\ head \in Node /\ tail \in Node /\ count \in 0 .. CountModulus - 1
  /\ next \in [Node -> Link] /\ elem \in [Node -> Pair] /\ allocated \in 0 .. MaxNodes
  /\ prod \in [Producer -> ProducerRecord]
  /\ cons \in [Consumer -> ConsumerRecord]
  /\ order \in Seq(Node) /\ delivered \in Seq(Pair) /\ freed \subseteq Node

\* The documented invariants of struct ds_msqueue: head is the dummy whose
\* successors are the elements, in linking order, and tail is the last node or
\* the one before it (and never behind head).  None of them was freed, and
\* ds_msqueue_search, which follows the links, finds exactly the pairs that the
\* first MaxIterations of them hold.
ListInv ==
  /\ TypeOK
  /\ Popped < Len(order) /\ head = order[Popped + 1]
  /\ \A k \in 1 .. Len(order) - 1 : next[order[k]] = order[k + 1]
  /\ next[order[Len(order)]] = Null
  /\ \E k \in Popped + 1 .. Len(order) : tail = order[k] /\ k >= Len(order) - 1
  /\ \A k \in Popped + 1 .. Len(order) : order[k] \notin freed
  /\ \A x \in Producer :
       ds_msqueue_search(x) <=> \E k \in 1 .. Len(Contents) : k <= MaxIterations /\ Contents[k] = x

Quiescent == (\A p \in Producer : prod[p].pc = "idle") /\ (\A c \in Consumer : cons[c].pc = "idle")

\* When no call is in progress the counter is exact, the tail does not lag, and
\* ds_msqueue_verify returns DS_SUCCESS unless the queue has more elements than its
\* loop visits: then it calls a sound queue corrupt.
Settled ==
  Quiescent => count = Length /\ next[tail] = Null /\ (ds_msqueue_verify <=> Length <= MaxIterations)

\* DS_ERROR_NOT_FOUND is returned only by a pop during which the queue was empty.
HonestRefusals ==
  [][\A c \in Consumer : cons[c].pc = "check" /\ cons'[c].pc = "idle" /\ head = cons[c].head =>
       cons[c].empty]_vars

\* The list implements the abstract queue: insert takes effect when the node is
\* linked, pop when the head moves.
Fifo == INSTANCE FifoQueue WITH Item <- Producer, queue <- Contents, Capacity <- MaxNodes
ImplementsFifo == Fifo!Spec

\* Every linked pair is eventually popped by a polling consumer.
EventuallyDelivered ==
  \A n \in 1 .. MaxNodes : (Len(order) > n) ~> (Popped >= n)
=============================================================================
