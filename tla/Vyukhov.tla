------------------------------ MODULE Vyukhov ------------------------------
(***************************************************************************)
(* The bounded multi-producer multi-consumer ring of ds_vyukhov.h, one     *)
(* action per access to shared memory; _lkmm and _c share their control.   *)
(* A thread claims a position with a compare-and-swap on enqueue_pos or    *)
(* dequeue_pos; the cell's sequence number says whose turn the cell is.    *)
(***************************************************************************)
EXTENDS Integers, Sequences, FiniteSets

CONSTANTS Key, Value, Item,  \* words, and the pairs callers insert
          Producer, Consumer, Observer,
          Capacity,          \* buffer_mask + 1
          MaxRetries,        \* DS_VYUKHOV_MAX_RETRIES (100 in the code)
          CountModulus,      \* 2^64: the statistics counter is unsigned and wraps
          MaxInserts         \* bound: calls of ds_vyukhov_insert in a behaviour

\* ds_vyukhov_init requires a power of two of at least 2; the protocol itself
\* only needs at least 2 cells.
ASSUME CapacityAssumption == Capacity \in Nat /\ Capacity >= 2
ASSUME ItemAssumption == Item \subseteq [key : Key, value : Value]
ASSUME BoundsAssumption == MaxRetries \in Nat \ {0} /\ MaxInserts \in Nat
ASSUME ModulusAssumption == CountModulus \in Nat /\ CountModulus > Capacity
ASSUME ThreadAssumption == IsFiniteSet(Producer) /\ IsFiniteSet(Consumer)

VARIABLES
  enqueue_pos, dequeue_pos, count,   \* struct ds_vyukhov_head
  sequence, data,                    \* the cells (struct ds_vyukhov_node)
  ppc, pPos, pRetries, pItem,        \* producer: step, pos, retries, key and value
  cpc, cPos, cRetries, cData,        \* consumer: step, pos, retries, *data
  opc, oEnq, oDeq, oCorrupt,         \* observer: step, enq, deq, result of verify
  calls, claimed, delivered          \* history: insert calls, items by position, items popped

headVars == <<enqueue_pos, dequeue_pos, count>>
cellVars == <<sequence, data>>
prodVars == <<ppc, pPos, pRetries, pItem>>
consVars == <<cpc, cPos, cRetries, cData>>
obsVars  == <<opc, oEnq, oDeq, oCorrupt>>
histVars == <<calls, claimed, delivered>>
vars == <<headVars, cellVars, prodVars, consVars, obsVars, histVars>>

Zero == "zero"                       \* a word of freshly allocated arena memory
ZeroPair == [key |-> Zero, value |-> Zero]
Cell == 0 .. Capacity - 1

\* pos & mask
Index(pos) == pos % Capacity

\* ds_vyukhov_init: cell i is ready for the producer of position i.
Init ==
  /\ enqueue_pos = 0 /\ dequeue_pos = 0 /\ count = 0
  /\ sequence = [i \in Cell |-> i]
  /\ data = [i \in Cell |-> ZeroPair]
  /\ ppc = [p \in Producer |-> "idle"]
  /\ pPos = [p \in Producer |-> 0]
  /\ pRetries = [p \in Producer |-> 0]
  /\ pItem = [p \in Producer |-> ZeroPair]
  /\ cpc = [c \in Consumer |-> "idle"]
  /\ cPos = [c \in Consumer |-> 0]
  /\ cRetries = [c \in Consumer |-> 0]
  /\ cData = [c \in Consumer |-> ZeroPair]
  /\ opc = [o \in Observer |-> "idle"]
  /\ oEnq = [o \in Observer |-> 0]
  /\ oDeq = [o \in Observer |-> 0]
  /\ oCorrupt = [o \in Observer |-> FALSE]
  /\ calls = 0 /\ claimed = <<>> /\ delivered = <<>>
----------------------------------------------------------------------------
(* ds_vyukhov_insert *)

\* pos = READ_ONCE(head->enqueue_pos)
InsertBegin(p, x) ==
  /\ ppc[p] = "idle"
  /\ calls < MaxInserts
  /\ calls' = calls + 1
  /\ ppc' = [ppc EXCEPT ![p] = "load"]
  /\ pPos' = [pPos EXCEPT ![p] = enqueue_pos]
  /\ pRetries' = [pRetries EXCEPT ![p] = 0]
  /\ pItem' = [pItem EXCEPT ![p] = x]
  /\ UNCHANGED <<headVars, cellVars, consVars, obsVars, claimed, delivered>>

\* Mutant of InsertLoad: a cell of the previous lap still counts as free.
MutantInsertLoad(p) ==
  /\ ppc[p] = "load"
  /\ LET dif == sequence[Index(pPos[p])] - pPos[p]
     IN  ppc' = [ppc EXCEPT ![p] = IF dif <= 0 THEN "cas" ELSE "reload"]
  /\ UNCHANGED <<headVars, cellVars, consVars, obsVars, histVars, pPos, pRetries, pItem>>

\* seq = smp_load_acquire(&cell->sequence), then the three-way test of dif;
\* dif < 0 returns DS_ERROR_NOMEM.
InsertLoad(p) ==
  /\ ppc[p] = "load"
  /\ LET dif == sequence[Index(pPos[p])] - pPos[p]
     IN  ppc' = [ppc EXCEPT ![p] = IF dif = 0 THEN "cas" ELSE IF dif < 0 THEN "idle" ELSE "reload"]
  /\ UNCHANGED <<headVars, cellVars, consVars, obsVars, histVars, pPos, pRetries, pItem>>

\* cmpxchg(&head->enqueue_pos, pos, pos + 1) succeeds: the cell is ours
InsertClaim(p) ==
  /\ ppc[p] = "cas"
  /\ enqueue_pos = pPos[p]
  /\ enqueue_pos' = pPos[p] + 1
  /\ ppc' = [ppc EXCEPT ![p] = "key"]
  /\ claimed' = Append(claimed, pItem[p])
  /\ UNCHANGED <<dequeue_pos, count, cellVars, consVars, obsVars, pPos, pRetries, pItem,
                 calls, delivered>>

\* the compare-and-swap lost against another producer
InsertLose(p) ==
  /\ ppc[p] = "cas"
  /\ enqueue_pos # pPos[p]
  /\ ppc' = [ppc EXCEPT ![p] = "reload"]
  /\ UNCHANGED <<headVars, cellVars, consVars, obsVars, histVars, pPos, pRetries, pItem>>

\* pos = READ_ONCE(head->enqueue_pos); retries++; DS_ERROR_BUSY after the last one
InsertReload(p) ==
  /\ ppc[p] = "reload"
  /\ pPos' = [pPos EXCEPT ![p] = enqueue_pos]
  /\ pRetries' = [pRetries EXCEPT ![p] = @ + 1]
  /\ ppc' = [ppc EXCEPT ![p] = IF pRetries[p] + 1 < MaxRetries THEN "load" ELSE "idle"]
  /\ UNCHANGED <<headVars, cellVars, consVars, obsVars, histVars, pItem>>

\* cell->data.key = key
InsertKey(p) ==
  /\ ppc[p] = "key"
  /\ ppc' = [ppc EXCEPT ![p] = "value"]
  /\ data' = [data EXCEPT ![Index(pPos[p])].key = pItem[p].key]
  /\ UNCHANGED <<headVars, sequence, consVars, obsVars, histVars, pPos, pRetries, pItem>>

\* cell->data.value = value
InsertValue(p) ==
  /\ ppc[p] = "value"
  /\ ppc' = [ppc EXCEPT ![p] = "publish"]
  /\ data' = [data EXCEPT ![Index(pPos[p])].value = pItem[p].value]
  /\ UNCHANGED <<headVars, sequence, consVars, obsVars, histVars, pPos, pRetries, pItem>>

\* Mutant of InsertPublish: the sequence number is not advanced.
MutantInsertPublish(p) ==
  /\ ppc[p] = "publish"
  /\ ppc' = [ppc EXCEPT ![p] = "count"]
  /\ sequence' = [sequence EXCEPT ![Index(pPos[p])] = pPos[p]]
  /\ UNCHANGED <<headVars, data, consVars, obsVars, histVars, pPos, pRetries, pItem>>

\* smp_store_release(&cell->sequence, pos + 1)
InsertPublish(p) ==
  /\ ppc[p] = "publish"
  /\ ppc' = [ppc EXCEPT ![p] = "count"]
  /\ sequence' = [sequence EXCEPT ![Index(pPos[p])] = pPos[p] + 1]
  /\ UNCHANGED <<headVars, data, consVars, obsVars, histVars, pPos, pRetries, pItem>>

\* arena_atomic_inc(&head->count); return DS_SUCCESS
InsertCount(p) ==
  /\ ppc[p] = "count"
  /\ ppc' = [ppc EXCEPT ![p] = "idle"]
  /\ count' = (count + 1) % CountModulus
  /\ UNCHANGED <<enqueue_pos, dequeue_pos, cellVars, consVars, obsVars, histVars,
                 pPos, pRetries, pItem>>

ds_vyukhov_insert(p) ==
  \/ \E x \in Item : InsertBegin(p, x)
  \/ InsertLoad(p) \/ InsertClaim(p) \/ InsertLose(p) \/ InsertReload(p)
  \/ InsertKey(p) \/ InsertValue(p) \/ InsertPublish(p) \/ InsertCount(p)
----------------------------------------------------------------------------
(* ds_vyukhov_pop *)

\* pos = READ_ONCE(head->dequeue_pos)
PopBegin(c) ==
  /\ cpc[c] = "idle"
  /\ cpc' = [cpc EXCEPT ![c] = "load"]
  /\ cPos' = [cPos EXCEPT ![c] = dequeue_pos]
  /\ cRetries' = [cRetries EXCEPT ![c] = 0]
  /\ cData' = [cData EXCEPT ![c] = ZeroPair]
  /\ UNCHANGED <<headVars, cellVars, prodVars, obsVars, histVars>>

\* Mutant of PopLoad: any cell that is not behind is taken for a full one.
MutantPopLoad(c) ==
  /\ cpc[c] = "load"
  /\ LET dif == sequence[Index(cPos[c])] - cPos[c]
     IN  cpc' = [cpc EXCEPT ![c] = IF dif >= 0 THEN "cas" ELSE "idle"]
  /\ UNCHANGED <<headVars, cellVars, prodVars, obsVars, histVars, cPos, cRetries, cData>>

\* seq = smp_load_acquire(&cell->sequence); dif < 0 returns DS_ERROR_NOT_FOUND
PopLoad(c) ==
  /\ cpc[c] = "load"
  /\ LET dif == sequence[Index(cPos[c])] - (cPos[c] + 1)
     IN  cpc' = [cpc EXCEPT ![c] = IF dif = 0 THEN "cas" ELSE IF dif < 0 THEN "idle" ELSE "reload"]
  /\ UNCHANGED <<headVars, cellVars, prodVars, obsVars, histVars, cPos, cRetries, cData>>

\* cmpxchg(&head->dequeue_pos, pos, pos + 1) succeeds; delivered records what
\* the cell holds at that instant.
PopClaim(c) ==
  /\ cpc[c] = "cas"
  /\ dequeue_pos = cPos[c]
  /\ dequeue_pos' = cPos[c] + 1
  /\ cpc' = [cpc EXCEPT ![c] = "key"]
  /\ delivered' = Append(delivered, data[Index(cPos[c])])
  /\ UNCHANGED <<enqueue_pos, count, cellVars, prodVars, obsVars, cPos, cRetries, cData,
                 calls, claimed>>

PopLose(c) ==
  /\ cpc[c] = "cas"
  /\ dequeue_pos # cPos[c]
  /\ cpc' = [cpc EXCEPT ![c] = "reload"]
  /\ UNCHANGED <<headVars, cellVars, prodVars, obsVars, histVars, cPos, cRetries, cData>>

\* pos = READ_ONCE(head->dequeue_pos); retries++; DS_ERROR_BUSY after the last one
PopReload(c) ==
  /\ cpc[c] = "reload"
  /\ cPos' = [cPos EXCEPT ![c] = dequeue_pos]
  /\ cRetries' = [cRetries EXCEPT ![c] = @ + 1]
  /\ cpc' = [cpc EXCEPT ![c] = IF cRetries[c] + 1 < MaxRetries THEN "load" ELSE "idle"]
  /\ UNCHANGED <<headVars, cellVars, prodVars, obsVars, histVars, cData>>

\* data->key = cell->data.key
PopKey(c) ==
  /\ cpc[c] = "key"
  /\ cpc' = [cpc EXCEPT ![c] = "value"]
  /\ cData' = [cData EXCEPT ![c].key = data[Index(cPos[c])].key]
  /\ UNCHANGED <<headVars, cellVars, prodVars, obsVars, histVars, cPos, cRetries>>

\* data->value = cell->data.value
PopValue(c) ==
  /\ cpc[c] = "value"
  /\ cpc' = [cpc EXCEPT ![c] = "release"]
  /\ cData' = [cData EXCEPT ![c].value = data[Index(cPos[c])].value]
  /\ UNCHANGED <<headVars, cellVars, prodVars, obsVars, histVars, cPos, cRetries>>

\* Mutant of PopRelease: hands the cell back for the lap that just ended.
MutantPopRelease(c) ==
  /\ cpc[c] = "release"
  /\ cpc' = [cpc EXCEPT ![c] = "count"]
  /\ sequence' = [sequence EXCEPT ![Index(cPos[c])] = cPos[c] + Capacity - 1]
  /\ UNCHANGED <<headVars, data, prodVars, obsVars, histVars, cPos, cRetries, cData>>

\* smp_store_release(&cell->sequence, pos + mask + 1): next lap
PopRelease(c) ==
  /\ cpc[c] = "release"
  /\ cpc' = [cpc EXCEPT ![c] = "count"]
  /\ sequence' = [sequence EXCEPT ![Index(cPos[c])] = cPos[c] + Capacity]
  /\ UNCHANGED <<headVars, data, prodVars, obsVars, histVars, cPos, cRetries, cData>>

\* arena_atomic_dec(&head->count); return DS_SUCCESS
PopCount(c) ==
  /\ cpc[c] = "count"
  /\ cpc' = [cpc EXCEPT ![c] = "idle"]
  /\ count' = (count - 1) % CountModulus
  /\ UNCHANGED <<enqueue_pos, dequeue_pos, cellVars, prodVars, obsVars, histVars,
                 cPos, cRetries, cData>>

ds_vyukhov_pop(c) ==
  \/ PopBegin(c) \/ PopLoad(c) \/ PopClaim(c) \/ PopLose(c) \/ PopReload(c)
  \/ PopKey(c) \/ PopValue(c) \/ PopRelease(c) \/ PopCount(c)
----------------------------------------------------------------------------
(* ds_vyukhov_verify, called by the main thread at exit while the kernel hook
   may still be inserting                                                     *)

\* enq = READ_ONCE(head->enqueue_pos)
VerifyEnq(o) ==
  /\ opc[o] = "idle"
  /\ opc' = [opc EXCEPT ![o] = "deq"]
  /\ oEnq' = [oEnq EXCEPT ![o] = enqueue_pos]
  /\ UNCHANGED <<headVars, cellVars, prodVars, consVars, histVars, oDeq, oCorrupt>>

\* deq = READ_ONCE(head->dequeue_pos)
VerifyDeq(o) ==
  /\ opc[o] = "deq"
  /\ opc' = [opc EXCEPT ![o] = "count"]
  /\ oDeq' = [oDeq EXCEPT ![o] = dequeue_pos]
  /\ UNCHANGED <<headVars, cellVars, prodVars, consVars, histVars, oEnq, oCorrupt>>

\* Mutant of VerifyCount: the capacity itself counts as too many.
MutantVerifyCount(o) ==
  /\ opc[o] = "count"
  /\ opc' = [opc EXCEPT ![o] = "idle"]
  /\ oCorrupt' = [oCorrupt EXCEPT ![o] = \/ oDeq[o] > oEnq[o]
                                         \/ oEnq[o] - oDeq[o] >= Capacity
                                         \/ count > Capacity]
  /\ UNCHANGED <<headVars, cellVars, prodVars, consVars, histVars, oEnq, oDeq>>

\* the three tests; head->count is loaded last
VerifyCount(o) ==
  /\ opc[o] = "count"
  /\ opc' = [opc EXCEPT ![o] = "idle"]
  /\ oCorrupt' = [oCorrupt EXCEPT ![o] = \/ oDeq[o] > oEnq[o]
                                         \/ oEnq[o] - oDeq[o] > Capacity
                                         \/ count > Capacity]
  /\ UNCHANGED <<headVars, cellVars, prodVars, consVars, histVars, oEnq, oDeq>>

ds_vyukhov_verify(o) == VerifyEnq(o) \/ VerifyDeq(o) \/ VerifyCount(o)
----------------------------------------------------------------------------
Next ==
  \/ \E p \in Producer : ds_vyukhov_insert(p)
  \/ \E c \in Consumer : ds_vyukhov_pop(c)
  \/ \E o \in Observer : ds_vyukhov_verify(o)

Spec == Init /\ [][Next]_vars

\* main joins the relay thread, the ring's only consumer, before it verifies.
\* (It verifies once; a second verification in a behaviour is a first one of a
\* program that was interrupted later.)
RelayJoined ==
  \A o \in Observer : opc'[o] # "idle" =>
    UNCHANGED consVars /\ \A c \in Consumer : cpc[c] = "idle"

ExitSpec == Init /\ [][Next /\ RelayJoined]_vars

\* An insert in progress goes on: nothing in it blocks.
ProducerFairness ==
  \A p \in Producer :
    WF_vars(\/ InsertLoad(p) \/ InsertClaim(p) \/ InsertLose(p) \/ InsertReload(p)
            \/ InsertKey(p) \/ InsertValue(p) \/ InsertPublish(p) \/ InsertCount(p))

----------------------------------------------------------------------------
(* Properties *)

Word == [key : Key \cup {Zero}, value : Value \cup {Zero}]

\* Type invariant.
TypeOK ==
  /\ enqueue_pos \in Nat /\ dequeue_pos \in Nat /\ count \in Nat
  /\ sequence \in [Cell -> Int] /\ data \in [Cell -> Word]
  /\ ppc \in [Producer -> {"idle", "load", "cas", "reload", "key", "value", "publish", "count"}]
  /\ pPos \in [Producer -> Nat] /\ pRetries \in [Producer -> Nat] /\ pItem \in [Producer -> Word]
  /\ cpc \in [Consumer -> {"idle", "load", "cas", "reload", "key", "value", "release", "count"}]
  /\ cPos \in [Consumer -> Nat] /\ cRetries \in [Consumer -> Nat] /\ cData \in [Consumer -> Word]
  /\ opc \in [Observer -> {"idle", "deq", "count"}]
  /\ oEnq \in [Observer -> Nat] /\ oDeq \in [Observer -> Nat] /\ oCorrupt \in [Observer -> BOOLEAN]
  /\ calls \in Nat /\ claimed \in Seq(Word) /\ delivered \in Seq(Word)

\* The threads that own a position: between winning the compare-and-swap and
\* storing the cell's next sequence number.
ProducerOwns(p) == ppc[p] \in {"key", "value", "publish"}
ConsumerOwns(c) == cpc[c] \in {"key", "value", "release"}

\* No two threads that own a position work on the same cell.
NoCellRace ==
  /\ \A p, q \in Producer :
       p # q /\ ProducerOwns(p) /\ ProducerOwns(q) => Index(pPos[p]) # Index(pPos[q])
  /\ \A c, d \in Consumer :
       c # d /\ ConsumerOwns(c) /\ ConsumerOwns(d) => Index(cPos[c]) # Index(cPos[d])
  /\ \A p \in Producer, c \in Consumer :
       ProducerOwns(p) /\ ConsumerOwns(c) => Index(pPos[p]) # Index(cPos[c])

\* The pops took, in the order of dequeue_pos, exactly the items the inserts
\* claimed, in the order of enqueue_pos; and what a pop copies out is the item
\* of the position it claimed, both words of it.
ClaimOrder ==
  /\ Len(delivered) = dequeue_pos
  /\ \A k \in 1 .. dequeue_pos : delivered[k] = claimed[k]
  /\ \A c \in Consumer : cpc[c] \in {"release", "count"} => cData[c] = claimed[cPos[c] + 1]

\* The ring never holds more than Capacity positions.
Bounded == dequeue_pos <= enqueue_pos /\ enqueue_pos <= dequeue_pos + Capacity

\* Which cell is whose turn: the sequence numbers of the positions in the ring,
\* and of the free positions up to the end of the lap.
SequenceInv ==
  /\ \A i \in dequeue_pos .. enqueue_pos - 1 : sequence[Index(i)] \in {i, i + 1}
  /\ \A i \in enqueue_pos .. dequeue_pos + Capacity - 1 :
       sequence[Index(i)] \in {i, i - Capacity + 1}
  /\ \A p \in Producer : ProducerOwns(p) =>
       /\ pPos[p] \in dequeue_pos .. enqueue_pos - 1
       /\ sequence[Index(pPos[p])] = pPos[p]
  /\ \A c \in Consumer : ConsumerOwns(c) =>
       /\ cPos[c] \in enqueue_pos - Capacity .. dequeue_pos - 1
       /\ sequence[Index(cPos[c])] = cPos[c] + 1

\* What a thread about to compare-and-swap knows: if nobody has moved the
\* counter since it read it, the cell is still as it saw it.
CasInv ==
  /\ \A p \in Producer : ppc[p] # "idle" => pPos[p] <= enqueue_pos
  /\ \A c \in Consumer : cpc[c] # "idle" => cPos[c] <= dequeue_pos
  /\ \A c \in Consumer : cpc[c] = "count" => cPos[c] < dequeue_pos
  /\ \A p \in Producer : ppc[p] = "cas" /\ pPos[p] = enqueue_pos =>
       sequence[Index(pPos[p])] = pPos[p]
  /\ \A c \in Consumer : cpc[c] = "cas" /\ cPos[c] = dequeue_pos =>
       sequence[Index(cPos[c])] = cPos[c] + 1

\* Distinct owners own distinct positions.
OwnerInv ==
  /\ \A p, q \in Producer :
       p # q /\ ProducerOwns(p) /\ ProducerOwns(q) => pPos[p] # pPos[q]
  /\ \A c, d \in Consumer :
       c # d /\ ConsumerOwns(c) /\ ConsumerOwns(d) => cPos[c] # cPos[d]

\* The words in the cells and in the threads are those of the claimed items.
DataInv ==
  /\ Len(claimed) = enqueue_pos
  /\ \A i \in dequeue_pos .. enqueue_pos - 1 :
       sequence[Index(i)] = i + 1 => data[Index(i)] = claimed[i + 1]
  /\ \A p \in Producer : ProducerOwns(p) =>
       /\ pItem[p] = claimed[pPos[p] + 1]
       /\ ppc[p] \in {"value", "publish"} => data[Index(pPos[p])].key = pItem[p].key
       /\ ppc[p] = "publish" => data[Index(pPos[p])].value = pItem[p].value
  /\ \A c \in Consumer : ConsumerOwns(c) =>
       /\ data[Index(cPos[c])] = claimed[cPos[c] + 1]
       /\ cpc[c] \in {"value", "release"} => cData[c].key = claimed[cPos[c] + 1].key

\* The inductive invariant of the ring.
RingInv == Bounded /\ SequenceInv /\ CasInv /\ OwnerInv /\ DataInv /\ ClaimOrder

\* DS_ERROR_NOT_FOUND is returned only if the oldest position is unpublished:
\* the ring is empty or its producer is still inside insert.  DS_ERROR_NOMEM only
\* if the next cell is unreleased: the ring is full, or its consumer is still
\* inside pop.
HonestRefusals ==
  [][/\ \A c \in Consumer : cpc[c] = "load" /\ cpc'[c] = "idle" =>
         \/ enqueue_pos = dequeue_pos
         \/ \E p \in Producer : ProducerOwns(p) /\ pPos[p] = dequeue_pos
     /\ \A p \in Producer : ppc[p] = "load" /\ ppc'[p] = "idle" =>
         \/ enqueue_pos = dequeue_pos + Capacity
         \/ \E c \in Consumer : ConsumerOwns(c) /\ cPos[c] = enqueue_pos - Capacity]_vars

\* The ring implements the abstract bounded queue: insert takes effect when it
\* claims its position, pop when it claims its own.
Waiting == [k \in 1 .. enqueue_pos - dequeue_pos |-> claimed[dequeue_pos + k]]
Fifo == INSTANCE FifoQueue WITH queue <- Waiting
ImplementsFifo == Fifo!Spec

\* Every claimed item is eventually popped: no cell is left behind for ever.
EventuallyDelivered ==
  \A n \in 1 .. MaxInserts : (Len(claimed) >= n) ~> (Len(delivered) >= n)

\* Verified with no pop in progress, the two position tests never fail: only the
\* statistics counter can make ds_vyukhov_verify report DS_ERROR_CORRUPT, and
\* only while some insert has published its cell and not yet counted it.
CorruptOnlyFromCount ==
  [][\A o \in Observer : opc[o] = "count" /\ opc'[o] = "idle" /\ oCorrupt'[o] =>
       /\ oDeq[o] <= oEnq[o] /\ oEnq[o] - oDeq[o] <= Capacity
       /\ \E p \in Producer : ppc[p] = "count"]_vars
=============================================================================
