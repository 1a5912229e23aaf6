------------------------------- MODULE CkFifo -------------------------------
(***************************************************************************)
(* The single-producer single-consumer FIFO of ds_ck_fifo_spsc.h, a linked *)
(* list that never frees an entry: the producer takes entries back from    *)
(* behind the consumer (recycle) before it asks the allocator for a fresh  *)
(* one.  One action per access to what the other thread uses; the fields   *)
(* tail, head_snapshot and garbage belong to the producer, so accesses to  *)
(* them are folded into its steps.  _lkmm and _c share their control.      *)
(*                                                                         *)
(* Entries are numbered in the order of allocation, entry 0 is the stub of *)
(* ds_ck_fifo_spsc_init.  The pointer entry->value is the number of the    *)
(* entry whose pair it points to.                                          *)
(***************************************************************************)
EXTENDS Integers, Sequences

CONSTANTS Key, Value,
          Item,          \* the pairs inserted, records with a key and a value
          MaxEntries,    \* bound: entries the arena has room for, besides the stub
          MaxSteps,      \* max_steps of verify (100000 in the code)
          MaxInserts     \* bound: inserts of a behaviour that succeed

ASSUME ItemAssumption == Item \subseteq [key : Key, value : Value]
ASSUME BoundsAssumption == MaxEntries \in Nat /\ MaxSteps \in Nat /\ MaxInserts \in Nat

VARIABLES
  head, tail, head_snapshot, garbage,   \* struct ds_ck_fifo_spsc
  next, value, kv, allocated,           \* the entries, and how many are allocated
  prod,                                 \* the producer's step and locals, its last result
  cons,                                 \* the consumer's step and locals
  joined, obs,                          \* main: relay thread joined; its verification
  accepted, delivered                   \* history: pairs enqueued, pairs copied out

fifoVars == <<head, tail, head_snapshot, garbage>>
entryVars == <<next, value, kv, allocated>>
mainVars == <<joined, obs>>
vars == <<fifoVars, entryVars, prod, cons, mainVars, accepted, delivered>>

Stub == 0
Null == -1
Entry == 0 .. MaxEntries
Zero == "zero"           \* the key and the value of the stub
Blank == [key |-> Zero, value |-> Zero]

IdleProducer == [pc |-> "idle", entry |-> Stub, pair |-> Blank, result |-> "none"]
IdleConsumer == [pc |-> "idle", entry |-> Stub, payload |-> Null, key |-> Zero]

\* ds_ck_fifo_spsc_init
Init ==
  /\ head = Stub /\ tail = Stub /\ head_snapshot = Stub /\ garbage = Stub
  /\ next = [e \in Entry |-> Null] /\ value = [e \in Entry |-> Null]
  /\ kv = [e \in Entry |-> Blank] /\ allocated = 0
  /\ prod = IdleProducer /\ cons = IdleConsumer
  /\ joined = FALSE
  /\ obs = [pc |-> "idle", cursor |-> Stub, tail |-> Stub, steps |-> 0, lag |-> FALSE, result |-> "none"]
  /\ accepted = <<>> /\ delivered = <<>>
----------------------------------------------------------------------------
(* ds_ck_fifo_spsc_insert, with recycle and enqueue *)

\* The value of head_snapshot once recycle has compared it with garbage.
Snapshot == IF head_snapshot = garbage THEN head ELSE head_snapshot

\* The producer has an entry e for the pair x.
Obtain(e, x) == prod' = [prod EXCEPT !.pc = "key", !.entry = e, !.pair = x]

\* Mutant of InsertRecycle: the entry the consumer stands on is taken as well.
MutantInsertRecycle(x) ==
  /\ prod.pc = "idle" /\ Len(accepted) < MaxInserts
  /\ head_snapshot' = Snapshot
  /\ garbage' = next[garbage]
  /\ Obtain(garbage, x)
  /\ UNCHANGED <<head, tail, entryVars, cons, mainVars, accepted, delivered>>

\* recycle finds an entry the consumer has left behind
InsertRecycle(x) ==
  /\ prod.pc = "idle" /\ Len(accepted) < MaxInserts
  /\ Snapshot # garbage
  /\ head_snapshot' = Snapshot
  /\ garbage' = next[garbage]
  /\ Obtain(garbage, x)
  /\ UNCHANGED <<head, tail, entryVars, cons, mainVars, accepted, delivered>>

\* recycle returns NULL and the allocator has an entry
InsertFresh(x) ==
  /\ prod.pc = "idle" /\ Len(accepted) < MaxInserts
  /\ Snapshot = garbage /\ allocated < MaxEntries
  /\ allocated' = allocated + 1
  /\ Obtain(allocated + 1, x)
  /\ UNCHANGED <<fifoVars, next, value, kv, cons, mainVars, accepted, delivered>>

\* ... or has none: DS_ERROR_NOMEM
InsertNoMemory ==
  /\ prod.pc = "idle" /\ Len(accepted) < MaxInserts
  /\ Snapshot = garbage /\ allocated = MaxEntries
  /\ prod' = [IdleProducer EXCEPT !.result = "nomem"]
  /\ UNCHANGED <<fifoVars, entryVars, cons, mainVars, accepted, delivered>>

\* entry->kv.key = key
InsertKey ==
  /\ prod.pc = "key"
  /\ kv' = [kv EXCEPT ![prod.entry].key = prod.pair.key]
  /\ prod' = [prod EXCEPT !.pc = "value"]
  /\ UNCHANGED <<fifoVars, next, value, allocated, cons, mainVars, accepted, delivered>>

\* entry->kv.value = value
InsertValue ==
  /\ prod.pc = "value"
  /\ kv' = [kv EXCEPT ![prod.entry].value = prod.pair.value]
  /\ prod' = [prod EXCEPT !.pc = "prepare"]
  /\ UNCHANGED <<fifoVars, next, value, allocated, cons, mainVars, accepted, delivered>>

\* Mutant of InsertPrepare: the link of a recycled entry is kept.
MutantInsertPrepare ==
  /\ prod.pc = "prepare"
  /\ value' = [value EXCEPT ![prod.entry] = prod.entry]
  /\ prod' = [prod EXCEPT !.pc = "link"]
  /\ UNCHANGED <<fifoVars, next, kv, allocated, cons, mainVars, accepted, delivered>>

\* entry->value = &entry->kv, entry->next = NULL
InsertPrepare ==
  /\ prod.pc = "prepare"
  /\ value' = [value EXCEPT ![prod.entry] = prod.entry]
  /\ next' = [next EXCEPT ![prod.entry] = Null]
  /\ prod' = [prod EXCEPT !.pc = "link"]
  /\ UNCHANGED <<fifoVars, kv, allocated, cons, mainVars, accepted, delivered>>

\* Mutant of InsertLink: the store to tail->next is missing.
MutantInsertLink ==
  /\ prod.pc = "link"
  /\ accepted' = Append(accepted, prod.pair)
  /\ prod' = [prod EXCEPT !.pc = "tail"]
  /\ UNCHANGED <<fifoVars, entryVars, cons, mainVars, delivered>>

\* tail->next = entry: from here on the consumer sees the pair
InsertLink ==
  /\ prod.pc = "link"
  /\ next' = [next EXCEPT ![tail] = prod.entry]
  /\ accepted' = Append(accepted, prod.pair)
  /\ prod' = [prod EXCEPT !.pc = "tail"]
  /\ UNCHANGED <<fifoVars, value, kv, allocated, cons, mainVars, delivered>>

\* fifo->tail = entry; DS_SUCCESS
InsertTail ==
  /\ prod.pc = "tail"
  /\ tail' = prod.entry
  /\ prod' = [IdleProducer EXCEPT !.result = "success"]
  /\ UNCHANGED <<head, head_snapshot, garbage, entryVars, cons, mainVars, accepted, delivered>>

InsertStep == InsertKey \/ InsertValue \/ InsertPrepare \/ InsertLink \/ InsertTail

ds_ck_fifo_spsc_insert ==
  \/ \E x \in Item : InsertRecycle(x) \/ InsertFresh(x)
  \/ InsertNoMemory \/ InsertStep
----------------------------------------------------------------------------
(* ds_ck_fifo_spsc_pop, with dequeue *)

ds_ck_fifo_spsc_isempty == next[head] = Null

\* DS_ERROR_NOT_FOUND
PopEmpty ==
  /\ cons.pc = "idle" /\ ~joined /\ ds_ck_fifo_spsc_isempty
  /\ UNCHANGED vars

\* entry = head->next
PopNext ==
  /\ cons.pc = "idle" /\ ~joined /\ ~ds_ck_fifo_spsc_isempty
  /\ cons' = [cons EXCEPT !.pc = "payload", !.entry = next[head]]
  /\ UNCHANGED <<fifoVars, entryVars, prod, mainVars, accepted, delivered>>

\* *value_out = entry->value
PopPayload ==
  /\ cons.pc = "payload"
  /\ cons' = [cons EXCEPT !.pc = "advance", !.payload = value[cons.entry]]
  /\ UNCHANGED <<fifoVars, entryVars, prod, mainVars, accepted, delivered>>

\* fifo->head = entry, before the pair is copied out; a null payload is
\* reported as DS_ERROR_CORRUPT
PopAdvance ==
  /\ cons.pc = "advance"
  /\ head' = cons.entry
  /\ cons' = IF cons.payload = Null THEN IdleConsumer ELSE [cons EXCEPT !.pc = "key"]
  /\ UNCHANGED <<tail, head_snapshot, garbage, entryVars, prod, mainVars, accepted, delivered>>

\* out->key = payload->key
PopKey ==
  /\ cons.pc = "key"
  /\ cons' = [cons EXCEPT !.pc = "value", !.key = kv[cons.payload].key]
  /\ UNCHANGED <<fifoVars, entryVars, prod, mainVars, accepted, delivered>>

\* out->value = payload->value; DS_SUCCESS
PopValue ==
  /\ cons.pc = "value"
  /\ delivered' = Append(delivered, [key |-> cons.key, value |-> kv[cons.payload].value])
  /\ cons' = IdleConsumer
  /\ UNCHANGED <<fifoVars, entryVars, prod, mainVars, accepted>>

ds_ck_fifo_spsc_pop ==
  PopEmpty \/ PopNext \/ PopPayload \/ PopAdvance \/ PopKey \/ PopValue
----------------------------------------------------------------------------
(* main at exit: pthread_join, then ds_ck_fifo_spsc_verify; the hook goes on *)

MainJoin ==
  /\ ~joined /\ cons.pc = "idle"
  /\ joined' = TRUE
  /\ UNCHANGED <<fifoVars, entryVars, prod, cons, obs, accepted, delivered>>

\* cursor = fifo->head
VerifyHead ==
  /\ joined /\ obs.pc = "idle"
  /\ obs' = [obs EXCEPT !.pc = "tail", !.cursor = head]
  /\ UNCHANGED <<fifoVars, entryVars, prod, cons, joined, accepted, delivered>>

\* The consumer has overtaken fifo->tail, which enqueue has not stored yet.
TailBehindHead == prod.pc = "tail" /\ head = prod.entry

\* tail = fifo->tail
VerifyTail ==
  /\ obs.pc = "tail"
  /\ obs' = [obs EXCEPT !.pc = "walk", !.tail = tail, !.lag = TailBehindHead]
  /\ UNCHANGED <<fifoVars, entryVars, prod, cons, joined, accepted, delivered>>

\* Mutant of VerifyNext: the test for the tail comes after the step.
MutantVerifyNext ==
  /\ obs.pc = "walk" /\ obs.steps < MaxSteps
  /\ obs' = IF next[obs.cursor] = Null
            THEN [obs EXCEPT !.pc = "done", !.result = "corrupt"]
            ELSE [obs EXCEPT !.cursor = next[obs.cursor], !.steps = obs.steps + 1]
  /\ UNCHANGED <<fifoVars, entryVars, prod, cons, joined, accepted, delivered>>

\* cursor = cursor->next: another round, or the end of the list
VerifyNext ==
  /\ obs.pc = "walk" /\ obs.steps < MaxSteps /\ obs.cursor # obs.tail
  /\ obs' = IF next[obs.cursor] = Null
            THEN [obs EXCEPT !.pc = "done", !.result = "corrupt"]
            ELSE [obs EXCEPT !.cursor = next[obs.cursor], !.steps = obs.steps + 1]
  /\ UNCHANGED <<fifoVars, entryVars, prod, cons, joined, accepted, delivered>>

\* The tail is reached, or the rounds are used up.
VerifyDone ==
  /\ obs.pc = "walk" /\ (obs.steps = MaxSteps \/ obs.cursor = obs.tail)
  /\ obs' = [obs EXCEPT !.pc = "done",
                        !.result = IF obs.steps = MaxSteps THEN "corrupt" ELSE "success"]
  /\ UNCHANGED <<fifoVars, entryVars, prod, cons, joined, accepted, delivered>>

ds_ck_fifo_spsc_verify == VerifyHead \/ VerifyTail \/ VerifyNext \/ VerifyDone
----------------------------------------------------------------------------
Next == ds_ck_fifo_spsc_insert \/ ds_ck_fifo_spsc_pop \/ MainJoin \/ ds_ck_fifo_spsc_verify

Spec == Init /\ [][Next]_vars

\* Calls in progress go on (none of them blocks), and the relay thread polls.
Fairness == WF_vars(InsertStep) /\ WF_vars(ds_ck_fifo_spsc_pop)

FairSpec == Spec /\ Fairness
----------------------------------------------------------------------------
(* Properties *)

Link == Entry \cup {Null}
Pair == [key : Key \cup {Zero}, value : Value \cup {Zero}]

ProducerRecord == [pc : {"idle", "key", "value", "prepare", "link", "tail"}, entry : Entry,
                   pair : Pair, result : {"none", "success", "nomem"}]
ConsumerRecord == [pc : {"idle", "payload", "advance", "key", "value"}, entry : Entry,
                   payload : Link, key : Key \cup {Zero}]
ObserverRecord == [pc : {"idle", "tail", "walk", "done"}, cursor : Entry, tail : Entry,
                   steps : 0 .. MaxSteps, lag : BOOLEAN, result : {"none", "success", "corrupt"}]

\* Type invariant.
TypeOK ==
  /\ head \in Entry /\ tail \in Entry /\ head_snapshot \in Entry /\ garbage \in Entry
  /\ next \in [Entry -> Link] /\ value \in [Entry -> Link] /\ kv \in [Entry -> Pair]
  /\ allocated \in 0 .. MaxEntries
  /\ prod \in ProducerRecord /\ cons \in ConsumerRecord
  /\ joined \in BOOLEAN /\ obs \in ObserverRecord
  /\ accepted \in Seq(Item) /\ delivered \in Seq(Pair)

\* The producer holds an entry that is not (or no longer) in the list.
Private == prod.pc \in {"key", "value", "prepare", "link"}

\* Pairs not yet copied out, and how many of them are behind the head.
Contents == SubSeq(accepted, Len(delivered) + 1, Len(accepted))
Queued == Len(Contents) - (IF cons.pc \in {"key", "value"} THEN 1 ELSE 0)

\* The k-th entry met when following next from garbage.
Hop[k \in 0 .. MaxEntries] ==
  IF k = 0 THEN garbage ELSE IF Hop[k - 1] = Null THEN Null ELSE next[Hop[k - 1]]

\* All entries but the private one form one list: garbage, head_snapshot, head
\* and the end come in this order, the entries after head hold the pairs that
\* are queued, and tail is the last entry, or the one before it while enqueue is
\* about to store it.  So isempty answers for the pairs that have been enqueued.
ChainInv ==
  LET last == allocated - (IF Private THEN 1 ELSE 0)
  IN  /\ TypeOK
      /\ ds_ck_fifo_spsc_isempty <=> Queued = 0
      /\ \A j, k \in 0 .. last : Hop[j] # Null /\ (Hop[j] = Hop[k] => j = k)
      /\ next[Hop[last]] = Null
      /\ tail = Hop[IF prod.pc = "tail" THEN last - 1 ELSE last]
      /\ \E h \in 0 .. last : \E s \in 0 .. h :
           /\ Hop[h] = head /\ Hop[s] = head_snapshot
           /\ last - h = Queued
           /\ \A k \in h + 1 .. last : /\ kv[Hop[k]] = accepted[Len(accepted) - (last - k)]
                                       /\ value[Hop[k]] = Hop[k]

\* While the producer rewrites an entry, nobody else uses it: neither the
\* consumer, which goes on reading an entry after it has moved the head to it,
\* nor the verification.
NoEntryRace ==
  Private => /\ prod.entry # head
             /\ cons.pc # "idle" => prod.entry # cons.entry
             /\ obs.pc \in {"tail", "walk"} => prod.entry # obs.cursor

\* A verification at exit, with the relay thread joined and the hook still
\* attached, says DS_ERROR_CORRUPT of this sound list only if it read the tail
\* while an enqueue had not yet stored it and its pair had already been popped,
\* or if the list has max_steps pairs.
CorruptOnlyFromLag == obs.result = "corrupt" => obs.lag \/ Queued >= MaxSteps

\* The list implements the abstract queue: insert takes effect when the entry is
\* linked, pop when the pair has been copied out.
Fifo == INSTANCE FifoQueue WITH queue <- Contents, Capacity <- MaxEntries + 1
ImplementsFifo == Fifo!Spec

\* Every enqueued pair is popped, unless the relay thread ends first.
EventuallyDelivered ==
  \A n \in 1 .. MaxInserts : (Len(accepted) >= n) ~> (Len(delivered) >= n \/ joined)
=============================================================================
