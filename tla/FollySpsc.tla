----------------------------- MODULE FollySpsc -----------------------------
(***************************************************************************)
(* The Folly single-producer single-consumer ring of ds_folly_spsc.h, one  *)
(* action per access to shared memory.  The _lkmm and the _c variants have *)
(* the same control flow and are modelled by the same actions.  A pair is  *)
(* stored and loaded as two words, key first, as the code does.            *)
(*                                                                         *)
(* Producer and Consumer are sets so that the same module also describes   *)
(* what happens when the one-producer contract is not kept.                *)
(***************************************************************************)
EXTENDS Integers, Sequences

CONSTANTS Key, Value,     \* the two words of a pair
          Item,           \* the pairs callers insert
          Producer,       \* threads that call ds_spsc_insert
          Consumer,       \* threads that call ds_spsc_delete
          Observer,       \* threads that call ds_spsc_verify / ds_spsc_size
          Size,           \* head->size, the number of slots
          MaxInserts      \* bound: calls of ds_spsc_insert in a behaviour

\* ds_spsc_init refuses a ring of fewer than two slots.
ASSUME SizeAssumption == Size \in Nat /\ Size >= 2
ASSUME ItemAssumption == Item \subseteq [key : Key, value : Value]
ASSUME MaxInsertsAssumption == MaxInserts \in Nat

VARIABLES
  records, write_idx, read_idx,       \* the ring (struct ds_spsc_queue_head)
  ppc, pItem, pWrite,                 \* producer: step, key and value, current_write
  cpc, cRead, cData,                  \* consumer: step, current_read, *data
  sawItem, sawSpace,                  \* last answers of is_empty (consumer), is_full (producer)
  opc, oRead, oCorrupt,               \* observer: step, r, verify returned DS_ERROR_CORRUPT
  calls, accepted, delivered          \* history: insert calls, successful inserts and pops

ringVars == <<records, write_idx, read_idx>>
prodVars == <<ppc, pItem, pWrite, sawSpace>>
consVars == <<cpc, cRead, cData, sawItem>>
obsVars  == <<opc, oRead, oCorrupt>>
vars == <<ringVars, prodVars, consVars, obsVars, calls, accepted, delivered>>

Zero == "zero"                        \* a word of freshly allocated arena memory
Slot == 0 .. Size - 1
ZeroPair == [key |-> Zero, value |-> Zero]
----------------------------------------------------------------------------
\* Mutant of NextRecord: wraps one slot too late.
MutantNextRecord(i) == IF i + 1 > Size THEN 0 ELSE i + 1

\* The wrap-around of both indices: one past the last slot is slot 0.
NextRecord(i) == IF i + 1 >= Size THEN 0 ELSE i + 1

\* ds_spsc_size: the distance from r to w around the ring.
SizeGuess(w, r) == IF w - r < 0 THEN w - r + Size ELSE w - r

\* The items between the indices r and w, oldest first.
SlotAt(r, k) == IF r + k - 1 >= Size THEN r + k - 1 - Size ELSE r + k - 1
ContentsOf(ring, w, r) == [k \in 1 .. SizeGuess(w, r) |-> ring[SlotAt(r, k)]]

Count == SizeGuess(write_idx, read_idx)
Contents == ContentsOf(records, write_idx, read_idx)

\* ds_spsc_init: zeroed records, both indices at slot 0, nobody inside a call.
Init ==
  /\ records = [i \in Slot |-> ZeroPair]
  /\ write_idx = 0 /\ read_idx = 0
  /\ ppc = [p \in Producer |-> "idle"]
  /\ pItem = [p \in Producer |-> ZeroPair]
  /\ pWrite = [p \in Producer |-> 0]
  /\ cpc = [c \in Consumer |-> "idle"]
  /\ cRead = [c \in Consumer |-> 0]
  /\ cData = [c \in Consumer |-> ZeroPair]
  /\ sawItem = [c \in Consumer |-> FALSE]
  /\ sawSpace = [p \in Producer |-> FALSE]
  /\ opc = [o \in Observer |-> "idle"]
  /\ oRead = [o \in Observer |-> 0]
  /\ oCorrupt = [o \in Observer |-> FALSE]
  /\ calls = 0 /\ accepted = <<>> /\ delivered = <<>>
----------------------------------------------------------------------------
(* ds_spsc_insert *)

\* current_write = READ_ONCE(head->write_idx.idx)
InsertBegin(p, x) ==
  /\ ppc[p] = "idle"
  /\ calls < MaxInserts
  /\ calls' = calls + 1
  /\ ppc' = [ppc EXCEPT ![p] = "check"]
  /\ pItem' = [pItem EXCEPT ![p] = x]
  /\ pWrite' = [pWrite EXCEPT ![p] = write_idx]
  /\ UNCHANGED <<ringVars, consVars, obsVars, sawSpace, accepted, delivered>>

\* Mutant of InsertFull: reports a full ring one slot early.
MutantInsertFull(p) ==
  /\ ppc[p] = "check"
  /\ NextRecord(NextRecord(pWrite[p])) = read_idx
  /\ ppc' = [ppc EXCEPT ![p] = "idle"]
  /\ sawSpace' = [sawSpace EXCEPT ![p] = FALSE]
  /\ UNCHANGED <<ringVars, consVars, obsVars, pItem, pWrite, calls, accepted, delivered>>

\* next_record == current_read: return DS_ERROR_FULL
InsertFull(p) ==
  /\ ppc[p] = "check"
  /\ NextRecord(pWrite[p]) = read_idx
  /\ ppc' = [ppc EXCEPT ![p] = "idle"]
  /\ sawSpace' = [sawSpace EXCEPT ![p] = FALSE]
  /\ UNCHANGED <<ringVars, consVars, obsVars, pItem, pWrite, calls, accepted, delivered>>

\* Mutant of InsertSpace: the check against read_idx is dropped.
MutantInsertSpace(p) ==
  /\ ppc[p] = "check"
  /\ ppc' = [ppc EXCEPT ![p] = "key"]
  /\ UNCHANGED <<ringVars, consVars, obsVars, pItem, pWrite, sawSpace, calls, accepted, delivered>>

\* next_record != current_read: space available
InsertSpace(p) ==
  /\ ppc[p] = "check"
  /\ NextRecord(pWrite[p]) # read_idx
  /\ ppc' = [ppc EXCEPT ![p] = "key"]
  /\ UNCHANGED <<ringVars, consVars, obsVars, pItem, pWrite, sawSpace, calls, accepted, delivered>>

\* node->key = key
InsertKey(p) ==
  /\ ppc[p] = "key"
  /\ ppc' = [ppc EXCEPT ![p] = "value"]
  /\ records' = [records EXCEPT ![pWrite[p]].key = pItem[p].key]
  /\ UNCHANGED <<write_idx, read_idx, consVars, obsVars, pItem, pWrite, sawSpace,
                 calls, accepted, delivered>>

\* node->value = value
InsertValue(p) ==
  /\ ppc[p] = "value"
  /\ ppc' = [ppc EXCEPT ![p] = "commit"]
  /\ records' = [records EXCEPT ![pWrite[p]].value = pItem[p].value]
  /\ UNCHANGED <<write_idx, read_idx, consVars, obsVars, pItem, pWrite, sawSpace,
                 calls, accepted, delivered>>

\* Mutant of InsertCommit: the index is published before the value word is stored.
MutantInsertCommit(p) ==
  /\ ppc[p] = "value"
  /\ ppc' = [ppc EXCEPT ![p] = "idle"]
  /\ write_idx' = NextRecord(pWrite[p])
  /\ accepted' = Append(accepted, pItem[p])
  /\ sawSpace' = [sawSpace EXCEPT ![p] = FALSE]
  /\ UNCHANGED <<records, read_idx, consVars, obsVars, pItem, pWrite, calls, delivered>>

\* smp_store_release(&head->write_idx.idx, next_record): DS_SUCCESS
InsertCommit(p) ==
  /\ ppc[p] = "commit"
  /\ ppc' = [ppc EXCEPT ![p] = "idle"]
  /\ write_idx' = NextRecord(pWrite[p])
  /\ accepted' = Append(accepted, pItem[p])
  /\ sawSpace' = [sawSpace EXCEPT ![p] = FALSE]
  /\ UNCHANGED <<records, read_idx, consVars, obsVars, pItem, pWrite, calls, delivered>>

ds_spsc_insert(p) ==
  \/ \E x \in Item : InsertBegin(p, x)
  \/ InsertFull(p) \/ InsertSpace(p)
  \/ InsertKey(p) \/ InsertValue(p) \/ InsertCommit(p)
----------------------------------------------------------------------------
(* ds_spsc_delete, also reached as ds_spsc_pop *)

\* Mutant of DeleteEmpty: compares against the slot after the one to be read.
MutantDeleteEmpty(c) ==
  /\ cpc[c] = "check"
  /\ NextRecord(cRead[c]) = write_idx
  /\ cpc' = [cpc EXCEPT ![c] = "idle"]
  /\ sawItem' = [sawItem EXCEPT ![c] = FALSE]
  /\ UNCHANGED <<ringVars, prodVars, obsVars, cRead, cData, calls, accepted, delivered>>

\* current_read = READ_ONCE(head->read_idx.idx)
DeleteBegin(c) ==
  /\ cpc[c] = "idle"
  /\ cpc' = [cpc EXCEPT ![c] = "check"]
  /\ cRead' = [cRead EXCEPT ![c] = read_idx]
  /\ UNCHANGED <<ringVars, prodVars, obsVars, cData, sawItem, calls, accepted, delivered>>

\* current_read == current_write: return DS_ERROR_NOT_FOUND
DeleteEmpty(c) ==
  /\ cpc[c] = "check"
  /\ cRead[c] = write_idx
  /\ cpc' = [cpc EXCEPT ![c] = "idle"]
  /\ sawItem' = [sawItem EXCEPT ![c] = FALSE]
  /\ UNCHANGED <<ringVars, prodVars, obsVars, cRead, cData, calls, accepted, delivered>>

\* current_read != current_write: the slot holds an item
DeleteFound(c) ==
  /\ cpc[c] = "check"
  /\ cRead[c] # write_idx
  /\ cpc' = [cpc EXCEPT ![c] = "key"]
  /\ UNCHANGED <<ringVars, prodVars, obsVars, cRead, cData, sawItem, calls, accepted, delivered>>

\* data->key = node->key
DeleteKey(c) ==
  /\ cpc[c] = "key"
  /\ cpc' = [cpc EXCEPT ![c] = "value"]
  /\ cData' = [cData EXCEPT ![c].key = records[cRead[c]].key]
  /\ UNCHANGED <<ringVars, prodVars, obsVars, cRead, sawItem, calls, accepted, delivered>>

\* data->value = node->value
DeleteValue(c) ==
  /\ cpc[c] = "value"
  /\ cpc' = [cpc EXCEPT ![c] = "commit"]
  /\ cData' = [cData EXCEPT ![c].value = records[cRead[c]].value]
  /\ UNCHANGED <<ringVars, prodVars, obsVars, cRead, sawItem, calls, accepted, delivered>>

\* smp_store_release(&head->read_idx.idx, next_record): DS_SUCCESS
DeleteCommit(c) ==
  /\ cpc[c] = "commit"
  /\ cpc' = [cpc EXCEPT ![c] = "idle"]
  /\ read_idx' = NextRecord(cRead[c])
  /\ delivered' = Append(delivered, cData[c])
  /\ sawItem' = [sawItem EXCEPT ![c] = FALSE]
  /\ UNCHANGED <<records, write_idx, prodVars, obsVars, cRead, cData, calls, accepted>>

ds_spsc_delete(c) ==
  \/ DeleteBegin(c) \/ DeleteEmpty(c) \/ DeleteFound(c)
  \/ DeleteKey(c) \/ DeleteValue(c) \/ DeleteCommit(c)
----------------------------------------------------------------------------
(* ds_spsc_is_empty, called by the consumer; ds_spsc_is_full, by the producer;
   ds_spsc_verify and ds_spsc_size, by anyone (the main thread at exit).     *)

IsEmptyBegin(c) ==
  /\ cpc[c] = "idle"
  /\ cpc' = [cpc EXCEPT ![c] = "isEmpty"]
  /\ cRead' = [cRead EXCEPT ![c] = read_idx]
  /\ UNCHANGED <<ringVars, prodVars, obsVars, cData, sawItem, calls, accepted, delivered>>

IsEmptyEnd(c) ==
  /\ cpc[c] = "isEmpty"
  /\ cpc' = [cpc EXCEPT ![c] = "idle"]
  /\ sawItem' = [sawItem EXCEPT ![c] = (cRead[c] # write_idx)]
  /\ UNCHANGED <<ringVars, prodVars, obsVars, cRead, cData, calls, accepted, delivered>>

\* is_full loads read_idx first; pWrite holds it until the load of write_idx.
IsFullBegin(p) ==
  /\ ppc[p] = "idle"
  /\ ppc' = [ppc EXCEPT ![p] = "isFull"]
  /\ pWrite' = [pWrite EXCEPT ![p] = read_idx]
  /\ UNCHANGED <<ringVars, consVars, obsVars, pItem, sawSpace, calls, accepted, delivered>>

IsFullEnd(p) ==
  /\ ppc[p] = "isFull"
  /\ ppc' = [ppc EXCEPT ![p] = "idle"]
  /\ sawSpace' = [sawSpace EXCEPT ![p] = (NextRecord(write_idx) # pWrite[p])]
  /\ UNCHANGED <<ringVars, consVars, obsVars, pItem, pWrite, calls, accepted, delivered>>

\* ds_spsc_verify returns DS_ERROR_CORRUPT for the indices w and r it loaded.
Corrupt(w, r) == r >= Size \/ w >= Size \/ SizeGuess(w, r) > Size - 1

\* r = READ_ONCE(head->read_idx.idx)
VerifyBegin(o) ==
  /\ opc[o] = "idle"
  /\ opc' = [opc EXCEPT ![o] = "verify"]
  /\ oRead' = [oRead EXCEPT ![o] = read_idx]
  /\ UNCHANGED <<ringVars, prodVars, consVars, oCorrupt, calls, accepted, delivered>>

\* w = READ_ONCE(head->write_idx.idx), then the checks
VerifyEnd(o) ==
  /\ opc[o] = "verify"
  /\ opc' = [opc EXCEPT ![o] = "idle"]
  /\ oCorrupt' = [oCorrupt EXCEPT ![o] = Corrupt(write_idx, oRead[o])]
  /\ oRead' = [oRead EXCEPT ![o] = 0]
  /\ UNCHANGED <<ringVars, prodVars, consVars, calls, accepted, delivered>>
----------------------------------------------------------------------------
Next ==
  \/ \E p \in Producer : ds_spsc_insert(p) \/ IsFullBegin(p) \/ IsFullEnd(p)
  \/ \E c \in Consumer : ds_spsc_delete(c) \/ IsEmptyBegin(c) \/ IsEmptyEnd(c)
  \/ \E o \in Observer : VerifyBegin(o) \/ VerifyEnd(o)

Spec == Init /\ [][Next]_vars

\* A call in progress goes on (nothing in it blocks), and the consumer calls
\* delete again and again: the relay loop and the drain loop do so whatever the
\* last call returned, is_empty calls in between notwithstanding.
Fairness ==
  /\ \A p \in Producer : WF_vars(\/ InsertFull(p) \/ InsertSpace(p) \/ InsertKey(p)
                                   \/ InsertValue(p) \/ InsertCommit(p) \/ IsFullEnd(p))
  /\ \A c \in Consumer : /\ SF_vars(DeleteBegin(c))
                          /\ WF_vars(\/ DeleteEmpty(c) \/ DeleteFound(c) \/ DeleteKey(c)
                                     \/ DeleteValue(c) \/ DeleteCommit(c) \/ IsEmptyEnd(c))

FairSpec == Spec /\ Fairness
----------------------------------------------------------------------------
(* Properties *)

Word == [key : Key \cup {Zero}, value : Value \cup {Zero}]

\* Type invariant: both indices stay inside the ring, every local is of its type.
TypeOK ==
  /\ records \in [Slot -> Word]
  /\ write_idx \in Slot /\ read_idx \in Slot
  /\ ppc \in [Producer -> {"idle", "check", "key", "value", "commit", "isFull"}]
  /\ pItem \in [Producer -> Word] /\ pWrite \in [Producer -> Slot]
  /\ cpc \in [Consumer -> {"idle", "check", "key", "value", "commit", "isEmpty"}]
  /\ cRead \in [Consumer -> Slot] /\ cData \in [Consumer -> Word]
  /\ sawItem \in [Consumer -> BOOLEAN] /\ sawSpace \in [Producer -> BOOLEAN]
  /\ opc \in [Observer -> {"idle", "verify"}]
  /\ oRead \in [Observer -> Slot] /\ oCorrupt \in [Observer -> BOOLEAN]
  /\ calls \in Nat
  /\ accepted \in Seq(Word) /\ delivered \in Seq(Word)

\* Every pair for which ds_spsc_insert returned DS_SUCCESS was handed out by
\* ds_spsc_delete, or is still in the ring, whole and in insertion order:
\* nothing is lost, duplicated, reordered, torn or overwritten.
Lossless == accepted = delivered \o Contents

\* The producer never stores into a slot the consumer is reading.
NoSlotRace ==
  \A p \in Producer, c \in Consumer :
    ppc[p] \in {"key", "value"} /\ cpc[c] \in {"key", "value"} => pWrite[p] # cRead[c]

\* A verify that overlaps inserts and deletes never reports DS_ERROR_CORRUPT.
VerifyNeverCorrupt == \A o \in Observer : ~oCorrupt[o]

\* DS_ERROR_FULL is returned only when Size - 1 items are in the ring, and
\* DS_ERROR_NOT_FOUND only when none is, at the moment the call decides.
HonestRefusals ==
  [][/\ \A p \in Producer : ppc[p] = "check" /\ ppc'[p] = "idle" => Count = Size - 1
     /\ \A c \in Consumer : cpc[c] = "check" /\ cpc'[c] = "idle" => Count = 0]_vars

\* Check-then-act: after is_empty told the consumer FALSE its next delete finds
\* an item, and after is_full told the producer FALSE its next insert has room.
AnswersStayValid ==
  [][/\ \A p \in Producer : ppc[p] = "check" /\ ppc'[p] = "idle" => ~sawSpace[p]
     /\ \A c \in Consumer : cpc[c] = "check" /\ cpc'[c] = "idle" => ~sawItem[c]]_vars

\* The contract of ds_spsc_insert and ds_spsc_delete: ONE producer, ONE consumer.
Contract ==
  /\ \E p \in Producer : Producer = {p}
  /\ \E c \in Consumer : Consumer = {c}

\* The inductive strengthening of Lossless under the contract.
InCall(pc) == pc \in {"check", "key", "value", "commit"}
InSlot(pc) == pc \in {"key", "value", "commit"}

ProducerInv ==
  \A p \in Producer :
    /\ InCall(ppc[p]) => pWrite[p] = write_idx /\ pItem[p] \in Item
    /\ InSlot(ppc[p]) => Count < Size - 1
    /\ ppc[p] \in {"value", "commit"} => records[write_idx].key = pItem[p].key
    /\ ppc[p] = "commit" => records[write_idx].value = pItem[p].value
    /\ ppc[p] = "isFull" => SizeGuess(write_idx, pWrite[p]) >= Count
    /\ sawSpace[p] => Count < Size - 1

ConsumerInv ==
  \A c \in Consumer :
    /\ cpc[c] # "idle" => cRead[c] = read_idx
    /\ InSlot(cpc[c]) => Count > 0
    /\ cpc[c] \in {"value", "commit"} => cData[c].key = records[read_idx].key
    /\ cpc[c] = "commit" => cData[c].value = records[read_idx].value
    /\ sawItem[c] => Count > 0

RingInv ==
  /\ ProducerInv /\ ConsumerInv /\ Lossless
  /\ \A k \in 1 .. Count : Contents[k] \in Item

\* The ring implements the abstract bounded queue of Size - 1 items.
Fifo == INSTANCE FifoQueue WITH queue <- Contents, Capacity <- Size - 1
ImplementsFifo == Fifo!Spec

\* With a consumer that keeps polling every accepted item is handed out.
EventuallyDelivered ==
  \A n \in 1 .. MaxInserts : (Len(accepted) >= n) ~> (Len(delivered) >= n)
=============================================================================
