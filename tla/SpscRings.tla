----------------------------- MODULE SpscRings -----------------------------
(***************************************************************************)
(* The two masked single-producer single-consumer rings, of                *)
(* ds_ck_ring_spsc.h and ds_io_uring.h.  The CK ring masks its indices and *)
(* keeps one slot free; the io_uring ring lets its 32-bit indices run on,  *)
(* uses every slot and tells of a refused insert in sq_flags.  kind says   *)
(* which of the two a behaviour is about.                                  *)
(*                                                                         *)
(* In BPF code smp_store_release and smp_load_acquire are a plain access   *)
(* and a compiler barrier (bpf_arena_common.h), so what the other side     *)
(* sees is up to the machine.  Here a store first waits in the store       *)
(* buffer of its CPU, which reaches memory in order, as on x86; the atomic *)
(* or / and on sq_flags waits until the buffer is empty.  An index is      *)
(* stored by one side only, and that side sees its own newest store.       *)
(* The memory barrier of ds_ck_ring_spsc_delete_c would only drain the     *)
(* consumer's buffer sooner.                                               *)
(***************************************************************************)
EXTENDS Integers, Sequences

CONSTANTS Item,            \* pairs, records of a key and a value
          Size,            \* for each kind, the slots of its ring
          IndexModulus,    \* 2^32: the io_uring indices wrap around here
          MaxInserts       \* bound: calls of insert in a behaviour

Kind == {"ck", "io_uring"}

\* Both inits insist on a power of two, which divides 2^32; CK's on two slots.
ASSUME SizeAssumption ==
  /\ Size \in [Kind -> Nat \ {0}] /\ Size["ck"] >= 2
  /\ IndexModulus \in Nat /\ IndexModulus > Size["io_uring"]
  /\ IndexModulus % Size["io_uring"] = 0
ASSUME MaxInsertsAssumption == MaxInserts \in Nat
ASSUME ItemAssumption == \A x \in Item : x = [key |-> x.key, value |-> x.value]

VARIABLES
  kind,
  tail, head, entries,     \* memory: p_tail / prod.tail, c_head / cons.head, the slots
  full,                    \* memory: DS_IO_URING_SQ_FLAG_FULL in sq_flags
  pbuf, cbuf,              \* the store buffers of the producer's and the consumer's CPU
  drained,                 \* stores of the oldest insert in pbuf that have reached memory
  prod, cons, obs,         \* the calls in progress
  refused,                 \* the last insert returned DS_ERROR_FULL
  calls, accepted, delivered

memVars == <<tail, head, entries, full>>
bufVars == <<pbuf, cbuf, drained>>
vars == <<kind, memVars, bufVars, prod, cons, obs, refused, calls, accepted, delivered>>

Zero == "zero"             \* a word of the zeroed arena
ZeroPair == [key |-> Zero, value |-> Zero]
Entries == Size[kind]
Slot == 0 .. Entries - 1

IdleObserver == [pc |-> "idle", producer |-> 0, put |-> 0, consumer |-> 0, taken |-> 0]

\* ds_ck_ring_spsc_init, ds_io_uring_init
Empty(k) ==
  /\ kind = k
  /\ tail = 0 /\ head = 0 /\ full = FALSE
  /\ entries = [i \in 0 .. Size[k] - 1 |-> ZeroPair]

ds_ck_ring_spsc_init == Empty("ck")
ds_io_uring_init == Empty("io_uring")

Init ==
  /\ ds_ck_ring_spsc_init \/ ds_io_uring_init
  /\ pbuf = <<>> /\ cbuf = <<>> /\ drained = 0
  /\ prod = [pc |-> "idle", item |-> ZeroPair]
  /\ cons = [pc |-> "idle", out |-> ZeroPair]
  /\ obs = IdleObserver
  /\ refused = FALSE
  /\ calls = 0 /\ accepted = <<>> /\ delivered = <<>>
----------------------------------------------------------------------------
(* Indices *)

\* i & mask in the CK ring, 32 bits in the other
Modulus == IF kind = "ck" THEN Entries ELSE IndexModulus

\* (i + 1) & mask; i + 1
NextIndex(i) == (i + 1) % Modulus

\* ds_ck_ring_spsc_size; tail - h in ds_io_uring_insert and verify
Distance(t, h) == (t - h) % Modulus

\* Mutant of IsFull: the io_uring ring is taken to be full one insert too late.
MutantIsFull(t, h) == IF kind = "ck" THEN NextIndex(t) = h ELSE Distance(t, h) > Entries

\* ds_ck_ring_spsc_is_full and the same test in insert; tail - h >= ring_entries
IsFull(t, h) == IF kind = "ck" THEN NextIndex(t) = h ELSE Distance(t, h) >= Entries

\* ds_ck_ring_spsc_is_empty and the same test in delete; h == t
IsEmpty(t, h) == h = t

\* slots[i]; entries[i & ring_mask]
SlotOf(i) == IF kind = "ck" THEN i ELSE i % Entries

\* The newest store to an index, as the only side that stores it sees it.
OwnTail == IF pbuf = <<>> THEN tail ELSE pbuf[Len(pbuf)].next
OwnHead == IF cbuf = <<>> THEN head ELSE cbuf[Len(cbuf)]

\* The three stores of an insert: slot->key, slot->value, and the index.
Publish(i, x) == [at |-> SlotOf(i), item |-> x, next |-> NextIndex(i)]

\* Mutant of StoreOrder: the index is stored before the pair.
MutantStoreOrder == <<"tail", "key", "value">>

\* slot->key = key; slot->value = value; smp_store_release(&tail, next)
StoreOrder == <<"key", "value", "tail">>
----------------------------------------------------------------------------
(* insert *)

InsertBegin(x) ==
  /\ prod.pc = "idle" /\ calls < MaxInserts
  /\ calls' = calls + 1
  /\ prod' = [pc |-> "check", item |-> x]
  /\ UNCHANGED <<kind, memVars, bufVars, cons, obs, refused, accepted, delivered>>

\* The consumer's index is loaded and the ring is full: DS_ERROR_FULL, in the
\* io_uring ring after sq_flags is raised.
InsertRefused ==
  /\ prod.pc = "check" /\ IsFull(OwnTail, head)
  /\ prod' = [prod EXCEPT !.pc = IF kind = "ck" THEN "idle" ELSE "raise"]
  /\ refused' = TRUE
  /\ UNCHANGED <<kind, memVars, bufVars, cons, obs, calls, accepted, delivered>>

\* ... and there is room: the pair and the index are stored.
InsertStores ==
  /\ prod.pc = "check" /\ ~IsFull(OwnTail, head)
  /\ pbuf' = Append(pbuf, Publish(OwnTail, prod.item))
  /\ prod' = [prod EXCEPT !.pc = IF kind = "ck" THEN "idle" ELSE "clear"]
  /\ accepted' = Append(accepted, prod.item)
  /\ refused' = FALSE
  /\ UNCHANGED <<kind, memVars, cbuf, drained, cons, obs, calls, delivered>>

\* arena_atomic_or(&head->sq_flags, DS_IO_URING_SQ_FLAG_FULL)
RaiseFull ==
  /\ prod.pc = "raise" /\ pbuf = <<>>
  /\ full' = TRUE
  /\ prod' = [prod EXCEPT !.pc = "idle"]
  /\ UNCHANGED <<kind, tail, head, entries, bufVars, cons, obs, refused, calls, accepted, delivered>>

\* arena_atomic_and(&head->sq_flags, ~DS_IO_URING_SQ_FLAG_FULL)
ClearFull ==
  /\ prod.pc = "clear" /\ pbuf = <<>>
  /\ full' = FALSE
  /\ prod' = [prod EXCEPT !.pc = "idle"]
  /\ UNCHANGED <<kind, tail, head, entries, bufVars, cons, obs, refused, calls, accepted, delivered>>

InsertEnd == InsertRefused \/ InsertStores \/ RaiseFull \/ ClearFull

ds_ck_ring_spsc_insert == kind = "ck" /\ (InsertEnd \/ \E x \in Item : InsertBegin(x))
ds_io_uring_insert == kind = "io_uring" /\ (InsertEnd \/ \E x \in Item : InsertBegin(x))
----------------------------------------------------------------------------
(* ds_ck_ring_spsc_delete (also called pop), ds_io_uring_pop *)

\* Mutant of PopFound: the newest pair is taken for the end of the ring.
MutantPopFound ==
  /\ cons.pc = "idle" /\ OwnHead # tail /\ NextIndex(OwnHead) # tail
  /\ cons' = [cons EXCEPT !.pc = "key"]
  /\ UNCHANGED <<kind, memVars, bufVars, prod, obs, refused, calls, accepted, delivered>>

\* The producer's index is loaded and differs from the own one; otherwise the
\* call returns DS_ERROR_NOT_FOUND and nothing changes.
PopFound ==
  /\ cons.pc = "idle" /\ ~IsEmpty(tail, OwnHead)
  /\ cons' = [cons EXCEPT !.pc = "key"]
  /\ UNCHANGED <<kind, memVars, bufVars, prod, obs, refused, calls, accepted, delivered>>

\* out->key = slot->key
PopKey ==
  /\ cons.pc = "key"
  /\ cons' = [pc |-> "value", out |-> [cons.out EXCEPT !.key = entries[SlotOf(OwnHead)].key]]
  /\ UNCHANGED <<kind, memVars, bufVars, prod, obs, refused, calls, accepted, delivered>>

\* out->value = slot->value
PopValue ==
  /\ cons.pc = "value"
  /\ cons' = [pc |-> "store", out |-> [cons.out EXCEPT !.value = entries[SlotOf(OwnHead)].value]]
  /\ UNCHANGED <<kind, memVars, bufVars, prod, obs, refused, calls, accepted, delivered>>

\* smp_store_release(&head, next): DS_SUCCESS
PopStore ==
  /\ cons.pc = "store"
  /\ cbuf' = Append(cbuf, NextIndex(OwnHead))
  /\ delivered' = Append(delivered, cons.out)
  /\ cons' = [pc |-> "idle", out |-> ZeroPair]
  /\ UNCHANGED <<kind, memVars, pbuf, drained, prod, obs, refused, calls, accepted>>

Pop == PopFound \/ PopKey \/ PopValue \/ PopStore

ds_ck_ring_spsc_delete == kind = "ck" /\ Pop
ds_io_uring_pop == kind = "io_uring" /\ Pop
----------------------------------------------------------------------------
(* The machine: the oldest store of a buffer reaches memory. *)

DrainProducer ==
  /\ pbuf # <<>>
  /\ LET s == Head(pbuf)
         loc == StoreOrder[drained + 1]
     IN  /\ tail' = IF loc = "tail" THEN s.next ELSE tail
         /\ entries' = IF loc = "tail" THEN entries
                       ELSE [entries EXCEPT ![s.at][loc] = s.item[loc]]
  /\ drained' = (drained + 1) % 3
  /\ pbuf' = IF drained = 2 THEN Tail(pbuf) ELSE pbuf
  /\ UNCHANGED <<kind, head, full, cbuf, prod, cons, obs, refused, calls, accepted, delivered>>

DrainConsumer ==
  /\ cbuf # <<>>
  /\ head' = Head(cbuf)
  /\ cbuf' = Tail(cbuf)
  /\ UNCHANGED <<kind, tail, entries, full, pbuf, drained, prod, cons, obs, refused, calls, accepted,
                 delivered>>
----------------------------------------------------------------------------
(* verify, and the size of the CK ring, which loads the same two indices in the
   same order.  The number of pairs ever put in and taken out, as far as
   memory shows it, tells the loaded indices apart from equal ones a round ago. *)

TailCount == Len(accepted) - Len(pbuf)
HeadCount == Len(delivered) - Len(cbuf)

\* consumer = c_head in the CK ring, tail = prod.tail in the other
VerifyFirst ==
  /\ obs.pc \in {"idle", "done"}
  /\ obs' = IF kind = "ck"
            THEN [IdleObserver EXCEPT !.pc = "second", !.consumer = head, !.taken = HeadCount]
            ELSE [IdleObserver EXCEPT !.pc = "second", !.producer = tail, !.put = TailCount]
  /\ UNCHANGED <<kind, memVars, bufVars, prod, cons, refused, calls, accepted, delivered>>

\* producer = p_tail; h = cons.head
VerifySecond ==
  /\ obs.pc = "second"
  /\ obs' = IF kind = "ck"
            THEN [obs EXCEPT !.pc = "done", !.producer = tail, !.put = TailCount]
            ELSE [obs EXCEPT !.pc = "done", !.consumer = head, !.taken = HeadCount]
  /\ UNCHANGED <<kind, memVars, bufVars, prod, cons, refused, calls, accepted, delivered>>

\* The verdict DS_ERROR_CORRUPT on the indices that were loaded
ds_ck_ring_spsc_verify(p, c) == p \notin Slot \/ c \notin Slot \/ Distance(p, c) > Entries - 1

\* Mutant of ds_io_uring_verify: a full ring is taken for a corrupt one.
MutantUringVerify(p, c) == Distance(p, c) >= Entries

ds_io_uring_verify(p, c) == Distance(p, c) > Entries
----------------------------------------------------------------------------
Next ==
  \/ ds_ck_ring_spsc_insert \/ ds_ck_ring_spsc_delete
  \/ ds_io_uring_insert \/ ds_io_uring_pop
  \/ DrainProducer \/ DrainConsumer
  \/ VerifyFirst \/ VerifySecond

\* A store does not stay in a buffer for ever, a call goes on, the consumer polls.
Fairness == WF_vars(InsertEnd) /\ WF_vars(Pop) /\ WF_vars(DrainProducer) /\ WF_vars(DrainConsumer)

Spec == Init /\ [][Next]_vars
FairSpec == Spec /\ Fairness
----------------------------------------------------------------------------
(* Properties *)

Index == 0 .. Modulus - 1
Pair == Item \cup {ZeroPair}
Word == {x.key : x \in Pair} \cup {x.value : x \in Pair}
Torn == [key : Word, value : Word]

\* Type invariant; an index never leaves the range of its kind.
TypeOK ==
  /\ kind \in Kind /\ tail \in Index /\ head \in Index /\ full \in BOOLEAN
  /\ entries \in [Slot -> Torn]
  /\ pbuf \in Seq([at : Slot, item : Item, next : Index]) /\ cbuf \in Seq(Index)
  /\ drained \in 0 .. 2 /\ refused \in BOOLEAN
  /\ prod \in [pc : {"idle", "check", "raise", "clear"}, item : Pair]
  /\ cons \in [pc : {"idle", "key", "value", "store"}, out : Torn]
  /\ obs \in [pc : {"idle", "second", "done"}, producer : Index, put : Int,
              consumer : Index, taken : Int]
  /\ calls \in 0 .. MaxInserts /\ accepted \in Seq(Item) /\ delivered \in Seq(Torn)

\* The pairs visible to the consumer and not yet popped, oldest first.
Contents == [k \in 1 .. Distance(tail, OwnHead) |-> entries[(OwnHead + k - 1) % Entries]]

\* A pair on its way to memory never aims at a slot the consumer may still read:
\* neither the consumer's store that freed the slot nor its loads can be late.
SlotPrivate ==
  /\ TypeOK
  /\ \A k \in DOMAIN pbuf : \A j \in 1 .. Len(Contents) :
       pbuf[k].at # (OwnHead + j - 1) % Entries

\* What the answers of the rings are good for.  Between two inserts sq_flags says
\* whether the last one was refused, and nothing of the room the consumer may have
\* made since.  verify and size load the indices at different times: the CK ring is
\* never reported corrupt and its size is that of the ring between the loads,
\* unless the producer went all the way around in between; the io_uring ring is
\* reported corrupt only if pairs were both inserted and popped in between, so
\* never at exit, when one of its two sides has been joined.
VerdictsSound ==
  /\ kind = "io_uring" /\ prod.pc = "idle" => full = refused
  /\ obs.pc = "done" /\ kind = "ck" =>
       /\ ~ds_ck_ring_spsc_verify(obs.producer, obs.consumer)
       /\ obs.put - obs.taken \in Slot => Distance(obs.producer, obs.consumer) = obs.put - obs.taken
  /\ obs.pc = "done" /\ kind = "io_uring" =>
       (ds_io_uring_verify(obs.producer, obs.consumer) => obs.taken > obs.put)

\* The ring implements the abstract queue although stores arrive late: an insert
\* takes effect when its index reaches memory, a pop when the consumer stores its
\* own.
CkQueue == INSTANCE FifoQueue WITH queue <- Contents, Capacity <- Size["ck"] - 1
UringQueue == INSTANCE FifoQueue WITH queue <- Contents, Capacity <- Size["io_uring"]
ImplementsFifo ==
  /\ IF kind = "ck" THEN CkQueue!Init ELSE UringQueue!Init
  /\ [][IF kind = "ck" THEN CkQueue!Next ELSE UringQueue!Next]_<<Contents, delivered>>

\* Every pair whose insert returned DS_SUCCESS is handed out, also when it waits
\* in a store buffer when the inserts end.
EventuallyDelivered == <>[](delivered = accepted)
=============================================================================
