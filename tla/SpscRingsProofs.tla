-------------------------- MODULE SpscRingsProofs --------------------------
(***************************************************************************)
(* Proofs about the CK ring and the io_uring ring over store buffers, for  *)
(* every ring size, every set of pairs, every index width that the size    *)
(* divides and every bound on the number of inserts.                       *)
(*                                                                         *)
(* The argument counts: the n-th accepted pair lives in slot n - 1 modulo  *)
(* the size, whichever way its index is masked.  The counts of the pairs   *)
(* accepted, visible in memory, popped, and popped as far as memory shows  *)
(* it never fall apart by more than the capacity, so two counts in that    *)
(* window with the same slot are the same count.                           *)
(***************************************************************************)
EXTENDS SpscRings, RingArith, SequenceTheorems, TLAPS

\* The pairs a ring holds when it refuses the next one.
Room == IF kind = "ck" THEN Entries - 1 ELSE Entries

\* The counts: popped in memory, popped, in memory, accepted.
CountInv ==
  /\ HeadCount \in Nat
  /\ Len(delivered) <= TailCount
  /\ Len(accepted) - HeadCount <= Room

\* The indices in memory and in the buffers are the counts, wrapped.
IndexInv ==
  /\ tail = TailCount % Modulus /\ head = HeadCount % Modulus
  /\ \A k \in 1 .. Len(pbuf) :
       /\ pbuf[k].at = (TailCount + k - 1) % Entries
       /\ pbuf[k].item = accepted[TailCount + k]
       /\ pbuf[k].next = (TailCount + k) % Modulus
  /\ \A k \in 1 .. Len(cbuf) : cbuf[k] = (HeadCount + k) % Modulus

\* Every pair visible to the consumer is in its slot; of the insert on its way to
\* memory, the words that have been stored.
SlotInv ==
  /\ \A i \in Len(delivered) + 1 .. TailCount : entries[(i - 1) % Entries] = accepted[i]
  /\ drained > 0 =>
       /\ pbuf # <<>>
       /\ entries[TailCount % Entries].key = accepted[TailCount + 1].key
  /\ drained = 2 => entries[TailCount % Entries].value = accepted[TailCount + 1].value

\* The consumer in the middle of a pop has copied the words of the oldest pair.
ConsumerInv ==
  /\ cons.pc # "idle" => Len(delivered) < TailCount
  /\ cons.pc \in {"value", "store"} => cons.out.key = accepted[Len(delivered) + 1].key
  /\ cons.pc = "store" => cons.out.value = accepted[Len(delivered) + 1].value

\* The producer holds a real pair; sq_flags tells of the last insert that ended.
ProducerInv ==
  /\ prod.pc = "check" => prod.item \in Item
  /\ prod.pc = "raise" => refused
  /\ prod.pc = "clear" => ~refused
  /\ kind = "io_uring" /\ prod.pc \in {"idle", "check"} => full = refused

\* What an observer has loaded are counts that memory showed, wrapped.
ObserverInv ==
  /\ obs.put \in Nat /\ obs.taken \in Nat
  /\ obs.pc \in {"second", "done"} /\ kind = "ck" =>
       obs.consumer = obs.taken % Modulus
  /\ obs.pc \in {"second", "done"} /\ kind = "io_uring" =>
       obs.producer = obs.put % Modulus
  /\ obs.pc = "second" /\ kind = "io_uring" => obs.put - HeadCount <= Entries
  /\ obs.pc = "done" /\ kind = "ck" => obs.producer = obs.put % Modulus
  /\ obs.pc = "done" /\ kind = "io_uring" =>
       obs.consumer = obs.taken % Modulus /\ obs.put - obs.taken <= Entries

Inv ==
  /\ TypeOK /\ CountInv /\ IndexInv /\ SlotInv /\ ConsumerInv /\ ProducerInv /\ ObserverInv
----------------------------------------------------------------------------
(* Sizes, counts and indices *)

\* The ring size divides the range of its indices, which exceeds what it may hold.
LEMMA SizeFacts ==
  ASSUME kind \in Kind
  PROVE  /\ Entries \in Nat /\ Entries > 0
         /\ Modulus \in Nat /\ Modulus > 0 /\ Modulus % Entries = 0
         /\ Room \in Nat /\ Room < Modulus /\ Room <= Entries
<1>1. Entries \in Nat /\ Entries > 0
  BY SizeAssumption DEF Entries, Kind
<1>2. CASE kind = "ck"
  <2>1. Entries = Entries * 1 + 0 /\ 0 \in 0 .. Entries - 1
    BY <1>1
  <2>2. (Entries * 1 + 0) % Entries = 0
    BY <1>1, <2>1, Remainder
  <2>3. Entries % Entries = 0
    BY <2>1, <2>2
  <2>4. Modulus = Entries /\ Room = Entries - 1
    BY <1>2 DEF Modulus, Room
  <2>5. QED
    BY <1>1, <2>3, <2>4
<1>3. CASE kind = "io_uring"
  <2>1. Modulus = IndexModulus /\ Room = Entries /\ Entries = Size["io_uring"]
    BY <1>3 DEF Modulus, Room, Entries
  <2>2. QED
    BY <1>1, <2>1, SizeAssumption
<1>4. QED
  BY <1>2, <1>3 DEF Kind

\* An index that is a wrapped count stays in range, leads to the slot of the
\* count, and is followed by the index of the next count.
LEMMA IndexOfCount ==
  ASSUME kind \in Kind, NEW n \in Nat
  PROVE  /\ n % Modulus \in Index /\ n % Entries \in Slot
         /\ SlotOf(n % Modulus) = n % Entries
         /\ NextIndex(n % Modulus) = (n + 1) % Modulus
<1>1. n % Modulus \in Index /\ n % Entries \in Slot
  BY SizeFacts, DivMod DEF Index, Slot
<1>2. NextIndex(n % Modulus) = (n + 1) % Modulus
  BY SizeFacts, NextCell DEF NextIndex
<1>3. SlotOf(n % Modulus) = n % Entries
  <2>1. CASE kind = "ck"
    BY <2>1 DEF SlotOf, Modulus
  <2>2. CASE kind # "ck"
    <3>1. (n % Modulus) % Entries = n % Entries
      BY SizeFacts, CellOfCell
    <3>2. QED
      BY <2>2, <3>1 DEF SlotOf
  <2>3. QED
    BY <2>1, <2>2
<1>4. QED
  BY <1>1, <1>2, <1>3

\* The distance of two indices is that of their counts, if that is below the range.
LEMMA DistanceOfCounts ==
  ASSUME kind \in Kind, NEW m \in Nat, NEW n \in Nat, m - n \in 0 .. Modulus - 1
  PROVE  Distance(m % Modulus, n % Modulus) = m - n
  BY SizeFacts, CellDistance DEF Distance

\* The lengths behind the counts, and the order the counts are in.
LEMMA CountFacts ==
  ASSUME TypeOK, CountInv
  PROVE  /\ kind \in Kind
         /\ Len(accepted) \in Nat /\ Len(delivered) \in Nat
         /\ Len(pbuf) \in Nat /\ Len(cbuf) \in Nat
         /\ TailCount \in Nat /\ TailCount + Len(pbuf) = Len(accepted)
         /\ HeadCount \in Nat /\ HeadCount + Len(cbuf) = Len(delivered)
         /\ HeadCount <= Len(delivered) /\ Len(delivered) <= TailCount
         /\ TailCount <= Len(accepted) /\ Len(accepted) <= HeadCount + Room
<1>1. /\ kind \in Kind /\ Len(accepted) \in Nat /\ Len(delivered) \in Nat
      /\ Len(pbuf) \in Nat /\ Len(cbuf) \in Nat
  BY DEF TypeOK
<1>2. Room \in Nat
  BY <1>1, SizeFacts
<1>3. QED
  BY <1>1, <1>2 DEF TailCount, HeadCount, CountInv

\* Each side sees its own count in its own index.
LEMMA OwnIndices ==
  ASSUME TypeOK, CountInv, IndexInv
  PROVE  /\ OwnTail = Len(accepted) % Modulus
         /\ OwnHead = Len(delivered) % Modulus
<1>1. OwnTail = Len(accepted) % Modulus
  <2>1. CASE pbuf = <<>>
    <3>1. TailCount = Len(accepted)
      BY <2>1, CountFacts
    <3>2. QED
      BY <2>1, <3>1 DEF OwnTail, IndexInv
  <2>2. CASE pbuf # <<>>
    <3>1. Len(pbuf) \in 1 .. Len(pbuf)
      BY <2>2 DEF TypeOK
    <3>2. pbuf[Len(pbuf)].next = (TailCount + Len(pbuf)) % Modulus
      BY <3>1 DEF IndexInv
    <3>3. QED
      BY <2>2, <3>2, CountFacts DEF OwnTail
  <2>3. QED
    BY <2>1, <2>2
<1>2. OwnHead = Len(delivered) % Modulus
  <2>1. CASE cbuf = <<>>
    <3>1. HeadCount = Len(delivered)
      BY <2>1, CountFacts
    <3>2. QED
      BY <2>1, <3>1 DEF OwnHead, IndexInv
  <2>2. CASE cbuf # <<>>
    <3>1. Len(cbuf) \in 1 .. Len(cbuf)
      BY <2>2 DEF TypeOK
    <3>2. cbuf[Len(cbuf)] = (HeadCount + Len(cbuf)) % Modulus
      BY <3>1 DEF IndexInv
    <3>3. QED
      BY <2>2, <3>2, CountFacts DEF OwnHead
  <2>3. QED
    BY <2>1, <2>2
<1>3. QED
  BY <1>1, <1>2

\* Counts less than a ring apart have different slots.
LEMMA SlotsApart ==
  ASSUME kind \in Kind, NEW m \in Nat, NEW n \in Nat, m < n, n < m + Entries
  PROVE  m % Entries # n % Entries
  BY SizeFacts, SameCell

\* An insert that finds room finds it for its own pair.
LEMMA RoomLeft ==
  ASSUME TypeOK, CountInv, IndexInv, ~IsFull(OwnTail, head)
  PROVE  Len(accepted) + 1 <= HeadCount + Room
<1> DEFINE P == Len(accepted)
           H == HeadCount
<1>1. /\ P \in Nat /\ H \in Nat /\ H <= P /\ P <= H + Room /\ kind \in Kind
      /\ OwnTail = P % Modulus /\ head = H % Modulus
  BY CountFacts, OwnIndices DEF IndexInv
<1>2. /\ Entries \in Nat /\ Entries > 0 /\ Room \in Nat /\ Room < Modulus /\ Modulus \in Nat
  BY <1>1, SizeFacts
<1> HIDE DEF P, H
<1>3. CASE kind = "ck"
  <2>1. Modulus = Entries /\ Room = Entries - 1
    BY <1>3 DEF Modulus, Room
  <2>2. (P + 1) % Entries # H % Entries
    BY <1>1, <1>3, <2>1, IndexOfCount DEF IsFull
  <2>3. (H + Entries) % Entries = H % Entries
    BY <1>1, <1>2, NextLap
  <2>4. P + 1 # H + Entries
    BY <2>2, <2>3
  <2>5. P + 1 <= H + Room
    BY <1>1, <1>2, <2>1, <2>4
  <2>6. QED
    BY <2>5 DEF P, H
<1>4. CASE kind = "io_uring"
  <2>1. Room = Entries
    BY <1>4 DEF Room
  <2>2. P - H \in 0 .. Modulus - 1
    BY <1>1, <1>2
  <2>3. ~(P - H >= Entries)
    BY <1>1, <1>4, <2>2, DistanceOfCounts DEF IsFull
  <2>4. P + 1 <= H + Room
    BY <1>1, <1>2, <2>1, <2>3
  <2>5. QED
    BY <2>4 DEF P, H
<1>5. QED
  BY <1>1, <1>3, <1>4 DEF Kind
----------------------------------------------------------------------------
(* The steps that leave the ring alone *)

ringVars == <<kind, tail, head, entries, pbuf, cbuf, drained, accepted, delivered>>
RingInv == CountInv /\ IndexInv /\ SlotInv

LEMMA RingKept ==
  ASSUME UNCHANGED ringVars
  PROVE  /\ HeadCount' = HeadCount /\ TailCount' = TailCount
         /\ Modulus' = Modulus /\ Entries' = Entries
         /\ OwnHead' = OwnHead /\ OwnTail' = OwnTail
         /\ RingInv => RingInv'
  BY DEF ringVars, RingInv, CountInv, IndexInv, SlotInv, HeadCount, TailCount, Modulus, Entries,
         Room, OwnHead, OwnTail

\* The consumer's and the observer's parts depend on the ring only by its counts.
LEMMA OthersKept ==
  ASSUME UNCHANGED ringVars
  PROVE  /\ UNCHANGED cons /\ ConsumerInv => ConsumerInv'
         /\ UNCHANGED obs /\ ObserverInv => ObserverInv'
         /\ UNCHANGED <<prod, full, refused>> /\ ProducerInv => ProducerInv'
<1>1. UNCHANGED <<kind, accepted, delivered>>
  BY DEF ringVars
<1>2. QED
  BY <1>1, RingKept DEF ConsumerInv, ObserverInv, ProducerInv

LEMMA ProducerStep ==
  ASSUME Inv,
         (\E x \in Item : InsertBegin(x)) \/ InsertRefused \/ RaiseFull \/ ClearFull
  PROVE  Inv' /\ UNCHANGED ringVars
<1>1. UNCHANGED ringVars /\ UNCHANGED <<cons, obs>>
  BY DEF InsertBegin, InsertRefused, RaiseFull, ClearFull, ringVars, memVars, bufVars
<1>2. TypeOK'
  <2> USE DEF Inv, TypeOK
  <2>1. prod' \in [pc : {"idle", "check", "raise", "clear"}, item : Pair]
    <3>1. ASSUME NEW x \in Item, InsertBegin(x)
          PROVE  prod' \in [pc : {"idle", "check", "raise", "clear"}, item : Pair]
      BY <3>1 DEF InsertBegin, Pair
    <3>2. QED
      BY <3>1 DEF InsertRefused, RaiseFull, ClearFull
  <2>2. full' \in BOOLEAN /\ refused' \in BOOLEAN
    BY DEF InsertBegin, InsertRefused, RaiseFull, ClearFull, memVars
  <2>3. calls' \in 0 .. MaxInserts
    BY MaxInsertsAssumption DEF InsertBegin, InsertRefused, RaiseFull, ClearFull
  <2>4. QED
    BY <1>1, <2>1, <2>2, <2>3 DEF ringVars, Slot, Entries, Index, Modulus
<1>3. ProducerInv'
  <2> USE DEF Inv, TypeOK, ProducerInv, memVars
  <2>1. ASSUME NEW x \in Item, InsertBegin(x) PROVE ProducerInv'
    BY <2>1 DEF InsertBegin
  <2>2. CASE InsertRefused
    BY <2>2 DEF InsertRefused, Kind
  <2>3. CASE RaiseFull
    BY <2>3 DEF RaiseFull
  <2>4. CASE ClearFull
    BY <2>4 DEF ClearFull
  <2>5. QED
    BY <2>1, <2>2, <2>3, <2>4
<1>4. QED
  BY <1>1, <1>2, <1>3, RingKept, OthersKept DEF Inv, RingInv

LEMMA ObserverStep ==
  ASSUME Inv, VerifyFirst \/ VerifySecond
  PROVE  Inv' /\ UNCHANGED ringVars
<1>1. UNCHANGED ringVars /\ UNCHANGED <<cons, prod, full, refused, calls>>
  BY DEF VerifyFirst, VerifySecond, ringVars, memVars, bufVars
<1>2. /\ TailCount \in Nat /\ HeadCount \in Nat /\ Room \in Nat /\ Entries \in Nat
      /\ TailCount - HeadCount <= Room /\ Room <= Entries
      /\ Modulus \in Nat /\ Modulus > 0
  BY CountFacts, SizeFacts DEF Inv
<1>3. 0 \in Index
  BY <1>2 DEF Index
<1>4. TypeOK'
  <2>1. obs' \in [pc : {"idle", "second", "done"}, producer : Index, put : Int,
                 consumer : Index, taken : Int]
    <3>1. tail \in Index /\ head \in Index
      BY DEF Inv, TypeOK
    <3> DEFINE R == [pc : {"idle", "second", "done"}, producer : Index, put : Int,
                     consumer : Index, taken : Int]
               first == IF kind = "ck"
                        THEN [IdleObserver EXCEPT !.pc = "second", !.consumer = head, !.taken = HeadCount]
                        ELSE [IdleObserver EXCEPT !.pc = "second", !.producer = tail, !.put = TailCount]
               second == IF kind = "ck"
                         THEN [obs EXCEPT !.pc = "done", !.producer = tail, !.put = TailCount]
                         ELSE [obs EXCEPT !.pc = "done", !.consumer = head, !.taken = HeadCount]
    <3>2. ASSUME NEW r \in R, NEW i \in Index, NEW n \in Int, NEW q \in {"second", "done"}
          PROVE  /\ [r EXCEPT !.pc = q, !.producer = i, !.put = n] \in R
                 /\ [r EXCEPT !.pc = q, !.consumer = i, !.taken = n] \in R
      OBVIOUS
    <3>3. HeadCount \in Int /\ TailCount \in Int
      BY <1>2
    <3>4. CASE VerifyFirst
      <4>1. IdleObserver \in R
        BY <1>3 DEF IdleObserver
      <4>2. first \in R
        <5> HIDE DEF R
        <5>1. QED
          BY <3>1, <3>2, <3>3, <4>1
      <4>3. QED
        BY <3>4, <4>2 DEF VerifyFirst
    <3>5. CASE VerifySecond
      <4>1. obs \in R
        BY DEF Inv, TypeOK
      <4>2. second \in R
        <5> HIDE DEF R
        <5>1. QED
          BY <3>1, <3>2, <3>3, <4>1
      <4>3. QED
        BY <3>5, <4>2 DEF VerifySecond
    <3>6. QED
      BY <3>4, <3>5
  <2>2. QED
    BY <1>1, <2>1 DEF Inv, TypeOK, ringVars, Slot, Entries, Index, Modulus
<1>5. ObserverInv'
  <2> USE DEF ObserverInv
  <2>1. tail = TailCount % Modulus /\ head = HeadCount % Modulus /\ kind \in Kind
    BY DEF Inv, IndexInv, TypeOK
  <2>2. UNCHANGED <<kind, TailCount, HeadCount, Modulus, Entries>>
    BY <1>1, RingKept DEF ringVars
  <2>3. CASE VerifyFirst
    <3>1. CASE kind = "ck"
      <4>1. obs'.pc = "second" /\ obs'.consumer = head /\ obs'.taken = HeadCount /\ obs'.put = 0
        BY <2>3, <3>1 DEF VerifyFirst, IdleObserver
      <4>2. QED
        BY <1>2, <2>1, <2>2, <3>1, <4>1
    <3>2. CASE kind = "io_uring"
      <4>1. obs'.pc = "second" /\ obs'.producer = tail /\ obs'.put = TailCount /\ obs'.taken = 0
        BY <2>3, <3>2 DEF VerifyFirst, IdleObserver
      <4>2. QED
        BY <1>2, <2>1, <2>2, <3>2, <4>1
    <3>3. QED
      BY <2>1, <3>1, <3>2 DEF Kind
  <2>4. CASE VerifySecond
    <3>0. obs.pc = "second" /\ ObserverInv
      BY <2>4 DEF VerifySecond, Inv
    <3>1. CASE kind = "ck"
      <4>1. /\ obs'.pc = "done" /\ obs'.consumer = obs.consumer /\ obs'.taken = obs.taken
            /\ obs'.put = TailCount /\ obs'.producer = tail
        BY <2>4, <3>1 DEF VerifySecond, Inv, TypeOK
      <4>2. QED
        BY <1>2, <2>1, <2>2, <3>0, <3>1, <4>1
    <3>2. CASE kind = "io_uring"
      <4>1. /\ obs'.pc = "done" /\ obs'.producer = obs.producer /\ obs'.put = obs.put
            /\ obs'.taken = HeadCount /\ obs'.consumer = head
        BY <2>4, <3>2 DEF VerifySecond, Inv, TypeOK
      <4>2. QED
        BY <1>2, <2>1, <2>2, <3>0, <3>2, <4>1
    <3>3. QED
      BY <2>1, <3>1, <3>2 DEF Kind
  <2>5. QED
    BY <2>3, <2>4
<1>6. QED
  BY <1>1, <1>4, <1>5, RingKept, OthersKept DEF Inv, RingInv

\* The oldest visible pair is where the consumer looks for it.
LEMMA OldestPair ==
  ASSUME Inv, Len(delivered) < TailCount
  PROVE  /\ SlotOf(OwnHead) \in Slot
         /\ entries[SlotOf(OwnHead)] = accepted[Len(delivered) + 1]
<1>1. Len(delivered) \in Nat /\ TailCount \in Nat /\ kind \in Kind
  BY CountFacts DEF Inv
<1>2. SlotOf(OwnHead) = Len(delivered) % Entries /\ SlotOf(OwnHead) \in Slot
  BY <1>1, OwnIndices, IndexOfCount DEF Inv
<1>3. /\ Len(delivered) + 1 \in Len(delivered) + 1 .. TailCount
      /\ (Len(delivered) + 1) - 1 = Len(delivered)
  BY <1>1
<1>4. QED
  BY <1>2, <1>3 DEF Inv, SlotInv

LEMMA ConsumerStep ==
  ASSUME Inv, PopFound \/ PopKey \/ PopValue
  PROVE  Inv' /\ UNCHANGED ringVars
<1>1. UNCHANGED ringVars /\ UNCHANGED <<obs, prod, full, refused, calls>>
  BY DEF PopFound, PopKey, PopValue, ringVars, memVars, bufVars
<1>2. UNCHANGED <<TailCount, accepted, delivered>>
  BY <1>1, RingKept DEF ringVars
<1>3. Len(delivered) < TailCount
  <2>1. CASE PopFound
    <3>1. Len(delivered) # TailCount
      BY <2>1, OwnIndices DEF PopFound, IsEmpty, Inv, IndexInv
    <3>2. QED
      BY <3>1, CountFacts DEF Inv
  <2>2. CASE PopKey \/ PopValue
    BY <2>2 DEF PopKey, PopValue, Inv, ConsumerInv
  <2>3. QED
    BY <2>1, <2>2
<1>4. /\ SlotOf(OwnHead) \in Slot /\ entries[SlotOf(OwnHead)] \in Torn
      /\ entries[SlotOf(OwnHead)] = accepted[Len(delivered) + 1]
  BY <1>3, OldestPair DEF Inv, TypeOK
<1>5. cons \in [pc : {"idle", "key", "value", "store"}, out : Torn]
  BY DEF Inv, TypeOK
<1>6. /\ cons' \in [pc : {"idle", "key", "value", "store"}, out : Torn]
      /\ ConsumerInv'
  <2>1. CASE PopFound
    BY <1>2, <1>3, <1>5, <2>1 DEF PopFound, ConsumerInv
  <2>2. CASE PopKey
    BY <1>2, <1>3, <1>4, <1>5, <2>2 DEF PopKey, ConsumerInv, Torn
  <2>3. CASE PopValue
    BY <1>2, <1>3, <1>4, <1>5, <2>3 DEF PopValue, ConsumerInv, Inv, Torn
  <2>4. QED
    BY <2>1, <2>2, <2>3
<1>7. TypeOK'
  BY <1>1, <1>6 DEF Inv, TypeOK, ringVars, Slot, Entries, Index, Modulus
<1>8. QED
  BY <1>1, <1>6, <1>7, RingKept, OthersKept DEF Inv, RingInv
----------------------------------------------------------------------------
(* The steps that move a count *)

\* The sizes do not move.
LEMMA KindKept ==
  ASSUME UNCHANGED kind
  PROVE  /\ Entries' = Entries /\ Modulus' = Modulus /\ Room' = Room
         /\ Slot' = Slot /\ Index' = Index
  BY DEF Entries, Modulus, Room, Slot, Index

\* A pair is accepted: it waits in the producer's buffer with the next index.
LEMMA InsertStoresStep ==
  ASSUME Inv, InsertStores
  PROVE  Inv' /\ TailCount' = TailCount
<1> DEFINE P == Len(accepted)
           T == TailCount
           L == Len(pbuf)
           x == prod.item
           e == Publish(OwnTail, prod.item)
<1>1. /\ TypeOK /\ CountInv /\ IndexInv /\ SlotInv /\ ConsumerInv /\ ProducerInv /\ ObserverInv
      /\ x \in Item /\ kind \in Kind
  BY DEF Inv, TypeOK, InsertStores, ProducerInv
<1>2. /\ UNCHANGED <<kind, tail, head, entries, full, cbuf, drained, cons, obs, calls, delivered>>
      /\ pbuf' = Append(pbuf, e) /\ accepted' = Append(accepted, x) /\ refused' = FALSE
      /\ prod' = [prod EXCEPT !.pc = IF kind = "ck" THEN "idle" ELSE "clear"]
  BY DEF InsertStores, memVars
<1>3. /\ P \in Nat /\ T \in Nat /\ L \in Nat /\ T + L = P
      /\ HeadCount \in Nat /\ HeadCount <= P /\ P + 1 <= HeadCount + Room
      /\ Len(delivered) \in Nat /\ Len(delivered) <= T /\ Room \in Nat
  BY <1>1, CountFacts, SizeFacts, RoomLeft DEF InsertStores
<1>4. /\ e.at = P % Entries /\ e.item = x /\ e.next = (P + 1) % Modulus
      /\ e \in [at : Slot, item : Item, next : Index]
  <2>1. e = [at |-> SlotOf(OwnTail), item |-> x, next |-> NextIndex(OwnTail)]
    BY DEF Publish
  <2>2. SlotOf(OwnTail) = P % Entries /\ NextIndex(OwnTail) = (P + 1) % Modulus
    BY <1>1, <1>3, OwnIndices, IndexOfCount
  <2>3. P % Entries \in Slot /\ (P + 1) % Modulus \in Index
    BY <1>1, <1>3, IndexOfCount
  <2> HIDE DEF P, e, x
  <2>4. QED
    BY <1>1, <2>1, <2>2, <2>3
<1>5. /\ accepted \in Seq(Item) /\ pbuf \in Seq([at : Slot, item : Item, next : Index])
  BY <1>1 DEF TypeOK
<1> HIDE DEF e, x
<1>6. /\ accepted' \in Seq(Item) /\ Len(accepted') = P + 1
      /\ \A i \in 1 .. P : accepted'[i] = accepted[i]
      /\ accepted'[P + 1] = x
  BY <1>1, <1>2, <1>5
<1>7. /\ pbuf' \in Seq([at : Slot, item : Item, next : Index]) /\ Len(pbuf') = L + 1
      /\ \A k \in 1 .. L : pbuf'[k] = pbuf[k]
      /\ pbuf'[L + 1] = e
  BY <1>2, <1>4, <1>5
<1>8. /\ TailCount' = T /\ HeadCount' = HeadCount
      /\ UNCHANGED <<Entries, Modulus, Room, Slot, Index>>
  BY <1>2, <1>3, <1>6, <1>7, KindKept DEF TailCount, HeadCount
<1> HIDE DEF P, T, L
<1>9. TypeOK'
  <2>1. prod' \in [pc : {"idle", "check", "raise", "clear"}, item : Pair]
    BY <1>1, <1>2 DEF TypeOK
  <2>2. QED
    BY <1>1, <1>2, <1>6, <1>7, <1>8, <2>1 DEF TypeOK
<1>10. CountInv'
  BY <1>2, <1>3, <1>6, <1>8 DEF CountInv, P, T
<1>11. IndexInv'
  <2>1. tail' = TailCount' % Modulus' /\ head' = HeadCount' % Modulus'
    BY <1>1, <1>2, <1>8 DEF IndexInv, T
  <2>2. \A k \in 1 .. Len(cbuf') : cbuf'[k] = (HeadCount' + k) % Modulus'
    BY <1>1, <1>2, <1>8 DEF IndexInv
  <2>3. ASSUME NEW k \in 1 .. L + 1
        PROVE  /\ pbuf'[k].at = (T + k - 1) % Entries
               /\ pbuf'[k].item = accepted'[T + k]
               /\ pbuf'[k].next = (T + k) % Modulus
    <3>1. CASE k \in 1 .. L
      <4>1. T + k \in 1 .. P
        BY <1>3, <3>1
      <4>2. /\ pbuf[k].at = (T + k - 1) % Entries
            /\ pbuf[k].item = accepted[T + k] /\ pbuf[k].next = (T + k) % Modulus
        BY <1>1, <3>1 DEF IndexInv, T, L
      <4>3. pbuf'[k] = pbuf[k] /\ accepted'[T + k] = accepted[T + k]
        BY <1>6, <1>7, <3>1, <4>1
      <4>4. QED
        BY <4>2, <4>3
    <3>2. CASE k = L + 1
      <4>1. T + k = P + 1 /\ T + k - 1 = P
        BY <1>3, <3>2
      <4>2. QED
        BY <1>4, <1>6, <1>7, <3>2, <4>1
    <3>3. QED
      BY <1>3, <3>1, <3>2
  <2>4. QED
    BY <1>7, <1>8, <2>1, <2>2, <2>3 DEF IndexInv
<1>12. SlotInv'
  <2>1. ASSUME NEW i \in Len(delivered) + 1 .. T PROVE entries[(i - 1) % Entries] = accepted'[i]
    <3>1. i \in 1 .. P
      BY <1>3
    <3>2. QED
      BY <1>1, <1>6, <3>1 DEF SlotInv, T
  <2>2. ASSUME drained > 0
        PROVE  /\ pbuf' # <<>> /\ entries[T % Entries].key = accepted'[T + 1].key
               /\ drained = 2 => entries[T % Entries].value = accepted'[T + 1].value
    <3>1. pbuf # <<>>
      BY <1>1, <2>2 DEF SlotInv
    <3>2. L >= 1
      BY <1>5, <3>1 DEF L
    <3>3. T + 1 \in 1 .. P /\ pbuf' # <<>>
      BY <1>3, <1>7, <3>2
    <3>4. QED
      BY <1>1, <1>6, <2>2, <3>3 DEF SlotInv, T
  <2>3. drained = 2 => drained > 0
    OBVIOUS
  <2>4. /\ drained' = drained /\ entries' = entries /\ TailCount' = T /\ Entries' = Entries
        /\ delivered' = delivered
    BY <1>2, <1>8
  <2>5. \A i \in Len(delivered') + 1 .. TailCount' : entries'[(i - 1) % Entries'] = accepted'[i]
    BY <2>1, <2>4
  <2>6. QED
    BY <2>2, <2>3, <2>4, <2>5 DEF SlotInv
<1>13. ConsumerInv'
  <2>1. Len(delivered) < T => Len(delivered) + 1 \in 1 .. P
    BY <1>3
  <2>2. QED
    BY <1>1, <1>2, <1>6, <1>8, <2>1 DEF ConsumerInv, T
<1>14. ProducerInv'
  BY <1>1, <1>2 DEF ProducerInv, TypeOK, Kind
<1>15. ObserverInv'
  BY <1>1, <1>2, <1>8 DEF ObserverInv
<1>16. QED
  BY <1>8, <1>9, <1>10, <1>11, <1>12, <1>13, <1>14, <1>15 DEF Inv, T

\* A pair is popped: its index waits in the consumer's buffer.
LEMMA PopStoreStep ==
  ASSUME Inv, PopStore
  PROVE  /\ Inv' /\ TailCount' = TailCount
         /\ Len(delivered) < TailCount
         /\ cons.out = accepted[Len(delivered) + 1]
<1> DEFINE D == Len(delivered)
           T == TailCount
           L == Len(cbuf)
<1>1. /\ TypeOK /\ CountInv /\ IndexInv /\ SlotInv /\ ConsumerInv /\ ProducerInv /\ ObserverInv
      /\ kind \in Kind
  BY DEF Inv, TypeOK
<1>2. /\ UNCHANGED <<kind, tail, head, entries, full, pbuf, drained, prod, obs, refused, calls, accepted>>
      /\ cbuf' = Append(cbuf, NextIndex(OwnHead)) /\ delivered' = Append(delivered, cons.out)
      /\ cons' = [pc |-> "idle", out |-> ZeroPair] /\ cons.pc = "store"
  BY DEF PopStore, memVars
<1>3. /\ D \in Nat /\ T \in Nat /\ L \in Nat /\ HeadCount \in Nat /\ HeadCount + L = D
      /\ D < T /\ T <= Len(accepted) /\ Len(accepted) \in Nat
  BY <1>1, <1>2, CountFacts DEF ConsumerInv
<1>4. cons.out = accepted[D + 1]
  <2>1. accepted[D + 1] \in Item
    BY <1>1, <1>3 DEF TypeOK
  <2>2. accepted[D + 1] = [key |-> accepted[D + 1].key, value |-> accepted[D + 1].value]
    BY <2>1, ItemAssumption
  <2>3. cons.out.key = accepted[D + 1].key /\ cons.out.value = accepted[D + 1].value
    BY <1>1, <1>2 DEF ConsumerInv
  <2>4. cons.out = [key |-> cons.out.key, value |-> cons.out.value]
    BY <1>1 DEF TypeOK, Torn
  <2>5. QED
    BY <2>2, <2>3, <2>4
<1>5. NextIndex(OwnHead) = (D + 1) % Modulus /\ NextIndex(OwnHead) \in Index
  BY <1>1, <1>3, OwnIndices, IndexOfCount
<1>6. /\ cbuf \in Seq(Index) /\ delivered \in Seq(Torn) /\ cons.out \in Torn
  BY <1>1 DEF TypeOK
<1>7. /\ cbuf' \in Seq(Index) /\ Len(cbuf') = L + 1
      /\ \A k \in 1 .. L : cbuf'[k] = cbuf[k]
      /\ cbuf'[L + 1] = (D + 1) % Modulus
  BY <1>2, <1>5, <1>6
<1>8. delivered' \in Seq(Torn) /\ Len(delivered') = D + 1
  BY <1>2, <1>6
<1>9. /\ TailCount' = T /\ HeadCount' = HeadCount
      /\ UNCHANGED <<Entries, Modulus, Room, Slot, Index>>
  BY <1>2, <1>3, <1>7, <1>8, KindKept DEF TailCount, HeadCount
<1> HIDE DEF D, T, L
<1>10. TypeOK'
  <2>1. ZeroPair \in Torn
    BY DEF Torn, Word, Pair, ZeroPair
  <2>2. cons' \in [pc : {"idle", "key", "value", "store"}, out : Torn]
    BY <1>2, <2>1
  <2>3. QED
    BY <1>1, <1>2, <1>7, <1>8, <1>9, <2>2 DEF TypeOK
<1>11. CountInv'
  BY <1>1, <1>2, <1>3, <1>8, <1>9 DEF CountInv
<1>12. IndexInv'
  <2>1. ASSUME NEW k \in 1 .. L + 1 PROVE cbuf'[k] = (HeadCount + k) % Modulus
    <3>1. CASE k \in 1 .. L
      BY <1>1, <1>7, <3>1 DEF IndexInv, L
    <3>2. CASE k = L + 1
      <4>1. HeadCount + k = D + 1
        BY <1>3, <3>2
      <4>2. QED
        BY <1>7, <3>2, <4>1
    <3>3. QED
      BY <1>3, <3>1, <3>2
  <2>2. \A k \in 1 .. Len(cbuf') : cbuf'[k] = (HeadCount' + k) % Modulus'
    BY <1>7, <1>9, <2>1
  <2>3. QED
    BY <1>1, <1>2, <1>9, <2>2 DEF IndexInv, T
<1>13. SlotInv'
  <2>1. D + 2 .. T \subseteq D + 1 .. T /\ (D + 1) + 1 = D + 2
    BY <1>3
  <2>2. \A i \in D + 1 .. T : entries[(i - 1) % Entries] = accepted[i]
    BY <1>1 DEF SlotInv, D, T
  <2>3. \A i \in Len(delivered') + 1 .. TailCount' : entries'[(i - 1) % Entries'] = accepted'[i]
    BY <1>2, <1>8, <1>9, <2>1, <2>2
  <2>4. QED
    BY <1>1, <1>2, <1>9, <2>3 DEF SlotInv, T
<1>14. ConsumerInv' /\ ProducerInv'
  BY <1>1, <1>2 DEF ConsumerInv, ProducerInv
<1>15. ObserverInv'
  BY <1>1, <1>2, <1>9 DEF ObserverInv
<1>16. QED
  BY <1>3, <1>4, <1>9, <1>10, <1>11, <1>12, <1>13, <1>14, <1>15 DEF Inv, T, D

\* The consumer's oldest index reaches memory.
LEMMA DrainConsumerStep ==
  ASSUME Inv, DrainConsumer
  PROVE  Inv' /\ TailCount' = TailCount
<1> DEFINE H == HeadCount
           L == Len(cbuf)
<1>1. /\ TypeOK /\ CountInv /\ IndexInv /\ SlotInv /\ ConsumerInv /\ ProducerInv /\ ObserverInv
      /\ kind \in Kind /\ cbuf \in Seq(Index) /\ cbuf # <<>>
  BY DEF Inv, TypeOK, DrainConsumer
<1>2. /\ UNCHANGED <<kind, tail, entries, full, pbuf, drained, prod, cons, obs, refused, calls, accepted,
                     delivered>>
      /\ head' = Head(cbuf) /\ cbuf' = Tail(cbuf)
  BY DEF DrainConsumer
<1>3. /\ H \in Nat /\ L \in Nat /\ L >= 1 /\ H + L = Len(delivered) /\ Len(delivered) \in Nat
      /\ Room \in Nat /\ Len(accepted) \in Nat /\ Len(accepted) <= H + Room
      /\ Entries \in Nat
  BY <1>1, CountFacts, SizeFacts
<1>4. /\ head' = cbuf[1] /\ cbuf' \in Seq(Index) /\ Len(cbuf') = L - 1
      /\ \A k \in 1 .. L - 1 : cbuf'[k] = cbuf[k + 1]
  BY <1>1, <1>2
<1>5. cbuf[1] \in Index /\ cbuf[1] = (H + 1) % Modulus
  BY <1>1, <1>3 DEF IndexInv
<1>6. /\ TailCount' = TailCount /\ HeadCount' = H + 1
      /\ UNCHANGED <<Entries, Modulus, Room, Slot, Index>>
  BY <1>2, <1>3, <1>4, KindKept DEF TailCount, HeadCount
<1> HIDE DEF H, L
<1>7. TypeOK'
  BY <1>1, <1>2, <1>4, <1>5, <1>6 DEF TypeOK
<1>8. CountInv'
  BY <1>1, <1>2, <1>3, <1>6 DEF CountInv
<1>9. IndexInv'
  <2>1. ASSUME NEW k \in 1 .. L - 1 PROVE cbuf'[k] = (H + 1 + k) % Modulus
    <3>1. k + 1 \in 1 .. L /\ H + (k + 1) = H + 1 + k
      BY <1>3
    <3>2. cbuf[k + 1] = (H + (k + 1)) % Modulus
      BY <1>1, <3>1 DEF IndexInv, H, L
    <3>3. QED
      BY <1>4, <3>1, <3>2
  <2>2. \A k \in 1 .. Len(cbuf') : cbuf'[k] = (HeadCount' + k) % Modulus'
    BY <1>4, <1>6, <2>1
  <2>3. head' = HeadCount' % Modulus'
    BY <1>4, <1>5, <1>6
  <2>4. QED
    BY <1>1, <1>2, <1>6, <2>2, <2>3 DEF IndexInv
<1>10. SlotInv' /\ ConsumerInv' /\ ProducerInv'
  BY <1>1, <1>2, <1>6 DEF SlotInv, ConsumerInv, ProducerInv
<1>11. ObserverInv'
  <2>1. obs.put \in Nat /\ (obs.put - H <= Entries => obs.put - (H + 1) <= Entries)
    BY <1>1, <1>3 DEF ObserverInv
  <2>2. QED
    BY <1>1, <1>2, <1>6, <2>1 DEF ObserverInv, H
<1>12. QED
  BY <1>6, <1>7, <1>8, <1>9, <1>10, <1>11 DEF Inv

\* A word of the producer's oldest pair reaches memory: the slot is not one the
\* consumer may read, since fewer pairs than the ring has slots are in between.
LEMMA DrainWordStep ==
  ASSUME Inv, DrainProducer, drained # 2
  PROVE  /\ Inv' /\ TailCount' = TailCount
         /\ UNCHANGED <<accepted, delivered>>
<1> DEFINE T == TailCount
           D == Len(delivered)
           a == T % Entries
           x == accepted[T + 1]
           loc == StoreOrder[drained + 1]
<1>1. /\ TypeOK /\ CountInv /\ IndexInv /\ SlotInv /\ ConsumerInv /\ ProducerInv /\ ObserverInv
      /\ kind \in Kind /\ pbuf # <<>> /\ drained \in {0, 1}
      /\ pbuf \in Seq([at : Slot, item : Item, next : Index])
  BY DEF Inv, TypeOK, DrainProducer
<1>2. /\ T \in Nat /\ D \in Nat /\ D <= T /\ T < D + Entries /\ Entries \in Nat
      /\ T + 1 \in 1 .. Len(accepted) /\ Len(pbuf) \in Nat /\ Len(pbuf) >= 1
  <2>1. Len(pbuf) \in Nat /\ Len(pbuf) >= 1
    BY <1>1
  <2>2. QED
    BY <1>1, <2>1, CountFacts, SizeFacts
<1>3. Head(pbuf).at = a /\ Head(pbuf).item = x /\ a \in Slot /\ x \in Item
  <2>1. Head(pbuf) = pbuf[1] /\ 1 \in 1 .. Len(pbuf) /\ T + 1 - 1 = T
    BY <1>1, <1>2
  <2>2. pbuf[1].at = a /\ pbuf[1].item = x
    BY <1>1, <2>1 DEF IndexInv
  <2>3. a \in Slot
    BY <1>1, <1>2, IndexOfCount
  <2>4. x \in Item
    <3>1. accepted \in Seq(Item)
      BY <1>1 DEF TypeOK
    <3>2. QED
      BY <1>2, <3>1
  <2>5. QED
    BY <2>1, <2>2, <2>3, <2>4
<1>4. loc = IF drained = 0 THEN "key" ELSE "value"
  BY <1>1 DEF StoreOrder
<1>5. /\ UNCHANGED <<kind, tail, head, full, pbuf, cbuf, prod, cons, obs, refused, calls, accepted, delivered>>
      /\ entries' = [entries EXCEPT ![a][loc] = x[loc]]
      /\ drained' = drained + 1
  <2>1. (drained + 1) % 3 = drained + 1
    BY <1>1
  <2>2. loc # "tail"
    BY <1>4
  <2> HIDE DEF loc, a, x
  <2>3. /\ UNCHANGED <<kind, tail, head, full, pbuf, cbuf, prod, cons, obs, refused, calls, accepted,
                       delivered>>
        /\ entries' = [entries EXCEPT ![Head(pbuf).at][loc] = Head(pbuf).item[loc]]
    BY <2>2 DEF DrainProducer, loc
  <2>4. QED
    BY <1>3, <2>1, <2>3 DEF DrainProducer
<1>6. /\ UNCHANGED <<TailCount, HeadCount, Entries, Modulus, Room, Slot, Index>>
  BY <1>5, KindKept DEF TailCount, HeadCount
<1> HIDE DEF T, D, a, x, loc
<1>7. /\ entries \in [Slot -> Torn] /\ x.key \in Word /\ x.value \in Word
  BY <1>1, <1>3 DEF TypeOK, Word, Pair
<1>8. /\ entries' \in [Slot -> Torn]
      /\ \A i \in Slot : i # a => entries'[i] = entries[i]
      /\ drained = 0 => entries'[a].key = x.key
      /\ drained = 1 => entries'[a].value = x.value /\ entries'[a].key = entries[a].key
  <2>1. CASE drained = 0
    <3>1. entries' = [entries EXCEPT ![a].key = x.key]
      BY <1>4, <1>5, <2>1
    <3>2. [entries[a] EXCEPT !.key = x.key] \in Torn
      BY <1>3, <1>7 DEF Torn
    <3>3. [entries[a] EXCEPT !.key = x.key].key = x.key
      BY <1>3, <1>7 DEF Torn
    <3>4. QED
      BY <1>3, <1>7, <2>1, <3>1, <3>2, <3>3
  <2>2. CASE drained = 1
    <3>1. entries' = [entries EXCEPT ![a].value = x.value]
      BY <1>4, <1>5, <2>2
    <3>2. [entries[a] EXCEPT !.value = x.value] \in Torn
      BY <1>3, <1>7 DEF Torn
    <3>3. /\ [entries[a] EXCEPT !.value = x.value].value = x.value
          /\ [entries[a] EXCEPT !.value = x.value].key = entries[a].key
      BY <1>3, <1>7 DEF Torn
    <3>4. QED
      BY <1>3, <1>7, <2>2, <3>1, <3>2, <3>3
  <2>3. QED
    BY <1>1, <2>1, <2>2
<1>9. TypeOK'
  <2>1. drained' \in 0 .. 2
    BY <1>1, <1>5
  <2>2. QED
    BY <1>1, <1>5, <1>6, <1>8, <2>1 DEF TypeOK
<1>10. CountInv' /\ IndexInv'
  BY <1>1, <1>5, <1>6 DEF CountInv, IndexInv
<1>11. SlotInv'
  <2>1. ASSUME NEW i \in D + 1 .. T PROVE entries'[(i - 1) % Entries] = accepted[i]
    <3>1. i - 1 \in Nat /\ i - 1 < T /\ T < (i - 1) + Entries
      BY <1>2
    <3>2. (i - 1) % Entries # a /\ (i - 1) % Entries \in Slot
      BY <1>1, <1>2, <3>1, SlotsApart, IndexOfCount DEF a
    <3>3. QED
      BY <1>1, <1>8, <3>2 DEF SlotInv, D, T
  <2>2. entries'[a].key = x.key
    <3>1. CASE drained = 1
      <4>1. drained > 0
        BY <3>1
      <4>2. entries[a].key = x.key
        BY <1>1, <4>1 DEF SlotInv, a, x, T
      <4>3. QED
        BY <1>8, <3>1, <4>2
    <3>2. QED
      BY <1>1, <1>8, <3>1
  <2>3. drained' = 2 => entries'[a].value = x.value
    BY <1>1, <1>5, <1>8
  <2>4. \A i \in Len(delivered') + 1 .. TailCount' : entries'[(i - 1) % Entries'] = accepted'[i]
    BY <1>5, <1>6, <2>1 DEF D, T
  <2>5. /\ entries'[TailCount' % Entries'].key = accepted'[TailCount' + 1].key
        /\ drained' = 2 => entries'[TailCount' % Entries'].value = accepted'[TailCount' + 1].value
    BY <1>5, <1>6, <2>2, <2>3 DEF a, x, T
  <2>6. QED
    BY <1>1, <1>5, <2>4, <2>5 DEF SlotInv
<1>12. ConsumerInv' /\ ProducerInv' /\ ObserverInv'
  BY <1>1, <1>5, <1>6 DEF ConsumerInv, ProducerInv, ObserverInv
<1>13. QED
  BY <1>5, <1>6, <1>9, <1>10, <1>11, <1>12 DEF Inv

\* The index of the producer's oldest pair reaches memory: the pair is visible,
\* and both its words are there already.
LEMMA DrainIndexStep ==
  ASSUME Inv, DrainProducer, drained = 2
  PROVE  /\ Inv' /\ TailCount' = TailCount + 1 /\ TailCount < Len(accepted)
         /\ UNCHANGED <<accepted, delivered>>
<1> DEFINE T == TailCount
           D == Len(delivered)
           L == Len(pbuf)
           x == accepted[T + 1]
<1>1. /\ TypeOK /\ CountInv /\ IndexInv /\ SlotInv /\ ConsumerInv /\ ProducerInv /\ ObserverInv
      /\ kind \in Kind /\ pbuf # <<>>
      /\ pbuf \in Seq([at : Slot, item : Item, next : Index])
  BY DEF Inv, TypeOK, DrainProducer
<1>2. /\ T \in Nat /\ D \in Nat /\ D <= T /\ L \in Nat /\ L >= 1 /\ T + L = Len(accepted)
      /\ Len(accepted) \in Nat /\ T + 1 \in 1 .. Len(accepted)
  <2>1. L \in Nat /\ L >= 1
    BY <1>1
  <2>2. QED
    BY <1>1, <2>1, CountFacts
<1>3. /\ UNCHANGED <<kind, head, full, entries, cbuf, prod, cons, obs, refused, calls, accepted, delivered>>
      /\ tail' = Head(pbuf).next /\ pbuf' = Tail(pbuf) /\ drained' = 0
  <2>1. StoreOrder[drained + 1] = "tail" /\ (drained + 1) % 3 = 0
    BY DEF StoreOrder
  <2>2. QED
    BY <2>1 DEF DrainProducer
<1>4. /\ tail' = pbuf[1].next /\ Len(pbuf') = L - 1
      /\ pbuf' \in Seq([at : Slot, item : Item, next : Index])
      /\ \A k \in 1 .. L - 1 : pbuf'[k] = pbuf[k + 1]
  BY <1>1, <1>3
<1>5. tail' = (T + 1) % Modulus /\ tail' \in Index
  <2>1. 1 \in 1 .. L
    BY <1>2
  <2>2. pbuf[1].next = (T + 1) % Modulus
    BY <1>1, <2>1 DEF IndexInv
  <2>3. QED
    BY <1>1, <1>2, <1>4, <2>2, IndexOfCount
<1>6. /\ TailCount' = T + 1 /\ HeadCount' = HeadCount
      /\ UNCHANGED <<Entries, Modulus, Room, Slot, Index>>
  BY <1>2, <1>3, <1>4, KindKept DEF TailCount, HeadCount
<1>7. entries[T % Entries] = x
  <2>1. x \in Item
    BY <1>1, <1>2 DEF TypeOK
  <2>2. x = [key |-> x.key, value |-> x.value]
    BY <2>1, ItemAssumption
  <2>3. drained > 0
    OBVIOUS
  <2>4. entries[T % Entries].key = x.key /\ entries[T % Entries].value = x.value
    BY <1>1, <2>3 DEF SlotInv
  <2>5. T % Entries \in Slot
    BY <1>1, <1>2, IndexOfCount
  <2>6. entries[T % Entries] \in Torn
    BY <1>1, <2>5 DEF TypeOK
  <2>7. entries[T % Entries] = [key |-> entries[T % Entries].key, value |-> entries[T % Entries].value]
    BY <2>6 DEF Torn
  <2> HIDE DEF x, T
  <2>8. QED
    BY <2>2, <2>4, <2>7
<1> HIDE DEF T, D, L, x
<1>8. TypeOK'
  BY <1>1, <1>3, <1>4, <1>5, <1>6 DEF TypeOK
<1>9. CountInv'
  <2>1. Len(delivered') <= TailCount'
    BY <1>2, <1>3, <1>6 DEF D
  <2>2. QED
    BY <1>1, <1>3, <1>6, <2>1 DEF CountInv
<1>10. IndexInv'
  <2>1. ASSUME NEW k \in 1 .. L - 1
        PROVE  /\ pbuf'[k].at = ((T + 1) + k - 1) % Entries
               /\ pbuf'[k].item = accepted[(T + 1) + k]
               /\ pbuf'[k].next = ((T + 1) + k) % Modulus
    <3>1. /\ k + 1 \in 1 .. L /\ T + (k + 1) = (T + 1) + k
          /\ T + (k + 1) - 1 = (T + 1) + k - 1
      BY <1>2
    <3>2. /\ pbuf[k + 1].at = (T + (k + 1) - 1) % Entries
          /\ pbuf[k + 1].item = accepted[T + (k + 1)]
          /\ pbuf[k + 1].next = (T + (k + 1)) % Modulus
      BY <1>1, <3>1 DEF IndexInv, T, L
    <3>3. QED
      BY <1>4, <3>1, <3>2
  <2>2. \A k \in 1 .. Len(pbuf') :
          /\ pbuf'[k].at = (TailCount' + k - 1) % Entries'
          /\ pbuf'[k].item = accepted'[TailCount' + k]
          /\ pbuf'[k].next = (TailCount' + k) % Modulus'
    BY <1>3, <1>4, <1>6, <2>1
  <2>3. QED
    BY <1>1, <1>3, <1>5, <1>6, <2>2 DEF IndexInv
<1>11. SlotInv'
  <2>1. ASSUME NEW i \in D + 1 .. T + 1 PROVE entries[(i - 1) % Entries] = accepted[i]
    <3>1. CASE i \in D + 1 .. T
      BY <1>1, <3>1 DEF SlotInv, D, T
    <3>2. CASE i = T + 1
      <4>1. i - 1 = T
        BY <1>2, <3>2
      <4>2. QED
        BY <1>7, <3>2, <4>1 DEF x
    <3>3. QED
      BY <1>2, <3>1, <3>2
  <2>2. \A i \in Len(delivered') + 1 .. TailCount' : entries'[(i - 1) % Entries'] = accepted'[i]
    BY <1>3, <1>6, <2>1 DEF D
  <2>3. QED
    BY <1>3, <2>2 DEF SlotInv
<1>12. ConsumerInv'
  <2>1. D < T => D < T + 1
    BY <1>2
  <2>2. QED
    BY <1>1, <1>3, <1>6, <2>1 DEF ConsumerInv, D, T
<1>13. ProducerInv' /\ ObserverInv'
  BY <1>1, <1>3, <1>6 DEF ProducerInv, ObserverInv
<1>14. QED
  BY <1>2, <1>3, <1>6, <1>8, <1>9, <1>10, <1>11, <1>12, <1>13 DEF Inv, T
----------------------------------------------------------------------------
(* The invariant *)

LEMMA InitInv == Init => Inv
<1> SUFFICES ASSUME Init PROVE Inv
  OBVIOUS
<1>1. /\ kind \in Kind /\ tail = 0 /\ head = 0 /\ full = FALSE
      /\ entries = [i \in Slot |-> ZeroPair]
  BY DEF Init, ds_ck_ring_spsc_init, ds_io_uring_init, Empty, Kind, Slot, Entries
<1>2. /\ pbuf = <<>> /\ cbuf = <<>> /\ drained = 0 /\ accepted = <<>> /\ delivered = <<>>
      /\ prod = [pc |-> "idle", item |-> ZeroPair] /\ cons = [pc |-> "idle", out |-> ZeroPair]
      /\ obs = [pc |-> "idle", producer |-> 0, put |-> 0, consumer |-> 0, taken |-> 0]
      /\ refused = FALSE /\ calls = 0
  BY DEF Init, IdleObserver
<1>3. /\ Modulus \in Nat /\ Modulus > 0 /\ Room \in Nat
      /\ TailCount = 0 /\ HeadCount = 0
  BY <1>1, <1>2, SizeFacts DEF TailCount, HeadCount
<1>4. 0 % Modulus = 0 /\ 0 \in Index
  <2>1. 0 \in 0 .. Modulus - 1
    BY <1>3
  <2>2. 0 % Modulus = 0
    BY <1>3, <2>1, FirstLap
  <2>3. QED
    BY <2>1, <2>2 DEF Index
<1>5. ZeroPair \in Torn /\ ZeroPair \in Pair
  BY DEF Torn, Word, Pair, ZeroPair
<1>6. TypeOK
  <2>1. entries \in [Slot -> Torn]
    BY <1>1, <1>5
  <2>2. /\ prod \in [pc : {"idle", "check", "raise", "clear"}, item : Pair]
        /\ cons \in [pc : {"idle", "key", "value", "store"}, out : Torn]
    BY <1>2, <1>5
  <2>3. obs \in [pc : {"idle", "second", "done"}, producer : Index, put : Int,
                consumer : Index, taken : Int]
    BY <1>2, <1>4
  <2>4. /\ pbuf \in Seq([at : Slot, item : Item, next : Index]) /\ cbuf \in Seq(Index)
        /\ accepted \in Seq(Item) /\ delivered \in Seq(Torn)
    BY <1>2
  <2>5. drained \in 0 .. 2 /\ calls \in 0 .. MaxInserts
    BY <1>2, MaxInsertsAssumption
  <2>6. QED
    BY <1>1, <1>2, <1>4, <2>1, <2>2, <2>3, <2>4, <2>5 DEF TypeOK
<1>7. CountInv
  BY <1>2, <1>3 DEF CountInv
<1>8. IndexInv
  BY <1>1, <1>2, <1>3, <1>4 DEF IndexInv
<1>9. SlotInv /\ ConsumerInv
  BY <1>2, <1>3 DEF SlotInv, ConsumerInv
<1>10. ProducerInv /\ ObserverInv
  BY <1>1, <1>2 DEF ProducerInv, ObserverInv
<1>11. QED
  BY <1>6, <1>7, <1>8, <1>9, <1>10 DEF Inv

LEMMA StutterKeepsInv == ASSUME Inv, UNCHANGED vars PROVE Inv' /\ UNCHANGED ringVars
<1>1. UNCHANGED ringVars /\ UNCHANGED <<cons, obs, prod, full, refused, calls>>
  BY DEF vars, memVars, bufVars, ringVars
<1>2. TypeOK'
  BY <1>1 DEF Inv, TypeOK, ringVars, Slot, Entries, Index, Modulus
<1>3. QED
  BY <1>1, <1>2, RingKept, OthersKept DEF Inv, RingInv

\* The steps of Next, by what they do to the ring.
LEMMA StepCases ==
  ASSUME Next
  PROVE  \/ (\E x \in Item : InsertBegin(x)) \/ InsertRefused \/ RaiseFull \/ ClearFull
         \/ InsertStores
         \/ PopFound \/ PopKey \/ PopValue
         \/ PopStore
         \/ DrainProducer \/ DrainConsumer
         \/ VerifyFirst \/ VerifySecond
  BY DEF Next, ds_ck_ring_spsc_insert, ds_ck_ring_spsc_delete, ds_io_uring_insert, ds_io_uring_pop,
         InsertEnd, Pop

LEMMA InvInductive == Spec => []Inv
<1>1. Inv /\ [Next]_vars => Inv'
  <2> SUFFICES ASSUME Inv, [Next]_vars PROVE Inv'
    OBVIOUS
  <2>1. CASE UNCHANGED vars
    BY <2>1, StutterKeepsInv
  <2>2. CASE DrainProducer
    BY <2>2, DrainWordStep, DrainIndexStep
  <2>3. CASE Next
    BY <2>2, <2>3, StepCases, ProducerStep, InsertStoresStep, ConsumerStep, PopStoreStep,
       DrainConsumerStep, ObserverStep
  <2>4. QED
    BY <2>1, <2>3
<1>2. QED
  BY <1>1, InitInv, PTL DEF Spec

\* Every variable keeps its type: neither an index nor a slot address leaves its
\* range, in ds_ck_ring_spsc_* and ds_io_uring_*, whatever the buffers delay.
THEOREM TypeCorrect == Spec => []TypeOK
  BY InvInductive, PTL DEF Inv
----------------------------------------------------------------------------
(* The properties *)

\* What the consumer may read are the accepted pairs between the two counts.
LEMMA ContentsOfRing ==
  ASSUME Inv
  PROVE  /\ Contents = [k \in 1 .. TailCount - Len(delivered) |-> accepted[Len(delivered) + k]]
         /\ Contents \in Seq(Item) /\ Len(Contents) = TailCount - Len(delivered)
         /\ \A j \in 1 .. TailCount - Len(delivered) :
              (OwnHead + j - 1) % Entries = (Len(delivered) + j - 1) % Entries
<1> DEFINE T == TailCount
           D == Len(delivered)
<1>1. /\ T \in Nat /\ D \in Nat /\ D <= T /\ T <= D + Room /\ kind \in Kind
      /\ T <= Len(accepted) /\ Len(accepted) \in Nat
      /\ Modulus \in Nat /\ Modulus > 0 /\ Room \in Nat /\ Room < Modulus
      /\ Entries \in Nat /\ Entries > 0 /\ Modulus % Entries = 0
  BY CountFacts, SizeFacts DEF Inv
<1>2. OwnHead = D % Modulus /\ tail = T % Modulus /\ accepted \in Seq(Item)
  BY OwnIndices DEF Inv, IndexInv, TypeOK
<1>3. Distance(tail, OwnHead) = T - D
  BY <1>1, <1>2, DistanceOfCounts
<1> HIDE DEF T, D
<1>4. ASSUME NEW j \in 1 .. T - D PROVE (OwnHead + j - 1) % Entries = (D + j - 1) % Entries
  <2> DEFINE w == D % Modulus
             i == j - 1
  <2>1. w \in Int /\ w % Entries = D % Entries
    <3>1. w \in Int
      BY <1>1, DivMod
    <3>2. (D % Modulus) % Entries = D % Entries
      BY <1>1, CellOfCell
    <3>3. QED
      BY <3>1, <3>2
  <2>2. OwnHead = w /\ w + i = w + j - 1 /\ D + i = D + j - 1
    BY <1>1, <1>2, <2>1
  <2>3. i \in Int
    BY <1>1
  <2> HIDE DEF w, i
  <2>4. D \in Int
    BY <1>1
  <2>5. (w + i) % Entries = (D + i) % Entries
    BY <1>1, <2>1, <2>3, <2>4, SumOfCells
  <2>6. QED
    BY <2>2, <2>5
<1>5. ASSUME NEW j \in 1 .. T - D PROVE entries[(OwnHead + j - 1) % Entries] = accepted[D + j]
  <2>1. D + j \in D + 1 .. T /\ (D + j) - 1 = D + j - 1
    BY <1>1
  <2>2. entries[((D + j) - 1) % Entries] = accepted[D + j]
    BY <2>1 DEF Inv, SlotInv, D, T
  <2>3. QED
    BY <1>4, <2>1, <2>2
<1>6. Contents = [k \in 1 .. T - D |-> accepted[D + k]]
  BY <1>3, <1>5 DEF Contents
<1>7. \A k \in 1 .. T - D : accepted[D + k] \in Item
  <2>1. \A k \in 1 .. T - D : D + k \in 1 .. Len(accepted)
    BY <1>1
  <2>2. QED
    BY <1>2, <2>1
<1>8. T - D \in Nat
  BY <1>1
<1>9. Contents \in Seq(Item) /\ Len(Contents) = T - D
  BY <1>6, <1>7, <1>8
<1>10. QED
  BY <1>4, <1>6, <1>9 DEF T, D

\* No pair on its way to memory aims at a slot the consumer may still read: the
\* free-room tests of both inserts suffice although they look at an index that the
\* consumer's buffer may hold back.
THEOREM SlotsStayPrivate == Spec => []SlotPrivate
<1>1. Inv => SlotPrivate
  <2> SUFFICES ASSUME Inv PROVE SlotPrivate
    OBVIOUS
  <2> DEFINE T == TailCount
             D == Len(delivered)
  <2>1. /\ T \in Nat /\ D \in Nat /\ D <= T /\ kind \in Kind /\ Len(pbuf) \in Nat
        /\ T + Len(pbuf) <= D + Entries /\ Entries \in Nat
    <3>1. /\ T + Len(pbuf) = Len(accepted) /\ Len(accepted) <= HeadCount + Room
          /\ HeadCount <= D /\ HeadCount \in Nat /\ D \in Nat /\ kind \in Kind
          /\ T \in Nat /\ D <= T /\ Len(pbuf) \in Nat
      BY CountFacts DEF Inv
    <3>2. Room <= Entries /\ Room \in Nat /\ Entries \in Nat
      BY <3>1, SizeFacts
    <3> HIDE DEF T, D
    <3>3. QED
      BY <3>1, <3>2
  <2>2. TypeOK /\ IndexInv /\ DOMAIN pbuf = 1 .. Len(pbuf) /\ Len(Contents) = T - D
    BY ContentsOfRing DEF Inv, TypeOK
  <2>3. ASSUME NEW k \in 1 .. Len(pbuf), NEW j \in 1 .. T - D
        PROVE  pbuf[k].at # (OwnHead + j - 1) % Entries
    <3>1. pbuf[k].at = (T + k - 1) % Entries
      BY <2>2 DEF IndexInv
    <3>2. (OwnHead + j - 1) % Entries = (D + j - 1) % Entries
      BY ContentsOfRing
    <3> HIDE DEF T, D
    <3>3. /\ D + j - 1 \in Nat /\ T + k - 1 \in Nat /\ D + j - 1 < T + k - 1
          /\ T + k - 1 < (D + j - 1) + Entries
      BY <2>1
    <3>4. (D + j - 1) % Entries # (T + k - 1) % Entries
      BY <2>1, <3>3, SlotsApart
    <3>5. QED
      BY <3>1, <3>2, <3>4
  <2>4. QED
    BY <2>2, <2>3 DEF SlotPrivate
<1>2. QED
  BY <1>1, InvInductive, PTL

\* sq_flags tells of the last insert, and the verdicts of ds_ck_ring_spsc_verify,
\* ds_ck_ring_spsc_size and ds_io_uring_verify mean what the property says, at
\* every index width and however far the two loads are apart.
THEOREM VerdictsMeanIt == Spec => []VerdictsSound
<1>1. Inv => VerdictsSound
  <2> SUFFICES ASSUME Inv PROVE VerdictsSound
    OBVIOUS
  <2>1. /\ kind \in Kind /\ obs.put \in Nat /\ obs.taken \in Nat /\ ObserverInv /\ ProducerInv
    BY DEF Inv, TypeOK, ObserverInv
  <2>2. /\ Entries \in Nat /\ Entries > 0 /\ Modulus \in Nat /\ Modulus > 0
        /\ Room <= Entries /\ Room < Modulus /\ Room \in Nat
    BY <2>1, SizeFacts
  <2>3. kind = "io_uring" /\ prod.pc = "idle" => full = refused
    BY <2>1 DEF ProducerInv
  <2>4. ASSUME obs.pc = "done", kind = "ck"
        PROVE  /\ ~ds_ck_ring_spsc_verify(obs.producer, obs.consumer)
               /\ obs.put - obs.taken \in Slot =>
                    Distance(obs.producer, obs.consumer) = obs.put - obs.taken
    <3>1. obs.producer = obs.put % Modulus /\ obs.consumer = obs.taken % Modulus /\ Modulus = Entries
      BY <2>1, <2>4 DEF ObserverInv, Modulus
    <3>2. obs.producer \in Slot /\ obs.consumer \in Slot
      BY <2>1, <2>2, <3>1, DivMod DEF Slot
    <3>3. Distance(obs.producer, obs.consumer) \in 0 .. Entries - 1
      <4>1. obs.producer - obs.consumer \in Int
        BY <2>2, <3>2 DEF Slot
      <4>2. QED
        BY <2>2, <3>1, <4>1, DivMod DEF Distance
    <3>4. ~(Distance(obs.producer, obs.consumer) > Entries - 1)
      BY <2>2, <3>3
    <3>5. obs.put - obs.taken \in Slot => Distance(obs.producer, obs.consumer) = obs.put - obs.taken
      BY <2>1, <3>1, DistanceOfCounts DEF Slot
    <3>6. QED
      BY <3>2, <3>4, <3>5 DEF ds_ck_ring_spsc_verify
  <2>5. ASSUME obs.pc = "done", kind = "io_uring", obs.taken <= obs.put
        PROVE  ~ds_io_uring_verify(obs.producer, obs.consumer)
    <3>1. /\ obs.producer = obs.put % Modulus /\ obs.consumer = obs.taken % Modulus
          /\ obs.put - obs.taken <= Entries /\ Room = Entries
      BY <2>1, <2>5 DEF ObserverInv, Room
    <3>2. obs.put - obs.taken \in 0 .. Modulus - 1
      BY <2>1, <2>2, <2>5, <3>1
    <3>3. Distance(obs.producer, obs.consumer) = obs.put - obs.taken
      BY <2>1, <3>1, <3>2, DistanceOfCounts
    <3>4. QED
      BY <2>1, <2>2, <3>1, <3>3 DEF ds_io_uring_verify
  <2>6. obs.taken > obs.put \/ obs.taken <= obs.put
    BY <2>1
  <2>7. QED
    BY <2>3, <2>4, <2>5, <2>6 DEF VerdictsSound
<1>2. QED
  BY <1>1, InvInductive, PTL
----------------------------------------------------------------------------
(* Refinement *)

\* A window of the accepted pairs, between two counts.
Window(s, d, t) == [k \in 1 .. t - d |-> s[d + k]]

\* One more pair becomes visible, or the oldest one goes.
LEMMA WindowMoves ==
  ASSUME NEW s \in Seq(Item), NEW d \in Nat, NEW t \in Nat, d <= t, t <= Len(s)
  PROVE  /\ t < Len(s) => Window(s, d, t + 1) = Append(Window(s, d, t), s[t + 1])
         /\ d < t => /\ Window(s, d, t) # <<>>
                     /\ Head(Window(s, d, t)) = s[d + 1]
                     /\ Window(s, d + 1, t) = Tail(Window(s, d, t))
<1>1. \A k \in 1 .. t - d : d + k \in 1 .. Len(s)
  OBVIOUS
<1>2. Window(s, d, t) \in [1 .. t - d -> Item] /\ t - d \in Nat
  BY <1>1 DEF Window
<1>3. Window(s, d, t) \in Seq(Item) /\ Len(Window(s, d, t)) = t - d
  BY <1>2
<1>4. ASSUME t < Len(s) PROVE Window(s, d, t + 1) = Append(Window(s, d, t), s[t + 1])
  <2> DEFINE A == Append(Window(s, d, t), s[t + 1])
             B == Window(s, d, t + 1)
  <2>1. s[t + 1] \in Item
    BY <1>4
  <2>2. /\ A \in Seq(Item) /\ Len(A) = t - d + 1
        /\ \A k \in 1 .. t - d : A[k] = Window(s, d, t)[k]
        /\ A[t - d + 1] = s[t + 1]
    <3> DEFINE W == Window(s, d, t)
    <3>1. W \in Seq(Item) /\ Len(W) = t - d
      BY <1>3
    <3> HIDE DEF W
    <3>2. /\ Append(W, s[t + 1]) \in Seq(Item) /\ Len(Append(W, s[t + 1])) = t - d + 1
          /\ \A k \in 1 .. t - d : Append(W, s[t + 1])[k] = W[k]
          /\ Append(W, s[t + 1])[t - d + 1] = s[t + 1]
      BY <2>1, <3>1
    <3>3. QED
      BY <3>2 DEF W
  <2>3. \A k \in 1 .. t + 1 - d : d + k \in 1 .. Len(s)
    BY <1>4
  <2>4. B \in [1 .. t + 1 - d -> Item] /\ t + 1 - d \in Nat
    <3>1. B = [k \in 1 .. t + 1 - d |-> s[d + k]]
      BY DEF Window
    <3>2. \A k \in 1 .. Len(s) : s[k] \in Item
      OBVIOUS
    <3> HIDE DEF B
    <3>3. \A k \in 1 .. t + 1 - d : s[d + k] \in Item
      BY <2>3, <3>2, Zenon
    <3>4. B \in [1 .. t + 1 - d -> Item]
      BY <3>1, <3>3, Zenon
    <3>5. QED
      BY <3>4
  <2>5. B \in Seq(Item) /\ Len(B) = t - d + 1
    BY <2>4
  <2>6. ASSUME NEW k \in 1 .. t - d + 1 PROVE A[k] = B[k]
    <3>1. B[k] = s[d + k]
      <4>1. k \in 1 .. t + 1 - d
        OBVIOUS
      <4>2. QED
        BY <4>1 DEF Window
    <3>2. CASE k \in 1 .. t - d
      <4>1. A[k] = Window(s, d, t)[k]
        BY <2>2, <3>2
      <4>2. QED
        BY <3>1, <3>2, <4>1 DEF Window
    <3>3. CASE k = t - d + 1
      <4>1. A[k] = s[t + 1] /\ d + k = t + 1
        BY <2>2, <3>3
      <4>2. QED
        BY <3>1, <4>1
    <3>4. k \in 1 .. t - d \/ k = t - d + 1
      OBVIOUS
    <3>5. QED
      BY <3>2, <3>3, <3>4
  <2> HIDE DEF A, B
  <2>7. A = B
    BY <2>2, <2>5, <2>6, SeqEqual
  <2>8. QED
    BY <2>7 DEF A, B
<1>5. ASSUME d < t
      PROVE  /\ Window(s, d, t) # <<>> /\ Head(Window(s, d, t)) = s[d + 1]
             /\ Window(s, d + 1, t) = Tail(Window(s, d, t))
  <2> DEFINE W == Window(s, d, t)
             A == Tail(Window(s, d, t))
             B == Window(s, d + 1, t)
  <2>1. W \in Seq(Item) /\ Len(W) = t - d /\ \A k \in 1 .. t - d : W[k] = s[d + k]
    BY <1>3 DEF Window
  <2>2. \A k \in 1 .. t - (d + 1) : (d + 1) + k \in 1 .. Len(s)
    BY <1>5
  <2>3. B \in [1 .. t - (d + 1) -> Item] /\ t - (d + 1) \in Nat
    BY <1>5, <2>2 DEF Window
  <2>4. B \in Seq(Item) /\ Len(B) = t - d - 1 /\ \A k \in 1 .. t - d - 1 : B[k] = s[(d + 1) + k]
    BY <2>3 DEF Window
  <2> HIDE DEF W
  <2>5. W # <<>> /\ Head(W) = s[d + 1]
    BY <1>5, <2>1
  <2>6. /\ Tail(W) \in Seq(Item) /\ Len(Tail(W)) = t - d - 1
        /\ \A k \in 1 .. t - d - 1 : Tail(W)[k] = W[k + 1]
    BY <1>5, <2>1, <2>5
  <2>7. \A k \in 1 .. t - d - 1 : k + 1 \in 1 .. t - d /\ d + (k + 1) = (d + 1) + k
    BY <1>5
  <2>8. \A k \in 1 .. t - d - 1 : Tail(W)[k] = B[k]
    BY <2>1, <2>4, <2>6, <2>7
  <2> HIDE DEF B
  <2>9. Tail(W) = B
    BY <2>4, <2>6, <2>8, SeqEqual
  <2>10. QED
    BY <2>5, <2>9 DEF W, B
<1>6. QED
  BY <1>4, <1>5

VisibleWindow == Contents = Window(accepted, Len(delivered), TailCount)

\* The queue of whichever ring it is takes a step.
QueueStep == IF kind = "ck" THEN CkQueue!Next ELSE UringQueue!Next

\* A pair becomes visible while the abstract queue has room.
LEMMA DrainIndexInserts ==
  ASSUME Inv, VisibleWindow, VisibleWindow', DrainProducer, drained = 2
  PROVE  QueueStep
<1> DEFINE T == TailCount
           D == Len(delivered)
           x == accepted[T + 1]
<1>1. TailCount' = T + 1 /\ T < Len(accepted) /\ UNCHANGED <<accepted, delivered>>
  BY DrainIndexStep
<1>2. /\ T \in Nat /\ D \in Nat /\ D <= T /\ T <= Len(accepted) /\ accepted \in Seq(Item)
      /\ Len(accepted) <= D + Room /\ Room \in Nat /\ Len(accepted) \in Nat
  <2>1. /\ T \in Nat /\ D \in Nat /\ D <= T /\ T <= Len(accepted) /\ accepted \in Seq(Item)
        /\ Len(accepted) <= HeadCount + Room /\ HeadCount <= D /\ HeadCount \in Nat
        /\ Len(accepted) \in Nat /\ kind \in Kind
    BY CountFacts DEF Inv, TypeOK
  <2>2. Room \in Nat
    BY <2>1, SizeFacts
  <2> HIDE DEF T, D
  <2>3. QED
    BY <2>1, <2>2
<1>3. x \in Item
  BY <1>1, <1>2
<1>4. Len(Contents) < Room
  <2>1. Len(Contents) = T - D
    BY ContentsOfRing
  <2> HIDE DEF T, D
  <2>2. QED
    BY <1>1, <1>2, <2>1
<1>5. Contents' = Append(Contents, x)
  <2>1. Contents' = Window(accepted, D, T + 1)
    BY <1>1 DEF VisibleWindow
  <2>2. Contents = Window(accepted, D, T)
    BY DEF VisibleWindow
  <2> HIDE DEF T, D
  <2>3. Window(accepted, D, T + 1) = Append(Window(accepted, D, T), accepted[T + 1])
    BY <1>1, <1>2, WindowMoves
  <2>4. QED
    BY <2>1, <2>2, <2>3
<1> HIDE DEF x
<1>6. CASE kind = "ck"
  <2>1. Len(Contents) < Size["ck"] - 1
    BY <1>4, <1>6 DEF Room, Entries
  <2>2. CkQueue!Insert(x)
    BY <1>1, <1>5, <2>1 DEF CkQueue!Insert
  <2>3. QED
    BY <1>3, <1>6, <2>2 DEF QueueStep, CkQueue!Next
<1>7. CASE kind # "ck"
  <2>1. Len(Contents) < Size["io_uring"]
    BY <1>4, <1>7 DEF Room, Entries, Inv, TypeOK, Kind
  <2>2. UringQueue!Insert(x)
    BY <1>1, <1>5, <2>1 DEF UringQueue!Insert
  <2>3. QED
    BY <1>3, <1>7, <2>2 DEF QueueStep, UringQueue!Next
<1>8. QED
  BY <1>6, <1>7

\* The consumer stores its index: the oldest pair leaves the abstract queue, and
\* it is the one that was copied.
LEMMA PopStorePops ==
  ASSUME Inv, VisibleWindow, VisibleWindow', PopStore
  PROVE  QueueStep
<1> DEFINE T == TailCount
           D == Len(delivered)
<1>1. TailCount' = T /\ D < T /\ cons.out = accepted[D + 1]
  BY PopStoreStep
<1>2. /\ T \in Nat /\ D \in Nat /\ D <= T /\ T <= Len(accepted) /\ accepted \in Seq(Item)
      /\ delivered \in Seq(Torn) /\ cons.out \in Torn
  BY CountFacts DEF Inv, TypeOK
<1>3. accepted' = accepted /\ delivered' = Append(delivered, cons.out)
  BY DEF PopStore
<1>4. Len(delivered') = D + 1
  BY <1>2, <1>3
<1>5. Contents = Window(accepted, D, T) /\ Contents' = Window(accepted, D + 1, T)
  BY <1>1, <1>3, <1>4 DEF VisibleWindow
<1> HIDE DEF T, D
<1>6. Contents # <<>> /\ Head(Contents) = cons.out /\ Contents' = Tail(Contents)
  BY <1>1, <1>2, <1>5, WindowMoves
<1>7. CkQueue!Pop /\ UringQueue!Pop
  BY <1>3, <1>6 DEF CkQueue!Pop, UringQueue!Pop
<1>8. QED
  BY <1>7 DEF QueueStep, CkQueue!Next, UringQueue!Next

\* Both rings implement the bounded queue: the pairs come out in the order of the
\* inserts, none twice and none torn, and no pair is visible beyond the capacity,
\* although every store of either side may reach memory arbitrarily late.
THEOREM FifoOverBuffers == Spec => ImplementsFifo
<1>1. Inv => VisibleWindow
  BY ContentsOfRing DEF VisibleWindow, Window
<1>2. Init => IF kind = "ck" THEN CkQueue!Init ELSE UringQueue!Init
  <2> SUFFICES ASSUME Init PROVE CkQueue!Init /\ UringQueue!Init
    OBVIOUS
  <2>1. Inv /\ delivered = <<>> /\ TailCount = 0
    BY InitInv DEF Init, TailCount
  <2>2. Contents \in Seq(Item) /\ Len(Contents) = 0
    BY <2>1, ContentsOfRing
  <2>3. Contents = <<>>
    BY <2>2
  <2>4. QED
    BY <2>1, <2>3 DEF CkQueue!Init, UringQueue!Init
<1>3. Inv /\ VisibleWindow /\ VisibleWindow' /\ [Next]_vars => [QueueStep]_<<Contents, delivered>>
  <2> SUFFICES ASSUME Inv, VisibleWindow, VisibleWindow', [Next]_vars
               PROVE  QueueStep \/ UNCHANGED <<Contents, delivered>>
    OBVIOUS
  <2>1. UNCHANGED ringVars => UNCHANGED <<Contents, delivered>>
    BY RingKept DEF ringVars, Contents, Distance
  <2>2. TailCount' = TailCount /\ UNCHANGED <<accepted, delivered>> => UNCHANGED <<Contents, delivered>>
    BY DEF VisibleWindow
  <2>3. CASE InsertStores
    <3>1. UNCHANGED <<kind, tail, head, entries, cbuf, delivered>>
      BY <2>3 DEF InsertStores, memVars
    <3>2. QED
      BY <3>1 DEF Contents, Distance, OwnHead, Modulus, Entries
  <2>4. CASE DrainProducer
    BY <2>2, <2>4, DrainWordStep, DrainIndexInserts
  <2>5. CASE DrainConsumer
    BY <2>2, <2>5, DrainConsumerStep DEF DrainConsumer
  <2>6. CASE PopStore
    BY <2>6, PopStorePops
  <2>7. CASE UNCHANGED vars
    BY <2>1, <2>7, StutterKeepsInv
  <2>8. CASE Next
    BY <2>1, <2>3, <2>4, <2>5, <2>6, <2>8, StepCases, ProducerStep, ConsumerStep, ObserverStep
  <2>9. QED
    BY <2>7, <2>8
<1>4. [QueueStep]_<<Contents, delivered>>
        => [IF kind = "ck" THEN CkQueue!Next ELSE UringQueue!Next]_<<Contents, delivered>>
  BY DEF QueueStep
<1>5. QED
  BY <1>1, <1>2, <1>3, <1>4, InvInductive, PTL DEF Spec, ImplementsFifo

=============================================================================
