-------------------------- MODULE FollySpscProofs --------------------------
(***************************************************************************)
(* Proofs about the Folly ring for every ring size, every set of items and *)
(* every bound on the number of inserts.                                   *)
(***************************************************************************)
EXTENDS FollySpsc, SequenceTheorems, TLAPS

\* Both indices wrap inside the ring.
LEMMA NextRecordInRing == ASSUME NEW i \in Slot PROVE NextRecord(i) \in Slot
  BY SizeAssumption DEF NextRecord, Slot

\* Storing one word of a pair into a slot.
LEMMA StoreWord ==
  ASSUME NEW ring \in [Slot -> Word], NEW i \in Slot, NEW x \in Word
  PROVE  /\ [ring EXCEPT ![i].key = x.key] \in [Slot -> Word]
         /\ [ring EXCEPT ![i].value = x.value] \in [Slot -> Word]
<1>1. [ring[i] EXCEPT !.key = x.key] \in Word /\ [ring[i] EXCEPT !.value = x.value] \in Word
  BY DEF Word
<1>2. QED
  BY <1>1

\* The type invariant needs no contract on the number of threads.
THEOREM TypeCorrect == Spec => []TypeOK
<1>1. Init => TypeOK
  BY SizeAssumption DEF Init, TypeOK, Slot, Word, ZeroPair
<1>2. TypeOK /\ [Next]_vars => TypeOK'
  <2> SUFFICES ASSUME TypeOK, [Next]_vars PROVE TypeOK'
    OBVIOUS
  <2> USE DEF TypeOK, ringVars, prodVars, consVars, obsVars
  <2>1. CASE UNCHANGED vars
    BY <2>1 DEF vars
  <2>2. ASSUME NEW p \in Producer, NEW x \in Item, InsertBegin(p, x) PROVE TypeOK'
    BY <2>2, ItemAssumption DEF InsertBegin, Word
  <2>3. ASSUME NEW p \in Producer, InsertFull(p) \/ InsertSpace(p) PROVE TypeOK'
    BY <2>3 DEF InsertFull, InsertSpace
  <2>4. ASSUME NEW p \in Producer, InsertKey(p) PROVE TypeOK'
    <3>1. records' \in [Slot -> Word]
      <4>1. pWrite[p] \in Slot /\ pItem[p] \in Word
        OBVIOUS
      <4>2. QED
        BY <2>4, <4>1, StoreWord DEF InsertKey
    <3>2. ppc' \in [Producer -> {"idle", "check", "key", "value", "commit", "isFull"}]
      BY <2>4 DEF InsertKey
    <3>3. QED
      BY <2>4, <3>1, <3>2 DEF InsertKey
  <2>5. ASSUME NEW p \in Producer, InsertValue(p) PROVE TypeOK'
    <3>1. records' \in [Slot -> Word]
      <4>1. pWrite[p] \in Slot /\ pItem[p] \in Word
        OBVIOUS
      <4>2. QED
        BY <2>5, <4>1, StoreWord DEF InsertValue
    <3>2. ppc' \in [Producer -> {"idle", "check", "key", "value", "commit", "isFull"}]
      BY <2>5 DEF InsertValue
    <3>3. QED
      BY <2>5, <3>1, <3>2 DEF InsertValue
  <2>6. ASSUME NEW p \in Producer, InsertCommit(p) PROVE TypeOK'
    BY <2>6, NextRecordInRing DEF InsertCommit
  <2>7. ASSUME NEW c \in Consumer, DeleteBegin(c) \/ DeleteEmpty(c) \/ DeleteFound(c)
        PROVE TypeOK'
    BY <2>7 DEF DeleteBegin, DeleteEmpty, DeleteFound
  <2>8. ASSUME NEW c \in Consumer, DeleteKey(c) PROVE TypeOK'
    BY <2>8 DEF DeleteKey, Word
  <2>9. ASSUME NEW c \in Consumer, DeleteValue(c) PROVE TypeOK'
    BY <2>9 DEF DeleteValue, Word
  <2>10. ASSUME NEW c \in Consumer, DeleteCommit(c) PROVE TypeOK'
    BY <2>10, NextRecordInRing DEF DeleteCommit
  <2>11. ASSUME NEW c \in Consumer, IsEmptyBegin(c) \/ IsEmptyEnd(c) PROVE TypeOK'
    BY <2>11 DEF IsEmptyBegin, IsEmptyEnd
  <2>12. ASSUME NEW p \in Producer, IsFullBegin(p) \/ IsFullEnd(p) PROVE TypeOK'
    BY <2>12 DEF IsFullBegin, IsFullEnd
  <2>13. ASSUME NEW o \in Observer, VerifyBegin(o) PROVE TypeOK'
    BY <2>13 DEF VerifyBegin
  <2>14. ASSUME NEW o \in Observer, VerifyEnd(o) PROVE TypeOK'
    <3>1. Corrupt(write_idx, oRead[o]) \in BOOLEAN
      BY DEF Corrupt
    <3>2. oCorrupt' \in [Observer -> BOOLEAN]
      BY <2>14, <3>1, Zenon DEF VerifyEnd
    <3>3. QED
      BY <2>14, <3>2, SizeAssumption DEF VerifyEnd, Slot
  <2>15. QED
    BY <2>1, <2>2, <2>3, <2>4, <2>5, <2>6, <2>7, <2>8, <2>9, <2>10, <2>11, <2>12, <2>13, <2>14
    DEF Next, ds_spsc_insert, ds_spsc_delete
<1>3. QED
  BY <1>1, <1>2, PTL DEF Spec
----------------------------------------------------------------------------
(* The geometry of the ring, for any two indices w and r inside it. *)

\* The ring holds at most Size - 1 items: one slot always stays empty.
LEMMA CountBounds ==
  ASSUME NEW w \in Slot, NEW r \in Slot PROVE SizeGuess(w, r) \in 0 .. Size - 1
  BY SizeAssumption DEF SizeGuess, Slot

\* The slots of the contents are slots of the ring and never the write slot.
LEMMA ContentSlots ==
  ASSUME NEW w \in Slot, NEW r \in Slot, NEW k \in 1 .. SizeGuess(w, r)
  PROVE  SlotAt(r, k) \in Slot /\ SlotAt(r, k) # w
  BY SizeAssumption DEF SizeGuess, SlotAt, Slot

\* The test of ds_spsc_insert is exactly "fewer than Size - 1 items".
LEMMA FullTest ==
  ASSUME NEW w \in Slot, NEW r \in Slot
  PROVE  (NextRecord(w) # r) <=> (SizeGuess(w, r) < Size - 1)
  BY SizeAssumption DEF SizeGuess, NextRecord, Slot

\* The test of ds_spsc_delete is exactly "no item".
LEMMA EmptyTest ==
  ASSUME NEW w \in Slot, NEW r \in Slot PROVE (r = w) <=> (SizeGuess(w, r) = 0)
  BY SizeAssumption DEF SizeGuess, Slot

\* The contents are a sequence of as many words as the distance of the indices.
LEMMA ContentsType ==
  ASSUME NEW R \in [Slot -> Word], NEW w \in Slot, NEW r \in Slot
  PROVE  /\ ContentsOf(R, w, r) \in Seq(Word) /\ Len(ContentsOf(R, w, r)) = SizeGuess(w, r)
         /\ \A k \in 1 .. SizeGuess(w, r) : ContentsOf(R, w, r)[k] = R[SlotAt(r, k)]
<1>1. SizeGuess(w, r) \in Nat
  BY CountBounds, SizeAssumption
<1>2. \A k \in 1 .. SizeGuess(w, r) : R[SlotAt(r, k)] \in Word
  BY ContentSlots
<1>3. ContentsOf(R, w, r) \in [1 .. SizeGuess(w, r) -> Word]
  BY <1>2 DEF ContentsOf
<1>4. QED
  BY <1>1, <1>3 DEF ContentsOf

\* A store into the write slot is invisible to the consumer.
LEMMA StoreKeepsContents ==
  ASSUME NEW R \in [Slot -> Word], NEW S \in [Slot -> Word], NEW w \in Slot, NEW r \in Slot,
         \A i \in Slot \ {w} : S[i] = R[i]
  PROVE  ContentsOf(S, w, r) = ContentsOf(R, w, r)
<1>1. \A k \in 1 .. SizeGuess(w, r) : S[SlotAt(r, k)] = R[SlotAt(r, k)]
  BY ContentSlots
<1>2. QED
  BY <1>1 DEF ContentsOf

\* Publishing the next write index appends the pair in the write slot.
LEMMA CommitAppends ==
  ASSUME NEW R \in [Slot -> Word], NEW w \in Slot, NEW r \in Slot,
         SizeGuess(w, r) < Size - 1
  PROVE  /\ SizeGuess(NextRecord(w), r) = SizeGuess(w, r) + 1
         /\ ContentsOf(R, NextRecord(w), r) = Append(ContentsOf(R, w, r), R[w])
<1> DEFINE n == SizeGuess(w, r)
           C == Append(ContentsOf(R, w, r), R[w])
           D == ContentsOf(R, NextRecord(w), r)
<1>1. SizeGuess(NextRecord(w), r) = n + 1
  BY SizeAssumption DEF SizeGuess, NextRecord, Slot
<1>2. SlotAt(r, n + 1) = w
  BY SizeAssumption DEF SizeGuess, SlotAt, Slot
<1>3. n \in Nat /\ R[w] \in Word
  BY CountBounds, SizeAssumption
<1>4. C \in Seq(Word) /\ Len(C) = n + 1 /\ C[n + 1] = R[w]
      /\ \A k \in 1 .. n : C[k] = R[SlotAt(r, k)]
  BY <1>3, ContentsType
<1> HIDE DEF C
<1>5. D \in Seq(Word) /\ Len(D) = n + 1 /\ \A k \in 1 .. n + 1 : D[k] = R[SlotAt(r, k)]
  <2>1. NextRecord(w) \in Slot
    BY NextRecordInRing
  <2>2. /\ D \in Seq(Word) /\ Len(D) = SizeGuess(NextRecord(w), r)
        /\ \A k \in 1 .. SizeGuess(NextRecord(w), r) : D[k] = R[SlotAt(r, k)]
    BY <2>1, ContentsType
  <2> HIDE DEF n, D
  <2>3. QED
    BY <1>1, <2>2
<1>6. \A k \in 1 .. n + 1 : D[k] = C[k]
  BY <1>2, <1>3, <1>4, <1>5
<1> HIDE DEF D
<1>7. C = D
  BY <1>4, <1>5, <1>6, SeqEqual
<1>8. QED
  BY <1>1, <1>7 DEF C, D

\* Publishing the next read index removes the first pair.
LEMMA CommitRemovesHead ==
  ASSUME NEW R \in [Slot -> Word], NEW w \in Slot, NEW r \in Slot,
         SizeGuess(w, r) > 0
  PROVE  /\ SizeGuess(w, NextRecord(r)) = SizeGuess(w, r) - 1
         /\ ContentsOf(R, w, r) # <<>>
         /\ Head(ContentsOf(R, w, r)) = R[r]
         /\ ContentsOf(R, w, NextRecord(r)) = Tail(ContentsOf(R, w, r))
<1> DEFINE n == SizeGuess(w, r)
           C == ContentsOf(R, w, r)
           D == ContentsOf(R, w, NextRecord(r))
<1>1. SizeGuess(w, NextRecord(r)) = n - 1
  BY SizeAssumption DEF SizeGuess, NextRecord, Slot
<1>2. \A k \in 1 .. n - 1 : SlotAt(NextRecord(r), k) = SlotAt(r, k + 1)
  BY SizeAssumption DEF SizeGuess, NextRecord, SlotAt, Slot
<1>3. SlotAt(r, 1) = r /\ n \in Nat
  BY SizeAssumption, CountBounds DEF SlotAt, Slot
<1>4. C \in Seq(Word) /\ Len(C) = n /\ \A k \in 1 .. n : C[k] = R[SlotAt(r, k)]
  BY ContentsType
<1>5. D \in Seq(Word) /\ Len(D) = n - 1
      /\ \A k \in 1 .. n - 1 : D[k] = R[SlotAt(NextRecord(r), k)]
  <2>1. NextRecord(r) \in Slot
    BY NextRecordInRing
  <2>2. QED
    BY <1>1, <2>1, ContentsType
<1> HIDE DEF n, C, D
<1>6. C # <<>> /\ Head(C) = R[r]
  BY <1>3, <1>4 DEF n
<1>7. Tail(C) \in Seq(Word) /\ Len(Tail(C)) = n - 1
      /\ \A k \in 1 .. n - 1 : Tail(C)[k] = C[k + 1]
  BY <1>3, <1>4, <1>6
<1>8. \A k \in 1 .. n - 1 : D[k] = Tail(C)[k]
  BY <1>2, <1>3, <1>4, <1>5, <1>7
<1>9. D = Tail(C)
  BY <1>5, <1>7, <1>8, SeqEqual
<1>10. QED
  BY <1>1, <1>6, <1>9 DEF n, C, D
----------------------------------------------------------------------------
(* Under the contract the invariant is inductive. *)

\* Two pairs are equal when both their words are.
LEMMA WordEqual ==
  ASSUME NEW x \in Word, NEW y \in Word, x.key = y.key, x.value = y.value PROVE x = y
  BY DEF Word

\* A step that touches neither the ring nor the histories keeps the contents.
LEMMA RingUntouched ==
  ASSUME UNCHANGED ringVars
  PROVE  Count' = Count /\ Contents' = Contents
  BY DEF ringVars, Count, Contents

\* Every step of the producer keeps the invariant.
LEMMA ProducerStep ==
  ASSUME Contract, TypeOK, TypeOK', RingInv, NEW p \in Producer,
         ds_spsc_insert(p) \/ IsFullBegin(p) \/ IsFullEnd(p)
  PROVE  RingInv'
<1> USE DEF prodVars, consVars
<1>1. Producer = {p}
  BY DEF Contract
<1>2. /\ write_idx \in Slot /\ read_idx \in Slot /\ records \in [Slot -> Word]
      /\ Count \in 0 .. Size - 1
  BY CountBounds DEF TypeOK, Count
<1>3. ASSUME NEW x \in Item, InsertBegin(p, x) PROVE RingInv'
  <2>1. Count' = Count /\ Contents' = Contents
    BY <1>3, RingUntouched DEF InsertBegin
  <2>2. ProducerInv'
    BY <1>1, <1>3, <2>1 DEF InsertBegin, ringVars, RingInv, ProducerInv, InCall, InSlot, TypeOK
  <2>3. QED
    BY <1>3, <2>1, <2>2 DEF InsertBegin, ringVars, RingInv, ConsumerInv, Lossless
<1>4. CASE InsertFull(p)
  <2>1. Count' = Count /\ Contents' = Contents
    BY <1>4, RingUntouched DEF InsertFull
  <2>2. ProducerInv'
    BY <1>1, <1>4, <2>1 DEF InsertFull, ringVars, RingInv, ProducerInv, InCall, InSlot, TypeOK
  <2>3. QED
    BY <1>4, <2>1, <2>2 DEF InsertFull, ringVars, RingInv, ConsumerInv, Lossless
<1>5. CASE InsertSpace(p)
  <2>1. Count' = Count /\ Contents' = Contents
    BY <1>5, RingUntouched DEF InsertSpace
  <2>2. Count < Size - 1
    BY <1>2, <1>5, FullTest DEF InsertSpace, RingInv, ProducerInv, InCall, Count
  <2>3. ProducerInv'
    BY <1>1, <1>5, <2>1, <2>2 DEF InsertSpace, ringVars, RingInv, ProducerInv, InCall, InSlot, TypeOK
  <2>4. QED
    BY <1>5, <2>1, <2>3 DEF InsertSpace, ringVars, RingInv, ConsumerInv, Lossless
<1>6. CASE InsertKey(p) \/ InsertValue(p)
  <2>1. pWrite[p] = write_idx
    BY <1>6 DEF InsertKey, InsertValue, RingInv, ProducerInv, InCall
  <2>2. /\ records' \in [Slot -> Word] /\ UNCHANGED <<write_idx, read_idx>>
        /\ \A i \in Slot \ {write_idx} : records'[i] = records[i]
    BY <1>2, <1>6, <2>1 DEF InsertKey, InsertValue, TypeOK
  <2>3. Count' = Count /\ Contents' = Contents
    BY <1>2, <2>2, StoreKeepsContents DEF Count, Contents
  <2>4. ProducerInv'
    BY <1>1, <1>2, <1>6, <2>1, <2>2, <2>3
    DEF InsertKey, InsertValue, RingInv, ProducerInv, InCall, InSlot, TypeOK, Word
  <2>5. ConsumerInv'
    <3>1. Count > 0 => records'[read_idx] = records[read_idx]
      BY <1>2, <2>2, EmptyTest DEF Count
    <3>2. QED
      BY <1>6, <2>2, <2>3, <3>1 DEF InsertKey, InsertValue, RingInv, ConsumerInv, InSlot
  <2>6. QED
    BY <1>6, <2>3, <2>4, <2>5 DEF InsertKey, InsertValue, RingInv, Lossless
<1>7. CASE InsertCommit(p)
  <2>1. /\ pWrite[p] = write_idx /\ pItem[p] \in Item /\ Count < Size - 1
        /\ records[write_idx] = pItem[p]
    <3>1. /\ pWrite[p] = write_idx /\ pItem[p] \in Item /\ Count < Size - 1
          /\ records[write_idx].key = pItem[p].key
          /\ records[write_idx].value = pItem[p].value
      BY <1>7 DEF InsertCommit, RingInv, ProducerInv, InCall, InSlot
    <3>2. records[write_idx] \in Word /\ pItem[p] \in Word
      BY <1>2 DEF TypeOK
    <3>3. QED
      BY <3>1, <3>2, WordEqual
  <2>2. UNCHANGED <<records, read_idx>> /\ write_idx' = NextRecord(write_idx)
    BY <1>7, <2>1 DEF InsertCommit
  <2>3. Count' = Count + 1 /\ Contents' = Append(Contents, pItem[p])
    BY <1>2, <2>1, <2>2, CommitAppends DEF Count, Contents
  <2>4. ProducerInv'
    BY <1>1, <1>7, <2>1, <2>2, <2>3 DEF InsertCommit, RingInv, ProducerInv, InCall, InSlot, TypeOK
  <2>5. ConsumerInv'
    BY <1>2, <1>7, <2>2, <2>3 DEF InsertCommit, RingInv, ConsumerInv, InSlot
  <2>6. /\ Contents \in Seq(Word) /\ Len(Contents) = Count
        /\ delivered \in Seq(Word) /\ pItem[p] \in Word
    BY <1>2, ContentsType DEF TypeOK, Count, Contents
  <2>7. Lossless'
    <3>1. Append(delivered \o Contents, pItem[p]) = delivered \o Append(Contents, pItem[p])
      BY <2>6
    <3>2. /\ accepted' = Append(accepted, pItem[p]) /\ delivered' = delivered
          /\ accepted = delivered \o Contents
      BY <1>7 DEF InsertCommit, RingInv, Lossless
    <3>3. QED
      BY <2>3, <3>1, <3>2 DEF Lossless
  <2>8. \A k \in 1 .. Count' : Contents'[k] \in Item
    BY <1>2, <2>1, <2>3, <2>6 DEF RingInv
  <2>9. QED
    BY <2>4, <2>5, <2>7, <2>8 DEF RingInv
<1>8. CASE IsFullBegin(p) \/ IsFullEnd(p)
  <2>1. Count' = Count /\ Contents' = Contents
    BY <1>8, RingUntouched DEF IsFullBegin, IsFullEnd
  <2>2. IsFullEnd(p) => (NextRecord(write_idx) # pWrite[p] => Count < Size - 1)
    <3>1. pWrite[p] \in Slot /\ (IsFullEnd(p) => SizeGuess(write_idx, pWrite[p]) >= Count)
      BY DEF IsFullEnd, RingInv, ProducerInv, TypeOK
    <3>2. (NextRecord(write_idx) # pWrite[p]) <=> (SizeGuess(write_idx, pWrite[p]) < Size - 1)
      BY <1>2, <3>1, FullTest
    <3>3. SizeGuess(write_idx, pWrite[p]) \in 0 .. Size - 1
      BY <1>2, <3>1, CountBounds
    <3>4. QED
      BY <1>2, <3>1, <3>2, <3>3, SizeAssumption
  <2>3. ProducerInv'
    BY <1>1, <1>2, <1>8, <2>1, <2>2
    DEF IsFullBegin, IsFullEnd, ringVars, RingInv, ProducerInv, InCall, InSlot, TypeOK, Count
  <2>4. QED
    BY <1>8, <2>1, <2>3 DEF IsFullBegin, IsFullEnd, ringVars, RingInv, ConsumerInv, Lossless
<1>9. QED
  BY <1>3, <1>4, <1>5, <1>6, <1>7, <1>8 DEF ds_spsc_insert

\* Every step of the consumer keeps the invariant.
LEMMA ConsumerStep ==
  ASSUME Contract, TypeOK, TypeOK', RingInv, NEW c \in Consumer,
         ds_spsc_delete(c) \/ IsEmptyBegin(c) \/ IsEmptyEnd(c)
  PROVE  RingInv'
<1> USE DEF prodVars, consVars
<1>1. Consumer = {c}
  BY DEF Contract
<1>2. /\ write_idx \in Slot /\ read_idx \in Slot /\ records \in [Slot -> Word]
      /\ Count \in 0 .. Size - 1
  BY CountBounds DEF TypeOK, Count
<1>3. CASE DeleteBegin(c) \/ DeleteEmpty(c) \/ IsEmptyBegin(c)
  <2>1. Count' = Count /\ Contents' = Contents
    BY <1>3, RingUntouched DEF DeleteBegin, DeleteEmpty, IsEmptyBegin
  <2>2. ConsumerInv'
    BY <1>1, <1>3, <2>1
    DEF DeleteBegin, DeleteEmpty, IsEmptyBegin, ringVars, RingInv, ConsumerInv, InSlot, TypeOK
  <2>3. QED
    BY <1>3, <2>1, <2>2
    DEF DeleteBegin, DeleteEmpty, IsEmptyBegin, ringVars, RingInv, ProducerInv, Lossless
<1>4. CASE DeleteFound(c) \/ IsEmptyEnd(c)
  <2>1. Count' = Count /\ Contents' = Contents
    BY <1>4, RingUntouched DEF DeleteFound, IsEmptyEnd
  <2>2. cRead[c] # write_idx => Count > 0
    BY <1>2, <1>4, EmptyTest, SizeAssumption
    DEF DeleteFound, IsEmptyEnd, RingInv, ConsumerInv, Count
  <2>3. ConsumerInv'
    BY <1>1, <1>4, <2>1, <2>2
    DEF DeleteFound, IsEmptyEnd, ringVars, RingInv, ConsumerInv, InSlot, TypeOK
  <2>4. QED
    BY <1>4, <2>1, <2>3
    DEF DeleteFound, IsEmptyEnd, ringVars, RingInv, ProducerInv, Lossless
<1>5. CASE DeleteKey(c) \/ DeleteValue(c)
  <2>1. Count' = Count /\ Contents' = Contents
    BY <1>5, RingUntouched DEF DeleteKey, DeleteValue
  <2>2. ConsumerInv'
    BY <1>1, <1>5, <2>1
    DEF DeleteKey, DeleteValue, ringVars, RingInv, ConsumerInv, InSlot, TypeOK, Word
  <2>3. QED
    BY <1>5, <2>1, <2>2
    DEF DeleteKey, DeleteValue, ringVars, RingInv, ProducerInv, Lossless
<1>6. CASE DeleteCommit(c)
  <2>1. cRead[c] = read_idx /\ Count > 0 /\ cData[c] = records[read_idx]
    <3>1. /\ cRead[c] = read_idx /\ Count > 0
          /\ cData[c].key = records[read_idx].key /\ cData[c].value = records[read_idx].value
      BY <1>6 DEF DeleteCommit, RingInv, ConsumerInv, InSlot
    <3>2. records[read_idx] \in Word /\ cData[c] \in Word
      BY <1>2 DEF TypeOK
    <3>3. QED
      BY <3>1, <3>2, WordEqual
  <2>2. UNCHANGED <<records, write_idx>> /\ read_idx' = NextRecord(read_idx)
    BY <1>6, <2>1 DEF DeleteCommit
  <2>3. /\ Count' = Count - 1 /\ Contents # <<>>
        /\ Head(Contents) = cData[c] /\ Contents' = Tail(Contents)
    BY <1>2, <2>1, <2>2, CommitRemovesHead DEF Count, Contents
  <2>4. ConsumerInv'
    BY <1>1, <1>6, <2>1, <2>2, <2>3 DEF DeleteCommit, RingInv, ConsumerInv, InSlot, TypeOK
  <2>5. ProducerInv'
    <3>1. SizeGuess(write_idx, read_idx') = Count - 1
      BY <2>2, <2>3 DEF Count
    <3>2. \A p \in Producer : pWrite[p] \in Slot
      BY DEF TypeOK
    <3>3. \A p \in Producer : SizeGuess(write_idx, pWrite[p]) \in 0 .. Size - 1
      BY <1>2, <3>2, CountBounds
    <3>4. QED
      BY <1>2, <1>6, <2>2, <2>3, <3>3, SizeAssumption
      DEF DeleteCommit, RingInv, ProducerInv, InCall, InSlot
  <2>6. Contents \in Seq(Word) /\ Len(Contents) = Count /\ delivered \in Seq(Word)
    BY <1>2, ContentsType DEF TypeOK, Count, Contents
  <2>7. Lossless'
    <3>1. Append(delivered, Head(Contents)) \o Tail(Contents) = delivered \o Contents
      BY <2>3, <2>6
    <3>2. /\ delivered' = Append(delivered, cData[c]) /\ accepted' = accepted
          /\ accepted = delivered \o Contents
      BY <1>6 DEF DeleteCommit, RingInv, Lossless
    <3>3. QED
      BY <2>3, <3>1, <3>2 DEF Lossless
  <2>8. \A k \in 1 .. Count' : Contents'[k] \in Item
    BY <1>2, <2>3, <2>6 DEF RingInv
  <2>9. QED
    BY <2>4, <2>5, <2>7, <2>8 DEF RingInv
<1>7. QED
  BY <1>3, <1>4, <1>5, <1>6 DEF ds_spsc_delete

\* Nothing is lost, duplicated, reordered or torn, whatever the interleaving of
\* one producer, one consumer and any number of verifying threads.
THEOREM RingInvariant == Contract => (Spec => []RingInv)
<1> SUFFICES ASSUME Contract PROVE Spec => []RingInv
  OBVIOUS
<1>1. Init => RingInv
  <2> SUFFICES ASSUME Init PROVE RingInv
    OBVIOUS
  <2>1. Count = 0 /\ 1 .. Count = {}
    BY DEF Init, Count, SizeGuess
  <2>2. Contents = <<>>
    BY <2>1 DEF Contents, ContentsOf, Count
  <2>3. Lossless
    BY <2>2 DEF Init, Lossless
  <2>4. QED
    BY <2>1, <2>3 DEF Init, RingInv, ProducerInv, ConsumerInv, InCall, InSlot
<1>2. TypeOK /\ TypeOK' /\ RingInv /\ [Next]_vars => RingInv'
  <2> SUFFICES ASSUME TypeOK, TypeOK', RingInv, [Next]_vars PROVE RingInv'
    OBVIOUS
  <2>1. CASE UNCHANGED vars
    BY <2>1 DEF vars, ringVars, prodVars, consVars, RingInv, ProducerInv, ConsumerInv,
                Lossless, Count, Contents
  <2>2. ASSUME NEW o \in Observer, VerifyBegin(o) \/ VerifyEnd(o) PROVE RingInv'
    BY <2>2 DEF VerifyBegin, VerifyEnd, ringVars, prodVars, consVars, RingInv, ProducerInv,
                ConsumerInv, Lossless, Count, Contents
  <2>3. QED
    BY <2>1, <2>2, ProducerStep, ConsumerStep DEF Next
<1>3. QED
  BY <1>1, <1>2, TypeCorrect, PTL DEF Spec

\* The accepted pairs are the delivered ones followed by the ring's contents.
THEOREM NothingLost == Contract => (Spec => []Lossless)
<1> SUFFICES ASSUME Contract PROVE Spec => []Lossless
  OBVIOUS
<1>1. RingInv => Lossless
  BY DEF RingInv
<1>2. QED
  BY <1>1, RingInvariant, PTL

\* Producer and consumer never access the same slot at the same time.
THEOREM SlotsDisjoint == Contract => (Spec => []NoSlotRace)
<1> SUFFICES ASSUME Contract PROVE Spec => []NoSlotRace
  OBVIOUS
<1>1. TypeOK /\ RingInv => NoSlotRace
  <2> SUFFICES ASSUME TypeOK, RingInv PROVE NoSlotRace
    OBVIOUS
  <2>1. Count > 0 => read_idx # write_idx
    BY EmptyTest DEF TypeOK, Count
  <2>2. QED
    BY <2>1 DEF RingInv, ProducerInv, ConsumerInv, InCall, InSlot, NoSlotRace
<1>2. QED
  BY <1>1, RingInvariant, TypeCorrect, PTL

\* The step on which a call refuses: insert sees the ring full, delete sees it empty.
LEMMA RefusalStep ==
  ASSUME TypeOK, RingInv, Next
  PROVE  /\ \A p \in Producer : ppc[p] = "check" /\ ppc'[p] = "idle" => Count = Size - 1
         /\ \A c \in Consumer : cpc[c] = "check" /\ cpc'[c] = "idle" => Count = 0
<1>1. ASSUME NEW p \in Producer, ppc[p] = "check", ppc'[p] = "idle" PROVE Count = Size - 1
  <2>1. NextRecord(pWrite[p]) = read_idx
    BY <1>1 DEF Next, TypeOK, ds_spsc_insert, InsertBegin, InsertFull, InsertSpace, InsertKey,
       InsertValue, InsertCommit, IsFullBegin, IsFullEnd, ds_spsc_delete, DeleteBegin,
       DeleteEmpty, DeleteFound, DeleteKey, DeleteValue, DeleteCommit, IsEmptyBegin,
       IsEmptyEnd, VerifyBegin, VerifyEnd, prodVars
  <2>2. QED
    BY <1>1, <2>1, FullTest, CountBounds, SizeAssumption
    DEF RingInv, ProducerInv, InCall, TypeOK, Count
<1>2. ASSUME NEW c \in Consumer, cpc[c] = "check", cpc'[c] = "idle" PROVE Count = 0
  <2>1. cRead[c] = write_idx
    BY <1>2 DEF Next, TypeOK, ds_spsc_insert, InsertBegin, InsertFull, InsertSpace, InsertKey,
       InsertValue, InsertCommit, IsFullBegin, IsFullEnd, ds_spsc_delete, DeleteBegin,
       DeleteEmpty, DeleteFound, DeleteKey, DeleteValue, DeleteCommit, IsEmptyBegin,
       IsEmptyEnd, VerifyBegin, VerifyEnd, consVars
  <2>2. QED
    BY <1>2, <2>1, EmptyTest DEF RingInv, ConsumerInv, TypeOK, Count
<1>3. QED
  BY <1>1, <1>2

\* DS_ERROR_FULL and DS_ERROR_NOT_FOUND are returned only when they are true.
THEOREM RefusalsHonest == Contract => (Spec => HonestRefusals)
<1> SUFFICES ASSUME Contract PROVE Spec => HonestRefusals
  OBVIOUS
<1>1. TypeOK /\ RingInv /\ [Next]_vars =>
        [/\ \A p \in Producer : ppc[p] = "check" /\ ppc'[p] = "idle" => Count = Size - 1
         /\ \A c \in Consumer : cpc[c] = "check" /\ cpc'[c] = "idle" => Count = 0]_vars
  BY RefusalStep
<1>2. QED
  BY <1>1, RingInvariant, TypeCorrect, PTL DEF Spec, HonestRefusals

\* What is_empty told the consumer and is_full told the producer still holds when
\* that thread acts on it: only the other side moves in between, and it can only
\* make more items, or more room.
THEOREM AnswersUsable == Contract => (Spec => AnswersStayValid)
<1> SUFFICES ASSUME Contract PROVE Spec => AnswersStayValid
  OBVIOUS
<1>1. TypeOK /\ RingInv /\ [Next]_vars =>
        [/\ \A p \in Producer : ppc[p] = "check" /\ ppc'[p] = "idle" => ~sawSpace[p]
         /\ \A c \in Consumer : cpc[c] = "check" /\ cpc'[c] = "idle" => ~sawItem[c]]_vars
  <2> SUFFICES ASSUME TypeOK, RingInv, Next
               PROVE  /\ \A p \in Producer : ppc[p] = "check" /\ ppc'[p] = "idle" => ~sawSpace[p]
                      /\ \A c \in Consumer : cpc[c] = "check" /\ cpc'[c] = "idle" => ~sawItem[c]
    OBVIOUS
  <2>1. \A p \in Producer : sawSpace[p] => Count < Size - 1
    BY DEF RingInv, ProducerInv
  <2>2. \A c \in Consumer : sawItem[c] => Count > 0
    BY DEF RingInv, ConsumerInv
  <2>3. Count < Size - 1 => Count # Size - 1
    BY CountBounds, SizeAssumption DEF TypeOK, Count
  <2>4. Count > 0 => Count # 0
    BY CountBounds, SizeAssumption DEF TypeOK, Count
  <2>5. QED
    BY <2>1, <2>2, <2>3, <2>4, RefusalStep
<1>2. QED
  BY <1>1, RingInvariant, TypeCorrect, PTL DEF Spec, AnswersStayValid

\* ds_spsc_verify never reports corruption, for any number of threads and whatever
\* happens between its two loads: each index it loads is one of a slot.
THEOREM VerifySound == Spec => []VerifyNeverCorrupt
<1>1. Init => VerifyNeverCorrupt
  BY DEF Init, VerifyNeverCorrupt
<1>2. TypeOK /\ VerifyNeverCorrupt /\ [Next]_vars => VerifyNeverCorrupt'
  <2> SUFFICES ASSUME TypeOK, VerifyNeverCorrupt, [Next]_vars PROVE VerifyNeverCorrupt'
    OBVIOUS
  <2>1. ASSUME NEW o \in Observer, VerifyEnd(o) PROVE VerifyNeverCorrupt'
    <3>1. ~Corrupt(write_idx, oRead[o])
      <4>1. write_idx \in Slot /\ oRead[o] \in Slot
        BY DEF TypeOK
      <4>2. SizeGuess(write_idx, oRead[o]) \in 0 .. Size - 1
        BY <4>1, CountBounds
      <4>3. QED
        BY <4>1, <4>2, SizeAssumption DEF Corrupt, Slot
    <3>2. oCorrupt' = [oCorrupt EXCEPT ![o] = FALSE]
      BY <2>1, <3>1 DEF VerifyEnd, Corrupt
    <3>3. QED
      BY <3>2 DEF VerifyNeverCorrupt, TypeOK
  <2>2. CASE UNCHANGED oCorrupt
    BY <2>2 DEF VerifyNeverCorrupt
  <2>3. QED
    BY <2>1, <2>2 DEF Next, vars, obsVars, ds_spsc_insert, InsertBegin, InsertFull, InsertSpace,
       InsertKey, InsertValue, InsertCommit, IsFullBegin, IsFullEnd, ds_spsc_delete,
       DeleteBegin, DeleteEmpty, DeleteFound, DeleteKey, DeleteValue, DeleteCommit,
       IsEmptyBegin, IsEmptyEnd, VerifyBegin
<1>3. QED
  BY <1>1, <1>2, TypeCorrect, PTL DEF Spec
----------------------------------------------------------------------------
(* The ring implements the abstract bounded queue. *)

\* Every step of the ring is an insert, a pop or a stutter of FifoQueue: insert
\* takes effect at the store of write_idx, delete at the store of read_idx.
THEOREM Refinement == Contract => (Spec => ImplementsFifo)
<1> SUFFICES ASSUME Contract PROVE Spec => Fifo!Spec
  BY DEF ImplementsFifo
<1>1. Init => Fifo!Init
  <2> SUFFICES ASSUME Init PROVE Contents = <<>> /\ delivered = <<>>
    BY DEF Fifo!Init
  <2>1. 1 .. SizeGuess(write_idx, read_idx) = {}
    BY DEF Init, SizeGuess
  <2>2. QED
    BY <2>1 DEF Init, Contents, ContentsOf
<1>2. TypeOK /\ TypeOK' /\ RingInv /\ [Next]_vars => [Fifo!Next]_<<Contents, delivered>>
  <2> SUFFICES ASSUME TypeOK, TypeOK', RingInv, [Next]_vars
               PROVE Fifo!Next \/ UNCHANGED <<Contents, delivered>>
    OBVIOUS
  <2>1. /\ write_idx \in Slot /\ read_idx \in Slot /\ records \in [Slot -> Word]
        /\ Contents \in Seq(Word) /\ Len(Contents) = Count /\ Count \in 0 .. Size - 1
    BY ContentsType, CountBounds DEF TypeOK, Count, Contents
  <2>2. CASE UNCHANGED ringVars /\ UNCHANGED delivered
    BY <2>2, RingUntouched
  <2>3. ASSUME NEW p \in Producer, InsertKey(p) \/ InsertValue(p)
        PROVE UNCHANGED <<Contents, delivered>>
    <3>1. pWrite[p] = write_idx
      BY <2>3 DEF InsertKey, InsertValue, RingInv, ProducerInv, InCall
    <3>2. /\ records' \in [Slot -> Word] /\ UNCHANGED <<write_idx, read_idx>>
          /\ \A i \in Slot \ {write_idx} : records'[i] = records[i]
      BY <2>1, <2>3, <3>1 DEF InsertKey, InsertValue, TypeOK
    <3>3. QED
      BY <2>1, <2>3, <3>2, StoreKeepsContents DEF Contents, InsertKey, InsertValue
  <2>4. ASSUME NEW p \in Producer, InsertCommit(p) PROVE Fifo!Next
    <3>1. /\ pWrite[p] = write_idx /\ pItem[p] \in Item /\ Count < Size - 1
          /\ records[write_idx].key = pItem[p].key
          /\ records[write_idx].value = pItem[p].value
      BY <2>4 DEF InsertCommit, RingInv, ProducerInv, InCall, InSlot
    <3>2. records[write_idx] = pItem[p]
      BY <2>1, <3>1, WordEqual DEF TypeOK
    <3>3. Contents' = Append(Contents, pItem[p])
      BY <2>1, <2>4, <3>1, <3>2, CommitAppends DEF InsertCommit, Count, Contents
    <3>4. Fifo!Insert(pItem[p])
      BY <2>1, <2>4, <3>1, <3>3 DEF InsertCommit, Fifo!Insert
    <3>5. QED
      BY <3>1, <3>4 DEF Fifo!Next
  <2>5. ASSUME NEW c \in Consumer, DeleteCommit(c) PROVE Fifo!Next
    <3>1. /\ cRead[c] = read_idx /\ Count > 0
          /\ cData[c].key = records[read_idx].key /\ cData[c].value = records[read_idx].value
      BY <2>5 DEF DeleteCommit, RingInv, ConsumerInv, InSlot
    <3>2. cData[c] = records[read_idx]
      BY <2>1, <3>1, WordEqual DEF TypeOK
    <3>3. /\ Contents # <<>> /\ Head(Contents) = cData[c] /\ Contents' = Tail(Contents)
      BY <2>1, <2>5, <3>1, <3>2, CommitRemovesHead DEF DeleteCommit, Count, Contents
    <3>4. QED
      BY <2>5, <3>3 DEF DeleteCommit, Fifo!Next, Fifo!Pop
  <2>6. QED
    BY <2>2, <2>3, <2>4, <2>5
    DEF Next, vars, ds_spsc_insert, InsertBegin, InsertFull, InsertSpace, IsFullBegin,
        IsFullEnd, ds_spsc_delete, DeleteBegin, DeleteEmpty, DeleteFound, DeleteKey,
        DeleteValue, IsEmptyBegin, IsEmptyEnd, VerifyBegin, VerifyEnd
<1>3. QED
  BY <1>1, <1>2, RingInvariant, TypeCorrect, PTL DEF Spec, Fifo!Spec
=============================================================================
