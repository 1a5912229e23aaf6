--------------------------- MODULE VyukhovProofs ---------------------------
(***************************************************************************)
(* Proofs about the Vyukhov ring for every capacity of at least two cells, *)
(* any number of producers, consumers and verifying threads, and every     *)
(* bound on retries and inserts.                                           *)
(***************************************************************************)
EXTENDS Vyukhov, RingArith, FiniteSetTheorems

\* The cell of a position.
LEMMA IndexInRing == ASSUME NEW i \in Nat PROVE Index(i) \in Cell
  BY CapacityAssumption DEF Index, Cell

LEMMA IndexNextLap == ASSUME NEW i \in Nat PROVE Index(i + Capacity) = Index(i)
<1>1. Capacity \in Nat /\ Capacity > 0
  BY CapacityAssumption
<1>2. (i + Capacity) % Capacity = i % Capacity
  BY <1>1, NextLap
<1>3. QED
  BY <1>2 DEF Index

LEMMA IndexOneLap ==
  ASSUME NEW i \in Nat, NEW j \in Nat, Index(i) = Index(j), i < j + Capacity, j < i + Capacity
  PROVE  i = j
  BY CapacityAssumption, OneLap DEF Index

\* Two pairs are equal when both their words are.
LEMMA WordEqual ==
  ASSUME NEW x \in Word, NEW y \in Word, x.key = y.key, x.value = y.value PROVE x = y
  BY DEF Word

\* The type invariant.
THEOREM TypeCorrect == Spec => []TypeOK
<1>1. Init => TypeOK
  BY CapacityAssumption DEF Init, TypeOK, Cell, Word, ZeroPair
<1>2. TypeOK /\ [Next]_vars => TypeOK'
  <2> SUFFICES ASSUME TypeOK, [Next]_vars PROVE TypeOK'
    OBVIOUS
  <2> USE DEF TypeOK, headVars, cellVars, prodVars, consVars, obsVars, histVars
  <2>1. CASE UNCHANGED vars
    BY <2>1 DEF vars
  <2>2. ASSUME NEW p \in Producer, NEW x \in Item, InsertBegin(p, x) PROVE TypeOK'
    BY <2>2, ItemAssumption DEF InsertBegin, Word
  <2>3. ASSUME NEW p \in Producer, InsertLoad(p) PROVE TypeOK'
    BY <2>3 DEF InsertLoad
  <2>4. ASSUME NEW p \in Producer, InsertClaim(p) PROVE TypeOK'
    BY <2>4 DEF InsertClaim
  <2>5. ASSUME NEW p \in Producer, InsertLose(p) \/ InsertReload(p) PROVE TypeOK'
    <3>1. CASE InsertLose(p)
      BY <3>1 DEF InsertLose
    <3>2. CASE InsertReload(p)
      BY <3>2 DEF InsertReload
    <3>3. QED
      BY <2>5, <3>1, <3>2
  <2>6. ASSUME NEW p \in Producer, InsertKey(p) PROVE TypeOK'
    BY <2>6 DEF InsertKey, Word
  <2>7. ASSUME NEW p \in Producer, InsertValue(p) PROVE TypeOK'
    BY <2>7 DEF InsertValue, Word
  <2>8. ASSUME NEW p \in Producer, InsertPublish(p) PROVE TypeOK'
    <3>1. pPos[p] + 1 \in Int
      OBVIOUS
    <3>2. sequence' \in [Cell -> Int]
      BY <2>8, <3>1 DEF InsertPublish
    <3>3. QED
      BY <2>8, <3>2 DEF InsertPublish
  <2>9. ASSUME NEW p \in Producer, InsertCount(p) PROVE TypeOK'
    BY <2>9, ModulusAssumption, CapacityAssumption DEF InsertCount
  <2>10. ASSUME NEW c \in Consumer, PopBegin(c) PROVE TypeOK'
    BY <2>10 DEF PopBegin, ZeroPair, Word
  <2>11. ASSUME NEW c \in Consumer, PopLoad(c) PROVE TypeOK'
    BY <2>11 DEF PopLoad
  <2>12. ASSUME NEW c \in Consumer, PopClaim(c) PROVE TypeOK'
    <3>1. data[Index(cPos[c])] \in Word
      BY IndexInRing
    <3>2. QED
      BY <2>12, <3>1 DEF PopClaim
  <2>13. ASSUME NEW c \in Consumer, PopLose(c) \/ PopReload(c) PROVE TypeOK'
    <3>1. CASE PopLose(c)
      BY <3>1 DEF PopLose
    <3>2. CASE PopReload(c)
      BY <3>2 DEF PopReload
    <3>3. QED
      BY <2>13, <3>1, <3>2
  <2>14. ASSUME NEW c \in Consumer, PopKey(c) \/ PopValue(c) PROVE TypeOK'
    <3>1. data[Index(cPos[c])] \in Word
      BY IndexInRing
    <3>2. CASE PopKey(c)
      BY <3>1, <3>2 DEF PopKey, Word
    <3>3. CASE PopValue(c)
      BY <3>1, <3>3 DEF PopValue, Word
    <3>4. QED
      BY <2>14, <3>2, <3>3
  <2>15. ASSUME NEW c \in Consumer, PopRelease(c) PROVE TypeOK'
    <3>1. cPos[c] + Capacity \in Int
      BY CapacityAssumption
    <3>2. sequence' \in [Cell -> Int]
      BY <2>15, <3>1 DEF PopRelease
    <3>3. QED
      BY <2>15, <3>2 DEF PopRelease
  <2>16. ASSUME NEW c \in Consumer, PopCount(c) PROVE TypeOK'
    BY <2>16, ModulusAssumption, CapacityAssumption DEF PopCount
  <2>17. ASSUME NEW o \in Observer, VerifyEnq(o) \/ VerifyDeq(o) PROVE TypeOK'
    BY <2>17 DEF VerifyEnq, VerifyDeq
  <2>18. ASSUME NEW o \in Observer, VerifyCount(o) PROVE TypeOK'
    <3>1. oCorrupt' \in [Observer -> BOOLEAN]
      BY <2>18, Zenon DEF VerifyCount
    <3>2. QED
      BY <2>18, <3>1 DEF VerifyCount
  <2>19. QED
    BY <2>1, <2>2, <2>3, <2>4, <2>5, <2>6, <2>7, <2>8, <2>9, <2>10, <2>11, <2>12, <2>13,
       <2>14, <2>15, <2>16, <2>17, <2>18
    DEF Next, ds_vyukhov_insert, ds_vyukhov_pop, ds_vyukhov_verify
<1>3. QED
  BY <1>1, <1>2, PTL DEF Spec
----------------------------------------------------------------------------
(* The inductive invariant. *)

\* A step in which a producer only moves between the steps of its search for a
\* cell, with what it has to know when it gets to the compare-and-swap.
LEMMA ProducerSearch ==
  ASSUME TypeOK, TypeOK', RingInv, NEW p \in Producer,
         UNCHANGED <<enqueue_pos, dequeue_pos, cellVars, consVars, claimed, delivered>>,
         \A q \in Producer \ {p} : ppc'[q] = ppc[q] /\ pPos'[q] = pPos[q] /\ pItem'[q] = pItem[q],
         ~ProducerOwns(p)', pPos'[p] <= enqueue_pos \/ ppc'[p] = "idle",
         ppc'[p] = "cas" => sequence[Index(pPos'[p])] = pPos'[p]
  PROVE  RingInv'
<1> USE DEF headVars, cellVars, consVars
<1>1. Bounded' /\ ClaimOrder'
  BY DEF RingInv, Bounded, ClaimOrder
<1>2. SequenceInv'
  BY DEF RingInv, SequenceInv, ProducerOwns, ConsumerOwns
<1>3. CasInv'
  BY DEF RingInv, CasInv
<1>4. OwnerInv'
  BY DEF RingInv, OwnerInv, ProducerOwns, ConsumerOwns
<1>5. DataInv'
  BY DEF RingInv, DataInv, ProducerOwns, ConsumerOwns
<1>6. QED
  BY <1>1, <1>2, <1>3, <1>4, <1>5 DEF RingInv

\* The same for a consumer that owns no cell after the step.
LEMMA ConsumerSearch ==
  ASSUME TypeOK, TypeOK', RingInv, NEW c \in Consumer,
         UNCHANGED <<enqueue_pos, dequeue_pos, cellVars, prodVars, claimed, delivered>>,
         \A d \in Consumer \ {c} : cpc'[d] = cpc[d] /\ cPos'[d] = cPos[d] /\ cData'[d] = cData[d],
         ~ConsumerOwns(c)', cpc'[c] # "count", cPos'[c] <= dequeue_pos \/ cpc'[c] = "idle",
         cpc'[c] = "cas" => sequence[Index(cPos'[c])] = cPos'[c] + 1
  PROVE  RingInv'
<1> USE DEF headVars, cellVars, prodVars
<1>1. Bounded'
  BY DEF RingInv, Bounded
<1>2. SequenceInv'
  BY DEF RingInv, SequenceInv, ProducerOwns, ConsumerOwns
<1>3. CasInv'
  BY DEF RingInv, CasInv
<1>4. OwnerInv'
  BY DEF RingInv, OwnerInv, ProducerOwns, ConsumerOwns
<1>5. DataInv'
  BY DEF RingInv, DataInv, ProducerOwns, ConsumerOwns
<1>6. ClaimOrder'
  BY DEF RingInv, ClaimOrder, ConsumerOwns
<1>7. QED
  BY <1>1, <1>2, <1>3, <1>4, <1>5, <1>6 DEF RingInv

\* A producer that wins the compare-and-swap becomes the owner of a free cell.
LEMMA InsertClaimStep ==
  ASSUME TypeOK, TypeOK', RingInv, NEW p \in Producer, InsertClaim(p)
  PROVE  RingInv'
<1> USE DEF headVars, cellVars, consVars
<1> DEFINE e == enqueue_pos
<1>1. /\ enqueue_pos' = e + 1 /\ pPos[p] = e /\ sequence[Index(e)] = e
      /\ UNCHANGED <<dequeue_pos, sequence, data, cpc, cPos, cData, pPos, pItem, delivered>>
      /\ ppc' = [ppc EXCEPT ![p] = "key"] /\ claimed' = Append(claimed, pItem[p])
  BY DEF InsertClaim, RingInv, CasInv
<1>2. e \in Nat /\ dequeue_pos \in Nat /\ Capacity \in Nat /\ Capacity >= 2 /\ Len(claimed) = e
  BY CapacityAssumption DEF TypeOK, RingInv, DataInv
<1>3. Bounded'
  <2>1. CASE e = dequeue_pos + Capacity
    <3>1. Index(e) = Index(dequeue_pos)
      BY <1>2, <2>1, IndexNextLap
    <3>2. sequence[Index(dequeue_pos)] \in {dequeue_pos, dequeue_pos + 1}
      BY <1>2, <2>1 DEF RingInv, SequenceInv
    <3>3. QED
      BY <1>1, <1>2, <2>1, <3>1, <3>2
  <2>2. QED
    BY <1>1, <1>2, <2>1 DEF RingInv, Bounded
<1>4. SequenceInv'
  <2>1. \A i \in dequeue_pos .. e : sequence[Index(i)] \in {i, i + 1}
    BY <1>1, <1>2 DEF RingInv, SequenceInv
  <2>2. \A i \in e + 1 .. dequeue_pos + Capacity - 1 : sequence[Index(i)] \in {i, i - Capacity + 1}
    BY <1>2 DEF RingInv, SequenceInv
  <2>3. \A q \in Producer : ProducerOwns(q)' =>
          /\ pPos[q] \in dequeue_pos .. e /\ sequence[Index(pPos[q])] = pPos[q]
    BY <1>1, <1>2 DEF RingInv, SequenceInv, ProducerOwns, TypeOK, Bounded
  <2>4. ASSUME NEW c \in Consumer, ConsumerOwns(c)
        PROVE cPos[c] \in e + 1 - Capacity .. dequeue_pos - 1 /\ sequence[Index(cPos[c])] = cPos[c] + 1
    <3>1. cPos[c] \in e - Capacity .. dequeue_pos - 1 /\ sequence[Index(cPos[c])] = cPos[c] + 1
          /\ cPos[c] \in Nat
      BY <2>4 DEF RingInv, SequenceInv, TypeOK
    <3>2. Index(cPos[c] + Capacity) = Index(cPos[c])
      BY <3>1, IndexNextLap
    <3>3. cPos[c] + Capacity # e
      BY <1>1, <1>2, <3>1, <3>2
    <3>4. QED
      BY <1>2, <3>1, <3>3
  <2>5. QED
    BY <1>1, <1>2, <2>1, <2>2, <2>3, <2>4 DEF SequenceInv, ConsumerOwns
<1>5. CasInv'
  <2>1. \A q \in Producer : ppc'[q] # "idle" => pPos[q] <= e + 1
    BY <1>1, <1>2 DEF RingInv, CasInv, TypeOK
  <2>2. ASSUME NEW q \in Producer, ppc'[q] = "cas" PROVE pPos[q] # e + 1
    <3>1. ppc[q] = "cas" /\ pPos[q] \in Nat
      BY <1>1, <2>2 DEF TypeOK
    <3>2. pPos[q] <= e
      BY <3>1 DEF RingInv, CasInv
    <3>3. QED
      BY <1>2, <3>1, <3>2
  <2>3. QED
    BY <1>1, <2>1, <2>2 DEF RingInv, CasInv
<1>6. OwnerInv'
  BY <1>1, <1>2 DEF RingInv, OwnerInv, SequenceInv, ProducerOwns, ConsumerOwns, TypeOK
<1>7. /\ claimed \in Seq(Word) /\ pItem[p] \in Word
      /\ Len(claimed') = e + 1 /\ claimed'[e + 1] = pItem[p]
      /\ \A k \in 1 .. e : claimed'[k] = claimed[k]
  BY <1>1, <1>2 DEF TypeOK
<1>8. DataInv'
  <2>1. \A i \in dequeue_pos .. e : sequence[Index(i)] = i + 1 => data[Index(i)] = claimed'[i + 1]
    BY <1>1, <1>2, <1>7 DEF RingInv, DataInv
  <2>2. \A q \in Producer : ProducerOwns(q)' =>
          /\ pItem[q] = claimed'[pPos[q] + 1]
          /\ ppc'[q] \in {"value", "publish"} => data[Index(pPos[q])].key = pItem[q].key
          /\ ppc'[q] = "publish" => data[Index(pPos[q])].value = pItem[q].value
    BY <1>1, <1>2, <1>7 DEF RingInv, DataInv, SequenceInv, ProducerOwns, TypeOK
  <2>3. \A c \in Consumer : ConsumerOwns(c) => claimed'[cPos[c] + 1] = claimed[cPos[c] + 1]
    <3>1. ASSUME NEW c \in Consumer, ConsumerOwns(c) PROVE cPos[c] + 1 \in 1 .. e
      <4>1. cPos[c] \in e - Capacity .. dequeue_pos - 1 /\ dequeue_pos <= e /\ cPos[c] \in Nat
        BY <3>1 DEF RingInv, SequenceInv, Bounded, TypeOK
      <4>2. QED
        BY <1>2, <4>1
    <3>2. QED
      BY <1>7, <3>1
  <2>4. \A c \in Consumer : ConsumerOwns(c)' =>
          /\ data[Index(cPos[c])] = claimed'[cPos[c] + 1]
          /\ cpc[c] \in {"value", "release"} => cData[c].key = claimed'[cPos[c] + 1].key
    BY <1>1, <2>3 DEF RingInv, DataInv, ConsumerOwns
  <2>5. QED
    <3>1. enqueue_pos' - 1 = e
      BY <1>1, <1>2
    <3>2. QED
      BY <1>1, <1>7, <2>1, <2>2, <2>4, <3>1 DEF DataInv
<1>9. ClaimOrder'
  <2>1. \A c \in Consumer : cpc[c] \in {"release", "count"} => cPos[c] + 1 \in 1 .. e
    <3>1. ASSUME NEW c \in Consumer, cpc[c] \in {"release", "count"} PROVE cPos[c] + 1 \in 1 .. e
      <4>1. cpc[c] = "release" => cPos[c] \in e - Capacity .. dequeue_pos - 1
        BY DEF RingInv, SequenceInv, ConsumerOwns
      <4>2. cpc[c] = "count" => cPos[c] < dequeue_pos
        BY DEF RingInv, CasInv
      <4>3. dequeue_pos <= e /\ dequeue_pos \in Nat /\ cPos[c] \in Nat
        BY DEF RingInv, Bounded, TypeOK
      <4>4. cPos[c] < dequeue_pos
        BY <1>2, <3>1, <4>1, <4>2, <4>3, CapacityAssumption
      <4>5. QED
        BY <1>2, <4>3, <4>4
    <3>2. QED
      BY <3>1
  <2>2. QED
    BY <1>1, <1>2, <1>7, <2>1 DEF RingInv, ClaimOrder, Bounded
<1>10. QED
  BY <1>3, <1>4, <1>5, <1>6, <1>8, <1>9 DEF RingInv

\* The bounds of the two positions.
LEMMA RingBounds ==
  ASSUME TypeOK, RingInv
  PROVE  /\ enqueue_pos \in Nat /\ dequeue_pos \in Nat /\ Capacity \in Nat /\ Capacity >= 2
         /\ dequeue_pos <= enqueue_pos /\ enqueue_pos <= dequeue_pos + Capacity
  BY CapacityAssumption DEF TypeOK, RingInv, Bounded

\* The facts that every step uses.
LEMMA RingFacts ==
  ASSUME TypeOK, RingInv
  PROVE  /\ enqueue_pos \in Nat /\ dequeue_pos \in Nat /\ Capacity \in Nat /\ Capacity >= 2
         /\ dequeue_pos <= enqueue_pos /\ enqueue_pos <= dequeue_pos + Capacity
         /\ Len(claimed) = enqueue_pos /\ claimed \in Seq(Word)
         /\ \A p \in Producer : pPos[p] \in Nat /\ pItem[p] \in Word
         /\ \A c \in Consumer : cPos[c] \in Nat /\ cData[c] \in Word
         /\ \A p \in Producer : ProducerOwns(p) =>
              pPos[p] \in dequeue_pos .. enqueue_pos - 1 /\ sequence[Index(pPos[p])] = pPos[p]
         /\ \A c \in Consumer : ConsumerOwns(c) =>
              cPos[c] \in enqueue_pos - Capacity .. dequeue_pos - 1
              /\ sequence[Index(cPos[c])] = cPos[c] + 1
  BY CapacityAssumption DEF TypeOK, RingInv, Bounded, SequenceInv, DataInv

\* The cell of an owned position is the cell of no other position in use.
LEMMA ProducerCell ==
  ASSUME TypeOK, RingInv, NEW p \in Producer, ProducerOwns(p)
  PROVE  /\ \A i \in dequeue_pos .. dequeue_pos + Capacity - 1 :
              i # pPos[p] => Index(i) # Index(pPos[p])
         /\ \A q \in Producer : q # p /\ ProducerOwns(q) => Index(pPos[q]) # Index(pPos[p])
         /\ \A c \in Consumer : ConsumerOwns(c) => Index(cPos[c]) # Index(pPos[p])
<1>1. ASSUME NEW i \in dequeue_pos .. dequeue_pos + Capacity - 1, i # pPos[p]
      PROVE Index(i) # Index(pPos[p])
  <2>1. i \in Nat /\ pPos[p] \in Nat /\ i < pPos[p] + Capacity /\ pPos[p] < i + Capacity
    BY RingFacts
  <2>2. QED
    BY <1>1, <2>1, IndexOneLap
<1>2. ASSUME NEW q \in Producer, q # p, ProducerOwns(q) PROVE Index(pPos[q]) # Index(pPos[p])
  <2>1. pPos[q] # pPos[p]
    BY <1>2 DEF RingInv, OwnerInv
  <2>2. pPos[q] \in dequeue_pos .. dequeue_pos + Capacity - 1
    BY <1>2, RingFacts
  <2>3. QED
    BY <1>1, <2>1, <2>2
<1>3. ASSUME NEW c \in Consumer, ConsumerOwns(c) PROVE Index(cPos[c]) # Index(pPos[p])
  <2>1. cPos[c] \in Nat /\ cPos[c] \in enqueue_pos - Capacity .. dequeue_pos - 1
    BY <1>3, RingFacts
  <2>2. pPos[p] \in Nat /\ pPos[p] \in dequeue_pos .. enqueue_pos - 1
    BY RingFacts
  <2>3. enqueue_pos \in Nat /\ dequeue_pos \in Nat /\ Capacity \in Nat
    BY RingFacts
  <2>4. cPos[c] < pPos[p] /\ pPos[p] < cPos[c] + Capacity /\ cPos[c] < pPos[p] + Capacity
    BY <2>1, <2>2, <2>3
  <2>5. QED
    BY <2>1, <2>2, <2>4, IndexOneLap
<1>4. QED
  BY <1>1, <1>2, <1>3

LEMMA ConsumerCell ==
  ASSUME TypeOK, RingInv, NEW c \in Consumer, ConsumerOwns(c)
  PROVE  /\ cPos[c] + Capacity \in enqueue_pos .. dequeue_pos + Capacity - 1
         /\ Index(cPos[c] + Capacity) = Index(cPos[c])
         /\ \A i \in dequeue_pos .. dequeue_pos + Capacity - 1 :
              i # cPos[c] + Capacity => Index(i) # Index(cPos[c])
         /\ \A p \in Producer : ProducerOwns(p) => Index(pPos[p]) # Index(cPos[c])
         /\ \A d \in Consumer : d # c /\ ConsumerOwns(d) => Index(cPos[d]) # Index(cPos[c])
<1>1. /\ cPos[c] + Capacity \in enqueue_pos .. dequeue_pos + Capacity - 1
      /\ Index(cPos[c] + Capacity) = Index(cPos[c]) /\ cPos[c] + Capacity \in Nat
  <2>1. cPos[c] \in Nat /\ cPos[c] \in enqueue_pos - Capacity .. dequeue_pos - 1
    BY RingFacts
  <2>2. Index(cPos[c] + Capacity) = Index(cPos[c])
    BY <2>1, IndexNextLap
  <2>3. QED
    BY <2>1, <2>2, RingFacts
<1>2. \A i \in dequeue_pos .. dequeue_pos + Capacity - 1 :
        i # cPos[c] + Capacity => Index(i) # Index(cPos[c])
  <2>1. ASSUME NEW i \in dequeue_pos .. dequeue_pos + Capacity - 1, i # cPos[c] + Capacity,
               Index(i) = Index(cPos[c])
        PROVE FALSE
    <3>1. Index(i) = Index(cPos[c] + Capacity) /\ i \in Nat
      BY <1>1, <2>1, RingFacts
    <3>2. i < cPos[c] + Capacity + Capacity /\ cPos[c] + Capacity < i + Capacity
      <4>1. /\ enqueue_pos \in Nat /\ dequeue_pos \in Nat /\ Capacity \in Nat
            /\ dequeue_pos <= enqueue_pos /\ Capacity > 0
        BY RingFacts
      <4>2. cPos[c] \in Nat /\ cPos[c] \in enqueue_pos - Capacity .. dequeue_pos - 1
        BY RingFacts
      <4>3. QED
        BY <4>1, <4>2
    <3>3. QED
      BY <1>1, <2>1, <3>1, <3>2, IndexOneLap
  <2>2. QED
    BY <2>1
<1>3. \A p \in Producer : ProducerOwns(p) => Index(pPos[p]) # Index(cPos[c])
  BY ProducerCell
<1>4. ASSUME NEW d \in Consumer, d # c, ConsumerOwns(d) PROVE Index(cPos[d]) # Index(cPos[c])
  <2>1. cPos[d] # cPos[c]
    BY <1>4 DEF RingInv, OwnerInv
  <2>2. /\ cPos[c] \in Nat /\ cPos[d] \in Nat
        /\ cPos[c] < cPos[d] + Capacity /\ cPos[d] < cPos[c] + Capacity
    BY <1>4, RingFacts
  <2>3. QED
    BY <2>1, <2>2, IndexOneLap
<1>5. QED
  BY <1>1, <1>2, <1>3, <1>4

\* Storing a word into an owned cell.
LEMMA InsertStoreStep ==
  ASSUME TypeOK, TypeOK', RingInv, NEW p \in Producer, InsertKey(p) \/ InsertValue(p)
  PROVE  RingInv'
<1> USE DEF headVars, cellVars, consVars, histVars
<1>1. /\ UNCHANGED <<enqueue_pos, dequeue_pos, sequence, cpc, cPos, cData, pPos, pItem,
                     claimed, delivered>>
      /\ ProducerOwns(p) /\ ProducerOwns(p)' /\ ppc'[p] # "cas" /\ ppc[p] # "idle"
      /\ \A q \in Producer \ {p} : ppc'[q] = ppc[q]
  BY DEF InsertKey, InsertValue, ProducerOwns, TypeOK
<1>2. Index(pPos[p]) \in Cell
  BY RingFacts, IndexInRing
<1>3. \A i \in Cell \ {Index(pPos[p])} : data'[i] = data[i]
  BY <1>2 DEF InsertKey, InsertValue, TypeOK
<1>4. Bounded' /\ ClaimOrder'
  BY <1>1 DEF RingInv, Bounded, ClaimOrder
<1>5. SequenceInv'
  BY <1>1 DEF RingInv, SequenceInv, ProducerOwns, ConsumerOwns
<1>6. CasInv'
  BY <1>1 DEF RingInv, CasInv
<1>7. OwnerInv'
  BY <1>1 DEF RingInv, OwnerInv, ProducerOwns, ConsumerOwns
<1>8. DataInv'
  <2>1. ASSUME NEW i \in dequeue_pos .. enqueue_pos - 1, sequence[Index(i)] = i + 1
        PROVE data'[Index(i)] = claimed[i + 1]
    <3>1. i # pPos[p] /\ i \in dequeue_pos .. dequeue_pos + Capacity - 1 /\ i \in Nat
      BY <1>1, <2>1, RingFacts
    <3>2. Index(i) # Index(pPos[p]) /\ Index(i) \in Cell
      BY <1>1, <3>1, ProducerCell, IndexInRing
    <3>3. QED
      BY <1>3, <2>1, <3>2 DEF RingInv, DataInv
  <2>2. \A q \in Producer \ {p} : ProducerOwns(q) => data'[Index(pPos[q])] = data[Index(pPos[q])]
    BY <1>1, <1>3, ProducerCell, RingFacts, IndexInRing
  <2>3. \A c \in Consumer : ConsumerOwns(c) => data'[Index(cPos[c])] = data[Index(cPos[c])]
    BY <1>1, <1>3, ProducerCell, RingFacts, IndexInRing
  <2>4. /\ ppc'[p] \in {"value", "publish"} => data'[Index(pPos[p])].key = pItem[p].key
        /\ ppc'[p] = "publish" => data'[Index(pPos[p])].value = pItem[p].value
    <3>1. data[Index(pPos[p])] \in Word
      BY <1>2 DEF TypeOK
    <3>2. CASE InsertKey(p)
      BY <1>2, <3>1, <3>2 DEF InsertKey, TypeOK, Word
    <3>3. CASE InsertValue(p)
      <4>1. data[Index(pPos[p])].key = pItem[p].key
        BY <3>3 DEF InsertValue, RingInv, DataInv, ProducerOwns
      <4>2. QED
        BY <1>2, <3>1, <3>3, <4>1 DEF InsertValue, TypeOK, Word
    <3>4. QED
      BY <3>2, <3>3
  <2>5. \A q \in Producer : ProducerOwns(q)' =>
          /\ pItem[q] = claimed[pPos[q] + 1]
          /\ ppc'[q] \in {"value", "publish"} => data'[Index(pPos[q])].key = pItem[q].key
          /\ ppc'[q] = "publish" => data'[Index(pPos[q])].value = pItem[q].value
    BY <1>1, <2>2, <2>4 DEF RingInv, DataInv, ProducerOwns
  <2>6. \A c \in Consumer : ConsumerOwns(c)' =>
          /\ data'[Index(cPos[c])] = claimed[cPos[c] + 1]
          /\ cpc[c] \in {"value", "release"} => cData[c].key = claimed[cPos[c] + 1].key
    BY <1>1, <2>3 DEF RingInv, DataInv, ConsumerOwns
  <2>7. QED
    BY <1>1, <2>1, <2>5, <2>6, RingFacts DEF DataInv
<1>9. QED
  BY <1>4, <1>5, <1>6, <1>7, <1>8 DEF RingInv

\* Publishing an owned cell hands it to the consumers.
LEMMA InsertPublishStep ==
  ASSUME TypeOK, TypeOK', RingInv, NEW p \in Producer, InsertPublish(p)
  PROVE  RingInv'
<1> USE DEF headVars, consVars, histVars
<1> DEFINE i0 == pPos[p]
<1>1. /\ UNCHANGED <<enqueue_pos, dequeue_pos, data, cpc, cPos, cData, pPos, pItem,
                     claimed, delivered>>
      /\ ProducerOwns(p) /\ ~ProducerOwns(p)' /\ ppc'[p] # "cas" /\ ppc[p] # "idle"
      /\ \A q \in Producer \ {p} : ppc'[q] = ppc[q]
  BY DEF InsertPublish, ProducerOwns, TypeOK
<1>2. i0 \in Nat /\ i0 \in dequeue_pos .. enqueue_pos - 1 /\ sequence[Index(i0)] = i0
      /\ Index(i0) \in Cell
  BY <1>1, RingFacts, IndexInRing
<1>3. sequence'[Index(i0)] = i0 + 1 /\ \A j \in Cell \ {Index(i0)} : sequence'[j] = sequence[j]
  BY <1>2 DEF InsertPublish, TypeOK
<1>4. \A i \in dequeue_pos .. dequeue_pos + Capacity - 1 :
        i # i0 => sequence'[Index(i)] = sequence[Index(i)]
  <2>1. \A i \in dequeue_pos .. dequeue_pos + Capacity - 1 : Index(i) \in Cell
    BY RingFacts, IndexInRing
  <2>2. QED
    BY <1>1, <1>3, <2>1, ProducerCell
<1>5. /\ \A q \in Producer : q # p /\ ProducerOwns(q) =>
           sequence'[Index(pPos[q])] = sequence[Index(pPos[q])]
      /\ \A c \in Consumer : ConsumerOwns(c) =>
           sequence'[Index(cPos[c])] = sequence[Index(cPos[c])]
  BY <1>1, <1>3, ProducerCell, RingFacts, IndexInRing
<1>6. Bounded' /\ ClaimOrder'
  BY <1>1 DEF RingInv, Bounded, ClaimOrder
<1>7. SequenceInv'
  <2>1. ASSUME NEW i \in dequeue_pos .. enqueue_pos - 1 PROVE sequence'[Index(i)] \in {i, i + 1}
    <3>1. CASE i = i0
      BY <1>3, <3>1
    <3>2. CASE i # i0
      <4>1. i \in dequeue_pos .. dequeue_pos + Capacity - 1
        BY RingFacts
      <4>2. sequence[Index(i)] \in {i, i + 1}
        BY DEF RingInv, SequenceInv
      <4>3. QED
        BY <1>4, <3>2, <4>1, <4>2
    <3>3. QED
      BY <3>1, <3>2
  <2>2. ASSUME NEW i \in enqueue_pos .. dequeue_pos + Capacity - 1
        PROVE sequence'[Index(i)] \in {i, i - Capacity + 1}
    <3>1. i # i0 /\ i \in dequeue_pos .. dequeue_pos + Capacity - 1
      BY <1>2, RingFacts
    <3>2. sequence[Index(i)] \in {i, i - Capacity + 1}
      BY DEF RingInv, SequenceInv
    <3>3. QED
      BY <1>4, <3>1, <3>2
  <2>3. QED
    BY <1>1, <1>5, <2>1, <2>2 DEF RingInv, SequenceInv, ProducerOwns, ConsumerOwns
<1>8. CasInv'
  <2>1. ASSUME NEW q \in Producer, ppc'[q] = "cas", pPos[q] = enqueue_pos
        PROVE sequence'[Index(enqueue_pos)] = enqueue_pos
    <3>1. sequence[Index(enqueue_pos)] = enqueue_pos
      BY <1>1, <2>1 DEF RingInv, CasInv
    <3>2. Index(enqueue_pos) # Index(i0) /\ Index(enqueue_pos) \in Cell
      BY <1>2, <3>1, RingFacts, IndexInRing
    <3>3. QED
      BY <1>3, <3>1, <3>2
  <2>2. ASSUME NEW c \in Consumer, cpc[c] = "cas", cPos[c] = dequeue_pos
        PROVE sequence'[Index(dequeue_pos)] = dequeue_pos + 1
    <3>1. sequence[Index(dequeue_pos)] = dequeue_pos + 1
      BY <2>2 DEF RingInv, CasInv
    <3>2. dequeue_pos # i0
      BY <1>2, <3>1
    <3>3. QED
      BY <1>4, <3>1, <3>2, RingFacts
  <2>3. QED
    BY <1>1, <2>1, <2>2 DEF RingInv, CasInv
<1>9. OwnerInv'
  BY <1>1 DEF RingInv, OwnerInv, ProducerOwns, ConsumerOwns
<1>10. DataInv'
  <2>1. data[Index(i0)] = claimed[i0 + 1]
    <3>1. /\ pItem[p] = claimed[i0 + 1] /\ data[Index(i0)].key = pItem[p].key
          /\ data[Index(i0)].value = pItem[p].value
      BY <1>1 DEF InsertPublish, RingInv, DataInv
    <3>2. data[Index(i0)] \in Word /\ pItem[p] \in Word
      BY <1>2 DEF TypeOK
    <3>3. data[Index(i0)] = pItem[p]
      BY <3>1, <3>2, WordEqual
    <3>4. QED
      BY <3>1, <3>3
  <2>2. \A i \in dequeue_pos .. enqueue_pos - 1 :
          sequence'[Index(i)] = i + 1 => data[Index(i)] = claimed[i + 1]
    <3>1. ASSUME NEW i \in dequeue_pos .. enqueue_pos - 1, sequence'[Index(i)] = i + 1
          PROVE data[Index(i)] = claimed[i + 1]
      <4>1. i \in dequeue_pos .. dequeue_pos + Capacity - 1
        BY RingBounds
      <4>2. CASE i # i0
        BY <1>4, <3>1, <4>1, <4>2 DEF RingInv, DataInv
      <4>3. QED
        BY <2>1, <4>2
    <3>2. QED
      BY <3>1
  <2>3. QED
    BY <1>1, <2>2 DEF RingInv, DataInv, ProducerOwns, ConsumerOwns
<1>11. QED
  BY <1>6, <1>7, <1>8, <1>9, <1>10 DEF RingInv

\* A consumer that wins the compare-and-swap becomes the owner of a full cell.
LEMMA PopClaimStep ==
  ASSUME TypeOK, TypeOK', RingInv, NEW c \in Consumer, PopClaim(c)
  PROVE  RingInv'
<1> USE DEF cellVars, prodVars
<1> DEFINE d0 == dequeue_pos
<1>1. /\ dequeue_pos' = d0 + 1 /\ cPos[c] = d0 /\ sequence[Index(d0)] = d0 + 1
      /\ UNCHANGED <<enqueue_pos, sequence, data, ppc, pPos, pItem, cPos, cData, claimed>>
      /\ cpc' = [cpc EXCEPT ![c] = "key"] /\ delivered' = Append(delivered, data[Index(d0)])
  BY DEF PopClaim, RingInv, CasInv
<1>2. d0 < enqueue_pos
  <2>1. CASE d0 = enqueue_pos
    <3>1. sequence[Index(d0)] \in {d0, d0 - Capacity + 1}
      BY <2>1, RingFacts DEF RingInv, SequenceInv
    <3>2. QED
      BY <1>1, <3>1, RingFacts
  <2>2. QED
    BY <2>1, RingFacts
<1>3. Bounded'
  BY <1>1, <1>2, RingFacts DEF Bounded
<1>4. SequenceInv'
  <2>1. \A i \in d0 + 1 .. enqueue_pos - 1 : sequence[Index(i)] \in {i, i + 1}
    BY RingFacts DEF RingInv, SequenceInv
  <2>2. ASSUME NEW i \in enqueue_pos .. d0 + 1 + Capacity - 1
        PROVE sequence[Index(i)] \in {i, i - Capacity + 1}
    <3>1. CASE i = d0 + Capacity
      <4>1. Index(i) = Index(d0)
        BY <3>1, RingFacts, IndexNextLap
      <4>2. QED
        BY <1>1, <3>1, <4>1, RingFacts
    <3>2. CASE i # d0 + Capacity
      <4>1. i \in enqueue_pos .. d0 + Capacity - 1
        BY <3>2, RingFacts
      <4>2. QED
        BY <4>1 DEF RingInv, SequenceInv
    <3>3. QED
      BY <3>1, <3>2
  <2>3. ASSUME NEW p \in Producer, ProducerOwns(p)
        PROVE pPos[p] \in d0 + 1 .. enqueue_pos - 1 /\ sequence[Index(pPos[p])] = pPos[p]
    BY <1>1, <2>3, RingFacts
  <2>4. ASSUME NEW b \in Consumer, ConsumerOwns(b)'
        PROVE /\ cPos[b] \in enqueue_pos - Capacity .. d0
              /\ sequence[Index(cPos[b])] = cPos[b] + 1
    <3>1. CASE b = c
      BY <1>1, <3>1, RingFacts
    <3>2. CASE b # c
      <4>1. ConsumerOwns(b)
        BY <1>1, <2>4, <3>2 DEF ConsumerOwns, TypeOK
      <4>2. QED
        BY <4>1, RingFacts
    <3>3. QED
      BY <3>1, <3>2
  <2>5. dequeue_pos' - 1 = d0
    BY <1>1, RingFacts
  <2>6. QED
    BY <1>1, <2>1, <2>2, <2>3, <2>4, <2>5 DEF SequenceInv, ProducerOwns
<1>5. CasInv'
  <2>1. ASSUME NEW b \in Consumer, cpc'[b] = "cas" PROVE cPos[b] # d0 + 1
    <3>1. cpc[b] = "cas" /\ cPos[b] \in Nat
      BY <1>1, <2>1 DEF TypeOK
    <3>2. cPos[b] <= d0
      BY <3>1 DEF RingInv, CasInv
    <3>3. QED
      BY <3>1, <3>2, RingFacts
  <2>2. \A b \in Consumer : cpc'[b] # "idle" => cPos[b] <= d0 + 1
    BY <1>1, RingFacts DEF RingInv, CasInv, TypeOK
  <2>3. \A b \in Consumer : cpc'[b] = "count" => cPos[b] < d0 + 1
    BY <1>1, RingFacts DEF RingInv, CasInv, TypeOK
  <2>4. QED
    BY <1>1, <2>1, <2>2, <2>3 DEF RingInv, CasInv
<1>6. OwnerInv'
  <2>1. ASSUME NEW a \in Consumer, NEW b \in Consumer, a # b, ConsumerOwns(a)', ConsumerOwns(b)'
        PROVE cPos[a] # cPos[b]
    <3>1. \A x \in Consumer : x # c /\ ConsumerOwns(x)' => ConsumerOwns(x)
      BY <1>1 DEF ConsumerOwns, TypeOK
    <3>2. \A x \in Consumer : x # c /\ ConsumerOwns(x)' => cPos[x] # d0
      BY <3>1, RingFacts
    <3>3. QED
      BY <1>1, <2>1, <3>1, <3>2 DEF RingInv, OwnerInv
  <2>2. QED
    BY <1>1, <2>1 DEF RingInv, OwnerInv, ProducerOwns
<1>7. data[Index(d0)] = claimed[d0 + 1] /\ data[Index(d0)] \in Word
  BY <1>1, <1>2, RingFacts, IndexInRing DEF RingInv, DataInv, TypeOK
<1>8. DataInv'
  <2>1. \A i \in d0 + 1 .. enqueue_pos - 1 :
          sequence[Index(i)] = i + 1 => data[Index(i)] = claimed[i + 1]
    BY RingFacts DEF RingInv, DataInv
  <2>2. \A b \in Consumer : ConsumerOwns(b)' =>
          /\ data[Index(cPos[b])] = claimed[cPos[b] + 1]
          /\ cpc'[b] \in {"value", "release"} => cData[b].key = claimed[cPos[b] + 1].key
    BY <1>1, <1>7 DEF RingInv, DataInv, ConsumerOwns, TypeOK
  <2>3. QED
    BY <1>1, <2>1, <2>2 DEF RingInv, DataInv, ProducerOwns
<1>9. ClaimOrder'
  <2>1. Len(delivered) = d0 /\ delivered \in Seq(Word)
    BY DEF RingInv, ClaimOrder, TypeOK
  <2>2. /\ Len(delivered') = d0 + 1 /\ delivered'[d0 + 1] = data[Index(d0)]
        /\ \A k \in 1 .. d0 : delivered'[k] = delivered[k]
    BY <1>1, <1>7, <2>1
  <2>3. \A k \in 1 .. d0 + 1 : delivered'[k] = claimed[k]
    BY <1>7, <2>2, RingFacts DEF RingInv, ClaimOrder
  <2>4. \A b \in Consumer : cpc'[b] \in {"release", "count"} => cData[b] = claimed[cPos[b] + 1]
    BY <1>1 DEF RingInv, ClaimOrder, TypeOK
  <2>5. QED
    BY <1>1, <2>2, <2>3, <2>4 DEF ClaimOrder
<1>10. QED
  BY <1>3, <1>4, <1>5, <1>6, <1>8, <1>9 DEF RingInv
\* Copying a word out of an owned cell.
LEMMA PopReadStep ==
  ASSUME TypeOK, TypeOK', RingInv, NEW c \in Consumer, PopKey(c) \/ PopValue(c)
  PROVE  RingInv'
<1> USE DEF headVars, cellVars, prodVars, histVars
<1>1. /\ UNCHANGED <<enqueue_pos, dequeue_pos, sequence, data, ppc, pPos, pItem, cPos,
                     claimed, delivered>>
      /\ ConsumerOwns(c) /\ ConsumerOwns(c)' /\ cpc[c] # "idle"
      /\ cpc'[c] # "cas" /\ cpc'[c] # "count"
      /\ \A d \in Consumer \ {c} : cpc'[d] = cpc[d] /\ cData'[d] = cData[d]
  BY DEF PopKey, PopValue, ConsumerOwns, TypeOK
<1>2. /\ data[Index(cPos[c])] = claimed[cPos[c] + 1] /\ data[Index(cPos[c])] \in Word
      /\ cData[c] \in Word /\ cData'[c] \in Word
  BY <1>1, RingFacts, IndexInRing DEF RingInv, DataInv, TypeOK
<1>3. cData'[c].key = claimed[cPos[c] + 1].key
  <2>1. CASE PopKey(c)
    BY <1>2, <2>1 DEF PopKey, TypeOK, Word
  <2>2. CASE PopValue(c)
    <3>1. cData[c].key = claimed[cPos[c] + 1].key
      BY <1>1, <2>2 DEF PopValue, RingInv, DataInv
    <3>2. QED
      BY <1>2, <2>2, <3>1 DEF PopValue, TypeOK, Word
  <2>3. QED
    BY <2>1, <2>2
<1>4. cpc'[c] = "release" => cData'[c] = claimed[cPos[c] + 1]
  <2>1. CASE PopKey(c)
    BY <2>1 DEF PopKey, TypeOK
  <2>2. CASE PopValue(c)
    <3>1. cData'[c].value = data[Index(cPos[c])].value
      BY <1>2, <2>2 DEF PopValue, TypeOK, Word
    <3>2. QED
      BY <1>2, <1>3, <3>1, WordEqual
  <2>3. QED
    BY <2>1, <2>2
<1>5. Bounded'
  BY <1>1 DEF RingInv, Bounded
<1>6. SequenceInv'
  BY <1>1 DEF RingInv, SequenceInv, ProducerOwns, ConsumerOwns
<1>7. CasInv'
  BY <1>1 DEF RingInv, CasInv
<1>8. OwnerInv'
  BY <1>1 DEF RingInv, OwnerInv, ProducerOwns, ConsumerOwns
<1>9. DataInv'
  BY <1>1, <1>2, <1>3 DEF RingInv, DataInv, ProducerOwns, ConsumerOwns
<1>10. ClaimOrder'
  BY <1>1, <1>4 DEF RingInv, ClaimOrder
<1>11. QED
  BY <1>5, <1>6, <1>7, <1>8, <1>9, <1>10 DEF RingInv

\* Releasing an owned cell hands it to the producer of the next lap.
LEMMA PopReleaseStep ==
  ASSUME TypeOK, TypeOK', RingInv, NEW c \in Consumer, PopRelease(c)
  PROVE  RingInv'
<1> USE DEF headVars, prodVars, histVars
<1> DEFINE j0 == cPos[c] + Capacity
<1>1. /\ UNCHANGED <<enqueue_pos, dequeue_pos, data, ppc, pPos, pItem, cPos, cData,
                     claimed, delivered>>
      /\ ConsumerOwns(c) /\ ~ConsumerOwns(c)' /\ cpc[c] = "release" /\ cpc'[c] = "count"
      /\ \A d \in Consumer \ {c} : cpc'[d] = cpc[d]
  BY DEF PopRelease, ConsumerOwns, TypeOK
<1>2. /\ j0 \in Nat /\ j0 \in enqueue_pos .. dequeue_pos + Capacity - 1
      /\ Index(j0) = Index(cPos[c]) /\ Index(j0) \in Cell
      /\ sequence[Index(j0)] = j0 - Capacity + 1 /\ cPos[c] < dequeue_pos
  <2>1. /\ cPos[c] \in Nat /\ cPos[c] \in enqueue_pos - Capacity .. dequeue_pos - 1
        /\ sequence[Index(cPos[c])] = cPos[c] + 1
    BY <1>1, RingFacts
  <2>2. j0 \in enqueue_pos .. dequeue_pos + Capacity - 1 /\ Index(j0) = Index(cPos[c])
    BY <1>1, ConsumerCell
  <2>3. dequeue_pos \in Nat /\ enqueue_pos \in Nat /\ Capacity \in Nat
    BY RingFacts
  <2>4. j0 \in Nat /\ cPos[c] < dequeue_pos /\ j0 - Capacity + 1 = cPos[c] + 1
    BY <2>1, <2>3
  <2>5. Index(j0) \in Cell
    BY <2>4, IndexInRing
  <2>6. QED
    BY <2>1, <2>2, <2>4, <2>5
<1>3. sequence'[Index(j0)] = j0 /\ \A i \in Cell \ {Index(j0)} : sequence'[i] = sequence[i]
  BY <1>2 DEF PopRelease, TypeOK
<1>4. \A i \in dequeue_pos .. dequeue_pos + Capacity - 1 :
        i # j0 => sequence'[Index(i)] = sequence[Index(i)]
  <2>1. \A i \in dequeue_pos .. dequeue_pos + Capacity - 1 : Index(i) \in Cell
    BY RingFacts, IndexInRing
  <2>2. QED
    BY <1>1, <1>2, <1>3, <2>1, ConsumerCell
<1>5. /\ \A p \in Producer : ProducerOwns(p) =>
           sequence'[Index(pPos[p])] = sequence[Index(pPos[p])]
      /\ \A d \in Consumer : d # c /\ ConsumerOwns(d) =>
           sequence'[Index(cPos[d])] = sequence[Index(cPos[d])]
  <2>1. ASSUME NEW p \in Producer, ProducerOwns(p)
        PROVE sequence'[Index(pPos[p])] = sequence[Index(pPos[p])]
    <3>1. Index(pPos[p]) # Index(cPos[c])
      BY <1>1, <2>1, ConsumerCell
    <3>2. Index(pPos[p]) \in Cell
      BY RingFacts, IndexInRing
    <3>3. QED
      BY <1>2, <1>3, <3>1, <3>2
  <2>2. ASSUME NEW d \in Consumer, d # c, ConsumerOwns(d)
        PROVE sequence'[Index(cPos[d])] = sequence[Index(cPos[d])]
    <3>1. Index(cPos[d]) # Index(cPos[c])
      BY <1>1, <2>2, ConsumerCell
    <3>2. Index(cPos[d]) \in Cell
      BY RingFacts, IndexInRing
    <3>3. QED
      BY <1>2, <1>3, <3>1, <3>2
  <2>3. QED
    BY <2>1, <2>2
<1>6. Bounded' /\ ClaimOrder'
  BY <1>1 DEF RingInv, Bounded, ClaimOrder
<1>7. SequenceInv'
  <2>1. ASSUME NEW i \in dequeue_pos .. enqueue_pos - 1 PROVE sequence'[Index(i)] \in {i, i + 1}
    <3>1. i # j0 /\ i \in dequeue_pos .. dequeue_pos + Capacity - 1
      BY <1>2, RingFacts
    <3>2. sequence[Index(i)] \in {i, i + 1}
      BY DEF RingInv, SequenceInv
    <3>3. QED
      BY <1>4, <3>1, <3>2
  <2>2. ASSUME NEW i \in enqueue_pos .. dequeue_pos + Capacity - 1
        PROVE sequence'[Index(i)] \in {i, i - Capacity + 1}
    <3>1. CASE i = j0
      BY <1>3, <3>1
    <3>2. CASE i # j0
      <4>1. i \in dequeue_pos .. dequeue_pos + Capacity - 1
        BY RingFacts
      <4>2. sequence[Index(i)] \in {i, i - Capacity + 1}
        BY DEF RingInv, SequenceInv
      <4>3. QED
        BY <1>4, <3>2, <4>1, <4>2
    <3>3. QED
      BY <3>1, <3>2
  <2>3. QED
    BY <1>1, <1>5, <2>1, <2>2 DEF RingInv, SequenceInv, ProducerOwns, ConsumerOwns
<1>8. CasInv'
  <2>1. ASSUME NEW p \in Producer, ppc[p] = "cas", pPos[p] = enqueue_pos
        PROVE sequence'[Index(enqueue_pos)] = enqueue_pos
    <3>1. sequence[Index(enqueue_pos)] = enqueue_pos
      BY <2>1 DEF RingInv, CasInv
    <3>2. Index(enqueue_pos) # Index(j0) /\ Index(enqueue_pos) \in Cell
      <4>1. enqueue_pos # j0 /\ enqueue_pos < j0 + Capacity /\ j0 < enqueue_pos + Capacity
        <5>1. enqueue_pos # j0
          BY <1>2, <3>1, RingBounds
        <5>2. QED
          BY <1>2, <5>1, RingBounds
      <4>2. enqueue_pos \in Nat /\ j0 \in Nat
        BY <1>2, RingBounds
      <4>3. QED
        BY <4>1, <4>2, IndexInRing, IndexOneLap
    <3>3. QED
      BY <1>3, <3>1, <3>2
  <2>2. ASSUME NEW d \in Consumer, cpc'[d] = "cas", cPos[d] = dequeue_pos
        PROVE sequence'[Index(dequeue_pos)] = dequeue_pos + 1
    <3>1. sequence[Index(dequeue_pos)] = dequeue_pos + 1
      BY <1>1, <2>2 DEF RingInv, CasInv
    <3>2. Index(dequeue_pos) # Index(j0) /\ Index(dequeue_pos) \in Cell
      BY <1>2, <3>1, RingFacts, IndexInRing
    <3>3. QED
      BY <1>3, <3>1, <3>2
  <2>3. QED
    BY <1>1, <1>2, <2>1, <2>2 DEF RingInv, CasInv
<1>9. OwnerInv'
  BY <1>1 DEF RingInv, OwnerInv, ProducerOwns, ConsumerOwns
<1>10. DataInv'
  <2>1. ASSUME NEW i \in dequeue_pos .. enqueue_pos - 1, sequence'[Index(i)] = i + 1
        PROVE data[Index(i)] = claimed[i + 1]
    <3>1. i # j0 /\ i \in dequeue_pos .. dequeue_pos + Capacity - 1
      BY <1>2, RingFacts
    <3>2. QED
      BY <1>4, <2>1, <3>1 DEF RingInv, DataInv
  <2>2. QED
    BY <1>1, <2>1 DEF RingInv, DataInv, ProducerOwns, ConsumerOwns
<1>11. QED
  BY <1>6, <1>7, <1>8, <1>9, <1>10 DEF RingInv

\* A step that changes nothing the invariant reads.
LEMMA RingUnchanged ==
  ASSUME RingInv, UNCHANGED <<enqueue_pos, dequeue_pos, cellVars, prodVars, consVars,
                             claimed, delivered>>
  PROVE  RingInv'
  BY DEF cellVars, prodVars, consVars, RingInv, Bounded, SequenceInv, CasInv, OwnerInv,
         DataInv, ClaimOrder, ProducerOwns, ConsumerOwns

\* Initially no position is in use and every cell waits for its first producer.
LEMMA RingInit == Init => RingInv
<1> SUFFICES ASSUME Init PROVE RingInv
  OBVIOUS
<1> USE CapacityAssumption
<1>1. ASSUME NEW i \in 0 .. Capacity - 1 PROVE sequence[Index(i)] = i
  <2>1. i % Capacity = i
    OBVIOUS
  <2>2. QED
    BY <2>1 DEF Init, Cell, Index
<1>2. Bounded /\ CasInv /\ OwnerInv /\ ClaimOrder
  BY DEF Init, Bounded, CasInv, OwnerInv, ClaimOrder, ProducerOwns, ConsumerOwns
<1>3. SequenceInv
  BY <1>1 DEF Init, SequenceInv, ProducerOwns, ConsumerOwns
<1>4. DataInv
  BY DEF Init, DataInv, ProducerOwns, ConsumerOwns
<1>5. QED
  BY <1>2, <1>3, <1>4 DEF RingInv

\* Every step of the ring preserves the invariant.
LEMMA RingStep ==
  ASSUME TypeOK, TypeOK', RingInv, [Next]_vars
  PROVE  RingInv'
<1> USE DEF headVars, cellVars, prodVars, consVars, obsVars, histVars
<1>1. CASE UNCHANGED vars
  BY <1>1, RingUnchanged DEF vars
<1>2. ASSUME NEW p \in Producer, ds_vyukhov_insert(p) PROVE RingInv'
  <2>1. ASSUME NEW x \in Item, InsertBegin(p, x) PROVE RingInv'
    <3>1. ppc'[p] = "load" /\ pPos'[p] = enqueue_pos
      BY <2>1 DEF InsertBegin, TypeOK
    <3>2. \A q \in Producer \ {p} : ppc'[q] = ppc[q] /\ pPos'[q] = pPos[q] /\ pItem'[q] = pItem[q]
      BY <2>1 DEF InsertBegin, TypeOK
    <3>3. UNCHANGED <<enqueue_pos, dequeue_pos, cellVars, consVars, claimed, delivered>>
      BY <2>1 DEF InsertBegin
    <3>4. pPos'[p] <= enqueue_pos
      BY <3>1, RingFacts
    <3>5. ~ProducerOwns(p)' /\ ppc'[p] # "cas"
      BY <3>1 DEF ProducerOwns
    <3>6. QED
      BY <3>2, <3>3, <3>4, <3>5, ProducerSearch
  <2>2. ASSUME InsertLoad(p) \/ InsertLose(p) PROVE RingInv'
    <3>1. /\ UNCHANGED <<enqueue_pos, dequeue_pos, cellVars, consVars, claimed, delivered, pPos, pItem>>
          /\ \A q \in Producer \ {p} : ppc'[q] = ppc[q]
          /\ ppc[p] # "idle" /\ ppc'[p] \in {"idle", "cas", "reload"}
      <4>1. CASE InsertLoad(p)
        BY <4>1 DEF InsertLoad, TypeOK
      <4>2. CASE InsertLose(p)
        BY <4>2 DEF InsertLose, TypeOK
      <4>3. QED
        BY <2>2, <4>1, <4>2
    <3>2. ppc'[p] = "cas" => sequence[Index(pPos[p])] = pPos[p]
      <4>1. Index(pPos[p]) \in Cell /\ pPos[p] \in Nat /\ sequence[Index(pPos[p])] \in Int
        BY RingFacts, IndexInRing DEF TypeOK
      <4>2. QED
        BY <2>2, <4>1 DEF InsertLoad, InsertLose, TypeOK
    <3>3. pPos'[p] <= enqueue_pos
      BY <3>1 DEF RingInv, CasInv
    <3>4. ~ProducerOwns(p)'
      BY <3>1 DEF ProducerOwns
    <3>5. QED
      BY <3>1, <3>2, <3>3, <3>4, ProducerSearch
  <2>3. CASE InsertClaim(p)
    BY <2>3, InsertClaimStep
  <2>4. ASSUME InsertReload(p) PROVE RingInv'
    <3>1. /\ UNCHANGED <<enqueue_pos, dequeue_pos, cellVars, consVars, claimed, delivered, pItem>>
          /\ \A q \in Producer \ {p} : ppc'[q] = ppc[q] /\ pPos'[q] = pPos[q]
          /\ pPos'[p] = enqueue_pos /\ ppc'[p] \in {"idle", "load"}
      BY <2>4 DEF InsertReload, TypeOK
    <3>2. pPos'[p] <= enqueue_pos /\ ~ProducerOwns(p)' /\ ppc'[p] # "cas"
      BY <3>1, RingFacts DEF ProducerOwns
    <3>3. QED
      BY <3>1, <3>2, ProducerSearch
  <2>5. CASE InsertKey(p) \/ InsertValue(p)
    BY <2>5, InsertStoreStep
  <2>6. CASE InsertPublish(p)
    BY <2>6, InsertPublishStep
  <2>7. ASSUME InsertCount(p) PROVE RingInv'
    <3>1. /\ UNCHANGED <<enqueue_pos, dequeue_pos, cellVars, consVars, claimed, delivered, pPos, pItem>>
          /\ \A q \in Producer \ {p} : ppc'[q] = ppc[q]
          /\ ppc'[p] = "idle"
      BY <2>7 DEF InsertCount, TypeOK
    <3>2. ~ProducerOwns(p)'
      BY <3>1 DEF ProducerOwns
    <3>3. QED
      BY <3>1, <3>2, ProducerSearch
  <2>8. QED
    BY <1>2, <2>1, <2>2, <2>3, <2>4, <2>5, <2>6, <2>7 DEF ds_vyukhov_insert
<1>3. ASSUME NEW c \in Consumer, ds_vyukhov_pop(c) PROVE RingInv'
  <2>1. ASSUME PopBegin(c) PROVE RingInv'
    <3>1. /\ UNCHANGED <<enqueue_pos, dequeue_pos, cellVars, prodVars, claimed, delivered>>
          /\ cpc'[c] = "load" /\ cPos'[c] = dequeue_pos
      BY <2>1 DEF PopBegin, TypeOK
    <3>2. \A d \in Consumer \ {c} : cpc'[d] = cpc[d] /\ cPos'[d] = cPos[d] /\ cData'[d] = cData[d]
      BY <2>1 DEF PopBegin, TypeOK
    <3>3. cPos'[c] <= dequeue_pos
      BY <3>1, RingFacts
    <3>4. ~ConsumerOwns(c)' /\ cpc'[c] # "cas" /\ cpc'[c] # "count"
      BY <3>1 DEF ConsumerOwns
    <3>5. QED
      BY <3>1, <3>2, <3>3, <3>4, ConsumerSearch
  <2>2. ASSUME PopLoad(c) \/ PopLose(c) PROVE RingInv'
    <3>1. /\ UNCHANGED <<enqueue_pos, dequeue_pos, cellVars, prodVars, claimed, delivered, cPos, cData>>
          /\ \A d \in Consumer \ {c} : cpc'[d] = cpc[d]
          /\ cpc[c] # "idle" /\ cpc'[c] \in {"idle", "cas", "reload"}
      <4>1. CASE PopLoad(c)
        BY <4>1 DEF PopLoad, TypeOK
      <4>2. CASE PopLose(c)
        BY <4>2 DEF PopLose, TypeOK
      <4>3. QED
        BY <2>2, <4>1, <4>2
    <3>2. cpc'[c] = "cas" => sequence[Index(cPos[c])] = cPos[c] + 1
      <4>1. Index(cPos[c]) \in Cell /\ cPos[c] \in Nat /\ sequence[Index(cPos[c])] \in Int
        BY RingFacts, IndexInRing DEF TypeOK
      <4>2. QED
        BY <2>2, <4>1 DEF PopLoad, PopLose, TypeOK
    <3>3. cPos'[c] <= dequeue_pos
      BY <3>1 DEF RingInv, CasInv
    <3>4. ~ConsumerOwns(c)' /\ cpc'[c] # "count"
      BY <3>1 DEF ConsumerOwns
    <3>5. QED
      BY <3>1, <3>2, <3>3, <3>4, ConsumerSearch
  <2>3. CASE PopClaim(c)
    BY <2>3, PopClaimStep
  <2>4. ASSUME PopReload(c) PROVE RingInv'
    <3>1. /\ UNCHANGED <<enqueue_pos, dequeue_pos, cellVars, prodVars, claimed, delivered, cData>>
          /\ \A d \in Consumer \ {c} : cpc'[d] = cpc[d] /\ cPos'[d] = cPos[d]
          /\ cPos'[c] = dequeue_pos /\ cpc'[c] \in {"idle", "load"}
      BY <2>4 DEF PopReload, TypeOK
    <3>2. cPos'[c] <= dequeue_pos /\ ~ConsumerOwns(c)' /\ cpc'[c] # "cas" /\ cpc'[c] # "count"
      BY <3>1, RingFacts DEF ConsumerOwns
    <3>3. QED
      BY <3>1, <3>2, ConsumerSearch
  <2>5. CASE PopKey(c) \/ PopValue(c)
    BY <2>5, PopReadStep
  <2>6. CASE PopRelease(c)
    BY <2>6, PopReleaseStep
  <2>7. ASSUME PopCount(c) PROVE RingInv'
    <3>1. /\ UNCHANGED <<enqueue_pos, dequeue_pos, cellVars, prodVars, claimed, delivered, cPos, cData>>
          /\ \A d \in Consumer \ {c} : cpc'[d] = cpc[d]
          /\ cpc'[c] = "idle"
      BY <2>7 DEF PopCount, TypeOK
    <3>2. ~ConsumerOwns(c)' /\ cpc'[c] # "count"
      BY <3>1 DEF ConsumerOwns
    <3>3. QED
      BY <3>1, <3>2, ConsumerSearch
  <2>8. QED
    BY <1>3, <2>1, <2>2, <2>3, <2>4, <2>5, <2>6, <2>7 DEF ds_vyukhov_pop
<1>4. ASSUME NEW o \in Observer, ds_vyukhov_verify(o) PROVE RingInv'
  BY <1>4, RingUnchanged DEF ds_vyukhov_verify, VerifyEnq, VerifyDeq, VerifyCount
<1>5. QED
  BY <1>1, <1>2, <1>3, <1>4 DEF Next

\* In every behaviour of the ring: the positions in use never exceed the
\* capacity, cells change hands only through their sequence numbers, and pops
\* take exactly the items the inserts claimed, in claiming order.
THEOREM RingInvariant == Spec => []RingInv
<1>1. TypeOK /\ TypeOK' /\ RingInv /\ [Next]_vars => RingInv'
  BY RingStep
<1>2. QED
  BY <1>1, RingInit, TypeCorrect, PTL DEF Spec

\* No two threads between their compare-and-swap and their release store ever
\* work on the same cell, so the plain accesses to key and value do not race.
THEOREM CellsDisjoint == Spec => []NoCellRace
<1>1. ASSUME TypeOK, RingInv PROVE NoCellRace
  BY <1>1, ProducerCell, ConsumerCell DEF NoCellRace
<1>2. QED
  BY <1>1, TypeCorrect, RingInvariant, PTL
----------------------------------------------------------------------------
(* The ring implements the abstract bounded queue. *)

\* What a producer holds during a call is an item some caller passed in.
CallerItems == \A p \in Producer : ppc[p] # "idle" => pItem[p] \in Item

LEMMA CallerItemsInv == Spec => []CallerItems
<1>1. Init => CallerItems
  BY DEF Init, CallerItems
<1>2. TypeOK /\ CallerItems /\ [Next]_vars => CallerItems'
  <2> SUFFICES ASSUME TypeOK, CallerItems, [Next]_vars PROVE CallerItems'
    OBVIOUS
  <2>1. CASE UNCHANGED prodVars
    BY <2>1 DEF CallerItems, prodVars
  <2>2. ASSUME NEW p \in Producer, NEW x \in Item, InsertBegin(p, x) PROVE CallerItems'
    BY <2>2 DEF CallerItems, InsertBegin, TypeOK
  <2>3. ASSUME NEW p \in Producer, ppc[p] # "idle", UNCHANGED pItem,
               \A q \in Producer \ {p} : ppc'[q] = ppc[q]
        PROVE CallerItems'
    BY <2>3 DEF CallerItems
  <2>4. ASSUME NEW p \in Producer,
               \/ InsertLoad(p) \/ InsertClaim(p) \/ InsertLose(p) \/ InsertReload(p)
               \/ InsertKey(p) \/ InsertValue(p) \/ InsertPublish(p) \/ InsertCount(p)
        PROVE CallerItems'
    <3>1. ppc[p] # "idle" /\ UNCHANGED pItem
      BY <2>4 DEF InsertLoad, InsertClaim, InsertLose, InsertReload, InsertKey, InsertValue,
         InsertPublish, InsertCount
    <3>2. \A q \in Producer \ {p} : ppc'[q] = ppc[q]
      BY <2>4 DEF TypeOK, InsertLoad, InsertClaim, InsertLose, InsertReload, InsertKey,
         InsertValue, InsertPublish, InsertCount
    <3>3. QED
      BY <2>3, <3>1, <3>2
  <2>5. ASSUME NEW c \in Consumer, ds_vyukhov_pop(c) PROVE UNCHANGED prodVars
    BY <2>5 DEF ds_vyukhov_pop, PopBegin, PopLoad, PopClaim, PopLose, PopReload, PopKey,
       PopValue, PopRelease, PopCount
  <2>6. ASSUME NEW o \in Observer, ds_vyukhov_verify(o) PROVE UNCHANGED prodVars
    BY <2>6 DEF ds_vyukhov_verify, VerifyEnq, VerifyDeq, VerifyCount
  <2>7. QED
    BY <2>1, <2>2, <2>4, <2>5, <2>6 DEF Next, vars, ds_vyukhov_insert
<1>3. QED
  BY <1>1, <1>2, TypeCorrect, PTL DEF Spec

\* A sequence is the function of its elements.
LEMMA SeqAsFunction ==
  ASSUME NEW S, NEW t \in Seq(S) PROVE t = [k \in 1 .. Len(t) |-> t[k]]
  OBVIOUS

\* The claimed and not yet popped items, as a sequence.
LEMMA WaitingType ==
  ASSUME TypeOK, RingInv
  PROVE  /\ Waiting \in Seq(Word) /\ Len(Waiting) = enqueue_pos - dequeue_pos
         /\ \A k \in 1 .. enqueue_pos - dequeue_pos : Waiting[k] = claimed[dequeue_pos + k]
<1> DEFINE n == enqueue_pos - dequeue_pos
<1>1. n \in Nat /\ \A k \in 1 .. n : dequeue_pos + k \in 1 .. Len(claimed)
  BY RingFacts
<1>2. \A k \in 1 .. n : claimed[dequeue_pos + k] \in Word
  BY <1>1, RingFacts
<1>3. QED
  BY <1>1, <1>2 DEF Waiting

\* Every step of the ring is an insert, a pop or a stutter of FifoQueue: insert
\* takes effect at the compare-and-swap of enqueue_pos, pop at that of dequeue_pos.
THEOREM Refinement == Spec => ImplementsFifo
<1>1. Init => Fifo!Init
  <2> SUFFICES ASSUME Init PROVE Waiting = <<>> /\ delivered = <<>>
    BY DEF Fifo!Init
  <2>1. 1 .. enqueue_pos - dequeue_pos = {}
    BY DEF Init
  <2>2. QED
    BY <2>1 DEF Init, Waiting
<1>2. TypeOK /\ TypeOK' /\ RingInv /\ RingInv' /\ CallerItems /\ [Next]_vars
        => [Fifo!Next]_<<Waiting, delivered>>
  <2> SUFFICES ASSUME TypeOK, TypeOK', RingInv, RingInv', CallerItems, [Next]_vars
               PROVE Fifo!Next \/ UNCHANGED <<Waiting, delivered>>
    OBVIOUS
  <2>1. CASE UNCHANGED <<enqueue_pos, dequeue_pos, claimed, delivered>>
    BY <2>1 DEF Waiting
  <2>2. ASSUME NEW p \in Producer, InsertClaim(p) PROVE Fifo!Next
    <3>1. /\ enqueue_pos' = enqueue_pos + 1 /\ dequeue_pos' = dequeue_pos
          /\ claimed' = Append(claimed, pItem[p]) /\ delivered' = delivered
          /\ pItem[p] \in Item /\ pItem[p] \in Word
      BY <2>2 DEF InsertClaim, CallerItems, TypeOK
    <3>2. enqueue_pos' <= dequeue_pos' + Capacity
      BY DEF RingInv, Bounded
    <3>3. Len(Waiting) < Capacity
      BY <3>1, <3>2, RingFacts, WaitingType
    <3>4. Waiting' = Append(Waiting, pItem[p])
      <4> DEFINE n == enqueue_pos - dequeue_pos
      <4>1. /\ n \in Nat /\ enqueue_pos' - dequeue_pos' = n + 1 /\ Len(claimed) = enqueue_pos
            /\ dequeue_pos \in Nat /\ dequeue_pos + (n + 1) = Len(claimed) + 1
            /\ claimed \in Seq(Word)
        BY <3>1, RingFacts
      <4>2. Waiting' = [k \in 1 .. n + 1 |-> claimed'[dequeue_pos + k]]
        BY <3>1, <4>1 DEF Waiting
      <4>3. ASSUME NEW k \in 1 .. n + 1
            PROVE claimed'[dequeue_pos + k] = Append(Waiting, pItem[p])[k]
        <5>1. Waiting \in Seq(Word) /\ Len(Waiting) = n
          BY WaitingType
        <5>2. CASE k = n + 1
          <6>1. Append(Waiting, pItem[p])[k] = pItem[p]
            BY <3>1, <5>1, <5>2
          <6>2. claimed'[dequeue_pos + k] = pItem[p]
            BY <3>1, <4>1, <5>2
          <6>3. QED
            BY <6>1, <6>2
        <5>3. CASE k # n + 1
          <6>1. k \in 1 .. n /\ dequeue_pos + k \in 1 .. Len(claimed)
            BY <4>1, <5>3
          <6>2. Append(Waiting, pItem[p])[k] = Waiting[k]
            BY <3>1, <5>1, <6>1
          <6>3. claimed'[dequeue_pos + k] = claimed[dequeue_pos + k]
            BY <3>1, <4>1, <6>1
          <6>4. QED
            BY <6>1, <6>2, <6>3, WaitingType
        <5>4. QED
          BY <5>2, <5>3
      <4>4. /\ Append(Waiting, pItem[p]) \in Seq(Word) /\ Len(Append(Waiting, pItem[p])) = n + 1
        BY <3>1, WaitingType
      <4>5. Append(Waiting, pItem[p]) = [k \in 1 .. n + 1 |-> Append(Waiting, pItem[p])[k]]
        BY <4>4
      <4> HIDE DEF n
      <4>6. QED
        BY <4>2, <4>3, <4>5
    <3>5. Fifo!Insert(pItem[p])
      BY <3>1, <3>3, <3>4 DEF Fifo!Insert
    <3>6. QED
      BY <3>1, <3>5 DEF Fifo!Next
  <2>3. ASSUME NEW c \in Consumer, PopClaim(c) PROVE Fifo!Next
    <3>1. /\ dequeue_pos' = dequeue_pos + 1 /\ enqueue_pos' = enqueue_pos /\ claimed' = claimed
      BY <2>3 DEF PopClaim
    <3>2. dequeue_pos + 1 <= enqueue_pos
      BY <3>1 DEF RingInv, Bounded
    <3>3. delivered' = Append(delivered, claimed[dequeue_pos + 1])
      <4>1. /\ delivered' = Append(delivered, data[Index(cPos[c])]) /\ delivered \in Seq(Word)
            /\ data[Index(cPos[c])] \in Word
        BY <2>3, RingFacts, IndexInRing DEF PopClaim, TypeOK
      <4>2. Len(delivered) = dequeue_pos /\ dequeue_pos \in Nat
        BY DEF RingInv, ClaimOrder, TypeOK
      <4>3. delivered'[dequeue_pos + 1] = data[Index(cPos[c])]
        BY <4>1, <4>2
      <4>4. \A k \in 1 .. dequeue_pos' : delivered'[k] = claimed'[k]
        BY DEF RingInv, ClaimOrder
      <4>5. dequeue_pos + 1 \in 1 .. dequeue_pos'
        BY <3>1, <4>2
      <4>6. QED
        BY <3>1, <4>1, <4>3, <4>4, <4>5
    <3>4. /\ Waiting # <<>> /\ Head(Waiting) = claimed[dequeue_pos + 1]
      BY <3>2, WaitingType, RingFacts
    <3>5. Waiting' = Tail(Waiting)
      <4> DEFINE n == enqueue_pos - dequeue_pos
      <4>1. /\ n \in Nat \ {0} /\ enqueue_pos' - dequeue_pos' = n - 1 /\ dequeue_pos \in Nat
        BY <3>1, <3>2, RingFacts
      <4>2. Waiting' = [k \in 1 .. n - 1 |-> claimed[dequeue_pos + 1 + k]]
        BY <3>1, <4>1 DEF Waiting
      <4>3. \A k \in 1 .. n - 1 : claimed[dequeue_pos + 1 + k] = Waiting[k + 1]
        <5>1. ASSUME NEW k \in 1 .. n - 1 PROVE claimed[dequeue_pos + 1 + k] = Waiting[k + 1]
          <6>1. k + 1 \in 1 .. n /\ dequeue_pos + (k + 1) = dequeue_pos + 1 + k
            BY <4>1
          <6>2. QED
            BY <6>1, WaitingType
        <5>2. QED
          BY <5>1
      <4>4. Tail(Waiting) = [k \in 1 .. n - 1 |-> Waiting[k + 1]]
        <5>1. Waiting \in Seq(Word) /\ Len(Waiting) = n
          BY WaitingType
        <5>2. /\ Tail(Waiting) \in Seq(Word) /\ Len(Tail(Waiting)) = n - 1
              /\ \A k \in 1 .. n - 1 : Tail(Waiting)[k] = Waiting[k + 1]
          BY <4>1, <5>1
        <5>3. Tail(Waiting) = [k \in 1 .. n - 1 |-> Tail(Waiting)[k]]
          BY <5>2, SeqAsFunction
        <5> HIDE DEF n
        <5>4. QED
          BY <5>2, <5>3
      <4> HIDE DEF n
      <4>5. QED
        BY <4>2, <4>3, <4>4
    <3>6. QED
      BY <3>3, <3>4, <3>5 DEF Fifo!Next, Fifo!Pop
  <2>4. QED
    BY <2>1, <2>2, <2>3
    DEF Next, vars, headVars, histVars, ds_vyukhov_insert,
        InsertBegin, InsertLoad, InsertLose, InsertReload, InsertKey, InsertValue,
        InsertPublish, InsertCount, ds_vyukhov_pop, PopBegin, PopLoad, PopLose,
        PopReload, PopKey, PopValue, PopRelease, PopCount, ds_vyukhov_verify, VerifyEnq,
        VerifyDeq, VerifyCount
<1>3. QED
  BY <1>1, <1>2, TypeCorrect, RingInvariant, CallerItemsInv, PTL
  DEF Spec, ImplementsFifo, Fifo!Spec
----------------------------------------------------------------------------
(* Refusals *)

\* Every position in the ring that is not published yet has a producer inside
\* insert, and every cell of the lap that is not released yet a consumer inside
\* pop: nobody waits for a thread that has left.
TurnInv ==
  /\ \A i \in dequeue_pos .. enqueue_pos - 1 :
       \/ sequence[Index(i)] = i + 1
       \/ \E p \in Producer : ProducerOwns(p) /\ pPos[p] = i
  /\ \A i \in enqueue_pos .. dequeue_pos + Capacity - 1 :
       \/ sequence[Index(i)] = i
       \/ \E c \in Consumer : ConsumerOwns(c) /\ cPos[c] = i - Capacity

\* A step that moves no position, stores no sequence number and makes nobody give
\* up a position.
LEMMA TurnKept ==
  ASSUME TurnInv, UNCHANGED <<enqueue_pos, dequeue_pos, sequence>>,
         \A p \in Producer : ProducerOwns(p) => ProducerOwns(p)' /\ pPos'[p] = pPos[p],
         \A c \in Consumer : ConsumerOwns(c) => ConsumerOwns(c)' /\ cPos'[c] = cPos[c]
  PROVE  TurnInv'
<1>1. ASSUME NEW i \in dequeue_pos .. enqueue_pos - 1
      PROVE  \/ sequence'[Index(i)] = i + 1
             \/ \E p \in Producer : ProducerOwns(p)' /\ pPos'[p] = i
  BY DEF TurnInv
<1>2. ASSUME NEW i \in enqueue_pos .. dequeue_pos + Capacity - 1
      PROVE  \/ sequence'[Index(i)] = i
             \/ \E c \in Consumer : ConsumerOwns(c)' /\ cPos'[c] = i - Capacity
  BY DEF TurnInv
<1>3. QED
  BY <1>1, <1>2 DEF TurnInv, Index

\* A producer claims the next position.
LEMMA TurnInsertClaim ==
  ASSUME TypeOK, RingInv, TurnInv, NEW p \in Producer, InsertClaim(p)
  PROVE  TurnInv'
<1>1. /\ enqueue_pos' = enqueue_pos + 1 /\ pPos[p] = enqueue_pos
      /\ UNCHANGED <<dequeue_pos, sequence, cpc, cPos, pPos>>
  BY DEF InsertClaim, cellVars, consVars
<1>2. /\ ProducerOwns(p)'
      /\ \A q \in Producer : ProducerOwns(q) => ProducerOwns(q)'
  BY DEF InsertClaim, ProducerOwns, TypeOK
<1>3. \A c \in Consumer : ConsumerOwns(c)' = ConsumerOwns(c)
  BY <1>1 DEF ConsumerOwns
<1>4. ASSUME NEW i \in dequeue_pos' .. enqueue_pos' - 1
      PROVE  \/ sequence'[Index(i)] = i + 1
             \/ \E q \in Producer : ProducerOwns(q)' /\ pPos'[q] = i
  <2>1. CASE i = enqueue_pos
    BY <1>1, <1>2, <2>1
  <2>2. CASE i # enqueue_pos
    <3>1. i \in dequeue_pos .. enqueue_pos - 1
      BY <1>1, <2>2, RingBounds
    <3>2. QED
      BY <1>1, <1>2, <3>1 DEF TurnInv
  <2>3. QED
    BY <2>1, <2>2
<1>5. ASSUME NEW i \in enqueue_pos' .. dequeue_pos' + Capacity - 1
      PROVE  \/ sequence'[Index(i)] = i
             \/ \E c \in Consumer : ConsumerOwns(c)' /\ cPos'[c] = i - Capacity
  <2>1. i \in enqueue_pos .. dequeue_pos + Capacity - 1
    BY <1>1, RingBounds
  <2>2. QED
    BY <1>1, <1>3, <2>1 DEF TurnInv
<1>6. QED
  BY <1>4, <1>5 DEF TurnInv, Index

\* A producer publishes its position.
LEMMA TurnInsertPublish ==
  ASSUME TypeOK, RingInv, TurnInv, NEW p \in Producer, InsertPublish(p)
  PROVE  TurnInv'
<1> DEFINE i0 == pPos[p]
<1>1. /\ UNCHANGED <<enqueue_pos, dequeue_pos, cpc, cPos, pPos>> /\ ProducerOwns(p)
      /\ \A q \in Producer \ {p} : ProducerOwns(q)' = ProducerOwns(q)
  BY DEF InsertPublish, ProducerOwns, TypeOK, headVars, consVars
<1>2. i0 \in Nat /\ Index(i0) \in Cell /\ i0 \in dequeue_pos .. enqueue_pos - 1
  BY <1>1, RingFacts, IndexInRing
<1>3. /\ sequence'[Index(i0)] = i0 + 1
      /\ \A k \in Cell : k # Index(i0) => sequence'[k] = sequence[k]
  BY <1>2 DEF InsertPublish, TypeOK
<1> HIDE DEF i0
<1>4. \A i \in dequeue_pos .. dequeue_pos + Capacity - 1 :
        i # i0 => sequence'[Index(i)] = sequence[Index(i)]
  <2>1. ASSUME NEW i \in dequeue_pos .. dequeue_pos + Capacity - 1, i # i0
        PROVE  sequence'[Index(i)] = sequence[Index(i)]
    <3>1. i \in Nat
      BY RingBounds
    <3>2. Index(i) \in Cell /\ Index(i) # Index(i0)
      BY <1>1, <2>1, <3>1, ProducerCell, IndexInRing DEF i0
    <3>3. QED
      BY <1>3, <3>2
  <2>2. QED
    BY <2>1
<1>5. ASSUME NEW i \in dequeue_pos .. enqueue_pos - 1
      PROVE  \/ sequence'[Index(i)] = i + 1
             \/ \E q \in Producer : ProducerOwns(q)' /\ pPos[q] = i
  <2>1. CASE i = i0
    BY <1>3, <2>1
  <2>2. CASE i # i0
    <3>1. i \in dequeue_pos .. dequeue_pos + Capacity - 1
      BY RingBounds
    <3>2. \/ sequence[Index(i)] = i + 1
          \/ \E q \in Producer \ {p} : ProducerOwns(q) /\ pPos[q] = i
      BY <2>2 DEF TurnInv, i0
    <3>3. QED
      BY <1>1, <1>4, <2>2, <3>1, <3>2
  <2>3. QED
    BY <2>1, <2>2
<1>6. ASSUME NEW i \in enqueue_pos .. dequeue_pos + Capacity - 1
      PROVE  \/ sequence'[Index(i)] = i
             \/ \E c \in Consumer : ConsumerOwns(c)' /\ cPos[c] = i - Capacity
  <2>1. i \in dequeue_pos .. dequeue_pos + Capacity - 1 /\ i # i0
    BY <1>2, RingBounds
  <2>2. \/ sequence[Index(i)] = i
        \/ \E c \in Consumer : ConsumerOwns(c) /\ cPos[c] = i - Capacity
    BY DEF TurnInv
  <2>3. \A c \in Consumer : ConsumerOwns(c)' = ConsumerOwns(c)
    BY <1>1 DEF ConsumerOwns
  <2>4. QED
    BY <1>4, <2>1, <2>2, <2>3
<1>7. QED
  BY <1>1, <1>5, <1>6 DEF TurnInv

\* A consumer claims the oldest position.
LEMMA TurnPopClaim ==
  ASSUME TypeOK, RingInv, TurnInv, NEW c \in Consumer, PopClaim(c)
  PROVE  TurnInv'
<1>1. /\ dequeue_pos' = dequeue_pos + 1 /\ cPos[c] = dequeue_pos
      /\ UNCHANGED <<enqueue_pos, sequence, ppc, pPos, cPos>>
  BY DEF PopClaim, cellVars, prodVars
<1>2. /\ ConsumerOwns(c)'
      /\ \A d \in Consumer : ConsumerOwns(d) => ConsumerOwns(d)'
  BY DEF PopClaim, ConsumerOwns, TypeOK
<1>3. \A p \in Producer : ProducerOwns(p)' = ProducerOwns(p)
  BY <1>1 DEF ProducerOwns
<1>4. ASSUME NEW i \in dequeue_pos' .. enqueue_pos' - 1
      PROVE  \/ sequence'[Index(i)] = i + 1
             \/ \E p \in Producer : ProducerOwns(p)' /\ pPos'[p] = i
  <2>1. i \in dequeue_pos .. enqueue_pos - 1
    BY <1>1, RingBounds
  <2>2. QED
    BY <1>1, <1>3, <2>1 DEF TurnInv
<1>5. ASSUME NEW i \in enqueue_pos' .. dequeue_pos' + Capacity - 1
      PROVE  \/ sequence'[Index(i)] = i
             \/ \E d \in Consumer : ConsumerOwns(d)' /\ cPos'[d] = i - Capacity
  <2>1. CASE i = dequeue_pos + Capacity
    <3>1. cPos'[c] = i - Capacity
      BY <1>1, <2>1, RingBounds
    <3>2. QED
      BY <1>2, <3>1
  <2>2. CASE i # dequeue_pos + Capacity
    <3>1. i \in enqueue_pos .. dequeue_pos + Capacity - 1
      BY <1>1, <2>2, RingBounds
    <3>2. QED
      BY <1>1, <1>2, <3>1 DEF TurnInv
  <2>3. QED
    BY <2>1, <2>2
<1>6. QED
  BY <1>4, <1>5 DEF TurnInv, Index

\* A consumer releases its cell.
LEMMA TurnPopRelease ==
  ASSUME TypeOK, RingInv, TurnInv, NEW c \in Consumer, PopRelease(c)
  PROVE  TurnInv'
<1> DEFINE j0 == cPos[c] + Capacity
<1>1. /\ UNCHANGED <<enqueue_pos, dequeue_pos, ppc, pPos, cPos>> /\ ConsumerOwns(c)
      /\ \A d \in Consumer \ {c} : ConsumerOwns(d)' = ConsumerOwns(d)
  BY DEF PopRelease, ConsumerOwns, TypeOK, headVars, prodVars
<1>2. /\ cPos[c] \in Nat /\ Index(cPos[c]) \in Cell
      /\ j0 \in enqueue_pos .. dequeue_pos + Capacity - 1 /\ Index(j0) = Index(cPos[c])
  BY <1>1, RingFacts, IndexInRing, ConsumerCell
<1>3. /\ sequence'[Index(j0)] = j0
      /\ \A k \in Cell : k # Index(j0) => sequence'[k] = sequence[k]
  BY <1>2 DEF PopRelease, TypeOK
<1>4. \A i \in dequeue_pos .. dequeue_pos + Capacity - 1 :
        i # j0 => sequence'[Index(i)] = sequence[Index(i)]
  <2>1. ASSUME NEW i \in dequeue_pos .. dequeue_pos + Capacity - 1, i # j0
        PROVE  sequence'[Index(i)] = sequence[Index(i)]
    <3>1. i \in Nat
      BY RingBounds
    <3>2. Index(i) \in Cell /\ Index(i) # Index(cPos[c])
      BY <1>1, <2>1, <3>1, ConsumerCell, IndexInRing
    <3>3. QED
      BY <1>2, <1>3, <3>2
  <2>2. QED
    BY <2>1
<1>5. j0 - Capacity = cPos[c]
  BY <1>2, RingBounds
<1> HIDE DEF j0
<1>6. ASSUME NEW i \in dequeue_pos .. enqueue_pos - 1
      PROVE  \/ sequence'[Index(i)] = i + 1
             \/ \E p \in Producer : ProducerOwns(p)' /\ pPos'[p] = i
  <2>1. i \in dequeue_pos .. dequeue_pos + Capacity - 1 /\ i # j0
    BY <1>2, RingBounds
  <2>2. \/ sequence[Index(i)] = i + 1
        \/ \E p \in Producer : ProducerOwns(p) /\ pPos[p] = i
    BY DEF TurnInv
  <2>3. \A p \in Producer : ProducerOwns(p)' = ProducerOwns(p)
    BY <1>1 DEF ProducerOwns
  <2>4. QED
    BY <1>1, <1>4, <2>1, <2>2, <2>3
<1>7. ASSUME NEW i \in enqueue_pos .. dequeue_pos + Capacity - 1
      PROVE  \/ sequence'[Index(i)] = i
             \/ \E d \in Consumer : ConsumerOwns(d)' /\ cPos'[d] = i - Capacity
  <2>1. CASE i = j0
    BY <1>3, <2>1
  <2>2. CASE i # j0
    <3>1. i \in dequeue_pos .. dequeue_pos + Capacity - 1 /\ i - Capacity # cPos[c]
      BY <1>2, <1>5, <2>2, RingBounds
    <3>2. \/ sequence[Index(i)] = i
          \/ \E d \in Consumer \ {c} : ConsumerOwns(d) /\ cPos[d] = i - Capacity
      BY <3>1 DEF TurnInv
    <3>3. QED
      BY <1>1, <1>4, <2>2, <3>1, <3>2
  <2>3. QED
    BY <2>1, <2>2
<1>8. QED
  BY <1>1, <1>6, <1>7 DEF TurnInv, Index

\* Whoever is waited for is still inside its call.
LEMMA TurnStep ==
  ASSUME TypeOK, RingInv, TurnInv, [Next]_vars
  PROVE  TurnInv'
<1> USE DEF headVars, cellVars, prodVars, consVars, obsVars, histVars
<1>1. CASE UNCHANGED <<enqueue_pos, dequeue_pos, sequence, prodVars, consVars>>
  BY <1>1, TurnKept DEF ProducerOwns, ConsumerOwns
<1>2. ASSUME NEW p \in Producer, ds_vyukhov_insert(p) PROVE TurnInv'
  <2>1. ASSUME UNCHANGED <<enqueue_pos, dequeue_pos, sequence, consVars>>,
               \A q \in Producer : ProducerOwns(q) => ProducerOwns(q)' /\ pPos'[q] = pPos[q]
        PROVE  TurnInv'
    BY <2>1, TurnKept DEF ConsumerOwns
  <2>2. ASSUME NEW x \in Item, InsertBegin(p, x) PROVE TurnInv'
    BY <2>1, <2>2 DEF InsertBegin, ProducerOwns, TypeOK
  <2>3. CASE InsertLoad(p)
    BY <2>1, <2>3 DEF InsertLoad, ProducerOwns, TypeOK
  <2>4. CASE InsertLose(p)
    BY <2>1, <2>4 DEF InsertLose, ProducerOwns, TypeOK
  <2>5. CASE InsertReload(p)
    BY <2>1, <2>5 DEF InsertReload, ProducerOwns, TypeOK
  <2>6. CASE InsertKey(p)
    BY <2>1, <2>6 DEF InsertKey, ProducerOwns, TypeOK
  <2>7. CASE InsertValue(p)
    BY <2>1, <2>7 DEF InsertValue, ProducerOwns, TypeOK
  <2>8. CASE InsertCount(p)
    BY <2>1, <2>8 DEF InsertCount, ProducerOwns, TypeOK
  <2>9. QED
    BY <1>2, <2>2, <2>3, <2>4, <2>5, <2>6, <2>7, <2>8, TurnInsertClaim, TurnInsertPublish
    DEF ds_vyukhov_insert
<1>3. ASSUME NEW c \in Consumer, ds_vyukhov_pop(c) PROVE TurnInv'
  <2>1. ASSUME UNCHANGED <<enqueue_pos, dequeue_pos, sequence, prodVars>>,
               \A d \in Consumer : ConsumerOwns(d) => ConsumerOwns(d)' /\ cPos'[d] = cPos[d]
        PROVE  TurnInv'
    BY <2>1, TurnKept DEF ProducerOwns
  <2>2. CASE PopBegin(c)
    BY <2>1, <2>2 DEF PopBegin, ConsumerOwns, TypeOK
  <2>3. CASE PopLoad(c)
    BY <2>1, <2>3 DEF PopLoad, ConsumerOwns, TypeOK
  <2>4. CASE PopLose(c)
    BY <2>1, <2>4 DEF PopLose, ConsumerOwns, TypeOK
  <2>5. CASE PopReload(c)
    BY <2>1, <2>5 DEF PopReload, ConsumerOwns, TypeOK
  <2>6. CASE PopKey(c)
    BY <2>1, <2>6 DEF PopKey, ConsumerOwns, TypeOK
  <2>7. CASE PopValue(c)
    BY <2>1, <2>7 DEF PopValue, ConsumerOwns, TypeOK
  <2>8. CASE PopCount(c)
    BY <2>1, <2>8 DEF PopCount, ConsumerOwns, TypeOK
  <2>9. QED
    BY <1>3, <2>2, <2>3, <2>4, <2>5, <2>6, <2>7, <2>8, TurnPopClaim, TurnPopRelease
    DEF ds_vyukhov_pop
<1>4. ASSUME NEW o \in Observer, ds_vyukhov_verify(o) PROVE TurnInv'
  BY <1>1, <1>4 DEF ds_vyukhov_verify, VerifyEnq, VerifyDeq, VerifyCount
<1>5. CASE UNCHANGED vars
  BY <1>1, <1>5 DEF vars
<1>6. QED
  BY <1>2, <1>3, <1>4, <1>5 DEF Next

LEMMA TurnInit == Init => TurnInv
<1> SUFFICES ASSUME Init PROVE TurnInv
  OBVIOUS
<1>1. Capacity \in Nat /\ enqueue_pos = 0 /\ dequeue_pos = 0
  BY CapacityAssumption DEF Init
<1>2. ASSUME NEW i \in 0 .. Capacity - 1 PROVE sequence[Index(i)] = i
  <2>1. i % Capacity = i
    BY CapacityAssumption
  <2>2. QED
    BY <2>1 DEF Init, Cell, Index
<1>3. 0 .. 0 - 1 = {} /\ 0 + Capacity - 1 = Capacity - 1
  BY <1>1
<1>4. QED
  BY <1>1, <1>2, <1>3 DEF TurnInv

\* The cell of a position that was popped is already past it, so a thread that
\* looks with an old position never takes the cell for one that is behind.
LEMMA StalePosition ==
  ASSUME TypeOK, RingInv, NEW j \in Nat, j < dequeue_pos
  PROVE  sequence[Index(j)] > j
<1>1. /\ enqueue_pos \in Nat /\ dequeue_pos \in Nat /\ Capacity \in Nat /\ Capacity > 0
      /\ dequeue_pos <= enqueue_pos /\ enqueue_pos <= dequeue_pos + Capacity
  BY RingBounds
<1>2. PICK i \in dequeue_pos .. dequeue_pos + Capacity - 1 : i % Capacity = j % Capacity
  BY <1>1, EveryCell
<1>3. i \in Nat /\ i >= j + Capacity
  <2>1. i \in Nat /\ j < i
    BY <1>1
  <2>2. QED
    BY <1>1, <1>2, <2>1, SameCell
<1>4. sequence[Index(i)] \in {i, i + 1, i - Capacity + 1}
  <2>1. CASE i < enqueue_pos
    <3>1. i \in dequeue_pos .. enqueue_pos - 1
      BY <1>1, <2>1
    <3>2. QED
      BY <3>1 DEF RingInv, SequenceInv
  <2>2. CASE i >= enqueue_pos
    <3>1. i \in enqueue_pos .. dequeue_pos + Capacity - 1
      BY <1>1, <2>2
    <3>2. QED
      BY <3>1 DEF RingInv, SequenceInv
  <2>3. QED
    BY <1>1, <1>3, <2>1, <2>2
<1>5. sequence[Index(j)] = sequence[Index(i)]
  BY <1>2 DEF Index
<1>6. QED
  BY <1>1, <1>3, <1>4, <1>5

\* Only its own call moves a thread.
LEMMA ConsumerMoves ==
  ASSUME TypeOK, Next, NEW c \in Consumer, cpc'[c] # cpc[c]
  PROVE  ds_vyukhov_pop(c)
<1>1. ASSUME NEW p \in Producer, ds_vyukhov_insert(p) PROVE cpc' = cpc
  BY <1>1 DEF ds_vyukhov_insert, InsertBegin, InsertLoad, InsertClaim, InsertLose, InsertReload,
     InsertKey, InsertValue, InsertPublish, InsertCount, consVars
<1>2. ASSUME NEW o \in Observer, ds_vyukhov_verify(o) PROVE cpc' = cpc
  BY <1>2 DEF ds_vyukhov_verify, VerifyEnq, VerifyDeq, VerifyCount, consVars
<1>3. ASSUME NEW d \in Consumer, ds_vyukhov_pop(d), d # c PROVE FALSE
  <2>1. \E x : cpc' = [cpc EXCEPT ![d] = x]
    BY <1>3 DEF ds_vyukhov_pop, PopBegin, PopLoad, PopClaim, PopLose, PopReload, PopKey, PopValue,
       PopRelease, PopCount
  <2>2. QED
    BY <1>3, <2>1 DEF TypeOK
<1>4. QED
  BY <1>1, <1>2, <1>3 DEF Next

LEMMA ProducerMoves ==
  ASSUME TypeOK, Next, NEW p \in Producer, ppc'[p] # ppc[p]
  PROVE  ds_vyukhov_insert(p)
<1>1. ASSUME NEW c \in Consumer, ds_vyukhov_pop(c) PROVE ppc' = ppc
  BY <1>1 DEF ds_vyukhov_pop, PopBegin, PopLoad, PopClaim, PopLose, PopReload, PopKey, PopValue,
     PopRelease, PopCount, prodVars
<1>2. ASSUME NEW o \in Observer, ds_vyukhov_verify(o) PROVE ppc' = ppc
  BY <1>2 DEF ds_vyukhov_verify, VerifyEnq, VerifyDeq, VerifyCount, prodVars
<1>3. ASSUME NEW q \in Producer, ds_vyukhov_insert(q), q # p PROVE FALSE
  <2>1. \E x : ppc' = [ppc EXCEPT ![q] = x]
    BY <1>3 DEF ds_vyukhov_insert, InsertBegin, InsertLoad, InsertClaim, InsertLose, InsertReload,
       InsertKey, InsertValue, InsertPublish, InsertCount
  <2>2. QED
    BY <1>3, <2>1 DEF TypeOK
<1>4. QED
  BY <1>1, <1>2, <1>3 DEF Next

\* A pop that answers DS_ERROR_NOT_FOUND and an insert that answers DS_ERROR_NOMEM
\* are right, or a named thread is still inside its call; for every capacity and
\* any number of threads, whatever old positions they look with.
THEOREM RefusalsHonest == Spec => HonestRefusals
<1> DEFINE PopHonest(c) == \/ enqueue_pos = dequeue_pos
                           \/ \E p \in Producer : ProducerOwns(p) /\ pPos[p] = dequeue_pos
           InsertHonest(p) == \/ enqueue_pos = dequeue_pos + Capacity
                              \/ \E c \in Consumer : ConsumerOwns(c) /\ cPos[c] = enqueue_pos - Capacity
           Answers == /\ \A c \in Consumer : cpc[c] = "load" /\ cpc'[c] = "idle" => PopHonest(c)
                      /\ \A p \in Producer : ppc[p] = "load" /\ ppc'[p] = "idle" => InsertHonest(p)
<1>1. TypeOK /\ RingInv /\ TurnInv /\ [Next]_vars => [Answers]_vars
  <2> SUFFICES ASSUME TypeOK, RingInv, TurnInv, Next PROVE Answers
    OBVIOUS
  <2>1. /\ enqueue_pos \in Nat /\ dequeue_pos \in Nat /\ Capacity \in Nat
        /\ dequeue_pos <= enqueue_pos /\ enqueue_pos <= dequeue_pos + Capacity
    BY RingBounds
  <2>2. ASSUME NEW c \in Consumer, cpc[c] = "load", cpc'[c] = "idle" PROVE PopHonest(c)
    <3> DEFINE seq == sequence[Index(cPos[c])]
    <3>1. PopLoad(c)
      <4>1. ds_vyukhov_pop(c)
        BY <2>2, ConsumerMoves
      <4>2. QED
        BY <2>2, <4>1 DEF ds_vyukhov_pop, PopBegin, PopClaim, PopLose, PopReload, PopKey, PopValue,
           PopRelease, PopCount
    <3>2. seq - (cPos[c] + 1) < 0
      BY <2>2, <3>1 DEF PopLoad, TypeOK
    <3>3. cPos[c] \in Nat /\ cPos[c] <= dequeue_pos /\ seq \in Int
      BY <2>2, IndexInRing DEF TypeOK, RingInv, CasInv
    <3>4. cPos[c] = dequeue_pos
      <4>1. CASE cPos[c] < dequeue_pos
        <5>1. seq > cPos[c]
          BY <3>3, <4>1, StalePosition
        <5> HIDE DEF seq
        <5>2. QED
          BY <3>2, <3>3, <5>1
      <4>2. QED
        BY <2>1, <3>3, <4>1
    <3>5. CASE dequeue_pos < enqueue_pos
      <4>1. dequeue_pos \in dequeue_pos .. enqueue_pos - 1
        BY <2>1, <3>5
      <4>2. seq # dequeue_pos + 1
        BY <2>1, <3>2, <3>3, <3>4
      <4>3. QED
        BY <3>4, <4>1, <4>2 DEF TurnInv
    <3>6. QED
      BY <2>1, <3>5
  <2>3. ASSUME NEW p \in Producer, ppc[p] = "load", ppc'[p] = "idle" PROVE InsertHonest(p)
    <3> DEFINE seq == sequence[Index(pPos[p])]
    <3>1. InsertLoad(p)
      <4>1. ds_vyukhov_insert(p)
        BY <2>3, ProducerMoves
      <4>2. QED
        BY <2>3, <4>1 DEF ds_vyukhov_insert, InsertBegin, InsertClaim, InsertLose, InsertReload,
           InsertKey, InsertValue, InsertPublish, InsertCount
    <3>2. seq - pPos[p] < 0
      BY <2>3, <3>1 DEF InsertLoad, TypeOK
    <3>3. pPos[p] \in Nat /\ pPos[p] <= enqueue_pos /\ seq \in Int
      BY <2>3, IndexInRing DEF TypeOK, RingInv, CasInv
    <3>4. pPos[p] = enqueue_pos
      <4>1. CASE pPos[p] < dequeue_pos
        <5>1. seq > pPos[p]
          BY <3>3, <4>1, StalePosition
        <5> HIDE DEF seq
        <5>2. QED
          BY <3>2, <3>3, <5>1
      <4>2. CASE pPos[p] >= dequeue_pos /\ pPos[p] < enqueue_pos
        <5>1. pPos[p] \in dequeue_pos .. enqueue_pos - 1
          BY <2>1, <3>3, <4>2
        <5>2. seq \in {pPos[p], pPos[p] + 1}
          BY <5>1 DEF RingInv, SequenceInv
        <5> HIDE DEF seq
        <5>3. QED
          BY <3>2, <3>3, <5>2
      <4>3. QED
        BY <2>1, <3>3, <4>1, <4>2
    <3>5. CASE enqueue_pos < dequeue_pos + Capacity
      <4>1. enqueue_pos \in enqueue_pos .. dequeue_pos + Capacity - 1
        BY <2>1, <3>5
      <4>2. seq # enqueue_pos
        BY <2>1, <3>2, <3>3, <3>4
      <4>3. QED
        BY <3>4, <4>1, <4>2 DEF TurnInv
    <3>6. QED
      BY <2>1, <3>5
  <2>4. QED
    BY <2>2, <2>3
<1>2. TypeOK /\ RingInv /\ TurnInv /\ [Next]_vars => TurnInv'
  BY TurnStep
<1>3. QED
  BY <1>1, <1>2, TurnInit, TypeCorrect, RingInvariant, PTL DEF Spec, HonestRefusals
----------------------------------------------------------------------------
(* The statistics counter and the verification at exit *)

\* The inserts and the pops that own a position or have not counted it.
Claims == {p \in Producer : ppc[p] \in {"key", "value", "publish", "count"}}
Takes == {c \in Consumer : cpc[c] \in {"key", "value", "release", "count"}}
Due == enqueue_pos - dequeue_pos - Cardinality(Claims) + Cardinality(Takes)

\* The counter lags behind the positions by exactly those, modulo 2^64.
CountInv == count = Due % CountModulus

LEMMA CountTypes ==
  ASSUME TypeOK
  PROVE  /\ IsFiniteSet(Claims) /\ Cardinality(Claims) \in Nat
         /\ IsFiniteSet(Takes) /\ Cardinality(Takes) \in Nat
         /\ enqueue_pos \in Nat /\ dequeue_pos \in Nat /\ Due \in Int
         /\ CountModulus \in Nat /\ CountModulus > 0
<1>1. Claims \subseteq Producer /\ Takes \subseteq Consumer
  BY DEF Claims, Takes
<1>2. IsFiniteSet(Claims) /\ IsFiniteSet(Takes)
  BY <1>1, FS_Subset, ThreadAssumption
<1>3. Cardinality(Claims) \in Nat /\ Cardinality(Takes) \in Nat
  BY <1>2, FS_CardinalityType
<1>4. enqueue_pos \in Nat /\ dequeue_pos \in Nat
  BY DEF TypeOK
<1>5. Due \in Int
  BY <1>3, <1>4 DEF Due
<1>6. QED
  BY <1>2, <1>3, <1>4, <1>5, ModulusAssumption, CapacityAssumption

\* One thread's step changes the sets by that thread.
LEMMA ClaimsChange ==
  ASSUME TypeOK, NEW p \in Producer, \A q \in Producer \ {p} : ppc'[q] = ppc[q]
  PROVE  /\ (p \in Claims <=> p \in Claims') => Cardinality(Claims)' = Cardinality(Claims)
         /\ p \notin Claims /\ p \in Claims' => Cardinality(Claims)' = Cardinality(Claims) + 1
         /\ p \in Claims /\ p \notin Claims' => Cardinality(Claims)' = Cardinality(Claims) - 1
<1>1. Claims \subseteq Producer /\ Claims' \subseteq Producer /\ IsFiniteSet(Claims)
  BY CountTypes DEF Claims
<1>2. \A q \in Producer \ {p} : q \in Claims' <=> q \in Claims
  BY DEF Claims
<1>3. ASSUME p \in Claims <=> p \in Claims' PROVE Claims' = Claims
  BY <1>1, <1>2, <1>3
<1>4. ASSUME p \notin Claims, p \in Claims'
      PROVE  Cardinality(Claims)' = Cardinality(Claims) + 1
  <2>1. Claims' = Claims \cup {p}
    BY <1>1, <1>2, <1>4
  <2>2. QED
    BY <1>1, <1>4, <2>1, FS_AddElement
<1>5. ASSUME p \in Claims, p \notin Claims'
      PROVE  Cardinality(Claims)' = Cardinality(Claims) - 1
  <2>1. Claims' = Claims \ {p}
    BY <1>1, <1>2, <1>5
  <2>2. QED
    BY <1>1, <1>5, <2>1, FS_RemoveElement
<1>6. QED
  BY <1>3, <1>4, <1>5

LEMMA TakesChange ==
  ASSUME TypeOK, NEW c \in Consumer, \A d \in Consumer \ {c} : cpc'[d] = cpc[d]
  PROVE  /\ (c \in Takes <=> c \in Takes') => Cardinality(Takes)' = Cardinality(Takes)
         /\ c \notin Takes /\ c \in Takes' => Cardinality(Takes)' = Cardinality(Takes) + 1
         /\ c \in Takes /\ c \notin Takes' => Cardinality(Takes)' = Cardinality(Takes) - 1
<1>1. Takes \subseteq Consumer /\ Takes' \subseteq Consumer /\ IsFiniteSet(Takes)
  BY CountTypes DEF Takes
<1>2. \A d \in Consumer \ {c} : d \in Takes' <=> d \in Takes
  BY DEF Takes
<1>3. ASSUME c \in Takes <=> c \in Takes' PROVE Takes' = Takes
  BY <1>1, <1>2, <1>3
<1>4. ASSUME c \notin Takes, c \in Takes'
      PROVE  Cardinality(Takes)' = Cardinality(Takes) + 1
  <2>1. Takes' = Takes \cup {c}
    BY <1>1, <1>2, <1>4
  <2>2. QED
    BY <1>1, <1>4, <2>1, FS_AddElement
<1>5. ASSUME c \in Takes, c \notin Takes'
      PROVE  Cardinality(Takes)' = Cardinality(Takes) - 1
  <2>1. Takes' = Takes \ {c}
    BY <1>1, <1>2, <1>5
  <2>2. QED
    BY <1>1, <1>5, <2>1, FS_RemoveElement
<1>6. QED
  BY <1>3, <1>4, <1>5

\* The counter moves with what is due, whichever way it wraps.
LEMMA CountFollows ==
  ASSUME TypeOK, CountInv, NEW d \in Int, Due' = Due + d,
         count' = (count + d) % CountModulus
  PROVE  CountInv'
<1>1. Due \in Int /\ CountModulus \in Nat /\ CountModulus > 0
  BY CountTypes
<1>2. count = Due % CountModulus /\ count \in 0 .. CountModulus - 1
  BY <1>1, DivMod DEF CountInv
<1>3. count \in Int /\ count % CountModulus = Due % CountModulus
  BY <1>1, <1>2, FirstLap
<1>4. (count + d) % CountModulus = (Due + d) % CountModulus
  BY <1>1, <1>3, SumOfCells, Zenon
<1>5. QED
  BY <1>4 DEF CountInv

LEMMA CountStep ==
  ASSUME TypeOK, CountInv, [Next]_vars
  PROVE  CountInv'
<1> DEFINE K == Cardinality(Claims)
           T == Cardinality(Takes)
<1>1. /\ K \in Nat /\ T \in Nat /\ enqueue_pos \in Nat /\ dequeue_pos \in Nat
      /\ Due = enqueue_pos - dequeue_pos - K + T
  BY CountTypes DEF Due
<1>2. ASSUME UNCHANGED <<enqueue_pos, dequeue_pos, count>>, K' = K, T' = T PROVE CountInv'
  BY <1>2 DEF CountInv, Due
<1>3. ASSUME NEW p \in Producer, ds_vyukhov_insert(p) PROVE CountInv'
  <2>1. T' = T
    <3>1. cpc' = cpc
      BY <1>3 DEF ds_vyukhov_insert, InsertBegin, InsertLoad, InsertClaim, InsertLose,
         InsertReload, InsertKey, InsertValue, InsertPublish, InsertCount, consVars
    <3>2. Takes' = Takes
      BY <3>1 DEF Takes
    <3>3. QED
      BY <3>2
  <2>2. \A q \in Producer \ {p} : ppc'[q] = ppc[q]
    BY <1>3 DEF TypeOK, ds_vyukhov_insert, InsertBegin, InsertLoad, InsertClaim, InsertLose,
       InsertReload, InsertKey, InsertValue, InsertPublish, InsertCount
  <2>3. CASE InsertClaim(p)
    <3>1. p \notin Claims /\ p \in Claims'
      BY <2>3 DEF InsertClaim, Claims, TypeOK
    <3>2. K' = K + 1
      BY <2>2, <3>1, ClaimsChange
    <3>3. enqueue_pos' = enqueue_pos + 1 /\ UNCHANGED <<dequeue_pos, count>>
      BY <2>3 DEF InsertClaim
    <3>4. Due' = (enqueue_pos + 1) - dequeue_pos - K' + T'
      BY <3>3 DEF Due
    <3> HIDE DEF K, T
    <3>5. Due' = Due
      BY <1>1, <2>1, <3>2, <3>4
    <3>6. QED
      BY <3>3, <3>5 DEF CountInv
  <2>4. CASE InsertCount(p)
    <3>1. p \in Claims /\ p \notin Claims'
      BY <2>4 DEF InsertCount, Claims, TypeOK
    <3>2. K' = K - 1
      BY <2>2, <3>1, ClaimsChange
    <3>3. count' = (count + 1) % CountModulus /\ UNCHANGED <<enqueue_pos, dequeue_pos>>
      BY <2>4 DEF InsertCount
    <3>4. Due' = enqueue_pos - dequeue_pos - K' + T'
      BY <3>3 DEF Due
    <3> HIDE DEF K, T
    <3>5. Due' = Due + 1
      BY <1>1, <2>1, <3>2, <3>4
    <3>6. QED
      BY <3>3, <3>5, CountFollows
  <2>5. CASE ~InsertClaim(p) /\ ~InsertCount(p)
    <3>1. /\ UNCHANGED headVars
          /\ p \in Claims <=> p \in Claims'
      BY <1>3, <2>5 DEF TypeOK, ds_vyukhov_insert, InsertBegin, InsertLoad, InsertLose,
         InsertReload, InsertKey, InsertValue, InsertPublish, Claims
    <3>2. K' = K
      BY <2>2, <3>1, ClaimsChange
    <3>3. QED
      BY <1>2, <2>1, <3>1, <3>2 DEF headVars
  <2>6. QED
    BY <2>3, <2>4, <2>5
<1>4. ASSUME NEW c \in Consumer, ds_vyukhov_pop(c) PROVE CountInv'
  <2>1. K' = K
    <3>1. ppc' = ppc
      BY <1>4 DEF ds_vyukhov_pop, PopBegin, PopLoad, PopClaim, PopLose, PopReload, PopKey,
         PopValue, PopRelease, PopCount, prodVars
    <3>2. Claims' = Claims
      BY <3>1 DEF Claims
    <3>3. QED
      BY <3>2
  <2>2. \A d \in Consumer \ {c} : cpc'[d] = cpc[d]
    BY <1>4 DEF TypeOK, ds_vyukhov_pop, PopBegin, PopLoad, PopClaim, PopLose, PopReload, PopKey,
       PopValue, PopRelease, PopCount
  <2>3. CASE PopClaim(c)
    <3>1. c \notin Takes /\ c \in Takes'
      BY <2>3 DEF PopClaim, Takes, TypeOK
    <3>2. T' = T + 1
      BY <2>2, <3>1, TakesChange
    <3>3. dequeue_pos' = dequeue_pos + 1 /\ UNCHANGED <<enqueue_pos, count>>
      BY <2>3 DEF PopClaim
    <3>4. Due' = enqueue_pos - (dequeue_pos + 1) - K' + T'
      BY <3>3 DEF Due
    <3> HIDE DEF K, T
    <3>5. Due' = Due
      BY <1>1, <2>1, <3>2, <3>4
    <3>6. QED
      BY <3>3, <3>5 DEF CountInv
  <2>4. CASE PopCount(c)
    <3>1. c \in Takes /\ c \notin Takes'
      BY <2>4 DEF PopCount, Takes, TypeOK
    <3>2. T' = T - 1
      BY <2>2, <3>1, TakesChange
    <3>3. count' = (count - 1) % CountModulus /\ UNCHANGED <<enqueue_pos, dequeue_pos>>
      BY <2>4 DEF PopCount
    <3>4. Due' = enqueue_pos - dequeue_pos - K' + T'
      BY <3>3 DEF Due
    <3> HIDE DEF K, T
    <3>5. Due' = Due + (-1) /\ -1 \in Int
      BY <1>1, <2>1, <3>2, <3>4
    <3>6. count - 1 = count + (-1)
      BY DEF TypeOK
    <3>7. count' = (count + (-1)) % CountModulus
      BY <3>3, <3>6
    <3>8. QED
      BY <3>5, <3>7, CountFollows
  <2>5. CASE ~PopClaim(c) /\ ~PopCount(c)
    <3>1. /\ UNCHANGED headVars
          /\ c \in Takes <=> c \in Takes'
      BY <1>4, <2>5 DEF TypeOK, ds_vyukhov_pop, PopBegin, PopLoad, PopLose, PopReload, PopKey,
         PopValue, PopRelease, Takes
    <3>2. T' = T
      BY <2>2, <3>1, TakesChange
    <3>3. QED
      BY <1>2, <2>1, <3>1, <3>2 DEF headVars
  <2>6. QED
    BY <2>3, <2>4, <2>5
<1>5. ASSUME UNCHANGED <<headVars, prodVars, consVars>> PROVE CountInv'
  BY <1>5 DEF CountInv, Due, Claims, Takes, headVars, prodVars, consVars
<1>6. ASSUME NEW o \in Observer, ds_vyukhov_verify(o) PROVE CountInv'
  BY <1>5, <1>6 DEF ds_vyukhov_verify, VerifyEnq, VerifyDeq, VerifyCount
<1>7. QED
  BY <1>3, <1>4, <1>5, <1>6 DEF Next, vars

LEMMA CountInit == Init => CountInv
<1> SUFFICES ASSUME Init PROVE CountInv
  OBVIOUS
<1>1. Claims = {} /\ Takes = {}
  BY DEF Init, Claims, Takes
<1>2. Due = 0
  BY <1>1, FS_EmptySet DEF Init, Due
<1>3. 0 % CountModulus = 0
  BY ModulusAssumption, CapacityAssumption, FirstLap
<1>4. QED
  BY <1>2, <1>3 DEF Init, CountInv

\* What the verifying thread has loaded while no pop is in progress.
VerifyInv ==
  \A o \in Observer :
    /\ opc[o] # "idle" =>
         /\ dequeue_pos <= oEnq[o] /\ oEnq[o] <= dequeue_pos + Capacity
         /\ \A c \in Consumer : cpc[c] = "idle"
    /\ opc[o] = "count" => oDeq[o] = dequeue_pos

LEMMA VerifyStep ==
  ASSUME TypeOK, RingInv, VerifyInv, Next, RelayJoined
  PROVE  VerifyInv'
<1> SUFFICES ASSUME NEW o \in Observer, opc'[o] # "idle"
             PROVE  /\ dequeue_pos' <= oEnq'[o] /\ oEnq'[o] <= dequeue_pos' + Capacity
                    /\ \A c \in Consumer : cpc'[c] = "idle"
                    /\ opc'[o] = "count" => oDeq'[o] = dequeue_pos'
  BY DEF VerifyInv
<1>1. UNCHANGED consVars /\ \A c \in Consumer : cpc[c] = "idle"
  BY DEF RelayJoined
<1>2. dequeue_pos' = dequeue_pos
  <2>1. ASSUME NEW c \in Consumer, ds_vyukhov_pop(c) PROVE dequeue_pos' = dequeue_pos
    <3>1. PopBegin(c)
      BY <1>1, <2>1 DEF ds_vyukhov_pop, PopBegin, PopLoad, PopClaim, PopLose, PopReload, PopKey,
         PopValue, PopRelease, PopCount
    <3>2. QED
      BY <3>1 DEF PopBegin, headVars
  <2>2. ASSUME NEW p \in Producer, ds_vyukhov_insert(p) PROVE dequeue_pos' = dequeue_pos
    BY <2>2 DEF ds_vyukhov_insert, InsertBegin, InsertLoad, InsertClaim, InsertLose,
       InsertReload, InsertKey, InsertValue, InsertPublish, InsertCount, headVars
  <2>3. ASSUME NEW q \in Observer, ds_vyukhov_verify(q) PROVE dequeue_pos' = dequeue_pos
    BY <2>3 DEF ds_vyukhov_verify, VerifyEnq, VerifyDeq, VerifyCount, headVars
  <2>4. QED
    BY <2>1, <2>2, <2>3 DEF Next
<1>3. \A c \in Consumer : cpc'[c] = "idle"
  BY <1>1 DEF consVars
<1>4. CASE VerifyEnq(o)
  <2>1. oEnq'[o] = enqueue_pos /\ opc'[o] = "deq"
    BY <1>4 DEF VerifyEnq, TypeOK
  <2>2. QED
    BY <1>2, <1>3, <2>1, RingBounds
<1>5. CASE VerifyDeq(o)
  <2>1. oDeq'[o] = dequeue_pos /\ oEnq' = oEnq /\ opc[o] = "deq"
    BY <1>5 DEF VerifyDeq, TypeOK
  <2>2. QED
    BY <1>2, <1>3, <2>1 DEF VerifyInv
<1>6. CASE ~VerifyEnq(o) /\ ~VerifyDeq(o)
  <2>1. opc'[o] = opc[o] /\ oEnq'[o] = oEnq[o] /\ oDeq'[o] = oDeq[o]
    <3>1. ASSUME NEW c \in Consumer, ds_vyukhov_pop(c) PROVE UNCHANGED obsVars
      BY <3>1 DEF ds_vyukhov_pop, PopBegin, PopLoad, PopClaim, PopLose, PopReload, PopKey,
         PopValue, PopRelease, PopCount
    <3>2. ASSUME NEW p \in Producer, ds_vyukhov_insert(p) PROVE UNCHANGED obsVars
      BY <3>2 DEF ds_vyukhov_insert, InsertBegin, InsertLoad, InsertClaim, InsertLose,
         InsertReload, InsertKey, InsertValue, InsertPublish, InsertCount
    <3>3. ASSUME NEW q \in Observer, q # o, ds_vyukhov_verify(q)
          PROVE  opc'[o] = opc[o] /\ oEnq'[o] = oEnq[o] /\ oDeq'[o] = oDeq[o]
      BY <3>3 DEF ds_vyukhov_verify, VerifyEnq, VerifyDeq, VerifyCount, TypeOK
    <3>4. ~VerifyCount(o)
      BY DEF VerifyCount, TypeOK
    <3>5. QED
      BY <1>6, <3>1, <3>2, <3>3, <3>4 DEF Next, ds_vyukhov_verify, obsVars
  <2>2. QED
    BY <1>2, <1>3, <2>1 DEF VerifyInv
<1>7. QED
  BY <1>4, <1>5, <1>6

\* The inserts that own a position own different ones, all in the ring.
LEMMA ClaimsFit ==
  ASSUME TypeOK, RingInv, \A p \in Producer : ppc[p] # "count"
  PROVE  Cardinality(Claims) <= enqueue_pos - dequeue_pos
<1> DEFINE Span == dequeue_pos .. enqueue_pos - 1
           f == [p \in Claims |-> pPos[p]]
<1>1. \A p \in Claims : p \in Producer /\ ProducerOwns(p)
  BY DEF Claims, ProducerOwns
<1>2. f \in [Claims -> Span]
  BY <1>1 DEF RingInv, SequenceInv
<1>3. \A p, q \in Claims : f[p] = f[q] => p = q
  BY <1>1 DEF RingInv, OwnerInv
<1> HIDE DEF f
<1>4. f \in Injection(Claims, Span)
  BY <1>2, <1>3 DEF Injection, IsInjective
<1>5. /\ enqueue_pos \in Nat /\ dequeue_pos \in Nat /\ dequeue_pos <= enqueue_pos
  BY RingBounds
<1>6. IsFiniteSet(Span) /\ Cardinality(Span) = enqueue_pos - dequeue_pos
  <2>1. enqueue_pos - 1 \in Int /\ dequeue_pos \in Int
    BY <1>5
  <2>2. /\ IsFiniteSet(Span)
        /\ Cardinality(Span) =
             IF dequeue_pos > enqueue_pos - 1 THEN 0 ELSE (enqueue_pos - 1) - dequeue_pos + 1
    BY <2>1, FS_Interval
  <2> HIDE DEF Span
  <2>3. QED
    BY <1>5, <2>2
<1>7. QED
  BY <1>4, <1>6, FS_Injection

LEMMA CorruptStep ==
  ASSUME TypeOK, RingInv, CountInv, VerifyInv, Next, NEW o \in Observer,
         opc[o] = "count", opc'[o] = "idle", oCorrupt'[o]
  PROVE  /\ oDeq[o] <= oEnq[o] /\ oEnq[o] - oDeq[o] <= Capacity
         /\ \E p \in Producer : ppc[p] = "count"
<1>1. VerifyCount(o)
  <2>1. ASSUME NEW c \in Consumer, ds_vyukhov_pop(c) PROVE opc' = opc
    BY <2>1 DEF ds_vyukhov_pop, PopBegin, PopLoad, PopClaim, PopLose, PopReload, PopKey,
       PopValue, PopRelease, PopCount, obsVars
  <2>2. ASSUME NEW p \in Producer, ds_vyukhov_insert(p) PROVE opc' = opc
    BY <2>2 DEF ds_vyukhov_insert, InsertBegin, InsertLoad, InsertClaim, InsertLose,
       InsertReload, InsertKey, InsertValue, InsertPublish, InsertCount, obsVars
  <2>3. ASSUME NEW q \in Observer, q # o, ds_vyukhov_verify(q) PROVE opc'[o] = opc[o]
    BY <2>3 DEF ds_vyukhov_verify, VerifyEnq, VerifyDeq, VerifyCount, TypeOK
  <2>4. PICK q \in Observer : ds_vyukhov_verify(q)
    BY <2>1, <2>2 DEF Next
  <2>5. QED
    BY <2>3, <2>4 DEF ds_vyukhov_verify, VerifyEnq, VerifyDeq
<1>2. \/ oDeq[o] > oEnq[o]
      \/ oEnq[o] - oDeq[o] > Capacity
      \/ count > Capacity
  <2>1. oCorrupt' = [oCorrupt EXCEPT ![o] = \/ oDeq[o] > oEnq[o]
                                           \/ oEnq[o] - oDeq[o] > Capacity
                                           \/ count > Capacity]
    BY <1>1 DEF VerifyCount
  <2>2. oCorrupt \in [Observer -> BOOLEAN]
    BY DEF TypeOK
  <2>3. QED
    BY <2>1, <2>2, Zenon
<1>3. /\ oDeq[o] = dequeue_pos /\ dequeue_pos <= oEnq[o] /\ oEnq[o] <= dequeue_pos + Capacity
      /\ \A c \in Consumer : cpc[c] = "idle"
  BY DEF VerifyInv
<1>4. oEnq[o] \in Nat /\ Capacity \in Nat
  BY CapacityAssumption DEF TypeOK
<1>5. ASSUME \A p \in Producer : ppc[p] # "count" PROVE count <= Capacity
  <2> DEFINE K == Cardinality(Claims)
  <2>1. /\ K \in Nat /\ enqueue_pos \in Nat /\ dequeue_pos \in Nat
        /\ CountModulus \in Nat /\ CountModulus > 0 /\ CountModulus > Capacity
    BY CountTypes, ModulusAssumption
  <2>2. K <= enqueue_pos - dequeue_pos /\ enqueue_pos <= dequeue_pos + Capacity
    BY <1>5, ClaimsFit, RingBounds
  <2>3. Takes = {}
    BY <1>3 DEF Takes
  <2>4. Due = enqueue_pos - dequeue_pos - K + 0
    BY <2>3, FS_EmptySet DEF Due
  <2> HIDE DEF K
  <2>5. Due \in 0 .. CountModulus - 1 /\ Due <= Capacity
    BY <1>4, <2>1, <2>2, <2>4
  <2>6. Due % CountModulus = Due
    BY <2>1, <2>5, FirstLap
  <2>7. QED
    BY <2>5, <2>6 DEF CountInv
<1>6. count \in Nat /\ dequeue_pos \in Nat
  BY DEF TypeOK
<1>7. QED
  BY <1>2, <1>3, <1>4, <1>5, <1>6

\* When main verifies after it has joined the relay thread, the tests of the two
\* positions never fail, and the one of the counter fails only while some insert of
\* the kernel has published its cell and not yet counted it.
THEOREM CorruptNeedsInsert == ExitSpec => CorruptOnlyFromCount
<1> DEFINE Explained == \A o \in Observer : opc[o] = "count" /\ opc'[o] = "idle" /\ oCorrupt'[o] =>
             /\ oDeq[o] <= oEnq[o] /\ oEnq[o] - oDeq[o] <= Capacity
             /\ \E p \in Producer : ppc[p] = "count"
<1>1. ExitSpec => Spec
  BY PTL DEF ExitSpec, Spec
<1>2. Init => VerifyInv
  BY DEF Init, VerifyInv
<1>3. TypeOK /\ RingInv /\ VerifyInv /\ [Next /\ RelayJoined]_vars => VerifyInv'
  <2> SUFFICES ASSUME VerifyInv, UNCHANGED vars PROVE VerifyInv'
    BY VerifyStep
  <2>1. QED
    BY DEF VerifyInv, vars, headVars, consVars, obsVars
<1>4. TypeOK /\ CountInv /\ [Next]_vars => CountInv'
  BY CountStep
<1>5. TypeOK /\ RingInv /\ CountInv /\ VerifyInv /\ [Next]_vars => [Explained]_vars
  BY CorruptStep
<1>6. QED
  BY <1>1, <1>2, <1>3, <1>4, <1>5, CountInit, TypeCorrect, RingInvariant, PTL
     DEF ExitSpec, Spec, CorruptOnlyFromCount
=============================================================================
