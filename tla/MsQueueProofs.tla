--------------------------- MODULE MsQueueProofs ---------------------------
(***************************************************************************)
(* Proofs about the Michael-Scott queue for any number of producers,       *)
(* consumers, nodes and retries.                                           *)
(*                                                                         *)
(* The argument places every node a thread holds at its position in order, *)
(* the linking order.  Positions only grow: that of head is Popped + 1,    *)
(* that of tail is the last or the last but one, and what a thread has     *)
(* loaded is behind them.  So a compare-and-swap that succeeds finds the   *)
(* position unchanged, and with it everything loaded since.                *)
(***************************************************************************)
EXTENDS MsQueue, RingArith, FiniteSetTheorems, SequenceTheorems, WellFoundedInduction, TLAPS

\* The position of tail: the last node, or the one before it.
Last == Len(order)
TailPos == IF tail = order[Last] THEN Last ELSE Last - 1

\* The list of the nodes ever linked.
ChainInv ==
  /\ Popped < Last /\ head = order[Popped + 1]
  /\ \A j, k \in 1 .. Last : order[j] = order[k] => j = k
  /\ \A k \in 1 .. Last : order[k] <= allocated
  /\ \A k \in 1 .. Last - 1 : next[order[k]] = order[k + 1]
  /\ next[order[Last]] = Null
  /\ \A k \in 2 .. Last : elem[order[k]] \in Producer

TailInv == TailPos >= Popped + 1 /\ tail = order[TailPos]

\* Nodes are freed after they were popped, or when an insert gives up.
FreedInv ==
  /\ \A n \in freed : n <= allocated
  /\ \A k \in Popped + 1 .. Last : order[k] \notin freed

\* A node whose insert has not linked it.
Holds(p) == prod[p].pc \in {"tail", "next", "help", "link"}
PrivateInv ==
  /\ \A p \in Producer : Holds(p) =>
       /\ prod[p].node \in 1 .. allocated /\ prod[p].node \notin freed
       /\ \A k \in 1 .. Last : order[k] # prod[p].node
       /\ next[prod[p].node] = Null /\ elem[prod[p].node] = p
  /\ \A p, q \in Producer : Holds(p) /\ Holds(q) /\ prod[p].node = prod[q].node => p = q

\* What a producer has loaded, by the position j of its tail.
InAdd(p) == prod[p].pc \in {"next", "help", "link", "count", "swing"}
ProducerAt(p, j) ==
  /\ prod[p].tail = order[j]
  /\ prod[p].pc = "help" => j < Last /\ prod[p].next = order[j + 1]
  /\ prod[p].pc \in {"count", "swing"} => j < Last /\ prod[p].node = order[j + 1]
ProducerInv ==
  \A p \in Producer : InAdd(p) => \E j \in 1 .. TailPos : ProducerAt(p, j)

\* A tail that lags is brought up by the insert that linked the last node.
LagInv ==
  TailPos < Last =>
    \E p \in Producer : prod[p].pc \in {"count", "swing"} /\ prod[p].node = order[Last]

\* What a consumer has loaded, by the positions j of its head and i of its tail.
ConsumerAt(c, j, i) ==
  /\ cons[c].head = order[j]
  /\ cons[c].pc # "tail" => cons[c].tail = order[i] /\ j <= i /\ i <= TailPos
  /\ cons[c].pc = "check" /\ j = Popped + 1 =>
       \/ cons[c].next = Null /\ cons[c].empty
       \/ j < Last /\ cons[c].next = order[j + 1]
  /\ cons[c].pc \in {"help", "data", "swing"} => j < Last /\ cons[c].next = order[j + 1]
  /\ cons[c].pc = "help" => i = j
  /\ cons[c].pc \in {"data", "swing"} => j < i
  /\ cons[c].pc = "swing" /\ j = Popped + 1 => cons[c].data = elem[order[j + 1]]

InPop(c) == cons[c].pc \in {"tail", "next", "check", "help", "data", "swing"}
ConsumerInv ==
  \A c \in Consumer : InPop(c) =>
    \E j \in 1 .. Popped + 1 : \E i \in 1 .. Last : ConsumerAt(c, j, i)

\* The counter lags behind by the inserts and the pops that have not updated it.
InsertsUncounted == {p \in Producer : prod[p].pc = "count"}
PopsUncounted == {c \in Consumer : cons[c].pc = "count"}
Due == Last - 1 - Popped - Cardinality(InsertsUncounted) + Cardinality(PopsUncounted)
CountInv == count = Due % CountModulus

Inv ==
  /\ TypeOK /\ ChainInv /\ TailInv /\ FreedInv /\ PrivateInv /\ ProducerInv /\ LagInv
  /\ ConsumerInv /\ CountInv
----------------------------------------------------------------------------
(* Positions *)

LEMMA Types ==
  ASSUME TypeOK
  PROVE  /\ Last \in Nat /\ Popped \in Nat /\ allocated \in Nat /\ MaxNodes \in Nat
         /\ \A k \in 1 .. Last : order[k] \in Node /\ order[k] # Null /\ order[k] \in Int
         /\ \A p \in Producer : prod[p] \in ProducerRecord
         /\ \A c \in Consumer : cons[c] \in ConsumerRecord
  BY BoundsAssumption DEF TypeOK, Last, Popped, Node, Null

LEMMA Positions ==
  ASSUME TypeOK, ChainInv, TailInv
  PROVE  /\ Last \in Nat /\ Popped \in Nat /\ TailPos \in Nat /\ Last >= 1
         /\ Popped + 1 <= TailPos /\ TailPos <= Last /\ Last - 1 <= TailPos
         /\ tail = order[TailPos] /\ head = order[Popped + 1]
<1>1. Last \in Nat /\ Popped \in Nat
  BY Types
<1>2. Popped < Last /\ head = order[Popped + 1] /\ TailPos >= Popped + 1 /\ tail = order[TailPos]
  BY DEF ChainInv, TailInv
<1>3. TailPos = Last \/ TailPos = Last - 1
  BY DEF TailPos
<1>4. QED
  BY <1>1, <1>2, <1>3

\* A node is linked once.
LEMMA OnePosition ==
  ASSUME ChainInv, NEW j \in 1 .. Last, NEW k \in 1 .. Last, order[j] = order[k]
  PROVE  j = k
  BY DEF ChainInv

\* Following a link that is set leads to the next position.
LEMMA LinkOf ==
  ASSUME TypeOK, ChainInv, NEW k \in 1 .. Last
  PROVE  /\ k < Last => next[order[k]] = order[k + 1] /\ next[order[k]] # Null
         /\ k = Last => next[order[k]] = Null
<1>1. Last \in Nat /\ \A i \in 1 .. Last : order[i] # Null
  BY Types
<1>2. ASSUME k < Last PROVE next[order[k]] = order[k + 1] /\ next[order[k]] # Null
  <2>1. k \in 1 .. Last - 1 /\ k + 1 \in 1 .. Last
    BY <1>1, <1>2
  <2>2. QED
    BY <1>1, <2>1 DEF ChainInv
<1>3. QED
  BY <1>2 DEF ChainInv

\* A position of the tail is the position of the tail.
LEMMA TailAt ==
  ASSUME TypeOK, ChainInv, TailInv, NEW j \in 1 .. Last, tail = order[j]
  PROVE  j = TailPos
<1>1. TailPos \in 1 .. Last /\ tail = order[TailPos]
  BY Positions
<1>2. QED
  BY <1>1, OnePosition
----------------------------------------------------------------------------
(* What one thread's step leaves to the others *)

Grows ==
  /\ Last' \in Nat /\ Last <= Last' /\ \A k \in 1 .. Last : order'[k] = order[k]
  /\ Popped' \in Nat /\ Popped <= Popped' /\ TailPos' \in Nat /\ TailPos <= TailPos'
  /\ \A k \in 1 .. Last : elem'[order[k]] = elem[order[k]]

LEMMA ProducerKept ==
  ASSUME Inv, Grows, NEW p \in Producer, prod'[p] = prod[p]
  PROVE  (InAdd(p) => \E j \in 1 .. TailPos : ProducerAt(p, j))'
<1> SUFFICES ASSUME InAdd(p)' PROVE \E j \in 1 .. TailPos' : ProducerAt(p, j)'
  OBVIOUS
<1>1. InAdd(p)
  BY DEF InAdd
<1>2. PICK j \in 1 .. TailPos : ProducerAt(p, j)
  BY <1>1 DEF Inv, ProducerInv
<1>3. /\ Last \in Nat /\ TailPos \in Nat /\ TailPos <= Last
      /\ Last' \in Nat /\ Last <= Last' /\ TailPos' \in Nat /\ TailPos <= TailPos'
  BY Positions DEF Inv, Grows
<1>4. j \in 1 .. Last /\ j \in 1 .. TailPos' /\ (j < Last => j < Last' /\ j + 1 \in 1 .. Last)
  BY <1>3
<1>5. order'[j] = order[j] /\ (j < Last => order'[j + 1] = order[j + 1])
  BY <1>4 DEF Grows
<1>6. ProducerAt(p, j)'
  BY <1>2, <1>4, <1>5 DEF ProducerAt
<1>7. QED
  BY <1>4, <1>6

LEMMA ConsumerKept ==
  ASSUME Inv, Grows, NEW c \in Consumer, cons'[c] = cons[c]
  PROVE  (InPop(c) => \E j \in 1 .. Popped + 1 : \E i \in 1 .. Last : ConsumerAt(c, j, i))'
<1> SUFFICES ASSUME InPop(c)'
             PROVE  \E j \in 1 .. Popped' + 1 : \E i \in 1 .. Last' : ConsumerAt(c, j, i)'
  OBVIOUS
<1>1. InPop(c)
  BY DEF InPop
<1>2. PICK j \in 1 .. Popped + 1 : \E i \in 1 .. Last : ConsumerAt(c, j, i)
  BY <1>1 DEF Inv, ConsumerInv
<1>3. PICK i \in 1 .. Last : ConsumerAt(c, j, i)
  BY <1>2
<1> DEFINE P == Popped'
<1>4. /\ Last \in Nat /\ TailPos \in Nat /\ TailPos <= Last /\ Popped \in Nat /\ Popped + 1 <= Last
      /\ Last' \in Nat /\ Last <= Last' /\ TailPos' \in Nat /\ TailPos <= TailPos'
      /\ P \in Nat /\ Popped <= P
  BY Positions DEF Inv, Grows
<1> HIDE DEF P
<1>5. /\ j \in 1 .. Last /\ j \in 1 .. P + 1 /\ (j < Last => j < Last' /\ j + 1 \in 1 .. Last)
      /\ (j = P + 1 => j = Popped + 1) /\ i \in 1 .. Last'
      /\ (i <= TailPos => i <= TailPos')
  BY <1>4
<1>6. /\ order'[j] = order[j] /\ order'[i] = order[i]
      /\ (j < Last => order'[j + 1] = order[j + 1] /\ elem'[order[j + 1]] = elem[order[j + 1]])
  BY <1>5 DEF Grows
<1>7. ConsumerAt(c, j, i)'
  BY <1>3, <1>5, <1>6 DEF ConsumerAt, P
<1>8. QED
  BY <1>5, <1>7 DEF P

\* Only thread p takes a step, or only thread c.
OnlyProducer(p) ==
  /\ prod' \in [Producer -> ProducerRecord] /\ UNCHANGED cons
  /\ \A q \in Producer : q # p => prod'[q] = prod[q]
OnlyConsumer(c) ==
  /\ cons' \in [Consumer -> ConsumerRecord] /\ UNCHANGED prod
  /\ \A d \in Consumer : d # c => cons'[d] = cons[d]

LEMMA OtherProducers ==
  ASSUME Inv, Grows, NEW p \in Producer, OnlyProducer(p),
         InAdd(p)' => \E j \in 1 .. TailPos' : ProducerAt(p, j)'
  PROVE  ProducerInv' /\ ConsumerInv'
<1>1. \A q \in Producer : (InAdd(q) => \E j \in 1 .. TailPos : ProducerAt(q, j))'
  <2> SUFFICES ASSUME NEW q \in Producer, q # p
               PROVE (InAdd(q) => \E j \in 1 .. TailPos : ProducerAt(q, j))'
    OBVIOUS
  <2>1. prod'[q] = prod[q]
    BY DEF OnlyProducer
  <2>2. QED
    BY <2>1, ProducerKept
<1>2. ConsumerInv'
  BY ConsumerKept DEF OnlyProducer, ConsumerInv
<1>3. QED
  BY <1>1, <1>2 DEF ProducerInv

LEMMA OtherConsumers ==
  ASSUME Inv, Grows, NEW c \in Consumer, OnlyConsumer(c),
         InPop(c)' => \E j \in 1 .. Popped' + 1 : \E i \in 1 .. Last' : ConsumerAt(c, j, i)'
  PROVE  ProducerInv' /\ ConsumerInv'
<1>1. \A d \in Consumer :
        (InPop(d) => \E j \in 1 .. Popped + 1 : \E i \in 1 .. Last : ConsumerAt(d, j, i))'
  <2> SUFFICES ASSUME NEW d \in Consumer, d # c
      PROVE (InPop(d) => \E j \in 1 .. Popped + 1 : \E i \in 1 .. Last : ConsumerAt(d, j, i))'
    OBVIOUS
  <2>1. cons'[d] = cons[d]
    BY DEF OnlyConsumer
  <2>2. QED
    BY <2>1, ConsumerKept
<1>2. ProducerInv'
  BY ProducerKept DEF OnlyConsumer, ProducerInv
<1>3. QED
  BY <1>1, <1>2 DEF ConsumerInv

\* The list itself is not touched.
listVars == <<head, tail, next, elem, allocated, order, delivered>>

LEMMA ListKept ==
  ASSUME Inv, UNCHANGED listVars
  PROVE  /\ Grows /\ ChainInv' /\ TailInv'
         /\ Last' = Last /\ Popped' = Popped /\ TailPos' = TailPos
<1>1. Last' = Last /\ Popped' = Popped /\ TailPos' = TailPos
  BY DEF listVars, Last, Popped, TailPos
<1>2. Last \in Nat /\ Popped \in Nat /\ TailPos \in Nat
  BY Positions DEF Inv
<1>3. Grows
  BY <1>1, <1>2 DEF Grows, listVars
<1>4. ChainInv' /\ TailInv'
  BY <1>1 DEF Inv, ChainInv, TailInv, listVars
<1>5. QED
  BY <1>1, <1>3, <1>4

\* A step of p that links nothing keeps the private nodes private, also when p
\* gives up and frees its own.
LEMMA PrivateKept ==
  ASSUME Inv, NEW p \in Producer, OnlyProducer(p), UNCHANGED <<next, elem, allocated, order, delivered>>,
         Holds(p)' => Holds(p) /\ prod'[p].node = prod[p].node,
         \/ freed' = freed
         \/ Holds(p) /\ ~Holds(p)' /\ freed' = freed \cup {prod[p].node}
  PROVE  PrivateInv' /\ FreedInv' /\ freed' \subseteq Node
<1>1. PrivateInv /\ FreedInv /\ TypeOK /\ Last \in Nat /\ Popped \in Nat
  BY Types DEF Inv
<1>2. Last' = Last /\ Popped' = Popped
  BY DEF Last, Popped
<1>3. \A q \in Producer : Holds(q)' => Holds(q) /\ prod'[q].node = prod[q].node
  BY DEF OnlyProducer, Holds
<1>4. ASSUME NEW q \in Producer, Holds(q)' PROVE prod[q].node \notin freed'
  <2>1. Holds(q) /\ prod[q].node \notin freed
    BY <1>1, <1>3, <1>4 DEF PrivateInv
  <2>2. CASE freed' = freed
    BY <2>1, <2>2
  <2>3. CASE Holds(p) /\ ~Holds(p)' /\ freed' = freed \cup {prod[p].node}
    <3>1. q # p
      BY <1>4, <2>3
    <3>2. prod[q].node # prod[p].node
      BY <1>1, <2>1, <2>3, <3>1 DEF PrivateInv
    <3>3. QED
      BY <2>1, <2>3, <3>2
  <2>4. QED
    BY <2>2, <2>3
<1>5. ASSUME NEW q \in Producer, Holds(q)'
      PROVE  /\ prod'[q].node \in 1 .. allocated' /\ prod'[q].node \notin freed'
             /\ \A k \in 1 .. Last' : order'[k] # prod'[q].node
             /\ next'[prod'[q].node] = Null /\ elem'[prod'[q].node] = q
  <2>1. Holds(q) /\ prod'[q].node = prod[q].node /\ prod[q].node \notin freed'
    BY <1>3, <1>4, <1>5
  <2>2. /\ prod[q].node \in 1 .. allocated
        /\ \A k \in 1 .. Last : order[k] # prod[q].node
        /\ next[prod[q].node] = Null /\ elem[prod[q].node] = q
    BY <1>1, <2>1 DEF PrivateInv
  <2>3. QED
    BY <1>2, <2>1, <2>2
<1>6. PrivateInv'
  <2>1. \A q, r \in Producer : Holds(q)' /\ Holds(r)' /\ prod'[q].node = prod'[r].node => q = r
    BY <1>1, <1>3 DEF PrivateInv
  <2>2. QED
    BY <1>5, <2>1 DEF PrivateInv
<1>7. FreedInv' /\ freed' \subseteq Node
  <2>1. CASE freed' = freed
    BY <1>1, <1>2, <2>1 DEF FreedInv, TypeOK
  <2>2. CASE Holds(p) /\ ~Holds(p)' /\ freed' = freed \cup {prod[p].node}
    <3>1. /\ prod[p].node \in 1 .. allocated
          /\ \A k \in 1 .. Last : order[k] # prod[p].node
      BY <1>1, <2>2 DEF PrivateInv
    <3>2. prod[p].node <= allocated /\ prod[p].node \in Node
      BY <1>1, <3>1, Types DEF ProducerRecord
    <3>3. \A n \in freed' : n <= allocated
      BY <1>1, <2>2, <3>2 DEF FreedInv
    <3>4. Popped + 1 .. Last \subseteq 1 .. Last
      BY <1>1
    <3>5. \A k \in Popped + 1 .. Last : order[k] \notin freed'
      BY <1>1, <2>2, <3>1, <3>4 DEF FreedInv
    <3>6. QED
      BY <1>1, <1>2, <2>2, <3>2, <3>3, <3>5 DEF FreedInv, TypeOK
  <2>3. QED
    BY <2>1, <2>2
<1>8. QED
  BY <1>6, <1>7

----------------------------------------------------------------------------
(* The counter *)

LEMMA Counts ==
  ASSUME TypeOK
  PROVE  /\ IsFiniteSet(InsertsUncounted) /\ Cardinality(InsertsUncounted) \in Nat
         /\ IsFiniteSet(PopsUncounted) /\ Cardinality(PopsUncounted) \in Nat
         /\ Due \in Int
<1>1. InsertsUncounted \subseteq Producer /\ PopsUncounted \subseteq Consumer
  BY DEF InsertsUncounted, PopsUncounted
<1>2. IsFiniteSet(InsertsUncounted) /\ IsFiniteSet(PopsUncounted)
  BY <1>1, FS_Subset, ThreadAssumption
<1>3. Cardinality(InsertsUncounted) \in Nat /\ Cardinality(PopsUncounted) \in Nat
  BY <1>2, FS_CardinalityType
<1>4. Due \in Int
  BY <1>3, Types DEF Due
<1>5. QED
  BY <1>2, <1>3, <1>4

LEMMA ProducerCounts ==
  ASSUME TypeOK, NEW p \in Producer, OnlyProducer(p)
  PROVE  /\ Cardinality(PopsUncounted)' = Cardinality(PopsUncounted)
         /\ (prod[p].pc = "count" <=> prod'[p].pc = "count") =>
              Cardinality(InsertsUncounted)' = Cardinality(InsertsUncounted)
         /\ prod[p].pc # "count" /\ prod'[p].pc = "count" =>
              Cardinality(InsertsUncounted)' = Cardinality(InsertsUncounted) + 1
         /\ prod[p].pc = "count" /\ prod'[p].pc # "count" =>
              Cardinality(InsertsUncounted)' = Cardinality(InsertsUncounted) - 1
<1> DEFINE S == InsertsUncounted
           T == InsertsUncounted'
<1>1. PopsUncounted' = PopsUncounted
  BY DEF PopsUncounted, OnlyProducer
<1>2. IsFiniteSet(S)
  BY Counts
<1>3. ASSUME prod[p].pc = "count" <=> prod'[p].pc = "count" PROVE T = S
  BY <1>3 DEF InsertsUncounted, OnlyProducer
<1>4. ASSUME prod[p].pc # "count", prod'[p].pc = "count"
      PROVE  Cardinality(T) = Cardinality(S) + 1
  <2>1. \A q \in Producer : q \in T <=> q \in S \cup {p}
    BY <1>4 DEF InsertsUncounted, OnlyProducer
  <2>2. T = S \cup {p} /\ p \notin S
    BY <1>4, <2>1 DEF InsertsUncounted
  <2>3. QED
    BY <1>2, <2>2, FS_AddElement
<1>5. ASSUME prod[p].pc = "count", prod'[p].pc # "count"
      PROVE  Cardinality(T) = Cardinality(S) - 1
  <2>1. T = S \ {p} /\ p \in S
    BY <1>5, Zenon DEF InsertsUncounted, OnlyProducer
  <2>2. QED
    BY <1>2, <2>1, FS_RemoveElement
<1>6. QED
  BY <1>1, <1>3, <1>4, <1>5

LEMMA ConsumerCounts ==
  ASSUME TypeOK, NEW c \in Consumer, OnlyConsumer(c)
  PROVE  /\ Cardinality(InsertsUncounted)' = Cardinality(InsertsUncounted)
         /\ (cons[c].pc = "count" <=> cons'[c].pc = "count") =>
              Cardinality(PopsUncounted)' = Cardinality(PopsUncounted)
         /\ cons[c].pc # "count" /\ cons'[c].pc = "count" =>
              Cardinality(PopsUncounted)' = Cardinality(PopsUncounted) + 1
         /\ cons[c].pc = "count" /\ cons'[c].pc # "count" =>
              Cardinality(PopsUncounted)' = Cardinality(PopsUncounted) - 1
<1> DEFINE S == PopsUncounted
           T == PopsUncounted'
<1>1. InsertsUncounted' = InsertsUncounted
  BY DEF InsertsUncounted, OnlyConsumer
<1>2. IsFiniteSet(S)
  BY Counts
<1>3. ASSUME cons[c].pc = "count" <=> cons'[c].pc = "count" PROVE T = S
  BY <1>3 DEF PopsUncounted, OnlyConsumer
<1>4. ASSUME cons[c].pc # "count", cons'[c].pc = "count"
      PROVE  Cardinality(T) = Cardinality(S) + 1
  <2>1. \A q \in Consumer : q \in T <=> q \in S \cup {c}
    BY <1>4 DEF PopsUncounted, OnlyConsumer
  <2>2. T = S \cup {c} /\ c \notin S
    BY <1>4, <2>1 DEF PopsUncounted
  <2>3. QED
    BY <1>2, <2>2, FS_AddElement
<1>5. ASSUME cons[c].pc = "count", cons'[c].pc # "count"
      PROVE  Cardinality(T) = Cardinality(S) - 1
  <2>1. T = S \ {c} /\ c \in S
    BY <1>5, Zenon DEF PopsUncounted, OnlyConsumer
  <2>2. QED
    BY <1>2, <2>1, FS_RemoveElement
<1>6. QED
  BY <1>1, <1>3, <1>4, <1>5

\* The counter stays exact modulo 2^64, whichever way it wraps.
LEMMA CountMoves ==
  ASSUME TypeOK, CountInv, NEW d \in Int
  PROVE  (count + d) % CountModulus = (Due + d) % CountModulus
<1>1. CountModulus \in Nat /\ CountModulus > 0 /\ count \in 0 .. CountModulus - 1
  BY VerifyAssumption, BoundsAssumption DEF TypeOK
<1>2. Due \in Int /\ count = Due % CountModulus
  BY Counts DEF CountInv
<1>3. count % CountModulus = count
  BY <1>1, FirstLap
<1>4. count \in Int /\ count % CountModulus = Due % CountModulus
  BY <1>1, <1>2, <1>3
<1>5. QED
  BY <1>1, <1>2, <1>4, SumOfCells, Zenon

----------------------------------------------------------------------------
(* A step that links nothing and pops nothing *)

\* The tail stays, or a compare-and-swap brings it up by one.
TailMoves ==
  \/ tail' = tail
  \/ \E j \in 1 .. Last - 1 : tail = order[j] /\ tail' = order[j + 1]

LEMMA TailStep ==
  ASSUME Inv, UNCHANGED <<head, next, elem, allocated, order, delivered>>, TailMoves
  PROVE  /\ Grows /\ ChainInv' /\ TailInv' /\ tail' \in Node
         /\ Last' = Last /\ Popped' = Popped
         /\ (TailPos' < Last => TailPos' = TailPos) /\ (tail' # tail => TailPos' = Last)
<1>1. Last' = Last /\ Popped' = Popped
  BY DEF Last, Popped
<1>2. /\ Last \in Nat /\ Popped \in Nat /\ TailPos \in Nat /\ Popped + 1 <= TailPos
      /\ TailPos <= Last /\ Last - 1 <= TailPos /\ tail = order[TailPos]
  BY Positions DEF Inv
<1>3. ASSUME NEW j \in 1 .. Last - 1, tail = order[j], tail' = order[j + 1]
      PROVE  tail' = order[Last]
  <2>1. j \in 1 .. Last
    BY <1>2
  <2>2. j = TailPos
    BY <1>3, <2>1, TailAt DEF Inv
  <2>3. j + 1 = Last
    BY <1>2, <2>2
  <2>4. QED
    BY <1>3, <2>3
<1>4. tail' = tail \/ tail' = order[Last]
  BY <1>3 DEF TailMoves
<1>5. CASE tail' = order[Last]
  <2>1. TailPos' = Last
    BY <1>1, <1>5 DEF TailPos
  <2>2. TailInv'
    BY <1>1, <1>2, <1>5, <2>1 DEF TailInv
  <2>3. tail' \in Node
    BY <1>2, <1>5, Types DEF Inv
  <2>4. Grows
    BY <1>1, <1>2, <2>1 DEF Grows
  <2>5. ChainInv'
    BY <1>1 DEF Inv, ChainInv
  <2>6. QED
    BY <1>1, <1>2, <2>1, <2>2, <2>3, <2>4, <2>5
<1>6. CASE tail' = tail
  <2>1. TailPos' = TailPos /\ UNCHANGED listVars
    BY <1>1, <1>6 DEF TailPos, listVars
  <2>2. tail' \in Node
    BY <1>6 DEF Inv, TypeOK
  <2>3. QED
    BY <1>1, <1>6, <2>1, <2>2, ListKept
<1>7. QED
  BY <1>4, <1>5, <1>6

LEMMA ProducerMoves ==
  ASSUME Inv, NEW p \in Producer, OnlyProducer(p),
         UNCHANGED <<head, next, elem, allocated, order, delivered>>, TailMoves,
         Holds(p)' => Holds(p) /\ prod'[p].node = prod[p].node,
         \/ freed' = freed
         \/ Holds(p) /\ ~Holds(p)' /\ freed' = freed \cup {prod[p].node},
         InAdd(p)' => \E j \in 1 .. TailPos : ProducerAt(p, j)',
         prod[p].pc \in {"count", "swing"} =>
           \/ prod'[p].pc \in {"count", "swing"} /\ prod'[p].node = prod[p].node
           \/ prod[p].node = order[Last] => TailPos' = Last,
         \/ count' = count /\ (prod[p].pc = "count" <=> prod'[p].pc = "count")
         \/ count' = (count + 1) % CountModulus /\ prod[p].pc = "count" /\ prod'[p].pc # "count"
  PROVE  Inv'
<1>1. /\ Grows /\ ChainInv' /\ TailInv' /\ tail' \in Node /\ Last' = Last /\ Popped' = Popped
      /\ (TailPos' < Last => TailPos' = TailPos)
  BY TailStep
<1>2. PrivateInv' /\ FreedInv' /\ freed' \subseteq Node
  BY PrivateKept
<1>3. ProducerInv' /\ ConsumerInv'
  <2>1. TailPos \in Nat /\ TailPos' \in Nat /\ TailPos <= TailPos'
    BY <1>1, Positions DEF Grows, Inv
  <2>2. 1 .. TailPos \subseteq 1 .. TailPos'
    BY <2>1
  <2>3. InAdd(p)' => \E j \in 1 .. TailPos' : ProducerAt(p, j)'
    BY <2>2
  <2>4. QED
    BY <1>1, <2>3, OtherProducers
<1>4. LagInv'
  <2> SUFFICES ASSUME TailPos' < Last
               PROVE  \E q \in Producer : prod'[q].pc \in {"count", "swing"}
                                          /\ prod'[q].node = order[Last]
    BY <1>1 DEF LagInv
  <2>1. TailPos < Last
    BY <1>1
  <2>2. PICK q \in Producer : prod[q].pc \in {"count", "swing"} /\ prod[q].node = order[Last]
    BY <2>1 DEF Inv, LagInv
  <2>3. CASE q # p
    BY <2>2, <2>3 DEF OnlyProducer
  <2>4. CASE q = p
    <3>1. TailPos' # Last
      BY <1>1, Positions DEF Inv
    <3>2. QED
      BY <2>2, <2>4, <3>1
  <2>5. QED
    BY <2>3, <2>4
<1>5. CountInv' /\ count' \in 0 .. CountModulus - 1
  <2> DEFINE I == Cardinality(InsertsUncounted)
             J == Cardinality(InsertsUncounted)'
             P == Cardinality(PopsUncounted)
  <2>1. I \in Nat /\ P \in Nat /\ Last \in Nat /\ Popped \in Nat /\ Due \in Int
    BY Counts, Types DEF Inv
  <2>2. Due = Last - 1 - Popped - I + P /\ Due' = Last - 1 - Popped - J + P
    BY <1>1, ProducerCounts DEF Due, Inv
  <2>3. CountModulus \in Nat /\ CountModulus > 0
    BY VerifyAssumption, BoundsAssumption
  <2>4. CASE count' = count /\ (prod[p].pc = "count" <=> prod'[p].pc = "count")
    <3>1. J = I
      BY <2>4, ProducerCounts DEF Inv
    <3>2. Due' = Due
      BY <2>2, <3>1
    <3>3. QED
      BY <2>4, <3>2 DEF Inv, CountInv, TypeOK
  <2>5. CASE count' = (count + 1) % CountModulus /\ prod[p].pc = "count" /\ prod'[p].pc # "count"
    <3>1. J = I - 1
      BY <2>5, ProducerCounts DEF Inv
    <3> HIDE DEF I, J, P
    <3>2. Due' = Due + 1
      BY <2>1, <2>2, <3>1
    <3>3. count' = (Due + 1) % CountModulus
      BY <2>5, CountMoves DEF Inv
    <3>4. Due + 1 \in Int
      BY <2>1
    <3>5. count' \in 0 .. CountModulus - 1
      BY <2>3, <3>3, <3>4, DivMod
    <3>6. QED
      BY <3>2, <3>3, <3>5 DEF CountInv
  <2>6. QED
    BY <2>4, <2>5
<1>6. TypeOK'
  BY <1>1, <1>2, <1>5 DEF Inv, TypeOK, OnlyProducer
<1>7. QED
  BY <1>1, <1>2, <1>3, <1>4, <1>5, <1>6 DEF Inv

LEMMA ConsumerMoves ==
  ASSUME Inv, NEW c \in Consumer, OnlyConsumer(c),
         UNCHANGED <<head, next, elem, allocated, order, delivered, freed>>, TailMoves,
         InPop(c)' => \E j \in 1 .. Popped + 1 : \E i \in 1 .. Last : ConsumerAt(c, j, i)',
         \/ count' = count /\ (cons[c].pc = "count" <=> cons'[c].pc = "count")
         \/ count' = (count - 1) % CountModulus /\ cons[c].pc = "count" /\ cons'[c].pc # "count"
  PROVE  Inv'
<1>1. /\ Grows /\ ChainInv' /\ TailInv' /\ tail' \in Node /\ Last' = Last /\ Popped' = Popped
      /\ (TailPos' < Last => TailPos' = TailPos)
  BY TailStep
<1>2. PrivateInv' /\ FreedInv'
  BY <1>1 DEF Inv, PrivateInv, FreedInv, Holds, OnlyConsumer
<1>3. ProducerInv' /\ ConsumerInv'
  BY <1>1, OtherConsumers
<1>4. LagInv'
  BY <1>1 DEF Inv, LagInv, OnlyConsumer
<1>5. CountInv' /\ count' \in 0 .. CountModulus - 1
  <2> DEFINE I == Cardinality(InsertsUncounted)
             P == Cardinality(PopsUncounted)
             Q == Cardinality(PopsUncounted)'
  <2>1. I \in Nat /\ P \in Nat /\ Last \in Nat /\ Popped \in Nat /\ Due \in Int
    BY Counts, Types DEF Inv
  <2>2. Due = Last - 1 - Popped - I + P /\ Due' = Last - 1 - Popped - I + Q
    BY <1>1, ConsumerCounts DEF Due, Inv
  <2>3. CountModulus \in Nat /\ CountModulus > 0
    BY VerifyAssumption, BoundsAssumption
  <2>4. CASE count' = count /\ (cons[c].pc = "count" <=> cons'[c].pc = "count")
    <3>1. Q = P
      BY <2>4, ConsumerCounts DEF Inv
    <3>2. Due' = Due
      BY <2>2, <3>1
    <3>3. QED
      BY <2>4, <3>2 DEF Inv, CountInv, TypeOK
  <2>5. CASE count' = (count - 1) % CountModulus /\ cons[c].pc = "count" /\ cons'[c].pc # "count"
    <3>1. Q = P - 1
      BY <2>5, ConsumerCounts DEF Inv
    <3> HIDE DEF I, P, Q
    <3>2. Due' = Due + (-1) /\ -1 \in Int
      BY <2>1, <2>2, <3>1
    <3>3. count - 1 = count + (-1)
      BY DEF Inv, TypeOK
    <3>4. count' = (Due + (-1)) % CountModulus
      BY <2>5, <3>2, <3>3, CountMoves DEF Inv
    <3>5. Due + (-1) \in Int
      BY <2>1
    <3>6. count' \in 0 .. CountModulus - 1
      BY <2>3, <3>4, <3>5, DivMod
    <3>7. QED
      BY <3>2, <3>4, <3>6 DEF CountInv
  <2>6. QED
    BY <2>4, <2>5
<1>6. TypeOK'
  BY <1>1, <1>5 DEF Inv, TypeOK, OnlyConsumer
<1>7. QED
  BY <1>1, <1>2, <1>3, <1>4, <1>5, <1>6 DEF Inv

----------------------------------------------------------------------------
(* The steps of an insert *)

\* A step of p replaces its record.
LEMMA ProducerWrites ==
  ASSUME TypeOK, NEW p \in Producer, NEW r \in ProducerRecord, prod' = [prod EXCEPT ![p] = r],
         UNCHANGED cons
  PROVE  OnlyProducer(p) /\ prod'[p] = r
<1> HIDE DEF ProducerRecord
<1>1. prod \in [Producer -> ProducerRecord]
  BY DEF TypeOK
<1>2. QED
  BY <1>1 DEF OnlyProducer

LEMMA InsertTailStep ==
  ASSUME Inv, NEW p \in Producer, InsertTail(p)
  PROVE  Inv'
<1> DEFINE r == [prod[p] EXCEPT !.pc = "next", !.tail = tail]
<1>1. prod[p] \in ProducerRecord /\ tail \in Node
  BY Types DEF Inv, TypeOK
<1>2. /\ r \in ProducerRecord /\ r.pc = "next" /\ r.tail = tail /\ r.node = prod[p].node
  BY <1>1 DEF ProducerRecord
<1>3. prod' = [prod EXCEPT ![p] = r] /\ UNCHANGED cons
  BY DEF InsertTail
<1> HIDE DEF r
<1>4. OnlyProducer(p) /\ prod'[p] = r
  BY <1>2, <1>3, ProducerWrites DEF Inv
<1>5. PICK j \in 1 .. TailPos : tail = order[j]
  BY Positions DEF Inv
<1>6. order'[j] = order[j] /\ prod'[p].tail = order[j]
  BY <1>2, <1>4, <1>5 DEF InsertTail, histVars
<1>7. ProducerAt(p, j)'
  BY <1>2, <1>4, <1>6 DEF ProducerAt
<1>8. prod[p].pc = "tail" /\ Holds(p)
  BY DEF InsertTail, Holds
<1>9. QED
  BY <1>2, <1>4, <1>7, <1>8, ProducerMoves
     DEF InsertTail, TailMoves, queueVars, nodeVars, histVars

LEMMA InsertNextStep ==
  ASSUME Inv, NEW p \in Producer, InsertNext(p)
  PROVE  Inv'
<1> DEFINE n == next[prod[p].tail]
           r == [prod[p] EXCEPT !.pc = IF n = Null THEN "link" ELSE "help", !.next = n]
<1>1. prod[p] \in ProducerRecord /\ prod[p].pc = "next" /\ n \in Link
  BY Types DEF Inv, TypeOK, InsertNext, ProducerRecord
<1>2. /\ r \in ProducerRecord /\ r.pc \in {"link", "help"} /\ (r.pc = "help" => r.next # Null)
      /\ r.tail = prod[p].tail /\ r.next = n /\ r.node = prod[p].node
  BY <1>1 DEF ProducerRecord
<1>3. prod' = [prod EXCEPT ![p] = r] /\ UNCHANGED cons
  BY DEF InsertNext
<1>4. PICK j \in 1 .. TailPos : ProducerAt(p, j)
  BY <1>1 DEF Inv, ProducerInv, InAdd
<1>5. j \in 1 .. Last /\ Last \in Nat
  BY Positions DEF Inv
<1>6. prod[p].tail = order[j] /\ n = next[order[j]]
  BY <1>4 DEF ProducerAt
<1>7. n # Null => j < Last /\ n = order[j + 1]
  BY <1>5, <1>6, LinkOf DEF Inv
<1> HIDE DEF n, r
<1>8. OnlyProducer(p) /\ prod'[p] = r
  BY <1>2, <1>3, ProducerWrites DEF Inv
<1>9. Last' = Last /\ order' = order
  BY DEF InsertNext, histVars, Last
<1>10. ProducerAt(p, j)'
  BY <1>2, <1>6, <1>7, <1>8, <1>9 DEF ProducerAt
<1>11. QED
  BY <1>1, <1>2, <1>8, <1>10, ProducerMoves
     DEF InsertNext, Holds, TailMoves, queueVars, nodeVars, histVars

\* retry_count++: another round with the same private node, or none and the node is freed.
LEMMA RetryEffect ==
  ASSUME Inv, NEW p \in Producer, Holds(p), InsertRetry(p), UNCHANGED cons
  PROVE  /\ OnlyProducer(p) /\ ~InAdd(p)' /\ prod'[p].pc # "count"
         /\ Holds(p)' => prod'[p].node = prod[p].node
         /\ \/ freed' = freed
            \/ ~Holds(p)' /\ freed' = freed \cup {prod[p].node}
<1>1. prod[p] \in ProducerRecord
  BY Types DEF Inv
<1>2. IdleProducer \in ProducerRecord /\ IdleProducer.pc = "idle"
  BY BoundsAssumption DEF IdleProducer, ProducerRecord, Node, Link, Dummy, Null
<1>3. CASE freed' = freed /\ prod' = [prod EXCEPT ![p] =
             [IdleProducer EXCEPT !.pc = "tail", !.node = prod[p].node,
                                  !.retries = prod[p].retries + 1]]
  <2> DEFINE r == [IdleProducer EXCEPT !.pc = "tail", !.node = prod[p].node,
                                       !.retries = prod[p].retries + 1]
  <2>1. prod[p].node \in Node /\ prod[p].retries + 1 \in Nat
    BY <1>1 DEF ProducerRecord
  <2>2. r \in ProducerRecord /\ r.pc = "tail" /\ r.node = prod[p].node
    <3>1. PICK s \in ProducerRecord : s = IdleProducer
      BY <1>2
    <3>2. PICK n \in Node : n = prod[p].node
      BY <2>1
    <3>3. PICK k \in Nat : k = prod[p].retries + 1
      BY <2>1
    <3>4. r = [s EXCEPT !.pc = "tail", !.node = n, !.retries = k]
      BY <3>1, <3>2, <3>3
    <3> HIDE DEF r
    <3>5. r \in ProducerRecord /\ r.pc = "tail" /\ r.node = n
      BY <3>4 DEF ProducerRecord
    <3>6. QED
      BY <3>2, <3>5
  <2>3. prod' = [prod EXCEPT ![p] = r]
    BY <1>3
  <2> HIDE DEF r
  <2>4. OnlyProducer(p) /\ prod'[p] = r
    BY <2>2, <2>3, ProducerWrites DEF Inv
  <2>5. QED
    BY <1>3, <2>2, <2>4 DEF InAdd
<1>4. CASE freed' = freed \cup {prod[p].node} /\ prod' = [prod EXCEPT ![p] = IdleProducer]
  <2>1. OnlyProducer(p) /\ prod'[p] = IdleProducer
    BY <1>2, <1>4, ProducerWrites DEF Inv
  <2>2. QED
    BY <1>2, <1>4, <2>1 DEF InAdd, Holds
<1>5. QED
  BY <1>3, <1>4 DEF InsertRetry

LEMMA InsertHelpStep ==
  ASSUME Inv, NEW p \in Producer, InsertHelp(p)
  PROVE  Inv'
<1>1. prod[p].pc = "help" /\ Holds(p) /\ UNCHANGED cons
  BY DEF InsertHelp, Holds
<1>2. PICK j \in 1 .. TailPos : ProducerAt(p, j)
  BY <1>1 DEF Inv, ProducerInv, InAdd
<1>3. TailPos \in Nat /\ Last \in Nat
  BY Positions DEF Inv
<1>4. j \in 1 .. Last - 1 /\ prod[p].tail = order[j] /\ prod[p].next = order[j + 1]
  BY <1>1, <1>2, <1>3 DEF ProducerAt
<1>5. TailMoves
  BY <1>4 DEF InsertHelp, TailMoves
<1>6. QED
  BY <1>1, <1>5, RetryEffect, ProducerMoves DEF InsertHelp, nodeVars

LEMMA InsertLoseStep ==
  ASSUME Inv, NEW p \in Producer, InsertLose(p)
  PROVE  Inv'
<1>1. prod[p].pc = "link" /\ Holds(p) /\ UNCHANGED cons
  BY DEF InsertLose, Holds
<1>2. QED
  BY <1>1, RetryEffect, ProducerMoves DEF InsertLose, TailMoves, queueVars, nodeVars

LEMMA InsertCountStep ==
  ASSUME Inv, NEW p \in Producer, InsertCount(p)
  PROVE  Inv'
<1> DEFINE r == [prod[p] EXCEPT !.pc = "swing"]
<1>1. prod[p] \in ProducerRecord /\ prod[p].pc = "count"
  BY Types DEF Inv, InsertCount
<1>2. /\ r \in ProducerRecord /\ r.pc = "swing" /\ r.tail = prod[p].tail /\ r.node = prod[p].node
  BY <1>1 DEF ProducerRecord
<1>3. prod' = [prod EXCEPT ![p] = r] /\ UNCHANGED cons
  BY DEF InsertCount
<1> HIDE DEF r
<1>4. OnlyProducer(p) /\ prod'[p] = r
  BY <1>2, <1>3, ProducerWrites DEF Inv
<1>5. PICK j \in 1 .. TailPos : ProducerAt(p, j)
  BY <1>1 DEF Inv, ProducerInv, InAdd
<1>6. Last' = Last /\ order' = order
  BY DEF InsertCount, histVars, Last
<1>7. ProducerAt(p, j)'
  BY <1>1, <1>2, <1>4, <1>5, <1>6 DEF ProducerAt
<1>8. QED
  BY <1>1, <1>2, <1>4, <1>7, ProducerMoves
     DEF InsertCount, Holds, TailMoves, nodeVars, histVars

LEMMA InsertSwingStep ==
  ASSUME Inv, NEW p \in Producer, InsertSwing(p)
  PROVE  Inv'
<1>1. prod[p].pc = "swing" /\ UNCHANGED cons /\ prod' = [prod EXCEPT ![p] = IdleProducer]
  BY DEF InsertSwing
<1>2. IdleProducer \in ProducerRecord /\ IdleProducer.pc = "idle"
  BY BoundsAssumption DEF IdleProducer, ProducerRecord, Node, Link, Dummy, Null
<1>3. OnlyProducer(p) /\ prod'[p] = IdleProducer
  BY <1>1, <1>2, ProducerWrites DEF Inv
<1>4. PICK j \in 1 .. TailPos : ProducerAt(p, j)
  BY <1>1 DEF Inv, ProducerInv, InAdd
<1>5. /\ TailPos \in Nat /\ Last \in Nat /\ TailPos <= Last /\ Last - 1 <= TailPos
      /\ tail = order[TailPos]
  BY Positions DEF Inv
<1>6. j \in 1 .. Last - 1 /\ prod[p].tail = order[j] /\ prod[p].node = order[j + 1]
  BY <1>1, <1>4, <1>5 DEF ProducerAt
<1>7. TailMoves
  BY <1>6 DEF InsertSwing, TailMoves
<1>8. ASSUME prod[p].node = order[Last] PROVE TailPos' = Last
  <2>1. j + 1 \in 1 .. Last /\ Last \in 1 .. Last
    BY <1>5, <1>6
  <2>2. j + 1 = Last
    BY <1>6, <1>8, <2>1, OnePosition DEF Inv
  <2>3. TailPos = Last \/ tail = order[j]
    BY <1>5, <1>6, <2>2
  <2>4. ASSUME tail = order[j] PROVE tail' = order[Last]
    BY <1>6, <1>8, <2>4 DEF InsertSwing
  <2>5. ASSUME TailPos = Last, tail # order[j] PROVE tail' = order[Last]
    BY <1>5, <1>6, <2>5 DEF InsertSwing
  <2>6. tail' = order[Last]
    BY <2>3, <2>4, <2>5
  <2>7. QED
    BY <2>6 DEF TailPos, Last, InsertSwing, histVars
<1>9. UNCHANGED <<head, next, elem, allocated, order, delivered, freed, count>>
  BY DEF InsertSwing, nodeVars, histVars
<1>10. ~Holds(p)' /\ ~InAdd(p)' /\ prod'[p].pc # "count"
  BY <1>2, <1>3 DEF Holds, InAdd
<1>11. QED
  BY <1>1, <1>3, <1>7, <1>8, <1>9, <1>10, ProducerMoves

\* A fresh node is in nobody's hands.
LEMMA InsertBeginStep ==
  ASSUME Inv, NEW p \in Producer, InsertBegin(p)
  PROVE  Inv'
<1> DEFINE N == allocated + 1
           r == [prod[p] EXCEPT !.pc = "tail", !.node = N]
<1>1. prod[p] \in ProducerRecord /\ prod[p].pc = "idle" /\ allocated \in Nat
  BY Types DEF Inv, InsertBegin
<1>2. N \in Node /\ N \in Nat /\ N > allocated /\ N <= MaxNodes /\ N >= 1
  BY <1>1, BoundsAssumption DEF InsertBegin, Node
<1>3. /\ allocated' = N /\ elem' = [elem EXCEPT ![N] = p] /\ next' = [next EXCEPT ![N] = Null]
      /\ UNCHANGED <<head, tail, count, cons, order, delivered, freed>>
      /\ prod' = [prod EXCEPT ![p] = r]
  BY DEF InsertBegin, queueVars, histVars
<1> HIDE DEF N
<1>4. r \in ProducerRecord /\ r.pc = "tail" /\ r.node = N
  BY <1>1, <1>2 DEF ProducerRecord
<1> HIDE DEF r
<1>5. OnlyProducer(p) /\ prod'[p] = r
  BY <1>3, <1>4, ProducerWrites DEF Inv
<1>6. Last' = Last /\ Popped' = Popped /\ TailPos' = TailPos
  BY <1>3 DEF Last, Popped, TailPos
<1>7. Last \in Nat /\ Popped \in Nat /\ TailPos \in Nat /\ Last >= 1
  BY Positions DEF Inv
<1>8. next \in [Node -> Link] /\ elem \in [Node -> Pair] /\ order \in Seq(Node)
  BY DEF Inv, TypeOK
<1>9. ASSUME NEW n \in Node, n <= allocated
      PROVE  n # N /\ next'[n] = next[n] /\ elem'[n] = elem[n]
  <2>1. n # N
    BY <1>1, <1>2, <1>9
  <2>2. QED
    BY <1>3, <1>8, <2>1
<1>10. \A k \in 1 .. Last :
         order[k] \in Node /\ order[k] <= allocated /\ order[k] <= N /\ order[k] # N
         /\ next'[order[k]] = next[order[k]] /\ elem'[order[k]] = elem[order[k]]
  <2> SUFFICES ASSUME NEW k \in 1 .. Last
               PROVE /\ order[k] \in Node /\ order[k] <= allocated /\ order[k] <= N /\ order[k] # N
                     /\ next'[order[k]] = next[order[k]] /\ elem'[order[k]] = elem[order[k]]
    OBVIOUS
  <2>1. order[k] \in Node /\ order[k] <= allocated /\ order[k] \in Int
    BY Types DEF Inv, ChainInv
  <2>2. order[k] <= N
    BY <1>1, <1>2, <2>1
  <2>3. QED
    BY <1>9, <2>1, <2>2
<1>11. Grows
  BY <1>3, <1>6, <1>7, <1>10 DEF Grows
<1>12. ChainInv'
  <2>1. Popped' < Last' /\ head' = order'[Popped' + 1]
    BY <1>3, <1>6 DEF Inv, ChainInv
  <2>2. \A k \in 1 .. Last' : order'[k] <= allocated'
    BY <1>3, <1>6, <1>10
  <2>3. 1 .. Last - 1 \subseteq 1 .. Last /\ 2 .. Last \subseteq 1 .. Last /\ Last \in 1 .. Last
    BY <1>7
  <2>4. /\ \A k \in 1 .. Last - 1 : next'[order[k]] = order[k + 1]
        /\ next'[order[Last]] = Null
        /\ \A k \in 2 .. Last : elem'[order[k]] \in Producer
    BY <1>10, <2>3 DEF Inv, ChainInv
  <2>5. \A j, k \in 1 .. Last' : order'[j] = order'[k] => j = k
    BY <1>3, <1>6 DEF Inv, ChainInv
  <2>6. QED
    BY <1>3, <1>6, <2>1, <2>2, <2>4, <2>5 DEF ChainInv
<1>13. TailInv'
  BY <1>3, <1>6 DEF Inv, TailInv
<1>14. FreedInv' /\ N \notin freed
  <2>1. freed \subseteq Node /\ \A n \in freed : n <= allocated
    BY DEF Inv, TypeOK, FreedInv
  <2>2. \A n \in freed : n <= N /\ n # N
    BY <1>1, <1>2, <2>1 DEF Node
  <2>3. QED
    BY <1>3, <1>6, <2>2 DEF Inv, FreedInv
<1>15. PrivateInv'
  <2>1. ASSUME NEW q \in Producer, Holds(q)', q # p
        PROVE  /\ Holds(q) /\ prod'[q] = prod[q] /\ prod[q].node \in 1 .. N /\ prod[q].node # N
               /\ prod[q].node \notin freed /\ \A k \in 1 .. Last : order[k] # prod[q].node
               /\ next'[prod[q].node] = Null /\ elem'[prod[q].node] = q
    <3>1. prod'[q] = prod[q] /\ Holds(q)
      BY <1>5, <2>1 DEF OnlyProducer, Holds
    <3>2. /\ prod[q].node \in 1 .. allocated /\ prod[q].node \notin freed
          /\ \A k \in 1 .. Last : order[k] # prod[q].node
          /\ next[prod[q].node] = Null /\ elem[prod[q].node] = q
      BY <3>1 DEF Inv, PrivateInv
    <3>3. prod[q].node \in Node /\ prod[q].node <= allocated
      BY <1>1, <3>2, Types DEF Inv, ProducerRecord
    <3>4. prod[q].node \in 1 .. N
      BY <1>1, <1>2, <3>2
    <3>5. QED
      BY <1>9, <3>1, <3>2, <3>3, <3>4
  <2>2. /\ prod'[p].node = N /\ N \in 1 .. N /\ N \notin freed
        /\ \A k \in 1 .. Last : order[k] # N
        /\ next'[N] = Null /\ elem'[N] = p
    BY <1>2, <1>3, <1>4, <1>5, <1>8, <1>10, <1>14
  <2>3. \A q \in Producer : Holds(q)' =>
          /\ prod'[q].node \in 1 .. allocated' /\ prod'[q].node \notin freed'
          /\ \A k \in 1 .. Last' : order'[k] # prod'[q].node
          /\ next'[prod'[q].node] = Null /\ elem'[prod'[q].node] = q
    <3> SUFFICES ASSUME NEW q \in Producer, Holds(q)'
                 PROVE  /\ prod'[q].node \in 1 .. N /\ prod'[q].node \notin freed
                        /\ \A k \in 1 .. Last : order[k] # prod'[q].node
                        /\ next'[prod'[q].node] = Null /\ elem'[prod'[q].node] = q
      BY <1>3, <1>6
    <3>1. CASE q = p
      BY <2>2, <3>1
    <3>2. CASE q # p
      BY <2>1, <3>2
    <3>3. QED
      BY <3>1, <3>2
  <2>4. \A q, s \in Producer : Holds(q)' /\ Holds(s)' /\ prod'[q].node = prod'[s].node => q = s
    <3> SUFFICES ASSUME NEW q \in Producer, NEW s \in Producer, Holds(q)', Holds(s)',
                        prod'[q].node = prod'[s].node, q # s
                 PROVE  FALSE
      OBVIOUS
    <3>1. CASE q = p
      BY <2>1, <2>2, <3>1
    <3>2. CASE s = p
      BY <2>1, <2>2, <3>2
    <3>3. CASE q # p /\ s # p
      BY <2>1, <3>3 DEF Inv, PrivateInv
    <3>4. QED
      BY <3>1, <3>2, <3>3
  <2>5. QED
    BY <2>3, <2>4 DEF PrivateInv
<1>16. ProducerInv' /\ ConsumerInv'
  <2>1. ~InAdd(p)'
    BY <1>4, <1>5 DEF InAdd
  <2>2. QED
    BY <1>5, <1>11, <2>1, OtherProducers
<1>17. LagInv'
  <2> SUFFICES ASSUME TailPos < Last
               PROVE  \E q \in Producer : prod'[q].pc \in {"count", "swing"}
                                          /\ prod'[q].node = order[Last]
    BY <1>3, <1>6 DEF LagInv
  <2>1. PICK q \in Producer : prod[q].pc \in {"count", "swing"} /\ prod[q].node = order[Last]
    BY DEF Inv, LagInv
  <2>2. q # p
    BY <1>1, <2>1
  <2>3. QED
    BY <1>5, <2>1, <2>2 DEF OnlyProducer
<1>18. CountInv'
  <2>1. Due' = Due
    BY <1>1, <1>4, <1>5, <1>6, ProducerCounts DEF Due, Inv
  <2>2. QED
    BY <1>3, <2>1 DEF Inv, CountInv
<1>19. TypeOK'
  <2>1. elem' \in [Node -> Pair] /\ next' \in [Node -> Link]
    BY <1>3, <1>8 DEF Pair, Link
  <2>2. allocated' \in 0 .. MaxNodes
    BY <1>2, <1>3
  <2>3. QED
    BY <1>3, <1>5, <2>1, <2>2 DEF Inv, TypeOK, OnlyProducer
<1>20. QED
  BY <1>12, <1>13, <1>14, <1>15, <1>16, <1>17, <1>18, <1>19 DEF Inv

\* The compare-and-swap on tail->next succeeds only on the last node.
LEMMA InsertLinkStep ==
  ASSUME Inv, NEW p \in Producer, InsertLink(p)
  PROVE  Inv'
<1> DEFINE L == Last
           N == prod[p].node
           r == [prod[p] EXCEPT !.pc = "count"]
<1>1. /\ prod[p] \in ProducerRecord /\ prod[p].pc = "link" /\ Holds(p) /\ InAdd(p)
      /\ next[prod[p].tail] = Null
  BY Types DEF Inv, InsertLink, Holds, InAdd
<1>2. /\ L \in Nat /\ L >= 1 /\ Popped \in Nat /\ TailPos \in Nat /\ TailPos <= L
      /\ Popped + 1 <= TailPos /\ tail = order[TailPos]
  BY Positions DEF Inv
<1>3. /\ next \in [Node -> Link] /\ elem \in [Node -> Pair] /\ order \in Seq(Node)
      /\ \A k \in 1 .. L : order[k] \in Node
  BY Types DEF Inv, TypeOK
<1>4. PICK j \in 1 .. TailPos : ProducerAt(p, j)
  BY <1>1 DEF Inv, ProducerInv
<1>5. j = L /\ TailPos = L /\ prod[p].tail = order[L]
  <2>1. j \in 1 .. L /\ prod[p].tail = order[j]
    BY <1>2, <1>4 DEF ProducerAt
  <2>2. ~(j < L)
    BY <1>1, <2>1, LinkOf DEF Inv
  <2>3. QED
    BY <1>2, <2>1, <2>2
<1>6. /\ N \in Node /\ N \in 1 .. allocated /\ N \notin freed /\ next[N] = Null /\ elem[N] = p
      /\ \A k \in 1 .. L : order[k] # N
  BY <1>1 DEF Inv, PrivateInv, ProducerRecord
<1>7. /\ next' = [next EXCEPT ![order[L]] = N] /\ order' = Append(order, N)
      /\ UNCHANGED <<head, tail, count, elem, allocated, cons, delivered, freed>>
      /\ prod' = [prod EXCEPT ![p] = r]
  BY <1>5 DEF InsertLink, queueVars
<1>8. r \in ProducerRecord /\ r.pc = "count" /\ r.node = N /\ r.tail = prod[p].tail
  BY <1>1 DEF ProducerRecord
<1> HIDE DEF r
<1>9. OnlyProducer(p) /\ prod'[p] = r
  BY <1>7, <1>8, ProducerWrites DEF Inv
<1>10. /\ Last' = L + 1 /\ order' \in Seq(Node) /\ order'[L + 1] = N
       /\ \A k \in 1 .. L : order'[k] = order[k]
  BY <1>3, <1>6, <1>7 DEF Last
<1> HIDE DEF N
<1>11. Popped' = Popped /\ TailPos' = L
  <2>1. tail' # order'[L + 1]
    BY <1>2, <1>5, <1>6, <1>7, <1>10
  <2>2. QED
    BY <1>2, <1>7, <1>10, <2>1 DEF Popped, TailPos
<1>12. L \in 1 .. L /\ L + 1 \in Nat
  BY <1>2
<1>13. Grows
  BY <1>2, <1>5, <1>7, <1>10, <1>11, <1>12 DEF Grows, Last
<1>14. next'[order[L]] = N /\ next' \in [Node -> Link]
       /\ \A n \in Node : n # order[L] => next'[n] = next[n]
  BY <1>3, <1>6, <1>7, <1>12 DEF Link
<1>15. ChainInv'
  <2>1. Popped' < Last' /\ head' = order'[Popped' + 1]
    <3>1. Popped + 1 \in 1 .. L
      BY <1>2
    <3>2. Popped < L + 1 /\ head = order[Popped + 1]
      BY <1>2, Positions DEF Inv
    <3>3. QED
      BY <1>7, <1>10, <1>11, <3>1, <3>2
  <2>2. ASSUME NEW k \in 1 .. L + 1 PROVE k \in 1 .. L \/ k = L + 1
    BY <1>2
  <2>3. \A i, k \in 1 .. Last' : order'[i] = order'[k] => i = k
    <3> SUFFICES ASSUME NEW i \in 1 .. L + 1, NEW k \in 1 .. L + 1, order'[i] = order'[k]
                 PROVE  i = k
      BY <1>10
    <3>1. CASE i \in 1 .. L /\ k \in 1 .. L
      <4>1. order[i] = order[k]
        BY <1>10, <3>1
      <4>2. QED
        BY <3>1, <4>1, OnePosition DEF Inv
    <3>2. CASE i = L + 1 /\ k \in 1 .. L
      BY <1>6, <1>10, <3>2
    <3>3. CASE i \in 1 .. L /\ k = L + 1
      BY <1>6, <1>10, <3>3
    <3>4. QED
      BY <2>2, <3>1, <3>2, <3>3
  <2>4. \A k \in 1 .. Last' : order'[k] <= allocated'
    <3>1. \A k \in 1 .. L : order[k] <= allocated
      BY DEF Inv, ChainInv
    <3>2. N <= allocated
      BY <1>6, Types DEF Inv
    <3>3. QED
      BY <1>7, <1>10, <2>2, <3>1, <3>2
  <2>5. \A k \in 1 .. Last' - 1 : next'[order'[k]] = order'[k + 1]
    <3>0. 1 .. Last' - 1 = 1 .. L
      BY <1>2, <1>10
    <3> SUFFICES ASSUME NEW k \in 1 .. L PROVE next'[order'[k]] = order'[k + 1]
      BY <3>0
    <3>1. CASE k = L
      BY <1>10, <1>12, <1>14, <3>1
    <3>2. CASE k # L
      <4>1. k < L /\ k + 1 \in 1 .. L
        BY <1>2, <3>2
      <4>2. next[order[k]] = order[k + 1]
        BY <4>1, LinkOf DEF Inv
      <4>3. order[k] # order[L]
        BY <1>12, <3>2, OnePosition DEF Inv
      <4>4. QED
        BY <1>3, <1>10, <1>14, <4>1, <4>2, <4>3
    <3>3. QED
      BY <3>1, <3>2
  <2>6. next'[order'[Last']] = Null
    BY <1>6, <1>10, <1>12, <1>14
  <2>7. \A k \in 2 .. Last' : elem'[order'[k]] \in Producer
    <3>1. \A k \in 2 .. L : elem[order[k]] \in Producer
      BY DEF Inv, ChainInv
    <3>2. ASSUME NEW k \in 2 .. L + 1 PROVE (k \in 2 .. L /\ k \in 1 .. L) \/ k = L + 1
      BY <1>2
    <3>3. QED
      BY <1>6, <1>7, <1>10, <3>1, <3>2
  <2>8. QED
    BY <2>1, <2>3, <2>4, <2>5, <2>6, <2>7 DEF ChainInv
<1>16. TailInv'
  <2>1. tail' = order'[L] /\ L >= Popped + 1
    BY <1>2, <1>5, <1>7, <1>10, <1>12
  <2>2. QED
    BY <1>11, <2>1 DEF TailInv
<1>17. FreedInv'
  <2>1. \A k \in Popped + 1 .. L : order[k] \notin freed
    BY DEF Inv, FreedInv
  <2>2. \A k \in Popped + 1 .. L + 1 : (k \in Popped + 1 .. L /\ k \in 1 .. L) \/ k = L + 1
    BY <1>2
  <2>3. \A k \in Popped + 1 .. L + 1 : order'[k] \notin freed
    BY <1>6, <1>10, <2>1, <2>2
  <2>4. \A n \in freed : n <= allocated
    BY DEF Inv, FreedInv
  <2>5. QED
    BY <1>7, <1>10, <1>11, <2>3, <2>4 DEF FreedInv
<1>18. PrivateInv'
  <2>1. ASSUME NEW q \in Producer, Holds(q)'
        PROVE  /\ q # p /\ Holds(q) /\ prod'[q] = prod[q] /\ prod[q].node # N
               /\ prod[q].node \in 1 .. allocated /\ prod[q].node \notin freed
               /\ \A k \in 1 .. L : order[k] # prod[q].node
               /\ next'[prod[q].node] = Null /\ elem[prod[q].node] = q
    <3>1. q # p /\ prod'[q] = prod[q] /\ Holds(q)
      BY <1>8, <1>9, <2>1 DEF OnlyProducer, Holds
    <3>2. /\ prod[q].node \in 1 .. allocated /\ prod[q].node \notin freed
          /\ \A k \in 1 .. L : order[k] # prod[q].node
          /\ next[prod[q].node] = Null /\ elem[prod[q].node] = q
      BY <3>1 DEF Inv, PrivateInv
    <3>3. prod[q].node # N
      BY <1>1, <3>1 DEF Inv, PrivateInv, N
    <3>4. prod[q].node \in Node /\ prod[q].node # order[L]
      BY <1>12, <3>2, Types DEF Inv, ProducerRecord
    <3>5. QED
      BY <1>14, <3>1, <3>2, <3>3, <3>4
  <2>2. \A q \in Producer : Holds(q)' => \A k \in 1 .. L + 1 : order'[k] # prod'[q].node
    <3> SUFFICES ASSUME NEW q \in Producer, Holds(q)', NEW k \in 1 .. L + 1
                 PROVE  order'[k] # prod'[q].node
      OBVIOUS
    <3>1. k \in 1 .. L \/ k = L + 1
      BY <1>2
    <3>2. QED
      BY <1>10, <2>1, <3>1
  <2>3. \A q \in Producer : Holds(q)' =>
          /\ prod'[q].node \in 1 .. allocated' /\ prod'[q].node \notin freed'
          /\ \A k \in 1 .. Last' : order'[k] # prod'[q].node
          /\ next'[prod'[q].node] = Null /\ elem'[prod'[q].node] = q
    <3> SUFFICES ASSUME NEW q \in Producer, Holds(q)'
                 PROVE  /\ prod'[q].node \in 1 .. allocated' /\ prod'[q].node \notin freed'
                        /\ \A k \in 1 .. L + 1 : order'[k] # prod'[q].node
                        /\ next'[prod'[q].node] = Null /\ elem'[prod'[q].node] = q
      BY <1>10
    <3>1. prod'[q] = prod[q] /\ allocated' = allocated /\ freed' = freed /\ elem' = elem
      BY <1>7, <2>1
    <3>2. QED
      BY <2>1, <2>2, <3>1
  <2>4. \A q, s \in Producer : Holds(q)' /\ Holds(s)' /\ prod'[q].node = prod'[s].node => q = s
    BY <2>1 DEF Inv, PrivateInv
  <2>5. QED
    BY <2>3, <2>4 DEF PrivateInv
<1>19. ProducerInv' /\ ConsumerInv'
  <2>1. PICK m \in 1 .. L : m = L
    BY <1>12
  <2>2. ProducerAt(p, m)'
    BY <1>2, <1>5, <1>8, <1>9, <1>10, <2>1 DEF ProducerAt
  <2>3. InAdd(p)' => \E i \in 1 .. TailPos' : ProducerAt(p, i)'
    BY <1>11, <2>2
  <2>4. QED
    BY <1>9, <1>13, <2>3, OtherProducers
<1>20. LagInv'
  BY <1>8, <1>9, <1>10 DEF LagInv
<1>21. CountInv'
  <2> DEFINE I == Cardinality(InsertsUncounted)
             J == Cardinality(InsertsUncounted)'
             P == Cardinality(PopsUncounted)
  <2>1. I \in Nat /\ P \in Nat
    BY Counts DEF Inv
  <2>2. J = I + 1
    BY <1>1, <1>8, <1>9, ProducerCounts DEF Inv
  <2>3. Due = L - 1 - Popped - I + P /\ Due' = (L + 1) - 1 - Popped - J + P
    BY <1>9, <1>10, <1>11, ProducerCounts DEF Due, Inv
  <2> HIDE DEF I, J, P
  <2>4. Due' = Due
    BY <1>2, <2>1, <2>2, <2>3
  <2>5. QED
    BY <1>7, <2>4 DEF Inv, CountInv
<1>22. TypeOK'
  BY <1>7, <1>9, <1>10, <1>14 DEF Inv, TypeOK, OnlyProducer
<1>23. QED
  BY <1>15, <1>16, <1>17, <1>18, <1>19, <1>20, <1>21, <1>22 DEF Inv

----------------------------------------------------------------------------
(* The steps of a pop *)

LEMMA ConsumerWrites ==
  ASSUME TypeOK, NEW c \in Consumer, NEW r \in ConsumerRecord, cons' = [cons EXCEPT ![c] = r],
         UNCHANGED prod
  PROVE  OnlyConsumer(c) /\ cons'[c] = r
<1> HIDE DEF ConsumerRecord
<1>1. cons \in [Consumer -> ConsumerRecord]
  BY DEF TypeOK
<1>2. QED
  BY <1>1 DEF OnlyConsumer

LEMMA PopHeadStep ==
  ASSUME Inv, NEW c \in Consumer, PopHead(c)
  PROVE  Inv'
<1> DEFINE r == [cons[c] EXCEPT !.pc = "tail", !.head = head]
<1>1. cons[c] \in ConsumerRecord /\ head \in Node /\ cons[c].pc # "count"
  BY Types DEF Inv, TypeOK, PopHead
<1>2. r \in ConsumerRecord /\ r.pc = "tail" /\ r.head = head
  BY <1>1 DEF ConsumerRecord
<1>3. /\ cons' = [cons EXCEPT ![c] = r]
      /\ UNCHANGED <<head, tail, count, next, elem, allocated, prod, order, delivered, freed>>
  BY DEF PopHead, queueVars, nodeVars, histVars
<1> HIDE DEF r
<1>4. OnlyConsumer(c) /\ cons'[c] = r
  BY <1>2, <1>3, ConsumerWrites DEF Inv
<1>5. PICK j \in 1 .. Popped + 1 : head = order[j] /\ j \in 1 .. Last
  BY Positions DEF Inv
<1>6. ConsumerAt(c, j, j)'
  BY <1>2, <1>3, <1>4, <1>5 DEF ConsumerAt
<1>7. QED
  BY <1>1, <1>2, <1>3, <1>4, <1>5, <1>6, ConsumerMoves DEF TailMoves

LEMMA PopTailStep ==
  ASSUME Inv, NEW c \in Consumer, PopTail(c)
  PROVE  Inv'
<1> DEFINE r == [cons[c] EXCEPT !.pc = "next", !.tail = tail]
<1>1. cons[c] \in ConsumerRecord /\ tail \in Node /\ cons[c].pc = "tail" /\ InPop(c)
  BY Types DEF Inv, TypeOK, PopTail, InPop
<1>2. r \in ConsumerRecord /\ r.pc = "next" /\ r.head = cons[c].head /\ r.tail = tail
  BY <1>1 DEF ConsumerRecord
<1>3. /\ cons' = [cons EXCEPT ![c] = r]
      /\ UNCHANGED <<head, tail, count, next, elem, allocated, prod, order, delivered, freed>>
  BY DEF PopTail, queueVars, nodeVars, histVars
<1> HIDE DEF r
<1>4. OnlyConsumer(c) /\ cons'[c] = r
  BY <1>2, <1>3, ConsumerWrites DEF Inv
<1>5. PICK j \in 1 .. Popped + 1 : \E i \in 1 .. Last : ConsumerAt(c, j, i)
  BY <1>1 DEF Inv, ConsumerInv
<1>6. cons[c].head = order[j]
  BY <1>5 DEF ConsumerAt
<1>7. PICK i \in 1 .. Last : tail = order[i] /\ j <= i /\ i <= TailPos
  BY Positions DEF Inv
<1>8. TailPos' = TailPos /\ order' = order
  BY <1>3 DEF TailPos, Last
<1>9. ConsumerAt(c, j, i)'
  BY <1>2, <1>4, <1>6, <1>7, <1>8 DEF ConsumerAt
<1>10. QED
  BY <1>1, <1>2, <1>3, <1>4, <1>9, ConsumerMoves DEF TailMoves

\* Nothing is left of an empty queue.
LEMMA EmptyContents ==
  ASSUME TypeOK, Popped + 1 = Last
  PROVE  Contents = <<>>
<1>1. Len(order) - 1 - Popped = 0
  BY Types DEF Last
<1>2. QED
  BY <1>1 DEF Contents

LEMMA PopNextStep ==
  ASSUME Inv, NEW c \in Consumer, PopNext(c)
  PROVE  Inv'
<1>1. cons[c] \in ConsumerRecord /\ cons[c].pc = "next" /\ InPop(c)
  BY Types DEF Inv, TypeOK, PopNext, InPop
<1>2. PICK n \in NextOf(cons[c].head) :
        cons' = [cons EXCEPT ![c].pc = "check", ![c].next = n, ![c].empty = (Contents = <<>>)]
  BY DEF PopNext
<1>3. PICK b \in BOOLEAN : b = (Contents = <<>>) /\ (Contents = <<>> => b)
  <2>1. CASE Contents = <<>>
    <3>1. (Contents = <<>>) = TRUE
      BY <2>1
    <3>2. QED
      BY <2>1, <3>1
  <2>2. CASE Contents # <<>>
    <3>1. (Contents = <<>>) = FALSE
      BY <2>2
    <3>2. QED
      BY <2>2, <3>1
  <2>3. QED
    BY <2>1, <2>2
<1> DEFINE r == [cons[c] EXCEPT !.pc = "check", !.next = n, !.empty = b]
<1>4. /\ cons' = [cons EXCEPT ![c] = r]
      /\ UNCHANGED <<head, tail, count, next, elem, allocated, prod, order, delivered, freed>>
  BY <1>2, <1>3 DEF PopNext, queueVars, nodeVars, histVars
<1>5. n \in Link
  BY <1>1 DEF NextOf, Inv, TypeOK, ConsumerRecord
<1>6. /\ r \in ConsumerRecord /\ r.pc = "check" /\ r.head = cons[c].head /\ r.tail = cons[c].tail
      /\ r.next = n /\ r.empty = b
  BY <1>1, <1>5 DEF ConsumerRecord
<1> HIDE DEF r
<1>7. OnlyConsumer(c) /\ cons'[c] = r
  BY <1>4, <1>6, ConsumerWrites DEF Inv
<1>8. PICK j \in 1 .. Popped + 1 : \E i \in 1 .. Last : ConsumerAt(c, j, i)
  BY <1>1 DEF Inv, ConsumerInv
<1>9. PICK i \in 1 .. Last : ConsumerAt(c, j, i)
  BY <1>8
<1>10. cons[c].head = order[j] /\ cons[c].tail = order[i] /\ j <= i /\ i <= TailPos
  BY <1>1, <1>9 DEF ConsumerAt
<1>11. ASSUME j = Popped + 1
       PROVE  (n = Null /\ b) \/ (j < Last /\ n = order[j + 1])
  <2>1. Last \in Nat /\ Popped \in Nat /\ Popped + 1 <= Last
    BY Positions DEF Inv
  <2>2. j \in Popped + 1 .. Last /\ j \in 1 .. Last
    BY <1>11, <2>1
  <2>3. n = next[order[j]]
    BY <1>10, <2>2 DEF NextOf, Inv, FreedInv
  <2>4. CASE j < Last
    BY <2>2, <2>3, <2>4, LinkOf DEF Inv
  <2>5. CASE j = Last
    <3>1. n = Null
      BY <2>2, <2>3, <2>5, LinkOf DEF Inv
    <3>2. Contents = <<>>
      BY <1>11, <2>5, EmptyContents DEF Inv
    <3>3. b
      BY <1>3, <3>2
    <3>4. QED
      BY <3>1, <3>3
  <2>6. QED
    BY <2>1, <2>2, <2>4, <2>5
<1>12. TailPos' = TailPos /\ order' = order /\ Popped' = Popped /\ Last' = Last
  BY <1>4 DEF TailPos, Last, Popped
<1>13. ConsumerAt(c, j, i)'
  BY <1>6, <1>7, <1>10, <1>11, <1>12 DEF ConsumerAt
<1>14. QED
  BY <1>1, <1>4, <1>6, <1>7, <1>13, ConsumerMoves DEF TailMoves

\* A pop's round, or the pop itself, ends.
LEMMA PopEnds ==
  ASSUME Inv, NEW c \in Consumer, UNCHANGED prod,
         PopRetry(c) \/ cons' = [cons EXCEPT ![c] = IdleConsumer]
  PROVE  OnlyConsumer(c) /\ cons'[c].pc \in {"idle", "head"} /\ ~InPop(c)'
<1>1. cons[c] \in ConsumerRecord
  BY Types DEF Inv
<1>2. IdleConsumer \in ConsumerRecord /\ IdleConsumer.pc = "idle"
  BY BoundsAssumption DEF IdleConsumer, ConsumerRecord, Node, Link, Dummy, Null, Pair
<1>3. CASE cons' = [cons EXCEPT ![c] = IdleConsumer]
  BY <1>2, <1>3, ConsumerWrites DEF Inv, InPop
<1>4. CASE cons' = [cons EXCEPT ![c] = [IdleConsumer EXCEPT !.pc = "head",
                                                            !.retries = cons[c].retries + 1]]
  <2>1. PICK s \in ConsumerRecord : s = IdleConsumer
    BY <1>2
  <2>2. PICK k \in Nat : k = cons[c].retries + 1
    BY <1>1 DEF ConsumerRecord
  <2> DEFINE r == [s EXCEPT !.pc = "head", !.retries = k]
  <2>3. r \in ConsumerRecord /\ r.pc = "head"
    BY DEF ConsumerRecord
  <2>4. cons' = [cons EXCEPT ![c] = r]
    BY <1>4, <2>1, <2>2
  <2> HIDE DEF r
  <2>5. QED
    BY <2>3, <2>4, ConsumerWrites DEF Inv, InPop
<1>5. QED
  BY <1>3, <1>4 DEF PopRetry

LEMMA PopEndStep ==
  ASSUME Inv, NEW c \in Consumer,
         PopStale(c) \/ PopEmpty(c) \/ PopLose(c) \/ PopCount(c)
  PROVE  Inv'
<1>1. /\ PopRetry(c) \/ cons' = [cons EXCEPT ![c] = IdleConsumer]
      /\ UNCHANGED <<head, tail, next, elem, allocated, prod, order, delivered, freed>>
      /\ \/ count' = count /\ cons[c].pc # "count"
         \/ count' = (count - 1) % CountModulus /\ cons[c].pc = "count"
  BY DEF PopStale, PopEmpty, PopLose, PopCount, queueVars, nodeVars, histVars
<1>2. OnlyConsumer(c) /\ cons'[c].pc # "count" /\ ~InPop(c)'
  BY <1>1, PopEnds
<1>3. QED
  BY <1>1, <1>2, ConsumerMoves DEF TailMoves

LEMMA PopHelpStep ==
  ASSUME Inv, NEW c \in Consumer, PopHelp(c)
  PROVE  Inv'
<1>1. /\ PopRetry(c) /\ cons[c].pc = "help" /\ InPop(c)
      /\ UNCHANGED <<head, count, next, elem, allocated, prod, order, delivered, freed>>
  BY DEF PopHelp, InPop, nodeVars, histVars
<1>2. OnlyConsumer(c) /\ cons'[c].pc # "count" /\ ~InPop(c)'
  BY <1>1, PopEnds
<1>3. PICK j \in 1 .. Popped + 1 : \E i \in 1 .. Last : ConsumerAt(c, j, i)
  BY <1>1 DEF Inv, ConsumerInv
<1>4. PICK i \in 1 .. Last : ConsumerAt(c, j, i)
  BY <1>3
<1>5. Last \in Nat /\ Popped \in Nat
  BY Positions DEF Inv
<1>6. j \in 1 .. Last - 1 /\ cons[c].tail = order[j] /\ cons[c].next = order[j + 1]
  BY <1>1, <1>4, <1>5 DEF ConsumerAt
<1>7. TailMoves
  BY <1>6 DEF PopHelp, TailMoves
<1>8. QED
  BY <1>1, <1>2, <1>7, ConsumerMoves

\* The head a pop has loaded is still the head: its position is that of the head.
LEMMA HeadAt ==
  ASSUME Inv, NEW j \in 1 .. Popped + 1, head = order[j]
  PROVE  j = Popped + 1
<1>1. /\ Last \in Nat /\ Popped \in Nat /\ Popped + 1 <= Last /\ head = order[Popped + 1]
  BY Positions DEF Inv
<1>2. j \in 1 .. Last /\ Popped + 1 \in 1 .. Last
  BY <1>1
<1>3. QED
  BY <1>1, <1>2, OnePosition DEF Inv

LEMMA PopFoundStep ==
  ASSUME Inv, NEW c \in Consumer, PopFound(c)
  PROVE  Inv'
<1> DEFINE r == [cons[c] EXCEPT !.pc = IF cons[c].head = cons[c].tail THEN "help" ELSE "data"]
<1>1. /\ cons[c] \in ConsumerRecord /\ cons[c].pc = "check" /\ InPop(c)
      /\ head = cons[c].head /\ cons[c].next # Null
  BY Types DEF Inv, TypeOK, PopFound, InPop
<1>2. /\ r \in ConsumerRecord /\ r.head = cons[c].head /\ r.tail = cons[c].tail
      /\ r.next = cons[c].next /\ r.pc \in {"help", "data"}
      /\ (r.pc = "help" <=> cons[c].head = cons[c].tail)
  BY <1>1 DEF ConsumerRecord
<1>3. /\ cons' = [cons EXCEPT ![c] = r]
      /\ UNCHANGED <<head, tail, count, next, elem, allocated, prod, order, delivered, freed>>
  BY DEF PopFound, queueVars, nodeVars, histVars
<1> HIDE DEF r
<1>4. OnlyConsumer(c) /\ cons'[c] = r
  BY <1>2, <1>3, ConsumerWrites DEF Inv
<1>5. PICK j \in 1 .. Popped + 1 : \E i \in 1 .. Last : ConsumerAt(c, j, i)
  BY <1>1 DEF Inv, ConsumerInv
<1>6. PICK i \in 1 .. Last : ConsumerAt(c, j, i)
  BY <1>5
<1>7. cons[c].head = order[j] /\ cons[c].tail = order[i] /\ j <= i /\ i <= TailPos
  BY <1>1, <1>6 DEF ConsumerAt
<1>8. j = Popped + 1
  BY <1>1, <1>7, HeadAt
<1>9. j < Last /\ cons[c].next = order[j + 1]
  BY <1>1, <1>6, <1>8 DEF ConsumerAt
<1>10. Last \in Nat /\ Popped \in Nat /\ TailPos \in Nat
  BY Positions DEF Inv
<1>11. j \in 1 .. Last
  BY <1>9, <1>10
<1>12. (order[j] = order[i]) => i = j
  BY <1>11, OnePosition DEF Inv
<1>13. (r.pc = "help" => i = j) /\ (r.pc = "data" => j < i)
  BY <1>2, <1>7, <1>10, <1>12
<1>14. TailPos' = TailPos /\ order' = order /\ Popped' = Popped /\ Last' = Last
  BY <1>3 DEF TailPos, Last, Popped
<1>15. ConsumerAt(c, j, i)'
  BY <1>2, <1>4, <1>7, <1>9, <1>13, <1>14 DEF ConsumerAt
<1>16. QED
  BY <1>1, <1>2, <1>3, <1>4, <1>15, ConsumerMoves DEF TailMoves

LEMMA PopDataStep ==
  ASSUME Inv, NEW c \in Consumer, PopData(c)
  PROVE  Inv'
<1>1. cons[c] \in ConsumerRecord /\ cons[c].pc = "data" /\ InPop(c)
  BY Types DEF Inv, TypeOK, PopData, InPop
<1>2. PICK d \in DataOf(cons[c].next) : cons' = [cons EXCEPT ![c].pc = "swing", ![c].data = d]
  BY DEF PopData
<1> DEFINE r == [cons[c] EXCEPT !.pc = "swing", !.data = d]
<1>3. /\ cons' = [cons EXCEPT ![c] = r]
      /\ UNCHANGED <<head, tail, count, next, elem, allocated, prod, order, delivered, freed>>
  BY <1>2 DEF PopData, queueVars, nodeVars, histVars
<1>4. PICK j \in 1 .. Popped + 1 : \E i \in 1 .. Last : ConsumerAt(c, j, i)
  BY <1>1 DEF Inv, ConsumerInv
<1>5. PICK i \in 1 .. Last : ConsumerAt(c, j, i)
  BY <1>4
<1>6. /\ cons[c].head = order[j] /\ cons[c].tail = order[i] /\ j < i /\ j <= i /\ i <= TailPos
      /\ j < Last /\ cons[c].next = order[j + 1]
  BY <1>1, <1>5 DEF ConsumerAt
<1>7. Last \in Nat /\ Popped \in Nat
  BY Positions DEF Inv
<1>8. j + 1 \in 1 .. Last
  BY <1>6, <1>7
<1>9. d \in Pair
  <2>1. cons[c].next \in Node
    BY <1>6, <1>8, Types DEF Inv
  <2>2. QED
    BY <2>1 DEF DataOf, Inv, TypeOK
<1>10. /\ r \in ConsumerRecord /\ r.head = cons[c].head /\ r.tail = cons[c].tail
       /\ r.next = cons[c].next /\ r.pc = "swing" /\ r.data = d
  BY <1>1, <1>9 DEF ConsumerRecord
<1> HIDE DEF r
<1>11. OnlyConsumer(c) /\ cons'[c] = r
  BY <1>3, <1>10, ConsumerWrites DEF Inv
<1>12. ASSUME j = Popped + 1 PROVE d = elem[order[j + 1]]
  <2>1. j + 1 \in Popped + 1 .. Last
    BY <1>6, <1>7, <1>12
  <2>2. order[j + 1] \notin freed
    BY <2>1 DEF Inv, FreedInv
  <2>3. QED
    BY <1>6, <2>2 DEF DataOf
<1>13. TailPos' = TailPos /\ order' = order /\ Popped' = Popped /\ Last' = Last
  BY <1>3 DEF TailPos, Last, Popped
<1>14. ConsumerAt(c, j, i)'
  BY <1>3, <1>6, <1>10, <1>11, <1>12, <1>13 DEF ConsumerAt
<1>15. QED
  BY <1>1, <1>3, <1>10, <1>11, <1>14, ConsumerMoves DEF TailMoves

\* A compare-and-swap of the head that succeeds pops the oldest node's pair.
LEMMA PopSwingEffect ==
  ASSUME Inv, NEW c \in Consumer, PopSwing(c)
  PROVE  /\ head' = order[Popped + 2] /\ freed' = freed \cup {order[Popped + 1]}
         /\ delivered' = Append(delivered, elem[order[Popped + 2]])
         /\ elem[order[Popped + 2]] \in Pair /\ Popped' = Popped + 1 /\ Popped + 2 <= TailPos
         /\ OnlyConsumer(c) /\ cons[c].pc # "count" /\ cons'[c].pc = "count"
         /\ UNCHANGED <<tail, count, next, elem, allocated, prod, order>>
<1> DEFINE r == [cons[c] EXCEPT !.pc = "count"]
<1>1. cons[c] \in ConsumerRecord /\ cons[c].pc = "swing" /\ InPop(c) /\ head = cons[c].head
  BY Types DEF Inv, TypeOK, PopSwing, InPop
<1>2. r \in ConsumerRecord /\ r.pc = "count"
  BY <1>1 DEF ConsumerRecord
<1>3. cons' = [cons EXCEPT ![c] = r] /\ UNCHANGED <<tail, count, next, elem, allocated, prod, order>>
  BY DEF PopSwing, nodeVars
<1> HIDE DEF r
<1>4. OnlyConsumer(c) /\ cons'[c] = r
  BY <1>2, <1>3, ConsumerWrites DEF Inv
<1>5. PICK j \in 1 .. Popped + 1 : \E i \in 1 .. Last : ConsumerAt(c, j, i)
  BY <1>1 DEF Inv, ConsumerInv
<1>6. PICK i \in 1 .. Last : ConsumerAt(c, j, i)
  BY <1>5
<1>7. cons[c].head = order[j] /\ j < i /\ i <= TailPos /\ cons[c].next = order[j + 1]
  BY <1>1, <1>6 DEF ConsumerAt
<1>8. j = Popped + 1
  BY <1>1, <1>7, HeadAt
<1>9. Popped \in Nat /\ TailPos \in Nat /\ delivered \in Seq(Pair) /\ Popped = Len(delivered)
  BY Positions DEF Inv, TypeOK, Popped
<1>10. j + 1 = Popped + 2 /\ Popped + 2 <= TailPos
  BY <1>7, <1>8, <1>9
<1>11. cons[c].data = elem[order[j + 1]] /\ cons[c].data \in Pair
  BY <1>1, <1>6, <1>8 DEF ConsumerAt, ConsumerRecord
<1>12. /\ head' = order[j + 1] /\ freed' = freed \cup {order[j]}
       /\ delivered' = Append(delivered, elem[order[j + 1]])
  BY <1>7, <1>11 DEF PopSwing
<1>13. Popped' = Popped + 1
  BY <1>9, <1>11, <1>12 DEF Popped
<1>14. QED
  BY <1>1, <1>2, <1>3, <1>4, <1>8, <1>10, <1>11, <1>12, <1>13

LEMMA PopSwingStep ==
  ASSUME Inv, NEW c \in Consumer, PopSwing(c)
  PROVE  Inv'
<1> DEFINE D == Popped
<1>1. /\ head' = order[D + 2] /\ freed' = freed \cup {order[D + 1]}
      /\ delivered' = Append(delivered, elem[order[D + 2]])
      /\ elem[order[D + 2]] \in Pair /\ Popped' = D + 1 /\ D + 2 <= TailPos
      /\ OnlyConsumer(c) /\ cons[c].pc # "count" /\ cons'[c].pc = "count"
      /\ UNCHANGED <<tail, count, next, elem, allocated, prod, order>>
  BY PopSwingEffect
<1>2. /\ Last \in Nat /\ D \in Nat /\ TailPos \in Nat /\ TailPos <= Last /\ tail = order[TailPos]
  BY Positions DEF Inv
<1>3. Last' = Last /\ TailPos' = TailPos
  BY <1>1 DEF Last, TailPos
<1>4. D + 1 \in 1 .. Last /\ D + 1 < Last /\ D <= D + 1 /\ (D + 1) + 1 = D + 2 /\ D + 1 \in Nat
  BY <1>1, <1>2
<1> HIDE DEF D
<1>5. Grows
  BY <1>1, <1>2, <1>3, <1>4 DEF Grows, D
<1>6. ChainInv'
  <2>1. Popped' < Last' /\ head' = order'[Popped' + 1]
    BY <1>1, <1>3, <1>4
  <2>2. QED
    BY <1>1, <1>3, <2>1 DEF Inv, ChainInv
<1>7. TailInv'
  <2>1. TailPos >= (D + 1) + 1
    BY <1>1, <1>2
  <2>2. QED
    BY <1>1, <1>2, <1>3, <2>1 DEF TailInv
<1>8. FreedInv' /\ freed' \subseteq Node
  <2>1. order[D + 1] \in Node /\ order[D + 1] <= allocated
    BY <1>4, Types DEF Inv, ChainInv
  <2>2. \A k \in (D + 1) + 1 .. Last : k \in D + 1 .. Last /\ k \in 1 .. Last /\ k # D + 1
    BY <1>2
  <2>3. \A k \in (D + 1) + 1 .. Last : order[k] # order[D + 1]
    BY <1>4, <2>2, OnePosition DEF Inv
  <2>4. \A k \in (D + 1) + 1 .. Last : order[k] \notin freed'
    BY <1>1, <2>2, <2>3 DEF Inv, FreedInv, D
  <2>5. \A n \in freed' : n <= allocated /\ n \in Node
    BY <1>1, <2>1 DEF Inv, FreedInv, TypeOK
  <2>6. QED
    BY <1>1, <1>3, <2>4, <2>5 DEF FreedInv
<1>9. PrivateInv'
  <2>1. ASSUME NEW p \in Producer, Holds(p) PROVE prod[p].node \notin freed'
    <3>1. prod[p].node \notin freed /\ \A k \in 1 .. Last : order[k] # prod[p].node
      BY <2>1 DEF Inv, PrivateInv
    <3>2. QED
      BY <1>1, <1>4, <3>1
  <2>2. \A p \in Producer : Holds(p)' <=> Holds(p)
    BY <1>1 DEF Holds
  <2>3. QED
    BY <1>1, <1>3, <2>1, <2>2 DEF Inv, PrivateInv
<1>10. ProducerInv' /\ ConsumerInv'
  <2>1. ~InPop(c)'
    BY <1>1 DEF InPop
  <2>2. QED
    BY <1>1, <1>5, <2>1, OtherConsumers
<1>11. LagInv'
  BY <1>1, <1>3 DEF Inv, LagInv
<1>12. CountInv'
  <2> DEFINE I == Cardinality(InsertsUncounted)
             P == Cardinality(PopsUncounted)
             Q == Cardinality(PopsUncounted)'
  <2>1. I \in Nat /\ P \in Nat
    BY Counts DEF Inv
  <2>2. Q = P + 1
    BY <1>1, ConsumerCounts DEF Inv
  <2>3. Due = Last - 1 - D - I + P /\ Due' = Last - 1 - (D + 1) - I + Q
    BY <1>1, <1>3, ConsumerCounts DEF Due, Inv, D
  <2> HIDE DEF I, P, Q
  <2>4. Due' = Due
    BY <1>2, <2>1, <2>2, <2>3
  <2>5. QED
    BY <1>1, <2>4 DEF Inv, CountInv
<1>13. TypeOK'
  <2>1. head' \in Node
    <3>1. D + 2 \in 1 .. Last
      BY <1>1, <1>2
    <3>2. QED
      BY <1>1, <3>1, Types DEF Inv
  <2>2. delivered' \in Seq(Pair)
    BY <1>1 DEF Inv, TypeOK
  <2>3. QED
    BY <1>1, <1>8, <2>1, <2>2 DEF Inv, TypeOK, OnlyConsumer
<1>14. QED
  BY <1>6, <1>7, <1>8, <1>9, <1>10, <1>11, <1>12, <1>13 DEF Inv
----------------------------------------------------------------------------
(* The inductive invariant *)

LEMMA InitInv == Init => Inv
<1> SUFFICES ASSUME Init PROVE Inv
  OBVIOUS
<1>1. /\ head = Dummy /\ tail = Dummy /\ count = 0 /\ allocated = 0 /\ order = <<Dummy>>
      /\ delivered = <<>> /\ freed = {} /\ Dummy = 0
      /\ next = [n \in Node |-> Null] /\ elem = [n \in Node |-> NoItem]
      /\ prod = [p \in Producer |-> IdleProducer] /\ cons = [c \in Consumer |-> IdleConsumer]
  BY DEF Init, Dummy
<1>2. Last = 1 /\ Popped = 0 /\ order[1] = 0 /\ TailPos = 1
  BY <1>1 DEF Last, Popped, TailPos
<1>3. /\ IdleProducer \in ProducerRecord /\ IdleProducer.pc = "idle"
      /\ IdleConsumer \in ConsumerRecord /\ IdleConsumer.pc = "idle"
  BY BoundsAssumption
     DEF IdleProducer, ProducerRecord, IdleConsumer, ConsumerRecord, Node, Link, Dummy, Null, Pair
<1>4. \A p \in Producer : prod[p].pc = "idle"
  BY <1>1, <1>3
<1>5. \A c \in Consumer : cons[c].pc = "idle"
  BY <1>1, <1>3
<1>6. 0 \in Node /\ CountModulus > 0 /\ CountModulus \in Nat
  BY BoundsAssumption, VerifyAssumption DEF Node
<1>7. TypeOK
  <2>1. next \in [Node -> Link] /\ elem \in [Node -> Pair]
    BY <1>1 DEF Link, Pair
  <2>2. order \in Seq(Node) /\ delivered \in Seq(Pair)
    BY <1>1, <1>6
  <2>3. prod \in [Producer -> ProducerRecord] /\ cons \in [Consumer -> ConsumerRecord]
    BY <1>1, <1>3
  <2>4. count \in 0 .. CountModulus - 1 /\ allocated \in 0 .. MaxNodes
    BY <1>1, <1>6, BoundsAssumption
  <2>5. QED
    BY <1>1, <1>6, <2>1, <2>2, <2>3, <2>4 DEF TypeOK
<1>8. ChainInv
  BY <1>1, <1>2, <1>6 DEF ChainInv
<1>9. TailInv /\ FreedInv
  BY <1>1, <1>2 DEF TailInv, FreedInv
<1>10. PrivateInv /\ ProducerInv /\ LagInv /\ ConsumerInv
  BY <1>2, <1>4, <1>5 DEF PrivateInv, Holds, ProducerInv, InAdd, LagInv, ConsumerInv, InPop
<1>11. CountInv
  <2>1. InsertsUncounted = {} /\ PopsUncounted = {}
    BY <1>4, <1>5 DEF InsertsUncounted, PopsUncounted
  <2>2. Due = 0
    BY <1>2, <2>1, FS_EmptySet DEF Due
  <2>3. 0 % CountModulus = 0
    BY <1>6, FirstLap
  <2>4. QED
    BY <1>1, <2>2, <2>3 DEF CountInv
<1>12. QED
  BY <1>7, <1>8, <1>9, <1>10, <1>11 DEF Inv

LEMMA NextInv == Inv /\ [Next]_vars => Inv'
<1> SUFFICES ASSUME Inv, [Next]_vars PROVE Inv'
  OBVIOUS
<1>1. ASSUME NEW p \in Producer, ds_msqueue_insert(p) PROVE Inv'
  BY <1>1, InsertBeginStep, InsertTailStep, InsertNextStep, InsertHelpStep, InsertLinkStep,
     InsertLoseStep, InsertCountStep, InsertSwingStep DEF ds_msqueue_insert
<1>2. ASSUME NEW c \in Consumer, ds_msqueue_pop(c) PROVE Inv'
  BY <1>2, PopHeadStep, PopTailStep, PopNextStep, PopEndStep, PopFoundStep, PopHelpStep,
     PopDataStep, PopSwingStep DEF ds_msqueue_pop
<1>3. ASSUME UNCHANGED vars PROVE Inv'
  <2>1. UNCHANGED <<head, tail, count, next, elem, allocated, prod, cons, order, delivered, freed>>
    BY <1>3 DEF vars, queueVars, nodeVars, histVars
  <2>2. Last' = Last /\ Popped' = Popped /\ TailPos' = TailPos
    BY <2>1 DEF Last, Popped, TailPos
  <2>3. TypeOK' /\ ChainInv' /\ TailInv' /\ FreedInv'
    BY <2>1, <2>2 DEF Inv, TypeOK, ChainInv, TailInv, FreedInv
  <2>4. PrivateInv' /\ LagInv'
    BY <2>1, <2>2 DEF Inv, PrivateInv, LagInv, Holds
  <2>5. ProducerInv' /\ ConsumerInv'
    BY <2>1, <2>2 DEF Inv, ProducerInv, ConsumerInv, InAdd, InPop, ProducerAt, ConsumerAt
  <2>6. CountInv'
    BY <2>1, <2>2 DEF Inv, CountInv, Due, InsertsUncounted, PopsUncounted
  <2>7. QED
    BY <2>3, <2>4, <2>5, <2>6 DEF Inv
<1>4. QED
  BY <1>1, <1>2, <1>3 DEF Next

\* Every reachable state of ds_msqueue satisfies the invariant.
THEOREM InvHolds == Spec => []Inv
<1>1. QED
  BY InitInv, NextInv, PTL DEF Spec

\* Types are right in every reachable state of ds_msqueue.
THEOREM TypeCorrect == Spec => []TypeOK
<1>1. Inv => TypeOK
  BY DEF Inv
<1>2. QED
  BY <1>1, InvHolds, PTL
----------------------------------------------------------------------------
(* What the calls return *)

\* A step of one consumer leaves the records of the others alone.
LEMMA OtherPops ==
  ASSUME TypeOK, NEW d \in Consumer, ds_msqueue_pop(d), NEW c \in Consumer, c # d
  PROVE  cons'[c] = cons[c]
<1>1. cons \in [Consumer -> ConsumerRecord]
  BY DEF TypeOK
<1> HIDE DEF ConsumerRecord
<1>2. QED
  BY <1>1 DEF ds_msqueue_pop, PopHead, PopTail, PopNext, PopStale, PopEmpty, PopFound, PopHelp,
     PopData, PopSwing, PopLose, PopCount, PopRetry

LEMMA RefusalStep ==
  ASSUME Inv, Next, NEW c \in Consumer,
         cons[c].pc = "check", cons'[c].pc = "idle", head = cons[c].head
  PROVE  cons[c].empty
<1>1. cons[c] \in ConsumerRecord /\ InPop(c) /\ cons \in [Consumer -> ConsumerRecord]
  BY Types DEF Inv, InPop, TypeOK
<1>2. ASSUME NEW p \in Producer, ds_msqueue_insert(p) PROVE FALSE
  BY <1>2 DEF ds_msqueue_insert, InsertBegin, InsertTail, InsertNext, InsertHelp, InsertLink,
     InsertLose, InsertCount, InsertSwing
<1>3. PICK d \in Consumer : ds_msqueue_pop(d)
  BY <1>2 DEF Next
<1>4. d = c
  BY <1>3, OtherPops DEF Inv
<1>5. ~PopFound(c)
  <2> SUFFICES ASSUME PopFound(c) PROVE FALSE
    OBVIOUS
  <2>1. cons'[c].pc \in {"help", "data"}
    BY <1>1 DEF PopFound, ConsumerRecord
  <2>2. QED
    BY <2>1
<1>6. PopEmpty(c)
  BY <1>3, <1>4, <1>5 DEF ds_msqueue_pop, PopHead, PopTail, PopNext, PopStale, PopHelp, PopData,
     PopSwing, PopLose, PopCount
<1>7. cons[c].next = Null
  BY <1>6 DEF PopEmpty
<1>8. PICK j \in 1 .. Popped + 1 : \E i \in 1 .. Last : ConsumerAt(c, j, i)
  BY <1>1 DEF Inv, ConsumerInv
<1>9. PICK i \in 1 .. Last : ConsumerAt(c, j, i)
  BY <1>8
<1>10. cons[c].head = order[j]
  BY <1>9 DEF ConsumerAt
<1>11. j = Popped + 1
  BY <1>10, HeadAt
<1>12. cons[c].empty \/ (j < Last /\ cons[c].next = order[j + 1])
  BY <1>9, <1>11 DEF ConsumerAt
<1>13. ~(j < Last /\ cons[c].next = order[j + 1])
  <2> SUFFICES ASSUME j < Last PROVE order[j + 1] # Null
    BY <1>7
  <2>1. j + 1 \in 1 .. Last
    BY Types DEF Inv
  <2>2. QED
    BY <2>1, Types DEF Inv
<1>14. QED
  BY <1>12, <1>13

\* ds_msqueue_pop returns DS_ERROR_NOT_FOUND only if the queue was empty at an instant
\* during the call, however the other threads' steps fall between its four loads.
THEOREM RefusalsHonest == Spec => HonestRefusals
<1> DEFINE Honest == \A c \in Consumer :
             cons[c].pc = "check" /\ cons'[c].pc = "idle" /\ head = cons[c].head => cons[c].empty
<1>1. Inv /\ [Next]_vars => [Honest]_vars
  BY RefusalStep
<1>2. QED
  BY <1>1, InvHolds, PTL DEF Spec, HonestRefusals
----------------------------------------------------------------------------
(* The queue the list stands for *)

LEMMA AppendIs ==
  ASSUME NEW S, NEW s \in Seq(S), NEW t \in Seq(S), NEW x \in S, Len(t) = Len(s) + 1,
         \A k \in 1 .. Len(s) : t[k] = s[k], t[Len(s) + 1] = x
  PROVE  t = Append(s, x)
<1> DEFINE a == Append(s, x)
<1>1. a \in Seq(S) /\ Len(a) = Len(s) + 1 /\ a[Len(s) + 1] = x /\ \A k \in 1 .. Len(s) : a[k] = s[k]
  OBVIOUS
<1> HIDE DEF a
<1>2. \A k \in 1 .. Len(t) : k \in 1 .. Len(s) \/ k = Len(s) + 1
  OBVIOUS
<1>3. \A k \in 1 .. Len(t) : t[k] = a[k]
  BY <1>1, <1>2
<1>4. t = a
  BY <1>1, <1>3, SeqEqual
<1>5. QED
  BY <1>4 DEF a

LEMMA TailIs ==
  ASSUME NEW S, NEW s \in Seq(S), NEW t \in Seq(S), Len(s) = Len(t) + 1,
         \A k \in 1 .. Len(t) : t[k] = s[k + 1]
  PROVE  t = Tail(s) /\ s # <<>> /\ Head(s) = s[1]
<1> DEFINE a == Tail(s)
<1>1. s # <<>> /\ Head(s) = s[1]
  OBVIOUS
<1>2. a \in Seq(S) /\ Len(a) = Len(t) /\ \A k \in 1 .. Len(t) : a[k] = s[k + 1]
  BY <1>1
<1> HIDE DEF a
<1>3. t = a
  BY <1>2, SeqEqual
<1>4. QED
  BY <1>1, <1>3 DEF a

\* The items are those of the nodes after the dummy.
ContentsAre ==
  /\ Contents \in Seq(Producer) /\ Len(Contents) = Last - 1 - Popped
  /\ \A k \in 1 .. Last - 1 - Popped : Contents[k] = elem[order[Popped + 1 + k]]

LEMMA ContentsOfList == Inv => ContentsAre
<1> SUFFICES ASSUME Inv PROVE ContentsAre
  OBVIOUS
<1>1. Last \in Nat /\ Popped \in Nat /\ Popped + 1 <= Last
  BY Positions DEF Inv
<1> DEFINE m == Last - 1 - Popped
<1>2. m \in Nat
  BY <1>1
<1>3. \A k \in 1 .. m : Popped + 1 + k \in 2 .. Last
  BY <1>1
<1>4. \A k \in 1 .. m : elem[order[Popped + 1 + k]] \in Producer
  BY <1>3 DEF Inv, ChainInv
<1>5. Contents = [k \in 1 .. m |-> elem[order[Popped + 1 + k]]]
  BY DEF Contents, Last
<1> HIDE DEF m
<1>6. Contents \in [1 .. m -> Producer] /\ \A k \in 1 .. m : Contents[k] = elem[order[Popped + 1 + k]]
  BY <1>4, <1>5
<1>7. Contents \in Seq(Producer) /\ Len(Contents) = m
  BY <1>2, <1>6
<1>8. QED
  BY <1>6, <1>7 DEF ContentsAre, m

\* No more nodes are linked than there are.
NodesFit == Last <= MaxNodes + 1

LEMMA RoomForNodes == Inv => NodesFit
<1> SUFFICES ASSUME Inv PROVE Last <= MaxNodes + 1
  BY DEF NodesFit
<1>1. order \in Seq(Node) /\ Last = Len(order) /\ Last \in Nat /\ MaxNodes \in Nat
  BY Types DEF Inv, TypeOK, Last
<1>2. order \in [1 .. Last -> Node] /\ \A j, k \in 1 .. Last : order[j] = order[k] => j = k
  BY <1>1 DEF Inv, ChainInv
<1>3. order \in Injection(1 .. Last, Node)
  BY <1>2 DEF Injection, IsInjective
<1>4. IsFiniteSet(Node) /\ Cardinality(Node) = MaxNodes + 1
  BY <1>1, FS_Interval DEF Node
<1>5. Cardinality(1 .. Last) = Last
  <2>1. Last \in Int /\ ~(1 > Last) /\ Last - 1 + 1 = Last
    BY <1>1, Positions DEF Inv
  <2>2. Cardinality(1 .. Last) = Last - 1 + 1
    BY <2>1, FS_Interval
  <2>3. QED
    BY <2>1, <2>2
<1>6. QED
  BY <1>3, <1>4, <1>5, FS_Injection

LEMMA LinkInserts ==
  ASSUME Inv, Inv', ContentsAre, ContentsAre', NEW p \in Producer, InsertLink(p)
  PROVE  Fifo!Insert(p)
<1> DEFINE N == prod[p].node
           m == Last - 1 - Popped
<1>1. /\ order' = Append(order, N) /\ UNCHANGED <<elem, delivered>> /\ Holds(p)
      /\ order \in Seq(Node) /\ N \in Node
  BY Types DEF InsertLink, Holds, Inv, TypeOK, ProducerRecord
<1>2. elem[N] = p
  BY <1>1 DEF Inv, PrivateInv
<1>3. /\ Last' = Last + 1 /\ Popped' = Popped /\ order'[Last + 1] = N
      /\ \A k \in 1 .. Last : order'[k] = order[k]
  BY <1>1 DEF Last, Popped
<1>4. Last \in Nat /\ Popped \in Nat /\ Popped + 1 <= Last
  BY Positions DEF Inv
<1>5. /\ m \in Nat /\ Last' - 1 - Popped' = m + 1 /\ Popped + 1 + (m + 1) = Last + 1
      /\ m + 1 \in 1 .. m + 1 /\ \A k \in 1 .. m : k \in 1 .. m + 1 /\ Popped + 1 + k \in 1 .. Last
  BY <1>3, <1>4
<1> HIDE DEF N
<1>6. /\ Contents \in Seq(Producer) /\ Len(Contents) = m
      /\ \A k \in 1 .. m : Contents[k] = elem[order[Popped + 1 + k]]
  BY DEF ContentsAre
<1>7. /\ Contents' \in Seq(Producer) /\ Len(Contents') = m + 1
      /\ \A k \in 1 .. m + 1 : Contents'[k] = elem[order'[Popped + 1 + k]]
  <2>1. /\ Contents' \in Seq(Producer) /\ Len(Contents') = Last' - 1 - Popped'
        /\ \A k \in 1 .. Last' - 1 - Popped' : Contents'[k] = elem'[order'[Popped' + 1 + k]]
    BY DEF ContentsAre
  <2>2. QED
    BY <1>1, <1>3, <1>5, <2>1
<1> HIDE DEF m
<1>8. Contents'[m + 1] = p /\ \A k \in 1 .. m : Contents'[k] = Contents[k]
  <2>1. Contents'[m + 1] = elem[order'[Last + 1]]
    BY <1>5, <1>7
  <2>2. ASSUME NEW k \in 1 .. m PROVE Contents'[k] = Contents[k]
    <3>1. Contents'[k] = elem[order'[Popped + 1 + k]] /\ Contents[k] = elem[order[Popped + 1 + k]]
      BY <1>5, <1>6, <1>7
    <3>2. order'[Popped + 1 + k] = order[Popped + 1 + k]
      BY <1>3, <1>5
    <3>3. QED
      BY <3>1, <3>2
  <2>3. QED
    BY <1>2, <1>3, <2>1, <2>2
<1>9. Contents' = Append(Contents, p)
  BY <1>6, <1>7, <1>8, AppendIs
<1>10. Len(Contents) < MaxNodes
  <2>1. Last' <= MaxNodes + 1 /\ MaxNodes \in Nat
    <3>1. NodesFit'
      BY RoomForNodes, PTL
    <3>2. QED
      BY <3>1, BoundsAssumption DEF NodesFit
  <2>2. Last <= MaxNodes
    BY <1>3, <1>4, <2>1
  <2>3. m < MaxNodes
    BY <1>4, <2>1, <2>2 DEF m
  <2>4. QED
    BY <1>6, <2>3
<1>11. QED
  BY <1>1, <1>9, <1>10 DEF Fifo!Insert

LEMMA SwingPops ==
  ASSUME Inv, ContentsAre, ContentsAre', NEW c \in Consumer, PopSwing(c)
  PROVE  Fifo!Pop
<1> DEFINE m == Last - 1 - (Popped + 1)
<1>1. /\ delivered' = Append(delivered, elem[order[Popped + 2]]) /\ Popped' = Popped + 1
      /\ Popped + 2 <= TailPos /\ UNCHANGED <<elem, order>>
  BY PopSwingEffect
<1>2. Last \in Nat /\ Popped \in Nat /\ TailPos \in Nat /\ TailPos <= Last /\ Last' = Last
  BY <1>1, Positions DEF Inv, Last
<1>3. /\ m \in Nat /\ Last - 1 - Popped = m + 1 /\ 1 \in 1 .. m + 1
      /\ Popped + 1 + 1 = Popped + 2
      /\ \A k \in 1 .. m : k + 1 \in 1 .. m + 1 /\ Popped + 1 + (k + 1) = (Popped + 1) + 1 + k
  BY <1>1, <1>2
<1>4. /\ Contents \in Seq(Producer) /\ Len(Contents) = m + 1
      /\ \A k \in 1 .. m + 1 : Contents[k] = elem[order[Popped + 1 + k]]
  BY <1>3 DEF ContentsAre
<1>5. /\ Contents' \in Seq(Producer) /\ Len(Contents') = m
      /\ \A k \in 1 .. m : Contents'[k] = elem[order[(Popped + 1) + 1 + k]]
  <2>1. /\ Contents' \in Seq(Producer) /\ Len(Contents') = Last' - 1 - Popped'
        /\ \A k \in 1 .. Last' - 1 - Popped' : Contents'[k] = elem'[order'[Popped' + 1 + k]]
    BY DEF ContentsAre
  <2>2. QED
    BY <1>1, <1>2, <2>1
<1> HIDE DEF m
<1>6. \A k \in 1 .. m : Contents'[k] = Contents[k + 1]
  <2> SUFFICES ASSUME NEW k \in 1 .. m PROVE Contents'[k] = Contents[k + 1]
    OBVIOUS
  <2>1. Contents[k + 1] = elem[order[Popped + 1 + (k + 1)]]
    BY <1>3, <1>4
  <2>2. QED
    BY <1>3, <1>5, <2>1
<1>7. Contents' = Tail(Contents) /\ Contents # <<>> /\ Head(Contents) = Contents[1]
  BY <1>4, <1>5, <1>6, TailIs
<1>8. Contents[1] = elem[order[Popped + 2]]
  BY <1>3, <1>4
<1>9. QED
  BY <1>1, <1>7, <1>8 DEF Fifo!Pop

LEMMA SameContents ==
  ASSUME Inv, ContentsAre, ContentsAre', UNCHANGED <<order, delivered>>,
         \A k \in 1 .. Last : elem'[order[k]] = elem[order[k]]
  PROVE  UNCHANGED <<Contents, delivered>>
<1> DEFINE m == Last - 1 - Popped
<1>1. Last' = Last /\ Popped' = Popped /\ Last \in Nat /\ Popped \in Nat
  BY Types DEF Inv, Last, Popped
<1>2. \A k \in 1 .. m : Popped + 1 + k \in 1 .. Last
  BY <1>1
<1>3. /\ Contents \in Seq(Producer) /\ Len(Contents) = m
      /\ \A k \in 1 .. m : Contents[k] = elem[order[Popped + 1 + k]]
  BY DEF ContentsAre
<1>4. /\ Contents' \in Seq(Producer) /\ Len(Contents') = m
      /\ \A k \in 1 .. m : Contents'[k] = elem'[order[Popped + 1 + k]]
  <2>1. /\ Contents' \in Seq(Producer) /\ Len(Contents') = Last' - 1 - Popped'
        /\ \A k \in 1 .. Last' - 1 - Popped' : Contents'[k] = elem'[order'[Popped' + 1 + k]]
    BY DEF ContentsAre
  <2>2. QED
    BY <1>1, <2>1
<1> HIDE DEF m
<1>5. \A k \in 1 .. m : Contents'[k] = Contents[k]
  BY <1>2, <1>3, <1>4
<1>6. Contents' = Contents
  BY <1>3, <1>4, <1>5, SeqEqual
<1>7. QED
  BY <1>6

\* The list implements the abstract queue for any number of threads: an insert takes
\* effect when the compare-and-swap links its node, a pop when the head moves, and what
\* is handed out is the oldest pair although it was copied before.
THEOREM ListImplementsFifo == Spec => ImplementsFifo
<1>1. Init => Fifo!Init
  <2> SUFFICES ASSUME Init PROVE Fifo!Init
    OBVIOUS
  <2>1. Inv /\ delivered = <<>> /\ order = <<Dummy>>
    BY InitInv DEF Init
  <2>2. Popped + 1 = Last
    BY <2>1 DEF Popped, Last
  <2>3. QED
    BY <2>1, <2>2, EmptyContents DEF Inv, Fifo!Init
<1>2. Inv /\ Inv' /\ ContentsAre /\ ContentsAre' /\ [Next]_vars
        => [Fifo!Next]_<<Contents, delivered>>
  <2> SUFFICES ASSUME Inv, Inv', ContentsAre, ContentsAre', [Next]_vars
               PROVE  Fifo!Next \/ UNCHANGED <<Contents, delivered>>
    OBVIOUS
  <2>1. UNCHANGED <<elem, order, delivered>> => UNCHANGED <<Contents, delivered>>
    BY SameContents
  <2>2. ASSUME NEW p \in Producer, ds_msqueue_insert(p)
        PROVE  Fifo!Next \/ UNCHANGED <<Contents, delivered>>
    <3>1. CASE InsertLink(p)
      BY <3>1, LinkInserts DEF Fifo!Next
    <3>2. CASE InsertBegin(p)
      <4>1. UNCHANGED <<order, delivered>> /\ elem' = [elem EXCEPT ![allocated + 1] = p]
        BY <3>2 DEF InsertBegin, histVars
      <4>2. ASSUME NEW k \in 1 .. Last PROVE order[k] \in Node /\ order[k] # allocated + 1
        BY Types DEF Inv, ChainInv
      <4>3. \A k \in 1 .. Last : elem'[order[k]] = elem[order[k]]
        BY <4>1, <4>2 DEF Inv, TypeOK
      <4>4. QED
        BY <4>1, <4>3, SameContents
    <3>3. CASE ~InsertLink(p) /\ ~InsertBegin(p)
      <4>1. UNCHANGED <<elem, order, delivered>>
        BY <2>2, <3>3 DEF ds_msqueue_insert, InsertTail, InsertNext, InsertHelp, InsertLose,
           InsertCount, InsertSwing, nodeVars, histVars
      <4>2. QED
        BY <2>1, <4>1
    <3>4. QED
      BY <3>1, <3>2, <3>3
  <2>3. ASSUME NEW c \in Consumer, ds_msqueue_pop(c)
        PROVE  Fifo!Next \/ UNCHANGED <<Contents, delivered>>
    <3>1. CASE PopSwing(c)
      BY <3>1, SwingPops DEF Fifo!Next
    <3>2. CASE ~PopSwing(c)
      <4>1. UNCHANGED <<elem, order, delivered>>
        BY <2>3, <3>2 DEF ds_msqueue_pop, PopHead, PopTail, PopNext, PopStale, PopEmpty, PopFound,
           PopHelp, PopData, PopLose, PopCount, nodeVars, histVars
      <4>2. QED
        BY <2>1, <4>1
    <3>3. QED
      BY <3>1, <3>2
  <2>4. CASE UNCHANGED vars
    BY <2>1, <2>4 DEF vars, nodeVars, histVars
  <2>5. QED
    BY <2>2, <2>3, <2>4 DEF Next
<1>3. QED
  BY <1>1, <1>2, ContentsOfList, InvHolds, PTL DEF Spec, ImplementsFifo, Fifo!Spec

----------------------------------------------------------------------------
(* Following the links from the head *)

LEMMA LeastNat ==
  ASSUME NEW S \in SUBSET Nat, S # {}
  PROVE  \E m \in S : \A k \in S : m <= k
<1> DEFINE R == {ss \in Nat \X Nat : ss[1] < ss[2]}
<1>1. IsWellFoundedOn(R, Nat)
  BY NatLessThanWellFounded, Zenon DEF OpToRel
<1> HIDE DEF R
<1>2. PICK m \in S : \A k \in S : ~(<<k, m>> \in R)
  BY <1>1, WFMin
<1>3. \A k \in S : <<k, m>> \in R \/ m <= k
  BY DEF R
<1>4. QED
  BY <1>2, <1>3

\* What the k-th hop meets.
Steps == 0 .. MaxNodes + 1
Met(k) == IF Popped + 1 + k <= Last THEN order[Popped + 1 + k] ELSE Null

LEMMA MetNext ==
  ASSUME Inv, NEW k \in Steps
  PROVE  Met(k) = IF k = 0 THEN head ELSE IF Met(k - 1) = Null THEN Null ELSE next[Met(k - 1)]
<1>1. /\ Last \in Nat /\ Popped \in Nat /\ MaxNodes \in Nat /\ Popped + 1 <= Last
      /\ head = order[Popped + 1] /\ k \in Nat
  BY Positions, BoundsAssumption DEF Inv, Steps
<1>2. CASE k = 0
  <2>1. Popped + 1 + k = Popped + 1
    BY <1>1, <1>2
  <2>2. QED
    BY <1>1, <1>2, <2>1 DEF Met
<1>3. CASE k # 0
  <2> DEFINE i == Popped + 1 + (k - 1)
  <2>1. i \in Nat /\ i >= 1 /\ Popped + 1 + k = i + 1
    BY <1>1, <1>3
  <2>2. /\ Met(k - 1) = (IF i <= Last THEN order[i] ELSE Null)
        /\ Met(k) = (IF i + 1 <= Last THEN order[i + 1] ELSE Null)
    BY <2>1 DEF Met
  <2> HIDE DEF i
  <2>3. CASE i <= Last
    <3>1. i \in 1 .. Last
      BY <1>1, <2>1, <2>3
    <3>2. order[i] # Null /\ Met(k - 1) = order[i]
      BY <2>2, <2>3, <3>1, Types DEF Inv
    <3>3. i + 1 <= Last => next[order[i]] = order[i + 1]
      BY <1>1, <2>1, <3>1, LinkOf DEF Inv
    <3>4. ~(i + 1 <= Last) => next[order[i]] = Null
      BY <1>1, <2>1, <2>3, <3>1, LinkOf DEF Inv
    <3>5. QED
      BY <1>3, <2>2, <3>2, <3>3, <3>4
  <2>4. CASE ~(i <= Last)
    <3>1. ~(i + 1 <= Last)
      BY <1>1, <2>1, <2>4
    <3>2. QED
      BY <1>3, <2>2, <2>4, <3>1
  <2>5. QED
    BY <2>3, <2>4
<1>4. QED
  BY <1>2, <1>3

LEMMA HopMeets ==
  ASSUME Inv, NEW k \in Steps
  PROVE  Hop[k] = Met(k)
<1> DEFINE f == [i \in Steps |-> Met(i)]
<1>1. \A i \in Steps : i \in Nat /\ (i # 0 => i - 1 \in Steps)
  BY BoundsAssumption DEF Steps
<1>2. f = [i \in Steps |-> IF i = 0 THEN head ELSE IF f[i - 1] = Null THEN Null ELSE next[f[i - 1]]]
  <2>1. \A i \in Steps : Met(i) = IF i = 0 THEN head
                                  ELSE IF f[i - 1] = Null THEN Null ELSE next[f[i - 1]]
    <3> SUFFICES ASSUME NEW i \in Steps
                 PROVE  Met(i) = IF i = 0 THEN head
                                 ELSE IF f[i - 1] = Null THEN Null ELSE next[f[i - 1]]
      OBVIOUS
    <3>1. i # 0 => f[i - 1] = Met(i - 1)
      BY <1>1
    <3>2. QED
      BY <3>1, MetNext
  <2>2. QED
    BY <2>1
<1> HIDE DEF f
<1>3. Hop = [i \in Steps |-> IF i = 0 THEN head
                              ELSE IF Hop[i - 1] = Null THEN Null ELSE next[Hop[i - 1]]]
  BY <1>2 DEF Hop, Steps
<1> DEFINE Wrong == {i \in Steps : Hop[i] # Met(i)}
<1>4. SUFFICES ASSUME Wrong # {} PROVE FALSE
  OBVIOUS
<1>5. Wrong \in SUBSET Nat
  BY <1>1
<1>6. PICK m \in Wrong : \A i \in Wrong : m <= i
  BY <1>4, <1>5, LeastNat
<1>7. m # 0 => Hop[m - 1] = Met(m - 1)
  <2> SUFFICES ASSUME m # 0 PROVE m - 1 \notin Wrong /\ m - 1 \in Steps
    OBVIOUS
  <2>1. m \in Nat /\ m - 1 \in Steps
    BY <1>1
  <2>2. QED
    BY <1>6, <2>1
<1>8. Hop[m] = IF m = 0 THEN head ELSE IF Hop[m - 1] = Null THEN Null ELSE next[Hop[m - 1]]
  BY <1>3
<1>9. QED
  BY <1>7, <1>8, MetNext

LEMMA WalkLength ==
  ASSUME Inv
  PROVE  /\ Last - 1 - Popped \in Nat /\ Last - 1 - Popped <= MaxNodes
         /\ Reached = 1 .. Last - 1 - Popped /\ Length = Last - 1 - Popped
         /\ \A k \in Reached : Hop[k] = order[Popped + 1 + k]
<1> DEFINE m == Last - 1 - Popped
<1>1. Last \in Nat /\ Popped \in Nat /\ MaxNodes \in Nat /\ Popped + 1 <= Last /\ Last <= MaxNodes + 1
  BY Positions, BoundsAssumption, RoomForNodes DEF Inv, NodesFit
<1>2. m \in Nat /\ m <= MaxNodes
  BY <1>1
<1>3. ASSUME NEW k \in 1 .. MaxNodes + 1
      PROVE  /\ k <= m => Hop[k] = order[Popped + 1 + k] /\ Hop[k] # Null
             /\ ~(k <= m) => Hop[k] = Null
  <2>1. Hop[k] = Met(k)
    BY <1>1, HopMeets DEF Steps
  <2>2. k <= m <=> Popped + 1 + k <= Last
    BY <1>1
  <2>3. k <= m => Popped + 1 + k \in 1 .. Last
    BY <1>1
  <2>4. QED
    BY <2>1, <2>2, <2>3, Types DEF Met, Inv
<1> HIDE DEF m
<1>4. Reached = 1 .. m
  <2>1. \A k \in 1 .. MaxNodes + 1 : Hop[k] # Null <=> k <= m
    BY <1>3
  <2>2. 1 .. m \subseteq 1 .. MaxNodes + 1
    BY <1>1, <1>2
  <2>3. \A k \in 1 .. MaxNodes + 1 : k <= m <=> k \in 1 .. m
    BY <1>1, <1>2
  <2>4. QED
    BY <2>1, <2>2, <2>3 DEF Reached
<1>5. Length = m
  <2>1. CASE m = 0
    <3>1. Reached = {}
      BY <1>4, <2>1
    <3>2. QED
      BY <2>1, <3>1 DEF Length
  <2>2. CASE m # 0
    <3>1. m \in Reached /\ \A j \in Reached : j <= m /\ j \in Nat
      BY <1>2, <1>4, <2>2
    <3>2. \A k \in Reached : (\A j \in Reached : j <= k) => k = m
      BY <1>2, <3>1
    <3>3. Length = CHOOSE k \in Reached : \A j \in Reached : j <= k
      BY <3>1 DEF Length
    <3>4. QED
      BY <3>1, <3>2, <3>3
  <2>3. QED
    BY <2>1, <2>2
<1>6. \A k \in Reached : Hop[k] = order[Popped + 1 + k]
  <2>1. \A k \in 1 .. m : k \in 1 .. MaxNodes + 1 /\ k <= m
    BY <1>1, <1>2
  <2>2. QED
    BY <1>3, <1>4, <2>1
<1>7. QED
  BY <1>2, <1>4, <1>5, <1>6 DEF m

\* The documented invariants of struct ds_msqueue hold in every state, and
\* ds_msqueue_search, which follows the links while other threads work, sees the
\* pairs of the queue's first max_iterations nodes and nothing else.
THEOREM ListInvHolds == Spec => []ListInv
<1>1. Inv => ListInv
  <2> SUFFICES ASSUME Inv PROVE ListInv
    OBVIOUS
  <2>1. /\ Last = Len(order) /\ Last \in Nat /\ Popped \in Nat /\ TailPos \in Nat
        /\ Popped + 1 <= TailPos /\ TailPos <= Last /\ Last - 1 <= TailPos
        /\ tail = order[TailPos] /\ head = order[Popped + 1]
    BY Positions DEF Inv, Last
  <2>2. TypeOK /\ Popped < Len(order)
    BY <2>1 DEF Inv
  <2>3. /\ \A k \in 1 .. Len(order) - 1 : next[order[k]] = order[k + 1]
        /\ next[order[Len(order)]] = Null
    BY <2>1 DEF Inv, ChainInv
  <2>4. TailPos \in Popped + 1 .. Len(order) /\ TailPos >= Len(order) - 1
    BY <2>1
  <2>5. \A k \in Popped + 1 .. Len(order) : order[k] \notin freed
    BY <2>1 DEF Inv, FreedInv
  <2>6. ASSUME NEW x \in Producer
        PROVE  ds_msqueue_search(x) <=>
                 \E k \in 1 .. Len(Contents) : k <= MaxIterations /\ Contents[k] = x
    <3> DEFINE m == Last - 1 - Popped
    <3>1. Reached = 1 .. m /\ \A k \in Reached : Hop[k] = order[Popped + 1 + k]
      BY WalkLength
    <3>2. Len(Contents) = m /\ \A k \in 1 .. m : Contents[k] = elem[order[Popped + 1 + k]]
      BY ContentsOfList DEF ContentsAre
    <3> HIDE DEF m
    <3>3. \A k \in 1 .. m : Contents[k] = elem[Hop[k]]
      BY <3>1, <3>2
    <3>4. QED
      BY <3>1, <3>2, <3>3 DEF ds_msqueue_search, Visited
  <2>7. QED
    BY <2>1, <2>2, <2>3, <2>4, <2>5, <2>6 DEF ListInv
<1>2. QED
  BY <1>1, InvHolds, PTL

LEMMA SettledState == Inv => Settled
<1> SUFFICES ASSUME Inv, Quiescent
             PROVE  count = Length /\ next[tail] = Null /\ (ds_msqueue_verify <=> Length <= MaxIterations)
  BY DEF Settled
<1> DEFINE m == Last - 1 - Popped
<1>1. /\ Last \in Nat /\ Popped \in Nat /\ TailPos \in Nat /\ Last >= 1 /\ TailPos <= Last
      /\ tail = order[TailPos] /\ head = order[Popped + 1]
  BY Positions DEF Inv
<1>2. /\ m \in Nat /\ m <= MaxNodes /\ Reached = 1 .. m /\ Length = m
      /\ \A k \in Reached : Hop[k] = order[Popped + 1 + k]
  BY WalkLength
<1>3. /\ MaxNodes \in Nat /\ VerifySlack \in Nat /\ VerifySlack >= 1 /\ CountModulus \in Nat
      /\ CountModulus > MaxNodes + VerifySlack /\ MaxIterations \in Nat /\ MaxIterations >= 1
  BY BoundsAssumption, VerifyAssumption
<1>4. tail = order[Last] /\ next[tail] = Null
  <2>1. ~(TailPos < Last)
    BY DEF Inv, LagInv, Quiescent
  <2>2. TailPos = Last /\ Last \in 1 .. Last
    BY <1>1, <2>1
  <2>3. QED
    BY <1>1, <2>2, LinkOf DEF Inv
<1>5. count = m
  <2>1. InsertsUncounted = {} /\ PopsUncounted = {}
    BY DEF Quiescent, InsertsUncounted, PopsUncounted
  <2>2. Due = m
    BY <1>1, <2>1, FS_EmptySet DEF Due
  <2> HIDE DEF m
  <2>3. m \in 0 .. CountModulus - 1 /\ CountModulus > 0
    BY <1>2, <1>3
  <2>4. m % CountModulus = m
    BY <1>3, <2>3, FirstLap
  <2>5. QED
    BY <2>2, <2>4 DEF Inv, CountInv
<1>6. CASE m = 0
  <2>1. Popped + 1 = Last
    BY <1>1, <1>6
  <2>2. QED
    BY <1>1, <1>2, <1>3, <1>4, <1>5, <1>6, <2>1 DEF ds_msqueue_verify
<1>7. CASE m # 0
  <2>1. Popped + 1 + m = Last
    BY <1>1
  <2> HIDE DEF m
  <2>2. m \in Reached /\ Hop[m] = tail
    <3>1. m \in Reached
      BY <1>2, <1>7
    <3>2. QED
      BY <1>2, <1>4, <2>1, <3>1
  <2>3. ASSUME m <= MaxIterations PROVE ds_msqueue_verify
    <3>1. Counted = m - 1 /\ m \in Visited
      BY <1>2, <1>7, <2>2, <2>3 DEF Counted, Visited
    <3>2. m + VerifySlack \in 0 .. CountModulus - 1 /\ CountModulus > 0
      BY <1>2, <1>3
    <3>3. (m + VerifySlack) % CountModulus = m + VerifySlack
      BY <1>3, <3>2, FirstLap
    <3>4. Counted <= m + VerifySlack /\ m <= Counted + VerifySlack
      BY <1>2, <1>3, <3>1
    <3>5. QED
      BY <1>5, <2>2, <3>1, <3>3, <3>4 DEF ds_msqueue_verify
  <2>4. ASSUME ~(m <= MaxIterations) PROVE ~ds_msqueue_verify
    <3>1. next[head] # Null
      <4>1. Popped + 1 \in 1 .. Last /\ Popped + 1 < Last
        BY <1>1, <1>2, <1>7, <2>1
      <4>2. QED
        BY <1>1, <4>1, LinkOf DEF Inv
    <3>2. ASSUME NEW k \in Visited PROVE Hop[k] # tail
      <4>1. k \in 1 .. m /\ k # m /\ k \in Reached
        BY <1>2, <1>3, <2>4 DEF Visited
      <4>2. Popped + 1 + k \in 1 .. Last /\ Last \in 1 .. Last /\ Popped + 1 + k # Last
        BY <1>1, <1>2, <2>1, <4>1
      <4>3. order[Popped + 1 + k] # order[Last]
        BY <4>2 DEF Inv, ChainInv
      <4>4. QED
        BY <1>2, <1>4, <4>1, <4>3
    <3>3. QED
      BY <3>1, <3>2 DEF ds_msqueue_verify
  <2>5. QED
    BY <1>2, <1>4, <1>5, <2>3, <2>4
<1>8. QED
  BY <1>6, <1>7

\* When no call is in progress the counter is exact, although every insert and every
\* pop updates it after the fact, the tail has caught up, and ds_msqueue_verify
\* returns DS_SUCCESS exactly if its loop reaches the end of the queue.
THEOREM SettledHolds == Spec => []Settled
<1>1. QED
  BY SettledState, InvHolds, PTL
=============================================================================
