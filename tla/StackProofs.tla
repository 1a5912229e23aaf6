---------------------------- MODULE StackProofs ----------------------------
(***************************************************************************)
(* Proofs about the two stacks, whose modules share no name.  The kcov     *)
(* style buffer: for every size, any number of inserting and popping       *)
(* threads and every bound on the inserts.  The CK stack: for every arena, *)
(* any finite number of pushing and popping threads, any number of         *)
(* verifying ones, and every number of rounds that can_loop grants.        *)
(***************************************************************************)
EXTENDS Kcov, CkStack, RingArith, FiniteSetTheorems, SequenceTheorems, WellFoundedInduction, TLAPS

\* The entries of the buffer and their words.
LEMMA Entries ==
  /\ Size \in Nat /\ Size >= 3 /\ Room \in Nat /\ Room >= 1
  /\ 2 * Room <= Size - 1 /\ Size - 1 <= 2 * Room + 1
<1>1. Size \in Nat /\ Size >= 3
  BY SizeAssumption
<1>2. Room = (Size - 1) \div 2
  BY DEF Room, WordsPerEntry
<1>3. QED
  BY <1>1, <1>2

\* Every word of every entry lies in the area, behind the counter.
LEMMA EntryWords ==
  ASSUME NEW n \in 1 .. Room
  PROVE  /\ Start(n) \in 1 .. Size - 1 /\ Start(n) + 1 \in 1 .. Size - 1
         /\ Start(n) = 2 * n - 1
<1>1. Start(n) = 2 * n - 1
  BY Entries DEF Start, WordsPerEntry
<1>2. QED
  BY <1>1, Entries

\* Different entries have different words.
LEMMA WordsApart ==
  ASSUME NEW m \in 1 .. Room, NEW n \in 1 .. Room
  PROVE  Start(m) # Start(n) + 1 /\ (m # n => Start(m) # Start(n))
<1>1. Start(m) = 2 * m - 1 /\ Start(n) = 2 * n - 1 /\ m \in Nat /\ n \in Nat
  BY EntryWords, Entries
<1>2. QED
  BY <1>1

\* An entry passes the bounds check exactly if it lies in the area.
LEMMA FitsEntries ==
  ASSUME NEW n \in Nat, n >= 1
  PROVE  Fits(n) <=> n <= Room
<1>1. Start(n) + WordsPerEntry = 2 * n + 1
  BY DEF Start, WordsPerEntry
<1>2. QED
  BY <1>1, Entries DEF Fits

\* The inductive strengthening of CountBounded: a call in progress works on an
\* entry, never on the counter.
BoundInv ==
  /\ CountBounded
  /\ \A w \in Writer : ins[w].pc # "idle" => ins[w].count >= 1
  /\ \A c \in Popper : pop[c].pc # "idle" => pop[c].count >= 1

\* A store to a word of an entry.
LEMMA StoreWord ==
  ASSUME KcovTypeOK, NEW i \in 1 .. Size - 1, NEW x, area' = [area EXCEPT ![i] = x]
  PROVE  /\ DOMAIN area' = 0 .. Size - 1 /\ area'[0] = area[0] /\ area'[i] = x
         /\ \A j \in 0 .. Size - 1 : j # i => area'[j] = area[j]
  BY Entries DEF KcovTypeOK

\* A store to the counter.
LEMMA StoreCount ==
  ASSUME KcovTypeOK, NEW x, area' = [area EXCEPT ![0] = x]
  PROVE  /\ DOMAIN area' = 0 .. Size - 1 /\ area'[0] = x
         /\ \A j \in 1 .. Size - 1 : area'[j] = area[j]
  BY Entries DEF KcovTypeOK

\* ZeroPair is a pair of words, and a pair is its two words.
LEMMA ZeroWord == ZeroPair \in Word /\ ZeroPair.key = Zero /\ ZeroPair.value = Zero
  BY DEF ZeroPair, Word, Key, Value

LEMMA WordEqual ==
  ASSUME NEW x \in Word, NEW y \in Word, x.key = y.key, x.value = y.value
  PROVE  x = y
  BY DEF Word

LEMMA WordParts ==
  ASSUME NEW x \in Word
  PROVE  /\ x.key \in Key /\ x.value \in Value
         /\ \A k \in Key : [x EXCEPT !.key = k] \in Word /\ [x EXCEPT !.key = k].key = k
                           /\ [x EXCEPT !.key = k].value = x.value
         /\ \A v \in Value : [x EXCEPT !.value = v] \in Word /\ [x EXCEPT !.value = v].value = v
                             /\ [x EXCEPT !.value = v].key = x.key
  BY DEF Word

\* What the invariant says of one call.
LEMMA WriterAt ==
  ASSUME BoundInv, NEW w \in Writer
  PROVE  /\ ins[w].pc \in {"idle", "claim", "key", "value"} /\ ins[w].item \in Word
         /\ ins[w].count \in Nat /\ ins[w].count <= Room
         /\ ins[w].pc # "idle" => ins[w].count \in 1 .. Room
<1>1. ins[w] \in [pc : {"idle", "claim", "key", "value"}, count : Nat, item : Word]
  BY DEF BoundInv, CountBounded, KcovTypeOK
<1>2. ins[w].count <= Room /\ (ins[w].pc # "idle" => ins[w].count >= 1)
  BY DEF BoundInv, CountBounded
<1>3. QED
  BY <1>1, <1>2, Entries

LEMMA PopperAt ==
  ASSUME BoundInv, NEW c \in Popper
  PROVE  /\ pop[c].pc \in {"idle", "key", "value", "lower"} /\ pop[c].out \in Word
         /\ pop[c].count \in Nat /\ pop[c].count <= Room
         /\ pop[c].pc # "idle" => pop[c].count \in 1 .. Room
<1>1. pop[c] \in [pc : {"idle", "key", "value", "lower"}, count : Nat, out : Word]
  BY DEF BoundInv, CountBounded, KcovTypeOK
<1>2. pop[c].count <= Room /\ (pop[c].pc # "idle" => pop[c].count >= 1)
  BY DEF BoundInv, CountBounded
<1>3. QED
  BY <1>1, <1>2, Entries

\* The part of the invariant that is about the area.
AreaInv ==
  /\ DOMAIN area = 0 .. Size - 1 /\ area[0] \in 0 .. Room
  /\ \A n \in 1 .. Room : area[Start(n)] \in Key /\ area[Start(n) + 1] \in Value

InsertInv ==
  /\ ins \in [Writer -> [pc : {"idle", "claim", "key", "value"}, count : Nat, item : Word]]
  /\ \A w \in Writer : ins[w].count <= Room /\ (ins[w].pc # "idle" => ins[w].count >= 1)

PopInv ==
  /\ pop \in [Popper -> [pc : {"idle", "key", "value", "lower"}, count : Nat, out : Word]]
  /\ \A c \in Popper : pop[c].count <= Room /\ (pop[c].pc # "idle" => pop[c].count >= 1)

HistoryInv ==
  /\ calls \in 0 .. MaxInserts /\ raced \in BOOLEAN
  /\ meant \in [1 .. Room -> Word] /\ taken \in Seq(Word)

LEMMA BoundParts == BoundInv <=> AreaInv /\ InsertInv /\ PopInv /\ HistoryInv
<1>1. area[0] \in 0 .. Room <=> area[0] \in Nat /\ ~ds_kcov_verify
  BY Entries DEF ds_kcov_verify, Count
<1>2. QED
  BY <1>1 DEF BoundInv, CountBounded, KcovTypeOK, AreaInv, InsertInv, PopInv, HistoryInv

LEMMA BoundInit == KcovInit => BoundInv
<1> SUFFICES ASSUME KcovInit PROVE BoundInv
  OBVIOUS
<1>1. AreaInv
  <2>1. DOMAIN area = 0 .. Size - 1 /\ area[0] = 0
    BY Entries DEF KcovInit
  <2>2. ASSUME NEW n \in 1 .. Room PROVE area[Start(n)] = Zero /\ area[Start(n) + 1] = Zero
    BY EntryWords, Entries DEF KcovInit
  <2>3. QED
    BY <2>1, <2>2, Entries DEF AreaInv, Key, Value
<1>2. InsertInv
  BY ZeroWord, Entries DEF KcovInit, InsertInv
<1>3. PopInv
  BY ZeroWord, Entries DEF KcovInit, PopInv
<1>4. HistoryInv
  <2>1. meant \in [1 .. Room -> Word] /\ calls \in 0 .. MaxInserts
    BY ZeroWord, MaxInsertsAssumption DEF KcovInit
  <2>2. <<>> \in Seq(Word)
    OBVIOUS
  <2>3. QED
    BY <2>1, <2>2 DEF KcovInit, HistoryInv
<1>5. QED
  BY <1>1, <1>2, <1>3, <1>4, BoundParts

\* Every step of every call keeps the count and the entries inside the area.
LEMMA BoundStep ==
  ASSUME BoundInv, [KcovNext]_kcovVars
  PROVE  BoundInv'
<1>1. AreaInv /\ InsertInv /\ PopInv /\ HistoryInv /\ KcovTypeOK
  BY BoundParts DEF BoundInv, CountBounded
<1>2. SUFFICES AreaInv' /\ InsertInv' /\ PopInv' /\ HistoryInv'
  <2>1. (BoundInv <=> AreaInv /\ InsertInv /\ PopInv /\ HistoryInv)'
    BY BoundParts, PTL
  <2>2. QED
    BY <1>2, <2>1
<1>3. /\ UNCHANGED area => AreaInv'
      /\ UNCHANGED ins => InsertInv'
      /\ UNCHANGED pop => PopInv'
      /\ UNCHANGED kcovHistory => HistoryInv'
  BY <1>1 DEF AreaInv, InsertInv, PopInv, HistoryInv, kcovHistory
<1> USE DEF kcovHistory
<1>4. ASSUME NEW w \in Writer, NEW x \in Item, InsertCount(w, x)
      PROVE  AreaInv' /\ InsertInv' /\ PopInv' /\ HistoryInv'
  <2>1. HistoryInv'
    BY <1>1, <1>4, MaxInsertsAssumption DEF InsertCount, HistoryInv
  <2>2. InsertInv'
    <3>1. CASE Fits(Count + 1)
      <4>1. Count + 1 \in Nat /\ Count + 1 >= 1 /\ Count + 1 <= Room
        BY <1>1, <3>1, FitsEntries, Entries DEF AreaInv, Count
      <4>2. x \in Word
        BY ItemAssumption
      <4>3. QED
        BY <1>1, <1>4, <3>1, <4>1, <4>2 DEF InsertCount, InsertInv
    <3>2. QED
      BY <1>3, <1>4, <3>1 DEF InsertCount
  <2>3. QED
    BY <1>3, <1>4, <2>1, <2>2 DEF InsertCount
<1>5. ASSUME NEW w \in Writer, InsertClaim(w)
      PROVE  AreaInv' /\ InsertInv' /\ PopInv' /\ HistoryInv'
  <2>1. ins[w].count \in 1 .. Room /\ ins[w].item \in Word
    BY <1>5, WriterAt DEF InsertClaim
  <2>2. AreaInv'
    <3>1. /\ DOMAIN area' = 0 .. Size - 1 /\ area'[0] = ins[w].count
          /\ \A j \in 1 .. Size - 1 : area'[j] = area[j]
      BY <1>1, <1>5, StoreCount DEF InsertClaim
    <3>2. ASSUME NEW n \in 1 .. Room
          PROVE  area'[Start(n)] \in Key /\ area'[Start(n) + 1] \in Value
      BY <1>1, <3>1, EntryWords DEF AreaInv
    <3>3. QED
      BY <2>1, <3>1, <3>2, Entries DEF AreaInv
  <2>3. InsertInv'
    BY <1>1, <1>5 DEF InsertClaim, InsertInv
  <2>4. HistoryInv'
    <3>1. meant' \in [1 .. Room -> Word]
      BY <1>1, <1>5, <2>1 DEF InsertClaim, HistoryInv
    <3>2. raced' \in BOOLEAN
      BY <1>5 DEF InsertClaim
    <3>3. QED
      BY <1>1, <1>5, <3>1, <3>2 DEF InsertClaim, HistoryInv
  <2>5. QED
    BY <1>3, <1>5, <2>2, <2>3, <2>4 DEF InsertClaim
<1>6. ASSUME NEW w \in Writer, InsertKey(w)
      PROVE  AreaInv' /\ InsertInv' /\ PopInv' /\ HistoryInv'
  <2> DEFINE n0 == ins[w].count
  <2>1. n0 \in 1 .. Room /\ ins[w].item.key \in Key
    BY <1>6, WriterAt, WordParts DEF InsertKey
  <2>2. /\ DOMAIN area' = 0 .. Size - 1 /\ area'[0] = area[0] /\ area'[Start(n0)] = ins[w].item.key
        /\ \A j \in 0 .. Size - 1 : j # Start(n0) => area'[j] = area[j]
    <3>1. Start(n0) \in 1 .. Size - 1
      BY <2>1, EntryWords
    <3>2. area' = [area EXCEPT ![Start(n0)] = ins[w].item.key]
      BY <1>6 DEF InsertKey
    <3> HIDE DEF n0
    <3>3. QED
      BY <1>1, <3>1, <3>2, StoreWord
  <2> HIDE DEF n0
  <2>3. ASSUME NEW n \in 1 .. Room
        PROVE  area'[Start(n)] \in Key /\ area'[Start(n) + 1] \in Value
    <3>1. Start(n0) # Start(n) + 1 /\ (n # n0 => Start(n) # Start(n0))
      BY <2>1, WordsApart
    <3>2. Start(n) \in 0 .. Size - 1 /\ Start(n) + 1 \in 0 .. Size - 1
      BY EntryWords, Entries
    <3>3. area[Start(n)] \in Key /\ area[Start(n) + 1] \in Value
      BY <1>1 DEF AreaInv
    <3>4. QED
      BY <2>1, <2>2, <3>1, <3>2, <3>3
  <2>4. AreaInv'
    BY <1>1, <2>2, <2>3 DEF AreaInv
  <2>5. InsertInv'
    BY <1>1, <1>6 DEF InsertKey, InsertInv
  <2>6. QED
    BY <1>3, <1>6, <2>4, <2>5 DEF InsertKey
<1>7. ASSUME NEW w \in Writer, InsertValue(w)
      PROVE  AreaInv' /\ InsertInv' /\ PopInv' /\ HistoryInv'
  <2> DEFINE n0 == ins[w].count
  <2>1. n0 \in 1 .. Room /\ ins[w].item.value \in Value
    BY <1>7, WriterAt, WordParts DEF InsertValue
  <2>2. /\ DOMAIN area' = 0 .. Size - 1 /\ area'[0] = area[0]
        /\ area'[Start(n0) + 1] = ins[w].item.value
        /\ \A j \in 0 .. Size - 1 : j # Start(n0) + 1 => area'[j] = area[j]
    <3>1. Start(n0) + 1 \in 1 .. Size - 1
      BY <2>1, EntryWords
    <3>2. area' = [area EXCEPT ![Start(n0) + 1] = ins[w].item.value]
      BY <1>7 DEF InsertValue
    <3> HIDE DEF n0
    <3>3. QED
      BY <1>1, <3>1, <3>2, StoreWord
  <2> HIDE DEF n0
  <2>3. ASSUME NEW n \in 1 .. Room
        PROVE  area'[Start(n)] \in Key /\ area'[Start(n) + 1] \in Value
    <3>1. Start(n) # Start(n0) + 1
      BY <2>1, WordsApart
    <3>2. n # n0 => Start(n) + 1 # Start(n0) + 1
      <4>1. Start(n) \in Int /\ Start(n0) \in Int
        BY <2>1, EntryWords
      <4>2. QED
        BY <2>1, <4>1, WordsApart
    <3>3. Start(n) \in 0 .. Size - 1 /\ Start(n) + 1 \in 0 .. Size - 1
      BY EntryWords, Entries
    <3>4. area[Start(n)] \in Key /\ area[Start(n) + 1] \in Value
      BY <1>1 DEF AreaInv
    <3>5. QED
      BY <2>1, <2>2, <3>1, <3>2, <3>3, <3>4
  <2>4. AreaInv'
    BY <1>1, <2>2, <2>3 DEF AreaInv
  <2>5. InsertInv'
    BY <1>1, <1>7, ZeroWord, Entries DEF InsertValue, InsertInv
  <2>6. QED
    BY <1>3, <1>7, <2>4, <2>5 DEF InsertValue
<1>8. ASSUME NEW c \in Popper, PopBegin(c)
      PROVE  AreaInv' /\ InsertInv' /\ PopInv' /\ HistoryInv'
  <2>1. Count \in Nat /\ Count >= 1 /\ Count <= Room
    BY <1>1, <1>8, Entries DEF PopBegin, AreaInv, Count
  <2>2. PopInv'
    BY <1>1, <1>8, <2>1 DEF PopBegin, PopInv
  <2>3. QED
    BY <1>3, <1>8, <2>2 DEF PopBegin
<1>9. ASSUME NEW c \in Popper, PopKey(c)
      PROVE  AreaInv' /\ InsertInv' /\ PopInv' /\ HistoryInv'
  <2>1. area[Start(pop[c].count)] \in Key
    BY <1>1, <1>9, PopperAt DEF PopKey, AreaInv
  <2>2. PopInv'
    BY <1>1, <1>9, <2>1 DEF PopKey, PopInv, Word
  <2>3. HistoryInv'
    BY <1>1, <1>9 DEF PopKey, HistoryInv
  <2>4. QED
    BY <1>3, <1>9, <2>2, <2>3 DEF PopKey
<1>10. ASSUME NEW c \in Popper, PopValue(c)
      PROVE  AreaInv' /\ InsertInv' /\ PopInv' /\ HistoryInv'
  <2>1. area[Start(pop[c].count) + 1] \in Value
    BY <1>1, <1>10, PopperAt DEF PopValue, AreaInv
  <2>2. PopInv'
    BY <1>1, <1>10, <2>1 DEF PopValue, PopInv, Word
  <2>3. HistoryInv'
    BY <1>1, <1>10 DEF PopValue, HistoryInv
  <2>4. QED
    BY <1>3, <1>10, <2>2, <2>3 DEF PopValue
<1>11. ASSUME NEW c \in Popper, PopLower(c)
      PROVE  AreaInv' /\ InsertInv' /\ PopInv' /\ HistoryInv'
  <2>1. pop[c].count \in 1 .. Room /\ pop[c].out \in Word
    BY <1>11, PopperAt DEF PopLower
  <2>2. AreaInv'
    <3>1. /\ DOMAIN area' = 0 .. Size - 1 /\ area'[0] = pop[c].count - 1
          /\ \A j \in 1 .. Size - 1 : area'[j] = area[j]
      BY <1>1, <1>11, StoreCount DEF PopLower
    <3>2. ASSUME NEW n \in 1 .. Room
          PROVE  area'[Start(n)] \in Key /\ area'[Start(n) + 1] \in Value
      BY <1>1, <3>1, EntryWords DEF AreaInv
    <3>3. QED
      BY <2>1, <3>1, <3>2, Entries DEF AreaInv
  <2>3. PopInv'
    BY <1>1, <1>11, ZeroWord, Entries DEF PopLower, PopInv
  <2>4. HistoryInv'
    <3>1. <<>> \in Seq(Word) /\ Append(taken, pop[c].out) \in Seq(Word)
      BY <1>1, <2>1 DEF HistoryInv
    <3>2. taken' \in Seq(Word) /\ raced' \in BOOLEAN
      BY <1>11, <3>1 DEF PopLower
    <3>3. QED
      BY <1>1, <1>11, <3>2 DEF PopLower, HistoryInv
  <2>5. QED
    BY <1>3, <1>11, <2>2, <2>3, <2>4 DEF PopLower
<1>12. CASE UNCHANGED kcovVars
  BY <1>3, <1>12 DEF kcovVars
<1>13. QED
  BY <1>4, <1>5, <1>6, <1>7, <1>8, <1>9, <1>10, <1>11, <1>12
  DEF KcovNext, ds_kcov_insert, InsertEnd, ds_kcov_pop

\* Whatever calls race, no count and no pair ever leaves the area and verify
\* never fails; for every size of the buffer and any number of threads.
THEOREM CountStaysBounded == KcovSpec => []CountBounded
<1>1. BoundInv /\ [KcovNext]_kcovVars => BoundInv'
  BY BoundStep
<1>2. BoundInv => CountBounded
  BY DEF BoundInv
<1>3. QED
  BY <1>1, <1>2, BoundInit, PTL DEF KcovSpec
----------------------------------------------------------------------------
(* A stack up to the first race *)

Storing(w) == ins[w].pc \in {"key", "value"}

\* The inserts that store work on claimed entries, each on its own.
StoreInv ==
  /\ \A w \in Writer : ins[w].pc # "idle" => ins[w].item \in Item
  /\ \A w \in Writer : Storing(w) =>
       /\ ins[w].count <= Count /\ meant[ins[w].count] = ins[w].item
       /\ ins[w].pc = "value" => area[Start(ins[w].count)] = ins[w].item.key
  /\ \A v, w \in Writer : v # w /\ Storing(v) /\ Storing(w) => ins[v].count # ins[w].count

\* An entry that nobody is storing holds the pair it was claimed for.
EntryInv ==
  \A n \in 1 .. Room : ~Unfinished(n) =>
    area[Start(n)] = meant[n].key /\ area[Start(n) + 1] = meant[n].value

\* What a pop has read is the pair of its entry, and nobody stores there.
ReadInv ==
  \A c \in Popper, n \in 1 .. Room :
    pop[c].pc \in {"value", "lower"} /\ pop[c].count = n =>
      /\ ~Unfinished(n) /\ pop[c].out.key = meant[n].key
      /\ pop[c].pc = "lower" => pop[c].out = meant[n]

\* The invariant of the buffer as long as no call has raced.
RaceFree == StoreInv /\ EntryInv /\ ReadInv

LEMMA RaceFreeInit == KcovInit => RaceFree
<1> SUFFICES ASSUME KcovInit PROVE RaceFree
  OBVIOUS
<1>1. StoreInv /\ ReadInv
  BY DEF KcovInit, StoreInv, ReadInv, Storing
<1>2. ASSUME NEW n \in 1 .. Room
      PROVE  area[Start(n)] = meant[n].key /\ area[Start(n) + 1] = meant[n].value
  <2>1. area[Start(n)] = Zero /\ area[Start(n) + 1] = Zero
    BY EntryWords, Entries DEF KcovInit
  <2>2. meant[n] = ZeroPair
    BY DEF KcovInit
  <2>3. QED
    BY <2>1, <2>2, ZeroWord
<1>3. QED
  BY <1>1, <1>2 DEF RaceFree, EntryInv

\* A claim without a race: the entry is the next one, nobody stores in it and
\* nobody reads it.
LEMMA ClaimRaceFree ==
  ASSUME BoundInv, RaceFree, ~raced', NEW w \in Writer, InsertClaim(w)
  PROVE  RaceFree'
<1> DEFINE n0 == ins[w].count
<1>1. /\ KcovTypeOK /\ n0 \in 1 .. Room /\ Count \in Nat /\ Count = n0 - 1 /\ ~Reading(n0)
      /\ UNCHANGED pop /\ ins[w].pc = "claim"
  BY WriterAt DEF InsertClaim, BoundInv, CountBounded, KcovTypeOK, Count
<1>2. /\ ins' = [ins EXCEPT ![w].pc = "key"] /\ meant' = [meant EXCEPT ![n0] = ins[w].item]
      /\ area' = [area EXCEPT ![0] = n0]
  BY DEF InsertClaim
<1>3. /\ ins'[w].pc = "key" /\ ins'[w].count = n0 /\ ins'[w].item = ins[w].item
      /\ \A v \in Writer : v # w => ins'[v] = ins[v]
  BY <1>1, <1>2 DEF KcovTypeOK
<1>4. /\ Count' = n0 /\ \A j \in 1 .. Size - 1 : area'[j] = area[j]
  BY <1>1, <1>2, StoreCount DEF Count
<1>5. /\ meant'[n0] = ins[w].item
      /\ \A n \in 1 .. Room : n # n0 => meant'[n] = meant[n]
  BY <1>1, <1>2 DEF KcovTypeOK
<1> HIDE DEF n0
<1>6. \A v \in Writer : Storing(v) => ins[v].count < n0 /\ ins[v].count \in 1 .. Room
  <2>1. ASSUME NEW v \in Writer, Storing(v)
        PROVE  ins[v].count < n0 /\ ins[v].count \in 1 .. Room
    <3>1. ins[v].count \in 1 .. Room
      BY <2>1, WriterAt DEF Storing
    <3>2. ins[v].count <= Count
      BY <2>1 DEF RaceFree, StoreInv
    <3>3. QED
      BY <1>1, <3>1, <3>2
  <2>2. QED
    BY <2>1
<1>7. StoreInv'
  <2>1. ASSUME NEW v \in Writer, v # w, Storing(v)
        PROVE  /\ ins[v].count <= n0 /\ ins[v].count # n0 /\ meant'[ins[v].count] = ins[v].item
               /\ ins[v].pc = "value" => area'[Start(ins[v].count)] = ins[v].item.key
    <3>1. ins[v].count \in 1 .. Room /\ ins[v].count < n0 /\ n0 \in Nat
      BY <1>1, <1>6, <2>1, Entries
    <3>2. Start(ins[v].count) \in 1 .. Size - 1
      BY <3>1, EntryWords
    <3>3. ins[v].count <= n0 /\ ins[v].count # n0
      BY <3>1
    <3>4. QED
      BY <1>4, <1>5, <2>1, <3>1, <3>2, <3>3 DEF RaceFree, StoreInv
  <2>2. ins[w].item \in Item
    BY <1>1 DEF RaceFree, StoreInv
  <2>3. n0 <= n0
    BY <1>1, Entries
  <2>4. /\ \A v \in Writer : ins'[v].pc # "idle" => ins'[v].item \in Item
        /\ \A v \in Writer : Storing(v)' =>
             /\ ins'[v].count <= Count' /\ meant'[ins'[v].count] = ins'[v].item
             /\ ins'[v].pc = "value" => area'[Start(ins'[v].count)] = ins'[v].item.key
    BY <1>3, <1>4, <1>5, <2>1, <2>2, <2>3 DEF RaceFree, StoreInv, Storing
  <2>5. \A u, v \in Writer : u # v /\ Storing(u)' /\ Storing(v)' => ins'[u].count # ins'[v].count
    BY <1>3, <2>1 DEF RaceFree, StoreInv, Storing
  <2>6. QED
    BY <2>4, <2>5 DEF StoreInv, Start
<1>8. \A n \in 1 .. Room : n # n0 => (Unfinished(n)' <=> Unfinished(n))
  BY <1>1, <1>3 DEF Unfinished
<1>9. EntryInv'
  <2>1. ASSUME NEW n \in 1 .. Room, ~Unfinished(n)'
        PROVE  area'[Start(n)] = meant'[n].key /\ area'[Start(n) + 1] = meant'[n].value
    <3>1. n # n0
      BY <1>3, <2>1 DEF Unfinished
    <3>2. Start(n) \in 1 .. Size - 1 /\ Start(n) + 1 \in 1 .. Size - 1
      BY EntryWords
    <3>3. QED
      BY <1>4, <1>5, <1>8, <2>1, <3>1, <3>2 DEF RaceFree, EntryInv
  <2>2. QED
    BY <2>1 DEF EntryInv, Start
<1>10. ReadInv'
  <2>1. ASSUME NEW c \in Popper, NEW n \in 1 .. Room, pop[c].pc # "idle", pop[c].count = n
        PROVE  n # n0 /\ meant'[n] = meant[n] /\ (Unfinished(n)' <=> Unfinished(n))
    <3>1. n # n0
      BY <1>1, <2>1 DEF Reading
    <3>2. QED
      BY <1>5, <1>8, <3>1
  <2>2. QED
    BY <1>1, <2>1 DEF RaceFree, ReadInv
<1>11. QED
  BY <1>7, <1>9, <1>10 DEF RaceFree

\* A store of a word of an entry that nobody else stores or reads.
LEMMA KeyRaceFree ==
  ASSUME BoundInv, RaceFree, NEW w \in Writer, InsertKey(w)
  PROVE  RaceFree'
<1> DEFINE n0 == ins[w].count
<1>1. KcovTypeOK /\ n0 \in 1 .. Room /\ UNCHANGED <<pop, meant>> /\ ins[w].pc = "key"
  BY WriterAt DEF InsertKey, BoundInv, CountBounded, kcovHistory
<1>2. /\ ins' = [ins EXCEPT ![w].pc = "value"] /\ area' = [area EXCEPT ![Start(n0)] = ins[w].item.key]
  BY DEF InsertKey
<1>3. /\ ins'[w].pc = "value" /\ ins'[w].count = n0 /\ ins'[w].item = ins[w].item
      /\ \A v \in Writer : v # w => ins'[v] = ins[v]
  BY <1>1, <1>2 DEF KcovTypeOK
<1> HIDE DEF n0
<1>4. Start(n0) \in 1 .. Size - 1
  BY <1>1, EntryWords
<1>5. /\ area'[0] = area[0] /\ area'[Start(n0)] = ins[w].item.key
      /\ \A j \in 0 .. Size - 1 : j # Start(n0) => area'[j] = area[j]
  BY <1>1, <1>2, <1>4, StoreWord
<1>6. ASSUME NEW n \in 1 .. Room, n # n0
      PROVE  area'[Start(n)] = area[Start(n)] /\ area'[Start(n) + 1] = area[Start(n) + 1]
  <2>1. Start(n0) # Start(n) + 1 /\ Start(n) # Start(n0)
    BY <1>1, <1>6, WordsApart
  <2>2. Start(n) \in 0 .. Size - 1 /\ Start(n) + 1 \in 0 .. Size - 1
    BY EntryWords, Entries
  <2>3. QED
    BY <1>5, <2>1, <2>2
<1>7. \A v \in Writer : Storing(v)' <=> Storing(v)
  BY <1>1, <1>3 DEF Storing
<1>8. \A n \in 1 .. Room : Unfinished(n)' <=> Unfinished(n)
  BY <1>1, <1>3, <1>7 DEF Unfinished, n0
<1>9. StoreInv'
  <2>1. ASSUME NEW v \in Writer, v # w, Storing(v), ins[v].pc = "value"
        PROVE  area'[Start(ins[v].count)] = ins[v].item.key
    <3>1. ins[v].count # n0
      BY <1>1, <2>1 DEF RaceFree, StoreInv, Storing, n0
    <3>2. ins[v].count \in 1 .. Room
      BY <2>1, WriterAt
    <3>3. QED
      BY <1>6, <2>1, <3>1, <3>2 DEF RaceFree, StoreInv
  <2>2. Count' = Count
    BY <1>5 DEF Count
  <2>3. Storing(w) /\ ins[w].pc # "idle"
    BY <1>1 DEF Storing
  <2>4. /\ \A v \in Writer : ins'[v].pc # "idle" => ins'[v].item \in Item
        /\ \A v \in Writer : Storing(v)' =>
             /\ ins'[v].count <= Count' /\ meant'[ins'[v].count] = ins'[v].item
             /\ ins'[v].pc = "value" => area'[Start(ins'[v].count)] = ins'[v].item.key
    BY <1>1, <1>3, <1>5, <1>7, <2>1, <2>2, <2>3 DEF RaceFree, StoreInv, n0
  <2>5. \A u, v \in Writer : u # v /\ Storing(u)' /\ Storing(v)' => ins'[u].count # ins'[v].count
    BY <1>3, <1>7 DEF RaceFree, StoreInv, n0
  <2>6. QED
    BY <2>4, <2>5 DEF StoreInv, Start
<1>10. EntryInv'
  <2>1. ASSUME NEW n \in 1 .. Room, ~Unfinished(n)'
        PROVE  area'[Start(n)] = meant'[n].key /\ area'[Start(n) + 1] = meant'[n].value
    <3>1. n # n0
      BY <1>3, <2>1 DEF Unfinished
    <3>2. QED
      BY <1>1, <1>6, <1>8, <2>1, <3>1 DEF RaceFree, EntryInv
  <2>2. QED
    BY <2>1 DEF EntryInv, Start
<1>11. ReadInv'
  BY <1>1, <1>8 DEF RaceFree, ReadInv
<1>12. QED
  BY <1>9, <1>10, <1>11 DEF RaceFree

\* The last store finishes the entry.
LEMMA ValueRaceFree ==
  ASSUME BoundInv, RaceFree, NEW w \in Writer, InsertValue(w)
  PROVE  RaceFree'
<1> DEFINE n0 == ins[w].count
<1>1. KcovTypeOK /\ n0 \in 1 .. Room /\ UNCHANGED <<pop, meant>> /\ ins[w].pc = "value"
  BY WriterAt DEF InsertValue, BoundInv, CountBounded, kcovHistory
<1>2. /\ ins' = [ins EXCEPT ![w] = [pc |-> "idle", count |-> 0, item |-> ZeroPair]]
      /\ area' = [area EXCEPT ![Start(n0) + 1] = ins[w].item.value]
  BY DEF InsertValue
<1>3. ins'[w].pc = "idle" /\ \A v \in Writer : v # w => ins'[v] = ins[v]
  BY <1>1, <1>2 DEF KcovTypeOK
<1>4. Storing(w) /\ meant[n0] = ins[w].item /\ area[Start(n0)] = ins[w].item.key
  BY <1>1 DEF RaceFree, StoreInv, Storing
<1>5. \A v \in Writer : v # w /\ Storing(v) => ins[v].count # n0 /\ ins[v].count \in 1 .. Room
  BY <1>4, WriterAt DEF RaceFree, StoreInv, Storing
<1> HIDE DEF n0
<1>6. Start(n0) + 1 \in 1 .. Size - 1 /\ Start(n0) \in 0 .. Size - 1 /\ Start(n0) # Start(n0) + 1
  BY <1>1, EntryWords, Entries
<1>7. /\ area'[0] = area[0] /\ area'[Start(n0) + 1] = ins[w].item.value
      /\ \A j \in 0 .. Size - 1 : j # Start(n0) + 1 => area'[j] = area[j]
  BY <1>1, <1>2, <1>6, StoreWord
<1>8. ASSUME NEW n \in 1 .. Room, n # n0
      PROVE  area'[Start(n)] = area[Start(n)] /\ area'[Start(n) + 1] = area[Start(n) + 1]
  <2>1. Start(n) # Start(n0) + 1 /\ Start(n) # Start(n0)
    BY <1>1, <1>8, WordsApart
  <2>2. Start(n) \in 0 .. Size - 1 /\ Start(n) + 1 \in 0 .. Size - 1 /\ Start(n0) \in Int
    BY <1>6, EntryWords, Entries
  <2>3. Start(n) + 1 # Start(n0) + 1
    BY <2>1, <2>2
  <2>4. QED
    BY <1>7, <2>1, <2>2, <2>3
<1>9. \A n \in 1 .. Room : (Unfinished(n)' => Unfinished(n)) /\ (n # n0 => (Unfinished(n) => Unfinished(n)'))
  BY <1>3 DEF Unfinished, n0
<1>10. StoreInv'
  <2>1. Count' = Count
    BY <1>7 DEF Count
  <2>2. \A v \in Writer : v # w /\ Storing(v) /\ ins[v].pc = "value" =>
          area'[Start(ins[v].count)] = ins[v].item.key
    BY <1>5, <1>8 DEF RaceFree, StoreInv
  <2>3. \A v \in Writer : Storing(v)' => v # w /\ Storing(v)
    BY <1>3 DEF Storing
  <2>4. /\ \A v \in Writer : ins'[v].pc # "idle" => ins'[v].item \in Item
        /\ \A v \in Writer : Storing(v)' =>
             /\ ins'[v].count <= Count' /\ meant'[ins'[v].count] = ins'[v].item
             /\ ins'[v].pc = "value" => area'[Start(ins'[v].count)] = ins'[v].item.key
    BY <1>1, <1>3, <2>1, <2>2, <2>3 DEF RaceFree, StoreInv
  <2>5. \A u, v \in Writer : u # v /\ Storing(u)' /\ Storing(v)' => ins'[u].count # ins'[v].count
    BY <1>3, <2>3 DEF RaceFree, StoreInv
  <2>6. QED
    BY <2>4, <2>5 DEF StoreInv, Start
<1>11. EntryInv'
  <2>1. ASSUME NEW n \in 1 .. Room, ~Unfinished(n)'
        PROVE  area'[Start(n)] = meant'[n].key /\ area'[Start(n) + 1] = meant'[n].value
    <3>1. CASE n = n0
      BY <1>1, <1>4, <1>6, <1>7, <3>1
    <3>2. CASE n # n0
      BY <1>1, <1>8, <1>9, <2>1, <3>2 DEF RaceFree, EntryInv
    <3>3. QED
      BY <3>1, <3>2
  <2>2. QED
    BY <2>1 DEF EntryInv, Start
<1>12. ReadInv'
  BY <1>1, <1>9 DEF RaceFree, ReadInv
<1>13. QED
  BY <1>10, <1>11, <1>12 DEF RaceFree

\* A step that changes neither the words nor who stores them.
LEMMA EntriesKept ==
  ASSUME RaceFree, UNCHANGED <<area, ins, meant>>
  PROVE  StoreInv' /\ EntryInv' /\ \A n \in 1 .. Room : Unfinished(n)' <=> Unfinished(n)
<1>1. StoreInv'
  BY DEF RaceFree, StoreInv, Storing, Count, Start
<1>2. \A n \in 1 .. Room : Unfinished(n)' <=> Unfinished(n)
  BY DEF Unfinished
<1>3. EntryInv'
  BY <1>2 DEF RaceFree, EntryInv
<1>4. QED
  BY <1>1, <1>2, <1>3

\* The loads of a pop.
LEMMA PopReadRaceFree ==
  ASSUME BoundInv, RaceFree, ~raced', NEW c \in Popper, PopBegin(c) \/ PopKey(c) \/ PopValue(c)
  PROVE  RaceFree'
<1>1. KcovTypeOK /\ UNCHANGED <<area, ins, meant>>
  BY DEF PopBegin, PopKey, PopValue, BoundInv, CountBounded, kcovHistory
<1>2. StoreInv' /\ EntryInv' /\ \A n \in 1 .. Room : Unfinished(n)' <=> Unfinished(n)
  BY <1>1, EntriesKept
<1>3. \A d \in Popper : d # c => pop'[d] = pop[d]
  <2>1. pop \in [Popper -> [pc : {"idle", "key", "value", "lower"}, count : Nat, out : Word]]
    BY <1>1 DEF KcovTypeOK
  <2>2. CASE PopBegin(c)
    BY <2>1, <2>2 DEF PopBegin
  <2>3. CASE PopKey(c)
    BY <2>1, <2>3 DEF PopKey
  <2>4. CASE PopValue(c)
    BY <2>1, <2>4 DEF PopValue
  <2>5. QED
    BY <2>2, <2>3, <2>4
<1>4. ASSUME NEW n \in 1 .. Room, pop'[c].pc \in {"value", "lower"}, pop'[c].count = n
      PROVE  /\ ~Unfinished(n) /\ pop'[c].out.key = meant[n].key
             /\ pop'[c].pc = "lower" => pop'[c].out = meant[n]
  <2>1. CASE PopBegin(c)
    BY <1>1, <1>4, <2>1 DEF PopBegin, KcovTypeOK
  <2>2. CASE PopKey(c)
    <3>1. /\ pop[c].count = n /\ ~Unfinished(n) /\ pop'[c].pc = "value"
          /\ pop'[c].out.key = area[Start(n)]
      BY <1>1, <1>4, <2>2 DEF PopKey, KcovTypeOK, Word
    <3>2. QED
      BY <3>1 DEF RaceFree, EntryInv
  <2>3. CASE PopValue(c)
    <3>0. /\ pop[c] \in [pc : {"idle", "key", "value", "lower"}, count : Nat, out : Word]
          /\ pop'[c] = [pop[c] EXCEPT !.pc = "lower",
                                      !.out.value = area[Start(pop[c].count) + 1]]
      BY <1>1, <2>3 DEF PopValue, KcovTypeOK
    <3>1. /\ pop[c].count = n /\ pop[c].pc = "value" /\ ~Unfinished(n)
          /\ pop'[c].out.value = area[Start(n) + 1] /\ pop'[c].out.key = pop[c].out.key
      <4>1. pop[c].count = n
        BY <1>4, <3>0
      <4>2. pop[c].pc = "value" /\ ~Unfinished(n)
        BY <2>3, <4>1 DEF PopValue
      <4>3. pop'[c].out = [pop[c].out EXCEPT !.value = area[Start(n) + 1]] /\ pop[c].out \in Word
        BY <3>0, <4>1
      <4>4. pop'[c].out.value = area[Start(n) + 1] /\ pop'[c].out.key = pop[c].out.key
        BY <4>3 DEF Word
      <4>5. QED
        BY <4>1, <4>2, <4>4
    <3>2. pop'[c].out.key = meant[n].key /\ pop'[c].out.value = meant[n].value
      BY <3>1 DEF RaceFree, EntryInv, ReadInv
    <3>3. meant[n] \in Word
      BY <1>1 DEF KcovTypeOK
    <3>4. pop'[c].out \in Word
      <4>1. area[Start(n) + 1] \in Value
        BY <1>1 DEF KcovTypeOK
      <4>2. QED
        BY <3>0, <3>1, <4>1 DEF Word
    <3>5. QED
      BY <3>1, <3>2, <3>3, <3>4, WordEqual
  <2>4. QED
    BY <2>1, <2>2, <2>3
<1>5. ReadInv'
  <2>1. ASSUME NEW d \in Popper, NEW n \in 1 .. Room,
               pop'[d].pc \in {"value", "lower"}, pop'[d].count = n
        PROVE  /\ ~Unfinished(n)' /\ pop'[d].out.key = meant'[n].key
               /\ pop'[d].pc = "lower" => pop'[d].out = meant'[n]
    <3>1. CASE d = c
      BY <1>1, <1>2, <1>4, <2>1, <3>1
    <3>2. CASE d # c
      BY <1>1, <1>2, <1>3, <2>1, <3>2 DEF RaceFree, ReadInv
    <3>3. QED
      BY <3>1, <3>2
  <2>2. QED
    BY <2>1 DEF ReadInv
<1>6. QED
  BY <1>2, <1>5 DEF RaceFree

\* Lowering the count without a race gives up an entry that nobody stores.
LEMMA LowerRaceFree ==
  ASSUME BoundInv, RaceFree, ~raced', NEW c \in Popper, PopLower(c)
  PROVE  RaceFree'
<1> DEFINE n0 == pop[c].count
<1>1. /\ KcovTypeOK /\ n0 \in 1 .. Room /\ UNCHANGED <<ins, meant>> /\ Count = n0
      /\ pop[c].pc = "lower" /\ area' = [area EXCEPT ![0] = n0 - 1]
  BY PopperAt DEF PopLower, BoundInv, CountBounded
<1>2. ~Unfinished(n0)
  BY <1>1 DEF RaceFree, ReadInv
<1>3. pop'[c].pc = "idle" /\ \A d \in Popper : d # c => pop'[d] = pop[d]
  BY <1>1 DEF PopLower, KcovTypeOK
<1> HIDE DEF n0
<1>4. Count' = n0 - 1 /\ \A j \in 1 .. Size - 1 : area'[j] = area[j]
  BY <1>1, StoreCount DEF Count
<1>5. \A n \in 1 .. Room : Unfinished(n)' <=> Unfinished(n)
  BY <1>1 DEF Unfinished
<1>6. \A n \in 1 .. Room : area'[Start(n)] = area[Start(n)] /\ area'[Start(n) + 1] = area[Start(n) + 1]
  BY <1>4, EntryWords
<1>7. StoreInv'
  <2>1. ASSUME NEW v \in Writer, Storing(v)
        PROVE  /\ ins[v].count <= n0 - 1 /\ meant[ins[v].count] = ins[v].item
               /\ ins[v].pc = "value" => area'[Start(ins[v].count)] = ins[v].item.key
    <3>1. ins[v].count \in 1 .. Room /\ ins[v].count <= n0
      BY <1>1, <2>1, WriterAt DEF RaceFree, StoreInv, Storing
    <3>2. ins[v].count # n0
      BY <1>2, <2>1 DEF Unfinished, Storing
    <3>3. ins[v].count <= n0 - 1
      BY <1>1, <3>1, <3>2, Entries
    <3>4. QED
      BY <1>6, <2>1, <3>1, <3>3 DEF RaceFree, StoreInv
  <2>2. \A v \in Writer : Storing(v)' <=> Storing(v)
    BY <1>1 DEF Storing
  <2>3. QED
    BY <1>1, <1>4, <2>1, <2>2 DEF RaceFree, StoreInv, Start
<1>8. EntryInv'
  BY <1>1, <1>5, <1>6 DEF RaceFree, EntryInv, Start
<1>9. ReadInv'
  BY <1>1, <1>3, <1>5 DEF RaceFree, ReadInv
<1>10. QED
  BY <1>7, <1>8, <1>9 DEF RaceFree

\* As long as no call has raced, the invariant holds.
LEMMA RaceFreeStep ==
  ASSUME BoundInv, ~raced => RaceFree, [KcovNext]_kcovVars
  PROVE  ~raced' => RaceFree'
<1> SUFFICES ASSUME ~raced' PROVE RaceFree'
  OBVIOUS
<1>1. RaceFree
  <2>1. raced => raced'
    BY DEF KcovNext, kcovVars, kcovHistory, ds_kcov_insert, InsertEnd, InsertCount, InsertClaim, InsertKey,
       InsertValue, ds_kcov_pop, PopBegin, PopKey, PopValue, PopLower
  <2>2. QED
    BY <2>1
<1>2. ASSUME NEW w \in Writer, NEW x \in Item, InsertCount(w, x) PROVE RaceFree'
  <2>1. UNCHANGED <<area, pop, meant>> /\ ins[w].pc = "idle" /\ ins \in [Writer -> [pc : {"idle", "claim", "key", "value"}, count : Nat, item : Word]]
    BY <1>2 DEF InsertCount, BoundInv, CountBounded, KcovTypeOK
  <2>2. /\ \A v \in Writer : v # w => ins'[v] = ins[v]
        /\ ins'[w].pc = "idle" \/ (ins'[w].pc = "claim" /\ ins'[w].item = x)
    BY <1>2, <2>1 DEF InsertCount
  <2>3. \A v \in Writer : /\ Storing(v)' <=> Storing(v)
                          /\ Storing(v) => ins'[v] = ins[v]
    BY <2>1, <2>2 DEF Storing
  <2>4. \A n \in 1 .. Room : Unfinished(n)' <=> Unfinished(n)
    BY <2>3 DEF Unfinished, Storing
  <2>5. StoreInv'
    BY <1>1, <2>1, <2>2, <2>3 DEF RaceFree, StoreInv, Start, Count
  <2>6. EntryInv'
    BY <1>1, <2>1, <2>4 DEF RaceFree, EntryInv, Start
  <2>7. ReadInv'
    BY <1>1, <2>1, <2>4 DEF RaceFree, ReadInv
  <2>8. QED
    BY <2>5, <2>6, <2>7 DEF RaceFree
<1>3. CASE UNCHANGED kcovVars
  <2>1. UNCHANGED <<area, ins, meant, pop>>
    BY <1>3 DEF kcovVars, kcovHistory
  <2>2. StoreInv' /\ EntryInv' /\ \A n \in 1 .. Room : Unfinished(n)' <=> Unfinished(n)
    BY <1>1, <2>1, EntriesKept
  <2>3. ReadInv'
    BY <1>1, <2>1, <2>2 DEF RaceFree, ReadInv
  <2>4. QED
    BY <2>2, <2>3 DEF RaceFree
<1>4. QED
  BY <1>1, <1>2, <1>3, ClaimRaceFree, KeyRaceFree, ValueRaceFree, PopReadRaceFree, LowerRaceFree
  DEF KcovNext, ds_kcov_insert, InsertEnd, ds_kcov_pop

\* The claimed pairs, as a sequence.
ClaimedShape ==
  /\ Claimed \in Seq(Word) /\ Len(Claimed) = Count
  /\ \A k \in 1 .. Count : Claimed[k] = meant[Count + 1 - k]

LEMMA ClaimedType ==
  ASSUME BoundInv
  PROVE  ClaimedShape
<1>1. Count \in 0 .. Room /\ Count \in Nat /\ meant \in [1 .. Room -> Word]
  BY BoundParts, Entries DEF AreaInv, HistoryInv, Count
<1>2. \A k \in 1 .. Count : meant[Count + 1 - k] \in Word
  <2>1. ASSUME NEW k \in 1 .. Count PROVE Count + 1 - k \in 1 .. Room
    BY <1>1, Entries
  <2>2. QED
    BY <1>1, <2>1
<1>3. QED
  BY <1>1, <1>2 DEF Claimed, ClaimedShape

\* A claim without a race pushes its pair.
LEMMA ClaimPushes ==
  ASSUME BoundInv, BoundInv', RaceFree, ~raced', NEW w \in Writer, InsertClaim(w)
  PROVE  ClaimedStack!Push(ins[w].item)
<1> DEFINE n0 == ins[w].count
           x == ins[w].item
<1>1. /\ KcovTypeOK /\ n0 \in 1 .. Room /\ Count \in Nat /\ Count = n0 - 1 /\ x \in Word
      /\ area' = [area EXCEPT ![0] = n0] /\ meant' = [meant EXCEPT ![n0] = x]
      /\ UNCHANGED taken
  BY WriterAt DEF InsertClaim, BoundInv, CountBounded, KcovTypeOK, Count
<1> HIDE DEF n0, x
<1>2. Count' = n0
  BY <1>1, StoreCount DEF Count
<1>3. /\ meant'[n0] = x
      /\ \A n \in 1 .. Room : n # n0 => meant'[n] = meant[n]
  BY <1>1 DEF KcovTypeOK
<1>4. /\ Claimed \in Seq(Word) /\ Len(Claimed) = n0 - 1
      /\ \A k \in 1 .. n0 - 1 : Claimed[k] = meant[n0 - k]
  <2>1. /\ Claimed \in Seq(Word) /\ Len(Claimed) = Count
        /\ \A k \in 1 .. Count : Claimed[k] = meant[Count + 1 - k]
    BY ClaimedType DEF ClaimedShape
  <2>2. \A k \in 1 .. Count : Count + 1 - k = n0 - k
    BY <1>1, Entries
  <2>3. QED
    BY <1>1, <2>1, <2>2
<1>5. /\ Claimed' \in Seq(Word) /\ Len(Claimed') = n0
      /\ \A k \in 1 .. n0 : Claimed'[k] = meant'[n0 + 1 - k]
  <2>1. ClaimedShape'
    BY ClaimedType, PTL
  <2>2. QED
    BY <1>2, <2>1 DEF ClaimedShape
<1> DEFINE h == <<x>>
<1>6. h \in Seq(Word) /\ Len(h) = 1 /\ h[1] = x
  BY <1>1
<1> HIDE DEF h
<1>7. /\ h \o Claimed \in Seq(Word) /\ Len(h \o Claimed) = n0
      /\ \A k \in 1 .. n0 : (h \o Claimed)[k] = IF k <= 1 THEN h[k] ELSE Claimed[k - 1]
  <2>1. 1 + (n0 - 1) = n0
    BY <1>1, Entries
  <2>2. Len(h) + Len(Claimed) = n0
    BY <1>4, <1>6, <2>1
  <2>3. /\ h \o Claimed \in Seq(Word) /\ Len(h \o Claimed) = Len(h) + Len(Claimed)
        /\ \A k \in 1 .. Len(h) + Len(Claimed) :
             (h \o Claimed)[k] = IF k <= Len(h) THEN h[k] ELSE Claimed[k - Len(h)]
    BY <1>4, <1>6, ConcatProperties
  <2>4. QED
    BY <1>6, <2>2, <2>3
<1>8. ASSUME NEW k \in 1 .. n0 PROVE Claimed'[k] = (h \o Claimed)[k]
  <2>1. CASE k = 1
    <3>1. n0 + 1 - k = n0 /\ k <= 1
      BY <1>1, <2>1, Entries
    <3>2. QED
      BY <1>3, <1>5, <1>6, <1>7, <2>1, <3>1
  <2>2. CASE k # 1
    <3>1. /\ k - 1 \in 1 .. n0 - 1 /\ ~(k <= 1) /\ n0 + 1 - k = n0 - (k - 1)
          /\ n0 + 1 - k \in 1 .. Room /\ n0 + 1 - k # n0
      BY <1>1, <2>2, Entries
    <3>2. (h \o Claimed)[k] = meant[n0 - (k - 1)]
      BY <1>4, <1>7, <3>1
    <3>3. Claimed'[k] = meant[n0 + 1 - k]
      BY <1>3, <1>5, <3>1
    <3>4. QED
      BY <3>1, <3>2, <3>3
  <2>3. QED
    BY <2>1, <2>2
<1>9. Claimed' = h \o Claimed
  BY <1>5, <1>7, <1>8, SeqEqual
<1>10. Len(Claimed) < Room
  BY <1>1, <1>4, Entries
<1>11. QED
  BY <1>1, <1>9, <1>10 DEF ClaimedStack!Push, h, x

\* Lowering the count without a race pops the newest pair.
LEMMA LowerPops ==
  ASSUME BoundInv, BoundInv', RaceFree, ~raced', NEW c \in Popper, PopLower(c)
  PROVE  ClaimedStack!Pop
<1> DEFINE n0 == pop[c].count
<1>1. /\ KcovTypeOK /\ n0 \in 1 .. Room /\ Count = n0 /\ UNCHANGED meant
      /\ area' = [area EXCEPT ![0] = n0 - 1] /\ pop[c].pc = "lower"
      /\ taken' = Append(taken, pop[c].out)
  BY PopperAt DEF PopLower, BoundInv, CountBounded
<1>2. pop[c].out = meant[n0]
  BY <1>1 DEF RaceFree, ReadInv
<1> HIDE DEF n0
<1>3. Count' = n0 - 1
  BY <1>1, StoreCount DEF Count
<1>4. /\ Claimed \in Seq(Word) /\ Len(Claimed) = n0
      /\ \A k \in 1 .. n0 : Claimed[k] = meant[n0 + 1 - k]
  BY <1>1, ClaimedType DEF ClaimedShape
<1>5. /\ Claimed' \in Seq(Word) /\ Len(Claimed') = n0 - 1
      /\ \A k \in 1 .. n0 - 1 : Claimed'[k] = meant[n0 - k]
  <2>1. ClaimedShape'
    BY ClaimedType, PTL
  <2>2. \A k \in 1 .. n0 - 1 : n0 - 1 + 1 - k = n0 - k
    BY <1>1, Entries
  <2>3. QED
    BY <1>1, <1>3, <2>1, <2>2 DEF ClaimedShape
<1>6. n0 \in Nat /\ n0 >= 1
  BY <1>1, Entries
<1>7. Claimed # <<>> /\ Head(Claimed) = meant[n0]
  <2>1. Claimed # <<>> /\ Head(Claimed) = Claimed[1]
    BY <1>4, <1>6
  <2>2. 1 \in 1 .. n0 /\ n0 + 1 - 1 = n0
    BY <1>6
  <2>3. QED
    BY <1>4, <2>1, <2>2
<1>8. /\ Tail(Claimed) \in Seq(Word) /\ Len(Tail(Claimed)) = n0 - 1
      /\ \A k \in 1 .. n0 - 1 : Tail(Claimed)[k] = Claimed[k + 1]
  BY <1>4, <1>7, HeadTailProperties
<1>9. ASSUME NEW k \in 1 .. n0 - 1 PROVE Claimed'[k] = Tail(Claimed)[k]
  <2>1. k + 1 \in 1 .. n0 /\ n0 + 1 - (k + 1) = n0 - k
    BY <1>6
  <2>2. QED
    BY <1>4, <1>5, <1>8, <2>1
<1>10. Claimed' = Tail(Claimed)
  BY <1>5, <1>8, <1>9, SeqEqual
<1>11. QED
  BY <1>1, <1>2, <1>7, <1>10 DEF ClaimedStack!Pop

\* Until two calls race the buffer is a stack, for every size and any number of
\* threads whose calls overlap: a claim pushes the pair, lowering the count pops
\* the newest one, whole.
THEOREM StackUntilRace == KcovSpec => StackUpToFirstRace
<1>1. KcovInit => ClaimedStack!Init
  <2> SUFFICES ASSUME KcovInit PROVE Claimed = <<>> /\ taken = <<>>
    BY DEF ClaimedStack!Init
  <2>1. Count = 0
    BY Entries DEF KcovInit, Count
  <2>2. 1 .. Count = {}
    BY <2>1
  <2>3. QED
    BY <2>2 DEF KcovInit, Claimed
<1>2. /\ BoundInv /\ BoundInv' /\ (~raced => RaceFree) /\ [KcovNext]_kcovVars
      => [raced' \/ ClaimedStack!Next]_<<Claimed, taken>>
  <2> SUFFICES ASSUME BoundInv, BoundInv', ~raced => RaceFree, [KcovNext]_kcovVars, ~raced'
               PROVE  ClaimedStack!Next \/ UNCHANGED <<Claimed, taken>>
    OBVIOUS
  <2>1. RaceFree
    <3>1. raced => raced'
      BY DEF KcovNext, kcovVars, kcovHistory, ds_kcov_insert, InsertEnd, InsertCount, InsertClaim, InsertKey,
         InsertValue, ds_kcov_pop, PopBegin, PopKey, PopValue, PopLower
    <3>2. QED
      BY <3>1
  <2>2. ASSUME NEW w \in Writer, InsertClaim(w) PROVE ClaimedStack!Next
    <3>1. ins[w].item \in Item
      BY <2>1, <2>2 DEF InsertClaim, RaceFree, StoreInv
    <3>2. QED
      BY <2>1, <2>2, <3>1, ClaimPushes DEF ClaimedStack!Next
  <2>3. ASSUME NEW c \in Popper, PopLower(c) PROVE ClaimedStack!Next
    BY <2>1, <2>3, LowerPops DEF ClaimedStack!Next
  <2>4. ASSUME UNCHANGED <<meant, taken>>, Count' = Count PROVE UNCHANGED <<Claimed, taken>>
    BY <2>4 DEF Claimed
  <2>5. ASSUME UNCHANGED <<area, meant, taken>> PROVE UNCHANGED <<Claimed, taken>>
    BY <2>4, <2>5 DEF Count
  <2>6. ASSUME NEW w \in Writer, InsertKey(w) \/ InsertValue(w) PROVE UNCHANGED <<Claimed, taken>>
    <3>1. ins[w].count \in 1 .. Room /\ KcovTypeOK /\ UNCHANGED <<meant, taken>>
      BY <2>6, WriterAt DEF InsertKey, InsertValue, BoundInv, CountBounded, kcovHistory
    <3>2. Start(ins[w].count) \in 1 .. Size - 1 /\ Start(ins[w].count) + 1 \in 1 .. Size - 1
      BY <3>1, EntryWords
    <3>3. area'[0] = area[0]
      <4>1. CASE InsertKey(w)
        <5>1. area' = [area EXCEPT ![Start(ins[w].count)] = ins[w].item.key]
          BY <4>1 DEF InsertKey
        <5>2. QED
          BY <3>1, <3>2, <5>1, StoreWord
      <4>2. CASE InsertValue(w)
        <5>1. area' = [area EXCEPT ![Start(ins[w].count) + 1] = ins[w].item.value]
          BY <4>2 DEF InsertValue
        <5>2. QED
          BY <3>1, <3>2, <5>1, StoreWord
      <4>3. QED
        BY <2>6, <4>1, <4>2
    <3>4. QED
      BY <2>4, <3>1, <3>3 DEF Count
  <2>7. ASSUME NEW w \in Writer, NEW x \in Item, InsertCount(w, x) PROVE UNCHANGED <<Claimed, taken>>
    BY <2>5, <2>7 DEF InsertCount
  <2>8. ASSUME NEW c \in Popper, PopBegin(c) \/ PopKey(c) \/ PopValue(c)
        PROVE  UNCHANGED <<Claimed, taken>>
    BY <2>5, <2>8 DEF PopBegin, PopKey, PopValue, kcovHistory
  <2>9. CASE UNCHANGED kcovVars
    BY <2>5, <2>9 DEF kcovVars, kcovHistory
  <2>10. QED
    BY <2>2, <2>3, <2>6, <2>7, <2>8, <2>9 DEF KcovNext, ds_kcov_insert, InsertEnd, ds_kcov_pop
<1>3. BoundInv /\ [KcovNext]_kcovVars => BoundInv'
  BY BoundStep
<1>4. BoundInv /\ (~raced => RaceFree) /\ [KcovNext]_kcovVars => (~raced => RaceFree)'
  BY RaceFreeStep
<1>5. KcovInit => BoundInv /\ (~raced => RaceFree)
  BY BoundInit, RaceFreeInit
<1>6. QED
  BY <1>1, <1>2, <1>3, <1>4, <1>5, PTL DEF KcovSpec, StackUpToFirstRace
----------------------------------------------------------------------------
(***************************************************************************)
(* The CK stack.                                                           *)
(***************************************************************************)
\* What CkStack assumes of its constants.
StackBounds ==
  /\ MaxEntries \in Nat /\ MaxRounds \in Nat \ {0}
  /\ CountModulus \in Nat /\ CountModulus > MaxEntries
  /\ IsFiniteSet(Producer) /\ IsFiniteSet(Consumer)

LEMMA StackBoundsHold == StackBounds
  BY BoundsAssumption, CountAssumption, ThreadAssumption DEF StackBounds

\* The entries that have been linked, whether or not they were popped since.
Settled == used \ (Pushing \cup lost)

\* The stack as a sequence of entries, newest first.
At(s, k) == IF k <= Len(s) THEN s[k] ELSE Null
PathInv(s) ==
  /\ s \in Seq(Entry) /\ head = At(s, 1)
  /\ \A k \in 1 .. Len(s) : next[s[k]] = At(s, k + 1)
  /\ \A j, k \in 1 .. Len(s) : s[j] = s[k] => j = k
  /\ {s[k] : k \in 1 .. Len(s)} = Settled \ popped

\* The counter lags behind by the pushes and the pops that have not updated it.
PushesUncounted == {p \in Producer : prod[p].pc = "count"}
PopsUncounted == {c \in Consumer : cons[c].pc = "count"}
Due(s) == Len(s) - Cardinality(PushesUncounted) + Cardinality(PopsUncounted)

ListInv == \E s : PathInv(s) /\ count = Due(s) % CountModulus

\* An entry is private to its push until it is linked or given up.
Holds(p) == prod[p].pc \in {"head", "swap"}
PushInv ==
  /\ popped \subseteq Settled /\ lost \subseteq used
  /\ \A e \in used : elem[e] \in Producer
  /\ \A p \in Producer : Holds(p) =>
       prod[p].entry \in used \ lost /\ elem[prod[p].entry] = p

\* A pop holds an entry that was linked once, and the link it has read is still
\* the entry's: that is why an old head cannot come back.
TakeInv ==
  \A c \in Consumer :
    /\ cons[c].pc \in {"next", "swap"} => cons[c].head \in Settled
    /\ cons[c].pc = "swap" => cons[c].next = next[cons[c].head]

\* Every entry that was linked has a height, the number of links from it to the
\* end, and a verification keeps fast at or below slow.
Height(d, e) == IF e = Null THEN 0 ELSE d[e]
Ranked(d) ==
  \A e \in Settled :
    next[e] \in Settled \cup {Null} /\ d[e] = Height(d, next[e]) + 1
Walking(d, o) ==
  obs[o].pc = "walk" =>
    /\ obs[o].slow \in Settled \cup {Null} /\ obs[o].fast \in Settled \cup {Null}
    /\ Height(d, obs[o].fast) <= Height(d, obs[o].slow)
WalkInv ==
  \E d \in [Entry -> Nat] : Ranked(d) /\ \A o \in Observer : Walking(d, o)

\* The inductive invariant.
StackInv ==
  /\ StackBounds /\ TypeOK /\ PushInv /\ TakeInv /\ ListInv /\ WalkInv
  /\ VerifyNeverCorrupt

LEMMA StackTypes ==
  ASSUME StackBounds, TypeOK
  PROVE  /\ MaxEntries \in Nat /\ MaxRounds \in Nat /\ MaxRounds >= 1
         /\ CountModulus \in Nat /\ CountModulus > MaxEntries
         /\ Null = 0 /\ Null \notin Entry /\ Entry = 1 .. MaxEntries
         /\ Link = Entry \cup {Null}
         /\ used \subseteq Entry /\ Settled \subseteq used
         /\ head \in Link /\ next \in [Entry -> Link]
  BY DEF StackBounds, Null, Entry, Link,
     TypeOK, Settled

\* The head of the stack is an entry that was linked and not popped.
LEMMA HeadSettled ==
  ASSUME StackBounds, TypeOK, NEW s, PathInv(s)
  PROVE  /\ head = Null => s = <<>>
         /\ head # Null => s # <<>> /\ head = s[1] /\ head \in Settled \ popped
<1>1. s \in Seq(Entry) /\ Len(s) \in Nat /\ head = At(s, 1)
  BY DEF PathInv
<1>2. \A k \in 1 .. Len(s) : s[k] \in Entry /\ s[k] \in Settled \ popped
  BY <1>1 DEF PathInv
<1>3. CASE Len(s) = 0
  BY <1>1, <1>3 DEF At
<1>4. CASE Len(s) >= 1
  <2>1. 1 \in 1 .. Len(s) /\ head = s[1] /\ s # <<>>
    BY <1>1, <1>4 DEF At
  <2>2. QED
    BY <1>2, <2>1, StackTypes
<1>5. QED
  BY <1>1, <1>3, <1>4

\* A step of one push or one pop.
OnlyPush(p) ==
  /\ prod' \in [Producer -> ProducerRecord] /\ UNCHANGED <<cons, obs>>
  /\ \A q \in Producer : q # p => prod'[q] = prod[q]
OnlyPop(c) ==
  /\ cons' \in [Consumer -> ConsumerRecord] /\ UNCHANGED <<prod, obs>>
  /\ \A d \in Consumer : d # c => cons'[d] = cons[d]

LEMMA PushWrites ==
  ASSUME TypeOK, NEW p \in Producer, NEW r \in ProducerRecord, prod' = [prod EXCEPT ![p] = r],
         UNCHANGED <<cons, obs>>
  PROVE  OnlyPush(p) /\ prod'[p] = r
<1> HIDE DEF ProducerRecord
<1>1. prod \in [Producer -> ProducerRecord]
  BY DEF TypeOK
<1>2. QED
  BY <1>1 DEF OnlyPush

LEMMA PopWrites ==
  ASSUME TypeOK, NEW c \in Consumer, NEW r \in ConsumerRecord, cons' = [cons EXCEPT ![c] = r],
         UNCHANGED <<prod, obs>>
  PROVE  OnlyPop(c) /\ cons'[c] = r
<1> HIDE DEF ConsumerRecord
<1>1. cons \in [Consumer -> ConsumerRecord]
  BY DEF TypeOK
<1>2. QED
  BY <1>1 DEF OnlyPop

\* The private entries after a step of p.
LEMMA PushingMoves ==
  ASSUME PushInv, NEW p \in Producer, OnlyPush(p)
  PROVE  /\ (Holds(p) /\ Holds(p)' /\ prod'[p].entry = prod[p].entry) => Pushing' = Pushing
         /\ (~Holds(p) /\ ~Holds(p)') => Pushing' = Pushing
         /\ (~Holds(p) /\ Holds(p)') => Pushing' = Pushing \cup {prod'[p].entry}
         /\ (Holds(p) /\ ~Holds(p)') => Pushing' = Pushing \ {prod[p].entry}
<1>1. \A e : e \in Pushing <=> \E q \in Producer : Holds(q) /\ prod[q].entry = e
  BY DEF Pushing, Holds
<1>2. \A e : e \in Pushing' <=> \E q \in Producer : Holds(q)' /\ prod'[q].entry = e
  BY DEF Pushing, Holds
<1>3. \A q \in Producer : q # p => (Holds(q)' <=> Holds(q)) /\ prod'[q].entry = prod[q].entry
  BY DEF OnlyPush, Holds
<1>4. \A q \in Producer : Holds(q) /\ Holds(p) /\ prod[q].entry = prod[p].entry => q = p
  BY DEF PushInv
<1> HIDE DEF Holds
<1>5. ASSUME Holds(p), Holds(p)', prod'[p].entry = prod[p].entry PROVE Pushing' = Pushing
  BY <1>1, <1>2, <1>3, <1>5
<1>6. ASSUME ~Holds(p), ~Holds(p)' PROVE Pushing' = Pushing
  BY <1>1, <1>2, <1>3, <1>6
<1>7. ASSUME ~Holds(p), Holds(p)' PROVE Pushing' = Pushing \cup {prod'[p].entry}
  BY <1>1, <1>2, <1>3, <1>7
<1>8. ASSUME Holds(p), ~Holds(p)' PROVE Pushing' = Pushing \ {prod[p].entry}
  BY <1>1, <1>2, <1>3, <1>4, <1>8
<1>9. QED
  BY <1>5, <1>6, <1>7, <1>8

\* The parts of the invariant a step leaves alone.
LEMMA PathKept ==
  ASSUME NEW s, PathInv(s), UNCHANGED <<head, next, popped>>, Settled' = Settled
  PROVE  PathInv(s)'
  BY DEF PathInv, At

LEMMA TakesKept ==
  ASSUME TakeInv, UNCHANGED cons, Settled \subseteq Settled', \A e \in Settled : next'[e] = next[e]
  PROVE  TakeInv'
  BY DEF TakeInv

LEMMA WalksKept ==
  ASSUME StackBounds, TypeOK, WalkInv, UNCHANGED obs, Settled' = Settled,
         \A e \in Settled : next'[e] = next[e]
  PROVE  WalkInv'
<1>1. PICK d \in [Entry -> Nat] : Ranked(d) /\ \A o \in Observer : Walking(d, o)
  BY DEF WalkInv
<1>2. Ranked(d)'
  BY <1>1 DEF Ranked, Height
<1>3. \A o \in Observer : Walking(d, o)'
  BY <1>1 DEF Walking, Height
<1>4. QED
  BY <1>1, <1>2, <1>3 DEF WalkInv
----------------------------------------------------------------------------
(* The counter of the stack *)

LEMMA Uncounted ==
  ASSUME StackBounds
  PROVE  /\ IsFiniteSet(PushesUncounted) /\ Cardinality(PushesUncounted) \in Nat
         /\ IsFiniteSet(PopsUncounted) /\ Cardinality(PopsUncounted) \in Nat
<1>1. PushesUncounted \subseteq Producer /\ PopsUncounted \subseteq Consumer
  BY DEF PushesUncounted, PopsUncounted
<1>2. IsFiniteSet(Producer) /\ IsFiniteSet(Consumer)
  BY DEF StackBounds, IsFiniteSet
<1>3. IsFiniteSet(PushesUncounted) /\ IsFiniteSet(PopsUncounted)
  BY <1>1, <1>2, FS_Subset
<1>4. QED
  BY <1>3, FS_CardinalityType

LEMMA PushCounts ==
  ASSUME StackBounds, NEW p \in Producer, OnlyPush(p)
  PROVE  /\ Cardinality(PopsUncounted)' = Cardinality(PopsUncounted)
         /\ (prod[p].pc = "count" <=> prod'[p].pc = "count") =>
              Cardinality(PushesUncounted)' = Cardinality(PushesUncounted)
         /\ prod[p].pc # "count" /\ prod'[p].pc = "count" =>
              Cardinality(PushesUncounted)' = Cardinality(PushesUncounted) + 1
         /\ prod[p].pc = "count" /\ prod'[p].pc # "count" =>
              Cardinality(PushesUncounted)' = Cardinality(PushesUncounted) - 1
<1> DEFINE S == PushesUncounted
           T == PushesUncounted'
<1>1. PopsUncounted' = PopsUncounted
  BY DEF PopsUncounted, OnlyPush
<1>2. IsFiniteSet(S)
  BY Uncounted
<1>3. ASSUME prod[p].pc = "count" <=> prod'[p].pc = "count" PROVE T = S
  BY <1>3 DEF PushesUncounted, OnlyPush
<1>4. ASSUME prod[p].pc # "count", prod'[p].pc = "count"
      PROVE  Cardinality(T) = Cardinality(S) + 1
  <2>1. \A q \in Producer : q \in T <=> q \in S \cup {p}
    BY <1>4 DEF PushesUncounted, OnlyPush
  <2>2. T = S \cup {p} /\ p \notin S
    BY <1>4, <2>1 DEF PushesUncounted
  <2>3. QED
    BY <1>2, <2>2, FS_AddElement
<1>5. ASSUME prod[p].pc = "count", prod'[p].pc # "count"
      PROVE  Cardinality(T) = Cardinality(S) - 1
  <2>1. T = S \ {p} /\ p \in S
    BY <1>5, Zenon DEF PushesUncounted, OnlyPush
  <2>2. QED
    BY <1>2, <2>1, FS_RemoveElement
<1>6. QED
  BY <1>1, <1>3, <1>4, <1>5

LEMMA PopCounts ==
  ASSUME StackBounds, NEW c \in Consumer, OnlyPop(c)
  PROVE  /\ Cardinality(PushesUncounted)' = Cardinality(PushesUncounted)
         /\ (cons[c].pc = "count" <=> cons'[c].pc = "count") =>
              Cardinality(PopsUncounted)' = Cardinality(PopsUncounted)
         /\ cons[c].pc # "count" /\ cons'[c].pc = "count" =>
              Cardinality(PopsUncounted)' = Cardinality(PopsUncounted) + 1
         /\ cons[c].pc = "count" /\ cons'[c].pc # "count" =>
              Cardinality(PopsUncounted)' = Cardinality(PopsUncounted) - 1
<1> DEFINE S == PopsUncounted
           T == PopsUncounted'
<1>1. PushesUncounted' = PushesUncounted
  BY DEF PushesUncounted, OnlyPop
<1>2. IsFiniteSet(S)
  BY Uncounted
<1>3. ASSUME cons[c].pc = "count" <=> cons'[c].pc = "count" PROVE T = S
  BY <1>3 DEF PopsUncounted, OnlyPop
<1>4. ASSUME cons[c].pc # "count", cons'[c].pc = "count"
      PROVE  Cardinality(T) = Cardinality(S) + 1
  <2>1. \A q \in Consumer : q \in T <=> q \in S \cup {c}
    BY <1>4 DEF PopsUncounted, OnlyPop
  <2>2. T = S \cup {c} /\ c \notin S
    BY <1>4, <2>1 DEF PopsUncounted
  <2>3. QED
    BY <1>2, <2>2, FS_AddElement
<1>5. ASSUME cons[c].pc = "count", cons'[c].pc # "count"
      PROVE  Cardinality(T) = Cardinality(S) - 1
  <2>1. T = S \ {c} /\ c \in S
    BY <1>5, Zenon DEF PopsUncounted, OnlyPop
  <2>2. QED
    BY <1>2, <2>1, FS_RemoveElement
<1>6. QED
  BY <1>1, <1>3, <1>4, <1>5

\* The counter stays exact modulo 2^64, whichever way it wraps.
LEMMA CountMoves ==
  ASSUME StackBounds, TypeOK, NEW n \in Int, count = n % CountModulus, NEW i \in Int
  PROVE  /\ (count + i) % CountModulus = (n + i) % CountModulus
         /\ (count + i) % CountModulus \in 0 .. CountModulus - 1
<1>1. CountModulus \in Nat /\ CountModulus > 0 /\ count \in 0 .. CountModulus - 1
  BY StackTypes DEF TypeOK
<1>2. count % CountModulus = count
  BY <1>1, FirstLap
<1>3. count \in Int /\ count + i \in Int /\ count % CountModulus = n % CountModulus
  BY <1>1, <1>2
<1>4. (count + i) % CountModulus \in 0 .. CountModulus - 1
  BY <1>1, <1>3, DivMod
<1>5. (count + i) % CountModulus = (n + i) % CountModulus
  BY <1>1, <1>3, SumOfCells, Zenon
<1>6. QED
  BY <1>4, <1>5
----------------------------------------------------------------------------
(* Steps of a push that link nothing *)

\* The step links no entry and writes no pair of one that is in use.
Quiet == Settled' = Settled /\ \A e \in used : elem'[e] = elem[e]

\* p moves, perhaps with a fresh entry or giving its entry up, and the list stays.
LEMMA PushMoves ==
  ASSUME StackInv, NEW p \in Producer, OnlyPush(p),
         UNCHANGED <<head, next, popped, delivered>>, Settled' = Settled,
         lost' \subseteq Entry, used' \subseteq Entry, elem' \in [Entry -> Pair],
         PushInv',
         \/ count' = count /\ (prod[p].pc = "count" <=> prod'[p].pc = "count")
         \/ /\ count' = (count + 1) % CountModulus
            /\ prod[p].pc = "count" /\ prod'[p].pc # "count"
  PROVE  StackInv'
<1>1. StackBounds /\ TypeOK /\ WalkInv /\ TakeInv
  BY DEF StackInv
<1>2. WalkInv' /\ TakeInv'
  <2>1. UNCHANGED <<cons, obs>>
    BY DEF OnlyPush
  <2>2. QED
    BY <1>1, <2>1, WalksKept, TakesKept
<1>3. PICK s : PathInv(s) /\ count = Due(s) % CountModulus
  BY DEF StackInv, ListInv
<1>4. PathInv(s)' /\ Len(s) \in Nat
  BY <1>3, PathKept DEF PathInv
<1>5. count' = Due(s)' % CountModulus /\ count' \in 0 .. CountModulus - 1
  <2> DEFINE I == Cardinality(PushesUncounted)
             J == Cardinality(PushesUncounted)'
             P == Cardinality(PopsUncounted)
  <2>1. I \in Nat /\ P \in Nat
    BY <1>1, Uncounted
  <2>2. Due(s) = Len(s) - I + P /\ Due(s)' = Len(s) - J + P
    BY <1>1, PushCounts DEF Due
  <2>3. CASE count' = count /\ (prod[p].pc = "count" <=> prod'[p].pc = "count")
    <3>1. J = I
      BY <1>1, <2>3, PushCounts
    <3>2. Due(s)' = Due(s)
      BY <2>2, <3>1
    <3>3. QED
      BY <1>1, <1>3, <2>3, <3>2 DEF TypeOK
  <2>4. CASE /\ count' = (count + 1) % CountModulus
             /\ prod[p].pc = "count" /\ prod'[p].pc # "count"
    <3>1. J = I - 1
      BY <1>1, <2>4, PushCounts
    <3> HIDE DEF I, J, P
    <3>2. Due(s) \in Int /\ Due(s)' = Due(s) + 1
      BY <1>4, <2>1, <2>2, <3>1
    <3>3. QED
      BY <1>1, <1>3, <2>4, <3>2, CountMoves
  <2>5. QED
    BY <2>3, <2>4
<1>6. ListInv'
  BY <1>4, <1>5 DEF ListInv
<1>7. TypeOK'
  BY <1>1, <1>5 DEF TypeOK, OnlyPush
<1>8. StackBounds' /\ VerifyNeverCorrupt'
  BY DEF StackInv, StackBounds,
     VerifyNeverCorrupt, OnlyPush
<1>9. QED
  BY <1>2, <1>6, <1>7, <1>8 DEF StackInv

LEMMA LeastNat ==
  ASSUME NEW S \in SUBSET Nat, S # {}
  PROVE  \E m \in S : \A k \in S : m <= k
<1> DEFINE R == {ss \in Nat \X Nat : ss[1] < ss[2]}
<1>1. IsWellFoundedOn(R, Nat)
  BY NatLessThanWellFounded, Zenon DEF OpToRel
<1> HIDE DEF R
<1>2. PICK m \in S : \A k \in S : ~(<<k, m>> \in R)
  BY <1>1, WFMin
<1>3. \A k \in S : <<k, m>> \in R \/ m <= k
  BY DEF R
<1>4. QED
  BY <1>2, <1>3

LEMMA FreshEntry ==
  ASSUME StackBounds, TypeOK, used # Entry
  PROVE  Fresh \in Entry /\ Fresh \notin used
<1> DEFINE S == Entry \ used
<1>1. S \in SUBSET Nat /\ S # {}
  <2>1. used \subseteq Entry /\ Entry \subseteq Nat
    BY StackTypes
  <2>2. QED
    BY <2>1, Zenon
<1>2. \E e \in S : \A f \in S : e <= f
  BY <1>1, LeastNat
<1>3. QED
  BY <1>2 DEF Fresh

LEMMA InsertBeginStep ==
  ASSUME StackInv, NEW p \in Producer, InsertBegin(p)
  PROVE  StackInv' /\ Quiet
<1> DEFINE e == Fresh
           r == [prod[p] EXCEPT !.pc = "head", !.entry = e]
<1>1. StackBounds /\ TypeOK /\ PushInv /\ prod[p] \in ProducerRecord /\ prod[p].pc = "idle"
  BY DEF StackInv, TypeOK, InsertBegin
<1>2. e \in Entry /\ e \notin used
  BY <1>1, FreshEntry DEF InsertBegin
<1>3. /\ used' = used \cup {e} /\ elem' = [elem EXCEPT ![e] = p] /\ prod' = [prod EXCEPT ![p] = r]
      /\ UNCHANGED <<head, count, next, cons, obs, popped, lost, delivered>>
  BY DEF InsertBegin, stackVars, histVars
<1> HIDE DEF e
<1>4. r \in ProducerRecord /\ r.pc = "head" /\ r.entry = e
  BY <1>1, <1>2 DEF ProducerRecord, Link
<1> HIDE DEF r
<1>5. OnlyPush(p) /\ prod'[p] = r
  BY <1>1, <1>3, <1>4, PushWrites
<1>6. ~Holds(p) /\ Holds(p)'
  BY <1>1, <1>4, <1>5 DEF Holds
<1>7. Pushing' = Pushing \cup {e}
  BY <1>1, <1>4, <1>5, <1>6, PushingMoves
<1>8. e \notin lost /\ e \notin Pushing
  BY <1>1, <1>2 DEF PushInv, Pushing, Holds
<1>9. Settled' = Settled
  BY <1>2, <1>3, <1>7, <1>8 DEF Settled
<1>10. elem \in [Entry -> Pair] /\ p \in Pair /\ used \subseteq Entry /\ lost \subseteq Entry
  BY <1>1 DEF TypeOK, Pair
<1>11. elem' \in [Entry -> Pair] /\ elem'[e] = p /\ \A f \in used : elem'[f] = elem[f]
  BY <1>2, <1>3, <1>10
<1>12. PushInv'
  <2>1. popped' \subseteq Settled' /\ lost' \subseteq used' /\ \A f \in used' : elem'[f] \in Producer
    BY <1>1, <1>3, <1>9, <1>11 DEF PushInv
  <2>2. ASSUME NEW q \in Producer, Holds(q)'
        PROVE  prod'[q].entry \in used' \ lost' /\ elem'[prod'[q].entry] = q
    <3>1. CASE q = p
      BY <1>3, <1>4, <1>5, <1>8, <1>11, <3>1
    <3>2. CASE q # p
      <4>1. prod'[q] = prod[q] /\ Holds(q)
        BY <1>5, <2>2, <3>2 DEF OnlyPush, Holds
      <4>2. QED
        BY <1>1, <1>3, <1>11, <4>1 DEF PushInv
    <3>3. QED
      BY <3>1, <3>2
  <2>3. QED
    BY <2>1, <2>2 DEF PushInv
<1>13. prod[p].pc # "count" /\ prod'[p].pc # "count"
  BY <1>1, <1>4, <1>5
<1>14. QED
  BY <1>2, <1>3, <1>5, <1>9, <1>10, <1>11, <1>12, <1>13, PushMoves DEF Quiet

\* A step of p that keeps its entry, or that starts or ends without one.
LEMMA PushStays ==
  ASSUME StackInv, NEW p \in Producer, OnlyPush(p),
         UNCHANGED <<head, next, elem, used, popped, lost, delivered>>,
         \/ Holds(p) /\ Holds(p)' /\ prod'[p].entry = prod[p].entry
         \/ ~Holds(p) /\ ~Holds(p)',
         \/ count' = count /\ (prod[p].pc = "count" <=> prod'[p].pc = "count")
         \/ /\ count' = (count + 1) % CountModulus
            /\ prod[p].pc = "count" /\ prod'[p].pc # "count"
  PROVE  StackInv' /\ Quiet
<1>1. StackBounds /\ TypeOK /\ PushInv
  BY DEF StackInv
<1>2. Pushing' = Pushing
  BY <1>1, PushingMoves
<1>3. Settled' = Settled
  BY <1>2 DEF Settled
<1>4. ASSUME NEW q \in Producer, Holds(q)'
      PROVE  Holds(q) /\ prod'[q].entry = prod[q].entry
  BY <1>4 DEF OnlyPush, Holds
<1>5. PushInv'
  <2>1. \A q \in Producer : Holds(q)' => prod'[q].entry \in used \ lost /\ elem[prod'[q].entry] = q
    BY <1>1, <1>4 DEF PushInv
  <2>2. popped \subseteq Settled /\ lost \subseteq used /\ \A f \in used : elem[f] \in Producer
    BY <1>1 DEF PushInv
  <2>3. QED
    BY <1>3, <2>1, <2>2 DEF PushInv
<1>6. lost' \subseteq Entry /\ used' \subseteq Entry /\ elem' \in [Entry -> Pair]
  BY <1>1 DEF TypeOK
<1>7. QED
  BY <1>3, <1>5, <1>6, PushMoves DEF Quiet

LEMMA PushHeadStep ==
  ASSUME StackInv, NEW p \in Producer, PushHead(p)
  PROVE  StackInv' /\ Quiet
<1> DEFINE r == [prod[p] EXCEPT !.pc = "swap", !.head = head]
<1>1. TypeOK /\ prod[p] \in ProducerRecord /\ prod[p].pc = "head" /\ head \in Link
  BY DEF StackInv, TypeOK, PushHead
<1>2. r \in ProducerRecord /\ r.pc = "swap" /\ r.entry = prod[p].entry
  BY <1>1 DEF ProducerRecord
<1>3. /\ prod' = [prod EXCEPT ![p] = r]
      /\ UNCHANGED <<head, count, next, elem, used, cons, obs, popped, lost, delivered>>
  BY DEF PushHead, stackVars, entryVars, histVars
<1> HIDE DEF r
<1>4. OnlyPush(p) /\ prod'[p] = r
  BY <1>1, <1>2, <1>3, PushWrites
<1>5. Holds(p) /\ Holds(p)'
  BY <1>1, <1>2, <1>4 DEF Holds
<1>6. QED
  BY <1>1, <1>2, <1>3, <1>4, <1>5, PushStays

LEMMA PushRetryStep ==
  ASSUME StackInv, NEW p \in Producer, PushRetry(p)
  PROVE  StackInv' /\ Quiet
<1> DEFINE n == Round(p, prod[p].rounds)
           r == [prod[p] EXCEPT !.head = head, !.rounds = n]
<1>1. /\ StackBounds /\ TypeOK /\ prod[p] \in ProducerRecord /\ prod[p].pc = "swap"
      /\ head \in Link
  BY DEF StackInv, TypeOK, PushRetry
<1>2. prod[p].rounds \in 0 .. MaxRounds /\ MaxRounds \in Nat
  BY <1>1, StackTypes DEF ProducerRecord
<1>3. n \in 0 .. MaxRounds
  BY <1>2 DEF PushRetry, CanLoop, Round
<1>4. /\ prod' = [prod EXCEPT ![p] = r]
      /\ UNCHANGED <<head, count, next, elem, used, cons, obs, popped, lost, delivered>>
  BY DEF PushRetry, stackVars, entryVars, histVars
<1> HIDE DEF n
<1>5. r \in ProducerRecord /\ r.pc = "swap" /\ r.entry = prod[p].entry
  BY <1>1, <1>3 DEF ProducerRecord
<1> HIDE DEF r
<1>6. OnlyPush(p) /\ prod'[p] = r
  BY <1>1, <1>4, <1>5, PushWrites
<1>7. Holds(p) /\ Holds(p)'
  BY <1>1, <1>5, <1>6 DEF Holds
<1>8. QED
  BY <1>1, <1>4, <1>5, <1>6, <1>7, PushStays

LEMMA IdleRecords ==
  ASSUME StackBounds
  PROVE  /\ IdleProducer \in ProducerRecord /\ IdleProducer.pc = "idle"
         /\ IdleConsumer \in ConsumerRecord /\ IdleConsumer.pc = "idle"
         /\ IdleObserver \in ObserverRecord /\ IdleObserver.pc = "idle"
<1>1. 0 \in 0 .. MaxRounds
  BY DEF StackBounds
<1>2. QED
  BY <1>1 DEF IdleProducer, ProducerRecord, IdleConsumer, ConsumerRecord,
     IdleObserver, ObserverRecord, Link

LEMMA PushGiveUpStep ==
  ASSUME StackInv, NEW p \in Producer, PushGiveUp(p)
  PROVE  StackInv' /\ Quiet
<1> DEFINE e == prod[p].entry
<1>1. StackBounds /\ TypeOK /\ PushInv /\ prod[p].pc = "swap" /\ Holds(p)
  BY DEF StackInv, PushGiveUp, Holds
<1>2. e \in used /\ e \notin lost /\ e \in Pushing
  BY <1>1 DEF PushInv, Pushing, Holds
<1>3. /\ prod' = [prod EXCEPT ![p] = IdleProducer] /\ lost' = lost \cup {e}
      /\ UNCHANGED <<head, count, next, elem, used, cons, obs, popped, delivered>>
  BY DEF PushGiveUp, stackVars, entryVars
<1>4. OnlyPush(p) /\ prod'[p] = IdleProducer /\ prod'[p].pc = "idle" /\ ~Holds(p)'
  BY <1>1, <1>3, PushWrites, IdleRecords DEF Holds
<1>5. Pushing' = Pushing \ {e}
  BY <1>1, <1>4, PushingMoves
<1> HIDE DEF e
<1>6. Settled' = Settled
  BY <1>2, <1>3, <1>5 DEF Settled
<1>7. PushInv'
  <2>1. popped' \subseteq Settled' /\ lost' \subseteq used' /\ \A f \in used' : elem'[f] \in Producer
    BY <1>1, <1>2, <1>3, <1>6 DEF PushInv
  <2>2. ASSUME NEW q \in Producer, Holds(q)'
        PROVE  prod'[q].entry \in used' \ lost' /\ elem'[prod'[q].entry] = q
    <3>1. q # p
      BY <1>4, <2>2
    <3>2. prod'[q] = prod[q] /\ Holds(q)
      BY <1>4, <2>2, <3>1 DEF OnlyPush, Holds
    <3>3. prod[q].entry # e
      BY <1>1, <3>1, <3>2 DEF PushInv, e
    <3>4. QED
      BY <1>1, <1>3, <3>2, <3>3 DEF PushInv
  <2>3. QED
    BY <2>1, <2>2 DEF PushInv
<1>8. lost' \subseteq Entry /\ used' \subseteq Entry /\ elem' \in [Entry -> Pair]
  BY <1>1, <1>2, <1>3 DEF TypeOK
<1>9. QED
  BY <1>1, <1>3, <1>4, <1>6, <1>7, <1>8, PushMoves DEF Quiet

LEMMA PushCountStep ==
  ASSUME StackInv, NEW p \in Producer, PushCount(p)
  PROVE  StackInv' /\ Quiet
<1>1. StackBounds /\ TypeOK /\ prod[p].pc = "count" /\ ~Holds(p)
  BY DEF StackInv, PushCount, Holds
<1>2. /\ prod' = [prod EXCEPT ![p] = IdleProducer] /\ count' = (count + 1) % CountModulus
      /\ UNCHANGED <<head, next, elem, used, cons, obs, popped, lost, delivered>>
  BY DEF PushCount, entryVars, histVars
<1>3. OnlyPush(p) /\ prod'[p].pc = "idle" /\ ~Holds(p)'
  BY <1>1, <1>2, PushWrites, IdleRecords DEF Holds
<1>4. QED
  BY <1>1, <1>2, <1>3, PushStays

----------------------------------------------------------------------------
(* The entry is linked *)

LEMMA Consed ==
  ASSUME NEW S, NEW s \in Seq(S), NEW e \in S
  PROVE  /\ <<e>> \o s \in Seq(S) /\ Len(<<e>> \o s) = Len(s) + 1 /\ (<<e>> \o s)[1] = e
         /\ \A k \in 1 .. Len(s) : (<<e>> \o s)[k + 1] = s[k]
  OBVIOUS

LEMMA PushSwapEffect ==
  ASSUME StackInv, NEW p \in Producer, PushSwap(p)
  PROVE  \E e \in Entry :
           /\ e = prod[p].entry /\ elem[e] = p /\ e \in used \ lost /\ e \notin Settled
           /\ head' = e /\ next' = [next EXCEPT ![e] = head]
           /\ Settled' = Settled \cup {e}
           /\ UNCHANGED <<count, elem, used, popped, lost, delivered>>
           /\ OnlyPush(p) /\ prod[p].pc = "swap" /\ prod'[p].pc = "count"
<1> DEFINE e == prod[p].entry
           r == [prod[p] EXCEPT !.pc = "count"]
<1>1. /\ StackBounds /\ TypeOK /\ PushInv /\ prod[p] \in ProducerRecord
      /\ prod[p].pc = "swap" /\ Holds(p)
  BY DEF StackInv, PushSwap, Holds, TypeOK
<1>2. e \in used /\ e \notin lost /\ e \in Pushing /\ elem[e] = p /\ e \in Entry
  BY <1>1 DEF PushInv, Pushing, Holds, TypeOK
<1>3. /\ prod' = [prod EXCEPT ![p] = r] /\ head' = e /\ next' = [next EXCEPT ![e] = head]
      /\ UNCHANGED <<count, elem, used, cons, obs, popped, lost, delivered>>
  BY DEF PushSwap, histVars
<1>4. r \in ProducerRecord /\ r.pc = "count"
  BY <1>1 DEF ProducerRecord
<1> HIDE DEF r
<1>5. OnlyPush(p) /\ prod'[p].pc = "count" /\ ~Holds(p)'
  BY <1>1, <1>3, <1>4, PushWrites DEF Holds
<1>6. Pushing' = Pushing \ {e}
  BY <1>1, <1>5, PushingMoves
<1> HIDE DEF e
<1>7. Settled' = Settled \cup {e} /\ e \notin Settled
  BY <1>2, <1>3, <1>6 DEF Settled
<1>8. QED
  BY <1>1, <1>2, <1>3, <1>5, <1>7 DEF e

\* The list grows by the entry in front.
LEMMA PathGrows ==
  ASSUME StackBounds, TypeOK, PushInv, NEW s, PathInv(s), NEW e \in Entry, e \notin Settled,
         head' = e, next' = [next EXCEPT ![e] = head], Settled' = Settled \cup {e}, UNCHANGED popped
  PROVE  PathInv(<<e>> \o s)'
<1> DEFINE t == <<e>> \o s
<1>1. s \in Seq(Entry) /\ Len(s) \in Nat
  BY DEF PathInv
<1>2. /\ t \in Seq(Entry) /\ Len(t) = Len(s) + 1 /\ t[1] = e
      /\ \A k \in 1 .. Len(s) : t[k + 1] = s[k]
  BY <1>1, Consed
<1> HIDE DEF t
<1>3. \A k \in 1 .. Len(t) : k = 1 \/ (k - 1 \in 1 .. Len(s) /\ t[k] = s[k - 1])
  <2> SUFFICES ASSUME NEW k \in 1 .. Len(t), k # 1 PROVE k - 1 \in 1 .. Len(s) /\ t[k] = s[k - 1]
    OBVIOUS
  <2>1. k - 1 \in 1 .. Len(s) /\ (k - 1) + 1 = k
    BY <1>1, <1>2
  <2>2. QED
    BY <1>2, <2>1
<1>4. \A k \in 1 .. Len(s) : s[k] \in Settled \ popped /\ s[k] \in Entry /\ s[k] # e
  BY <1>1 DEF PathInv
<1>5. next'[e] = head /\ \A f \in Entry : f # e => next'[f] = next[f]
  BY StackTypes
<1>6. head' = At(t, 1)
  BY <1>1, <1>2 DEF At
<1>7. ASSUME NEW k \in 1 .. Len(t) PROVE next'[t[k]] = At(t, k + 1)
  <2>1. CASE k = 1
    <3>1. head = At(s, 1)
      BY DEF PathInv
    <3>2. At(s, 1) = At(t, 2)
      BY <1>1, <1>2 DEF At
    <3>3. QED
      BY <1>2, <1>5, <2>1, <3>1, <3>2
  <2>2. CASE k # 1
    <3>1. k - 1 \in 1 .. Len(s) /\ t[k] = s[k - 1]
      BY <1>3, <2>2
    <3>2. next'[t[k]] = next[s[k - 1]] /\ next[s[k - 1]] = At(s, (k - 1) + 1)
      BY <1>4, <1>5, <3>1 DEF PathInv
    <3>3. (k - 1) + 1 = k /\ k \in Nat
      OBVIOUS
    <3>4. At(s, k) = At(t, k + 1)
      BY <1>1, <1>2, <2>2 DEF At
    <3>5. QED
      BY <3>2, <3>3, <3>4
  <2>3. QED
    BY <2>1, <2>2
<1>8. \A j, k \in 1 .. Len(t) : t[j] = t[k] => j = k
  <2> SUFFICES ASSUME NEW j \in 1 .. Len(t), NEW k \in 1 .. Len(t), t[j] = t[k] PROVE j = k
    OBVIOUS
  <2>1. CASE j = 1 \/ k = 1
    BY <1>2, <1>3, <1>4, <2>1
  <2>2. CASE j # 1 /\ k # 1
    <3>1. j - 1 \in 1 .. Len(s) /\ k - 1 \in 1 .. Len(s) /\ s[j - 1] = s[k - 1]
      BY <1>3, <2>2
    <3>2. j - 1 = k - 1
      BY <3>1 DEF PathInv
    <3>3. QED
      BY <3>2
  <2>3. QED
    BY <2>1, <2>2
<1>9. {t[k] : k \in 1 .. Len(t)} = Settled' \ popped'
  <2>1. e \notin popped
    BY DEF PushInv
  <2>2. \A f \in Settled \ popped : \E k \in 1 .. Len(s) : f = s[k]
    BY DEF PathInv
  <2>3. ASSUME NEW f \in Settled' \ popped' PROVE f \in {t[k] : k \in 1 .. Len(t)}
    <3>1. CASE f = e
      <4>1. 1 \in 1 .. Len(t)
        BY <1>1, <1>2
      <4>2. QED
        BY <1>2, <3>1, <4>1
    <3>2. CASE f # e
      <4>1. PICK k \in 1 .. Len(s) : f = s[k]
        BY <2>2, <2>3, <3>2
      <4>2. k + 1 \in 1 .. Len(t) /\ t[k + 1] = f
        BY <1>1, <1>2, <4>1
      <4>3. QED
        BY <4>2
    <3>3. QED
      BY <3>1, <3>2
  <2>4. ASSUME NEW k \in 1 .. Len(t) PROVE t[k] \in Settled' \ popped'
    BY <1>2, <1>3, <1>4, <2>1
  <2>5. QED
    BY <2>3, <2>4
<1>10. QED
  BY <1>2, <1>6, <1>7, <1>8, <1>9 DEF PathInv, t

LEMMA PushSwapStep ==
  ASSUME StackInv, NEW p \in Producer, PushSwap(p)
  PROVE  StackInv'
<1>1. StackBounds /\ TypeOK /\ PushInv /\ TakeInv /\ WalkInv /\ VerifyNeverCorrupt
  BY DEF StackInv
<1>2. PICK e \in Entry :
           /\ e = prod[p].entry /\ elem[e] = p /\ e \in used \ lost /\ e \notin Settled
           /\ head' = e /\ next' = [next EXCEPT ![e] = head]
           /\ Settled' = Settled \cup {e}
           /\ UNCHANGED <<count, elem, used, popped, lost, delivered>>
           /\ OnlyPush(p) /\ prod[p].pc = "swap" /\ prod'[p].pc = "count"
  BY PushSwapEffect
<1>3. UNCHANGED <<cons, obs>>
  BY <1>2 DEF OnlyPush
<1>4. /\ next \in [Entry -> Link] /\ head \in Link /\ Settled \subseteq Entry
      /\ Null \notin Entry /\ Link = Entry \cup {Null}
  BY <1>1, StackTypes
<1>5. next'[e] = head /\ \A f \in Entry : f # e => next'[f] = next[f]
  BY <1>2, <1>4
<1>6. \A f \in Settled : f # e /\ next'[f] = next[f]
  BY <1>2, <1>4, <1>5
<1>7. PICK s : PathInv(s) /\ count = Due(s) % CountModulus
  BY DEF StackInv, ListInv
<1>8. ListInv'
  <2> DEFINE t == <<e>> \o s
             I == Cardinality(PushesUncounted)
             J == Cardinality(PushesUncounted)'
             P == Cardinality(PopsUncounted)
  <2>1. PathInv(t)'
    BY <1>1, <1>2, <1>7, PathGrows
  <2>2. Len(s) \in Nat /\ Len(t) = Len(s) + 1
    BY <1>7, Consed DEF PathInv
  <2>3. I \in Nat /\ P \in Nat /\ J = I + 1
    BY <1>1, <1>2, Uncounted, PushCounts
  <2>4. Due(s) = Len(s) - I + P /\ Due(t)' = Len(t) - J + P
    BY <1>1, <1>2, PushCounts DEF Due
  <2> HIDE DEF I, J, P, t
  <2>5. Due(t)' = Due(s)
    BY <2>2, <2>3, <2>4
  <2>6. count' = Due(t)' % CountModulus
    BY <1>2, <1>7, <2>5
  <2>7. QED
    BY <2>1, <2>6 DEF ListInv
<1>9. TakeInv'
  BY <1>1, <1>2, <1>3, <1>6, TakesKept
<1>10. PushInv'
  <2>1. popped' \subseteq Settled' /\ lost' \subseteq used' /\ \A f \in used' : elem'[f] \in Producer
    BY <1>1, <1>2 DEF PushInv
  <2>2. ASSUME NEW q \in Producer, Holds(q)'
        PROVE  prod'[q].entry \in used' \ lost' /\ elem'[prod'[q].entry] = q
    <3>1. q # p
      BY <1>2, <2>2 DEF Holds
    <3>2. prod'[q] = prod[q] /\ Holds(q)
      BY <1>2, <2>2, <3>1 DEF OnlyPush, Holds
    <3>3. QED
      BY <1>1, <1>2, <3>2 DEF PushInv
  <2>3. QED
    BY <2>1, <2>2 DEF PushInv
<1>11. WalkInv'
  <2>1. PICK d \in [Entry -> Nat] : Ranked(d) /\ \A o \in Observer : Walking(d, o)
    BY <1>1 DEF WalkInv
  <2>2. head \in Settled \cup {Null}
    BY <1>1, <1>7, HeadSettled
  <2>3. Height(d, head) \in Nat
    BY <1>4, <2>1 DEF Height
  <2>4. PICK g \in [Entry -> Nat] :
          g[e] = Height(d, head) + 1 /\ \A f \in Entry : f # e => g[f] = d[f]
    <3> DEFINE g == [d EXCEPT ![e] = Height(d, head) + 1]
    <3>1. /\ g \in [Entry -> Nat] /\ g[e] = Height(d, head) + 1
          /\ \A f \in Entry : f # e => g[f] = d[f]
      BY <2>1, <2>3
    <3>2. QED
      BY <3>1
  <2>5. \A f \in Settled \cup {Null} : Height(g, f) = Height(d, f)
    BY <1>2, <1>4, <2>4 DEF Height
  <2>6. ASSUME NEW f \in Settled'
        PROVE  next'[f] \in Settled' \cup {Null} /\ g[f] = Height(g, next'[f]) + 1
    <3>1. CASE f = e
      BY <1>2, <1>5, <2>2, <2>4, <2>5, <3>1
    <3>2. CASE f # e
      <4>1. f \in Settled /\ f \in Entry /\ next'[f] = next[f] /\ g[f] = d[f]
        BY <1>2, <1>4, <1>6, <2>4, <3>2
      <4>2. next[f] \in Settled \cup {Null} /\ d[f] = Height(d, next[f]) + 1
        BY <2>1, <4>1 DEF Ranked
      <4>3. QED
        BY <1>2, <2>5, <4>1, <4>2
    <3>3. QED
      BY <3>1, <3>2
  <2>7. Ranked(g)'
    BY <2>6 DEF Ranked, Height
  <2>8. ASSUME NEW o \in Observer PROVE Walking(g, o)'
    <3>1. Walking(d, o)
      BY <2>1
    <3>2. QED
      BY <1>2, <1>3, <2>5, <3>1 DEF Walking, Height
  <2>9. QED
    BY <2>4, <2>7, <2>8 DEF WalkInv
<1>12. TypeOK'
  <2>1. next' \in [Entry -> Link] /\ head' \in Link
    BY <1>2, <1>4
  <2>2. QED
    BY <1>1, <1>2, <1>3, <2>1 DEF TypeOK, OnlyPush
<1>13. StackBounds' /\ VerifyNeverCorrupt'
  BY <1>1, <1>3 DEF StackBounds,
     VerifyNeverCorrupt
<1>14. QED
  BY <1>8, <1>9, <1>10, <1>11, <1>12, <1>13 DEF StackInv

----------------------------------------------------------------------------
(* The steps of a pop *)

\* The private entries are those of pushes, which do not move.
LEMMA SettledStays ==
  ASSUME UNCHANGED <<used, prod, lost>>
  PROVE  Settled' = Settled
  BY DEF Settled, Pushing

LEMMA PopMoves ==
  ASSUME StackInv, NEW c \in Consumer, OnlyPop(c),
         UNCHANGED <<head, next, elem, used, popped, lost, delivered>>,
         cons'[c].pc \in {"next", "swap"} => cons'[c].head \in Settled,
         cons'[c].pc = "swap" => cons'[c].next = next[cons'[c].head],
         \/ count' = count /\ (cons[c].pc = "count" <=> cons'[c].pc = "count")
         \/ /\ count' = (count - 1) % CountModulus
            /\ cons[c].pc = "count" /\ cons'[c].pc # "count"
  PROVE  StackInv'
<1>1. StackBounds /\ TypeOK /\ WalkInv /\ TakeInv /\ PushInv
  BY DEF StackInv
<1>2. UNCHANGED <<prod, obs>> /\ Settled' = Settled
  BY SettledStays DEF OnlyPop
<1>3. WalkInv'
  BY <1>1, <1>2, WalksKept
<1>4. TakeInv'
  BY <1>1, <1>2 DEF TakeInv, OnlyPop
<1>5. PushInv'
  BY <1>1, <1>2 DEF PushInv, Holds
<1>6. PICK s : PathInv(s) /\ count = Due(s) % CountModulus
  BY DEF StackInv, ListInv
<1>7. PathInv(s)' /\ Len(s) \in Nat
  BY <1>2, <1>6, PathKept DEF PathInv
<1>8. count' = Due(s)' % CountModulus /\ count' \in 0 .. CountModulus - 1
  <2> DEFINE I == Cardinality(PushesUncounted)
             P == Cardinality(PopsUncounted)
             Q == Cardinality(PopsUncounted)'
  <2>1. I \in Nat /\ P \in Nat
    BY <1>1, Uncounted
  <2>2. Due(s) = Len(s) - I + P /\ Due(s)' = Len(s) - I + Q
    BY <1>1, PopCounts DEF Due
  <2>3. CASE count' = count /\ (cons[c].pc = "count" <=> cons'[c].pc = "count")
    <3>1. Q = P
      BY <1>1, <2>3, PopCounts
    <3>2. Due(s)' = Due(s)
      BY <2>2, <3>1
    <3>3. QED
      BY <1>1, <1>6, <2>3, <3>2 DEF TypeOK
  <2>4. CASE /\ count' = (count - 1) % CountModulus
             /\ cons[c].pc = "count" /\ cons'[c].pc # "count"
    <3>1. Q = P - 1
      BY <1>1, <2>4, PopCounts
    <3> HIDE DEF I, P, Q
    <3>2. Due(s) \in Int /\ Due(s)' = Due(s) + (-1)
      BY <1>7, <2>1, <2>2, <3>1
    <3>3. count - 1 = count + (-1) /\ -1 \in Int
      BY <1>1 DEF TypeOK
    <3>4. QED
      BY <1>1, <1>6, <2>4, <3>2, <3>3, CountMoves
  <2>5. QED
    BY <2>3, <2>4
<1>9. ListInv'
  BY <1>7, <1>8 DEF ListInv
<1>10. TypeOK'
  BY <1>1, <1>8 DEF TypeOK, OnlyPop
<1>11. StackBounds' /\ VerifyNeverCorrupt'
  BY <1>2 DEF StackInv, StackBounds,
     VerifyNeverCorrupt
<1>12. QED
  BY <1>3, <1>4, <1>5, <1>9, <1>10, <1>11 DEF StackInv

\* A round of the loop begins with the head just read, or the loop ends.
LEMMA PopLoopStep ==
  ASSUME StackInv, NEW c \in Consumer, NEW n \in 0 .. MaxRounds, NEW more \in BOOLEAN,
         PopLoop(c, head, n, more), cons[c].pc # "count",
         UNCHANGED <<head, count, next, elem, used, prod, obs, popped, lost, delivered>>
  PROVE  StackInv'
<1> DEFINE r == IF head # Null /\ more
                THEN [pc |-> "next", head |-> head, next |-> Null, rounds |-> n]
                ELSE IdleConsumer
<1>1. StackBounds /\ TypeOK /\ head \in Link /\ Null \in Link
  BY DEF StackInv, TypeOK, Link
<1>2. cons' = [cons EXCEPT ![c] = r]
  BY DEF PopLoop
<1>3. CASE head # Null /\ more
  <2>1. /\ r = [pc |-> "next", head |-> head, next |-> Null, rounds |-> n]
        /\ r \in ConsumerRecord /\ r.pc = "next" /\ r.head = head
    BY <1>1, <1>3 DEF ConsumerRecord
  <2> HIDE DEF r
  <2>2. OnlyPop(c) /\ cons'[c] = r
    BY <1>1, <1>2, <2>1, PopWrites
  <2>3. PICK s : PathInv(s)
    BY DEF StackInv, ListInv
  <2>4. head \in Settled
    BY <1>1, <1>3, <2>3, HeadSettled
  <2>5. QED
    BY <2>1, <2>2, <2>4, PopMoves
<1>4. CASE ~(head # Null /\ more)
  <2>1. r = IdleConsumer
    BY <1>4
  <2>2. r \in ConsumerRecord /\ r.pc = "idle"
    BY <1>1, <2>1, IdleRecords
  <2> HIDE DEF r
  <2>3. OnlyPop(c) /\ cons'[c] = r
    BY <1>1, <1>2, <2>2, PopWrites
  <2>4. QED
    BY <2>2, <2>3, PopMoves
<1>5. QED
  BY <1>3, <1>4

LEMMA PopHeadStep ==
  ASSUME StackInv, NEW c \in Consumer, PopHead(c)
  PROVE  StackInv'
<1>1. 0 \in 0 .. MaxRounds
  BY StackTypes DEF StackInv
<1>2. QED
  BY <1>1, PopLoopStep DEF PopHead, stackVars, entryVars, histVars

LEMMA PopRetryStep ==
  ASSUME StackInv, NEW c \in Consumer, PopRetry(c)
  PROVE  StackInv'
<1> DEFINE n == Round(c, cons[c].rounds)
           more == CanLoop(c, cons[c].rounds)
<1>1. StackBounds /\ TypeOK /\ cons[c] \in ConsumerRecord
  BY DEF StackInv, TypeOK
<1>2. cons[c].rounds \in 0 .. MaxRounds /\ MaxRounds \in Nat /\ MaxRounds >= 1
  BY <1>1, StackTypes DEF ConsumerRecord
<1>3. /\ PopLoop(c, head, n, more) /\ cons[c].pc = "swap"
      /\ UNCHANGED <<head, count, next, elem, used, prod, obs, popped, lost, delivered>>
  BY DEF PopRetry, stackVars, entryVars, histVars
<1>4. more \in BOOLEAN /\ (more => n \in 0 .. MaxRounds)
  BY <1>2 DEF CanLoop, Round
<1> HIDE DEF n, more
<1>5. CASE more
  BY <1>3, <1>4, <1>5, PopLoopStep
<1>6. CASE ~more
  <2>1. PopLoop(c, head, 0, more)
    BY <1>3, <1>6 DEF PopLoop
  <2>2. 0 \in 0 .. MaxRounds
    BY <1>2
  <2>3. QED
    BY <1>3, <1>4, <2>1, <2>2, PopLoopStep
<1>7. QED
  BY <1>5, <1>6

LEMMA PopNextStep ==
  ASSUME StackInv, NEW c \in Consumer, PopNext(c)
  PROVE  StackInv'
<1> DEFINE n == next[cons[c].head]
           r == [cons[c] EXCEPT !.pc = "swap", !.next = n]
<1>1. StackBounds /\ TypeOK /\ cons[c] \in ConsumerRecord /\ cons[c].pc = "next"
  BY DEF StackInv, TypeOK, PopNext
<1>2. cons[c].head \in Settled /\ n \in Link
  BY <1>1, StackTypes DEF StackInv, TakeInv
<1>3. /\ cons' = [cons EXCEPT ![c] = r]
      /\ UNCHANGED <<head, count, next, elem, used, prod, obs, popped, lost, delivered>>
  BY DEF PopNext, stackVars, entryVars, histVars
<1>4. r \in ConsumerRecord /\ r.pc = "swap" /\ r.next = n /\ r.head = cons[c].head
  BY <1>1, <1>2 DEF ConsumerRecord
<1> HIDE DEF r
<1>5. OnlyPop(c) /\ cons'[c] = r
  BY <1>1, <1>3, <1>4, PopWrites
<1>6. QED
  BY <1>1, <1>2, <1>3, <1>4, <1>5, PopMoves

LEMMA PopCountStep ==
  ASSUME StackInv, NEW c \in Consumer, PopCount(c)
  PROVE  StackInv'
<1>1. StackBounds /\ TypeOK /\ cons[c].pc = "count"
  BY DEF StackInv, PopCount
<1>2. /\ cons' = [cons EXCEPT ![c] = IdleConsumer] /\ count' = (count - 1) % CountModulus
      /\ UNCHANGED <<head, next, elem, used, prod, obs, popped, lost, delivered>>
  BY DEF PopCount, entryVars, histVars
<1>3. OnlyPop(c) /\ cons'[c].pc = "idle"
  BY <1>1, <1>2, PopWrites, IdleRecords
<1>4. QED
  BY <1>1, <1>2, <1>3, PopMoves

----------------------------------------------------------------------------
(* The head moves to the next entry *)

LEMMA Rest ==
  ASSUME NEW S, NEW s \in Seq(S), s # <<>>
  PROVE  /\ Tail(s) \in Seq(S) /\ Len(Tail(s)) = Len(s) - 1 /\ Len(s) \in Nat /\ Len(s) >= 1
         /\ \A k \in 1 .. Len(s) - 1 : Tail(s)[k] = s[k + 1]
  OBVIOUS

LEMMA PopSwapEffect ==
  ASSUME StackInv, NEW c \in Consumer, PopSwap(c), NEW s, PathInv(s)
  PROVE  /\ s # <<>> /\ head = s[1] /\ head' = next[head] /\ head \in Settled \ popped
         /\ popped' = popped \cup {head} /\ delivered' = Append(delivered, elem[head])
         /\ UNCHANGED <<count, next, elem, used, prod, obs, lost>>
         /\ OnlyPop(c) /\ cons[c].pc = "swap" /\ cons'[c].pc = "count" /\ Settled' = Settled
<1> DEFINE r == [cons[c] EXCEPT !.pc = "count"]
<1>1. /\ StackBounds /\ TypeOK /\ cons[c] \in ConsumerRecord /\ cons[c].pc = "swap"
      /\ head = cons[c].head
  BY DEF StackInv, TypeOK, PopSwap
<1>2. head \in Settled /\ cons[c].next = next[head]
  BY <1>1 DEF StackInv, TakeInv
<1>3. head # Null
  BY <1>1, <1>2, StackTypes
<1>4. s # <<>> /\ head = s[1] /\ head \in Settled \ popped
  BY <1>1, <1>3, HeadSettled
<1>5. /\ cons' = [cons EXCEPT ![c] = r] /\ head' = next[head]
      /\ popped' = popped \cup {head} /\ delivered' = Append(delivered, elem[head])
      /\ UNCHANGED <<count, next, elem, used, prod, obs, lost>>
  BY <1>1, <1>2 DEF PopSwap, entryVars
<1>6. r \in ConsumerRecord /\ r.pc = "count"
  BY <1>1 DEF ConsumerRecord
<1> HIDE DEF r
<1>7. OnlyPop(c) /\ cons'[c].pc = "count"
  BY <1>1, <1>5, <1>6, PopWrites
<1>8. QED
  BY <1>1, <1>4, <1>5, <1>7, SettledStays

\* The list loses its first entry.
LEMMA PathShrinks ==
  ASSUME NEW s, PathInv(s), s # <<>>, head = s[1], head' = next[head],
         popped' = popped \cup {head}, UNCHANGED next, Settled' = Settled
  PROVE  PathInv(Tail(s))'
<1> DEFINE t == Tail(s)
<1>1. /\ s \in Seq(Entry) /\ t \in Seq(Entry) /\ Len(t) = Len(s) - 1 /\ Len(s) \in Nat
      /\ Len(s) >= 1 /\ \A k \in 1 .. Len(t) : t[k] = s[k + 1]
  BY Rest DEF PathInv
<1> HIDE DEF t
<1>2. \A k \in Nat \ {0} : At(t, k) = At(s, k + 1)
  BY <1>1 DEF At
<1>3. \A k \in 1 .. Len(t) : k \in Nat \ {0} /\ k + 1 \in 1 .. Len(s) /\ k + 1 # 1 /\ k + 1 \in Nat \ {0}
  BY <1>1
<1>4. 1 \in 1 .. Len(s) /\ 1 \in Nat \ {0}
  BY <1>1
<1>5. head' = At(t, 1)
  BY <1>2, <1>4 DEF PathInv
<1>6. \A k \in 1 .. Len(t) : next'[t[k]] = At(t, k + 1)
  BY <1>1, <1>2, <1>3 DEF PathInv
<1>7. \A j, k \in 1 .. Len(t) : t[j] = t[k] => j = k
  <2> SUFFICES ASSUME NEW j \in 1 .. Len(t), NEW k \in 1 .. Len(t), t[j] = t[k] PROVE j = k
    OBVIOUS
  <2>1. j + 1 = k + 1
    BY <1>1, <1>3 DEF PathInv
  <2>2. QED
    BY <2>1
<1>8. {t[k] : k \in 1 .. Len(t)} = Settled' \ popped'
  <2>1. ASSUME NEW k \in 1 .. Len(t) PROVE t[k] \in Settled' \ popped'
    <3>1. t[k] = s[k + 1] /\ s[k + 1] # s[1]
      BY <1>1, <1>3, <1>4 DEF PathInv
    <3>2. s[k + 1] \in Settled \ popped
      BY <1>3 DEF PathInv
    <3>3. QED
      BY <3>1, <3>2
  <2>2. ASSUME NEW f \in Settled' \ popped' PROVE f \in {t[k] : k \in 1 .. Len(t)}
    <3>1. PICK j \in 1 .. Len(s) : f = s[j]
      BY <2>2 DEF PathInv
    <3>2. j # 1
      BY <2>2, <3>1
    <3>3. j - 1 \in 1 .. Len(t) /\ (j - 1) + 1 = j
      BY <1>1, <3>2
    <3>4. t[j - 1] = f
      BY <1>1, <3>1, <3>3
    <3>5. QED
      BY <3>3, <3>4
  <2>3. QED
    BY <2>1, <2>2
<1>9. QED
  BY <1>1, <1>5, <1>6, <1>7, <1>8 DEF PathInv, t

LEMMA PopSwapStep ==
  ASSUME StackInv, NEW c \in Consumer, PopSwap(c)
  PROVE  StackInv'
<1>1. StackBounds /\ TypeOK /\ PushInv /\ TakeInv /\ WalkInv /\ VerifyNeverCorrupt
  BY DEF StackInv
<1>2. PICK s : PathInv(s) /\ count = Due(s) % CountModulus
  BY DEF StackInv, ListInv
<1>3. /\ s # <<>> /\ head = s[1] /\ head' = next[head] /\ head \in Settled \ popped
      /\ popped' = popped \cup {head} /\ delivered' = Append(delivered, elem[head])
      /\ UNCHANGED <<count, next, elem, used, prod, obs, lost>>
      /\ OnlyPop(c) /\ cons[c].pc = "swap" /\ cons'[c].pc = "count" /\ Settled' = Settled
  BY <1>2, PopSwapEffect
<1>4. ListInv'
  <2> DEFINE t == Tail(s)
             I == Cardinality(PushesUncounted)
             P == Cardinality(PopsUncounted)
             Q == Cardinality(PopsUncounted)'
  <2>1. PathInv(t)'
    BY <1>2, <1>3, PathShrinks
  <2>2. Len(s) \in Nat /\ Len(t) = Len(s) - 1
    BY <1>2, <1>3, Rest DEF PathInv
  <2>3. I \in Nat /\ P \in Nat /\ Q = P + 1
    BY <1>1, <1>3, Uncounted, PopCounts
  <2>4. Due(s) = Len(s) - I + P /\ Due(t)' = Len(t) - I + Q
    BY <1>1, <1>3, PopCounts DEF Due
  <2> HIDE DEF I, P, Q, t
  <2>5. Due(t)' = Due(s)
    BY <2>2, <2>3, <2>4
  <2>6. count' = Due(t)' % CountModulus
    BY <1>2, <1>3, <2>5
  <2>7. QED
    BY <2>1, <2>6 DEF ListInv
<1>5. TakeInv'
  BY <1>1, <1>3 DEF TakeInv, OnlyPop
<1>6. WalkInv'
  BY <1>1, <1>3, WalksKept
<1>7. PushInv'
  BY <1>1, <1>3 DEF PushInv, Holds
<1>8. TypeOK'
  <2>1. head \in Entry /\ next[head] \in Link /\ elem[head] \in Pair
    BY <1>1, <1>3, StackTypes DEF TypeOK
  <2>2. delivered' \in Seq(Pair)
    BY <1>1, <1>3, <2>1 DEF TypeOK
  <2>3. QED
    BY <1>1, <1>3, <2>1, <2>2 DEF TypeOK, OnlyPop
<1>9. StackBounds' /\ VerifyNeverCorrupt'
  BY <1>1, <1>3 DEF StackBounds,
     VerifyNeverCorrupt
<1>10. QED
  BY <1>4, <1>5, <1>6, <1>7, <1>8, <1>9 DEF StackInv

----------------------------------------------------------------------------
(* The verification *)

LEMMA ObserverMoves ==
  ASSUME StackInv, NEW o \in Observer, NEW r \in ObserverRecord, obs' = [obs EXCEPT ![o] = r],
         UNCHANGED <<head, count, next, elem, used, prod, cons, popped, lost, delivered>>,
         r.pc # "corrupt", NEW d \in [Entry -> Nat], Ranked(d), \A v \in Observer : Walking(d, v),
         r.pc = "walk" =>
           /\ r.slow \in Settled \cup {Null} /\ r.fast \in Settled \cup {Null}
           /\ Height(d, r.fast) <= Height(d, r.slow)
  PROVE  StackInv'
<1>1. StackBounds /\ TypeOK /\ PushInv /\ TakeInv /\ VerifyNeverCorrupt
  BY DEF StackInv
<1>2. obs' \in [Observer -> ObserverRecord] /\ obs'[o] = r /\ \A v \in Observer : v # o => obs'[v] = obs[v]
  <2> HIDE DEF ObserverRecord
  <2>1. obs \in [Observer -> ObserverRecord]
    BY <1>1 DEF TypeOK
  <2>2. QED
    BY <2>1
<1>3. Settled' = Settled
  BY SettledStays
<1>4. TakeInv' /\ PushInv'
  BY <1>1, <1>3 DEF TakeInv, PushInv, Holds
<1>5. ListInv'
  <2>1. PICK s : PathInv(s) /\ count = Due(s) % CountModulus
    BY DEF StackInv, ListInv
  <2>2. PathInv(s)' /\ Due(s)' = Due(s)
    BY <1>3, <2>1, PathKept DEF Due, PushesUncounted, PopsUncounted
  <2>3. QED
    BY <2>1, <2>2 DEF ListInv
<1>6. WalkInv'
  <2>1. Ranked(d)'
    BY <1>3 DEF Ranked, Height
  <2>2. ASSUME NEW v \in Observer PROVE Walking(d, v)'
    <3>1. CASE v = o
      BY <1>2, <1>3, <3>1 DEF Walking, Height
    <3>2. CASE v # o
      BY <1>2, <1>3, <3>2 DEF Walking, Height
    <3>3. QED
      BY <3>1, <3>2
  <2>3. QED
    BY <2>1, <2>2 DEF WalkInv
<1>7. VerifyNeverCorrupt'
  BY <1>1, <1>2 DEF VerifyNeverCorrupt
<1>8. TypeOK'
  BY <1>1, <1>2 DEF TypeOK
<1>9. StackBounds'
  BY <1>1 DEF StackBounds
<1>10. QED
  BY <1>4, <1>5, <1>6, <1>7, <1>8, <1>9 DEF StackInv

LEMMA VerifyBeginStep ==
  ASSUME StackInv, NEW o \in Observer, VerifyBegin(o)
  PROVE  StackInv'
<1> DEFINE r == [pc |-> "walk", slow |-> head, fast |-> head]
<1>1. StackBounds /\ TypeOK /\ head \in Link
  BY DEF StackInv, TypeOK
<1>2. r \in ObserverRecord /\ r.pc = "walk" /\ r.slow = head /\ r.fast = head
  BY <1>1 DEF ObserverRecord
<1>3. /\ obs' = [obs EXCEPT ![o] = r]
      /\ UNCHANGED <<head, count, next, elem, used, prod, cons, popped, lost, delivered>>
  BY DEF VerifyBegin, stackVars, entryVars, histVars
<1> HIDE DEF r
<1>4. PICK s : PathInv(s)
  BY DEF StackInv, ListInv
<1>5. head \in Settled \cup {Null}
  BY <1>1, <1>4, HeadSettled
<1>6. PICK d \in [Entry -> Nat] : Ranked(d) /\ \A v \in Observer : Walking(d, v)
  BY DEF StackInv, WalkInv
<1>7. Height(d, head) \in Nat
  BY <1>1, <1>6, StackTypes DEF Height
<1>8. Height(d, r.fast) <= Height(d, r.slow)
  BY <1>2, <1>7
<1>9. QED
  BY <1>2, <1>3, <1>5, <1>6, <1>8, ObserverMoves

\* fast goes down by two while slow goes down by one, so they cannot meet above
\* the end.
LEMMA VerifyRoundStep ==
  ASSUME StackInv, NEW o \in Observer, VerifyRound(o)
  PROVE  StackInv'
<1> DEFINE fast == obs[o].fast
           slow == next[obs[o].slow]
           after == next[next[fast]]
           w == [pc |-> IF slow # Null /\ slow = after THEN "corrupt" ELSE "walk",
                 slow |-> slow, fast |-> after]
           r == IF fast = Null \/ next[fast] = Null THEN IdleObserver ELSE w
<1>1. StackBounds /\ TypeOK /\ obs[o].pc = "walk"
  BY DEF StackInv, VerifyRound
<1>2. /\ obs' = [obs EXCEPT ![o] = r]
      /\ UNCHANGED <<head, count, next, elem, used, prod, cons, popped, lost, delivered>>
  BY DEF VerifyRound, stackVars, entryVars, histVars
<1>3. PICK d \in [Entry -> Nat] : Ranked(d) /\ \A v \in Observer : Walking(d, v)
  BY DEF StackInv, WalkInv
<1>4. /\ obs[o].slow \in Settled \cup {Null} /\ fast \in Settled \cup {Null}
      /\ Height(d, fast) <= Height(d, obs[o].slow)
  BY <1>1, <1>3 DEF Walking
<1>5. CASE fast = Null \/ next[fast] = Null
  <2>1. r = IdleObserver
    BY <1>5
  <2>2. r \in ObserverRecord /\ r.pc = "idle"
    BY <1>1, <2>1, IdleRecords
  <2> HIDE DEF r
  <2>3. QED
    BY <1>2, <1>3, <2>2, ObserverMoves
<1>6. CASE ~(fast = Null \/ next[fast] = Null)
  <2>1. \A e \in Settled : /\ next[e] \in Settled \cup {Null} /\ d[e] = Height(d, next[e]) + 1
                            /\ d[e] \in Nat /\ e # Null /\ Height(d, e) = d[e]
    BY <1>1, <1>3, StackTypes DEF Ranked, Height
  <2>2. Height(d, Null) = 0
    BY DEF Height
  <2>3. \A e \in Settled \cup {Null} : Height(d, e) \in Nat /\ (Height(d, e) = 0 <=> e = Null)
    <3>1. ASSUME NEW e \in Settled PROVE Height(d, e) \in Nat /\ Height(d, e) # 0
      <4>1. next[e] \in Settled \cup {Null} /\ Height(d, next[e]) \in Nat
        BY <2>1, <2>2
      <4>2. QED
        BY <2>1, <4>1
    <3>2. QED
      BY <2>1, <2>2, <3>1
  <2>4. fast \in Settled /\ next[fast] \in Settled /\ after \in Settled \cup {Null}
    BY <1>4, <1>6, <2>1
  <2>5. Height(d, fast) = Height(d, after) + 2 /\ Height(d, after) \in Nat
    BY <2>1, <2>3, <2>4
  <2>6. obs[o].slow \in Settled
    BY <1>4, <2>2, <2>3, <2>5
  <2>7. slow \in Settled \cup {Null} /\ Height(d, obs[o].slow) = Height(d, slow) + 1
    BY <2>1, <2>6
  <2>8. Height(d, slow) \in Nat
    BY <2>3, <2>7
  <2>9. Height(d, after) < Height(d, slow) /\ Height(d, after) <= Height(d, slow)
    BY <1>4, <2>5, <2>7, <2>8
  <2>10. slow # after
    BY <2>5, <2>8, <2>9
  <2>11. slow \in Link /\ after \in Link
    BY <1>1, <2>4, <2>7, StackTypes
  <2>12. r = w
    BY <1>6
  <2>13. w \in ObserverRecord /\ w.pc = "walk" /\ w.slow = slow /\ w.fast = after
    BY <2>10, <2>11 DEF ObserverRecord
  <2> HIDE DEF r, w, slow, after, fast
  <2>14. QED
    BY <1>2, <1>3, <2>4, <2>7, <2>9, <2>12, <2>13, ObserverMoves
<1>7. QED
  BY <1>5, <1>6
----------------------------------------------------------------------------
(* The invariant holds *)

LEMMA StackInit == Init => StackInv
<1> SUFFICES ASSUME StackBounds, Init PROVE StackInv
  BY StackBoundsHold
<1>1. /\ head = Null /\ count = 0 /\ used = {} /\ popped = {} /\ lost = {} /\ delivered = <<>>
      /\ next = [e \in Entry |-> Null] /\ elem = [e \in Entry |-> NoItem]
      /\ prod = [p \in Producer |-> IdleProducer] /\ cons = [c \in Consumer |-> IdleConsumer]
      /\ obs = [o \in Observer |-> IdleObserver]
  BY DEF Init
<1>2. CountModulus \in Nat /\ CountModulus > 0 /\ MaxEntries \in Nat
  BY DEF StackBounds
<1>3. /\ \A p \in Producer : prod[p].pc = "idle"
      /\ \A c \in Consumer : cons[c].pc = "idle"
      /\ \A o \in Observer : obs[o].pc = "idle"
  BY <1>1, IdleRecords
<1>4. TypeOK
  <2>1. /\ prod \in [Producer -> ProducerRecord] /\ cons \in [Consumer -> ConsumerRecord]
        /\ obs \in [Observer -> ObserverRecord]
    BY <1>1, IdleRecords
  <2>2. /\ next \in [Entry -> Link] /\ elem \in [Entry -> Pair] /\ head \in Link
        /\ delivered \in Seq(Pair)
    BY <1>1 DEF Link, Pair
  <2>3. count \in 0 .. CountModulus - 1
    BY <1>1, <1>2
  <2>4. QED
    BY <1>1, <2>1, <2>2, <2>3 DEF TypeOK
<1>5. Settled = {}
  BY <1>1 DEF Settled
<1>6. PushInv /\ TakeInv
  BY <1>1, <1>3, <1>5 DEF PushInv, TakeInv, Holds
<1>7. ListInv
  <2> DEFINE s == <<>>
  <2>1. s \in Seq(Entry) /\ Len(s) = 0
    OBVIOUS
  <2> HIDE DEF s
  <2>2. PathInv(s)
    BY <1>1, <1>5, <2>1 DEF PathInv, At
  <2>3. PushesUncounted = {} /\ PopsUncounted = {}
    BY <1>3 DEF PushesUncounted, PopsUncounted
  <2>4. Due(s) = 0
    BY <2>1, <2>3, FS_EmptySet DEF Due
  <2>5. 0 % CountModulus = 0
    BY <1>2, FirstLap
  <2>6. QED
    BY <1>1, <2>2, <2>4, <2>5 DEF ListInv
<1>8. WalkInv
  <2>1. [e \in Entry |-> 0] \in [Entry -> Nat]
    OBVIOUS
  <2>2. \A d : Ranked(d) /\ \A o \in Observer : Walking(d, o)
    BY <1>3, <1>5 DEF Ranked, Walking
  <2>3. QED
    BY <2>1, <2>2 DEF WalkInv
<1>9. VerifyNeverCorrupt
  BY <1>3 DEF VerifyNeverCorrupt
<1>10. QED
  BY <1>4, <1>6, <1>7, <1>8, <1>9 DEF StackInv

LEMMA StackNext == StackInv /\ [Next]_vars => StackInv'
<1> SUFFICES ASSUME StackInv, [Next]_vars PROVE StackInv'
  OBVIOUS
<1>1. ASSUME NEW p \in Producer, ds_ck_stack_upmc_insert(p) PROVE StackInv'
  BY <1>1, InsertBeginStep, PushHeadStep, PushSwapStep, PushRetryStep, PushGiveUpStep, PushCountStep
     DEF ds_ck_stack_upmc_insert, PushStep
<1>2. ASSUME NEW c \in Consumer, ds_ck_stack_upmc_pop(c) PROVE StackInv'
  BY <1>2, PopHeadStep, PopNextStep, PopSwapStep, PopRetryStep, PopCountStep
     DEF ds_ck_stack_upmc_pop, ds_ck_stack_upmc_pop_upmc
<1>3. ASSUME NEW o \in Observer, ds_ck_stack_upmc_verify(o) PROVE StackInv'
  BY <1>3, VerifyBeginStep, VerifyRoundStep DEF ds_ck_stack_upmc_verify
<1>4. CASE UNCHANGED vars
  <2>1. UNCHANGED <<head, count, next, elem, used, prod, cons, obs, popped, lost, delivered>>
    BY <1>4 DEF vars, stackVars, entryVars, histVars
  <2>2. Settled' = Settled
    BY <2>1, SettledStays
  <2>3. PICK s : PathInv(s) /\ count = Due(s) % CountModulus
    BY DEF StackInv, ListInv
  <2>4. PathInv(s)' /\ Due(s)' = Due(s)
    BY <2>1, <2>2, <2>3, PathKept DEF Due, PushesUncounted, PopsUncounted
  <2>5. ListInv'
    BY <2>1, <2>3, <2>4 DEF ListInv
  <2>6. StackBounds' /\ TypeOK' /\ PushInv' /\ VerifyNeverCorrupt'
    BY <2>1, <2>2 DEF StackInv, StackBounds, TypeOK, PushInv, Holds, VerifyNeverCorrupt
  <2>7. TakeInv' /\ WalkInv'
    BY <2>1, <2>2, TakesKept, WalksKept DEF StackInv
  <2>8. QED
    BY <2>5, <2>6, <2>7 DEF StackInv
<1>5. QED
  BY <1>1, <1>2, <1>3, <1>4 DEF Next

\* Every reachable state of the CK stack satisfies the invariant.
THEOREM StackInvHolds == Spec => []StackInv
<1>1. QED
  BY StackInit, StackNext, PTL DEF Spec

\* A verification beside pushes and pops never reports DS_ERROR_CORRUPT, however far
\* its two cursors fall behind a head that moves.
THEOREM StackVerifySound == Spec => []VerifyNeverCorrupt
<1>1. StackInv => VerifyNeverCorrupt
  BY DEF StackInv
<1>2. QED
  BY <1>1, StackInvHolds, PTL

----------------------------------------------------------------------------
(* The search from the head meets exactly the path *)

\* No more entries are linked than there are.
LEMMA PathFits ==
  ASSUME StackBounds, NEW s, PathInv(s)
  PROVE  Len(s) \in Nat /\ Len(s) <= MaxEntries
<1>1. s \in Seq(Entry) /\ Len(s) \in Nat /\ MaxEntries \in Nat
  BY DEF PathInv, StackBounds
<1>2. s \in [1 .. Len(s) -> Entry] /\ \A j, k \in 1 .. Len(s) : s[j] = s[k] => j = k
  BY <1>1 DEF PathInv
<1>3. s \in Injection(1 .. Len(s), Entry)
  BY <1>2 DEF Injection, IsInjective
<1>4. \A n \in Nat : IsFiniteSet(1 .. n) /\ Cardinality(1 .. n) = n
  <2> SUFFICES ASSUME NEW n \in Nat PROVE IsFiniteSet(1 .. n) /\ Cardinality(1 .. n) = n
    OBVIOUS
  <2>1. IsFiniteSet(1 .. n) /\ Cardinality(1 .. n) = IF 1 > n THEN 0 ELSE n - 1 + 1
    BY FS_Interval
  <2>2. QED
    BY <2>1
<1>5. IsFiniteSet(Entry) /\ Cardinality(Entry) = MaxEntries /\ Cardinality(1 .. Len(s)) = Len(s)
  BY <1>1, <1>4 DEF Entry
<1>6. QED
  BY <1>1, <1>3, <1>5, FS_Injection

\* The links that the search follows.
LEMMA PathNext ==
  ASSUME StackBounds, TypeOK, NEW s, PathInv(s), NEW k \in Nat
  PROVE  At(s, k + 1) = IF k = 0 THEN head
                        ELSE IF At(s, k) = Null THEN Null ELSE next[At(s, k)]
<1>1. s \in Seq(Entry) /\ Len(s) \in Nat /\ \A i \in 1 .. Len(s) : s[i] # Null
  BY StackTypes DEF PathInv
<1>2. CASE k = 0
  BY <1>2 DEF PathInv
<1>3. CASE k # 0 /\ k <= Len(s)
  <2>1. k \in 1 .. Len(s)
    BY <1>1, <1>3
  <2>2. At(s, k) = s[k] /\ s[k] # Null /\ next[s[k]] = At(s, k + 1)
    BY <1>1, <1>3, <2>1 DEF PathInv, At
  <2>3. QED
    BY <1>3, <2>2
<1>4. CASE k # 0 /\ ~(k <= Len(s))
  BY <1>1, <1>4 DEF At
<1>5. QED
  BY <1>2, <1>3, <1>4

LEMMA HopOnPath ==
  ASSUME StackBounds, TypeOK, NEW s, PathInv(s), NEW k \in 0 .. MaxEntries
  PROVE  Hop[k] = At(s, k + 1)
<1> DEFINE Steps == 0 .. MaxEntries
           f == [i \in Steps |-> At(s, i + 1)]
<1>1. MaxEntries \in Nat /\ \A i \in Steps : i \in Nat /\ (i # 0 => i - 1 \in Steps /\ (i - 1) + 1 = i)
  BY StackTypes
<1>2. \A i \in Steps : At(s, i + 1) = IF i = 0 THEN head
                                      ELSE IF At(s, i) = Null THEN Null ELSE next[At(s, i)]
  BY <1>1, PathNext
<1>3. f = [i \in Steps |-> IF i = 0 THEN head
                           ELSE IF f[i - 1] = Null THEN Null ELSE next[f[i - 1]]]
  <2>1. \A i \in Steps : At(s, i + 1) = IF i = 0 THEN head
                                        ELSE IF f[i - 1] = Null THEN Null ELSE next[f[i - 1]]
    <3> SUFFICES ASSUME NEW i \in Steps
                 PROVE  At(s, i + 1) = IF i = 0 THEN head
                                       ELSE IF f[i - 1] = Null THEN Null ELSE next[f[i - 1]]
      OBVIOUS
    <3>1. i # 0 => f[i - 1] = At(s, i)
      BY <1>1
    <3>2. QED
      BY <1>2, <3>1
  <2>2. QED
    BY <2>1
<1> HIDE DEF f
<1>4. Hop = [i \in Steps |-> IF i = 0 THEN head
                                ELSE IF Hop[i - 1] = Null THEN Null ELSE next[Hop[i - 1]]]
  BY <1>3 DEF Hop
<1> DEFINE Wrong == {i \in Steps : Hop[i] # At(s, i + 1)}
<1> HIDE DEF Steps
<1>5. SUFFICES ASSUME Wrong # {} PROVE FALSE
  <2>1. k \in Steps
    BY DEF Steps
  <2>2. QED
    BY <2>1
<1>6. Wrong \in SUBSET Nat
  BY <1>1
<1>7. PICK m \in Wrong : \A i \in Wrong : m <= i
  BY <1>5, <1>6, LeastNat
<1>8. m # 0 => Hop[m - 1] = At(s, m)
  <2> SUFFICES ASSUME m # 0 PROVE Hop[m - 1] = At(s, m)
    OBVIOUS
  <2>1. m \in Nat /\ m - 1 \in Steps /\ (m - 1) + 1 = m /\ m - 1 \notin Wrong
    BY <1>1, <1>7
  <2>2. QED
    BY <2>1
<1>9. Hop[m] = IF m = 0 THEN head ELSE IF Hop[m - 1] = Null THEN Null ELSE next[Hop[m - 1]]
  BY <1>4
<1>10. QED
  BY <1>2, <1>8, <1>9

LEMMA PathRead ==
  ASSUME StackBounds, TypeOK, NEW s, PathInv(s)
  PROVE  /\ Linked = Settled \ popped /\ Depth = Len(s)
         /\ \A k \in 1 .. Len(s) : Hop[k - 1] = s[k]
<1>1. /\ s \in Seq(Entry) /\ Len(s) \in Nat /\ Len(s) <= MaxEntries /\ MaxEntries \in Nat
      /\ \A k \in 1 .. Len(s) : s[k] # Null /\ s[k] \in Entry
  BY StackTypes, PathFits DEF PathInv
<1>2. ASSUME NEW k \in 1 .. Len(s) PROVE Hop[k - 1] = s[k]
  <2>1. k - 1 \in 0 .. MaxEntries /\ (k - 1) + 1 = k /\ k <= Len(s)
    BY <1>1
  <2>2. Hop[k - 1] = At(s, (k - 1) + 1)
    BY <2>1, HopOnPath
  <2>3. QED
    BY <2>1, <2>2 DEF At
<1>3. Linked = Settled \ popped
  <2>1. ASSUME NEW e \in Linked PROVE e \in Settled \ popped
    <3>1. PICK k \in 0 .. MaxEntries : e = Hop[k] /\ e # Null
      BY <2>1 DEF Linked
    <3>2. e = At(s, k + 1)
      BY <3>1, HopOnPath
    <3>3. k + 1 \in 1 .. Len(s) /\ e = s[k + 1]
      BY <1>1, <3>1, <3>2 DEF At
    <3>4. QED
      BY <3>3 DEF PathInv
  <2>2. ASSUME NEW e \in Settled \ popped PROVE e \in Linked
    <3>1. PICK k \in 1 .. Len(s) : e = s[k]
      BY <2>2 DEF PathInv
    <3>2. k - 1 \in 0 .. MaxEntries /\ e = Hop[k - 1] /\ e # Null
      BY <1>1, <1>2, <3>1
    <3>3. QED
      BY <3>2 DEF Linked
  <2>3. QED
    BY <2>1, <2>2
<1>4. Depth = Len(s)
  <2>1. CASE head = Null
    <3>1. s = <<>>
      BY <2>1, HeadSettled
    <3>2. QED
      BY <2>1, <3>1 DEF Depth
  <2>2. CASE head # Null
    <3>1. Len(s) >= 1
      BY <1>1, <2>2 DEF PathInv, At
    <3>2. ASSUME NEW k \in Entry
          PROVE  (Hop[k - 1] # Null /\ next[Hop[k - 1]] = Null) <=> k = Len(s)
      <4>1. k \in Nat /\ k >= 1 /\ k - 1 \in 0 .. MaxEntries /\ (k - 1) + 1 = k
        BY <1>1 DEF Entry
      <4>2. Hop[k - 1] = At(s, k)
        BY <4>1, HopOnPath
      <4>3. CASE ~(k <= Len(s))
        BY <1>1, <4>1, <4>2, <4>3 DEF At
      <4>4. CASE k <= Len(s)
        <5>1. k \in 1 .. Len(s) /\ Hop[k - 1] = s[k] /\ s[k] # Null
          BY <1>1, <4>1, <4>2, <4>4 DEF At
        <5>2. next[s[k]] = At(s, k + 1)
          BY <5>1 DEF PathInv
        <5>3. At(s, k + 1) = Null <=> k = Len(s)
          <6>1. CASE k + 1 <= Len(s)
            <7>1. k + 1 \in 1 .. Len(s) /\ k # Len(s)
              BY <1>1, <4>1, <6>1
            <7>2. QED
              BY <1>1, <6>1, <7>1 DEF At
          <6>2. CASE ~(k + 1 <= Len(s))
            BY <1>1, <4>1, <4>4, <6>2 DEF At
          <6>3. QED
            BY <6>1, <6>2
        <5>4. QED
          BY <5>1, <5>2, <5>3
      <4>5. QED
        BY <4>3, <4>4
    <3>3. Len(s) \in Entry
      BY <1>1, <3>1 DEF Entry
    <3>4. Depth = CHOOSE k \in Entry : Hop[k - 1] # Null /\ next[Hop[k - 1]] = Null
      BY <2>2 DEF Depth
    <3>5. QED
      BY <3>2, <3>3, <3>4
  <2>3. QED
    BY <2>1, <2>2
<1>5. QED
  BY <1>2, <1>3, <1>4

----------------------------------------------------------------------------
(* The accounting *)

\* Every entry that was handed out is in exactly one place, and the counter is the
\* depth whenever no push or pop is about to update it: for every number of threads,
\* every arena, every number of rounds that can_loop grants.
THEOREM StackEntriesAccounted == Spec => []EntriesAccounted
<1>1. ASSUME StackInv PROVE EntriesAccounted
  <2>1. StackBounds /\ TypeOK /\ PushInv
    BY <1>1 DEF StackInv
  <2>2. PICK s : PathInv(s) /\ count = Due(s) % CountModulus
    BY <1>1 DEF StackInv, ListInv
  <2>3. Linked = Settled \ popped /\ Depth = Len(s)
    BY <2>1, <2>2, PathRead
  <2>4. Pushing \subseteq used \ lost /\ lost \subseteq used /\ popped \subseteq Settled
    BY <2>1 DEF PushInv, Pushing, Holds
  <2>5. /\ used = Pushing \cup Linked \cup popped \cup lost
        /\ Pushing \cap Linked = {} /\ Pushing \cap popped = {} /\ Pushing \cap lost = {}
        /\ Linked \cap popped = {} /\ Linked \cap lost = {} /\ popped \cap lost = {}
    BY <2>3, <2>4 DEF Settled
  <2>6. ASSUME \A p \in Producer : prod[p].pc # "count", \A c \in Consumer : cons[c].pc # "count"
        PROVE  count = Depth
    <3>1. PushesUncounted = {} /\ PopsUncounted = {}
      BY <2>6 DEF PushesUncounted, PopsUncounted
    <3>2. Cardinality(PushesUncounted) = 0 /\ Cardinality(PopsUncounted) = 0
      BY <3>1, FS_EmptySet
    <3>3. Len(s) \in Nat /\ Len(s) <= MaxEntries
      BY <2>1, <2>2, PathFits
    <3>4. Due(s) = Len(s)
      BY <3>2, <3>3 DEF Due
    <3>5. CountModulus \in Nat /\ CountModulus > 0 /\ Len(s) \in 0 .. CountModulus - 1
      BY <2>1, <3>3, StackTypes
    <3>6. QED
      BY <2>2, <2>3, <3>4, <3>5, FirstLap
  <2>7. QED
    BY <2>1, <2>5, <2>6 DEF EntriesAccounted
<1>2. QED
  BY <1>1, StackInvHolds, PTL

----------------------------------------------------------------------------
(* The list implements the abstract stack *)

\* The pairs on the path, newest first.
Pairs(s) == [k \in 1 .. Len(s) |-> elem[s[k]]]

ContentsAre(s) ==
  /\ Contents = Pairs(s) /\ Contents \in Seq(Producer) /\ Len(Contents) = Len(s)
  /\ \A k \in 1 .. Len(s) : Contents[k] = elem[s[k]]
ContentsFollow == \A s : PathInv(s) => ContentsAre(s) /\ Len(s) <= MaxEntries

LEMMA ContentsOnPath == StackInv => ContentsFollow
<1> SUFFICES ASSUME StackInv, NEW s, PathInv(s) PROVE ContentsAre(s) /\ Len(s) <= MaxEntries
  BY DEF ContentsFollow
<1>1. StackBounds /\ TypeOK /\ PushInv /\ Len(s) \in Nat /\ Len(s) <= MaxEntries
  BY PathFits DEF StackInv
<1>2. Depth = Len(s) /\ \A k \in 1 .. Len(s) : Hop[k - 1] = s[k]
  BY <1>1, PathRead
<1>3. Contents = Pairs(s)
  BY <1>2 DEF Contents, Pairs
<1>4. \A k \in 1 .. Len(s) : elem[s[k]] \in Producer
  <2>1. \A k \in 1 .. Len(s) : s[k] \in used
    BY DEF PathInv, Settled
  <2>2. QED
    BY <1>1, <2>1 DEF PushInv
<1>5. Pairs(s) \in [1 .. Len(s) -> Producer] /\ \A k \in 1 .. Len(s) : Pairs(s)[k] = elem[s[k]]
  BY <1>4 DEF Pairs
<1>6. Pairs(s) \in Seq(Producer) /\ Len(Pairs(s)) = Len(s)
  BY <1>1, <1>5
<1>7. QED
  BY <1>1, <1>3, <1>5, <1>6 DEF ContentsAre

\* A step that moves neither the head nor a link leaves the pairs alone.
LEMMA ContentsKept ==
  ASSUME StackInv, ContentsFollow, ContentsFollow',
         UNCHANGED <<head, next, popped>>, Quiet
  PROVE  Contents' = Contents
<1>1. PICK s : PathInv(s)
  BY DEF StackInv, ListInv
<1>2. PathInv(s)'
  BY <1>1, PathKept DEF Quiet
<1>3. \A k \in 1 .. Len(s) : s[k] \in used
  BY <1>1 DEF PathInv, Settled
<1>4. Contents = [k \in 1 .. Len(s) |-> elem[s[k]]]
  BY <1>1 DEF ContentsFollow, ContentsAre, Pairs
<1>5. Contents' = [k \in 1 .. Len(s) |-> elem'[s[k]]]
  BY <1>2 DEF ContentsFollow, ContentsAre, Pairs
<1>6. QED
  BY <1>3, <1>4, <1>5 DEF Quiet

LEMMA SwapPushes ==
  ASSUME StackInv, ContentsFollow, ContentsFollow', NEW p \in Producer, PushSwap(p)
  PROVE  Lifo!Push(p)
<1> DEFINE u == Contents
           v == Contents'
<1>1. PICK s : PathInv(s)
  BY DEF StackInv, ListInv
<1>2. PICK e \in Entry :
           /\ e = prod[p].entry /\ elem[e] = p /\ e \in used \ lost /\ e \notin Settled
           /\ head' = e /\ next' = [next EXCEPT ![e] = head]
           /\ Settled' = Settled \cup {e}
           /\ UNCHANGED <<count, elem, used, popped, lost, delivered>>
           /\ OnlyPush(p) /\ prod[p].pc = "swap" /\ prod'[p].pc = "count"
  BY PushSwapEffect
<1>3. PathInv(<<e>> \o s)'
  BY <1>1, <1>2, PathGrows DEF StackInv
<1>4. PICK t : t = <<e>> \o s
  OBVIOUS
<1>5. PathInv(t)'
  BY <1>3, <1>4
<1>6. /\ s \in Seq(Entry) /\ Len(s) \in Nat /\ Len(t) = Len(s) + 1 /\ t[1] = e
      /\ \A k \in 1 .. Len(s) : t[k + 1] = s[k]
  BY <1>1, <1>4, Consed DEF PathInv
<1>7. Len(t) <= MaxEntries /\ MaxEntries \in Nat
  BY <1>5, StackTypes DEF ContentsFollow, StackInv
<1>8. u \in Seq(Producer) /\ Len(u) = Len(s) /\ \A k \in 1 .. Len(s) : u[k] = elem[s[k]]
  BY <1>1 DEF ContentsFollow, ContentsAre
<1>9. v \in Seq(Producer) /\ Len(v) = Len(t) /\ \A k \in 1 .. Len(t) : v[k] = elem[t[k]]
  BY <1>2, <1>5 DEF ContentsFollow, ContentsAre
<1>10. UNCHANGED delivered
  BY <1>2
<1> DEFINE w == <<p>> \o u
<1> SUFFICES v = w /\ Len(u) < MaxEntries
  BY <1>10 DEF Lifo!Push
<1> HIDE DEF u, v
<1>11. /\ w \in Seq(Producer) /\ Len(w) = Len(u) + 1 /\ w[1] = p
       /\ \A k \in 1 .. Len(u) : w[k + 1] = u[k]
  BY <1>8, Consed
<1> HIDE DEF w
<1>12. \A k \in 1 .. Len(v) : v[k] = w[k]
  <2> SUFFICES ASSUME NEW k \in 1 .. Len(v) PROVE v[k] = w[k]
    OBVIOUS
  <2>1. CASE k = 1
    <3>1. 1 \in 1 .. Len(t)
      BY <1>6
    <3>2. QED
      BY <1>2, <1>6, <1>9, <1>11, <2>1, <3>1
  <2>2. CASE k # 1
    <3>1. k - 1 \in 1 .. Len(s) /\ (k - 1) + 1 = k /\ k \in 1 .. Len(t)
      BY <1>6, <1>9, <2>2
    <3>2. v[k] = elem[t[k]] /\ t[k] = s[k - 1]
      BY <1>6, <1>9, <3>1
    <3>3. w[k] = u[k - 1] /\ u[k - 1] = elem[s[k - 1]]
      BY <1>8, <1>11, <3>1
    <3>4. QED
      BY <3>2, <3>3
  <2>3. QED
    BY <2>1, <2>2
<1>13. Len(v) = Len(w)
  BY <1>6, <1>8, <1>9, <1>11
<1>14. v = w
  BY <1>9, <1>11, <1>12, <1>13, SeqEqual
<1>15. QED
  BY <1>6, <1>7, <1>8, <1>14

LEMMA SwapPops ==
  ASSUME StackInv, ContentsFollow, ContentsFollow', NEW c \in Consumer, PopSwap(c)
  PROVE  Lifo!Pop
<1> DEFINE u == Contents
           v == Contents'
<1>1. PICK s : PathInv(s)
  BY DEF StackInv, ListInv
<1>2. /\ s # <<>> /\ head = s[1] /\ head' = next[head]
      /\ popped' = popped \cup {head} /\ delivered' = Append(delivered, elem[head])
      /\ UNCHANGED <<count, next, elem, used, prod, obs, lost>> /\ Settled' = Settled
  BY <1>1, PopSwapEffect
<1>3. PathInv(Tail(s))'
  BY <1>1, <1>2, PathShrinks
<1>4. PICK t : t = Tail(s)
  OBVIOUS
<1>5. PathInv(t)'
  BY <1>3, <1>4
<1>6. /\ s \in Seq(Entry) /\ Len(s) \in Nat /\ Len(s) >= 1 /\ Len(t) = Len(s) - 1
      /\ \A k \in 1 .. Len(t) : t[k] = s[k + 1]
  BY <1>1, <1>2, <1>4, Rest DEF PathInv
<1>7. u \in Seq(Producer) /\ Len(u) = Len(s) /\ \A k \in 1 .. Len(s) : u[k] = elem[s[k]]
  BY <1>1 DEF ContentsFollow, ContentsAre
<1>8. v \in Seq(Producer) /\ Len(v) = Len(t) /\ \A k \in 1 .. Len(t) : v[k] = elem[t[k]]
  BY <1>2, <1>5 DEF ContentsFollow, ContentsAre
<1> DEFINE w == Tail(u)
<1> SUFFICES u # <<>> /\ v = w /\ delivered' = Append(delivered, Head(u))
  BY DEF Lifo!Pop
<1> HIDE DEF u, v
<1>9. u # <<>> /\ 1 \in 1 .. Len(s) /\ Head(u) = u[1]
  BY <1>6, <1>7
<1>10. w \in Seq(Producer) /\ Len(w) = Len(u) - 1 /\ \A k \in 1 .. Len(u) - 1 : w[k] = u[k + 1]
  BY <1>7, <1>9, Rest
<1> HIDE DEF w
<1>11. \A k \in 1 .. Len(v) : v[k] = w[k]
  <2> SUFFICES ASSUME NEW k \in 1 .. Len(v) PROVE v[k] = w[k]
    OBVIOUS
  <2>1. k + 1 \in 1 .. Len(s) /\ k \in 1 .. Len(t) /\ k \in 1 .. Len(u) - 1
    BY <1>6, <1>7, <1>8
  <2>2. v[k] = elem[t[k]] /\ t[k] = s[k + 1]
    BY <1>6, <1>8, <2>1
  <2>3. w[k] = u[k + 1] /\ u[k + 1] = elem[s[k + 1]]
    BY <1>7, <1>10, <2>1
  <2>4. QED
    BY <2>2, <2>3
<1>12. Len(v) = Len(w)
  BY <1>6, <1>7, <1>8, <1>10
<1>13. v = w
  BY <1>8, <1>10, <1>11, <1>12, SeqEqual
<1>14. QED
  BY <1>2, <1>7, <1>9, <1>13

\* Concurrent pushes and pops are those of a stack bounded by the arena: a push takes
\* effect when its compare-and-swap links the entry and not at all when it gives up, a
\* pop when its compare-and-swap moves the head.
THEOREM StackImplementsLifo == Spec => ImplementsLifo
<1>1. Init => Lifo!Init
  <2> SUFFICES ASSUME Init PROVE Lifo!Init
    OBVIOUS
  <2>1. head = Null /\ delivered = <<>>
    BY DEF Init
  <2>2. Depth = 0
    BY <2>1 DEF Depth
  <2>3. Contents = <<>>
    BY <2>2 DEF Contents
  <2>4. QED
    BY <2>1, <2>3 DEF Lifo!Init
<1>2. StackInv /\ ContentsFollow /\ ContentsFollow' /\ [Next]_vars
        => [Lifo!Next]_<<Contents, delivered>>
  <2> SUFFICES ASSUME StackInv, ContentsFollow, ContentsFollow', [Next]_vars
               PROVE  Lifo!Next \/ UNCHANGED <<Contents, delivered>>
    OBVIOUS
  <2>1. ASSUME NEW p \in Producer, ds_ck_stack_upmc_insert(p)
        PROVE  Lifo!Next \/ UNCHANGED <<Contents, delivered>>
    <3>1. CASE PushSwap(p)
      BY <3>1, SwapPushes DEF Lifo!Next
    <3>2. CASE ~PushSwap(p)
      <4>1. UNCHANGED <<head, next, popped, delivered>>
        BY <2>1, <3>2 DEF ds_ck_stack_upmc_insert, InsertBegin, PushStep, PushHead,
           PushRetry, PushGiveUp, PushCount, stackVars, entryVars, histVars
      <4>2. Quiet
        BY <2>1, <3>2, InsertBeginStep, PushHeadStep, PushRetryStep, PushGiveUpStep, PushCountStep
           DEF ds_ck_stack_upmc_insert, PushStep
      <4>3. QED
        BY <4>1, <4>2, ContentsKept
    <3>3. QED
      BY <3>1, <3>2
  <2>2. ASSUME NEW c \in Consumer, ds_ck_stack_upmc_pop(c)
        PROVE  Lifo!Next \/ UNCHANGED <<Contents, delivered>>
    <3>1. CASE PopSwap(c)
      BY <3>1, SwapPops DEF Lifo!Next
    <3>2. CASE ~PopSwap(c)
      <4>1. UNCHANGED <<head, next, elem, used, prod, popped, lost, delivered>>
        BY <2>2, <3>2 DEF ds_ck_stack_upmc_pop, ds_ck_stack_upmc_pop_upmc, PopHead, PopNext,
           PopRetry, PopCount, stackVars, entryVars, histVars
      <4>2. Quiet
        BY <4>1, SettledStays DEF Quiet
      <4>3. QED
        BY <4>1, <4>2, ContentsKept
    <3>3. QED
      BY <3>1, <3>2
  <2>3. CASE (\E o \in Observer : ds_ck_stack_upmc_verify(o)) \/ UNCHANGED vars
    <3>1. UNCHANGED <<head, next, elem, used, prod, popped, lost, delivered>>
      BY <2>3 DEF ds_ck_stack_upmc_verify, VerifyBegin, VerifyRound, vars, stackVars,
         entryVars, histVars
    <3>2. Quiet
      BY <3>1, SettledStays DEF Quiet
    <3>3. QED
      BY <3>1, <3>2, ContentsKept
  <2>4. QED
    BY <2>1, <2>2, <2>3 DEF Next
<1>3. QED
  BY <1>1, <1>2, StackInvHolds, ContentsOnPath, PTL DEF Spec, ImplementsLifo, Lifo!Spec
=============================================================================
