---------------------------- MODULE RelayProofs ----------------------------
(***************************************************************************)
(* Proofs about the relay for any number of CPUs, any lane capacities and  *)
(* any bound on the drain loop.                                            *)
(***************************************************************************)
EXTENDS Relay, SequenceTheorems, TLAPS

\* What the sequence operators of the relay do to the type and the length.
LEMMA NonEmpty ==
  ASSUME NEW s \in Seq(Nat)
  PROVE  Len(s) \in Nat /\ (s = <<>> <=> Len(s) = 0)
  OBVIOUS

LEMMA HeadTail ==
  ASSUME NEW s \in Seq(Nat), s # <<>>
  PROVE  Head(s) \in Nat /\ Tail(s) \in Seq(Nat) /\ Len(Tail(s)) = Len(s) - 1
  OBVIOUS

LEMMA Appended ==
  ASSUME NEW s \in Seq(Nat), NEW n \in Nat
  PROVE  Append(s, n) \in Seq(Nat) /\ Len(Append(s, n)) = Len(s) + 1
  OBVIOUS

\* An insert makes a queue or a stack one item longer.
LEMMA PutLength ==
  ASSUME NEW s \in Seq(Nat), NEW n \in Nat
  PROVE  Put(s, n) \in Seq(Nat) /\ Len(Put(s, n)) = Len(s) + 1
<1>1. <<n>> \in Seq(Nat) /\ Len(<<n>>) = 1
  OBVIOUS
<1>2. <<n>> \o s \in Seq(Nat) /\ Len(<<n>> \o s) = Len(s) + 1
  <2>1. Len(<<n>> \o s) = 1 + Len(s) /\ Len(s) \in Nat
    BY <1>1
  <2>2. QED
    BY <1>1, <2>1
<1>3. CASE lifo
  BY <1>2, <1>3 DEF Put
<1>4. CASE ~lifo
  BY <1>4, Appended DEF Put
<1>5. QED
  BY <1>3, <1>4

\* The relay thread carries an item when it is about to insert.
LEMMA InHand ==
  ASSUME TypeOK, rpc = "insert"
  PROVE  Head(hand) \in Nat
<1>1. hand \in Seq(Nat) /\ Len(hand) = 1
  BY DEF TypeOK
<1>2. hand # <<>>
  BY <1>1, NonEmpty
<1>3. QED
  BY <1>1, <1>2, HeadTail

\* One trigger of the uprobe pops if there is something to pop.
LEMMA ConsumeStep ==
  ASSUME TypeOK, KernelConsume
  PROVE  /\ uk' \in Seq(Nat) /\ consumed' \in Seq(Nat)
         /\ uk_ready /\ Len(uk) > 0 =>
              Len(uk') = Len(uk) - 1 /\ Len(consumed') = Len(consumed) + 1
         /\ Len(uk) = 0 => UNCHANGED <<uk, consumed>>
<1>1. uk \in Seq(Nat) /\ consumed \in Seq(Nat)
  BY DEF TypeOK
<1>2. CASE uk_ready /\ uk # <<>> /\ uk' = Tail(uk) /\ consumed' = Append(consumed, Head(uk))
  BY <1>1, <1>2, HeadTail, Appended, NonEmpty
<1>3. CASE (~uk_ready \/ uk = <<>>) /\ UNCHANGED <<uk, consumed>>
  BY <1>1, <1>3, NonEmpty
<1>4. QED
  BY <1>2, <1>3 DEF KernelConsume

\* Type invariant.
THEOREM TypeCorrect == Spec => []TypeOK
<1>1. Init => TypeOK
  <2> SUFFICES ASSUME Init PROVE TypeOK
    OBVIOUS
  <2>1. <<>> \in Seq(Nat) /\ Len(<<>>) = 0 /\ {} \subseteq Nat
    OBVIOUS
  <2>2. hook \in [Cpu -> {"idle", "init", "flag", "insert"}]
    BY DEF Init
  <2>3. QED
    BY <2>1, <2>2 DEF Init, TypeOK
<1>2. TypeOK /\ [Next]_vars => TypeOK'
  <2> SUFFICES ASSUME TypeOK, [Next]_vars PROVE TypeOK'
    OBVIOUS
  <2> USE DEF TypeOK, laneVars, hookVars, relayVars, mainVars
  <2>1. CASE UNCHANGED vars
    BY <2>1 DEF vars
  <2>2. ASSUME NEW h \in Cpu, HookEnter(h) PROVE TypeOK'
    BY <2>2 DEF HookEnter
  <2>3. ASSUME NEW h \in Cpu, HookInit(h) PROVE TypeOK'
    BY <2>3 DEF HookInit
  <2>4. ASSUME NEW h \in Cpu, HookInitFails(h) \/ HookRefused(h) PROVE TypeOK'
    <3>1. hook' = [hook EXCEPT ![h] = "idle"]
      BY <2>4 DEF HookInitFails, HookRefused
    <3>2. UNCHANGED <<laneVars, relayVars, mainVars, stop_test, initialized_ku, calls, accepted>>
      BY <2>4 DEF HookInitFails, HookRefused
    <3>3. QED
      BY <3>1, <3>2
  <2>5. ASSUME NEW h \in Cpu, HookFlag(h) PROVE TypeOK'
    BY <2>5 DEF HookFlag
  <2>6. ASSUME NEW h \in Cpu, HookInsert(h) PROVE TypeOK'
    <3>1. Put(ku, accepted + 1) \in Seq(Nat) /\ accepted + 1 \in Nat
      BY PutLength
    <3>2. QED
      BY <2>6, <3>1 DEF HookInsert
  <2>7. CASE RelayReady \/ RelayStop \/ RelayEmpty
    <3>1. CASE RelayReady
      BY <3>1 DEF RelayReady
    <3>2. CASE RelayStop
      BY <3>2 DEF RelayStop
    <3>3. CASE RelayEmpty
      BY <3>3 DEF RelayEmpty
    <3>4. QED
      BY <2>7, <3>1, <3>2, <3>3
  <2>8. CASE RelayLoop
    BY <2>8 DEF RelayLoop
  <2>9. CASE RelayPop
    BY <2>9, HeadTail DEF RelayPop
  <2>10. CASE RelayInsert
    <3>1. Put(uk, Head(hand)) \in Seq(Nat)
      BY <2>10, InHand, PutLength DEF RelayInsert
    <3>2. <<>> \in Seq(Nat)
      OBVIOUS
    <3>3. QED
      BY <2>10, <3>1, <3>2 DEF RelayInsert
  <2>11. CASE RelayDrop
    <3>1. Head(hand) \in Nat
      BY <2>11, InHand DEF RelayDrop
    <3>2. dropped \cup {Head(hand)} \subseteq Nat
      BY <3>1
    <3>3. <<>> \in Seq(Nat) /\ Len(<<>>) = 0
      OBVIOUS
    <3>4. QED
      BY <2>11, <3>2, <3>3 DEF RelayDrop
  <2>12. CASE SigInt
    BY <2>12 DEF SigInt
  <2>13. CASE MainCheck \/ MainPause \/ MainDrained \/ MainExit
    <3>1. CASE MainCheck
      BY <3>1 DEF MainCheck
    <3>2. CASE MainPause
      BY <3>2 DEF MainPause
    <3>3. CASE MainDrained
      BY <3>3 DEF MainDrained
    <3>4. CASE MainExit
      BY <3>4 DEF MainExit
    <3>5. QED
      BY <2>13, <3>1, <3>2, <3>3, <3>4
  <2>14. CASE MainJoin
    BY <2>14, NonEmpty DEF MainJoin
  <2>15. KernelConsume => uk' \in Seq(Nat) /\ consumed' \in Seq(Nat)
    BY ConsumeStep
  <2>16. CASE MainTriggerOnce
    BY <2>15, <2>16 DEF MainTriggerOnce
  <2>17. CASE MainTrigger
    BY <2>15, <2>17 DEF MainTrigger
  <2>18. QED
    BY <2>1, <2>2, <2>3, <2>4, <2>5, <2>6, <2>7, <2>8, <2>9, <2>10, <2>11, <2>12, <2>13,
       <2>14, <2>16, <2>17 DEF Next, lsm_inode_create, relay_worker, main
<1>3. QED
  BY <1>1, <1>2, PTL DEF Spec

\* The drain invariant: every relayed item is in the UK lane or consumed, and
\* after pthread_join nothing is added any more.
THEOREM DrainInvariant == Spec => []DrainInv
<1>1. Init => DrainInv
  BY DEF Init, DrainInv
<1>2. TypeOK /\ TypeOK' /\ DrainInv /\ [Next]_vars => DrainInv'
  <2> SUFFICES ASSUME TypeOK, TypeOK', DrainInv, [Next]_vars PROVE DrainInv'
    OBVIOUS
  <2> USE DEF DrainInv
  <2>1. CASE UNCHANGED <<uk_ready, uk, relayVars, mainVars>>
    BY <2>1 DEF relayVars, mainVars
  <2>2. ASSUME NEW h \in Cpu, lsm_inode_create(h)
        PROVE UNCHANGED <<uk_ready, uk, relayVars, mainVars>>
    BY <2>2 DEF lsm_inode_create, HookEnter, HookInit, HookInitFails, HookFlag, HookInsert,
       HookRefused, laneVars
  <2>3. CASE RelayReady \/ RelayStop \/ RelayEmpty \/ RelayPop \/ RelayDrop
    BY <2>3 DEF RelayReady, RelayStop, RelayEmpty, RelayPop, RelayDrop, laneVars, mainVars
  <2>4. CASE RelayLoop
    <3>1. Len(uk') = Len(uk) /\ uk_ready'
      BY <2>4, NonEmpty DEF RelayLoop, TypeOK
    <3>2. QED
      BY <2>4, <3>1 DEF RelayLoop, mainVars
  <2>5. CASE RelayInsert
    <3>1. Len(uk') = Len(uk) + 1 /\ Len(uk) \in Nat /\ Len(consumed) \in Nat
      <4>1. uk \in Seq(Nat) /\ Head(hand) \in Nat /\ uk' = Put(uk, Head(hand))
        BY <2>5, InHand DEF RelayInsert, TypeOK
      <4>2. Len(uk') = Len(uk) + 1
        BY <4>1, PutLength
      <4>3. Len(uk) \in Nat /\ Len(consumed) \in Nat
        BY NonEmpty DEF TypeOK
      <4>4. QED
        BY <4>2, <4>3
    <3>2. uk_ready
      BY <2>5 DEF RelayInsert
    <3>3. QED
      BY <2>5, <3>1, <3>2 DEF RelayInsert, mainVars, TypeOK
  <2>6. CASE SigInt \/ MainCheck \/ MainPause \/ MainExit
    BY <2>6 DEF SigInt, MainCheck, MainPause, MainExit, laneVars, relayVars
  <2>7. CASE MainJoin
    BY <2>7, NonEmpty DEF MainJoin, laneVars, relayVars, TypeOK
  <2>8. Len(uk) \in Nat /\ Len(consumed) \in Nat
    BY NonEmpty DEF TypeOK
  <2>9. CASE MainTriggerOnce
    <3>1. UNCHANGED <<uk, consumed>> /\ Len(uk) = 0
      BY <2>8, <2>9, ConsumeStep DEF MainTriggerOnce
    <3>2. QED
      BY <2>9, <3>1 DEF MainTriggerOnce, relayVars
  <2>10. CASE MainTrigger
    <3>1. Len(uk) > 0 /\ uk_ready
      BY <2>8, <2>10 DEF MainTrigger, Draining, TypeOK
    <3>2. Len(uk') = Len(uk) - 1 /\ Len(consumed') = Len(consumed) + 1
      BY <2>10, <3>1, ConsumeStep DEF MainTrigger
    <3>3. /\ UNCHANGED <<uk_ready, rpc, uk_enqueued_count, mpc, target>>
          /\ mpc = "drain" /\ attempts' = attempts + 1 /\ uk_enqueued_count \in Nat
      BY <2>10 DEF MainTrigger, relayVars, TypeOK
    <3>4. uk_enqueued_count' = Len(consumed') + Len(uk')
      BY <2>8, <3>2, <3>3
    <3>5. QED
      BY <3>1, <3>2, <3>3, <3>4
  <2>11. CASE MainDrained
    <3>1. Len(uk) = 0
      BY <2>8, <2>11, BoundsAssumption DEF MainDrained, Draining, TypeOK
    <3>2. QED
      BY <2>11, <3>1 DEF MainDrained, laneVars, relayVars
  <2>12. QED
    BY <2>1, <2>2, <2>3, <2>4, <2>5, <2>6, <2>7, <2>9, <2>10, <2>11
    DEF Next, vars, laneVars, relay_worker, main
<1>3. QED
  BY <1>1, <1>2, TypeCorrect, PTL DEF Spec

\* When main reports, the drain has consumed everything the relay thread put
\* into the UK lane, for every capacity and every slack of the attempt bound.
THEOREM DrainComplete == Spec => []DrainedAtExit
<1>1. TypeOK /\ DrainInv => DrainedAtExit
  BY NonEmpty DEF TypeOK, DrainInv, DrainedAtExit
<1>2. QED
  BY <1>1, TypeCorrect, DrainInvariant, PTL
----------------------------------------------------------------------------
(* Order from end to end *)

\* The items of a sequence.
Items(s) == {s[i] : i \in 1 .. Len(s)}

\* x may come before y in the pipeline of stacks (stacked) or of queues.
Precedes(stacked, x, y) == IF stacked THEN x # y ELSE x < y

Ordered(stacked, s) == \A i, j \in 1 .. Len(s) : i < j => Precedes(stacked, s[i], s[j])
Before(stacked, S, T) == \A x \in S, y \in T : Precedes(stacked, x, y)

\* The items of the sequences that the relay builds.
LEMMA ConcatItems ==
  ASSUME NEW s \in Seq(Nat), NEW t \in Seq(Nat)
  PROVE  s \o t \in Seq(Nat) /\ Items(s \o t) = Items(s) \cup Items(t)
<1>1. /\ s \o t \in Seq(Nat)
      /\ Len(s \o t) = Len(s) + Len(t) /\ Len(s) \in Nat /\ Len(t) \in Nat
      /\ \A i \in 1 .. Len(s) + Len(t) : (s \o t)[i] = IF i <= Len(s) THEN s[i] ELSE t[i - Len(s)]
  BY ConcatProperties, LenProperties
<1>2. ASSUME NEW x \in Items(s \o t) PROVE x \in Items(s) \cup Items(t)
  <2>1. PICK i \in 1 .. Len(s) + Len(t) : x = (s \o t)[i]
    BY <1>1, <1>2 DEF Items
  <2>2. CASE i <= Len(s)
    BY <1>1, <2>1, <2>2 DEF Items
  <2>3. CASE ~(i <= Len(s))
    <3>1. i - Len(s) \in 1 .. Len(t) /\ x = t[i - Len(s)]
      BY <1>1, <2>1, <2>3
    <3>2. QED
      BY <3>1 DEF Items
  <2>4. QED
    BY <2>2, <2>3
<1>3. ASSUME NEW x \in Items(s) PROVE x \in Items(s \o t)
  <2>1. PICK i \in 1 .. Len(s) : x = s[i]
    BY <1>3 DEF Items
  <2>2. i \in 1 .. Len(s \o t) /\ (s \o t)[i] = x
    BY <1>1, <2>1
  <2>3. QED
    BY <2>2 DEF Items
<1>4. ASSUME NEW x \in Items(t) PROVE x \in Items(s \o t)
  <2>1. PICK i \in 1 .. Len(t) : x = t[i]
    BY <1>4 DEF Items
  <2>2. Len(s) + i \in 1 .. Len(s \o t) /\ (s \o t)[Len(s) + i] = x
    BY <1>1, <2>1
  <2>3. QED
    BY <2>2 DEF Items
<1>5. QED
  BY <1>1, <1>2, <1>3, <1>4

LEMMA OneItem ==
  ASSUME NEW n \in Nat
  PROVE  /\ <<n>> \in Seq(Nat) /\ Items(<<n>>) = {n} /\ Items(<<>>) = {}
         /\ \A stacked \in BOOLEAN : Ordered(stacked, <<n>>) /\ Ordered(stacked, <<>>)
<1>1. <<n>> \in Seq(Nat) /\ Len(<<n>>) = 1 /\ <<n>>[1] = n /\ Len(<<>>) = 0
  OBVIOUS
<1>2. 1 .. 1 = {1} /\ 1 .. 0 = {}
  OBVIOUS
<1>3. QED
  BY <1>1, <1>2 DEF Items, Ordered

\* The one item in the hands of the relay thread.
LEMMA HandItems ==
  ASSUME TypeOK, rpc = "insert"
  PROVE  Items(hand) = {Head(hand)}
<1>1. hand \in Seq(Nat) /\ Len(hand) = 1
  BY DEF TypeOK
<1>2. 1 .. 1 = {1} /\ Head(hand) = hand[1]
  BY <1>1
<1>3. QED
  BY <1>1, <1>2 DEF Items

\* Places in the two parts of a concatenation.
LEMMA AcrossParts ==
  ASSUME NEW m \in Nat, NEW n \in Nat, NEW i \in 1 .. m, NEW j \in 1 .. n
  PROVE  i \in 1 .. m + n /\ m + j \in 1 .. m + n /\ i < m + j
  OBVIOUS

\* A concatenation is in order when its parts are and the one comes before the other.
LEMMA ConcatOrdered ==
  ASSUME NEW stacked \in BOOLEAN, NEW s \in Seq(Nat), NEW t \in Seq(Nat)
  PROVE  Ordered(stacked, s \o t) <=>
           Ordered(stacked, s) /\ Ordered(stacked, t) /\ Before(stacked, Items(s), Items(t))
<1>0. Len(s) \in Nat /\ Len(t) \in Nat
  BY LenProperties
<1>1. /\ Len(s \o t) = Len(s) + Len(t) /\ Len(s) \in Nat /\ Len(t) \in Nat
      /\ \A i \in 1 .. Len(s) + Len(t) : (s \o t)[i] = IF i <= Len(s) THEN s[i] ELSE t[i - Len(s)]
  BY ConcatProperties, LenProperties
<1>2. ASSUME Ordered(stacked, s \o t)
      PROVE  Ordered(stacked, s) /\ Ordered(stacked, t) /\ Before(stacked, Items(s), Items(t))
  <2>1. \A i, j \in 1 .. Len(s) + Len(t) : i < j => Precedes(stacked, (s \o t)[i], (s \o t)[j])
    BY <1>1, <1>2 DEF Ordered
  <2>2. ASSUME NEW i \in 1 .. Len(s), NEW j \in 1 .. Len(s), i < j
        PROVE  Precedes(stacked, s[i], s[j])
    <3>1. (s \o t)[i] = s[i] /\ (s \o t)[j] = s[j]
      BY <1>1
    <3>2. i \in 1 .. Len(s) + Len(t) /\ j \in 1 .. Len(s) + Len(t)
      BY <1>1
    <3>3. QED
      BY <2>1, <2>2, <3>1, <3>2
  <2>3. ASSUME NEW i \in 1 .. Len(t), NEW j \in 1 .. Len(t), i < j
        PROVE  Precedes(stacked, t[i], t[j])
    <3>1. (s \o t)[Len(s) + i] = t[i] /\ (s \o t)[Len(s) + j] = t[j]
      BY <1>1
    <3>2. /\ Len(s) + i \in 1 .. Len(s) + Len(t) /\ Len(s) + j \in 1 .. Len(s) + Len(t)
          /\ Len(s) + i < Len(s) + j
      BY <1>1, <2>3
    <3>3. QED
      BY <2>1, <3>1, <3>2
  <2>4. ASSUME NEW i \in 1 .. Len(s), NEW j \in 1 .. Len(t)
        PROVE  Precedes(stacked, s[i], t[j])
    <3>1. (s \o t)[i] = s[i] /\ (s \o t)[Len(s) + j] = t[j]
      BY <1>1
    <3>2. /\ i \in 1 .. Len(s) + Len(t) /\ Len(s) + j \in 1 .. Len(s) + Len(t)
          /\ i < Len(s) + j
      BY <1>0, AcrossParts
    <3>3. QED
      BY <2>1, <3>1, <3>2
  <2>5. QED
    BY <2>2, <2>3, <2>4 DEF Ordered, Before, Items
<1>3. ASSUME Ordered(stacked, s), Ordered(stacked, t), Before(stacked, Items(s), Items(t)),
             NEW i \in 1 .. Len(s) + Len(t), NEW j \in 1 .. Len(s) + Len(t), i < j
      PROVE  Precedes(stacked, (s \o t)[i], (s \o t)[j])
  <2>1. CASE j <= Len(s)
    <3>1. i \in 1 .. Len(s) /\ j \in 1 .. Len(s) /\ (s \o t)[i] = s[i] /\ (s \o t)[j] = s[j]
      BY <1>1, <1>3, <2>1
    <3>2. QED
      BY <1>3, <3>1 DEF Ordered
  <2>2. CASE i <= Len(s) /\ ~(j <= Len(s))
    <3>1. i \in 1 .. Len(s) /\ j - Len(s) \in 1 .. Len(t)
      BY <1>1, <2>2
    <3>2. (s \o t)[i] = s[i] /\ (s \o t)[j] = t[j - Len(s)]
      BY <1>1, <2>2
    <3>3. QED
      BY <1>3, <3>1, <3>2 DEF Before, Items
  <2>3. CASE ~(i <= Len(s))
    <3>1. /\ i - Len(s) \in 1 .. Len(t) /\ j - Len(s) \in 1 .. Len(t)
          /\ i - Len(s) < j - Len(s)
      BY <1>1, <1>3, <2>3
    <3>2. ~(j <= Len(s))
      BY <1>0, <1>3, <2>3
    <3>3. (s \o t)[i] = t[i - Len(s)]
      BY <1>1, <2>3
    <3>4. (s \o t)[j] = t[j - Len(s)]
      BY <1>1, <3>2
    <3>5. QED
      BY <1>3, <3>1, <3>3, <3>4 DEF Ordered
  <2>4. QED
    BY <1>1, <1>3, <2>1, <2>2, <2>3
<1>4. QED
  BY <1>1, <1>2, <1>3 DEF Ordered

\* A sequence with items is its head followed by its tail, and Append puts one
\* item behind it.
LEMMA HeadFirst ==
  ASSUME NEW s \in Seq(Nat), s # <<>>
  PROVE  s = <<Head(s)>> \o Tail(s)
  BY HeadTailProperties, LenProperties, ConcatProperties, SeqEqual

LEMMA AppendLast ==
  ASSUME NEW s \in Seq(Nat), NEW n \in Nat
  PROVE  Append(s, n) = s \o <<n>>
  OBVIOUS

\* Popping leaves the order alone and takes the first item.
LEMMA TailOrdered ==
  ASSUME NEW stacked \in BOOLEAN, NEW s \in Seq(Nat), s # <<>>
  PROVE  /\ Items(s) = {Head(s)} \cup Items(Tail(s))
         /\ Ordered(stacked, s) =>
              Ordered(stacked, Tail(s)) /\ Before(stacked, {Head(s)}, Items(Tail(s)))
<1> DEFINE h == <<Head(s)>>
<1> DEFINE t == Tail(s)
<1>1. Head(s) \in Nat /\ t \in Seq(Nat)
  BY HeadTail
<1>2. h \in Seq(Nat) /\ Items(h) = {Head(s)}
  BY <1>1, OneItem
<1>3. s = h \o t
  BY HeadFirst
<1> HIDE DEF h, t
<1>4. Items(s) = {Head(s)} \cup Items(t)
  BY <1>1, <1>2, <1>3, ConcatItems
<1>5. Ordered(stacked, h \o t) => Ordered(stacked, t) /\ Before(stacked, Items(h), Items(t))
  BY <1>1, <1>2, ConcatOrdered
<1>6. QED
  BY <1>2, <1>3, <1>4, <1>5 DEF t

\* Appending an item that comes after all others keeps the order.
LEMMA AppendOrdered ==
  ASSUME NEW stacked \in BOOLEAN, NEW s \in Seq(Nat), NEW n \in Nat
  PROVE  /\ Items(Append(s, n)) = Items(s) \cup {n}
         /\ Ordered(stacked, s) /\ Before(stacked, Items(s), {n}) => Ordered(stacked, Append(s, n))
<1> DEFINE h == <<n>>
<1>1. h \in Seq(Nat) /\ Items(h) = {n} /\ Ordered(stacked, h)
  BY OneItem
<1>2. Append(s, n) = s \o h
  BY AppendLast
<1> HIDE DEF h
<1>3. Items(s \o h) = Items(s) \cup {n}
  BY <1>1, ConcatItems
<1>4. Ordered(stacked, s) /\ Before(stacked, Items(s), {n}) => Ordered(stacked, s \o h)
  BY <1>1, ConcatOrdered
<1>5. QED
  BY <1>2, <1>3, <1>4

\* So does an insert, at whichever end.
LEMMA PutOrdered ==
  ASSUME lifo \in BOOLEAN, NEW s \in Seq(Nat), NEW n \in Nat
  PROVE  /\ Items(Put(s, n)) = Items(s) \cup {n}
         /\ Ordered(lifo, s) /\ Before(lifo, Items(s), {n}) => Ordered(lifo, Put(s, n))
<1> DEFINE h == <<n>>
<1>1. h \in Seq(Nat) /\ Items(h) = {n} /\ Ordered(lifo, h)
  BY OneItem
<1>2. CASE lifo
  <2>0. Put(s, n) = h \o s
    BY <1>2 DEF Put
  <2> HIDE DEF h
  <2>1. Items(h \o s) = Items(s) \cup {n}
    BY <1>1, ConcatItems
  <2>2. Before(lifo, Items(s), {n}) => Before(lifo, {n}, Items(s))
    BY <1>2 DEF Before, Precedes
  <2>3. Ordered(lifo, s) /\ Before(lifo, {n}, Items(s)) => Ordered(lifo, h \o s)
    BY <1>1, ConcatOrdered
  <2>4. QED
    BY <2>0, <2>1, <2>2, <2>3
<1>3. CASE ~lifo
  BY <1>3, AppendOrdered DEF Put
<1>4. QED
  BY <1>2, <1>3

\* The inductive strengthening of EndToEndOrder: the four parts of the pipeline
\* are in order, one before the other, and no number has been given out yet that
\* is above accepted.
OrderInv ==
  /\ Ordered(lifo, consumed) /\ Ordered(lifo, uk) /\ Ordered(lifo, hand) /\ Ordered(lifo, ku)
  /\ Before(lifo, Items(consumed), Items(uk) \cup Items(hand) \cup Items(ku))
  /\ Before(lifo, Items(uk), Items(hand) \cup Items(ku))
  /\ Before(lifo, Items(hand), Items(ku))
  /\ \A x \in Items(consumed) \cup Items(uk) \cup Items(hand) \cup Items(ku) : x <= accepted

LEMMA ItemsNat ==
  ASSUME NEW s \in Seq(Nat)
  PROVE  Items(s) \subseteq Nat
  BY ElementOfSeq DEF Items

\* The four parts in order are the pipeline in order.
LEMMA PipelineOrdered ==
  ASSUME TypeOK, OrderInv
  PROVE  EndToEndOrder
<1>1. lifo \in BOOLEAN /\ consumed \in Seq(Nat) /\ uk \in Seq(Nat) /\ hand \in Seq(Nat) /\ ku \in Seq(Nat)
  BY DEF TypeOK
<1> DEFINE a == consumed \o uk
<1> DEFINE b == a \o hand
<1>2. a \in Seq(Nat) /\ Items(a) = Items(consumed) \cup Items(uk)
  BY <1>1, ConcatItems
<1>3. Ordered(lifo, a)
  <2>1. Before(lifo, Items(consumed), Items(uk))
    BY DEF OrderInv, Before
  <2>2. QED
    BY <1>1, <2>1, ConcatOrdered DEF OrderInv
<1> HIDE DEF a
<1>4. b \in Seq(Nat) /\ Items(b) = Items(a) \cup Items(hand)
  BY <1>1, <1>2, ConcatItems
<1>5. Ordered(lifo, b)
  <2>1. Before(lifo, Items(a), Items(hand))
    BY <1>2 DEF OrderInv, Before
  <2>2. QED
    BY <1>1, <1>2, <1>3, <2>1, ConcatOrdered DEF OrderInv
<1> HIDE DEF b
<1>6. Ordered(lifo, b \o ku)
  <2>1. Before(lifo, Items(b), Items(ku))
    BY <1>2, <1>4 DEF OrderInv, Before
  <2>2. QED
    BY <1>1, <1>4, <1>5, <2>1, ConcatOrdered DEF OrderInv
<1>7. b \o ku = Pipeline
  BY DEF Pipeline, a, b
<1>8. QED
  BY <1>6, <1>7 DEF Ordered, Precedes, EndToEndOrder

\* No item overtakes another or is delivered twice, for any number of CPUs and
\* any capacities of the lanes.
THEOREM OrderKept == Spec => []EndToEndOrder
<1>1. Init => OrderInv
  <2> SUFFICES ASSUME Init PROVE OrderInv
    OBVIOUS
  <2>1. Items(<<>>) = {} /\ Ordered(lifo, <<>>)
    BY OneItem DEF Init
  <2>2. QED
    BY <2>1 DEF Init, OrderInv, Before
<1>2. TypeOK /\ OrderInv /\ [Next]_vars => OrderInv'
  <2> SUFFICES ASSUME TypeOK, OrderInv, [Next]_vars PROVE OrderInv'
    OBVIOUS
  <2>1. /\ lifo \in BOOLEAN /\ accepted \in Nat
        /\ consumed \in Seq(Nat) /\ uk \in Seq(Nat) /\ hand \in Seq(Nat) /\ ku \in Seq(Nat)
    BY DEF TypeOK
  <2>2. Items(<<>>) = {} /\ Ordered(lifo, <<>>)
    BY <2>1, OneItem
  <2>3. CASE UNCHANGED <<lifo, consumed, uk, hand, ku, accepted>>
    BY <2>3 DEF OrderInv
  <2>4. ASSUME NEW h \in Cpu, HookInit(h) PROVE OrderInv'
    <3>1. ku' = <<>> /\ UNCHANGED <<lifo, consumed, uk, hand, accepted>>
      BY <2>4 DEF HookInit, relayVars, mainVars
    <3>2. QED
      BY <2>2, <3>1 DEF OrderInv, Before
  <2>5. ASSUME NEW h \in Cpu, HookInsert(h) PROVE OrderInv'
    <3> DEFINE n == accepted + 1
    <3>1. n \in Nat /\ \A x \in Nat : x <= accepted => x <= n /\ Precedes(lifo, x, n)
      BY <2>1 DEF Precedes
    <3>2. ku' = Put(ku, n) /\ accepted' = n /\ UNCHANGED <<lifo, consumed, uk, hand>>
      BY <2>5 DEF HookInsert, relayVars, mainVars
    <3>3. Items(consumed) \cup Items(uk) \cup Items(hand) \cup Items(ku) \subseteq Nat
      BY <2>1, ItemsNat
    <3> HIDE DEF n
    <3>4. \A x \in Items(consumed) \cup Items(uk) \cup Items(hand) \cup Items(ku) :
            x <= n /\ Precedes(lifo, x, n)
      BY <3>1, <3>3 DEF OrderInv
    <3>5. Before(lifo, Items(ku), {n})
      BY <3>4 DEF Before
    <3>6. Items(ku') = Items(ku) \cup {n} /\ Ordered(lifo, ku')
      BY <2>1, <3>1, <3>2, <3>5, PutOrdered DEF OrderInv
    <3>7. n <= n
      BY <3>1
    <3>8. QED
      BY <3>2, <3>4, <3>6, <3>7 DEF OrderInv, Before
  <2>6. CASE RelayPop
    <3>1. ku # <<>> /\ UNCHANGED <<lifo, consumed, uk, accepted>> /\ hand = <<>>
      BY <2>6 DEF RelayPop, hookVars, mainVars, TypeOK
    <3>2. Head(ku) \in Nat /\ hand' = <<Head(ku)>> /\ ku' = Tail(ku)
      BY <2>1, <2>6, <3>1, HeadTail DEF RelayPop
    <3>3. Items(hand') = {Head(ku)} /\ Ordered(lifo, hand')
      BY <2>1, <3>2, OneItem
    <3>4. /\ Items(ku) = {Head(ku)} \cup Items(ku')
          /\ Ordered(lifo, ku') /\ Before(lifo, {Head(ku)}, Items(ku'))
      BY <2>1, <3>1, <3>2, TailOrdered DEF OrderInv
    <3>5. QED
      BY <3>1, <3>3, <3>4 DEF OrderInv, Before
  <2>7. rpc = "insert" => Head(hand) \in Nat /\ Items(hand) = {Head(hand)}
    BY InHand, HandItems
  <2>8. CASE RelayInsert
    <3>1. /\ uk' = Put(uk, Head(hand)) /\ hand' = <<>> /\ rpc = "insert"
          /\ UNCHANGED <<lifo, consumed, ku, accepted>>
      BY <2>8 DEF RelayInsert, hookVars, mainVars
    <3>2. Before(lifo, Items(uk), {Head(hand)})
      BY <2>7, <3>1 DEF OrderInv, Before
    <3>3. Items(uk') = Items(uk) \cup Items(hand) /\ Ordered(lifo, uk')
      <4> DEFINE n == Head(hand)
      <4>1. n \in Nat /\ Items(hand) = {n} /\ Before(lifo, Items(uk), {n}) /\ uk' = Put(uk, n)
        BY <2>7, <3>1, <3>2
      <4>2. Ordered(lifo, uk)
        BY DEF OrderInv
      <4> HIDE DEF n
      <4>3. Items(Put(uk, n)) = Items(uk) \cup {n} /\ Ordered(lifo, Put(uk, n))
        BY <2>1, <4>1, <4>2, PutOrdered
      <4>4. QED
        BY <4>1, <4>3
    <3>4. QED
      BY <2>2, <3>1, <3>3 DEF OrderInv, Before
  <2>9. CASE RelayDrop
    <3>1. hand' = <<>> /\ UNCHANGED <<lifo, consumed, uk, ku, accepted>>
      BY <2>9 DEF RelayDrop, hookVars, mainVars, laneVars
    <3>2. QED
      BY <2>2, <3>1 DEF OrderInv, Before
  <2>10. ASSUME KernelConsume, UNCHANGED <<lifo, hand, ku, accepted>> PROVE OrderInv'
    <3>1. CASE uk # <<>> /\ uk' = Tail(uk) /\ consumed' = Append(consumed, Head(uk))
      <4>1. /\ Head(uk) \in Nat /\ Items(uk) = {Head(uk)} \cup Items(uk')
            /\ Ordered(lifo, uk') /\ Before(lifo, {Head(uk)}, Items(uk'))
        BY <2>1, <3>1, HeadTail, TailOrdered DEF OrderInv
      <4>2. Before(lifo, Items(consumed), {Head(uk)})
        BY <4>1 DEF OrderInv, Before
      <4>3. Items(consumed') = Items(consumed) \cup {Head(uk)} /\ Ordered(lifo, consumed')
        BY <2>1, <3>1, <4>1, <4>2, AppendOrdered DEF OrderInv
      <4>4. QED
        BY <2>10, <4>1, <4>3 DEF OrderInv, Before
    <3>2. CASE UNCHANGED <<uk, consumed>>
      BY <2>3, <2>10, <3>2
    <3>3. QED
      BY <2>10, <3>1, <3>2 DEF KernelConsume
  <2>11. CASE MainTriggerOnce \/ MainTrigger
    BY <2>10, <2>11 DEF MainTriggerOnce, MainTrigger, hookVars, relayVars
  <2>12. CASE RelayLoop
    <3>1. UNCHANGED <<lifo, consumed, hand, ku, accepted>> /\ (uk' = uk \/ uk' = <<>>)
      BY <2>12 DEF RelayLoop, hookVars, mainVars
    <3>2. CASE uk' = <<>>
      BY <2>2, <3>1, <3>2 DEF OrderInv, Before
    <3>3. QED
      BY <2>3, <3>1, <3>2
  <2>13. ASSUME NEW h \in Cpu, HookEnter(h) \/ HookInitFails(h) \/ HookFlag(h) \/ HookRefused(h)
         PROVE OrderInv'
    BY <2>3, <2>13 DEF HookEnter, HookInitFails, HookFlag, HookRefused, laneVars, relayVars, mainVars
  <2>14. CASE RelayReady \/ RelayStop \/ RelayEmpty
    BY <2>3, <2>14 DEF RelayReady, RelayStop, RelayEmpty, laneVars, hookVars, mainVars
  <2>15. CASE MainCheck \/ MainPause \/ MainJoin \/ MainDrained \/ MainExit \/ SigInt
    BY <2>3, <2>15 DEF MainCheck, MainPause, MainJoin, MainDrained, MainExit, SigInt,
       laneVars, hookVars, relayVars
  <2>16. CASE UNCHANGED vars
    BY <2>3, <2>16 DEF vars, laneVars, hookVars, relayVars, mainVars
  <2>17. QED
    BY <2>4, <2>5, <2>6, <2>8, <2>9, <2>11, <2>12, <2>13, <2>14, <2>15, <2>16
    DEF Next, lsm_inode_create, relay_worker, main
<1>3. TypeOK /\ OrderInv => EndToEndOrder
  BY PipelineOrdered
<1>4. QED
  BY <1>1, <1>2, <1>3, TypeCorrect, PTL DEF Spec
----------------------------------------------------------------------------
(* No item vanishes *)

\* A CPU gets to the insert, and an item into the lane, only after some CPU has
\* initialised it.
ReadyInv ==
  /\ ku # <<>> => ku_ready
  /\ initialized_ku => ku_ready
  /\ \A h \in Cpu : hook[h] \in {"flag", "insert"} => ku_ready

\* The lane is initialised before it is used.
LEMMA ReadyBeforeUse == Spec => []ReadyInv
<1>1. Init => ReadyInv
  BY DEF Init, ReadyInv
<1>2. TypeOK /\ ReadyInv /\ [Next]_vars => ReadyInv'
  <2> SUFFICES ASSUME TypeOK, ReadyInv, [Next]_vars PROVE ReadyInv'
    OBVIOUS
  <2>1. hook \in [Cpu -> {"idle", "init", "flag", "insert"}]
    BY DEF TypeOK
  <2> USE DEF ReadyInv
  <2>2. ASSUME NEW h \in Cpu, HookEnter(h) PROVE ReadyInv'
    BY <2>1, <2>2 DEF HookEnter, laneVars
  <2>3. ASSUME NEW h \in Cpu, HookInit(h) PROVE ReadyInv'
    BY <2>3 DEF HookInit
  <2>4. ASSUME NEW h \in Cpu, HookInitFails(h) \/ HookRefused(h) PROVE ReadyInv'
    BY <2>1, <2>4 DEF HookInitFails, HookRefused, laneVars
  <2>5. ASSUME NEW h \in Cpu, HookFlag(h) PROVE ReadyInv'
    BY <2>1, <2>5 DEF HookFlag, laneVars
  <2>6. ASSUME NEW h \in Cpu, HookInsert(h) PROVE ReadyInv'
    BY <2>1, <2>6 DEF HookInsert
  <2>7. CASE RelayPop
    BY <2>7 DEF RelayPop, hookVars
  <2>8. CASE UNCHANGED <<ku_ready, ku, hookVars>>
    BY <2>8 DEF hookVars
  <2>9. CASE relay_worker /\ ~RelayPop
    BY <2>8, <2>9 DEF relay_worker, RelayReady, RelayStop, RelayLoop, RelayEmpty, RelayInsert,
       RelayDrop, laneVars
  <2>10. CASE main \/ SigInt
    BY <2>8, <2>10 DEF main, MainCheck, MainPause, MainJoin, MainTriggerOnce, MainTrigger,
       MainDrained, MainExit, SigInt, laneVars
  <2>11. CASE UNCHANGED vars
    BY <2>8, <2>11 DEF vars, laneVars
  <2>12. QED
    BY <2>2, <2>3, <2>4, <2>5, <2>6, <2>7, <2>9, <2>10, <2>11 DEF Next, lsm_inode_create
<1>3. QED
  BY <1>1, <1>2, TypeCorrect, PTL DEF Spec

\* What is accounted for, part by part.
LEMMA AccountedParts ==
  ASSUME TypeOK
  PROVE  Accounted = Items(consumed) \cup Items(uk) \cup Items(hand) \cup Items(ku) \cup dropped
<1>1. consumed \in Seq(Nat) /\ uk \in Seq(Nat) /\ hand \in Seq(Nat) /\ ku \in Seq(Nat)
  BY DEF TypeOK
<1> DEFINE a == consumed \o uk
<1> DEFINE b == a \o hand
<1>2. a \in Seq(Nat) /\ Items(a) = Items(consumed) \cup Items(uk)
  BY <1>1, ConcatItems
<1> HIDE DEF a
<1>3. b \in Seq(Nat) /\ Items(b) = Items(a) \cup Items(hand)
  BY <1>1, <1>2, ConcatItems
<1> HIDE DEF b
<1>4. Items(b \o ku) = Items(b) \cup Items(ku)
  BY <1>1, <1>3, ConcatItems
<1>5. b \o ku = Pipeline
  BY DEF Pipeline, a, b
<1>6. Accounted = Items(Pipeline) \cup dropped
  BY DEF Accounted, Items
<1>7. QED
  BY <1>2, <1>3, <1>4, <1>5, <1>6

\* Apart from what the UK lane refuses, only a second initialisation of the KU lane
\* loses items, for any number of CPUs and any capacities of the lanes.
THEOREM NothingVanishes == Spec => VanishOnlyByReinit
<1> DEFINE Reinit == ku_ready /\ \E h \in Cpu : hook[h] = "init" /\ hook'[h] = "flag"
<1>1. /\ TypeOK /\ TypeOK' /\ DrainInv /\ ReadyInv /\ [Next]_vars
      => [Accounted \subseteq Accounted' \/ Reinit]_vars
  <2> SUFFICES ASSUME TypeOK, TypeOK', DrainInv, ReadyInv, Next
               PROVE  Accounted \subseteq Accounted' \/ Reinit
    OBVIOUS
  <2>1. /\ lifo \in BOOLEAN /\ accepted \in Nat
        /\ consumed \in Seq(Nat) /\ uk \in Seq(Nat) /\ hand \in Seq(Nat) /\ ku \in Seq(Nat)
        /\ hook \in [Cpu -> {"idle", "init", "flag", "insert"}]
    BY DEF TypeOK
  <2>2. Items(<<>>) = {}
    BY <2>1, OneItem
  <2>3. /\ Accounted = Items(consumed) \cup Items(uk) \cup Items(hand) \cup Items(ku) \cup dropped
        /\ Accounted' = Items(consumed') \cup Items(uk') \cup Items(hand') \cup Items(ku') \cup dropped'
    <3>1. TypeOK => Accounted = Items(consumed) \cup Items(uk) \cup Items(hand) \cup Items(ku) \cup dropped
      BY AccountedParts
    <3>2. (TypeOK => Accounted = Items(consumed) \cup Items(uk) \cup Items(hand) \cup Items(ku) \cup dropped)'
      BY AccountedParts, PTL
    <3>3. QED
      BY <3>1, <3>2 DEF Items
  <2>4. CASE UNCHANGED <<consumed, uk, hand, ku, dropped>>
    BY <2>3, <2>4
  <2>5. ASSUME NEW h \in Cpu, HookInit(h) PROVE Accounted \subseteq Accounted' \/ Reinit
    <3>1. hook[h] = "init" /\ hook'[h] = "flag"
      BY <2>1, <2>5 DEF HookInit
    <3>2. CASE ~ku_ready
      <4>1. UNCHANGED <<consumed, uk, hand, ku, dropped>>
        BY <2>5, <3>2 DEF HookInit, ReadyInv, relayVars, mainVars
      <4>2. QED
        BY <2>4, <4>1
    <3>3. QED
      BY <3>1, <3>2
  <2>6. ASSUME NEW h \in Cpu, HookInsert(h) PROVE Accounted \subseteq Accounted'
    <3> DEFINE n == accepted + 1
    <3>1. UNCHANGED <<consumed, uk, hand, dropped>> /\ ku' = Put(ku, n) /\ n \in Nat
      BY <2>1, <2>6 DEF HookInsert, relayVars, mainVars
    <3> HIDE DEF n
    <3>2. Items(Put(ku, n)) = Items(ku) \cup {n}
      BY <2>1, <3>1, PutOrdered
    <3>3. QED
      BY <2>3, <3>1, <3>2
  <2>7. CASE RelayPop
    <3>1. ku # <<>> /\ hand = <<>> /\ hand' = <<Head(ku)>> /\ ku' = Tail(ku)
      BY <2>7 DEF RelayPop, TypeOK
    <3>2. UNCHANGED <<consumed, uk, dropped>>
      BY <2>7 DEF RelayPop, mainVars
    <3>3. Head(ku) \in Nat /\ Items(ku) = {Head(ku)} \cup Items(ku')
      BY <2>1, <3>1, HeadTail, TailOrdered
    <3>4. Items(hand') = {Head(ku)}
      BY <3>1, <3>3, OneItem
    <3>5. QED
      BY <2>2, <2>3, <3>1, <3>2, <3>3, <3>4
  <2>8. rpc = "insert" => Head(hand) \in Nat /\ Items(hand) = {Head(hand)}
    BY InHand, HandItems
  <2>9. CASE RelayInsert
    <3> DEFINE n == Head(hand)
    <3>1. n \in Nat /\ Items(hand) = {n} /\ uk' = Put(uk, n) /\ UNCHANGED <<consumed, ku, dropped>>
      BY <2>8, <2>9 DEF RelayInsert, mainVars
    <3> HIDE DEF n
    <3>2. Items(Put(uk, n)) = Items(uk) \cup {n}
      BY <2>1, <3>1, PutOrdered
    <3>3. QED
      BY <2>3, <3>1, <3>2
  <2>10. CASE RelayDrop
    <3>1. UNCHANGED <<consumed, uk, ku>> /\ dropped' = dropped \cup Items(hand)
      BY <2>8, <2>10 DEF RelayDrop, mainVars, laneVars
    <3>2. QED
      BY <2>3, <3>1
  <2>11. CASE MainTriggerOnce \/ MainTrigger
    <3>1. KernelConsume /\ UNCHANGED <<hand, ku, dropped>>
      BY <2>11 DEF MainTriggerOnce, MainTrigger, relayVars
    <3>2. CASE uk # <<>> /\ uk' = Tail(uk) /\ consumed' = Append(consumed, Head(uk))
      <4>1. Head(uk) \in Nat /\ Items(uk) = {Head(uk)} \cup Items(uk')
        BY <2>1, <3>2, HeadTail, TailOrdered
      <4>2. Items(consumed') = Items(consumed) \cup {Head(uk)}
        BY <2>1, <3>2, <4>1, AppendOrdered
      <4>3. QED
        BY <2>3, <3>1, <4>1, <4>2
    <3>3. QED
      BY <2>4, <3>1, <3>2 DEF KernelConsume
  <2>12. CASE RelayLoop
    <3>1. uk = <<>> \/ uk_ready
      BY <2>1, NonEmpty DEF DrainInv
    <3>2. UNCHANGED <<consumed, uk, hand, ku, dropped>>
      BY <2>12, <3>1 DEF RelayLoop, mainVars
    <3>3. QED
      BY <2>4, <3>2
  <2>13. ASSUME NEW h \in Cpu, HookEnter(h) \/ HookInitFails(h) \/ HookFlag(h) \/ HookRefused(h)
         PROVE UNCHANGED <<consumed, uk, hand, ku, dropped>>
    BY <2>13 DEF HookEnter, HookInitFails, HookFlag, HookRefused, laneVars, relayVars, mainVars
  <2>14. CASE RelayReady \/ RelayStop \/ RelayEmpty
    BY <2>4, <2>14 DEF RelayReady, RelayStop, RelayEmpty, laneVars, mainVars
  <2>15. CASE MainCheck \/ MainPause \/ MainJoin \/ MainDrained \/ MainExit \/ SigInt
    BY <2>4, <2>15 DEF MainCheck, MainPause, MainJoin, MainDrained, MainExit, SigInt,
       laneVars, relayVars
  <2>16. QED
    BY <2>4, <2>5, <2>6, <2>7, <2>9, <2>10, <2>11, <2>12, <2>13, <2>14, <2>15
    DEF Next, lsm_inode_create, relay_worker, main
<1>2. QED
  BY <1>1, TypeCorrect, DrainInvariant, ReadyBeforeUse, PTL DEF Spec, VanishOnlyByReinit
=============================================================================
