------------------------------- MODULE Kcov --------------------------------
(***************************************************************************)
(* The flat append buffer of ds_kcov.h.  area[0] counts the entries, the   *)
(* words behind it hold their keys and values.  insert raises the count    *)
(* before it stores the pair, pop loads the newest pair before it lowers   *)
(* the count, and every access is a plain load or store.  One action per   *)
(* access; _lkmm and _c are the same.                                      *)
(*                                                                         *)
(* Calls are safe only as long as none of them works with a count that is  *)
(* out of date and no entry is stored and read at the same time.  The      *)
(* program does not prevent either: its hooks run on any CPU and the relay *)
(* thread pops meanwhile.  raced records that it happened.                 *)
(***************************************************************************)
EXTENDS Integers, Sequences

CONSTANTS Item,            \* pairs, records of a key and a value
          Writer,          \* threads that call insert
          Popper,          \* threads that call pop
          Size,            \* head->size, in words, the counter included
          MaxInserts       \* bound: calls of insert in a behaviour

\* ds_kcov_init refuses a buffer without room for one entry.
ASSUME SizeAssumption == Size \in Nat /\ Size >= 3
ASSUME MaxInsertsAssumption == MaxInserts \in Nat

VARIABLES
  area,                    \* the words
  ins,                     \* an insert: step, count it means to write, pair
  pop,                     \* a pop: step, count it has read, pair
  calls,                   \* history: inserts begun
  meant,                   \* history: the pair each entry is claimed for
  raced,                   \* history: a count or a pair was out of date when used
  taken                    \* history: pairs popped before the first race

kcovHistory == <<calls, meant, raced, taken>>
kcovVars == <<area, ins, pop, kcovHistory>>

Zero == "zero"             \* a word of the zeroed arena
ZeroPair == [key |-> Zero, value |-> Zero]
Key == {x.key : x \in Item} \cup {Zero}
Value == {x.value : x \in Item} \cup {Zero}
Word == [key : Key, value : Value]

\* Callers pass a key and a value.
ASSUME ItemAssumption == Item \subseteq Word

\* KCOV_WORDS_PER_ENTRY
WordsPerEntry == 2
Room == (Size - 1) \div WordsPerEntry

\* start_index of the n-th entry
Start(n) == 1 + (n - 1) * WordsPerEntry

Count == area[0]

\* ds_kcov_init
KcovInit ==
  /\ area = [i \in 0 .. Size - 1 |-> IF i = 0 THEN 0 ELSE Zero]
  /\ ins = [w \in Writer |-> [pc |-> "idle", count |-> 0, item |-> ZeroPair]]
  /\ pop = [c \in Popper |-> [pc |-> "idle", count |-> 0, out |-> ZeroPair]]
  /\ calls = 0 /\ meant = [n \in 1 .. Room |-> ZeroPair]
  /\ raced = FALSE /\ taken = <<>>

\* The entry is still being stored by an insert, or still being read by a pop.
Unfinished(n) == \E w \in Writer : ins[w].pc \in {"key", "value"} /\ ins[w].count = n
Reading(n) == \E c \in Popper : pop[c].pc # "idle" /\ pop[c].count = n
----------------------------------------------------------------------------
(* ds_kcov_insert *)

\* Mutant of Fits: the last word of the pair may lie just behind the area.
MutantFits(n) == Start(n) + WordsPerEntry <= Size + 1

\* end_index > head->size is the refusal
Fits(n) == Start(n) + WordsPerEntry <= Size

\* count = READ_ONCE(area[0]) + 1, and the bounds check: on DS_ERROR_FULL the
\* pair is dropped and nothing changes
InsertCount(w, x) ==
  /\ ins[w].pc = "idle" /\ calls < MaxInserts
  /\ calls' = calls + 1
  /\ ins' = IF Fits(Count + 1)
            THEN [ins EXCEPT ![w] = [pc |-> "claim", count |-> Count + 1, item |-> x]]
            ELSE ins
  /\ UNCHANGED <<area, pop, meant, raced, taken>>

\* WRITE_ONCE(area[0], count)
InsertClaim(w) ==
  /\ ins[w].pc = "claim"
  /\ area' = [area EXCEPT ![0] = ins[w].count]
  /\ ins' = [ins EXCEPT ![w].pc = "key"]
  /\ meant' = [meant EXCEPT ![ins[w].count] = ins[w].item]
  /\ raced' = (raced \/ Count # ins[w].count - 1 \/ Reading(ins[w].count))
  /\ UNCHANGED <<pop, calls, taken>>

\* WRITE_ONCE(area[start_index], key)
InsertKey(w) ==
  /\ ins[w].pc = "key"
  /\ area' = [area EXCEPT ![Start(ins[w].count)] = ins[w].item.key]
  /\ ins' = [ins EXCEPT ![w].pc = "value"]
  /\ UNCHANGED <<pop, kcovHistory>>

\* WRITE_ONCE(area[start_index + 1], value): DS_SUCCESS
InsertValue(w) ==
  /\ ins[w].pc = "value"
  /\ area' = [area EXCEPT ![Start(ins[w].count) + 1] = ins[w].item.value]
  /\ ins' = [ins EXCEPT ![w] = [pc |-> "idle", count |-> 0, item |-> ZeroPair]]
  /\ UNCHANGED <<pop, kcovHistory>>

InsertEnd(w) == InsertClaim(w) \/ InsertKey(w) \/ InsertValue(w)

ds_kcov_insert(w) == InsertEnd(w) \/ \E x \in Item : InsertCount(w, x)
----------------------------------------------------------------------------
(* ds_kcov_pop *)

\* Mutant of PopBegin: the last entry is taken for an empty buffer.
MutantPopLast(c) ==
  /\ pop[c].pc = "idle" /\ Count > 1
  /\ pop' = [pop EXCEPT ![c].pc = "key", ![c].count = Count]
  /\ UNCHANGED <<area, ins, kcovHistory>>

\* count = READ_ONCE(area[0]); with 0 the call returns DS_ERROR_NOT_FOUND
PopBegin(c) ==
  /\ pop[c].pc = "idle" /\ Count # 0
  /\ pop' = [pop EXCEPT ![c].pc = "key", ![c].count = Count]
  /\ UNCHANGED <<area, ins, kcovHistory>>

\* Mutant of PopKey: the oldest entry is read instead of the newest.
MutantPopKey(c) ==
  /\ pop[c].pc = "key"
  /\ pop' = [pop EXCEPT ![c].pc = "value", ![c].out.key = area[Start(1)]]
  /\ raced' = (raced \/ Unfinished(1))
  /\ UNCHANGED <<area, ins, calls, meant, taken>>

\* out->key = READ_ONCE(area[start_index])
PopKey(c) ==
  /\ pop[c].pc = "key"
  /\ pop' = [pop EXCEPT ![c].pc = "value", ![c].out.key = area[Start(pop[c].count)]]
  /\ raced' = (raced \/ Unfinished(pop[c].count))
  /\ UNCHANGED <<area, ins, calls, meant, taken>>

\* out->value = READ_ONCE(area[start_index + 1])
PopValue(c) ==
  /\ pop[c].pc = "value"
  /\ pop' = [pop EXCEPT ![c].pc = "lower", ![c].out.value = area[Start(pop[c].count) + 1]]
  /\ raced' = (raced \/ Unfinished(pop[c].count))
  /\ UNCHANGED <<area, ins, calls, meant, taken>>

\* WRITE_ONCE(area[0], count - 1): DS_SUCCESS
PopLower(c) ==
  /\ pop[c].pc = "lower"
  /\ area' = [area EXCEPT ![0] = pop[c].count - 1]
  /\ raced' = (raced \/ Count # pop[c].count)
  /\ taken' = IF raced' THEN <<>> ELSE Append(taken, pop[c].out)
  /\ pop' = [pop EXCEPT ![c] = [pc |-> "idle", count |-> 0, out |-> ZeroPair]]
  /\ UNCHANGED <<ins, calls, meant>>

ds_kcov_pop(c) == PopBegin(c) \/ PopKey(c) \/ PopValue(c) \/ PopLower(c)
----------------------------------------------------------------------------
KcovNext ==
  \/ \E w \in Writer : ds_kcov_insert(w)
  \/ \E c \in Popper : ds_kcov_pop(c)

KcovSpec == KcovInit /\ [][KcovNext]_kcovVars

\* A call goes on, and the consumer polls.
KcovFairness ==
  /\ \A w \in Writer : WF_kcovVars(InsertEnd(w))
  /\ \A c \in Popper : WF_kcovVars(ds_kcov_pop(c))

KcovFairSpec == KcovSpec /\ KcovFairness
----------------------------------------------------------------------------
(* Properties *)

\* Type invariant: the words of the area hold what their index says.
KcovTypeOK ==
  /\ DOMAIN area = 0 .. Size - 1 /\ area[0] \in Nat
  /\ \A n \in 1 .. Room : area[Start(n)] \in Key /\ area[Start(n) + 1] \in Value
  /\ ins \in [Writer -> [pc : {"idle", "claim", "key", "value"}, count : Nat, item : Word]]
  /\ pop \in [Popper -> [pc : {"idle", "key", "value", "lower"}, count : Nat, out : Word]]
  /\ calls \in 0 .. MaxInserts /\ raced \in BOOLEAN
  /\ meant \in [1 .. Room -> Word] /\ taken \in Seq(Word)

\* ds_kcov_verify returns DS_ERROR_CORRUPT
ds_kcov_verify == Count > Room

\* Whatever calls overlap, and whatever they lose, the count stays inside the
\* area (the invariant of struct ds_kcov_buf), and so does every pair that is
\* being stored or loaded; verify never fails.
CountBounded ==
  /\ KcovTypeOK
  /\ ~ds_kcov_verify
  /\ \A w \in Writer : ins[w].count <= Room
  /\ \A c \in Popper : pop[c].count <= Room

\* The pairs the entries are claimed for, newest first.
Claimed == [k \in 1 .. Count |-> meant[Count + 1 - k]]

\* Up to the first race the buffer is a stack, also when calls overlap: a pair is
\* pushed when its entry is claimed and popped, whole, when the count is lowered.
\* So a pair is lost, torn, repeated or made up only by a race.
ClaimedStack == INSTANCE LifoStack WITH stack <- Claimed, Capacity <- Room, delivered <- taken
StackUpToFirstRace == ClaimedStack!Init /\ [][raced' \/ ClaimedStack!Next]_<<Claimed, taken>>

\* A consumer that polls empties the buffer once the inserts have ended, even
\* after races.
EventuallyEmptied == <>[](Count = 0)
=============================================================================
