---------------------------- MODULE MemoryProofs ----------------------------
(***************************************************************************)
(* Proofs about memory that is used again, by the arena allocators and by  *)
(* the CK FIFO, whose modules share no name.                               *)
(*                                                                         *)
(* The two arena allocators: for any number of tasks, threads and CPUs,    *)
(* any page size and any request sizes.  First what user space promises by *)
(* itself; then who may cut objects from a page and what its counter says, *)
(* page by page, for as long as no accident has befallen the page; then    *)
(* how the offset of a CPU moves.                                          *)
(*                                                                         *)
(* The CK FIFO, which recycles its entries itself: for every arena, every  *)
(* set of items and every number of steps that verify makes.               *)
(***************************************************************************)
EXTENDS ArenaAlloc, CkFifo, RingArith, FiniteSetTheorems, SequenceTheorems,
        WellFoundedInduction, TLAPS

\* The cells of a page lie below those of every later page.
LEMMA PagesApart ==
  ASSUME NEW p \in Int, NEW q \in Int, p < q
  PROVE  p * PageCells + Slots < q * PageCells
<1>1. PageCells \in Int /\ PageCells > 0 /\ PageCells = Slots + 1
  BY CellAssumption DEF PageCells
<1>2. q * PageCells = p * PageCells + (q - p) * PageCells
  BY <1>1
<1>3. (q - p) * PageCells = PageCells + (q - p - 1) * PageCells
  BY <1>1
<1>4. (q - p - 1) * PageCells >= 0
  BY <1>1
<1>5. p * PageCells \in Int /\ q * PageCells \in Int /\ (q - p - 1) * PageCells \in Int
      /\ Slots \in Int
  BY <1>1, CellAssumption
<1> QED BY <1>1, <1>2, <1>3, <1>4, <1>5
----------------------------------------------------------------------------
(* The user-space allocator *)

\* The steps of a kernel allocation that has its page, from the moment the page is
\* the current one on, and those of an allocation in user space.
Cutting == {"setOffset", "setCount", "offset", "count", "store", "cut"}
KernelSteps == Cutting \cup {"setPage"}
UserSteps == {"ucount", "ustore"}
Requested == Holding \cup {"refill"}
CallSteps == Requested \cup {"idle", "free", "release"}
Owner == Cpu \cup {"user", "globals"}

(* What a call carries, and the objects user space has cut: they lie at or above *)
(* the offset in the page it cuts from, and nowhere in the pages it has yet to take. *)
CallInv(t) ==
  /\ task[t].pc \in Requested => task[t].size \in Sizes /\ task[t].id \in 1 .. allocs
  /\ task[t].pc \in KernelSteps \cup {"refill"} => t \in KernelTask
  /\ task[t].pc \in Holding \cup {"free", "release"} => task[t].page \in Page
  /\ task[t].pc \in Cutting => curPage[cpuOf[t]] # NoPage
  /\ task[t].pc \in UserSteps =>
       /\ lock /\ task[t].page = userPage
       /\ task[t].offset >= 0 /\ task[t].offset + task[t].size = userOffset

CallsInv == \A t \in Task : CallInv(t)

OneUserCall ==
  \A t, u \in Task : task[t].pc \in UserSteps /\ task[u].pc \in UserSteps => t = u

UserObjectsInv ==
  /\ nextPage > userPage
  /\ \A o \in live : o.owner = "user" =>
       /\ Inside(o) /\ o.page < nextPage
       /\ o.page = userPage => o.addr >= userPage * PageCells + userOffset
  /\ \A a, b \in live : a.owner = "user" /\ b.owner = "user" => ~Overlap(a, b)

UserInv == ArenaTypeOK /\ CallsInv /\ OneUserCall /\ UserObjectsInv

\* What one step does to the calls: it changes the call of one task only, which it
\* moves on to another step with the page p, the counter s and the offset f.
Others(t) == \A u \in Task \ {t} : task'[u] = task[u]

Moved(t, pc, p, s, f) ==
  /\ task' \in [Task -> CallRecord] /\ Others(t)
  /\ task'[t].pc = pc /\ task'[t].page = p /\ task'[t].seen = s /\ task'[t].offset = f
  /\ task'[t].size = task[t].size /\ task'[t].id = task[t].id

LEMMA CallSet ==
  ASSUME task \in [Task -> CallRecord], NEW t \in Task, NEW k \in CallRecord,
         task' = [task EXCEPT ![t] = k]
  PROVE  task' \in [Task -> CallRecord] /\ task'[t] = k /\ Others(t)
  BY DEF Others

LEMMA IdleCall == Idle \in CallRecord
  BY BoundAssumption DEF Idle, CallRecord, NoPage

LEMMA CallFields ==
  ASSUME UserInv, NEW t \in Task
  PROVE  /\ task[t] \in CallRecord /\ task[t].pc \in CallSteps /\ task[t].page \in Page \cup {NoPage}
         /\ task[t].size \in Nat /\ task[t].seen \in Nat /\ task[t].offset \in Int
  BY DEF UserInv, ArenaTypeOK, CallRecord, CallSteps, Requested

LEMMA CallMoved ==
  ASSUME UserInv, NEW t \in Task, NEW pc \in CallSteps, NEW p \in Page \cup {NoPage}, NEW s \in Nat, NEW f \in Int,
         NEW k, k = [task[t] EXCEPT !.pc = pc, !.page = p, !.seen = s, !.offset = f],
         task' = [task EXCEPT ![t] = k]
  PROVE  Moved(t, pc, p, s, f)
<1>1. task[t] \in CallRecord
  BY CallFields
<1>2. /\ k \in CallRecord /\ k.pc = pc /\ k.page = p /\ k.seen = s /\ k.offset = f
      /\ k.size = task[t].size /\ k.id = task[t].id
  BY <1>1 DEF CallRecord, CallSteps, Requested
<1>3. task' \in [Task -> CallRecord] /\ task'[t] = k /\ Others(t)
  BY <1>2, CallSet DEF UserInv, ArenaTypeOK
<1> QED BY <1>2, <1>3 DEF Moved

\* The shapes of such a step in the actions.
LEMMA PcMoved ==
  ASSUME UserInv, NEW t \in Task, NEW pc \in CallSteps, task' = [task EXCEPT ![t].pc = pc]
  PROVE  Moved(t, pc, task[t].page, task[t].seen, task[t].offset)
<1> DEFINE k == [task[t] EXCEPT !.pc = pc, !.page = task[t].page, !.seen = task[t].seen,
                                !.offset = task[t].offset]
<1>1. task \in [Task -> CallRecord]
  BY DEF UserInv, ArenaTypeOK
<1>2. [task[t] EXCEPT !.pc = pc] = k
  BY CallFields DEF CallRecord
<1>3. task' = [task EXCEPT ![t] = k]
  BY <1>1, <1>2
<1> QED BY <1>3, CallFields, CallMoved

LEMMA PageMoved ==
  ASSUME UserInv, NEW t \in Task, NEW pc \in CallSteps, NEW p \in Page,
         task' = [task EXCEPT ![t].pc = pc, ![t].page = p]
  PROVE  Moved(t, pc, p, task[t].seen, task[t].offset)
<1> DEFINE k == [task[t] EXCEPT !.pc = pc, !.page = p, !.seen = task[t].seen, !.offset = task[t].offset]
<1>1. task \in [Task -> CallRecord]
  BY DEF UserInv, ArenaTypeOK
<1>2. [task[t] EXCEPT !.pc = pc, !.page = p] = k
  BY CallFields DEF CallRecord
<1>3. task' = [task EXCEPT ![t] = k]
  BY <1>1, <1>2
<1> QED BY <1>3, CallFields, CallMoved

LEMMA OffsetMoved ==
  ASSUME UserInv, NEW t \in Task, NEW pc \in CallSteps, NEW f \in Int,
         task' = [task EXCEPT ![t].pc = pc, ![t].offset = f]
  PROVE  Moved(t, pc, task[t].page, task[t].seen, f)
<1> DEFINE k == [task[t] EXCEPT !.pc = pc, !.page = task[t].page, !.seen = task[t].seen, !.offset = f]
<1>1. task \in [Task -> CallRecord]
  BY DEF UserInv, ArenaTypeOK
<1>2. [task[t] EXCEPT !.pc = pc, !.offset = f] = k
  BY CallFields DEF CallRecord
<1>3. task' = [task EXCEPT ![t] = k]
  BY <1>1, <1>2
<1> QED BY <1>3, CallFields, CallMoved

LEMMA SeenMoved ==
  ASSUME UserInv, NEW t \in Task, NEW pc \in CallSteps, NEW s \in Nat,
         task' = [task EXCEPT ![t].pc = pc, ![t].seen = s]
  PROVE  Moved(t, pc, task[t].page, s, task[t].offset)
<1> DEFINE k == [task[t] EXCEPT !.pc = pc, !.page = task[t].page, !.seen = s, !.offset = task[t].offset]
<1>1. task \in [Task -> CallRecord]
  BY DEF UserInv, ArenaTypeOK
<1>2. [task[t] EXCEPT !.pc = pc, !.seen = s] = k
  BY CallFields DEF CallRecord
<1>3. task' = [task EXCEPT ![t] = k]
  BY <1>1, <1>2
<1> QED BY <1>3, CallFields, CallMoved

LEMMA BeginCall ==
  ASSUME UserInv, NEW t \in KernelTask, NEW size \in Sizes, KernelAllocBegin(t, size)
  PROVE  /\ task' \in [Task -> CallRecord] /\ Others(t)
         /\ task'[t].pc = IF curPage[cpuOf[t]] = NoPage \/ Exhausted(curOffset[cpuOf[t]], size)
                          THEN "refill" ELSE "offset"
         /\ task'[t].page = curPage[cpuOf[t]] /\ task'[t].size = size
         /\ task'[t].id = allocs + 1
<1> DEFINE full == curPage[cpuOf[t]] = NoPage \/ Exhausted(curOffset[cpuOf[t]], size)
           pc == IF full THEN "refill" ELSE "offset"
           k == [Idle EXCEPT !.pc = pc, !.page = curPage[cpuOf[t]], !.size = size, !.id = allocs + 1]
<1>1. task' = [task EXCEPT ![t] = k]
  BY DEF KernelAllocBegin
<1>2. /\ allocs + 1 \in 0 .. MaxAllocs /\ size \in Nat /\ curPage[cpuOf[t]] \in Page \cup {NoPage}
      /\ pc \in {"refill", "offset"}
  BY CellAssumption, BoundAssumption DEF KernelAllocBegin, UserInv, ArenaTypeOK
<1> HIDE DEF pc
<1>3. /\ k \in CallRecord /\ k.pc = pc /\ k.page = curPage[cpuOf[t]] /\ k.size = size
      /\ k.id = allocs + 1
  BY <1>2, IdleCall DEF CallRecord, Holding
<1> HIDE DEF k
<1>4. task' \in [Task -> CallRecord] /\ task'[t] = k /\ Others(t)
  BY <1>1, <1>3, CallSet DEF UserInv, ArenaTypeOK, Task
<1> QED BY <1>3, <1>4 DEF pc

LEMMA RefillCall ==
  ASSUME UserInv, NEW t \in KernelTask, NEW p \in Page,
         task' = [task EXCEPT ![t].pc = "setPage", ![t].page = p]
  PROVE  Moved(t, "setPage", p, task[t].seen, task[t].offset)
<1>1. t \in Task /\ "setPage" \in CallSteps
  BY DEF Task, CallSteps, Requested, Holding
<1> QED BY <1>1, PageMoved

\* The steps between the refill and the cut: the call keeps its page and its size.
KernelMove(t) ==
  \/ KernelSetPage(t) \/ KernelSetOffset(t) \/ KernelSetCount(t)
  \/ KernelAllocOffset(t) \/ KernelAllocCount(t) \/ KernelAllocStore(t)

LEMMA CounterType ==
  ASSUME ArenaTypeOK, NEW p \in Page
  PROVE  Counter(p) \in Nat
  BY CellAssumption DEF ArenaTypeOK, Counter

LEMMA KernelMoved ==
  ASSUME UserInv, NEW t \in KernelTask, KernelMove(t)
  PROVE  /\ t \in Task /\ task' \in [Task -> CallRecord] /\ Others(t)
         /\ task[t].pc \in KernelSteps \ {"cut"} /\ task'[t].pc \in Cutting
         /\ task[t].pc = "setPage" => task'[t].pc = "setOffset" /\ task'[t].offset = curOffset[cpuOf[t]]
         /\ task[t].pc # "setPage" => task'[t].pc # "setOffset"
         /\ task[t].pc = "store" <=> task'[t].pc = "cut"
         /\ task'[t].page = task[t].page /\ task'[t].size = task[t].size /\ task'[t].id = task[t].id
         /\ UNCHANGED <<cpuOf, userVars, live, allocs, doubled>>
<1>0. /\ t \in Task /\ cpuOf[t] \in Cpu /\ curOffset[cpuOf[t]] \in Int /\ ArenaTypeOK
      /\ Slots \in Int /\ task[t].size \in Int
  BY CallFields, CellAssumption DEF Task, UserInv, ArenaTypeOK
<1>1. CASE KernelSetPage(t)
  <2>1. Moved(t, "setOffset", task[t].page, task[t].seen, curOffset[cpuOf[t]])
    <3>1. "setOffset" \in CallSteps
      BY DEF CallSteps, Requested, Holding
    <3> QED BY <1>0, <1>1, <3>1, OffsetMoved DEF KernelSetPage
  <2> QED BY <1>0, <1>1, <2>1 DEF KernelSetPage, Moved, KernelSteps, Cutting
<1>2. CASE KernelSetOffset(t)
  <2>1. Moved(t, "setCount", task[t].page, task[t].seen, task[t].offset)
    <3>1. "setCount" \in CallSteps
      BY DEF CallSteps, Requested, Holding
    <3> QED BY <1>0, <1>2, <3>1, PcMoved DEF KernelSetOffset
  <2> QED BY <1>0, <1>2, <2>1 DEF KernelSetOffset, Moved, KernelSteps, Cutting
<1>3. CASE KernelSetCount(t)
  <2>0. "offset" \in CallSteps /\ "count" \in CallSteps /\ Slots - task[t].size \in Int
    BY <1>0 DEF CallSteps, Requested, Holding
  <2>1. \/ Moved(t, "offset", task[t].page, task[t].seen, task[t].offset)
        \/ Moved(t, "count", task[t].page, task[t].seen, Slots - task[t].size)
    BY <1>0, <1>3, <2>0, PcMoved, OffsetMoved DEF KernelSetCount
  <2> QED BY <1>0, <1>3, <2>1 DEF KernelSetCount, Moved, KernelSteps, Cutting
<1>4. CASE KernelAllocOffset(t)
  <2>0. "count" \in CallSteps /\ curOffset[cpuOf[t]] - task[t].size \in Int
    BY <1>0 DEF CallSteps, Requested, Holding
  <2>1. Moved(t, "count", task[t].page, task[t].seen, curOffset[cpuOf[t]] - task[t].size)
    BY <1>0, <1>4, <2>0, OffsetMoved DEF KernelAllocOffset
  <2> QED BY <1>0, <1>4, <2>1 DEF KernelAllocOffset, Moved, KernelSteps, Cutting, histVars
<1>5. CASE KernelAllocCount(t)
  <2>0. "store" \in CallSteps /\ Counter(task[t].page) \in Nat
    <3>1. task[t].page \in Page
      BY <1>0, <1>5 DEF KernelAllocCount, UserInv, CallsInv, CallInv, Holding
    <3> QED BY <1>0, <3>1, CounterType DEF CallSteps, Requested, Holding
  <2>1. Moved(t, "store", task[t].page, Counter(task[t].page), task[t].offset)
    BY <1>0, <1>5, <2>0, SeenMoved DEF KernelAllocCount
  <2> QED BY <1>0, <1>5, <2>1 DEF KernelAllocCount, Moved, KernelSteps, Cutting, histVars
<1>6. CASE KernelAllocStore(t)
  <2>0. "cut" \in CallSteps
    BY DEF CallSteps, Requested, Holding
  <2>1. Moved(t, "cut", task[t].page, task[t].seen, task[t].offset)
    BY <1>0, <1>6, <2>0, PcMoved DEF KernelAllocStore
  <2> QED BY <1>0, <1>6, <2>1 DEF KernelAllocStore, Moved, KernelSteps, Cutting
<1> QED BY <1>1, <1>2, <1>3, <1>4, <1>5, <1>6 DEF KernelMove

LEMMA UserBeginCall ==
  ASSUME UserInv, NEW t \in UserTask, NEW size \in Sizes, UserAllocBegin(t, size)
  PROVE  /\ task' \in [Task -> CallRecord] /\ Others(t)
         /\ task'[t].pc = "ucount" /\ task'[t].page = userPage' /\ task'[t].size = size
         /\ task'[t].offset = userOffset' - size /\ task'[t].id = allocs + 1
         /\ userPage' \in Page /\ userOffset' \in 0 .. Slots /\ userOffset' >= size
<1> DEFINE k == [Idle EXCEPT !.pc = "ucount", !.page = userPage', !.size = size,
                             !.offset = userOffset' - size, !.id = allocs + 1]
<1>1. task' = [task EXCEPT ![t] = k]
  BY DEF UserAllocBegin
<1>2. allocs + 1 \in 0 .. MaxAllocs /\ size \in Nat
  BY CellAssumption, BoundAssumption DEF UserAllocBegin, UserInv, ArenaTypeOK
<1>3. userPage' \in Page /\ userOffset' \in 0 .. Slots /\ userOffset' >= size
  BY CellAssumption DEF UserAllocBegin, UserNeedsPage, TooLarge, UserInv, ArenaTypeOK, NoPage
<1>4. userOffset' - size \in Int
  BY <1>2, <1>3, CellAssumption
<1>5. /\ k \in CallRecord /\ k.pc = "ucount" /\ k.page = userPage' /\ k.size = size
      /\ k.offset = userOffset' - size /\ k.id = allocs + 1
  BY <1>2, <1>3, <1>4, IdleCall DEF CallRecord, Holding
<1> HIDE DEF k
<1>6. task' \in [Task -> CallRecord] /\ task'[t] = k /\ Others(t)
  BY <1>1, <1>5, CallSet DEF UserInv, ArenaTypeOK, Task
<1> QED BY <1>3, <1>5, <1>6

LEMMA UserCountCall ==
  ASSUME UserInv, NEW t \in UserTask, UserAllocCount(t)
  PROVE  t \in Task /\ Moved(t, "ustore", task[t].page, Counter(task[t].page), task[t].offset)
<1>1. t \in Task /\ "ustore" \in CallSteps /\ task[t].page \in Page
  BY DEF Task, CallSteps, Requested, Holding, UserAllocCount, UserInv, CallsInv, CallInv
<1>2. Counter(task[t].page) \in Nat
  BY <1>1, CounterType DEF UserInv
<1> QED BY <1>1, <1>2, SeenMoved DEF UserAllocCount

LEMMA FreeCall ==
  ASSUME UserInv, NEW t \in Task, NEW o \in live, FreeBegin(t, o)
  PROVE  /\ task' \in [Task -> CallRecord] /\ Others(t)
         /\ PageOf(o.addr) \in Page
         /\ \/ t \in UserTask /\ Counter(PageOf(o.addr)) = 0 /\ task' = task
            \/ /\ task'[t].pc = "free" /\ task'[t].page = PageOf(o.addr)
               /\ task'[t].seen = Counter(PageOf(o.addr))
<1> DEFINE p == PageOf(o.addr)
           k == [Idle EXCEPT !.pc = "free", !.page = p, !.seen = Counter(p)]
<1>1. p \in Page
  BY DEF FreeBegin
<1>2. Counter(p) \in Nat
  BY <1>1, CounterType DEF UserInv
<1>3. \/ t \in UserTask /\ Counter(p) = 0 /\ task' = task
      \/ task' = [task EXCEPT ![t] = k]
  BY DEF FreeBegin
<1> HIDE DEF p
<1>4. k \in CallRecord /\ k.pc = "free" /\ k.page = p /\ k.seen = Counter(p)
  BY <1>1, <1>2, IdleCall DEF CallRecord
<1> HIDE DEF k
<1>5. CASE t \in UserTask /\ Counter(p) = 0 /\ task' = task
  BY <1>1, <1>5 DEF Others, UserInv, ArenaTypeOK, p
<1>6. CASE task' = [task EXCEPT ![t] = k]
  <2>1. task' \in [Task -> CallRecord] /\ task'[t] = k /\ Others(t)
    BY <1>4, <1>6, CallSet DEF UserInv, ArenaTypeOK
  <2> QED BY <1>1, <1>4, <2>1 DEF p
<1> QED BY <1>3, <1>5, <1>6

LEMMA EndCall ==
  ASSUME UserInv, NEW t \in Task, task' = [task EXCEPT ![t] = Idle]
  PROVE  task' \in [Task -> CallRecord] /\ Others(t) /\ task'[t].pc = "idle"
<1>1. task' \in [Task -> CallRecord] /\ task'[t] = Idle /\ Others(t)
  BY IdleCall, CallSet DEF UserInv, ArenaTypeOK
<1> QED BY <1>1 DEF Idle

LEMMA FreeStoreCall ==
  ASSUME UserInv, NEW t \in Task, FreeStore(t)
  PROVE  /\ task' \in [Task -> CallRecord] /\ Others(t) /\ task[t].pc = "free"
         /\ task[t].page \in Page /\ task[t].seen \in Nat
         /\ \/ /\ t \in KernelTask /\ LastObject(Decrement(task[t].seen))
               /\ doubled' = doubled \cup ({task[t].page} \cap Current)
               /\ task'[t].pc = "release" /\ task'[t].page = task[t].page
            \/ /\ ~(t \in KernelTask /\ LastObject(Decrement(task[t].seen)))
               /\ doubled' = doubled /\ task'[t].pc = "idle"
<1>0. task[t].pc = "free" /\ task[t].page \in Page /\ task[t].seen \in Nat
  BY CallFields DEF FreeStore, UserInv, CallsInv, CallInv
<1>1. CASE t \in KernelTask /\ LastObject(Decrement(task[t].seen))
  <2>1. /\ task' = [task EXCEPT ![t].pc = "release"] /\ "release" \in CallSteps
        /\ doubled' = doubled \cup ({task[t].page} \cap Current)
    BY <1>1 DEF FreeStore, CallSteps
  <2>2. Moved(t, "release", task[t].page, task[t].seen, task[t].offset)
    BY <2>1, PcMoved
  <2> QED BY <1>0, <1>1, <2>1, <2>2 DEF Moved
<1>2. CASE ~(t \in KernelTask /\ LastObject(Decrement(task[t].seen)))
  <2>1. task' = [task EXCEPT ![t] = Idle] /\ doubled' = doubled
    BY <1>2 DEF FreeStore
  <2> QED BY <1>0, <1>2, <2>1, EndCall
<1> QED BY <1>1, <1>2

LEMMA ObjectTyped ==
  ASSUME UserInv, NEW t \in Task, task[t].pc \in {"cut", "ustore"}, NEW w \in Cpu \cup {"user"}
  PROVE  /\ Object(t, w) \in ObjectRecord
         /\ Object(t, w).addr = task[t].page * PageCells + task[t].offset
         /\ Object(t, w).size = task[t].size /\ Object(t, w).page = task[t].page
         /\ Object(t, w).owner = w /\ Object(t, w).id = task[t].id
         /\ task[t].page \in Page /\ task[t].size \in Sizes /\ task[t].offset \in Int
<1>1. /\ task[t].page \in Page /\ task[t].size \in Sizes /\ task[t].offset \in Int
      /\ task[t].id \in 1 .. MaxAllocs
  BY BoundAssumption DEF UserInv, ArenaTypeOK, CallsInv, CallInv, CallRecord, Requested, Holding
<1>2. task[t].page * PageCells + task[t].offset \in Int
  BY <1>1, CellAssumption, PageAssumption DEF PageCells, Page
<1> QED BY <1>1, <1>2 DEF Object, ObjectRecord

LEMMA CounterRange ==
  ASSUME NEW n \in Nat
  PROVE  /\ Increment(n) \in 0 .. Modulus - 1 /\ Decrement(n) \in 0 .. Modulus - 1
         /\ 0 \in 0 .. Modulus - 1
<1>1. (n + 1) % Modulus \in 0 .. Modulus - 1 /\ (n - 1) % Modulus \in 0 .. Modulus - 1
  BY CellAssumption
<1>2. 0 \in 0 .. Modulus - 1
  BY CellAssumption
<1> QED BY <1>1, <1>2 DEF Increment, Decrement

LEMMA CounterStored ==
  ASSUME ArenaTypeOK, NEW t, NEW p \in Page, NEW n \in 0 .. Modulus - 1, SetCounter(t, p, n)
  PROVE  /\ mapped' \subseteq Page /\ mapped \subseteq mapped' /\ cnt' \in [Page -> 0 .. Modulus - 1]
         /\ p \in mapped => cnt'[p] = n
         /\ \A q \in Page \ {p} : cnt'[q] = cnt[q]
  BY DEF ArenaTypeOK, SetCounter, Touched

LEMMA TypeMove ==
  ASSUME UserInv, NEW t \in KernelTask, KernelMove(t) PROVE ArenaTypeOK'
<1>0. /\ t \in Task /\ cpuOf[t] \in Cpu /\ task[t].page \in Page /\ task[t].seen \in Nat
      /\ curPage \in [Cpu -> Page \cup {NoPage}] /\ curOffset \in [Cpu -> Int] /\ torn \subseteq Page
      /\ skewed \subseteq Page /\ cnt \in [Page -> 0 .. Modulus - 1] /\ mapped \subseteq Page /\ ArenaTypeOK
      /\ Slots \in Int
  BY KernelMoved, CallFields, CellAssumption
  DEF UserInv, ArenaTypeOK, CallsInv, CallInv, KernelSteps, Cutting, Holding
<1>1. /\ task' \in [Task -> CallRecord] /\ UNCHANGED <<cpuOf, userVars, live, allocs, doubled>>
  BY KernelMoved
<1>2. curPage' \in [Cpu -> Page \cup {NoPage}] /\ curOffset' \in [Cpu -> Int] /\ torn' \subseteq Page
  <2>1. CASE KernelSetPage(t)
    BY <1>0, <2>1 DEF KernelSetPage
  <2>2. CASE KernelSetOffset(t)
    <3>1. curPage[cpuOf[t]] \in Page
      BY <1>0, <2>2 DEF KernelSetOffset, UserInv, CallsInv, CallInv, Cutting
    <3> QED BY <1>0, <2>2, <3>1 DEF KernelSetOffset
  <2>3. CASE UNCHANGED <<kernelVars, torn>>
    BY <1>0, <2>3 DEF kernelVars
  <2> QED BY <2>1, <2>2, <2>3
      DEF KernelMove, KernelSetCount, KernelAllocOffset, KernelAllocCount, KernelAllocStore, histVars
<1>3. mapped' \subseteq Page /\ cnt' \in [Page -> 0 .. Modulus - 1] /\ skewed' \subseteq Page
  <2>1. CASE KernelSetCount(t)
    <3>1. SetCounter(t, task[t].page, 0) /\ 0 \in 0 .. Modulus - 1
      BY <1>0, <2>1, CounterRange DEF KernelSetCount
    <3> QED BY <1>0, <2>1, <3>1, CounterStored DEF KernelSetCount
  <2>2. CASE KernelAllocStore(t)
    <3>1. /\ SetCounter(t, task[t].page, Increment(task[t].seen))
          /\ Increment(task[t].seen) \in 0 .. Modulus - 1
      BY <1>0, <2>2, CounterRange DEF KernelAllocStore
    <3> QED BY <1>0, <2>2, <3>1, CounterStored DEF KernelAllocStore, Skews
  <2>3. CASE UNCHANGED <<pageVars, skewed>>
    BY <1>0, <2>3 DEF pageVars
  <2> QED BY <2>1, <2>2, <2>3
      DEF KernelMove, KernelSetPage, KernelSetOffset, KernelAllocOffset, KernelAllocCount, histVars
<1> QED BY <1>0, <1>1, <1>2, <1>3 DEF ArenaTypeOK, userVars

LEMMA TypeStep ==
  ASSUME UserInv, [ArenaNext]_arenaVars PROVE ArenaTypeOK'
<1> USE PageAssumption, CellAssumption, BoundAssumption DEF UserInv, ArenaTypeOK, pageVars, kernelVars, userVars, histVars
<1>1. ASSUME NEW t \in KernelTask, NEW size \in Sizes, KernelAllocBegin(t, size) PROVE ArenaTypeOK'
  <2>1. task' \in [Task -> CallRecord]
    BY <1>1, BeginCall
  <2>2. allocs' \in 0 .. MaxAllocs
    BY <1>1 DEF KernelAllocBegin
  <2> QED BY <1>1, <2>1, <2>2 DEF KernelAllocBegin
<1>2. ASSUME NEW t \in KernelTask, KernelRefill(t) PROVE ArenaTypeOK'
  <2>1. ASSUME NEW p \in Page \ mapped, mapped' = mapped \cup {p}, cnt' = [cnt EXCEPT ![p] = 0],
               task' = [task EXCEPT ![t].pc = "setPage", ![t].page = p]
        PROVE  ArenaTypeOK'
    <3>1. task' \in [Task -> CallRecord]
      BY <2>1, RefillCall DEF Moved
    <3>2. mapped' \subseteq Page /\ cnt' \in [Page -> 0 .. Modulus - 1]
      BY <2>1
    <3> QED BY <1>2, <3>1, <3>2 DEF KernelRefill
  <2>2. ASSUME task' = [task EXCEPT ![t] = Idle], UNCHANGED pageVars PROVE ArenaTypeOK'
    BY <1>2, <2>2, EndCall DEF KernelRefill, Task
  <2> QED BY <1>2, <2>1, <2>2 DEF KernelRefill
<1>3. ASSUME NEW t \in KernelTask, KernelMove(t) PROVE ArenaTypeOK'
  BY <1>3, TypeMove
<1>4. ASSUME NEW t \in KernelTask, KernelAllocCut(t) PROVE ArenaTypeOK'
  <2>1. t \in Task /\ task[t].pc = "cut" /\ cpuOf[t] \in Cpu
    BY <1>4 DEF KernelAllocCut, Task
  <2>2. task' \in [Task -> CallRecord]
    BY <1>4, <2>1, EndCall DEF KernelAllocCut
  <2>3. Object(t, cpuOf[t]) \in ObjectRecord /\ task[t].page \in Page /\ task[t].offset \in Int
    BY <2>1, ObjectTyped
  <2>4. torn' \subseteq Page
    <3>1. curPage[cpuOf[t]] \in Page
      BY <2>1 DEF CallsInv, CallInv, Cutting
    <3> QED BY <1>4, <2>3, <3>1 DEF KernelAllocCut, Tears
  <2> QED BY <1>4, <2>1, <2>2, <2>3, <2>4 DEF KernelAllocCut
<1>5. ASSUME NEW t \in UserTask, NEW size \in Sizes, UserAllocBegin(t, size) PROVE ArenaTypeOK'
  <2>1. task' \in [Task -> CallRecord] /\ userPage' \in Page /\ userOffset' \in 0 .. Slots
    BY <1>5, UserBeginCall
  <2>2. nextPage' \in Nat /\ doubled' \subseteq Page /\ lock' \in BOOLEAN /\ allocs' \in 0 .. MaxAllocs
    BY <1>5 DEF UserAllocBegin
  <2>3. mapped' \subseteq Page /\ cnt' \in [Page -> 0 .. Modulus - 1]
    <3>1. CASE UserNeedsPage(size)
      <4>1. nextPage \in Page /\ SetCounter(t, nextPage, 0) /\ 0 \in 0 .. Modulus - 1
        BY <1>5, <3>1, CounterRange DEF UserAllocBegin
      <4> QED BY <4>1, CounterStored
    <3>2. CASE ~UserNeedsPage(size)
      BY <1>5, <3>2 DEF UserAllocBegin
    <3> QED BY <3>1, <3>2
  <2> QED BY <1>5, <2>1, <2>2, <2>3 DEF UserAllocBegin
<1>6. ASSUME NEW t \in UserTask, UserAllocCount(t) PROVE ArenaTypeOK'
  <2>1. task' \in [Task -> CallRecord] /\ t \in Task
    BY <1>6, UserCountCall DEF Moved
  <2>2. mapped' \subseteq Page
    BY <1>6, <2>1 DEF UserAllocCount, Touched, CallsInv, CallInv, Holding
  <2> QED BY <1>6, <2>1, <2>2 DEF UserAllocCount
<1>7. ASSUME NEW t \in UserTask, UserAllocStore(t) PROVE ArenaTypeOK'
  <2>1. t \in Task /\ task[t].pc = "ustore" /\ task[t].seen \in Nat
    BY <1>7 DEF UserAllocStore, Task, CallRecord
  <2>2. task' \in [Task -> CallRecord]
    BY <1>7, <2>1, EndCall DEF UserAllocStore
  <2>3. /\ Object(t, "user") \in ObjectRecord /\ task[t].page \in Page /\ task[t].offset \in Int
        /\ task[t].size \in Nat
    BY <2>1, ObjectTyped
  <2>4. mapped' \subseteq Page /\ cnt' \in [Page -> 0 .. Modulus - 1]
    <3>1. SetCounter(t, task[t].page, Increment(task[t].seen)) /\ Increment(task[t].seen) \in 0 .. Modulus - 1
      BY <1>7, <2>1, CounterRange DEF UserAllocStore
    <3> QED BY <2>3, <3>1, CounterStored
  <2>5. skewed' \subseteq Page
    BY <1>7, <2>3 DEF UserAllocStore, Skews
  <2>6. userOffset' \in 0 .. Slots
    BY <1>7, <2>1, <2>3 DEF UserAllocStore, CallsInv, CallInv, UserSteps
  <2> QED BY <1>7, <2>1, <2>2, <2>3, <2>4, <2>5, <2>6 DEF UserAllocStore
<1>8. ASSUME NEW t \in Task, NEW o \in live, FreeBegin(t, o) PROVE ArenaTypeOK'
  <2>1. PageOf(o.addr) \in Page /\ o.page \in Page
    BY <1>8 DEF FreeBegin, ObjectRecord
  <2>2. mapped' \subseteq Page /\ skewed' \subseteq Page
    BY <1>8, <2>1 DEF FreeBegin, Touched
  <2> QED BY <1>8, <2>2, FreeCall DEF FreeBegin
<1>9. ASSUME NEW t \in Task, FreeStore(t) PROVE ArenaTypeOK'
  <2>1. /\ task[t].seen \in Nat /\ task[t].page \in Page /\ task' \in [Task -> CallRecord]
        /\ doubled' \subseteq Page
    BY <1>9, FreeStoreCall
  <2>2. mapped' \subseteq Page /\ cnt' \in [Page -> 0 .. Modulus - 1]
    <3>1. SetCounter(t, task[t].page, Decrement(task[t].seen)) /\ Decrement(task[t].seen) \in 0 .. Modulus - 1
      BY <1>9, <2>1, CounterRange DEF FreeStore
    <3> QED BY <2>1, <3>1, CounterStored
  <2>3. skewed' \subseteq Page
    BY <1>9, <2>1 DEF FreeStore, Skews
  <2> QED BY <1>9, <2>1, <2>2, <2>3 DEF FreeStore
<1>10. ASSUME NEW t \in Task, FreeRelease(t) PROVE ArenaTypeOK'
  <2>1. task' \in [Task -> CallRecord]
    BY <1>10, EndCall DEF FreeRelease
  <2>2. mapped' \subseteq Page /\ cnt' \in [Page -> 0 .. Modulus - 1]
    <3>1. 0 \in 0 .. Modulus - 1 /\ cnt' = [cnt EXCEPT ![task[t].page] = 0] /\ mapped' \subseteq mapped
      BY <1>10, CounterRange DEF FreeRelease
    <3> QED BY <3>1
  <2> QED BY <1>10, <2>1, <2>2 DEF FreeRelease
<1>11. CASE UNCHANGED arenaVars
  BY <1>11 DEF arenaVars
<1> QED
  BY <1>1, <1>2, <1>3, <1>4, <1>5, <1>6, <1>7, <1>8, <1>9, <1>10, <1>11 DEF ArenaNext, KernelMove

LEMMA CallsStep ==
  ASSUME UserInv, [ArenaNext]_arenaVars PROVE CallsInv' /\ OneUserCall'
<1> DEFINE Goal == \A u \in Task : /\ CallInv(u)'
                                   /\ \A v \in Task : task'[u].pc \in UserSteps /\ task'[v].pc \in UserSteps => u = v
<1> SUFFICES Goal
  BY DEF CallsInv, OneUserCall
<1> USE DEF CallInv, Requested, Holding, KernelSteps, Cutting, UserSteps, UserInv,
            pageVars, kernelVars, userVars, histVars
<1>1. ASSUME NEW t \in KernelTask, NEW size \in Sizes, KernelAllocBegin(t, size) PROVE Goal
  <2>1. t \in Task /\ Others(t) /\ allocs \in Nat /\ task'[t].pc \in {"refill", "offset"}
    BY <1>1, BeginCall DEF Task, ArenaTypeOK
  <2>2. CallInv(t)'
    <3>1. /\ task'[t].pc = "offset" => curPage[cpuOf[t]] # NoPage
          /\ task'[t].page = curPage[cpuOf[t]] /\ task'[t].size = size
          /\ task'[t].id = allocs + 1
      BY <1>1, BeginCall
    <3>2. curPage[cpuOf[t]] \in Page \cup {NoPage}
      BY DEF ArenaTypeOK
    <3>3. curPage' = curPage /\ cpuOf' = cpuOf /\ allocs' = allocs + 1
      BY <1>1 DEF KernelAllocBegin
    <3> QED BY <2>1, <3>1, <3>2, <3>3
  <2>3. ASSUME NEW u \in Task \ {t} PROVE CallInv(u)'
    BY <1>1, <2>1, <2>3 DEF KernelAllocBegin, Others, CallsInv
  <2> QED BY <2>1, <2>2, <2>3 DEF Others, OneUserCall
<1>2. ASSUME NEW t \in KernelTask, KernelRefill(t) PROVE Goal
  <2>0. t \in Task /\ cpuOf \in [KernelTask -> Cpu]
    BY DEF Task, ArenaTypeOK
  <2>1. ASSUME NEW p \in Page \ mapped, task' = [task EXCEPT ![t].pc = "setPage", ![t].page = p]
        PROVE  Goal
    <3>1. /\ Others(t) /\ task'[t].pc = "setPage" /\ task'[t].page = p
          /\ task'[t].size = task[t].size /\ task'[t].id = task[t].id
      BY <2>1, RefillCall DEF Moved
    <3>2. CallInv(t)'
      BY <1>2, <2>0, <3>1 DEF KernelRefill, CallsInv
    <3>3. ASSUME NEW u \in Task \ {t} PROVE CallInv(u)'
      BY <1>2, <2>0, <3>1, <3>3 DEF KernelRefill, Others, CallsInv
    <3> QED BY <3>1, <3>2, <3>3 DEF Others, OneUserCall
  <2>2. ASSUME task' = [task EXCEPT ![t] = Idle] PROVE Goal
    <3>1. Others(t) /\ task'[t].pc = "idle"
      BY <2>0, <2>2, EndCall
    <3> QED BY <1>2, <2>2, <3>1 DEF KernelRefill, Others, CallsInv, OneUserCall
  <2> QED BY <1>2, <2>1, <2>2 DEF KernelRefill
<1>3. ASSUME NEW t \in KernelTask, KernelMove(t) PROVE Goal
  <2>1. /\ t \in Task /\ Others(t) /\ task[t].pc \in KernelSteps \ {"cut"} /\ task'[t].pc \in Cutting
        /\ task'[t].page = task[t].page /\ task'[t].size = task[t].size /\ task'[t].id = task[t].id
        /\ UNCHANGED <<cpuOf, userVars, live, allocs, doubled>>
    BY <1>3, KernelMoved
  <2>2. /\ \A c \in Cpu : curPage[c] # NoPage => curPage'[c] # NoPage
        /\ curPage'[cpuOf[t]] # NoPage
    <3>0. /\ cpuOf[t] \in Cpu /\ curPage \in [Cpu -> Page \cup {NoPage}] /\ NoPage \notin Page
          /\ task[t].page \in Page
      BY <2>1, PageAssumption DEF ArenaTypeOK, Page, NoPage, CallsInv
    <3>1. CASE KernelSetPage(t)
      BY <3>0, <3>1 DEF KernelSetPage
    <3>2. CASE ~KernelSetPage(t)
      <4>1. curPage' = curPage /\ task[t].pc # "setPage"
        BY <1>3, <3>2 DEF KernelMove, KernelSetOffset, KernelSetCount, KernelAllocOffset,
                          KernelAllocCount, KernelAllocStore
      <4> QED BY <2>1, <3>0, <4>1 DEF CallsInv
    <3> QED BY <3>1, <3>2
  <2>3. CallInv(t)'
    BY <2>1, <2>2 DEF CallsInv
  <2>4. ASSUME NEW u \in Task \ {t} PROVE CallInv(u)'
    <3>1. task'[u] = task[u] /\ CallInv(u) /\ (u \in KernelTask => cpuOf[u] \in Cpu)
      BY <2>1 DEF Others, CallsInv, ArenaTypeOK
    <3> QED BY <2>1, <2>2, <3>1
  <2> QED BY <2>1, <2>3, <2>4 DEF Others, OneUserCall
<1>4. ASSUME NEW t \in KernelTask, KernelAllocCut(t) PROVE Goal
  <2>1. Others(t) /\ t \in Task /\ task'[t].pc = "idle"
    BY <1>4, EndCall DEF Task, KernelAllocCut
  <2> QED BY <1>4, <2>1 DEF KernelAllocCut, Others, CallsInv, OneUserCall
<1>5. ASSUME NEW t \in UserTask, NEW size \in Sizes, UserAllocBegin(t, size) PROVE Goal
  <2>1. Others(t) /\ t \in Task /\ allocs \in Nat /\ task'[t].pc = "ucount"
    BY <1>5, UserBeginCall DEF Task, ArenaTypeOK
  <2>2. CallInv(t)'
    <3>1. /\ task'[t].page = userPage' /\ task'[t].size = size /\ task'[t].offset = userOffset' - size
          /\ task'[t].id = allocs + 1
          /\ userPage' \in Page /\ userOffset' \in 0 .. Slots /\ userOffset' >= size
      BY <1>5, UserBeginCall
    <3>2. lock' /\ allocs' = allocs + 1 /\ size \in Nat
      BY <1>5, CellAssumption DEF UserAllocBegin
    <3>3. task'[t].offset >= 0 /\ task'[t].offset + task'[t].size = userOffset'
      BY <3>1, <3>2, CellAssumption
    <3>4. task'[t].id \in 1 .. allocs'
      BY <2>1, <3>1, <3>2
    <3> QED BY <2>1, <3>1, <3>2, <3>3, <3>4
  <2>3. \A u \in Task \ {t} : task[u].pc \notin UserSteps
    BY <1>5 DEF UserAllocBegin, CallsInv
  <2>4. ASSUME NEW u \in Task \ {t} PROVE CallInv(u)'
    BY <1>5, <2>1, <2>3, <2>4 DEF UserAllocBegin, Others, CallsInv
  <2> QED BY <2>1, <2>2, <2>3, <2>4 DEF Others
<1>6. ASSUME NEW t \in UserTask, UserAllocCount(t) PROVE Goal
  <2>1. /\ t \in Task /\ Others(t) /\ task[t].pc = "ucount" /\ task'[t].pc = "ustore"
        /\ task'[t].page = task[t].page /\ task'[t].size = task[t].size /\ task'[t].id = task[t].id
        /\ task'[t].offset = task[t].offset
    BY <1>6, UserCountCall DEF Moved, UserAllocCount
  <2>2. CallInv(t)'
    BY <1>6, <2>1 DEF UserAllocCount, CallsInv
  <2>3. ASSUME NEW u \in Task \ {t} PROVE CallInv(u)'
    BY <1>6, <2>1, <2>3 DEF UserAllocCount, Others, CallsInv
  <2> QED BY <2>1, <2>2, <2>3 DEF Others, OneUserCall
<1>7. ASSUME NEW t \in UserTask, UserAllocStore(t) PROVE Goal
  <2>1. Others(t) /\ t \in Task /\ task'[t].pc = "idle"
    BY <1>7, EndCall DEF Task, UserAllocStore
  <2>2. \A u \in Task \ {t} : task[u].pc \notin UserSteps
    BY <1>7, <2>1 DEF UserAllocStore, OneUserCall
  <2> QED BY <1>7, <2>1, <2>2 DEF UserAllocStore, Others, CallsInv
<1>8. ASSUME NEW t \in Task, NEW o \in live, FreeBegin(t, o) PROVE Goal
  <2>1. Others(t) /\ (task' = task \/ (task'[t].pc = "free" /\ task'[t].page \in Page))
    BY <1>8, FreeCall
  <2> QED BY <1>8, <2>1 DEF FreeBegin, Others, CallsInv, OneUserCall
<1>9. ASSUME NEW t \in Task, FreeStore(t) PROVE Goal
  <2>1. Others(t) /\ (task'[t].pc = "idle" \/ (task'[t].pc = "release" /\ task'[t].page \in Page))
    BY <1>9, FreeStoreCall
  <2> QED BY <1>9, <2>1 DEF FreeStore, Others, CallsInv, OneUserCall
<1>10. ASSUME NEW t \in Task, FreeRelease(t) PROVE Goal
  <2>1. Others(t) /\ task'[t].pc = "idle"
    BY <1>10, EndCall DEF FreeRelease
  <2> QED BY <1>10, <2>1 DEF FreeRelease, Others, CallsInv, OneUserCall
<1>11. CASE UNCHANGED arenaVars
  BY <1>11 DEF arenaVars, CallsInv, OneUserCall
<1> QED
  BY <1>1, <1>2, <1>3, <1>4, <1>5, <1>6, <1>7, <1>8, <1>9, <1>10, <1>11 DEF ArenaNext, KernelMove

LEMMA ObjectFields ==
  ASSUME NEW o \in ObjectRecord
  PROVE  /\ o.addr \in Int /\ o.size \in Int /\ o.size > 0 /\ o.page \in Page /\ o.page \in Int
         /\ o.owner \in Cpu \cup {"user"} /\ o.id \in 1 .. MaxAllocs
<1>1. o.addr \in Int /\ o.size \in Sizes /\ o.page \in Page
  BY DEF ObjectRecord
<1>4. o.owner \in Cpu \cup {"user"}
  BY DEF ObjectRecord
<1>5. o.id \in 1 .. MaxAllocs
  BY DEF ObjectRecord
<1>2. o.size \in Int /\ o.size > 0
  <2>1. \A n \in Sizes : n \in Int /\ n > 0
    BY CellAssumption
  <2> QED BY <1>1, <2>1
<1>3. o.page \in Int
  BY <1>1, PageAssumption DEF Page
<1> QED BY <1>1, <1>2, <1>3, <1>4, <1>5

\* Objects inside two different pages do not overlap.
LEMMA InsideApart ==
  ASSUME NEW a \in ObjectRecord, NEW b \in ObjectRecord, Inside(a), Inside(b), a.page # b.page
  PROVE  ~Overlap(a, b)
<1>1. /\ a.page \in Int /\ b.page \in Int /\ a.addr \in Int /\ b.addr \in Int
      /\ a.size \in Int /\ b.size \in Int
  BY ObjectFields
<1>2. PageCells \in Int /\ Slots \in Int /\ a.page * PageCells \in Int /\ b.page * PageCells \in Int
  BY <1>1, CellAssumption DEF PageCells
<1>3. CASE a.page < b.page
  <2>1. a.page * PageCells + Slots < b.page * PageCells
    BY <1>1, <1>3, PagesApart
  <2> QED BY <1>1, <1>2, <2>1 DEF Inside, Overlap
<1>4. CASE b.page < a.page
  <2>1. b.page * PageCells + Slots < a.page * PageCells
    BY <1>1, <1>4, PagesApart
  <2> QED BY <1>1, <1>2, <2>1 DEF Inside, Overlap
<1> QED BY <1>1, <1>3, <1>4

LEMMA UserObjectsStep ==
  ASSUME UserInv, [ArenaNext]_arenaVars PROVE UserObjectsInv'
<1> USE DEF UserInv, pageVars, kernelVars, userVars, histVars
<1>0. /\ live \subseteq ObjectRecord /\ nextPage \in Nat /\ userPage \in Page \cup {NoPage}
      /\ userOffset \in 0 .. Slots /\ cpuOf \in [KernelTask -> Cpu]
  BY DEF ArenaTypeOK
<1>1. ASSUME UNCHANGED <<nextPage, userPage, userOffset>>,
             \A o \in live' : o \in live \/ o.owner # "user"
      PROVE  UserObjectsInv'
  BY <1>1 DEF UserObjectsInv, Inside
<1>2. ASSUME NEW t \in KernelTask, KernelAllocCut(t) PROVE UserObjectsInv'
  <2>1. Object(t, cpuOf[t]).owner # "user"
    BY <1>0, OwnerAssumption DEF Object
  <2> QED BY <1>1, <1>2, <2>1 DEF KernelAllocCut
<1>3. ASSUME NEW t \in UserTask, NEW size \in Sizes, UserAllocBegin(t, size) PROVE UserObjectsInv'
  <2>1. CASE ~UserNeedsPage(size)
    BY <1>1, <1>3, <2>1 DEF UserAllocBegin
  <2>2. CASE UserNeedsPage(size)
    <3>1. /\ nextPage \in Page /\ nextPage' = nextPage + 1 /\ userPage' = nextPage /\ live' = live
      BY <1>3, <2>2 DEF UserAllocBegin
    <3>2. \A o \in live : o.owner = "user" => o.page # nextPage /\ o.page < nextPage' /\ Inside(o)
      BY <1>0, <3>1, PageAssumption DEF UserObjectsInv, ObjectRecord, Page
    <3> QED BY <1>0, <3>1, <3>2 DEF UserObjectsInv, Inside
  <2> QED BY <2>1, <2>2
<1>4. ASSUME NEW t \in UserTask, UserAllocStore(t) PROVE UserObjectsInv'
  <2> DEFINE n == Object(t, "user")
  <2>1. t \in Task /\ task[t].pc = "ustore"
    BY <1>4 DEF Task, UserAllocStore
  <2>2. /\ n \in ObjectRecord /\ n.addr = task[t].page * PageCells + task[t].offset
        /\ n.size = task[t].size /\ n.page = task[t].page /\ n.owner = "user"
        /\ task[t].page \in Page /\ task[t].size \in Nat \ {0} /\ task[t].offset \in Int
    BY <2>1, ObjectTyped, CellAssumption
  <2>3. /\ task[t].page = userPage /\ task[t].offset >= 0
        /\ task[t].offset + task[t].size = userOffset
    BY <2>1 DEF CallsInv, CallInv, UserSteps
  <2>4. live' = live \cup {n} /\ UNCHANGED <<nextPage, userPage>> /\ userOffset' = task[t].offset
    BY <1>4 DEF UserAllocStore
  <2> HIDE DEF n
  <2>5. userPage \in Int /\ userPage * PageCells \in Int /\ Slots \in Int
    BY <2>2, <2>3, PageAssumption, CellAssumption DEF Page, PageCells
  <2>6. Inside(n) /\ n.page < nextPage /\ n.addr >= userPage * PageCells + task[t].offset
    BY <1>0, <2>2, <2>3, <2>5 DEF UserObjectsInv, Inside
  <2>7. ASSUME NEW o \in live, o.owner = "user"
        PROVE  /\ Inside(o) /\ o.page < nextPage
               /\ o.page = userPage => o.addr >= userPage * PageCells + task[t].offset
               /\ ~Overlap(o, n) /\ ~Overlap(n, o)
    <3>1. o \in ObjectRecord /\ o.addr \in Int /\ o.size \in Int
      BY <1>0, ObjectFields
    <3>2. /\ Inside(o) /\ o.page < nextPage
          /\ o.page = userPage => o.addr >= userPage * PageCells + userOffset
      BY <2>7 DEF UserObjectsInv
    <3>3. CASE o.page = userPage
      <4>1. n.addr + n.size = userPage * PageCells + userOffset
        BY <1>0, <2>2, <2>3, <2>5
      <4>2. userPage * PageCells + userOffset \in Int /\ n.addr \in Int /\ n.size \in Int
        BY <1>0, <2>2, <2>3, <2>5
      <4>3. o.addr >= n.addr + n.size
        BY <3>2, <3>3, <4>1
      <4>4. o.addr >= userPage * PageCells + task[t].offset
        BY <2>2, <2>3, <2>5, <3>1, <4>1, <4>2, <4>3
      <4> QED BY <3>1, <3>2, <4>2, <4>3, <4>4 DEF Overlap
    <3>4. CASE o.page # userPage
      BY <2>2, <2>3, <2>6, <3>1, <3>2, <3>4, InsideApart
    <3> QED BY <3>3, <3>4
  <2>8. ~Overlap(n, n)
    BY DEF Overlap
  <2>9. \A o \in live' : o.owner = "user" =>
          /\ Inside(o) /\ o.page < nextPage
          /\ o.page = userPage => o.addr >= userPage * PageCells + task[t].offset
    BY <2>4, <2>6, <2>7
  <2>10. \A a, b \in live' : a.owner = "user" /\ b.owner = "user" => ~Overlap(a, b)
    BY <2>4, <2>7, <2>8 DEF UserObjectsInv
  <2> QED BY <2>4, <2>9, <2>10 DEF UserObjectsInv, Inside
<1>5. ASSUME NEW t \in KernelTask, NEW size \in Sizes, KernelAllocBegin(t, size) PROVE UserObjectsInv'
  BY <1>1, <1>5 DEF KernelAllocBegin
<1>6. ASSUME NEW t \in KernelTask, KernelRefill(t) PROVE UserObjectsInv'
  BY <1>1, <1>6 DEF KernelRefill
<1>7. ASSUME NEW t \in KernelTask, KernelMove(t) PROVE UserObjectsInv'
  BY <1>1, <1>7, KernelMoved
<1>8. ASSUME NEW t \in UserTask, UserAllocCount(t) PROVE UserObjectsInv'
  BY <1>1, <1>8 DEF UserAllocCount
<1>9. ASSUME NEW t \in Task, NEW o \in live, FreeBegin(t, o) PROVE UserObjectsInv'
  BY <1>1, <1>9 DEF FreeBegin
<1>10. ASSUME NEW t \in Task, FreeStore(t) PROVE UserObjectsInv'
  BY <1>1, <1>10 DEF FreeStore
<1>11. ASSUME NEW t \in Task, FreeRelease(t) PROVE UserObjectsInv'
  BY <1>1, <1>11 DEF FreeRelease
<1>12. CASE UNCHANGED arenaVars
  BY <1>1, <1>12 DEF arenaVars
<1> QED
  BY <1>2, <1>3, <1>4, <1>5, <1>6, <1>7, <1>8, <1>9, <1>10, <1>11, <1>12 DEF ArenaNext, KernelMove

LEMMA UserInit == ArenaInit => UserInv
<1> SUFFICES ASSUME ArenaInit PROVE UserInv
  OBVIOUS
<1>1. task \in [Task -> CallRecord] /\ \A t \in Task : task[t].pc = "idle"
  BY IdleCall DEF ArenaInit, Idle
<1>2. ArenaTypeOK
  <2>1. mapped \subseteq Page /\ cnt \in [Page -> 0 .. Modulus - 1]
    BY PageAssumption, CellAssumption DEF ArenaInit, GlobalPages, Page
  <2>2. curPage \in [Cpu -> Page \cup {NoPage}] /\ curOffset \in [Cpu -> Int]
    BY DEF ArenaInit
  <2>3. nextPage \in Nat /\ userPage \in Page \cup {NoPage} /\ lock \in BOOLEAN
    BY DEF ArenaInit, RangeStart
  <2>4. userOffset \in 0 .. Slots
    BY CellAssumption DEF ArenaInit
  <2> QED BY <1>1, <2>1, <2>2, <2>3, <2>4, BoundAssumption DEF ArenaInit, ArenaTypeOK
<1>3. CallsInv /\ OneUserCall
  BY <1>1 DEF CallsInv, CallInv, OneUserCall, Requested, Holding, KernelSteps, Cutting, UserSteps
<1>4. UserObjectsInv
  BY DEF ArenaInit, UserObjectsInv, RangeStart, NoPage
<1> QED BY <1>2, <1>3, <1>4 DEF UserInv

LEMMA UserStep == UserInv /\ [ArenaNext]_arenaVars => UserInv'
  BY TypeStep, CallsStep, UserObjectsStep DEF UserInv

LEMMA UserAlways == ArenaSpec => []UserInv
<1>1. UserInv /\ [ArenaNext]_arenaVars => UserInv'
  BY UserStep
<1> QED BY <1>1, UserInit, PTL DEF ArenaSpec

\* Whatever the kernel and any number of threads allocate and free, the objects
\* bpf_arena_alloc hands out in user space lie inside their page, clear of its
\* counter, and apart from each other.
THEOREM UserSpaceDisjoint == ArenaSpec => []UserObjectsDisjoint
<1>1. UserInv => UserObjectsDisjoint
  BY DEF UserInv, UserObjectsInv, UserObjectsDisjoint
<1> QED BY <1>1, UserAlways, PTL
----------------------------------------------------------------------------
(* Every allocation has a number of its own, so an object is never in use already *)
(* when it is handed out; and there are no more objects than allocations.         *)
Busy == {t \in Task : task[t].pc # "idle"}

NumberInv ==
  /\ \A o \in live : o.id <= allocs
  /\ \A t \in Task : task[t].pc \in Requested => \A o \in live : o.id # task[t].id
  /\ \A t, u \in Task :
       task[t].pc \in Requested /\ task[u].pc \in Requested /\ task[t].id = task[u].id => t = u

SizeInv ==
  /\ IsFiniteSet(live)
  /\ Cardinality(live) + Cardinality(Busy) <= allocs

LEMMA NumberStep ==
  ASSUME UserInv, NumberInv, [ArenaNext]_arenaVars PROVE NumberInv'
<1> USE DEF Requested, Holding, pageVars, kernelVars, userVars, histVars
<1>0. /\ live \subseteq ObjectRecord /\ allocs \in Nat /\ \A o \in live : o.id \in Int
      /\ \A t \in Task : task[t].pc \in Requested => task[t].id \in Int /\ task[t].id <= allocs
  <2>1. \A o \in live : o.id \in Int
    BY ObjectFields, BoundAssumption DEF UserInv, ArenaTypeOK
  <2> QED BY <2>1 DEF UserInv, ArenaTypeOK, CallsInv, CallInv
<1>1. ASSUME NEW t \in Task, Others(t), task'[t].pc \in Requested, task'[t].id = allocs + 1,
             allocs' = allocs + 1, live' = live
      PROVE  NumberInv'
  BY <1>0, <1>1 DEF NumberInv, Others
<1>2. ASSUME NEW t \in Task, Others(t),
             task'[t].pc \notin Requested \/ (task[t].pc \in Requested /\ task'[t].id = task[t].id),
             allocs' = allocs, live' \subseteq live
      PROVE  NumberInv'
  BY <1>0, <1>2 DEF NumberInv, Others
<1>3. ASSUME NEW t \in Task, NEW w \in Cpu \cup {"user"}, task[t].pc \in {"cut", "ustore"},
             Others(t), task'[t].pc = "idle", allocs' = allocs, live' = live \cup {Object(t, w)}
      PROVE  NumberInv'
  <2>1. Object(t, w).id = task[t].id /\ task[t].id <= allocs
    BY <1>0, <1>3, ObjectTyped
  <2> QED BY <1>0, <1>3, <2>1 DEF NumberInv, Others
<1>4. ASSUME NEW t \in KernelTask, NEW size \in Sizes, KernelAllocBegin(t, size) PROVE NumberInv'
  <2>1. t \in Task /\ Others(t) /\ task'[t].pc \in Requested /\ task'[t].id = allocs + 1
    BY <1>4, BeginCall DEF Task
  <2> QED BY <1>1, <1>4, <2>1 DEF KernelAllocBegin
<1>5. ASSUME NEW t \in KernelTask, KernelRefill(t) PROVE NumberInv'
  <2>1. t \in Task /\ task[t].pc = "refill" /\ allocs' = allocs /\ live' = live
    BY <1>5 DEF KernelRefill, Task
  <2>2. \/ \E p \in Page : task' = [task EXCEPT ![t].pc = "setPage", ![t].page = p]
        \/ task' = [task EXCEPT ![t] = Idle]
    BY <1>5 DEF KernelRefill
  <2>3. Others(t) /\ (task'[t].pc = "idle" \/ task'[t].id = task[t].id)
    BY <2>1, <2>2, RefillCall, EndCall DEF Moved
  <2> QED BY <1>2, <2>1, <2>3
<1>6. ASSUME NEW t \in KernelTask, KernelMove(t) PROVE NumberInv'
  <2>1. /\ t \in Task /\ Others(t) /\ task[t].pc \in Requested /\ task'[t].id = task[t].id
        /\ allocs' = allocs /\ live' = live
    BY <1>6, KernelMoved DEF KernelSteps, Cutting
  <2> QED BY <1>2, <2>1
<1>7. ASSUME NEW t \in KernelTask, KernelAllocCut(t) PROVE NumberInv'
  <2>1. t \in Task /\ cpuOf[t] \in Cpu /\ Others(t) /\ task'[t].pc = "idle"
    BY <1>7, EndCall DEF KernelAllocCut, UserInv, ArenaTypeOK, Task
  <2> QED BY <1>3, <1>7, <2>1 DEF KernelAllocCut
<1>8. ASSUME NEW t \in UserTask, NEW size \in Sizes, UserAllocBegin(t, size) PROVE NumberInv'
  <2>1. t \in Task /\ Others(t) /\ task'[t].pc \in Requested /\ task'[t].id = allocs + 1
    BY <1>8, UserBeginCall DEF Task
  <2> QED BY <1>1, <1>8, <2>1 DEF UserAllocBegin
<1>9. ASSUME NEW t \in UserTask, UserAllocCount(t) PROVE NumberInv'
  <2>1. t \in Task /\ Others(t) /\ task[t].pc \in Requested /\ task'[t].id = task[t].id
    BY <1>9, UserCountCall DEF UserAllocCount, Moved
  <2> QED BY <1>2, <1>9, <2>1 DEF UserAllocCount
<1>10. ASSUME NEW t \in UserTask, UserAllocStore(t) PROVE NumberInv'
  <2>1. t \in Task /\ Others(t) /\ task'[t].pc = "idle"
    BY <1>10, EndCall DEF UserAllocStore, Task
  <2> QED BY <1>3, <1>10, <2>1 DEF UserAllocStore
<1>11. ASSUME NEW t \in Task, NEW o \in live, FreeBegin(t, o) PROVE NumberInv'
  <2>1. Others(t) /\ task[t].pc = "idle" /\ (task' = task \/ task'[t].pc = "free")
    BY <1>11, FreeCall DEF FreeBegin
  <2> QED BY <1>2, <1>11, <2>1 DEF FreeBegin
<1>12. ASSUME NEW t \in Task, FreeStore(t) PROVE NumberInv'
  <2>1. Others(t) /\ task'[t].pc \in {"idle", "release"}
    BY <1>12, FreeStoreCall
  <2> QED BY <1>2, <1>12, <2>1 DEF FreeStore
<1>13. ASSUME NEW t \in Task, FreeRelease(t) PROVE NumberInv'
  <2>1. Others(t) /\ task'[t].pc = "idle"
    BY <1>13, EndCall DEF FreeRelease
  <2> QED BY <1>2, <1>13, <2>1 DEF FreeRelease
<1>14. CASE UNCHANGED arenaVars
  BY <1>14 DEF arenaVars, NumberInv
<1> QED
  BY <1>4, <1>5, <1>6, <1>7, <1>8, <1>9, <1>10, <1>11, <1>12, <1>13, <1>14 DEF ArenaNext, KernelMove

LEMMA TasksFinite ==
  /\ IsFiniteSet(Task)
  /\ \A S \in SUBSET Task : IsFiniteSet(S) /\ Cardinality(S) \in Nat
<1>1. IsFiniteSet(Task)
  BY TaskAssumption, FS_Union DEF Task
<1> QED BY <1>1, FS_Subset, FS_CardinalityType

LEMMA OneMore ==
  ASSUME NEW S, IsFiniteSet(S), NEW x
  PROVE  /\ IsFiniteSet(S \cup {x}) /\ Cardinality(S \cup {x}) \in Nat
         /\ Cardinality(S \cup {x}) <= Cardinality(S) + 1
<1>1. Cardinality(S) \in Nat
  BY FS_CardinalityType
<1>2. CASE x \in S
  BY <1>1, <1>2, FS_AddElement
<1>3. CASE x \notin S
  BY <1>1, <1>3, FS_AddElement
<1> QED BY <1>2, <1>3

LEMMA SizeStep ==
  ASSUME UserInv, SizeInv, [ArenaNext]_arenaVars PROVE SizeInv'
<1> USE DEF pageVars, kernelVars, userVars, histVars
<1>0. /\ allocs \in Nat /\ IsFiniteSet(live) /\ Cardinality(live) \in Nat
      /\ IsFiniteSet(Busy) /\ Cardinality(Busy) \in Nat
  <2>1. Busy \in SUBSET Task
    BY DEF Busy
  <2> QED BY <2>1, TasksFinite, FS_CardinalityType DEF SizeInv, UserInv, ArenaTypeOK
<1>1. ASSUME NEW t \in Task, Others(t), task[t].pc = "idle", allocs' = allocs + 1, live' = live,
             task'[t].pc # "idle"
      PROVE  SizeInv'
  <2>1. Busy' = Busy \cup {t} /\ t \notin Busy
    BY <1>1 DEF Busy, Others
  <2>2. Cardinality(Busy') = Cardinality(Busy) + 1
    BY <1>0, <2>1, FS_AddElement
  <2> QED BY <1>0, <1>1, <2>2 DEF SizeInv
<1>2. ASSUME NEW t \in Task, Others(t), task[t].pc # "idle", allocs' = allocs, task'[t].pc = "idle",
             live' = live \/ \E o : live' = live \cup {o}
      PROVE  SizeInv'
  <2>1. Busy' = Busy \ {t} /\ t \in Busy
    BY <1>2 DEF Busy, Others
  <2>2. Cardinality(Busy') = Cardinality(Busy) - 1
    BY <1>0, <2>1, FS_RemoveElement
  <2>3. IsFiniteSet(live') /\ Cardinality(live') \in Nat /\ Cardinality(live') <= Cardinality(live) + 1
    <3>1. CASE live' = live
      BY <1>0, <3>1
    <3>2. ASSUME NEW o, live' = live \cup {o}
          PROVE  IsFiniteSet(live') /\ Cardinality(live') \in Nat /\ Cardinality(live') <= Cardinality(live) + 1
      BY <1>0, <3>2, OneMore
    <3> QED BY <1>2, <3>1, <3>2
  <2> QED BY <1>0, <1>2, <2>2, <2>3 DEF SizeInv
<1>3. ASSUME NEW t \in Task, Others(t), task[t].pc # "idle", allocs' = allocs, live' = live,
             task'[t].pc # "idle"
      PROVE  SizeInv'
  <2>1. Busy' = Busy
    BY <1>3 DEF Busy, Others
  <2> QED BY <1>0, <1>3, <2>1 DEF SizeInv
<1>4. ASSUME NEW t \in KernelTask, NEW size \in Sizes, KernelAllocBegin(t, size) PROVE SizeInv'
  <2>1. t \in Task /\ Others(t) /\ task'[t].pc # "idle"
    BY <1>4, BeginCall DEF Task
  <2> QED BY <1>1, <1>4, <2>1 DEF KernelAllocBegin
<1>5. ASSUME NEW t \in KernelTask, KernelRefill(t) PROVE SizeInv'
  <2>1. t \in Task /\ task[t].pc = "refill" /\ allocs' = allocs /\ live' = live
    BY <1>5 DEF KernelRefill, Task
  <2>2. \/ \E p \in Page : task' = [task EXCEPT ![t].pc = "setPage", ![t].page = p]
        \/ task' = [task EXCEPT ![t] = Idle]
    BY <1>5 DEF KernelRefill
  <2>3. Others(t) /\ (task'[t].pc = "idle" \/ task'[t].pc = "setPage")
    BY <2>1, <2>2, RefillCall, EndCall DEF Moved
  <2> QED BY <1>2, <1>3, <2>1, <2>3
<1>6. ASSUME NEW t \in KernelTask, KernelMove(t) PROVE SizeInv'
  <2>1. /\ t \in Task /\ Others(t) /\ task[t].pc # "idle" /\ task'[t].pc # "idle"
        /\ allocs' = allocs /\ live' = live
    BY <1>6, KernelMoved DEF KernelSteps, Cutting
  <2> QED BY <1>3, <2>1
<1>7. ASSUME NEW t \in KernelTask, KernelAllocCut(t) PROVE SizeInv'
  <2>1. t \in Task /\ Others(t) /\ task'[t].pc = "idle"
    BY <1>7, EndCall DEF KernelAllocCut, Task
  <2> QED BY <1>2, <1>7, <2>1 DEF KernelAllocCut
<1>8. ASSUME NEW t \in UserTask, NEW size \in Sizes, UserAllocBegin(t, size) PROVE SizeInv'
  <2>1. t \in Task /\ Others(t) /\ task'[t].pc # "idle"
    BY <1>8, UserBeginCall DEF Task
  <2> QED BY <1>1, <1>8, <2>1 DEF UserAllocBegin
<1>9. ASSUME NEW t \in UserTask, UserAllocCount(t) PROVE SizeInv'
  <2>1. t \in Task /\ Others(t) /\ task'[t].pc = "ustore"
    BY <1>9, UserCountCall DEF Moved
  <2> QED BY <1>3, <1>9, <2>1 DEF UserAllocCount
<1>10. ASSUME NEW t \in UserTask, UserAllocStore(t) PROVE SizeInv'
  <2>1. t \in Task /\ Others(t) /\ task'[t].pc = "idle"
    BY <1>10, EndCall DEF UserAllocStore, Task
  <2> QED BY <1>2, <1>10, <2>1 DEF UserAllocStore
<1>11. ASSUME NEW t \in Task, NEW o \in live, FreeBegin(t, o) PROVE SizeInv'
  <2>1. Others(t) /\ task[t].pc = "idle" /\ (task' = task \/ task'[t].pc = "free")
    BY <1>11, FreeCall DEF FreeBegin
  <2>2. live' = live \ {o} /\ allocs' = allocs
    BY <1>11 DEF FreeBegin
  <2>3. IsFiniteSet(live') /\ Cardinality(live') = Cardinality(live) - 1
    BY <1>0, <2>2, FS_RemoveElement
  <2>4. Cardinality(Busy') <= Cardinality(Busy) + 1 /\ Cardinality(Busy') \in Nat
    <3>1. Busy' = Busy \/ Busy' = Busy \cup {t}
      BY <2>1 DEF Busy, Others
    <3>2. CASE Busy' = Busy
      BY <1>0, <3>2
    <3>3. CASE Busy' = Busy \cup {t}
      BY <1>0, <3>3, OneMore
    <3> QED BY <3>1, <3>2, <3>3
  <2> QED BY <1>0, <2>2, <2>3, <2>4 DEF SizeInv
<1>12. ASSUME NEW t \in Task, FreeStore(t) PROVE SizeInv'
  <2>1. Others(t) /\ task[t].pc = "free" /\ task'[t].pc \in {"idle", "release"}
    BY <1>12, FreeStoreCall
  <2> QED BY <1>2, <1>3, <1>12, <2>1 DEF FreeStore
<1>13. ASSUME NEW t \in Task, FreeRelease(t) PROVE SizeInv'
  <2>1. Others(t) /\ task'[t].pc = "idle"
    BY <1>13, EndCall DEF FreeRelease
  <2> QED BY <1>2, <1>13, <2>1 DEF FreeRelease
<1>14. CASE UNCHANGED arenaVars
  BY <1>14 DEF arenaVars, SizeInv, Busy
<1> QED
  BY <1>4, <1>5, <1>6, <1>7, <1>8, <1>9, <1>10, <1>11, <1>12, <1>13, <1>14 DEF ArenaNext, KernelMove
----------------------------------------------------------------------------
(* The pages no accident has befallen *)

\* Who cuts objects from page p, or has objects in it.
Holds(w, p) ==
  \/ w \in Cpu /\ curPage[w] = p
  \/ \E t \in Task : task[t].pc \in KernelSteps /\ task[t].page = p /\ w = cpuOf[t]
  \/ w = "user" /\ userPage = p
  \/ w = "globals" /\ p \in GlobalPages
  \/ \E o \in live : o.page = p /\ o.owner = w

\* The objects of the page; the calls that have left objects in its counter, which
\* they have taken back or have yet to hand out; the calls that give it back.
LiveOn(p) == {o \in live : o.page = p}
PendingOn(p) == {t \in Task : task[t].pc \in {"free", "cut"} /\ task[t].page = p}
ReleasingOn(p) == {t \in Task : task[t].pc = "release" /\ task[t].page = p}

OneHolder(p) == \A v, w \in Owner : Holds(v, p) /\ Holds(w, p) => v = w
HeldIsMapped(p) == \A w \in Owner : Holds(w, p) => p \in mapped
PendingIsMapped(p) == PendingOn(p) # {} => p \in mapped \ GlobalPages
CounterExact(p) == cnt[p] = Cardinality(LiveOn(p)) + Cardinality(PendingOn(p))
ReleasedAlone(p) ==
  \A t \in ReleasingOn(p) :
    /\ p \in mapped /\ ReleasingOn(p) = {t} /\ PendingOn(p) = {}
    /\ \A w \in Owner : ~Holds(w, p)

PageGood(p) ==
  OneHolder(p) /\ HeldIsMapped(p) /\ PendingIsMapped(p) /\ CounterExact(p) /\ ReleasedAlone(p)

PageInv == \A p \in Page : Trusted(p) => PageGood(p)

ArenaInv == UserInv /\ NumberInv /\ SizeInv /\ PageInv

\* The ways a step leaves a page in order: nothing of it changes hands, it is
\* taken while nobody holds it, or its counter moves with its objects.
LEMMA PageHeld ==
  ASSUME NEW p \in Page, PageGood(p), \A w \in Owner : Holds(w, p)' => Holds(w, p),
         PendingOn(p)' # {} => PendingOn(p) # {},
         ReleasingOn(p)' = ReleasingOn(p), p \in mapped => p \in mapped', CounterExact(p)'
  PROVE  PageGood(p)'
<1>1. OneHolder(p)'
  BY DEF PageGood, OneHolder
<1>2. HeldIsMapped(p)'
  BY DEF PageGood, HeldIsMapped
<1>3. PendingIsMapped(p)'
  BY DEF PageGood, PendingIsMapped
<1>4. ReleasedAlone(p)'
  BY DEF PageGood, ReleasedAlone
<1> QED BY <1>1, <1>2, <1>3, <1>4 DEF PageGood

LEMMA PageKept ==
  ASSUME NEW p \in Page, PageGood(p), \A w \in Owner : Holds(w, p)' => Holds(w, p),
         LiveOn(p)' = LiveOn(p), PendingOn(p)' = PendingOn(p), ReleasingOn(p)' = ReleasingOn(p),
         cnt'[p] = cnt[p], p \in mapped => p \in mapped'
  PROVE  PageGood(p)'
<1>1. CounterExact(p)'
  BY DEF PageGood, CounterExact
<1> QED BY <1>1, PageHeld

LEMMA NobodyHolds ==
  ASSUME UserInv, NEW p \in Page, PageGood(p), p \notin mapped
  PROVE  (\A w \in Owner : ~Holds(w, p)) /\ LiveOn(p) = {} /\ PendingOn(p) = {} /\ ReleasingOn(p) = {}
<1>1. \A w \in Owner : ~Holds(w, p)
  BY DEF PageGood, HeldIsMapped
<1>2. ASSUME NEW o \in live, o.page = p PROVE FALSE
  <2>1. o.owner \in Owner
    BY ObjectFields DEF UserInv, ArenaTypeOK, Owner
  <2> QED BY <1>1, <1>2, <2>1 DEF Holds
<1> QED BY <1>1, <1>2 DEF LiveOn, PageGood, PendingIsMapped, ReleasedAlone

LEMMA PageTaken ==
  ASSUME UserInv, NEW p \in Page, PageGood(p), p \notin mapped, p \in mapped', cnt'[p] = 0,
         NEW v, \A w \in Owner : Holds(w, p)' => w = v \/ Holds(w, p),
         LiveOn(p)' = LiveOn(p), PendingOn(p)' = PendingOn(p), ReleasingOn(p)' = ReleasingOn(p)
  PROVE  PageGood(p)'
<1>1. (\A w \in Owner : ~Holds(w, p)) /\ LiveOn(p) = {} /\ PendingOn(p) = {} /\ ReleasingOn(p) = {}
  BY NobodyHolds
<1>2. OneHolder(p)'
  BY <1>1 DEF OneHolder
<1>3. HeldIsMapped(p)' /\ PendingIsMapped(p)' /\ ReleasedAlone(p)'
  BY <1>1 DEF HeldIsMapped, PendingIsMapped, ReleasedAlone
<1>4. CounterExact(p)'
  <2>1. Cardinality(LiveOn(p)') = 0 /\ Cardinality(PendingOn(p)') = 0
    BY <1>1, FS_EmptySet
  <2> QED BY <2>1 DEF CounterExact
<1> QED BY <1>2, <1>3, <1>4 DEF PageGood

LEMMA PageSets ==
  ASSUME UserInv, SizeInv, NEW p
  PROVE  /\ IsFiniteSet(LiveOn(p)) /\ Cardinality(LiveOn(p)) \in Nat
         /\ IsFiniteSet(PendingOn(p)) /\ Cardinality(PendingOn(p)) \in Nat
<1>1. LiveOn(p) \in SUBSET live /\ IsFiniteSet(live)
  BY DEF LiveOn, SizeInv
<1>2. PendingOn(p) \in SUBSET Task
  BY DEF PendingOn
<1> QED BY <1>1, <1>2, TasksFinite, FS_Subset, FS_CardinalityType

\* A counter does not wrap: there is an allocation under way besides the objects.
LEMMA CounterRoom ==
  ASSUME UserInv, SizeInv, NEW p \in Page, PageGood(p),
         NEW t \in Task, task[t].pc \in {"store", "ustore"}
  PROVE  Increment(cnt[p]) = cnt[p] + 1
<1> DEFINE L == LiveOn(p)
           F == PendingOn(p)
<1>1. /\ Cardinality(L) \in Nat /\ Cardinality(F) \in Nat /\ IsFiniteSet(F)
      /\ cnt[p] = Cardinality(L) + Cardinality(F)
  BY PageSets DEF PageGood, CounterExact
<1>2. Cardinality(L) <= Cardinality(live)
  BY FS_Subset DEF LiveOn, SizeInv
<1>3. F \cup {t} \in SUBSET Busy /\ t \notin F
  BY DEF PendingOn, Busy
<1>4. Cardinality(F \cup {t}) <= Cardinality(Busy)
  <2>1. Busy \in SUBSET Task
    BY DEF Busy
  <2> QED BY <1>3, <2>1, TasksFinite, FS_Subset
<1>5. Cardinality(F \cup {t}) = Cardinality(F) + 1
  BY <1>1, <1>3, FS_AddElement
<1>6. Cardinality(live) \in Nat /\ Cardinality(Busy) \in Nat /\ allocs \in 0 .. MaxAllocs
      /\ Cardinality(live) + Cardinality(Busy) <= allocs
  <2>1. Busy \in SUBSET Task
    BY DEF Busy
  <2> QED BY <2>1, TasksFinite, FS_CardinalityType DEF SizeInv, UserInv, ArenaTypeOK
<1> HIDE DEF L, F
<1>7. cnt[p] + 1 \in 0 .. Modulus - 1
  BY <1>1, <1>2, <1>4, <1>5, <1>6, BoundAssumption, CellAssumption
<1>8. Modulus \in Nat /\ Modulus > 0
  BY CellAssumption
<1>9. (cnt[p] + 1) % Modulus = cnt[p] + 1
  BY <1>7, <1>8, FirstLap
<1> QED BY <1>9 DEF Increment

\* The store of an incremented counter: it grows by one, unless it is overwritten.
LEMMA CounterGrown ==
  ASSUME ArenaInv, NEW t \in Task, task[t].pc \in {"store", "ustore"}, NEW p \in Page,
         NEW w \in Owner, Holds(w, task[t].page),
         skewed' = Skews(t), SetCounter(t, task[t].page, Increment(task[t].seen)),
         Trusted(p)', doubled' = doubled
  PROVE  /\ PageGood(p) /\ mapped \subseteq mapped'
         /\ cnt'[p] = IF p = task[t].page THEN cnt[p] + 1 ELSE cnt[p]
<1>0. UserInv /\ SizeInv /\ ArenaTypeOK /\ task[t].page \in Page /\ task[t].seen \in Nat
  BY CallFields DEF ArenaInv, UserInv, CallsInv, CallInv, Holding
<1>1. PageGood(p) /\ (p = task[t].page => Counter(p) = task[t].seen)
  BY DEF Trusted, Skews, ArenaInv, PageInv
<1>2. /\ mapped \subseteq mapped' /\ \A q \in Page \ {task[t].page} : cnt'[q] = cnt[q]
      /\ task[t].page \in mapped => cnt'[task[t].page] = Increment(task[t].seen)
  BY <1>0, CounterRange, CounterStored
<1>3. ASSUME p = task[t].page PROVE cnt'[p] = cnt[p] + 1
  <2>1. p \in mapped
    BY <1>1, <1>3 DEF PageGood, HeldIsMapped
  <2>2. task[t].seen = cnt[p]
    BY <1>1, <1>3, <2>1 DEF Counter
  <2>3. Increment(cnt[p]) = cnt[p] + 1
    BY <1>0, <1>1, CounterRoom
  <2> QED BY <1>2, <1>3, <2>1, <2>2, <2>3
<1> QED BY <1>1, <1>2, <1>3

\* Kernel: the object is counted and has yet to be cut.
LEMMA PageCounted ==
  ASSUME ArenaInv, NEW t \in KernelTask, KernelAllocStore(t)
  PROVE  PageInv'
<1>0. /\ UserInv /\ SizeInv /\ t \in Task /\ task[t].pc = "store" /\ task'[t].pc = "cut" /\ Others(t)
      /\ task'[t].page = task[t].page /\ UNCHANGED <<cpuOf, live, doubled, userPage>> /\ cpuOf[t] \in Owner
  BY KernelMoved DEF ArenaInv, KernelMove, KernelAllocStore, userVars, Owner, UserInv, ArenaTypeOK
<1>1. /\ skewed' = Skews(t) /\ SetCounter(t, task[t].page, Increment(task[t].seen)) /\ curPage' = curPage
  BY DEF KernelAllocStore, kernelVars
<1>2. Holds(cpuOf[t], task[t].page)
  BY <1>0 DEF Holds, KernelSteps, Cutting
<1> SUFFICES ASSUME NEW p \in Page, Trusted(p)' PROVE PageGood(p)'
  BY DEF PageInv
<1>3. /\ PageGood(p) /\ mapped \subseteq mapped'
      /\ cnt'[p] = IF p = task[t].page THEN cnt[p] + 1 ELSE cnt[p]
  BY <1>0, <1>1, <1>2, CounterGrown
<1>4. \A w \in Owner : Holds(w, p)' => Holds(w, p)
  <2> SUFFICES ASSUME NEW w \in Owner, Holds(w, p)' PROVE Holds(w, p)
    OBVIOUS
  <2>1. ASSUME NEW u \in Task, task'[u].pc \in KernelSteps, task'[u].page = p, w = cpuOf[u]
        PROVE  Holds(w, p)
    <3>1. CASE u = t
      BY <1>0, <1>2, <2>1, <3>1
    <3>2. CASE u # t
      BY <1>0, <2>1, <3>2 DEF Holds, Others
    <3> QED BY <3>1, <3>2
  <2> QED BY <1>0, <1>1, <2>1 DEF Holds
<1>5. LiveOn(p)' = LiveOn(p) /\ ReleasingOn(p)' = ReleasingOn(p)
  BY <1>0 DEF LiveOn, ReleasingOn, Others
<1>6. CASE p # task[t].page
  <2>1. PendingOn(p)' = PendingOn(p)
    BY <1>0, <1>6 DEF PendingOn, Others
  <2> QED BY <1>3, <1>4, <1>5, <1>6, <2>1, PageKept
<1>7. CASE p = task[t].page
  <2>1. PendingOn(p)' = PendingOn(p) \cup {t} /\ t \notin PendingOn(p)
    BY <1>0, <1>7 DEF PendingOn, Others
  <2>2. /\ Cardinality(PendingOn(p) \cup {t}) = Cardinality(PendingOn(p)) + 1
        /\ Cardinality(PendingOn(p)) \in Nat /\ Cardinality(LiveOn(p)) \in Nat
    BY <1>0, <2>1, PageSets, FS_AddElement
  <2>3. cnt[p] = Cardinality(LiveOn(p)) + Cardinality(PendingOn(p))
    BY <1>3 DEF PageGood, CounterExact
  <2>4. CounterExact(p)'
    BY <1>3, <1>5, <1>7, <2>1, <2>2, <2>3 DEF CounterExact
  <2>5. p \in mapped \ GlobalPages
    <3>1. p \in mapped
      BY <1>0, <1>2, <1>3, <1>7 DEF PageGood, HeldIsMapped
    <3>2. p \in GlobalPages => Holds("globals", p) /\ "globals" \in Owner
      BY DEF Holds, Owner
    <3>3. cpuOf[t] # "globals"
      BY <1>0, OwnerAssumption DEF UserInv, ArenaTypeOK
    <3> QED BY <1>0, <1>2, <1>3, <1>7, <3>1, <3>2, <3>3 DEF PageGood, OneHolder
  <2>6. ReleasingOn(p) = {}
    BY <1>0, <1>2, <1>3, <1>7 DEF PageGood, ReleasedAlone
  <2>7. OneHolder(p)' /\ HeldIsMapped(p)'
    BY <1>3, <1>4 DEF PageGood, OneHolder, HeldIsMapped
  <2>8. PendingIsMapped(p)' /\ ReleasedAlone(p)'
    BY <1>3, <1>5, <2>5, <2>6 DEF PendingIsMapped, ReleasedAlone
  <2> QED BY <2>4, <2>7, <2>8 DEF PageGood
<1> QED BY <1>6, <1>7

\* The holder w of page task[t].page has an object more.
LEMMA NewObject ==
  ASSUME ArenaInv, NEW t \in Task, task[t].pc \in {"cut", "ustore"}, NEW w \in Cpu \cup {"user"},
         Holds(w, task[t].page), Others(t), task'[t].pc = "idle",
         live' = live \cup {Object(t, w)}, UNCHANGED <<cpuOf, curPage, userPage>>,
         NEW p \in Page, PageGood(p)
  PROVE  /\ \A v \in Owner : Holds(v, p)' => Holds(v, p)
         /\ ReleasingOn(p)' = ReleasingOn(p) /\ PendingOn(p)' = PendingOn(p) \ {t}
         /\ p # task[t].page => LiveOn(p)' = LiveOn(p)
         /\ p = task[t].page => Cardinality(LiveOn(p)') = Cardinality(LiveOn(p)) + 1
<1> DEFINE n == Object(t, w)
<1>0. UserInv /\ NumberInv /\ SizeInv
  BY DEF ArenaInv
<1>1. n.page = task[t].page /\ n.owner = w /\ n.id = task[t].id
  BY <1>0, ObjectTyped
<1>2. n \notin live
  BY <1>0, <1>1 DEF NumberInv, Requested, Holding
<1>3. ReleasingOn(p)' = ReleasingOn(p) /\ PendingOn(p)' = PendingOn(p) \ {t}
  BY DEF ReleasingOn, PendingOn, Others
<1> HIDE DEF n
<1>4. ASSUME NEW v \in Owner, Holds(v, p)' PROVE Holds(v, p)
  <2>1. ASSUME NEW u \in Task, task'[u].pc \in KernelSteps, task'[u].page = p, v = cpuOf[u]
        PROVE  Holds(v, p)
    BY <2>1 DEF Holds, Others, KernelSteps, Cutting
  <2>2. ASSUME NEW o \in live', o.page = p, o.owner = v PROVE Holds(v, p)
    BY <1>1, <2>2 DEF Holds, n
  <2> QED BY <1>4, <2>1, <2>2 DEF Holds
<1>5. ASSUME p # task[t].page PROVE LiveOn(p)' = LiveOn(p)
  BY <1>1, <1>5 DEF LiveOn, n
<1>6. ASSUME p = task[t].page PROVE Cardinality(LiveOn(p)') = Cardinality(LiveOn(p)) + 1
  <2>1. LiveOn(p)' = LiveOn(p) \cup {n} /\ n \notin LiveOn(p)
    BY <1>1, <1>2, <1>6 DEF LiveOn, n
  <2>2. IsFiniteSet(LiveOn(p))
    BY <1>0, PageSets
  <2>3. Cardinality(LiveOn(p) \cup {n}) = Cardinality(LiveOn(p)) + 1
    BY <2>1, <2>2, FS_AddElement
  <2> QED BY <2>1, <2>3
<1> QED BY <1>3, <1>4, <1>5, <1>6

\* Kernel: the object that was counted is cut.
LEMMA PageCut ==
  ASSUME ArenaInv, NEW t \in KernelTask, KernelAllocCut(t)
  PROVE  PageInv'
<1>0. /\ UserInv /\ SizeInv /\ t \in Task /\ task[t].pc = "cut" /\ task'[t].pc = "idle" /\ Others(t)
      /\ cpuOf[t] \in Cpu
  BY EndCall DEF ArenaInv, KernelAllocCut, Task, UserInv, ArenaTypeOK
<1>1. /\ live' = live \cup {Object(t, cpuOf[t])}
      /\ UNCHANGED <<cpuOf, curPage, userPage, cnt, mapped, doubled, skewed>>
  BY DEF KernelAllocCut, pageVars, userVars
<1>2. Holds(cpuOf[t], task[t].page)
  BY <1>0 DEF Holds, KernelSteps, Cutting
<1> SUFFICES ASSUME NEW p \in Page, Trusted(p)' PROVE PageGood(p)'
  BY DEF PageInv
<1>3. PageGood(p)
  BY <1>1 DEF ArenaInv, PageInv, Trusted
<1>4. /\ \A v \in Owner : Holds(v, p)' => Holds(v, p)
      /\ ReleasingOn(p)' = ReleasingOn(p) /\ PendingOn(p)' = PendingOn(p) \ {t}
      /\ p # task[t].page => LiveOn(p)' = LiveOn(p)
      /\ p = task[t].page => Cardinality(LiveOn(p)') = Cardinality(LiveOn(p)) + 1
  BY <1>0, <1>1, <1>2, <1>3, NewObject
<1>5. CASE p # task[t].page
  <2>1. PendingOn(p)' = PendingOn(p)
    BY <1>0, <1>4, <1>5 DEF PendingOn
  <2> QED BY <1>1, <1>3, <1>4, <1>5, <2>1, PageKept
<1>6. CASE p = task[t].page
  <2>1. t \in PendingOn(p)
    BY <1>0, <1>6 DEF PendingOn
  <2>2. /\ Cardinality(PendingOn(p) \ {t}) = Cardinality(PendingOn(p)) - 1
        /\ Cardinality(PendingOn(p)) \in Nat /\ Cardinality(LiveOn(p)) \in Nat
    BY <1>0, <2>1, PageSets, FS_RemoveElement
  <2>3. cnt[p] = Cardinality(LiveOn(p)) + Cardinality(PendingOn(p))
    BY <1>3 DEF PageGood, CounterExact
  <2>4. CounterExact(p)'
    BY <1>1, <1>4, <1>6, <2>2, <2>3 DEF CounterExact
  <2> QED BY <1>1, <1>3, <1>4, <2>1, <2>4, PageHeld
<1> QED BY <1>5, <1>6

\* User space: the object is counted and cut under the lock.
LEMMA PageUserCut ==
  ASSUME ArenaInv, NEW t \in UserTask, UserAllocStore(t)
  PROVE  PageInv'
<1>0. /\ UserInv /\ SizeInv /\ t \in Task /\ task[t].pc = "ustore" /\ task'[t].pc = "idle" /\ Others(t)
      /\ "user" \in Owner
  BY EndCall DEF ArenaInv, UserAllocStore, Task, Owner
<1>1. /\ live' = live \cup {Object(t, "user")} /\ skewed' = Skews(t) /\ doubled' = doubled
      /\ SetCounter(t, task[t].page, Increment(task[t].seen))
      /\ UNCHANGED <<cpuOf, curPage, userPage>>
  BY DEF UserAllocStore, kernelVars
<1>2. Holds("user", task[t].page)
  BY <1>0 DEF Holds, UserInv, CallsInv, CallInv, UserSteps
<1> SUFFICES ASSUME NEW p \in Page, Trusted(p)' PROVE PageGood(p)'
  BY DEF PageInv
<1>3. /\ PageGood(p) /\ mapped \subseteq mapped'
      /\ cnt'[p] = IF p = task[t].page THEN cnt[p] + 1 ELSE cnt[p]
  BY <1>0, <1>1, <1>2, CounterGrown
<1>4. /\ \A v \in Owner : Holds(v, p)' => Holds(v, p)
      /\ ReleasingOn(p)' = ReleasingOn(p) /\ PendingOn(p)' = PendingOn(p) \ {t}
      /\ p # task[t].page => LiveOn(p)' = LiveOn(p)
      /\ p = task[t].page => Cardinality(LiveOn(p)') = Cardinality(LiveOn(p)) + 1
  BY <1>0, <1>1, <1>2, <1>3, NewObject
<1>5. PendingOn(p)' = PendingOn(p)
  BY <1>0, <1>4 DEF PendingOn
<1>6. CASE p # task[t].page
  BY <1>3, <1>4, <1>5, <1>6, PageKept
<1>7. CASE p = task[t].page
  <2>1. Cardinality(PendingOn(p)) \in Nat /\ Cardinality(LiveOn(p)) \in Nat
    BY <1>0, PageSets
  <2>2. cnt[p] = Cardinality(LiveOn(p)) + Cardinality(PendingOn(p))
    BY <1>3 DEF PageGood, CounterExact
  <2>3. CounterExact(p)'
    BY <1>3, <1>4, <1>5, <1>7, <2>1, <2>2 DEF CounterExact
  <2> QED BY <1>3, <1>4, <1>5, <2>3, PageHeld
<1> QED BY <1>6, <1>7

\* A step that leaves objects alone, and the counters of the pages in order, and
\* neither frees nor cuts; a CPU that now cuts from a page held the page already.
LEMMA PageUntouched ==
  ASSUME ArenaInv, NEW t \in Task, Others(t), task[t].pc \notin {"free", "cut", "release"},
         task'[t].pc \notin {"free", "cut", "release"},
         task'[t].pc \in KernelSteps => Holds(cpuOf[t], task'[t].page),
         \A w \in Cpu : curPage'[w] = curPage[w] \/ Holds(w, curPage'[w]),
         mapped \subseteq mapped', doubled \subseteq doubled', skewed \subseteq skewed',
         \A p \in Page : Trusted(p)' => cnt'[p] = cnt[p],
         UNCHANGED <<cpuOf, live, userPage>>
  PROVE  PageInv'
<1> SUFFICES ASSUME NEW p \in Page, Trusted(p)' PROVE PageGood(p)'
  BY DEF PageInv
<1>1. PageGood(p)
  BY DEF ArenaInv, PageInv, Trusted
<1>2. PendingOn(p)' = PendingOn(p) /\ ReleasingOn(p)' = ReleasingOn(p)
  BY DEF PendingOn, ReleasingOn, Others
<1>3. LiveOn(p)' = LiveOn(p)
  BY DEF LiveOn
<1>4. ASSUME NEW w \in Owner, Holds(w, p)' PROVE Holds(w, p)
  <2>1. ASSUME NEW u \in Task, task'[u].pc \in KernelSteps, task'[u].page = p, w = cpuOf[u]
        PROVE  Holds(w, p)
    <3>1. CASE u = t
      BY <2>1, <3>1
    <3>2. CASE u # t
      BY <2>1, <3>2 DEF Holds, Others
    <3> QED BY <3>1, <3>2
  <2>2. ASSUME w \in Cpu, curPage'[w] = p PROVE Holds(w, p)
    BY <2>2 DEF Holds
  <2> QED BY <1>4, <2>1, <2>2 DEF Holds
<1> QED BY <1>1, <1>2, <1>3, <1>4, PageKept

LEMMA PageRefilled ==
  ASSUME ArenaInv, NEW t \in KernelTask, KernelRefill(t), NEW q \in Page \ mapped,
         mapped' = mapped \cup {q}, cnt' = [cnt EXCEPT ![q] = 0],
         task' = [task EXCEPT ![t].pc = "setPage", ![t].page = q]
  PROVE  PageInv'
<1>0. UserInv /\ t \in Task /\ task[t].pc = "refill" /\ cnt \in [Page -> 0 .. Modulus - 1]
  BY DEF ArenaInv, UserInv, ArenaTypeOK, Task, KernelRefill
<1>1. Others(t) /\ task'[t].pc = "setPage" /\ task'[t].page = q
  BY <1>0, RefillCall DEF Moved
<1>2. UNCHANGED <<cpuOf, live, curPage, userPage, doubled, skewed>>
  BY DEF KernelRefill, kernelVars, userVars, histVars
<1> SUFFICES ASSUME NEW p \in Page, Trusted(p)' PROVE PageGood(p)'
  BY DEF PageInv
<1>3. PageGood(p)
  BY <1>2 DEF ArenaInv, PageInv, Trusted
<1>4. PendingOn(p)' = PendingOn(p) /\ ReleasingOn(p)' = ReleasingOn(p)
  BY <1>0, <1>1 DEF PendingOn, ReleasingOn, Others
<1>5. LiveOn(p)' = LiveOn(p)
  BY <1>2 DEF LiveOn
<1>6. ASSUME NEW w \in Owner, Holds(w, p)' PROVE Holds(w, p) \/ (p = q /\ w = cpuOf[t])
  <2>1. ASSUME NEW u \in Task, task'[u].pc \in KernelSteps, task'[u].page = p, w = cpuOf[u]
        PROVE  Holds(w, p) \/ (p = q /\ w = cpuOf[t])
    <3>1. CASE u = t
      BY <1>1, <2>1, <3>1
    <3>2. CASE u # t
      BY <1>1, <2>1, <3>2 DEF Holds, Others
    <3> QED BY <3>1, <3>2
  <2> QED BY <1>2, <1>6, <2>1 DEF Holds
<1>7. CASE p # q
  <2>1. cnt'[p] = cnt[p] /\ (p \in mapped => p \in mapped')
    BY <1>0, <1>7
  <2> QED BY <1>3, <1>4, <1>5, <1>6, <1>7, <2>1, PageKept
<1>8. CASE p = q
  <2>1. cnt'[p] = 0 /\ p \in mapped' /\ p \notin mapped
    BY <1>0, <1>8
  <2>2. \A w \in Owner : Holds(w, p)' => w = cpuOf[t] \/ Holds(w, p)
    BY <1>6
  <2> QED BY <1>0, <1>3, <1>4, <1>5, <2>1, <2>2, PageTaken
<1> QED BY <1>7, <1>8

\* The late *obj_cnt = 0 of a refill: it changes no counter of a page in order.
LEMMA PageZeroed ==
  ASSUME ArenaInv, NEW t \in KernelTask, KernelSetCount(t), NEW p \in Page, Trusted(p)'
  PROVE  cnt'[p] = cnt[p] /\ mapped \subseteq mapped'
<1>0. UserInv /\ ArenaTypeOK /\ t \in Task /\ task[t].pc = "setCount" /\ task[t].page \in Page /\ cpuOf[t] \in Owner
  BY DEF ArenaInv, UserInv, ArenaTypeOK, Task, KernelSetCount, CallsInv, CallInv, Holding, Owner
<1>1. /\ mapped \subseteq mapped' /\ \A q \in Page \ {task[t].page} : cnt'[q] = cnt[q]
      /\ task[t].page \in mapped => cnt'[task[t].page] = 0
  <2>1. SetCounter(t, task[t].page, 0)
    BY DEF KernelSetCount
  <2>2. 0 \in 0 .. Modulus - 1
    BY CellAssumption
  <2> QED BY <1>0, <2>1, <2>2, CounterStored
<1>2. Trusted(p) /\ (p = task[t].page => Counter(p) = 0)
  BY DEF Trusted, KernelSetCount
<1>3. ASSUME p = task[t].page PROVE cnt'[p] = cnt[p]
  <2>1. Holds(cpuOf[t], p)
    BY <1>0, <1>3 DEF Holds, KernelSteps, Cutting
  <2>2. p \in mapped
    BY <1>0, <1>2, <2>1 DEF ArenaInv, PageInv, PageGood, HeldIsMapped
  <2> QED BY <1>1, <1>2, <1>3, <2>2 DEF Counter
<1> QED BY <1>1, <1>3

\* The other steps of a kernel allocation that has its page.
LEMMA PageMove ==
  ASSUME ArenaInv, NEW t \in KernelTask, KernelMove(t), ~KernelAllocStore(t)
  PROVE  PageInv'
<1>0. /\ UserInv /\ t \in Task /\ Others(t) /\ task[t].pc \in KernelSteps \ {"cut"} /\ task'[t].pc \in Cutting
      /\ task'[t].page = task[t].page /\ UNCHANGED <<cpuOf, live, userPage, doubled>>
      /\ task[t].pc = "store" <=> task'[t].pc = "cut"
  BY KernelMoved DEF ArenaInv, userVars
<1>1. task[t].pc # "store"
  BY <1>0 DEF KernelMove, KernelSetPage, KernelSetOffset, KernelSetCount, KernelAllocOffset, KernelAllocCount
<1>2. Holds(cpuOf[t], task[t].page) /\ cpuOf[t] \in Cpu /\ curPage \in [Cpu -> Page \cup {NoPage}]
  BY <1>0 DEF Holds, UserInv, ArenaTypeOK
<1>3. \A w \in Cpu : curPage'[w] = curPage[w] \/ Holds(w, curPage'[w])
  <2>1. CASE KernelSetPage(t)
    BY <1>2, <2>1 DEF KernelSetPage
  <2>2. CASE curPage' = curPage
    BY <2>2
  <2> QED BY <2>1, <2>2 DEF KernelMove, KernelSetOffset, KernelSetCount, KernelAllocOffset, KernelAllocCount, kernelVars
<1>4. mapped \subseteq mapped' /\ skewed \subseteq skewed' /\ \A p \in Page : Trusted(p)' => cnt'[p] = cnt[p]
  <2>1. CASE KernelSetCount(t)
    <3>1. mapped \subseteq mapped' /\ skewed \subseteq skewed'
      BY <2>1 DEF KernelSetCount, SetCounter, Touched
    <3> QED BY <2>1, <3>1, PageZeroed
  <2>2. CASE UNCHANGED <<pageVars, skewed>>
    BY <2>2 DEF pageVars
  <2> QED BY <2>1, <2>2 DEF KernelMove, KernelSetPage, KernelSetOffset, KernelAllocOffset, KernelAllocCount, histVars
<1>5. task[t].pc \notin {"free", "cut", "release"} /\ task'[t].pc \notin {"free", "cut", "release"}
  BY <1>0, <1>1 DEF KernelSteps, Cutting
<1> QED BY <1>0, <1>2, <1>3, <1>4, <1>5, PageUntouched

LEMMA PageUserTaken ==
  ASSUME ArenaInv, NEW t \in UserTask, NEW size \in Sizes, UserAllocBegin(t, size)
  PROVE  PageInv'
<1>0. UserInv /\ ArenaTypeOK /\ t \in Task /\ task[t].pc = "idle"
  BY DEF ArenaInv, UserInv, Task, UserAllocBegin
<1>1. Others(t) /\ task'[t].pc = "ucount" /\ userPage' \in Page
  BY <1>0, UserBeginCall
<1>2. UNCHANGED <<cpuOf, live, curPage, skewed>>
  BY DEF UserAllocBegin, kernelVars
<1> SUFFICES ASSUME NEW p \in Page, Trusted(p)' PROVE PageGood(p)'
  BY DEF PageInv
<1>3. Trusted(p)
  BY <1>2 DEF Trusted, UserAllocBegin
<1>4. PageGood(p)
  BY <1>3 DEF ArenaInv, PageInv
<1>5. PendingOn(p)' = PendingOn(p) /\ ReleasingOn(p)' = ReleasingOn(p)
  BY <1>0, <1>1 DEF PendingOn, ReleasingOn, Others
<1>6. LiveOn(p)' = LiveOn(p)
  BY <1>2 DEF LiveOn
<1>7. ASSUME NEW w \in Owner, Holds(w, p)' PROVE Holds(w, p) \/ (p = userPage' /\ w = "user")
  <2>1. ASSUME NEW u \in Task, task'[u].pc \in KernelSteps, task'[u].page = p, w = cpuOf[u]
        PROVE  Holds(w, p)
    BY <1>1, <2>1 DEF Holds, Others, KernelSteps, Cutting
  <2> QED BY <1>2, <1>7, <2>1 DEF Holds
<1>8. CASE ~UserNeedsPage(size)
  <2>1. userPage' = userPage /\ cnt' = cnt /\ mapped' = mapped
    BY <1>8 DEF UserAllocBegin, pageVars
  <2>2. \A w \in Owner : Holds(w, p)' => Holds(w, p)
    BY <1>7, <2>1 DEF Holds
  <2> QED BY <1>4, <1>5, <1>6, <2>1, <2>2, PageKept
<1>9. CASE UserNeedsPage(size)
  <2>0. /\ nextPage \in Page /\ userPage' = nextPage /\ SetCounter(t, nextPage, 0)
        /\ doubled' = doubled \cup ({nextPage} \cap mapped)
    BY <1>9 DEF UserAllocBegin
  <2>1. CASE p # nextPage
    <3>1. cnt'[p] = cnt[p] /\ (p \in mapped => p \in mapped')
      BY <1>0, <2>0, <2>1, CounterRange, CounterStored
    <3> QED BY <1>4, <1>5, <1>6, <1>7, <2>0, <2>1, <3>1, PageKept
  <2>2. CASE p = nextPage
    <3>1. p \notin mapped
      BY <2>0, <2>2 DEF Trusted
    <3>2. cnt'[p] = 0 /\ p \in mapped'
      BY <1>0, <2>0, <2>2 DEF SetCounter, Touched, ArenaTypeOK
    <3>3. \A w \in Owner : Holds(w, p)' => w = "user" \/ Holds(w, p)
      BY <1>7
    <3> QED BY <1>0, <1>4, <1>5, <1>6, <3>1, <3>2, <3>3, PageTaken
  <2> QED BY <2>1, <2>2
<1> QED BY <1>8, <1>9

LEMMA PageFreeBegun ==
  ASSUME ArenaInv, NEW t \in Task, NEW o \in live, FreeBegin(t, o)
  PROVE  PageInv'
<1> DEFINE q == PageOf(o.addr)
<1>0. UserInv /\ SizeInv /\ task[t].pc = "idle"
  BY DEF ArenaInv, FreeBegin
<1>1. /\ Others(t) /\ q \in Page
      /\ (Counter(q) = 0 /\ task' = task) \/ (task'[t].pc = "free" /\ task'[t].page = q)
  BY <1>0, FreeCall
<1>2. /\ UNCHANGED <<cpuOf, cnt, curPage, userPage, doubled>>
      /\ live' = live \ {o} /\ skewed' = skewed \cup {r \in {q, o.page} : q # o.page}
      /\ mapped \subseteq mapped'
  BY DEF FreeBegin, Touched, kernelVars, userVars
<1> HIDE DEF q
<1> SUFFICES ASSUME NEW p \in Page, Trusted(p)' PROVE PageGood(p)'
  BY DEF PageInv
<1>3. Trusted(p) /\ (q # o.page => p # q /\ p # o.page)
  BY <1>2 DEF Trusted
<1>4. PageGood(p)
  BY <1>3 DEF ArenaInv, PageInv
<1>5. ASSUME NEW w \in Owner, Holds(w, p)' PROVE Holds(w, p)
  <2>1. ASSUME NEW u \in Task, task'[u].pc \in KernelSteps, task'[u].page = p, w = cpuOf[u]
        PROVE  Holds(w, p)
    BY <1>1, <2>1 DEF Holds, Others, KernelSteps, Cutting
  <2> QED BY <1>2, <1>5, <2>1 DEF Holds
<1>6. ReleasingOn(p)' = ReleasingOn(p)
  BY <1>0, <1>1 DEF ReleasingOn, Others
<1>7. CASE p # q
  <2>1. LiveOn(p)' = LiveOn(p)
    BY <1>2, <1>3, <1>7 DEF LiveOn
  <2>2. PendingOn(p)' = PendingOn(p)
    BY <1>0, <1>1, <1>7 DEF PendingOn, Others
  <2> QED BY <1>2, <1>4, <1>5, <1>6, <2>1, <2>2, PageKept
<1>8. CASE p = q
  <2>1. o.page = p /\ o.owner \in Cpu \cup {"user"}
    BY <1>0, <1>3, <1>8, ObjectFields DEF UserInv, ArenaTypeOK
  <2>2. Holds(o.owner, p) /\ o.owner \in Owner
    BY <2>1 DEF Holds, Owner
  <2>3. p \in mapped
    BY <1>4, <2>2 DEF PageGood, HeldIsMapped
  <2>4. p \notin GlobalPages
    <3>1. p \in GlobalPages => Holds("globals", p) /\ "globals" \in Owner
      BY DEF Holds, Owner
    <3> QED BY <1>4, <2>1, <2>2, <3>1, OwnerAssumption DEF PageGood, OneHolder
  <2>5. LiveOn(p)' = LiveOn(p) \ {o} /\ o \in LiveOn(p)
    BY <1>2, <2>1 DEF LiveOn
  <2>6. /\ IsFiniteSet(LiveOn(p)) /\ Cardinality(LiveOn(p)) \in Nat
        /\ IsFiniteSet(PendingOn(p)) /\ Cardinality(PendingOn(p)) \in Nat
    BY <1>0, PageSets
  <2>7. Cardinality(LiveOn(p) \ {o}) = Cardinality(LiveOn(p)) - 1 /\ Cardinality(LiveOn(p)) # 0
    BY <2>5, <2>6, FS_RemoveElement, FS_EmptySet
  <2>8. cnt[p] = Cardinality(LiveOn(p)) + Cardinality(PendingOn(p))
    BY <1>4 DEF PageGood, CounterExact
  <2>9. Counter(p) # 0
    BY <2>3, <2>6, <2>7, <2>8 DEF Counter
  <2>10. PendingOn(p)' = PendingOn(p) \cup {t} /\ t \notin PendingOn(p)
    BY <1>0, <1>1, <1>8, <2>9 DEF PendingOn, Others
  <2>11. Cardinality(PendingOn(p) \cup {t}) = Cardinality(PendingOn(p)) + 1
    BY <2>6, <2>10, FS_AddElement
  <2>12. CounterExact(p)'
    BY <1>2, <2>5, <2>6, <2>7, <2>8, <2>10, <2>11 DEF CounterExact
  <2>13. OneHolder(p)' /\ HeldIsMapped(p)'
    BY <1>2, <1>4, <1>5 DEF PageGood, OneHolder, HeldIsMapped
  <2>14. PendingIsMapped(p)'
    BY <1>2, <2>3, <2>4 DEF PendingIsMapped
  <2>15. ReleasedAlone(p)'
    BY <1>4, <1>6, <2>2 DEF PageGood, ReleasedAlone
  <2> QED BY <2>12, <2>13, <2>14, <2>15 DEF PageGood
<1> QED BY <1>7, <1>8

\* What the counter says when a free stores it: the number of objects that are
\* left and of calls that are still to settle.
LEMMA LastFree ==
  ASSUME ArenaInv, NEW t \in Task, task[t].pc = "free", NEW p \in Page, task[t].page = p, PageGood(p),
         Counter(p) = task[t].seen
  PROVE  /\ p \in mapped \ GlobalPages
         /\ Decrement(task[t].seen) = Cardinality(LiveOn(p)) + Cardinality(PendingOn(p) \ {t})
         /\ LastObject(Decrement(task[t].seen)) => LiveOn(p) = {} /\ PendingOn(p) = {t}
<1>0. UserInv /\ SizeInv
  BY DEF ArenaInv
<1>1. t \in PendingOn(p)
  BY DEF PendingOn
<1>2. p \in mapped \ GlobalPages
  BY <1>1 DEF PageGood, PendingIsMapped
<1>3. /\ IsFiniteSet(LiveOn(p)) /\ Cardinality(LiveOn(p)) \in Nat
      /\ IsFiniteSet(PendingOn(p)) /\ Cardinality(PendingOn(p)) \in Nat
  BY <1>0, PageSets
<1>4. /\ IsFiniteSet(PendingOn(p) \ {t})
      /\ Cardinality(PendingOn(p) \ {t}) = Cardinality(PendingOn(p)) - 1
      /\ Cardinality(PendingOn(p) \ {t}) \in Nat
  BY <1>1, <1>3, FS_RemoveElement, FS_CardinalityType
<1>5. task[t].seen = Cardinality(LiveOn(p)) + Cardinality(PendingOn(p))
  BY <1>2 DEF PageGood, CounterExact, Counter
<1>6. cnt[p] \in 0 .. Modulus - 1 /\ task[t].seen = cnt[p]
  BY <1>0, <1>2 DEF UserInv, ArenaTypeOK, Counter
<1> DEFINE n == Cardinality(LiveOn(p)) + Cardinality(PendingOn(p) \ {t})
<1>7. n \in 0 .. Modulus - 1 /\ n = task[t].seen - 1
  BY <1>3, <1>4, <1>5, <1>6, CellAssumption
<1> HIDE DEF n
<1>8. Modulus \in Nat /\ Modulus > 0
  BY <1>7, CellAssumption
<1>9. n % Modulus = n
  BY <1>7, <1>8, FirstLap
<1>10. Decrement(task[t].seen) = n
  BY <1>7, <1>8, <1>9 DEF Decrement
<1>11. ASSUME n = 0 PROVE LiveOn(p) = {} /\ PendingOn(p) = {t}
  <2>1. Cardinality(LiveOn(p)) = 0 /\ Cardinality(PendingOn(p) \ {t}) = 0
    BY <1>3, <1>4, <1>11 DEF n
  <2>2. LiveOn(p) = {} /\ PendingOn(p) \ {t} = {}
    BY <1>3, <1>4, <2>1, FS_EmptySet
  <2> QED BY <1>1, <2>2
<1> QED BY <1>2, <1>10, <1>11 DEF LastObject, n

\* A page that is condemned in order is held by nobody, and nobody will hold it.
LEMMA PageFreed ==
  ASSUME ArenaInv, NEW t \in Task, FreeStore(t)
  PROVE  PageInv'
<1> DEFINE q == task[t].page
           n == Decrement(task[t].seen)
           last == t \in KernelTask /\ LastObject(n)
<1>0. UserInv /\ SizeInv /\ ArenaTypeOK /\ task[t].pc = "free"
  BY DEF ArenaInv, UserInv, FreeStore
<1>1. /\ Others(t) /\ q \in Page /\ task[t].seen \in Nat
      /\ \/ /\ last /\ doubled' = doubled \cup ({q} \cap Current)
            /\ task'[t].pc = "release" /\ task'[t].page = q
         \/ ~last /\ doubled' = doubled /\ task'[t].pc = "idle"
  BY <1>0, FreeStoreCall
<1>2. UNCHANGED <<cpuOf, live, curPage, userPage>> /\ skewed' = Skews(t) /\ SetCounter(t, q, n)
  BY DEF FreeStore, kernelVars, userVars
<1>3. /\ mapped \subseteq mapped' /\ \A r \in Page \ {q} : cnt'[r] = cnt[r]
      /\ q \in mapped => cnt'[q] = n
  BY <1>0, <1>1, <1>2, CounterRange, CounterStored
<1> HIDE DEF last
<1> SUFFICES ASSUME NEW p \in Page, Trusted(p)' PROVE PageGood(p)'
  BY DEF PageInv
<1>5. Trusted(p)
  BY <1>1, <1>2 DEF Trusted, Skews
<1>6. PageGood(p)
  BY <1>5 DEF ArenaInv, PageInv
<1>7. ASSUME NEW w \in Owner, Holds(w, p)' PROVE Holds(w, p)
  <2>1. ASSUME NEW u \in Task, task'[u].pc \in KernelSteps, task'[u].page = p, w = cpuOf[u]
        PROVE  Holds(w, p)
    BY <1>1, <2>1 DEF Holds, Others, KernelSteps, Cutting
  <2> QED BY <1>2, <1>7, <2>1 DEF Holds
<1>8. LiveOn(p)' = LiveOn(p)
  BY <1>2 DEF LiveOn
<1>9. CASE p # q
  <2>1. PendingOn(p)' = PendingOn(p) /\ ReleasingOn(p)' = ReleasingOn(p)
    BY <1>0, <1>1, <1>9 DEF PendingOn, ReleasingOn, Others
  <2> QED BY <1>3, <1>6, <1>7, <1>8, <1>9, <2>1, PageKept
<1>10. CASE p = q
  <2>1. PendingOn(p)' = PendingOn(p) \ {t} /\ t \in PendingOn(p)
    BY <1>0, <1>1, <1>10 DEF PendingOn, Others
  <2>2. Counter(p) = task[t].seen
    BY <1>2, <1>10 DEF Trusted, Skews
  <2>3. /\ p \in mapped \ GlobalPages
        /\ n = Cardinality(LiveOn(p)) + Cardinality(PendingOn(p) \ {t})
        /\ LastObject(n) => LiveOn(p) = {} /\ PendingOn(p) = {t}
    BY <1>0, <1>6, <1>10, <2>2, LastFree
  <2>4. ReleasingOn(p) = {}
    BY <1>6, <2>1 DEF PageGood, ReleasedAlone
  <2> HIDE DEF n
  <2>5. CounterExact(p)'
    BY <1>3, <1>8, <1>10, <2>1, <2>3 DEF CounterExact
  <2>6. OneHolder(p)' /\ HeldIsMapped(p)' /\ PendingIsMapped(p)'
    BY <1>3, <1>6, <1>7, <2>3 DEF PageGood, OneHolder, HeldIsMapped, PendingIsMapped
  <2>7. ReleasedAlone(p)'
    <3>1. CASE last
      <4>1. task'[t].pc = "release" /\ task'[t].page = p /\ p \notin Current
        BY <1>1, <1>10, <3>1 DEF Trusted
      <4>2. ReleasingOn(p)' = {t}
        BY <1>1, <2>4, <4>1 DEF ReleasingOn, Others
      <4>3. LiveOn(p) = {} /\ PendingOn(p)' = {}
        BY <2>1, <2>3, <3>1 DEF last
      <4>4. /\ p # userPage /\ \A c \in Cpu : curPage[c] # p
            /\ \A u \in Task : task[u].pc \in KernelSteps => task[u].page # p
        BY <4>1 DEF Current, Holding, KernelSteps, Cutting
      <4>5. \A w \in Owner : ~Holds(w, p)
        BY <2>3, <4>3, <4>4 DEF Holds, LiveOn
      <4>6. p \in mapped' /\ \A w \in Owner : ~Holds(w, p)'
        BY <1>3, <1>7, <2>3, <4>5
      <4> QED BY <4>2, <4>3, <4>6 DEF ReleasedAlone
    <3>2. CASE ~last
      <4>1. ReleasingOn(p)' = {}
        BY <1>1, <2>4, <3>2 DEF ReleasingOn, Others
      <4> QED BY <4>1 DEF ReleasedAlone
    <3> QED BY <3>1, <3>2
  <2> QED BY <2>5, <2>6, <2>7 DEF PageGood
<1> QED BY <1>9, <1>10

LEMMA PageReleased ==
  ASSUME ArenaInv, NEW t \in Task, FreeRelease(t)
  PROVE  PageInv'
<1> DEFINE q == task[t].page
<1>0. UserInv /\ SizeInv /\ ArenaTypeOK /\ task[t].pc = "release" /\ q \in Page
  BY DEF ArenaInv, UserInv, FreeRelease, CallsInv, CallInv
<1>1. Others(t) /\ task'[t].pc = "idle"
  BY <1>0, EndCall DEF FreeRelease
<1>2. /\ UNCHANGED <<cpuOf, live, curPage, userPage, doubled, skewed>>
      /\ mapped' = mapped \ {q} /\ cnt' = [cnt EXCEPT ![q] = 0]
  BY DEF FreeRelease, kernelVars, userVars, histVars
<1> SUFFICES ASSUME NEW p \in Page, Trusted(p)' PROVE PageGood(p)'
  BY DEF PageInv
<1>3. PageGood(p)
  BY <1>2 DEF ArenaInv, PageInv, Trusted
<1>4. ASSUME NEW w \in Owner, Holds(w, p)' PROVE Holds(w, p)
  <2>1. ASSUME NEW u \in Task, task'[u].pc \in KernelSteps, task'[u].page = p, w = cpuOf[u]
        PROVE  Holds(w, p)
    BY <1>1, <2>1 DEF Holds, Others, KernelSteps, Cutting
  <2> QED BY <1>2, <1>4, <2>1 DEF Holds
<1>5. LiveOn(p)' = LiveOn(p)
  BY <1>2 DEF LiveOn
<1>6. PendingOn(p)' = PendingOn(p)
  BY <1>0, <1>1 DEF PendingOn, Others
<1>7. CASE p # q
  <2>1. ReleasingOn(p)' = ReleasingOn(p)
    BY <1>1, <1>7 DEF ReleasingOn, Others
  <2>2. cnt'[p] = cnt[p] /\ (p \in mapped => p \in mapped')
    BY <1>0, <1>2, <1>7 DEF ArenaTypeOK
  <2> QED BY <1>3, <1>4, <1>5, <1>6, <2>1, <2>2, PageKept
<1>8. CASE p = q
  <2>1. t \in ReleasingOn(p)
    BY <1>0, <1>8 DEF ReleasingOn
  <2>2. ReleasingOn(p) = {t} /\ PendingOn(p) = {} /\ \A w \in Owner : ~Holds(w, p)
    BY <1>3, <2>1 DEF PageGood, ReleasedAlone
  <2>3. ReleasingOn(p)' = {}
    BY <1>1, <2>2 DEF ReleasingOn, Others
  <2>4. LiveOn(p) = {}
    <3>1. ASSUME NEW o \in live, o.page = p PROVE FALSE
      <4>1. o.owner \in Owner
        BY <1>0, ObjectFields DEF ArenaTypeOK, Owner
      <4> QED BY <2>2, <3>1, <4>1 DEF Holds
    <3> QED BY <3>1 DEF LiveOn
  <2>5. CounterExact(p)'
    <3>1. cnt'[p] = 0
      BY <1>0, <1>2, <1>8 DEF ArenaTypeOK
    <3>2. Cardinality(LiveOn(p)') = 0 /\ Cardinality(PendingOn(p)') = 0
      BY <1>5, <1>6, <2>2, <2>4, FS_EmptySet
    <3> QED BY <3>1, <3>2 DEF CounterExact
  <2>6. OneHolder(p)' /\ HeldIsMapped(p)' /\ PendingIsMapped(p)' /\ ReleasedAlone(p)'
    BY <1>4, <1>6, <2>2, <2>3 DEF OneHolder, HeldIsMapped, PendingIsMapped, ReleasedAlone
  <2> QED BY <2>5, <2>6 DEF PageGood
<1> QED BY <1>7, <1>8

LEMMA PageStep ==
  ASSUME ArenaInv, [ArenaNext]_arenaVars PROVE PageInv'
<1>0. UserInv /\ cpuOf \in [KernelTask -> Cpu] /\ KernelTask \subseteq Task /\ UserTask \subseteq Task
  BY DEF ArenaInv, UserInv, ArenaTypeOK, Task
<1>1. ASSUME NEW t \in KernelTask, NEW size \in Sizes, KernelAllocBegin(t, size) PROVE PageInv'
  <2>1. /\ Others(t) /\ task[t].pc = "idle" /\ task'[t].pc \in {"refill", "offset"}
        /\ task'[t].page = curPage[cpuOf[t]]
    BY <1>0, <1>1, BeginCall DEF KernelAllocBegin
  <2>2. Holds(cpuOf[t], task'[t].page)
    BY <1>0, <2>1 DEF Holds
  <2>3. UNCHANGED <<cpuOf, live, cnt, mapped, curPage, userPage, doubled, skewed>>
    BY <1>1 DEF KernelAllocBegin, pageVars, kernelVars, userVars, histVars
  <2> QED BY <1>0, <2>1, <2>2, <2>3, PageUntouched
<1>2. ASSUME NEW t \in KernelTask, KernelRefill(t) PROVE PageInv'
  <2>1. ASSUME NEW p \in Page \ mapped, mapped' = mapped \cup {p}, cnt' = [cnt EXCEPT ![p] = 0],
               task' = [task EXCEPT ![t].pc = "setPage", ![t].page = p]
        PROVE  PageInv'
    BY <1>2, <2>1, PageRefilled
  <2>2. ASSUME task' = [task EXCEPT ![t] = Idle], UNCHANGED pageVars PROVE PageInv'
    <3>1. Others(t) /\ task[t].pc = "refill" /\ task'[t].pc = "idle"
      BY <1>0, <1>2, <2>2, EndCall DEF KernelRefill
    <3>2. UNCHANGED <<cpuOf, live, cnt, mapped, curPage, userPage, doubled, skewed>>
      BY <1>2, <2>2 DEF KernelRefill, pageVars, kernelVars, userVars, histVars
    <3> QED BY <1>0, <3>1, <3>2, PageUntouched DEF KernelSteps, Cutting
  <2> QED BY <1>2, <2>1, <2>2 DEF KernelRefill
<1>3. ASSUME NEW t \in KernelTask, KernelMove(t) PROVE PageInv'
  BY <1>3, PageMove, PageCounted
<1>4. ASSUME NEW t \in KernelTask, KernelAllocCut(t) PROVE PageInv'
  BY <1>4, PageCut
<1>5. ASSUME NEW t \in UserTask, NEW size \in Sizes, UserAllocBegin(t, size) PROVE PageInv'
  BY <1>5, PageUserTaken
<1>6. ASSUME NEW t \in UserTask, UserAllocCount(t) PROVE PageInv'
  <2>1. Others(t) /\ task[t].pc = "ucount" /\ task'[t].pc = "ustore"
    BY <1>0, <1>6, UserCountCall DEF UserAllocCount, Moved
  <2>2. UNCHANGED <<cpuOf, live, cnt, curPage, userPage, doubled, skewed>> /\ mapped \subseteq mapped'
    BY <1>6 DEF UserAllocCount, Touched, kernelVars, userVars, histVars
  <2> QED BY <1>0, <2>1, <2>2, PageUntouched DEF KernelSteps, Cutting
<1>7. ASSUME NEW t \in UserTask, UserAllocStore(t) PROVE PageInv'
  BY <1>7, PageUserCut
<1>8. ASSUME NEW t \in Task, NEW o \in live, FreeBegin(t, o) PROVE PageInv'
  BY <1>8, PageFreeBegun
<1>9. ASSUME NEW t \in Task, FreeStore(t) PROVE PageInv'
  BY <1>9, PageFreed
<1>10. ASSUME NEW t \in Task, FreeRelease(t) PROVE PageInv'
  BY <1>10, PageReleased
<1>11. CASE UNCHANGED arenaVars
  <2>1. UNCHANGED <<cpuOf, live, cnt, mapped, curPage, userPage, task, doubled, skewed>>
    BY <1>11 DEF arenaVars, pageVars, kernelVars, userVars, histVars
  <2> SUFFICES ASSUME NEW p \in Page, Trusted(p)' PROVE PageGood(p)'
    BY DEF PageInv
  <2>2. PageGood(p)
    BY <2>1 DEF ArenaInv, PageInv, Trusted
  <2>3. LiveOn(p)' = LiveOn(p) /\ PendingOn(p)' = PendingOn(p) /\ ReleasingOn(p)' = ReleasingOn(p)
    BY <2>1 DEF LiveOn, PendingOn, ReleasingOn
  <2>4. \A w \in Owner : Holds(w, p)' => Holds(w, p)
    BY <2>1 DEF Holds
  <2> QED BY <2>1, <2>2, <2>3, <2>4, PageKept
<1> QED
  BY <1>1, <1>2, <1>3, <1>4, <1>5, <1>6, <1>7, <1>8, <1>9, <1>10, <1>11 DEF ArenaNext, KernelMove

LEMMA ArenaInvInit == ArenaInit => ArenaInv
<1> SUFFICES ASSUME ArenaInit PROVE ArenaInv
  OBVIOUS
<1>1. UserInv
  BY UserInit
<1>2. \A t \in Task : task[t].pc = "idle"
  BY DEF ArenaInit, Idle
<1>3. NumberInv
  BY <1>2 DEF ArenaInit, NumberInv, Requested, Holding
<1>4. live = {} /\ Busy = {} /\ allocs = 0
  BY <1>2 DEF ArenaInit, Busy
<1>5. SizeInv
  BY <1>4, FS_EmptySet DEF SizeInv
<1>6. ASSUME NEW p \in Page PROVE PageGood(p)
  <2>1. LiveOn(p) = {} /\ PendingOn(p) = {} /\ ReleasingOn(p) = {}
    BY <1>2, <1>4 DEF LiveOn, PendingOn, ReleasingOn
  <2>2. CounterExact(p)
    BY <2>1, FS_EmptySet DEF ArenaInit, CounterExact
  <2>3. ASSUME NEW w \in Owner, Holds(w, p) PROVE w = "globals" /\ p \in mapped
    BY <1>2, <2>3, PageAssumption DEF Holds, ArenaInit, Page, NoPage, KernelSteps, Cutting
  <2> QED BY <2>1, <2>2, <2>3 DEF PageGood, OneHolder, HeldIsMapped, PendingIsMapped, ReleasedAlone
<1> QED BY <1>1, <1>3, <1>5, <1>6 DEF ArenaInv, PageInv

LEMMA ArenaStep == ArenaInv /\ [ArenaNext]_arenaVars => ArenaInv'
  BY UserStep, NumberStep, SizeStep, PageStep DEF ArenaInv

LEMMA ArenaAlways == ArenaSpec => []ArenaInv
<1>1. ArenaInv /\ [ArenaNext]_arenaVars => ArenaInv'
  BY ArenaStep
<1> QED BY <1>1, ArenaInvInit, PTL DEF ArenaSpec

\* The object counter in the last cell of a page is the number of the page's
\* objects and of the calls that have counted one or have yet to discount one, as
\* long as no update of it was lost, no free was charged to another page and the
\* page was not handed out twice.
THEOREM CountersRight == ArenaSpec => []CountersExact
<1>1. ArenaInv => CountersExact
  BY DEF ArenaInv, PageInv, PageGood, CounterExact, LiveOn, PendingOn, CountersExact
<1> QED BY <1>1, ArenaAlways, PTL

LEMMA FreedStep ==
  ASSUME ArenaInv, [ArenaNext]_arenaVars, NEW p \in mapped \ mapped', Trusted(p)
  PROVE  /\ \A o \in live : o.page # p
         /\ \A t \in Task : task[t].pc \in Holding => task[t].page # p
<1> DEFINE Goal == /\ \A o \in live : o.page # p
                   /\ \A t \in Task : task[t].pc \in Holding => task[t].page # p
<1>0. p \in Page /\ UserInv /\ cpuOf \in [KernelTask -> Cpu] /\ live \subseteq ObjectRecord
  BY DEF ArenaInv, UserInv, ArenaTypeOK
<1>1. ASSUME NEW t \in Task, FreeRelease(t) PROVE Goal
  <2>1. p = task[t].page /\ t \in ReleasingOn(p)
    BY <1>1 DEF FreeRelease, ReleasingOn
  <2>2. \A w \in Owner : ~Holds(w, p)
    BY <1>0, <2>1 DEF ArenaInv, PageInv, PageGood, ReleasedAlone
  <2>3. ASSUME NEW o \in live PROVE o.page # p
    <3>1. o.owner \in Owner
      BY <1>0, ObjectFields DEF Owner
    <3> QED BY <2>2, <3>1 DEF Holds
  <2>4. ASSUME NEW u \in Task, task[u].pc \in Holding PROVE task[u].page # p
    <3>1. CASE task[u].pc \in KernelSteps
      <4>1. cpuOf[u] \in Owner
        BY <1>0, <3>1 DEF UserInv, CallsInv, CallInv, Owner
      <4> QED BY <2>2, <3>1, <4>1 DEF Holds
    <3>2. CASE task[u].pc \in UserSteps
      <4>1. task[u].page = userPage /\ "user" \in Owner
        BY <1>0, <3>2 DEF UserInv, CallsInv, CallInv, Owner
      <4> QED BY <2>2, <4>1 DEF Holds
    <3> QED BY <2>4, <3>1, <3>2 DEF Holding, KernelSteps, Cutting, UserSteps
  <2> QED BY <2>3, <2>4
<1>2. ASSUME NEW t \in KernelTask, NEW size \in Sizes, KernelAllocBegin(t, size) PROVE FALSE
  BY <1>2 DEF KernelAllocBegin, pageVars
<1>3. ASSUME NEW t \in KernelTask, KernelRefill(t) PROVE FALSE
  BY <1>3 DEF KernelRefill, pageVars
<1>4. ASSUME NEW t \in KernelTask, KernelMove(t) PROVE FALSE
  BY <1>4 DEF KernelMove, KernelSetPage, KernelSetOffset, KernelSetCount, KernelAllocOffset,
              KernelAllocCount, KernelAllocStore, SetCounter, Touched, pageVars
<1>5. ASSUME NEW t \in KernelTask, KernelAllocCut(t) PROVE FALSE
  BY <1>5 DEF KernelAllocCut, pageVars
<1>6. ASSUME NEW t \in UserTask, NEW size \in Sizes, UserAllocBegin(t, size) PROVE FALSE
  BY <1>6 DEF UserAllocBegin, SetCounter, Touched, pageVars
<1>7. ASSUME NEW t \in UserTask, UserAllocCount(t) \/ UserAllocStore(t) PROVE FALSE
  BY <1>7 DEF UserAllocCount, UserAllocStore, SetCounter, Touched
<1>8. ASSUME NEW t \in Task, NEW o \in live, FreeBegin(t, o) PROVE FALSE
  BY <1>8 DEF FreeBegin, Touched
<1>9. ASSUME NEW t \in Task, FreeStore(t) PROVE FALSE
  BY <1>9 DEF FreeStore, SetCounter, Touched
<1>10. CASE UNCHANGED arenaVars
  BY <1>10 DEF arenaVars, pageVars
<1> QED
  BY <1>1, <1>2, <1>3, <1>4, <1>5, <1>6, <1>7, <1>8, <1>9, <1>10 DEF ArenaNext, KernelMove

\* bpf_arena_free gives a page back, some time after its counter has dropped to
\* zero, only when none of its objects is in use and no call is cutting one from
\* it, unless the page has met with an accident.
THEOREM FreedUnused == ArenaSpec => FreedPagesUnused
<1> DEFINE A == \A p \in mapped \ mapped' : Trusted(p) =>
                  /\ \A o \in live : o.page # p
                  /\ \A t \in Task : task[t].pc \in Holding => task[t].page # p
<1>1. ArenaInv /\ [ArenaNext]_arenaVars => [A]_arenaVars
  BY FreedStep
<1> HIDE DEF A
<1>2. ArenaSpec => [][A]_arenaVars
  BY <1>1, ArenaAlways, PTL DEF ArenaSpec
<1> QED BY <1>2 DEF FreedPagesUnused, A
----------------------------------------------------------------------------
(* The offset of a CPU moves down through the page it cuts from, and a page that *)
(* is no longer the current one of its CPU is torn.                              *)
TornCalls ==
  \A t \in Task : task[t].pc \in Cutting /\ task[t].page \notin torn =>
    curPage[cpuOf[t]] = task[t].page

TornObjects ==
  \A o \in live : o.owner \in Cpu /\ o.page \notin torn =>
    curPage[o.owner] = o.page /\ o.addr >= o.page * PageCells + curOffset[o.owner]

TornApart ==
  \A a, b \in live : a.owner \in Cpu /\ a.owner = b.owner /\ a.page = b.page /\ a.page \notin torn =>
    ~Overlap(a, b)

(* While a refill has still to store the offset, cutting can only lower the one  *)
(* the page came with: the same offset means that nothing has been cut.  One     *)
(* refill at a time is at that point, or the page is torn.                       *)
TornFresh ==
  \A t \in Task : task[t].pc = "setOffset" /\ task[t].page \notin torn =>
    /\ curOffset[cpuOf[t]] <= task[t].offset
    /\ curOffset[cpuOf[t]] = task[t].offset =>
         \A o \in live : o.owner = cpuOf[t] => o.page # task[t].page

TornOnce ==
  \A t, u \in Task :
    /\ task[t].pc = "setOffset" /\ task[u].pc = "setOffset"
    /\ task[t].page = task[u].page /\ task[t].page \notin torn /\ cpuOf[t] = cpuOf[u]
    => t = u

TornInv == TornCalls /\ TornObjects /\ TornApart /\ TornFresh /\ TornOnce

LEMMA TornKept ==
  ASSUME TornInv, NEW t \in Task, Others(t), live' \subseteq live, UNCHANGED <<cpuOf, curPage, curOffset, torn>>,
         task'[t].pc # "setOffset",
         task'[t].pc \in Cutting => task'[t].page = curPage[cpuOf[t]] \/
           (task[t].pc \in Cutting /\ task'[t].page = task[t].page)
  PROVE  TornInv'
<1>1. TornCalls'
  <2> SUFFICES ASSUME NEW u \in Task, task'[u].pc \in Cutting, task'[u].page \notin torn
               PROVE  curPage[cpuOf[u]] = task'[u].page
    BY DEF TornCalls
  <2>1. CASE u = t
    BY <2>1 DEF TornInv, TornCalls
  <2>2. CASE u # t
    BY <2>2 DEF TornInv, TornCalls, Others
  <2> QED BY <2>1, <2>2
<1>2. TornObjects'
  BY DEF TornInv, TornObjects
<1>3. TornApart'
  BY DEF TornInv, TornApart, Overlap
<1>4. TornFresh'
  BY DEF TornInv, TornFresh, Others
<1>5. TornOnce'
  BY DEF TornInv, TornOnce, Others
<1> QED BY <1>1, <1>2, <1>3, <1>4, <1>5 DEF TornInv

\* A page that is still in order is the current one of the CPU that cuts from it.
LEMMA TornHere ==
  ASSUME UserInv, TornInv, NEW t \in Task, task[t].pc \in Cutting, task[t].page \notin torn
  PROVE  t \in KernelTask /\ cpuOf[t] \in Cpu /\ task[t].page \in Page /\ curPage[cpuOf[t]] = task[t].page
<1>1. t \in KernelTask /\ task[t].page \in Page
  BY DEF UserInv, CallsInv, CallInv, KernelSteps, Cutting, Holding
<1>2. curPage[cpuOf[t]] = task[t].page
  BY DEF TornInv, TornCalls
<1> QED BY <1>1, <1>2 DEF UserInv, ArenaTypeOK

\* The current page is replaced: what was cut from the old one is torn, and of the
\* new one nothing has been cut that is in order.
LEMMA TornSetPage ==
  ASSUME UserInv, TornInv, NEW t \in KernelTask, KernelSetPage(t)
  PROVE  TornInv'
<1> DEFINE c == cpuOf[t]
           q == task[t].page
<1>0. t \in Task /\ c \in Cpu /\ curPage \in [Cpu -> Page \cup {NoPage}] /\ curOffset \in [Cpu -> Int]
      /\ live \subseteq ObjectRecord /\ task[t].pc = "setPage" /\ NoPage \notin Page
  BY PageAssumption DEF UserInv, ArenaTypeOK, Task, KernelSetPage, NoPage, Page
<1>1. Others(t) /\ task'[t].pc = "setOffset" /\ task'[t].page = q /\ task'[t].offset = curOffset[c] /\ q \in Page
  <2>1. KernelMove(t) /\ q \in Page
    BY <1>0 DEF KernelMove, UserInv, CallsInv, CallInv, Holding
  <2> QED BY <1>0, <2>1, KernelMoved
<1>2. /\ UNCHANGED <<cpuOf, live, curOffset>> /\ curPage' = [curPage EXCEPT ![c] = q]
      /\ torn' = torn \cup ({curPage[c]} \ {NoPage})
  BY DEF KernelSetPage
<1>3. torn \subseteq torn' /\ \A p \in Page : curPage[c] = p => p \in torn'
  BY <1>0, <1>2
<1>4. ASSUME NEW u \in Task \ {t}, task'[u].pc \in Cutting, task'[u].page \notin torn'
      PROVE  /\ task'[u] = task[u] /\ cpuOf[u] \in Cpu /\ cpuOf[u] # c
             /\ curPage[cpuOf[u]] = task[u].page /\ task[u].page \notin torn
  <2>1. task'[u] = task[u] /\ task[u].page \notin torn
    BY <1>1, <1>3, <1>4 DEF Others
  <2>2. cpuOf[u] \in Cpu /\ task[u].page \in Page /\ curPage[cpuOf[u]] = task[u].page
    BY <1>4, <2>1, TornHere
  <2> QED BY <1>3, <1>4, <2>1, <2>2
<1>5. ASSUME NEW o \in live, o.owner \in Cpu, o.page \notin torn'
      PROVE  /\ o.owner # c /\ curPage[o.owner] = o.page
             /\ o.addr >= o.page * PageCells + curOffset[o.owner]
  <2>1. curPage[o.owner] = o.page /\ o.addr >= o.page * PageCells + curOffset[o.owner]
    BY <1>3, <1>5 DEF TornInv, TornObjects
  <2>2. o.page \in Page
    BY <1>0, ObjectFields
  <2> QED BY <1>3, <1>5, <2>1, <2>2
<1> HIDE DEF c, q
<1>6. TornCalls'
  <2> SUFFICES ASSUME NEW u \in Task, task'[u].pc \in Cutting, task'[u].page \notin torn'
               PROVE  curPage'[cpuOf[u]] = task'[u].page
    BY <1>2 DEF TornCalls
  <2>1. CASE u = t
    BY <1>0, <1>1, <1>2, <2>1 DEF c
  <2>2. CASE u # t
    BY <1>0, <1>2, <1>4, <2>2
  <2> QED BY <2>1, <2>2
<1>7. TornObjects'
  BY <1>0, <1>2, <1>5 DEF TornObjects
<1>8. TornApart'
  BY <1>2, <1>3 DEF TornInv, TornApart, Overlap
<1>9. TornFresh'
  <2> SUFFICES ASSUME NEW u \in Task, task'[u].pc = "setOffset", task'[u].page \notin torn'
               PROVE  /\ curOffset[cpuOf[u]] <= task'[u].offset
                      /\ curOffset[cpuOf[u]] = task'[u].offset =>
                           \A o \in live : o.owner = cpuOf[u] => o.page # task'[u].page
    BY <1>2 DEF TornFresh
  <2>1. CASE u = t
    <3>1. curOffset[c] <= curOffset[c]
      BY <1>0
    <3> QED BY <1>0, <1>1, <1>5, <2>1, <3>1 DEF c
  <2>2. CASE u # t
    <3>1. task'[u] = task[u] /\ task[u].page \notin torn
      BY <1>4, <2>2 DEF Cutting
    <3> QED BY <3>1 DEF TornInv, TornFresh
  <2> QED BY <2>1, <2>2
<1>10. TornOnce'
  <2> SUFFICES ASSUME NEW u \in Task, NEW v \in Task, task'[u].pc = "setOffset", task'[v].pc = "setOffset",
                      task'[u].page = task'[v].page, task'[u].page \notin torn', cpuOf[u] = cpuOf[v]
               PROVE  u = v
    BY <1>2 DEF TornOnce
  <2>1. ASSUME NEW w \in {u, v}, w # t
        PROVE  task'[w] = task[w] /\ cpuOf[w] # c /\ task[w].page \notin torn
    BY <1>4, <2>1 DEF Cutting
  <2>2. CASE u # t /\ v # t
    BY <2>1, <2>2 DEF TornInv, TornOnce
  <2>3. CASE u = t \/ v = t
    BY <2>1, <2>3 DEF c
  <2> QED BY <2>2, <2>3
<1> QED BY <1>6, <1>7, <1>8, <1>9, <1>10 DEF TornInv

\* The offset is raised: either the page is still as the refill found it, with
\* nothing cut from it, or it is torn.
LEMMA TornSetOffset ==
  ASSUME UserInv, TornInv, NEW t \in KernelTask, KernelSetOffset(t)
  PROVE  TornInv'
<1> DEFINE c == cpuOf[t]
           q == task[t].page
<1>0. t \in Task /\ c \in Cpu /\ curPage \in [Cpu -> Page \cup {NoPage}] /\ curOffset \in [Cpu -> Int]
      /\ live \subseteq ObjectRecord /\ task[t].pc = "setOffset"
  BY DEF UserInv, ArenaTypeOK, Task, KernelSetOffset
<1>1. Others(t) /\ task'[t].pc \in Cutting /\ task'[t].pc # "setOffset" /\ task'[t].page = q
  <2>1. KernelMove(t)
    BY DEF KernelMove
  <2> QED BY <1>0, <2>1, KernelMoved
<1>2. /\ UNCHANGED <<cpuOf, live, curPage>> /\ curOffset' = [curOffset EXCEPT ![c] = Slots]
      /\ torn' = torn \cup {p \in {q, curPage[c]} : curPage[c] # q \/ curOffset[c] # task[t].offset}
  BY DEF KernelSetOffset
<1>3. torn \subseteq torn' /\ (curPage[c] \notin torn' => curPage[c] = q /\ curOffset[c] = task[t].offset)
  BY <1>2
<1>4. ASSUME NEW u \in Task \ {t}, task'[u].pc = "setOffset", task'[u].page \notin torn'
      PROVE  task'[u] = task[u] /\ cpuOf[u] \in Cpu /\ cpuOf[u] # c /\ task[u].page \notin torn
  <2>1. task'[u] = task[u] /\ task[u].page \notin torn /\ task[u].pc \in Cutting
    BY <1>1, <1>3, <1>4 DEF Others, Cutting
  <2>2. cpuOf[u] \in Cpu /\ curPage[cpuOf[u]] = task[u].page
    BY <2>1, TornHere
  <2>3. ASSUME cpuOf[u] = c PROVE FALSE
    <3>1. task[u].page = q
      BY <1>3, <1>4, <2>1, <2>2, <2>3
    <3> QED BY <1>0, <1>4, <2>1, <2>3, <3>1 DEF TornInv, TornOnce
  <2> QED BY <2>1, <2>2, <2>3
<1>5. ASSUME NEW o \in live, o.owner \in Cpu, o.page \notin torn'
      PROVE  /\ o.owner # c /\ curPage[o.owner] = o.page
             /\ o.addr >= o.page * PageCells + curOffset[o.owner]
  <2>1. curPage[o.owner] = o.page /\ o.addr >= o.page * PageCells + curOffset[o.owner]
    BY <1>3, <1>5 DEF TornInv, TornObjects
  <2>2. ASSUME o.owner = c PROVE FALSE
    <3>1. o.page = q /\ q \notin torn /\ curOffset[c] = task[t].offset
      BY <1>3, <1>5, <2>1, <2>2
    <3> QED BY <1>0, <1>5, <2>2, <3>1 DEF TornInv, TornFresh
  <2> QED BY <2>1, <2>2
<1>6. TornCalls'
  <2> SUFFICES ASSUME NEW u \in Task, task'[u].pc \in Cutting, task'[u].page \notin torn'
               PROVE  curPage[cpuOf[u]] = task'[u].page
    BY <1>2 DEF TornCalls
  <2>1. task[u].pc \in Cutting /\ task[u].page = task'[u].page
    BY <1>0, <1>1 DEF Others, Cutting
  <2> QED BY <1>3, <2>1 DEF TornInv, TornCalls
<1> HIDE DEF c, q
<1>7. TornObjects'
  BY <1>0, <1>2, <1>5 DEF TornObjects
<1>8. TornApart'
  BY <1>2, <1>3 DEF TornInv, TornApart, Overlap
<1>9. TornFresh'
  <2> SUFFICES ASSUME NEW u \in Task, task'[u].pc = "setOffset", task'[u].page \notin torn'
               PROVE  /\ curOffset'[cpuOf[u]] <= task'[u].offset
                      /\ curOffset'[cpuOf[u]] = task'[u].offset =>
                           \A o \in live : o.owner = cpuOf[u] => o.page # task'[u].page
    BY <1>2 DEF TornFresh
  <2>1. task'[u] = task[u] /\ cpuOf[u] \in Cpu /\ cpuOf[u] # c /\ task[u].page \notin torn
    BY <1>1, <1>4
  <2>2. curOffset'[cpuOf[u]] = curOffset[cpuOf[u]]
    BY <1>0, <1>2, <2>1
  <2> QED BY <2>1, <2>2 DEF TornInv, TornFresh
<1>10. TornOnce'
  <2> SUFFICES ASSUME NEW u \in Task, NEW v \in Task, task'[u].pc = "setOffset", task'[v].pc = "setOffset",
                      task'[u].page = task'[v].page, task'[u].page \notin torn', cpuOf[u] = cpuOf[v]
               PROVE  u = v
    BY <1>2 DEF TornOnce
  <2>1. task'[u] = task[u] /\ task'[v] = task[v] /\ task[u].page \notin torn
    BY <1>1, <1>4
  <2> QED BY <2>1 DEF TornInv, TornOnce
<1> QED BY <1>6, <1>7, <1>8, <1>9, <1>10 DEF TornInv

\* The offset is lowered by the size of the object, or the page is torn.
LEMMA TornCut ==
  ASSUME UserInv, TornInv, NEW t \in KernelTask, KernelAllocCut(t)
  PROVE  TornInv'
<1> DEFINE c == cpuOf[t]
           n == Object(t, c)
           k == task[t]
<1>0. t \in Task /\ c \in Cpu /\ curPage \in [Cpu -> Page \cup {NoPage}] /\ curOffset \in [Cpu -> Int]
      /\ live \subseteq ObjectRecord /\ cpuOf \in [KernelTask -> Cpu] /\ k.pc = "cut"
  BY DEF UserInv, ArenaTypeOK, Task, KernelAllocCut
<1>1. Others(t) /\ task'[t].pc = "idle"
  BY <1>0, EndCall DEF KernelAllocCut
<1>2. /\ UNCHANGED <<cpuOf, curPage>> /\ live' = live \cup {n}
      /\ curOffset' = [curOffset EXCEPT ![c] = k.offset] /\ torn' = Tears(t)
  BY DEF KernelAllocCut
<1>3. /\ n \in ObjectRecord /\ n.addr = k.page * PageCells + k.offset /\ n.size = k.size
      /\ n.page = k.page /\ n.owner = c /\ k.page \in Page /\ k.offset \in Int
  BY <1>0, ObjectTyped
<1>4. k.size \in Int /\ k.size > 0
  BY <1>3, ObjectFields
<1> HIDE DEF n
<1>5. torn \subseteq torn'
      /\ (k.page \notin torn' \/ curPage[c] \notin torn' => curOffset[c] = k.offset + k.size)
  BY <1>2 DEF Tears
<1>6. k.page \notin torn' => curPage[c] = k.page
  BY <1>0, <1>5 DEF TornInv, TornCalls, Cutting
<1>7. k.page * PageCells \in Int
  BY <1>3, PageAssumption, CellAssumption DEF Page, PageCells
<1>8. TornCalls'
  BY <1>1, <1>2, <1>5 DEF TornInv, TornCalls, Others, Cutting
<1>9. ASSUME NEW o \in live, o.owner \in Cpu, o.page \notin torn'
      PROVE  /\ curPage[o.owner] = o.page /\ o.addr >= o.page * PageCells + curOffset'[o.owner]
             /\ o.owner = c /\ o.page = k.page => ~Overlap(n, o) /\ ~Overlap(o, n)
  <2>1. curPage[o.owner] = o.page /\ o.addr >= o.page * PageCells + curOffset[o.owner]
    BY <1>5, <1>9 DEF TornInv, TornObjects
  <2>2. o.page * PageCells \in Int /\ o.addr \in Int /\ o.size \in Int /\ curOffset[o.owner] \in Int
    <3>1. o.page \in Int /\ o.addr \in Int /\ o.size \in Int
      BY <1>0, ObjectFields
    <3> QED BY <1>0, <1>9, <3>1, CellAssumption DEF PageCells
  <2>3. CASE o.owner # c
    BY <1>0, <1>2, <1>9, <2>1, <2>3
  <2>4. CASE o.owner = c
    <3>1. curOffset[c] = k.offset + k.size /\ curOffset'[o.owner] = k.offset
      BY <1>0, <1>2, <1>5, <1>9, <2>1, <2>4
    <3>2. o.addr >= o.page * PageCells + k.offset
      <4>1. o.addr >= o.page * PageCells + (k.offset + k.size)
        BY <2>1, <2>4, <3>1
      <4> HIDE DEF k
      <4> QED BY <1>3, <1>4, <2>2, <4>1
    <3>3. ASSUME o.page = k.page PROVE ~Overlap(n, o) /\ ~Overlap(o, n)
      <4>1. n.addr + n.size = k.page * PageCells + curOffset[c] /\ n.addr \in Int /\ n.size \in Int
        BY <1>3, <1>4, <1>7, <3>1
      <4>2. o.addr >= n.addr + n.size
        BY <2>1, <2>4, <3>3, <4>1
      <4> QED BY <2>2, <4>1, <4>2 DEF Overlap
    <3> QED BY <2>1, <2>4, <3>1, <3>2, <3>3
  <2> QED BY <2>3, <2>4
<1>10. TornObjects'
  <2>1. n.page \notin torn' => curPage[c] = n.page /\ n.addr >= n.page * PageCells + curOffset'[c]
    BY <1>0, <1>2, <1>3, <1>6, <1>7
  <2> QED BY <1>2, <1>3, <1>9, <2>1 DEF TornObjects
<1>11. TornApart'
  <2>1. ~Overlap(n, n)
    BY DEF Overlap
  <2> SUFFICES ASSUME NEW a \in live', NEW b \in live', a.owner \in Cpu, a.owner = b.owner, a.page = b.page,
                      a.page \notin torn'
               PROVE  ~Overlap(a, b)
    BY DEF TornApart, Overlap
  <2>2. CASE a \in live /\ b \in live
    BY <1>5, <2>2 DEF TornInv, TornApart
  <2>3. CASE a = n /\ b \in live
    BY <1>3, <1>9, <2>3
  <2>4. CASE b = n /\ a \in live
    BY <1>3, <1>9, <2>4
  <2> QED BY <1>2, <2>1, <2>2, <2>3, <2>4
<1>12. TornFresh'
  <2> SUFFICES ASSUME NEW u \in Task, task'[u].pc = "setOffset", task'[u].page \notin torn'
               PROVE  /\ curOffset'[cpuOf[u]] <= task'[u].offset
                      /\ curOffset'[cpuOf[u]] = task'[u].offset =>
                           \A o \in live' : o.owner = cpuOf[u] => o.page # task'[u].page
    BY <1>2 DEF TornFresh
  <2>1. u # t /\ task'[u] = task[u] /\ task[u].page \notin torn /\ task[u].pc \in Cutting
    BY <1>1, <1>5 DEF Others, Cutting
  <2>2. cpuOf[u] \in Cpu /\ curPage[cpuOf[u]] = task[u].page
    BY <2>1, TornHere
  <2>3. /\ curOffset[cpuOf[u]] <= task[u].offset
        /\ curOffset[cpuOf[u]] = task[u].offset => \A o \in live : o.owner = cpuOf[u] => o.page # task[u].page
    BY <2>1 DEF TornInv, TornFresh
  <2>4. CASE cpuOf[u] # c
    <3>1. curOffset'[cpuOf[u]] = curOffset[cpuOf[u]]
      BY <1>0, <1>2, <2>2, <2>4
    <3>2. \A o \in live' : o.owner = cpuOf[u] => o \in live
      BY <1>2, <1>3, <2>4
    <3> QED BY <2>1, <2>3, <3>1, <3>2
  <2>5. CASE cpuOf[u] = c
    <3>1. curOffset[c] = k.offset + k.size /\ curOffset'[cpuOf[u]] = k.offset /\ task[u].offset \in Int
      BY <1>0, <1>2, <1>5, <2>1, <2>2, <2>5, CallFields
    <3>2. k.offset + k.size <= task[u].offset
      BY <2>3, <2>5, <3>1
    <3> HIDE DEF k
    <3>3. k.offset < task[u].offset
      BY <1>3, <1>4, <3>1, <3>2
    <3>4. k.offset <= task[u].offset /\ k.offset # task[u].offset
      BY <1>3, <3>1, <3>3
    <3> QED BY <2>1, <3>1, <3>4
  <2> QED BY <2>4, <2>5
<1>13. TornOnce'
  BY <1>1, <1>2, <1>5 DEF TornInv, TornOnce, Others
<1> QED BY <1>8, <1>10, <1>11, <1>12, <1>13 DEF TornInv

LEMMA TornStep ==
  ASSUME UserInv, TornInv, [ArenaNext]_arenaVars PROVE TornInv'
<1>0. KernelTask \subseteq Task /\ UserTask \subseteq Task /\ cpuOf \in [KernelTask -> Cpu]
  BY DEF Task, UserInv, ArenaTypeOK
<1> USE DEF pageVars, kernelVars, userVars, histVars
<1>1. ASSUME NEW t \in KernelTask, NEW size \in Sizes, KernelAllocBegin(t, size) PROVE TornInv'
  <2>1. Others(t) /\ task'[t].page = curPage[cpuOf[t]] /\ task'[t].pc \in {"refill", "offset"}
    BY <1>1, BeginCall
  <2>2. UNCHANGED <<cpuOf, curPage, curOffset, torn, live>>
    BY <1>1 DEF KernelAllocBegin
  <2> QED BY <1>0, <2>1, <2>2, TornKept
<1>2. ASSUME NEW t \in KernelTask, KernelRefill(t) PROVE TornInv'
  <2>1. Others(t) /\ task'[t].pc \in {"setPage", "idle"}
    <3>1. ASSUME NEW p \in Page, task' = [task EXCEPT ![t].pc = "setPage", ![t].page = p]
          PROVE  Others(t) /\ task'[t].pc = "setPage"
      BY <3>1, RefillCall DEF Moved
    <3>2. ASSUME task' = [task EXCEPT ![t] = Idle] PROVE Others(t) /\ task'[t].pc = "idle"
      BY <1>0, <3>2, EndCall
    <3> QED BY <1>2, <3>1, <3>2 DEF KernelRefill
  <2>2. UNCHANGED <<cpuOf, curPage, curOffset, torn, live>>
    BY <1>2 DEF KernelRefill
  <2>3. task'[t].pc \notin Cutting /\ task'[t].pc # "setOffset"
    BY <2>1 DEF Cutting
  <2> QED BY <1>0, <2>1, <2>2, <2>3, TornKept
<1>3. ASSUME NEW t \in KernelTask, KernelMove(t) PROVE TornInv'
  <2>1. CASE KernelSetPage(t)
    BY <2>1, TornSetPage
  <2>2. CASE KernelSetOffset(t)
    BY <2>2, TornSetOffset
  <2>3. ASSUME KernelSetCount(t) \/ KernelAllocOffset(t) \/ KernelAllocCount(t) \/ KernelAllocStore(t)
        PROVE  TornInv'
    <3>1. task[t].pc # "setPage" /\ UNCHANGED <<curPage, curOffset, torn>>
      BY <2>3 DEF KernelSetCount, KernelAllocOffset, KernelAllocCount, KernelAllocStore
    <3>2. /\ Others(t) /\ task[t].pc \in KernelSteps \ {"cut"} /\ task'[t].pc # "setOffset"
          /\ task'[t].page = task[t].page /\ UNCHANGED <<cpuOf, live>>
      BY <1>3, <3>1, KernelMoved
    <3>3. task[t].pc \in Cutting
      BY <3>1, <3>2 DEF KernelSteps
    <3> QED BY <1>0, <3>1, <3>2, <3>3, TornKept
  <2> QED BY <1>3, <2>1, <2>2, <2>3 DEF KernelMove
<1>4. ASSUME NEW t \in KernelTask, KernelAllocCut(t) PROVE TornInv'
  BY <1>4, TornCut
<1>5. ASSUME NEW t \in UserTask, NEW size \in Sizes, UserAllocBegin(t, size) PROVE TornInv'
  <2>1. Others(t) /\ task'[t].pc = "ucount"
    BY <1>5, UserBeginCall
  <2>2. UNCHANGED <<cpuOf, curPage, curOffset, torn, live>>
    BY <1>5 DEF UserAllocBegin
  <2> QED BY <1>0, <2>1, <2>2, TornKept DEF Cutting
<1>6. ASSUME NEW t \in UserTask, UserAllocCount(t) PROVE TornInv'
  <2>1. Others(t) /\ task'[t].pc = "ustore"
    BY <1>6, UserCountCall DEF Moved
  <2>2. UNCHANGED <<cpuOf, curPage, curOffset, torn, live>>
    BY <1>6 DEF UserAllocCount
  <2> QED BY <1>0, <2>1, <2>2, TornKept DEF Cutting
<1>7. ASSUME NEW t \in UserTask, UserAllocStore(t) PROVE TornInv'
  <2>1. Others(t) /\ task'[t].pc = "idle" /\ t \in Task
    BY <1>0, <1>7, EndCall DEF UserAllocStore
  <2>2. UNCHANGED <<cpuOf, curPage, curOffset, torn>> /\ live' = live \cup {Object(t, "user")}
    BY <1>7 DEF UserAllocStore
  <2>3. Object(t, "user").owner = "user" /\ "user" \notin Cpu
    BY OwnerAssumption DEF Object
  <2>4. TornCalls'
    BY <2>1, <2>2 DEF TornInv, TornCalls, Others, Cutting
  <2>5. TornObjects'
    BY <2>2, <2>3 DEF TornInv, TornObjects
  <2>6. TornApart'
    BY <2>2, <2>3 DEF TornInv, TornApart, Overlap
  <2>7. TornFresh'
    <3> SUFFICES ASSUME NEW u \in Task, task'[u].pc = "setOffset", task'[u].page \notin torn
                 PROVE  /\ curOffset[cpuOf[u]] <= task'[u].offset
                        /\ curOffset[cpuOf[u]] = task'[u].offset =>
                             \A o \in live' : o.owner = cpuOf[u] => o.page # task'[u].page
      BY <2>2 DEF TornFresh
    <3>1. task'[u] = task[u] /\ task[u].pc \in Cutting
      BY <2>1 DEF Others, Cutting
    <3>2. cpuOf[u] \in Cpu
      BY <3>1, TornHere
    <3>3. \A o \in live' : o.owner = cpuOf[u] => o \in live
      BY <2>2, <2>3, <3>2
    <3> QED BY <3>1, <3>3 DEF TornInv, TornFresh
  <2>8. TornOnce'
    BY <2>1, <2>2 DEF TornInv, TornOnce, Others
  <2> QED BY <2>4, <2>5, <2>6, <2>7, <2>8 DEF TornInv
<1>8. ASSUME NEW t \in Task, NEW o \in live, FreeBegin(t, o) PROVE TornInv'
  <2>1. Others(t) /\ task[t].pc = "idle" /\ (task' = task \/ task'[t].pc = "free")
    BY <1>8, FreeCall DEF FreeBegin
  <2>2. UNCHANGED <<cpuOf, curPage, curOffset, torn>> /\ live' \subseteq live
    BY <1>8 DEF FreeBegin
  <2>3. task'[t].pc \notin Cutting /\ task'[t].pc # "setOffset"
    BY <2>1 DEF Cutting
  <2> QED BY <2>1, <2>2, <2>3, TornKept
<1>9. ASSUME NEW t \in Task, FreeStore(t) PROVE TornInv'
  <2>1. Others(t) /\ task'[t].pc \in {"idle", "release"}
    BY <1>9, FreeStoreCall
  <2>2. UNCHANGED <<cpuOf, curPage, curOffset, torn, live>>
    BY <1>9 DEF FreeStore
  <2>3. task'[t].pc \notin Cutting /\ task'[t].pc # "setOffset"
    BY <2>1 DEF Cutting
  <2> QED BY <2>1, <2>2, <2>3, TornKept
<1>10. ASSUME NEW t \in Task, FreeRelease(t) PROVE TornInv'
  <2>1. Others(t) /\ task'[t].pc = "idle"
    BY <1>10, EndCall DEF FreeRelease
  <2>2. UNCHANGED <<cpuOf, curPage, curOffset, torn, live>>
    BY <1>10 DEF FreeRelease
  <2> QED BY <2>1, <2>2, TornKept DEF Cutting
<1>11. CASE UNCHANGED arenaVars
  <2>1. UNCHANGED <<task, cpuOf, curPage, curOffset, torn, live>>
    BY <1>11 DEF arenaVars
  <2> QED BY <2>1 DEF TornInv, TornCalls, TornObjects, TornApart, TornFresh, TornOnce, Overlap
<1> QED
  BY <1>1, <1>2, <1>3, <1>4, <1>5, <1>6, <1>7, <1>8, <1>9, <1>10, <1>11 DEF ArenaNext, KernelMove

LEMMA TornInit == ArenaInit => TornInv
  BY DEF ArenaInit, Idle, TornInv, TornCalls, TornObjects, TornApart, TornFresh, TornOnce, Cutting

LEMMA TornAlways == ArenaSpec => []TornInv
<1>1. UserInv /\ TornInv /\ [ArenaNext]_arenaVars => TornInv'
  BY TornStep
<1> QED BY <1>1, TornInit, UserAlways, PTL DEF ArenaSpec

\* Objects and globals that stay within their pages overlap in one page only.
LEMMA WithinApart ==
  ASSUME NEW a, NEW b, a.page \in Int, b.page \in Int, a.addr \in Int, b.addr \in Int,
         a.size \in Int, b.size \in Int,
         a.page * PageCells <= a.addr, a.addr + a.size <= a.page * PageCells + PageCells,
         b.page * PageCells <= b.addr, b.addr + b.size <= b.page * PageCells + PageCells,
         Overlap(a, b)
  PROVE  a.page = b.page
<1>1. /\ PageCells \in Int /\ Slots \in Int /\ PageCells = Slots + 1
      /\ a.page * PageCells \in Int /\ b.page * PageCells \in Int
  BY CellAssumption DEF PageCells
<1>2. CASE a.page < b.page
  <2>1. a.page * PageCells + Slots < b.page * PageCells
    BY <1>2, PagesApart
  <2> QED BY <1>1, <2>1 DEF Overlap
<1>3. CASE b.page < a.page
  <2>1. b.page * PageCells + Slots < a.page * PageCells
    BY <1>3, PagesApart
  <2> QED BY <1>1, <2>1 DEF Overlap
<1> QED BY <1>2, <1>3

LEMMA GlobalFields ==
  ASSUME NEW g \in Globals
  PROVE  /\ g.page \in Int /\ g.page \in GlobalPages /\ g.page \in Page /\ g.owner = "globals"
         /\ g.addr = g.page * PageCells /\ g.size = PageCells
         /\ g = [addr |-> g.page * PageCells, size |-> PageCells, page |-> g.page, owner |-> "globals", id |-> 0]
<1>1. PICK p \in GlobalPages :
        g = [addr |-> p * PageCells, size |-> PageCells, page |-> p, owner |-> "globals", id |-> 0]
  BY DEF Globals
<1>2. g.page = p /\ g.addr = p * PageCells /\ g.size = PageCells /\ g.owner = "globals"
  BY <1>1
<1>3. p \in Int /\ p \in Page
  BY PageAssumption DEF GlobalPages, Page
<1> QED BY <1>1, <1>2, <1>3

LEMMA OverlapCause ==
  ASSUME ArenaInv, TornInv PROVE OverlapsExplained
<1> SUFFICES ASSUME NEW a \in live \cup Globals, NEW b \in live \cup Globals, Overlap(a, b),
                    Inside(a) \/ a \in Globals, Inside(b) \/ b \in Globals
             PROVE  \/ a.owner = b.owner /\ a.page \in torn
                    \/ a.owner # b.owner /\ a.page \in doubled \cup skewed
  BY DEF OverlapsExplained
<1>0. live \subseteq ObjectRecord /\ UserInv /\ PageCells \in Int /\ PageCells = Slots + 1 /\ Slots \in Int
  BY CellAssumption DEF ArenaInv, UserInv, ArenaTypeOK, PageCells
<1>1. ASSUME NEW o \in live \cup Globals, Inside(o) \/ o \in Globals
      PROVE  /\ o.page \in Int /\ o.addr \in Int /\ o.size \in Int /\ o.page \in Page
             /\ o.page * PageCells <= o.addr /\ o.addr + o.size <= o.page * PageCells + PageCells
             /\ o.owner \in Owner /\ Holds(o.owner, o.page)
             /\ o.owner = "globals" => o \in Globals
             /\ o.owner # "globals" => o \in live
  <2>1. CASE o \in Globals
    <3>1. /\ o.page \in Int /\ o.page \in GlobalPages /\ o.page \in Page /\ o.owner = "globals"
          /\ o.addr = o.page * PageCells /\ o.size = PageCells
      BY <2>1, GlobalFields
    <3>2. o.page * PageCells \in Int
      BY <1>0, <3>1
    <3>3. /\ o.addr \in Int /\ o.size \in Int /\ o.page * PageCells <= o.addr
          /\ o.addr + o.size <= o.page * PageCells + PageCells
      BY <1>0, <3>1, <3>2
    <3> QED BY <2>1, <3>1, <3>3 DEF Owner, Holds
  <2>2. CASE o \in live /\ o \notin Globals
    <3>1. o.page \in Int /\ o.addr \in Int /\ o.size \in Int /\ o.page \in Page /\ o.owner \in Cpu \cup {"user"}
      BY <1>0, <2>2, ObjectFields
    <3>2. o.page * PageCells \in Int /\ Inside(o)
      BY <1>0, <1>1, <2>2, <3>1
    <3>3. o.page * PageCells <= o.addr /\ o.addr + o.size <= o.page * PageCells + PageCells
      BY <1>0, <3>1, <3>2 DEF Inside
    <3> QED BY <2>2, <3>1, <3>3, OwnerAssumption DEF Owner, Holds
  <2> QED BY <1>1, <2>1, <2>2
<1>2. a.page = b.page
  BY <1>1, WithinApart
<1>3. CASE a.owner # b.owner
  <2>1. ~PageGood(a.page)
    BY <1>1, <1>2, <1>3 DEF PageGood, OneHolder
  <2> QED BY <1>1, <1>3, <2>1 DEF ArenaInv, PageInv, Trusted
<1>4. CASE a.owner = b.owner
  <2>1. CASE a.owner = "globals"
    BY <1>1, <1>2, <1>4, <2>1, GlobalFields DEF Overlap
  <2>2. CASE a.owner = "user"
    <3>1. a \in live /\ b \in live
      BY <1>1, <1>4, <2>2
    <3> QED BY <1>0, <1>4, <2>2, <3>1 DEF UserInv, UserObjectsInv
  <2>3. CASE a.owner \in Cpu
    <3>1. a \in live /\ b \in live
      BY <1>1, <1>4, <2>3, OwnerAssumption
    <3> QED BY <1>2, <1>4, <2>3, <3>1 DEF TornInv, TornApart
  <2> QED BY <1>1, <2>1, <2>2, <2>3 DEF Owner
<1> QED BY <1>3, <1>4

\* Objects of the arena overlap, with each other or with the globals, for one of
\* the listed reasons only: the unsigned comparison in bpf_arena_alloc, two tasks
\* in the allocator of one CPU, a page handed to a second owner.
THEOREM OverlapsOnlyAsListed == ArenaSpec => []OverlapsExplained
<1>1. ArenaInv /\ TornInv => OverlapsExplained
  BY OverlapCause
<1> QED BY <1>1, ArenaAlways, TornAlways, PTL
----------------------------------------------------------------------------
(***************************************************************************)
(* The CK FIFO.                                                            *)
(***************************************************************************)
\* What CkFifo assumes of its constants.
FifoBounds ==
  /\ MaxEntries \in Nat /\ MaxSteps \in Nat /\ MaxInserts \in Nat
  /\ Item \subseteq [key : Key, value : Value]

LEMMA FifoBoundsHold == FifoBounds
  BY BoundsAssumption, ItemAssumption DEF FifoBounds

\* The list from garbage to the last entry, as a sequence of entries.
Away == IF Private THEN 1 ELSE 0
At(s, k) == IF k <= Len(s) THEN s[k] ELSE Null
ListOf(s) ==
  /\ s \in Seq(Entry) /\ Len(s) = allocated + 1 - Away
  /\ \A k \in 1 .. Len(s) : s[k] <= allocated /\ next[s[k]] = At(s, k + 1)
  /\ \A j, k \in 1 .. Len(s) : s[j] = s[k] => j = k

\* head is the entry at position h, head_snapshot the one at position n before it.
TailAt(s) == IF prod.pc = "tail" THEN Len(s) - 1 ELSE Len(s)
MarksOf(s, h, n) ==
  /\ h \in 1 .. Len(s) /\ n \in 1 .. h
  /\ garbage = s[1] /\ head = s[h] /\ head_snapshot = s[n]
  /\ tail = s[TailAt(s)]

\* The entries behind head hold the pairs accepted last, and so does head while the
\* consumer copies its pair out.
Copying == cons.pc \in {"key", "value"}
Held == IF Copying THEN 1 ELSE 0
Index(s, k) == Len(accepted) - (Len(s) - k)
PairsOf(s, h) ==
  /\ Len(delivered) <= Len(accepted)
  /\ Len(s) - h = Len(accepted) - Len(delivered) - Held
  /\ \A k \in 1 .. Len(s) :
       /\ k > h => value[s[k]] = s[k]
       /\ k > h \/ (Copying /\ k = h) => kv[s[k]] = accepted[Index(s, k)]

\* What the producer has done to the entry it holds.
ProducerOf(s) ==
  /\ Private => /\ prod.entry <= allocated /\ prod.pair \in Item
                   /\ \A k \in 1 .. Len(s) : s[k] # prod.entry
  /\ prod.pc = "value" => kv[prod.entry].key = prod.pair.key
  /\ prod.pc \in {"prepare", "link"} => kv[prod.entry] = prod.pair
  /\ prod.pc = "link" => value[prod.entry] = prod.entry /\ next[prod.entry] = Null
  /\ prod.pc = "tail" => Len(s) >= 2 /\ prod.entry = s[Len(s)]

\* The entry the consumer has read or moved to.
ConsumerOf(s, h) ==
  /\ cons.pc \in {"payload", "advance"} => h < Len(s) /\ cons.entry = s[h + 1]
  /\ cons.pc = "advance" => cons.payload = cons.entry
  /\ Copying => cons.entry = s[h] /\ cons.payload = s[h]
  /\ cons.pc = "value" => cons.key = kv[s[h]].key

\* The cursor of the verification has made as many steps from head as it has counted,
\* and the tail it compares with is not behind it unless that tail was behind head.
CursorAt(s, h, c) ==
  /\ c \in h .. Len(s) /\ obs.cursor = s[c] /\ obs.steps = c - h
  /\ obs.pc = "tail" => c = h
  /\ obs.pc = "walk" /\ ~obs.lag => \E t \in c .. Len(s) : obs.tail = s[t]
ObserverOf(s, h) ==
  /\ joined => cons.pc = "idle"
  /\ obs.pc # "idle" => joined
  /\ obs.pc = "idle" => obs.steps = 0
  /\ obs.pc \in {"tail", "walk"} => \E c : CursorAt(s, h, c)
  /\ obs.pc # "done" => obs.result = "none"
  /\ obs.result = "corrupt" => obs.lag \/ Len(s) - h >= MaxSteps

\* The inductive invariant.
ListInv(s, h, n) ==
  /\ ListOf(s) /\ MarksOf(s, h, n) /\ PairsOf(s, h)
  /\ ProducerOf(s) /\ ConsumerOf(s, h) /\ ObserverOf(s, h)
FifoInv == FifoBounds /\ TypeOK /\ \E s, h, n : ListInv(s, h, n)

LEMMA OneOrNone ==
  /\ Held \in {0, 1} /\ (Copying => Held = 1) /\ (~Copying => Held = 0)
  /\ Away \in {0, 1} /\ (Private => Away = 1) /\ (~Private => Away = 0)
  BY DEF Held, Away

LEMMA FifoTypes ==
  ASSUME FifoBounds, TypeOK
  PROVE  /\ MaxEntries \in Nat /\ MaxSteps \in Nat /\ MaxInserts \in Nat
         /\ Null = -1 /\ Null \notin Entry /\ Entry = 0 .. MaxEntries
         /\ Link = Entry \cup {Null} /\ Item \subseteq Pair /\ Blank \in Pair
         /\ Item \subseteq [key : Key, value : Value]
         /\ allocated \in Nat /\ allocated <= MaxEntries
         /\ next \in [Entry -> Link] /\ value \in [Entry -> Link]
         /\ kv \in [Entry -> Pair]
         /\ prod \in ProducerRecord /\ cons \in ConsumerRecord /\ obs \in ObserverRecord
         /\ accepted \in Seq(Item) /\ delivered \in Seq(Pair)
         /\ Len(accepted) \in Nat /\ Len(delivered) \in Nat
<1>1. MaxEntries \in Nat /\ MaxSteps \in Nat /\ MaxInserts \in Nat /\ Item \subseteq [key : Key, value : Value]
  BY DEF FifoBounds
<1>2. /\ Null = -1 /\ Null \notin Entry /\ Entry = 0 .. MaxEntries
      /\ Link = Entry \cup {Null}
  BY <1>1 DEF Null, Entry, Link
<1>3. Item \subseteq Pair /\ Blank \in Pair
  BY <1>1 DEF Pair, Blank
<1>4. /\ allocated \in 0 .. MaxEntries
      /\ next \in [Entry -> Link] /\ value \in [Entry -> Link]
      /\ kv \in [Entry -> Pair]
      /\ prod \in ProducerRecord /\ cons \in ConsumerRecord /\ obs \in ObserverRecord
      /\ accepted \in Seq(Item) /\ delivered \in Seq(Pair)
  BY DEF TypeOK
<1>5. Len(accepted) \in Nat /\ Len(delivered) \in Nat
  BY <1>4
<1>6. QED
  BY <1>1, <1>2, <1>3, <1>4, <1>5

\* Where things are in the list.
LEMMA Positions ==
  ASSUME FifoBounds, TypeOK, NEW s, NEW h, NEW n, ListOf(s), MarksOf(s, h, n)
  PROVE  /\ s \in Seq(Entry) /\ Len(s) \in Nat /\ Len(s) >= 1 /\ Len(s) <= MaxEntries + 1
         /\ h \in Nat /\ n \in Nat /\ 1 <= n /\ n <= h /\ h <= Len(s)
         /\ \A k \in 1 .. Len(s) : s[k] \in Entry /\ s[k] # Null /\ s[k] <= allocated
<1>1. s \in Seq(Entry) /\ Len(s) \in Nat
  BY DEF ListOf
<1>2. h \in Nat /\ n \in Nat /\ 1 <= n /\ n <= h /\ h <= Len(s)
  BY <1>1 DEF MarksOf
<1>3. Len(s) <= MaxEntries + 1
  BY <1>1, FifoTypes, OneOrNone DEF ListOf
<1>4. ASSUME NEW k \in 1 .. Len(s) PROVE s[k] \in Entry /\ s[k] # Null /\ s[k] <= allocated
  <2>1. s[k] \in Entry
    BY <1>1
  <2>2. QED
    BY <2>1, FifoTypes DEF ListOf
<1>5. QED
  BY <1>1, <1>2, <1>3, <1>4

\* The pairs that wait behind head are as many as the entries there.
LEMMA QueuedIs ==
  ASSUME FifoBounds, TypeOK, NEW s, NEW h, PairsOf(s, h)
  PROVE  /\ Queued = Len(s) - h /\ Len(Contents) = Len(accepted) - Len(delivered)
         /\ Len(accepted) - Len(delivered) \in Nat
<1>1. Len(accepted) \in Nat /\ Len(delivered) \in Nat /\ accepted \in Seq(Item)
  BY FifoTypes
<1>2. Len(delivered) <= Len(accepted)
  BY DEF PairsOf
<1>3. Len(Contents) = Len(accepted) - Len(delivered)
  <2> DEFINE a == Len(delivered) + 1
             b == Len(accepted)
  <2>1. a \in 1 .. b + 1 /\ b \in 0 .. Len(accepted)
    BY <1>1, <1>2
  <2>2. Len(SubSeq(accepted, a, b)) = IF a <= b THEN b - a + 1 ELSE 0
    BY <1>1, <2>1, SubSeqProperties
  <2>3. QED
    BY <1>1, <1>2, <2>2 DEF Contents
<1>4. Queued = Len(Contents) - Held
  BY DEF Queued, Held, Copying
<1>5. QED
  BY <1>1, <1>2, <1>3, <1>4, OneOrNone DEF PairsOf

LEMMA FifoInit == Init => FifoInv
<1> SUFFICES ASSUME FifoBounds, Init PROVE FifoInv
  BY FifoBoundsHold
<1>1. MaxEntries \in Nat /\ MaxSteps \in Nat /\ 0 \in Entry /\ Null = -1
  BY DEF FifoBounds, Entry, Null
<1>2. /\ head = 0 /\ tail = 0 /\ head_snapshot = 0 /\ garbage = 0 /\ allocated = 0
      /\ next = [e \in Entry |-> Null] /\ value = [e \in Entry |-> Null]
      /\ kv = [e \in Entry |-> Blank] /\ joined = FALSE
      /\ prod = IdleProducer /\ cons = IdleConsumer /\ accepted = <<>> /\ delivered = <<>>
      /\ obs = [pc |-> "idle", cursor |-> 0, tail |-> 0, steps |-> 0, lag |-> FALSE, result |-> "none"]
  BY DEF Init, Stub
<1>3. /\ prod.pc = "idle" /\ cons.pc = "idle"
      /\ obs.pc = "idle" /\ obs.steps = 0 /\ obs.result = "none"
  BY <1>2 DEF IdleProducer, IdleConsumer
<1>4. TypeOK
  <2>1. Blank \in Pair /\ Null \in Link
    BY DEF Blank, Pair, Link
  <2>2. prod \in ProducerRecord
    BY <1>1, <1>2, <2>1 DEF IdleProducer, ProducerRecord, Stub
  <2>3. cons \in ConsumerRecord
    BY <1>1, <1>2, <2>1 DEF IdleConsumer, ConsumerRecord, Stub
  <2>4. obs \in ObserverRecord
    BY <1>1, <1>2 DEF ObserverRecord
  <2>5. /\ next \in [Entry -> Link] /\ value \in [Entry -> Link] /\ kv \in [Entry -> Pair]
        /\ accepted \in Seq(Item) /\ delivered \in Seq(Pair) /\ allocated \in 0 .. MaxEntries
    BY <1>1, <1>2, <2>1
  <2>6. QED
    BY <1>1, <1>2, <2>2, <2>3, <2>4, <2>5 DEF TypeOK
<1>5. PICK s : s = <<0>>
  OBVIOUS
<1>6. s \in Seq(Entry) /\ Len(s) = 1 /\ s[1] = 0
  BY <1>1, <1>5
<1>7. /\ ~Private /\ Away = 0 /\ ~Copying /\ Held = 0
      /\ Len(accepted) = 0 /\ Len(delivered) = 0
  BY <1>2, <1>3 DEF Private, Copying, Away, Held
<1>8. ListOf(s) /\ MarksOf(s, 1, 1)
  BY <1>1, <1>2, <1>3, <1>6, <1>7 DEF ListOf, MarksOf, At, TailAt
<1>9. PairsOf(s, 1)
  <2>1. \A k \in 1 .. Len(s) : ~(k > 1)
    BY <1>6
  <2>2. Len(delivered) <= Len(accepted)
    BY <1>7
  <2>3. Len(s) - 1 = Len(accepted) - Len(delivered) - Held
    BY <1>6, <1>7
  <2>4. ASSUME NEW k \in 1 .. Len(s), k > 1 \/ (Copying /\ k = 1) PROVE FALSE
    BY <1>7, <2>1, <2>4
  <2>5. QED
    BY <2>1, <2>2, <2>3, <2>4 DEF PairsOf
<1>10. ProducerOf(s) /\ ConsumerOf(s, 1) /\ ObserverOf(s, 1)
  BY <1>2, <1>3, <1>7 DEF ProducerOf, ConsumerOf, ObserverOf
<1>11. ListInv(s, 1, 1)
  BY <1>8, <1>9, <1>10 DEF ListInv
<1>12. QED
  BY <1>4, <1>11 DEF FifoInv

----------------------------------------------------------------------------
(* What a step of one thread leaves alone *)

LEMMA BoundsKept == FifoBounds => FifoBounds'
  BY DEF FifoBounds

LEMMA PairsKept ==
  ASSUME NEW s, NEW h, PairsOf(s, h), Copying' <=> Copying, UNCHANGED <<value, kv, accepted, delivered>>
  PROVE  PairsOf(s, h)'
<1>1. Held' = Held
  BY DEF Held
<1>2. QED
  BY <1>1 DEF PairsOf, Index

\* The consumer moves, and stands at position g after it.
LEMMA ConsumerMoves ==
  ASSUME FifoInv, NEW s, NEW h, NEW n, ListInv(s, h, n), ~joined, NEW g \in h .. Len(s), head' = s[g],
         UNCHANGED <<tail, head_snapshot, garbage, next, value, kv, allocated, prod, joined, obs, accepted>>,
         cons' \in ConsumerRecord, delivered' \in Seq(Pair),
         PairsOf(s, g)', ConsumerOf(s, g)'
  PROVE  FifoInv'
<1>1. /\ FifoBounds /\ TypeOK /\ ListOf(s) /\ MarksOf(s, h, n) /\ ProducerOf(s)
      /\ ObserverOf(s, h)
  BY DEF FifoInv, ListInv
<1>2. /\ Len(s) \in Nat /\ h \in Nat /\ n \in Nat /\ 1 <= n /\ n <= h /\ h <= Len(s)
      /\ \A k \in 1 .. Len(s) : s[k] \in Entry
  BY <1>1, Positions
<1>3. g \in 1 .. Len(s) /\ n \in 1 .. g /\ head' \in Entry
  BY <1>2
<1>4. Away' = Away /\ (Private' <=> Private) /\ TailAt(s)' = TailAt(s)
  BY DEF Away, Private, TailAt
<1>5. ListOf(s)'
  BY <1>1, <1>4 DEF ListOf, At
<1>6. MarksOf(s, g, n)'
  BY <1>1, <1>3, <1>4 DEF MarksOf
<1>7. ProducerOf(s)'
  BY <1>1, <1>4 DEF ProducerOf
<1>8. ObserverOf(s, g)'
  BY <1>1 DEF ObserverOf
<1>9. ListInv(s, g, n)'
  BY <1>5, <1>6, <1>7, <1>8 DEF ListInv
<1>10. TypeOK'
  BY <1>1, <1>3 DEF TypeOK
<1>11. QED
  BY <1>1, <1>9, <1>10, BoundsKept DEF FifoInv

\* Main moves: it joins the relay thread, or verifies.
LEMMA ObserverMoves ==
  ASSUME FifoInv, NEW s, NEW h, NEW n, ListInv(s, h, n),
         UNCHANGED <<head, tail, head_snapshot, garbage, next, value, kv, allocated, prod, cons,
                     accepted, delivered>>,
         joined' \in BOOLEAN, obs' \in ObserverRecord, ObserverOf(s, h)'
  PROVE  FifoInv'
<1>1. /\ FifoBounds /\ TypeOK /\ ListOf(s) /\ MarksOf(s, h, n) /\ PairsOf(s, h)
      /\ ProducerOf(s) /\ ConsumerOf(s, h)
  BY DEF FifoInv, ListInv
<1>2. /\ Away' = Away /\ (Private' <=> Private) /\ TailAt(s)' = TailAt(s)
      /\ (Copying' <=> Copying)
  BY DEF Away, Private, TailAt, Copying
<1>3. ListOf(s)' /\ MarksOf(s, h, n)' /\ ProducerOf(s)' /\ ConsumerOf(s, h)'
  BY <1>1, <1>2 DEF ListOf, At, MarksOf, ProducerOf, ConsumerOf
<1>4. PairsOf(s, h)'
  BY <1>1, <1>2, PairsKept
<1>5. ListInv(s, h, n)'
  BY <1>3, <1>4 DEF ListInv
<1>6. TypeOK'
  BY <1>1 DEF TypeOK
<1>7. QED
  BY <1>1, <1>5, <1>6, BoundsKept DEF FifoInv

\* The producer moves and writes only outside the list.
LEMMA ProducerMoves ==
  ASSUME FifoInv, NEW s, NEW h, NEW n, ListInv(s, h, n),
         UNCHANGED <<head, head_snapshot, garbage, cons, joined, obs, accepted, delivered>>,
         prod' \in ProducerRecord, allocated' \in 0 .. MaxEntries,
         next' \in [Entry -> Link], value' \in [Entry -> Link], kv' \in [Entry -> Pair],
         \A k \in 1 .. Len(s) : /\ next'[s[k]] = next[s[k]] /\ value'[s[k]] = value[s[k]]
                                /\ kv'[s[k]] = kv[s[k]],
         allocated' - Away' = allocated - Away, allocated' >= allocated,
         tail' = s[TailAt(s)'], tail' \in Entry, ProducerOf(s)'
  PROVE  FifoInv'
<1>1. /\ FifoBounds /\ TypeOK /\ ListOf(s) /\ MarksOf(s, h, n) /\ PairsOf(s, h)
      /\ ConsumerOf(s, h) /\ ObserverOf(s, h)
  BY DEF FifoInv, ListInv
<1>2. /\ Len(s) \in Nat /\ h \in 1 .. Len(s) /\ allocated \in Nat /\ allocated' \in Nat
      /\ \A k \in 1 .. Len(s) : s[k] \in Nat /\ s[k] <= allocated
  <2>1. Entry \subseteq Nat /\ allocated \in Nat /\ MaxEntries \in Nat
    BY <1>1, FifoTypes
  <2>2. /\ Len(s) \in Nat /\ h \in Nat /\ 1 <= h /\ h <= Len(s)
        /\ \A k \in 1 .. Len(s) : s[k] \in Entry /\ s[k] <= allocated
    BY <1>1, Positions
  <2>3. allocated' \in Nat
    BY <2>1
  <2>4. h \in 1 .. Len(s)
    BY <2>2
  <2>5. QED
    BY <2>1, <2>2, <2>3, <2>4
<1>3. ListOf(s)'
  <2>1. \A k \in 1 .. Len(s) : s[k] <= allocated' /\ next'[s[k]] = At(s, k + 1)
    BY <1>1, <1>2 DEF ListOf
  <2>2. Len(s) = allocated' + 1 - Away'
    <3> DEFINE a == Away
               b == Away'
               m == allocated'
    <3>1. a \in Int /\ b \in Int /\ m \in Int /\ allocated \in Int
      BY <1>2 DEF Away
    <3>2. Len(s) = allocated + 1 - a
      BY <1>1 DEF ListOf
    <3>3. m - b = allocated - a
      OBVIOUS
    <3> HIDE DEF a, b, m
    <3>4. Len(s) = m + 1 - b
      BY <3>1, <3>2, <3>3
    <3>5. QED
      BY <3>4 DEF b, m
  <2>3. QED
    BY <1>1, <2>1, <2>2 DEF ListOf, At
<1>4. MarksOf(s, h, n)'
  BY <1>1 DEF MarksOf
<1>5. PairsOf(s, h)'
  <2>1. Held' = Held /\ (Copying' <=> Copying)
    BY DEF Held, Copying
  <2>2. QED
    BY <1>1, <2>1 DEF PairsOf, Index
<1>6. ConsumerOf(s, h)' /\ ObserverOf(s, h)'
  BY <1>1, <1>2 DEF ConsumerOf, Copying, ObserverOf, CursorAt
<1>7. ListInv(s, h, n)'
  BY <1>3, <1>4, <1>5, <1>6 DEF ListInv
<1>8. TypeOK'
  BY <1>1 DEF TypeOK
<1>9. QED
  BY <1>1, <1>7, <1>8, BoundsKept DEF FifoInv

----------------------------------------------------------------------------
(* The steps of the consumer *)

LEMMA PopNextStep ==
  ASSUME FifoInv, PopNext
  PROVE  FifoInv'
<1>1. PICK s, h, n : ListInv(s, h, n)
  BY DEF FifoInv
<1> DEFINE r == [cons EXCEPT !.pc = "payload", !.entry = next[head]]
<1>2. /\ FifoBounds /\ TypeOK /\ ListOf(s) /\ MarksOf(s, h, n) /\ PairsOf(s, h)
  BY <1>1 DEF FifoInv, ListInv
<1>3. /\ cons.pc = "idle" /\ ~joined /\ next[head] # Null /\ cons' = r
      /\ UNCHANGED <<head, tail, head_snapshot, garbage, next, value, kv, allocated, prod, joined, obs,
                     accepted, delivered>>
  BY DEF PopNext, ds_ck_fifo_spsc_isempty, fifoVars, entryVars, mainVars
<1>4. /\ Len(s) \in Nat /\ h \in Nat /\ 1 <= h /\ h <= Len(s)
      /\ \A k \in 1 .. Len(s) : s[k] \in Entry
  BY <1>2, Positions
<1>5. h < Len(s) /\ next[head] = s[h + 1]
  <2>1. h \in 1 .. Len(s)
    BY <1>4
  <2>2. next[head] = At(s, h + 1)
    BY <1>2, <2>1 DEF ListOf, MarksOf
  <2>3. QED
    BY <1>3, <1>4, <2>2 DEF At
<1>6. cons \in ConsumerRecord /\ next[head] \in Entry /\ delivered' \in Seq(Pair)
  <2>1. h + 1 \in 1 .. Len(s)
    BY <1>4, <1>5
  <2>2. QED
    BY <1>2, <1>3, <1>4, <1>5, <2>1, FifoTypes
<1>7. r \in ConsumerRecord /\ r.pc = "payload" /\ r.entry = next[head]
  BY <1>6 DEF ConsumerRecord
<1> HIDE DEF r
<1>8. ~Copying /\ ~Copying'
  BY <1>3, <1>7 DEF Copying
<1>9. PairsOf(s, h)'
  BY <1>2, <1>3, <1>8, PairsKept
<1>10. ConsumerOf(s, h)'
  BY <1>3, <1>5, <1>7, <1>8 DEF ConsumerOf
<1>11. h \in h .. Len(s) /\ head' = s[h]
  BY <1>2, <1>3, <1>4 DEF MarksOf
<1>12. QED
  BY <1>1, <1>3, <1>6, <1>7, <1>9, <1>10, <1>11, ConsumerMoves

LEMMA PopPayloadStep ==
  ASSUME FifoInv, PopPayload
  PROVE  FifoInv'
<1>1. PICK s, h, n : ListInv(s, h, n)
  BY DEF FifoInv
<1> DEFINE r == [cons EXCEPT !.pc = "advance", !.payload = value[cons.entry]]
<1>2. /\ FifoBounds /\ TypeOK /\ ListOf(s) /\ MarksOf(s, h, n) /\ PairsOf(s, h)
      /\ ConsumerOf(s, h) /\ ObserverOf(s, h)
  BY <1>1 DEF FifoInv, ListInv
<1>3. /\ cons.pc = "payload" /\ cons' = r
      /\ UNCHANGED <<head, tail, head_snapshot, garbage, next, value, kv, allocated, prod, joined, obs,
                     accepted, delivered>>
  BY DEF PopPayload, fifoVars, entryVars, mainVars
<1>4. /\ Len(s) \in Nat /\ h \in Nat /\ 1 <= h /\ h < Len(s) /\ cons.entry = s[h + 1]
      /\ \A k \in 1 .. Len(s) : s[k] \in Entry
  BY <1>2, <1>3, Positions DEF ConsumerOf
<1>5. value[cons.entry] = cons.entry /\ cons.entry \in Entry /\ cons.entry \in Link
  <2>1. h + 1 \in 1 .. Len(s) /\ h + 1 > h
    BY <1>4
  <2>2. QED
    BY <1>2, <1>4, <2>1, FifoTypes DEF PairsOf
<1>6. cons \in ConsumerRecord /\ delivered' \in Seq(Pair)
  BY <1>2, <1>3, FifoTypes
<1>7. r \in ConsumerRecord /\ r.pc = "advance" /\ r.entry = cons.entry /\ r.payload = cons.entry
  BY <1>5, <1>6 DEF ConsumerRecord
<1> HIDE DEF r
<1>8. ~Copying /\ ~Copying' /\ ~joined
  BY <1>2, <1>3, <1>7 DEF Copying, ObserverOf
<1>9. PairsOf(s, h)'
  BY <1>2, <1>3, <1>8, PairsKept
<1>10. ConsumerOf(s, h)'
  BY <1>3, <1>4, <1>7, <1>8 DEF ConsumerOf
<1>11. h \in h .. Len(s) /\ head' = s[h]
  BY <1>2, <1>3, <1>4 DEF MarksOf
<1>12. QED
  BY <1>1, <1>3, <1>6, <1>7, <1>8, <1>9, <1>10, <1>11, ConsumerMoves

\* The head moves before the pair is copied out, and the pair is still the one at
\* the new head.
LEMMA PopAdvanceStep ==
  ASSUME FifoInv, PopAdvance
  PROVE  FifoInv'
<1>1. PICK s, h, n : ListInv(s, h, n)
  BY DEF FifoInv
<1> DEFINE r == [cons EXCEPT !.pc = "key"]
<1>2. /\ FifoBounds /\ TypeOK /\ ListOf(s) /\ MarksOf(s, h, n) /\ PairsOf(s, h)
      /\ ConsumerOf(s, h) /\ ObserverOf(s, h)
  BY <1>1 DEF FifoInv, ListInv
<1>3. /\ cons.pc = "advance" /\ head' = cons.entry
      /\ UNCHANGED <<tail, head_snapshot, garbage, next, value, kv, allocated, prod, joined, obs,
                     accepted, delivered>>
  BY DEF PopAdvance, entryVars, mainVars
<1>4. /\ Len(s) \in Nat /\ h \in Nat /\ 1 <= h /\ h < Len(s)
      /\ cons.entry = s[h + 1] /\ cons.payload = s[h + 1]
      /\ \A k \in 1 .. Len(s) : s[k] # Null
  BY <1>2, <1>3, Positions DEF ConsumerOf
<1> DEFINE g == h + 1
<1>5. g \in 1 .. Len(s) /\ g \in h .. Len(s) /\ g > h
  BY <1>4
<1>6. cons' = r
  BY <1>4, <1>5 DEF PopAdvance
<1>7. cons \in ConsumerRecord /\ delivered' \in Seq(Pair)
  BY <1>2, <1>3, FifoTypes
<1>8. /\ r \in ConsumerRecord /\ r.pc = "key" /\ r.entry = cons.entry
      /\ r.payload = cons.payload
  BY <1>7 DEF ConsumerRecord
<1> HIDE DEF r
<1>9. ~Copying /\ Held = 0 /\ Copying' /\ Held' = 1 /\ ~joined
  BY <1>2, <1>3, <1>6, <1>8 DEF Copying, Held, ObserverOf
<1>10. PairsOf(s, g)'
  <2>1. Len(delivered) <= Len(accepted) /\ Len(s) - h = Len(accepted) - Len(delivered)
    BY <1>2, <1>4, <1>9, FifoTypes DEF PairsOf
  <2>2. Len(s) - g = Len(accepted) - Len(delivered) - 1
    BY <1>2, <1>4, <2>1, FifoTypes
  <2>3. \A k \in 1 .. Len(s) : k > g \/ k = g => k > h
    BY <1>4
  <2>4. \A k \in 1 .. Len(s) : k > h => value[s[k]] = s[k] /\ kv[s[k]] = accepted[Index(s, k)]
    BY <1>2 DEF PairsOf
  <2> HIDE DEF g
  <2>5. QED
    BY <1>3, <1>9, <2>1, <2>2, <2>3, <2>4 DEF PairsOf, Index
<1>11. ConsumerOf(s, g)' /\ head' = s[g]
  BY <1>3, <1>4, <1>6, <1>8, <1>9 DEF ConsumerOf
<1> HIDE DEF g
<1>12. cons' \in ConsumerRecord
  BY <1>6, <1>8
<1>13. QED
  BY <1>1, <1>3, <1>5, <1>7, <1>9, <1>10, <1>11, <1>12, ConsumerMoves

LEMMA PopKeyStep ==
  ASSUME FifoInv, PopKey
  PROVE  FifoInv'
<1>1. PICK s, h, n : ListInv(s, h, n)
  BY DEF FifoInv
<1> DEFINE x == kv[cons.payload].key
           r == [cons EXCEPT !.pc = "value", !.key = x]
<1>2. /\ FifoBounds /\ TypeOK /\ ListOf(s) /\ MarksOf(s, h, n) /\ PairsOf(s, h)
      /\ ConsumerOf(s, h) /\ ObserverOf(s, h)
  BY <1>1 DEF FifoInv, ListInv
<1>3. /\ cons.pc = "key" /\ cons' = r
      /\ UNCHANGED <<head, tail, head_snapshot, garbage, next, value, kv, allocated, prod, joined, obs,
                     accepted, delivered>>
  BY DEF PopKey, fifoVars, entryVars, mainVars
<1>4. Copying /\ cons.entry = s[h] /\ cons.payload = s[h] /\ ~joined
  BY <1>2, <1>3 DEF ConsumerOf, Copying, ObserverOf
<1>5. /\ h \in 1 .. Len(s) /\ h \in h .. Len(s) /\ s[h] \in Entry
  <2>1. /\ Len(s) \in Nat /\ h \in Nat /\ 1 <= h /\ h <= Len(s)
        /\ \A k \in 1 .. Len(s) : s[k] \in Entry
    BY <1>2, Positions
  <2>2. QED
    BY <2>1
<1>6. x = kv[s[h]].key /\ x \in Key \cup {Zero}
  <2>1. kv[s[h]] \in Pair
    BY <1>2, <1>5, FifoTypes
  <2>2. QED
    BY <1>4, <2>1 DEF Pair
<1>7. cons \in ConsumerRecord /\ delivered' \in Seq(Pair)
  BY <1>2, <1>3, FifoTypes
<1> HIDE DEF x
<1>8. /\ r \in ConsumerRecord /\ r.pc = "value" /\ r.entry = cons.entry
      /\ r.payload = cons.payload /\ r.key = x
  BY <1>6, <1>7 DEF ConsumerRecord
<1> HIDE DEF r
<1>9. Copying' <=> Copying
  BY <1>3, <1>4, <1>8 DEF Copying
<1>10. PairsOf(s, h)'
  BY <1>2, <1>3, <1>9, PairsKept
<1>11. ConsumerOf(s, h)' /\ head' = s[h]
  BY <1>2, <1>3, <1>4, <1>6, <1>8 DEF ConsumerOf, MarksOf
<1>12. QED
  BY <1>1, <1>3, <1>4, <1>5, <1>7, <1>8, <1>10, <1>11, ConsumerMoves

LEMMA PopValueStep ==
  ASSUME FifoInv, PopValue
  PROVE  FifoInv'
<1>1. PICK s, h, n : ListInv(s, h, n)
  BY DEF FifoInv
<1> DEFINE x == [key |-> cons.key, value |-> kv[cons.payload].value]
<1>2. /\ FifoBounds /\ TypeOK /\ ListOf(s) /\ MarksOf(s, h, n) /\ PairsOf(s, h)
      /\ ConsumerOf(s, h) /\ ObserverOf(s, h)
  BY <1>1 DEF FifoInv, ListInv
<1>3. /\ cons.pc = "value" /\ cons' = IdleConsumer /\ delivered' = Append(delivered, x)
      /\ UNCHANGED <<head, tail, head_snapshot, garbage, next, value, kv, allocated, prod, joined, obs,
                     accepted>>
  BY DEF PopValue, fifoVars, entryVars, mainVars
<1>4. Copying /\ Held = 1 /\ cons.payload = s[h] /\ ~joined
  BY <1>2, <1>3 DEF ConsumerOf, Copying, ObserverOf, Held
<1>5. /\ Len(s) \in Nat /\ h \in Nat /\ 1 <= h /\ h <= Len(s)
      /\ \A k \in 1 .. Len(s) : s[k] \in Entry
  BY <1>2, Positions
<1>6. h \in 1 .. Len(s) /\ h \in h .. Len(s)
  BY <1>5
<1>7. cons \in ConsumerRecord /\ delivered \in Seq(Pair) /\ Len(delivered) \in Nat
      /\ Len(accepted) \in Nat /\ kv[s[h]] \in Pair
  BY <1>2, <1>5, <1>6, FifoTypes
<1>8. x \in Pair
  BY <1>4, <1>7 DEF ConsumerRecord, Pair
<1> HIDE DEF x
<1>9. delivered' \in Seq(Pair) /\ Len(delivered') = Len(delivered) + 1
  BY <1>3, <1>7, <1>8
<1>10. cons' \in ConsumerRecord /\ cons'.pc = "idle" /\ ~Copying' /\ Held' = 0
  <2>1. 0 \in Entry /\ Null \in Link
    BY <1>2, FifoTypes
  <2>2. IdleConsumer \in ConsumerRecord /\ IdleConsumer.pc = "idle"
    BY <2>1 DEF IdleConsumer, ConsumerRecord, Stub
  <2>3. QED
    BY <1>3, <2>2 DEF Copying, Held
<1>11. PairsOf(s, h)'
  <2>1. Len(s) - h = Len(accepted) - Len(delivered) - 1
    BY <1>2, <1>4 DEF PairsOf
  <2>2. Len(delivered') <= Len(accepted) /\ Len(s) - h = Len(accepted) - Len(delivered') - 0
    BY <1>5, <1>7, <1>9, <2>1
  <2>3. \A k \in 1 .. Len(s) : k > h => value[s[k]] = s[k] /\ kv[s[k]] = accepted[Index(s, k)]
    BY <1>2 DEF PairsOf
  <2>4. QED
    BY <1>3, <1>10, <2>2, <2>3 DEF PairsOf, Index
<1>12. ConsumerOf(s, h)' /\ head' = s[h]
  BY <1>2, <1>3, <1>10 DEF ConsumerOf, Copying, MarksOf
<1>13. QED
  BY <1>1, <1>3, <1>4, <1>6, <1>9, <1>10, <1>11, <1>12, ConsumerMoves

----------------------------------------------------------------------------
(* The steps of main *)

LEMMA MainJoinStep ==
  ASSUME FifoInv, MainJoin
  PROVE  FifoInv'
<1>1. PICK s, h, n : ListInv(s, h, n)
  BY DEF FifoInv
<1>2. /\ FifoBounds /\ TypeOK /\ ListOf(s) /\ MarksOf(s, h, n) /\ ProducerOf(s)
      /\ ObserverOf(s, h) /\ obs \in ObserverRecord /\ joined \in BOOLEAN
  BY <1>1 DEF FifoInv, ListInv, TypeOK
<1>3. /\ cons.pc = "idle" /\ joined' = TRUE /\ obs' = obs
      /\ UNCHANGED <<head, tail, head_snapshot, garbage, next, value, kv, allocated, prod, cons,
                     accepted, delivered>>
  BY DEF MainJoin, fifoVars, entryVars
<1>4. ObserverOf(s, h)'
  BY <1>2, <1>3 DEF ObserverOf, CursorAt
<1>5. QED
  BY <1>1, <1>2, <1>3, <1>4, ObserverMoves

LEMMA VerifyHeadStep ==
  ASSUME FifoInv, VerifyHead
  PROVE  FifoInv'
<1>1. PICK s, h, n : ListInv(s, h, n)
  BY DEF FifoInv
<1> DEFINE r == [obs EXCEPT !.pc = "tail", !.cursor = head]
<1>2. /\ FifoBounds /\ TypeOK /\ ListOf(s) /\ MarksOf(s, h, n) /\ ProducerOf(s)
      /\ ObserverOf(s, h) /\ obs \in ObserverRecord /\ joined \in BOOLEAN
  BY <1>1 DEF FifoInv, ListInv, TypeOK
<1>3. /\ obs.pc = "idle" /\ joined /\ joined' = joined /\ obs' = r
      /\ UNCHANGED <<head, tail, head_snapshot, garbage, next, value, kv, allocated, prod, cons,
                     accepted, delivered>>
  BY DEF VerifyHead, fifoVars, entryVars
<1>4. /\ Len(s) \in Nat /\ h \in Nat /\ 1 <= h /\ h <= Len(s)
      /\ \A k \in 1 .. Len(s) : s[k] \in Entry /\ s[k] # Null
  BY <1>2, Positions
<1>5. head \in Entry /\ head = s[h]
  BY <1>2 DEF MarksOf, TypeOK
<1>6. /\ r \in ObserverRecord /\ r.pc = "tail" /\ r.cursor = head /\ r.steps = obs.steps
      /\ r.result = obs.result
  BY <1>2, <1>5 DEF ObserverRecord
<1> HIDE DEF r
<1>7. CursorAt(s, h, h)'
  <2>1. h \in h .. Len(s) /\ obs.steps = h - h
    BY <1>2, <1>3, <1>4 DEF ObserverOf
  <2>2. QED
    BY <1>3, <1>5, <1>6, <2>1 DEF CursorAt
<1>8. ObserverOf(s, h)'
  BY <1>2, <1>3, <1>6, <1>7 DEF ObserverOf
<1>9. QED
  BY <1>1, <1>2, <1>3, <1>6, <1>8, ObserverMoves

\* The tail is at the cursor or behind it, unless the consumer has overtaken it.
LEMMA VerifyTailStep ==
  ASSUME FifoInv, VerifyTail
  PROVE  FifoInv'
<1>1. PICK s, h, n : ListInv(s, h, n)
  BY DEF FifoInv
<1> DEFINE r == [obs EXCEPT !.pc = "walk", !.tail = tail, !.lag = TailBehindHead]
<1>2. /\ FifoBounds /\ TypeOK /\ ListOf(s) /\ MarksOf(s, h, n) /\ ProducerOf(s)
      /\ ObserverOf(s, h) /\ obs \in ObserverRecord /\ joined \in BOOLEAN
  BY <1>1 DEF FifoInv, ListInv, TypeOK
<1>3. /\ obs.pc = "tail" /\ joined' = joined /\ obs' = r
      /\ UNCHANGED <<head, tail, head_snapshot, garbage, next, value, kv, allocated, prod, cons,
                     accepted, delivered>>
  BY DEF VerifyTail, fifoVars, entryVars
<1>4. /\ Len(s) \in Nat /\ h \in Nat /\ 1 <= h /\ h <= Len(s)
      /\ \A k \in 1 .. Len(s) : s[k] \in Entry /\ s[k] # Null
  BY <1>2, Positions
<1>5. TailBehindHead \in BOOLEAN /\ tail \in Entry
  BY <1>2 DEF TailBehindHead, TypeOK
<1>6. /\ r \in ObserverRecord /\ r.pc = "walk" /\ r.cursor = obs.cursor /\ r.steps = obs.steps
      /\ r.tail = tail /\ r.result = obs.result /\ r.lag = TailBehindHead
  BY <1>2, <1>5 DEF ObserverRecord
<1> HIDE DEF r
<1>7. PICK c : CursorAt(s, h, c)
  BY <1>2, <1>3 DEF ObserverOf
<1>8. c = h /\ obs.cursor = s[c] /\ obs.steps = c - h
  BY <1>3, <1>7 DEF CursorAt
<1>9. ASSUME ~TailBehindHead PROVE \E t \in h .. Len(s) : tail = s[t]
  <2>1. CASE prod.pc = "tail"
    <3>1. prod.entry = s[Len(s)] /\ tail = s[Len(s) - 1] /\ head = s[h]
      BY <1>2, <2>1 DEF ProducerOf, MarksOf, TailAt
    <3>2. head # prod.entry
      BY <1>9, <2>1 DEF TailBehindHead
    <3>3. h # Len(s)
      BY <3>1, <3>2
    <3>4. Len(s) - 1 \in h .. Len(s)
      BY <1>4, <3>3
    <3>5. QED
      BY <3>1, <3>4
  <2>2. CASE prod.pc # "tail"
    <3>1. tail = s[Len(s)] /\ Len(s) \in h .. Len(s)
      BY <1>2, <1>4, <2>2 DEF MarksOf, TailAt
    <3>2. QED
      BY <3>1
  <2>3. QED
    BY <2>1, <2>2
<1>10. CursorAt(s, h, h)'
  <2>1. h \in h .. Len(s)
    BY <1>4
  <2>2. QED
    BY <1>3, <1>6, <1>8, <1>9, <2>1 DEF CursorAt
<1>11. ObserverOf(s, h)'
  BY <1>2, <1>3, <1>6, <1>10 DEF ObserverOf
<1>12. QED
  BY <1>1, <1>2, <1>3, <1>6, <1>11, ObserverMoves

LEMMA VerifyNextStep ==
  ASSUME FifoInv, VerifyNext
  PROVE  FifoInv'
<1>1. PICK s, h, n : ListInv(s, h, n)
  BY DEF FifoInv
<1>2. /\ FifoBounds /\ TypeOK /\ ListOf(s) /\ MarksOf(s, h, n) /\ ProducerOf(s)
      /\ ObserverOf(s, h) /\ obs \in ObserverRecord /\ joined \in BOOLEAN
  BY <1>1 DEF FifoInv, ListInv, TypeOK
<1> DEFINE e == next[obs.cursor]
           bad == [obs EXCEPT !.pc = "done", !.result = "corrupt"]
           good == [obs EXCEPT !.cursor = e, !.steps = obs.steps + 1]
<1>3. /\ obs.pc = "walk" /\ obs.steps < MaxSteps /\ obs.cursor # obs.tail /\ joined' = joined
      /\ obs' = IF e = Null THEN bad ELSE good
      /\ UNCHANGED <<head, tail, head_snapshot, garbage, next, value, kv, allocated, prod, cons,
                     accepted, delivered>>
  BY DEF VerifyNext, fifoVars, entryVars
<1>4. /\ Len(s) \in Nat /\ h \in Nat /\ 1 <= h /\ h <= Len(s)
      /\ \A k \in 1 .. Len(s) : s[k] \in Entry /\ s[k] # Null
  BY <1>2, Positions
<1>5. PICK c : CursorAt(s, h, c)
  BY <1>2, <1>3 DEF ObserverOf
<1>6. /\ c \in Nat /\ h <= c /\ c <= Len(s) /\ c \in 1 .. Len(s)
      /\ obs.cursor = s[c] /\ obs.steps = c - h
  BY <1>4, <1>5 DEF CursorAt
<1>7. e = At(s, c + 1)
  BY <1>2, <1>6 DEF ListOf
<1>8. ASSUME ~obs.lag PROVE \E t \in c + 1 .. Len(s) : obs.tail = s[t]
  <2>1. PICK t \in c .. Len(s) : obs.tail = s[t]
    BY <1>3, <1>5, <1>8 DEF CursorAt
  <2>2. t # c
    BY <1>3, <1>6, <2>1
  <2>3. t \in c + 1 .. Len(s)
    BY <1>4, <1>6, <2>2
  <2>4. QED
    BY <2>1, <2>3
<1>9. CASE e = Null
  <2>1. obs.lag
    <3>1. SUFFICES ASSUME ~obs.lag PROVE FALSE
      OBVIOUS
    <3>2. PICK t \in c + 1 .. Len(s) : obs.tail = s[t]
      BY <1>8, <3>1
    <3>3. c + 1 <= Len(s) /\ c + 1 \in 1 .. Len(s)
      BY <1>4, <1>6
    <3>4. QED
      BY <1>4, <1>7, <1>9, <3>3 DEF At
  <2>2. bad \in ObserverRecord /\ bad.pc = "done" /\ bad.lag = obs.lag
    BY <1>2 DEF ObserverRecord
  <2>3. obs' = bad
    BY <1>3, <1>9
  <2> HIDE DEF bad
  <2>4. ObserverOf(s, h)'
    BY <1>2, <1>3, <2>1, <2>2, <2>3 DEF ObserverOf
  <2>5. QED
    BY <1>1, <1>2, <1>3, <2>2, <2>3, <2>4, ObserverMoves
<1>10. CASE e # Null
  <2>1. c + 1 <= Len(s) /\ e = s[c + 1]
    BY <1>7, <1>10 DEF At
  <2>2. c + 1 \in 1 .. Len(s) /\ c + 1 \in h .. Len(s) /\ obs.steps + 1 = (c + 1) - h
    BY <1>4, <1>6, <2>1
  <2>3. e \in Entry /\ obs.steps + 1 \in 0 .. MaxSteps
    <3>1. obs.steps \in 0 .. MaxSteps /\ MaxSteps \in Nat
      BY <1>2, FifoTypes DEF ObserverRecord
    <3>2. QED
      BY <1>3, <1>4, <2>1, <2>2, <3>1
  <2> HIDE DEF e
  <2>4. /\ good \in ObserverRecord /\ good.pc = "walk" /\ good.lag = obs.lag /\ good.cursor = e
        /\ good.steps = obs.steps + 1 /\ good.tail = obs.tail /\ good.result = obs.result
    BY <1>2, <1>3, <2>3 DEF ObserverRecord
  <2>5. obs' = good
    BY <1>3, <1>10
  <2> HIDE DEF good
  <2>6. CursorAt(s, h, c + 1)'
    BY <1>8, <2>1, <2>2, <2>4, <2>5 DEF CursorAt
  <2>7. ObserverOf(s, h)'
    BY <1>2, <1>3, <2>4, <2>5, <2>6 DEF ObserverOf
  <2>8. QED
    BY <1>1, <1>2, <1>3, <2>4, <2>5, <2>7, ObserverMoves
<1>11. QED
  BY <1>9, <1>10

LEMMA VerifyDoneStep ==
  ASSUME FifoInv, VerifyDone
  PROVE  FifoInv'
<1>1. PICK s, h, n : ListInv(s, h, n)
  BY DEF FifoInv
<1> DEFINE r == [obs EXCEPT !.pc = "done",
                         !.result = IF obs.steps = MaxSteps THEN "corrupt" ELSE "success"]
<1>2. /\ FifoBounds /\ TypeOK /\ ListOf(s) /\ MarksOf(s, h, n) /\ ProducerOf(s)
      /\ ObserverOf(s, h) /\ obs \in ObserverRecord /\ joined \in BOOLEAN
  BY <1>1 DEF FifoInv, ListInv, TypeOK
<1>3. /\ obs.pc = "walk" /\ joined' = joined /\ obs' = r
      /\ UNCHANGED <<head, tail, head_snapshot, garbage, next, value, kv, allocated, prod, cons,
                     accepted, delivered>>
  BY DEF VerifyDone, fifoVars, entryVars
<1>4. /\ Len(s) \in Nat /\ h \in Nat /\ 1 <= h /\ h <= Len(s)
      /\ \A k \in 1 .. Len(s) : s[k] \in Entry /\ s[k] # Null
  BY <1>2, Positions
<1>5. PICK c : CursorAt(s, h, c)
  BY <1>2, <1>3 DEF ObserverOf
<1>6. c \in h .. Len(s) /\ obs.steps = c - h
  BY <1>5 DEF CursorAt
<1>7. obs.steps = MaxSteps => Len(s) - h >= MaxSteps
  BY <1>2, <1>4, <1>6, FifoTypes
<1>8. /\ r \in ObserverRecord /\ r.pc = "done"
      /\ r.result = "corrupt" => obs.steps = MaxSteps
  BY <1>2 DEF ObserverRecord
<1> HIDE DEF r
<1>9. ObserverOf(s, h)'
  BY <1>2, <1>3, <1>7, <1>8 DEF ObserverOf
<1>10. QED
  BY <1>1, <1>2, <1>3, <1>8, <1>9, ObserverMoves

----------------------------------------------------------------------------
(* The steps of the producer that leave the list alone *)

LEMMA InsertFreshStep ==
  ASSUME FifoInv, NEW x \in Item, InsertFresh(x)
  PROVE  FifoInv'
<1>1. PICK s, h, n : ListInv(s, h, n)
  BY DEF FifoInv
<1> DEFINE r == [prod EXCEPT !.pc = "key", !.entry = allocated + 1, !.pair = x]
<1>2. /\ FifoBounds /\ TypeOK /\ ListOf(s) /\ MarksOf(s, h, n) /\ ProducerOf(s)
      /\ prod \in ProducerRecord /\ tail \in Entry /\ allocated \in 0 .. MaxEntries
      /\ next \in [Entry -> Link] /\ value \in [Entry -> Link] /\ kv \in [Entry -> Pair]
  BY <1>1 DEF FifoInv, ListInv, TypeOK
<1>3. /\ prod.pc = "idle" /\ allocated < MaxEntries /\ allocated' = allocated + 1 /\ prod' = r
      /\ UNCHANGED <<head, tail, head_snapshot, garbage, next, value, kv, cons, joined, obs, accepted, delivered>>
  BY DEF InsertFresh, Obtain, fifoVars, entryVars, mainVars
<1>4. /\ Len(s) \in Nat /\ Len(s) >= 1 /\ \A k \in 1 .. Len(s) : s[k] \in Entry /\ s[k] <= allocated
  BY <1>2, Positions
<1>5. /\ allocated \in Nat /\ allocated + 1 \in Entry /\ allocated + 1 \in 0 .. MaxEntries
      /\ x \in Pair
  BY <1>2, <1>3, FifoTypes
<1>6. r \in ProducerRecord /\ r.pc = "key" /\ r.entry = allocated + 1 /\ r.pair = x
  BY <1>2, <1>5 DEF ProducerRecord
<1> HIDE DEF r
<1>7. /\ ~Private /\ Private' /\ Away = 0 /\ Away' = 1
      /\ TailAt(s) = Len(s) /\ TailAt(s)' = Len(s)
  BY <1>3, <1>6 DEF Private, Away, TailAt
<1>8. \A k \in 1 .. Len(s) : s[k] # allocated + 1
  <2>1. Entry \subseteq Int
    BY <1>2, FifoTypes
  <2>2. QED
    BY <1>4, <1>5, <2>1
<1>9. ProducerOf(s)'
  BY <1>3, <1>5, <1>6, <1>8 DEF ProducerOf
<1>10. allocated' - Away' = allocated - Away /\ allocated' >= allocated
  BY <1>3, <1>5, <1>7
<1>11. tail' = s[TailAt(s)'] /\ tail' \in Entry
  BY <1>2, <1>3, <1>7 DEF MarksOf
<1>12. QED
  BY <1>1, <1>2, <1>3, <1>5, <1>6, <1>9, <1>10, <1>11, ProducerMoves

LEMMA IdleProducers ==
  ASSUME FifoBounds, NEW o \in {"none", "success", "nomem"}
  PROVE  /\ [IdleProducer EXCEPT !.result = o] \in ProducerRecord
         /\ [IdleProducer EXCEPT !.result = o].pc = "idle"
<1>1. 0 \in Entry /\ Blank \in Pair
  BY DEF FifoBounds, Entry, Blank, Pair
<1>2. QED
  BY <1>1 DEF IdleProducer, ProducerRecord, Stub

LEMMA InsertNoMemoryStep ==
  ASSUME FifoInv, InsertNoMemory
  PROVE  FifoInv'
<1>1. PICK s, h, n : ListInv(s, h, n)
  BY DEF FifoInv
<1> DEFINE r == [IdleProducer EXCEPT !.result = "nomem"]
<1>2. /\ FifoBounds /\ TypeOK /\ ListOf(s) /\ MarksOf(s, h, n) /\ ProducerOf(s)
      /\ prod \in ProducerRecord /\ tail \in Entry /\ allocated \in 0 .. MaxEntries
      /\ next \in [Entry -> Link] /\ value \in [Entry -> Link] /\ kv \in [Entry -> Pair]
  BY <1>1 DEF FifoInv, ListInv, TypeOK
<1>3. /\ prod.pc = "idle" /\ prod' = r
      /\ UNCHANGED <<head, tail, head_snapshot, garbage, next, value, kv, allocated, cons, joined, obs, accepted, delivered>>
  BY DEF InsertNoMemory, fifoVars, entryVars, mainVars
<1>4. r \in ProducerRecord /\ r.pc = "idle"
  BY <1>2, IdleProducers
<1> HIDE DEF r
<1>5. Away' = Away /\ ~Private' /\ TailAt(s)' = TailAt(s)
  BY <1>3, <1>4 DEF Private, Away, TailAt
<1>6. ProducerOf(s)'
  BY <1>3, <1>4, <1>5 DEF ProducerOf
<1>7. allocated' - Away' = allocated - Away /\ allocated' >= allocated /\ tail' = s[TailAt(s)']
  BY <1>2, <1>3, <1>5 DEF MarksOf
<1>8. QED
  BY <1>1, <1>2, <1>3, <1>4, <1>6, <1>7, ProducerMoves

\* The producer has written a field of its entry and goes on.
LEMMA EntryWritten ==
  ASSUME FifoInv, NEW s, NEW h, NEW n, ListInv(s, h, n), Private, Private',
         UNCHANGED <<head, tail, head_snapshot, garbage, allocated, cons, joined, obs, accepted, delivered>>,
         prod' \in ProducerRecord, prod'.entry = prod.entry, prod'.pair = prod.pair,
         next' \in [Entry -> Link], value' \in [Entry -> Link], kv' \in [Entry -> Pair],
         \A e \in Entry : e # prod.entry =>
            next'[e] = next[e] /\ value'[e] = value[e] /\ kv'[e] = kv[e],
         prod'.pc = "value" => kv'[prod.entry].key = prod.pair.key,
         prod'.pc \in {"prepare", "link"} => kv'[prod.entry] = prod.pair,
         prod'.pc = "link" => value'[prod.entry] = prod.entry /\ next'[prod.entry] = Null
  PROVE  FifoInv'
<1>1. /\ FifoBounds /\ TypeOK /\ ListOf(s) /\ MarksOf(s, h, n) /\ ProducerOf(s)
      /\ tail \in Entry /\ allocated \in 0 .. MaxEntries
  BY DEF FifoInv, ListInv, TypeOK
<1>2. \A k \in 1 .. Len(s) : s[k] \in Entry /\ s[k] # prod.entry
  BY <1>1, Positions DEF ProducerOf
<1>3. Away' = Away /\ prod'.pc # "tail" /\ TailAt(s)' = TailAt(s)
  BY DEF Private, Away, TailAt
<1>4. ProducerOf(s)'
  BY <1>1, <1>2, <1>3 DEF ProducerOf
<1>5. allocated' - Away' = allocated - Away /\ allocated' >= allocated /\ tail' = s[TailAt(s)']
  BY <1>1, <1>3 DEF MarksOf
<1>6. QED
  BY <1>1, <1>2, <1>4, <1>5, ProducerMoves

LEMMA InsertKeyStep ==
  ASSUME FifoInv, InsertKey
  PROVE  FifoInv'
<1>1. PICK s, h, n : ListInv(s, h, n)
  BY DEF FifoInv
<1> DEFINE r == [prod EXCEPT !.pc = "value"]
<1>2. /\ FifoBounds /\ TypeOK /\ ListOf(s) /\ MarksOf(s, h, n) /\ ProducerOf(s)
      /\ prod \in ProducerRecord /\ tail \in Entry /\ allocated \in 0 .. MaxEntries
      /\ next \in [Entry -> Link] /\ value \in [Entry -> Link] /\ kv \in [Entry -> Pair]
  BY <1>1 DEF FifoInv, ListInv, TypeOK
<1> DEFINE e == prod.entry
           w == [kv[e] EXCEPT !.key = prod.pair.key]
<1>3. /\ prod.pc = "key" /\ kv' = [kv EXCEPT ![e] = w] /\ prod' = r
      /\ UNCHANGED <<head, tail, head_snapshot, garbage, next, value, allocated, cons, joined, obs, accepted, delivered>>
  BY DEF InsertKey, fifoVars, entryVars, mainVars
<1>4. e \in Entry /\ kv[e] \in Pair /\ prod.pair \in Pair
  BY <1>2 DEF ProducerRecord
<1>5. w \in Pair /\ w.key = prod.pair.key
  BY <1>4 DEF Pair
<1>6. r \in ProducerRecord /\ r.pc = "value" /\ r.entry = e /\ r.pair = prod.pair
  BY <1>2 DEF ProducerRecord
<1> HIDE DEF r, w
<1>7. Private /\ Private'
  BY <1>3, <1>6 DEF Private
<1>8. /\ kv' \in [Entry -> Pair] /\ kv'[e] = w /\ \A f \in Entry : f # e => kv'[f] = kv[f]
  BY <1>2, <1>3, <1>4, <1>5
<1>9. QED
  BY <1>1, <1>2, <1>3, <1>5, <1>6, <1>7, <1>8, EntryWritten

LEMMA InsertValueStep ==
  ASSUME FifoInv, InsertValue
  PROVE  FifoInv'
<1>1. PICK s, h, n : ListInv(s, h, n)
  BY DEF FifoInv
<1> DEFINE r == [prod EXCEPT !.pc = "prepare"]
<1>2. /\ FifoBounds /\ TypeOK /\ ListOf(s) /\ MarksOf(s, h, n) /\ ProducerOf(s)
      /\ prod \in ProducerRecord /\ tail \in Entry /\ allocated \in 0 .. MaxEntries
      /\ next \in [Entry -> Link] /\ value \in [Entry -> Link] /\ kv \in [Entry -> Pair]
  BY <1>1 DEF FifoInv, ListInv, TypeOK
<1> DEFINE e == prod.entry
           w == [kv[e] EXCEPT !.value = prod.pair.value]
<1>3. /\ prod.pc = "value" /\ kv' = [kv EXCEPT ![e] = w] /\ prod' = r
      /\ UNCHANGED <<head, tail, head_snapshot, garbage, next, value, allocated, cons, joined, obs, accepted, delivered>>
  BY DEF InsertValue, fifoVars, entryVars, mainVars
<1>4. e \in Entry /\ kv[e] \in Pair /\ prod.pair \in Pair
  BY <1>2 DEF ProducerRecord
<1>5. kv[e].key = prod.pair.key
  BY <1>2, <1>3 DEF ProducerOf
<1>6. w \in Pair /\ w = prod.pair
  BY <1>4, <1>5 DEF Pair
<1>7. r \in ProducerRecord /\ r.pc = "prepare" /\ r.entry = e /\ r.pair = prod.pair
  BY <1>2 DEF ProducerRecord
<1> HIDE DEF r, w
<1>8. Private /\ Private'
  BY <1>3, <1>7 DEF Private
<1>9. /\ kv' \in [Entry -> Pair] /\ kv'[e] = w /\ \A f \in Entry : f # e => kv'[f] = kv[f]
  BY <1>2, <1>3, <1>4, <1>6
<1>10. QED
  BY <1>1, <1>2, <1>3, <1>6, <1>7, <1>8, <1>9, EntryWritten

LEMMA InsertPrepareStep ==
  ASSUME FifoInv, InsertPrepare
  PROVE  FifoInv'
<1>1. PICK s, h, n : ListInv(s, h, n)
  BY DEF FifoInv
<1> DEFINE r == [prod EXCEPT !.pc = "link"]
<1>2. /\ FifoBounds /\ TypeOK /\ ListOf(s) /\ MarksOf(s, h, n) /\ ProducerOf(s)
      /\ prod \in ProducerRecord /\ tail \in Entry /\ allocated \in 0 .. MaxEntries
      /\ next \in [Entry -> Link] /\ value \in [Entry -> Link] /\ kv \in [Entry -> Pair]
  BY <1>1 DEF FifoInv, ListInv, TypeOK
<1> DEFINE e == prod.entry
<1>3. /\ prod.pc = "prepare" /\ value' = [value EXCEPT ![e] = e]
      /\ next' = [next EXCEPT ![e] = Null] /\ prod' = r
      /\ UNCHANGED <<head, tail, head_snapshot, garbage, kv, allocated, cons, joined, obs, accepted, delivered>>
  BY DEF InsertPrepare, fifoVars, entryVars, mainVars
<1>4. e \in Entry /\ e \in Link /\ Null \in Link /\ kv[e] = prod.pair
  BY <1>2, <1>3 DEF ProducerRecord, Link, ProducerOf
<1>5. r \in ProducerRecord /\ r.pc = "link" /\ r.entry = e /\ r.pair = prod.pair
  BY <1>2 DEF ProducerRecord
<1> HIDE DEF r
<1>6. Private /\ Private'
  BY <1>3, <1>5 DEF Private
<1>7. /\ value' \in [Entry -> Link] /\ value'[e] = e
      /\ next' \in [Entry -> Link] /\ next'[e] = Null
      /\ \A f \in Entry : f # e => value'[f] = value[f] /\ next'[f] = next[f]
  BY <1>2, <1>3, <1>4
<1>8. QED
  BY <1>1, <1>2, <1>3, <1>4, <1>5, <1>6, <1>7, EntryWritten

LEMMA InsertTailStep ==
  ASSUME FifoInv, InsertTail
  PROVE  FifoInv'
<1>1. PICK s, h, n : ListInv(s, h, n)
  BY DEF FifoInv
<1> DEFINE r == [IdleProducer EXCEPT !.result = "success"]
<1>2. /\ FifoBounds /\ TypeOK /\ ListOf(s) /\ MarksOf(s, h, n) /\ ProducerOf(s)
      /\ prod \in ProducerRecord /\ tail \in Entry /\ allocated \in 0 .. MaxEntries
      /\ next \in [Entry -> Link] /\ value \in [Entry -> Link] /\ kv \in [Entry -> Pair]
  BY <1>1 DEF FifoInv, ListInv, TypeOK
<1>3. /\ prod.pc = "tail" /\ tail' = prod.entry /\ prod' = r
      /\ UNCHANGED <<head, head_snapshot, garbage, next, value, kv, allocated, cons, joined, obs, accepted, delivered>>
  BY DEF InsertTail, entryVars, mainVars
<1>4. r \in ProducerRecord /\ r.pc = "idle"
  BY <1>2, IdleProducers
<1> HIDE DEF r
<1>5. Away' = Away /\ ~Private' /\ TailAt(s)' = Len(s)
  BY <1>3, <1>4 DEF Private, Away, TailAt
<1>6. ProducerOf(s)'
  BY <1>3, <1>4, <1>5 DEF ProducerOf
<1>7. tail' = s[TailAt(s)'] /\ tail' \in Entry
  BY <1>2, <1>3, <1>5 DEF ProducerOf, ProducerRecord
<1>8. allocated' - Away' = allocated - Away /\ allocated' >= allocated
  BY <1>2, <1>3, <1>5
<1>9. QED
  BY <1>1, <1>2, <1>3, <1>4, <1>6, <1>7, <1>8, ProducerMoves

----------------------------------------------------------------------------
(* The list loses its first entry to the producer *)

LEMMA Rest ==
  ASSUME NEW S, NEW s \in Seq(S), Len(s) >= 2
  PROVE  /\ Tail(s) \in Seq(S) /\ Len(Tail(s)) = Len(s) - 1 /\ Len(s) \in Nat
         /\ \A k \in 1 .. Len(s) - 1 : Tail(s)[k] = s[k + 1]
  OBVIOUS

\* Recycling finds its entry in front of the head.
LEMMA RecycleEffect ==
  ASSUME FifoInv, NEW x \in Item, InsertRecycle(x), NEW s, NEW h, NEW n, ListInv(s, h, n)
  PROVE  /\ h >= 2 /\ garbage' = s[2] /\ \E i \in 2 .. h : head_snapshot' = s[i]
         /\ prod' \in ProducerRecord /\ prod'.pc = "key" /\ prod'.entry = s[1] /\ prod'.pair = x
         /\ ~Private /\ Private' /\ Away = 0 /\ Away' = 1 /\ prod.pc = "idle"
         /\ UNCHANGED <<head, tail, next, value, kv, allocated, cons, joined, obs, accepted, delivered>>
<1> DEFINE r == [prod EXCEPT !.pc = "key", !.entry = garbage, !.pair = x]
<1>1. /\ FifoBounds /\ TypeOK /\ ListOf(s) /\ MarksOf(s, h, n)
      /\ prod \in ProducerRecord /\ garbage \in Entry /\ x \in Pair
  <2>1. FifoBounds /\ TypeOK /\ ListOf(s) /\ MarksOf(s, h, n)
    BY DEF FifoInv, ListInv
  <2>2. QED
    BY <2>1, FifoTypes DEF TypeOK
<1>2. /\ prod.pc = "idle" /\ Snapshot # garbage /\ head_snapshot' = Snapshot
      /\ garbage' = next[garbage] /\ prod' = r
      /\ UNCHANGED <<head, tail, next, value, kv, allocated, cons, joined, obs, accepted, delivered>>
  BY DEF InsertRecycle, Obtain, entryVars, mainVars
<1>3. Len(s) \in Nat /\ h \in Nat /\ n \in Nat /\ 1 <= n /\ n <= h /\ h <= Len(s)
  BY <1>1, Positions
<1>4. garbage = s[1] /\ head = s[h] /\ head_snapshot = s[n]
  BY <1>1 DEF MarksOf
<1>5. PICK i \in 1 .. h : Snapshot = s[i]
  <2>1. h \in 1 .. h /\ n \in 1 .. h
    BY <1>3
  <2>2. Snapshot = s[h] \/ Snapshot = s[n]
    BY <1>4 DEF Snapshot
  <2>3. QED
    BY <2>1, <2>2
<1>6. i # 1
  BY <1>2, <1>4, <1>5
<1>7. i \in 2 .. h /\ h >= 2 /\ 1 \in 1 .. Len(s) /\ 1 + 1 <= Len(s) /\ 1 + 1 = 2
  BY <1>3, <1>6
<1>8. garbage' = s[2]
  <2>1. next[s[1]] = At(s, 1 + 1)
    BY <1>1, <1>7 DEF ListOf
  <2>2. QED
    BY <1>2, <1>4, <1>7, <2>1 DEF At
<1>9. r \in ProducerRecord /\ r.pc = "key" /\ r.entry = garbage /\ r.pair = x
  BY <1>1 DEF ProducerRecord
<1> HIDE DEF r
<1>10. ~Private /\ Private' /\ Away = 0 /\ Away' = 1
  BY <1>2, <1>9 DEF Private, Away
<1>11. QED
  BY <1>2, <1>4, <1>5, <1>7, <1>8, <1>9, <1>10

LEMMA InsertRecycleStep ==
  ASSUME FifoInv, NEW x \in Item, InsertRecycle(x)
  PROVE  FifoInv'
<1>1. PICK s, h, n : ListInv(s, h, n)
  BY DEF FifoInv
<1>2. /\ FifoBounds /\ TypeOK /\ ListOf(s) /\ MarksOf(s, h, n) /\ PairsOf(s, h)
      /\ ConsumerOf(s, h) /\ ObserverOf(s, h)
  BY <1>1 DEF FifoInv, ListInv
<1>3. /\ h >= 2 /\ garbage' = s[2] /\ \E i \in 2 .. h : head_snapshot' = s[i]
      /\ prod' \in ProducerRecord /\ prod'.pc = "key" /\ prod'.entry = s[1] /\ prod'.pair = x
      /\ ~Private /\ Private' /\ Away = 0 /\ Away' = 1 /\ prod.pc = "idle"
      /\ UNCHANGED <<head, tail, next, value, kv, allocated, cons, joined, obs, accepted, delivered>>
  BY <1>1, RecycleEffect
<1>4. PICK i \in 2 .. h : head_snapshot' = s[i]
  BY <1>3
<1>5. /\ s \in Seq(Entry) /\ Len(s) \in Nat /\ h \in Nat /\ h <= Len(s) /\ Len(s) >= 2
      /\ \A k \in 1 .. Len(s) : s[k] \in Entry /\ s[k] <= allocated
  BY <1>2, <1>3, Positions
<1>6. PICK t, g, m : t = Tail(s) /\ g = h - 1 /\ m = i - 1
  OBVIOUS
<1>7. /\ t \in Seq(Entry) /\ Len(t) = Len(s) - 1 /\ Len(t) \in Nat
      /\ \A k \in 1 .. Len(t) : t[k] = s[k + 1]
  BY <1>5, <1>6, Rest
<1>8. \A k \in 1 .. Len(t) : k + 1 \in 1 .. Len(s) /\ k + 1 # 1 /\ k \in Nat
  BY <1>5, <1>7
<1>9. \A j \in 2 .. Len(s) : j - 1 \in 1 .. Len(t) /\ t[j - 1] = s[j]
  <2> SUFFICES ASSUME NEW j \in 2 .. Len(s) PROVE j - 1 \in 1 .. Len(t) /\ t[j - 1] = s[j]
    OBVIOUS
  <2>1. j - 1 \in 1 .. Len(t) /\ (j - 1) + 1 = j
    BY <1>5, <1>7
  <2>2. QED
    BY <1>7, <2>1
<1>10. \A k \in Nat : At(t, k) = IF k >= 1 THEN At(s, k + 1) ELSE At(t, k)
  BY <1>5, <1>7 DEF At
<1>11. /\ g \in Nat /\ g + 1 = h /\ g \in 1 .. Len(t) /\ m \in 1 .. g
       /\ h \in 2 .. Len(s) /\ i \in 2 .. Len(s) /\ 2 \in 2 .. Len(s) /\ Len(s) \in 2 .. Len(s)
  BY <1>3, <1>5, <1>6, <1>7
<1>12. ListOf(t)'
  <2>1. Len(t) = allocated' + 1 - Away'
    BY <1>2, <1>3, <1>7, FifoTypes DEF ListOf
  <2>2. ASSUME NEW k \in 1 .. Len(t) PROVE t[k] <= allocated' /\ next'[t[k]] = At(t, k + 1)
    <3>1. t[k] = s[k + 1] /\ k + 1 \in 1 .. Len(s) /\ k + 1 \in Nat /\ k + 1 >= 1
      BY <1>7, <1>8
    <3>2. next[s[k + 1]] = At(s, (k + 1) + 1)
      BY <1>2, <3>1 DEF ListOf
    <3>3. At(t, k + 1) = At(s, (k + 1) + 1)
      BY <1>10, <3>1
    <3>4. QED
      BY <1>3, <1>5, <3>1, <3>2, <3>3
  <2>3. ASSUME NEW j \in 1 .. Len(t), NEW k \in 1 .. Len(t), t[j] = t[k] PROVE j = k
    <3>1. j + 1 = k + 1
      BY <1>2, <1>7, <1>8, <2>3 DEF ListOf
    <3>2. QED
      BY <3>1
  <2>4. QED
    BY <1>7, <2>1, <2>2, <2>3 DEF ListOf, At
<1>13. MarksOf(t, g, m)'
  <2>1. /\ garbage' = t[2 - 1] /\ head' = t[h - 1] /\ head_snapshot' = t[i - 1]
        /\ tail' = t[Len(s) - 1]
    BY <1>2, <1>3, <1>4, <1>9, <1>11 DEF MarksOf, TailAt
  <2>2. TailAt(t)' = Len(t) /\ 2 - 1 = 1
    BY <1>3 DEF TailAt
  <2>3. QED
    BY <1>6, <1>7, <1>11, <2>1, <2>2 DEF MarksOf
<1>14. PairsOf(t, g)'
  <2>1. Held' = Held /\ (Copying' <=> Copying)
    BY <1>3 DEF Held, Copying
  <2>2. Len(t) - g = Len(s) - h
    BY <1>5, <1>6, <1>7
  <2>3. ASSUME NEW k \in 1 .. Len(t)
        PROVE  /\ k > g => value[t[k]] = t[k]
               /\ k > g \/ (Copying /\ k = g) => kv[t[k]] = accepted[Index(t, k)]
    <3>1. /\ t[k] = s[k + 1] /\ k + 1 \in 1 .. Len(s) /\ (k > g <=> k + 1 > h)
          /\ (k = g <=> k + 1 = h)
      BY <1>7, <1>8, <1>11
    <3>2. Index(t, k) = Index(s, k + 1)
      BY <1>2, <1>5, <1>7, FifoTypes DEF Index
    <3>3. QED
      BY <1>2, <3>1, <3>2 DEF PairsOf
  <2>4. QED
    BY <1>2, <1>3, <2>1, <2>2, <2>3 DEF PairsOf, Index
<1>15. ProducerOf(t)'
  <2>1. 1 \in 1 .. Len(s)
    BY <1>5
  <2>2. \A k \in 1 .. Len(t) : t[k] # s[1]
    BY <1>2, <1>7, <1>8, <2>1 DEF ListOf
  <2>3. QED
    BY <1>3, <1>5, <2>1, <2>2 DEF ProducerOf
<1>16. ConsumerOf(t, g)'
  <2>1. s[h] = t[g]
    BY <1>6, <1>9, <1>11
  <2>2. h < Len(s) => g < Len(t) /\ s[h + 1] = t[g + 1]
    <3> SUFFICES ASSUME h < Len(s) PROVE g < Len(t) /\ s[h + 1] = t[g + 1]
      OBVIOUS
    <3>1. g + 1 \in 1 .. Len(t) /\ (g + 1) + 1 = h + 1 /\ g < Len(t)
      BY <1>5, <1>7, <1>11
    <3>2. QED
      BY <1>7, <3>1
  <2>3. QED
    BY <1>2, <1>3, <2>1, <2>2 DEF ConsumerOf, Copying
<1>17. ObserverOf(t, g)'
  <2>1. Len(t) - g = Len(s) - h
    BY <1>5, <1>6, <1>7
  <2>2. ASSUME NEW c, CursorAt(s, h, c) PROVE CursorAt(t, g, c - 1)'
    <3>1. c \in h .. Len(s) /\ c \in 2 .. Len(s) /\ obs.cursor = s[c] /\ obs.steps = c - h
      BY <1>3, <1>5, <2>2 DEF CursorAt
    <3>2. c - 1 \in g .. Len(t) /\ obs.cursor = t[c - 1] /\ obs.steps = (c - 1) - g
      BY <1>5, <1>7, <1>9, <1>11, <3>1
    <3>3. obs.pc = "tail" => c - 1 = g
      BY <1>6, <2>2 DEF CursorAt
    <3>4. ASSUME obs.pc = "walk", ~obs.lag PROVE \E u \in c - 1 .. Len(t) : obs.tail = t[u]
      <4>1. PICK v \in c .. Len(s) : obs.tail = s[v]
        BY <2>2, <3>4 DEF CursorAt
      <4>2. v \in 2 .. Len(s) /\ v - 1 \in c - 1 .. Len(t)
        BY <1>5, <1>7, <3>1
      <4>3. QED
        BY <1>9, <4>1, <4>2
    <3>5. QED
      BY <1>3, <3>2, <3>3, <3>4 DEF CursorAt
  <2>3. obs.pc \in {"tail", "walk"} => \E c : CursorAt(t, g, c)'
    BY <1>2, <2>2 DEF ObserverOf
  <2>4. QED
    BY <1>2, <1>3, <2>1, <2>3 DEF ObserverOf
<1>18. ListInv(t, g, m)'
  BY <1>12, <1>13, <1>14, <1>15, <1>16, <1>17 DEF ListInv
<1>19. TypeOK'
  <2>1. garbage' \in Entry /\ head_snapshot' \in Entry
    <3>1. 2 \in 1 .. Len(s) /\ i \in 1 .. Len(s)
      BY <1>5, <1>11
    <3>2. QED
      BY <1>3, <1>4, <1>5, <3>1
  <2>2. QED
    BY <1>2, <1>3, <2>1 DEF TypeOK
<1>20. QED
  BY <1>2, <1>18, <1>19, BoundsKept DEF FifoInv

----------------------------------------------------------------------------
(* The list gets the entry at its end *)

LEMMA Longer ==
  ASSUME NEW S, NEW s \in Seq(S), NEW e \in S
  PROVE  /\ Append(s, e) \in Seq(S) /\ Len(Append(s, e)) = Len(s) + 1 /\ Len(s) \in Nat
         /\ Append(s, e)[Len(s) + 1] = e /\ \A k \in 1 .. Len(s) : Append(s, e)[k] = s[k]
  OBVIOUS

LEMMA LinkEffect ==
  ASSUME FifoInv, InsertLink, NEW s, NEW h, NEW n, ListInv(s, h, n)
  PROVE  \E e \in Entry :
           /\ e = prod.entry /\ e <= allocated /\ value[e] = e /\ next[e] = Null /\ kv[e] = prod.pair
           /\ \A k \in 1 .. Len(s) : s[k] # e
           /\ tail = s[Len(s)] /\ next' = [next EXCEPT ![tail] = e]
           /\ accepted' = Append(accepted, prod.pair) /\ prod.pair \in Item
           /\ prod' \in ProducerRecord /\ prod'.pc = "tail" /\ prod'.entry = e
           /\ Private /\ ~Private' /\ Away = 1 /\ Away' = 0
           /\ UNCHANGED <<head, tail, head_snapshot, garbage, value, kv, allocated, cons, joined, obs, delivered>>
<1> DEFINE r == [prod EXCEPT !.pc = "tail"]
<1>1. /\ FifoBounds /\ TypeOK /\ MarksOf(s, h, n) /\ ProducerOf(s) /\ prod \in ProducerRecord
  BY DEF FifoInv, ListInv, TypeOK
<1>2. /\ prod.pc = "link" /\ next' = [next EXCEPT ![tail] = prod.entry] /\ prod' = r
      /\ accepted' = Append(accepted, prod.pair)
      /\ UNCHANGED <<head, tail, head_snapshot, garbage, value, kv, allocated, cons, joined, obs, delivered>>
  BY DEF InsertLink, fifoVars, mainVars
<1>3. r \in ProducerRecord /\ r.pc = "tail" /\ r.entry = prod.entry /\ prod.entry \in Entry
  BY <1>1 DEF ProducerRecord
<1> HIDE DEF r
<1>4. Private /\ ~Private' /\ Away = 1 /\ Away' = 0
  BY <1>2, <1>3 DEF Private, Away
<1>5. tail = s[Len(s)]
  BY <1>1, <1>2 DEF MarksOf, TailAt
<1>6. QED
  BY <1>1, <1>2, <1>3, <1>4, <1>5 DEF ProducerOf

LEMMA InsertLinkStep ==
  ASSUME FifoInv, InsertLink
  PROVE  FifoInv'
<1>1. PICK s, h, n : ListInv(s, h, n)
  BY DEF FifoInv
<1>2. /\ FifoBounds /\ TypeOK /\ ListOf(s) /\ MarksOf(s, h, n) /\ PairsOf(s, h)
      /\ ConsumerOf(s, h) /\ ObserverOf(s, h)
  BY <1>1 DEF FifoInv, ListInv
<1>3. PICK e \in Entry :
        /\ e = prod.entry /\ e <= allocated /\ value[e] = e /\ next[e] = Null /\ kv[e] = prod.pair
        /\ \A k \in 1 .. Len(s) : s[k] # e
        /\ tail = s[Len(s)] /\ next' = [next EXCEPT ![tail] = e]
        /\ accepted' = Append(accepted, prod.pair) /\ prod.pair \in Item
        /\ prod' \in ProducerRecord /\ prod'.pc = "tail" /\ prod'.entry = e
        /\ Private /\ ~Private' /\ Away = 1 /\ Away' = 0
        /\ UNCHANGED <<head, tail, head_snapshot, garbage, value, kv, allocated, cons, joined, obs, delivered>>
  BY <1>1, LinkEffect
<1>4. /\ s \in Seq(Entry) /\ Len(s) \in Nat /\ Len(s) >= 1 /\ h \in Nat /\ 1 <= h /\ h <= Len(s)
      /\ n \in Nat /\ 1 <= n /\ n <= h
      /\ \A k \in 1 .. Len(s) : s[k] \in Entry /\ s[k] <= allocated
  BY <1>2, Positions
<1>5. PICK t : t = Append(s, e)
  OBVIOUS
<1>6. /\ t \in Seq(Entry) /\ Len(t) = Len(s) + 1 /\ t[Len(s) + 1] = e
      /\ \A k \in 1 .. Len(s) : t[k] = s[k]
  BY <1>3, <1>4, <1>5, Longer
<1>7. \A k \in 1 .. Len(t) : k \in Nat /\ (k \in 1 .. Len(s) \/ k = Len(s) + 1)
  BY <1>4, <1>6
<1>8. Len(s) \in 1 .. Len(s) /\ h \in 1 .. Len(s) /\ n \in 1 .. Len(s) /\ 1 \in 1 .. Len(s)
  BY <1>4
<1>9. /\ next \in [Entry -> Link] /\ tail \in Entry /\ e \in Link
      /\ accepted \in Seq(Item) /\ Len(accepted) \in Nat /\ Len(delivered) \in Nat /\ allocated \in Nat
  BY <1>2, <1>3, <1>4, <1>8, FifoTypes
<1>10. /\ next'[tail] = e /\ \A f \in Entry : f # tail => next'[f] = next[f]
       /\ next' \in [Entry -> Link]
  BY <1>3, <1>9
<1>11. ListOf(t)'
  <2>1. Len(t) = allocated' + 1 - Away'
    BY <1>2, <1>3, <1>6, <1>9 DEF ListOf
  <2>2. ASSUME NEW k \in 1 .. Len(t) PROVE t[k] <= allocated' /\ next'[t[k]] = At(t, k + 1)
    <3>1. CASE k = Len(s) + 1
      <4>1. At(t, k + 1) = Null
        BY <1>4, <1>6, <3>1 DEF At
      <4>2. e # tail
        BY <1>3, <1>8
      <4>3. QED
        BY <1>3, <1>6, <1>10, <3>1, <4>1, <4>2
    <3>2. CASE k = Len(s)
      <4>1. At(t, k + 1) = e
        BY <1>4, <1>6, <3>2 DEF At
      <4>2. QED
        BY <1>3, <1>4, <1>6, <1>8, <1>10, <3>2, <4>1
    <3>3. CASE k \in 1 .. Len(s) /\ k # Len(s)
      <4>1. k + 1 \in 1 .. Len(s) /\ k + 1 <= Len(s) /\ k + 1 <= Len(t)
        BY <1>4, <1>6, <3>3
      <4>2. At(t, k + 1) = At(s, k + 1)
        BY <1>6, <4>1 DEF At
      <4>3. s[k] # tail /\ s[k] \in Entry /\ s[k] <= allocated /\ t[k] = s[k]
        BY <1>2, <1>3, <1>4, <1>6, <1>8, <3>3 DEF ListOf
      <4>4. next[s[k]] = At(s, k + 1)
        BY <1>2, <3>3 DEF ListOf
      <4>5. QED
        BY <1>3, <1>10, <4>2, <4>3, <4>4
    <3>4. QED
      BY <1>7, <3>1, <3>2, <3>3
  <2>3. ASSUME NEW j \in 1 .. Len(t), NEW k \in 1 .. Len(t), t[j] = t[k] PROVE j = k
    <3>1. (j \in 1 .. Len(s) \/ j = Len(s) + 1) /\ (k \in 1 .. Len(s) \/ k = Len(s) + 1)
      BY <1>7
    <3>2. CASE j \in 1 .. Len(s) /\ k \in 1 .. Len(s)
      BY <1>2, <1>6, <2>3, <3>2 DEF ListOf
    <3>3. CASE j = Len(s) + 1 \/ k = Len(s) + 1
      BY <1>3, <1>6, <2>3, <3>1, <3>3
    <3>4. QED
      BY <3>1, <3>2, <3>3
  <2>4. QED
    BY <1>6, <2>1, <2>2, <2>3 DEF ListOf, At
<1>12. MarksOf(t, h, n)'
  <2>1. garbage' = t[1] /\ head' = t[h] /\ head_snapshot' = t[n] /\ tail' = t[Len(s)]
    BY <1>2, <1>3, <1>6, <1>8 DEF MarksOf
  <2>2. TailAt(t)' = Len(t) - 1 /\ Len(t) - 1 = Len(s)
    BY <1>3, <1>4, <1>6 DEF TailAt
  <2>3. h \in 1 .. Len(t) /\ n \in 1 .. h
    BY <1>4, <1>6
  <2>4. QED
    BY <2>1, <2>2, <2>3 DEF MarksOf
<1>13. /\ accepted' \in Seq(Item) /\ Len(accepted') = Len(accepted) + 1
       /\ accepted'[Len(accepted) + 1] = prod.pair
       /\ \A i \in 1 .. Len(accepted) : accepted'[i] = accepted[i]
  BY <1>3, <1>9, Longer
<1>14. PairsOf(t, h)'
  <2>1. Held' = Held /\ (Copying' <=> Copying) /\ Held \in {0, 1} /\ (Copying => Held = 1)
    BY <1>3 DEF Held, Copying
  <2>2. Len(delivered) <= Len(accepted) /\ Len(s) - h = Len(accepted) - Len(delivered) - Held
    BY <1>2 DEF PairsOf
  <2>3. Len(delivered) <= Len(accepted') /\ Len(t) - h = Len(accepted') - Len(delivered) - Held
    <3> DEFINE D == Len(delivered)
               E == Len(accepted)
               F == Len(accepted')
               L == Len(s)
               M == Len(t)
               i == Held
    <3>1. /\ D \in Int /\ E \in Int /\ L \in Int /\ h \in Int /\ i \in Int /\ F = E + 1 /\ M = L + 1
          /\ D <= E /\ L - h = E - D - i
      BY <1>4, <1>6, <1>9, <1>13, <2>1, <2>2
    <3> HIDE DEF D, E, F, L, M, i
    <3>2. D <= F /\ M - h = F - D - i
      BY <3>1
    <3>3. QED
      BY <3>2 DEF D, F, M, i
  <2>4. ASSUME NEW k \in 1 .. Len(t), k > h \/ (Copying /\ k = h)
        PROVE  /\ k > h => value[t[k]] = t[k]
               /\ kv[t[k]] = accepted'[Len(accepted') - (Len(t) - k)]
    <3>1. CASE k = Len(s) + 1
      <4>1. Len(accepted') - (Len(t) - k) = Len(accepted) + 1
        BY <1>4, <1>6, <1>9, <1>13, <3>1
      <4>2. QED
        BY <1>3, <1>6, <1>13, <3>1, <4>1
    <3>2. CASE k \in 1 .. Len(s)
      <4> DEFINE i == Index(s, k)
      <4>1. t[k] = s[k] /\ (k > h => value[s[k]] = s[k]) /\ kv[s[k]] = accepted[i]
        BY <1>2, <1>6, <2>4, <3>2 DEF PairsOf
      <4>2. Len(accepted') - (Len(t) - k) = i
        BY <1>4, <1>6, <1>9, <1>13 DEF Index
      <4>3. i \in 1 .. Len(accepted)
        <5>1. i = Len(accepted) - (Len(s) - k) /\ k <= Len(s) /\ k \in Nat
          BY <3>2 DEF Index
        <5> HIDE DEF i
        <5>2. CASE k > h
          BY <1>4, <1>9, <2>1, <2>2, <5>1, <5>2
        <5>3. CASE Copying /\ k = h
          BY <1>4, <1>9, <2>1, <2>2, <5>1, <5>3
        <5>4. QED
          BY <2>4, <5>2, <5>3
      <4> HIDE DEF i
      <4>4. QED
        BY <1>13, <4>1, <4>2, <4>3
    <3>3. QED
      BY <1>7, <3>1, <3>2
  <2>5. QED
    BY <1>3, <2>1, <2>3, <2>4 DEF PairsOf, Index
<1>15. ProducerOf(t)'
  BY <1>3, <1>4, <1>6 DEF ProducerOf
<1>16. ConsumerOf(t, h)'
  <2>1. s[h] = t[h] /\ (h < Len(s) => h < Len(t) /\ t[h + 1] = s[h + 1])
    BY <1>4, <1>6
  <2>2. QED
    BY <1>2, <1>3, <2>1 DEF ConsumerOf, Copying
<1>17. ObserverOf(t, h)'
  <2>1. Len(s) - h >= MaxSteps => Len(t) - h >= MaxSteps
    BY <1>2, <1>4, <1>6, FifoTypes
  <2>2. ASSUME NEW c, CursorAt(s, h, c) PROVE CursorAt(t, h, c)'
    <3>1. c \in h .. Len(t) /\ c \in 1 .. Len(s)
      BY <1>4, <1>6, <2>2 DEF CursorAt
    <3>2. \A u \in c .. Len(s) : u \in c .. Len(t) /\ t[u] = s[u]
      BY <1>4, <1>6, <3>1
    <3>3. QED
      BY <1>3, <1>6, <2>2, <3>1, <3>2 DEF CursorAt
  <2>3. obs.pc \in {"tail", "walk"} => \E c : CursorAt(t, h, c)'
    BY <1>2, <2>2 DEF ObserverOf
  <2>4. QED
    BY <1>2, <1>3, <2>1, <2>3 DEF ObserverOf
<1>18. ListInv(t, h, n)'
  BY <1>11, <1>12, <1>14, <1>15, <1>16, <1>17 DEF ListInv
<1>19. TypeOK'
  BY <1>2, <1>3, <1>10, <1>13 DEF TypeOK
<1>20. QED
  BY <1>2, <1>18, <1>19, BoundsKept DEF FifoInv

----------------------------------------------------------------------------
(* The invariant holds *)

LEMMA FifoStutter ==
  ASSUME FifoInv, UNCHANGED vars
  PROVE  FifoInv'
<1>1. PICK s, h, n : ListInv(s, h, n)
  BY DEF FifoInv
<1>2. ObserverOf(s, h) /\ TypeOK
  BY <1>1 DEF FifoInv, ListInv
<1>3. UNCHANGED <<head, tail, head_snapshot, garbage, next, value, kv, allocated, prod, cons, joined, obs,
                  accepted, delivered>>
  BY DEF vars, fifoVars, entryVars, mainVars
<1>4. ObserverOf(s, h)' /\ joined' \in BOOLEAN /\ obs' \in ObserverRecord
  BY <1>2, <1>3 DEF ObserverOf, CursorAt, TypeOK
<1>5. QED
  BY <1>1, <1>3, <1>4, ObserverMoves

LEMMA FifoNext == FifoInv /\ [Next]_vars => FifoInv'
<1> SUFFICES ASSUME FifoInv, [Next]_vars PROVE FifoInv'
  OBVIOUS
<1>1. CASE ds_ck_fifo_spsc_insert
  BY <1>1, InsertRecycleStep, InsertFreshStep, InsertNoMemoryStep, InsertKeyStep, InsertValueStep,
     InsertPrepareStep, InsertLinkStep, InsertTailStep
     DEF ds_ck_fifo_spsc_insert, InsertStep
<1>2. CASE ds_ck_fifo_spsc_pop
  BY <1>2, PopNextStep, PopPayloadStep, PopAdvanceStep, PopKeyStep, PopValueStep, FifoStutter
     DEF ds_ck_fifo_spsc_pop, PopEmpty
<1>3. CASE MainJoin \/ ds_ck_fifo_spsc_verify
  BY <1>3, MainJoinStep, VerifyHeadStep, VerifyTailStep, VerifyNextStep, VerifyDoneStep
     DEF ds_ck_fifo_spsc_verify
<1>4. CASE UNCHANGED vars
  BY <1>4, FifoStutter
<1>5. QED
  BY <1>1, <1>2, <1>3, <1>4 DEF Next

\* Every reachable state of the CK FIFO satisfies the invariant.
THEOREM FifoInvHolds == Spec => []FifoInv
<1>1. QED
  BY FifoInit, FifoNext, PTL DEF Spec

\* While the producer rewrites an entry, fresh or recycled, neither the consumer, which
\* reads an entry after the head has moved to it, nor the verification uses that entry.
THEOREM FifoNoEntryRace == Spec => []NoEntryRace
<1>1. ASSUME FifoInv PROVE NoEntryRace
  <2>1. PICK s, h, n : ListInv(s, h, n)
    BY <1>1 DEF FifoInv
  <2>2. /\ FifoBounds /\ TypeOK /\ ListOf(s) /\ MarksOf(s, h, n) /\ ProducerOf(s)
        /\ ConsumerOf(s, h) /\ ObserverOf(s, h) /\ cons \in ConsumerRecord
    BY <1>1, <2>1 DEF FifoInv, ListInv, TypeOK
  <2>3. Len(s) \in Nat /\ h \in Nat /\ 1 <= h /\ h <= Len(s) /\ h \in 1 .. Len(s)
    BY <2>2, Positions DEF MarksOf
  <2>4. SUFFICES ASSUME Private
                 PROVE  /\ prod.entry # head
                        /\ cons.pc # "idle" => prod.entry # cons.entry
                        /\ obs.pc \in {"tail", "walk"} => prod.entry # obs.cursor
    BY DEF NoEntryRace
  <2>5. \A k \in 1 .. Len(s) : s[k] # prod.entry
    BY <2>2, <2>4 DEF ProducerOf
  <2>6. prod.entry # head
    BY <2>2, <2>3, <2>5 DEF MarksOf
  <2>7. ASSUME cons.pc # "idle" PROVE prod.entry # cons.entry
    <3>1. cons.pc \in {"payload", "advance"} \/ Copying
      BY <2>2, <2>7 DEF ConsumerRecord, Copying
    <3>2. CASE cons.pc \in {"payload", "advance"}
      <4>1. h + 1 \in 1 .. Len(s) /\ cons.entry = s[h + 1]
        BY <2>2, <2>3, <3>2 DEF ConsumerOf
      <4>2. QED
        BY <2>5, <4>1
    <3>3. CASE Copying
      BY <2>2, <2>3, <2>5, <3>3 DEF ConsumerOf
    <3>4. QED
      BY <3>1, <3>2, <3>3
  <2>8. ASSUME obs.pc \in {"tail", "walk"} PROVE prod.entry # obs.cursor
    <3>1. PICK c : CursorAt(s, h, c)
      BY <2>2, <2>8 DEF ObserverOf
    <3>2. c \in 1 .. Len(s) /\ obs.cursor = s[c]
      BY <2>3, <3>1 DEF CursorAt
    <3>3. QED
      BY <2>5, <3>2
  <2>9. QED
    BY <2>6, <2>7, <2>8
<1>2. QED
  BY <1>1, FifoInvHolds, PTL

\* A verification at exit reports DS_ERROR_CORRUPT only when it read the tail that an
\* unfinished enqueue had left behind the head, or when max_steps pairs are queued.
THEOREM FifoCorruptOnlyFromLag == Spec => []CorruptOnlyFromLag
<1>1. ASSUME FifoInv PROVE CorruptOnlyFromLag
  <2>1. PICK s, h, n : ListInv(s, h, n)
    BY <1>1 DEF FifoInv
  <2>2. FifoBounds /\ TypeOK /\ PairsOf(s, h) /\ ObserverOf(s, h)
    BY <1>1, <2>1 DEF FifoInv, ListInv
  <2>3. Queued = Len(s) - h
    BY <2>2, QueuedIs
  <2>4. QED
    BY <2>2, <2>3 DEF CorruptOnlyFromLag, ObserverOf
<1>2. QED
  BY <1>1, FifoInvHolds, PTL

----------------------------------------------------------------------------
(* Following the links from garbage meets exactly the list *)

LEMMA LeastNat ==
  ASSUME NEW S \in SUBSET Nat, S # {}
  PROVE  \E m \in S : \A k \in S : m <= k
<1> DEFINE R == {ss \in Nat \X Nat : ss[1] < ss[2]}
<1>1. IsWellFoundedOn(R, Nat)
  BY NatLessThanWellFounded, Zenon DEF OpToRel
<1> HIDE DEF R
<1>2. PICK m \in S : \A k \in S : ~(<<k, m>> \in R)
  BY <1>1, WFMin
<1>3. \A k \in S : <<k, m>> \in R \/ m <= k
  BY DEF R
<1>4. QED
  BY <1>2, <1>3

LEMMA ListNext ==
  ASSUME FifoBounds, TypeOK, NEW s, NEW h, NEW n, ListOf(s), MarksOf(s, h, n), NEW k \in Nat
  PROVE  At(s, k + 1) = IF k = 0 THEN garbage
                        ELSE IF At(s, k) = Null THEN Null ELSE next[At(s, k)]
<1>1. Len(s) \in Nat /\ Len(s) >= 1 /\ \A i \in 1 .. Len(s) : s[i] # Null
  BY Positions
<1>2. CASE k = 0
  BY <1>1, <1>2 DEF MarksOf, At
<1>3. CASE k # 0 /\ k <= Len(s)
  <2>1. k \in 1 .. Len(s)
    BY <1>1, <1>3
  <2>2. At(s, k) = s[k] /\ s[k] # Null /\ next[s[k]] = At(s, k + 1)
    BY <1>1, <1>3, <2>1 DEF ListOf, At
  <2>3. QED
    BY <1>3, <2>2
<1>4. CASE k # 0 /\ ~(k <= Len(s))
  BY <1>1, <1>4 DEF At
<1>5. QED
  BY <1>2, <1>3, <1>4

LEMMA HopOnList ==
  ASSUME FifoBounds, TypeOK, NEW s, NEW h, NEW n, ListOf(s), MarksOf(s, h, n),
         NEW k \in 0 .. MaxEntries
  PROVE  Hop[k] = At(s, k + 1)
<1> DEFINE Steps == 0 .. MaxEntries
           f == [i \in Steps |-> At(s, i + 1)]
<1>1. /\ MaxEntries \in Nat
      /\ \A i \in Steps : i \in Nat /\ (i # 0 => i - 1 \in Steps /\ (i - 1) + 1 = i)
  BY FifoTypes
<1>2. \A i \in Steps : At(s, i + 1) = IF i = 0 THEN garbage
                                      ELSE IF At(s, i) = Null THEN Null ELSE next[At(s, i)]
  BY <1>1, ListNext
<1>3. f = [i \in Steps |-> IF i = 0 THEN garbage
                           ELSE IF f[i - 1] = Null THEN Null ELSE next[f[i - 1]]]
  <2>1. \A i \in Steps : At(s, i + 1) = IF i = 0 THEN garbage
                                        ELSE IF f[i - 1] = Null THEN Null ELSE next[f[i - 1]]
    <3> SUFFICES ASSUME NEW i \in Steps
                 PROVE  At(s, i + 1) = IF i = 0 THEN garbage
                                       ELSE IF f[i - 1] = Null THEN Null ELSE next[f[i - 1]]
      OBVIOUS
    <3>1. i # 0 => f[i - 1] = At(s, i)
      BY <1>1
    <3>2. QED
      BY <1>2, <3>1
  <2>2. QED
    BY <2>1
<1> HIDE DEF f
<1>4. Hop = [i \in Steps |-> IF i = 0 THEN garbage
                                ELSE IF Hop[i - 1] = Null THEN Null ELSE next[Hop[i - 1]]]
  BY <1>3 DEF Hop
<1> DEFINE Wrong == {i \in Steps : Hop[i] # At(s, i + 1)}
<1> HIDE DEF Steps
<1>5. SUFFICES ASSUME Wrong # {} PROVE FALSE
  <2>1. k \in Steps
    BY DEF Steps
  <2>2. QED
    BY <2>1
<1>6. Wrong \in SUBSET Nat
  BY <1>1
<1>7. PICK m \in Wrong : \A i \in Wrong : m <= i
  BY <1>5, <1>6, LeastNat
<1>8. m # 0 => Hop[m - 1] = At(s, m)
  <2> SUFFICES ASSUME m # 0 PROVE Hop[m - 1] = At(s, m)
    OBVIOUS
  <2>1. m \in Nat /\ m - 1 \in Steps /\ (m - 1) + 1 = m /\ m - 1 \notin Wrong
    BY <1>1, <1>7
  <2>2. QED
    BY <2>1
<1>9. Hop[m] = IF m = 0 THEN garbage ELSE IF Hop[m - 1] = Null THEN Null ELSE next[Hop[m - 1]]
  BY <1>4
<1>10. QED
  BY <1>2, <1>8, <1>9

\* The entries form one list in the order garbage, head_snapshot, head, end, which
\* holds the queued pairs behind head: for every arena and every bound of verify.
THEOREM FifoChain == Spec => []ChainInv
<1>1. ASSUME FifoInv PROVE ChainInv
  <2>1. PICK s, h, n : ListInv(s, h, n)
    BY <1>1 DEF FifoInv
  <2>2. /\ FifoBounds /\ TypeOK /\ ListOf(s) /\ MarksOf(s, h, n) /\ PairsOf(s, h) /\ ProducerOf(s)
    BY <1>1, <2>1 DEF FifoInv, ListInv
  <2>3. /\ Len(s) \in Nat /\ Len(s) >= 1 /\ Len(s) <= MaxEntries + 1 /\ MaxEntries \in Nat
        /\ h \in Nat /\ n \in Nat /\ 1 <= n /\ n <= h /\ h <= Len(s) /\ Len(accepted) \in Nat
        /\ \A k \in 1 .. Len(s) : s[k] # Null
    BY <2>2, Positions, FifoTypes
  <2> DEFINE last == allocated - (IF Private THEN 1 ELSE 0)
  <2>4. last = Len(s) - 1
    <3>1. last = allocated - Away
      BY DEF Away
    <3>2. allocated \in Nat /\ Away \in {0, 1} /\ Len(s) = allocated + 1 - Away
      BY <2>2, FifoTypes, OneOrNone DEF ListOf
    <3> HIDE DEF last
    <3>3. QED
      BY <3>1, <3>2
  <2>5. SUFFICES /\ ds_ck_fifo_spsc_isempty <=> Queued = 0
                 /\ \A j, k \in 0 .. last : Hop[j] # Null /\ (Hop[j] = Hop[k] => j = k)
                 /\ next[Hop[last]] = Null
                 /\ tail = Hop[IF prod.pc = "tail" THEN last - 1 ELSE last]
                 /\ \E a \in 0 .. last : \E b \in 0 .. a :
                      /\ Hop[a] = head /\ Hop[b] = head_snapshot
                      /\ last - a = Queued
                      /\ \A k \in a + 1 .. last :
                           /\ kv[Hop[k]] = accepted[Len(accepted) - (last - k)]
                           /\ value[Hop[k]] = Hop[k]
    BY <2>2 DEF ChainInv
  <2> HIDE DEF last
  <2>6. ASSUME NEW k \in 0 .. last PROVE k + 1 \in 1 .. Len(s) /\ Hop[k] = s[k + 1]
    <3>1. k \in 0 .. MaxEntries /\ k + 1 \in 1 .. Len(s) /\ k + 1 <= Len(s)
      BY <2>3, <2>4
    <3>2. Hop[k] = At(s, k + 1)
      BY <2>2, <3>1, HopOnList
    <3>3. QED
      BY <3>1, <3>2 DEF At
  <2>7. Queued = Len(s) - h
    BY <2>2, QueuedIs
  <2>8. ds_ck_fifo_spsc_isempty <=> Queued = 0
    <3>1. h \in 1 .. Len(s) /\ next[head] = At(s, h + 1)
      BY <2>2 DEF MarksOf, ListOf
    <3>2. CASE h = Len(s)
      BY <2>3, <2>7, <3>1, <3>2 DEF At, ds_ck_fifo_spsc_isempty
    <3>3. CASE h < Len(s)
      <4>1. h + 1 \in 1 .. Len(s) /\ h + 1 <= Len(s) /\ Len(s) - h # 0
        BY <2>3, <3>3
      <4>2. QED
        BY <2>3, <2>7, <3>1, <4>1 DEF At, ds_ck_fifo_spsc_isempty
    <3>4. QED
      BY <2>3, <3>2, <3>3
  <2>9. ASSUME NEW j \in 0 .. last, NEW k \in 0 .. last
        PROVE  Hop[j] # Null /\ (Hop[j] = Hop[k] => j = k)
    <3>1. Hop[j] # Null
      BY <2>3, <2>6
    <3>2. Hop[j] = Hop[k] => j + 1 = k + 1
      BY <2>2, <2>6 DEF ListOf
    <3>3. QED
      BY <2>4, <2>3, <3>1, <3>2
  <2>10. last \in 0 .. last /\ Hop[last] = s[Len(s)] /\ next[Hop[last]] = Null
    <3>1. last \in 0 .. last /\ last + 1 = Len(s) /\ Len(s) \in 1 .. Len(s)
      BY <2>3, <2>4
    <3>2. Hop[last] = s[Len(s)]
      BY <2>6, <3>1
    <3>3. next[s[Len(s)]] = At(s, Len(s) + 1) /\ At(s, Len(s) + 1) = Null
      BY <2>2, <2>3, <3>1 DEF ListOf, At
    <3>4. QED
      BY <3>1, <3>2, <3>3
  <2>11. tail = Hop[IF prod.pc = "tail" THEN last - 1 ELSE last]
    <3>1. CASE prod.pc = "tail"
      <4>1. Len(s) >= 2 /\ tail = s[Len(s) - 1]
        BY <2>2, <3>1 DEF ProducerOf, MarksOf, TailAt
      <4>2. last - 1 \in 0 .. last /\ (last - 1) + 1 = Len(s) - 1
        BY <2>3, <2>4, <4>1
      <4>3. QED
        BY <2>6, <3>1, <4>1, <4>2
    <3>2. CASE prod.pc # "tail"
      BY <2>2, <2>10, <3>2 DEF MarksOf, TailAt
    <3>3. QED
      BY <3>1, <3>2
  <2>12. \E a \in 0 .. last : \E b \in 0 .. a :
           /\ Hop[a] = head /\ Hop[b] = head_snapshot
           /\ last - a = Queued
           /\ \A k \in a + 1 .. last : /\ kv[Hop[k]] = accepted[Len(accepted) - (last - k)]
                                        /\ value[Hop[k]] = Hop[k]
    <3>1. PICK a, b : a = h - 1 /\ b = n - 1
      OBVIOUS
    <3>2. /\ a \in 0 .. last /\ b \in 0 .. a /\ b \in 0 .. last /\ a + 1 = h /\ b + 1 = n
          /\ last - a = Len(s) - h
      BY <2>3, <2>4, <3>1
    <3>3. Hop[a] = head /\ Hop[b] = head_snapshot
      BY <2>2, <2>6, <3>2 DEF MarksOf
    <3>4. ASSUME NEW k \in a + 1 .. last
          PROVE  /\ kv[Hop[k]] = accepted[Len(accepted) - (last - k)] /\ value[Hop[k]] = Hop[k]
      <4>1. k \in 0 .. last /\ k + 1 > h /\ Len(s) - (k + 1) = last - k
        BY <2>3, <2>4, <3>2
      <4>2. k + 1 \in 1 .. Len(s) /\ Hop[k] = s[k + 1]
        BY <2>6, <4>1
      <4>3. Index(s, k + 1) = Len(accepted) - (last - k)
        BY <4>1 DEF Index
      <4>4. QED
        BY <2>2, <4>1, <4>2, <4>3 DEF PairsOf
    <3>5. QED
      BY <2>7, <3>2, <3>3, <3>4
  <2>13. QED
    BY <2>8, <2>9, <2>10, <2>11, <2>12
<1>2. QED
  BY <1>1, FifoInvHolds, PTL

----------------------------------------------------------------------------
(* The list implements the abstract queue *)

ContentsShape ==
  /\ Contents \in Seq(Item) /\ Len(Contents) = Len(accepted) - Len(delivered)
  /\ \A i \in 1 .. Len(accepted) - Len(delivered) : Contents[i] = accepted[Len(delivered) + i]

LEMMA ContentsAre == FifoInv => ContentsShape
<1> SUFFICES ASSUME FifoInv PROVE ContentsShape
  OBVIOUS
<1>1. PICK s, h, n : ListInv(s, h, n)
  BY DEF FifoInv
<1>2. /\ accepted \in Seq(Item) /\ Len(accepted) \in Nat /\ Len(delivered) \in Nat
      /\ Len(delivered) <= Len(accepted) /\ Len(Contents) = Len(accepted) - Len(delivered)
  <2>1. FifoBounds /\ TypeOK /\ PairsOf(s, h)
    BY <1>1 DEF FifoInv, ListInv
  <2>2. QED
    BY <2>1, FifoTypes, QueuedIs DEF PairsOf
<1> DEFINE a == Len(delivered) + 1
           b == Len(accepted)
           q == SubSeq(accepted, a, b)
<1>3. a \in 1 .. b + 1 /\ b \in 0 .. b /\ a \in Nat /\ b \in Nat
  BY <1>2
<1>4. q \in Seq(Item) /\ \A i \in 1 .. b - a + 1 : q[i] = accepted[a + i - 1]
  BY <1>2, <1>3, SubSeqProperties
<1>5. \A i \in 1 .. b - Len(delivered) : i \in 1 .. b - a + 1 /\ a + i - 1 = Len(delivered) + i
  BY <1>2
<1>6. Contents = q
  BY DEF Contents
<1> HIDE DEF q, a
<1>7. QED
  BY <1>2, <1>4, <1>5, <1>6 DEF ContentsShape

LEMMA LinkInserts ==
  ASSUME FifoInv, ContentsShape, ContentsShape', InsertLink
  PROVE  \E x \in Item : Fifo!Insert(x)
<1>1. PICK s, h, n : ListInv(s, h, n)
  BY DEF FifoInv
<1>2. /\ FifoBounds /\ TypeOK /\ ListOf(s) /\ MarksOf(s, h, n) /\ PairsOf(s, h)
  BY <1>1 DEF FifoInv, ListInv
<1>3. PICK x : x = prod.pair
  OBVIOUS
<1>4. /\ accepted' = Append(accepted, x) /\ x \in Item /\ Away = 1 /\ delivered' = delivered
  BY <1>1, <1>3, LinkEffect
<1> DEFINE E == Len(accepted)
           D == Len(delivered)
           u == Contents
           v == Contents'
           w == Append(u, x)
<1>5. accepted \in Seq(Item) /\ E \in Nat /\ D \in Nat /\ D <= E
  BY <1>2, FifoTypes DEF PairsOf
<1>6. Len(accepted') = E + 1 /\ accepted'[E + 1] = x /\ \A i \in 1 .. E : accepted'[i] = accepted[i]
  BY <1>4, <1>5, Longer
<1>7. u \in Seq(Item) /\ Len(u) = E - D /\ \A i \in 1 .. E - D : u[i] = accepted[D + i]
  BY DEF ContentsShape
<1>8. v \in Seq(Item) /\ Len(v) = E + 1 - D /\ \A i \in 1 .. E + 1 - D : v[i] = accepted'[D + i]
  <2>1. /\ v \in Seq(Item) /\ Len(v) = Len(accepted') - Len(delivered')
        /\ \A i \in 1 .. Len(accepted') - Len(delivered') : v[i] = accepted'[Len(delivered') + i]
    BY DEF ContentsShape
  <2>2. Len(accepted') = E + 1 /\ Len(delivered') = D
    BY <1>4, <1>6
  <2> HIDE DEF v, E, D
  <2>3. Len(accepted') - Len(delivered') = E + 1 - D
    BY <1>5, <2>2
  <2>4. QED
    BY <2>1, <2>2, <2>3, Zenon
<1>9. E - D < MaxEntries + 1
  <2>1. /\ Len(s) \in Nat /\ h \in Nat /\ 1 <= h /\ allocated \in Nat /\ allocated <= MaxEntries
        /\ MaxEntries \in Nat
    BY <1>2, Positions, FifoTypes
  <2>2. Len(s) = allocated + 1 - 1 /\ Len(s) - h = E - D - Held /\ Held \in {0, 1}
    BY <1>2, <1>4, OneOrNone DEF ListOf, PairsOf
  <2> HIDE DEF E, D
  <2>3. QED
    BY <1>5, <2>1, <2>2
<1>10. SUFFICES v = w /\ Len(u) < MaxEntries + 1
  BY <1>4 DEF Fifo!Insert
<1> HIDE DEF u, v, E, D
<1>11. /\ w \in Seq(Item) /\ Len(w) = Len(u) + 1 /\ w[Len(u) + 1] = x
       /\ \A i \in 1 .. Len(u) : w[i] = u[i]
  BY <1>4, <1>7, Longer
<1> HIDE DEF w
<1>12. Len(v) = Len(w)
  BY <1>5, <1>7, <1>8, <1>11
<1>13. ASSUME NEW i \in 1 .. Len(v) PROVE v[i] = w[i]
  <2>1. i \in 1 .. E + 1 - D /\ v[i] = accepted'[D + i]
    BY <1>8
  <2>2. CASE i = Len(u) + 1
    <3>1. D + i = E + 1
      BY <1>5, <1>7, <2>2
    <3>2. QED
      BY <1>6, <1>11, <2>1, <2>2, <3>1
  <2>3. CASE i # Len(u) + 1
    <3>1. i \in 1 .. Len(u) /\ i \in 1 .. E - D /\ D + i \in 1 .. E
      BY <1>5, <1>7, <2>1, <2>3
    <3>2. QED
      BY <1>6, <1>7, <1>11, <2>1, <3>1
  <2>4. QED
    BY <2>2, <2>3
<1>14. v = w
  BY <1>8, <1>11, <1>12, <1>13, SeqEqual
<1>15. QED
  BY <1>7, <1>9, <1>14

LEMMA CopyPops ==
  ASSUME FifoInv, ContentsShape, ContentsShape', PopValue
  PROVE  Fifo!Pop
<1>1. PICK s, h, n : ListInv(s, h, n)
  BY DEF FifoInv
<1>2. /\ FifoBounds /\ TypeOK /\ ListOf(s) /\ MarksOf(s, h, n) /\ PairsOf(s, h) /\ ConsumerOf(s, h)
  BY <1>1 DEF FifoInv, ListInv
<1>3. PICK x : x = [key |-> cons.key, value |-> kv[cons.payload].value]
  OBVIOUS
<1>4. cons.pc = "value" /\ delivered' = Append(delivered, x) /\ accepted' = accepted
  BY <1>3 DEF PopValue
<1> DEFINE E == Len(accepted)
           D == Len(delivered)
           u == Contents
           v == Contents'
           w == Tail(u)
<1>5. /\ E \in Nat /\ D \in Nat /\ Len(s) \in Nat /\ h \in Nat /\ 1 <= h /\ h <= Len(s)
      /\ delivered \in Seq(Pair) /\ h \in 1 .. Len(s) /\ s[h] \in Entry /\ kv[s[h]] \in Pair
  <2>1. /\ Len(s) \in Nat /\ h \in Nat /\ 1 <= h /\ h <= Len(s)
        /\ \A k \in 1 .. Len(s) : s[k] \in Entry
    BY <1>2, Positions
  <2>2. h \in 1 .. Len(s)
    BY <2>1
  <2>3. QED
    BY <1>2, <2>1, <2>2, FifoTypes
<1>6. Copying /\ Held = 1 /\ cons.payload = s[h] /\ cons.key = kv[s[h]].key
  BY <1>2, <1>4 DEF ConsumerOf, Copying, Held
<1>7. Len(s) - h = E - D - 1 /\ kv[s[h]] = accepted[Index(s, h)]
  BY <1>2, <1>5, <1>6 DEF PairsOf
<1>8. x = kv[s[h]]
  BY <1>3, <1>5, <1>6 DEF Pair
<1>9. E - D >= 1 /\ Index(s, h) = D + 1
  <2>1. Index(s, h) = E - (Len(s) - h)
    BY DEF Index
  <2> HIDE DEF E, D
  <2>2. QED
    BY <1>5, <1>7, <2>1
<1>10. Len(delivered') = D + 1
  <2>1. x \in Pair
    BY <1>5, <1>8
  <2>2. QED
    BY <1>4, <1>5, <2>1
<1>11. u \in Seq(Item) /\ Len(u) = E - D /\ \A i \in 1 .. E - D : u[i] = accepted[D + i]
  BY DEF ContentsShape
<1>12. v \in Seq(Item) /\ Len(v) = E - (D + 1) /\ \A i \in 1 .. E - (D + 1) : v[i] = accepted[(D + 1) + i]
  BY <1>4, <1>10 DEF ContentsShape
<1>13. SUFFICES u # <<>> /\ v = w /\ x = Head(u)
  BY <1>4 DEF Fifo!Pop
<1> HIDE DEF u, v, E, D
<1>14. u # <<>> /\ Head(u) = u[1] /\ 1 \in 1 .. E - D /\ Len(u) >= 1
  BY <1>5, <1>9, <1>11
<1>15. /\ w \in Seq(Item) /\ Len(w) = Len(u) - 1 /\ \A i \in 1 .. Len(u) - 1 : w[i] = u[i + 1]
  BY <1>11, <1>14
<1> HIDE DEF w
<1>16. Len(v) = Len(w)
  BY <1>5, <1>11, <1>12, <1>15
<1>17. ASSUME NEW i \in 1 .. Len(v) PROVE v[i] = w[i]
  <2>1. /\ i \in 1 .. E - (D + 1) /\ i + 1 \in 1 .. E - D /\ i \in 1 .. Len(u) - 1
        /\ (D + 1) + i = D + (i + 1)
    BY <1>5, <1>11, <1>12
  <2>2. QED
    BY <1>11, <1>12, <1>15, <2>1
<1>18. v = w
  BY <1>12, <1>15, <1>16, <1>17, SeqEqual
<1>19. x = Head(u)
  BY <1>7, <1>8, <1>9, <1>11, <1>14
<1>20. QED
  BY <1>14, <1>18, <1>19

\* The list is a queue that loses, duplicates and reorders nothing: an insert takes
\* effect when the entry is linked, a pop when the pair has been copied out, recycled
\* entries or not.
THEOREM FifoImplementsQueue == Spec => ImplementsFifo
<1>1. Init => Fifo!Init
  <2> SUFFICES ASSUME Init PROVE Fifo!Init
    OBVIOUS
  <2>1. accepted = <<>> /\ delivered = <<>>
    BY DEF Init
  <2>2. Contents = <<>>
    BY <2>1 DEF Contents
  <2>3. QED
    BY <2>1, <2>2 DEF Fifo!Init
<1>2. FifoInv /\ ContentsShape /\ ContentsShape' /\ [Next]_vars
        => [Fifo!Next]_<<Contents, delivered>>
  <2> SUFFICES ASSUME FifoInv, ContentsShape, ContentsShape', [Next]_vars
               PROVE  Fifo!Next \/ UNCHANGED <<Contents, delivered>>
    OBVIOUS
  <2>1. CASE InsertLink
    BY <2>1, LinkInserts DEF Fifo!Next
  <2>2. CASE PopValue
    BY <2>2, CopyPops DEF Fifo!Next
  <2>3. CASE ~InsertLink /\ ~PopValue
    <3>1. UNCHANGED <<accepted, delivered>>
      BY <2>3 DEF Next, ds_ck_fifo_spsc_insert, InsertRecycle, InsertFresh, InsertNoMemory,
         InsertStep, InsertKey, InsertValue, InsertPrepare, InsertTail,
         ds_ck_fifo_spsc_pop, PopEmpty, PopNext, PopPayload, PopAdvance, PopKey,
         MainJoin, ds_ck_fifo_spsc_verify, VerifyHead, VerifyTail, VerifyNext,
         VerifyDone, vars
    <3>2. QED
      BY <3>1 DEF Contents
  <2>4. QED
    BY <2>1, <2>2, <2>3
<1>3. QED
  BY <1>1, <1>2, ContentsAre, FifoInvHolds, PTL DEF Spec, ImplementsFifo, Fifo!Spec
=============================================================================
