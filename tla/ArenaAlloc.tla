---------------------------- MODULE ArenaAlloc -----------------------------
(***************************************************************************)
(* The two allocators of libarena_ds.h on the pages of one arena.  In the  *)
(* kernel every CPU bumps an offset down through a page of its own; in     *)
(* user space all threads do so, under a spin lock, through the pages of a *)
(* range that main hands over.  The last cell of a page counts its         *)
(* objects.  Either side frees objects of both: the kernel gives a page    *)
(* back when its counter drops to zero, user space only counts.            *)
(*                                                                         *)
(* Memory is cells: page p has cells p * PageCells .. p * PageCells + Slots,*)
(* the last of them the counter.  The kernel programs are sleepable and    *)
(* preemptible, so several tasks can be inside the allocator of one CPU:   *)
(* every load and store of what they share is a step of its own.  What     *)
(* callers store in an object is not modelled.                             *)
(***************************************************************************)
EXTENDS Integers, FiniteSets

CONSTANTS KernelTask, UserTask, Cpu,
          NPages,          \* pages of the arena
          NGlobals,        \* its first pages, which hold the __arena globals
          Slots,           \* cells of a page before its counter
          Sizes,           \* sizes callers ask for, in cells
          Modulus,         \* 2^32 of unsigned int and 2^64 of the counters
          MaxAllocs        \* bound: allocations in a behaviour

ASSUME PageAssumption == NPages \in Nat /\ NGlobals \in 1 .. NPages
ASSUME CellAssumption ==
  /\ Slots \in Nat \ {0} /\ Sizes \subseteq Nat \ {0}
  /\ Modulus \in Nat /\ Modulus > Slots

\* no behaviour allocates as often as a 64-bit counter can count
ASSUME BoundAssumption == MaxAllocs \in Nat /\ MaxAllocs < Modulus
ASSUME TaskAssumption == IsFiniteSet(KernelTask) /\ IsFiniteSet(UserTask)
ASSUME OwnerAssumption == "user" \notin Cpu /\ "globals" \notin Cpu

NoPage == -1
PageCells == Slots + 1
Page == 0 .. NPages - 1
GlobalPages == 0 .. NGlobals - 1
Task == KernelTask \cup UserTask

\* addr & ~(PAGE_SIZE - 1)
PageOf(addr) == addr \div PageCells

VARIABLES
  cpuOf,                   \* the CPU each kernel task runs on
  mapped, cnt,             \* pages in use as the kernel sees it, and the counters in them
  curPage, curOffset,      \* page_frag_cur_page, page_frag_cur_offset
  nextPage, userPage, userOffset, lock,    \* bpf_arena_userspace_*
  task,                    \* a call: step, page, size, object counter it has read, offset, number
                           \* (in a refill, offset is history: the one the new page comes with)
  live,                    \* objects in use: address, size, page they were cut from, owner
  allocs,                  \* history: allocations
  doubled,                 \* history: pages handed out again, or freed, under their owner
  skewed,                  \* history: pages whose counter lost an update or a free that was
                           \* charged to another page
  torn                     \* history: pages whose offset lost an update or was replaced

kernelVars == <<curPage, curOffset>>
userVars == <<nextPage, userPage, userOffset, lock>>
pageVars == <<mapped, cnt>>
histVars == <<doubled, skewed, torn>>
arenaVars == <<cpuOf, pageVars, kernelVars, userVars, task, live, allocs, histVars>>

Idle == [pc |-> "idle", page |-> NoPage, size |-> 0, seen |-> 0, offset |-> 0, id |-> 0]

\* The globals, as objects nobody frees.
Globals == {[addr |-> p * PageCells, size |-> PageCells, page |-> p, owner |-> "globals",
             id |-> 0] : p \in GlobalPages}

\* setup_userspace_allocator: the range of user space starts one page into the
\* arena and ends with it
RangeStart == 1

\* bpf_arena_userspace_set_range; no page has been cut yet
ArenaInit ==
  /\ cpuOf \in [KernelTask -> Cpu]
  /\ mapped = GlobalPages /\ cnt = [p \in Page |-> 0]
  /\ curPage = [c \in Cpu |-> NoPage] /\ curOffset = [c \in Cpu |-> 0]
  /\ nextPage = RangeStart /\ userPage = NoPage /\ userOffset = 0 /\ lock = FALSE
  /\ task = [t \in Task |-> Idle]
  /\ live = {} /\ allocs = 0 /\ doubled = {} /\ skewed = {} /\ torn = {}

\* A load and a store of the counter of a page.  When the page is not there they
\* yield 0 and go nowhere in the kernel; in user space they bring in a zeroed page.
Counter(p) == IF p \in mapped THEN cnt[p] ELSE 0
Touched(t, p) == IF t \in UserTask THEN mapped \cup {p} ELSE mapped
SetCounter(t, p, n) ==
  /\ mapped' = Touched(t, p)
  /\ cnt' = IF p \in mapped' THEN [cnt EXCEPT ![p] = n] ELSE cnt

\* --(*obj_cnt), unsigned
Decrement(n) == (n - 1) % Modulus

\* Mutant of Increment: the object is not counted.
MutantIncrement(n) == n

\* (*obj_cnt)++
Increment(n) == (n + 1) % Modulus

\* The counter has changed since this call read it, and it stores all the same.
Skews(t) == skewed \cup {p \in {task[t].page} : Counter(p) # task[t].seen}
----------------------------------------------------------------------------
(* bpf_arena_alloc in the kernel *)

\* *cur_offset - size < 0, in unsigned arithmetic
Exhausted(offset, size) == (offset - size) % Modulus < 0

\* size >= PAGE_SIZE - 8 returns NULL
TooLarge(size) == size >= Slots

\* The current page of the CPU is read, and whether it will do is decided.
KernelAllocBegin(t, size) ==
  LET c == cpuOf[t]
      full == curPage[c] = NoPage \/ Exhausted(curOffset[c], size)
  IN  /\ task[t].pc = "idle" /\ allocs < MaxAllocs /\ ~TooLarge(size)
      /\ allocs' = allocs + 1
      /\ task' = [task EXCEPT ![t] = [Idle EXCEPT !.pc = IF full THEN "refill" ELSE "offset",
                                        !.page = curPage[c], !.size = size, !.id = allocs']]
      /\ UNCHANGED <<cpuOf, pageVars, kernelVars, userVars, live, histVars>>

\* bpf_arena_refill_page: bpf_arena_alloc_pages hands over a zeroed page, or the
\* answer is NULL.
KernelRefill(t) ==
  /\ task[t].pc = "refill"
  /\ \/ \E p \in Page \ mapped :
          /\ mapped' = mapped \cup {p} /\ cnt' = [cnt EXCEPT ![p] = 0]
          /\ task' = [task EXCEPT ![t].pc = "setPage", ![t].page = p]
     \/ /\ task' = [task EXCEPT ![t] = Idle]
        /\ UNCHANGED pageVars
  /\ UNCHANGED <<cpuOf, kernelVars, userVars, live, allocs, histVars>>

\* The page becomes the current one, whatever other tasks of the CPU have made of
\* the current one meanwhile.  For now it comes with the offset of the old one.
KernelSetPage(t) ==
  LET c == cpuOf[t]
  IN  /\ task[t].pc = "setPage"
      /\ curPage' = [curPage EXCEPT ![c] = task[t].page]
      /\ torn' = torn \cup ({curPage[c]} \ {NoPage})
      /\ task' = [task EXCEPT ![t].pc = "setOffset", ![t].offset = curOffset[c]]
      /\ UNCHANGED <<cpuOf, pageVars, curOffset, userVars, live, allocs, doubled, skewed>>

\* The offset becomes that of an empty page.  Another task may have cut from the
\* page by now, or have put a page of its own in its place.
KernelSetOffset(t) ==
  LET c == cpuOf[t]
  IN  /\ task[t].pc = "setOffset"
      /\ curOffset' = [curOffset EXCEPT ![c] = Slots]
      /\ torn' = torn \cup {p \in {task[t].page, curPage[c]} :
                            curPage[c] # task[t].page \/ curOffset[c] # task[t].offset}
      /\ task' = [task EXCEPT ![t].pc = "setCount"]
      /\ UNCHANGED <<cpuOf, pageVars, curPage, userVars, live, allocs, doubled, skewed>>

\* *obj_cnt = 0, over what another task may have counted already.  The build loads
\* *cur_offset again afterwards, or goes on with the value it has just stored.
KernelSetCount(t) ==
  /\ task[t].pc = "setCount"
  /\ SetCounter(t, task[t].page, 0)
  /\ skewed' = skewed \cup {p \in {task[t].page} : Counter(p) # 0}
  /\ \/ task' = [task EXCEPT ![t].pc = "offset"]
     \/ task' = [task EXCEPT ![t].pc = "count", ![t].offset = Slots - task[t].size]
  /\ UNCHANGED <<cpuOf, kernelVars, userVars, live, allocs, doubled, torn>>

\* offset = *cur_offset - size
KernelAllocOffset(t) ==
  /\ task[t].pc = "offset"
  /\ task' = [task EXCEPT ![t].pc = "count", ![t].offset = curOffset[cpuOf[t]] - task[t].size]
  /\ UNCHANGED <<cpuOf, pageVars, kernelVars, userVars, live, allocs, histVars>>

\* (*obj_cnt)++: the load
KernelAllocCount(t) ==
  /\ task[t].pc = "count"
  /\ task' = [task EXCEPT ![t].pc = "store", ![t].seen = Counter(task[t].page)]
  /\ UNCHANGED <<cpuOf, pageVars, kernelVars, userVars, live, allocs, histVars>>

\* (*obj_cnt)++: the store
KernelAllocStore(t) ==
  /\ task[t].pc = "store"
  /\ SetCounter(t, task[t].page, Increment(task[t].seen))
  /\ skewed' = Skews(t)
  /\ task' = [task EXCEPT ![t].pc = "cut"]
  /\ UNCHANGED <<cpuOf, kernelVars, userVars, live, allocs, doubled, torn>>

\* The offset has changed since this call read it, and it stores all the same.
Tears(t) ==
  torn \cup {p \in {task[t].page, curPage[cpuOf[t]]} :
              curOffset[cpuOf[t]] # task[t].offset + task[t].size}

Object(t, owner) ==
  [addr |-> task[t].page * PageCells + task[t].offset, size |-> task[t].size,
   page |-> task[t].page, owner |-> owner, id |-> task[t].id]

\* Mutant of KernelAllocCut: the new offset is not stored.
MutantKernelAllocCut(t) ==
  /\ task[t].pc = "cut"
  /\ live' = live \cup {Object(t, cpuOf[t])}
  /\ torn' = Tears(t)
  /\ task' = [task EXCEPT ![t] = Idle]
  /\ UNCHANGED <<cpuOf, pageVars, kernelVars, userVars, allocs, doubled, skewed>>

\* *cur_offset = offset, return page + offset
KernelAllocCut(t) ==
  /\ task[t].pc = "cut"
  /\ curOffset' = [curOffset EXCEPT ![cpuOf[t]] = task[t].offset]
  /\ live' = live \cup {Object(t, cpuOf[t])}
  /\ torn' = Tears(t)
  /\ task' = [task EXCEPT ![t] = Idle]
  /\ UNCHANGED <<cpuOf, pageVars, curPage, userVars, allocs, doubled, skewed>>
----------------------------------------------------------------------------
(* bpf_arena_alloc in user space *)

\* Mutant of UserNeedsPage: only an offset of zero counts as exhausted.
MutantUserNeedsPage(size) == userPage = NoPage \/ userOffset = 0

UserNeedsPage(size) == userPage = NoPage \/ userOffset < size

\* The lock is taken; the current page is used, or the next one of the range with
\* its counter set to zero.
UserAllocBegin(t, size) ==
  /\ task[t].pc = "idle" /\ ~lock /\ allocs < MaxAllocs /\ ~TooLarge(size)
  /\ allocs' = allocs + 1
  /\ IF UserNeedsPage(size)
     THEN /\ nextPage \in Page
          /\ nextPage' = nextPage + 1
          /\ userPage' = nextPage /\ userOffset' = Slots
          /\ doubled' = doubled \cup ({nextPage} \cap mapped)
          /\ SetCounter(t, nextPage, 0)
     ELSE UNCHANGED <<pageVars, nextPage, userPage, userOffset, doubled>>
  /\ lock' = TRUE
  /\ task' = [task EXCEPT ![t] = [Idle EXCEPT !.pc = "ucount", !.page = userPage', !.size = size,
                                             !.offset = userOffset' - size, !.id = allocs']]
  /\ UNCHANGED <<cpuOf, kernelVars, live, skewed, torn>>

\* (*obj_cnt)++: the load
UserAllocCount(t) ==
  /\ task[t].pc = "ucount"
  /\ mapped' = Touched(t, task[t].page)
  /\ task' = [task EXCEPT ![t].pc = "ustore", ![t].seen = Counter(task[t].page)]
  /\ UNCHANGED <<cpuOf, cnt, kernelVars, userVars, live, allocs, histVars>>

\* (*obj_cnt)++: the store; then the offset and the unlock, which concern only
\* callers that wait for the lock
UserAllocStore(t) ==
  /\ task[t].pc = "ustore"
  /\ SetCounter(t, task[t].page, Increment(task[t].seen))
  /\ userOffset' = task[t].offset
  /\ lock' = FALSE
  /\ live' = live \cup {Object(t, "user")}
  /\ skewed' = Skews(t)
  /\ task' = [task EXCEPT ![t] = Idle]
  /\ UNCHANGED <<cpuOf, kernelVars, nextPage, userPage, allocs, doubled, torn>>
----------------------------------------------------------------------------
(* bpf_arena_free, of an object that its caller no longer uses *)

\* The load of *obj_cnt of the page the address lies in; user space leaves a
\* counter of zero alone.
FreeBegin(t, o) ==
  /\ task[t].pc = "idle" /\ o \in live /\ PageOf(o.addr) \in Page
  /\ live' = live \ {o}
  /\ LET p == PageOf(o.addr)
     IN  /\ task' = IF t \in UserTask /\ Counter(p) = 0 THEN task
                    ELSE [task EXCEPT ![t] = [Idle EXCEPT !.pc = "free", !.page = p, !.seen = Counter(p)]]
         /\ mapped' = Touched(t, p)
         /\ skewed' = skewed \cup {q \in {p, o.page} : p # o.page}
  /\ UNCHANGED <<cpuOf, cnt, kernelVars, userVars, allocs, doubled, torn>>

\* Mutant of LastObject: the page is given back one object early.
MutantLastObject(n) == n <= 1

LastObject(n) == n = 0

\* The steps of an allocation that has its page.
Holding == {"setPage", "setOffset", "setCount", "offset", "count", "store", "cut", "ucount", "ustore"}

\* The pages objects are cut from, now or by a call that is under way.
Current ==
  {userPage} \cup {curPage[c] : c \in Cpu} \cup {task[u].page : u \in {u \in Task : task[u].pc \in Holding}}

\* --(*obj_cnt): the store.  In the kernel a counter of zero condemns the page,
\* even one that is still cut from.
FreeStore(t) ==
  LET p == task[t].page
      n == Decrement(task[t].seen)
      last == t \in KernelTask /\ LastObject(n)
  IN  /\ task[t].pc = "free"
      /\ SetCounter(t, p, n)
      /\ skewed' = Skews(t)
      /\ doubled' = IF last THEN doubled \cup ({p} \cap Current) ELSE doubled
      /\ task' = IF last THEN [task EXCEPT ![t].pc = "release"] ELSE [task EXCEPT ![t] = Idle]
      /\ UNCHANGED <<cpuOf, kernelVars, userVars, live, allocs, torn>>

\* bpf_arena_free_pages
FreeRelease(t) ==
  LET p == task[t].page
  IN  /\ task[t].pc = "release"
      /\ mapped' = mapped \ {p} /\ cnt' = [cnt EXCEPT ![p] = 0]
      /\ task' = [task EXCEPT ![t] = Idle]
      /\ UNCHANGED <<cpuOf, kernelVars, userVars, live, allocs, histVars>>
----------------------------------------------------------------------------
ArenaNext ==
  \/ \E t \in KernelTask :
       \/ \E size \in Sizes : KernelAllocBegin(t, size)
       \/ KernelRefill(t) \/ KernelSetPage(t) \/ KernelSetOffset(t) \/ KernelSetCount(t)
       \/ KernelAllocOffset(t) \/ KernelAllocCount(t) \/ KernelAllocStore(t) \/ KernelAllocCut(t)
  \/ \E t \in UserTask :
       \/ \E size \in Sizes : UserAllocBegin(t, size)
       \/ UserAllocCount(t) \/ UserAllocStore(t)
  \/ \E t \in Task :
       \/ \E o \in live : FreeBegin(t, o)
       \/ FreeStore(t) \/ FreeRelease(t)

ArenaSpec == ArenaInit /\ [][ArenaNext]_arenaVars
----------------------------------------------------------------------------
(* Properties *)

CallRecord ==
  [pc : Holding \cup {"idle", "refill", "free", "release"}, page : Page \cup {NoPage},
   size : Nat, seen : Nat, offset : Int, id : 0 .. MaxAllocs]

ObjectRecord ==
  [addr : Int, size : Sizes, page : Page, owner : Cpu \cup {"user"}, id : 1 .. MaxAllocs]

\* Type invariant.
ArenaTypeOK ==
  /\ cpuOf \in [KernelTask -> Cpu]
  /\ mapped \subseteq Page /\ cnt \in [Page -> 0 .. Modulus - 1]
  /\ curPage \in [Cpu -> Page \cup {NoPage}] /\ curOffset \in [Cpu -> Int]
  /\ nextPage \in Nat /\ userPage \in Page \cup {NoPage} /\ userOffset \in 0 .. Slots /\ lock \in BOOLEAN
  /\ task \in [Task -> CallRecord] /\ live \subseteq ObjectRecord
  /\ allocs \in 0 .. MaxAllocs /\ doubled \subseteq Page
  /\ skewed \subseteq Page /\ torn \subseteq Page

Overlap(a, b) == a # b /\ a.addr < b.addr + b.size /\ b.addr < a.addr + a.size
Inside(o) == o.page * PageCells <= o.addr /\ o.addr + o.size <= o.page * PageCells + Slots

\* What the comment in bpf_arena_alloc says of the page it cuts an object from:
\* it has sufficient space.
SufficientSpace == \A o \in live : o.owner # "user" => Inside(o)

\* Objects from the user space allocator lie inside their page, clear of its
\* counter, and apart from each other, whatever threads allocate and whatever is
\* freed by either side.
UserObjectsDisjoint ==
  /\ ArenaTypeOK
  /\ \A a \in live : a.owner = "user" =>
    Inside(a) /\ \A b \in live : b.owner = "user" => ~Overlap(a, b)

\* Two objects overlap for one of three reasons: a CPU ran out of its page and
\* went on below it; two tasks were in the allocator of one CPU; or the page was
\* handed to a second owner, because user space took a page that was in use or a
\* free gave back one that somebody still cut objects from or that was miscounted.
OverlapsExplained ==
  \A a, b \in live \cup Globals : Overlap(a, b) =>
    \/ ~Inside(a) /\ a \notin Globals
    \/ ~Inside(b) /\ b \notin Globals
    \/ a.owner = b.owner /\ a.page \in torn
    \/ a.owner # b.owner /\ a.page \in doubled \cup skewed

Trusted(p) == p \notin doubled \cup skewed

\* The counter of a page that no such accident has befallen is the number of its
\* objects, those included that are just being freed or have been counted and are
\* about to be cut.
CountersExact ==
  \A p \in Page : Trusted(p) =>
    cnt[p] = Cardinality({o \in live : o.page = p}) +
             Cardinality({t \in Task : task[t].pc \in {"free", "cut"} /\ task[t].page = p})

\* The kernel never gives back a page under an object that is in use or a call
\* that is about to cut one, whatever has happened since the counter dropped to
\* zero, unless the page met with such an accident before.
FreedPagesUnused ==
  [][\A p \in mapped \ mapped' : Trusted(p) =>
       /\ \A o \in live : o.page # p
       /\ \A t \in Task : task[t].pc \in Holding => task[t].page # p]_arenaVars
=============================================================================
