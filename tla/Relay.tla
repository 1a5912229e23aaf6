------------------------------- MODULE Relay -------------------------------
(***************************************************************************)
(* The two-lane relay every skeleton_<ds> program is built around:         *)
(*                                                                         *)
(*   inode_create hook (any CPU) --KU--> relay thread --UK--> uprobe       *)
(*                                                                         *)
(* with the lazy initialisation of the lanes, the shutdown on SIGINT and   *)
(* the drain of the UK lane by the main thread.  A lane is an abstract     *)
(* bounded queue (FifoQueue), or a stack (LifoStack) in the programs built *)
(* on the CK stack and on kcov: its insert and pop are single steps, which *)
(* the modules of the structures are shown to implement; calls that run    *)
(* beside others may also fail, and then change nothing.  Counters that    *)
(* are only printed are left out; total_kernel_consumed is Len(consumed).  *)
(***************************************************************************)
EXTENDS Integers, Sequences

CONSTANTS Cpu,           \* processors that may be inside the hook at once
          KuCapacity, UkCapacity,
          DrainSlack,    \* the 1024 extra attempts of the drain loop
          MaxCalls       \* bound: files created in a behaviour

ASSUME CapacityAssumption == KuCapacity \in Nat \ {0} /\ UkCapacity \in Nat \ {0}
ASSUME BoundsAssumption == DrainSlack \in Nat /\ MaxCalls \in Nat

VARIABLES
  lifo,                        \* the lanes of this program are stacks
  initialized_ku,              \* the hook's flag (bss)
  ku_ready, ku,                \* KU lane: its pointers are set; its items, next to pop first
  uk_ready, uk,                \* UK lane
  hook,                        \* step of each CPU's hook
  rpc, uk_initialized, hand,   \* relay thread: step, local flag, the item it carries
  uk_enqueued_count,
  stop_test,
  mpc, target, attempts,       \* main thread: step, target_consumed, attempts
  calls, accepted,             \* history: hook calls, successful KU inserts
  consumed, dropped            \* history: items the uprobe popped; items UK refused

laneVars == <<lifo, ku_ready, ku, uk_ready, uk>>
hookVars == <<initialized_ku, hook, calls, accepted>>
relayVars == <<rpc, uk_initialized, hand, uk_enqueued_count, dropped>>
mainVars == <<mpc, target, attempts, consumed>>
vars == <<laneVars, hookVars, relayVars, mainVars, stop_test>>

Init ==
  /\ lifo \in BOOLEAN
  /\ initialized_ku = FALSE
  /\ ku_ready = FALSE /\ ku = <<>> /\ uk_ready = FALSE /\ uk = <<>>
  /\ hook = [h \in Cpu |-> "idle"]
  /\ rpc = "wait" /\ uk_initialized = FALSE /\ hand = <<>> /\ uk_enqueued_count = 0
  /\ stop_test = FALSE
  /\ mpc = "check" /\ target = 0 /\ attempts = 0
  /\ calls = 0 /\ accepted = 0 /\ consumed = <<>> /\ dropped = {}

\* What insert makes of a lane.
Put(lane, item) == IF lifo THEN <<item>> \o lane ELSE Append(lane, item)
----------------------------------------------------------------------------
(* lsm_inode_create, on any CPU until the program is detached at exit.
   Items are numbered in the order in which the KU lane accepts them.    *)

\* if (!initialized_ku): a plain load, nothing keeps another CPU out
HookEnter(h) ==
  /\ hook[h] = "idle" /\ mpc # "exited"
  /\ calls < MaxCalls
  /\ calls' = calls + 1
  /\ hook' = [hook EXCEPT ![h] = IF initialized_ku THEN "insert" ELSE "init"]
  /\ UNCHANGED <<laneVars, relayVars, mainVars, stop_test, initialized_ku, accepted>>

\* The lane's init: whatever was in it is forgotten.  It is one step, and so is every
\* call on a lane: a call that is under way on the structure that is being replaced
\* takes effect before this step or after it.
HookInit(h) ==
  /\ hook[h] = "init"
  /\ hook' = [hook EXCEPT ![h] = "flag"]
  /\ ku_ready' = TRUE /\ ku' = <<>>
  /\ UNCHANGED <<lifo, uk_ready, uk, relayVars, mainVars, stop_test, initialized_ku, calls, accepted>>

\* init found no memory: total_kernel_prod_failures++; return 0
HookInitFails(h) ==
  /\ hook[h] = "init"
  /\ hook' = [hook EXCEPT ![h] = "idle"]
  /\ UNCHANGED <<laneVars, relayVars, mainVars, stop_test, initialized_ku, calls, accepted>>

\* initialized_ku = true
HookFlag(h) ==
  /\ hook[h] = "flag"
  /\ hook' = [hook EXCEPT ![h] = "insert"]
  /\ initialized_ku' = TRUE
  /\ UNCHANGED <<laneVars, relayVars, mainVars, stop_test, calls, accepted>>

\* insert into KU succeeds
HookInsert(h) ==
  /\ hook[h] = "insert"
  /\ Len(ku) < KuCapacity
  /\ ku' = Put(ku, accepted + 1)
  /\ accepted' = accepted + 1
  /\ hook' = [hook EXCEPT ![h] = "idle"]
  /\ UNCHANGED <<lifo, ku_ready, uk_ready, uk, relayVars, mainVars, stop_test, initialized_ku, calls>>

\* insert fails, with a full lane or out of retries or memory:
\* total_kernel_prod_failures++
HookRefused(h) ==
  /\ hook[h] = "insert"
  /\ hook' = [hook EXCEPT ![h] = "idle"]
  /\ UNCHANGED <<laneVars, relayVars, mainVars, stop_test, initialized_ku, calls, accepted>>

lsm_inode_create(h) ==
  HookEnter(h) \/ HookInit(h) \/ HookInitFails(h) \/ HookFlag(h) \/ HookInsert(h) \/ HookRefused(h)
----------------------------------------------------------------------------
(* relay_worker *)

\* the lane's pointers are set and stop_test is still clear
RelayReady ==
  /\ rpc = "wait" /\ ~stop_test /\ ku_ready
  /\ rpc' = "loop"
  /\ UNCHANGED <<laneVars, hookVars, mainVars, stop_test, uk_initialized, hand,
                 uk_enqueued_count, dropped>>

\* Mutant of RelayStop: the wait for the KU lane does not look at stop_test.
MutantRelayStop ==
  /\ rpc = "loop" /\ stop_test
  /\ rpc' = "done"
  /\ UNCHANGED <<laneVars, hookVars, mainVars, stop_test, uk_initialized, hand,
                 uk_enqueued_count, dropped>>

\* stop_test seen at the head of either loop: return NULL
RelayStop ==
  /\ rpc \in {"wait", "loop"} /\ stop_test
  /\ rpc' = "done"
  /\ UNCHANGED <<laneVars, hookVars, mainVars, stop_test, uk_initialized, hand,
                 uk_enqueued_count, dropped>>

\* Mutant of RelayLoop: initialises UK again on every round.
MutantRelayLoop ==
  /\ rpc = "loop" /\ ~stop_test
  /\ rpc' = "pop"
  /\ uk_initialized' = TRUE
  /\ uk_ready' = TRUE
  /\ uk' = <<>>
  /\ UNCHANGED <<lifo, ku_ready, ku, hookVars, mainVars, stop_test, hand, uk_enqueued_count, dropped>>

\* Head of the loop body: initialise UK the first time; a failed init leaves the
\* thread where it is, and it tries again.
RelayLoop ==
  /\ rpc = "loop" /\ ~stop_test
  /\ rpc' = "pop"
  /\ uk_initialized' = TRUE
  /\ uk_ready' = TRUE
  /\ uk' = IF uk_ready THEN uk ELSE <<>>
  /\ UNCHANGED <<lifo, ku_ready, ku, hookVars, mainVars, stop_test, hand, uk_enqueued_count, dropped>>

\* pop from KU: DS_SUCCESS
RelayPop ==
  /\ rpc = "pop" /\ ku # <<>>
  /\ rpc' = "insert"
  /\ hand' = <<Head(ku)>> /\ ku' = Tail(ku)
  /\ UNCHANGED <<lifo, ku_ready, uk_ready, uk, hookVars, mainVars, stop_test, uk_initialized,
                 uk_enqueued_count, dropped>>

\* pop from KU: nothing there, or a hook still inside insert kept it from finding
\* it (DS_ERROR_NOT_FOUND, _INVALID, _BUSY); continue
RelayEmpty ==
  /\ rpc = "pop"
  /\ rpc' = "loop"
  /\ UNCHANGED <<laneVars, hookVars, mainVars, stop_test, uk_initialized, hand,
                 uk_enqueued_count, dropped>>

\* Mutant of RelayInsert: repeats an insert that has already succeeded.
MutantRelayInsert ==
  /\ rpc = "insert" /\ Len(uk) < UkCapacity
  /\ uk' = Put(uk, Head(hand))
  /\ uk_enqueued_count' = uk_enqueued_count + 1
  /\ UNCHANGED <<lifo, ku_ready, ku, uk_ready, hookVars, mainVars, stop_test, rpc, hand,
                 uk_initialized, dropped>>

\* insert into UK: DS_SUCCESS
RelayInsert ==
  /\ rpc = "insert" /\ Len(uk) < UkCapacity
  /\ rpc' = "loop"
  /\ uk' = Put(uk, Head(hand)) /\ hand' = <<>>
  /\ uk_enqueued_count' = uk_enqueued_count + 1
  /\ UNCHANGED <<lifo, ku_ready, ku, uk_ready, hookVars, mainVars, stop_test, uk_initialized, dropped>>

\* insert into UK fails, with a full lane or no memory: the item is forgotten
RelayDrop ==
  /\ rpc = "insert"
  /\ rpc' = "loop"
  /\ dropped' = dropped \cup {Head(hand)} /\ hand' = <<>>
  /\ UNCHANGED <<laneVars, hookVars, mainVars, stop_test, uk_initialized, uk_enqueued_count>>

relay_worker ==
  RelayReady \/ RelayStop \/ RelayLoop \/ RelayPop \/ RelayEmpty \/ RelayInsert \/ RelayDrop
----------------------------------------------------------------------------
(* signal_handler, and main from the moment the relay thread runs *)

\* SIGINT or SIGTERM; pause() returns after the handler ran
SigInt ==
  /\ stop_test' = TRUE
  /\ mpc' = IF mpc = "paused" THEN "check" ELSE mpc
  /\ UNCHANGED <<laneVars, hookVars, relayVars, target, attempts, consumed>>

\* while (!stop_test)
MainCheck ==
  /\ mpc = "check"
  /\ mpc' = IF stop_test THEN "join" ELSE "pause"
  /\ UNCHANGED <<laneVars, hookVars, relayVars, stop_test, target, attempts, consumed>>

\* pause()
MainPause ==
  /\ mpc = "pause"
  /\ mpc' = "paused"
  /\ UNCHANGED <<laneVars, hookVars, relayVars, stop_test, target, attempts, consumed>>

\* Mutant of MainJoin: the drain starts without waiting for the relay thread.
MutantMainJoin ==
  /\ mpc = "join"
  /\ mpc' = "drain"
  /\ target' = Len(consumed) + uk_enqueued_count
  /\ attempts' = 0
  /\ UNCHANGED <<laneVars, hookVars, relayVars, stop_test, consumed>>

\* pthread_join, then the first lines of trigger_kernel_consumer_on_exit
MainJoin ==
  /\ mpc = "join" /\ rpc = "done"
  /\ mpc' = "drain"
  /\ target' = Len(consumed) + uk_enqueued_count
  /\ attempts' = 0
  /\ UNCHANGED <<laneVars, hookVars, relayVars, stop_test, consumed>>

\* The consume uprobe, run synchronously by a call of the trigger function.
KernelConsume ==
  \/ /\ uk_ready /\ uk # <<>>
     /\ uk' = Tail(uk) /\ consumed' = Append(consumed, Head(uk))
  \/ /\ ~uk_ready \/ uk = <<>>
     /\ UNCHANGED <<uk, consumed>>

\* Nothing was relayed: one trigger only.
MainTriggerOnce ==
  /\ mpc = "drain" /\ uk_enqueued_count = 0
  /\ KernelConsume
  /\ mpc' = "report"
  /\ UNCHANGED <<lifo, ku_ready, ku, uk_ready, hookVars, relayVars, stop_test, target, attempts>>

\* attempts < max_attempts && total_kernel_consumed < target_consumed
Draining == attempts < uk_enqueued_count + DrainSlack /\ Len(consumed) < target

MainTrigger ==
  /\ mpc = "drain" /\ uk_enqueued_count # 0 /\ Draining
  /\ KernelConsume
  /\ attempts' = attempts + 1
  /\ UNCHANGED <<lifo, ku_ready, ku, uk_ready, hookVars, relayVars, stop_test, mpc, target>>

MainDrained ==
  /\ mpc = "drain" /\ uk_enqueued_count # 0 /\ ~Draining
  /\ mpc' = "report"
  /\ UNCHANGED <<laneVars, hookVars, relayVars, stop_test, target, attempts, consumed>>

\* verification and statistics only read; then the programs are detached
MainExit ==
  /\ mpc = "report"
  /\ mpc' = "exited"
  /\ UNCHANGED <<laneVars, hookVars, relayVars, stop_test, target, attempts, consumed>>

main == MainCheck \/ MainPause \/ MainJoin \/ MainTriggerOnce \/ MainTrigger \/ MainDrained \/ MainExit
----------------------------------------------------------------------------
Next == (\E h \in Cpu : lsm_inode_create(h)) \/ relay_worker \/ main \/ SigInt

Spec == Init /\ [][Next]_vars

\* The scheduler runs both threads of the process.
FairSpec == Spec /\ WF_vars(relay_worker) /\ WF_vars(main)

\* A user who presses Ctrl+C again as long as the program is there.
InsistentSpec == FairSpec /\ WF_vars(SigInt)
----------------------------------------------------------------------------
(* Properties *)

\* Type invariant.
TypeOK ==
  /\ lifo \in BOOLEAN /\ initialized_ku \in BOOLEAN /\ ku_ready \in BOOLEAN /\ uk_ready \in BOOLEAN
  /\ ku \in Seq(Nat) /\ uk \in Seq(Nat)
  /\ hook \in [Cpu -> {"idle", "init", "flag", "insert"}]
  /\ rpc \in {"wait", "loop", "pop", "insert", "done"}
  /\ uk_initialized \in BOOLEAN /\ stop_test \in BOOLEAN
  /\ hand \in Seq(Nat)
  /\ rpc = "insert" => Len(hand) = 1
  /\ rpc # "insert" => hand = <<>>
  /\ mpc \in {"check", "pause", "paused", "join", "drain", "report", "exited"}
  /\ uk_enqueued_count \in Nat /\ target \in Nat /\ attempts \in Nat
  /\ calls \in Nat /\ accepted \in Nat
  /\ consumed \in Seq(Nat) /\ dropped \subseteq Nat

\* All items on their way, for queues in the order in which they arrive.
Pipeline == consumed \o uk \o hand \o ku

\* End to end no item is delivered twice, and queues keep the order, whatever is
\* dropped on the way and however often the KU lane is initialised.
EndToEndOrder ==
  \A i, j \in 1 .. Len(Pipeline) : i < j =>
    IF lifo THEN Pipeline[i] # Pipeline[j] ELSE Pipeline[i] < Pipeline[j]

\* The items that were consumed, are in a lane or in the relay thread's hands, or
\* were refused by the UK lane.
Accounted == {Pipeline[i] : i \in 1 .. Len(Pipeline)} \cup dropped

\* An item that was accounted for, a refused one included, vanishes only when a
\* second CPU initialises a KU lane that is already in use: no other step does that.
VanishOnlyByReinit ==
  [][Accounted \subseteq Accounted' \/ (ku_ready /\ \E h \in Cpu : hook[h] = "init" /\ hook'[h] = "flag")]_vars

\* When main goes on to report, the drain has consumed every item the relay
\* thread ever put into the UK lane, and nothing can follow.
DrainedAtExit ==
  mpc \in {"report", "exited"} =>
    uk = <<>> /\ Len(consumed) = uk_enqueued_count /\ rpc = "done"

\* The inductive strengthening of DrainedAtExit: every relayed item is in the UK
\* lane or consumed, only the drain consumes, and each of its triggers pops.
DrainInv ==
  /\ uk_enqueued_count = Len(consumed) + Len(uk)
  /\ Len(uk) > 0 \/ rpc \in {"pop", "insert"} => uk_ready
  /\ mpc \in {"check", "pause", "paused", "join"} => Len(consumed) = 0
  /\ mpc \in {"drain", "report", "exited"} => rpc = "done" /\ target = uk_enqueued_count
  /\ mpc = "drain" => attempts = Len(consumed)
  /\ mpc \in {"report", "exited"} => Len(uk) = 0

\* A user who insists gets the program to drain and exit.  ("Press Ctrl+C to stop",
\* once, does not: a signal between the test of stop_test and pause() is lost.)
EventuallyExits == <>(mpc = "exited")
=============================================================================
