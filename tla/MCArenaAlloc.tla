---------------------------- MODULE MCArenaAlloc ----------------------------
(* Tasks, threads and CPUs are interchangeable. *)
EXTENDS ArenaAlloc, TLC

MCSymmetry == Permutations(KernelTask) \cup Permutations(UserTask) \cup Permutations(Cpu)
=============================================================================
