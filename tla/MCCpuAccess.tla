---------------------------- MODULE MCCpuAccess ----------------------------
(* CpuAccess for TLC: interchangeable threads. *)
EXTENDS CpuAccess, TLC

Threads == Permutations(Proc)
=============================================================================
