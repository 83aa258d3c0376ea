------------------------------- MODULE MCLfd -------------------------------
(* Lfd for TLC: interchangeable callers. *)
EXTENDS Lfd, TLC

Callers == Permutations(Ctl)
=============================================================================
