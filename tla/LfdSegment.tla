----------------------------- MODULE LfdSegment -----------------------------
(***************************************************************************)
(* lfd_update_segment of module/lfd.c as a function: what one look at the  *)
(* carriers of a segment's two ports does to the segment's LFD state, and  *)
(* which port_set calls follow.                                            *)
(*                                                                         *)
(*   0 unknown   1 both up   2 port 0 failed   3 port 1 failed             *)
(*   4 both ports were brought up again, waiting for their carriers        *)
(***************************************************************************)
EXTENDS Naturals

CONSTANT LFD_MAX_CHECK_COUNT  \* periods to wait in state 4 (5)

ASSUME CheckCountAssumption == LFD_MAX_CHECK_COUNT \in Nat

LfdState == 0..4
Port == {0, 1}

\* The port_set calls of an update: none, or one for either port, 0 first.
NoSet  == <<>>
BothUp == <<TRUE, TRUE>>
Only0  == <<TRUE, FALSE>>
Only1  == <<FALSE, TRUE>>

BothCarriers(carrier) == carrier[0] /\ carrier[1]
After(state, count, sets) == [state |-> state, count |-> count, sets |-> sets]

\* States 0 to 3: a fault is looked for, or its end.
Watch(state, count, carrier) ==
  CASE state = 0 /\ BothCarriers(carrier) -> After(1, count, NoSet)
    [] state \in {0, 1} /\ ~carrier[0] /\ carrier[1] -> After(2, count, Only0)
    [] state \in {0, 1} /\ carrier[0] /\ ~carrier[1] -> After(3, count, Only1)
    [] state = 2 /\ carrier[0] -> After(4, count, BothUp)
    [] state = 3 /\ carrier[1] -> After(4, count, BothUp)
    [] OTHER -> After(state, count, NoSet)

\* Mutant: the count is not tested before it is decremented.
Wait_NoFloor(count, carrier) ==
  IF BothCarriers(carrier) THEN After(1, LFD_MAX_CHECK_COUNT, NoSet)
                           ELSE After(4, count - 1, NoSet)

\* Mutant: a wait that succeeds does not refill the count.
Wait_NoRefill(count, carrier) ==
  IF BothCarriers(carrier) THEN After(1, count, NoSet)
  ELSE IF count > 0 THEN After(4, count - 1, NoSet)
  ELSE After(0, LFD_MAX_CHECK_COUNT, NoSet)

\* Mutant: a wait that fails starts over.
Wait_StartsOver(count, carrier) ==
  IF BothCarriers(carrier) THEN After(1, LFD_MAX_CHECK_COUNT, NoSet)
  ELSE IF count > 0 THEN After(4, count - 1, NoSet)
  ELSE After(4, LFD_MAX_CHECK_COUNT, NoSet)

\* Mutant: the wait is one period short.
Wait_Short(count, carrier) ==
  IF BothCarriers(carrier) THEN After(1, LFD_MAX_CHECK_COUNT, NoSet)
  ELSE IF count > 1 THEN After(4, count - 1, NoSet)
  ELSE After(0, LFD_MAX_CHECK_COUNT, NoSet)

\* State 4.
Wait(count, carrier) ==
  IF BothCarriers(carrier) THEN After(1, LFD_MAX_CHECK_COUNT, NoSet)
  ELSE IF count > 0 THEN After(4, count - 1, NoSet)
  ELSE After(0, LFD_MAX_CHECK_COUNT, NoSet)

Update(state, count, carrier) ==
  IF state = 4 THEN Wait(count, carrier) ELSE Watch(state, count, carrier)
=============================================================================
