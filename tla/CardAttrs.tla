------------------------------ MODULE CardAttrs ------------------------------
(***************************************************************************)
(* Attributes and debug files of one card in use by several threads at a   *)
(* time, one of which may be LFD's: port_set, which goes by the card's     *)
(* Intel driver, and IOREG.                                                *)
(***************************************************************************)
EXTENDS CopperPort, IxgbeHook, IoReg

CONSTANT MaxCalls   \* calls of all threads together

ASSUME CallsAssumption == MaxCalls \in Nat

VARIABLES driver,   \* cards[card].flags & F_DRIVER
          calls

vars == <<driver, calls, coppervars, hookvars, iovars>>

CardInit == /\ CopperInit /\ HookInit /\ IoInit
            /\ driver \in {"igb", "ixgbe"} /\ calls = 0

Idle(p) == call[p].pc = "idle" /\ hook[p].pc = "idle" /\ io[p].pc = "idle"

\* port_set, after what it does to the mode register of fiber cards (ModeRegs).
port_set(p, x, up) ==
  CASE driver = "ixgbe" -> ixgbe_port_set(p, x, up) /\ UNCHANGED <<coppervars, iovars>>
    [] driver = "igb" -> copper_port_set(p, up) /\ UNCHANGED <<hookvars, iovars>>

Call(p) ==
  /\ Idle(p) /\ calls < MaxCalls /\ calls' = calls + 1
  /\ \/ \E x \in Port, up \in BOOLEAN : port_set(p, x, up)
     \/ /\ \E a \in IoAddr, d \in IoByte : cpld_set_ioreg(p, TRUE, a, d)
        /\ UNCHANGED <<coppervars, hookvars>>
     \/ /\ \E a \in IoAddr : cpld_set_ioreg(p, FALSE, a, 0)
        /\ UNCHANGED <<coppervars, hookvars>>
  /\ UNCHANGED driver

Step(p) ==
  /\ \/ CopperStep(p) /\ UNCHANGED <<hookvars, iovars>>
     \/ HookStep(p) /\ UNCHANGED <<coppervars, iovars>>
     \/ IoStep(p) /\ UNCHANGED <<coppervars, hookvars>>
  /\ UNCHANGED <<driver, calls>>

Mac == MacServe /\ UNCHANGED <<driver, calls, hookvars, iovars>>

\* The calls are over.
Done == /\ calls = MaxCalls /\ \A p \in Thread : Idle(p)
        /\ UNCHANGED vars

Next == (\E p \in Thread : Call(p) \/ Step(p)) \/ Mac \/ Done

Spec == CardInit /\ [][Next]_vars

TypeOK == /\ CopperTypeOK /\ HookTypeOK /\ IoTypeOK
          /\ driver \in {"igb", "ixgbe"} /\ calls \in 0..MaxCalls
=============================================================================
