---------------------------- MODULE AvrRegisters ----------------------------
(***************************************************************************)
(* What the CPU layer (module/cpu.c) promises its callers: every card's    *)
(* on-board CPU is a file of byte registers, cpu_read and cpu_write take   *)
(* effect at one instant between the call and the return, and the result   *)
(* is the byte read, or 0 for a write.  An MDIO card's CPLD registers      *)
(* promise the same to the callers of cpld_mdio.c, until a cycle times     *)
(* out or a caller goes past the lock (MdioBus).                           *)
(***************************************************************************)
EXTENDS Naturals

CONSTANTS Proc,     \* kernel threads that call cpu_read and cpu_write
          Card,     \* card numbers
          Offset,   \* register offsets of the card's CPU
          Byte      \* register contents

VARIABLES mem,      \* mem[card][offset], the registers
          status,   \* status[p] \in {"idle", "called", "done"}
          call,     \* call[p], the call in progress or the last one
          res       \* res[p], the result of p's last call

vars == <<mem, status, call, res>>

Op == {"cpu_read", "cpu_write"}
Calls == {c \in [op : Op, card : Card, offset : Offset, value : Byte] :
            c.op = "cpu_read" => c.value = 0}

Init == /\ mem = [c \in Card |-> [o \in Offset |-> 0]]
        /\ status = [p \in Proc |-> "idle"]
        /\ call \in [Proc -> Calls]
        /\ res = [p \in Proc |-> 0]

Invoke(p) == /\ status[p] = "idle"
             /\ \E c \in Calls : call' = [call EXCEPT ![p] = c]
             /\ status' = [status EXCEPT ![p] = "called"]
             /\ UNCHANGED <<mem, res>>

PerformRead(p) ==
  /\ status[p] = "called"
  /\ call[p].op = "cpu_read"
  /\ status' = [status EXCEPT ![p] = "done"]
  /\ res' = [res EXCEPT ![p] = mem[call[p].card][call[p].offset]]
  /\ UNCHANGED <<mem, call>>

PerformWrite(p) ==
  /\ status[p] = "called"
  /\ call[p].op = "cpu_write"
  /\ status' = [status EXCEPT ![p] = "done"]
  /\ mem' = [mem EXCEPT ![call[p].card][call[p].offset] = call[p].value]
  /\ res' = [res EXCEPT ![p] = 0]
  /\ UNCHANGED call

Return(p) == /\ status[p] = "done"
             /\ status' = [status EXCEPT ![p] = "idle"]
             /\ UNCHANGED <<mem, call, res>>

Next == \E p \in Proc :
          Invoke(p) \/ PerformRead(p) \/ PerformWrite(p) \/ Return(p)

Spec == Init /\ [][Next]_vars
=============================================================================
