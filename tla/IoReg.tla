-------------------------------- MODULE IoReg --------------------------------
(***************************************************************************)
(* The debug file IOREG of module/cpld_dev.c on one card, as util -g and   *)
(* util -s of user_api use it: a write stores a command in two words of    *)
(* the card and carries it out from there, a read shows the words.         *)
(* cpu_read and cpu_write are one step each (AvrRegisters).                *)
(***************************************************************************)
EXTENDS CardThreads, Integers

CONSTANTS IoAddr,   \* addresses that are used, of nine bits
          IoByte    \* bytes that are used, 0 among them

ASSUME IoAssumption == IoAddr \subseteq 0..511 /\ IoByte \subseteq 0..255 /\ 0 \in IoByte

\* cpu_read and cpu_write take eight bits of the address.
Offset(a) == a % 256
Register == {Offset(a) : a \in IoAddr}

VARIABLES
  reg,                              \* the CPU's registers
  cpld_ioreg_addr, cpld_ioreg_data,
  io,                               \* where a thread is, its command
  reread,      \* whether the build fetches the words again that it just wrote
  mixed,       \* threads that were in a command when another one stored (history)
  expected     \* what a thread's command found in the register (history)

iovars == <<reg, cpld_ioreg_addr, cpld_ioreg_data, io, reread, mixed, expected>>

NoIo == [pc |-> "idle", write |-> FALSE, addr |-> 0, data |-> 0]

IoInit ==
  /\ reg = [a \in Register |-> 0]
  /\ cpld_ioreg_addr = 0 /\ cpld_ioreg_data = 0
  /\ io = [p \in Thread |-> NoIo] /\ reread \in BOOLEAN
  /\ mixed = {} /\ expected = [p \in Thread |-> 0]

Busy == {q \in Thread : io[q].pc # "idle"}

\* util -s writes IOREG; util -g writes it and reads it.
cpld_set_ioreg(p, write, a, d) ==
  /\ io[p].pc = "idle"
  /\ io' = [io EXCEPT ![p] = [pc |-> "data", write |-> write, addr |-> a, data |-> d]]
  /\ cpld_ioreg_addr' = a
  /\ mixed' = IF Busy = {} THEN {} ELSE mixed \cup Busy \cup {p}
  /\ UNCHANGED <<reg, cpld_ioreg_data, reread, expected>>

StoreData(p) ==
  /\ io[p].pc = "data"
  /\ cpld_ioreg_data' = io[p].data
  /\ io' = [io EXCEPT ![p].pc = IF io[p].write THEN "cpu_write" ELSE "cpu_read"]
  /\ UNCHANGED <<reg, cpld_ioreg_addr, reread, mixed, expected>>

Addr(p) == IF reread THEN cpld_ioreg_addr ELSE io[p].addr
Data(p) == IF reread THEN cpld_ioreg_data ELSE io[p].data

CpuWrite(p) ==
  /\ io[p].pc = "cpu_write"
  /\ reg' = [reg EXCEPT ![Offset(Addr(p))] = Data(p)]
  /\ io' = [io EXCEPT ![p] = NoIo]
  /\ UNCHANGED <<cpld_ioreg_addr, cpld_ioreg_data, reread, mixed, expected>>

CpuRead(p) ==
  /\ io[p].pc = "cpu_read"
  /\ io' = [io EXCEPT ![p].pc = "result", ![p].data = reg[Offset(Addr(p))]]
  /\ expected' = [expected EXCEPT ![p] = reg[Offset(io[p].addr)]]
  /\ UNCHANGED <<reg, cpld_ioreg_addr, cpld_ioreg_data, reread, mixed>>

\* Mutant: the byte that was read is not stored.
StoreResult_None(p) ==
  /\ io[p].pc = "result"
  /\ io' = [io EXCEPT ![p].pc = "show"]
  /\ UNCHANGED <<cpld_ioreg_data, reg, cpld_ioreg_addr, reread, mixed, expected>>

StoreResult(p) ==
  /\ io[p].pc = "result"
  /\ cpld_ioreg_data' = io[p].data
  /\ io' = [io EXCEPT ![p].pc = "show"]
  /\ UNCHANGED <<reg, cpld_ioreg_addr, reread, mixed, expected>>

\* The utility's second step; it looks at the data only.
cpld_get_ioreg(p) ==
  /\ io[p].pc = "show"
  /\ io' = [io EXCEPT ![p].pc = "shown", ![p].data = cpld_ioreg_data]
  /\ UNCHANGED <<reg, cpld_ioreg_addr, cpld_ioreg_data, reread, mixed, expected>>

IoReturn(p) ==
  /\ io[p].pc = "shown" /\ io' = [io EXCEPT ![p] = NoIo]
  /\ UNCHANGED <<reg, cpld_ioreg_addr, cpld_ioreg_data, reread, mixed, expected>>

IoStep(p) == \/ StoreData(p) \/ CpuWrite(p) \/ CpuRead(p) \/ StoreResult(p)
             \/ cpld_get_ioreg(p) \/ IoReturn(p)

IoTypeOK ==
  /\ reg \in [Register -> IoByte]
  /\ cpld_ioreg_addr \in 0..511 /\ cpld_ioreg_data \in IoByte
  /\ io \in [Thread -> [pc : {"idle", "data", "cpu_write", "cpu_read", "result",
                              "show", "shown"},
                        write : BOOLEAN, addr : 0..511, data : IoByte]]
  /\ reread \in BOOLEAN /\ mixed \subseteq Thread /\ expected \in [Thread -> IoByte]

\* What util -g prints is what its register held, unless another command was
\* stored meanwhile.
IoExact == \A p \in Thread \ mixed : io[p].pc = "shown" => io[p].data = expected[p]
=============================================================================
