----------------------------- MODULE CpuAccess -----------------------------
(***************************************************************************)
(* module/cpu.c: cpu_read and cpu_write, the only way to the registers of  *)
(* a card's CPU.  A call takes the card's bit in cpu_lock_bits, puts the   *)
(* offset (and the byte to write) into the CPLD, starts the command by a   *)
(* write to CSR, polls CSR until the CPU is done, and fetches HOST_DAT.    *)
(*                                                                         *)
(* One transfer of a CPLD byte is one step here: SdpBus.tla models what    *)
(* happens inside it, under the other lock, cpld_lock_bits.                *)
(***************************************************************************)
EXTENDS Naturals

CONSTANTS Proc, Card, Offset, Byte,
          MaxPoll,    \* polls of CSR before cpu_wait gives up (10000)
          AvrPrompt,  \* the CPU always answers before the last poll
          MaxCalls    \* bound: calls made by one thread

ASSUME ByteAssumption == Byte \subseteq 0..255 /\ 0 \in Byte
ASSUME CardAssumption == Card # {} /\ Offset # {}
ASSUME BoundAssumption == /\ MaxPoll \in Nat \ {0}
                          /\ MaxCalls \in Nat
                          /\ AvrPrompt \in BOOLEAN

VARIABLES
  cpu_lock_bits,                     \* cards whose lock bit is set
  pc, call, polls, res, left,        \* per thread: control, locals, budget
  overrun, gaveup,                   \* history, per call: its command was put
                                     \* over one the CPU was still at; its
                                     \* poll gave up
  AVR_ADDR, AVR_DAT, HOST_DAT, CSR,  \* per card: CPLD registers
  mem,                               \* per card: registers of its CPU
  avr                                \* per card: {} or the command it is at

history == <<overrun, gaveup>>
procVars == <<pc, call, polls, res, left, history>>
cpldVars == <<AVR_ADDR, AVR_DAT, HOST_DAT, CSR>>
cpuVars == <<mem, avr>>
vars == <<cpu_lock_bits, procVars, cpldVars, cpuVars>>

Op == {"cpu_read", "cpu_write"}
Calls == {c \in [op : Op, card : Card, offset : Offset, value : Byte] :
            c.op = "cpu_read" => c.value = 0}
Work == [csr : {8, 12}, offset : Offset, value : Byte]
Label == {"idle", "lock", "addr", "dat", "csr", "wait", "host", "unlock"}
Fail  == 255                            \* (uint8_t)-1

\* Mutant: the kick bit of segment 0 instead of the read command.
Command_KickBit(op) == IF op = "cpu_read" THEN 16 ELSE 12

\* CSR: 0x8 starts a read, 0xC a write; bit 3 stays up until the CPU is done.
Command(op) == IF op = "cpu_read" THEN 8 ELSE 12
Busy(c) == CSR[c] # 0

Init ==
  /\ cpu_lock_bits = {}
  /\ pc = [p \in Proc |-> "idle"]
  /\ \E c \in Calls : call = [p \in Proc |-> c]
  /\ polls = [p \in Proc |-> 0]
  /\ res = [p \in Proc |-> 0]
  /\ left = [p \in Proc |-> MaxCalls]
  /\ overrun = [p \in Proc |-> FALSE]
  /\ gaveup = [p \in Proc |-> FALSE]
  /\ AVR_ADDR \in [Card -> Offset]
  /\ AVR_DAT = [c \in Card |-> 0]
  /\ HOST_DAT = [c \in Card |-> 0]
  /\ CSR = [c \in Card |-> 0]
  /\ mem = [c \in Card |-> [o \in Offset |-> 0]]
  /\ avr = [c \in Card |-> {}]

Goto(p, l) == pc' = [pc EXCEPT ![p] = l]

Invoke(p) ==
  /\ pc[p] = "idle"
  /\ left[p] > 0
  /\ left' = [left EXCEPT ![p] = @ - 1]
  /\ \E c \in Calls : call' = [call EXCEPT ![p] = c]
  /\ polls' = [polls EXCEPT ![p] = 0]
  /\ overrun' = [overrun EXCEPT ![p] = FALSE]
  /\ gaveup' = [gaveup EXCEPT ![p] = FALSE]
  /\ Goto(p, "lock")
  /\ UNCHANGED <<cpu_lock_bits, res, cpldVars, cpuVars>>

\* Mutant: the result of test_and_set_bit is not looked at.
cpu_lock_Unchecked(p) ==
  /\ pc[p] = "lock"
  /\ cpu_lock_bits' = cpu_lock_bits \cup {call[p].card}
  /\ Goto(p, "addr")
  /\ UNCHANGED <<call, polls, res, left, history, cpldVars, cpuVars>>

\* test_and_set_bit saw 0; a failed try calls schedule() and tries again.
cpu_lock(p) ==
  /\ pc[p] = "lock"
  /\ call[p].card \notin cpu_lock_bits
  /\ cpu_lock_bits' = cpu_lock_bits \cup {call[p].card}
  /\ Goto(p, "addr")
  /\ UNCHANGED <<call, polls, res, left, history, cpldVars, cpuVars>>

WriteAddr(p) ==
  /\ pc[p] = "addr"
  /\ AVR_ADDR' = [AVR_ADDR EXCEPT ![call[p].card] = call[p].offset]
  /\ Goto(p, IF call[p].op = "cpu_write" THEN "dat" ELSE "csr")
  /\ UNCHANGED <<cpu_lock_bits, call, polls, res, left, history,
                 AVR_DAT, HOST_DAT, CSR, cpuVars>>

WriteDat(p) ==
  /\ pc[p] = "dat"
  /\ AVR_DAT' = [AVR_DAT EXCEPT ![call[p].card] = call[p].value]
  /\ Goto(p, "csr")
  /\ UNCHANGED <<cpu_lock_bits, call, polls, res, left, history,
                 AVR_ADDR, HOST_DAT, CSR, cpuVars>>

\* Mutant: the lock is given back as soon as the command is started.
WriteCsr_Unlocks(p) ==
  /\ pc[p] = "csr"
  /\ CSR' = [CSR EXCEPT ![call[p].card] = Command(call[p].op)]
  /\ cpu_lock_bits' = cpu_lock_bits \ {call[p].card}
  /\ overrun' = [overrun EXCEPT ![p] = avr[call[p].card] # {}]
  /\ Goto(p, "wait")
  /\ UNCHANGED <<call, polls, res, left, gaveup,
                 AVR_ADDR, AVR_DAT, HOST_DAT, cpuVars>>

WriteCsr(p) ==
  /\ pc[p] = "csr"
  /\ CSR' = [CSR EXCEPT ![call[p].card] = Command(call[p].op)]
  /\ overrun' = [overrun EXCEPT ![p] = avr[call[p].card] # {}]
  /\ Goto(p, "wait")
  /\ UNCHANGED <<cpu_lock_bits, call, polls, res, left, gaveup,
                 AVR_ADDR, AVR_DAT, HOST_DAT, cpuVars>>

\* Mutant: cpu_write ignores the result of cpu_wait, too.
AfterWait_Ignored(p, rc) ==
  IF call[p].op = "cpu_write"
  THEN Goto(p, "unlock") /\ res' = [res EXCEPT ![p] = 0]
  ELSE Goto(p, "host") /\ UNCHANGED res

\* cpu_wait returned rc: cpu_write keeps it, cpu_read ignores it.
AfterWait(p, rc) ==
  IF call[p].op = "cpu_write"
  THEN Goto(p, "unlock") /\ res' = [res EXCEPT ![p] = rc]
  ELSE Goto(p, "host") /\ UNCHANGED res

\* Mutant: the lock is given back before HOST_DAT is fetched.
PollDone_Unlocks(p) ==
  /\ pc[p] = "wait"
  /\ ~Busy(call[p].card)
  /\ AfterWait(p, 0)
  /\ cpu_lock_bits' = cpu_lock_bits \ {call[p].card}
  /\ UNCHANGED <<call, polls, left, history, cpldVars, cpuVars>>

PollDone(p) ==
  /\ pc[p] = "wait"
  /\ ~Busy(call[p].card)
  /\ AfterWait(p, 0)
  /\ UNCHANGED <<cpu_lock_bits, call, polls, left, history, cpldVars, cpuVars>>

PollBusy(p) ==
  /\ pc[p] = "wait"
  /\ Busy(call[p].card)
  /\ polls[p] + 1 < MaxPoll
  /\ polls' = [polls EXCEPT ![p] = @ + 1]
  /\ UNCHANGED <<cpu_lock_bits, pc, call, res, left, history, cpldVars, cpuVars>>

\* Mutant: the error path returns without cpu_unlock.
Timeout_KeepsLock(p) ==
  /\ pc[p] = "wait"
  /\ Busy(call[p].card)
  /\ polls[p] + 1 >= MaxPoll
  /\ Goto(p, "idle")
  /\ UNCHANGED <<cpu_lock_bits, call, polls, res, left, history, cpldVars, cpuVars>>

Timeout(p) ==
  /\ pc[p] = "wait"
  /\ Busy(call[p].card)
  /\ polls[p] + 1 >= MaxPoll
  /\ ~AvrPrompt
  /\ AfterWait(p, Fail)
  /\ gaveup' = [gaveup EXCEPT ![p] = TRUE]
  /\ UNCHANGED <<cpu_lock_bits, call, polls, left, overrun, cpldVars, cpuVars>>

ReadHostDat(p) ==
  /\ pc[p] = "host"
  /\ res' = [res EXCEPT ![p] = HOST_DAT[call[p].card]]
  /\ Goto(p, "unlock")
  /\ UNCHANGED <<cpu_lock_bits, call, polls, left, history, cpldVars, cpuVars>>

cpu_unlock(p) ==
  /\ pc[p] = "unlock"
  /\ cpu_lock_bits' = cpu_lock_bits \ {call[p].card}
  /\ Goto(p, "idle")
  /\ UNCHANGED <<call, polls, res, left, history, cpldVars, cpuVars>>

\* The card's CPU finds a command in CSR and begins with it.
AvrFetch(c) ==
  /\ Busy(c)
  /\ avr[c] = {}
  /\ avr' = [avr EXCEPT ![c] = {[csr |-> CSR[c], offset |-> AVR_ADDR[c],
                                value |-> AVR_DAT[c]]}]
  /\ UNCHANGED <<cpu_lock_bits, procVars, cpldVars, mem>>

\* It carries out the command and clears CSR, whatever is in CSR by now: after
\* a time-out that may be the next caller's command.  When it has looked at
\* AVR_ADDR and AVR_DAT, at the start or just now, is not known.
AvrFinish(c) ==
  /\ \E w \in avr[c], o \in Offset, v \in Byte :
       /\ o \in {w.offset, AVR_ADDR[c]}
       /\ v \in {w.value, AVR_DAT[c]}
       /\ \/ /\ w.csr = Command("cpu_read")
             /\ HOST_DAT' = [HOST_DAT EXCEPT ![c] = mem[c][o]]
             /\ UNCHANGED mem
          \/ /\ w.csr = Command("cpu_write")
             /\ mem' = [mem EXCEPT ![c][o] = v]
             /\ UNCHANGED HOST_DAT
  /\ avr' = [avr EXCEPT ![c] = {}]
  /\ CSR' = [CSR EXCEPT ![c] = 0]
  /\ UNCHANGED <<cpu_lock_bits, procVars, AVR_ADDR, AVR_DAT>>

\* Every thread has made all its calls: the only state that may stop.
Finished ==
  /\ \A p \in Proc : pc[p] = "idle" /\ left[p] = 0
  /\ UNCHANGED vars

Step(p) == \/ cpu_lock(p) \/ WriteAddr(p) \/ WriteDat(p) \/ WriteCsr(p)
           \/ PollDone(p) \/ PollBusy(p) \/ Timeout(p)
           \/ ReadHostDat(p) \/ cpu_unlock(p)

Next == \/ \E p \in Proc : Invoke(p) \/ Step(p)
        \/ \E c \in Card : AvrFetch(c) \/ AvrFinish(c)
        \/ Finished

Spec == Init /\ [][Next]_vars

\* The scheduler runs every thread; nothing is assumed of the CPU.
FairSpec == Spec /\ \A p \in Proc : WF_vars(Step(p))

-----------------------------------------------------------------------------
TypeOK ==
  /\ cpu_lock_bits \subseteq Card
  /\ pc \in [Proc -> Label]
  /\ call \in [Proc -> Calls]
  /\ polls \in [Proc -> Nat]
  /\ res \in [Proc -> 0..255]
  /\ left \in [Proc -> Nat]
  /\ AVR_ADDR \in [Card -> Offset]
  /\ AVR_DAT \in [Card -> Byte]
  /\ HOST_DAT \in [Card -> Byte]
  /\ CSR \in [Card -> {0, 8, 12}]
  /\ mem \in [Card -> [Offset -> Byte]]
  /\ avr \in [Card -> SUBSET Work]
  /\ overrun \in [Proc -> BOOLEAN] /\ gaveup \in [Proc -> BOOLEAN]

Locked(p) == pc[p] \notin {"idle", "lock"}

\* Two threads are never inside a command of the same card, and a thread
\* inside one has the card's lock bit set: cpu_lock and cpu_unlock pair up
\* on every path of cpu_read and cpu_write, time-outs included.
Exclusion ==
  /\ \A p \in Proc : Locked(p) => call[p].card \in cpu_lock_bits
  /\ \A p, q \in Proc : p # q /\ Locked(p) /\ Locked(q) =>
                          call[p].card # call[q].card

\* The command the CPU can see while a thread waits for it is that thread's
\* own: offset, byte and direction were not replaced by another caller's,
\* although each of them goes to the CPLD in a transfer of its own.  So is the
\* command it is at, unless it is still at an earlier one that timed out.
CommandIntact ==
  \A p \in Proc : LET c == call[p].card IN
    /\ pc[p] \in {"dat", "csr", "wait"} => AVR_ADDR[c] = call[p].offset
    /\ pc[p] \in {"csr", "wait"} /\ call[p].op = "cpu_write" =>
         AVR_DAT[c] = call[p].value
    /\ pc[p] = "wait" /\ Busy(c) => CSR[c] = Command(call[p].op)
    /\ pc[p] = "wait" /\ ~overrun[p] =>
         \A w \in avr[c] : /\ w.csr = CSR[c]
                           /\ w.offset = AVR_ADDR[c]
                           /\ w.value = AVR_DAT[c]

\* A call that is about to return success was carried out: after a cpu_write
\* that returns 0 the register holds its byte, and a cpu_read whose poll saw
\* CSR clear returns what the register holds.  True also after other calls
\* timed out, except for a call that put its command over one the CPU was
\* still at (overrun): the CPU's late end of the old command clears CSR, and
\* cpu_wait takes that for the end of the new one.
AckedCallExact ==
  \A p \in Proc : LET reg == mem[call[p].card][call[p].offset] IN
    pc[p] = "unlock" /\ ~overrun[p] =>
      /\ call[p].op = "cpu_write" /\ res[p] = 0 => reg = call[p].value
      /\ call[p].op = "cpu_read" /\ ~gaveup[p] => reg = res[p]

\* Every call returns, whatever the CPU does: cpu_wait's limit on the polls
\* is what lets a caller of a dead card release the lock for the others.
EveryCallReturns == \A p \in Proc : pc[p] # "idle" ~> pc[p] = "idle"

-----------------------------------------------------------------------------
\* The abstract register file seen through the state above.  A call takes
\* effect when the CPU ends it.
Pending(p) == \/ pc[p] \in {"lock", "addr", "dat", "csr"}
              \/ pc[p] = "wait" /\ Busy(call[p].card)

status == [p \in Proc |-> IF pc[p] = "idle" THEN "idle"
                         ELSE IF Pending(p) THEN "called" ELSE "done"]

Served(p) == pc[p] = "host" \/ (pc[p] = "wait" /\ ~Busy(call[p].card))

result == [p \in Proc |->
  IF ~Served(p) THEN res[p]
  ELSE IF call[p].op = "cpu_read" THEN HOST_DAT[call[p].card] ELSE 0]

Avr == INSTANCE AvrRegisters WITH res <- result

\* With a CPU that answers in time, concurrent cpu_read and cpu_write calls
\* are calls on a register file that serves them one at a time.
Linearizable == Avr!Spec
=============================================================================
