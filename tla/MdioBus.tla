------------------------------ MODULE MdioBus ------------------------------
(***************************************************************************)
(* module/cpld_mdio.c and module/cpld_flash.c: the CPLD of a card that is  *)
(* reached by clause-45 cycles of one MAC, or through a memory window.     *)
(* A cycle is started by a write to MSCA and runs while MDICMD reads as 1. *)
(* A byte takes an address cycle and a data cycle; the poll for either may *)
(* give up, and the cycle it gave up on may still complete later.          *)
(***************************************************************************)
EXTENDS Naturals

CONSTANTS Proc,     \* threads that call cpld_read, cpld_write and cpld_kick
          Atomic,   \* those of them that call from atomic context
          Addr,     \* CPLD register addresses
          Byte,     \* contents of registers and results
          Written,  \* the bytes that callers write
          CSR,      \* the register of the kick bits
          KickByte, \* 0x10 << segment
          MaxPoll,  \* polls for the end of a cycle (10)
          MaxCalls  \* bound: calls made by all threads

FAILED == 255       \* (uint8_t)-1

ASSUME MdioAssumption ==
  /\ Atomic \subseteq Proc
  /\ CSR \in Addr /\ Byte \subseteq 0..255
  /\ {0, KickByte, FAILED} \cup Written \subseteq Byte
  /\ MaxPoll \in Nat \ {0} /\ MaxCalls \in Nat

None == [cycle |-> "none", addr |-> CSR]
Cycles == [cycle : {"address", "read", "write"}, addr : Addr]

VARIABLES
  cpld_functions,         \* "mdio" or "flash"
  cpld_lock_bits,         \* the card's lock bit
  msca,                   \* the cycle in progress, or None
  latch, rdata, wdata,    \* the address the CPLD holds, both halves of MSRWD
  reg,                    \* the CPLD registers
  pc, call, polls, res,   \* per thread: control, the call, polls, its result
  kicks,                  \* threads whose call is cpld_kick
  left,                   \* calls still to be made
  overrun,                \* overrun[p]: p's address cycle was started while one
                          \* that timed out was still in progress (history)
  timedout,               \* a poll gave up (history)
  bypassed                \* a caller went on without the lock (history)

hw   == <<latch, rdata, reg>>
jobs == <<kicks, left>>
history == <<timedout, bypassed>>
vars == <<cpld_functions, cpld_lock_bits, msca, wdata, hw, pc, call, polls,
          res, jobs, overrun, history>>

Calls == [op : {"cpu_read"}, card : {0}, offset : Addr, value : {0}]
         \cup [op : {"cpu_write"}, card : {0}, offset : Addr,
               value : Written \cup {KickByte}]
Reads(p) == call[p].op = "cpu_read"

Init ==
  /\ cpld_functions \in {"mdio", "flash"}
  /\ cpld_lock_bits = FALSE
  /\ msca = None /\ latch = CSR /\ rdata = 0 /\ wdata = 0
  /\ reg = [a \in Addr |-> 0]
  /\ pc = [p \in Proc |-> "idle"]
  /\ call = [p \in Proc |-> [op |-> "cpu_read", card |-> 0, offset |-> CSR,
                             value |-> 0]]
  /\ polls = [p \in Proc |-> 0] /\ res = [p \in Proc |-> 0]
  /\ kicks = {} /\ left = MaxCalls
  /\ overrun = [p \in Proc |-> FALSE]
  /\ timedout = FALSE /\ bypassed = FALSE

Goto(p, l) == pc' = [pc EXCEPT ![p] = l]

-----------------------------------------------------------------------------
Begin(p, c) ==
  /\ pc[p] = "idle" /\ left > 0
  /\ left' = left - 1
  /\ call' = [call EXCEPT ![p] = c]
  /\ Goto(p, IF cpld_functions = "flash" THEN "access" ELSE "lock")
  /\ UNCHANGED <<cpld_functions, cpld_lock_bits, msca, wdata, hw, polls, res,
                 overrun, history>>

Invoke(p, c) == Begin(p, c) /\ UNCHANGED kicks

\* cpld_mdio_kick and cpld_flash_kick write the whole byte, whatever CSR holds.
Kick(p) == /\ Begin(p, [op |-> "cpu_write", card |-> 0, offset |-> CSR,
                        value |-> KickByte])
           /\ kicks' = kicks \cup {p}

\* ioread8 and iowrite8: no lock and no cycle.
FlashAccess(p) ==
  /\ pc[p] = "access"
  /\ IF Reads(p) THEN UNCHANGED reg
                 ELSE reg' = [reg EXCEPT ![call[p].offset] = call[p].value]
  /\ res' = [res EXCEPT ![p] = IF Reads(p) THEN reg[call[p].offset] ELSE 0]
  /\ Goto(p, "return")
  /\ UNCHANGED <<cpld_functions, cpld_lock_bits, msca, wdata, latch, rdata,
                 call, polls, jobs, overrun, history>>

\* A caller in atomic context goes on without the lock.
cpld_lock(p) ==
  /\ pc[p] = "lock"
  /\ \/ ~cpld_lock_bits /\ UNCHANGED bypassed
     \/ cpld_lock_bits /\ p \in Atomic /\ bypassed' = TRUE
  /\ cpld_lock_bits' = TRUE
  /\ Goto(p, IF Reads(p) THEN "address" ELSE "data")
  /\ UNCHANGED <<cpld_functions, msca, wdata, hw, call, polls, res, jobs,
                 overrun, timedout>>

WriteData(p) ==
  /\ pc[p] = "data"
  /\ wdata' = call[p].value
  /\ Goto(p, "address")
  /\ UNCHANGED <<cpld_functions, cpld_lock_bits, msca, hw, call, polls, res,
                 jobs, overrun, history>>

\* A write to MSCA.  What the MAC does with it while a cycle is in progress is
\* not known: the new cycle replaces the old one, or is ignored.
StartCycle(p, kind) ==
  /\ \/ msca' = [cycle |-> kind, addr |-> call[p].offset]
     \/ msca # None /\ UNCHANGED msca
  /\ polls' = [polls EXCEPT ![p] = 0]
  /\ UNCHANGED <<cpld_functions, cpld_lock_bits, wdata, hw, call, res, jobs,
                 history>>

AddressCycle(p) == /\ pc[p] = "address"
                   /\ StartCycle(p, "address")
                   /\ overrun' = [overrun EXCEPT ![p] = msca # None]
                   /\ Goto(p, "poll_address")

DataCycle(p) == /\ pc[p] = "command"
                /\ StartCycle(p, IF Reads(p) THEN "read" ELSE "write")
                /\ Goto(p, "poll_command")
                /\ UNCHANGED overrun

Polling(p) == pc[p] \in {"poll_address", "poll_command"}

\* Mutant: the lock is given back before the byte is fetched.
PollDone_Unlocks(p) ==
  /\ Polling(p) /\ msca = None
  /\ Goto(p, IF pc[p] = "poll_address" THEN "command"
             ELSE IF Reads(p) THEN "fetch" ELSE "unlock")
  /\ cpld_lock_bits' = (cpld_lock_bits /\ pc[p] = "poll_address")
  /\ res' = IF pc[p] = "poll_address" \/ Reads(p) THEN res
            ELSE [res EXCEPT ![p] = 0]
  /\ UNCHANGED <<cpld_functions, msca, wdata, hw, call, polls, jobs, overrun,
                 history>>

\* Mutant: the address cycle is not waited for.
PollDone_Hasty(p) ==
  /\ Polling(p) /\ (msca = None \/ pc[p] = "poll_address")
  /\ Goto(p, IF pc[p] = "poll_address" THEN "command"
             ELSE IF Reads(p) THEN "fetch" ELSE "unlock")
  /\ res' = IF pc[p] = "poll_address" \/ Reads(p) THEN res
            ELSE [res EXCEPT ![p] = 0]
  /\ UNCHANGED <<cpld_functions, cpld_lock_bits, msca, wdata, hw, call, polls,
                 jobs, overrun, history>>

PollDone(p) ==
  /\ Polling(p) /\ msca = None
  /\ Goto(p, IF pc[p] = "poll_address" THEN "command"
             ELSE IF Reads(p) THEN "fetch" ELSE "unlock")
  /\ res' = IF pc[p] = "poll_address" \/ Reads(p) THEN res
            ELSE [res EXCEPT ![p] = 0]
  /\ UNCHANGED <<cpld_functions, cpld_lock_bits, msca, wdata, hw, call, polls,
                 jobs, overrun, history>>

\* Mutant: the loop has no end.
PollBusy_Unbounded(p) ==
  /\ Polling(p) /\ msca # None
  /\ polls' = [polls EXCEPT ![p] = @ + 1]
  /\ UNCHANGED <<cpld_functions, cpld_lock_bits, msca, wdata, hw, pc, call,
                 res, jobs, overrun, history>>

PollBusy(p) ==
  /\ Polling(p) /\ msca # None /\ polls[p] + 1 < MaxPoll
  /\ polls' = [polls EXCEPT ![p] = @ + 1]
  /\ UNCHANGED <<cpld_functions, cpld_lock_bits, msca, wdata, hw, pc, call,
                 res, jobs, overrun, history>>

\* Mutant: the error path returns with the lock held.
Timeout_KeepsLock(p) ==
  /\ Polling(p) /\ msca # None /\ polls[p] + 1 = MaxPoll
  /\ res' = [res EXCEPT ![p] = IF p \in kicks THEN 0 ELSE FAILED]
  /\ timedout' = TRUE
  /\ Goto(p, "idle")
  /\ UNCHANGED <<cpld_functions, cpld_lock_bits, msca, wdata, hw, call, polls,
                 jobs, overrun, bypassed>>

\* A kick returns 0 all the same: set_kick never repeats one.
Timeout(p) ==
  /\ Polling(p) /\ msca # None /\ polls[p] + 1 = MaxPoll
  /\ res' = [res EXCEPT ![p] = IF p \in kicks THEN 0 ELSE FAILED]
  /\ timedout' = TRUE
  /\ Goto(p, "failed")
  /\ UNCHANGED <<cpld_functions, cpld_lock_bits, msca, wdata, hw, call, polls,
                 jobs, overrun, bypassed>>

FetchData(p) ==
  /\ pc[p] = "fetch"
  /\ res' = [res EXCEPT ![p] = rdata]
  /\ Goto(p, "unlock")
  /\ UNCHANGED <<cpld_functions, cpld_lock_bits, msca, wdata, hw, call, polls,
                 jobs, overrun, history>>

cpld_unlock(p) ==
  /\ pc[p] \in {"unlock", "failed"}
  /\ cpld_lock_bits' = FALSE
  /\ overrun' = [overrun EXCEPT ![p] = FALSE]
  /\ kicks' = kicks \ {p}
  /\ Goto(p, "idle")
  /\ UNCHANGED <<cpld_functions, msca, wdata, hw, call, polls, res, left,
                 history>>

Return(p) == /\ pc[p] = "return"
             /\ kicks' = kicks \ {p} /\ Goto(p, "idle")
             /\ UNCHANGED <<cpld_functions, cpld_lock_bits, msca, wdata, hw,
                            call, polls, res, left, overrun, history>>

-----------------------------------------------------------------------------
\* The CPLD at the other end of the cycle, at any later time or never.
Complete ==
  /\ msca # None
  /\ msca' = None
  /\ latch' = IF msca.cycle = "address" THEN msca.addr ELSE latch
  /\ rdata' = IF msca.cycle = "read" THEN reg[latch] ELSE rdata
  /\ reg' = IF msca.cycle = "write" THEN [reg EXCEPT ![latch] = wdata] ELSE reg
  /\ UNCHANGED <<cpld_functions, cpld_lock_bits, wdata, pc, call, polls, res,
                 jobs, overrun, history>>

Finished == /\ \A p \in Proc : pc[p] = "idle"
            /\ left = 0 /\ msca = None
            /\ UNCHANGED vars

Step(p) == \/ FlashAccess(p) \/ cpld_lock(p) \/ WriteData(p) \/ AddressCycle(p)
           \/ DataCycle(p) \/ PollDone(p) \/ PollBusy(p) \/ Timeout(p)
           \/ FetchData(p) \/ cpld_unlock(p) \/ Return(p)

Next == \/ \E p \in Proc : \/ \E c \in Calls : Invoke(p, c)
                            \/ Kick(p) \/ Step(p)
        \/ Complete
        \/ Finished

Spec == Init /\ [][Next]_vars

\* The scheduler runs every thread; nothing is assumed of the CPLD.
FairSpec == Spec /\ \A p \in Proc : WF_vars(Step(p))

-----------------------------------------------------------------------------
TypeOK ==
  /\ cpld_functions \in {"mdio", "flash"} /\ cpld_lock_bits \in BOOLEAN
  /\ msca \in Cycles \cup {None} /\ latch \in Addr
  /\ rdata \in Byte /\ wdata \in Byte /\ reg \in [Addr -> Byte]
  /\ pc \in [Proc -> {"idle", "access", "lock", "data", "address",
                      "poll_address", "command", "poll_command", "fetch",
                      "unlock", "failed", "return"}]
  /\ call \in [Proc -> Calls] /\ polls \in [Proc -> 0..(MaxPoll - 1)]
  /\ res \in [Proc -> Byte] /\ kicks \subseteq Proc /\ left \in 0..MaxCalls
  /\ overrun \in [Proc -> BOOLEAN]
  /\ timedout \in BOOLEAN /\ bypassed \in BOOLEAN

\* A call both of whose cycles ended in time moved its byte, also when
\* earlier calls timed out and their last cycle completed late.  Excepted are
\* a call that started a cycle while such a late one was still in progress,
\* and everything after a caller went on without the lock.
MdioExact ==
  \A p \in Proc : pc[p] = "unlock" /\ ~overrun[p] /\ ~bypassed =>
                    (IF Reads(p) THEN res[p] ELSE call[p].value)
                      = reg[call[p].offset]

\* The call's data cycle is over: it has taken effect.
Served(p) == \/ pc[p] \in {"fetch", "unlock", "return"}
             \/ pc[p] = "poll_command" /\ msca = None

mem == [c \in {0} |-> reg]
status == [p \in Proc |-> IF pc[p] = "idle" THEN "idle"
                          ELSE IF Served(p) THEN "done" ELSE "called"]
result == [p \in Proc |-> IF ~Served(p) \/ pc[p] \in {"unlock", "return"}
                          THEN res[p]
                          ELSE IF Reads(p) THEN rdata ELSE 0]

Registers == INSTANCE AvrRegisters WITH
  Card <- {0}, Offset <- Addr, res <- result

\* Until a poll gives up for the first time, or a caller goes on without the
\* lock, reads, writes and kicks of an MDIO card are calls on a register
\* file, each with its effect at one instant: what CpuAccess takes for granted
\* of a CPLD access.  FLASH cards do so without a lock.
Linearizable == Registers!Init /\ [][~timedout' /\ ~bypassed' => Registers!Next]_(Registers!vars)

\* Every call returns, though the CPLD may never complete a cycle.
EveryCallEnds == \A p \in Proc : pc[p] # "idle" ~> pc[p] = "idle"
=============================================================================
