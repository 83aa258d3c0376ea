------------------------------- MODULE SdpBus -------------------------------
(***************************************************************************)
(* module/cpld_sdp.c and module/cpld_esdp.c over module/cpld_lock.c: one   *)
(* card's CPLD, reached by bit-banging the software-defined pins of two    *)
(* MAC ports.  A byte travels as slices of two bits, each a row of writes  *)
(* to the pins (a slice has a start and an end here, and others may come   *)
(* between).  The Intel driver may reset a MAC at any time; the reset      *)
(* turns that port's pins into inputs, and what is then driven on them is  *)
(* lost.  Readers and writers notice a reset afterwards, when they check   *)
(* the pin directions, and repeat the byte; the kick checks the directions *)
(* after it released the lock.                                             *)
(***************************************************************************)
EXTENDS Naturals

CONSTANTS User,      \* threads that call cpld_read and cpld_write
          Kicker,    \* threads that set attribute "kick"
          Atomic,    \* users that call from atomic context
          Addr,      \* CPLD register addresses
          NSlice,    \* slices of a byte (4)
          KickSlice, \* slices of CSR that hold the kick bits (2 and 3)
          Bits,      \* contents of a slice (0..3)
          KickBits,  \* contents the kick sends (1 or 2)
          CSR,       \* address of the kick bits
          NReg,      \* MAC registers with pins, in the order they are checked
          NPort0,    \* the first ones are port 0's
          NOut,      \* the first ones have outputs, which a reset turns round
          MaxCalls,  \* bound: calls made by all threads
          MaxResets  \* bound: MAC resets

Proc  == User \cup Kicker
Slice == 0..(NSlice - 1)
Port  == {0, 1}
Reg   == 0..(NReg - 1)
\* cpld_sdp.c has 4, 2 and 3 registers: CTRL_EXT and CTRL of port 0, CTRL of
\* port 1, and CTRL_EXT of port 1, whose pins are inputs anyway.  cpld_esdp.c
\* has one for each port.
Turned(i) == IF i = 0 THEN 0..(NPort0 - 1) ELSE NPort0..(NOut - 1)

ASSUME ProcAssumption == User \cap Kicker = {} /\ Atomic \subseteq User
ASSUME SliceAssumption == /\ NSlice \in Nat \ {0}
                          /\ KickSlice \subseteq Slice /\ KickBits \in Bits
                          /\ CSR \in Addr
ASSUME RegAssumption == /\ NReg \in Nat \ {0} /\ NOut \in 0..NReg
                        /\ NPort0 \in 0..NOut
ASSUME BoundAssumption == MaxCalls \in Nat /\ MaxResets \in Nat

VARIABLES
  cpld_functions,           \* "sdp" or "esdp", found by cpld_validate
  cpld_lock_bits,           \* the card's lock bit
  dir,                      \* dir[r]: the pins in register r have their direction
  reg,                      \* reg[addr][slice], the CPLD registers
  pc, op, addr, buf, idx,   \* per thread: control, the call, slices done
  chk, rv,                  \* the check: next register, a direction was wrong
  left, resets,             \* calls and resets still to come
  delivered,                \* delivered[k]: the CPLD got the kick (history)
  meddled,                  \* meddled[p]: pins were written over during p's
                            \* transfer, or turned back before p's check of
                            \* them came (history)
  bypassed                  \* a caller went on without the lock (history)

callVars == <<op, addr, buf, left>>
vars == <<cpld_functions, cpld_lock_bits, dir, reg, pc, callVars, idx, chk, rv,
          resets, delivered, meddled, bypassed>>

Label == {"idle", "lock", "xfer", "slice", "check", "fix", "unlock", "sleep",
          "trylock", "pre", "prefix", "kunlock", "return"}

Init ==
  /\ cpld_functions \in {"sdp", "esdp"}
  /\ cpld_lock_bits = FALSE
  /\ dir = [r \in Reg |-> TRUE]                \* cpld_init has been called
  /\ reg = [a \in Addr |-> [i \in Slice |-> KickBits]]
  /\ pc = [p \in Proc |-> "idle"]
  /\ op = [p \in Proc |-> "cpld_read"]
  /\ addr = [p \in Proc |-> CSR]
  /\ buf = [p \in Proc |-> [i \in Slice |-> KickBits]]
  /\ idx = [p \in Proc |-> 0]
  /\ chk = [p \in Proc |-> 0]
  /\ rv = [p \in Proc |-> FALSE]
  /\ left = MaxCalls
  /\ resets = MaxResets
  /\ delivered = [p \in Proc |-> FALSE]
  /\ meddled = [p \in Proc |-> FALSE]
  /\ bypassed = FALSE

Goto(p, l) == pc' = [pc EXCEPT ![p] = l]
Driven == \A r \in Reg : dir[r]

\* What a strobe that nobody meant can do to the CPLD's registers.
Strays == {reg} \cup
          {[reg EXCEPT ![a][i] = b] : a \in Addr, i \in Slice, b \in Bits}

\* Threads in the middle of a transfer, from its first slice to its unlock.
InTransfer(q) ==
  \/ pc[q] = "slice"
  \/ q \in User /\ \/ pc[q] = "xfer" /\ idx[q] > 0
                   \/ pc[q] \in {"check", "fix", "unlock"}

\* p writes to pins: that is meddling with every other transfer.
Meddle(p) == [q \in Proc |-> meddled[q] \/ (q # p /\ InTransfer(q))]

-----------------------------------------------------------------------------
(* cpld_sdp_read and cpld_sdp_write *)

Call(u) ==
  /\ pc[u] = "idle" /\ left > 0
  /\ left' = left - 1
  /\ \E o \in {"cpld_read", "cpld_write"}, a \in Addr, b \in [Slice -> Bits] :
       /\ op' = [op EXCEPT ![u] = o]
       /\ addr' = [addr EXCEPT ![u] = a]
       /\ buf' = IF o = "cpld_write" THEN [buf EXCEPT ![u] = b] ELSE buf
  /\ Goto(u, "lock")
  /\ UNCHANGED <<cpld_functions, cpld_lock_bits, dir, reg, idx, chk, rv,
                 resets, delivered, meddled, bypassed>>

\* cpld_lock: test_and_set_bit succeeded, or the caller is in atomic context
\* and cpld_lock returned -1, which nobody looks at.
cpld_lock(u) ==
  /\ pc[u] = "lock"
  /\ \/ ~cpld_lock_bits /\ UNCHANGED bypassed
     \/ cpld_lock_bits /\ u \in Atomic /\ bypassed' = TRUE
  /\ cpld_lock_bits' = TRUE
  /\ Goto(u, "xfer")
  /\ idx' = [idx EXCEPT ![u] = 0]
  /\ meddled' = [meddled EXCEPT ![u] = FALSE]
  /\ UNCHANGED <<cpld_functions, dir, reg, callVars, chk, rv, resets,
                 delivered>>

\* The first pin of a slice is written.
SliceStart(p) ==
  /\ pc[p] = "xfer"
  /\ Goto(p, "slice")
  /\ meddled' = [Meddle(p) EXCEPT
                   ![p] = @ \/ \E q \in Proc \ {p} : pc[q] = "slice"]
  /\ UNCHANGED <<cpld_functions, cpld_lock_bits, dir, reg, callVars, idx, chk,
                 rv, resets, delivered, bypassed>>

\* The pins have been p's, and outputs, for the whole slice.
Clean(p) == Driven /\ ~meddled[p]

\* Mutant: the lock is given back after the last slice, before the checks.
NextSlice_Unlocks(u) ==
  LET last == idx[u] + 1 = NSlice IN
  /\ idx' = [idx EXCEPT ![u] = @ + 1]
  /\ Goto(u, IF last THEN "check" ELSE "xfer")
  /\ chk' = [chk EXCEPT ![u] = 0]
  /\ rv' = [rv EXCEPT ![u] = FALSE]
  /\ meddled' = Meddle(u)
  /\ cpld_lock_bits' = (cpld_lock_bits /\ ~last)
  /\ UNCHANGED <<cpld_functions, dir, op, addr, left, resets, delivered,
                 bypassed>>

\* On to the next slice; after the last one the check begins.
NextSlice(u) ==
  /\ idx' = [idx EXCEPT ![u] = @ + 1]
  /\ Goto(u, IF idx[u] + 1 = NSlice THEN "check" ELSE "xfer")
  /\ chk' = [chk EXCEPT ![u] = 0]
  /\ rv' = [rv EXCEPT ![u] = FALSE]
  /\ meddled' = Meddle(u)
  /\ UNCHANGED <<cpld_functions, cpld_lock_bits, dir, op, addr, left, resets,
                 delivered, bypassed>>

\* Mutant: the two bits are not shifted down to the low end.
RxTwo_Unshifted(u) ==
  /\ pc[u] = "slice" /\ op[u] = "cpld_read"
  /\ \E b \in Bits :
       /\ Clean(u) => b = reg[addr[u]][idx[u]]
       /\ buf' = [buf EXCEPT ![u][idx[u]] = 4 * b]
  /\ reg' \in IF Clean(u) THEN {reg} ELSE Strays
  /\ NextSlice(u)

\* cpld_sdp_rx_two is over.  With a pin floating, or somebody else at the
\* pins, any two bits come in, and the CPLD may have seen any strobe.
RxTwo(u) ==
  /\ pc[u] = "slice" /\ op[u] = "cpld_read"
  /\ \E b \in Bits :
       /\ Clean(u) => b = reg[addr[u]][idx[u]]
       /\ buf' = [buf EXCEPT ![u][idx[u]] = b]
  /\ reg' \in IF Clean(u) THEN {reg} ELSE Strays
  /\ NextSlice(u)

\* cpld_sdp_tx_two is over.
TxTwo(u) ==
  /\ pc[u] = "slice" /\ op[u] = "cpld_write"
  /\ reg' \in IF Clean(u) THEN {[reg EXCEPT ![addr[u]][idx[u]] = buf[u][idx[u]]]}
              ELSE Strays
  /\ NextSlice(u)
  /\ UNCHANGED buf

-----------------------------------------------------------------------------
(* cpld_sdp_set_pin_direction: register by register, the kick's first one   *)
(* under the label "pre" (esdp only)                                        *)

\* The check of register chk[p] is over: the next one, or what comes then.
AfterReg(p) ==
  LET last == chk[p] + 1 = NReg IN
  /\ chk' = [chk EXCEPT ![p] = IF last THEN 0 ELSE @ + 1]
  /\ Goto(p, IF pc[p] \in {"pre", "prefix"}
             THEN IF last THEN "xfer" ELSE "pre"
             ELSE IF ~last THEN "check"
             ELSE IF p \in User THEN "unlock" ELSE "return")

\* Mutant: the direction is repaired, but the caller is not told.
Verdict_Silent(p) == FALSE

\* Mutant: the result for one register replaces that for the others.
Verdict_Overwrites(p) == ~dir[chk[p]]

\* What the check has found so far, register chk[p] included.
Verdict(p) == rv[p] \/ ~dir[chk[p]]

\* cpld_sdp.c writes every register from the first wrong one on back,
\* cpld_esdp.c only a wrong one.
WritesBack(p) ==
  IF cpld_functions = "sdp" THEN rv[p] \/ ~dir[chk[p]] ELSE ~dir[chk[p]]

ReadDir(p) ==
  /\ pc[p] \in {"check", "pre"}
  /\ rv' = [rv EXCEPT ![p] = Verdict(p)]
  /\ IF WritesBack(p)
     THEN Goto(p, IF pc[p] = "pre" THEN "prefix" ELSE "fix") /\ UNCHANGED chk
     ELSE AfterReg(p)
  /\ UNCHANGED <<cpld_functions, cpld_lock_bits, dir, reg, callVars, idx,
                 resets, delivered, meddled, bypassed>>

\* Kicks behind their unlock whose check a wrong register would still reveal.
Unchecked(q, r) ==
  q \in Kicker /\ (pc[q] = "kunlock" \/ (pc[q] = "check" /\ chk[q] <= r))

\* What was read is written back, with the directions put right: the pins
\* take the levels that they had when it was read.
WriteDir(p) ==
  LET r == chk[p] IN
  /\ pc[p] \in {"fix", "prefix"}
  /\ dir' = [dir EXCEPT ![r] = TRUE]
  /\ reg' \in Strays
  /\ meddled' = [q \in Proc |-> Meddle(p)[q] \/
                                (q # p /\ ~dir[r] /\ Unchecked(q, r))]
  /\ AfterReg(p)
  /\ UNCHANGED <<cpld_functions, cpld_lock_bits, callVars, idx, rv, resets,
                 delivered, bypassed>>

-----------------------------------------------------------------------------
\* Mutant: the retry sleeps with the lock held.
cpld_unlock_NotOnRetry(u) ==
  /\ pc[u] = "unlock"
  /\ cpld_lock_bits' = rv[u]
  /\ Goto(u, IF rv[u] THEN "sleep" ELSE "idle")
  /\ UNCHANGED <<cpld_functions, dir, reg, callVars, idx, chk, rv, resets,
                 delivered, meddled, bypassed>>

\* The byte went through: unlock and return.  Otherwise unlock, sleep, retry.
cpld_unlock(u) ==
  /\ pc[u] = "unlock"
  /\ cpld_lock_bits' = FALSE
  /\ Goto(u, IF rv[u] THEN "sleep" ELSE "idle")
  /\ UNCHANGED <<cpld_functions, dir, reg, callVars, idx, chk, rv, resets,
                 delivered, meddled, bypassed>>

Wake(u) == /\ pc[u] = "sleep"
           /\ Goto(u, "lock")
           /\ UNCHANGED <<cpld_functions, cpld_lock_bits, dir, reg, callVars,
                          idx, chk, rv, resets, delivered, meddled, bypassed>>

-----------------------------------------------------------------------------
(* set_kick and cpld_sdp_kick *)

SetKick(k) ==
  /\ pc[k] = "idle" /\ left > 0
  /\ left' = left - 1
  /\ Goto(k, "trylock")
  /\ UNCHANGED <<cpld_functions, cpld_lock_bits, dir, reg, op, addr, buf, idx,
                 chk, rv, resets, delivered, meddled, bypassed>>

\* A failed cpld_trylock returns -1; set_kick calls schedule() and tries again.
cpld_trylock(k) ==
  /\ pc[k] = "trylock"
  /\ ~cpld_lock_bits
  /\ cpld_lock_bits' = TRUE
  /\ chk' = [chk EXCEPT ![k] = 0]
  /\ rv' = [rv EXCEPT ![k] = FALSE]
  /\ meddled' = [meddled EXCEPT ![k] = FALSE]
  /\ Goto(k, IF cpld_functions = "esdp" THEN "pre" ELSE "xfer")
  /\ UNCHANGED <<cpld_functions, dir, reg, callVars, idx, resets, delivered,
                 bypassed>>

\* The kick's one slice is over.
KickTx(k) ==
  /\ pc[k] = "slice"
  /\ \E got \in BOOLEAN :
       /\ Clean(k) => got
       /\ delivered' = [delivered EXCEPT ![k] = got]
  /\ reg' \in IF Clean(k) THEN {[reg EXCEPT ![CSR][i] = KickBits] : i \in KickSlice}
              ELSE Strays
  /\ meddled' = Meddle(k)
  /\ Goto(k, "kunlock")
  /\ UNCHANGED <<cpld_functions, cpld_lock_bits, dir, callVars, idx, chk, rv,
                 resets, bypassed>>

KickUnlock(k) ==
  /\ pc[k] = "kunlock"
  /\ cpld_lock_bits' = FALSE
  /\ chk' = [chk EXCEPT ![k] = 0]
  /\ rv' = [rv EXCEPT ![k] = FALSE]
  /\ Goto(k, "check")
  /\ UNCHANGED <<cpld_functions, dir, reg, callVars, idx, resets, delivered,
                 meddled, bypassed>>

KickReturn(k) ==
  /\ pc[k] = "return"
  /\ Goto(k, IF rv[k] THEN "trylock" ELSE "idle")
  /\ UNCHANGED <<cpld_functions, cpld_lock_bits, dir, reg, callVars, idx, chk,
                 rv, resets, delivered, meddled, bypassed>>

-----------------------------------------------------------------------------
\* The Intel driver resets the MAC of port i.  A register that a thread in a
\* slice has read and not yet written back (bit_up, bit_down) gets its
\* directions back at once (kept): the pins floated, and it does not show.
MacReset(i) ==
  /\ resets > 0
  /\ resets' = resets - 1
  /\ \E kept \in SUBSET Turned(i) :
       /\ kept # {} => \E p \in Proc : pc[p] = "slice"
       /\ dir' = [r \in Reg |-> dir[r] /\ r \notin Turned(i) \ kept]
       /\ meddled' = [q \in Proc |->
                        meddled[q] \/ (kept # {} /\ pc[q] = "slice")]
  /\ UNCHANGED <<cpld_functions, cpld_lock_bits, reg, pc, callVars, idx, chk,
                 rv, delivered, bypassed>>

\* Every thread has made all its calls: the only state that may stop.
Finished == /\ left = 0 /\ \A p \in Proc : pc[p] = "idle"
            /\ UNCHANGED vars

UserStep(u) == \/ cpld_lock(u) \/ SliceStart(u) \/ RxTwo(u) \/ TxTwo(u)
               \/ ReadDir(u) \/ WriteDir(u) \/ cpld_unlock(u) \/ Wake(u)
KickStep(k) == \/ cpld_trylock(k) \/ SliceStart(k) \/ KickTx(k)
               \/ KickUnlock(k) \/ ReadDir(k) \/ WriteDir(k) \/ KickReturn(k)

Next == \/ \E u \in User : Call(u) \/ UserStep(u)
        \/ \E k \in Kicker : SetKick(k) \/ KickStep(k)
        \/ \E i \in Port : MacReset(i)
        \/ Finished

Spec == Init /\ [][Next]_vars

\* The scheduler runs every thread.
FairSpec == /\ Spec
            /\ \A u \in User : WF_vars(UserStep(u))
            /\ \A k \in Kicker : WF_vars(KickStep(k))

-----------------------------------------------------------------------------
TypeOK ==
  /\ cpld_functions \in {"sdp", "esdp"}
  /\ cpld_lock_bits \in BOOLEAN
  /\ dir \in [Reg -> BOOLEAN]
  /\ reg \in [Addr -> [Slice -> Bits]]
  /\ pc \in [Proc -> Label]
  /\ op \in [Proc -> {"cpld_read", "cpld_write"}]
  /\ addr \in [Proc -> Addr]
  /\ buf \in [Proc -> [Slice -> Bits]]
  /\ idx \in [Proc -> Nat]
  /\ chk \in [Proc -> Reg]
  /\ rv \in [Proc -> BOOLEAN]
  /\ left \in Nat
  /\ resets \in Nat
  /\ delivered \in [Proc -> BOOLEAN]
  /\ meddled \in [Proc -> BOOLEAN]
  /\ bypassed \in BOOLEAN

\* A call that is about to return moved its byte: a read has what the
\* register holds, a write left its byte there, whatever resets hit the
\* transfer and however often it was repeated.  Excepted is a call whose pins
\* somebody else wrote to, be it the data or only the directions, and one
\* whose own write-back hid a reset (meddled).
Moved(u) == pc[u] = "unlock" /\ ~rv[u]
TransferExact ==
  \A u \in User : Moved(u) /\ ~meddled[u] => buf[u] = reg[addr[u]]

\* A kick that reports success reached the CPLD, unless somebody else wrote to
\* the pins during its slice, or turned them back between the slice and its
\* check of them.
KickDelivered ==
  \A k \in Kicker : pc[k] = "return" /\ ~rv[k] /\ ~meddled[k] => delivered[k]

\* While nobody goes on without the lock, a read or a write is only ever
\* meddled with by a kick that checks the directions after its unlock, or by
\* a reset that hits a pin just when it is written.
OnlyLateCheckMeddles ==
  [][~bypassed => \A u \in User : meddled'[u] /\ ~meddled[u] =>
       \/ \E k \in Kicker : pc[k] = "fix" /\ pc'[k] # pc[k]
       \/ resets' # resets]_vars

\* Every read, write and kick comes to an end once the resets do: a retry
\* gives the lock back before it sleeps.  (There are finitely many calls.)
EveryCallEnds == []<>(\A p \in Proc : pc[p] = "idle")
=============================================================================
