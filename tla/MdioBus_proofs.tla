--------------------------- MODULE MdioBus_proofs ---------------------------
(***************************************************************************)
(* Theorems about MdioBus for any threads, addresses and bytes, any number *)
(* of polls and calls.  A cycle outlives the poll that gave up on it, so   *)
(* the invariant follows the cycle in the MAC, not only the thread.        *)
(***************************************************************************)
EXTENDS MdioBus, TLAPS

LEMMA CallFields ==
  ASSUME TypeOK, NEW p \in Proc
  PROVE  /\ call[p] \in Calls /\ call[p].op \in {"cpu_read", "cpu_write"}
         /\ call[p].card = 0 /\ call[p].offset \in Addr /\ call[p].value \in Byte
         /\ call[p].op = "cpu_read" => call[p].value = 0
BY MdioAssumption DEF TypeOK, Calls

LEMMA Polls == 0 \in 0..(MaxPoll - 1)
BY MdioAssumption

-----------------------------------------------------------------------------
(* Types *)

LEMMA TypeInit == Init => TypeOK
<1> SUFFICES ASSUME Init PROVE TypeOK
  OBVIOUS
<1>1. call \in [Proc -> Calls] /\ reg \in [Addr -> Byte]
  BY MdioAssumption DEF Init, Calls
<1>2. 0 \in Byte /\ CSR \in Addr /\ MaxCalls \in 0..MaxCalls
  BY MdioAssumption
<1> QED  BY <1>1, <1>2, Polls DEF Init, TypeOK

LEMMA TypeStep == TypeOK /\ [Next]_vars => TypeOK'
<1> SUFFICES ASSUME TypeOK, [Next]_vars PROVE TypeOK'
  OBVIOUS
<1> USE CallFields, Polls, MdioAssumption DEF TypeOK, Goto, hw, jobs, history
<1>1. ASSUME NEW p \in Proc, NEW c \in Calls, Begin(p, c), kicks' \subseteq Proc
      PROVE  TypeOK'
  BY <1>1 DEF Begin
<1>2. ASSUME NEW p \in Proc, Kick(p) PROVE TypeOK'
  <2>1. [op |-> "cpu_write", card |-> 0, offset |-> CSR, value |-> KickByte] \in Calls
    BY DEF Calls
  <2> QED  BY <1>1, <1>2, <2>1 DEF Kick
<1>3. ASSUME NEW p \in Proc, FlashAccess(p) PROVE TypeOK'
  <2>1. reg' \in [Addr -> Byte] /\ res' \in [Proc -> Byte]
    BY <1>3 DEF FlashAccess
  <2> QED  BY <1>3, <2>1 DEF FlashAccess
<1>4. ASSUME NEW p \in Proc, cpld_lock(p) PROVE TypeOK'
  BY <1>4 DEF cpld_lock
<1>5. ASSUME NEW p \in Proc, WriteData(p) PROVE TypeOK'
  BY <1>5 DEF WriteData
<1>6. ASSUME NEW p \in Proc, AddressCycle(p) PROVE TypeOK'
  <2>1. msca' \in Cycles \cup {None}
    BY <1>6 DEF AddressCycle, StartCycle, Cycles
  <2> QED  BY <1>6, <2>1 DEF AddressCycle, StartCycle
<1>7. ASSUME NEW p \in Proc, DataCycle(p) PROVE TypeOK'
  <2>1. msca' \in Cycles \cup {None}
    BY <1>7 DEF DataCycle, StartCycle, Cycles
  <2> QED  BY <1>7, <2>1 DEF DataCycle, StartCycle
<1>8. ASSUME NEW p \in Proc, PollDone(p) PROVE TypeOK'
  <2>1. /\ res' \in [Proc -> Byte]
        /\ \E l \in {"command", "fetch", "unlock"} : pc' = [pc EXCEPT ![p] = l]
    BY <1>8 DEF PollDone
  <2> QED  BY <1>8, <2>1 DEF PollDone
<1>9. ASSUME NEW p \in Proc, PollBusy(p) PROVE TypeOK'
  <2>1. polls[p] + 1 \in 0..(MaxPoll - 1)
    BY <1>9 DEF PollBusy
  <2>2. polls' \in [Proc -> 0..(MaxPoll - 1)]
    BY <1>9, <2>1 DEF PollBusy
  <2> QED  BY <1>9, <2>2 DEF PollBusy
<1>10. ASSUME NEW p \in Proc, Timeout(p) PROVE TypeOK'
  BY <1>10 DEF Timeout
<1>11. ASSUME NEW p \in Proc, FetchData(p) PROVE TypeOK'
  BY <1>11 DEF FetchData
<1>12. ASSUME NEW p \in Proc, cpld_unlock(p) PROVE TypeOK'
  BY <1>12 DEF cpld_unlock
<1>13. ASSUME NEW p \in Proc, Return(p) PROVE TypeOK'
  BY <1>13 DEF Return
<1>14. CASE Complete
  <2>1. latch' \in Addr /\ rdata' \in Byte /\ reg' \in [Addr -> Byte]
    BY <1>14 DEF Complete, Cycles
  <2> QED  BY <1>14, <2>1 DEF Complete
<1>15. CASE UNCHANGED vars
  BY <1>15 DEF vars
<1> QED  BY <1>1, <1>2, <1>3, <1>4, <1>5, <1>6, <1>7, <1>8, <1>9, <1>10, <1>11,
            <1>12, <1>13, <1>14, <1>15 DEF Next, Step, Invoke, Finished

\* The MAC's registers, the CPLD's and the threads stay in their ranges: the
\* poll loops of cpld_mdio.c end after MaxPoll looks.
THEOREM TypeCorrect == Spec => []TypeOK
BY TypeInit, TypeStep, PTL DEF Spec

-----------------------------------------------------------------------------
(* The lock *)

\* Where a thread has the card's lock, unless it was bypassed.
Inside(p) == pc[p] \in {"data", "address", "poll_address", "command",
                        "poll_command", "fetch", "unlock", "failed"}
LockInv ==
  /\ \A p \in Proc : Inside(p) \/ pc[p] = "lock" => cpld_functions = "mdio"
  /\ \A p \in Proc : pc[p] \in {"access", "return"} => cpld_functions = "flash"
  /\ ~bypassed => /\ \A p \in Proc : Inside(p) => cpld_lock_bits
                  /\ \A p, q \in Proc : Inside(p) /\ Inside(q) => p = q

LEMMA LockStep == TypeOK /\ LockInv /\ [Next]_vars => LockInv'
<1> SUFFICES ASSUME TypeOK, LockInv, [Next]_vars PROVE LockInv'
  OBVIOUS
<1> USE DEF LockInv, Inside
\* A step of p that neither takes nor gives back the lock.
<1>1. ASSUME NEW p \in Proc, NEW l, pc' = [pc EXCEPT ![p] = l],
             UNCHANGED <<cpld_functions, cpld_lock_bits>>, bypassed => bypassed',
             \/ Inside(p) /\ l \in {"address", "poll_address", "command", "failed",
                                    "poll_command", "fetch", "unlock"}
             \/ l = "idle"
             \/ l = "lock" /\ cpld_functions = "mdio"
             \/ l \in {"access", "return"} /\ cpld_functions = "flash"
      PROVE  LockInv'
  <2>1. pc'[p] = l /\ \A q \in Proc : q # p => pc'[q] = pc[q]
    BY <1>1 DEF TypeOK
  <2> QED  BY <1>1, <2>1
<1> USE DEF Goto, hw, jobs, history
<1>2. ASSUME NEW p \in Proc, NEW c \in Calls, Begin(p, c) PROVE LockInv'
  <2>1. \E l \in {"access", "lock"} :
          /\ pc' = [pc EXCEPT ![p] = l]
          /\ l = "lock" <=> cpld_functions = "mdio"
    BY <1>2 DEF Begin, TypeOK
  <2> QED  BY <1>1, <1>2, <2>1 DEF Begin, TypeOK
<1>3. ASSUME NEW p \in Proc, Kick(p) PROVE LockInv'
  <2>1. [op |-> "cpu_write", card |-> 0, offset |-> CSR, value |-> KickByte] \in Calls
    BY MdioAssumption DEF Calls
  <2> QED  BY <1>2, <1>3, <2>1 DEF Kick
<1>4. ASSUME NEW p \in Proc, FlashAccess(p) \/ Return(p) PROVE LockInv'
  BY <1>1, <1>4 DEF FlashAccess, Return
<1>5. ASSUME NEW p \in Proc, cpld_lock(p) PROVE LockInv'
  <2>1. /\ pc[p] = "lock" /\ pc'[p] \in {"address", "data"}
        /\ \A q \in Proc : q # p => pc'[q] = pc[q]
        /\ cpld_functions' = cpld_functions /\ cpld_lock_bits'
        /\ ~bypassed' => ~bypassed /\ ~cpld_lock_bits
    BY <1>5 DEF cpld_lock, TypeOK
  <2> QED  BY <2>1
<1>6. ASSUME NEW p \in Proc,
             WriteData(p) \/ AddressCycle(p) \/ DataCycle(p) \/ FetchData(p)
      PROVE  LockInv'
  BY <1>1, <1>6 DEF WriteData, AddressCycle, DataCycle, FetchData, StartCycle
<1>7. ASSUME NEW p \in Proc, PollDone(p) PROVE LockInv'
  <2>1. \E l \in {"command", "fetch", "unlock"} : pc' = [pc EXCEPT ![p] = l]
    BY <1>7 DEF PollDone
  <2> QED  BY <1>1, <1>7, <2>1 DEF PollDone, Polling
<1>8. ASSUME NEW p \in Proc, Timeout(p) PROVE LockInv'
  BY <1>1, <1>8 DEF Timeout, Polling
<1>9. ASSUME NEW p \in Proc, PollBusy(p) PROVE LockInv'
  BY <1>9 DEF PollBusy
<1>10. ASSUME NEW p \in Proc, cpld_unlock(p) PROVE LockInv'
  <2>1. /\ pc[p] \in {"unlock", "failed"} /\ pc'[p] = "idle"
        /\ \A q \in Proc : q # p => pc'[q] = pc[q]
        /\ UNCHANGED <<cpld_functions, bypassed>>
    BY <1>10 DEF cpld_unlock, TypeOK
  <2> QED  BY <2>1
<1>11. CASE Complete
  BY <1>11 DEF Complete
<1>12. CASE UNCHANGED vars
  BY <1>12 DEF vars
<1> QED  BY <1>2, <1>3, <1>4, <1>5, <1>6, <1>7, <1>8, <1>9, <1>10, <1>11, <1>12
         DEF Next, Step, Invoke, Finished

\* overrun is said of an address cycle, from its start to the end of the call.
OverrunInv == \A p \in Proc : overrun[p] =>
                pc[p] \notin {"idle", "access", "return", "lock", "data", "address"}

LEMMA OverrunStep == TypeOK /\ OverrunInv /\ [Next]_vars => OverrunInv'
<1> SUFFICES ASSUME TypeOK, OverrunInv, [Next]_vars PROVE OverrunInv'
  OBVIOUS
<1> USE DEF OverrunInv, Goto, history
<1>1. ASSUME NEW p \in Proc, NEW l, pc' = [pc EXCEPT ![p] = l],
             \/ ~overrun'[p]
             \/ l \in {"command", "poll_command", "fetch", "unlock", "failed"},
             \A q \in Proc : q # p => overrun'[q] = overrun[q]
      PROVE  OverrunInv'
  <2>1. pc'[p] = l /\ \A q \in Proc : q # p => pc'[q] = pc[q]
    BY <1>1 DEF TypeOK
  <2> QED  BY <1>1, <2>1
<1>2. ASSUME NEW p \in Proc, NEW c \in Calls, Begin(p, c) PROVE OverrunInv'
  BY <1>1, <1>2 DEF Begin
<1>3. ASSUME NEW p \in Proc, Kick(p) PROVE OverrunInv'
  BY <1>1, <1>3 DEF Kick, Begin
<1>4. ASSUME NEW p \in Proc, FlashAccess(p) \/ cpld_lock(p) \/ WriteData(p) \/ Return(p)
      PROVE  OverrunInv'
  BY <1>1, <1>4 DEF FlashAccess, cpld_lock, WriteData, Return
<1>5. ASSUME NEW p \in Proc, AddressCycle(p) PROVE OverrunInv'
  <2>1. /\ pc'[p] = "poll_address"
        /\ \A q \in Proc : q # p => pc'[q] = pc[q] /\ overrun'[q] = overrun[q]
    BY <1>5 DEF AddressCycle, TypeOK
  <2> QED  BY <2>1
<1>6. ASSUME NEW p \in Proc, DataCycle(p) \/ Timeout(p) \/ FetchData(p) PROVE OverrunInv'
  BY <1>1, <1>6 DEF DataCycle, Timeout, FetchData
<1>7. ASSUME NEW p \in Proc, PollDone(p) PROVE OverrunInv'
  <2>1. \E l \in {"command", "fetch", "unlock"} : pc' = [pc EXCEPT ![p] = l]
    BY <1>7 DEF PollDone
  <2> QED  BY <1>1, <1>7, <2>1 DEF PollDone
<1>8. ASSUME NEW p \in Proc, cpld_unlock(p) PROVE OverrunInv'
  <2>1. ~overrun'[p] /\ \A q \in Proc : q # p => overrun'[q] = overrun[q]
    BY <1>8 DEF cpld_unlock, TypeOK
  <2> QED  BY <1>1, <1>8, <2>1 DEF cpld_unlock
<1>9. ASSUME UNCHANGED <<pc, overrun>> PROVE OverrunInv'
  BY <1>9
<1> QED  BY <1>2, <1>3, <1>4, <1>5, <1>6, <1>7, <1>8, <1>9
         DEF Next, Step, Invoke, Finished, PollBusy, Complete, vars

-----------------------------------------------------------------------------
(* A call's two cycles *)

InData(p) == [cycle |-> IF Reads(p) THEN "read" ELSE "write",
              addr |-> call[p].offset]

\* What the cycles of p have done so far, if the first one was started while no
\* other was in progress.  The one in progress is p's, and after the last one
\* none is: nothing completes behind p's back.
Exact(p) ==
  /\ pc[p] = "poll_address" =>
       \/ msca = [cycle |-> "address", addr |-> call[p].offset]
       \/ msca = None /\ latch = call[p].offset
  /\ pc[p] = "command" => msca = None /\ latch = call[p].offset
  /\ pc[p] = "poll_command" =>
       /\ latch = call[p].offset
       /\ \/ msca = InData(p)
          \/ /\ msca = None
             /\ (IF Reads(p) THEN rdata ELSE wdata) = reg[call[p].offset]
  /\ pc[p] = "fetch" => Reads(p) /\ msca = None /\ rdata = reg[call[p].offset]
  /\ pc[p] = "unlock" => /\ msca = None
                         /\ (IF Reads(p) THEN res[p] ELSE wdata) = reg[call[p].offset]
  /\ /\ pc[p] \in {"address", "poll_address", "command", "poll_command", "unlock"}
     /\ ~Reads(p)
     => wdata = call[p].value
ExactInv == ~bypassed => \A p \in Proc : ~overrun[p] => Exact(p)

\* Until a poll gives up, a cycle in progress is waited for.
Awaited == /\ \A p \in Proc : ~overrun[p] /\ pc[p] # "failed"
           /\ msca # None => \E p \in Proc : Polling(p)
WaitedInv == ~timedout /\ ~bypassed => Awaited

\* While p has the lock the others are nowhere in a cycle.
LEMMA ExactOne ==
  ASSUME NEW p \in Proc, ~bypassed' => \A q \in Proc : q # p => ~Inside(q)',
         ~bypassed' /\ ~overrun'[p] => Exact(p)'
  PROVE  ExactInv'
<1>1. \A q \in Proc : ~Inside(q)' => Exact(q)'
  BY DEF Inside, Exact
<1> QED  BY <1>1 DEF ExactInv

LEMMA ExactStep ==
  TypeOK /\ LockInv /\ OverrunInv /\ ExactInv /\ [Next]_vars => ExactInv'
<1> SUFFICES ASSUME TypeOK, LockInv, OverrunInv, ExactInv, [Next]_vars PROVE ExactInv'
  OBVIOUS
<1> USE DEF Goto, hw, jobs, history
<1>1. ASSUME NEW p \in Proc, Inside(p), bypassed' = bypassed,
             \A q \in Proc : q # p => pc'[q] = pc[q],
             ~bypassed /\ ~overrun'[p] => Exact(p)'
      PROVE  ExactInv'
  <2>1. ~bypassed' => \A q \in Proc : q # p => ~Inside(q)'
    BY <1>1 DEF LockInv, Inside
  <2> QED  BY <1>1, <2>1, ExactOne
<1>2. ASSUME NEW p \in Proc, NEW c \in Calls, Begin(p, c) PROVE ExactInv'
  <2>1. /\ pc'[p] \in {"access", "lock"}
        /\ \A q \in Proc : q # p => pc'[q] = pc[q] /\ call'[q] = call[q]
        /\ UNCHANGED <<msca, latch, rdata, wdata, reg, res, overrun, bypassed>>
    BY <1>2 DEF Begin, TypeOK
  <2>2. \A q \in Proc : q # p /\ Exact(q) => Exact(q)'
    BY <2>1 DEF Exact, InData, Reads
  <2>3. Exact(p)'
    BY <2>1 DEF Exact
  <2> QED  BY <2>1, <2>2, <2>3 DEF ExactInv
<1>3. ASSUME NEW p \in Proc, Kick(p) PROVE ExactInv'
  <2>1. [op |-> "cpu_write", card |-> 0, offset |-> CSR, value |-> KickByte] \in Calls
    BY MdioAssumption DEF Calls
  <2> QED  BY <1>2, <1>3, <2>1 DEF Kick
<1>4. ASSUME NEW p \in Proc, FlashAccess(p) \/ Return(p) PROVE ExactInv'
  <2>1. /\ pc[p] \in {"access", "return"} /\ pc'[p] \in {"return", "idle"}
        /\ \A q \in Proc : q # p => pc'[q] = pc[q]
    BY <1>4 DEF FlashAccess, Return, TypeOK
  <2>2. \A q \in Proc : ~Inside(q)'
    BY <2>1 DEF LockInv, Inside
  <2>3. Exact(p)'
    BY <2>2 DEF Exact, Inside
  <2> QED  BY <2>2, <2>3, ExactOne
<1>5. ASSUME NEW p \in Proc, cpld_lock(p) PROVE ExactInv'
  <2>1. /\ pc[p] = "lock" /\ pc'[p] = IF Reads(p) THEN "address" ELSE "data"
        /\ \A q \in Proc : q # p => pc'[q] = pc[q]
        /\ UNCHANGED call
        /\ ~bypassed' => ~bypassed /\ ~cpld_lock_bits
    BY <1>5 DEF cpld_lock, TypeOK
  <2>2. ~bypassed' => \A q \in Proc : q # p => ~Inside(q)'
    BY <2>1 DEF LockInv, Inside
  <2>3. Exact(p)'
    BY <2>1 DEF Exact, Reads
  <2> QED  BY <2>2, <2>3, ExactOne
<1>6. ASSUME NEW p \in Proc, WriteData(p) PROVE ExactInv'
  <2>1. /\ pc[p] = "data" /\ pc'[p] = "address" /\ wdata' = call[p].value
        /\ \A q \in Proc : q # p => pc'[q] = pc[q]
        /\ UNCHANGED <<call, bypassed>>
    BY <1>6 DEF WriteData, TypeOK
  <2>2. Exact(p)'
    BY <2>1 DEF Exact
  <2> QED  BY <1>1, <2>1, <2>2 DEF Inside
<1>7. ASSUME NEW p \in Proc, AddressCycle(p) PROVE ExactInv'
  <2>1. /\ pc[p] = "address" /\ pc'[p] = "poll_address"
        /\ \A q \in Proc : q # p => pc'[q] = pc[q] /\ overrun'[q] = overrun[q]
        /\ overrun'[p] <=> msca # None
        /\ UNCHANGED <<call, wdata, bypassed>>
        /\ msca = None => msca' = [cycle |-> "address", addr |-> call[p].offset]
    BY <1>7 DEF AddressCycle, StartCycle, TypeOK
  <2>2. ~bypassed /\ ~Reads(p) => overrun[p] \/ wdata = call[p].value
    BY <2>1 DEF ExactInv, Exact
  <2>3. ~overrun[p]
    BY <2>1 DEF OverrunInv
  <2>4. ~bypassed /\ ~overrun'[p] => Exact(p)'
    BY <2>1, <2>2, <2>3 DEF Exact, Reads
  <2> QED  BY <1>1, <2>1, <2>4 DEF Inside
<1>8. ASSUME NEW p \in Proc, DataCycle(p) PROVE ExactInv'
  <2>1. /\ pc[p] = "command" /\ pc'[p] = "poll_command"
        /\ \A q \in Proc : q # p => pc'[q] = pc[q]
        /\ UNCHANGED <<call, wdata, latch, bypassed, overrun>>
        /\ msca = None => msca' = InData(p)
    BY <1>8 DEF DataCycle, StartCycle, InData, TypeOK
  <2>2. ~bypassed /\ ~overrun[p] => Exact(p)
    BY DEF ExactInv
  <2>3. Exact(p) => Exact(p)'
    BY <2>1 DEF Exact, InData, Reads
  <2> QED  BY <1>1, <2>1, <2>2, <2>3 DEF Inside
<1>9. ASSUME NEW p \in Proc, PollDone(p) PROVE ExactInv'
  <2>1. /\ pc[p] \in {"poll_address", "poll_command"} /\ msca = None
        /\ pc'[p] = IF pc[p] = "poll_address" THEN "command"
                   ELSE IF Reads(p) THEN "fetch" ELSE "unlock"
        /\ \A q \in Proc : q # p => pc'[q] = pc[q]
        /\ UNCHANGED <<call, msca, wdata, latch, rdata, reg, bypassed, overrun>>
    BY <1>9 DEF PollDone, Polling, TypeOK
  <2>2. ~bypassed /\ ~overrun[p] => Exact(p)
    BY DEF ExactInv
  <2>3. msca # InData(p) /\ msca.cycle # "address"
    BY <2>1 DEF InData, None
  <2>4. Exact(p) => Exact(p)'
    BY <2>1, <2>3 DEF Exact, Reads
  <2> QED  BY <1>1, <2>1, <2>2, <2>4 DEF Inside
<1>10. ASSUME NEW p \in Proc, Timeout(p) PROVE ExactInv'
  <2>1. /\ pc[p] \in {"poll_address", "poll_command"} /\ pc'[p] = "failed"
        /\ \A q \in Proc : q # p => pc'[q] = pc[q]
        /\ UNCHANGED bypassed
    BY <1>10 DEF Timeout, Polling, TypeOK
  <2>2. Exact(p)'
    BY <2>1 DEF Exact
  <2> QED  BY <1>1, <2>1, <2>2 DEF Inside
<1>11. ASSUME NEW p \in Proc, FetchData(p) PROVE ExactInv'
  <2>1. /\ pc[p] = "fetch" /\ pc'[p] = "unlock" /\ res'[p] = rdata
        /\ \A q \in Proc : q # p => pc'[q] = pc[q]
        /\ UNCHANGED <<call, msca, wdata, reg, bypassed, overrun>>
    BY <1>11 DEF FetchData, TypeOK
  <2>2. ~bypassed /\ ~overrun[p] => Exact(p)
    BY DEF ExactInv
  <2>3. Exact(p) => Exact(p)'
    BY <2>1 DEF Exact, Reads
  <2> QED  BY <1>1, <2>1, <2>2, <2>3 DEF Inside
<1>12. ASSUME NEW p \in Proc, cpld_unlock(p) PROVE ExactInv'
  <2>1. /\ pc[p] \in {"unlock", "failed"} /\ pc'[p] = "idle"
        /\ \A q \in Proc : q # p => pc'[q] = pc[q]
        /\ UNCHANGED bypassed
    BY <1>12 DEF cpld_unlock, TypeOK
  <2>2. Exact(p)'
    BY <2>1 DEF Exact
  <2> QED  BY <1>1, <2>1, <2>2 DEF Inside
<1>13. CASE Complete
  <2>1. /\ msca # None /\ msca' = None
        /\ UNCHANGED <<call, pc, wdata, res, bypassed, overrun>>
    BY <1>13 DEF Complete
  <2>2. ASSUME NEW p \in Proc, Exact(p) PROVE Exact(p)'
    <3>1. call[p].offset \in Addr
      BY CallFields
    <3>2. CASE pc[p] = "poll_address"
      <4>1. latch' = call[p].offset
        BY <1>13, <2>1, <2>2, <3>2 DEF Complete, Exact
      <4> QED  BY <2>1, <2>2, <3>2, <4>1 DEF Exact, Reads
    <3>3. CASE pc[p] = "poll_command"
      <4>1. /\ msca = InData(p) /\ latch = call[p].offset
            /\ ~Reads(p) => wdata = call[p].value
        BY <2>1, <2>2, <3>3 DEF Exact
      <4>2. latch' = call[p].offset
        BY <1>13, <4>1 DEF Complete, InData
      <4>3. CASE Reads(p)
        <5>1. rdata' = reg'[call[p].offset]
          BY <1>13, <4>1, <4>3 DEF Complete, InData
        <5> QED  BY <2>1, <3>3, <4>2, <4>3, <5>1 DEF Exact, Reads
      <4>4. CASE ~Reads(p)
        <5>1. wdata' = reg'[call[p].offset]
          BY <1>13, <4>1, <4>4, <3>1, <2>1 DEF Complete, InData, TypeOK
        <5> QED  BY <2>1, <3>3, <4>1, <4>2, <4>4, <5>1 DEF Exact, Reads
      <4> QED  BY <4>3, <4>4
    <3>4. CASE pc[p] \notin {"poll_address", "poll_command"}
      BY <2>1, <2>2, <3>4 DEF Exact, Reads
    <3> QED  BY <3>2, <3>3, <3>4
  <2> QED  BY <2>1, <2>2 DEF ExactInv
<1>14. ASSUME UNCHANGED <<msca, latch, rdata, wdata, reg, pc, call, res, overrun, bypassed>>
       PROVE  ExactInv'
  BY <1>14 DEF ExactInv, Exact, InData, Reads
<1>15. ASSUME NEW p \in Proc, PollBusy(p) PROVE ExactInv'
  BY <1>14, <1>15 DEF PollBusy
<1>16. CASE UNCHANGED vars
  BY <1>14, <1>16 DEF vars
<1> QED  BY <1>2, <1>3, <1>4, <1>5, <1>6, <1>7, <1>8, <1>9, <1>10, <1>11, <1>12,
            <1>13, <1>15, <1>16 DEF Next, Step, Invoke, Finished

\* A call both of whose cycles ended in time moved its byte, whatever earlier
\* calls left behind in the MAC (cpld_mdio_read, cpld_mdio_write): the cycle
\* in progress is the caller's own from its address cycle on.
THEOREM CallsMoveTheirByte == Spec => []MdioExact
<1>1. Init => LockInv /\ OverrunInv /\ ExactInv
  BY DEF Init, LockInv, Inside, OverrunInv, ExactInv, Exact
<1>2. LockInv /\ OverrunInv /\ ExactInv => MdioExact
  BY DEF ExactInv, Exact, MdioExact
<1> QED  BY <1>1, <1>2, TypeInit, TypeStep, LockStep, OverrunStep, ExactStep, PTL DEF Spec
-----------------------------------------------------------------------------
(***************************************************************************)
(* Refinement.  Until a poll gives up, a cycle in progress is that of the  *)
(* one thread that polls for it.  Complete of a read or write cycle is the *)
(* instant at which that thread's call takes effect.                       *)
(***************************************************************************)
LEMMA Sticky == [Next]_vars /\ ~timedout' /\ ~bypassed' => ~timedout /\ ~bypassed
<1> USE DEF history
<1>1. \A p \in Proc : (\E c \in Calls : Invoke(p, c)) \/ Kick(p) => UNCHANGED history
  BY DEF Kick, Invoke, Begin
<1>2. \A p \in Proc : Step(p) => /\ timedout => timedout'
                                 /\ bypassed => bypassed'
  BY DEF Step, FlashAccess, cpld_lock, WriteData, AddressCycle, DataCycle, StartCycle,
         PollDone, PollBusy, Timeout, FetchData, cpld_unlock, Return
<1> QED  BY <1>1, <1>2 DEF Next, Complete, Finished, vars

LEMMA WaitedStep == TypeOK /\ LockInv /\ WaitedInv /\ [Next]_vars => WaitedInv'
<1> SUFFICES ASSUME TypeOK, LockInv, WaitedInv, [Next]_vars, ~timedout', ~bypassed'
             PROVE  Awaited'
  BY DEF WaitedInv
<1>1. ~timedout /\ ~bypassed
  BY Sticky
<1>2. /\ \A p \in Proc : ~overrun[p] /\ pc[p] # "failed"
      /\ msca # None => \E p \in Proc : Polling(p)
  BY <1>1 DEF WaitedInv, Awaited
<1> USE DEF Goto, hw, jobs, history, Awaited
\* A step of p that is not polling and leaves the cycle alone.
<1>3. ASSUME NEW p \in Proc, ~Polling(p), NEW l, l # "failed", pc' = [pc EXCEPT ![p] = l],
             msca' = msca, \A q \in Proc : ~overrun'[q]
      PROVE  Awaited'
  BY <1>2, <1>3 DEF Polling, TypeOK
<1>4. ASSUME NEW p \in Proc, NEW c \in Calls, Begin(p, c)
      PROVE  Awaited'
  BY <1>2, <1>3, <1>4 DEF Begin, Polling
<1>5. ASSUME NEW p \in Proc, Kick(p)
      PROVE  Awaited'
  BY <1>2, <1>3, <1>5 DEF Kick, Begin, Polling
<1>6. ASSUME NEW p \in Proc,
             \/ FlashAccess(p) \/ cpld_lock(p) \/ WriteData(p) \/ FetchData(p) \/ Return(p)
      PROVE  Awaited'
  BY <1>2, <1>3, <1>6 DEF FlashAccess, cpld_lock, WriteData, FetchData, Return, Polling
<1>7. ASSUME NEW p \in Proc, AddressCycle(p)
      PROVE  Awaited'
  <2>1. pc[p] = "address" /\ overrun'[p] = (msca # None) /\ pc'[p] = "poll_address"
    BY <1>7 DEF AddressCycle, TypeOK
  <2>2. \A q \in Proc : q # p => pc'[q] = pc[q] /\ overrun'[q] = overrun[q]
    BY <1>7 DEF AddressCycle, TypeOK
  <2>3. msca = None
    BY <1>1, <1>2, <2>1 DEF LockInv, Inside, Polling
  <2> QED  BY <1>2, <2>1, <2>2, <2>3 DEF Polling
<1>8. ASSUME NEW p \in Proc, DataCycle(p)
      PROVE  Awaited'
  BY <1>2, <1>8 DEF DataCycle, Polling, TypeOK
<1>9. ASSUME NEW p \in Proc, PollDone(p)
      PROVE  Awaited'
  BY <1>2, <1>9 DEF PollDone, TypeOK
<1>10. ASSUME NEW p \in Proc, cpld_unlock(p)
       PROVE  Awaited'
  <2>1. \A q \in Proc : ~overrun'[q]
    BY <1>2, <1>10 DEF cpld_unlock, TypeOK
  <2> QED  BY <1>3, <1>10, <2>1 DEF cpld_unlock, Polling
<1>11. ASSUME NEW p \in Proc, Timeout(p) PROVE FALSE
  BY <1>11 DEF Timeout
<1>12. ASSUME UNCHANGED <<pc, overrun>>, msca' = msca \/ msca' = None
       PROVE  Awaited'
  BY <1>2, <1>12 DEF Polling
<1> QED  BY <1>4, <1>5, <1>6, <1>7, <1>8, <1>9, <1>10, <1>11, <1>12
         DEF Next, Step, Invoke, Finished, PollBusy, Complete, vars

RInv == TypeOK /\ LockInv /\ OverrunInv /\ ExactInv /\ WaitedInv

LEMMA RefineInit == Init => Registers!Init
<1> SUFFICES ASSUME Init PROVE Registers!Init
  OBVIOUS
<1>1. status = [p \in Proc |-> "idle"] /\ result = [p \in Proc |-> 0]
  BY DEF Init, status, result, Served
<1>2. call \in [Proc -> Registers!Calls]
  BY MdioAssumption DEF Init, Registers!Calls, Registers!Op
<1>3. mem = [c \in {0} |-> [o \in Addr |-> 0]]
  BY DEF Init, mem
<1> QED  BY <1>1, <1>2, <1>3 DEF Registers!Init

\* What a step that only moves p leaves of the others in the abstract state.
LEMMA OthersStay ==
  ASSUME TypeOK, NEW p \in Proc,
         \A q \in Proc \ {p} :
           /\ pc'[q] = pc[q] /\ call'[q] = call[q] /\ res'[q] = res[q]
           /\ pc[q] \in {"poll_command", "fetch"} => UNCHANGED <<msca, rdata>>
  PROVE  /\ status' = [status EXCEPT ![p] = status'[p]]
         /\ result' = [result EXCEPT ![p] = result'[p]]
<1>1. ASSUME NEW q \in Proc \ {p}
      PROVE  status'[q] = status[q] /\ result'[q] = result[q]
  BY <1>1 DEF TypeOK, status, result, Served, Reads
<1>2. /\ status = [q \in Proc |-> status[q]]
      /\ status' = [q \in Proc |-> status'[q]]
      /\ result = [q \in Proc |-> result[q]]
      /\ result' = [q \in Proc |-> result'[q]]
  BY DEF status, result
<1> QED  BY <1>1, <1>2

\* Every step of the code is a step of the register file or changes nothing
\* that the register file can see.
LEMMA RefineStep ==
  ASSUME RInv, [Next]_vars, ~timedout', ~bypassed'
  PROVE  [Registers!Next]_(Registers!vars)
<1> USE CallFields DEF Goto, hw, jobs, history
<1>1. ~timedout /\ ~bypassed
  BY Sticky
<1>2. /\ TypeOK
      /\ \A p \in Proc : Exact(p) /\ pc[p] # "failed"
      /\ \A p, q \in Proc : Inside(p) /\ Inside(q) => p = q
      /\ msca # None => \E p \in Proc : Polling(p)
  BY <1>1 DEF RInv, LockInv, ExactInv, WaitedInv, Awaited
<1>3. /\ status = [q \in Proc |-> status[q]]
      /\ result = [q \in Proc |-> result[q]]
      /\ mem = [c \in {0} |-> reg] /\ mem' = [c \in {0} |-> reg']
  BY DEF status, result, mem
\* A step of p that the register file does not see.
<1>4. ASSUME NEW p \in Proc,
             UNCHANGED <<call, reg>>,
             status'[p] = status[p], result'[p] = result[p],
             \A q \in Proc \ {p} :
               /\ pc'[q] = pc[q] /\ res'[q] = res[q]
               /\ pc[q] \in {"poll_command", "fetch"} => UNCHANGED <<msca, rdata>>
      PROVE  UNCHANGED Registers!vars
  <2>1. /\ status' = [status EXCEPT ![p] = status'[p]]
        /\ result' = [result EXCEPT ![p] = result'[p]]
    BY <1>2, <1>4, OthersStay
  <2>2. status' = status /\ result' = result
    BY <1>3, <1>4, <2>1
  <2> QED  BY <1>3, <1>4, <2>2 DEF Registers!vars
<1>5. ASSUME NEW p \in Proc, NEW c \in Calls, Begin(p, c) PROVE Registers!Invoke(p)
  <2>1. pc[p] = "idle" /\ pc'[p] \in {"access", "lock"}
    BY <1>2, <1>5 DEF Begin, TypeOK
  <2>2. status[p] = "idle" /\ status'[p] = "called" /\ result'[p] = result[p]
    BY <1>5, <2>1 DEF Begin, status, result, Served
  <2>3. /\ status' = [status EXCEPT ![p] = status'[p]]
        /\ result' = [result EXCEPT ![p] = result'[p]]
    BY <1>2, <1>5, OthersStay DEF Begin, TypeOK
  <2>4. result' = result /\ mem' = mem
    BY <1>3, <1>5, <2>2, <2>3 DEF Begin
  <2>5. c \in Registers!Calls /\ call' = [call EXCEPT ![p] = c]
    BY <1>5, MdioAssumption DEF Begin, Calls, Registers!Calls, Registers!Op
  <2> QED  BY <2>2, <2>3, <2>4, <2>5 DEF Registers!Invoke
<1>6. ASSUME NEW p \in Proc, Kick(p) PROVE Registers!Invoke(p)
  <2>1. [op |-> "cpu_write", card |-> 0, offset |-> CSR, value |-> KickByte] \in Calls
    BY MdioAssumption DEF Calls
  <2> QED  BY <1>5, <1>6, <2>1 DEF Kick
<1>7. ASSUME NEW p \in Proc, FlashAccess(p)
      PROVE  Registers!PerformRead(p) \/ Registers!PerformWrite(p)
  <2>1. pc[p] = "access" /\ pc'[p] = "return" /\ call' = call
    BY <1>2, <1>7 DEF FlashAccess, TypeOK
  <2>2. status[p] = "called" /\ status'[p] = "done" /\ result'[p] = res'[p]
    BY <2>1 DEF status, result, Served
  <2>3. /\ status' = [status EXCEPT ![p] = status'[p]]
        /\ result' = [result EXCEPT ![p] = result'[p]]
    BY <1>2, <1>7, OthersStay DEF FlashAccess, TypeOK
  <2>4. call[p].card = 0 /\ call[p].op \in {"cpu_read", "cpu_write"}
    BY <1>2
  <2>5. CASE Reads(p)
    <3>1. res'[p] = mem[call[p].card][call[p].offset] /\ mem' = mem
      BY <1>2, <1>3, <1>7, <2>4, <2>5 DEF FlashAccess, TypeOK
    <3> QED  BY <2>1, <2>2, <2>3, <2>5, <3>1 DEF Registers!PerformRead, Reads
  <2>6. CASE ~Reads(p)
    <3>1. /\ res'[p] = 0
          /\ mem' = [mem EXCEPT ![call[p].card][call[p].offset] = call[p].value]
      BY <1>2, <1>3, <1>7, <2>4, <2>6 DEF FlashAccess, TypeOK
    <3> QED  BY <2>1, <2>2, <2>3, <2>4, <2>6, <3>1 DEF Registers!PerformWrite, Reads
  <2> QED  BY <2>5, <2>6
<1>8. ASSUME NEW p \in Proc, cpld_lock(p) \/ WriteData(p) PROVE UNCHANGED Registers!vars
  <2>1. pc[p] \in {"lock", "data"} /\ pc'[p] \in {"address", "data"} /\ UNCHANGED <<call, res>>
    BY <1>2, <1>8 DEF cpld_lock, WriteData, TypeOK
  <2>2. status'[p] = status[p] /\ result'[p] = result[p]
    BY <2>1 DEF status, result, Served
  <2> QED  BY <1>2, <1>4, <1>8, <2>2 DEF cpld_lock, WriteData, TypeOK
\* The other threads are not in a cycle.
<1>9. ASSUME NEW p \in Proc, Inside(p)
      PROVE  \A q \in Proc \ {p} : pc[q] \notin {"poll_command", "fetch"}
  BY <1>2, <1>9 DEF Inside
<1>10. ASSUME NEW p \in Proc, AddressCycle(p) PROVE UNCHANGED Registers!vars
  <2>1. /\ pc[p] = "address" /\ pc'[p] = "poll_address"
        /\ \A q \in Proc \ {p} : pc'[q] = pc[q]
        /\ UNCHANGED <<call, res, reg>>
    BY <1>2, <1>10 DEF AddressCycle, StartCycle, TypeOK
  <2>2. status'[p] = status[p] /\ result'[p] = result[p]
    BY <2>1 DEF status, result, Served
  <2> QED  BY <1>4, <1>9, <2>1, <2>2 DEF Inside
<1>11. ASSUME NEW p \in Proc, DataCycle(p) PROVE UNCHANGED Registers!vars
  <2>1. /\ pc[p] = "command" /\ pc'[p] = "poll_command"
        /\ \A q \in Proc \ {p} : pc'[q] = pc[q]
        /\ UNCHANGED <<call, res, reg>>
    BY <1>2, <1>11 DEF DataCycle, StartCycle, TypeOK
  <2>2. msca' # None
    BY <1>2, <1>11, <2>1 DEF DataCycle, StartCycle, Exact, None
  <2>3. status'[p] = status[p] /\ result'[p] = result[p]
    BY <2>1, <2>2 DEF status, result, Served
  <2> QED  BY <1>4, <1>9, <2>1, <2>3 DEF Inside
<1>12. ASSUME NEW p \in Proc, PollDone(p) PROVE UNCHANGED Registers!vars
  <2>1. /\ pc[p] \in {"poll_address", "poll_command"} /\ msca = None
        /\ pc'[p] = IF pc[p] = "poll_address" THEN "command"
                    ELSE IF Reads(p) THEN "fetch" ELSE "unlock"
        /\ \A q \in Proc \ {p} : pc'[q] = pc[q] /\ res'[q] = res[q]
        /\ res'[p] = IF pc[p] = "poll_address" \/ Reads(p) THEN res[p] ELSE 0
        /\ UNCHANGED <<call, reg, msca, rdata>>
    BY <1>2, <1>12 DEF PollDone, Polling, TypeOK
  <2>2. status'[p] = status[p]
    BY <2>1 DEF status, Served
  <2>3. result'[p] = result[p]
    BY <2>1 DEF result, Served, Reads
  <2> QED  BY <1>4, <2>1, <2>2, <2>3
<1>13. ASSUME NEW p \in Proc, PollBusy(p) PROVE UNCHANGED Registers!vars
  BY <1>4, <1>13 DEF PollBusy, status, result, Served, Reads
<1>14. ASSUME NEW p \in Proc, Timeout(p) PROVE FALSE
  BY <1>14 DEF Timeout
<1>15. ASSUME NEW p \in Proc, FetchData(p) PROVE UNCHANGED Registers!vars
  <2>1. /\ pc[p] = "fetch" /\ pc'[p] = "unlock" /\ res'[p] = rdata
        /\ \A q \in Proc \ {p} : pc'[q] = pc[q] /\ res'[q] = res[q]
        /\ UNCHANGED <<call, reg, msca, rdata>>
    BY <1>2, <1>15 DEF FetchData, TypeOK
  <2>2. Reads(p)
    BY <1>2, <2>1 DEF Exact
  <2>3. status'[p] = status[p] /\ result'[p] = result[p]
    BY <2>1, <2>2 DEF status, result, Served, Reads
  <2> QED  BY <1>4, <2>1, <2>3
<1>16. ASSUME NEW p \in Proc, cpld_unlock(p) \/ Return(p) PROVE Registers!Return(p)
  <2>1. pc[p] \in {"unlock", "return"} /\ pc'[p] = "idle" /\ UNCHANGED <<call, reg, res>>
    BY <1>2, <1>16 DEF cpld_unlock, Return, TypeOK
  <2>2. status[p] = "done" /\ status'[p] = "idle" /\ result'[p] = result[p]
    BY <2>1 DEF status, result, Served
  <2>3. /\ status' = [status EXCEPT ![p] = status'[p]]
        /\ result' = [result EXCEPT ![p] = result'[p]]
    BY <1>2, <1>16, OthersStay DEF cpld_unlock, Return, TypeOK
  <2>4. result' = result /\ mem' = mem
    BY <1>3, <2>1, <2>2, <2>3
  <2> QED  BY <2>1, <2>2, <2>3, <2>4 DEF Registers!Return
<1>17. ASSUME Complete PROVE [Registers!Next]_(Registers!vars)
  <2>1. PICK p \in Proc : Polling(p)
    BY <1>2, <1>17 DEF Complete
  <2>2. /\ msca # None /\ msca' = None /\ UNCHANGED <<call, pc, res>>
    BY <1>17 DEF Complete
  <2>3. Inside(p) /\ Exact(p)
    BY <1>2, <2>1 DEF Inside, Polling
  <2>4. CASE pc[p] = "poll_address"
    <3>1. UNCHANGED <<rdata, reg>>
      BY <1>17, <2>2, <2>3, <2>4 DEF Exact, Complete
    <3>2. status'[p] = status[p] /\ result'[p] = result[p]
      BY <2>2, <2>4 DEF status, result, Served
    <3>3. UNCHANGED Registers!vars
      BY <1>4, <1>9, <2>2, <2>3, <3>1, <3>2
    <3> QED  BY <3>3
  <2>5. CASE pc[p] = "poll_command"
    <3>1. /\ msca = InData(p) /\ latch = call[p].offset
          /\ ~Reads(p) => wdata = call[p].value
      BY <2>2, <2>3, <2>5 DEF Exact
    <3>2. status[p] = "called" /\ status'[p] = "done"
      BY <2>2, <2>5 DEF status, Served
    <3>3. /\ status' = [status EXCEPT ![p] = status'[p]]
          /\ result' = [result EXCEPT ![p] = result'[p]]
      BY <1>2, <1>9, <2>2, <2>3, OthersStay
    <3>4. result'[p] = IF Reads(p) THEN rdata' ELSE 0
      BY <2>2, <2>5 DEF result, Served, Reads
    <3>5. call[p].card = 0 /\ call[p].op \in {"cpu_read", "cpu_write"}
      BY <1>2
    <3>6. CASE Reads(p)
      <4>1. rdata' = mem[call[p].card][call[p].offset] /\ mem' = mem
        BY <1>3, <1>17, <3>1, <3>5, <3>6 DEF Complete, InData
      <4>2. Registers!PerformRead(p)
        BY <2>2, <3>2, <3>3, <3>4, <3>6, <4>1 DEF Registers!PerformRead, Reads
      <4> QED  BY <4>2 DEF Registers!Next
    <3>7. CASE ~Reads(p)
      <4>1. mem' = [mem EXCEPT ![call[p].card][call[p].offset] = call[p].value]
        BY <1>3, <1>17, <3>1, <3>5, <3>7 DEF Complete, InData
      <4>2. Registers!PerformWrite(p)
        BY <2>2, <3>2, <3>3, <3>4, <3>5, <3>7, <4>1 DEF Registers!PerformWrite, Reads
      <4> QED  BY <4>2 DEF Registers!Next
    <3> QED  BY <3>6, <3>7
  <2> QED  BY <2>1, <2>4, <2>5 DEF Polling
<1>18. ASSUME UNCHANGED vars PROVE UNCHANGED Registers!vars
  BY <1>18 DEF vars, Registers!vars, status, result, mem, Served, Reads
<1> QED  BY <1>5, <1>6, <1>7, <1>8, <1>10, <1>11, <1>12, <1>13, <1>14, <1>15, <1>16,
            <1>17, <1>18 DEF Next, Step, Invoke, Finished, Registers!Next

\* cpld_mdio_read, cpld_mdio_write and cpld_mdio_kick, and their counterparts
\* for FLASH cards, are calls on a register file that take effect at one
\* instant, up to the first poll that gives up or caller that goes on without
\* the lock: the promise the CPU layer relies on.
THEOREM RegisterFile == Spec => Linearizable
<1>1. Init => RInv
  BY TypeInit DEF Init, RInv, LockInv, Inside, OverrunInv, ExactInv, Exact, WaitedInv,
                  Awaited
<1>2. RInv /\ [Next]_vars => RInv'
  BY TypeStep, LockStep, OverrunStep, ExactStep, WaitedStep DEF RInv
<1>3. RInv /\ [Next]_vars => [~timedout' /\ ~bypassed' => Registers!Next]_(Registers!vars)
  BY RefineStep
<1> QED  BY <1>1, <1>2, <1>3, RefineInit, PTL DEF Spec, Linearizable
=============================================================================
