-------------------------- MODULE CpuAccess_proofs --------------------------
(***************************************************************************)
(* Theorems about CpuAccess for every set of threads, cards, offsets and   *)
(* bytes, and every limit on the polls.                                    *)
(***************************************************************************)
EXTENDS CpuAccess, TLAPS

\* The fields of a call, and that calls exist.
LEMMA CallFields ==
  /\ \A c \in Calls : /\ c.op \in Op
                      /\ c.card \in Card
                      /\ c.offset \in Offset
                      /\ c.value \in Byte
  /\ 0 \in Byte /\ Byte \subseteq 0..255
  BY ByteAssumption DEF Calls

LEMMA TypeInit == Init => TypeOK
  BY CallFields, BoundAssumption DEF Init, TypeOK, Label

LEMMA TypeStep == TypeOK /\ [Next]_vars => TypeOK'
<1> SUFFICES ASSUME TypeOK, [Next]_vars PROVE TypeOK'
  OBVIOUS
<1> USE CallFields DEF TypeOK, Label, history, cpuVars
<1>1. ASSUME NEW p \in Proc, Invoke(p) PROVE TypeOK'
  BY <1>1 DEF Invoke, Goto, cpldVars
<1>2. ASSUME NEW p \in Proc, cpu_lock(p) PROVE TypeOK'
  BY <1>2 DEF cpu_lock, Goto, cpldVars
<1>3. ASSUME NEW p \in Proc, WriteAddr(p) PROVE TypeOK'
  BY <1>3 DEF WriteAddr, Goto
<1>4. ASSUME NEW p \in Proc, WriteDat(p) PROVE TypeOK'
  BY <1>4 DEF WriteDat, Goto
<1>5. ASSUME NEW p \in Proc, WriteCsr(p) PROVE TypeOK'
  <2>1. CSR' \in [Card -> {0, 8, 12}]
    BY <1>5 DEF WriteCsr, Command
  <2>2. overrun' \in [Proc -> BOOLEAN]
    <3>1. (avr[call[p].card] # {}) \in BOOLEAN
      OBVIOUS
    <3>2. overrun' = [overrun EXCEPT ![p] = avr[call[p].card] # {}]
      BY <1>5 DEF WriteCsr
    <3>3. QED
      BY <3>1, <3>2, Zenon DEF TypeOK
  <2>3. QED
    BY <1>5, <2>1, <2>2 DEF WriteCsr, Goto
<1>6. ASSUME NEW p \in Proc, PollDone(p) PROVE TypeOK'
  BY <1>6 DEF PollDone, AfterWait, Goto, cpldVars
<1>7. ASSUME NEW p \in Proc, PollBusy(p) PROVE TypeOK'
  BY <1>7 DEF PollBusy, cpldVars
<1>8. ASSUME NEW p \in Proc, Timeout(p) PROVE TypeOK'
  <2>1. AfterWait(p, Fail)
    BY <1>8 DEF Timeout
  <2>2. /\ UNCHANGED <<cpu_lock_bits, call, polls, left, overrun, cpldVars,
                    cpuVars>>
        /\ gaveup' = [gaveup EXCEPT ![p] = TRUE]
    BY <1>8 DEF Timeout
  <2>3. pc' \in [Proc -> Label] /\ res' \in [Proc -> 0..255]
    <3>1. CASE call[p].op = "cpu_write"
      <4>1. pc' = [pc EXCEPT ![p] = "unlock"] /\ res' = [res EXCEPT ![p] = 255]
        BY <2>1, <3>1 DEF AfterWait, Goto, Fail
      <4>2. QED
        BY <4>1
    <3>2. CASE call[p].op # "cpu_write"
      BY <2>1, <3>2 DEF AfterWait, Goto
    <3>3. QED
      BY <3>1, <3>2
  <2>4. QED
    BY <2>2, <2>3 DEF cpldVars
<1>9. ASSUME NEW p \in Proc, ReadHostDat(p) PROVE TypeOK'
  BY <1>9 DEF ReadHostDat, Goto, cpldVars
<1>10. ASSUME NEW p \in Proc, cpu_unlock(p) PROVE TypeOK'
  BY <1>10 DEF cpu_unlock, Goto, cpldVars
<1>11. ASSUME NEW c \in Card, AvrFetch(c) PROVE TypeOK'
  <2>1. CSR[c] \in {8, 12} /\ AVR_ADDR[c] \in Offset /\ AVR_DAT[c] \in Byte
    BY <1>11 DEF AvrFetch, Busy
  <2>2. avr' \in [Card -> SUBSET Work]
    BY <1>11, <2>1 DEF AvrFetch, Work
  <2>3. QED
    BY <1>11, <2>2 DEF AvrFetch, procVars, cpldVars
<1>12. ASSUME NEW c \in Card, AvrFinish(c) PROVE TypeOK'
  <2>1. CSR' \in [Card -> {0, 8, 12}] /\ avr' \in [Card -> SUBSET Work]
    BY <1>12 DEF AvrFinish
  <2>2. HOST_DAT' \in [Card -> Byte] /\ mem' \in [Card -> [Offset -> Byte]]
    <3>1. PICK o \in Offset, v \in Byte :
            \/ HOST_DAT' = [HOST_DAT EXCEPT ![c] = mem[c][o]] /\ UNCHANGED mem
            \/ mem' = [mem EXCEPT ![c][o] = v] /\ UNCHANGED HOST_DAT
      BY <1>12 DEF AvrFinish
    <3>2. CASE HOST_DAT' = [HOST_DAT EXCEPT ![c] = mem[c][o]] /\ UNCHANGED mem
      BY <3>2
    <3>3. CASE mem' = [mem EXCEPT ![c][o] = v] /\ UNCHANGED HOST_DAT
      BY <3>3
    <3>4. QED
      BY <3>1, <3>2, <3>3
  <2>3. QED
    BY <1>12, <2>1, <2>2 DEF AvrFinish, procVars
<1>13. CASE UNCHANGED vars
  BY <1>13 DEF vars, procVars, cpldVars
<1>14. QED
  BY <1>1, <1>2, <1>3, <1>4, <1>5, <1>6, <1>7, <1>8, <1>9, <1>10, <1>11,
     <1>12, <1>13 DEF Next, Step, Finished

\* Every variable keeps its type in every reachable state.
THEOREM TypeCorrect == Spec => []TypeOK
  BY TypeInit, TypeStep, PTL DEF Spec

-----------------------------------------------------------------------------
(***************************************************************************)
(* Exclusion is inductive with the types; CommandIntact needs it, and so   *)
(* does AckedCallExact, which needs besides what a call has achieved that   *)
(* was not put over another (ServedWait, ServedHost): the CPU is idle, the  *)
(* register and HOST_DAT hold what they should.                            *)
(***************************************************************************)
Register(p) == mem[call[p].card][call[p].offset]

\* The CPU is at a command only while CSR is busy.
AtWork == \A c \in Card : avr[c] # {} => Busy(c)

ServedWait(p) ==
  pc[p] = "wait" /\ ~overrun[p] /\ ~Busy(call[p].card) =>
    /\ call[p].op = "cpu_write" => Register(p) = call[p].value
    /\ call[p].op = "cpu_read" => Register(p) = HOST_DAT[call[p].card]

ServedHost(p) ==
  pc[p] = "host" =>
    /\ call[p].op = "cpu_read"
    /\ ~overrun[p] /\ ~gaveup[p] =>
         ~Busy(call[p].card) /\ Register(p) = HOST_DAT[call[p].card]

\* No command of another caller runs on the card until the lock is released.
ServedQuiet(p) ==
  pc[p] = "unlock" /\ ~overrun[p] =>
    /\ call[p].op = "cpu_write" /\ res[p] = 0 =>
         ~Busy(call[p].card) /\ Register(p) = call[p].value
    /\ call[p].op = "cpu_read" /\ ~gaveup[p] =>
         ~Busy(call[p].card) /\ Register(p) = res[p]

Served3(p) == ServedWait(p) /\ ServedHost(p) /\ ServedQuiet(p)

Acked == AtWork /\ \A p \in Proc : Served3(p)

IInv == TypeOK /\ Exclusion /\ CommandIntact /\ Acked

LEMMA ExclusionStep == TypeOK /\ Exclusion /\ [Next]_vars => Exclusion'
<1> SUFFICES ASSUME TypeOK, Exclusion, [Next]_vars PROVE Exclusion'
  OBVIOUS
<1> USE CallFields DEF TypeOK, Exclusion, Locked
<1>1. ASSUME NEW p \in Proc, Invoke(p) PROVE Exclusion'
  BY <1>1 DEF Invoke, Goto
<1>2. ASSUME NEW p \in Proc, cpu_lock(p) PROVE Exclusion'
  BY <1>2 DEF cpu_lock, Goto
<1>3. ASSUME NEW p \in Proc, cpu_unlock(p) PROVE Exclusion'
  BY <1>3 DEF cpu_unlock, Goto
<1>4. ASSUME NEW p \in Proc, NEW l, l \notin {"idle", "lock"}, Locked(p),
             Goto(p, l), UNCHANGED <<cpu_lock_bits, call>>
      PROVE Exclusion'
  BY <1>4 DEF Goto
<1>5. ASSUME NEW p \in Proc, WriteAddr(p) \/ WriteDat(p) \/ WriteCsr(p)
      PROVE Exclusion'
  BY <1>4, <1>5 DEF WriteAddr, WriteDat, WriteCsr
<1>6. ASSUME NEW p \in Proc, PollDone(p) \/ Timeout(p) \/ ReadHostDat(p)
      PROVE Exclusion'
  BY <1>4, <1>6 DEF PollDone, Timeout, ReadHostDat, AfterWait
<1>7. ASSUME NEW p \in Proc, PollBusy(p) PROVE Exclusion'
  BY <1>7 DEF PollBusy
<1>8. ASSUME NEW c \in Card, AvrFetch(c) \/ AvrFinish(c) PROVE Exclusion'
  BY <1>8 DEF AvrFetch, AvrFinish, procVars
<1>9. CASE UNCHANGED vars
  BY <1>9 DEF vars, procVars
<1>10. QED
  BY <1>1, <1>2, <1>3, <1>5, <1>6, <1>7, <1>8, <1>9 DEF Next, Step, Finished

\* Two threads are never inside a command of the same card.
THEOREM MutualExclusion == Spec => []Exclusion
<1>1. Init => Exclusion
  BY DEF Init, Exclusion, Locked
<1>2. QED
  BY <1>1, TypeCorrect, ExclusionStep, PTL DEF Spec

-----------------------------------------------------------------------------
\* CommandIntact as it is about p.
IntactOf(p) == LET c == call[p].card IN
  /\ pc[p] \in {"dat", "csr", "wait"} => AVR_ADDR[c] = call[p].offset
  /\ pc[p] \in {"csr", "wait"} /\ call[p].op = "cpu_write" =>
       AVR_DAT[c] = call[p].value
  /\ pc[p] = "wait" /\ CSR[c] # 0 => CSR[c] = Command(call[p].op)
  /\ pc[p] = "wait" /\ ~overrun[p] =>
       \A w \in avr[c] : /\ w.csr = CSR[c]
                         /\ w.offset = AVR_ADDR[c]
                         /\ w.value = AVR_DAT[c]

LEMMA IntactIsOf == CommandIntact <=> \A p \in Proc : IntactOf(p)
  BY DEF CommandIntact, IntactOf, Busy

LEMMA IntactIsOfNext == CommandIntact' <=> \A p \in Proc : IntactOf(p)'
  BY DEF CommandIntact, IntactOf, Busy

\* A step that moves p and writes at most its own card's AVR_ADDR, AVR_DAT
\* and CSR does not touch the commands of the others.
LEMMA CommandOthers ==
  ASSUME TypeOK, Exclusion, NEW p \in Proc, NEW q \in Proc, q # p,
         IntactOf(q), Locked(p),
         pc'[q] = pc[q], overrun'[q] = overrun[q], call'[q] = call[q],
         UNCHANGED avr,
         \A c \in Card : c # call[p].card =>
           /\ AVR_ADDR'[c] = AVR_ADDR[c] /\ AVR_DAT'[c] = AVR_DAT[c]
           /\ CSR'[c] = CSR[c]
  PROVE  IntactOf(q)'
<1>1. CASE ~Locked(q)
  BY <1>1 DEF Locked, IntactOf
<1>2. CASE Locked(q)
  <2>1. call[q].card # call[p].card /\ call[q].card \in Card
    BY <1>2, CallFields DEF Exclusion, TypeOK
  <2>2. /\ AVR_ADDR'[call[q].card] = AVR_ADDR[call[q].card]
        /\ AVR_DAT'[call[q].card] = AVR_DAT[call[q].card]
        /\ CSR'[call[q].card] = CSR[call[q].card]
    BY <2>1
  <2>3. QED
    BY <2>2 DEF IntactOf
<1>3. QED
  BY <1>1, <1>2

LEMMA CommandStep ==
  TypeOK /\ Exclusion /\ CommandIntact /\ AtWork /\ [Next]_vars
    => CommandIntact'
<1> SUFFICES ASSUME TypeOK, Exclusion, CommandIntact, AtWork, [Next]_vars,
                    NEW q \in Proc
             PROVE  IntactOf(q)'
  BY IntactIsOfNext
<1> USE CallFields DEF history, cpuVars
<1>a. IntactOf(q)
  BY IntactIsOf
<1>1. ASSUME NEW p \in Proc, Invoke(p) \/ cpu_lock(p) PROVE IntactOf(q)'
  <2>1. CASE q = p
    BY <1>1, <2>1 DEF Invoke, cpu_lock, Goto, IntactOf, TypeOK
  <2>2. CASE q # p
    <3>1. /\ pc'[q] = pc[q] /\ call'[q] = call[q] /\ overrun'[q] = overrun[q]
          /\ UNCHANGED <<AVR_ADDR, AVR_DAT, CSR, avr>>
      BY <1>1, <2>2 DEF Invoke, cpu_lock, Goto, TypeOK, cpldVars
    <3>2. QED
      BY <1>a, <3>1 DEF IntactOf
  <2>3. QED
    BY <2>1, <2>2
<1>3. ASSUME NEW p \in Proc, WriteAddr(p) PROVE IntactOf(q)'
  <2>1. CASE q = p
    BY <1>3, <2>1 DEF WriteAddr, Goto, IntactOf, TypeOK
  <2>2. CASE q # p
    BY <1>3, <1>a, <2>2, CommandOthers DEF WriteAddr, Goto, Locked, TypeOK
  <2>3. QED
    BY <2>1, <2>2
<1>4. ASSUME NEW p \in Proc, WriteDat(p) PROVE IntactOf(q)'
  <2>1. CASE q = p
    BY <1>4, <1>a, <2>1 DEF WriteDat, Goto, IntactOf, TypeOK
  <2>2. CASE q # p
    BY <1>4, <1>a, <2>2, CommandOthers DEF WriteDat, Goto, Locked, TypeOK
  <2>3. QED
    BY <2>1, <2>2
<1>5. ASSUME NEW p \in Proc, WriteCsr(p) PROVE IntactOf(q)'
  <2>1. pc' = [pc EXCEPT ![p] = "wait"] /\ pc[p] = "csr"
    BY <1>5 DEF WriteCsr, Goto
  <2>2. CSR' = [CSR EXCEPT ![call[p].card] = Command(call[p].op)]
    BY <1>5 DEF WriteCsr
  <2>3. ~overrun'[p] => avr[call[p].card] = {}
    <3>1. overrun' = [overrun EXCEPT ![p] = avr[call[p].card] # {}]
      BY <1>5 DEF WriteCsr
    <3>2. overrun'[p] = (avr[call[p].card] # {})
      BY <3>1, Zenon DEF TypeOK
    <3>3. QED
      BY <3>2
  <2>4. UNCHANGED <<call, avr, AVR_ADDR, AVR_DAT>>
    BY <1>5 DEF WriteCsr
  <2>5. CASE q = p
    BY <1>a, <2>1, <2>2, <2>3, <2>4, <2>5 DEF IntactOf, TypeOK
  <2>6. CASE q # p
    <3>1. overrun'[q] = overrun[q]
      BY <1>5, <2>6 DEF WriteCsr, TypeOK
    <3>2. QED
      BY <1>a, <2>1, <2>2, <2>4, <2>6, <3>1, CommandOthers DEF Locked, TypeOK
  <2>7. QED
    BY <2>5, <2>6
<1>6. ASSUME NEW p \in Proc,
             PollDone(p) \/ Timeout(p) \/ ReadHostDat(p) \/ cpu_unlock(p)
      PROVE  IntactOf(q)'
  <2>1. UNCHANGED <<call, AVR_ADDR, AVR_DAT, CSR, avr, overrun>>
    BY <1>6 DEF PollDone, Timeout, ReadHostDat, cpu_unlock, cpldVars
  <2>2. \/ pc'[q] = pc[q]
        \/ pc'[q] \notin {"dat", "csr", "wait"}
    BY <1>6 DEF PollDone, Timeout, ReadHostDat, cpu_unlock, AfterWait, Goto,
                TypeOK
  <2>3. QED
    BY <1>a, <2>1, <2>2 DEF IntactOf
<1>7. ASSUME UNCHANGED <<pc, call, AVR_ADDR, AVR_DAT, CSR, avr, overrun>>
      PROVE  IntactOf(q)'
  BY <1>a, <1>7 DEF IntactOf
<1>8. ASSUME NEW p \in Proc, PollBusy(p) PROVE IntactOf(q)'
  BY <1>7, <1>8 DEF PollBusy, cpldVars
<1>9. ASSUME NEW c \in Card, AvrFetch(c) PROVE IntactOf(q)'
  BY <1>a, <1>9 DEF AvrFetch, procVars, cpldVars, IntactOf, TypeOK
<1>10. ASSUME NEW c \in Card, AvrFinish(c) PROVE IntactOf(q)'
  BY <1>a, <1>10 DEF AvrFinish, procVars, IntactOf, TypeOK
<1>11. CASE UNCHANGED vars
  BY <1>7, <1>11 DEF vars, procVars, cpldVars
<1>12. QED
  BY <1>1, <1>3, <1>4, <1>5, <1>6, <1>8, <1>9, <1>10, <1>11
     DEF Next, Step, Finished

LEMMA AtWorkStep == TypeOK /\ AtWork /\ [Next]_vars => AtWork'
<1> SUFFICES ASSUME TypeOK, AtWork, [Next]_vars PROVE AtWork'
  OBVIOUS
<1> USE CallFields DEF TypeOK, AtWork, Busy
<1>1. ASSUME UNCHANGED <<CSR, avr>> PROVE AtWork'
  BY <1>1
<1>2. ASSUME NEW p \in Proc, WriteCsr(p) PROVE AtWork'
  BY <1>2 DEF WriteCsr, Command, cpuVars
<1>3. ASSUME NEW c \in Card, AvrFetch(c) PROVE AtWork'
  BY <1>3 DEF AvrFetch, cpldVars
<1>4. ASSUME NEW c \in Card, AvrFinish(c) PROVE AtWork'
  BY <1>4 DEF AvrFinish
<1>5. ASSUME NEW p \in Proc,
             \/ Invoke(p) \/ cpu_lock(p) \/ WriteAddr(p) \/ WriteDat(p)
             \/ PollDone(p) \/ PollBusy(p) \/ Timeout(p) \/ ReadHostDat(p)
             \/ cpu_unlock(p)
      PROVE  UNCHANGED <<CSR, avr>>
  BY <1>5 DEF Invoke, cpu_lock, WriteAddr, WriteDat, PollDone, PollBusy,
              Timeout, ReadHostDat, cpu_unlock, cpldVars, cpuVars
<1>6. CASE UNCHANGED vars
  BY <1>6 DEF vars, cpldVars, cpuVars
<1>7. QED
  BY <1>1, <1>2, <1>3, <1>4, <1>5, <1>6 DEF Next, Step, Finished
-----------------------------------------------------------------------------
\* A step that moves only p, and leaves registers and HOST_DAT alone, leaves
\* what the others have achieved.
LEMMA ServedOthers ==
  ASSUME TypeOK, Acked, NEW p \in Proc, NEW q \in Proc, q # p,
         pc'[q] = pc[q], call'[q] = call[q], res'[q] = res[q],
         overrun'[q] = overrun[q], gaveup'[q] = gaveup[q],
         pc[q] \in {"wait", "host", "unlock"} =>
           CSR'[call[q].card] = CSR[call[q].card],
         UNCHANGED <<HOST_DAT, mem>>
  PROVE  Served3(q)'
  BY DEF TypeOK, Acked, Served3, ServedWait, ServedHost, ServedQuiet, Register,
         Busy

LEMMA AckStep == TypeOK /\ Exclusion /\ CommandIntact /\ Acked /\ [Next]_vars
                   => Acked'
<1> SUFFICES ASSUME TypeOK, Exclusion, CommandIntact, Acked, [Next]_vars,
                    NEW r \in Proc
             PROVE  Served3(r)'
  BY AtWorkStep DEF Acked
<1> USE CallFields DEF TypeOK, history, cpuVars
<1>1. ASSUME NEW p \in Proc, Invoke(p) PROVE Served3(r)'
  <2>1. CASE r = p
    BY <1>1, <2>1 DEF Invoke, Goto, Served3, ServedWait, ServedHost, ServedQuiet
  <2>2. CASE r # p
    BY <1>1, <2>2, ServedOthers DEF Invoke, Goto, cpldVars
  <2>3. QED
    BY <2>1, <2>2
<1>2. ASSUME NEW p \in Proc, cpu_lock(p) \/ WriteAddr(p) \/ WriteDat(p)
      PROVE  Served3(r)'
  <2>1. CASE r = p
    BY <1>2, <2>1 DEF cpu_lock, WriteAddr, WriteDat, Goto, Served3,
                      ServedWait, ServedHost, ServedQuiet
  <2>2. CASE r # p
    BY <1>2, <2>2, ServedOthers DEF cpu_lock, WriteAddr, WriteDat, Goto, cpldVars
  <2>3. QED
    BY <2>1, <2>2
<1>3. ASSUME NEW p \in Proc, WriteCsr(p) PROVE Served3(r)'
  <2>1. CASE r = p
    <3>1. pc'[p] = "wait" /\ CSR'[call[p].card] # 0 /\ UNCHANGED call
      BY <1>3 DEF WriteCsr, Goto, Command
    <3>2. QED
      BY <2>1, <3>1 DEF Served3, ServedWait, ServedHost, ServedQuiet, Busy
  <2>2. CASE r # p
    <3>1. pc[r] \in {"wait", "host", "unlock"} => call[r].card # call[p].card
      BY <1>3, <2>2 DEF WriteCsr, Exclusion, Locked
    <3>2. QED
      BY <1>3, <2>2, <3>1, ServedOthers DEF WriteCsr, Goto
  <2>3. QED
    BY <2>1, <2>2
<1>4. ASSUME NEW p \in Proc, PollDone(p) PROVE Served3(r)'
  <2>1. CASE r = p
    <3>1. pc[p] = "wait" /\ ~Busy(call[p].card) /\ ServedWait(p)
      BY <1>4 DEF PollDone, Acked, Served3
    <3>2. UNCHANGED <<call, overrun, HOST_DAT, mem, CSR>>
      BY <1>4 DEF PollDone, cpldVars
    <3>3. CASE call[p].op = "cpu_write"
      <4>1. pc'[p] = "unlock"
        BY <1>4, <3>3 DEF PollDone, AfterWait, Goto
      <4>2. QED
        BY <2>1, <3>1, <3>2, <3>3, <4>1
           DEF Served3, ServedWait, ServedHost, ServedQuiet, Register, Busy
    <3>4. CASE call[p].op = "cpu_read"
      <4>1. pc'[p] = "host"
        BY <1>4, <3>4 DEF PollDone, AfterWait, Goto
      <4>2. QED
        BY <2>1, <3>1, <3>2, <3>4, <4>1
           DEF Served3, ServedWait, ServedHost, ServedQuiet, Register, Busy
    <3>5. QED
      BY <3>3, <3>4 DEF Op
  <2>2. CASE r # p
    BY <1>4, <2>2, ServedOthers DEF PollDone, AfterWait, Goto, cpldVars
  <2>3. QED
    BY <2>1, <2>2
<1>5. ASSUME NEW p \in Proc, Timeout(p) PROVE Served3(r)'
  <2>1. gaveup' = [gaveup EXCEPT ![p] = TRUE] /\ UNCHANGED call
    BY <1>5 DEF Timeout
  <2>2. CASE r = p
    <3>1. CASE call[p].op = "cpu_write"
      <4>1. pc'[p] = "unlock" /\ res'[p] = 255
        BY <1>5, <3>1 DEF Timeout, AfterWait, Goto, Fail
      <4>2. QED
        BY <2>1, <2>2, <3>1, <4>1
           DEF Served3, ServedWait, ServedHost, ServedQuiet
    <3>2. CASE call[p].op = "cpu_read"
      <4>1. pc'[p] = "host"
        BY <1>5, <3>2 DEF Timeout, AfterWait, Goto
      <4>2. QED
        BY <2>1, <2>2, <3>2, <4>1
           DEF Served3, ServedWait, ServedHost, ServedQuiet
    <3>3. QED
      BY <3>1, <3>2 DEF Op
  <2>3. CASE r # p
    BY <1>5, <2>1, <2>3, ServedOthers DEF Timeout, AfterWait, Goto, cpldVars
  <2>4. QED
    BY <2>2, <2>3
<1>6. ASSUME NEW p \in Proc, PollBusy(p) PROVE Served3(r)'
  BY <1>6 DEF PollBusy, cpldVars, Acked, Served3, ServedWait, ServedHost,
              ServedQuiet, Register, Busy
<1>7. ASSUME NEW p \in Proc, ReadHostDat(p) PROVE Served3(r)'
  <2>1. CASE r = p
    <3>1. pc[p] = "host" /\ pc'[p] = "unlock" /\ ServedHost(p)
          /\ res'[p] = HOST_DAT[call[p].card]
      BY <1>7 DEF ReadHostDat, Goto, Acked, Served3
    <3>2. UNCHANGED <<call, overrun, gaveup, HOST_DAT, mem, CSR>>
      BY <1>7 DEF ReadHostDat, cpldVars
    <3>3. QED
      BY <2>1, <3>1, <3>2
         DEF Served3, ServedWait, ServedHost, ServedQuiet, Register, Busy
  <2>2. CASE r # p
    BY <1>7, <2>2, ServedOthers DEF ReadHostDat, Goto, cpldVars
  <2>3. QED
    BY <2>1, <2>2
<1>8. ASSUME NEW p \in Proc, cpu_unlock(p) PROVE Served3(r)'
  <2>1. CASE r = p
    BY <1>8, <2>1 DEF cpu_unlock, Goto, Served3, ServedWait, ServedHost,
                      ServedQuiet
  <2>2. CASE r # p
    BY <1>8, <2>2, ServedOthers DEF cpu_unlock, Goto, cpldVars
  <2>3. QED
    BY <2>1, <2>2
<1>9. ASSUME NEW c \in Card, AvrFetch(c) PROVE Served3(r)'
  BY <1>9 DEF AvrFetch, procVars, cpldVars, Acked, Served3, ServedWait,
              ServedHost, ServedQuiet, Register, Busy
<1>10. ASSUME NEW c \in Card, AvrFinish(c) PROVE Served3(r)'
  <2>1. /\ UNCHANGED <<pc, call, res, overrun, gaveup>>
        /\ CSR' = [CSR EXCEPT ![c] = 0]
        /\ Busy(c)
    BY <1>10 DEF AvrFinish, procVars, Acked, AtWork
  <2>2. PICK w \in avr[c], o \in Offset, v \in Byte :
          /\ o \in {w.offset, AVR_ADDR[c]}
          /\ v \in {w.value, AVR_DAT[c]}
          /\ \/ /\ w.csr = 8
                /\ HOST_DAT' = [HOST_DAT EXCEPT ![c] = mem[c][o]]
                /\ UNCHANGED mem
             \/ /\ w.csr = 12
                /\ mem' = [mem EXCEPT ![c][o] = v]
                /\ UNCHANGED HOST_DAT
    BY <1>10 DEF AvrFinish, Command
  <2>3. CASE call[r].card # c
    <3>1. mem'[call[r].card] = mem[call[r].card]
      BY <2>2, <2>3
    <3>2. HOST_DAT'[call[r].card] = HOST_DAT[call[r].card]
      BY <2>2, <2>3
    <3>3. CSR'[call[r].card] = CSR[call[r].card]
      BY <2>1, <2>3
    <3>4. QED
      BY <2>1, <3>1, <3>2, <3>3 DEF Acked, Served3, ServedWait, ServedHost,
                                    ServedQuiet, Register, Busy
  <2>4. CASE call[r].card = c
    <3>1. ServedHost(r)' /\ ServedQuiet(r)'
      BY <2>1, <2>4 DEF Acked, Served3, ServedHost, ServedQuiet, Register
    <3>2. SUFFICES ASSUME pc[r] = "wait", ~overrun[r]
                   PROVE  /\ call[r].op = "cpu_write" =>
                               mem'[c][call[r].offset] = call[r].value
                          /\ call[r].op = "cpu_read" =>
                               mem'[c][call[r].offset] = HOST_DAT'[c]
      BY <2>1, <2>4, <3>1 DEF Served3, ServedWait, Register
    <3>3. /\ w.csr = CSR[c] /\ CSR[c] = Command(call[r].op)
          /\ o = call[r].offset
          /\ call[r].op = "cpu_write" => v = call[r].value
      BY <2>1, <2>2, <2>4, <3>2 DEF CommandIntact
    <3>4. CASE call[r].op = "cpu_write"
      BY <2>2, <2>4, <3>3, <3>4 DEF Command
    <3>5. CASE call[r].op = "cpu_read"
      BY <2>2, <2>4, <3>3, <3>5 DEF Command
    <3>6. QED
      BY <3>4, <3>5 DEF Op
  <2>5. QED
    BY <2>3, <2>4
<1>11. CASE UNCHANGED vars
  BY <1>11 DEF vars, procVars, cpldVars, Acked, Served3, ServedWait,
               ServedHost, ServedQuiet, Register, Busy
<1>12. QED
  BY <1>1, <1>2, <1>3, <1>4, <1>5, <1>6, <1>7, <1>8, <1>9, <1>10, <1>11
     DEF Next, Step, Finished

LEMMA Invariance == Spec => []IInv
<1>1. Init => IInv
  BY TypeInit DEF Init, IInv, Exclusion, CommandIntact, Acked, AtWork, Served3,
                  ServedWait, ServedHost, ServedQuiet, Locked
<1>2. IInv /\ [Next]_vars => IInv'
  BY TypeStep, ExclusionStep, CommandStep, AckStep DEF IInv, Acked
<1>3. QED
  BY <1>1, <1>2, PTL DEF Spec

\* A card's CPU never sees one caller's offset with another caller's byte or
\* command, whether or not commands time out.
THEOREM CommandsNotMixed == Spec => []CommandIntact
<1>1. IInv => CommandIntact
  BY DEF IInv
<1>2. QED
  BY <1>1, Invariance, PTL

\* A call that returns success was carried out, unless its command was put
\* over one the CPU was still at.
THEOREM AckedCallsExact == Spec => []AckedCallExact
<1>1. IInv => AckedCallExact
  BY DEF IInv, Acked, Served3, ServedQuiet, AckedCallExact, Register
<1>2. QED
  BY <1>1, Invariance, PTL

-----------------------------------------------------------------------------
(***************************************************************************)
(* Refinement.  With a CPU that answers before the last poll, CSR is busy  *)
(* only while the thread that started the command waits for it, and no     *)
(* command is put over another; AvrFinish is then the instant at which     *)
(* that thread's call takes effect, and every other step is a stutter of   *)
(* the abstract register file, a call, or a return.                        *)
(***************************************************************************)
BusyIsAwaited ==
  \A c \in Card : Busy(c) =>
    \E p \in Proc : pc[p] = "wait" /\ call[p].card = c /\ ~overrun[p]

LEMMA BusyStep ==
  AvrPrompt /\ IInv /\ BusyIsAwaited /\ [Next]_vars => BusyIsAwaited'
<1> SUFFICES ASSUME AvrPrompt, IInv, BusyIsAwaited, [Next]_vars
             PROVE  BusyIsAwaited'
  OBVIOUS
<1> USE CallFields DEF history, cpuVars
<1>a. TypeOK /\ Exclusion /\ AtWork
  BY DEF IInv, Acked
<1> USE DEF TypeOK, BusyIsAwaited, Busy
<1>1. ASSUME NEW p \in Proc, pc[p] # "wait", NEW l, Goto(p, l),
             UNCHANGED CSR,
             \A q \in Proc : q # p =>
               call'[q] = call[q] /\ overrun'[q] = overrun[q]
      PROVE  BusyIsAwaited'
  <2>1. SUFFICES ASSUME NEW c \in Card, CSR[c] # 0
                 PROVE  \E q \in Proc :
                          pc'[q] = "wait" /\ call'[q].card = c /\ ~overrun'[q]
    BY <1>1
  <2>2. PICK q \in Proc : pc[q] = "wait" /\ call[q].card = c /\ ~overrun[q]
    BY <2>1
  <2>3. q # p
    BY <1>1, <2>2
  <2>4. pc'[q] = pc[q]
    BY <1>a, <1>1, <2>3 DEF Goto
  <2>5. QED
    BY <1>1, <2>2, <2>3, <2>4
<1>2. ASSUME NEW p \in Proc,
             \/ Invoke(p) \/ cpu_lock(p) \/ WriteAddr(p) \/ WriteDat(p)
             \/ ReadHostDat(p) \/ cpu_unlock(p)
      PROVE  BusyIsAwaited'
  BY <1>a, <1>1, <1>2 DEF Invoke, cpu_lock, WriteAddr, WriteDat, ReadHostDat,
                    cpu_unlock, cpldVars
<1>3. ASSUME NEW p \in Proc, WriteCsr(p) PROVE BusyIsAwaited'
  <2>1. pc[p] = "csr" /\ pc' = [pc EXCEPT ![p] = "wait"] /\ UNCHANGED call
        /\ CSR' = [CSR EXCEPT ![call[p].card] = Command(call[p].op)]
    BY <1>3 DEF WriteCsr, Goto
  <2>2. avr[call[p].card] = {}
    <3>1. call[p].card \in Card
      BY <1>a
    <3>2. ~Busy(call[p].card)
      BY <1>a, <2>1, <3>1 DEF Exclusion, Locked
    <3>3. QED
      BY <1>a, <3>1, <3>2 DEF AtWork
  <2>3. overrun' = [overrun EXCEPT ![p] = FALSE]
    BY <1>3, <2>2 DEF WriteCsr
  <2>4. ASSUME NEW c \in Card, CSR'[c] # 0
        PROVE  \E q \in Proc : pc'[q] = "wait" /\ call'[q].card = c /\ ~overrun'[q]
    <3>1. CASE c = call[p].card
      BY <1>a, <2>1, <2>3, <3>1
    <3>2. CASE c # call[p].card
      <4>1. CSR[c] # 0
        BY <1>a, <2>1, <2>4, <3>2
      <4>2. PICK q \in Proc : pc[q] = "wait" /\ call[q].card = c /\ ~overrun[q]
        BY <1>a, <4>1
      <4>3. q # p
        BY <2>1, <4>2
      <4>4. QED
        BY <1>a, <2>1, <2>3, <4>2, <4>3
    <3>3. QED
      BY <3>1, <3>2
  <2>5. QED
    BY <1>a, <2>4
<1>4. ASSUME NEW p \in Proc, PollDone(p) PROVE BusyIsAwaited'
  BY <1>a, <1>4 DEF PollDone, AfterWait, Goto, cpldVars
<1>5. ASSUME NEW p \in Proc, PollBusy(p) PROVE BusyIsAwaited'
  BY <1>a, <1>5 DEF PollBusy, cpldVars
<1>6. ASSUME NEW p \in Proc, Timeout(p) PROVE FALSE
  BY <1>6 DEF Timeout
<1>7. ASSUME NEW c \in Card, AvrFetch(c) \/ AvrFinish(c) PROVE BusyIsAwaited'
  <2>1. UNCHANGED <<pc, call, overrun>>
    BY <1>7 DEF AvrFetch, AvrFinish, procVars
  <2>2. \A d \in Card : CSR'[d] # 0 => CSR[d] # 0
    BY <1>a, <1>7 DEF AvrFetch, AvrFinish, cpldVars
  <2>3. QED
    BY <2>1, <2>2
<1>8. CASE UNCHANGED vars
  BY <1>8 DEF vars, procVars, cpldVars
<1>9. QED
  BY <1>2, <1>3, <1>4, <1>5, <1>6, <1>7, <1>8 DEF Next, Step, Finished

RInv == IInv /\ BusyIsAwaited

LEMMA RefineInit == Init => Avr!Init
<1> SUFFICES ASSUME Init PROVE Avr!Init
  OBVIOUS
<1>1. \A p \in Proc : status[p] = "idle" /\ result[p] = 0
  BY DEF Init, status, result, Served
<1>2. status = [p \in Proc |-> "idle"] /\ result = [p \in Proc |-> 0]
  BY <1>1 DEF status, result
<1>3. QED
  BY <1>2 DEF Init, Avr!Init, Calls, Avr!Calls, Op, Avr!Op

\* What a step that only moves p leaves of the others in the abstract state.
LEMMA OthersStay ==
  ASSUME TypeOK, NEW p \in Proc,
         \A q \in Proc \ {p} :
           /\ pc'[q] = pc[q] /\ call'[q] = call[q] /\ res'[q] = res[q]
           /\ pc[q] \in {"wait", "host"} =>
                /\ CSR'[call[q].card] = CSR[call[q].card]
                /\ HOST_DAT'[call[q].card] = HOST_DAT[call[q].card]
  PROVE  /\ status' = [status EXCEPT ![p] = status'[p]]
         /\ result' = [result EXCEPT ![p] = result'[p]]
<1>1. ASSUME NEW q \in Proc \ {p}
      PROVE  status'[q] = status[q] /\ result'[q] = result[q]
  BY <1>1 DEF TypeOK, status, result, Pending, Served, Busy
<1>2. /\ status = [q \in Proc |-> status[q]]
      /\ status' = [q \in Proc |-> status'[q]]
      /\ result = [q \in Proc |-> result[q]]
      /\ result' = [q \in Proc |-> result'[q]]
  BY DEF status, result
<1>3. QED
  BY <1>1, <1>2

\* Every step of the code is a step of the register file or changes nothing
\* that the register file can see.
LEMMA RefineStep ==
  AvrPrompt /\ RInv /\ [Next]_vars => [Avr!Next]_Avr!vars
<1> SUFFICES ASSUME AvrPrompt, RInv, [Next]_vars PROVE [Avr!Next]_Avr!vars
  OBVIOUS
<1> USE CallFields DEF RInv, IInv, TypeOK, history, cpuVars
<1>a. /\ status = [q \in Proc |-> status[q]]
      /\ result = [q \in Proc |-> result[q]]
  BY DEF status, result
<1>1. ASSUME NEW p \in Proc, Invoke(p) PROVE Avr!Invoke(p)
  <2>1. /\ status[p] = "idle" /\ status'[p] = "called"
        /\ result'[p] = result[p]
    BY <1>1 DEF Invoke, Goto, status, result, Pending, Served
  <2>2. /\ status' = [status EXCEPT ![p] = status'[p]]
        /\ result' = [result EXCEPT ![p] = result'[p]]
    BY <1>1, OthersStay DEF Invoke, Goto, cpldVars
  <2>3. result' = result
    BY <2>1, <2>2 DEF result
  <2>4. QED
    BY <1>1, <2>1, <2>2, <2>3 DEF Invoke, Avr!Invoke, Calls, Avr!Calls, Op, Avr!Op
<1>2. ASSUME NEW p \in Proc,
             UNCHANGED <<call, mem>>,
             status'[p] = status[p], result'[p] = result[p],
             \A q \in Proc \ {p} :
               /\ pc'[q] = pc[q] /\ res'[q] = res[q]
               /\ pc[q] \in {"wait", "host"} =>
                    /\ CSR'[call[q].card] = CSR[call[q].card]
                    /\ HOST_DAT'[call[q].card] = HOST_DAT[call[q].card]
      PROVE  UNCHANGED Avr!vars
  <2>1. /\ status' = [status EXCEPT ![p] = status'[p]]
        /\ result' = [result EXCEPT ![p] = result'[p]]
    BY <1>2, OthersStay
  <2>2. status' = status /\ result' = result
    BY <1>2, <2>1, <1>a
  <2>3. QED
    BY <1>2, <2>2 DEF Avr!vars
<1>3. ASSUME NEW p \in Proc, cpu_lock(p) \/ WriteAddr(p) \/ WriteDat(p)
      PROVE  UNCHANGED Avr!vars
  <2>1. status'[p] = status[p] /\ result'[p] = result[p]
    BY <1>3 DEF cpu_lock, WriteAddr, WriteDat, Goto, cpldVars,
                status, result, Pending, Served
  <2>2. QED
    BY <1>2, <1>3, <2>1 DEF cpu_lock, WriteAddr, WriteDat, Goto, cpldVars
<1>4. ASSUME NEW p \in Proc, WriteCsr(p) PROVE UNCHANGED Avr!vars
  <2>1. Busy(call[p].card)'
    BY <1>4 DEF WriteCsr, Busy, Command
  <2>2. status'[p] = status[p] /\ result'[p] = result[p]
    BY <1>4, <2>1 DEF WriteCsr, Goto, status, result, Pending, Served
  <2>3. QED
    BY <1>2, <1>4, <2>2 DEF WriteCsr, Goto, Exclusion, Locked
<1>5. ASSUME NEW p \in Proc, PollDone(p) PROVE UNCHANGED Avr!vars
  <2>1. status'[p] = status[p] /\ result'[p] = result[p]
    BY <1>5 DEF PollDone, AfterWait, Goto, status, result, Pending, Served,
                Busy, cpldVars
  <2>2. QED
    BY <1>2, <1>5, <2>1 DEF PollDone, AfterWait, Goto, cpldVars
<1>6. ASSUME NEW p \in Proc, PollBusy(p) PROVE UNCHANGED Avr!vars
  BY <1>2, <1>6 DEF PollBusy, cpldVars, status, result, Pending, Served, Busy
<1>7. ASSUME NEW p \in Proc, ReadHostDat(p) PROVE UNCHANGED Avr!vars
  <2>1. status'[p] = status[p] /\ result'[p] = result[p]
    BY <1>7 DEF ReadHostDat, Goto, status, result, Pending, Served,
                Acked, Served3, ServedHost
  <2>2. QED
    BY <1>2, <1>7, <2>1 DEF ReadHostDat, Goto, cpldVars
<1>8. ASSUME NEW p \in Proc, cpu_unlock(p) PROVE Avr!Return(p)
  <2>1. /\ status[p] = "done" /\ status'[p] = "idle"
        /\ result'[p] = result[p]
    BY <1>8 DEF cpu_unlock, Goto, status, result, Pending, Served
  <2>2. /\ status' = [status EXCEPT ![p] = status'[p]]
        /\ result' = [result EXCEPT ![p] = result'[p]]
    BY <1>8, OthersStay DEF cpu_unlock, Goto, cpldVars
  <2>3. result' = result
    BY <2>1, <2>2 DEF result
  <2>4. QED
    BY <1>8, <2>1, <2>2, <2>3 DEF cpu_unlock, Avr!Return
<1>9. ASSUME NEW c \in Card, AvrFinish(c)
      PROVE  \E p \in Proc : Avr!PerformRead(p) \/ Avr!PerformWrite(p)
  <2>1. PICK p \in Proc : pc[p] = "wait" /\ call[p].card = c /\ ~overrun[p]
    <3>1. Busy(c)
      BY <1>9 DEF AvrFinish, Acked, AtWork
    <3>2. QED
      BY <3>1 DEF BusyIsAwaited
  <2>2. PICK w \in avr[c], o \in Offset, v \in Byte :
          /\ o \in {w.offset, AVR_ADDR[c]}
          /\ v \in {w.value, AVR_DAT[c]}
          /\ \/ /\ w.csr = 8
                /\ HOST_DAT' = [HOST_DAT EXCEPT ![c] = mem[c][o]]
                /\ UNCHANGED mem
             \/ /\ w.csr = 12
                /\ mem' = [mem EXCEPT ![c][o] = v]
                /\ UNCHANGED HOST_DAT
    BY <1>9 DEF AvrFinish, Command
  <2>3. /\ UNCHANGED <<pc, call, res>>
        /\ Busy(c) /\ CSR' = [CSR EXCEPT ![c] = 0]
    BY <1>9 DEF AvrFinish, procVars, Acked, AtWork
  <2>4. /\ o = call[p].offset
        /\ call[p].op = "cpu_write" => v = call[p].value
        /\ w.csr = Command(call[p].op)
    BY <2>1, <2>2, <2>3 DEF CommandIntact
  <2>5. /\ status[p] = "called" /\ status'[p] = "done"
        /\ result'[p] = IF call[p].op = "cpu_read" THEN HOST_DAT'[c] ELSE 0
    BY <2>1, <2>3 DEF status, result, Pending, Served, Busy
  <2>6. /\ status' = [status EXCEPT ![p] = status'[p]]
        /\ result' = [result EXCEPT ![p] = result'[p]]
    <3>1. \A q \in Proc \ {p} : pc[q] \in {"wait", "host"} => call[q].card # c
      BY <2>1 DEF Exclusion, Locked
    <3>2. \A d \in Card : d # c => HOST_DAT'[d] = HOST_DAT[d]
      BY <2>2
    <3>3. \A d \in Card : d # c => CSR'[d] = CSR[d]
      BY <2>3
    <3>4. QED
      BY <2>3, <3>1, <3>2, <3>3, OthersStay
  <2>7. CASE call[p].op = "cpu_read"
    <3>1. HOST_DAT' = [HOST_DAT EXCEPT ![c] = mem[c][o]] /\ UNCHANGED mem
      BY <2>2, <2>4, <2>7 DEF Command
    <3>2. result'[p] = mem[c][call[p].offset]
      BY <2>4, <2>5, <2>7, <3>1
    <3>3. Avr!PerformRead(p)
      BY <2>1, <2>3, <2>5, <2>6, <2>7, <3>1, <3>2 DEF Avr!PerformRead
    <3>4. QED
      BY <3>3
  <2>8. CASE call[p].op = "cpu_write"
    <3>1. mem' = [mem EXCEPT ![c][o] = v]
      BY <2>2, <2>4, <2>8 DEF Command
    <3>2. Avr!PerformWrite(p)
      BY <2>1, <2>3, <2>4, <2>5, <2>6, <2>8, <3>1 DEF Avr!PerformWrite
    <3>3. QED
      BY <3>2
  <2>9. QED
    BY <2>7, <2>8 DEF Op
<1>13. ASSUME NEW c \in Card, AvrFetch(c) PROVE UNCHANGED Avr!vars
  BY <1>13 DEF AvrFetch, procVars, cpldVars, Avr!vars, status, result,
               Pending, Served, Busy
<1>10. CASE UNCHANGED vars
  BY <1>10 DEF vars, procVars, cpldVars, Avr!vars, status, result, Pending,
               Served, Busy
<1>11. ASSUME NEW p \in Proc, Timeout(p) PROVE FALSE
  BY <1>11 DEF Timeout
<1>12. QED
  BY <1>1, <1>3, <1>4, <1>5, <1>6, <1>7, <1>8, <1>9, <1>10, <1>11, <1>13
     DEF Next, Step, Finished, Avr!Next

\* Concurrent cpu_read and cpu_write calls are linearizable: with a CPU that
\* answers in time the driver implements the register file AvrRegisters.
THEOREM Refinement == AvrPrompt /\ Spec => Linearizable
<1> SUFFICES ASSUME AvrPrompt PROVE Spec => Linearizable
  OBVIOUS
<1>1. Init => BusyIsAwaited
  BY DEF Init, BusyIsAwaited, Busy
<1>2. IInv /\ BusyIsAwaited /\ [Next]_vars => BusyIsAwaited'
  BY BusyStep
<1>3. IInv /\ BusyIsAwaited /\ [Next]_vars => [Avr!Next]_Avr!vars
  BY RefineStep DEF RInv
<1>4. QED
  BY <1>1, <1>2, <1>3, Invariance, RefineInit, PTL
     DEF Spec, Linearizable, Avr!Spec
=============================================================================
