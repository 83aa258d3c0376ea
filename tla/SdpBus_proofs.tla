--------------------------- MODULE SdpBus_proofs ---------------------------
(***************************************************************************)
(* Theorems about SdpBus for every set of threads, any number of slices,   *)
(* pin registers, calls and resets.                                        *)
(***************************************************************************)
EXTENDS SdpBus, TLAPS

LEMMA Slices == /\ Slice \subseteq Nat /\ NSlice \in Nat /\ 0 \in Slice
                /\ \A i \in Slice : i + 1 = NSlice \/ i + 1 \in Slice
                /\ \A i, j \in Slice : i < j + 1 <=> i < j \/ i = j
                /\ \A i \in Slice : i < NSlice /\ ~(i < 0)
  BY SliceAssumption DEF Slice

LEMMA Regs == /\ 0 \in Reg /\ Reg \subseteq Nat
              /\ \A r \in Reg : r + 1 = NReg \/ r + 1 \in Reg
              /\ \A r \in Reg : r + 1 = NReg => \A q \in Reg : q <= r
              /\ \A r, q \in Reg : r <= q => r = q \/ r + 1 <= q
              /\ \A r \in Reg : r <= r /\ ~(r + 1 <= r) /\ 0 <= r
              /\ \A r, q \in Reg : r + 1 <= q => r <= q /\ ~(r + 1 = NReg)
  BY RegAssumption DEF Reg

\* The labels of the two kinds of thread, and the slices a transfer has done.
Labels ==
  /\ \A u \in User :
       /\ pc[u] \in {"idle", "lock", "xfer", "slice", "check", "fix", "unlock",
                     "sleep"}
       /\ pc[u] \in {"xfer", "slice"} => idx[u] \in Slice
       /\ pc[u] \in {"check", "fix", "unlock"} => idx[u] = NSlice
  /\ \A k \in Kicker : pc[k] \in {"idle", "trylock", "pre", "prefix", "xfer",
                                  "slice", "kunlock", "check", "fix", "return"}

\* Only a check that has found something writes a register back.
FixInv == \A p \in Proc : pc[p] = "fix" => rv[p]

TypeInv == TypeOK /\ Labels

LEMMA TypeInit == Init => TypeInv
<1> SUFFICES ASSUME Init PROVE TypeInv
  OBVIOUS
<1>1. CSR \in Addr /\ KickBits \in Bits /\ MaxCalls \in Nat /\ MaxResets \in Nat
  BY SliceAssumption, BoundAssumption
<1>2. TypeOK
  BY <1>1, Regs DEF Init, TypeOK, Label
<1>3. Labels
  BY DEF Init, Labels, Proc
<1>4. QED
  BY <1>2, <1>3 DEF TypeInv

\* TypeOK, the truth values apart.
Plain == /\ cpld_functions \in {"sdp", "esdp"}
         /\ reg \in [Addr -> [Slice -> Bits]]
         /\ pc \in [Proc -> Label]
         /\ op \in [Proc -> {"cpld_read", "cpld_write"}]
         /\ addr \in [Proc -> Addr]
         /\ buf \in [Proc -> [Slice -> Bits]]
         /\ idx \in [Proc -> Nat]
         /\ chk \in [Proc -> Reg]
         /\ left \in Nat
         /\ resets \in Nat

Truths == /\ cpld_lock_bits \in BOOLEAN
          /\ dir \in [Reg -> BOOLEAN]
          /\ rv \in [Proc -> BOOLEAN]
          /\ delivered \in [Proc -> BOOLEAN]
          /\ meddled \in [Proc -> BOOLEAN]
          /\ bypassed \in BOOLEAN

LEMMA TypeParts == TypeOK <=> Plain /\ Truths
  BY DEF TypeOK, Plain, Truths

\* Where a thread goes after the check of one register.
LEMMA Afterwards ==
  ASSUME Plain, Labels, NEW p \in Proc, AfterReg(p),
         pc[p] \in {"check", "fix", "pre", "prefix"}
  PROVE  /\ chk' \in [Proc -> Reg]
         /\ \A q \in Proc \ {p} : chk'[q] = chk[q]
         /\ \E l : Goto(p, l)
         /\ pc[p] \in {"pre", "prefix"} => p \in Kicker /\ pc'[p] \in {"pre", "xfer"}
         /\ pc[p] \in {"check", "fix"} =>
              \/ pc'[p] = "check" /\ chk'[p] = chk[p] + 1 /\ chk[p] + 1 \in Reg
              \/ /\ chk[p] + 1 = NReg
                 /\ \/ p \in User /\ pc'[p] = "unlock"
                    \/ p \in Kicker /\ pc'[p] = "return"
<1> USE DEF Plain
<1>1. chk[p] \in Reg /\ pc \in [Proc -> Label]
  OBVIOUS
<1>2. /\ chk' = [chk EXCEPT ![p] = IF chk[p] + 1 = NReg THEN 0 ELSE chk[p] + 1]
      /\ chk'[p] = IF chk[p] + 1 = NReg THEN 0 ELSE chk[p] + 1
  BY DEF AfterReg
<1>3. chk'[p] \in Reg
  <2>1. CASE chk[p] + 1 = NReg
    BY <1>2, <2>1, Regs
  <2>2. CASE chk[p] + 1 # NReg
    BY <1>1, <1>2, <2>2, Regs
  <2>3. QED
    BY <2>1, <2>2
<1>4. \E l : Goto(p, l)
  BY DEF AfterReg
<1>5. pc'[p] = IF pc[p] \in {"pre", "prefix"}
               THEN IF chk[p] + 1 = NReg THEN "xfer" ELSE "pre"
               ELSE IF ~(chk[p] + 1 = NReg) THEN "check"
               ELSE IF p \in User THEN "unlock" ELSE "return"
  BY <1>1 DEF AfterReg, Goto
<1>6. pc[p] \in {"pre", "prefix"} => p \in Kicker
  BY DEF Labels, Proc
<1>7. chk[p] + 1 # NReg => chk[p] + 1 \in Reg
  BY <1>1, Regs
<1>8. p \notin User => p \in Kicker
  BY DEF Proc
<1>9. chk' \in [Proc -> Reg] /\ \A q \in Proc \ {p} : chk'[q] = chk[q]
  BY <1>2, <1>3
<1>10. ASSUME pc[p] \in {"pre", "prefix"}
       PROVE  p \in Kicker /\ pc'[p] \in {"pre", "xfer"}
  BY <1>5, <1>6, <1>10
<1>11. ASSUME pc[p] \in {"check", "fix"}
       PROVE  \/ pc'[p] = "check" /\ chk'[p] = chk[p] + 1 /\ chk[p] + 1 \in Reg
              \/ /\ chk[p] + 1 = NReg
                 /\ \/ p \in User /\ pc'[p] = "unlock"
                    \/ p \in Kicker /\ pc'[p] = "return"
  BY <1>2, <1>5, <1>7, <1>8, <1>11
<1>12. QED
  BY <1>4, <1>9, <1>10, <1>11

LEMMA PlainStep == Plain /\ Labels /\ [Next]_vars => Plain' /\ Labels'
<1> SUFFICES ASSUME Plain, Labels, [Next]_vars PROVE Plain' /\ Labels'
  OBVIOUS
<1> USE ProcAssumption, Slices, Regs DEF Plain, Labels, Label, Proc
<1>1. ASSUME NEW u \in User, Call(u) PROVE Plain' /\ Labels'
  BY <1>1 DEF Call, Goto
<1>2. ASSUME NEW u \in User, cpld_lock(u) PROVE Plain' /\ Labels'
  <2>1. /\ pc[u] = "lock" /\ Goto(u, "xfer") /\ idx' = [idx EXCEPT ![u] = 0]
        /\ UNCHANGED <<cpld_functions, reg, callVars, chk, resets>>
    BY <1>2 DEF cpld_lock
  <2>2. QED
    BY <2>1 DEF Goto, callVars
<1>3. ASSUME NEW u \in User, RxTwo(u) \/ TxTwo(u) PROVE Plain' /\ Labels'
  <2>1. /\ pc[u] = "slice" /\ NextSlice(u)
        /\ buf' \in [Proc -> [Slice -> Bits]]
    <3>1. CASE RxTwo(u)
      BY <3>1 DEF RxTwo
    <3>2. CASE TxTwo(u)
      BY <3>2 DEF TxTwo
    <3>3. QED
      BY <1>3, <3>1, <3>2
  <2>2. reg' \in [Addr -> [Slice -> Bits]]
    <3>1. addr[u] \in Addr /\ idx[u] \in Slice /\ buf[u][idx[u]] \in Bits
      BY <2>1
    <3>2. \/ reg' = reg
          \/ \E a \in Addr, i \in Slice, b \in Bits :
               reg' = [reg EXCEPT ![a][i] = b]
      <4>1. CASE RxTwo(u)
        BY <4>1 DEF RxTwo, Strays
      <4>2. CASE TxTwo(u)
        <5>1. reg' = [reg EXCEPT ![addr[u]][idx[u]] = buf[u][idx[u]]] \/ reg' \in Strays
          BY <4>2 DEF TxTwo
        <5>2. QED
          BY <3>1, <5>1 DEF Strays
      <4>3. QED
        BY <1>3, <4>1, <4>2
    <3>3. QED
      BY <3>2
  <2>3. /\ idx' = [idx EXCEPT ![u] = idx[u] + 1]
        /\ Goto(u, IF idx[u] + 1 = NSlice THEN "check" ELSE "xfer")
        /\ chk' = [chk EXCEPT ![u] = 0]
        /\ UNCHANGED <<cpld_functions, op, addr, left, resets>>
    BY <2>1 DEF NextSlice
  <2>4. QED
    BY <2>1, <2>2, <2>3 DEF Goto
<1>4. ASSUME NEW u \in User, cpld_unlock(u) PROVE Plain' /\ Labels'
  <2>1. /\ pc[u] = "unlock" /\ (Goto(u, "sleep") \/ Goto(u, "idle"))
        /\ UNCHANGED <<cpld_functions, reg, callVars, idx, chk, resets>>
    BY <1>4 DEF cpld_unlock
  <2>2. QED
    BY <2>1 DEF Goto, callVars
<1>5. ASSUME NEW u \in User, Wake(u) PROVE Plain' /\ Labels'
  BY <1>5 DEF Wake, Goto, callVars
<1>6. ASSUME NEW p \in Proc, SliceStart(p) PROVE Plain' /\ Labels'
  <2>1. /\ pc[p] = "xfer" /\ Goto(p, "slice")
        /\ UNCHANGED <<cpld_functions, reg, callVars, idx, chk, resets>>
    BY <1>6 DEF SliceStart
  <2>2. QED
    BY <2>1 DEF Goto, callVars
<1>7. ASSUME NEW p \in Proc, pc[p] \in {"check", "fix", "pre", "prefix"},
             AfterReg(p), UNCHANGED <<cpld_functions, callVars, idx, resets>>,
             reg' \in [Addr -> [Slice -> Bits]]
      PROVE  Plain' /\ Labels'
  <2>1. PICK l : Goto(p, l)
    BY <1>7, Afterwards
  <2>2. /\ chk' \in [Proc -> Reg]
        /\ pc[p] \in {"pre", "prefix"} => p \in Kicker /\ l \in {"pre", "xfer"}
        /\ pc[p] \in {"check", "fix"} =>
             \/ l = "check"
             \/ p \in User /\ l = "unlock"
             \/ p \in Kicker /\ l = "return"
    BY <1>7, <2>1, Afterwards DEF Goto
  <2>3. QED
    BY <1>7, <2>1, <2>2 DEF Goto, callVars
<1>8. ASSUME NEW p \in Proc, ReadDir(p) PROVE Plain' /\ Labels'
  <2>1. CASE WritesBack(p)
    <3>1. /\ pc[p] \in {"check", "pre"}
          /\ Goto(p, IF pc[p] = "pre" THEN "prefix" ELSE "fix")
          /\ UNCHANGED <<cpld_functions, reg, callVars, idx, chk, resets>>
      BY <1>8, <2>1 DEF ReadDir
    <3>2. QED
      BY <3>1 DEF Goto, callVars
  <2>2. CASE ~WritesBack(p)
    BY <1>7, <1>8, <2>2 DEF ReadDir
  <2>3. QED
    BY <2>1, <2>2
<1>9. ASSUME NEW p \in Proc, WriteDir(p) PROVE Plain' /\ Labels'
  <2>1. reg' \in [Addr -> [Slice -> Bits]]
    BY <1>9 DEF WriteDir, Strays
  <2>2. QED
    BY <1>7, <1>9, <2>1 DEF WriteDir
<1>10. ASSUME NEW k \in Kicker, SetKick(k) PROVE Plain' /\ Labels'
  BY <1>10 DEF SetKick, Goto
<1>11. ASSUME NEW k \in Kicker, cpld_trylock(k) PROVE Plain' /\ Labels'
  <2>1. /\ pc[k] = "trylock" /\ (Goto(k, "pre") \/ Goto(k, "xfer"))
        /\ chk' = [chk EXCEPT ![k] = 0]
        /\ UNCHANGED <<cpld_functions, reg, callVars, idx, resets>>
    BY <1>11 DEF cpld_trylock
  <2>2. QED
    BY <2>1 DEF Goto, callVars
<1>12. ASSUME NEW k \in Kicker, KickTx(k) PROVE Plain' /\ Labels'
  <2>1. reg' \in [Addr -> [Slice -> Bits]]
    <3>1. CASE Clean(k)
      <4>1. PICK i \in KickSlice : reg' = [reg EXCEPT ![CSR][i] = KickBits]
        BY <1>12, <3>1 DEF KickTx
      <4>2. QED
        BY <4>1, SliceAssumption
    <3>2. CASE ~Clean(k)
      BY <1>12, <3>2 DEF KickTx, Strays
    <3>3. QED
      BY <3>1, <3>2
  <2>2. /\ pc[k] = "slice" /\ Goto(k, "kunlock")
        /\ UNCHANGED <<cpld_functions, callVars, idx, chk, resets>>
    BY <1>12 DEF KickTx
  <2>3. QED
    BY <2>1, <2>2 DEF Goto, callVars
<1>13. ASSUME NEW k \in Kicker, KickUnlock(k) PROVE Plain' /\ Labels'
  <2>1. /\ pc[k] = "kunlock" /\ Goto(k, "check")
        /\ chk' = [chk EXCEPT ![k] = 0]
        /\ UNCHANGED <<cpld_functions, reg, callVars, idx, resets>>
    BY <1>13 DEF KickUnlock
  <2>2. QED
    BY <2>1 DEF Goto, callVars
<1>14. ASSUME NEW k \in Kicker, KickReturn(k) PROVE Plain' /\ Labels'
  <2>1. /\ pc[k] = "return" /\ (Goto(k, "trylock") \/ Goto(k, "idle"))
        /\ UNCHANGED <<cpld_functions, reg, callVars, idx, chk, resets>>
    BY <1>14 DEF KickReturn
  <2>2. QED
    BY <2>1 DEF Goto, callVars
<1>15. ASSUME NEW i \in Port, MacReset(i) PROVE Plain' /\ Labels'
  <2>1. /\ resets > 0 /\ resets' = resets - 1
        /\ UNCHANGED <<cpld_functions, reg, pc, callVars, idx, chk>>
    BY <1>15 DEF MacReset
  <2>2. QED
    BY <2>1 DEF callVars
<1>16. CASE UNCHANGED vars
  BY <1>16 DEF vars, callVars
<1>17. QED
  BY <1>1, <1>2, <1>3, <1>4, <1>5, <1>6, <1>8, <1>9, <1>10, <1>11, <1>12,
     <1>13, <1>14, <1>15, <1>16 DEF Next, UserStep, KickStep, Finished

LEMMA TruthsStep == Truths /\ [Next]_vars => Truths'
<1> SUFFICES ASSUME Truths, [Next]_vars PROVE Truths'
  OBVIOUS
<1> USE DEF Truths
<1>1. ASSUME NEW u \in User, Call(u) \/ Wake(u) PROVE Truths'
  BY <1>1 DEF Call, Wake
<1>2. ASSUME NEW u \in User, cpld_lock(u) PROVE Truths'
  BY <1>2 DEF cpld_lock
<1>3. ASSUME NEW u \in User, RxTwo(u) \/ TxTwo(u) PROVE Truths'
  BY <1>3 DEF RxTwo, TxTwo, NextSlice, Meddle
<1>4. ASSUME NEW u \in User, cpld_unlock(u) PROVE Truths'
  BY <1>4 DEF cpld_unlock
<1>5. ASSUME NEW p \in Proc, SliceStart(p) PROVE Truths'
  BY <1>5 DEF SliceStart, Meddle
<1>6. ASSUME NEW p \in Proc, ReadDir(p) PROVE Truths'
  BY <1>6 DEF ReadDir, Verdict
<1>7. ASSUME NEW p \in Proc, WriteDir(p) PROVE Truths'
  BY <1>7 DEF WriteDir, Meddle
<1>8. ASSUME NEW k \in Kicker, SetKick(k) \/ KickReturn(k) PROVE Truths'
  BY <1>8 DEF SetKick, KickReturn
<1>9. ASSUME NEW k \in Kicker, cpld_trylock(k) PROVE Truths'
  BY <1>9 DEF cpld_trylock
<1>10. ASSUME NEW k \in Kicker, KickTx(k) PROVE Truths'
  BY <1>10 DEF KickTx, Meddle
<1>11. ASSUME NEW k \in Kicker, KickUnlock(k) PROVE Truths'
  BY <1>11 DEF KickUnlock
<1>12. ASSUME NEW i \in Port, MacReset(i) PROVE Truths'
  BY <1>12 DEF MacReset
<1>13. CASE UNCHANGED vars
  BY <1>13 DEF vars
<1>14. QED
  BY <1>1, <1>2, <1>3, <1>4, <1>5, <1>6, <1>7, <1>8, <1>9, <1>10, <1>11,
     <1>12, <1>13 DEF Next, UserStep, KickStep, Finished, Proc

LEMMA TypeStep == TypeInv /\ [Next]_vars => TypeInv'
<1>1. TypeOK' <=> Plain' /\ Truths'
  BY DEF TypeOK, Plain, Truths
<1>2. QED
  BY <1>1, TypeParts, PlainStep, TruthsStep DEF TypeInv

\* Every variable keeps its type, and a transfer never sends a slice too many.
THEOREM TypeCorrect == Spec => []TypeOK
<1>1. TypeInv => TypeOK
  BY DEF TypeInv
<1>2. QED
  BY <1>1, TypeInit, TypeStep, PTL DEF Spec

-----------------------------------------------------------------------------
(***************************************************************************)
(* The lock.  A user holds it up to its unlock, checks included; a kicker  *)
(* only up to "kunlock".                                                   *)
(***************************************************************************)
Holds(p) == \/ pc[p] \in {"xfer", "slice", "unlock", "pre", "prefix", "kunlock"}
            \/ p \in User /\ pc[p] \in {"check", "fix"}

LockInv == ~bypassed => /\ \A p \in Proc : Holds(p) => cpld_lock_bits
                        /\ \A p, q \in Proc : Holds(p) /\ Holds(q) => p = q

LEMMA LockStep == TypeInv /\ LockInv /\ [Next]_vars => LockInv'
<1> SUFFICES ASSUME TypeInv, LockInv, [Next]_vars PROVE LockInv'
  OBVIOUS
<1>0. Plain /\ Labels
  BY TypeParts DEF TypeInv
<1> USE ProcAssumption DEF TypeInv, TypeOK, Labels, LockInv, Holds, Proc
\* A thread that holds the lock before and after, or neither.
<1>1. ASSUME NEW p \in Proc, NEW l, Goto(p, l), Holds(p)' => Holds(p),
             UNCHANGED <<bypassed, cpld_lock_bits>>
      PROVE  LockInv'
  BY <1>1 DEF Goto
<1>2. ASSUME NEW p \in Proc, NEW l, Goto(p, l), ~cpld_lock_bits,
             cpld_lock_bits', UNCHANGED bypassed
      PROVE  LockInv'
  BY <1>2 DEF Goto
<1>3. ASSUME NEW p \in Proc, NEW l, Goto(p, l), Holds(p), ~Holds(p)',
             UNCHANGED bypassed
      PROVE  LockInv'
  BY <1>3 DEF Goto
<1>4. ASSUME NEW u \in User, Call(u) \/ Wake(u) PROVE LockInv'
  BY <1>1, <1>4 DEF Call, Wake, Goto
<1>5. ASSUME NEW u \in User, cpld_lock(u) PROVE LockInv'
  BY <1>2, <1>5 DEF cpld_lock
<1>6. ASSUME NEW u \in User, RxTwo(u) \/ TxTwo(u) PROVE LockInv'
  <2>1. Holds(u) /\ NextSlice(u)
    BY <1>6 DEF RxTwo, TxTwo
  <2>2. QED
    BY <1>1, <2>1 DEF NextSlice
<1>7. ASSUME NEW u \in User, cpld_unlock(u) PROVE LockInv'
  BY <1>3, <1>7 DEF cpld_unlock, Goto
<1>8. ASSUME NEW p \in Proc, SliceStart(p) PROVE LockInv'
  BY <1>1, <1>8 DEF SliceStart
<1>9. ASSUME NEW p \in Proc, ReadDir(p) PROVE LockInv'
  <2>1. UNCHANGED <<bypassed, cpld_lock_bits>> /\ pc[p] \in {"check", "pre"}
    BY <1>9 DEF ReadDir
  <2>2. CASE WritesBack(p)
    BY <1>1, <1>9, <2>1, <2>2 DEF ReadDir, Goto
  <2>3. CASE ~WritesBack(p)
    <3>1. AfterReg(p)
      BY <1>9, <2>3 DEF ReadDir
    <3>2. PICK l : Goto(p, l)
      BY <2>1, <3>1, <1>0, Afterwards
    <3>3. Holds(p)' => Holds(p)
      BY <2>1, <3>1, <1>0, Afterwards
    <3>4. QED
      BY <1>1, <2>1, <3>2, <3>3
  <2>4. QED
    BY <2>2, <2>3
<1>10. ASSUME NEW p \in Proc, WriteDir(p) PROVE LockInv'
  <2>1. /\ UNCHANGED <<bypassed, cpld_lock_bits>> /\ pc[p] \in {"fix", "prefix"}
        /\ AfterReg(p)
    BY <1>10 DEF WriteDir
  <2>2. PICK l : Goto(p, l)
    BY <2>1, <1>0, Afterwards
  <2>3. Holds(p)' => Holds(p)
    BY <2>1, <1>0, Afterwards
  <2>4. QED
    BY <1>1, <2>1, <2>2, <2>3
<1>11. ASSUME NEW k \in Kicker, SetKick(k) \/ KickReturn(k) PROVE LockInv'
  BY <1>1, <1>11 DEF SetKick, KickReturn, Goto
<1>12. ASSUME NEW k \in Kicker, cpld_trylock(k) PROVE LockInv'
  BY <1>2, <1>12 DEF cpld_trylock
<1>13. ASSUME NEW k \in Kicker, KickTx(k) PROVE LockInv'
  BY <1>1, <1>13 DEF KickTx
<1>14. ASSUME NEW k \in Kicker, KickUnlock(k) PROVE LockInv'
  BY <1>3, <1>14 DEF KickUnlock, Goto
<1>15. CASE UNCHANGED vars \/ \E i \in Port : MacReset(i)
  BY <1>15 DEF vars, MacReset
<1>16. QED
  BY <1>4, <1>5, <1>6, <1>7, <1>8, <1>9, <1>10, <1>11, <1>12, <1>13, <1>14,
     <1>15 DEF Next, UserStep, KickStep, Finished

LEMMA FixStep == TypeInv /\ FixInv /\ [Next]_vars => FixInv'
<1> SUFFICES ASSUME TypeInv, FixInv, [Next]_vars PROVE FixInv'
  OBVIOUS
<1>0. Plain /\ Labels
  BY TypeParts DEF TypeInv
<1> USE ProcAssumption DEF TypeInv, TypeOK, FixInv, Proc
\* The threads that do not move keep what their checks found.
<1>1. ASSUME NEW p \in Proc, NEW l, Goto(p, l), l = "fix" => rv'[p],
             \A q \in Proc \ {p} : rv'[q] = rv[q]
      PROVE  FixInv'
  BY <1>1 DEF Goto
<1>2. ASSUME NEW u \in User, Call(u) \/ cpld_lock(u) \/ cpld_unlock(u) \/ Wake(u)
      PROVE  FixInv'
  <2>1. CASE Call(u)
    BY <1>1, <2>1 DEF Call
  <2>2. CASE cpld_lock(u)
    BY <1>1, <2>2 DEF cpld_lock
  <2>3. CASE cpld_unlock(u)
    BY <1>1, <2>3 DEF cpld_unlock
  <2>4. CASE Wake(u)
    BY <1>1, <2>4 DEF Wake
  <2>5. QED
    BY <1>2, <2>1, <2>2, <2>3, <2>4
<1>3. ASSUME NEW u \in User, RxTwo(u) \/ TxTwo(u) PROVE FixInv'
  <2>1. NextSlice(u)
    BY <1>3 DEF RxTwo, TxTwo
  <2>2. QED
    BY <1>1, <2>1 DEF NextSlice
<1>4. ASSUME NEW p \in Proc, SliceStart(p) PROVE FixInv'
  BY <1>1, <1>4 DEF SliceStart
<1>5. ASSUME NEW p \in Proc, ReadDir(p) PROVE FixInv'
  <2>1. rv'[p] = Verdict(p) /\ \A q \in Proc \ {p} : rv'[q] = rv[q]
    BY <1>5 DEF ReadDir
  <2>2. CASE WritesBack(p)
    <3>1. Verdict(p)
      BY <2>2 DEF WritesBack, Verdict
    <3>2. \E l : Goto(p, l)
      BY <1>5, <2>2 DEF ReadDir
    <3>3. QED
      BY <1>1, <2>1, <3>1, <3>2
  <2>3. CASE ~WritesBack(p)
    <3>1. AfterReg(p) /\ pc[p] \in {"check", "pre"}
      BY <1>5, <2>3 DEF ReadDir
    <3>2. PICK l : Goto(p, l)
      BY <3>1, <1>0, Afterwards
    <3>3. l # "fix"
      BY <3>1, <3>2, <1>0, Afterwards DEF Goto
    <3>4. QED
      BY <1>1, <2>1, <3>2, <3>3
  <2>4. QED
    BY <2>2, <2>3
<1>6. ASSUME NEW p \in Proc, WriteDir(p) PROVE FixInv'
  <2>1. AfterReg(p) /\ pc[p] \in {"fix", "prefix"} /\ rv' = rv
    BY <1>6 DEF WriteDir
  <2>2. PICK l : Goto(p, l)
    BY <2>1, <1>0, Afterwards
  <2>3. l # "fix"
    BY <2>1, <2>2, <1>0, Afterwards DEF Goto
  <2>4. QED
    BY <1>1, <2>1, <2>2, <2>3
<1>7. ASSUME NEW k \in Kicker, SetKick(k) \/ cpld_trylock(k) PROVE FixInv'
  <2>1. CASE SetKick(k)
    BY <1>1, <2>1 DEF SetKick
  <2>2. CASE cpld_trylock(k)
    BY <1>1, <2>2 DEF cpld_trylock
  <2>3. QED
    BY <1>7, <2>1, <2>2
<1>8. ASSUME NEW k \in Kicker, KickTx(k) PROVE FixInv'
  BY <1>1, <1>8 DEF KickTx
<1>9. ASSUME NEW k \in Kicker, KickUnlock(k) \/ KickReturn(k) PROVE FixInv'
  <2>1. CASE KickUnlock(k)
    BY <1>1, <2>1 DEF KickUnlock
  <2>2. CASE KickReturn(k)
    BY <1>1, <2>2 DEF KickReturn
  <2>3. QED
    BY <1>9, <2>1, <2>2
<1>10. CASE UNCHANGED vars \/ \E i \in Port : MacReset(i)
  BY <1>10 DEF vars, MacReset
<1>11. QED
  BY <1>2, <1>3, <1>4, <1>5, <1>6, <1>7, <1>8, <1>9, <1>10
     DEF Next, UserStep, KickStep, Finished

-----------------------------------------------------------------------------
(***************************************************************************)
(* Spoiled transfers.  While a spoiled transfer is unchecked some pin has  *)
(* the wrong direction, unless another thread meddled with it; the check   *)
(* goes through the registers in order, and what it finds stays in rv.     *)
(***************************************************************************)
Revealed(p) == /\ \/ p \in User /\ pc[p] \in {"xfer", "slice"}
                  \/ pc[p] = "kunlock"
                  => ~Driven
               /\ pc[p] = "check" =>
                    rv[p] \/ \E r \in Reg : chk[p] <= r /\ ~dir[r]
               /\ pc[p] \in {"fix", "unlock", "return"} => rv[p]

Spoiled(u) == \E i \in Slice : i < idx[u] /\ buf[u][i] # reg[addr[u]][i]

ExactInv == \A u \in User : Spoiled(u) /\ ~meddled[u] => Revealed(u)
KickInv  == \A k \in Kicker : ~delivered[k] /\ ~meddled[k] => Revealed(k)

\* A step that neither moves a thread nor turns pins back.
LEMMA StillRevealed ==
  ASSUME NEW q \in Proc, Revealed(q), pc'[q] = pc[q], rv'[q] = rv[q],
         chk'[q] = chk[q], \A r \in Reg : dir'[r] => dir[r]
  PROVE  Revealed(q)'
  BY DEF Revealed, Driven

\* What a thread finds unchanged when another one takes one of these steps.
Untouched(q) == /\ UNCHANGED <<dir, reg, delivered>>
                /\ pc'[q] = pc[q] /\ rv'[q] = rv[q] /\ chk'[q] = chk[q]
                /\ meddled'[q] = meddled[q] /\ addr'[q] = addr[q]
                /\ buf'[q] = buf[q] /\ idx'[q] = idx[q]

LEMMA Bystander ==
  ASSUME NEW p \in Proc, NEW q \in Proc \ {p},
         \/ Call(p) \/ cpld_lock(p) \/ cpld_unlock(p) \/ Wake(p)
         \/ SetKick(p) \/ cpld_trylock(p) \/ KickUnlock(p) \/ KickReturn(p)
  PROVE  Untouched(q)
<1> USE DEF Untouched, callVars
<1>0. ASSUME NEW l, Goto(p, l) PROVE pc'[q] = pc[q]
  BY <1>0 DEF Goto
<1>1. CASE Call(p)
  <2>1. pc'[q] = pc[q]
    BY <1>0, <1>1 DEF Call
  <2>2. addr'[q] = addr[q] /\ buf'[q] = buf[q]
    BY <1>1 DEF Call
  <2>3. QED
    BY <1>1, <2>1, <2>2 DEF Call
<1>2. CASE cpld_lock(p)
  <2>1. pc'[q] = pc[q]
    BY <1>0, <1>2 DEF cpld_lock
  <2>2. idx'[q] = idx[q]
    BY <1>2 DEF cpld_lock
  <2>3. meddled'[q] = meddled[q]
    BY <1>2 DEF cpld_lock
  <2>4. QED
    BY <1>2, <2>1, <2>2, <2>3 DEF cpld_lock
<1>3. CASE cpld_unlock(p)
  <2>1. pc'[q] = pc[q]
    BY <1>0, <1>3 DEF cpld_unlock
  <2>2. QED
    BY <1>3, <2>1 DEF cpld_unlock
<1>4. CASE Wake(p)
  <2>1. pc'[q] = pc[q]
    BY <1>0, <1>4 DEF Wake
  <2>2. QED
    BY <1>4, <2>1 DEF Wake
<1>5. CASE SetKick(p)
  <2>1. pc'[q] = pc[q]
    BY <1>0, <1>5 DEF SetKick
  <2>2. QED
    BY <1>5, <2>1 DEF SetKick
<1>6. CASE cpld_trylock(p)
  <2>1. pc'[q] = pc[q]
    BY <1>0, <1>6 DEF cpld_trylock
  <2>2. rv'[q] = rv[q]
    BY <1>6 DEF cpld_trylock
  <2>3. chk'[q] = chk[q]
    BY <1>6 DEF cpld_trylock
  <2>4. meddled'[q] = meddled[q]
    BY <1>6 DEF cpld_trylock
  <2>5. QED
    BY <1>6, <2>1, <2>2, <2>3, <2>4 DEF cpld_trylock
<1>7. CASE KickUnlock(p)
  <2>1. pc'[q] = pc[q]
    BY <1>0, <1>7 DEF KickUnlock
  <2>2. rv'[q] = rv[q]
    BY <1>7 DEF KickUnlock
  <2>3. chk'[q] = chk[q]
    BY <1>7 DEF KickUnlock
  <2>4. QED
    BY <1>7, <2>1, <2>2, <2>3 DEF KickUnlock
<1>8. CASE KickReturn(p)
  <2>1. pc'[q] = pc[q]
    BY <1>0, <1>8 DEF KickReturn
  <2>2. QED
    BY <1>8, <2>1 DEF KickReturn
<1>9. QED
  BY <1>1, <1>2, <1>3, <1>4, <1>5, <1>6, <1>7, <1>8

\* Reading a register leaves the other threads' control alone.
LEMMA ReadStill ==
  ASSUME TypeInv, NEW p \in Proc, NEW q \in Proc \ {p}, ReadDir(p)
  PROVE  pc'[q] = pc[q] /\ chk'[q] = chk[q] /\ rv'[q] = rv[q]
<1>0. Plain /\ Labels
  BY TypeParts DEF TypeInv
<1>1. rv' = [rv EXCEPT ![p] = Verdict(p)] /\ pc[p] \in {"check", "pre"}
  BY DEF ReadDir
<1>2. CASE WritesBack(p)
  <2>1. chk' = chk /\ \E l : Goto(p, l)
    BY <1>2 DEF ReadDir
  <2>2. pc'[q] = pc[q]
    BY <2>1 DEF Goto
  <2>3. QED
    BY <1>1, <2>1, <2>2
<1>3. CASE ~WritesBack(p)
  <2>1. AfterReg(p)
    BY <1>3 DEF ReadDir
  <2>2. PICK l : Goto(p, l)
    BY <1>0, <1>1, <2>1, Afterwards
  <2>3. pc'[q] = pc[q]
    BY <2>2 DEF Goto
  <2>4. chk'[q] = chk[q]
    BY <1>0, <1>1, <2>1, Afterwards
  <2>5. QED
    BY <1>1, <2>3, <2>4
<1>4. QED
  BY <1>2, <1>3

\* What the reading of a register does to a check's own verdict.
LEMMA ReadReveals ==
  ASSUME TypeInv, NEW p \in Proc, ReadDir(p), pc[p] = "check", Revealed(p)
  PROVE  Revealed(p)'
<1>0. Plain /\ Labels /\ chk[p] \in Reg /\ pc \in [Proc -> Label]
  BY TypeParts DEF TypeInv, Plain
<1>1. rv'[p] = Verdict(p) /\ dir' = dir
  BY DEF ReadDir, TypeInv, TypeOK
<1>2. CASE WritesBack(p)
  <2>1. pc'[p] = "fix"
    BY <1>0, <1>2 DEF ReadDir, Goto
  <2>2. Verdict(p)
    BY <1>2 DEF WritesBack, Verdict
  <2>3. QED
    BY <1>1, <2>1, <2>2 DEF Revealed
<1>3. CASE ~WritesBack(p)
  <2>1. AfterReg(p)
    BY <1>3 DEF ReadDir
  <2>2. dir[chk[p]]
    BY <1>3 DEF WritesBack
  <2>3. rv[p] \/ \E r \in Reg : chk[p] <= r /\ ~dir[r]
    BY DEF Revealed
  <2>4. CASE rv[p]
    <3>1. rv'[p]
      BY <1>1, <2>4 DEF Verdict
    <3>2. pc'[p] \in {"check", "unlock", "return"}
      BY <1>0, <2>1, Afterwards
    <3>3. QED
      BY <3>1, <3>2 DEF Revealed
  <2>5. CASE \E r \in Reg : chk[p] <= r /\ ~dir[r]
    <3>1. PICK r \in Reg : chk[p] <= r /\ ~dir[r]
      BY <2>5
    <3>2. chk[p] + 1 <= r
      BY <1>0, <2>2, <3>1, Regs
    <3>3. ~(chk[p] + 1 = NReg)
      BY <1>0, <3>2, Regs
    <3>4. pc'[p] = "check" /\ chk'[p] = chk[p] + 1
      BY <1>0, <2>1, <3>3, Afterwards
    <3>5. QED
      BY <1>1, <3>1, <3>2, <3>4 DEF Revealed
  <2>6. QED
    BY <2>3, <2>4, <2>5
<1>4. QED
  BY <1>2, <1>3

\* Turning a register back hides a spoiled transfer of another thread only
\* if that counts as meddling with it, and never one of its own.
LEMMA WriteReveals ==
  ASSUME TypeInv, FixInv, NEW p \in Proc, WriteDir(p)
  PROVE  /\ pc[p] = "fix" => Revealed(p)'
         /\ \A q \in Proc \ {p} :
              Revealed(q) /\ ~meddled'[q] /\ ~InTransfer(q)
              /\ ~(q \in User /\ pc[q] = "xfer") => Revealed(q)'
<1>0. Plain /\ Labels /\ chk \in [Proc -> Reg] /\ pc \in [Proc -> Label]
  BY TypeParts DEF TypeInv, Plain
<1>1. /\ AfterReg(p) /\ pc[p] \in {"fix", "prefix"} /\ rv' = rv
      /\ \A q \in Proc \ {p} : pc'[q] = pc[q] /\ chk'[q] = chk[q]
  <2>1. AfterReg(p) /\ pc[p] \in {"fix", "prefix"} /\ rv' = rv
    BY DEF WriteDir
  <2>2. PICK l : Goto(p, l)
    BY <1>0, <2>1, Afterwards
  <2>3. QED
    BY <1>0, <2>1, <2>2, Afterwards DEF Goto
<1>2. ASSUME pc[p] = "fix" PROVE Revealed(p)'
  <2>1. rv'[p]
    BY <1>1, <1>2 DEF FixInv
  <2>2. pc'[p] \in {"check", "unlock", "return"}
    BY <1>0, <1>1, <1>2, Afterwards
  <2>3. QED
    BY <2>1, <2>2 DEF Revealed
<1>3. ASSUME NEW q \in Proc \ {p}, Revealed(q), ~meddled'[q], ~InTransfer(q),
             ~(q \in User /\ pc[q] = "xfer")
      PROVE  Revealed(q)'
  <2> DEFINE r == chk[p]
  <2>1. dir[r] \/ ~Unchecked(q, r)
    BY <1>3 DEF WriteDir
  <2>2. \A s \in Reg : dir'[s] = IF s = r THEN TRUE ELSE dir[s]
    BY <1>0 DEF WriteDir, TypeInv, TypeOK
  <2>3. CASE dir[r]
    <3>1. \A s \in Reg : dir'[s] => dir[s]
      BY <2>2, <2>3
    <3>2. QED
      BY <1>1, <1>3, <3>1, StillRevealed
  <2>4. CASE ~Unchecked(q, r)
    <3>1. q \in User \/ q \in Kicker
      BY DEF Proc
    <3>2. CASE q \in User
      <4>1. pc[q] \in {"idle", "lock", "sleep"}
        BY <1>0, <1>3, <3>2 DEF InTransfer, Labels
      <4>2. QED
        BY <1>1, <4>1 DEF Revealed
    <3>3. CASE q \in Kicker
      <4>0. q \notin User
        BY <3>3, ProcAssumption
      <4>1. pc[q] # "kunlock" /\ (pc[q] = "check" => ~(chk[q] <= r))
        BY <2>4, <3>3 DEF Unchecked
      <4>2. pc'[q] = pc[q] /\ chk'[q] = chk[q] /\ rv'[q] = rv[q]
        BY <1>1
      <4>3. ASSUME pc[q] = "check"
            PROVE  rv[q] \/ \E s \in Reg : chk[q] <= s /\ ~dir'[s]
        <5>1. CASE rv[q]
          BY <5>1
        <5>2. CASE ~rv[q]
          <6>1. PICK s \in Reg : chk[q] <= s /\ ~dir[s]
            BY <1>3, <4>3, <5>2 DEF Revealed
          <6>2. s # r
            BY <4>1, <4>3, <6>1
          <6>3. ~dir'[s]
            BY <2>2, <6>1, <6>2
          <6>4. QED
            BY <6>1, <6>3
        <5>3. QED
          BY <5>1, <5>2
      <4>4. pc[q] \in {"fix", "unlock", "return"} => rv[q]
        BY <1>3 DEF Revealed
      <4>5. QED
        BY <4>0, <4>1, <4>2, <4>3, <4>4 DEF Revealed
    <3>4. QED
      BY <3>1, <3>2, <3>3
  <2>5. QED
    BY <2>1, <2>3, <2>4
<1>4. QED
  BY <1>2, <1>3

LEMMA KickStepInv == TypeInv /\ FixInv /\ KickInv /\ [Next]_vars => KickInv'
<1> SUFFICES ASSUME TypeInv, FixInv, KickInv, [Next]_vars,
                    NEW k \in Kicker, ~delivered'[k], ~meddled'[k]
             PROVE  Revealed(k)'
  BY DEF KickInv
<1>0. /\ Plain /\ Labels /\ k \in Proc /\ k \notin User /\ pc \in [Proc -> Label]
      /\ ~InTransfer(k) \/ pc[k] = "slice"
  BY TypeParts, ProcAssumption DEF TypeInv, Plain, Proc, InTransfer
\* The kick's own control and result stay, and no pin is turned back.
<1>1. ASSUME pc'[k] = pc[k], rv'[k] = rv[k], chk'[k] = chk[k],
             \A r \in Reg : dir'[r] => dir[r],
             delivered'[k] = delivered[k], meddled[k] => meddled'[k]
      PROVE  Revealed(k)'
  BY <1>0, <1>1, StillRevealed DEF KickInv
<1>2. ASSUME pc'[k] \in {"idle", "trylock", "pre", "prefix", "xfer", "slice"}
      PROVE  Revealed(k)'
  BY <1>0, <1>2 DEF Revealed
<1>3. ASSUME NEW u \in User,
             Call(u) \/ cpld_lock(u) \/ cpld_unlock(u) \/ Wake(u)
      PROVE  Revealed(k)'
  <2>1. Untouched(k)
    BY <1>0, <1>3, Bystander DEF Proc
  <2>2. QED
    BY <1>1, <2>1 DEF Untouched
<1>4. ASSUME NEW u \in User, RxTwo(u) \/ TxTwo(u) PROVE Revealed(k)'
  <2>0. u # k /\ NextSlice(u)
    BY <1>0, <1>4 DEF RxTwo, TxTwo
  <2>1. UNCHANGED <<dir, delivered>> /\ pc'[k] = pc[k]
    BY <2>0 DEF NextSlice, Goto
  <2>2. rv'[k] = rv[k] /\ chk'[k] = chk[k]
    <3>1. chk' = [chk EXCEPT ![u] = 0] /\ rv' = [rv EXCEPT ![u] = FALSE]
      BY <2>0 DEF NextSlice
    <3>2. u # k
      BY <2>0
    <3>3. rv'[k] = rv[k]
      <4>1. rv' = [rv EXCEPT ![u] = FALSE]
        BY <3>1
      <4>2. rv \in [Proc -> BOOLEAN] /\ k \in Proc
        BY <1>0 DEF TypeInv, TypeOK
      <4>3. QED
        BY <3>2, <4>1, <4>2
    <3>4. chk'[k] = chk[k]
      BY <3>1, <3>2 DEF TypeInv, TypeOK
    <3>5. QED
      BY <3>3, <3>4
  <2>3. meddled[k] => meddled'[k]
    BY <1>0, <2>0 DEF NextSlice, Meddle
  <2>4. QED
    BY <1>1, <2>1, <2>2, <2>3
<1>5. ASSUME NEW p \in Proc, SliceStart(p) PROVE Revealed(k)'
  <2>1. CASE p = k
    <3>1. pc'[k] = "slice"
      BY <1>0, <1>5, <2>1 DEF SliceStart, Goto
    <3>2. QED
      BY <1>2, <3>1
  <2>2. CASE p # k
    <3>1. UNCHANGED <<dir, delivered, rv, chk>> /\ pc'[k] = pc[k]
      BY <1>5, <2>2 DEF SliceStart, Goto
    <3>2. meddled[k] => meddled'[k]
      BY <1>0, <1>5, <2>2 DEF SliceStart, Meddle
    <3>3. QED
      BY <1>1, <3>1, <3>2
  <2>3. QED
    BY <2>1, <2>2
<1>6. ASSUME NEW p \in Proc, ReadDir(p) PROVE Revealed(k)'
  <2>0. UNCHANGED <<dir, delivered, meddled>> /\ pc[p] \in {"check", "pre"}
    BY <1>6 DEF ReadDir
  <2>1. CASE p = k /\ pc[k] = "check"
    BY <1>0, <1>6, <2>0, <2>1, ReadReveals DEF KickInv
  <2>2. CASE p = k /\ pc[k] = "pre"
    <3>1. pc'[k] \in {"pre", "xfer", "prefix"}
      BY <1>0, <1>6, <2>2, Afterwards DEF ReadDir, Goto
    <3>2. QED
      BY <1>2, <3>1
  <2>3. CASE p # k
    <3>1. pc'[k] = pc[k] /\ chk'[k] = chk[k] /\ rv'[k] = rv[k]
      BY <1>0, <1>6, <2>3, ReadStill
    <3>2. QED
      BY <1>1, <2>0, <3>1
  <2>4. QED
    BY <2>0, <2>1, <2>2, <2>3
<1>7. ASSUME NEW p \in Proc, WriteDir(p) PROVE Revealed(k)'
  <2>0. /\ delivered' = delivered /\ pc[p] \in {"fix", "prefix"}
        /\ meddled[k] => meddled'[k]
    BY <1>0, <1>7 DEF WriteDir, Meddle
  <2>1. CASE p = k /\ pc[k] = "fix"
    BY <1>7, <2>1, WriteReveals
  <2>2. CASE p = k /\ pc[k] = "prefix"
    <3>1. pc'[k] \in {"pre", "xfer"}
      BY <1>0, <1>7, <2>2, Afterwards DEF WriteDir
    <3>2. QED
      BY <1>2, <3>1
  <2>3. CASE p # k
    <3>1. ASSUME pc[k] = "slice" PROVE Revealed(k)'
      <4>1. PICK l : Goto(p, l)
        BY <1>0, <1>7, <2>0, Afterwards DEF WriteDir
      <4>2. pc'[k] = "slice"
        BY <2>3, <3>1, <4>1 DEF Goto
      <4>3. QED
        BY <1>2, <4>2
    <3>2. ASSUME pc[k] # "slice" PROVE Revealed(k)'
      <4>1. Revealed(k) /\ ~InTransfer(k)
        BY <1>0, <2>0, <3>2 DEF KickInv
      <4>2. QED
        BY <1>0, <1>7, <2>3, <4>1, WriteReveals
    <3>3. QED
      BY <3>1, <3>2
  <2>4. QED
    BY <2>0, <2>1, <2>2, <2>3
<1>8. ASSUME NEW j \in Kicker, SetKick(j) \/ cpld_trylock(j) \/ KickUnlock(j)
                               \/ KickReturn(j)
      PROVE  Revealed(k)'
  <2>1. CASE j = k
    <3>1. CASE SetKick(k) \/ cpld_trylock(k) \/ KickReturn(k)
      <4>1. pc'[k] \in {"trylock", "pre", "xfer", "idle"}
        BY <1>0, <3>1 DEF SetKick, cpld_trylock, KickReturn, Goto
      <4>2. QED
        BY <1>2, <4>1
    <3>2. CASE KickUnlock(k)
      <4>1. /\ pc[k] = "kunlock" /\ UNCHANGED <<dir, delivered, meddled>>
            /\ pc'[k] = "check" /\ chk'[k] = 0
        BY <1>0, <3>2 DEF KickUnlock, Goto, Plain
      <4>2. \E r \in Reg : ~dir[r]
        BY <4>1 DEF KickInv, Revealed, Driven
      <4>3. QED
        BY <4>1, <4>2, Regs DEF Revealed
    <3>3. QED
      BY <1>8, <2>1, <3>1, <3>2
  <2>2. CASE j # k
    <3>1. Untouched(k)
      BY <1>0, <1>8, <2>2, Bystander DEF Proc
    <3>2. QED
      BY <1>1, <3>1 DEF Untouched
  <2>3. QED
    BY <2>1, <2>2
<1>9. ASSUME NEW j \in Kicker, KickTx(j) PROVE Revealed(k)'
  <2>0. UNCHANGED <<dir, rv, chk>> /\ meddled' = Meddle(j)
    BY <1>9 DEF KickTx
  <2>1. CASE j = k
    <3>1. Clean(k) => delivered'[k]
      BY <1>0, <1>9, <2>1 DEF KickTx, TypeInv, TypeOK
    <3>2. ~meddled[k]
      BY <1>0, <2>0 DEF Meddle
    <3>3. ~Driven
      BY <3>1, <3>2 DEF Clean
    <3>4. pc'[k] = "kunlock"
      BY <1>0, <1>9, <2>1 DEF KickTx, Goto
    <3>5. QED
      BY <2>0, <3>3, <3>4 DEF Revealed, Driven
  <2>2. CASE j # k
    <3>1. pc'[k] = pc[k] /\ delivered'[k] = delivered[k]
      BY <1>9, <2>2 DEF KickTx, Goto
    <3>2. meddled[k] => meddled'[k]
      BY <1>0, <2>0 DEF Meddle
    <3>3. QED
      BY <1>1, <2>0, <3>1, <3>2
  <2>3. QED
    BY <2>1, <2>2
<1>10. ASSUME NEW i \in Port, MacReset(i) PROVE Revealed(k)'
  <2>1. UNCHANGED <<pc, chk, rv, delivered>>
    BY <1>10 DEF MacReset
  <2>2. /\ \A r \in Reg : dir'[r] => dir[r]
        /\ meddled[k] => meddled'[k]
    BY <1>0, <1>10 DEF MacReset
  <2>3. QED
    BY <1>1, <2>1, <2>2
<1>11. CASE UNCHANGED vars
  BY <1>1, <1>11 DEF vars
<1>12. QED
  BY <1>3, <1>4, <1>5, <1>6, <1>7, <1>8, <1>9, <1>10, <1>11
     DEF Next, UserStep, KickStep, Finished, Proc

LEMMA ExactStep == TypeInv /\ FixInv /\ ExactInv /\ [Next]_vars => ExactInv'
<1> SUFFICES ASSUME TypeInv, FixInv, ExactInv, [Next]_vars,
                    NEW u \in User, ~meddled'[u], Spoiled(u)'
             PROVE  Revealed(u)'
  BY DEF ExactInv
<1>0. /\ Plain /\ Labels /\ u \in Proc /\ u \notin Kicker
      /\ pc \in [Proc -> Label] /\ idx \in [Proc -> Nat]
  BY TypeParts, ProcAssumption DEF TypeInv, Plain, Proc
\* The user's own control and its transfer stay, and no pin is turned back.
<1>1. ASSUME pc'[u] = pc[u], rv'[u] = rv[u], chk'[u] = chk[u],
             \A r \in Reg : dir'[r] => dir[r], meddled[u] => meddled'[u],
             reg' = reg, addr'[u] = addr[u], buf'[u] = buf[u], idx'[u] = idx[u]
      PROVE  Revealed(u)'
  <2>1. Spoiled(u)
    BY <1>1 DEF Spoiled
  <2>2. QED
    BY <1>0, <1>1, <2>1, StillRevealed DEF ExactInv
\* Nothing is lost before the first slice, or after the transfer.
<1>2. ASSUME pc'[u] \in {"idle", "lock", "sleep"} \/ idx'[u] = 0
      PROVE  Revealed(u)'
  <2>1. CASE idx'[u] = 0
    BY <2>1, Slices DEF Spoiled
  <2>2. CASE pc'[u] \in {"idle", "lock", "sleep"}
    BY <2>2 DEF Revealed
  <2>3. QED
    BY <1>2, <2>1, <2>2
<1>3. ASSUME ~InTransfer(u), pc'[u] = pc[u], idx'[u] = idx[u]
      PROVE  Revealed(u)'
  <2>1. pc[u] \in {"idle", "lock", "sleep"} \/ idx[u] = 0
    BY <1>0, <1>3 DEF InTransfer, Labels
  <2>2. QED
    BY <1>2, <1>3, <2>1
<1>4. ASSUME NEW p \in Proc, meddled' = Meddle(p), p # u PROVE ~InTransfer(u)
  BY <1>0, <1>4 DEF Meddle
<1>5. ASSUME NEW v \in User, Call(v) \/ cpld_unlock(v) \/ Wake(v)
      PROVE  Revealed(u)'
  <2>1. CASE u = v
    <3>1. pc'[u] \in {"lock", "sleep", "idle"}
      BY <1>0, <1>5, <2>1 DEF Call, cpld_unlock, Wake, Goto
    <3>2. QED
      BY <1>2, <3>1
  <2>2. CASE u # v
    <3>1. Untouched(u)
      BY <1>0, <1>5, <2>2, Bystander DEF Proc
    <3>2. QED
      BY <1>1, <3>1 DEF Untouched
  <2>3. QED
    BY <2>1, <2>2
<1>6. ASSUME NEW v \in User, cpld_lock(v) PROVE Revealed(u)'
  <2>1. CASE u = v
    <3>1. idx'[u] = 0
      BY <1>0, <1>6, <2>1 DEF cpld_lock
    <3>2. QED
      BY <1>2, <3>1
  <2>2. CASE u # v
    <3>1. Untouched(u)
      BY <1>0, <1>6, <2>2, Bystander DEF Proc
    <3>2. QED
      BY <1>1, <3>1 DEF Untouched
  <2>3. QED
    BY <2>1, <2>2
<1>7. ASSUME NEW p \in Proc, SliceStart(p) PROVE Revealed(u)'
  <2>0. UNCHANGED <<dir, reg, rv, chk, addr, buf, idx>> /\ Goto(p, "slice")
        /\ pc[p] = "xfer"
    BY <1>7 DEF SliceStart, callVars
  <2>1. meddled[u] => meddled'[u]
    BY <1>0, <1>7 DEF SliceStart, Meddle
  <2>2. CASE p # u
    <3>1. pc'[u] = pc[u]
      BY <2>0, <2>2 DEF Goto
    <3>2. QED
      BY <1>1, <2>0, <2>1, <3>1
  <2>3. CASE p = u
    <3>1. Spoiled(u)
      BY <2>0 DEF Spoiled
    <3>2. ~Driven
      BY <2>0, <2>1, <2>3, <3>1 DEF ExactInv, Revealed
    <3>3. pc'[u] = "slice"
      BY <1>0, <2>0, <2>3 DEF Goto
    <3>4. QED
      BY <2>0, <3>2, <3>3 DEF Revealed, Driven
  <2>4. QED
    BY <2>2, <2>3
<1>8. ASSUME NEW v \in User, RxTwo(v) \/ TxTwo(v) PROVE Revealed(u)'
  <2>1. /\ NextSlice(v) /\ pc[v] = "slice" /\ v \in Proc
        /\ UNCHANGED <<dir, addr>> /\ meddled' = Meddle(v)
    BY <1>8 DEF RxTwo, TxTwo, NextSlice, Proc
  <2>2. CASE u = v
    <3>1. /\ idx'[u] = idx[u] + 1 /\ pc'[u] \in {"xfer", "check"}
          /\ chk'[u] = 0 /\ ~meddled[u] /\ idx[u] \in Slice
      <4>1. idx'[u] = idx[u] + 1 /\ chk'[u] = 0
        BY <1>0, <2>1, <2>2 DEF NextSlice, Plain
      <4>2. pc'[u] \in {"xfer", "check"}
        BY <1>0, <2>1, <2>2 DEF NextSlice, Goto
      <4>3. ~meddled[u]
        BY <1>0, <2>1, <2>2 DEF Meddle
      <4>4. QED
        BY <1>0, <2>1, <2>2, <4>1, <4>2, <4>3 DEF Labels
    <3>2. CASE ~Driven
      <4>1. \E r \in Reg : 0 <= r /\ ~dir[r]
        BY <3>2, Regs DEF Driven
      <4>2. QED
        BY <2>1, <3>1, <3>2, <4>1 DEF Revealed, Driven
    <3>3. CASE Driven
      <4>1. ~Spoiled(u)
        BY <2>1, <2>2, <3>1, <3>3 DEF ExactInv, Revealed
      <4>2. Clean(u)
        BY <3>1, <3>3 DEF Clean
      <4>3. buf \in [Proc -> [Slice -> Bits]] /\ reg \in [Addr -> [Slice -> Bits]]
            /\ addr[u] \in Addr
        BY <1>0 DEF Plain
      <4>4. /\ buf'[u][idx[u]] = reg'[addr[u]][idx[u]]
            /\ \A i \in Slice : i # idx[u] =>
                 buf'[u][i] = buf[u][i] /\ reg'[addr[u]][i] = reg[addr[u]][i]
        <5>1. CASE RxTwo(v)
          <6>1. reg' = reg
            BY <2>2, <4>2, <5>1 DEF RxTwo
          <6>2. PICK b \in Bits : /\ b = reg[addr[u]][idx[u]]
                                  /\ buf' = [buf EXCEPT ![u][idx[u]] = b]
            BY <2>2, <4>2, <5>1 DEF RxTwo
          <6>3. QED
            BY <1>0, <3>1, <4>3, <6>1, <6>2
        <5>2. CASE TxTwo(v)
          <6>1. reg' = [reg EXCEPT ![addr[u]][idx[u]] = buf[u][idx[u]]]
            BY <2>2, <4>2, <5>2 DEF TxTwo
          <6>2. buf' = buf
            BY <5>2 DEF TxTwo
          <6>3. QED
            BY <1>0, <3>1, <4>3, <6>1, <6>2
        <5>3. QED
          BY <1>8, <5>1, <5>2
      <4>5. ~Spoiled(u)'
        <5>1. addr'[u] = addr[u] /\ idx'[u] = idx[u] + 1 /\ idx[u] \in Slice
          BY <2>1, <3>1
        <5>2. ASSUME NEW i \in Slice, i < idx[u] + 1
              PROVE  buf'[u][i] = reg'[addr[u]][i]
          <6>1. i < idx[u] \/ i = idx[u]
            BY <5>1, <5>2, Slices
          <6>2. CASE i = idx[u]
            BY <4>4, <6>2
          <6>3. CASE i < idx[u] /\ i # idx[u]
            BY <4>1, <4>4, <6>3 DEF Spoiled
          <6>4. QED
            BY <6>1, <6>2, <6>3
        <5>3. QED
          BY <5>1, <5>2 DEF Spoiled
      <4>6. QED
        BY <4>5
    <3>4. QED
      BY <3>2, <3>3
  <2>3. CASE u # v
    <3>1. pc'[u] = pc[u] /\ idx'[u] = idx[u]
      BY <2>1, <2>3 DEF NextSlice, Goto
    <3>2. QED
      BY <1>3, <1>4, <2>1, <2>3, <3>1
  <2>4. QED
    BY <2>2, <2>3
<1>9. ASSUME NEW p \in Proc, ReadDir(p) PROVE Revealed(u)'
  <2>0. /\ UNCHANGED <<dir, reg, addr, buf, idx, meddled>>
        /\ pc[p] \in {"check", "pre"}
    BY <1>9 DEF ReadDir, callVars
  <2>1. Spoiled(u)
    BY <2>0 DEF Spoiled
  <2>2. CASE p = u
    <3>1. pc[u] = "check"
      BY <1>0, <2>0, <2>2 DEF Labels
    <3>2. QED
      BY <1>0, <1>9, <2>0, <2>1, <2>2, <3>1, ReadReveals DEF ExactInv
  <2>3. CASE p # u
    <3>1. pc'[u] = pc[u] /\ chk'[u] = chk[u] /\ rv'[u] = rv[u]
      BY <1>0, <1>9, <2>3, ReadStill
    <3>2. QED
      BY <1>1, <2>0, <3>1
  <2>4. QED
    BY <2>2, <2>3
<1>10. ASSUME NEW p \in Proc, WriteDir(p) PROVE Revealed(u)'
  <2>0. /\ pc[p] \in {"fix", "prefix"} /\ idx' = idx
        /\ p # u => ~InTransfer(u)
    BY <1>0, <1>10 DEF WriteDir, Meddle
  <2>1. CASE p = u
    <3>1. pc[u] = "fix"
      BY <1>0, <2>0, <2>1 DEF Labels
    <3>2. QED
      BY <1>10, <2>1, <3>1, WriteReveals
  <2>2. CASE p # u
    <3>1. PICK l : Goto(p, l)
      BY <1>0, <1>10, <2>0, Afterwards DEF WriteDir
    <3>2. pc'[u] = pc[u]
      BY <2>2, <3>1 DEF Goto
    <3>3. QED
      BY <1>3, <2>0, <2>2, <3>2
  <2>3. QED
    BY <2>1, <2>2
<1>11. ASSUME NEW k \in Kicker, SetKick(k) \/ cpld_trylock(k) \/ KickUnlock(k)
                                \/ KickReturn(k)
      PROVE  Revealed(u)'
  <2>1. Untouched(u)
    BY <1>0, <1>11, Bystander DEF Proc
  <2>2. QED
    BY <1>1, <2>1 DEF Untouched
<1>12. ASSUME NEW k \in Kicker, KickTx(k) PROVE Revealed(u)'
  <2>1. k # u /\ k \in Proc
    BY <1>0 DEF Proc
  <2>2. pc'[u] = pc[u] /\ idx' = idx /\ meddled' = Meddle(k)
    BY <1>12, <2>1 DEF KickTx, Goto
  <2>3. QED
    BY <1>3, <1>4, <2>1, <2>2
<1>13. ASSUME NEW i \in Port, MacReset(i) PROVE Revealed(u)'
  <2>1. UNCHANGED <<pc, chk, rv, reg, addr, buf, idx>>
    BY <1>13 DEF MacReset, callVars
  <2>2. /\ \A r \in Reg : dir'[r] => dir[r]
        /\ meddled[u] => meddled'[u]
    BY <1>0, <1>13 DEF MacReset
  <2>3. QED
    BY <1>1, <2>1, <2>2
<1>14. CASE UNCHANGED vars
  BY <1>1, <1>14 DEF vars, callVars
<1>15. QED
  BY <1>5, <1>6, <1>7, <1>8, <1>9, <1>10, <1>11, <1>12, <1>13, <1>14
     DEF Next, UserStep, KickStep, Finished, Proc

IInv == TypeInv /\ LockInv /\ FixInv /\ ExactInv /\ KickInv

LEMMA Invariance == Spec => []IInv
<1>1. Init => IInv
  <2> SUFFICES ASSUME Init PROVE IInv
    OBVIOUS
  <2>1. \A p \in Proc : pc[p] = "idle"
    BY DEF Init
  <2>2. LockInv /\ FixInv /\ \A p \in Proc : Revealed(p)
    BY <2>1 DEF LockInv, Holds, FixInv, Revealed
  <2>3. QED
    BY <2>2, TypeInit DEF IInv, ExactInv, KickInv, Proc
<1>2. IInv /\ [Next]_vars => IInv'
  BY TypeStep, LockStep, FixStep, ExactStep, KickStepInv DEF IInv
<1>3. QED
  BY <1>1, <1>2, PTL DEF Spec

\* With any number of resets at any time, and callers without the lock, a
\* read or a write that returns has moved its byte, but for the transfers
\* that TransferExact excepts.
THEOREM TransfersExact == Spec => []TransferExact
<1>1. IInv => TransferExact
  <2> SUFFICES ASSUME IInv, NEW u \in User, Moved(u), ~meddled[u]
               PROVE  buf[u] = reg[addr[u]]
    BY DEF TransferExact
  <2>1. idx[u] = NSlice /\ ~Spoiled(u)
    BY DEF IInv, TypeInv, Labels, ExactInv, Moved, Revealed
  <2>2. \A i \in Slice : buf[u][i] = reg[addr[u]][i]
    BY <2>1, Slices DEF Spoiled
  <2>3. buf[u] \in [Slice -> Bits] /\ reg[addr[u]] \in [Slice -> Bits]
    BY TypeParts DEF IInv, TypeInv, Plain, Proc
  <2>4. QED
    BY <2>2, <2>3
<1>2. QED
  BY <1>1, Invariance, PTL

\* A kick that returns 0 reached the CPLD, unless somebody else wrote to its
\* pins or turned them back before its check.
THEOREM KicksDelivered == Spec => []KickDelivered
<1>1. IInv => KickDelivered
  BY DEF IInv, KickInv, KickDelivered, Revealed
<1>2. QED
  BY <1>1, Invariance, PTL

-----------------------------------------------------------------------------
(***************************************************************************)
(* Who can meddle.  A user's transfer lasts while it holds the lock, so    *)
(* whoever writes to the pins meanwhile does not hold it: not a user, and  *)
(* not a kick before its unlock.                                           *)
(***************************************************************************)
Excused == \/ \E k \in Kicker : pc[k] = "fix" /\ pc'[k] # pc[k]
           \/ resets' # resets

LEMMA MeddleStep ==
  ASSUME TypeInv, LockInv, Next, ~bypassed,
         NEW u \in User, meddled'[u], ~meddled[u]
  PROVE  Excused
<1>0. /\ Plain /\ Labels /\ u \in Proc /\ u \notin Kicker
      /\ pc \in [Proc -> Label]
  BY TypeParts, ProcAssumption DEF TypeInv, Plain, Proc
<1>1. ASSUME NEW p \in Proc, p # u, Holds(p), InTransfer(u) PROVE FALSE
  <2>1. Holds(u)
    BY <1>1 DEF InTransfer, Holds
  <2>2. QED
    BY <1>0, <1>1, <2>1 DEF LockInv
<1>2. ASSUME NEW p \in Proc, Holds(p), meddled' = Meddle(p) PROVE FALSE
  BY <1>0, <1>1, <1>2 DEF Meddle
<1>3. ASSUME NEW v \in User,
             \/ Call(v) \/ cpld_lock(v) \/ RxTwo(v) \/ TxTwo(v)
             \/ cpld_unlock(v) \/ Wake(v)
      PROVE  FALSE
  <2>1. CASE Call(v) \/ cpld_unlock(v) \/ Wake(v)
    BY <2>1 DEF Call, cpld_unlock, Wake
  <2>2. CASE cpld_lock(v)
    <3>1. meddled' = [meddled EXCEPT ![v] = FALSE]
      BY <2>2 DEF cpld_lock
    <3>2. QED
      BY <1>0, <3>1 DEF TypeInv, TypeOK
  <2>3. CASE RxTwo(v) \/ TxTwo(v)
    <3>1. pc[v] = "slice" /\ meddled' = Meddle(v) /\ v \in Proc
      BY <2>3 DEF RxTwo, TxTwo, NextSlice, Proc
    <3>2. QED
      BY <1>2, <3>1 DEF Holds
  <2>4. QED
    BY <1>3, <2>1, <2>2, <2>3
<1>4. ASSUME NEW p \in Proc, SliceStart(p) PROVE FALSE
  <2>1. pc[p] = "xfer" /\ Holds(p)
    BY <1>4 DEF SliceStart, Holds
  <2>2. CASE p # u
    <3>1. meddled'[u] = Meddle(p)[u]
      BY <1>0, <1>4, <2>2 DEF SliceStart, Meddle
    <3>2. InTransfer(u)
      BY <1>0, <2>2, <3>1 DEF Meddle
    <3>3. QED
      BY <1>1, <2>1, <2>2, <3>2
  <2>3. CASE p = u
    <3>1. PICK q \in Proc \ {u} : pc[q] = "slice"
      BY <1>0, <1>4, <2>3 DEF SliceStart, Meddle
    <3>2. QED
      BY <1>0, <2>1, <2>3, <3>1 DEF LockInv, Holds
  <2>4. QED
    BY <2>2, <2>3
<1>5. ASSUME NEW p \in Proc, ReadDir(p) PROVE FALSE
  BY <1>5 DEF ReadDir
<1>6. ASSUME NEW p \in Proc, WriteDir(p) PROVE Excused
  <2>1. /\ pc[p] \in {"fix", "prefix"} /\ AfterReg(p)
        /\ p # u /\ InTransfer(u)
    BY <1>0, <1>6 DEF WriteDir, Meddle, Unchecked
  <2>2. ~Holds(p)
    BY <1>1, <2>1
  <2>3. p \in Kicker /\ pc[p] = "fix"
    BY <2>1, <2>2 DEF Holds, Proc
  <2>4. pc'[p] # "fix"
    BY <1>0, <2>1, <2>3, Afterwards
  <2>5. QED
    BY <2>3, <2>4 DEF Excused
<1>7. ASSUME NEW k \in Kicker, SetKick(k) \/ cpld_trylock(k) \/ KickTx(k)
                               \/ KickUnlock(k) \/ KickReturn(k)
      PROVE  FALSE
  <2>1. CASE KickTx(k)
    <3>1. pc[k] = "slice" /\ meddled' = Meddle(k) /\ k \in Proc
      BY <2>1 DEF KickTx, Proc
    <3>2. QED
      BY <1>2, <3>1 DEF Holds
  <2>2. CASE SetKick(k) \/ KickUnlock(k) \/ KickReturn(k)
    BY <2>2 DEF SetKick, KickUnlock, KickReturn
  <2>3. CASE cpld_trylock(k)
    <3>1. meddled' = [meddled EXCEPT ![k] = FALSE]
      BY <2>3 DEF cpld_trylock
    <3>2. QED
      BY <1>0, <3>1 DEF TypeInv, TypeOK
  <2>4. QED
    BY <1>7, <2>1, <2>2, <2>3
<1>8. ASSUME NEW i \in Port, MacReset(i) PROVE Excused
  <2>1. resets > 0 /\ resets' = resets - 1 /\ resets \in Nat
    BY <1>0, <1>8 DEF MacReset, Plain
  <2>2. QED
    BY <2>1 DEF Excused
<1>9. ~Finished
  BY DEF Finished, vars
<1>10. QED
  BY <1>3, <1>4, <1>5, <1>6, <1>7, <1>8, <1>9
     DEF Next, UserStep, KickStep, Proc

\* While nobody goes on without the lock, only a kick that checks the pins
\* after its unlock, or a reset, meddles with a read or a write.
THEOREM OnlyKicksMeddle == Spec => OnlyLateCheckMeddles
<1>1. IInv /\ [Next]_vars =>
        [~bypassed => \A u \in User : meddled'[u] /\ ~meddled[u] =>
           \/ \E k \in Kicker : pc[k] = "fix" /\ pc'[k] # pc[k]
           \/ resets' # resets]_vars
  BY MeddleStep DEF IInv, Excused
<1>2. QED
  BY <1>1, Invariance, PTL DEF Spec, OnlyLateCheckMeddles
=============================================================================
