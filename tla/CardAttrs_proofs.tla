-------------------------- MODULE CardAttrs_proofs --------------------------
(* Proofs about CardAttrs and its three parts, for any threads and ports,   *)
(* any number of calls and of polls, any addresses and bytes.  A step       *)
(* belongs to one part and leaves the variables of the others alone.        *)
EXTENDS CardAttrs, TLAPS

CopperNext == \/ \E p \in Thread : CopperStep(p) \/ \E up \in BOOLEAN : copper_port_set(p, up)
              \/ MacServe
HookNext == \E p \in Thread : \/ HookStep(p)
                              \/ \E x \in Port, up \in BOOLEAN : ixgbe_port_set(p, x, up)
IoNext == \E p \in Thread :
  \/ IoStep(p)
  \/ \E a \in IoAddr, d \in IoByte, write \in BOOLEAN : cpld_set_ioreg(p, write, a, d)

LEMMA PartSteps ==
  ASSUME [Next]_vars, driver \in {"igb", "ixgbe"}
  PROVE  /\ CopperNext \/ UNCHANGED coppervars
         /\ HookNext \/ UNCHANGED hookvars
         /\ IoNext \/ UNCHANGED iovars
<1>1. ASSUME NEW p \in Thread, Call(p)
      PROVE  /\ CopperNext \/ UNCHANGED coppervars
             /\ HookNext \/ UNCHANGED hookvars
             /\ IoNext \/ UNCHANGED iovars
  <2>1. CASE \E x \in Port, up \in BOOLEAN : port_set(p, x, up)
    BY <2>1 DEF port_set, CopperNext, HookNext
  <2>2. CASE (\E a \in IoAddr, d \in IoByte : cpld_set_ioreg(p, TRUE, a, d))
             /\ UNCHANGED <<coppervars, hookvars>>
    BY <2>2 DEF IoNext
  <2>3. CASE (\E a \in IoAddr : cpld_set_ioreg(p, FALSE, a, 0))
             /\ UNCHANGED <<coppervars, hookvars>>
    BY <2>3, IoAssumption DEF IoNext
  <2> QED  BY <1>1, <2>1, <2>2, <2>3 DEF Call
<1>2. ASSUME NEW p \in Thread, Step(p)
      PROVE  /\ CopperNext \/ UNCHANGED coppervars
             /\ HookNext \/ UNCHANGED hookvars
             /\ IoNext \/ UNCHANGED iovars
  BY <1>2 DEF Step, CopperNext, HookNext, IoNext
<1>3. CASE Mac
  BY <1>3 DEF Mac, CopperNext
<1>4. CASE UNCHANGED vars
  BY <1>4 DEF vars
<1> QED  BY <1>1, <1>2, <1>3, <1>4 DEF Next, Done

-----------------------------------------------------------------------------
(* Types *)

CallRecord == [pc : {"idle", "read", "led", "led write", "command", "write"},
               up : BOOLEAN, val : Phy, led : {0, 2, 15} \X {0, 1},
               polls : 0..(MAX_PHY_RETRY - 1)]

CallPc == {"idle", "read", "led", "led write", "command", "write"}
Led == {0, 2, 15} \X {0, 1}

LEMMA CallUpdates ==
  ASSUME NEW z \in CallRecord
  PROVE  /\ \A c \in CallPc : [z EXCEPT !.pc = c] \in CallRecord
         /\ \A c \in CallPc, up \in BOOLEAN :
              [z EXCEPT !.pc = c, !.up = up] \in CallRecord
         /\ \A c \in CallPc, v \in Phy : [z EXCEPT !.pc = c, !.val = v] \in CallRecord
         /\ \A c \in CallPc, l \in Led : [z EXCEPT !.pc = c, !.led = l] \in CallRecord
         /\ \A c \in CallPc : [z EXCEPT !.pc = c, !.polls = 0] \in CallRecord
         /\ z.polls + 1 < MAX_PHY_RETRY => [z EXCEPT !.polls = z.polls + 1] \in CallRecord
<1>1. z.polls \in 0..(MAX_PHY_RETRY - 1)
  BY DEF CallRecord
<1>2. /\ 0 \in 0..(MAX_PHY_RETRY - 1)
      /\ z.polls + 1 < MAX_PHY_RETRY => z.polls + 1 \in 0..(MAX_PHY_RETRY - 1)
  BY <1>1, CopperAssumption
<1> QED  BY <1>2, ZenonT(60) DEF CallRecord, CallPc, Led

LEMMA CallZero == NoCall \in CallRecord /\ Zero \in Phy
<1>1. Zero \in Phy
  BY DEF Zero, Phy
<1>2. 0 \in 0..(MAX_PHY_RETRY - 1) /\ <<0, 0>> \in {0, 2, 15} \X {0, 1}
  BY CopperAssumption
<1> QED  BY <1>1, <1>2 DEF NoCall, CallRecord

LEMMA CopperTypes ==
  ASSUME CopperTypeOK, CopperNext
  PROVE  CopperTypeOK'
<1> USE DEF CallPc
<1>0. /\ call \in [Thread -> CallRecord] /\ mdi_ctl.data \in Phy /\ phy_ctl \in Phy
      /\ led_ctl \in Led /\ mdi_ctl.op \in {"none", "read", "write"}
  BY DEF CopperTypeOK, CallRecord, Led
<1>1. ASSUME NEW p \in Thread, NEW up \in BOOLEAN, copper_port_set(p, up)
      PROVE  CopperTypeOK'
  <2>1. call' \in [Thread -> CallRecord]
    <3>1. [NoCall EXCEPT !.pc = "read", !.up = up] \in CallRecord
      BY CallZero, CallUpdates
    <3> QED  BY <1>0, <1>1, <3>1 DEF copper_port_set
  <2>2. mdi_ctl' \in [op : {"none", "read", "write"}, data : Phy, ready : BOOLEAN]
    BY <1>1, CallZero DEF copper_port_set
  <2> QED  BY <1>1, <2>1, <2>2 DEF copper_port_set, CopperTypeOK, CallRecord
<1>2. ASSUME NEW p \in Thread, PhyRead(p) PROVE CopperTypeOK'
  <2>1. call' \in [Thread -> CallRecord]
    <3>1. CASE ~mdi_ctl.ready /\ call[p].polls + 1 < MAX_PHY_RETRY
      <4>1. call' = [call EXCEPT ![p] = [call[p] EXCEPT !.polls = call[p].polls + 1]]
        BY <1>2, <3>1, CopperAssumption DEF PhyRead
      <4>2. [call[p] EXCEPT !.polls = call[p].polls + 1] \in CallRecord
        BY <1>0, <3>1, CallUpdates
      <4> QED  BY <1>0, <4>1, <4>2
    <3>2. CASE ~(~mdi_ctl.ready /\ call[p].polls + 1 < MAX_PHY_RETRY)
      <4>1. \/ call' = [call EXCEPT ![p] = [call[p] EXCEPT !.pc = "led", !.val = mdi_ctl.data]]
            \/ call' = [call EXCEPT ![p] = [call[p] EXCEPT !.pc = "led"]]
        BY <1>0, <1>2, <3>2 DEF PhyRead
      <4>2. /\ [call[p] EXCEPT !.pc = "led", !.val = mdi_ctl.data] \in CallRecord
            /\ [call[p] EXCEPT !.pc = "led"] \in CallRecord
        BY <1>0, CallUpdates, ZenonT(60)
      <4> QED  BY <1>0, <4>1, <4>2
    <3> QED  BY <3>1, <3>2
  <2> QED  BY <1>2, <2>1, ZenonT(60) DEF PhyRead, CopperTypeOK, CallRecord
<1>3. ASSUME NEW p \in Thread, LedRead(p) PROVE CopperTypeOK'
  <2>1. call' \in [Thread -> CallRecord]
    BY <1>0, <1>3, CallUpdates, ZenonT(60) DEF LedRead
  <2> QED  BY <1>3, <2>1 DEF LedRead, CopperTypeOK, CallRecord
<1>4. ASSUME NEW p \in Thread, LedWrite(p) PROVE CopperTypeOK'
  <2>1. call' \in [Thread -> CallRecord]
    BY <1>0, <1>4, CallUpdates DEF LedWrite
  <2>2. call[p].led[2] \in {0, 1}
    BY <1>0 DEF CallRecord
  <2>3. led_ctl' \in {2, 15} \X {0, 1}
    BY <1>4, <2>2 DEF LedWrite
  <2> QED  BY <1>4, <2>1, <2>3 DEF LedWrite, CopperTypeOK, CallRecord
<1>5. ASSUME NEW p \in Thread, PhyWrite(p) PROVE CopperTypeOK'
  <2>1. call' \in [Thread -> CallRecord]
    <3>1. call' = [call EXCEPT ![p] = [call[p] EXCEPT !.pc = "write", !.polls = 0]]
      BY <1>0, <1>5 DEF PhyWrite
    <3>2. [call[p] EXCEPT !.pc = "write", !.polls = 0] \in CallRecord
      BY <1>0, CallUpdates
    <3> QED  BY <1>0, <3>1, <3>2
  <2>2. mdi_ctl' \in [op : {"none", "read", "write"}, data : Phy, ready : BOOLEAN]
    <3>1. call[p].val \in Phy /\ call[p].up \in BOOLEAN
      BY <1>0 DEF CallRecord
    <3>2. [call[p].val EXCEPT !.down = ~call[p].up] \in Phy
      BY <3>1 DEF Phy
    <3> QED  BY <1>5, <3>2 DEF PhyWrite
  <2> QED  BY <1>5, <2>1, <2>2 DEF PhyWrite, CopperTypeOK, CallRecord
<1>6. ASSUME NEW p \in Thread, PhyWritten(p) PROVE CopperTypeOK'
  <2>1. call' \in [Thread -> CallRecord]
    <3>1. CASE ~mdi_ctl.ready /\ call[p].polls + 1 < MAX_PHY_RETRY
      <4>1. call' = [call EXCEPT ![p] = [call[p] EXCEPT !.polls = call[p].polls + 1]]
        BY <1>6, <3>1, CopperAssumption DEF PhyWritten
      <4>2. [call[p] EXCEPT !.polls = call[p].polls + 1] \in CallRecord
        BY <1>0, <3>1, CallUpdates
      <4> QED  BY <1>0, <4>1, <4>2
    <3>2. CASE ~(~mdi_ctl.ready /\ call[p].polls + 1 < MAX_PHY_RETRY)
      BY <1>0, <1>6, <3>2, CallZero, CallUpdates DEF PhyWritten
    <3> QED  BY <3>1, <3>2
  <2> QED  BY <1>6, <2>1 DEF PhyWritten, CopperTypeOK, CallRecord
<1>7. CASE MacServe
  BY <1>0, <1>7 DEF MacServe, CopperTypeOK
<1> QED  BY <1>1, <1>2, <1>3, <1>4, <1>5, <1>6, <1>7 DEF CopperNext, CopperStep

\* Nothing is taken back from orig_check_link before something is saved there.
HookTypeInv ==
  /\ HookTypeOK
  /\ orig_check_link = "NULL" =>
       /\ \A x \in Port : check_link[x] # "emulated_check_link"
       /\ \A p \in Thread : hook[p].pc \notin {"exchange", "restore"}

LEMMA HookTypes ==
  ASSUME HookTypeInv, HookNext
  PROVE  HookTypeInv'
<1> USE HookAssumption DEF HookTypeOK, HookTypeInv
<1>0. NoHook \in [pc : {"idle", "save", "exchange", "restore"}, port : Port]
      /\ NoHook.pc = "idle"
  BY DEF NoHook
<1>1. ASSUME NEW p \in Thread, NEW x \in Port, NEW up \in BOOLEAN,
             ixgbe_port_set(p, x, up)
      PROVE  HookTypeInv'
  BY <1>0, <1>1 DEF ixgbe_port_set
<1>2. ASSUME NEW p \in Thread, Save(p) PROVE HookTypeInv'
  BY <1>2 DEF Save
<1>3. ASSUME NEW p \in Thread, Exchange(p) PROVE HookTypeInv'
  BY <1>0, <1>3 DEF Exchange
<1>4. ASSUME NEW p \in Thread, Restore(p) PROVE HookTypeInv'
  BY <1>0, <1>4 DEF Restore
<1> QED  BY <1>1, <1>2, <1>3, <1>4 DEF HookNext, HookStep

IoPc == {"idle", "data", "cpu_write", "cpu_read", "result", "show", "shown"}
Command == [pc : IoPc, write : BOOLEAN, addr : 0..511, data : IoByte]

\* A thread in a command has left its address in the card's words, or another
\* thread has left one: there is always a register behind it.
IoTypeInv ==
  /\ IoTypeOK
  /\ \A p \in Thread : io[p].pc # "idle" =>
       io[p].addr \in IoAddr /\ cpld_ioreg_addr \in IoAddr

LEMMA CommandUpdates ==
  ASSUME NEW z \in Command, NEW c \in IoPc, NEW d \in IoByte
  PROVE  /\ [z EXCEPT !.pc = c, !.data = d] \in Command
         /\ [z EXCEPT !.pc = c, !.data = d].addr = z.addr
BY DEF Command

LEMMA IoTypes ==
  ASSUME IoTypeInv, IoNext
  PROVE  IoTypeInv'
<1> USE IoAssumption DEF IoTypeInv, IoTypeOK, IoPc
<1>0. /\ io \in [Thread -> Command] /\ NoIo \in Command
      /\ reg \in [Register -> IoByte] /\ cpld_ioreg_addr \in 0..511
      /\ \A a \in IoAddr : Offset(a) \in Register
  BY DEF Command, NoIo, Register
<1>1. ASSUME NEW p \in Thread, NEW a \in IoAddr, NEW d \in IoByte,
             NEW write \in BOOLEAN, cpld_set_ioreg(p, write, a, d)
      PROVE  IoTypeInv'
  <2>1. [pc |-> "data", write |-> write, addr |-> a, data |-> d] \in Command
    BY DEF Command
  <2> QED  BY <1>0, <1>1, <2>1 DEF cpld_set_ioreg, Busy, Command
<1>2. ASSUME NEW p \in Thread, StoreData(p) PROVE IoTypeInv'
  BY <1>0, <1>2 DEF StoreData, Command
<1>3. ASSUME NEW p \in Thread, CpuWrite(p) PROVE IoTypeInv'
  <2>1. Data(p) \in IoByte
    BY <1>0 DEF Data, Command
  <2>2. reg' \in [Register -> IoByte]
    BY <1>0, <1>3, <2>1 DEF CpuWrite
  <2>3. io' \in [Thread -> Command] /\ io'[p].pc = "idle"
        /\ \A q \in Thread : q # p => io'[q] = io[q]
    BY <1>0, <1>3 DEF CpuWrite, NoIo
  <2> QED  BY <1>3, <2>2, <2>3 DEF CpuWrite, Command
<1>4. ASSUME NEW p \in Thread, CpuRead(p) PROVE IoTypeInv'
  <2>1. Addr(p) \in IoAddr /\ io[p].addr \in IoAddr
    BY <1>4 DEF CpuRead, Addr
  <2>2. reg[Offset(Addr(p))] \in IoByte /\ reg[Offset(io[p].addr)] \in IoByte
    BY <1>0, <2>1, ZenonT(60)
  <2> DEFINE z == [io[p] EXCEPT !.pc = "result", !.data = reg[Offset(Addr(p))]]
  <2>3. /\ io' = [io EXCEPT ![p] = z] /\ io[p].pc # "idle"
        /\ expected' \in [Thread -> IoByte]
    <3>1. io' = [io EXCEPT ![p] = z] /\ io[p].pc # "idle"
      BY <1>0, <1>4, ZenonT(60) DEF CpuRead
    <3>2. expected' = [expected EXCEPT ![p] = reg[Offset(io[p].addr)]]
      BY <1>4 DEF CpuRead
    <3> QED  BY <2>2, <3>1, <3>2
  <2>4. z \in Command /\ z.addr = io[p].addr
    <3>1. "result" \in IoPc /\ io[p] \in Command
      BY <1>0
    <3> QED  BY ONLY <3>1, <2>2, CommandUpdates
  <2>5. UNCHANGED <<reg, cpld_ioreg_addr, cpld_ioreg_data, reread, mixed>>
    BY <1>4 DEF CpuRead
  <2> HIDE DEF z
  <2> QED  BY <1>0, <2>1, <2>3, <2>4, <2>5 DEF Command
<1>5. ASSUME NEW p \in Thread, StoreResult(p) PROVE IoTypeInv'
  <2>1. io[p].data \in IoByte
    BY <1>0 DEF Command
  <2> DEFINE z == [io[p] EXCEPT !.pc = "show"]
  <2>2. io' = [io EXCEPT ![p] = z] /\ cpld_ioreg_data' \in IoByte /\ io[p].pc # "idle"
    BY <1>5, <2>1 DEF StoreResult
  <2>3. z \in Command /\ z.addr = io[p].addr
    BY <1>0 DEF Command
  <2>4. UNCHANGED <<reg, cpld_ioreg_addr, reread, mixed, expected>>
    BY <1>5 DEF StoreResult
  <2> HIDE DEF z
  <2> QED  BY <1>0, <2>2, <2>3, <2>4 DEF Command
<1>6. ASSUME NEW p \in Thread, cpld_get_ioreg(p) PROVE IoTypeInv'
  <2> DEFINE z == [io[p] EXCEPT !.pc = "shown", !.data = cpld_ioreg_data]
  <2>1. io' = [io EXCEPT ![p] = z] /\ io[p].pc # "idle"
    BY <1>6, ZenonT(60) DEF cpld_get_ioreg
  <2>2. z \in Command /\ z.addr = io[p].addr
    <3>1. "shown" \in IoPc /\ io[p] \in Command /\ cpld_ioreg_data \in IoByte
      BY <1>0
    <3> QED  BY ONLY <3>1, CommandUpdates
  <2>3. UNCHANGED <<reg, cpld_ioreg_addr, cpld_ioreg_data, reread, mixed, expected>>
    BY <1>6 DEF cpld_get_ioreg
  <2> HIDE DEF z
  <2> QED  BY <1>0, <2>1, <2>2, <2>3 DEF Command
<1>7. ASSUME NEW p \in Thread, IoReturn(p) PROVE IoTypeInv'
  BY <1>0, <1>7 DEF IoReturn, Command, NoIo
<1> QED  BY <1>1, <1>2, <1>3, <1>4, <1>5, <1>6, <1>7 DEF IoNext, IoStep

Types == CopperTypeOK /\ HookTypeInv /\ IoTypeInv /\ TypeOK

LEMMA TypesInit == CardInit => Types
<1> SUFFICES ASSUME CardInit PROVE Types
  OBVIOUS
<1>1. CopperTypeOK
  <2>1. NoCall \in CallRecord /\ Zero \in Phy
    BY CallZero
  <2>2. phy_ctl \in Phy /\ led_ctl \in {2, 15} \X {0, 1}
    BY DEF CardInit, CopperInit, Phy
  <2> QED  BY <2>1, <2>2 DEF CardInit, CopperInit, CopperTypeOK, CallRecord
<1>2. HookTypeInv
  BY HookAssumption DEF CardInit, HookInit, HookTypeInv, HookTypeOK, NoHook
<1>3. IoTypeInv
  BY IoAssumption DEF CardInit, IoInit, IoTypeInv, IoTypeOK, NoIo
<1>4. TypeOK
  BY <1>1, <1>2, <1>3, CallsAssumption DEF CardInit, TypeOK, HookTypeInv, IoTypeInv
<1> QED  BY <1>1, <1>2, <1>3, <1>4 DEF Types

LEMMA TypesStep == Types /\ [Next]_vars => Types'
<1> SUFFICES ASSUME Types, [Next]_vars PROVE Types'
  OBVIOUS
<1>0. driver \in {"igb", "ixgbe"}
  BY DEF Types, TypeOK
<1>1. CopperTypeOK'
  <2>1. CASE CopperNext
    BY <2>1, CopperTypes DEF Types
  <2>2. CASE UNCHANGED coppervars
    BY <2>2 DEF Types, coppervars, CopperTypeOK
  <2> QED  BY <1>0, <2>1, <2>2, PartSteps
<1>2. HookTypeInv'
  <2>1. CASE HookNext
    BY <2>1, HookTypes DEF Types
  <2>2. CASE UNCHANGED hookvars
    BY <2>2 DEF Types, hookvars, HookTypeInv, HookTypeOK
  <2> QED  BY <1>0, <2>1, <2>2, PartSteps
<1>3. IoTypeInv'
  <2>1. CASE IoNext
    BY <2>1, IoTypes DEF Types
  <2>2. CASE UNCHANGED iovars
    BY <2>2 DEF Types, iovars, IoTypeInv, IoTypeOK
  <2> QED  BY <1>0, <2>1, <2>2, PartSteps
<1>4. driver' \in {"igb", "ixgbe"} /\ calls' \in 0..MaxCalls
  <2>1. calls \in 0..MaxCalls
    BY DEF Types, TypeOK
  <2>2. ASSUME NEW p \in Thread, Call(p) PROVE driver' = driver /\ calls' \in 0..MaxCalls
    BY <2>1, <2>2, CallsAssumption DEF Call
  <2>3. \/ UNCHANGED <<driver, calls>>
        \/ \E p \in Thread : Call(p)
    BY DEF Next, Step, Mac, Done, vars
  <2> QED  BY <1>0, <2>1, <2>2, <2>3
<1> QED  BY <1>1, <1>2, <1>3, <1>4 DEF Types, TypeOK, HookTypeInv, IoTypeInv

LEMMA TypesInvariant == Spec => []Types
BY TypesInit, TypesStep, PTL DEF Spec

\* No call of port_set or IOREG takes a register, a pointer or the place of a
\* thread out of its range; the hook never restores a NULL operation.
THEOREM TypeCorrect == Spec => []TypeOK
<1>1. Types => TypeOK
  BY DEF Types
<1> QED  BY <1>1, TypesInvariant, PTL

-----------------------------------------------------------------------------
(* The Intel driver's bits *)

\* The Intel driver's bits are in every place where they may be when the next
\* command or write takes them from there: the two registers, the data of
\* MDI_CTL, the locals of the calls.
BitsInv ==
  /\ phy_ctl.set_up /\ led_ctl[2] = 1
  /\ ~mdi_ctl.ready => mdi_ctl.op # "none"
  /\ mdi_ctl.op = "write" => mdi_ctl.data.set_up
  /\ mdi_ctl.op = "read" /\ mdi_ctl.ready => mdi_ctl.data.set_up
  /\ \A p \in Thread :
       /\ call[p].pc # "idle" => mdi_ctl.op # "none"
       /\ call[p].pc \in {"led", "led write", "command"} => call[p].val.set_up
       /\ call[p].pc = "led write" => call[p].led[2] = 1

\* One more look at MDI_CTL.
LEMMA PollAgain ==
  ASSUME call \in [Thread -> CallRecord], NEW p \in Thread,
         call' = [call EXCEPT ![p].polls = @ + 1]
  PROVE  /\ call'[p].pc = call[p].pc /\ call'[p].up = call[p].up
         /\ \A q \in Thread : q # p => call'[q] = call[q]
<1>1. call[p] \in CallRecord
  OBVIOUS
<1>2. /\ [call[p] EXCEPT !.polls = @ + 1].pc = call[p].pc
      /\ [call[p] EXCEPT !.polls = @ + 1].up = call[p].up
  BY <1>1 DEF CallRecord
<1>3. call'[p] = [call[p] EXCEPT !.polls = @ + 1]
  OBVIOUS
<1> QED  BY <1>2, <1>3

\* The answer is fetched.
LEMMA ReadDone ==
  ASSUME call \in [Thread -> CallRecord], NEW p \in Thread, NEW v,
         call' = [call EXCEPT ![p].pc = "led", ![p].val = v]
  PROVE  /\ call'[p].pc = "led" /\ call'[p].val = v /\ call'[p].up = call[p].up
         /\ \A q \in Thread : q # p => call'[q] = call[q]
<1>1. call[p] \in CallRecord
  OBVIOUS
<1>2. call'[p] = [call[p] EXCEPT !.pc = "led", !.val = v]
  OBVIOUS
<1>3. /\ call'[p].pc = "led" /\ call'[p].val = v
      /\ call'[p].up = call[p].up
  BY <1>1, <1>2 DEF CallRecord
<1> QED  BY <1>3

LEMMA BitsStep ==
  ASSUME CopperTypeOK, late \/ BitsInv, CopperNext
  PROVE  (late \/ BitsInv)'
<1> SUFFICES ASSUME ~late, BitsInv, ~late' PROVE BitsInv'
  <2>1. late => late'
    BY DEF CopperNext, CopperStep, copper_port_set, PhyRead, LedRead, LedWrite,
           PhyWrite, PhyWritten, MacServe
  <2> QED  BY <2>1
<1>0. /\ call \in [Thread -> CallRecord] /\ led_ctl \in Led
      /\ mdi_ctl \in [op : {"none", "read", "write"}, data : Phy, ready : BOOLEAN]
  BY DEF CopperTypeOK, CallRecord, Led
<1>1. ASSUME NEW p \in Thread, NEW up \in BOOLEAN, copper_port_set(p, up)
      PROVE  BitsInv'
  BY <1>0, <1>1 DEF copper_port_set, BitsInv, NoCall
<1>2. ASSUME NEW p \in Thread, PhyRead(p) PROVE BitsInv'
  <2>1. UNCHANGED <<phy_ctl, led_ctl, mdi_ctl>> /\ call[p].pc = "read"
    BY <1>2 DEF PhyRead
  <2>2. \/ call' = [call EXCEPT ![p].polls = @ + 1]
        \/ mdi_ctl.ready /\ call' = [call EXCEPT ![p].pc = "led", ![p].val = mdi_ctl.data]
    BY <1>2 DEF PhyRead
  <2>3. mdi_ctl.ready => mdi_ctl.data.set_up
    BY <1>0, <2>1 DEF BitsInv
  <2>4. \/ call'[p].pc = "read"
        \/ call'[p].pc = "led" /\ call'[p].val.set_up
    <3>1. CASE call' = [call EXCEPT ![p].polls = @ + 1]
      BY <1>0, <2>1, <3>1, PollAgain
    <3>2. CASE mdi_ctl.ready /\ call' = [call EXCEPT ![p].pc = "led", ![p].val = mdi_ctl.data]
      BY <1>0, <2>3, <3>2, ReadDone
    <3> QED  BY <2>2, <3>1, <3>2
  <2>5. \A q \in Thread : q # p => call'[q] = call[q]
    BY <1>0, <2>2
  <2> QED  BY <2>1, <2>4, <2>5 DEF BitsInv
<1>3. ASSUME NEW p \in Thread, LedRead(p) PROVE BitsInv'
  BY <1>0, <1>3, ZenonT(60) DEF LedRead, BitsInv, CallRecord
<1>4. ASSUME NEW p \in Thread, LedWrite(p) PROVE BitsInv'
  BY <1>0, <1>4 DEF LedWrite, BitsInv, CallRecord
<1>5. ASSUME NEW p \in Thread, PhyWrite(p) PROVE BitsInv'
  <2>1. /\ UNCHANGED <<phy_ctl, led_ctl>> /\ call[p].pc = "command"
        /\ mdi_ctl'.op = "write" /\ ~mdi_ctl'.ready
        /\ mdi_ctl'.data = [call[p].val EXCEPT !.down = ~call[p].up]
    BY <1>5 DEF PhyWrite
  <2>2. call[p].val \in Phy /\ call[p].val.set_up
    BY <1>0, <2>1 DEF CallRecord, BitsInv
  <2>3. mdi_ctl'.data.set_up
    BY <2>1, <2>2 DEF Phy
  <2>4. /\ call'[p].pc = "write"
        /\ \A q \in Thread : q # p => call'[q] = call[q]
    BY <1>0, <1>5 DEF PhyWrite, CallRecord
  <2> QED  BY <2>1, <2>3, <2>4, ZenonT(60) DEF BitsInv
<1>6. ASSUME NEW p \in Thread, PhyWritten(p) PROVE BitsInv'
  <2>1. UNCHANGED <<phy_ctl, led_ctl, mdi_ctl>> /\ call[p].pc = "write"
    BY <1>6 DEF PhyWritten
  <2>2. \/ call' = [call EXCEPT ![p].polls = @ + 1]
        \/ call' = [call EXCEPT ![p] = NoCall]
    BY <1>6 DEF PhyWritten
  <2>3. call'[p].pc \in {"write", "idle"}
    <3>1. CASE call' = [call EXCEPT ![p].polls = @ + 1]
      BY <1>0, <2>1, <3>1, PollAgain
    <3>2. CASE call' = [call EXCEPT ![p] = NoCall]
      BY <1>0, <3>2 DEF NoCall
    <3> QED  BY <2>2, <3>1, <3>2
  <2>4. \A q \in Thread : q # p => call'[q] = call[q]
    BY <1>0, <2>2
  <2> QED  BY <2>1, <2>3, <2>4 DEF BitsInv
<1>7. CASE MacServe
  BY <1>0, <1>7 DEF MacServe, BitsInv
<1> QED  BY <1>1, <1>2, <1>3, <1>4, <1>5, <1>6, <1>7 DEF CopperNext, CopperStep

\* Calls of copper_port_set that overlap and get each other's answers never
\* lose the Intel driver's settings of the PHY or the LEDs; a poll that gives
\* up does (port.c:93).
THEOREM PhyBitsSurvive == Spec => []PhyBitsKept
<1>1. CardInit => late \/ BitsInv
  <2> SUFFICES ASSUME CardInit PROVE BitsInv
    OBVIOUS
  <2>1. phy_ctl.set_up /\ led_ctl[2] = 1 /\ mdi_ctl.op = "none" /\ mdi_ctl.ready
    BY DEF CardInit, CopperInit
  <2>2. \A p \in Thread : call[p].pc = "idle"
    BY DEF CardInit, CopperInit, NoCall
  <2> QED  BY <2>1, <2>2 DEF BitsInv
<1>2. Types /\ (late \/ BitsInv) /\ [Next]_vars => (late \/ BitsInv)'
  <2> SUFFICES ASSUME Types, late \/ BitsInv, [Next]_vars
               PROVE  (late \/ BitsInv)'
    OBVIOUS
  <2>1. CASE CopperNext
    BY <2>1, BitsStep DEF Types
  <2>2. CASE UNCHANGED coppervars
    BY <2>2 DEF coppervars, BitsInv
  <2> QED  BY <2>1, <2>2, PartSteps DEF Types, TypeOK
<1>3. late \/ BitsInv => PhyBitsKept
  BY DEF BitsInv, PhyBitsKept
<1> QED  BY <1>1, <1>2, <1>3, TypesInvariant, PTL DEF Spec

-----------------------------------------------------------------------------
(* What the last call asked for *)

\* One call at a time, and how far it has got.
Lit(up) == IF up THEN 2 ELSE 15
OneCall == \A p, q \in Thread : call[p].pc # "idle" /\ call[q].pc # "idle" => p = q
Progress(p) ==
  /\ call[p].pc # "idle" => (call[p].up <=> asked)
  /\ call[p].pc \in {"read", "led", "led write", "command"} => mdi_ctl.op = "read"
  /\ call[p].pc \in {"command", "write"} => led_ctl[1] = Lit(asked)
  /\ call[p].pc = "write" =>
       /\ mdi_ctl.op = "write" /\ (mdi_ctl.data.down <=> ~asked)
       /\ mdi_ctl.ready => (phy_ctl.down <=> ~asked)
AtRest == mdi_ctl.ready /\ (phy_ctl.down <=> ~asked) /\ led_ctl[1] = Lit(asked)
AskedInv == /\ OneCall
            /\ \A p \in Thread : Progress(p)
            /\ (\A p \in Thread : call[p].pc = "idle") => AtRest

\* A step of a call that goes on: the others are idle.
LEMMA OneGoesOn ==
  ASSUME AskedInv, NEW p \in Thread, call[p].pc # "idle", call'[p].pc # "idle",
         \A q \in Thread : q # p => call'[q] = call[q], Progress(p)'
  PROVE  AskedInv'
<1>1. \A q \in Thread : q # p => call'[q].pc = "idle"
  BY DEF AskedInv, OneCall
<1>2. OneCall'
  BY <1>1 DEF OneCall
<1>3. \A q \in Thread : Progress(q)'
  BY <1>1 DEF Progress
<1> QED  BY <1>2, <1>3 DEF AskedInv

LEMMA AskedHistory ==
  ASSUME CopperNext
  PROVE  (late => late') /\ (overlapped => overlapped')
<1>1. ASSUME NEW p \in Thread, NEW up \in BOOLEAN, copper_port_set(p, up)
      PROVE  (late => late') /\ (overlapped => overlapped')
  BY <1>1 DEF copper_port_set
<1>2. ASSUME NEW p \in Thread, CopperStep(p)
      PROVE  (late => late') /\ overlapped' = overlapped
  <2>1. CASE PhyRead(p)
    BY <2>1 DEF PhyRead
  <2>2. CASE PhyWritten(p)
    BY <2>2 DEF PhyWritten
  <2>3. CASE LedRead(p)
    BY <2>3 DEF LedRead
  <2>4. CASE LedWrite(p)
    BY <2>4 DEF LedWrite
  <2>5. CASE PhyWrite(p)
    BY <2>5 DEF PhyWrite
  <2> QED  BY <1>2, <2>1, <2>2, <2>3, <2>4, <2>5 DEF CopperStep
<1> QED  BY <1>1, <1>2 DEF CopperNext, MacServe

LEMMA AskedStep ==
  ASSUME CopperTypeOK, AskedInv, CopperNext, ~late', ~overlapped'
  PROVE  AskedInv'
<1>0. /\ call \in [Thread -> CallRecord] /\ led_ctl \in Led /\ phy_ctl \in Phy
      /\ mdi_ctl \in [op : {"none", "read", "write"}, data : Phy, ready : BOOLEAN]
      /\ ~late /\ ~overlapped
  BY AskedHistory DEF CopperTypeOK, CallRecord, Led
<1>1. ASSUME NEW p \in Thread, NEW up \in BOOLEAN, copper_port_set(p, up)
      PROVE  AskedInv'
  <2>1. \A q \in Thread : call[q].pc = "idle"
    BY <1>1 DEF copper_port_set
  <2>2. /\ call'[p].pc = "read" /\ call'[p].up = up
        /\ \A q \in Thread : q # p => call'[q] = call[q]
    BY <1>0, <1>1 DEF copper_port_set, NoCall
  <2>3. mdi_ctl'.op = "read" /\ asked' = up
    BY <1>1 DEF copper_port_set
  <2>4. OneCall' /\ \E q \in Thread : call'[q].pc # "idle"
    BY <2>1, <2>2 DEF OneCall
  <2>5. \A q \in Thread : Progress(q)'
    BY <2>1, <2>2, <2>3 DEF Progress
  <2> QED  BY <2>4, <2>5 DEF AskedInv
<1>2. ASSUME NEW p \in Thread, PhyRead(p) PROVE AskedInv'
  <2>1. UNCHANGED <<phy_ctl, led_ctl, mdi_ctl, asked>> /\ call[p].pc = "read"
    BY <1>2 DEF PhyRead
  <2>2. \/ call' = [call EXCEPT ![p].polls = @ + 1]
        \/ call' = [call EXCEPT ![p].pc = "led", ![p].val = mdi_ctl.data]
    BY <1>2, <1>0 DEF PhyRead
  <2>3. /\ call'[p].pc \in {"read", "led"} /\ call'[p].up = call[p].up
        /\ \A q \in Thread : q # p => call'[q] = call[q]
    <3>1. CASE call' = [call EXCEPT ![p].polls = @ + 1]
      BY <1>0, <2>1, <3>1, PollAgain
    <3>2. CASE call' = [call EXCEPT ![p].pc = "led", ![p].val = mdi_ctl.data]
      BY <1>0, <3>2, ReadDone
    <3> QED  BY <2>2, <3>1, <3>2
  <2>4. Progress(p)'
    BY <2>1, <2>3 DEF AskedInv, Progress
  <2> QED  BY <2>1, <2>3, <2>4, OneGoesOn
<1>3. ASSUME NEW p \in Thread, LedRead(p) PROVE AskedInv'
  <2>1. UNCHANGED <<phy_ctl, led_ctl, mdi_ctl, asked>> /\ call[p].pc = "led"
    BY <1>3 DEF LedRead
  <2>2. /\ call'[p].pc = "led write" /\ call'[p].up = call[p].up
        /\ \A q \in Thread : q # p => call'[q] = call[q]
    BY <1>0, <1>3 DEF LedRead, CallRecord
  <2>3. Progress(p)'
    BY <2>1, <2>2 DEF AskedInv, Progress
  <2> QED  BY <2>1, <2>2, <2>3, OneGoesOn
<1>4. ASSUME NEW p \in Thread, LedWrite(p) PROVE AskedInv'
  <2>1. /\ UNCHANGED <<phy_ctl, mdi_ctl, asked>> /\ call[p].pc = "led write"
        /\ led_ctl'[1] = Lit(call[p].up)
    BY <1>4 DEF LedWrite, Lit
  <2>2. /\ call'[p].pc = "command" /\ call'[p].up = call[p].up
        /\ \A q \in Thread : q # p => call'[q] = call[q]
    BY <1>0, <1>4 DEF LedWrite, CallRecord
  <2>3. Lit(call[p].up) = Lit(asked)
    BY <2>1 DEF AskedInv, Progress, Lit
  <2>4. Progress(p)'
    BY <2>1, <2>2, <2>3 DEF AskedInv, Progress
  <2> QED  BY <2>1, <2>2, <2>4, OneGoesOn
<1>5. ASSUME NEW p \in Thread, PhyWrite(p) PROVE AskedInv'
  <2>1. /\ UNCHANGED <<phy_ctl, led_ctl, asked>> /\ call[p].pc = "command"
        /\ mdi_ctl'.op = "write" /\ ~mdi_ctl'.ready
        /\ mdi_ctl'.data = [call[p].val EXCEPT !.down = ~call[p].up]
    BY <1>5 DEF PhyWrite
  <2>2. call[p].val \in Phy /\ call[p].up \in BOOLEAN
    BY <1>0 DEF CallRecord
  <2>3. mdi_ctl'.data.down <=> ~call[p].up
    BY <2>1, <2>2 DEF Phy
  <2>4. /\ call'[p].pc = "write" /\ call'[p].up = call[p].up
        /\ \A q \in Thread : q # p => call'[q] = call[q]
    BY <1>0, <1>5 DEF PhyWrite, CallRecord
  <2>5. mdi_ctl'.data.down <=> ~asked'
    BY <2>1, <2>3 DEF AskedInv, Progress
  <2>6. led_ctl'[1] = Lit(asked') /\ (call'[p].up <=> asked')
    BY <2>1, <2>4 DEF AskedInv, Progress
  <2>7. Progress(p)'
    BY <2>1, <2>4, <2>5, <2>6 DEF Progress
  <2> QED  BY <2>1, <2>4, <2>7, OneGoesOn
<1>6. ASSUME NEW p \in Thread, PhyWritten(p) PROVE AskedInv'
  <2>1. UNCHANGED <<phy_ctl, led_ctl, mdi_ctl, asked>> /\ call[p].pc = "write"
    BY <1>6 DEF PhyWritten
  <2>2. CASE call' = [call EXCEPT ![p].polls = @ + 1]
    <3>1. /\ call'[p].pc = "write" /\ call'[p].up = call[p].up
          /\ \A q \in Thread : q # p => call'[q] = call[q]
      BY <1>0, <2>1, <2>2, PollAgain
    <3>2. Progress(p)'
      BY <2>1, <3>1 DEF AskedInv, Progress
    <3> QED  BY <2>1, <3>1, <3>2, OneGoesOn
  <2>3. CASE mdi_ctl.ready /\ call' = [call EXCEPT ![p] = NoCall]
    <3>1. /\ call'[p].pc = "idle"
          /\ \A q \in Thread : q # p => call'[q] = call[q]
      BY <1>0, <2>3 DEF NoCall
    <3>2. \A q \in Thread : call'[q].pc = "idle"
      BY <2>1, <3>1 DEF AskedInv, OneCall
    <3>3. AtRest'
      BY <2>1, <2>3 DEF AskedInv, Progress, AtRest
    <3> QED  BY <3>2, <3>3 DEF AskedInv, OneCall, Progress
  <2> QED  BY <1>0, <1>6, <2>2, <2>3 DEF PhyWritten
<1>7. CASE MacServe
  <2>1. UNCHANGED <<led_ctl, call, asked>> /\ ~mdi_ctl.ready
    BY <1>7 DEF MacServe
  <2>2. CASE mdi_ctl.op = "read"
    <3>1. phy_ctl' = phy_ctl /\ mdi_ctl'.op = "read" /\ mdi_ctl'.ready
      BY <1>0, <1>7, <2>2 DEF MacServe
    <3> QED  BY <2>1, <2>2, <3>1 DEF AskedInv, OneCall, Progress, AtRest
  <2>3. CASE mdi_ctl.op # "read"
    <3>1. /\ phy_ctl' = mdi_ctl.data /\ mdi_ctl'.op = mdi_ctl.op
          /\ mdi_ctl'.data = mdi_ctl.data /\ mdi_ctl'.ready
      BY <1>0, <1>7, <2>3 DEF MacServe
    <3> QED  BY <2>1, <2>3, <3>1 DEF AskedInv, OneCall, Progress, AtRest
  <2> QED  BY <2>2, <2>3
<1> QED  BY <1>1, <1>2, <1>3, <1>4, <1>5, <1>6, <1>7 DEF CopperNext, CopperStep

\* When no call of copper_port_set is under way, the port's power and its LEDs
\* are what the last one asked for, unless a poll has given up or calls have
\* overlapped.
THEOREM PortIsAsAsked == Spec => []PortAsAsked
<1> DEFINE I == late \/ overlapped \/ AskedInv
<1>1. CardInit => I
  <2> SUFFICES ASSUME CardInit PROVE AskedInv
    OBVIOUS
  <2>1. /\ ~phy_ctl.down /\ led_ctl[1] = 2 /\ mdi_ctl.ready /\ asked
        /\ \A p \in Thread : call[p].pc = "idle"
    BY DEF CardInit, CopperInit, NoCall
  <2> QED  BY <2>1 DEF AskedInv, OneCall, Progress, AtRest, Lit
<1>2. Types /\ I /\ [Next]_vars => I'
  <2> SUFFICES ASSUME Types, I, [Next]_vars PROVE I'
    OBVIOUS
  <2>1. CASE CopperNext
    BY <2>1, AskedStep, AskedHistory DEF Types
  <2>2. CASE UNCHANGED coppervars
    BY <2>2 DEF coppervars, AskedInv, OneCall, Progress, AtRest
  <2> QED  BY <2>1, <2>2, PartSteps DEF Types, TypeOK
<1>3. Types /\ I => PortAsAsked
  <2> SUFFICES ASSUME Types, AskedInv, \A p \in Thread : call[p].pc = "idle"
               PROVE  phy_ctl.down = ~asked /\ led_ctl[1] = IF asked THEN 2 ELSE 15
    BY DEF PortAsAsked
  <2>1. phy_ctl.down \in BOOLEAN /\ asked \in BOOLEAN
    BY DEF Types, CopperTypeOK, Phy
  <2> QED  BY <2>1 DEF AskedInv, AtRest, Lit
<1> QED  BY <1>1, <1>2, <1>3, TypesInvariant, PTL DEF Spec

-----------------------------------------------------------------------------
(* The ixgbe hook *)

\* The saved operation is the ports' common one whenever a port needs it, and
\* a port is in the state its last call asked for, or a call is on the way.
HookInv ==
  \A x \in Port :
    /\ check_link[x] \in {own[x], "emulated_check_link"}
    /\ check_link[x] = "emulated_check_link" => orig_check_link = own[x]
    /\ (\A p \in Thread : hook[p].pc = "idle" \/ hook[p].port # x) =>
         (check_link[x] = "emulated_check_link" <=> x \in down)
    /\ \A p \in Thread : hook[p].pc # "idle" /\ hook[p].port = x =>
         /\ \A q \in Thread : hook[q].pc # "idle" /\ hook[q].port = x => p = q
         /\ hook[p].pc \in {"save", "exchange"} => check_link[x] = own[x] /\ x \in down
         /\ hook[p].pc = "exchange" => orig_check_link = own[x]
         /\ hook[p].pc = "restore" =>
              check_link[x] = "emulated_check_link" /\ x \notin down
SameOwn == \A x, y \in Port : own[x] = own[y]

LEMMA HookHistory ==
  ASSUME HookNext
  PROVE  own' = own /\ (raced => raced')
<1>1. ASSUME NEW p \in Thread, NEW x \in Port, NEW up \in BOOLEAN,
             ixgbe_port_set(p, x, up)
      PROVE  own' = own /\ (raced => raced')
  BY <1>1 DEF ixgbe_port_set
<1>2. ASSUME NEW p \in Thread, HookStep(p)
      PROVE  own' = own /\ (raced => raced')
  BY <1>2 DEF HookStep, Save, Exchange, Restore
<1> QED  BY <1>1, <1>2 DEF HookNext

LEMMA HookInvStep ==
  ASSUME HookTypeInv, HookNext, SameOwn, ~raced', ~raced, HookInv
  PROVE  HookInv'
<1> USE HookAssumption DEF HookInv, SameOwn
<1>0. /\ own \in [Port -> Operations] /\ NoHook.pc = "idle" /\ own' = own
      /\ check_link \in [Port -> Operations \cup {"emulated_check_link"}]
      /\ hook \in [Thread -> [pc : {"idle", "save", "exchange", "restore"}, port : Port]]
  BY HookHistory DEF HookTypeInv, HookTypeOK, NoHook
<1>1. ASSUME NEW p \in Thread, NEW x \in Port, NEW up \in BOOLEAN,
             ixgbe_port_set(p, x, up)
      PROVE  HookInv'
  <2>1. UNCHANGED <<check_link, orig_check_link>> /\ hook[p].pc = "idle"
        /\ \A q \in Thread : hook[q].pc = "idle" \/ hook[q].port # x
    BY <1>1 DEF ixgbe_port_set
  <2>2. /\ \A q \in Thread : q # p => hook'[q] = hook[q]
        /\ \A y \in Port : y # x => (y \in down' <=> y \in down)
        /\ x \in down' <=> ~up
    BY <1>0, <1>1 DEF ixgbe_port_set
  <2>3. \/ /\ hook'[p].pc = "idle"
           /\ (check_link[x] = "emulated_check_link") <=> ~up
        \/ /\ hook'[p].pc = "save" /\ hook'[p].port = x
           /\ ~up /\ check_link[x] # "emulated_check_link"
        \/ /\ hook'[p].pc = "restore" /\ hook'[p].port = x
           /\ up /\ check_link[x] = "emulated_check_link"
    BY <1>0, <1>1 DEF ixgbe_port_set
  <2> QED  BY <1>0, <2>1, <2>2, <2>3
<1>2. ASSUME NEW p \in Thread, Save(p) PROVE HookInv'
  BY <1>0, <1>2 DEF Save
<1>3. ASSUME NEW p \in Thread, Exchange(p) PROVE HookInv'
  BY <1>0, <1>3 DEF Exchange
<1>4. ASSUME NEW p \in Thread, Restore(p) PROVE HookInv'
  BY <1>0, <1>4 DEF Restore
<1> QED  BY <1>1, <1>2, <1>3, <1>4 DEF HookNext, HookStep

\* With one check_link operation for all ports, and no two calls at the same
\* port at a time, every port gets its own operation back, whatever happens at
\* the other ports in between, and reports no link while it is down.
THEOREM HookIsExact == Spec => []HookExact
<1> DEFINE I == raced \/ ~SameOwn \/ HookInv
<1>1. CardInit => I
  BY HookAssumption DEF CardInit, HookInit, HookInv, NoHook
<1>2. Types /\ I /\ [Next]_vars => I'
  <2> SUFFICES ASSUME Types, I, [Next]_vars PROVE I'
    OBVIOUS
  <2>1. CASE HookNext
    <3>1. own' = own /\ (raced => raced')
      BY <2>1, HookHistory
    <3>2. SameOwn' <=> SameOwn
      BY <3>1 DEF SameOwn
    <3> QED  BY <2>1, <3>1, <3>2, HookInvStep DEF Types
  <2>2. CASE UNCHANGED hookvars
    BY <2>2 DEF hookvars, HookInv, SameOwn
  <2> QED  BY <2>1, <2>2, PartSteps DEF Types, TypeOK
<1>3. I => HookExact
  BY DEF HookInv, HookExact, SameOwn
<1> QED  BY <1>1, <1>2, <1>3, TypesInvariant, PTL DEF Spec

-----------------------------------------------------------------------------
(* IOREG *)

\* Who shares the words is mixed; the words and the result of a thread that is
\* not are its own.
IoInv ==
  /\ \A p, q \in Thread : io[p].pc # "idle" /\ io[q].pc # "idle" /\ p # q => p \in mixed
  /\ \A p \in Thread \ mixed :
       /\ io[p].pc # "idle" => cpld_ioreg_addr = io[p].addr
       /\ io[p].pc \in {"result", "shown"} => io[p].data = expected[p]
       /\ io[p].pc = "show" => cpld_ioreg_data = expected[p]

LEMMA IoInvStep ==
  ASSUME IoTypeInv, IoInv, IoNext
  PROVE  IoInv'
<1> USE DEF IoInv
<1>0. io \in [Thread -> Command] /\ expected \in [Thread -> IoByte] /\ mixed \subseteq Thread
  BY DEF IoTypeInv, IoTypeOK, Command, IoPc
<1>1. ASSUME NEW p \in Thread, NEW a \in IoAddr, NEW d \in IoByte,
             NEW write \in BOOLEAN, cpld_set_ioreg(p, write, a, d)
      PROVE  IoInv'
  BY <1>0, <1>1 DEF cpld_set_ioreg, Busy
<1>2. ASSUME NEW p \in Thread, StoreData(p) PROVE IoInv'
  BY <1>0, <1>2 DEF StoreData, Command
<1>3. ASSUME NEW p \in Thread, CpuWrite(p) PROVE IoInv'
  BY <1>0, <1>3 DEF CpuWrite, NoIo
<1>4. ASSUME NEW p \in Thread, CpuRead(p) PROVE IoInv'
  BY <1>0, <1>4 DEF CpuRead, Addr, Command
<1>5. ASSUME NEW p \in Thread, StoreResult(p) PROVE IoInv'
  BY <1>0, <1>5 DEF StoreResult, Command
<1>6. ASSUME NEW p \in Thread, cpld_get_ioreg(p) PROVE IoInv'
  BY <1>0, <1>6 DEF cpld_get_ioreg, Command
<1>7. ASSUME NEW p \in Thread, IoReturn(p) PROVE IoInv'
  BY <1>0, <1>7 DEF IoReturn, NoIo
<1> QED  BY <1>1, <1>2, <1>3, <1>4, <1>5, <1>6, <1>7 DEF IoNext, IoStep

\* util -g prints what its register held, whether the compiler fetches the
\* words of IOREG again or not, unless another command was stored meanwhile.
THEOREM IoIsExact == Spec => []IoExact
<1>1. CardInit => IoInv
  BY DEF CardInit, IoInit, IoInv, NoIo
<1>2. Types /\ IoInv /\ [Next]_vars => IoInv'
  <2> SUFFICES ASSUME Types, IoInv, [Next]_vars PROVE IoInv'
    OBVIOUS
  <2>1. CASE IoNext
    BY <2>1, IoInvStep DEF Types
  <2>2. CASE UNCHANGED iovars
    BY <2>2 DEF iovars, IoInv
  <2> QED  BY <2>1, <2>2, PartSteps DEF Types, TypeOK
<1>3. IoInv => IoExact
  BY DEF IoInv, IoExact
<1> QED  BY <1>1, <1>2, <1>3, TypesInvariant, PTL DEF Spec
=============================================================================
