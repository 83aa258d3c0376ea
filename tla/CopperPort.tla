----------------------------- MODULE CopperPort -----------------------------
(***************************************************************************)
(* copper_port_set of module/port.c on one port: its PHY control register, *)
(* reached by commands in MDI_CTL, and its LED register are read, changed  *)
(* and written back, by the LFD thread and by writers of the port          *)
(* attributes, without a lock.                                             *)
(***************************************************************************)
EXTENDS CardThreads, Integers

CONSTANT MAX_PHY_RETRY  \* polls of MDI_CTL, MAX_PHY_RETRY in the code

ASSUME CopperAssumption == MAX_PHY_RETRY \in Nat \ {0}

\* Contents of a register: the bits that copper_port_set changes and the rest,
\* of which it only matters whether it is as the Intel driver set it up.
Phy == [down : BOOLEAN, set_up : BOOLEAN]
Zero == [down |-> FALSE, set_up |-> FALSE]

VARIABLES
  phy_ctl,   \* the PHY's control register
  led_ctl,   \* LED_CTL: the low four bits, the rest
  mdi_ctl,   \* MDI_CTL: command, data, PHY_RDY
  call,      \* what a thread does in copper_port_set, its locals
  asked,     \* the last port_set (history)
  late,      \* some poll has given up (history)
  overlapped \* two threads were in copper_port_set at a time (history)

coppervars == <<phy_ctl, led_ctl, mdi_ctl, call, asked, late, overlapped>>

NoCall == [pc |-> "idle", up |-> TRUE, val |-> Zero, led |-> <<0, 0>>, polls |-> 0]

CopperInit ==
  /\ phy_ctl = [down |-> FALSE, set_up |-> TRUE] /\ led_ctl = <<2, 1>>
  /\ mdi_ctl = [op |-> "none", data |-> Zero, ready |-> TRUE]
  /\ call = [p \in Thread |-> NoCall]
  /\ asked = TRUE /\ late = FALSE /\ overlapped = FALSE

\* The call begins, and the command to read is given.
copper_port_set(p, up) ==
  /\ call[p].pc = "idle"
  /\ call' = [call EXCEPT ![p] = [NoCall EXCEPT !.pc = "read", !.up = up]]
  /\ mdi_ctl' = [op |-> "read", data |-> Zero, ready |-> FALSE]
  /\ asked' = up
  /\ overlapped' = (overlapped \/ \E q \in Thread : call[q].pc # "idle")
  /\ UNCHANGED <<phy_ctl, led_ctl, late>>

\* Mutant: the first look at MDI_CTL is taken for the answer.
PhyRead_Hasty(p) ==
  /\ call[p].pc = "read"
  /\ call' = [call EXCEPT ![p].pc = "led", ![p].val = mdi_ctl.data]
  /\ UNCHANGED <<phy_ctl, led_ctl, mdi_ctl, asked, late, overlapped>>

\* Mutant: no limit to the polls.
PhyRead_Unbounded(p) ==
  /\ call[p].pc = "read"
  /\ call' = [call EXCEPT ![p] = IF mdi_ctl.ready
                                  THEN [@ EXCEPT !.pc = "led", !.val = mdi_ctl.data]
                                  ELSE [@ EXCEPT !.polls = @ + 1]]
  /\ UNCHANGED <<late, phy_ctl, led_ctl, mdi_ctl, asked, overlapped>>

\* niagara_phy_read looks for PHY_RDY.  Its result is not looked at: when it
\* gives up, val is still zero.
PhyRead(p) ==
  /\ call[p].pc = "read"
  /\ \/ /\ mdi_ctl.ready
        /\ call' = [call EXCEPT ![p].pc = "led", ![p].val = mdi_ctl.data]
        /\ UNCHANGED late
     \/ /\ ~mdi_ctl.ready /\ call[p].polls + 1 < MAX_PHY_RETRY
        /\ call' = [call EXCEPT ![p].polls = @ + 1]
        /\ UNCHANGED late
     \/ /\ ~mdi_ctl.ready /\ call[p].polls + 1 = MAX_PHY_RETRY
        /\ call' = [call EXCEPT ![p].pc = "led"] /\ late' = TRUE
  /\ UNCHANGED <<phy_ctl, led_ctl, mdi_ctl, asked, overlapped>>

LedRead(p) ==
  /\ call[p].pc = "led"
  /\ call' = [call EXCEPT ![p].pc = "led write", ![p].led = led_ctl]
  /\ UNCHANGED <<phy_ctl, led_ctl, mdi_ctl, asked, late, overlapped>>

LedWrite(p) ==
  /\ call[p].pc = "led write"
  /\ led_ctl' = <<IF call[p].up THEN 2 ELSE 15, call[p].led[2]>>
  /\ call' = [call EXCEPT ![p].pc = "command"]
  /\ UNCHANGED <<phy_ctl, mdi_ctl, asked, late, overlapped>>

\* The command to write the control register back with the power bit changed.
PhyWrite(p) ==
  /\ call[p].pc = "command"
  /\ mdi_ctl' = [op |-> "write", ready |-> FALSE,
                 data |-> [call[p].val EXCEPT !.down = ~call[p].up]]
  /\ call' = [call EXCEPT ![p].pc = "write", ![p].polls = 0]
  /\ UNCHANGED <<phy_ctl, led_ctl, asked, late, overlapped>>

\* Mutant: the call does not wait for the write.
PhyWritten_NoWait(p) ==
  /\ call[p].pc = "write"
  /\ call' = [call EXCEPT ![p] = NoCall]
  /\ UNCHANGED <<late, phy_ctl, led_ctl, mdi_ctl, asked, overlapped>>

PhyWritten(p) ==
  /\ call[p].pc = "write"
  /\ \/ mdi_ctl.ready /\ call' = [call EXCEPT ![p] = NoCall] /\ UNCHANGED late
     \/ /\ ~mdi_ctl.ready /\ call[p].polls + 1 < MAX_PHY_RETRY
        /\ call' = [call EXCEPT ![p].polls = @ + 1]
        /\ UNCHANGED late
     \/ /\ ~mdi_ctl.ready /\ call[p].polls + 1 = MAX_PHY_RETRY
        /\ call' = [call EXCEPT ![p] = NoCall] /\ late' = TRUE
  /\ UNCHANGED <<phy_ctl, led_ctl, mdi_ctl, asked, overlapped>>

\* The MAC carries out the command; the data of a write stay in MDI_CTL.
MacServe ==
  /\ ~mdi_ctl.ready
  /\ IF mdi_ctl.op = "read"
     THEN mdi_ctl' = [mdi_ctl EXCEPT !.ready = TRUE, !.data = phy_ctl] /\ UNCHANGED phy_ctl
     ELSE mdi_ctl' = [mdi_ctl EXCEPT !.ready = TRUE] /\ phy_ctl' = mdi_ctl.data
  /\ UNCHANGED <<led_ctl, call, asked, late, overlapped>>

CopperStep(p) == PhyRead(p) \/ LedRead(p) \/ LedWrite(p) \/ PhyWrite(p) \/ PhyWritten(p)

CopperTypeOK ==
  /\ phy_ctl \in Phy /\ led_ctl \in {2, 15} \X {0, 1}
  /\ mdi_ctl \in [op : {"none", "read", "write"}, data : Phy, ready : BOOLEAN]
  /\ call \in [Thread -> [pc : {"idle", "read", "led", "led write", "command", "write"},
                          up : BOOLEAN, val : Phy, led : {0, 2, 15} \X {0, 1},
                          polls : 0..(MAX_PHY_RETRY - 1)]]
  /\ asked \in BOOLEAN /\ late \in BOOLEAN /\ overlapped \in BOOLEAN

\* The Intel driver's settings in the PHY and LED registers survive any calls of
\* port_set, also calls at the same time that get each other's answers; unless
\* a poll has given up.
PhyBitsKept == late \/ (phy_ctl.set_up /\ led_ctl[2] = 1)

\* After port_set the port is powered and its LEDs lit as the last call asked,
\* unless a poll has given up or calls have overlapped.
PortAsAsked ==
  late \/ overlapped \/ (\E p \in Thread : call[p].pc # "idle")
    \/ (phy_ctl.down = ~asked /\ led_ctl[1] = IF asked THEN 2 ELSE 15)
=============================================================================
