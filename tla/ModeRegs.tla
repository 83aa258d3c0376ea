------------------------------ MODULE ModeRegs ------------------------------
(***************************************************************************)
(* The two mode registers of a fiber segment in the card's CPU, and the    *)
(* calls that share them: fiber_port_set of module/port.c (from the LFD    *)
(* thread and from attributes port0 and port1), set_current_mode and       *)
(* set_default_mode of module/api.c.  Every cpu_read and cpu_write is one  *)
(* step, which is what CpuAccess shows; the calls are several of them, and *)
(* nothing keeps another thread away in between.                           *)
(*                                                                         *)
(* A register: bit 7 is written as 1, bits 3..6 are the mode, bits 0 and 1 *)
(* enable the ports.  Current mode 0x70 hands over to the default mode.    *)
(***************************************************************************)
EXTENDS Integers

CONSTANTS Thread,   \* threads that set attributes
          Lfd,      \* the LFD thread
          Values,   \* what is written to attributes current_mode, default_mode
          MaxOps    \* bound: calls made by one thread

ASSUME ModeAssumption == /\ Lfd \notin Thread
                         /\ Values \subseteq Nat /\ MaxOps \in Nat

Proc == Thread \cup {Lfd}
Port == {0, 1}
DEFAULT == 112   \* 0x70

VARIABLES
  keep7,            \* the CPU keeps bit 7 of a mode register
  swapped,          \* F_PCTL_SWAPPED: the port bits are exchanged
  current, default, \* the registers
  pc, arg, val, left,
  stale,            \* stale[t]: a register t has read was written by another
  asked,            \* what the attributes were last set to (history)
  wanted,           \* what port_set last asked for, "any" after the mode
                    \* moved on to other port bits (history)
  lost,             \* a call wrote back a stale register (history)
  misread           \* port_set took a forced mode for default (history)

setup   == <<keep7, swapped>>
history == <<asked, wanted, misread>>
vars == <<setup, current, default, pc, arg, val, left, stale, history, lost>>

Kept(v) == IF keep7 THEN v ELSE v % 128
Bit(v, i) == (v \div 2^i) % 2

\* Mutant: val &= 1 << port, without the complement.
WithBit_NoComplement(v, i, b) ==
  IF b THEN v + (1 - Bit(v, i)) * 2^i ELSE Bit(v, i) * 2^i

WithBit(v, i, b) == v + ((IF b THEN 1 ELSE 0) - Bit(v, i)) * 2^i
Phys(port) == IF swapped THEN 1 - port ELSE port

bad_current_mode(v) == v % 256 # DEFAULT /\ v % 256 > 5
bad_default_mode(v) == v % 256 > 5
get_current_mode == IF current % 128 = DEFAULT THEN DEFAULT
                    ELSE (current % 128) \div 8
get_default_mode == (default % 128) \div 8

\* Mutant: nothing cuts the value to eight bits.
Encode_Wide(v, low) == 128 + 8 * v + low

\* (value << 3) | low, with bit 7 set, in the eight bits of the register.
Encode(v, low) == 128 + ((8 * v) % 128) + low
LowBits(v) == v % 4

Init ==
  /\ keep7 \in BOOLEAN /\ swapped \in BOOLEAN
  /\ current = Kept(240)
  /\ default \in {Kept(Encode(m, 3)) : m \in Values \cap 0..5}
  /\ pc = [t \in Proc |-> "idle"]
  /\ arg = [t \in Proc |-> [value |-> 0, port |-> 0, up |-> TRUE]]
  /\ val = [t \in Proc |-> 0] /\ left = [t \in Proc |-> MaxOps]
  /\ stale = [t \in Proc |-> FALSE]
  /\ asked = [current |-> get_current_mode, default |-> get_default_mode]
  /\ wanted = [i \in Port |-> "any"]
  /\ lost = FALSE /\ misread = FALSE

Goto(t, l) == pc' = [pc EXCEPT ![t] = l]
Call(t) == pc[t] = "idle" /\ left[t] > 0 /\ left' = [left EXCEPT ![t] = @ - 1]

\* Threads between the read of a register and the write that is based on it.
HoldsCurrent(q) ==
  \/ pc[q] \in {"read_default", "write_default", "rewrite", "write_port"}
  \/ pc[q] = "write_mode" /\ arg[q].value # DEFAULT
HoldsDefault(q) == pc[q] = "write_default"

\* The bookkeeping of a cpu_write by t.
Writes(t, Holds(_)) ==
  /\ lost' = (lost \/ (stale[t] /\ Holds(t)))
  /\ stale' = [q \in Proc |-> IF q # t /\ Holds(q) THEN TRUE ELSE stale[q]]

-----------------------------------------------------------------------------
(* fiber_port_set *)

PortSet(t) ==
  /\ Call(t)
  /\ \E i \in Port, u \in BOOLEAN :
       arg' = [arg EXCEPT ![t] = [@ EXCEPT !.port = Phys(i), !.up = u]]
  /\ Goto(t, "read_port")
  /\ UNCHANGED <<setup, current, default, val, stale, history, lost>>

\* val & 0xf0 is taken for "the current mode is the default mode".
ReadPort(t) ==
  /\ pc[t] = "read_port"
  /\ val' = [val EXCEPT ![t] = current]
  /\ stale' = [stale EXCEPT ![t] = FALSE]
  /\ Goto(t, IF current \div 16 # 0 THEN "read_default" ELSE "write_port")
  /\ misread' = (misread \/ (current \div 16 # 0 /\ get_current_mode # DEFAULT))
  /\ UNCHANGED <<setup, current, default, arg, left, asked, wanted, lost>>

WritePort(t) ==
  /\ pc[t] = "write_port"
  /\ current' = Kept(WithBit(val[t], arg[t].port, arg[t].up))
  /\ wanted' = [wanted EXCEPT ![arg[t].port] = IF arg[t].up THEN "up" ELSE "down"]
  /\ Writes(t, HoldsCurrent)
  /\ Goto(t, "idle")
  /\ UNCHANGED <<setup, default, arg, val, left, asked, misread>>

\* The value read is kept in arg: val still holds the current mode.
ReadDefault(t) ==
  /\ pc[t] = "read_default"
  /\ arg' = [arg EXCEPT ![t].value = WithBit(default, arg[t].port, arg[t].up)]
  /\ Goto(t, "write_default")
  /\ UNCHANGED <<setup, current, default, val, left, stale, history, lost>>

WriteDefault(t) ==
  /\ pc[t] = "write_default"
  /\ default' = Kept(arg[t].value)
  /\ wanted' = [wanted EXCEPT ![arg[t].port] = IF arg[t].up THEN "up" ELSE "down"]
  /\ Writes(t, HoldsDefault)
  /\ Goto(t, "rewrite")
  /\ UNCHANGED <<setup, current, arg, val, left, asked, misread>>

\* Force the CPU to look at the default mode again.
RewriteCurrent(t) ==
  /\ pc[t] = "rewrite"
  /\ current' = Kept(val[t])
  /\ Writes(t, HoldsCurrent)
  /\ Goto(t, "idle")
  /\ UNCHANGED <<setup, default, arg, val, left, history>>

-----------------------------------------------------------------------------
(* set_current_mode and set_default_mode *)

SetCurrentMode(t) ==
  /\ Call(t)
  /\ \E v \in {w \in Values : ~bad_current_mode(w)} :
       /\ arg' = [arg EXCEPT ![t].value = v]
       /\ val' = [val EXCEPT ![t] = Encode(v, 0)]
       /\ Goto(t, IF v = DEFAULT THEN "write_mode" ELSE "read_mode")
  /\ stale' = [stale EXCEPT ![t] = FALSE]
  /\ UNCHANGED <<setup, current, default, history, lost>>

\* Mutant: the port bits of the register are not kept.
ReadMode_NoPorts(t) ==
  /\ pc[t] = "read_mode"
  /\ val' = [val EXCEPT ![t] = Encode(arg[t].value, 0)]
  /\ stale' = [stale EXCEPT ![t] = FALSE]
  /\ Goto(t, "write_mode")
  /\ UNCHANGED <<setup, current, default, arg, left, history, lost>>

ReadMode(t) ==
  /\ pc[t] = "read_mode"
  /\ val' = [val EXCEPT ![t] = Encode(arg[t].value, LowBits(current))]
  /\ stale' = [stale EXCEPT ![t] = FALSE]
  /\ Goto(t, "write_mode")
  /\ UNCHANGED <<setup, current, default, arg, left, history, lost>>

WriteMode(t) ==
  LET new == arg[t].value
      written == IF new = DEFAULT THEN 128 + DEFAULT ELSE val[t]
  IN  /\ pc[t] = "write_mode"
      /\ current' = Kept(written)
      /\ asked' = [asked EXCEPT !.current = new]
      /\ IF new = DEFAULT \/ get_current_mode = DEFAULT
         THEN wanted' = [i \in Port |-> "any"] ELSE UNCHANGED wanted
      /\ Writes(t, HoldsCurrent)
      /\ Goto(t, "idle")
      /\ UNCHANGED <<setup, default, arg, val, left, misread>>

SetDefaultMode(t) ==
  /\ Call(t)
  /\ \E v \in {w \in Values : ~bad_default_mode(w)} :
       /\ default' = Kept(Encode(v, 3))
       /\ asked' = [asked EXCEPT !.default = v]
  /\ wanted' = IF get_current_mode = DEFAULT THEN [i \in Port |-> "any"] ELSE wanted
  /\ Writes(t, HoldsDefault)
  /\ UNCHANGED <<setup, current, pc, arg, val, misread>>

-----------------------------------------------------------------------------
\* Every thread has made all its calls: the only state that may stop.
Finished == /\ \A t \in Proc : pc[t] = "idle" /\ left[t] = 0
            /\ UNCHANGED vars

Step(t) == \/ ReadPort(t) \/ WritePort(t) \/ ReadDefault(t) \/ WriteDefault(t)
           \/ RewriteCurrent(t) \/ ReadMode(t) \/ WriteMode(t)

Next == \/ \E t \in Proc : PortSet(t) \/ Step(t)
        \/ \E t \in Thread : SetCurrentMode(t) \/ SetDefaultMode(t)
        \/ Finished

Spec == Init /\ [][Next]_vars

-----------------------------------------------------------------------------
Byte == 0..255

TypeOK ==
  /\ keep7 \in BOOLEAN /\ swapped \in BOOLEAN
  /\ current \in Byte /\ default \in Byte
  /\ pc \in [Proc -> {"idle", "read_port", "write_port", "read_default",
                      "write_default", "rewrite", "read_mode", "write_mode"}]
  /\ arg \in [Proc -> [value : Nat, port : Port, up : BOOLEAN]]
  /\ val \in [Proc -> Byte] /\ left \in [Proc -> Nat]
  /\ stale \in [Proc -> BOOLEAN]
  /\ asked \in [current : Nat, default : Nat]
  /\ wanted \in [Port -> {"up", "down", "any"}]
  /\ lost \in BOOLEAN /\ misread \in BOOLEAN

Quiet == \A t \in Proc : pc[t] = "idle"

\* The modes that src/README:182-190 gives the attributes.  The checks, which
\* see eight bits of a value, let others pass too.
Documented == 0..5

\* The attributes read back what they were last set to, however many port_set
\* calls rewrote the registers since and whatever they were set to before, as
\* long as no two calls overlapped on one register.  Nothing is said of what
\* they do with a value that the documentation excludes and the code accepts.
ModesInForce ==
  Quiet /\ ~lost =>
    /\ asked.current \in Documented \cup {DEFAULT} => get_current_mode = asked.current
    /\ asked.default \in Documented => get_default_mode = asked.default

\* The port bit that decides: the default mode's when it is in force.
Enabled(i) ==
  Bit(IF get_current_mode = DEFAULT THEN default ELSE current, i) = 1
InForce(i) == wanted[i] # "any" => (Enabled(i) <=> wanted[i] = "up")

\* A port_set is in force when it returns and stays so through port_set calls
\* for the other port and from one forced mode to the next, unless two calls
\* overlapped on a register or a forced mode was taken for the default.
PortSetInForceUnlessMisread ==
  Quiet /\ ~lost /\ ~misread => \A i \in Port : InForce(i)
=============================================================================
