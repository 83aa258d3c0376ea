--------------------------- MODULE ModeRegs_proofs ---------------------------
(***************************************************************************)
(* Theorems about ModeRegs for any threads, any number of calls, any       *)
(* values written.  First what the encodings of a register's byte keep and *)
(* change, then that a thread with a register it has read and nobody has   *)
(* written since knows what is in it.                                      *)
(***************************************************************************)
EXTENDS ModeRegs, TLAPS

(* Bytes *)

Mode(b) == (b % 128) \div 8

LEMMA BitOfByte ==
  ASSUME NEW b \in Byte
  PROVE  Bit(b, 0) = b % 2 /\ Bit(b, 1) = (b \div 2) % 2
<1>1. 2^0 = 1 /\ 2^1 = 2
  OBVIOUS
<1> QED  BY <1>1 DEF Bit, Byte

\* The byte that a CPU keeps which drops bit 7.
LEMMA KeptByte ==
  ASSUME keep7 \in BOOLEAN, NEW b \in Byte
  PROVE  /\ Kept(b) \in Byte /\ Kept(b) % 128 = b % 128
         /\ ~keep7 => Kept(b) < 128
         /\ \A i \in Port : Bit(Kept(b), i) = Bit(b, i)
<1>1. CASE keep7
  BY <1>1 DEF Kept, Byte
<1>2. CASE ~keep7
  <2>1. Kept(b) = b % 128 /\ Kept(b) \in Byte
    BY <1>2 DEF Kept, Byte
  <2>2. Kept(b) % 128 = b % 128 /\ Kept(b) < 128
    BY <2>1 DEF Byte
  <2>3. Kept(b) % 2 = b % 2 /\ (Kept(b) \div 2) % 2 = (b \div 2) % 2
    BY <2>1 DEF Byte
  <2>4. Bit(Kept(b), 0) = Bit(b, 0) /\ Bit(Kept(b), 1) = Bit(b, 1)
    BY <2>1, <2>3, BitOfByte
  <2> QED  BY <2>1, <2>2, <2>4 DEF Port
<1> QED  BY <1>1, <1>2

LEMMA EncodeByte ==
  ASSUME NEW v \in Nat, NEW low \in 0..3
  PROVE  /\ Encode(v, low) \in Byte
         /\ Mode(Encode(v, low)) = v % 16
         /\ Encode(v, low) % 128 = DEFAULT => v % 16 = 14
         /\ Encode(v, low) % 4 = low
<1>1. Encode(v, low) \in Byte
  BY DEF Encode, Byte
<1>2. Mode(Encode(v, low)) = v % 16
  BY DEF Encode, Mode
<1>3. Encode(v, low) % 128 = DEFAULT => v % 16 = 14
  BY DEF Encode, DEFAULT
<1>4. Encode(v, low) % 4 = low
  BY DEF Encode
<1> QED  BY <1>1, <1>2, <1>3, <1>4

\* Two bytes with the same two low bits have the same port bits.
LEMMA LowBitsPorts ==
  ASSUME NEW a \in Byte, NEW b \in Byte, a % 4 = b % 4
  PROVE  \A i \in Port : Bit(a, i) = Bit(b, i)
<1>1. a % 2 = b % 2 /\ (a \div 2) % 2 = (b \div 2) % 2
  BY DEF Byte
<1> QED  BY <1>1, BitOfByte DEF Port

LEMMA WithBitByte ==
  ASSUME NEW b \in Byte, NEW i \in Port, NEW u \in BOOLEAN
  PROVE  /\ WithBit(b, i, u) \in Byte
         /\ WithBit(b, i, u) \div 8 = b \div 8
         /\ Bit(WithBit(b, i, u), i) = 1 <=> u
         /\ \A j \in Port \ {i} : Bit(WithBit(b, i, u), j) = Bit(b, j)
<1> DEFINE d == IF u THEN 1 ELSE 0
           w == WithBit(b, i, u)
<1>1. 2^0 = 1 /\ 2^1 = 2
  OBVIOUS
<1>2. d \in {0, 1} /\ (d = 1 <=> u)
  OBVIOUS
<1>3. w = b + (d - Bit(b, i)) * 2^i
  BY DEF WithBit
<1> HIDE DEF d, w
<1>4. CASE i = 0
  <2>1. w = b + d - (b % 2)
    BY <1>1, <1>2, <1>3, <1>4, BitOfByte DEF Byte
  <2>2. w \in Byte /\ w \div 8 = b \div 8
    BY <1>2, <2>1 DEF Byte
  <2>3. w % 2 = d /\ (w \div 2) % 2 = (b \div 2) % 2
    BY <1>2, <2>1 DEF Byte
  <2>4. Bit(w, 0) = d /\ Bit(w, 1) = Bit(b, 1)
    BY <2>2, <2>3, BitOfByte
  <2>5. (Bit(w, i) = 1 <=> u) /\ \A j \in Port \ {i} : Bit(w, j) = Bit(b, j)
    BY <1>2, <1>4, <2>4 DEF Port
  <2> QED  BY <2>2, <2>5 DEF w
<1>5. CASE i = 1
  <2>1. w = b + (2 * d) - (2 * ((b \div 2) % 2))
    BY <1>1, <1>2, <1>3, <1>5, BitOfByte DEF Byte
  <2>2. w \in Byte /\ w \div 8 = b \div 8
    BY <1>2, <2>1 DEF Byte
  <2>3. (w \div 2) % 2 = d /\ w % 2 = b % 2
    BY <1>2, <2>1 DEF Byte
  <2>4. Bit(w, 1) = d /\ Bit(w, 0) = Bit(b, 0)
    BY <2>2, <2>3, BitOfByte
  <2>5. (Bit(w, i) = 1 <=> u) /\ \A j \in Port \ {i} : Bit(w, j) = Bit(b, j)
    BY <1>2, <1>5, <2>4 DEF Port
  <2> QED  BY <2>2, <2>5 DEF w
<1> QED  BY <1>4, <1>5 DEF Port

\* A byte with the same five high bits has the same mode.
LEMMA SameMode ==
  ASSUME NEW a \in Byte, NEW b \in Byte, a \div 8 = b \div 8
  PROVE  Mode(a) = Mode(b) /\ a \div 16 = b \div 16
BY DEF Mode, Byte

-----------------------------------------------------------------------------
(* Types *)

\* A register without bit 7 stays below 128; what a call is about to write is
\* a byte, and the mode it was given has passed the check.
KeepInv == ~keep7 => current < 128 /\ default < 128
Good(v) == v % 256 = DEFAULT \/ v % 256 <= 5
ArgInv ==
  \A t \in Proc : /\ pc[t] = "write_default" => arg[t].value \in Byte
                  /\ pc[t] \in {"read_mode", "write_mode"} => Good(arg[t].value)
                  /\ pc[t] = "read_mode" => arg[t].value # DEFAULT
TypeInv == TypeOK /\ KeepInv /\ ArgInv

Labels == {"idle", "read_port", "write_port", "read_default", "write_default",
           "rewrite", "read_mode", "write_mode"}
Arg == [value : Nat, port : Port, up : BOOLEAN]

LEMMA ArgUpdates ==
  ASSUME NEW a \in Arg
  PROVE  /\ a.value \in Nat /\ a.port \in Port /\ a.up \in BOOLEAN
         /\ \A v \in Nat : [a EXCEPT !.value = v] \in Arg
         /\ \A i \in Port, u \in BOOLEAN : [a EXCEPT !.port = i, !.up = u] \in Arg
BY DEF Arg

LEMMA TypeInit == Init => TypeInv
<1> SUFFICES ASSUME Init PROVE TypeInv
  OBVIOUS
<1>1. keep7 \in BOOLEAN /\ swapped \in BOOLEAN
  BY DEF Init
<1>2. 240 \in Byte /\ 240 % 128 = 112
  BY DEF Byte
<1>3. current \in Byte /\ current % 128 = 112 /\ (~keep7 => current < 128)
  BY <1>1, <1>2, KeptByte DEF Init
<1>4. PICK m \in Values \cap 0..5 : default = Kept(Encode(m, 3))
  BY DEF Init
<1>5. Encode(m, 3) \in Byte /\ Mode(Encode(m, 3)) = m % 16
  BY EncodeByte
<1>6. /\ default \in Byte /\ (~keep7 => default < 128)
      /\ default % 128 = Encode(m, 3) % 128
  BY <1>1, <1>4, <1>5, KeptByte
<1>7. get_current_mode = 112 /\ get_default_mode \in Nat
  BY <1>3, <1>6 DEF get_current_mode, get_default_mode, DEFAULT, Byte
<1>8. [value |-> 0, port |-> 0, up |-> TRUE] \in Arg
  BY DEF Arg, Port
<1>9. ArgInv
  BY DEF Init, ArgInv
<1>10. asked \in [current : Nat, default : Nat]
  BY <1>7 DEF Init
<1>11. /\ arg \in [Proc -> [value : Nat, port : Port, up : BOOLEAN]]
       /\ val \in [Proc -> Byte] /\ left \in [Proc -> Nat]
  BY <1>8, ModeAssumption DEF Init, Arg, Byte
<1> QED  BY <1>1, <1>3, <1>6, <1>9, <1>10, <1>11
         DEF Init, TypeInv, TypeOK, KeepInv

LEMMA TypeStep == TypeInv /\ [Next]_vars => TypeInv'
<1> SUFFICES ASSUME TypeInv, [Next]_vars PROVE TypeInv'
  OBVIOUS
<1>0. /\ keep7 \in BOOLEAN /\ swapped \in BOOLEAN /\ current \in Byte /\ default \in Byte
      /\ pc \in [Proc -> Labels] /\ arg \in [Proc -> Arg] /\ val \in [Proc -> Byte]
      /\ left \in [Proc -> Nat] /\ stale \in [Proc -> BOOLEAN] /\ lost \in BOOLEAN
      /\ misread \in BOOLEAN /\ asked \in [current : Nat, default : Nat]
      /\ wanted \in [Port -> {"up", "down", "any"}]
  BY DEF TypeInv, TypeOK, Labels, Arg
\* A step of t to l: what it may change, with what it writes.
<1>1. ASSUME NEW t \in Proc, NEW l \in Labels, pc' = [pc EXCEPT ![t] = l],
             UNCHANGED setup, current' \in Byte, default' \in Byte, KeepInv',
             NEW a \in Arg, arg' = [arg EXCEPT ![t] = a],
             val' \in [Proc -> Byte], left' \in [Proc -> Nat],
             stale' \in [Proc -> BOOLEAN], lost' \in BOOLEAN,
             misread' \in BOOLEAN, asked' \in [current : Nat, default : Nat],
             wanted' \in [Port -> {"up", "down", "any"}],
             l = "write_default" => a.value \in Byte,
             l \in {"read_mode", "write_mode"} => Good(a.value),
             l = "read_mode" => a.value # DEFAULT
      PROVE  TypeInv'
  <2>1. /\ pc' \in [Proc -> Labels] /\ arg' \in [Proc -> Arg]
        /\ pc'[t] = l /\ arg'[t] = a
        /\ \A q \in Proc : q # t => pc'[q] = pc[q] /\ arg'[q] = arg[q]
    BY <1>0, <1>1
  <2>2. ArgInv'
    BY <1>1, <2>1 DEF TypeInv, ArgInv, Good
  <2> QED  BY <1>0, <1>1, <2>1, <2>2 DEF TypeInv, TypeOK, Labels, Arg, setup
<1>2. ASSUME NEW t \in Proc
      PROVE  /\ arg[t] \in Arg /\ arg = [arg EXCEPT ![t] = arg[t]]
             /\ arg[t].value \in Nat /\ arg[t].port \in Port /\ arg[t].up \in BOOLEAN
             /\ val[t] \in Byte
  BY <1>0, ArgUpdates
\* A write of a register.
<1>w. ASSUME NEW t \in Proc, NEW l \in {"idle", "rewrite"}, pc' = [pc EXCEPT ![t] = l],
             UNCHANGED <<keep7, swapped, arg, val, left, misread>>,
             current' \in Byte, ~keep7 => current' < 128,
             default' \in Byte, ~keep7 => default' < 128,
             stale' \in [Proc -> BOOLEAN], lost' \in BOOLEAN,
             asked' \in [current : Nat, default : Nat],
             wanted' \in [Port -> {"up", "down", "any"}]
      PROVE  TypeInv'
  <2>1. KeepInv' /\ UNCHANGED setup
    BY <1>w DEF KeepInv, setup
  <2>2. l \in Labels
    BY DEF Labels
  <2> QED  BY <1>0, <1>1, <1>2, <1>w, <2>1, <2>2
<1>k. ~keep7 => current < 128 /\ default < 128
  BY DEF TypeInv, KeepInv
<1> USE DEF Goto, history, setup
<1>3. ASSUME NEW t \in Proc, PortSet(t) PROVE TypeInv'
  <2>1. PICK i \in Port, u \in BOOLEAN :
          arg' = [arg EXCEPT ![t] = [@ EXCEPT !.port = Phys(i), !.up = u]]
    BY <1>3 DEF PortSet
  <2>2. Phys(i) \in Port
    BY <1>0 DEF Phys, Port
  <2>3. [arg[t] EXCEPT !.port = Phys(i), !.up = u] \in Arg
    BY <1>2, <2>2, ArgUpdates
  <2>4. left' \in [Proc -> Nat]
    BY <1>0, <1>3 DEF PortSet, Call
  <2> QED  BY <1>0, <1>1, <1>3, <2>1, <2>3, <2>4
           DEF PortSet, TypeInv, KeepInv, Labels
<1>4. ASSUME NEW t \in Proc, ReadPort(t) PROVE TypeInv'
  <2>1. PICK l \in {"read_default", "write_port"} : pc' = [pc EXCEPT ![t] = l]
    BY <1>4 DEF ReadPort
  <2>2. val' \in [Proc -> Byte] /\ stale' \in [Proc -> BOOLEAN] /\ misread' \in BOOLEAN
    BY <1>0, <1>4 DEF ReadPort
  <2> QED  BY <1>0, <1>1, <1>2, <1>4, <2>1, <2>2 DEF ReadPort, TypeInv, KeepInv, Labels
<1>5. ASSUME NEW t \in Proc, WritePort(t) PROVE TypeInv'
  <2>1. current' \in Byte /\ (~keep7 => current' < 128)
    BY <1>0, <1>2, <1>5, WithBitByte, KeptByte DEF WritePort
  <2>2. stale' \in [Proc -> BOOLEAN] /\ lost' \in BOOLEAN
    BY <1>0, <1>5 DEF WritePort, Writes
  <2>3. wanted' \in [Port -> {"up", "down", "any"}]
    BY <1>0, <1>5 DEF WritePort
  <2>4. /\ pc' = [pc EXCEPT ![t] = "idle"]
        /\ UNCHANGED <<keep7, swapped, default, arg, val, left, asked, misread>>
    BY <1>5 DEF WritePort
  <2> QED  BY <1>0, <1>w, <1>k, <2>1, <2>2, <2>3, <2>4
<1>6. ASSUME NEW t \in Proc, ReadDefault(t) PROVE TypeInv'
  <2>1. WithBit(default, arg[t].port, arg[t].up) \in Byte
    BY <1>0, <1>2, WithBitByte
  <2> DEFINE v == WithBit(default, arg[t].port, arg[t].up)
  <2>2. v \in Nat
    BY <2>1 DEF Byte
  <2>3. arg' = [arg EXCEPT ![t] = [arg[t] EXCEPT !.value = v]]
    BY <1>0, <1>6 DEF ReadDefault
  <2>4. /\ pc' = [pc EXCEPT ![t] = "write_default"]
        /\ UNCHANGED <<keep7, swapped, current, default, val, left, stale, asked,
                       wanted, misread, lost>>
    BY <1>6 DEF ReadDefault
  <2> HIDE DEF v
  <2>5. [arg[t] EXCEPT !.value = v] \in Arg /\ [arg[t] EXCEPT !.value = v].value = v
    BY <1>2, <2>2, ArgUpdates DEF Arg
  <2>6. v \in Byte
    BY <2>1 DEF v
  <2>7. KeepInv' /\ UNCHANGED setup /\ "write_default" \in Labels
    BY <1>k, <2>4 DEF KeepInv, Labels
  <2>8. PICK a \in Arg : a.value = v /\ arg' = [arg EXCEPT ![t] = a]
    BY <2>3, <2>5
  <2> QED  BY <1>0, <1>1, <2>4, <2>6, <2>7, <2>8
<1>7. ASSUME NEW t \in Proc, WriteDefault(t) PROVE TypeInv'
  <2>1. arg[t].value \in Byte
    BY <1>7 DEF WriteDefault, TypeInv, ArgInv
  <2>2. default' \in Byte /\ (~keep7 => default' < 128)
    BY <1>0, <1>7, <2>1, KeptByte DEF WriteDefault
  <2>3. stale' \in [Proc -> BOOLEAN] /\ lost' \in BOOLEAN
    BY <1>0, <1>7 DEF WriteDefault, Writes
  <2>4. wanted' \in [Port -> {"up", "down", "any"}]
    BY <1>0, <1>7 DEF WriteDefault
  <2>5. /\ pc' = [pc EXCEPT ![t] = "rewrite"]
        /\ UNCHANGED <<keep7, swapped, current, arg, val, left, asked, misread>>
    BY <1>7 DEF WriteDefault
  <2> QED  BY <1>0, <1>w, <1>k, <2>2, <2>3, <2>4, <2>5
<1>8. ASSUME NEW t \in Proc, RewriteCurrent(t) PROVE TypeInv'
  <2>1. current' \in Byte /\ (~keep7 => current' < 128)
    BY <1>0, <1>2, <1>8, KeptByte DEF RewriteCurrent
  <2>2. stale' \in [Proc -> BOOLEAN] /\ lost' \in BOOLEAN
    BY <1>0, <1>8 DEF RewriteCurrent, Writes
  <2>3. /\ pc' = [pc EXCEPT ![t] = "idle"]
        /\ UNCHANGED <<keep7, swapped, default, arg, val, left, asked, wanted, misread>>
    BY <1>8 DEF RewriteCurrent
  <2> QED  BY <1>0, <1>w, <1>k, <2>1, <2>2, <2>3
<1>9. ASSUME NEW t \in Proc, SetCurrentMode(t) PROVE TypeInv'
  <2>1. PICK v \in Values : /\ ~bad_current_mode(v)
                            /\ arg' = [arg EXCEPT ![t] = [arg[t] EXCEPT !.value = v]]
                            /\ val' = [val EXCEPT ![t] = Encode(v, 0)]
                            /\ Goto(t, IF v = DEFAULT THEN "write_mode" ELSE "read_mode")
    BY <1>0, <1>9 DEF SetCurrentMode
  <2>2. v \in Nat /\ Good(v)
    BY <2>1, ModeAssumption DEF bad_current_mode, Good, DEFAULT
  <2>3. [arg[t] EXCEPT !.value = v] \in Arg /\ [arg[t] EXCEPT !.value = v].value = v
    BY <1>2, <2>2, ArgUpdates DEF Arg
  <2>4. Encode(v, 0) \in Byte
    BY <2>2, EncodeByte
  <2>5. val' \in [Proc -> Byte] /\ stale' \in [Proc -> BOOLEAN] /\ left' \in [Proc -> Nat]
    BY <1>0, <1>9, <2>1, <2>4 DEF SetCurrentMode, Call
  <2>6. PICK l \in {"read_mode", "write_mode"} :
          pc' = [pc EXCEPT ![t] = l] /\ (l = "read_mode" => v # DEFAULT)
    BY <2>1
  <2>7. UNCHANGED <<keep7, swapped, current, default, asked, wanted, misread, lost>>
    BY <1>9 DEF SetCurrentMode
  <2>8. KeepInv' /\ UNCHANGED setup /\ l \in Labels /\ l # "write_default"
    BY <1>k, <2>7 DEF KeepInv, Labels
  <2>9. PICK a \in Arg : a.value = v /\ arg' = [arg EXCEPT ![t] = a]
    BY <2>1, <2>3
  <2> QED  BY <1>0, <1>1, <2>2, <2>5, <2>6, <2>7, <2>8, <2>9
<1>10. ASSUME NEW t \in Proc, ReadMode(t) PROVE TypeInv'
  <2>1. LowBits(current) \in 0..3
    BY <1>0 DEF LowBits, Byte
  <2>2. Encode(arg[t].value, LowBits(current)) \in Byte
    BY <1>2, <2>1, EncodeByte
  <2>3. val' \in [Proc -> Byte] /\ stale' \in [Proc -> BOOLEAN]
    BY <1>0, <1>10, <2>2 DEF ReadMode
  <2>4. Good(arg[t].value)
    BY <1>10 DEF ReadMode, TypeInv, ArgInv
  <2> QED  BY <1>0, <1>1, <1>2, <1>10, <2>3, <2>4 DEF ReadMode, TypeInv, KeepInv, Labels
<1>11. ASSUME NEW t \in Proc, WriteMode(t) PROVE TypeInv'
  <2>1. current' = Kept(240) \/ current' = Kept(val[t])
    BY <1>11 DEF WriteMode, DEFAULT
  <2>2. current' \in Byte /\ (~keep7 => current' < 128)
    <3>1. 240 \in Byte
      BY DEF Byte
    <3> QED  BY <1>0, <1>2, <2>1, <3>1, KeptByte
  <2>3. stale' \in [Proc -> BOOLEAN] /\ lost' \in BOOLEAN
    BY <1>0, <1>11 DEF WriteMode, Writes
  <2>4. wanted' \in [Port -> {"up", "down", "any"}]
    BY <1>0, <1>11 DEF WriteMode
  <2>5. asked' \in [current : Nat, default : Nat]
    BY <1>0, <1>2, <1>11 DEF WriteMode
  <2>6. /\ pc' = [pc EXCEPT ![t] = "idle"]
        /\ UNCHANGED <<keep7, swapped, default, arg, val, left, misread>>
    BY <1>11 DEF WriteMode
  <2> QED  BY <1>0, <1>w, <1>k, <2>2, <2>3, <2>4, <2>5, <2>6
<1>12. ASSUME NEW t \in Proc, SetDefaultMode(t) PROVE TypeInv'
  <2>1. PICK v \in Values : /\ default' = Kept(Encode(v, 3))
                            /\ asked' = [asked EXCEPT !.default = v]
    BY <1>12 DEF SetDefaultMode
  <2>2. v \in Nat /\ Encode(v, 3) \in Byte
    BY ModeAssumption, EncodeByte
  <2>3. default' \in Byte /\ (~keep7 => default' < 128)
    BY <1>0, <2>1, <2>2, KeptByte
  <2>4. stale' \in [Proc -> BOOLEAN] /\ lost' \in BOOLEAN
    BY <1>0, <1>12 DEF SetDefaultMode, Writes
  <2>5. /\ wanted' \in [Port -> {"up", "down", "any"}] /\ left' \in [Proc -> Nat]
        /\ asked' \in [current : Nat, default : Nat]
    BY <1>0, <1>12, <2>1, <2>2 DEF SetDefaultMode, Call
  <2> QED  BY <1>0, <1>12, <2>3, <2>4, <2>5
           DEF SetDefaultMode, TypeInv, TypeOK, KeepInv, ArgInv, Labels, Arg
<1>13. CASE UNCHANGED vars
  BY <1>13 DEF vars, TypeInv, TypeOK, KeepInv, ArgInv, Good
<1> QED  BY <1>3, <1>4, <1>5, <1>6, <1>7, <1>8, <1>9, <1>10, <1>11, <1>12, <1>13
         DEF Next, Step, Finished, Proc

\* The registers hold bytes whatever is written to the attributes, and so
\* does every value a call of port.c or api.c is about to write.
THEOREM TypeCorrect == Spec => []TypeOK
<1>1. TypeInv => TypeOK
  BY DEF TypeInv
<1> QED  BY <1>1, TypeInit, TypeStep, PTL DEF Spec

-----------------------------------------------------------------------------
(* What a thread knows of the registers *)

\* A thread that has read a register which nobody has written since has what
\* is in it, and what it is about to write differs in the one bit or the mode.
Held(t) ==
  /\ pc[t] = "write_port" => val[t] = current /\ current \div 16 = 0
  /\ pc[t] \in {"read_default", "write_default", "rewrite"} =>
       val[t] = current /\ (~misread => get_current_mode = DEFAULT)
  /\ pc[t] = "write_default" => arg[t].value = WithBit(default, arg[t].port, arg[t].up)
  /\ pc[t] = "write_mode" /\ arg[t].value # DEFAULT =>
       val[t] = Encode(arg[t].value, LowBits(current))
HeldInv == \A t \in Proc : ~stale[t] => Held(t)

LEMMA HeldStep == TypeInv /\ HeldInv /\ [Next]_vars => HeldInv'
<1> SUFFICES ASSUME TypeInv, HeldInv, [Next]_vars PROVE HeldInv'
  OBVIOUS
<1>0. /\ pc \in [Proc -> Labels] /\ arg \in [Proc -> Arg] /\ val \in [Proc -> Byte]
      /\ stale \in [Proc -> BOOLEAN]
  BY DEF TypeInv, TypeOK, Labels, Arg
\* A step of t that writes no register.
<1>1. ASSUME NEW t \in Proc, UNCHANGED <<current, default>>, misread => misread',
             \A q \in Proc \ {t} : /\ pc'[q] = pc[q] /\ arg'[q] = arg[q]
                                   /\ val'[q] = val[q] /\ stale'[q] = stale[q],
             ~stale'[t] => Held(t)'
      PROVE  HeldInv'
  BY <1>1 DEF HeldInv, Held, get_current_mode
\* A write of the current mode by t, of which the others hear.
<1>2. ASSUME NEW t \in Proc, Writes(t, HoldsCurrent), pc'[t] = "idle",
             \A q \in Proc \ {t} : pc'[q] = pc[q], UNCHANGED arg
      PROVE  HeldInv'
  <2>1. \A q \in Proc \ {t} : ~stale'[q] => ~HoldsCurrent(q)
    BY <1>2 DEF Writes
  <2> QED  BY <1>2, <2>1 DEF HeldInv, Held, HoldsCurrent
\* A write of the default mode by t.
<1>3. ASSUME NEW t \in Proc, Writes(t, HoldsDefault), UNCHANGED <<arg, val, current, misread>>,
             \A q \in Proc \ {t} : pc'[q] = pc[q],
             \/ pc[t] = "write_default" /\ pc'[t] = "rewrite"
             \/ pc[t] = "idle" /\ pc'[t] = "idle"
      PROVE  HeldInv'
  <2>1. ASSUME NEW q \in Proc \ {t}, ~stale'[q] PROVE Held(q)'
    <3>1. ~HoldsDefault(q) /\ ~stale[q]
      BY <1>3, <2>1 DEF Writes
    <3> QED  BY <1>3, <3>1 DEF HeldInv, Held, HoldsDefault, get_current_mode
  <2>2. ASSUME ~stale'[t] PROVE Held(t)'
    <3>1. ~stale[t]
      BY <1>3, <2>2 DEF Writes
    <3> QED  BY <1>3, <3>1 DEF HeldInv, Held, get_current_mode
  <2> QED  BY <2>1, <2>2 DEF HeldInv
<1> USE DEF Goto, history, setup
<1>4. ASSUME NEW t \in Proc, PortSet(t) PROVE HeldInv'
  <2>1. /\ pc'[t] = "read_port"
        /\ \A q \in Proc \ {t} : pc'[q] = pc[q] /\ arg'[q] = arg[q]
        /\ UNCHANGED <<current, default, val, stale, misread>>
    BY <1>0, <1>4 DEF PortSet
  <2> QED  BY <1>1, <2>1 DEF Held
<1>5. ASSUME NEW t \in Proc, ReadPort(t) PROVE HeldInv'
  <2>1. /\ pc'[t] = IF current \div 16 # 0 THEN "read_default" ELSE "write_port"
        /\ val'[t] = current
        /\ \A q \in Proc \ {t} : /\ pc'[q] = pc[q] /\ val'[q] = val[q]
                                 /\ stale'[q] = stale[q]
        /\ UNCHANGED <<current, default, arg>>
    BY <1>0, <1>5 DEF ReadPort
  <2>2. misread' = (misread \/ (current \div 16 # 0 /\ get_current_mode # DEFAULT))
    BY <1>5 DEF ReadPort
  <2>3. get_current_mode' = get_current_mode
    BY <2>1 DEF get_current_mode
  <2>4. Held(t)'
    BY <2>1, <2>2, <2>3 DEF Held
  <2> QED  BY <1>1, <2>1, <2>2, <2>4
<1>6. ASSUME NEW t \in Proc, WritePort(t) \/ RewriteCurrent(t) \/ WriteMode(t) PROVE HeldInv'
  <2>1. Writes(t, HoldsCurrent) /\ UNCHANGED arg /\ pc' = [pc EXCEPT ![t] = "idle"]
    BY <1>6 DEF WritePort, RewriteCurrent, WriteMode
  <2> QED  BY <1>0, <1>2, <2>1
<1>7. ASSUME NEW t \in Proc, ReadDefault(t) PROVE HeldInv'
  <2>1. /\ pc[t] = "read_default" /\ pc'[t] = "write_default"
        /\ arg'[t] = [arg[t] EXCEPT !.value = WithBit(default, arg[t].port, arg[t].up)]
        /\ \A q \in Proc \ {t} : pc'[q] = pc[q] /\ arg'[q] = arg[q]
        /\ UNCHANGED <<swapped, keep7, current, default, val, stale, misread>>
    BY <1>0, <1>7 DEF ReadDefault
  <2>2. /\ arg'[t].value = WithBit(default, arg[t].port, arg[t].up)
        /\ arg'[t].port = arg[t].port /\ arg'[t].up = arg[t].up
    BY <1>0, <2>1 DEF Arg
  <2>3. WithBit(default, arg[t].port, arg[t].up)
          = WithBit(default', arg'[t].port, arg'[t].up)
    BY <2>1, <2>2
  <2>4. ~stale'[t] => Held(t)'
    BY <2>1, <2>2, <2>3 DEF HeldInv, Held, get_current_mode
  <2> QED  BY <1>1, <2>1, <2>4
<1>8. ASSUME NEW t \in Proc, WriteDefault(t) PROVE HeldInv'
  BY <1>0, <1>3, <1>8 DEF WriteDefault
<1>9. ASSUME NEW t \in Proc, SetDefaultMode(t) PROVE HeldInv'
  BY <1>0, <1>3, <1>9 DEF SetDefaultMode, Call
<1>10. ASSUME NEW t \in Proc, SetCurrentMode(t) PROVE HeldInv'
  <2>1. PICK v \in Values :
          /\ arg' = [arg EXCEPT ![t] = [arg[t] EXCEPT !.value = v]]
          /\ Goto(t, IF v = DEFAULT THEN "write_mode" ELSE "read_mode")
          /\ val' = [val EXCEPT ![t] = Encode(v, 0)]
    BY <1>0, <1>10 DEF SetCurrentMode
  <2>2. /\ arg'[t].value = v
        /\ pc'[t] = IF v = DEFAULT THEN "write_mode" ELSE "read_mode"
        /\ \A q \in Proc \ {t} : /\ pc'[q] = pc[q] /\ arg'[q] = arg[q]
                                 /\ val'[q] = val[q]
    BY <1>0, <2>1 DEF Arg
  <2>3. /\ UNCHANGED <<current, default, misread>>
        /\ \A q \in Proc \ {t} : stale'[q] = stale[q]
    BY <1>0, <1>10 DEF SetCurrentMode
  <2>4. Held(t)'
    BY <2>2 DEF Held
  <2> QED  BY <1>1, <2>2, <2>3, <2>4
<1>11. ASSUME NEW t \in Proc, ReadMode(t) PROVE HeldInv'
  <2>1. /\ pc'[t] = "write_mode" /\ val'[t] = Encode(arg[t].value, LowBits(current))
        /\ \A q \in Proc \ {t} : /\ pc'[q] = pc[q] /\ val'[q] = val[q]
                                 /\ stale'[q] = stale[q]
        /\ UNCHANGED <<current, default, arg, misread>>
    BY <1>0, <1>11 DEF ReadMode
  <2>2. Held(t)'
    BY <2>1 DEF Held, LowBits
  <2> QED  BY <1>1, <2>1, <2>2
<1>12. CASE UNCHANGED vars
  BY <1>12 DEF vars, HeldInv, Held, get_current_mode
<1> QED  BY <1>4, <1>5, <1>6, <1>7, <1>8, <1>9, <1>10, <1>11, <1>12
         DEF Next, Step, Finished, Proc

-----------------------------------------------------------------------------
(* What the writes do as long as none was lost *)

LEMMA TypeFacts ==
  ASSUME TypeInv, NEW t \in Proc
  PROVE  /\ keep7 \in BOOLEAN /\ current \in Byte /\ default \in Byte /\ val[t] \in Byte
         /\ arg[t].value \in Nat /\ arg[t].port \in Port /\ arg[t].up \in BOOLEAN
BY DEF TypeInv, TypeOK

LEMMA WritePortEffect ==
  ASSUME TypeInv, HeldInv, NEW t \in Proc, WritePort(t), ~lost'
  PROVE  /\ ~lost /\ get_current_mode' = get_current_mode /\ get_current_mode # DEFAULT
         /\ Bit(current', arg[t].port) = 1 <=> arg[t].up
         /\ \A j \in Port \ {arg[t].port} : Bit(current', j) = Bit(current, j)
<1> DEFINE w == WithBit(val[t], arg[t].port, arg[t].up)
<1>1. ~lost /\ ~stale[t] /\ current' = Kept(w)
  BY DEF WritePort, Writes, HoldsCurrent
<1>2. val[t] = current /\ current \div 16 = 0
  BY <1>1 DEF HeldInv, Held, WritePort
<1>3. /\ w \in Byte /\ w \div 8 = current \div 8
      /\ Bit(w, arg[t].port) = 1 <=> arg[t].up
      /\ \A j \in Port \ {arg[t].port} : Bit(w, j) = Bit(current, j)
  BY <1>2, TypeFacts, WithBitByte
<1> HIDE DEF w
<1>4. current' % 128 = w % 128 /\ \A j \in Port : Bit(current', j) = Bit(w, j)
  BY <1>1, <1>3, TypeFacts, KeptByte
<1>5. Mode(w) = Mode(current) /\ w \div 16 = 0
  BY <1>2, <1>3, TypeFacts, SameMode
<1>6. /\ current % 128 # DEFAULT /\ w % 128 # DEFAULT
      /\ (current % 128) \div 8 = (w % 128) \div 8 /\ (current % 128) \div 8 < 16
  BY <1>2, <1>3, <1>5, TypeFacts DEF Byte, DEFAULT, Mode
<1>7. get_current_mode' = get_current_mode /\ get_current_mode # DEFAULT
  BY <1>4, <1>6, TypeFacts DEF get_current_mode, DEFAULT, Byte
<1> QED  BY <1>1, <1>3, <1>4, <1>7, TypeFacts

LEMMA WriteDefaultEffect ==
  ASSUME TypeInv, HeldInv, NEW t \in Proc, WriteDefault(t), ~lost'
  PROVE  /\ ~lost /\ get_default_mode' = get_default_mode
         /\ ~misread => get_current_mode = DEFAULT
         /\ Bit(default', arg[t].port) = 1 <=> arg[t].up
         /\ \A j \in Port \ {arg[t].port} : Bit(default', j) = Bit(default, j)
<1> DEFINE w == WithBit(default, arg[t].port, arg[t].up)
<1>1. ~lost /\ ~stale[t] /\ default' = Kept(arg[t].value)
  BY DEF WriteDefault, Writes, HoldsDefault
<1>2. arg[t].value = w /\ (~misread => get_current_mode = DEFAULT)
  BY <1>1 DEF HeldInv, Held, WriteDefault
<1>3. /\ w \in Byte /\ w \div 8 = default \div 8
      /\ Bit(w, arg[t].port) = 1 <=> arg[t].up
      /\ \A j \in Port \ {arg[t].port} : Bit(w, j) = Bit(default, j)
  BY TypeFacts, WithBitByte
<1> HIDE DEF w
<1>4. default' % 128 = w % 128 /\ \A j \in Port : Bit(default', j) = Bit(w, j)
  BY <1>1, <1>2, <1>3, TypeFacts, KeptByte
<1>5. Mode(w) = Mode(default)
  BY <1>3, TypeFacts, SameMode
<1> QED  BY <1>1, <1>2, <1>3, <1>4, <1>5, TypeFacts DEF get_default_mode, Mode

LEMMA RewriteEffect ==
  ASSUME TypeInv, HeldInv, NEW t \in Proc, RewriteCurrent(t), ~lost'
  PROVE  /\ ~lost /\ get_current_mode' = get_current_mode
         /\ \A j \in Port : Bit(current', j) = Bit(current, j)
<1>1. ~lost /\ ~stale[t] /\ current' = Kept(val[t])
  BY DEF RewriteCurrent, Writes, HoldsCurrent
<1>2. val[t] = current
  BY <1>1 DEF HeldInv, Held, RewriteCurrent
<1>3. current' % 128 = current % 128 /\ \A j \in Port : Bit(current', j) = Bit(current, j)
  BY <1>1, <1>2, TypeFacts, KeptByte
<1> QED  BY <1>1, <1>3 DEF get_current_mode

LEMMA WriteModeEffect ==
  ASSUME TypeInv, HeldInv, NEW t \in Proc, WriteMode(t), ~lost'
  PROVE  /\ ~lost
         /\ get_current_mode' = IF arg[t].value = DEFAULT THEN DEFAULT
                                ELSE arg[t].value % 16
         /\ arg[t].value # DEFAULT =>
              /\ get_current_mode' # DEFAULT
              /\ \A j \in Port : Bit(current', j) = Bit(current, j)
<1>1. ~lost
  BY DEF WriteMode, Writes
<1>2. CASE arg[t].value = DEFAULT
  <2>1. current' = Kept(240)
    BY <1>2 DEF WriteMode, DEFAULT
  <2>2. 240 \in Byte /\ 240 % 128 = DEFAULT
    BY DEF Byte, DEFAULT
  <2>3. current' % 128 = DEFAULT
    BY <2>1, <2>2, TypeFacts, KeptByte
  <2> QED  BY <1>1, <1>2, <2>3 DEF get_current_mode
<1>3. CASE arg[t].value # DEFAULT
  <2> DEFINE v == arg[t].value
             w == Encode(v, LowBits(current))
  <2>1. ~stale[t] /\ current' = Kept(val[t])
    BY <1>3 DEF WriteMode, Writes, HoldsCurrent
  <2>2. val[t] = w
    BY <1>3, <2>1 DEF HeldInv, Held, WriteMode
  <2>3. v \in Nat /\ Good(v) /\ LowBits(current) \in 0..3
    BY TypeFacts DEF WriteMode, TypeInv, ArgInv, LowBits, Byte
  <2> HIDE DEF v
  <2>4. v % 16 # 14 /\ v % 16 < 16
    BY <2>3 DEF Good, DEFAULT
  <2>5. /\ w \in Byte /\ Mode(w) = v % 16 /\ w % 128 # DEFAULT
        /\ w % 4 = current % 4
    BY <2>3, <2>4, EncodeByte DEF LowBits
  <2> HIDE DEF w
  <2>6. current' % 128 = w % 128 /\ \A j \in Port : Bit(current', j) = Bit(w, j)
    BY <2>1, <2>2, <2>5, TypeFacts, KeptByte
  <2>7. \A j \in Port : Bit(w, j) = Bit(current, j)
    BY <2>5, TypeFacts, LowBitsPorts
  <2>8. get_current_mode' = v % 16 /\ v % 16 # DEFAULT
    BY <2>3, <2>4, <2>5, <2>6 DEF get_current_mode, Mode, DEFAULT
  <2> QED  BY <1>1, <1>3, <2>6, <2>7, <2>8 DEF v
<1> QED  BY <1>2, <1>3

LEMMA SetDefaultEffect ==
  ASSUME TypeInv, NEW t \in Proc, SetDefaultMode(t), ~lost'
  PROVE  ~lost /\ get_default_mode' = asked'.default % 16
<1>1. PICK v \in Values : default' = Kept(Encode(v, 3)) /\ asked' = [asked EXCEPT !.default = v]
  BY DEF SetDefaultMode
<1>2. Encode(v, 3) \in Byte /\ Mode(Encode(v, 3)) = v % 16
  BY ModeAssumption, EncodeByte
<1>3. default' % 128 = Encode(v, 3) % 128 /\ asked'.default = v
  BY <1>1, <1>2, TypeFacts, KeptByte DEF TypeInv, TypeOK
<1> QED  BY <1>2, <1>3 DEF SetDefaultMode, Writes, get_default_mode, Mode

-----------------------------------------------------------------------------
(* The modes and the ports *)

ReadBack ==
  /\ get_current_mode = IF asked.current = DEFAULT THEN DEFAULT ELSE asked.current % 16
  /\ get_default_mode = asked.default % 16
ModesInv == ~lost => ReadBack

\* The steps that write no register.
Reads(t) == PortSet(t) \/ ReadPort(t) \/ ReadDefault(t) \/ SetCurrentMode(t) \/ ReadMode(t)

LEMMA ReadsKeep ==
  ASSUME NEW t \in Proc, Reads(t)
  PROVE  UNCHANGED <<current, default, asked, wanted, lost>> /\ (misread => misread')
<1>1. CASE PortSet(t)
  BY <1>1 DEF PortSet, history
<1>2. CASE ReadPort(t)
  BY <1>2 DEF ReadPort
<1>3. CASE ReadDefault(t) \/ ReadMode(t)
  BY <1>3 DEF ReadDefault, ReadMode, history
<1>4. CASE SetCurrentMode(t)
  BY <1>4 DEF SetCurrentMode, history
<1> QED  BY <1>1, <1>2, <1>3, <1>4 DEF Reads

LEMMA NextSteps ==
  ASSUME [Next]_vars
  PROVE  \/ \E t \in Proc : \/ Reads(t) \/ WritePort(t) \/ WriteDefault(t)
                            \/ RewriteCurrent(t) \/ WriteMode(t) \/ SetDefaultMode(t)
         \/ UNCHANGED vars
BY DEF Next, Step, Finished, Proc, Reads

LEMMA ModesInit == Init => ModesInv
<1> SUFFICES ASSUME Init PROVE ModesInv
  OBVIOUS
<1>1. 240 \in Byte /\ 240 % 128 = DEFAULT
  BY DEF Byte, DEFAULT
<1>2. current % 128 = DEFAULT
  BY <1>1, KeptByte DEF Init
<1>3. get_current_mode = DEFAULT
  BY <1>2 DEF get_current_mode
<1>4. PICK m \in Values \cap 0..5 : default = Kept(Encode(m, 3))
  BY DEF Init
<1>5. Encode(m, 3) \in Byte /\ Mode(Encode(m, 3)) = m % 16 /\ m % 16 = m
  BY EncodeByte
<1>6. get_default_mode = m
  BY <1>4, <1>5, KeptByte DEF get_default_mode, Mode, Init
<1> QED  BY <1>3, <1>5, <1>6 DEF Init, ModesInv, ReadBack

LEMMA ModesStep == TypeInv /\ HeldInv /\ ModesInv /\ [Next]_vars => ModesInv'
<1> SUFFICES ASSUME TypeInv, HeldInv, ModesInv, [Next]_vars, ~lost'
             PROVE  ReadBack'
  BY DEF ModesInv
<1> USE DEF ReadBack
<1>1. ASSUME UNCHANGED <<current, default, asked, lost>>
      PROVE  ReadBack'
  BY <1>1 DEF ModesInv, get_current_mode, get_default_mode
<1>2. ASSUME NEW t \in Proc, WritePort(t) \/ RewriteCurrent(t)
      PROVE  ReadBack'
  <2>1. ~lost /\ get_current_mode' = get_current_mode
    BY <1>2, WritePortEffect, RewriteEffect
  <2>2. get_default_mode' = get_default_mode /\ asked' = asked
    BY <1>2 DEF WritePort, RewriteCurrent, get_default_mode, history
  <2> QED  BY <2>1, <2>2 DEF ModesInv
<1>3. ASSUME NEW t \in Proc, WriteDefault(t)
      PROVE  ReadBack'
  <2>1. ~lost /\ get_default_mode' = get_default_mode
    BY <1>3, WriteDefaultEffect
  <2>2. get_current_mode' = get_current_mode /\ asked' = asked
    BY <1>3 DEF WriteDefault, get_current_mode
  <2> QED  BY <2>1, <2>2 DEF ModesInv
<1>4. ASSUME NEW t \in Proc, WriteMode(t)
      PROVE  ReadBack'
  <2>1. /\ ~lost
        /\ get_current_mode' = IF arg[t].value = DEFAULT THEN DEFAULT
                               ELSE arg[t].value % 16
    BY <1>4, WriteModeEffect
  <2>2. /\ asked' = [asked EXCEPT !.current = arg[t].value]
        /\ get_default_mode' = get_default_mode
    BY <1>4 DEF WriteMode, get_default_mode
  <2>3. asked'.current = arg[t].value /\ asked'.default = asked.default
    BY <2>2 DEF TypeInv, TypeOK
  <2> QED  BY <2>1, <2>2, <2>3 DEF ModesInv
<1>5. ASSUME NEW t \in Proc, SetDefaultMode(t)
      PROVE  ReadBack'
  <2>1. ~lost /\ get_default_mode' = asked'.default % 16
    BY <1>5, SetDefaultEffect
  <2>2. get_current_mode' = get_current_mode /\ asked'.current = asked.current
    BY <1>5 DEF SetDefaultMode, get_current_mode, TypeInv, TypeOK
  <2> QED  BY <2>1, <2>2 DEF ModesInv
<1> QED  BY <1>1, <1>2, <1>3, <1>4, <1>5, NextSteps, ReadsKeep DEF vars, history

\* Attributes current_mode and default_mode read back the documented modes
\* they were set to, though fiber_port_set (port.c) rewrites both registers: unless a call wrote
\* a register that another one had written since it read it.
THEOREM ModesReadBack == Spec => []ModesInForce
<1>1. Init => HeldInv
  BY DEF Init, HeldInv, Held
<1>2. ModesInv => ModesInForce
  BY DEF ModesInv, ReadBack, ModesInForce, Documented, DEFAULT
<1> QED  BY <1>1, <1>2, TypeInit, TypeStep, HeldStep, ModesInit, ModesStep, PTL DEF Spec

PortInv == ~lost /\ ~misread => \A i \in Port : InForce(i)

LEMMA PortStep == TypeInv /\ HeldInv /\ PortInv /\ [Next]_vars => PortInv'
<1> SUFFICES ASSUME TypeInv, HeldInv, PortInv, [Next]_vars, ~lost', ~misread',
                    NEW i \in Port
             PROVE  InForce(i)'
  BY DEF PortInv
<1>0. wanted \in [Port -> {"up", "down", "any"}]
  BY DEF TypeInv, TypeOK
<1> USE DEF InForce, Enabled
<1>1. ASSUME UNCHANGED <<current, default, wanted, lost>>, misread => misread' PROVE InForce(i)'
  BY <1>1 DEF PortInv, get_current_mode
<1>2. ASSUME NEW t \in Proc, WritePort(t) PROVE InForce(i)'
  <2>1. /\ ~lost /\ get_current_mode' # DEFAULT /\ get_current_mode # DEFAULT
        /\ Bit(current', arg[t].port) = 1 <=> arg[t].up
        /\ \A j \in Port \ {arg[t].port} : Bit(current', j) = Bit(current, j)
    BY <1>2, WritePortEffect
  <2>2. /\ misread' = misread
        /\ wanted' = [wanted EXCEPT ![arg[t].port] = IF arg[t].up THEN "up" ELSE "down"]
    BY <1>2 DEF WritePort
  <2>3. CASE i = arg[t].port
    <3>1. wanted'[i] = IF arg[t].up THEN "up" ELSE "down"
      BY <1>0, <2>2, <2>3
    <3> QED  BY <2>1, <2>3, <3>1
  <2>4. CASE i # arg[t].port
    <3>1. wanted'[i] = wanted[i] /\ Bit(current', i) = Bit(current, i)
      BY <1>0, <2>1, <2>2, <2>4
    <3> QED  BY <2>1, <2>2, <3>1 DEF PortInv
  <2> QED  BY <2>3, <2>4
<1>3. ASSUME NEW t \in Proc, WriteDefault(t) PROVE InForce(i)'
  <2>1. /\ misread' = misread /\ get_current_mode' = get_current_mode
        /\ wanted' = [wanted EXCEPT ![arg[t].port] = IF arg[t].up THEN "up" ELSE "down"]
    BY <1>3 DEF WriteDefault, get_current_mode
  <2>2. /\ ~lost /\ get_current_mode = DEFAULT
        /\ Bit(default', arg[t].port) = 1 <=> arg[t].up
        /\ \A j \in Port \ {arg[t].port} : Bit(default', j) = Bit(default, j)
    BY <1>3, <2>1, WriteDefaultEffect
  <2>3. CASE i = arg[t].port
    <3>1. wanted'[i] = IF arg[t].up THEN "up" ELSE "down"
      BY <1>0, <2>1, <2>3
    <3> QED  BY <2>1, <2>2, <2>3, <3>1
  <2>4. CASE i # arg[t].port
    <3>1. wanted'[i] = wanted[i] /\ Bit(default', i) = Bit(default, i)
      BY <1>0, <2>1, <2>2, <2>4
    <3> QED  BY <2>1, <2>2, <3>1 DEF PortInv
  <2> QED  BY <2>3, <2>4
<1>4. ASSUME NEW t \in Proc, RewriteCurrent(t) PROVE InForce(i)'
  <2>1. /\ ~lost /\ get_current_mode' = get_current_mode
        /\ Bit(current', i) = Bit(current, i)
    BY <1>4, RewriteEffect
  <2>2. UNCHANGED <<default, wanted, misread>>
    BY <1>4 DEF RewriteCurrent, history
  <2> QED  BY <2>1, <2>2 DEF PortInv
<1>5. ASSUME NEW t \in Proc, WriteMode(t) PROVE InForce(i)'
  <2>1. /\ UNCHANGED <<default, misread>>
        /\ wanted' = IF arg[t].value = DEFAULT \/ get_current_mode = DEFAULT
                     THEN [j \in Port |-> "any"] ELSE wanted
    BY <1>5 DEF WriteMode
  <2>2. CASE arg[t].value = DEFAULT \/ get_current_mode = DEFAULT
    BY <2>1, <2>2
  <2>3. CASE ~(arg[t].value = DEFAULT \/ get_current_mode = DEFAULT)
    <3>1. ~lost /\ get_current_mode' # DEFAULT /\ Bit(current', i) = Bit(current, i)
      BY <1>5, <2>3, WriteModeEffect
    <3> QED  BY <2>1, <2>3, <3>1 DEF PortInv
  <2> QED  BY <2>2, <2>3
<1>6. ASSUME NEW t \in Proc, SetDefaultMode(t) PROVE InForce(i)'
  <2>1. /\ UNCHANGED <<current, misread>> /\ get_current_mode' = get_current_mode
        /\ wanted' = IF get_current_mode = DEFAULT THEN [j \in Port |-> "any"] ELSE wanted
    BY <1>6 DEF SetDefaultMode, get_current_mode
  <2>2. ~lost
    BY <1>6, SetDefaultEffect
  <2>3. CASE get_current_mode = DEFAULT
    BY <2>1, <2>3
  <2>4. CASE get_current_mode # DEFAULT
    BY <2>1, <2>2, <2>4 DEF PortInv
  <2> QED  BY <2>3, <2>4
<1> QED  BY <1>1, <1>2, <1>3, <1>4, <1>5, <1>6, NextSteps, ReadsKeep DEF vars, history

\* A port that fiber_port_set was told to enable or to disable is so in the
\* register that decides, through calls for the other port and changes from
\* one forced mode to the next: unless two calls overlapped on a register, or
\* val & 0xf0 took a forced mode for the default mode.
THEOREM PortsStayAsSet == Spec => []PortSetInForceUnlessMisread
<1>1. Init => HeldInv /\ PortInv
  BY DEF Init, HeldInv, Held, PortInv, InForce
<1>2. PortInv => PortSetInForceUnlessMisread
  BY DEF PortInv, PortSetInForceUnlessMisread
<1> QED  BY <1>1, <1>2, TypeInit, TypeStep, HeldStep, PortStep, PTL DEF Spec
=============================================================================
