--------------------------- MODULE LfdLink_proofs ---------------------------
(* Proofs about LfdLink, for every LFD_MAX_CHECK_COUNT and every MaxLag that *)
(* LagAssumption allows.                                                     *)
EXTENDS LfdLink, Sequences, TLAPS

K == LFD_MAX_CHECK_COUNT

-----------------------------------------------------------------------------
(* What an update returns: every outcome, one conjunct for each *)

LEMMA UpdateCases ==
  ASSUME NEW s \in LfdState, NEW n \in 0..K, NEW c \in [Port -> BOOLEAN],
         NEW u, u = Update(s, n, c)
  PROVE  /\ s = 0 /\ c[0] /\ c[1] => u = After(1, n, NoSet)
         /\ s = 1 /\ c[0] /\ c[1] => u = After(1, n, NoSet)
         /\ s \in {0, 1} /\ ~c[0] /\ ~c[1] => u = After(s, n, NoSet)
         /\ s \in {0, 1} /\ ~c[0] /\ c[1] => u = After(2, n, Only0)
         /\ s \in {0, 1} /\ c[0] /\ ~c[1] => u = After(3, n, Only1)
         /\ s = 2 /\ c[0] => u = After(4, n, BothUp)
         /\ s = 2 /\ ~c[0] => u = After(2, n, NoSet)
         /\ s = 3 /\ c[1] => u = After(4, n, BothUp)
         /\ s = 3 /\ ~c[1] => u = After(3, n, NoSet)
         /\ s = 4 /\ c[0] /\ c[1] => u = After(1, K, NoSet)
         /\ s = 4 /\ ~(c[0] /\ c[1]) /\ n > 0 => u = After(4, n - 1, NoSet)
         /\ s = 4 /\ ~(c[0] /\ c[1]) /\ n = 0 => u = After(0, K, NoSet)
<1> USE DEF BothCarriers, Update
<1>1. CASE s = 4
  BY <1>1, CheckCountAssumption DEF Wait, K
<1>2. CASE s # 4
  BY <1>2 DEF Watch, LfdState
<1> QED  BY <1>1, <1>2

-----------------------------------------------------------------------------
(* Types and the shape of the states *)

\* Which ports are up in which state, but for what attributes did to them,
\* and what a carrier takes.
Shape ==
  /\ carrier[0] => up[0] /\ cable[0]
  /\ carrier[1] => up[1] /\ cable[1]
  /\ held = {} => up[0] \/ up[1]
  /\ lfd_state \in {1, 2, 4} => up[0] \/ 0 \in held
  /\ lfd_state \in {1, 3, 4} => up[1] \/ 1 \in held
  /\ lfd_state = 2 => ~up[1] \/ raised
  /\ lfd_state = 3 => ~up[0] \/ raised
  /\ ~short /\ lfd_state # 4 => lfd_count = K

Inv == TypeOK /\ Shape

LEMMA SettleNat == Settle \in Nat /\ Settle > 0 /\ MaxLag \in Nat /\ K \in Nat
                   /\ MaxLag <= K + 1 /\ Settle = 2 * MaxLag + K + 4
  BY CheckCountAssumption, LagAssumption DEF Settle, K

LEMMA InvInit == Init => Inv
<1> SUFFICES ASSUME Init PROVE Inv
  OBVIOUS
<1>1. TypeOK
  <2>1. /\ up \in [Port -> BOOLEAN] /\ cable \in [Port -> BOOLEAN]
        /\ carrier \in [Port -> BOOLEAN] /\ held \subseteq Port
    BY DEF Init
  <2>2. lfd_state \in LfdState /\ lfd_count \in 0..K /\ steady \in 0..Settle
    BY SettleNat DEF Init, LfdState
  <2>3. late \in [Port -> 0..MaxLag]
    BY SettleNat DEF Init
  <2>4. /\ on \in BOOLEAN /\ lfd_active \in BOOLEAN /\ starting \in BOOLEAN
        /\ stopping \in BOOLEAN /\ tested \in BOOLEAN /\ raised \in BOOLEAN
        /\ short \in BOOLEAN
    BY DEF Init
  <2> QED  BY <2>1, <2>2, <2>3, <2>4 DEF TypeOK, K
<1>2. Shape
  BY DEF Init, Shape, Port
<1> QED  BY <1>1, <1>2 DEF Inv

-----------------------------------------------------------------------------
(* What a look sees and sets *)

Outcome(s, n) == Look.state = s /\ Look.count = n
SamePorts == /\ (up'[0] <=> up[0]) /\ (up'[1] <=> up[1])
             /\ held' = held /\ Look.sets = NoSet
SetsBoth  == up'[0] /\ up'[1] /\ held' = {} /\ Look.sets # NoSet
SetsOnly0 == up'[0] /\ ~up'[1] /\ held' = {} /\ Look.sets # NoSet
SetsOnly1 == ~up'[0] /\ up'[1] /\ held' = {} /\ Look.sets # NoSet

\* A look at a segment, by the state and the carriers it finds.
LEMMA LookCases ==
  ASSUME Inv, Pass, Scanned
  PROVE
    /\ lfd_state \in {0, 1} /\ carrier[0] /\ carrier[1] =>
         Outcome(1, lfd_count) /\ SamePorts
    /\ lfd_state \in {0, 1} /\ ~carrier[0] /\ ~carrier[1] =>
         Outcome(lfd_state, lfd_count) /\ SamePorts
    /\ lfd_state \in {0, 1} /\ ~carrier[0] /\ carrier[1] =>
         Outcome(2, lfd_count) /\ SetsOnly0
    /\ lfd_state \in {0, 1} /\ carrier[0] /\ ~carrier[1] =>
         Outcome(3, lfd_count) /\ SetsOnly1
    /\ (lfd_state = 2 /\ ~carrier[0]) \/ (lfd_state = 3 /\ ~carrier[1]) =>
         Outcome(lfd_state, lfd_count) /\ SamePorts
    /\ (lfd_state = 2 /\ carrier[0]) \/ (lfd_state = 3 /\ carrier[1]) =>
         Outcome(4, lfd_count) /\ SetsBoth
    /\ lfd_state = 4 /\ carrier[0] /\ carrier[1] =>
         Outcome(1, K) /\ SamePorts
    /\ lfd_state = 4 /\ ~(carrier[0] /\ carrier[1]) /\ lfd_count > 0 =>
         Outcome(4, lfd_count - 1) /\ SamePorts
    /\ lfd_state = 4 /\ ~(carrier[0] /\ carrier[1]) /\ lfd_count = 0 =>
         Outcome(0, K) /\ SamePorts
<1> DEFINE u == Update(lfd_state, lfd_count, carrier)
<1>1. lfd_state \in LfdState /\ lfd_count \in 0..K /\ carrier \in [Port -> BOOLEAN]
  BY DEF Inv, TypeOK, K
<1>2. /\ Look = u
      /\ up' = IF u.sets = NoSet THEN up ELSE [p \in Port |-> u.sets[p + 1]]
      /\ u.sets = NoSet => held' = held
      /\ u.sets # NoSet => held' = {}
  BY DEF Pass, Look
<1> HIDE DEF u
<1>3. u.sets # NoSet => up'[0] = u.sets[1] /\ up'[1] = u.sets[2]
  BY <1>2 DEF Port
<1>4. /\ BothUp # NoSet /\ BothUp[1] /\ BothUp[2]
      /\ Only0 # NoSet /\ Only0[1] /\ ~Only0[2]
      /\ Only1 # NoSet /\ ~Only1[1] /\ Only1[2]
  BY DEF NoSet, BothUp, Only0, Only1
<1>5. /\ u.sets = NoSet => SamePorts
      /\ u.sets = Only0 => SetsOnly0
      /\ u.sets = Only1 => SetsOnly1
      /\ u.sets = BothUp => SetsBoth
  BY <1>2, <1>3, <1>4 DEF SamePorts, SetsBoth, SetsOnly0, SetsOnly1
<1>6. \A s, n, x : u = After(s, n, x) => Outcome(s, n) /\ u.sets = x
  BY <1>2 DEF After, Outcome
<1>7. CASE lfd_state = 4
  BY <1>1, <1>5, <1>6, <1>7, UpdateCases DEF u
<1>8. CASE lfd_state \in {2, 3}
  BY <1>1, <1>5, <1>6, <1>8, UpdateCases DEF u
<1>9. CASE lfd_state \in {0, 1}
  BY <1>1, <1>5, <1>6, <1>9, UpdateCases DEF u
<1> QED  BY <1>1, <1>7, <1>8, <1>9 DEF LfdState

\* What a look leaves alone when the segment is skipped.
LEMMA NoLook ==
  ASSUME Inv, Pass, ~Scanned
  PROVE  Outcome(lfd_state, lfd_count) /\ SamePorts
<1>1. Look = After(lfd_state, lfd_count, NoSet)
  BY DEF Look
<1>2. Outcome(lfd_state, lfd_count) /\ Look.sets = NoSet
  BY <1>1 DEF After, Outcome
<1>3. up' = up /\ held' = held
  BY <1>2 DEF Pass
<1> QED  BY <1>2, <1>3 DEF SamePorts

LEMMA PeriodLook ==
  ASSUME Period
  PROVE  /\ Pass /\ lfd_state' = Look.state /\ lfd_count' = Look.count
         /\ raised' <=> (raised /\ Look.sets = NoSet)
         /\ short' <=> (short /\ ~WaitEnds)
BY DEF Period

\* What a look leaves of the segment's shape.
LookShape ==
  /\ Look.state \in LfdState /\ Look.count \in 0..K
  /\ held' = {} => up'[0] \/ up'[1]
  /\ Look.state \in {1, 2, 4} => up'[0] \/ 0 \in held'
  /\ Look.state \in {1, 3, 4} => up'[1] \/ 1 \in held'
  /\ Look.state = 2 => ~up'[1] \/ (raised /\ Look.sets = NoSet)
  /\ Look.state = 3 => ~up'[0] \/ (raised /\ Look.sets = NoSet)
  /\ (~short \/ WaitEnds) /\ Look.state # 4 => Look.count = K

LEMMA LookKeepsShape ==
  ASSUME Inv, Pass
  PROVE  LookShape
<1> USE SettleNat
<1>1. /\ lfd_state \in LfdState /\ lfd_count \in 0..K
      /\ ~short /\ lfd_state # 4 => lfd_count = K
  BY DEF Inv, TypeOK, Shape, K
<1>2. /\ lfd_state \in {1, 2, 4} => up[0] \/ 0 \in held
      /\ lfd_state \in {1, 3, 4} => up[1] \/ 1 \in held
      /\ lfd_state = 2 => ~up[1] \/ raised
      /\ lfd_state = 3 => ~up[0] \/ raised
      /\ held = {} => up[0] \/ up[1]
      /\ carrier[0] => up[0]
      /\ carrier[1] => up[1]
  BY DEF Inv, Shape
<1>3. CASE ~Scanned
  BY <1>1, <1>2, <1>3, NoLook DEF LookShape, Outcome, SamePorts, WaitEnds
<1>4. CASE Scanned
  <2>1. Look.state \in LfdState /\ Look.count \in 0..K
    BY <1>1, <1>4, LookCases DEF Outcome, LfdState
  <2>2. (~short \/ WaitEnds) /\ Look.state # 4 => Look.count = K
    BY <1>1, <1>4, LookCases DEF Outcome, LfdState, WaitEnds
  <2>3. /\ held' = {} => up'[0] \/ up'[1]
        /\ Look.state \in {1, 2, 4} => up'[0] \/ 0 \in held'
        /\ Look.state \in {1, 3, 4} => up'[1] \/ 1 \in held'
        /\ Look.state = 2 => ~up'[1] \/ (raised /\ Look.sets = NoSet)
        /\ Look.state = 3 => ~up'[0] \/ (raised /\ Look.sets = NoSet)
    BY <1>1, <1>2, <1>4, LookCases
       DEF Outcome, SamePorts, SetsBoth, SetsOnly0, SetsOnly1, LfdState
  <2> QED  BY <2>1, <2>2, <2>3 DEF LookShape
<1> QED  BY <1>3, <1>4

-----------------------------------------------------------------------------
(* Every step preserves types and shape *)

LEMMA NetworkInv ==
  ASSUME Inv, NEW p \in Port, Plug(p) \/ Unplug(p) \/ LinkUp(p)
  PROVE  Inv'
<1>0. UNCHANGED <<lfd, calls, up, history>>
  BY DEF Plug, Unplug, LinkUp
<1>1. TypeOK'
  <2>2. cable' \in [Port -> BOOLEAN]
    BY DEF Plug, Unplug, LinkUp, Inv, TypeOK
  <2>3. carrier' \in [Port -> BOOLEAN]
    BY DEF Plug, Unplug, LinkUp, Carriers, Inv, TypeOK
  <2>4. late' \in [Port -> 0..MaxLag]
    BY SettleNat DEF Plug, Unplug, LinkUp, Inv, TypeOK
  <2>5. steady' \in 0..Settle
    BY SettleNat DEF Plug, Unplug, LinkUp, Inv, TypeOK
  <2> QED  BY <1>0, <2>2, <2>3, <2>4, <2>5
           DEF Inv, TypeOK, lfd, calls, history
<1>2. Shape'
  <2>2. \A q \in Port : carrier'[q] => up[q] /\ cable'[q]
    <3>0. \A q \in Port : carrier[q] => up[q] /\ cable[q]
      BY DEF Inv, Shape, Port
    <3>1. CASE Plug(p)
      BY <3>0, <3>1 DEF Plug, Inv, TypeOK
    <3>2. CASE Unplug(p)
      BY <3>0, <3>2 DEF Unplug, Carriers, Inv, TypeOK
    <3>3. CASE LinkUp(p)
      BY <3>0, <3>3 DEF LinkUp, Waiting, Inv, TypeOK
    <3> QED  BY <3>1, <3>2, <3>3
  <2> QED  BY <1>0, <2>2 DEF Inv, Shape, Port, lfd, calls, history
<1> QED  BY <1>1, <1>2 DEF Inv

\* Calls that touch neither the segment's state nor its ports.
LEMMA QuietInv ==
  ASSUME Inv,
         StartBit \/ StartInterrupted \/ StopBit \/ StopInterrupted \/ OtherSegments
  PROVE  Inv'
<1>1. /\ UNCHANGED <<lfd_state, lfd_count, up, cable, carrier, late, history>>
      /\ steady' = 0
  BY DEF StartBit, StartInterrupted, StopBit, StopInterrupted, OtherSegments,
         lfd, history
<1>2. on' \in BOOLEAN /\ lfd_active' \in BOOLEAN
  BY DEF StartBit, StartInterrupted, StopBit, StopInterrupted, OtherSegments,
         lfd, Inv, TypeOK
<1>3. starting' \in BOOLEAN /\ stopping' \in BOOLEAN /\ tested' \in BOOLEAN
  BY DEF StartBit, StartInterrupted, StopBit, StopInterrupted, OtherSegments,
         calls, Inv, TypeOK
<1>4. TypeOK'
  BY <1>1, <1>2, <1>3, SettleNat DEF Inv, TypeOK, history
<1>5. Shape'
  BY <1>1 DEF Inv, Shape, history
<1> QED  BY <1>4, <1>5 DEF Inv

LEMMA StartStopInv ==
  ASSUME Inv, lfd_start \/ lfd_stop
  PROVE  Inv'
<1>1. TypeOK'
  <2>1. up' \in [Port -> BOOLEAN] /\ UNCHANGED <<cable, carrier, late>>
    BY DEF lfd_start, lfd_stop, Inv, TypeOK
  <2>2. /\ lfd_state' \in LfdState /\ lfd_count' \in 0..K
        /\ steady' \in 0..Settle /\ held' \subseteq Port
    <3>1. CASE lfd_start
      BY <3>1, SettleNat DEF lfd_start, Inv, TypeOK, LfdState, K
    <3>2. CASE lfd_stop
      BY <3>2, SettleNat DEF lfd_stop, Inv, TypeOK, K
    <3> QED  BY <3>1, <3>2
  <2>3. /\ on' \in BOOLEAN /\ starting' \in BOOLEAN /\ stopping' \in BOOLEAN
        /\ tested' \in BOOLEAN
    BY DEF lfd_start, lfd_stop, Inv, TypeOK
  <2>4. lfd_active' \in BOOLEAN /\ raised' \in BOOLEAN /\ short' \in BOOLEAN
    BY DEF lfd_start, lfd_stop, Inv, TypeOK
  <2> QED  BY <2>1, <2>2, <2>3, <2>4 DEF Inv, TypeOK, K
<1>2. Shape'
  <2>1. CASE lfd_start
    BY <2>1 DEF lfd_start, Inv, Shape, K
  <2>2. CASE lfd_stop
    <3>1. /\ UNCHANGED <<lfd_state, lfd_count, cable, carrier, short>>
          /\ up'[0] /\ up'[1]
          /\ lfd_state \in {2, 3} => raised'
      BY <2>2 DEF lfd_stop, Port
    <3> QED  BY <3>1 DEF Inv, Shape
  <2> QED  BY <2>1, <2>2
<1> QED  BY <1>1, <1>2 DEF Inv

LEMMA AttributeInv ==
  ASSUME Inv, NEW p \in Port, NEW value \in BOOLEAN, set_port(p, value)
  PROVE  Inv'
<1>1. UNCHANGED <<lfd, calls, cable, short>>
  BY DEF set_port
<1>2. /\ up' \in [Port -> BOOLEAN] /\ up'[p] = value
      /\ \A q \in Port : q # p => up'[q] = up[q]
  BY DEF set_port, Inv, TypeOK
<1>3. /\ carrier' \in [Port -> BOOLEAN]
      /\ \A q \in Port : carrier'[q] => carrier[q] /\ up'[q]
  BY DEF set_port, Carriers, Inv, TypeOK
<1>4. late' \in [Port -> 0..MaxLag] /\ steady' \in 0..Settle
  BY SettleNat DEF set_port, Inv, TypeOK
<1>5. /\ held' = IF value THEN held \ {p} ELSE held \cup {p}
      /\ raised' = (raised \/ (value /\ lfd_state = 3 - p))
  BY DEF set_port
<1>6. TypeOK'
  <2>1. held' \subseteq Port /\ raised' \in BOOLEAN
    BY <1>5 DEF Inv, TypeOK
  <2> QED  BY <1>1, <1>2, <1>3, <1>4, <2>1 DEF Inv, TypeOK, lfd, calls
<1>7. Shape'
  BY <1>1, <1>2, <1>3, <1>5 DEF Inv, Shape, Port, lfd
<1> QED  BY <1>6, <1>7 DEF Inv

\* What a period does to the links, whether the segment is looked at or not.
LEMMA PassLinks ==
  ASSUME Inv, Pass
  PROVE  /\ carrier' \in [Port -> BOOLEAN] /\ late' \in [Port -> 0..MaxLag]
         /\ UNCHANGED <<on, cable>>
         /\ \A p \in Port :
              /\ carrier'[p] <=> (carrier[p] /\ cable[p] /\ up'[p])
              /\ Waiting(p) => late[p] < MaxLag
              /\ Waiting(p) /\ up'[p] => late'[p] = late[p] + 1
              /\ ~(Waiting(p) /\ up'[p]) => late'[p] = 0
<1> USE SettleNat
<1>1. UNCHANGED <<on, cable>>
  BY DEF Pass
<1>2. \A p \in Port : Waiting(p) => late[p] < MaxLag
  BY DEF Pass
<1>3. /\ carrier' \in [Port -> BOOLEAN]
      /\ \A p \in Port : carrier'[p] <=> (carrier[p] /\ cable[p] /\ up'[p])
  BY DEF Pass, Carriers, Inv, TypeOK
<1>4. late' = [p \in Port |-> IF Waiting(p) /\ up'[p] THEN late[p] + 1 ELSE 0]
  BY DEF Pass
<1>5. \A p \in Port : late[p] \in 0..MaxLag
  BY DEF Inv, TypeOK
<1>6. late' \in [Port -> 0..MaxLag]
  BY <1>2, <1>4, <1>5
<1> QED  BY <1>1, <1>2, <1>3, <1>4, <1>6

LEMMA PeriodClock ==
  ASSUME Inv, Period
  PROVE  /\ steady' \in 0..Settle
         /\ steady' = IF history' # history THEN 0
                      ELSE IF steady < Settle THEN steady + 1 ELSE steady
<1>1. /\ steady' = IF history' # history THEN 0
                   ELSE IF steady < Settle THEN steady + 1 ELSE steady
      /\ steady \in 0..Settle
  BY DEF Period, Inv, TypeOK
<1> QED  BY <1>1, SettleNat

LEMMA PassUps ==
  ASSUME Inv, Pass
  PROVE  up' \in [Port -> BOOLEAN]
<1>1. \A x \in {BothUp, Only0, Only1} : x[1] \in BOOLEAN /\ x[2] \in BOOLEAN
  <2>1. BothUp \in Seq(BOOLEAN) /\ Len(BothUp) = 2
    BY DEF BothUp
  <2>2. Only0 \in Seq(BOOLEAN) /\ Len(Only0) = 2
    BY DEF Only0
  <2>3. Only1 \in Seq(BOOLEAN) /\ Len(Only1) = 2
    BY DEF Only1
  <2>4. \A x \in Seq(BOOLEAN) : Len(x) = 2 => x[1] \in BOOLEAN /\ x[2] \in BOOLEAN
    OBVIOUS
  <2> QED  BY <2>1, <2>2, <2>3, <2>4
<1>2. Look.sets \in {NoSet, BothUp, Only0, Only1}
  <2>1. CASE Scanned
    <3>1. Look = Update(lfd_state, lfd_count, carrier)
      BY <2>1 DEF Look
    <3>2. \A s, n, x : After(s, n, x).sets = x
      BY DEF After
    <3>3. lfd_state \in LfdState /\ lfd_count \in 0..K /\ carrier \in [Port -> BOOLEAN]
      BY DEF Inv, TypeOK, K
    <3>4. carrier[0] \in BOOLEAN /\ carrier[1] \in BOOLEAN
      BY <3>3 DEF Port
    <3> QED  BY <3>1, <3>2, <3>3, <3>4, UpdateCases DEF LfdState
  <2>2. CASE ~Scanned
    BY <2>2 DEF Look, After
  <2> QED  BY <2>1, <2>2
<1>3. up' = IF Look.sets = NoSet THEN up
           ELSE [p \in Port |-> Look.sets[p + 1]]
  BY DEF Pass
<1>4. up \in [Port -> BOOLEAN]
  BY DEF Inv, TypeOK
<1>5. CASE Look.sets = NoSet
  BY <1>3, <1>4, <1>5
<1>6. CASE Look.sets # NoSet
  <2>1. Look.sets[1] \in BOOLEAN /\ Look.sets[2] \in BOOLEAN
    BY <1>1, <1>2, <1>6
  <2>2. \A p \in Port : Look.sets[p + 1] \in BOOLEAN
    BY <2>1 DEF Port
  <2> QED  BY <1>3, <1>6, <2>2
<1> QED  BY <1>5, <1>6

\* What every look leaves of the types and of the links.
LEMMA PassInv ==
  ASSUME Inv, Pass
  PROVE  /\ on' \in BOOLEAN /\ tested' \in BOOLEAN /\ stopping' \in BOOLEAN
         /\ up' \in [Port -> BOOLEAN] /\ cable' \in [Port -> BOOLEAN]
         /\ held' \subseteq Port
         /\ carrier'[0] => up'[0] /\ cable'[0]
         /\ carrier'[1] => up'[1] /\ cable'[1]
<1>1. on' \in BOOLEAN /\ tested' \in BOOLEAN /\ stopping' \in BOOLEAN
  BY DEF Pass, Inv, TypeOK
<1>2. cable' \in [Port -> BOOLEAN] /\ held' \subseteq Port
  BY DEF Pass, Inv, TypeOK
<1>3. cable' = cable /\ \A p \in Port : carrier'[p] => cable[p] /\ up'[p]
  BY PassLinks
<1> QED  BY <1>1, <1>2, <1>3, PassUps DEF Port

LEMMA PeriodInv ==
  ASSUME Inv, Period
  PROVE  Inv'
<1>0. Pass
  BY PeriodLook
<1>1. TypeOK'
  <2>1. lfd_active' \in BOOLEAN /\ starting' \in BOOLEAN
    BY DEF Period, Inv, TypeOK
  <2>2. raised' \in BOOLEAN /\ short' \in BOOLEAN
    BY DEF Period, Inv, TypeOK
  <2>3. lfd_state' \in LfdState /\ lfd_count' \in 0..K
    BY <1>0, PeriodLook, LookKeepsShape DEF LookShape
  <2>4. carrier' \in [Port -> BOOLEAN] /\ late' \in [Port -> 0..MaxLag]
    BY <1>0, PassLinks
  <2>5. steady' \in 0..Settle
    BY PeriodClock
  <2> QED  BY <1>0, <2>1, <2>2, <2>3, <2>4, <2>5, PassInv DEF TypeOK, K
<1>2. Shape'
  <2>1. LookShape
    BY <1>0, LookKeepsShape
  <2> QED  BY <1>0, <2>1, PassInv, PeriodLook DEF LookShape, Shape
<1> QED  BY <1>1, <1>2 DEF Inv

\* A reset in the middle of the look.
LEMMA ResetInv ==
  ASSUME Inv, PeriodWithReset
  PROVE  Inv'
<1> USE SettleNat
<1>0. Pass /\ Scanned
  BY DEF PeriodWithReset
<1>1. /\ lfd_state' \in MixedStates /\ lfd_count' \in MixedCounts
      /\ ~raised' /\ (short' <=> lfd_state = 4) /\ steady' = 0
  BY DEF PeriodWithReset
<1>2. /\ lfd_state \in LfdState /\ lfd_count \in 0..K /\ K = LFD_MAX_CHECK_COUNT
      /\ Look.state \in LfdState /\ Look.count \in 0..K
  BY <1>0, LookKeepsShape DEF Inv, TypeOK, LookShape, K
<1>3. lfd_state' \in LfdState
  BY <1>1, <1>2 DEF MixedStates, LfdState
<1>4. lfd_count' \in 0..K /\ (lfd_state # 4 => lfd_count' = K)
  BY <1>1, <1>2 DEF MixedCounts
<1>5. \/ lfd_state' = 0
      \/ lfd_state' = 4 /\ lfd_state = 4 /\ Look.state # 1
      \/ /\ lfd_state' = Look.state /\ Look.state # lfd_state
         /\ lfd_state = 4 => Look.state = 1
  BY <1>1 DEF MixedStates
<1>6. TypeOK'
  <2>1. lfd_active' \in BOOLEAN /\ starting' \in BOOLEAN
    BY DEF PeriodWithReset
  <2>2. raised' \in BOOLEAN /\ short' \in BOOLEAN
    BY DEF PeriodWithReset
  <2>3. carrier' \in [Port -> BOOLEAN] /\ late' \in [Port -> 0..MaxLag]
    BY <1>0, PassLinks
  <2> QED  BY <1>0, <1>1, <1>3, <1>4, <2>1, <2>2, <2>3, PassInv DEF TypeOK, K
<1>7. Shape'
  <2>1. LookShape
    BY <1>0, LookKeepsShape
  <2>2. /\ lfd_state' \in {1, 2, 4} => up'[0] \/ 0 \in held'
        /\ lfd_state' \in {1, 3, 4} => up'[1] \/ 1 \in held'
    <3>1. CASE lfd_state' = 0
      BY <3>1
    <3>2. CASE lfd_state' = 4 /\ lfd_state = 4 /\ Look.state # 1
      <4>1. SamePorts
        BY <1>0, <1>2, <3>2, LookCases DEF Outcome
      <4> QED  BY <3>2, <4>1 DEF SamePorts, Inv, Shape
    <3>3. CASE lfd_state' = Look.state
      BY <2>1, <3>3 DEF LookShape
    <3> QED  BY <1>5, <3>1, <3>2, <3>3
  <2>3. /\ lfd_state' = 2 => ~up'[1]
        /\ lfd_state' = 3 => ~up'[0]
    <3>1. CASE lfd_state' \in {2, 3}
      <4>1. lfd_state' = Look.state /\ lfd_state # 4 /\ Look.state # lfd_state
        BY <1>5, <3>1
      <4>2. CASE lfd_state \in {0, 1}
        BY <1>0, <3>1, <4>1, <4>2, LookCases
           DEF Outcome, SetsOnly0, SetsOnly1
      <4>3. CASE lfd_state \in {2, 3}
        BY <1>0, <3>1, <4>1, <4>3, LookCases DEF Outcome
      <4> QED  BY <1>2, <4>1, <4>2, <4>3 DEF LfdState
    <3>2. CASE lfd_state' \notin {2, 3}
      BY <3>2
    <3> QED  BY <3>1, <3>2
  <2> QED  BY <1>0, <1>1, <1>4, <2>1, <2>2, <2>3, PassInv DEF LookShape, Shape
<1> QED  BY <1>6, <1>7 DEF Inv

LEMMA InvStep == Inv /\ [Next]_vars => Inv'
<1> SUFFICES ASSUME Inv, [Next]_vars PROVE Inv'
  OBVIOUS
<1>1. ASSUME NEW p \in Port, Plug(p) \/ Unplug(p) \/ LinkUp(p) PROVE Inv'
  BY <1>1, NetworkInv
<1>2. CASE lfd_start \/ lfd_stop
  BY <1>2, StartStopInv
<1>3. CASE Period
  BY <1>3, PeriodInv
<1>4. CASE UNCHANGED vars
  BY <1>4 DEF vars, lfd, calls, history, Inv, TypeOK, Shape
<1>5. ASSUME NEW p \in Port, NEW value \in BOOLEAN, set_port(p, value) PROVE Inv'
  BY <1>5, AttributeInv
<1>6. CASE StartBit \/ StartInterrupted \/ StopBit \/ StopInterrupted \/ OtherSegments
  BY <1>6, QuietInv
<1>7. CASE PeriodWithReset
  BY <1>7, ResetInv
<1> QED  BY <1>1, <1>2, <1>3, <1>4, <1>5, <1>6, <1>7 DEF Next

LEMMA Invariant == Spec => []Inv
BY InvInit, InvStep, PTL DEF Spec

\* The state of a segment stays one of the five the switch of
\* lfd_update_segment knows, and its count never passes its bounds: neither
\* the default branch nor a decrement of 0 is ever reached.
THEOREM TypeCorrect == Spec => []TypeOK
<1>1. Inv => TypeOK
  BY DEF Inv
<1> QED  BY <1>1, Invariant, PTL

\* Whatever an earlier wait was interrupted by, state 4 of
\* lfd_update_segment is entered with the count lfd_start wrote, if an
\* lfd_start ever got as far as writing it and did not do so in the middle of
\* a look at an earlier wait, or if a wait has ended since.
THEOREM FullWaits == Spec => []WaitsAreFull
<1>1. Inv => WaitsAreFull
  BY DEF Inv, Shape, WaitsAreFull, K
<1> QED  BY <1>1, Invariant, PTL

\* lfd_update_segment never leaves both ports of a segment down, unless an
\* attribute holds one of them down.
THEOREM OnePort == Spec => []OnePortStaysUp
<1>1. Inv => OnePortStaysUp
  BY DEF Inv, Shape, OnePortStaysUp, Port
<1> QED  BY <1>1, Invariant, PTL

-----------------------------------------------------------------------------
(* The time a repaired segment, or a fault, still takes.  Both promises      *)
(* follow from a measure that every period lowers.                           *)

\* Periods the carrier of a port with a cable may still be missing.
Due == [p \in Port |-> IF carrier[p] THEN 0 ELSE MaxLag - late[p]]

LEMMA DuePeriod ==
  ASSUME Inv, Period, NEW p \in Port, cable[p]
  PROVE  /\ Due[p] \in 0..MaxLag /\ Due'[p] \in 0..MaxLag
         /\ carrier[p] => Due[p] = 0 /\ up[p]
         /\ carrier[p] /\ up'[p] => carrier'[p] /\ Due'[p] = 0
         /\ ~carrier[p] /\ up[p] => Due[p] > 0
         /\ ~carrier[p] /\ up[p] /\ up'[p] => ~carrier'[p] /\ Due'[p] = Due[p] - 1
         /\ ~up[p] => ~carrier[p] /\ ~carrier'[p] /\ Due'[p] = MaxLag
<1>0. Pass
  BY PeriodLook
<1>1. late[p] \in 0..MaxLag /\ (carrier[p] => up[p])
  BY DEF Inv, TypeOK, Shape, Port
<1>2. /\ Due[p] = IF carrier[p] THEN 0 ELSE MaxLag - late[p]
      /\ Due'[p] = IF carrier'[p] THEN 0 ELSE MaxLag - late'[p]
  BY DEF Due
<1>3. Waiting(p) <=> (up[p] /\ ~carrier[p])
  BY DEF Waiting
<1>4. late'[p] \in 0..MaxLag
  BY <1>0, PassLinks
<1> QED  BY <1>0, <1>1, <1>2, <1>3, <1>4, PassLinks, SettleNat

LEMMA DueRange ==
  ASSUME Inv, NEW p \in Port
  PROVE  Due[p] \in 0..MaxLag /\ (carrier[p] => Due[p] = 0)
BY SettleNat DEF Inv, TypeOK, Due

LEMMA DueLinkUp ==
  ASSUME Inv, Inv', NEW q \in Port, LinkUp(q), NEW p \in Port
  PROVE  /\ Due[p] \in 0..MaxLag /\ Due'[p] \in 0..MaxLag /\ Due'[p] <= Due[p]
         /\ carrier[p] => carrier'[p]
<1>1. late[p] \in 0..MaxLag /\ carrier \in [Port -> BOOLEAN] /\ late \in [Port -> 0..MaxLag]
  BY DEF Inv, TypeOK
<1>2. /\ Due[p] = IF carrier[p] THEN 0 ELSE MaxLag - late[p]
      /\ Due'[p] = IF carrier'[p] THEN 0 ELSE MaxLag - late'[p]
  BY DEF Due
<1>3. CASE p = q
  BY <1>1, <1>2, <1>3, SettleNat DEF LinkUp
<1>4. CASE p # q
  BY <1>1, <1>2, <1>4, SettleNat DEF LinkUp
<1> QED  BY <1>3, <1>4

(* Repairs *)

Worst == IF Due[0] > Due[1] THEN Due[0] ELSE Due[1]
BothPortsUp == up[0] /\ up[1]

\* Periods until a segment with both its cables is in state 1, both up, or
\* a wait that may have been short is over.
RepairTime ==
  CASE lfd_state = 2 -> Due[0] + MaxLag + 2
    [] lfd_state = 3 -> Due[1] + MaxLag + 2
    [] lfd_state = 4 /\ (short \/ Worst <= lfd_count + 1) -> Worst + 1
    [] lfd_state = 4 /\ ~short /\ Worst > lfd_count + 1 -> Worst + MaxLag + 2
    [] lfd_state \in {0, 1} /\ ~up[0] -> Due[1] + 2 * MaxLag + 3
    [] lfd_state \in {0, 1} /\ up[0] /\ ~up[1] -> Due[0] + 2 * MaxLag + 3
    [] lfd_state \in {0, 1} /\ BothPortsUp /\ Worst > 0 -> Worst + MaxLag + 2
    [] lfd_state \in {0, 1} /\ BothPortsUp /\ Worst = 0 ->
         IF lfd_state = 1 /\ carrier[0] /\ carrier[1] THEN 0 ELSE 1

LEMMA RepairRange ==
  Inv => /\ RepairTime \in 0..Settle
         /\ RepairTime = 0 => lfd_state = 1 /\ carrier[0] /\ carrier[1]
<1> SUFFICES ASSUME Inv
             PROVE  /\ RepairTime \in 0..Settle
                    /\ RepairTime = 0 => lfd_state = 1 /\ carrier[0] /\ carrier[1]
  OBVIOUS
<1>1. Due[0] \in 0..MaxLag /\ Due[1] \in 0..MaxLag
  BY DueRange DEF Port
<1>2. lfd_state \in LfdState /\ lfd_count \in 0..K
  BY DEF Inv, TypeOK, K
<1>3. Worst \in 0..MaxLag
  BY <1>1 DEF Worst
<1> QED  BY <1>1, <1>2, <1>3, SettleNat DEF RepairTime, LfdState, BothPortsUp

LEMMA RepairPeriod ==
  ASSUME Inv, Inv', Period, Repaired, history' = history
  PROVE  RepairTime' < RepairTime \/ RepairTime' = 0
<1>0. /\ cable[0] /\ cable[1] /\ 0 \in Port /\ 1 \in Port /\ held = {}
      /\ Pass /\ Scanned
      /\ lfd_state' = Look.state /\ lfd_count' = Look.count
  BY PeriodLook DEF Repaired, Port, Scanned
<1>s. (short' <=> short) /\ (WaitEnds => ~short)
  BY PeriodLook DEF history
<1>1. Due[0] \in 0..MaxLag /\ Due[1] \in 0..MaxLag /\ Due'[0] \in 0..MaxLag /\ Due'[1] \in 0..MaxLag
  BY <1>0, DuePeriod
<1>2. /\ carrier[0] => Due[0] = 0 /\ up[0]
      /\ carrier[0] /\ up'[0] => carrier'[0] /\ Due'[0] = 0
      /\ ~carrier[0] /\ up[0] => Due[0] > 0
      /\ ~carrier[0] /\ up[0] /\ up'[0] => ~carrier'[0] /\ Due'[0] = Due[0] - 1
      /\ ~up[0] => ~carrier[0] /\ ~carrier'[0] /\ Due'[0] = MaxLag
  BY <1>0, DuePeriod
<1>3. /\ carrier[1] => Due[1] = 0 /\ up[1]
      /\ carrier[1] /\ up'[1] => carrier'[1] /\ Due'[1] = 0
      /\ ~carrier[1] /\ up[1] => Due[1] > 0
      /\ ~carrier[1] /\ up[1] /\ up'[1] => ~carrier'[1] /\ Due'[1] = Due[1] - 1
      /\ ~up[1] => ~carrier[1] /\ ~carrier'[1] /\ Due'[1] = MaxLag
  BY <1>0, DuePeriod
<1>4. /\ lfd_state \in LfdState /\ lfd_count \in 0..K
      /\ ~short /\ lfd_state # 4 => lfd_count = K
      /\ lfd_state \in {1, 4} => up[0] /\ up[1]
      /\ lfd_state = 2 => up[0]
      /\ lfd_state = 3 => up[1]
      /\ up[0] \/ up[1]
  BY <1>0 DEF Inv, TypeOK, Shape, K
<1> USE SettleNat
<1>5. CASE lfd_state = 4
  <2>0. up[0] /\ up[1] /\ Worst \in 0..MaxLag /\ Worst' \in 0..MaxLag
    BY <1>1, <1>4, <1>5 DEF Worst
  <2>1. CASE carrier[0] /\ carrier[1]
    <3>1. /\ lfd_state' = 1 /\ up'[0] /\ up'[1] /\ carrier'[0] /\ carrier'[1]
          /\ Due'[0] = 0 /\ Due'[1] = 0
      BY <1>0, <1>2, <1>3, <1>5, <2>0, <2>1, LookCases DEF Outcome, SamePorts
    <3> QED  BY <3>1 DEF RepairTime, Worst, BothPortsUp
  <2>2. CASE ~(carrier[0] /\ carrier[1])
    <3>1. up'[0] /\ up'[1]
      BY <1>0, <1>4, <1>5, <2>0, <2>2, LookCases DEF SamePorts
    <3>2. Worst > 0 /\ Worst' = Worst - 1
      BY <1>1, <1>2, <1>3, <2>0, <2>2, <3>1 DEF Worst
    <3>3. CASE lfd_count > 0
      <4>1. lfd_state' = 4 /\ lfd_count' = lfd_count - 1
        BY <1>0, <1>5, <2>2, <3>3, LookCases DEF Outcome
      <4> QED  BY <1>4, <1>5, <1>s, <2>0, <3>2, <4>1 DEF RepairTime
    <3>4. CASE lfd_count = 0
      <4>1. lfd_state' = 0
        BY <1>0, <1>5, <2>2, <3>4, LookCases DEF Outcome
      <4>2. ~short
        BY <1>0, <1>5, <1>s, <4>1 DEF WaitEnds
      <4> QED  BY <1>5, <2>0, <3>1, <3>2, <3>4, <4>1, <4>2 DEF RepairTime, BothPortsUp
    <3> QED  BY <1>4, <3>3, <3>4
  <2> QED  BY <2>1, <2>2
<1>6. CASE lfd_state = 2
  <2>1. CASE carrier[0]
    <3>1. lfd_state' = 4 /\ lfd_count' = lfd_count /\ Due'[0] = 0
      BY <1>0, <1>2, <1>4, <1>6, <2>1, LookCases DEF Outcome, SetsBoth
    <3>2. RepairTime' <= MaxLag + 1 /\ RepairTime' \in Nat
      BY <1>1, <1>4, <1>6, <1>s, <3>1 DEF RepairTime, Worst
    <3>3. RepairTime = Due[0] + MaxLag + 2
      BY <1>6 DEF RepairTime
    <3> QED  BY <1>1, <3>2, <3>3
  <2>2. CASE ~carrier[0]
    <3>1. lfd_state' = 2 /\ Due'[0] = Due[0] - 1
      BY <1>0, <1>2, <1>4, <1>6, <2>2, LookCases DEF Outcome, SamePorts
    <3>2. RepairTime' = Due'[0] + MaxLag + 2 /\ RepairTime = Due[0] + MaxLag + 2
      BY <1>6, <3>1 DEF RepairTime
    <3> QED  BY <1>1, <3>1, <3>2
  <2> QED  BY <2>1, <2>2
<1>7. CASE lfd_state = 3
  <2>1. CASE carrier[1]
    <3>1. lfd_state' = 4 /\ lfd_count' = lfd_count /\ Due'[1] = 0
      BY <1>0, <1>3, <1>4, <1>7, <2>1, LookCases DEF Outcome, SetsBoth
    <3>2. RepairTime' <= MaxLag + 1 /\ RepairTime' \in Nat
      BY <1>1, <1>4, <1>7, <1>s, <3>1 DEF RepairTime, Worst
    <3>3. RepairTime = Due[1] + MaxLag + 2
      BY <1>7 DEF RepairTime
    <3> QED  BY <1>1, <3>2, <3>3
  <2>2. CASE ~carrier[1]
    <3>1. lfd_state' = 3 /\ Due'[1] = Due[1] - 1
      BY <1>0, <1>3, <1>4, <1>7, <2>2, LookCases DEF Outcome, SamePorts
    <3>2. RepairTime' = Due'[1] + MaxLag + 2 /\ RepairTime = Due[1] + MaxLag + 2
      BY <1>7, <3>1 DEF RepairTime
    <3> QED  BY <1>1, <3>1, <3>2
  <2> QED  BY <2>1, <2>2
<1>8. CASE lfd_state \in {0, 1} /\ ~BothPortsUp
  BY <1>0, <1>1, <1>2, <1>3, <1>4, <1>8, LookCases
     DEF RepairTime, Worst, BothPortsUp, Outcome, SamePorts, SetsBoth, SetsOnly0, SetsOnly1
<1>9. CASE lfd_state \in {0, 1} /\ BothPortsUp
  BY <1>0, <1>1, <1>2, <1>3, <1>4, <1>9, LookCases
     DEF RepairTime, Worst, BothPortsUp, Outcome, SamePorts, SetsBoth, SetsOnly0, SetsOnly1
<1> QED  BY <1>4, <1>5, <1>6, <1>7, <1>8, <1>9 DEF LfdState

LEMMA RepairLinkUp ==
  ASSUME Inv, Inv', NEW q \in Port, LinkUp(q)
  PROVE  RepairTime' <= RepairTime
<1>1. /\ Due[0] \in 0..MaxLag /\ Due'[0] \in 0..MaxLag /\ Due'[0] <= Due[0]
      /\ Due[1] \in 0..MaxLag /\ Due'[1] \in 0..MaxLag /\ Due'[1] <= Due[1]
      /\ (carrier[0] => carrier'[0]) /\ (carrier[1] => carrier'[1])
  BY DueLinkUp DEF Port
<1>2. UNCHANGED <<lfd_state, lfd_count, up, short>>
  BY DEF LinkUp, lfd, history
<1>3. lfd_state \in LfdState /\ lfd_count \in 0..K
  BY DEF Inv, TypeOK, K
<1> QED  BY <1>1, <1>2, <1>3, SettleNat DEF RepairTime, Worst, BothPortsUp, LfdState

\* Every step either restarts the clock or lowers the time left with it.
RepairInv == Repaired /\ RepairTime > 0 => steady + RepairTime <= Settle

LEMMA RestartSteps ==
  ASSUME [Next]_vars
  PROVE  \/ steady' = 0
         \/ Period
         \/ \E q \in Port : LinkUp(q)
         \/ UNCHANGED vars
BY DEF Next, Plug, Unplug, set_port, StartBit, lfd_start, StartInterrupted,
       StopBit, lfd_stop, StopInterrupted, OtherSegments, PeriodWithReset

LEMMA RepairStep == Inv /\ RepairInv /\ [Next]_vars => RepairInv'
<1> SUFFICES ASSUME Inv, RepairInv, [Next]_vars PROVE RepairInv'
  OBVIOUS
<1>1. Inv'
  BY InvStep
<1>2. RepairTime \in 0..Settle /\ RepairTime' \in 0..Settle /\ steady \in 0..Settle
  <2>1. Inv => RepairTime \in 0..Settle
    BY RepairRange
  <2>2. Inv' => (RepairTime \in 0..Settle)'
    BY RepairRange, PTL
  <2> QED  BY <1>1, <2>1, <2>2 DEF Inv, TypeOK, Settle
<1> USE SettleNat DEF Settle
<1>3. CASE steady' = 0
  BY <1>2, <1>3 DEF RepairInv
<1>4. CASE Period /\ steady' # 0
  <2>1. /\ history' = history
        /\ steady' = IF steady < Settle THEN steady + 1 ELSE steady
    BY <1>4, PeriodClock
  <2>2. Repaired' <=> Repaired
    BY <1>4, <2>1 DEF Period, Pass, Repaired, history
  <2>3. Repaired => RepairTime' < RepairTime \/ RepairTime' = 0
    BY <1>1, <1>4, <2>1, RepairPeriod
  <2> QED  BY <1>2, <2>1, <2>2, <2>3 DEF RepairInv
<1>5. CASE \E q \in Port : LinkUp(q)
  <2>1. PICK q \in Port : LinkUp(q)
    BY <1>5
  <2>2. RepairTime' <= RepairTime
    BY <1>1, <2>1, RepairLinkUp
  <2>3. steady' = steady /\ (Repaired' <=> Repaired)
    BY <2>1 DEF LinkUp, Repaired, lfd, history
  <2> QED  BY <1>2, <2>2, <2>3 DEF RepairInv
<1>6. CASE UNCHANGED vars
  <2>1. RepairTime' = RepairTime
    BY <1>6 DEF vars, lfd, history, RepairTime, Worst, Due, BothPortsUp
  <2>2. steady' = steady /\ (Repaired' <=> Repaired)
    BY <1>6 DEF vars, lfd, history, Repaired
  <2> QED  BY <2>1, <2>2 DEF RepairInv
<1> QED  BY <1>3, <1>4, <1>5, <1>6, RestartSteps

\* A segment whose two cables are in is back in state 1 with both its ports
\* up within Settle periods of lfd_thread_func, whatever state LFD, lfd_start
\* and lfd_stop that signals interrupted, a look that mixed with a start or
\* the attributes had left it in, if LFD is active and no attribute still
\* holds a port down, for every LFD_MAX_CHECK_COUNT and every link-up
\* time of at most LFD_MAX_CHECK_COUNT + 1 periods.
THEOREM RepairsComplete == Spec => []RepairCompletes
<1>1. Init => RepairInv
  BY DEF Init, RepairInv, Repaired
<1>2. Inv /\ RepairInv => RepairCompletes
  <2> SUFFICES ASSUME Inv, RepairInv, steady = Settle, Repaired
               PROVE  lfd_state = 1 /\ \A p \in Port : up[p] /\ carrier[p]
    BY DEF RepairCompletes
  <2>1. RepairTime = 0
    BY RepairRange, SettleNat DEF RepairInv
  <2>2. lfd_state = 1 /\ carrier[0] /\ carrier[1]
    BY <2>1, RepairRange
  <2> QED  BY <2>2 DEF Inv, Shape, Port
<1> QED  BY <1>1, <1>2, RepairStep, Invariant, InvStep, InvInit, PTL DEF Spec

(* Faults *)

\* Periods until the companion q of the port without a cable is down.
FaultTime == [q \in Port |->
  CASE ~up[q] -> 0
    [] up[q] /\ lfd_state = 4 ->
         IF Due[q] + 1 > lfd_count + 2 THEN Due[q] + 1 ELSE lfd_count + 2
    [] up[q] /\ lfd_state = q + 2 -> Due[q] + K + 3
    [] up[q] /\ lfd_state # 4 /\ lfd_state # q + 2 -> Due[q] + 1]

FaultBound == \A q \in Port :
  FaultTime[q] \in 0..Settle /\ (FaultTime[q] = 0 => ~up[q])

LEMMA FaultRange == Inv => FaultBound
<1> SUFFICES ASSUME Inv, NEW q \in Port
             PROVE  FaultTime[q] \in 0..Settle /\ (FaultTime[q] = 0 => ~up[q])
  BY DEF FaultBound
<1>1. Due[q] \in 0..MaxLag /\ lfd_count \in 0..K /\ lfd_state \in LfdState
  BY DueRange DEF Inv, TypeOK, K
<1> QED  BY <1>1, SettleNat DEF FaultTime, LfdState, Port

LEMMA FaultPeriod ==
  ASSUME Inv, Inv', Period, NEW q \in Port, Failed(1 - q)
  PROVE  FaultTime'[q] < FaultTime[q] \/ FaultTime'[q] = 0
<1> USE SettleNat
<1> DEFINE p == 1 - q
<1>0. /\ cable[q] /\ ~cable[p] /\ p \in Port /\ ((p = 0 /\ q = 1) \/ (p = 1 /\ q = 0))
      /\ held = {} /\ ~raised /\ Pass /\ Scanned
      /\ lfd_state' = Look.state /\ lfd_count' = Look.count
  BY PeriodLook DEF Failed, Port, Scanned
<1>1. /\ Due[q] \in 0..MaxLag /\ Due'[q] \in 0..MaxLag
      /\ carrier[q] => Due[q] = 0 /\ up[q]
      /\ carrier[q] /\ up'[q] => Due'[q] = 0
      /\ ~carrier[q] /\ up[q] => Due[q] > 0
      /\ ~carrier[q] /\ up[q] /\ up'[q] => Due'[q] = Due[q] - 1
      /\ ~up[q] => ~carrier[q]
  BY <1>0, DuePeriod
<1>2. ~carrier[p]
  BY <1>0 DEF Inv, Shape, Port
<1>3. /\ lfd_state \in LfdState /\ lfd_count \in 0..K
      /\ lfd_state \in {1, 4} => up[0] /\ up[1]
      /\ lfd_state = 2 => up[0] /\ ~up[1]
      /\ lfd_state = 3 => ~up[0] /\ up[1]
  BY <1>0 DEF Inv, TypeOK, Shape, K
<1>4. /\ ~up[q] => FaultTime[q] = 0
      /\ up[q] /\ lfd_state = 4 => FaultTime[q] =
           IF Due[q] + 1 > lfd_count + 2 THEN Due[q] + 1 ELSE lfd_count + 2
      /\ up[q] /\ lfd_state = q + 2 => FaultTime[q] = Due[q] + K + 3
      /\ up[q] /\ lfd_state # 4 /\ lfd_state # q + 2 => FaultTime[q] = Due[q] + 1
  BY <1>0 DEF FaultTime
<1>5. /\ ~up'[q] => FaultTime'[q] = 0
      /\ up'[q] /\ lfd_state' = 4 => FaultTime'[q] =
           IF Due'[q] + 1 > lfd_count' + 2 THEN Due'[q] + 1 ELSE lfd_count' + 2
      /\ up'[q] /\ lfd_state' = q + 2 => FaultTime'[q] = Due'[q] + K + 3
      /\ up'[q] /\ lfd_state' # 4 /\ lfd_state' # q + 2 => FaultTime'[q] = Due'[q] + 1
  BY <1>0 DEF FaultTime
<1> HIDE DEF p
<1>6. CASE lfd_state = 4
  <2>1. up[q] /\ up'[q]
    BY <1>0, <1>2, <1>3, <1>6, LookCases DEF SamePorts
  <2>2. CASE lfd_count > 0
    <3>1. lfd_state' = 4 /\ lfd_count' = lfd_count - 1
      BY <1>0, <1>2, <1>6, <2>2, LookCases DEF Outcome
    <3> QED  BY <1>1, <1>3, <1>4, <1>5, <1>6, <2>1, <3>1
  <2>3. CASE lfd_count = 0
    <3>1. lfd_state' = 0
      BY <1>0, <1>2, <1>6, <2>3, LookCases DEF Outcome
    <3> QED  BY <1>0, <1>1, <1>4, <1>5, <1>6, <2>1, <2>3, <3>1
  <2> QED  BY <1>3, <2>2, <2>3
<1>7. CASE lfd_state = q + 2
  <2>1. up[q] /\ lfd_state # 4
    BY <1>0, <1>3, <1>7
  <2>2. CASE carrier[q]
    <3>1. lfd_state' = 4 /\ lfd_count' = lfd_count /\ up'[q]
      BY <1>0, <1>7, <2>2, LookCases DEF Outcome, SetsBoth
    <3> QED  BY <1>1, <1>3, <1>4, <1>5, <1>7, <2>1, <2>2, <3>1
  <2>3. CASE ~carrier[q]
    <3>1. lfd_state' = lfd_state /\ up'[q]
      BY <1>0, <1>7, <2>1, <2>3, LookCases DEF Outcome, SamePorts
    <3> QED  BY <1>1, <1>4, <1>5, <1>7, <2>1, <2>3, <3>1
  <2> QED  BY <2>2, <2>3
<1>8. CASE lfd_state = p + 2
  <2>1. ~up'[q]
    BY <1>0, <1>2, <1>3, <1>8, LookCases DEF SamePorts
  <2> QED  BY <1>5, <2>1
<1>9. CASE lfd_state \in {0, 1}
  <2>1. CASE carrier[q]
    <3>1. ~up'[q]
      BY <1>0, <1>2, <1>9, <2>1, LookCases DEF SetsOnly0, SetsOnly1
    <3> QED  BY <1>5, <3>1
  <2>2. CASE ~carrier[q]
    <3>1. lfd_state' = lfd_state /\ (up'[q] <=> up[q])
      BY <1>0, <1>2, <1>9, <2>2, LookCases DEF Outcome, SamePorts
    <3> QED  BY <1>0, <1>1, <1>4, <1>5, <1>9, <2>2, <3>1
  <2> QED  BY <2>1, <2>2
<1> QED  BY <1>0, <1>3, <1>6, <1>7, <1>8, <1>9 DEF LfdState

LEMMA FaultLinkUp ==
  ASSUME Inv, Inv', NEW r \in Port, LinkUp(r), NEW q \in Port
  PROVE  FaultTime'[q] <= FaultTime[q]
<1>1. Due[q] \in 0..MaxLag /\ Due'[q] \in 0..MaxLag /\ Due'[q] <= Due[q]
  BY DueLinkUp
<1>2. UNCHANGED <<lfd_state, lfd_count, up>>
  BY DEF LinkUp, lfd
<1>3. lfd_state \in LfdState /\ lfd_count \in 0..K
  BY DEF Inv, TypeOK, K
<1> QED  BY <1>1, <1>2, <1>3, SettleNat DEF FaultTime, LfdState, Port

FaultInv == \A q \in Port :
  Failed(1 - q) /\ FaultTime[q] > 0 => steady + FaultTime[q] <= Settle

LEMMA FaultStep == Inv /\ FaultInv /\ [Next]_vars => FaultInv'
<1> SUFFICES ASSUME Inv, FaultInv, [Next]_vars, NEW q \in Port
             PROVE  (Failed(1 - q) /\ FaultTime[q] > 0 => steady + FaultTime[q] <= Settle)'
  BY DEF FaultInv
<1>1. Inv'
  BY InvStep
<1>2. FaultTime[q] \in 0..Settle /\ FaultTime'[q] \in 0..Settle /\ steady \in 0..Settle
  <2>1. FaultTime[q] \in 0..Settle
    BY FaultRange DEF FaultBound
  <2>2. Inv' => FaultBound'
    BY FaultRange, PTL
  <2>3. FaultTime'[q] \in 0..Settle
    BY <1>1, <2>2 DEF FaultBound, Settle
  <2>4. steady \in 0..Settle
    BY DEF Inv, TypeOK
  <2> QED  BY <2>1, <2>3, <2>4
<1> USE SettleNat DEF Settle
<1>3. Failed(1 - q) /\ FaultTime[q] > 0 => steady + FaultTime[q] <= Settle
  BY DEF FaultInv
<1>4. CASE steady' = 0
  BY <1>2, <1>4
<1>5. CASE Period /\ steady' # 0
  <2>1. /\ history' = history
        /\ steady' = IF steady < Settle THEN steady + 1 ELSE steady
    BY <1>5, PeriodClock
  <2>2. Failed(1 - q)' <=> Failed(1 - q)
    BY <1>5, <2>1 DEF Period, Pass, Failed, history
  <2>3. Failed(1 - q) => FaultTime'[q] < FaultTime[q] \/ FaultTime'[q] = 0
    BY <1>1, <1>5, FaultPeriod
  <2> QED  BY <1>2, <1>3, <2>1, <2>2, <2>3
<1>6. CASE \E r \in Port : LinkUp(r)
  <2>1. PICK r \in Port : LinkUp(r)
    BY <1>6
  <2>2. FaultTime'[q] <= FaultTime[q]
    BY <1>1, <2>1, FaultLinkUp
  <2>3. steady' = steady /\ (Failed(1 - q)' <=> Failed(1 - q))
    BY <2>1 DEF LinkUp, Failed, lfd, history
  <2> QED  BY <1>2, <1>3, <2>2, <2>3
<1>7. CASE UNCHANGED vars
  <2>1. FaultTime' = FaultTime
    BY <1>7 DEF vars, lfd, FaultTime, Due
  <2>2. steady' = steady /\ (Failed(1 - q)' <=> Failed(1 - q))
    BY <1>7 DEF vars, lfd, history, Failed
  <2> QED  BY <1>3, <2>1, <2>2
<1> QED  BY <1>4, <1>5, <1>6, <1>7, RestartSteps

\* The companion of a port without its cable is down, and stays down while
\* the cable is out, from Settle periods of lfd_thread_func after the last
\* change at the latest: a fault is never missed for good while LFD is active,
\* unless an attribute, or an lfd_stop that no whole lfd_start has followed,
\* works against it.
THEOREM FaultsPropagate == Spec => []FaultPropagates
<1>1. Init => FaultInv
  BY DEF Init, FaultInv, Failed
<1>2. Inv /\ FaultInv => FaultPropagates
  <2> SUFFICES ASSUME Inv, FaultInv, steady = Settle, NEW p \in Port, Failed(p)
               PROVE  ~up[1 - p]
    BY DEF FaultPropagates
  <2>1. 1 - p \in Port /\ 1 - (1 - p) = p
    BY DEF Port
  <2> DEFINE q == 1 - p
  <2>2. FaultTime[q] = 0
    <3>1. q \in Port /\ FaultTime[q] \in 0..Settle /\ Failed(1 - q)
      BY <2>1, FaultRange DEF FaultBound
    <3>2. FaultTime[q] > 0 => steady + FaultTime[q] <= Settle
      BY <3>1 DEF FaultInv
    <3> HIDE DEF q
    <3> QED  BY <3>1, <3>2, SettleNat
  <2> QED  BY <2>1, <2>2, FaultRange DEF FaultBound
<1> QED  BY <1>1, <1>2, FaultStep, Invariant, InvStep, InvInit, PTL DEF Spec
=============================================================================
