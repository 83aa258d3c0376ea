----------------------------- MODULE Lfd_proofs -----------------------------
(***************************************************************************)
(* Theorems about Lfd for any number of callers, segments and signals.     *)
(* The semaphore orders the callers; the thread and the bits do not wait   *)
(* for it, so each invariant says who is on the way to put things right.   *)
(***************************************************************************)
EXTENDS Lfd, TLAPS

\* Where a caller has the semaphore.
Inside == {"activate", "wake", "reset", "scan", "stop_wake", "stop0", "stop1"}
Holds(c) == pc[c] \in Inside
Exclusion == /\ \A c \in Caller : Holds(c) => ctl_sem = 0
             /\ \A c, d \in Caller : Holds(c) /\ Holds(d) => c = d

\* The thread has two port_set calls to make, or none.
SetsDue == IF tpc \in {"set0", "set1"} THEN sets \in BOOLEAN \X BOOLEAN
                                       ELSE sets = NoSet

TypeInv == TypeOK /\ Exclusion /\ SetsDue

LEMMA UpdateTypes ==
  ASSUME NEW state \in LfdState, NEW count \in Nat,
         NEW carrier \in [Port -> BOOLEAN], NEW u, u = Update(state, count, carrier)
  PROVE  /\ u.state \in LfdState /\ u.count \in Nat
         /\ u.sets = NoSet \/ u.sets \in BOOLEAN \X BOOLEAN
<1> DEFINE Calls == {NoSet} \cup (BOOLEAN \X BOOLEAN)
<1>0. /\ BothUp \in Calls /\ Only0 \in Calls /\ Only1 \in Calls /\ NoSet \in Calls
  BY DEF BothUp, Only0, Only1
<1> HIDE DEF Calls
<1> USE <1>0, CheckCountAssumption DEF After, LfdState
<1>1. ASSUME state = 4
      PROVE  u.state \in LfdState /\ u.count \in Nat /\ u.sets \in Calls
  BY <1>1 DEF Update, Wait
<1>2. ASSUME state # 4
      PROVE  u.state \in LfdState /\ u.count \in Nat /\ u.sets \in Calls
  <2>1. u = Watch(state, count, carrier)
    BY <1>2 DEF Update
  <2>2. \/ u = After(state, count, NoSet) \/ u = After(1, count, NoSet)
        \/ u = After(2, count, Only0) \/ u = After(3, count, Only1)
        \/ u = After(4, count, BothUp)
    BY <2>1 DEF Watch
  <2> QED  BY <2>2
<1>3. u.state \in LfdState /\ u.count \in Nat /\ u.sets \in Calls
  BY <1>1, <1>2
<1> QED  BY <1>3 DEF Calls

LEMMA Segments == /\ 1 \in Seg
                  /\ \A s \in Seg : s # NSeg => s + 1 \in Seg
                  /\ \A s \in Seg : ~(s < NSeg) <=> s = NSeg
BY LfdAssumption DEF Seg

-----------------------------------------------------------------------------
(* Types and the semaphore *)

LEMMA TypeInit == Init => TypeInv
<1> SUFFICES ASSUME Init PROVE TypeInv
  OBVIOUS
<1>1. TypeOK
  <2>1. /\ lfd_state \in [Seg -> LfdState] /\ lfd_count \in [Seg -> Nat]
        /\ up \in [Seg -> [Port -> BOOLEAN]]
    BY DEF Init, LfdState
  <2>2. /\ pc \in [Caller -> {"idle", "start_down", "stop_down", "activate", "wake",
                              "reset", "scan", "stop_wake", "stop0", "stop1"}]
        /\ cseg \in [Caller -> Seg] /\ scan \in [Caller -> Seg]
        /\ avail \in [Caller -> BOOLEAN]
    BY Segments DEF Init
  <2> QED  BY <2>1, <2>2, Segments, LfdAssumption DEF Init, TypeOK
<1>2. Exclusion /\ SetsDue
  BY DEF Init, Exclusion, Holds, Inside, SetsDue
<1> QED  BY <1>1, <1>2 DEF TypeInv

\* A step of the thread.
LEMMA ThreadTypes == TypeInv /\ ThreadStep => TypeInv'
<1> SUFFICES ASSUME TypeInv, ThreadStep PROVE TypeInv'
  OBVIOUS
<1> USE Segments DEF TypeInv, TypeOK, SetsDue, ThreadOnly, callers
<1>1. Exclusion'
  BY DEF Exclusion, Holds, ThreadStep, TestStop, TestActive, TestBit,
         UpdateSegment, SetPort0, SetPort1, Arm, Schedule, Resume, TimerExpires
<1>2. CASE TestStop \/ TestActive \/ Arm \/ Schedule \/ Resume \/ TimerExpires
  BY <1>1, <1>2 DEF TestStop, TestActive, Arm, Schedule, Resume, TimerExpires,
                    segments, thread
<1>3. CASE TestBit
  BY <1>1, <1>3 DEF TestBit, NextSegment, segments
<1>4. CASE UpdateSegment
  <2>1. PICK carrier \in [Port -> BOOLEAN] :
          LET u == Update(lfd_state[seg], lfd_count[seg], carrier)
          IN  /\ lfd_state' = [lfd_state EXCEPT ![seg] = u.state]
              /\ lfd_count' = [lfd_count EXCEPT ![seg] = u.count]
              /\ sets' = u.sets
              /\ IF u.sets = NoSet THEN NextSegment
                                   ELSE tpc' = "set0" /\ UNCHANGED seg
    BY <1>4 DEF UpdateSegment
  <2> DEFINE u == Update(lfd_state[seg], lfd_count[seg], carrier)
  <2>2. /\ u.state \in LfdState /\ u.count \in Nat
        /\ u.sets = NoSet \/ u.sets \in BOOLEAN \X BOOLEAN
    BY UpdateTypes
  <2> HIDE DEF u
  <2>3. lfd_state' \in [Seg -> LfdState] /\ lfd_count' \in [Seg -> Nat]
    BY <2>1, <2>2 DEF u
  <2>4. /\ tpc' \in {"arm", "scan", "set0"} /\ seg' \in Seg
        /\ SetsDue' /\ sets' \in {NoSet} \cup (BOOLEAN \X BOOLEAN)
    BY <2>1, <2>2 DEF u, NextSegment
  <2> QED  BY <1>1, <1>4, <2>3, <2>4 DEF UpdateSegment
<1>5. CASE SetPort0
  BY <1>1, <1>5 DEF SetPort0, segments, Port
<1>6. CASE SetPort1
  BY <1>1, <1>6 DEF SetPort1, NextSegment, segments, Port
<1> QED  BY <1>2, <1>3, <1>4, <1>5, <1>6 DEF ThreadStep

\* A caller's step leaves the thread alone.
LEMMA CallerTypes ==
  ASSUME TypeInv, NEW c \in Caller,
         Start(c) \/ Stop(c) \/ Interrupted(c) \/ CallerStep(c)
  PROVE  TypeInv'
<1> USE Segments DEF TypeInv, TypeOK, SetsDue, Exclusion, Holds, Inside, Goto,
                     CallerOnly, thread, segments, history
<1>1. CASE Start(c)
  BY <1>1 DEF Start, MayCall
<1>2. CASE Stop(c)
  BY <1>2 DEF Stop, MayCall
<1>3. CASE Down(c)
  BY <1>3 DEF Down
<1>4. CASE Interrupted(c)
  BY <1>4 DEF Interrupted
<1>5. CASE Activate(c)
  BY <1>5 DEF Activate
<1>6. CASE StartWake(c)
  BY <1>6 DEF StartWake, wake_up_process
<1>7. CASE Reset(c)
  <2>1. lfd_state' \in [Seg -> LfdState] /\ lfd_count' \in [Seg -> Nat]
    BY <1>7, CheckCountAssumption DEF Reset, LfdState
  <2> QED  BY <1>7, <2>1 DEF Reset
<1>8. CASE ScanBits(c)
  <2>1. scan' \in [Caller -> Seg]
    <3>1. \/ scan[c] < NSeg /\ scan' = [scan EXCEPT ![c] = @ + 1]
          \/ scan' = [scan EXCEPT ![c] = 1]
      BY <1>8 DEF ScanBits
    <3>2. scan[c] \in Seg /\ (scan[c] < NSeg => scan[c] + 1 \in Seg)
      OBVIOUS
    <3> QED  BY <3>1, <3>2
  <2>2. avail' \in [Caller -> BOOLEAN] /\ lfd_active' \in BOOLEAN
    BY <1>8 DEF ScanBits
  <2>3. \/ UNCHANGED pc
        \/ pc' = [pc EXCEPT ![c] = "stop0"] \/ pc' = [pc EXCEPT ![c] = "stop_wake"]
    BY <1>8 DEF ScanBits
  <2>4. Exclusion'
    BY <1>8, <2>3 DEF ScanBits
  <2>5. UNCHANGED <<lfd_active_bmp, segments, ctl_sem, up, task, cseg, signals,
                    history, thread, should_stop, unload>>
    BY <1>8 DEF ScanBits
  <2>6. pc' \in [Caller -> {"idle", "start_down", "stop_down", "activate", "wake",
                            "reset", "scan", "stop_wake", "stop0", "stop1"}]
    BY <2>3
  <2> QED  BY <2>1, <2>2, <2>4, <2>5, <2>6
<1>9. CASE StopWake(c)
  BY <1>9 DEF StopWake, wake_up_process
<1>10. CASE StopPort0(c)
  BY <1>10 DEF StopPort0, Port
<1>11. CASE StopPort1(c)
  BY <1>11 DEF StopPort1, Port
<1> QED  BY <1>1, <1>2, <1>3, <1>4, <1>5, <1>6, <1>7, <1>8, <1>9, <1>10, <1>11
         DEF CallerStep

UnloadOnlySteps == BeginUnload \/ Deinit \/ kthread_stop \/ Unloaded

LEMMA UnloadTypes == TypeInv /\ UnloadOnlySteps => TypeInv'
<1> SUFFICES ASSUME TypeInv, UnloadOnlySteps PROVE TypeInv'
  OBVIOUS
<1>1. UnloadOnly
  BY DEF UnloadOnlySteps, BeginUnload, Deinit, kthread_stop, Unloaded
<1>2. Exclusion' /\ SetsDue'
  BY <1>1 DEF TypeInv, Exclusion, Holds, SetsDue, UnloadOnly, thread, callers
<1>3. /\ lfd_active' \in BOOLEAN /\ should_stop' \in BOOLEAN
      /\ task' \in {"running", "interruptible"}
      /\ unload' \in {"no", "stopping", "deinit", "kthread_stop", "done"}
  BY DEF TypeInv, TypeOK, UnloadOnlySteps, BeginUnload, Deinit, kthread_stop,
         Unloaded, wake_up_process
<1>4. TypeOK'
  BY <1>1, <1>3 DEF TypeInv, TypeOK, UnloadOnly, thread, segments, callers, history
<1> QED  BY <1>2, <1>4 DEF TypeInv

LEMMA TypeStep == TypeInv /\ [Next]_vars => TypeInv'
<1>1. TypeInv /\ UNCHANGED vars => TypeInv'
  BY DEF TypeInv, TypeOK, SetsDue, Exclusion, Holds, vars, thread, segments,
         callers, history
<1> QED  BY <1>1, ThreadTypes, CallerTypes, UnloadTypes DEF Next, UnloadOnlySteps

LEMMA TypeInvariant == Spec => []TypeInv
BY TypeInit, TypeStep, PTL DEF Spec

\* Every variable of LFD stays in its range; in particular ctl_sem is never
\* given back by a caller that does not have it, so it never exceeds 1.
THEOREM TypeCorrect == Spec => []TypeOK
<1>1. TypeInv => TypeOK
  BY DEF TypeInv
<1> QED  BY <1>1, TypeInvariant, PTL

-----------------------------------------------------------------------------
(* LFD is on as long as a segment wants it *)

\* A caller that has set its bit, and has not switched LFD on yet.
OnTheWay(d) == pc[d] \in {"start_down", "activate"}

\* With a bit set LFD is on, or a caller is on the way to switch it on.  A scan
\* for remaining bits has found one that is set behind it, or the one who has
\* set it since waits for the semaphore.
CoverInv ==
  unload = "no" /\ ~interrupted =>
    /\ lfd_active_bmp # {} => lfd_active \/ \E d \in Caller : OnTheWay(d)
    /\ \A c \in Caller : pc[c] = "scan" =>
         \A s \in lfd_active_bmp : s < scan[c] =>
           avail[c] \/ \E d \in Caller : pc[d] = "start_down"
    /\ \A c \in Caller : pc[c] # "scan" => scan[c] = 1

\* A step of a caller that neither scans nor starts: whoever is on the way
\* stays there.
LEMMA CoverFrame ==
  ASSUME TypeInv, CoverInv, NEW c \in Caller, NEW l,
         pc' = [pc EXCEPT ![c] = l], l # "scan", pc[c] # "scan",
         OnTheWay(c) => lfd_active', pc[c] = "start_down" => ctl_sem > 0,
         lfd_active => lfd_active',
         UNCHANGED <<scan, avail, unload, interrupted>>,
         lfd_active_bmp' \subseteq lfd_active_bmp
  PROVE  CoverInv'
<1>1. \A d \in Caller : d # c => pc'[d] = pc[d]
  BY DEF TypeInv, TypeOK
<1>2. pc'[c] = l
  BY DEF TypeInv, TypeOK
<1>3. \A d \in Caller : pc[d] = "scan" => pc[c] # "start_down"
  BY DEF TypeInv, Exclusion, Holds, Inside
<1> QED  BY <1>1, <1>2, <1>3 DEF CoverInv, OnTheWay

LEMMA CoverStep == TypeInv /\ CoverInv /\ [Next]_vars => CoverInv'
<1> SUFFICES ASSUME TypeInv, CoverInv, [Next]_vars PROVE CoverInv'
  OBVIOUS
<1> USE DEF Goto, CallerOnly, history
<1>1. CASE ThreadStep
  BY <1>1 DEF ThreadStep, TestStop, TestActive, TestBit, UpdateSegment, SetPort0,
              SetPort1, Arm, Schedule, Resume, TimerExpires, ThreadOnly,
              callers, CoverInv, OnTheWay
<1>2. ASSUME NEW c \in Caller, Start(c) PROVE CoverInv'
  <2>1. /\ pc' = [pc EXCEPT ![c] = "start_down"] /\ pc[c] = "idle"
        /\ UNCHANGED <<scan, avail, unload, interrupted>>
    BY <1>2 DEF Start, MayCall
  <2>2. pc'[c] = "start_down" /\ \A d \in Caller : d # c => pc'[d] = pc[d]
    BY <2>1 DEF TypeInv, TypeOK
  <2> QED  BY <2>1, <2>2 DEF CoverInv, OnTheWay
<1>3. ASSUME NEW c \in Caller, Stop(c) PROVE CoverInv'
  <2>1. /\ pc[c] = "idle" /\ pc' = [pc EXCEPT ![c] = "stop_down"]
        /\ lfd_active_bmp' \subseteq lfd_active_bmp
        /\ UNCHANGED <<lfd_active, scan, avail, unload, interrupted>>
    BY <1>3 DEF Stop, MayCall
  <2> QED  BY <2>1, CoverFrame DEF OnTheWay
<1>4. ASSUME NEW c \in Caller, Down(c) PROVE CoverInv'
  <2>1. /\ UNCHANGED <<lfd_active, lfd_active_bmp, scan, avail, unload, interrupted>>
        /\ ctl_sem > 0
        /\ \/ pc[c] = "start_down" /\ pc' = [pc EXCEPT ![c] = "activate"]
           \/ pc[c] = "stop_down" /\ pc' = [pc EXCEPT ![c] = "scan"]
           \/ pc[c] = "stop_down" /\ pc' = [pc EXCEPT ![c] = "stop0"]
    BY <1>4 DEF Down
  <2>2. /\ \A d \in Caller : d # c => pc'[d] = pc[d] /\ pc[d] # "scan"
        /\ \/ pc[c] = "start_down" /\ pc'[c] = "activate"
           \/ pc[c] = "stop_down" /\ pc'[c] \in {"scan", "stop0"}
    BY <2>1 DEF TypeInv, TypeOK, Exclusion, Holds, Inside
  <2>3. \A s \in lfd_active_bmp : ~(s < 1)
    BY DEF TypeInv, TypeOK, Seg
  <2> QED  BY <2>1, <2>2, <2>3 DEF CoverInv, OnTheWay
<1>5. ASSUME NEW c \in Caller, Interrupted(c) PROVE CoverInv'
  BY <1>5 DEF Interrupted, CoverInv
<1>6. ASSUME NEW c \in Caller, Activate(c) PROVE CoverInv'
  <2>1. /\ UNCHANGED <<lfd_active_bmp, scan, avail, unload, interrupted>>
        /\ lfd_active' /\ pc[c] = "activate"
        /\ \/ pc' = [pc EXCEPT ![c] = "reset"] \/ pc' = [pc EXCEPT ![c] = "wake"]
    BY <1>6 DEF Activate
  <2> QED  BY <2>1, CoverFrame
<1>7. ASSUME NEW c \in Caller, ScanBits(c) PROVE CoverInv'
  <2> SUFFICES ASSUME unload = "no", ~interrupted PROVE CoverInv'
    BY <1>7 DEF ScanBits, CoverInv
  <2> DEFINE found == avail[c] \/ scan[c] \in lfd_active_bmp
  <2>1. UNCHANGED <<lfd_active_bmp, unload, interrupted>> /\ pc[c] = "scan"
    BY <1>7 DEF ScanBits
  <2>2. \A d \in Caller : d # c => pc[d] # "scan"
    BY <2>1 DEF TypeInv, Exclusion, Holds, Inside
  <2>3. \A s \in lfd_active_bmp : s \in Nat /\ s <= NSeg
    BY LfdAssumption DEF TypeInv, TypeOK, Seg
  <2>4. scan[c] \in Nat /\ NSeg \in Nat /\ scan[c] <= NSeg
    BY LfdAssumption DEF TypeInv, TypeOK, Seg
  <2>5. CASE scan[c] < NSeg
    <3>1. /\ scan' = [scan EXCEPT ![c] = @ + 1] /\ UNCHANGED <<pc, lfd_active>>
          /\ avail' = [avail EXCEPT ![c] = found]
      BY <1>7, <2>5 DEF ScanBits
    <3>2. /\ scan'[c] = scan[c] + 1 /\ (avail'[c] <=> found)
          /\ \A d \in Caller : d # c => scan'[d] = scan[d]
      BY <3>1 DEF TypeInv, TypeOK
    <3>3. ASSUME NEW s \in lfd_active_bmp, s < scan'[c], ~avail'[c]
          PROVE  s < scan[c] /\ ~avail[c]
      BY <2>3, <2>4, <3>2, <3>3
    <3> QED  BY <2>1, <2>2, <3>1, <3>2, <3>3 DEF CoverInv, OnTheWay
  <2>6. CASE ~(scan[c] < NSeg)
    <3>1. /\ scan' = [scan EXCEPT ![c] = 1]
          /\ \/ found /\ pc' = [pc EXCEPT ![c] = "stop0"] /\ UNCHANGED lfd_active
             \/ ~found /\ pc' = [pc EXCEPT ![c] = "stop_wake"] /\ ~lfd_active'
      BY <1>7, <2>6 DEF ScanBits
    <3>2. /\ scan'[c] = 1 /\ pc'[c] \in {"stop0", "stop_wake"}
          /\ \A d \in Caller : d # c => scan'[d] = scan[d] /\ pc'[d] = pc[d]
      BY <3>1 DEF TypeInv, TypeOK
    <3>3. ASSUME ~found, lfd_active_bmp # {}
          PROVE  \E d \in Caller : pc[d] = "start_down"
      <4>1. PICK s \in lfd_active_bmp : TRUE
        BY <3>3
      <4>2. s < scan[c]
        BY <2>3, <2>4, <2>6, <3>3
      <4> QED  BY <2>1, <3>3, <4>2 DEF CoverInv
    <3> QED  BY <2>1, <2>2, <3>1, <3>2, <3>3 DEF CoverInv, OnTheWay
  <2> QED  BY <2>5, <2>6
<1>8. ASSUME NEW c \in Caller,
             StartWake(c) \/ Reset(c) \/ StopWake(c) \/ StopPort0(c) \/ StopPort1(c)
      PROVE  CoverInv'
  <2>1. /\ UNCHANGED <<lfd_active, lfd_active_bmp, scan, avail, unload, interrupted>>
        /\ pc[c] \in {"wake", "reset", "stop_wake", "stop0", "stop1"}
        /\ \E l \in {"reset", "idle", "stop0", "stop1"} : pc' = [pc EXCEPT ![c] = l]
    BY <1>8 DEF StartWake, Reset, StopWake, StopPort0, StopPort1
  <2> QED  BY <2>1, CoverFrame DEF OnTheWay
<1>9. CASE UnloadOnlySteps
  BY <1>9 DEF UnloadOnlySteps, BeginUnload, Deinit, kthread_stop, Unloaded, CoverInv
<1>10. CASE UNCHANGED vars
  BY <1>10 DEF vars, callers, CoverInv, OnTheWay
<1> QED  BY <1>1, <1>2, <1>3, <1>4, <1>5, <1>6, <1>7, <1>8, <1>9, <1>10
         DEF Next, CallerStep, UnloadOnlySteps

\* However starts and stops of different segments interleave, LFD is on when
\* they are through and a segment wants it: lfd_stop's scan of the bits misses
\* none whose lfd_start is not going to switch LFD on again (lfd.c:82).
THEOREM LfdStaysOn == Spec => []ActiveCoversBits
<1>1. Init => CoverInv
  BY DEF Init, CoverInv, OnTheWay
<1>2. CoverInv => ActiveCoversBits
  BY DEF CoverInv, OnTheWay, ActiveCoversBits, Quiet
<1> QED  BY <1>1, <1>2, CoverStep, TypeInvariant, PTL DEF Spec

-----------------------------------------------------------------------------
(* lfd_stop leaves the ports up *)

\* A stop of s that has yet to bring up port 0, or port 1 only.
BeforePort0(c, s) ==
  pc[c] \in {"stop_down", "scan", "stop_wake", "stop0"} /\ cseg[c] = s
BeforePort1(c, s) == pc[c] = "stop1" /\ cseg[c] = s

\* A segment without LFD has its ports up, or somebody is on the way to bring
\* them up; from port 0 on no update of the thread is in between.
PortsUpOrComing(s) ==
  \/ \E c \in Caller : BeforePort0(c, s)
  \/ /\ ~Updating(s)
     /\ \/ PortsUp(s)
        \/ up[s][0] /\ \E c \in Caller : BeforePort1(c, s)
PortsInv == ~interrupted => \A s \in Seg \ (lfd_active_bmp \cup overlapped) :
                              PortsUpOrComing(s)

LEMMA PortsThread == TypeInv /\ PortsInv /\ ThreadStep => PortsInv'
<1> SUFFICES ASSUME TypeInv, PortsInv, ThreadStep PROVE PortsInv'
  OBVIOUS
<1>0. UNCHANGED <<interrupted, overlapped, lfd_active_bmp>>
  <2> USE DEF ThreadOnly
  <2>1. CASE TestStop \/ TestActive \/ TestBit \/ UpdateSegment
    BY <2>1 DEF TestStop, TestActive, TestBit, UpdateSegment
  <2>2. CASE SetPort0 \/ SetPort1 \/ Arm \/ Schedule \/ Resume \/ TimerExpires
    BY <2>2 DEF SetPort0, SetPort1, Arm, Schedule, Resume, TimerExpires
  <2> QED  BY <2>1, <2>2 DEF ThreadStep
<1> SUFFICES ASSUME ~interrupted, NEW s \in Seg \ (lfd_active_bmp \cup overlapped)
             PROVE  PortsUpOrComing(s)'
  BY <1>0 DEF PortsInv
<1>1. UNCHANGED <<pc, cseg>>
  BY DEF ThreadStep, TestStop, TestActive, TestBit, UpdateSegment, SetPort0,
         SetPort1, Arm, Schedule, Resume, TimerExpires, ThreadOnly, callers
<1>2. PortsUpOrComing(s)
  BY DEF PortsInv
<1>3. CASE \E c \in Caller : BeforePort0(c, s)
  BY <1>1, <1>3 DEF PortsUpOrComing, BeforePort0
<1>4. CASE ~Updating(s)
  <2>1. up'[s] = up[s]
    BY <1>4 DEF ThreadStep, TestStop, TestActive, TestBit, UpdateSegment, SetPort0,
         SetPort1, Arm, Schedule, Resume, TimerExpires, Updating, TypeInv, TypeOK
  <2>2. ~Updating(s)'
    <3>1. CASE TestBit
      BY <3>1 DEF TestBit, NextSegment, Updating
    <3>2. CASE UpdateSegment
      BY <1>4, <3>2 DEF UpdateSegment, NextSegment, Updating
    <3>3. CASE SetPort0
      BY <1>4, <3>3 DEF SetPort0, Updating
    <3>4. CASE SetPort1
      BY <3>4 DEF SetPort1, NextSegment, Updating
    <3>5. CASE TestStop \/ TestActive \/ Arm \/ Schedule \/ Resume \/ TimerExpires
      BY <1>4, <3>5 DEF TestStop, TestActive, Arm, Schedule, Resume, TimerExpires,
                        Updating, thread
    <3> QED  BY <3>1, <3>2, <3>3, <3>4, <3>5 DEF ThreadStep
  <2> QED  BY <1>1, <1>2, <2>1, <2>2
           DEF PortsUpOrComing, PortsUp, BeforePort0, BeforePort1
<1> QED  BY <1>2, <1>3, <1>4 DEF PortsUpOrComing

\* A step of c that keeps the segments c is on the way for.
LEMMA PortsFrame ==
  ASSUME TypeInv, PortsInv, NEW c \in Caller, NEW l, pc' = [pc EXCEPT ![c] = l],
         UNCHANGED <<thread, up, overlapped, cseg>>,
         interrupted => interrupted', lfd_active_bmp' = lfd_active_bmp,
         pc[c] # "stop1",
         pc[c] \in {"stop_down", "scan", "stop_wake", "stop0"} =>
           interrupted' \/ l \in {"stop_down", "scan", "stop_wake", "stop0"}
  PROVE  PortsInv'
<1>1. pc'[c] = l /\ \A d \in Caller : d # c => pc'[d] = pc[d]
  BY DEF TypeInv, TypeOK
<1> SUFFICES ASSUME ~interrupted', NEW s \in Seg \ (lfd_active_bmp \cup overlapped)
             PROVE  PortsUpOrComing(s)'
  BY DEF PortsInv
<1>2. PortsUpOrComing(s)
  BY DEF PortsInv
<1>3. \A d \in Caller : /\ BeforePort0(d, s) => BeforePort0(d, s)'
                        /\ BeforePort1(d, s) => BeforePort1(d, s)'
  BY <1>1 DEF BeforePort0, BeforePort1
<1> QED  BY <1>2, <1>3 DEF PortsUpOrComing, PortsUp, Updating, thread

LEMMA PortsStep == TypeInv /\ PortsInv /\ [Next]_vars => PortsInv'
<1> SUFFICES ASSUME TypeInv, PortsInv, [Next]_vars PROVE PortsInv'
  OBVIOUS
<1> USE DEF Goto, CallerOnly, history
<1>1. CASE ThreadStep
  BY <1>1, PortsThread
<1>2. ASSUME NEW c \in Caller, Start(c) \/ Stop(c) PROVE PortsInv'
  <2> SUFFICES ASSUME ~interrupted',
                      NEW s \in Seg \ (lfd_active_bmp' \cup overlapped')
               PROVE  PortsUpOrComing(s)'
    BY DEF PortsInv
  <2>1. /\ UNCHANGED <<up, thread, overlapped, interrupted>> /\ pc[c] = "idle"
        /\ \E t \in Seg :
             /\ cseg' = [cseg EXCEPT ![c] = t]
             /\ \/ lfd_active_bmp' = lfd_active_bmp \cup {t}
                \/ /\ lfd_active_bmp' = lfd_active_bmp \ {t}
                   /\ pc' = [pc EXCEPT ![c] = "stop_down"]
        /\ \E l : pc' = [pc EXCEPT ![c] = l]
    BY <1>2 DEF Start, Stop, MayCall, TypeInv, TypeOK
  <2>2. \A d \in Caller : d # c => pc'[d] = pc[d] /\ cseg'[d] = cseg[d]
    BY <2>1 DEF TypeInv, TypeOK
  <2>3. CASE s \in lfd_active_bmp
    <3>1. cseg'[c] = s /\ pc'[c] = "stop_down"
      BY <2>1, <2>3 DEF TypeInv, TypeOK
    <3> QED  BY <3>1 DEF PortsUpOrComing, BeforePort0
  <2>4. CASE s \notin lfd_active_bmp
    <3>1. PortsUpOrComing(s)
      BY <2>1, <2>4 DEF PortsInv
    <3>2. \A d \in Caller : /\ BeforePort0(d, s) => BeforePort0(d, s)'
                            /\ BeforePort1(d, s) => BeforePort1(d, s)'
      BY <2>1, <2>2 DEF BeforePort0, BeforePort1
    <3> QED  BY <2>1, <3>1, <3>2 DEF PortsUpOrComing, PortsUp, Updating, thread
  <2> QED  BY <2>3, <2>4
<1>3. ASSUME NEW c \in Caller, Down(c) \/ Interrupted(c) PROVE PortsInv'
  <2>1. /\ UNCHANGED <<thread, up, overlapped, cseg, lfd_active_bmp>>
        /\ pc[c] \in {"start_down", "stop_down"} /\ (interrupted => interrupted')
        /\ \E l : /\ pc' = [pc EXCEPT ![c] = l]
                  /\ pc[c] = "stop_down" => interrupted' \/ l \in {"scan", "stop0"}
    BY <1>3 DEF Down, Interrupted
  <2> QED  BY <2>1, PortsFrame
<1>4. ASSUME NEW c \in Caller, ScanBits(c) \/ StopWake(c) PROVE PortsInv'
  <2>1. /\ UNCHANGED <<thread, up, overlapped, cseg, lfd_active_bmp, interrupted>>
        /\ pc[c] \in {"scan", "stop_wake"}
        /\ \E l \in {"scan", "stop0", "stop_wake"} : pc' = [pc EXCEPT ![c] = l]
    <3>1. pc[c] = "scan" => [pc EXCEPT ![c] = "scan"] = pc
      BY DEF TypeInv, TypeOK
    <3> QED  BY <1>4, <3>1 DEF ScanBits, StopWake
  <2> QED  BY <2>1, PortsFrame
<1>5. ASSUME NEW c \in Caller, Activate(c) \/ StartWake(c) \/ Reset(c)
      PROVE  PortsInv'
  <2>1. /\ UNCHANGED <<thread, up, overlapped, cseg, lfd_active_bmp, interrupted>>
        /\ pc[c] \in {"activate", "wake", "reset"}
        /\ \E l : pc' = [pc EXCEPT ![c] = l]
    BY <1>5 DEF Activate, StartWake, Reset
  <2> QED  BY <2>1, PortsFrame
<1>6. ASSUME NEW c \in Caller, StopPort0(c) PROVE PortsInv'
  <2> SUFFICES ASSUME ~interrupted',
                      NEW s \in Seg \ (lfd_active_bmp' \cup overlapped')
               PROVE  PortsUpOrComing(s)'
    BY DEF PortsInv
  <2>1. /\ UNCHANGED <<lfd_active_bmp, thread, cseg, interrupted>>
        /\ pc'[c] = "stop1" /\ pc[c] = "stop0"
        /\ \A d \in Caller : d # c => pc'[d] = pc[d]
        /\ up' = [up EXCEPT ![cseg[c]][0] = TRUE]
    BY <1>6 DEF StopPort0, TypeInv, TypeOK
  <2>2. CASE s = cseg[c]
    <3>1. up'[s][0]
      BY <2>1, <2>2 DEF TypeInv, TypeOK, Port
    <3>2. ~Updating(s)
      BY <1>6, <2>2 DEF StopPort0
    <3> QED  BY <2>1, <2>2, <3>1, <3>2
             DEF PortsUpOrComing, BeforePort1, Updating, thread
  <2>3. CASE s # cseg[c]
    <3>1. PortsUpOrComing(s)
      BY <1>6, <2>1, <2>3 DEF StopPort0, PortsInv
    <3>2. up'[s] = up[s]
      BY <2>1, <2>3 DEF TypeInv, TypeOK
    <3>3. \A d \in Caller : /\ BeforePort0(d, s) => BeforePort0(d, s)'
                            /\ BeforePort1(d, s) => BeforePort1(d, s)'
      BY <2>1, <2>3 DEF BeforePort0, BeforePort1
    <3> QED  BY <2>1, <3>1, <3>2, <3>3 DEF PortsUpOrComing, PortsUp, Updating, thread
  <2> QED  BY <2>2, <2>3
<1>7. ASSUME NEW c \in Caller, StopPort1(c) PROVE PortsInv'
  <2> SUFFICES ASSUME ~interrupted, NEW s \in Seg \ (lfd_active_bmp \cup overlapped)
               PROVE  PortsUpOrComing(s)'
    BY <1>7 DEF PortsInv, StopPort1
  <2>1. /\ UNCHANGED <<thread, cseg>>
        /\ pc'[c] = "idle" /\ pc[c] = "stop1"
        /\ \A d \in Caller : d # c => pc'[d] = pc[d] /\ pc[d] # "stop1"
        /\ up' = [up EXCEPT ![cseg[c]][1] = TRUE]
    BY <1>7 DEF StopPort1, TypeInv, TypeOK, Exclusion, Holds, Inside
  <2>2. PortsUpOrComing(s)
    BY DEF PortsInv
  <2>3. \A d \in Caller : BeforePort0(d, s) => BeforePort0(d, s)'
    BY <2>1 DEF BeforePort0
  <2>4. up'[s][0] = up[s][0] /\ (cseg[c] = s \/ up[s][1] => up'[s][1])
    BY <2>1 DEF TypeInv, TypeOK, Port
  <2>5. \A d \in Caller : BeforePort1(d, s) => cseg[c] = s
    BY <2>1 DEF BeforePort1
  <2>6. Updating(s)' <=> Updating(s)
    BY <2>1 DEF Updating, thread
  <2>7. CASE PortsUp(s) \/ (up[s][0] /\ \E d \in Caller : BeforePort1(d, s))
    <3>1. PortsUp(s)'
      BY <2>4, <2>5, <2>7 DEF PortsUp
    <3> QED  BY <2>2, <2>3, <2>6, <3>1 DEF PortsUpOrComing
  <2> QED  BY <2>2, <2>3, <2>7 DEF PortsUpOrComing
<1>8. CASE UnloadOnlySteps
  BY <1>8 DEF UnloadOnlySteps, BeginUnload, Deinit, kthread_stop, Unloaded,
     UnloadOnly, thread, callers, PortsInv, PortsUpOrComing, BeforePort0,
     BeforePort1, PortsUp, Updating
<1>9. CASE UNCHANGED vars
  BY <1>9 DEF vars, thread, callers, PortsInv, PortsUpOrComing, BeforePort0,
     BeforePort1, PortsUp, Updating
<1> QED  BY <1>1, <1>2, <1>3, <1>4, <1>5, <1>6, <1>7, <1>8, <1>9
         DEF Next, CallerStep, UnloadOnlySteps

\* Once the starts and stops are through, a segment without LFD has both ports
\* up, whatever state its LFD was in; except when lfd_stop came in the middle
\* of an update, or was interrupted by a signal.
THEOREM StopLeavesPortsUp == Spec => []StoppedPortsUpUnlessOverlapped
<1>1. Init => PortsInv
  <2>1. Init => \A s \in Seg : PortsUp(s) /\ ~Updating(s)
    BY DEF Init, PortsUp, Updating, Port
  <2> QED  BY <2>1 DEF PortsInv, PortsUpOrComing
<1>2. PortsInv => StoppedPortsUpUnlessOverlapped
  BY DEF PortsInv, PortsUpOrComing, BeforePort0, BeforePort1,
         StoppedPortsUpUnlessOverlapped, Settled, Quiet
<1> QED  BY <1>1, <1>2, PortsStep, TypeInvariant, PTL DEF Spec
=============================================================================
