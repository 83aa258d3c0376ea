-------------------------------- MODULE Lfd --------------------------------
(***************************************************************************)
(* module/lfd.c: the link fault detection thread, the callers that switch  *)
(* LFD of a segment on and off through attribute "lfd", and the unload of  *)
(* the module.  The callers exclude each other by ctl_sem; the thread      *)
(* takes no lock, it reads lfd_active and lfd_active_bmp as they are.      *)
(***************************************************************************)
EXTENDS LfdSegment

CONSTANTS Ctl,         \* threads that write attribute "lfd"
          Rmmod,       \* the thread that unloads the module
          NSeg,        \* segments of all cards, in the order of the scans
          MaxSignals   \* bound: signals that interrupt a wait for ctl_sem

ASSUME LfdAssumption == /\ Rmmod \notin Ctl
                        /\ NSeg \in Nat \ {0} /\ MaxSignals \in Nat

Seg == 1..NSeg
Caller == Ctl \cup {Rmmod}

VARIABLES
  lfd_active_bmp, lfd_active, lfd_state, lfd_count, ctl_sem,
  up,                      \* up[s][i]: what the last port_set left
  tpc, seg, sets,          \* the thread: control, segment, port_set calls due
  task, should_stop,       \* its task state and kthread_should_stop()
  pc, cseg, scan, avail,   \* the callers: control, segment, lfd_stop's loop
  unload,                  \* "no", "stopping", "deinit", "kthread_stop", "done"
  signals,
  overlapped,              \* segments stopped in the middle of an update, and
                           \* not settled since (history)
  interrupted              \* a wait for ctl_sem returned -EINTR (history)

thread   == <<tpc, seg, sets>>
segments == <<lfd_state, lfd_count>>
callers  == <<pc, cseg, scan, avail>>
history  == <<overlapped, interrupted>>
vars == <<lfd_active_bmp, lfd_active, segments, ctl_sem, up, thread, task,
          should_stop, callers, unload, signals, history>>

Init ==
  /\ lfd_active_bmp = {} /\ lfd_active = FALSE /\ ctl_sem = 1
  /\ lfd_state = [s \in Seg |-> 0] /\ lfd_count = [s \in Seg |-> 0]
  /\ up = [s \in Seg |-> [i \in Port |-> TRUE]]
  /\ tpc = "test" /\ seg = 1 /\ sets = NoSet
  /\ task = "running" /\ should_stop = FALSE
  /\ pc = [c \in Caller |-> "idle"] /\ cseg = [c \in Caller |-> 1]
  /\ scan = [c \in Caller |-> 1] /\ avail = [c \in Caller |-> FALSE]
  /\ unload = "no" /\ signals = MaxSignals
  /\ overlapped = {} /\ interrupted = FALSE

-----------------------------------------------------------------------------
(* lfd_thread_func, lfd_update_active and lfd_update_segment *)

ThreadOnly == UNCHANGED <<lfd_active_bmp, lfd_active, ctl_sem, should_stop,
                          callers, unload, signals, interrupted>>

TestStop ==
  /\ tpc = "test"
  /\ tpc' = IF should_stop THEN "exited" ELSE "active"
  /\ UNCHANGED <<segments, up, seg, sets, task, overlapped>> /\ ThreadOnly

TestActive ==
  /\ tpc = "active"
  /\ tpc' = IF lfd_active THEN "scan" ELSE "arm"
  /\ UNCHANGED <<segments, up, seg, sets, task, overlapped>> /\ ThreadOnly

NextSegment == IF seg = NSeg THEN tpc' = "arm" /\ seg' = 1
                             ELSE tpc' = "scan" /\ seg' = seg + 1

TestBit ==
  /\ tpc = "scan"
  /\ IF seg \in lfd_active_bmp THEN tpc' = "update" /\ UNCHANGED seg
                               ELSE NextSegment
  /\ UNCHANGED <<segments, up, sets, task, overlapped>> /\ ThreadOnly

\* port_get of either port is what the network device says at that moment.
UpdateSegment ==
  /\ tpc = "update"
  /\ \E carrier \in [Port -> BOOLEAN] :
       LET u == Update(lfd_state[seg], lfd_count[seg], carrier)
       IN  /\ lfd_state' = [lfd_state EXCEPT ![seg] = u.state]
           /\ lfd_count' = [lfd_count EXCEPT ![seg] = u.count]
           /\ sets' = u.sets
           /\ IF u.sets = NoSet THEN NextSegment
                                ELSE tpc' = "set0" /\ UNCHANGED seg
  /\ UNCHANGED <<up, task, overlapped>> /\ ThreadOnly

SetPort0 ==
  /\ tpc = "set0"
  /\ up' = [up EXCEPT ![seg][0] = sets[1]]
  /\ tpc' = "set1"
  /\ UNCHANGED <<segments, seg, sets, task, overlapped>> /\ ThreadOnly

SetPort1 ==
  /\ tpc = "set1"
  /\ up' = [up EXCEPT ![seg][1] = sets[2]]
  /\ NextSegment
  /\ sets' = NoSet
  /\ UNCHANGED <<segments, task, overlapped>> /\ ThreadOnly

Arm ==
  /\ tpc = "arm"
  /\ task' = "interruptible"
  /\ tpc' = "armed"
  /\ UNCHANGED <<segments, up, seg, sets, overlapped>> /\ ThreadOnly

\* The second test of lfd_active chooses schedule_timeout or schedule.
Schedule ==
  /\ tpc = "armed"
  /\ tpc' = IF lfd_active THEN "schedule_timeout" ELSE "schedule"
  /\ UNCHANGED <<segments, up, seg, sets, task, overlapped>> /\ ThreadOnly

\* The scheduler resumes a task that was made running again.
Resume ==
  /\ tpc \in {"schedule", "schedule_timeout"}
  /\ task = "running"
  /\ tpc' = "test"
  /\ UNCHANGED <<segments, up, seg, sets, task, overlapped>> /\ ThreadOnly

TimerExpires ==
  /\ tpc = "schedule_timeout"
  /\ task' = "running"
  /\ UNCHANGED <<segments, up, thread, overlapped>> /\ ThreadOnly

-----------------------------------------------------------------------------
(* lfd_start and lfd_stop *)

CallerOnly == UNCHANGED <<thread, should_stop, unload>>
Goto(c, l) == pc' = [pc EXCEPT ![c] = l]
wake_up_process == task' = "running"

MayCall(c) == pc[c] = "idle" /\ (IF c = Rmmod THEN unload = "stopping"
                                              ELSE unload = "no")

\* test_and_set_bit: the bit is set before the semaphore is taken.
Start(c) ==
  /\ MayCall(c) /\ c \in Ctl
  /\ \E s \in Seg \ lfd_active_bmp :
       /\ lfd_active_bmp' = lfd_active_bmp \cup {s}
       /\ cseg' = [cseg EXCEPT ![c] = s]
  /\ Goto(c, "start_down")
  /\ UNCHANGED <<lfd_active, segments, ctl_sem, up, task, scan, avail,
                 signals, history>> /\ CallerOnly

Stop(c) ==
  /\ MayCall(c)
  /\ \E s \in lfd_active_bmp :
       /\ lfd_active_bmp' = lfd_active_bmp \ {s}
       /\ cseg' = [cseg EXCEPT ![c] = s]
  /\ Goto(c, "stop_down")
  /\ UNCHANGED <<lfd_active, segments, ctl_sem, up, task, scan, avail,
                 signals, history>> /\ CallerOnly

\* Mutant: the semaphore is not waited for.
Down_NoWait(c) ==
  /\ pc[c] \in {"start_down", "stop_down"}
  /\ Goto(c, IF pc[c] = "start_down" THEN "activate"
             ELSE IF lfd_active THEN "scan" ELSE "stop0")
  /\ UNCHANGED <<lfd_active_bmp, lfd_active, segments, ctl_sem, up, task, cseg,
                 scan, avail, signals, history>> /\ CallerOnly

Down(c) ==
  /\ pc[c] \in {"start_down", "stop_down"}
  /\ ctl_sem > 0
  /\ ctl_sem' = ctl_sem - 1
  /\ Goto(c, IF pc[c] = "start_down" THEN "activate"
             ELSE IF lfd_active THEN "scan" ELSE "stop0")
  /\ UNCHANGED <<lfd_active_bmp, lfd_active, segments, up, task, cseg, scan,
                 avail, signals, history>> /\ CallerOnly

\* Mutant: the error path gives back a semaphore it does not have.
Interrupted_Ups(c) ==
  /\ pc[c] \in {"start_down", "stop_down"}
  /\ ctl_sem = 0
  /\ signals > 0
  /\ signals' = signals - 1
  /\ interrupted' = TRUE
  /\ ctl_sem' = ctl_sem + 1
  /\ Goto(c, "idle")
  /\ UNCHANGED <<lfd_active_bmp, lfd_active, segments, up, task, cseg, scan,
                 avail, overlapped>> /\ CallerOnly

\* down_interruptible had to wait and a signal arrived; set_lfd ignores -EINTR.
Interrupted(c) ==
  /\ pc[c] \in {"start_down", "stop_down"}
  /\ ctl_sem = 0
  /\ signals > 0
  /\ signals' = signals - 1
  /\ interrupted' = TRUE
  /\ Goto(c, "idle")
  /\ UNCHANGED <<lfd_active_bmp, lfd_active, segments, ctl_sem, up, task, cseg,
                 scan, avail, overlapped>> /\ CallerOnly

Activate(c) ==
  /\ pc[c] = "activate"
  /\ lfd_active' = TRUE
  /\ Goto(c, IF lfd_active THEN "reset" ELSE "wake")
  /\ UNCHANGED <<lfd_active_bmp, segments, ctl_sem, up, task, cseg, scan, avail,
                 signals, history>> /\ CallerOnly

\* Mutant: nobody wakes the thread.
StartWake_None(c) ==
  /\ pc[c] = "wake"
  /\ Goto(c, "reset")
  /\ UNCHANGED <<lfd_active_bmp, lfd_active, segments, ctl_sem, up, task, cseg,
                 scan, avail, signals, history>> /\ CallerOnly

StartWake(c) ==
  /\ pc[c] = "wake"
  /\ wake_up_process
  /\ Goto(c, "reset")
  /\ UNCHANGED <<lfd_active_bmp, lfd_active, segments, ctl_sem, up, cseg, scan,
                 avail, signals, history>> /\ CallerOnly

Reset(c) ==
  /\ pc[c] = "reset"
  /\ lfd_state' = [lfd_state EXCEPT ![cseg[c]] = 0]
  /\ lfd_count' = [lfd_count EXCEPT ![cseg[c]] = LFD_MAX_CHECK_COUNT]
  /\ ctl_sem' = ctl_sem + 1
  /\ Goto(c, "idle")
  /\ UNCHANGED <<lfd_active_bmp, lfd_active, up, task, cseg, scan, avail,
                 signals, history>> /\ CallerOnly

\* One word of the bitmap is read; after the last one LFD may be switched off.
ScanBits(c) ==
  /\ pc[c] = "scan"
  /\ LET found == avail[c] \/ scan[c] \in lfd_active_bmp IN
       IF scan[c] < NSeg
       THEN /\ scan' = [scan EXCEPT ![c] = @ + 1]
            /\ avail' = [avail EXCEPT ![c] = found]
            /\ UNCHANGED <<pc, lfd_active>>
       ELSE /\ IF found THEN Goto(c, "stop0") /\ UNCHANGED lfd_active
                        ELSE Goto(c, "stop_wake") /\ lfd_active' = FALSE
            /\ scan' = [scan EXCEPT ![c] = 1]
            /\ avail' = [avail EXCEPT ![c] = FALSE]
  /\ UNCHANGED <<lfd_active_bmp, segments, ctl_sem, up, task, cseg, signals,
                 history>> /\ CallerOnly

StopWake(c) ==
  /\ pc[c] = "stop_wake"
  /\ wake_up_process
  /\ Goto(c, "stop0")
  /\ UNCHANGED <<lfd_active_bmp, lfd_active, segments, ctl_sem, up, cseg, scan,
                 avail, signals, history>> /\ CallerOnly

\* The thread is past its test of the segment's bit, up to its last port_set.
Updating(s) == tpc \in {"update", "set0", "set1"} /\ seg = s

\* Mutant: the ports are only brought up while LFD is active.
StopPort0_IfActive(c) ==
  /\ pc[c] = "stop0"
  /\ up' = IF lfd_active THEN [up EXCEPT ![cseg[c]][0] = TRUE] ELSE up
  /\ overlapped' = IF Updating(cseg[c]) THEN overlapped \cup {cseg[c]}
                                        ELSE overlapped \ {cseg[c]}
  /\ Goto(c, "stop1")
  /\ UNCHANGED <<lfd_active_bmp, lfd_active, segments, ctl_sem, task, cseg,
                 scan, avail, signals, interrupted>> /\ CallerOnly

StopPort0(c) ==
  /\ pc[c] = "stop0"
  /\ up' = [up EXCEPT ![cseg[c]][0] = TRUE]
  /\ overlapped' = IF Updating(cseg[c]) THEN overlapped \cup {cseg[c]}
                                        ELSE overlapped \ {cseg[c]}
  /\ Goto(c, "stop1")
  /\ UNCHANGED <<lfd_active_bmp, lfd_active, segments, ctl_sem, task, cseg,
                 scan, avail, signals, interrupted>> /\ CallerOnly

StopPort1(c) ==
  /\ pc[c] = "stop1"
  /\ up' = [up EXCEPT ![cseg[c]][1] = TRUE]
  /\ ctl_sem' = ctl_sem + 1
  /\ Goto(c, "idle")
  /\ UNCHANGED <<lfd_active_bmp, lfd_active, segments, task, cseg, scan, avail,
                 signals, history>> /\ CallerOnly

-----------------------------------------------------------------------------
(* niagara_destroy and lfd_deinit.  The attributes are gone by then: no     *)
(* other caller is inside lfd_start or lfd_stop, and none will be.          *)

UnloadOnly == UNCHANGED <<lfd_active_bmp, segments, ctl_sem, up, thread,
                          callers, signals, history>>

BeginUnload ==
  /\ unload = "no" /\ \A c \in Ctl : pc[c] = "idle"
  /\ unload' = "stopping"
  /\ UNCHANGED <<lfd_active, task, should_stop>> /\ UnloadOnly

\* Every segment's LFD is off: lfd_deinit takes and gives back the semaphore.
Deinit ==
  /\ unload = "stopping" /\ pc[Rmmod] = "idle" /\ lfd_active_bmp = {}
  /\ ctl_sem > 0
  /\ lfd_active' = FALSE
  /\ unload' = "deinit"
  /\ UNCHANGED <<task, should_stop>> /\ UnloadOnly

kthread_stop ==
  /\ unload = "deinit"
  /\ should_stop' = TRUE
  /\ wake_up_process
  /\ unload' = "kthread_stop"
  /\ UNCHANGED lfd_active /\ UnloadOnly

Unloaded ==
  /\ unload = "kthread_stop" /\ tpc = "exited"
  /\ unload' = "done"
  /\ UNCHANGED <<lfd_active, task, should_stop>> /\ UnloadOnly

-----------------------------------------------------------------------------
ThreadStep == \/ TestStop \/ TestActive \/ TestBit \/ UpdateSegment
              \/ SetPort0 \/ SetPort1 \/ Arm \/ Schedule \/ Resume
              \/ TimerExpires

CallerStep(c) == \/ Down(c) \/ Activate(c) \/ StartWake(c) \/ Reset(c)
                 \/ ScanBits(c) \/ StopWake(c) \/ StopPort0(c) \/ StopPort1(c)

UnloadStep == Deinit \/ kthread_stop \/ Unloaded \/ Stop(Rmmod)

Next == \/ ThreadStep
        \/ \E c \in Caller : Start(c) \/ Stop(c) \/ Interrupted(c) \/ CallerStep(c)
        \/ BeginUnload \/ Deinit \/ kthread_stop \/ Unloaded

Spec == Init /\ [][Next]_vars

\* The scheduler runs every thread that can run, and timers expire.
FairSpec == /\ Spec /\ WF_vars(ThreadStep) /\ WF_vars(UnloadStep)
            /\ \A c \in Caller : WF_vars(CallerStep(c))

-----------------------------------------------------------------------------
TypeOK ==
  /\ lfd_active_bmp \subseteq Seg /\ lfd_active \in BOOLEAN
  /\ lfd_state \in [Seg -> LfdState] /\ lfd_count \in [Seg -> Nat]
  /\ ctl_sem \in {0, 1}
  /\ up \in [Seg -> [Port -> BOOLEAN]]
  /\ tpc \in {"test", "active", "scan", "update", "set0", "set1", "arm",
              "armed", "schedule", "schedule_timeout", "exited"}
  /\ seg \in Seg /\ sets \in {NoSet} \cup (BOOLEAN \X BOOLEAN)
  /\ task \in {"running", "interruptible"} /\ should_stop \in BOOLEAN
  /\ pc \in [Caller -> {"idle", "start_down", "stop_down", "activate", "wake",
                        "reset", "scan", "stop_wake", "stop0", "stop1"}]
  /\ cseg \in [Caller -> Seg] /\ scan \in [Caller -> Seg]
  /\ avail \in [Caller -> BOOLEAN]
  /\ unload \in {"no", "stopping", "deinit", "kthread_stop", "done"}
  /\ signals \in Nat
  /\ overlapped \subseteq Seg /\ interrupted \in BOOLEAN

Quiet == \A c \in Caller : pc[c] = "idle"

\* LFD is on as long as a segment wants it: whatever starts and stops of
\* different segments overlap, a stop never switches the thread off for a
\* segment whose start has finished.  A start that a signal interrupts leaves
\* its bit behind and is the exception.
ActiveCoversBits ==
  Quiet /\ unload = "no" /\ lfd_active_bmp # {} /\ ~interrupted => lfd_active

\* LFD switched off leaves both ports of the segment up, which is what
\* lfd_stop's last two calls are there for; except when the thread was in the
\* middle of updating the segment: it finishes its port_set calls after those.
PortsUp(s) == up[s][0] /\ up[s][1]
Settled(s) == Quiet /\ ~Updating(s) /\ s \notin lfd_active_bmp
StoppedPortsUpUnlessOverlapped ==
  \A s \in Seg : Settled(s) /\ ~interrupted /\ s \notin overlapped => PortsUp(s)

\* The thread does not sleep through an lfd_start: a segment whose bit is set
\* while LFD is active is looked at, or LFD of it is switched off again.  The
\* task state is set before lfd_active is tested, so no wake-up is lost.
StartedIsScanned ==
  \A s \in Seg : s \in lfd_active_bmp /\ lfd_active /\ unload = "no" ~>
                   Updating(s) \/ s \notin lfd_active_bmp \/ unload # "no"

\* kthread_stop returns: the module can be unloaded.
UnloadCompletes == unload # "no" ~> unload = "done"
=============================================================================
