------------------------------ MODULE LfdLink ------------------------------
(***************************************************************************)
(* Link fault detection of one segment over time: the thread looks at the  *)
(* segment once in a period (module/lfd.c), the ports follow what it sets, *)
(* and the carriers follow the ports and the cables.  A port that is up    *)
(* and has its cable finds its carrier within MaxLag periods; a carrier is *)
(* lost before the next look.  Attributes port0 and port1 set the ports    *)
(* meanwhile, and LFD does not look at what they did.  lfd_start and       *)
(* lfd_stop change the segment's bit first, and the rest when they have    *)
(* ctl_sem; the thread takes no lock and may look in between.  The callers *)
(* among themselves and the unload are the subject of Lfd.                 *)
(***************************************************************************)
EXTENDS LfdSegment

CONSTANT MaxLag   \* periods a link needs to come up, at most

\* A longer lag than one look after the last of a wait: the ports of a
\* repaired segment take each other down for ever.
ASSUME LagAssumption == MaxLag \in Nat /\ MaxLag <= LFD_MAX_CHECK_COUNT + 1

VARIABLES
  on,           \* the segment's bit of lfd_active_bmp
  lfd_active,   \* for this segment or for another one
  lfd_state, lfd_count,
  starting,     \* an lfd_start has set the bit and waits for ctl_sem
  stopping,     \* an lfd_stop has cleared it and waits for ctl_sem
  tested,       \* the thread tested the bit before that, and is to look yet
  up,           \* what the last port_set of either port asked for
  cable,        \* the link partner of either port is there
  carrier,      \* netif_carrier_ok of either port
  late,         \* periods a port that could have a carrier waits for it
  held,         \* ports that an attribute took down, until LFD sets them (history)
  raised,       \* an attribute or an lfd_stop brought up what lfd_state says
                \* is down (history)
  short,        \* lfd_count need not be full: no lfd_start has ever reset it,
                \* or a reset fell into a look, and no wait ended since (history)
  steady        \* periods since anything but the links changed, up to Settle

lfd  == <<on, lfd_active, lfd_state, lfd_count>>
calls == <<starting, stopping, tested>>
history == <<held, raised, short>>
vars == <<lfd, calls, up, cable, carrier, late, history, steady>>

\* Bound of steady, and the time the promises below take: a link that has to
\* come up before there is anything to see, a full wait in state 4, another
\* link, and the looks between them.
Settle == 2 * MaxLag + LFD_MAX_CHECK_COUNT + 4

Init ==
  /\ on = FALSE /\ lfd_active \in BOOLEAN
  /\ lfd_state = 0 /\ lfd_count = 0
  /\ starting = FALSE /\ stopping = FALSE /\ tested = FALSE
  /\ up = [p \in Port |-> TRUE]
  /\ cable \in [Port -> BOOLEAN] /\ carrier = cable
  /\ late = [p \in Port |-> 0] /\ steady = 0
  /\ held = {} /\ raised = FALSE /\ short = TRUE

\* A carrier goes with the port or the cable it needs.
Carriers(c) == [p \in Port |-> carrier[p] /\ c[p] /\ up'[p]]
Waiting(p)  == up[p] /\ cable[p] /\ ~carrier[p]

-----------------------------------------------------------------------------
(* The network: cables are plugged and unplugged, links come up. *)

Plug(p) ==
  /\ ~cable[p]
  /\ cable' = [cable EXCEPT ![p] = TRUE]
  /\ steady' = 0
  /\ UNCHANGED <<lfd, calls, up, carrier, late, history>>

Unplug(p) ==
  /\ cable[p]
  /\ cable' = [cable EXCEPT ![p] = FALSE]
  /\ UNCHANGED up /\ carrier' = Carriers(cable')
  /\ late' = [late EXCEPT ![p] = 0]
  /\ steady' = 0
  /\ UNCHANGED <<lfd, calls, history>>

LinkUp(p) ==
  /\ Waiting(p)
  /\ carrier' = [carrier EXCEPT ![p] = TRUE]
  /\ late' = [late EXCEPT ![p] = 0]
  /\ UNCHANGED <<lfd, calls, up, cable, history, steady>>

-----------------------------------------------------------------------------
(* The driver *)

\* lfd_start, the bit; one caller at a time is between it and the semaphore.
StartBit ==
  /\ ~on /\ ~starting
  /\ on' = TRUE /\ starting' = TRUE
  /\ steady' = 0
  /\ UNCHANGED <<lfd_active, lfd_state, lfd_count, stopping, tested, up, cable,
                 carrier, late, history>>

\* lfd_start with the semaphore.
lfd_start ==
  /\ starting
  /\ starting' = FALSE /\ lfd_active' = TRUE
  /\ lfd_state' = 0 /\ lfd_count' = LFD_MAX_CHECK_COUNT
  /\ raised' = FALSE /\ short' = FALSE
  /\ steady' = 0
  /\ UNCHANGED <<on, stopping, tested, up, cable, carrier, late, held>>

\* down_interruptible returned early: -EINTR.
StartInterrupted ==
  /\ starting
  /\ starting' = FALSE
  /\ steady' = 0
  /\ UNCHANGED <<lfd, stopping, tested, up, cable, carrier, late, history>>

\* lfd_stop, the bit; the thread may have found it set.
StopBit ==
  /\ on /\ ~stopping
  /\ on' = FALSE /\ stopping' = TRUE
  /\ tested' \in {tested, lfd_active}
  /\ steady' = 0
  /\ UNCHANGED <<lfd_active, lfd_state, lfd_count, starting, up, cable, carrier,
                 late, history>>

\* lfd_stop with the semaphore; LFD stays active if any bit is set.
lfd_stop ==
  /\ stopping
  /\ stopping' = FALSE
  /\ lfd_active' \in IF on THEN {lfd_active} ELSE {lfd_active, FALSE}
  /\ up' = [p \in Port |-> TRUE] /\ held' = {}
  /\ raised' = (raised \/ lfd_state \in {2, 3})
  /\ steady' = 0
  /\ UNCHANGED <<on, lfd_state, lfd_count, starting, tested, cable, carrier,
                 late, short>>

\* The same -EINTR: the ports stay as they are.
StopInterrupted ==
  /\ stopping
  /\ stopping' = FALSE
  /\ steady' = 0
  /\ UNCHANGED <<lfd, starting, tested, up, cable, carrier, late, history>>

\* Another segment is switched on, or this one whose reset follows, or another
\* one was the last that its lfd_stop found.
OtherSegments ==
  /\ lfd_active => ~on \/ starting
  /\ lfd_active' = ~lfd_active
  /\ steady' = 0
  /\ UNCHANGED <<on, lfd_state, lfd_count, calls, up, cable, carrier, late,
                 history>>

\* set_port0 and set_port1: nothing but a port_set.
set_port(p, value) ==
  /\ up' = [up EXCEPT ![p] = value]
  /\ carrier' = Carriers(cable)
  /\ late' = IF value THEN late ELSE [late EXCEPT ![p] = 0]
  /\ held' = IF value THEN held \ {p} ELSE held \cup {p}
  /\ raised' = (raised \/ (value /\ lfd_state = 3 - p))
  /\ steady' = 0
  /\ UNCHANGED <<lfd, calls, cable, short>>

\* What a look does; the segment is skipped when its bit is not set.
Scanned == (on /\ lfd_active) \/ tested
Look == IF Scanned THEN Update(lfd_state, lfd_count, carrier)
                   ELSE After(lfd_state, lfd_count, NoSet)

\* Mutant: the port_set calls that bring a port up are missing.
Pass_OnlyDown ==
  /\ \A p \in Port : Waiting(p) => late[p] < MaxLag
  /\ up' = IF Look.sets = NoSet THEN up
           ELSE [p \in Port |-> up[p] /\ Look.sets[p + 1]]
  /\ carrier' = Carriers(cable)
  /\ late' = [p \in Port |-> IF Waiting(p) /\ up'[p] THEN late[p] + 1 ELSE 0]
  /\ held' = IF Look.sets = NoSet THEN held ELSE {}
  /\ tested' = FALSE
  /\ UNCHANGED <<on, stopping, cable>>

\* A period of lfd_thread_func and what its look makes of the ports; no link
\* is later than MaxLag.
Pass ==
  /\ \A p \in Port : Waiting(p) => late[p] < MaxLag
  /\ up' = IF Look.sets = NoSet THEN up
           ELSE [p \in Port |-> Look.sets[p + 1]]
  /\ carrier' = Carriers(cable)
  /\ late' = [p \in Port |-> IF Waiting(p) /\ up'[p] THEN late[p] + 1 ELSE 0]
  /\ held' = IF Look.sets = NoSet THEN held ELSE {}
  /\ tested' = FALSE
  /\ UNCHANGED <<on, stopping, cable>>

\* The look comes to the end of a wait, which fills the count again.
WaitEnds == Scanned /\ lfd_state = 4 /\ Look.state # 4

Period ==
  /\ Pass
  /\ lfd_state' = Look.state /\ lfd_count' = Look.count
  /\ raised' = (raised /\ Look.sets = NoSet)
  /\ short' = (short /\ ~WaitEnds)
  /\ steady' = IF history' # history THEN 0
               ELSE IF steady < Settle THEN steady + 1 ELSE steady
  /\ UNCHANGED <<lfd_active, starting>>

\* What a look and the reset of lfd_start leave when their writes mix: either
\* one may come last for the state, if the look wrote it, and for the count,
\* if it was a wait; a count that was read before its reset, or after it, is
\* decremented.
MixedStates ==
  {0} \cup IF lfd_state = 4 /\ Look.state # 1 THEN {4}
           ELSE IF Look.state # lfd_state THEN {Look.state} ELSE {}
MixedCounts ==
  {LFD_MAX_CHECK_COUNT} \cup
  IF lfd_state = 4 /\ Look.state # 1
  THEN {Look.count} \cup ({LFD_MAX_CHECK_COUNT - 1} \cap Nat) ELSE {}

\* A period in which lfd_start resets the segment in the middle of its look.
PeriodWithReset ==
  /\ starting /\ Scanned
  /\ Pass
  /\ starting' = FALSE /\ lfd_active' = TRUE
  /\ lfd_state' \in MixedStates /\ lfd_count' \in MixedCounts
  /\ raised' = FALSE /\ short' = (lfd_state = 4)
  /\ steady' = 0

Next == \/ \E p \in Port : Plug(p) \/ Unplug(p) \/ LinkUp(p)
        \/ \E p \in Port, value \in BOOLEAN : set_port(p, value)
        \/ StartBit \/ lfd_start \/ StartInterrupted
        \/ StopBit \/ lfd_stop \/ StopInterrupted
        \/ OtherSegments \/ Period \/ PeriodWithReset

Spec == Init /\ [][Next]_vars

-----------------------------------------------------------------------------
TypeOK ==
  /\ on \in BOOLEAN /\ lfd_active \in BOOLEAN /\ lfd_state \in LfdState
  /\ lfd_count \in 0..LFD_MAX_CHECK_COUNT
  /\ starting \in BOOLEAN /\ stopping \in BOOLEAN /\ tested \in BOOLEAN
  /\ up \in [Port -> BOOLEAN] /\ cable \in [Port -> BOOLEAN]
  /\ carrier \in [Port -> BOOLEAN]
  /\ late \in [Port -> 0..MaxLag] /\ steady \in 0..Settle
  /\ held \subseteq Port /\ raised \in BOOLEAN /\ short \in BOOLEAN

\* A segment that enters state 4 waits there for as long as the code says,
\* whatever interrupted an earlier wait: the count is full outside state 4.
\* Excepted until the next wait ends are a segment that lfd_start has never
\* got to reset, and one whose reset fell into the thread's look at a wait.
WaitsAreFull == ~short /\ lfd_state # 4 => lfd_count = LFD_MAX_CHECK_COUNT

\* LFD isolates a segment by one port, never by both: one port is left to
\* notice that its link is back.  Calls cut short, and looks that come after
\* an lfd_stop or mix with an lfd_start, do not make it worse.  Only a port
\* that an attribute took down is answered by taking down the other.
OnePortStaysUp == held = {} => \E p \in Port : up[p]

\* The companion of a failed port is brought down, and stays down for as
\* long as the fault lasts (README, attribute lfd), while LFD is active and
\* no attribute holds a port down.  Excepted is a companion that an attribute
\* brought up again, or an lfd_stop without a complete lfd_start after it:
\* lfd_state still says that it is down, ...
Failed(p) ==
  on /\ lfd_active /\ ~cable[p] /\ cable[1 - p] /\ held = {} /\ ~raised
FaultPropagates ==
  steady = Settle => \A p \in Port : Failed(p) => ~up[1 - p]

\* ... and a segment whose cables are both back works again, whatever
\* attributes did to the ports, if they do not hold one down, and whatever
\* lfd_stop and lfd_start left when signals interrupted them: the ports do not
\* take each other down for ever.
Repaired == on /\ lfd_active /\ held = {} /\ \A p \in Port : cable[p]
RepairCompletes ==
  steady = Settle /\ Repaired =>
    lfd_state = 1 /\ \A p \in Port : up[p] /\ carrier[p]
=============================================================================
