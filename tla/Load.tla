-------------------------------- MODULE Load --------------------------------
(***************************************************************************)
(* Life of the module: niagara_init after the scan (PciScan), with         *)
(* sysfs_populate, procfs_create and lfd_init, then niagara_destroy; users *)
(* of the attribute files come as soon as a file is there.  What the       *)
(* attributes do is cut down to what depends on the order of these steps:  *)
(* "lfd" takes the semaphore and wakes the LFD thread, "port0" and "port1" *)
(* read a network device of an Intel driver.                               *)
(***************************************************************************)
EXTENDS PciScan

CONSTANTS User,
          MaxFaults,   \* kernel calls of niagara_init that fail
          MaxMoves     \* loads and unloads of Intel drivers

\* The word behind a proc file has four bits for the card.
ASSUME LoadAssumption == MAX_CARD <= 16 /\ MaxFaults \in Nat /\ MaxMoves \in Nat

Driver == {PciCards[k].driver : k \in Kind}
Entry == 0..(maxcard - 1)
Seg(i) == 0..(PciCards[cards[i].kind].num_ports \div 2 - 1)
DriverOf(i) == PciCards[cards[i].pci_dev[0][1]].driver

VARIABLES
  step, at,    \* where niagara_init or niagara_destroy is, for which card
  file,        \* the attribute files there are; segment -1: those of a card
  stray,       \* proc files that lie in /proc itself, or below a directory there
  sem, thread, lfd_active_bmp,
  bound, pins, \* Intel drivers that have their devices, and references to them
  going,       \* drivers that are being unloaded: try_module_get fails
  freed,       \* drivers that were unloaded, and their network devices with them
  user,        \* user[u]: the file u is in and what it does there
  crash,       \* somebody used what is not there
  faults, moves,
  escaped      \* drivers whose unload began before they were pinned, or after
               \* they were released (history)

loadvars == <<step, at, file, stray, sem, thread, lfd_active_bmp, bound, pins,
              going, freed, user, crash, faults, moves, escaped>>
drivers == <<bound, going, freed, moves, escaped>>
world == <<drivers, user, crash>>
lfdvars == <<sem, thread, lfd_active_bmp>>
kernel == <<lfdvars, pins, world>>

Raw == -1   \* a semaphore before sema_init
Out == [via |-> "none", card |-> 0, seg |-> 0, op |-> "none"]
Files(via, i, segs) == {[via |-> via, card |-> i, seg |-> j] : j \in segs}
Where(u) == [via |-> user[u].via, card |-> user[u].card, seg |-> user[u].seg]

LoadInit ==
  /\ Init
  /\ step = "region" /\ at = 0 /\ file = {} /\ stray = {}
  /\ sem = Raw /\ thread = "none" /\ lfd_active_bmp = {}
  /\ bound = Driver /\ pins = [d \in Driver |-> 0]
  /\ user = [u \in User |-> Out] /\ crash = FALSE
  /\ going = {} /\ freed = {}
  /\ faults = 0 /\ moves = 0 /\ escaped = {}

Running == phase = "found" /\ ~crash

\* One card after the other in loops of niagara_init and niagara_destroy.
Loop(next) == IF at + 1 < maxcard THEN at' = at + 1 /\ UNCHANGED step
                                  ELSE at' = 0 /\ step' = next

\* A kernel call fails: niagara_init returns its error, what it has
\* registered stays.
Fail == /\ faults < MaxFaults /\ faults' = faults + 1
        /\ step' = "failed" /\ UNCHANGED at

-----------------------------------------------------------------------------
(* niagara_init *)

Region == /\ Running /\ step = "region"
          /\ \/ step' = "device" /\ UNCHANGED <<at, faults>>
             \/ Fail
          /\ UNCHANGED <<scanvars, file, stray, kernel>>

Device == /\ Running /\ step = "device"
          /\ \/ step' = "card files" /\ UNCHANGED <<at, faults>>
             \/ Fail
          /\ UNCHANGED <<scanvars, file, stray, kernel>>

\* The memory images, the driver's and the card's attributes, with cpld_debug
\* the CPLD's registers.
CardFiles ==
  /\ Running /\ step = "card files"
  /\ \/ /\ step' = "segments" /\ UNCHANGED <<at, faults>>
        /\ file' = file \cup Files("sysfs", at, {-1})
     \/ /\ Fail /\ file' \in {file, file \cup Files("sysfs", at, {-1})}
  /\ UNCHANGED <<scanvars, stray, kernel>>

\* The next segment's directory and its links to the network devices; after
\* the last one the link to the card.
SegmentFiles ==
  LET j == Cardinality({f \in file : f.via = "sysfs" /\ f.card = at}) - 1
      more == Files("sysfs", at, {j} \cap Seg(at))
  IN  /\ Running /\ step = "segments"
      /\ \/ /\ file' = file \cup more /\ UNCHANGED faults
            /\ IF more # {} THEN UNCHANGED <<step, at>>
               ELSE IF at + 1 < maxcard THEN at' = at + 1 /\ step' = "device"
                    ELSE at' = 0 /\ step' = "procfs"
         \/ Fail /\ file' \in {file, file \cup more}
      /\ UNCHANGED <<scanvars, stray, kernel>>

ProcOf(i) == Files("proc", i, Seg(i) \cup {-1})

\* What strays when one proc_mkdir of a card fails: the files of a segment, of
\* the card, or, with niagara_root before the first card, all of them.
Strays(i) == {Files("proc", i, {j}) : j \in Seg(i)} \cup {ProcOf(i)}
             \cup IF i = 0 THEN {UNION {ProcOf(k) : k \in Entry}} ELSE {}

\* One card of procfs_create.  The results of proc_mkdir are not looked at:
\* NULL means /proc itself.
ProcFiles ==
  /\ Running /\ step = "procfs"
  /\ file' = file \cup ProcOf(at)
  /\ \/ UNCHANGED <<stray, faults>>
     \/ /\ faults < MaxFaults /\ faults' = faults + 1
        /\ \E more \in Strays(at) : stray' = stray \cup more
  /\ Loop("pin")
  /\ UNCHANGED <<scanvars, kernel>>

\* Mutant: try_module_get is left out.
Pin_None ==
  /\ Running /\ step = "pin" /\ Loop("sema")
  /\ UNCHANGED <<scanvars, file, stray, lfdvars, world, pins, faults>>

\* The driver's device tells whether it is there; the result of try_module_get
\* is not looked at.
Pin ==
  /\ Running /\ step = "pin"
  /\ pins' = IF DriverOf(at) \in bound \ going THEN [pins EXCEPT ![DriverOf(at)] = @ + 1]
             ELSE pins
  /\ Loop("sema")
  /\ UNCHANGED <<scanvars, file, stray, lfdvars, world, faults>>

SemaInit ==
  /\ Running /\ step = "sema" /\ sem' = 0 /\ step' = "thread"
  /\ UNCHANGED <<scanvars, at, file, stray, thread, lfd_active_bmp, pins, world,
                 faults>>

\* The result of kthread_run is not looked at.
CreateThread ==
  /\ Running /\ step = "thread" /\ step' = "up"
  /\ \/ thread' = "running" /\ UNCHANGED faults
     \/ thread' = "error" /\ faults < MaxFaults /\ faults' = faults + 1
  /\ UNCHANGED <<scanvars, at, file, stray, sem, lfd_active_bmp, pins, world>>

\* Mutant: the semaphore is left at zero.
Up_None ==
  /\ Running /\ step = "up" /\ step' = "live" /\ sem' = 0
  /\ UNCHANGED <<scanvars, at, file, stray, thread, lfd_active_bmp, pins, world,
                 faults>>

Up ==
  /\ Running /\ step = "up" /\ step' = "live" /\ sem' = 1
  /\ UNCHANGED <<scanvars, at, file, stray, thread, lfd_active_bmp, pins, world,
                 faults>>

Loading == \/ Region \/ Device \/ CardFiles \/ SegmentFiles \/ ProcFiles
           \/ Pin \/ SemaInit \/ CreateThread \/ Up

-----------------------------------------------------------------------------
(* Attribute files *)

\* Mutant: the segment's bit overlaps the card's.
Pack_Overlap(i, j) == i * 4 + j * 32

\* The word behind a proc file: the card from bit 2, the segment from bit 6.
Pack(i, j) == i * 4 + j * 64

\* Four bits of card and one of segment come back out.
Unpack(w) == <<(w \div 4) % 16, (w \div 64) % 2>>

\* What a file's read or write is about.  NiagaraGetAttribute and
\* NiagaraSetAttribute refuse what is not there.
Target(f) ==
  LET t == IF f.via = "proc" THEN Unpack(Pack(f.card, f.seg)) ELSE <<f.card, f.seg>>
  IN  IF t[1] \in Entry /\ t[2] \in Seg(t[1]) THEN t ELSE <<-1, -1>>

\* The code and data of a module that is not there any more.
Freed == step = "failed" \/ step = "gone"

Enter(u) ==
  /\ Running /\ user[u] = Out
  /\ \E f \in file, op \in {"lfd 0", "lfd 1", "port"} :
       /\ f.seg = -1 => op = "port"
       /\ user' = [user EXCEPT ![u] = [via |-> f.via, card |-> f.card,
                                       seg |-> f.seg, op |-> op]]
  /\ crash' = Freed
  /\ UNCHANGED <<scanvars, step, at, file, stray, lfdvars, pins, drivers,
                 faults>>

\* set_lfd: a bit that changes takes the semaphore, and the first or last one
\* wakes the thread.
SetLfd(u) ==
  LET t == Target(Where(u))
      bits == IF user[u].op = "lfd 1" THEN lfd_active_bmp \cup {t}
                                      ELSE lfd_active_bmp \ {t}
      idle == bits = lfd_active_bmp \/ t = <<-1, -1>>
      wakes == {} \in {bits, lfd_active_bmp}
  IN  /\ Running /\ user[u].op \in {"lfd 0", "lfd 1"}
      /\ idle \/ sem \in {1, Raw}
      /\ lfd_active_bmp' = IF idle THEN lfd_active_bmp ELSE bits
      /\ crash' = (~idle /\ (sem = Raw \/ (wakes /\ thread = "error")))
      /\ user' = [user EXCEPT ![u] = Out]
      /\ UNCHANGED <<scanvars, step, at, file, stray, sem, thread, pins,
                     drivers, faults>>

\* The network devices of a card's ports belong to its driver.
ReadPort(u) ==
  /\ Running /\ user[u].op = "port"
  /\ crash' = (Target(Where(u)) # <<-1, -1>> /\ user[u].seg # -1
               /\ DriverOf(Target(Where(u))[1]) \in freed)
  /\ user' = [user EXCEPT ![u] = Out]
  /\ UNCHANGED <<scanvars, step, at, file, stray, lfdvars, pins, drivers,
                 faults>>

\* A round of the LFD thread looks at the ports of every active segment.
LfdRound ==
  /\ Running /\ thread = "running" /\ step # "kthread_stop"
  /\ \E t \in lfd_active_bmp : DriverOf(t[1]) \in freed
  /\ crash' = TRUE
  /\ UNCHANGED <<scanvars, step, at, file, stray, lfdvars, pins, drivers,
                 user, faults>>

\* An Intel driver comes; it goes when there are no references to it, and
\* still has its devices until its exit function has given them up.
DriverComes(d) ==
  /\ d \notin bound /\ moves < MaxMoves
  /\ bound' = bound \cup {d} /\ moves' = moves + 1
  /\ UNCHANGED <<going, freed, escaped>>

DriverGoes(d) ==
  /\ d \in bound \ going /\ pins[d] = 0 /\ moves < MaxMoves
  /\ going' = going \cup {d} /\ moves' = moves + 1
  /\ escaped' = IF step = "live" THEN escaped ELSE escaped \cup {d}
  /\ UNCHANGED <<bound, freed>>

DriverGone(d) ==
  /\ d \in going
  /\ bound' = bound \ {d} /\ going' = going \ {d} /\ freed' = freed \cup {d}
  /\ UNCHANGED <<moves, escaped>>

\* A driver that no card uses makes no difference and stays as it is.
MoveDriver(d) ==
  /\ Running /\ \E i \in Entry : DriverOf(i) = d
  /\ (DriverComes(d) \/ DriverGoes(d) \/ DriverGone(d))
  /\ UNCHANGED <<scanvars, step, at, file, stray, lfdvars, pins, user, crash,
                 faults>>

-----------------------------------------------------------------------------
(* niagara_destroy *)

\* Removing a file waits for the users inside.
Drained == \A u \in User : user[u] = Out \/ Where(u) \in file

Unload ==
  /\ Running /\ step = "live" /\ step' = "destroy devices"
  /\ UNCHANGED <<scanvars, at, file, stray, faults, kernel>>

DestroyDevice ==
  /\ Running /\ step = "destroy devices" /\ Drained
  /\ file' = {f \in file : f.via # "sysfs" \/ f.card # at}
  /\ Loop("destroy procfs")
  /\ UNCHANGED <<scanvars, stray, faults, kernel>>

\* Mutant: the files of the segments are not removed.
DestroyProcFiles_Cards ==
  /\ Running /\ step = "destroy procfs" /\ Drained
  /\ file' = {f \in file : f.via # "proc" \/ f.card # at \/ f.seg # -1}
  /\ Loop("stop")
  /\ UNCHANGED <<scanvars, stray, faults, kernel>>

\* One card of procfs_destroy: what is not in its place is not found.
DestroyProcFiles ==
  /\ Running /\ step = "destroy procfs" /\ Drained
  /\ file' = {f \in file : f.via # "proc" \/ f.card # at \/ f \in stray}
  /\ Loop("stop")
  /\ UNCHANGED <<scanvars, stray, faults, kernel>>

StopSegments ==
  LET bits == {t \in lfd_active_bmp : t[1] # at}
  IN  /\ Running /\ step = "stop" /\ Drained
      /\ bits = lfd_active_bmp \/ sem = 1
      /\ lfd_active_bmp' = bits
      /\ crash' = (bits # lfd_active_bmp /\ bits = {} /\ thread = "error")
      /\ Loop("deinit")
      /\ UNCHANGED <<scanvars, file, stray, sem, thread, pins, drivers, user,
                     faults>>

\* lfd_deinit up to kthread_stop, which dereferences the thread.
Deinit ==
  /\ Running /\ step = "deinit" /\ sem = 1
  /\ crash' = (thread = "error")
  /\ step' = "kthread_stop"
  /\ UNCHANGED <<scanvars, at, file, stray, lfdvars, drivers, pins, user, faults>>

\* kthread_stop returns when the thread does, which Lfd is about: the thread
\* may sleep for ever.
ThreadEnds ==
  /\ Running /\ step = "kthread_stop"
  /\ thread' = "none" /\ step' = "unpin"
  /\ UNCHANGED <<scanvars, at, file, stray, sem, lfd_active_bmp, pins, world,
                 faults>>

\* Mutant: only the first card's driver is released.
Unpin_First ==
  /\ Running /\ step = "unpin"
  /\ pins' = IF DriverOf(0) \in bound THEN [pins EXCEPT ![DriverOf(0)] = @ - 1]
             ELSE pins
  /\ step' = "gone" /\ UNCHANGED at
  /\ UNCHANGED <<scanvars, file, stray, lfdvars, world, faults>>

Unpin ==
  /\ Running /\ step = "unpin"
  /\ pins' = IF DriverOf(at) \in bound THEN [pins EXCEPT ![DriverOf(at)] = @ - 1]
             ELSE pins
  /\ Loop("gone")
  /\ UNCHANGED <<scanvars, file, stray, lfdvars, world, faults>>

Unloading == \/ DestroyDevice \/ DestroyProcFiles \/ StopSegments \/ Deinit
             \/ Unpin

Users == \E u \in User : SetLfd(u) \/ ReadPort(u)

\* A failed scan, a failed load, an unload and a crash are ends.
Ended == /\ \/ crash \/ phase \in {"ENXIO", "E2BIG"} \/ step \in {"failed", "gone"}
         /\ UNCHANGED <<scanvars, loadvars>>

vars == <<scanvars, loadvars>>

Next == \/ Scan /\ UNCHANGED loadvars
        \/ Loading \/ Unload \/ Unloading \/ ThreadEnds
        \/ Users \/ LfdRound
        \/ \E u \in User : Enter(u)
        \/ \E d \in Driver : MoveDriver(d)
        \/ Ended

Spec == LoadInit /\ [][Next]_vars

\* insmod and rmmod go on, but for kthread_stop, and so do those inside of a
\* file.
FairSpec == /\ Spec
            /\ WF_vars(Scan /\ UNCHANGED loadvars)
            /\ WF_vars(Loading) /\ WF_vars(Unloading)
            /\ \A u \in User : WF_vars(SetLfd(u) \/ ReadPort(u))

-----------------------------------------------------------------------------
TypeOK ==
  /\ ScanTypeOK
  /\ step \in {"region", "device", "card files", "segments", "procfs", "pin",
               "sema", "thread", "up", "live", "failed", "destroy devices",
               "destroy procfs", "stop", "deinit", "kthread_stop", "unpin", "gone"}
  /\ at \in Slot
  /\ stray \subseteq [via : {"sysfs", "proc"}, card : Slot, seg : -1..3]
  /\ file \subseteq [via : {"sysfs", "proc"}, card : Slot, seg : -1..3]
  /\ sem \in {Raw, 0, 1} /\ thread \in {"none", "running", "error"}
  /\ lfd_active_bmp \subseteq Slot \X (0..3)
  /\ bound \subseteq Driver /\ going \subseteq bound /\ freed \subseteq Driver
  /\ escaped \subseteq freed \cup going
  /\ pins \in [Driver -> Int]
  /\ user \in [User -> [via : {"none", "sysfs", "proc"}, card : Slot, seg : -1..3,
                        op : {"none", "lfd 0", "lfd 1", "port"}]]
  /\ crash \in BOOLEAN /\ faults \in 0..MaxFaults /\ moves \in 0..MaxMoves

\* A file is about the segment it is named after; excepted are segments 2 and
\* 3 in procfs, which are taken for 0 and 1.
OwnSegment ==
  \A f \in file : f.seg # -1 /\ (f.via = "proc" => f.seg < 2) =>
    Target(f) = <<f.card, f.seg>>

\* Entries that niagara_init has pinned and niagara_destroy not yet released.
Pinned == CASE step \in {"live", "destroy devices", "destroy procfs", "stop",
                         "deinit", "kthread_stop", "sema", "thread", "up"} -> Entry
            [] step = "pin" -> 0..(at - 1)
            [] step = "unpin" -> at..(maxcard - 1)
            [] OTHER -> {}

\* References to an Intel driver are those of the cards that use it, and none
\* is left behind; unless its unload began between the scan and the pinning, so
\* that it was gone then or try_module_get failed.
PinsCounted ==
  phase = "found" => \A d \in Driver \ escaped :
    pins[d] = Cardinality({i \in Pinned : DriverOf(i) = d})

\* Whoever uses a loaded module finds the semaphore, the thread and the network
\* devices there, if nothing failed before and no driver was going, or gone,
\* when it was to be pinned.
LoadedIsSafe ==
  [][crash' /\ ~crash /\ step = "live" => faults > 0 \/ escaped # {}]_vars

\* After the segments are stopped no user comes any more, switches LFD on again
\* or finds the code gone; unless proc files were put in the wrong place.
TeardownUndisturbed ==
  step \in {"deinit", "kthread_stop", "unpin", "gone"} /\ stray = {} =>
    /\ lfd_active_bmp = {} /\ file = {} /\ \A u \in User : user[u] = Out
    /\ crash => thread = "error"

\* insmod comes to an end or crashes.  rmmod, once called, gets as far as
\* kthread_stop, whoever is inside the files or holds the semaphore, and comes
\* to an end if the thread does; whether that ends is the question of Lfd.
LoadAndUnloadEnd ==
  /\ <>(crash \/ phase \in {"ENXIO", "E2BIG"} \/ step \in {"live", "failed", "gone"})
  /\ (step = "destroy devices") ~> (crash \/ step = "kthread_stop")
  /\ (step = "unpin") ~> (crash \/ step = "gone")
=============================================================================
