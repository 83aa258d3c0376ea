# TLA+ models of the Niagara NIC driver

The driver controls bypass network cards: a card carries one to four
*segments* of two ports, Intel MACs, a CPLD and a small CPU that switches the
segments' relays. The driver talks to the CPLD over pins or registers of the
MACs, through the CPLD to the CPU, and offers what it finds as attributes in
sysfs and procfs. Paths below are relative to `src/`.

## 1. The system

| component | code | state | operations | talks to |
|---|---|---|---|---|
| CPLD layer, SDP/ESDP | `module/cpld_sdp.c`, `cpld_esdp.c`, `cpld_lock.c` | one lock bit per card, the directions of the MACs' pins | `cpld_read`, `cpld_write`, `cpld_kick` | the pins of two MACs, which the Intel driver may reset |
| CPLD layer, MDIO and FLASH | `module/cpld_mdio.c`, `cpld_flash.c` | the same lock (MDIO), none (FLASH) | the same | MDIO cycles of a MAC; a memory window |
| CPLD detection | `module/cpld_validate.c` | `hw_ctrl`, `hw_port`, the function table of a card | `cpld_validate` | CPLD layer |
| CPU layer | `module/cpu.c` | one lock bit per card | `cpu_read`, `cpu_write` | CPLD registers AVR_ADDR, AVR_DAT, CSR, HOST_DAT; the card's CPU |
| port control | `module/port.c` | none of its own: mode registers, PHY and LED registers | `port_get`, `port_set`, `fiber_status_get` | CPU layer, MAC registers, `net_device` |
| ixgbe hook | `module/niagara_ixgbe.c` | a saved function pointer | `ixgbe_port_set` | ixgbe driver |
| LFD | `module/lfd.c` | active bits, state and count per segment, a semaphore, a thread | `lfd_start`, `lfd_stop`, `lfd_get`, the thread, `lfd_deinit` | port control, scheduler |
| attributes | `module/api.c` | heartbeat arrays | a get and a set handler per attribute | all of the above |
| sysfs, procfs, debug files | `module/sysfs.c`, `procfs.c`, `cpld_dev.c` | the ioreg word | show and store functions | attributes |
| load, unload | `module/main.c` | `cards`, `maxcard` | enumeration, registration, teardown | all of the above |
| user library, utility | `user_api/` | none | sysfs reads and writes | sysfs |
| AVR programming | `module/spi.c` | - | - | not compiled |

Callers are kernel threads: writers of sysfs and procfs files, the LFD thread,
other kernel modules through `NiagaraGetAttribute` and `NiagaraSetAttribute`
(which may be in atomic context), and the thread that unloads the module. Two
bit locks (`cpld_lock_bits`, `cpu_lock_bits`) and one semaphore (`ctl_sem`) are
all that keeps them apart.

**What is hard.** A CPU command is several CPLD transfers and a poll; a CPLD
transfer is four slices over pins that another driver may turn round meanwhile;
the LFD thread takes no lock and is started, stopped, put to sleep and ended by
other threads; segments are isolated and repaired by ports whose links take
time to come up; mode, PHY and LED registers are read, changed and written back
by several callers without a lock; an MDIO cycle that was given up on may still
end; the scan for cards moves its own cursor; and files can be used from the
moment they are registered, long before `niagara_init` is through, and until
the very end of `niagara_destroy`.

**What correct means.**

* CPU layer: a call behaves as one access of a register file, whoever else
  calls; every call returns.
* CPLD layer: a transfer that returns moved its byte in spite of resets; a kick
  that reports success was seen; nobody holds the lock for ever.
* LFD: a fault reaches the companion port and stays there, a repaired segment
  comes back, both ports are never down together, switching LFD off leaves both
  ports up, no start is slept through, the module can be unloaded.
* Modes and ports: what was set is in force and reads back, though two
  attributes and LFD share the registers; bits and operations that belong to the
  Intel driver survive.
* Enumeration: an entry of `cards` is one card of the machine, with its own
  ports, network devices and control ports.
* Load and unload: what is registered can be used, references to the Intel
  drivers are counted, and the teardown goes in an order nobody can disturb.

`PROJECT.json` lists the hazards one by one, each at its line.

## 2. The modules

| module | models | how |
|---|---|---|
| `AvrRegisters` | the promise of `module/cpu.c` | a register file; a call takes effect once between invocation and return |
| `CpuAccess` | `module/cpu.c` | one action per CPLD access; `AvrFetch` and `AvrFinish` are the card's CPU |
| `CpuAccess_proofs` | | proofs about it |
| `SdpBus` | `cpld_sdp.c`, `cpld_esdp.c`, `cpld_lock.c`, `set_kick` | two actions per slice, one for the read and one for the write-back of each register with pins, one per lock operation; `MacReset` is the Intel driver |
| `SdpBus_proofs` | | proofs about it |
| `LfdSegment` | `lfd_update_segment` | a function of state, count and carriers |
| `Lfd` | the rest of `module/lfd.c`, the LFD part of `niagara_destroy` | one action per access to what the threads share |
| `Lfd_proofs` | | proofs about it |
| `LfdLink` | LFD of one segment over time, `set_port0`, `set_port1` | one action per period, per half of `lfd_start` and `lfd_stop`, per attribute write, plus signals, cables and carriers |
| `LfdLink_proofs` | | proofs about it |
| `ModeRegs` | `fiber_port_set`, `set_current_mode`, `set_default_mode` and their getters | one action per CPU command |
| `ModeRegs_proofs` | | proofs about it |
| `MdioBus` | `cpld_mdio.c`, `cpld_flash.c`, `cpld_lock.c` | one action per MAC register access; `Complete` is the end of a cycle |
| `MdioBus_proofs` | | proofs about it |
| `CopperPort` | `copper_port_set`, `niagara_phy_read`, `niagara_phy_write` | one action per register access and per poll; `MacServe` carries out a command |
| `IxgbeHook` | `niagara_ixgbe.c` | one action per read or write of an operation pointer |
| `IoReg` | IOREG of `cpld_dev.c`, as `util -g` and `util -s` use it | one action per access of the two words |
| `CardAttrs` | the three together on one card, `port_set`'s choice by driver | `CardThreads` declares the threads they share |
| `CardAttrs_proofs` | | proofs about it |
| `PciScan` | the scan in `niagara_init`, `cpld_validate` | one action per PCI function, per finished card, per kind of card |
| `Load` | the rest of `main.c`, `sysfs.c`, `procfs.c`, `lfd_init` | one action per call that can fail or be seen from outside, over `PciScan` |
| `Load_proofs` | | proofs about `PciScan` and `Load` |
| `MCCpuAccess`, `MCLfd`, `MCLoad` | | symmetry sets, kinds of cards and machines for TLC |

Names of variables and actions are the code's wherever the code has one: `pc`
of a thread is where it is in the function, `polls`, `idx`, `rv`, `val`, `scan`,
`avail` are its locals. The variables called *history* only record what
happened; no guard reads them.

### 2.1 CpuAccess and AvrRegisters

`cpu_lock` to `cpu_unlock` follow `cpu.c:42-66` line by line. The CPU's side is
external and takes two steps: `AvrFetch`, it finds a command in CSR and begins
with it, and `AvrFinish`, at any later time or never, it carries the command out
and clears CSR. When it looks at AVR_ADDR and AVR_DAT is not known from this
repository; the model lets it take each of them as they were at the start or as
they are at the end. `AvrPrompt` says whether the CPU always answers before
`cpu_wait` gives up (`MaxPoll` polls, 10000 in the code).

Without `AvrPrompt` the CPU may be at work on a command that timed out when the
next caller writes CSR (`overrun`). Its late end then clears the new command's
CSR, `cpu_wait` takes that for an answer, and `cpu_write` returns 0 for a byte that
went nowhere (`cpu.c:31-32, 62-63`): the run reaches this state, and
`AckedCallExact` excepts exactly these calls. It also excepts a `cpu_read` whose
own poll gave up (`gaveup`), which returns whatever HOST_DAT holds because line 49
drops the result of `cpu_wait`. The register file is promised only with `AvrPrompt`;
without it there remain the locking, `CommandIntact`, `AckedCallExact` and
termination.

One CPLD transfer is one step. That is what `SdpBus` shows of reads and writes
under the CPLD's own lock (`TransferExact`), with the exceptions it names. A
transfer that is repeated after a reset may write CSR twice, which the model
leaves out.

`AvrRegisters` is also what the CPLD registers of an MDIO card promise (2.5).

The refinement maps a thread to "called" until the CPU has served its command
(until then `pc` is "wait" and CSR is up) and to "done" from then
until its return; the result of a served read is what HOST_DAT holds.

### 2.2 SdpBus

A byte is `NSlice` slices of two bits (four in the code). Pins are grouped by the
MAC register they are in, `Reg`, in the order in which `set_pin_direction` checks
them: four registers' worth in `cpld_sdp.c`, of which the last has inputs only,
one per port in `cpld_esdp.c`. A reset turns the registers of one port round
(`dir[r] = FALSE`, `Turned`).

A slice is a row of pin writes and has a start (`SliceStart`) and an end (`RxTwo`,
`TxTwo`, `KickTx`). It is `Clean` if at its end all pins have their directions and
nobody else wrote to pins since its start; otherwise any bits may come in and any
register of the CPLD may have changed (`Strays`), and a kick may or may not have
arrived. Two callers can be inside a slice at a time when one of them went on
without the lock (`cpld_lock.c:16`).

`ReadDir` and `WriteDir` are the check of one register: what was read is written back
with the directions put right. In `cpld_sdp.c` `rv` is not reset between pins
(line 45), so from the first wrong register on every later one is written back too,
also one of the other port whose directions are right, and with it the levels its pins had
when it was read (`WritesBack`). The kick does this after its unlock, in the middle
of what another thread drives on these pins. Consecutive pins of one register are
one check.

`meddled[p]` records that somebody else wrote to pins during p's transfer, or
turned pins back before p's check of them, or that a reset hit a pin between the read and the
write-back of `bit_up` or `bit_down`, which hides it (`kept` in `MacReset`). `bypassed`
records that a caller in atomic context went on without the lock. A kick that
turns a pin into an input and back is taken to strobe nothing by that alone.

### 2.3 LfdSegment, Lfd and LfdLink

`Update` returns the new state, the new count and the `port_set` calls. `Lfd`
uses it with arbitrary carriers: what matters there is the interleaving of the
thread's reads of `lfd_active` and of the segments' bits, its sleeping
(`task`), the callers between `down_interruptible` and `up`, signals and the
unload. `port_set` of either port is a step of its own; reading two carriers
and changing state and count is one step (nobody else writes them except
`lfd_start`'s reset, which comes before or after here and in the middle in `LfdLink`).

`LfdLink` uses the same `Update` with carriers that follow the ports and
cables: a port that is up with its cable in finds its carrier within `MaxLag`
periods, and loses it before the thread's next look. (Were the loss reported
later than a period, a port just taken down would still count as up in state 0
or 1; the code has the same window.) `LfdLink` treats `fiber_port_set` and
`copper_port_set` as working; what the register does is in `ModeRegs`.

`lfd_start` and `lfd_stop` are two steps each in `LfdLink`: the bit (`lfd.c:62, 78`)
and what follows `down_interruptible`, or the -EINTR of lines 63 and 79 instead
(`StartInterrupted`, `StopInterrupted`). An interrupted start leaves the bit on with
the state and count of an earlier start, an interrupted stop leaves the ports as
they are. LFD may meanwhile be active for another segment or not
(`OtherSegments`); a bit that is on while LFD is not active is scanned by nobody, and
`README:205-206` is not kept for it: `FaultPropagates` and `RepairCompletes` are
about segments that are scanned. `tested` is a look that found the bit before
`lfd_stop` cleared it and still comes. `PeriodWithReset` is a look with
`lfd_start`'s reset (`lfd.c:70-71`) in the middle: `MixedStates` and `MixedCounts` are
what two pairs of unordered writes and a decrement can leave. `short` says that the count
need not be full, because no reset has ever come or one mixed with a wait; it ends with
the next wait.

Attributes `port0` and `port1` are in `LfdLink` too, because LFD and they know
nothing of each other. `held` are the ports that an attribute took down: LFD
takes the missing carrier for a fault and answers by taking down the other port,
so both are down. `raised` says that an attribute, or an `lfd_stop` that no whole `lfd_start`
followed, brought up the port that LFD keeps down in state 2 or 3: the fault does
not show at the companion any more, and LFD does not look again. The promises
except exactly these, and hold again as soon as LFD has set the ports.

`LagAssumption`, `MaxLag <= LFD_MAX_CHECK_COUNT + 1`, is the exact limit: with one
period more, TLC finds a repaired segment whose ports take each other down for
ever, since state 4 ends before both carriers are there and state 0 takes the
missing one for a fault.

### 2.4 ModeRegs

A mode register holds bit 7, the mode in bits 3 to 6 and the port bits 0 and 1.
Whether the CPU keeps bit 7 is not known from this repository, and the cards
differ in the order of the ports: both are chosen in `Init`. `stale`
and `lost` mark a thread that writes a register back after somebody else wrote
it: nothing in the code prevents that, and the properties hold where it did not
happen. `wanted` is what `port_set` asked for until the mode in force is
switched to or from the default or the default is rewritten, which sets its own
port bits (`0x83`).

`asked` holds what an attribute was given, uncut. `README:189` says of
`default_mode` that the value can be 0..5, and line 185 that 70 is the one special
value of `current_mode`; `bad_current_mode` and `bad_default_mode` (`api.c:53-58, 80-84`)
exist to refuse the rest, but see only the low eight bits of a value that is then
used at full width. So, **against the documentation, the code accepts** `0x101`,
which reads back as 1, and `0x170`, which passes as the default mode and is written as forced
mode 0. The run writes both. `ModesInForce` is about the documented modes,
`Documented` and `0x70`, whatever was written before them, and says nothing of the others.

The model also shows that a current mode of `0x70` has both port bits of the
current register clear, against the `FORCE_*` constants of `cpu.h:48-51`.

### 2.5 MdioBus

A byte takes an address cycle and a data cycle, each started by a write to MSCA
and polled for (`MaxPoll` polls, 10 in the code). The CPLD's end (`Complete`)
comes at any time or never. A poll that gives up returns -1 with the lock given
back, and its cycle may still be in progress when the next call starts one:
`StartCycle` lets the MAC take the new cycle or ignore it, since its behaviour is
not in this repository. `overrun[p]` marks such a call. The kick (`kicks`) is a write of
the whole CSR byte and returns 0 even when a poll gave up. FLASH cards make one access without a lock.

`Linearizable` says that calls are calls on the register file of `AvrRegisters`
until a poll gives up or a caller in atomic context passes the lock; `MdioExact`
that a call whose own cycles ended in time is right also after that.

### 2.6 PciScan and Load

`MAX_CARD` is the size of `cards`, 4 in `include/niagara_config.h`; the word of
`procfs.c` has four bits for it, hence `MAX_CARD <= 16` in `LoadAssumption`.
`ControlAssumption` says that a card's control ports are at one of the places
`cpld_validate` looks; a card that is not among them is a mute one.
`MaxFunctions` bounds the PCI functions of one kind in a machine.

A machine is a sequence of cards of each kind of `pci_cards`; a card has its
ports in order, the control ports at which its CPLD answers (or none does), and
the ports that have a network device. `Tries` is the order in which
`cpld_validate` goes through control ports, `Finish` the end of a card, with the
exchange of the segments of N32264 and N42264. That exchange assigns
`pci_dev`, the variable the scan goes by: `LastMoved` is where it leaves the
cursor. Slots whose card did not answer keep its `net_dev` entries
(`leftover`).

`Load` takes over when the scan has found cards. Every kernel call of
`niagara_init` may fail, up to `MaxFaults` of them; after a failure
`niagara_init` returns and what it registered stays, which makes the use of a
file a crash (`Freed`). Users enter any file that exists and act there later; of
what an attribute does the model keeps what depends on the order of the load:
the semaphore, the wake-up of the LFD thread, the network devices of an
Intel driver. `file` is the set of files by way, card and segment; `Pack` and
`Unpack` are the word of `procfs.c`, which has one bit for the segment. `stray`
are proc files that were put into `/proc` itself, or below a directory there,
because `proc_mkdir` failed for the driver, a card or a segment.

An Intel driver leaves in two steps. While it is `going` it still has its devices,
so that `main.c:131` finds it, but `try_module_get` fails; the code does not
look at the result and the driver goes on leaving, with the card in use
(`DriverGone` frees its network devices). `escaped` are the drivers whose unload
began before the module was live, or during its removal: the reference for their
cards may be missing, and if such a driver comes back, `main.c:164` gives
back one that was never taken. Drivers that no card uses do not move.

`lfd_deinit` stops at `kthread_stop` until the thread ends (`ThreadEnds`). Nothing says
that it does: `LfdUnload` shows that it can sleep for ever. `LoadAndUnloadEnd`
therefore says of the removal that it gets as far as `kthread_stop` and,
if that returns, to its end.

### 2.7 CardAttrs: CopperPort, IxgbeHook, IoReg

Three places of one kind: a register, a pointer or a pair of words is read,
changed and written by several threads without a lock. In `CopperPort` a PHY
access is a command in MDI_CTL and polls for PHY_RDY; commands of two callers
replace each other and get each other's answers, and `niagara_phy_read` that
gives up leaves zero. A register's content is cut down to the bits
`copper_port_set` changes and one value for the rest. In `IxgbeHook` one global
holds the original operation of every port; the refusal of a foreign network
device (`niagara_ixgbe.c:28`) and the flag in the driver's adapter (line 40) are left out. In `IoReg` a command of the
utility is two words, and whether the compiler fetches them again after storing
them is chosen in `Init` (`reread`).

## 3. The runs

| run | module, configuration | shows | states |
|---|---|---|---|
| CpuAccess | 2 threads, 2 cards, 2 offsets, bytes 0 and 1, 2 calls each | `Exclusion`, `CommandIntact`, `Linearizable` | 455 thousand |
| CpuTimeout | 1 card, the CPU may be late or never answer, fairness of threads | `AckedCallExact`, `EveryCallReturns` | 553 thousand |
| SdpBus | 2 users (one atomic), 1 kicker, 2 slices, 3 registers, 2 calls, 1 reset, fairness | `TransferExact`, `KickDelivered`, `OnlyLateCheckMeddles`, `EveryCallEnds` | 747 thousand |
| MdioBus | 2 threads (one atomic), 2 registers, 2 polls, 3 calls, fairness | `MdioExact`, `Linearizable`, `EveryCallEnds` | 848 thousand |
| Lfd | 2 callers, unload, 2 segments, 1 signal | `ActiveCoversBits`, `StoppedPortsUpUnlessOverlapped` | 6.2 million |
| LfdLive | 1 caller, 2 segments, fairness | `StartedIsScanned` | 493 thousand |
| LfdUnload | 1 caller, unload, fairness | `UnloadCompletes` is **violated** | 3471 |
| LfdLink | the code's count 5, links up to 6 periods late, signals, attribute writes | `OnePortStaysUp`, `FaultPropagates`, `RepairCompletes`, `WaitsAreFull` | 631 thousand |
| CardAttrs | 2 threads, 3 calls, 2 ports, 2 polls, addresses 1, 2, 257 | `PhyBitsKept`, `PortAsAsked`, `HookExact`, `IoExact` | 2.3 million |
| Load | 10 machines, 1 user, 1 failure, 2 moves of drivers, 2 slots, fairness | `ScanExactUnlessSwapped`, `NetDevsOwn`, `OwnSegment`, `PinsCounted`, `TeardownUndisturbed`, `LoadedIsSafe`, `LoadAndUnloadEnd` | 128 thousand |
| LoadSwap | two N32264, scan only matters | `CardsArePhysical` is **violated** | 22 when found |
| ModeRegs | LFD thread and 1 writer, 2 calls each, values 0, 2, 6, 0x70, 0x101, 0x170 | `ModesInForce`, `PortSetInForceUnlessMisread` | 1.8 million |

**Bounds.** Two threads are what a lock can fail for, a third adds waiting; two
calls each let one call meet the leftovers of another. Two cards show that a
card's lock does not protect another's registers, two offsets and two bytes that
they are not exchanged. Two polls are the first, the ones in between and the
last. Two slices are one before and one after a reset, whichever port it is of;
three registers are one of port 0, one of port 1 and one of inputs, so that a wrong
one is followed by right ones. Two calls in all are any two of a read, a write and a
kick that overlap; the proofs cover any number of calls and resets. In `MdioBus` three calls are one that is
given up on, one that meets its late cycle and one after that; two addresses tell
a stray write from the right one. In `CardAttrs` two calls overlap in every way
and a third meets what they left; 1 and 257 are the same register to `cpu_read`.
`Load` has a slot less than the largest machine has cards (`E2BIG`), a mute card
before, after and without others, a card without a network device, control ports
in either order, kinds of three sides (ESDP is scanned as SDP is) with one, two
and three segments; one
user is enough since users only meet the module, not each other (`Lfd` has two).
Two moves are a driver that goes and comes back (going and being gone is one move). `LfdLink` needs no bound of its own:
`steady` stops counting at `Settle`, after which nothing depends on it. In `Lfd`
a count of 0 or 1 takes state 4 through both of its branches. `MaxSignals = 1`
interrupts one wait, after which the properties make no more claims. The values
of `ModeRegs` are a forced mode below 2, one from 2 on, one too large, the
default, one that is only valid after the cut to eight bits and one that is the
default only after it. `MaxFunctions` is what the largest machine has. The other
bounds are in guards: `MaxCalls`, `MaxOps`, `MaxResets`, `MaxSignals`, `MaxFaults`,
`MaxMoves`.

Deadlock is checked except in the `Lfd` runs: there the system may really stop,
either because the thread sleeps and nobody calls, or because the module is
unloaded, or because both wait for each other (`LfdUnload`). Runs whose bounded
calls are over stutter in an action of their own (`Finished`, `Done`, `Ended`),
which takes that very state as its guard.

**Fairness.** Weak fairness of every thread that can run: the kernel's scheduler
gives no stronger promise, and the code needs none (a lock that is given back
again and again could be missed by the same spinner for ever, but callers make
finitely many calls). In `Lfd` the timer of `schedule_timeout` expires. Nothing
is assumed of the CPU in `CpuTimeout`, of the CPLD in `MdioBus`, of the callers
anywhere, or of the Intel driver beyond a finite number of resets. In `Load`
the process that runs `niagara_init` or `niagara_destroy` and users that are
inside a file go on; nobody has to come or to unload, and `kthread_stop` need not
return.

## 4. What the runs show that a reader may not expect

Two properties are **violated**:

* **LfdUnload.** `Changelog:2` says that the lock on exit is resolved. The
  thread tests `kthread_should_stop` at line 21 and sets its task state at line 28.
  The wake-up of `kthread_stop` may fall in between: by then
  `lfd_active` is false, so the thread calls `schedule` without a time-out.
* **LoadSwap.** `README:146` says that a card is a physical board, and
  `main.c:69` that the swap exchanges its segments. The swap uses `pci_dev`, the
  cursor of `pci_get_subsys`, as its temporary: the scan goes on in the middle of
  the card it has just finished, and with two N32264 an entry of `cards` holds
  ports of both.

The properties that hold name what they except, and the code does reach the
exceptions:

* `StoppedPortsUpUnlessOverlapped`: an `lfd_stop` that falls between the thread's
  test of the bit (`lfd.c:101`) and its update has its `port_set` calls undone.
* `AckedCallExact`: a command that is put over one the CPU is still at; `cpu_write`
  then returns 0 for a byte that is lost. A `cpu_read` whose poll gave up.
* `TransferExact`, `OnlyLateCheckMeddles`: a kick writes pin registers back after its
  unlock (`cpld_sdp.c:216-218`), in the middle of another thread's byte: the data
  on the pins, also on those of a port no reset hit (line 45), and the directions, so that
  the other thread no longer finds what was wrong. A reset between the read and the
  write-back of a pin leaves no sign at all.
* `KickDelivered`: a caller without the lock inside the kick's slice, somebody who
  turns the pins back before the kick's check, and the same hidden reset.
* `ModesInForce`: values that the documentation excludes and the code accepts (2.4).
* `PortSetInForceUnlessMisread`: `port.c:63` takes `val & 0xf0` for "the current
  mode is the default mode"; a forced mode from 2 on has a bit there as well.
* `MdioExact`: a call that starts its cycle while one that was given up on is
  still in progress.
* `PhyBitsKept`: a poll that gives up, after which zeroes are written back.
* `PortAsAsked`: calls that overlap.
* `HookExact`: calls that race at one port, and ports whose original operations
  differ (the global holds only one).
* `IoExact`: another command stored meanwhile.
* `OwnSegment`: segments 2 and 3 in procfs read and write the attributes of 0
  and 1 (`procfs.c:58`), although `README:149` calls segments independent.
* `NetDevsOwn`: a slot where a mute card left its network devices.
* `PinsCounted`, `LoadedIsSafe`: a driver that was going, or gone, when it was to be
  pinned: nothing keeps it from freeing the network devices of a loaded module.
* `LoadedIsSafe`, `TeardownUndisturbed`: an earlier failure of a kernel call, proc
  files in the wrong place.
* `LoadAndUnloadEnd`: a crash while `niagara_init` is not through, or after a
  failure in it, counts as an end; so does `kthread_stop`, once called.
* `OnePortStaysUp`, `FaultPropagates`, `RepairCompletes`: ports that attributes
  hold down or, for `FaultPropagates`, that attributes or a stop without a start
  raised against LFD. The last two also speak only of segments that are scanned: after
  an interrupted `lfd_start` the bit may be on with LFD not active.
* `WaitsAreFull`: a segment that no `lfd_start` has reset, or whose reset mixed with
  the thread's look, until the next wait ends.

## 5. The proofs

All theorems hold for every value of the constants that the modules' ASSUMEs
allow: any set of threads, cards, offsets, bytes, any number of slices, any
`LFD_MAX_CHECK_COUNT`, any link-up time within `LagAssumption`.

**CpuAccess_proofs.** The inductive invariant is `TypeOK`, `Exclusion` and
`CommandIntact`; `AckedCallExact` needs in addition that the CPU is at work only
while CSR is busy (`AtWork`), and for every call that was not put over another's
command what its end has left: the register, HOST_DAT and the result hold the
same byte and the CPU is idle (`ServedWait`, `ServedHost`, `ServedQuiet`).
`Exclusion` alone is not enough for `CommandIntact`, nor the other way
round: a foreign write to AVR_ADDR is excluded by the lock. `Refinement` maps
every action to a step of `AvrRegisters` or a stutter, under `AvrPrompt`; a busy CSR is then
awaited by a thread that put it over nothing (`BusyIsAwaited`).

**SdpBus_proofs.** `TransferExact` is not inductive: `ExactInv` says that a
thread whose slices differ from the register (`Spoiled`) is still going to see it
(`Revealed`): some pin has the wrong direction, or one that its check has not
come to yet, or `rv` says so; unless it was meddled with. `KickInv` is the same for a
kick that did not arrive. A write-back can change any register of the CPLD, but whoever
is in a transfer then is meddled with. `OnlyKicksMeddle` follows from the lock
(`LockInv`): a user in a transfer holds it, so whoever writes pins under it does not,
and only a kick's late check does.

**Lfd_proofs.** `TypeInv` has the semaphore's exclusion and where the thread has
`port_set` calls to make. `ActiveCoversBits` is about quiet states; `CoverInv`
says what holds in between: with a bit set LFD is active or a caller is on the
way to activate it, and a scan in `lfd_stop` has seen each bit behind it or the
caller who has set it since waits for the semaphore. `PortsInv` does the same for the ports of a
stopped segment: they are up, or a caller is before the calls that raise them, and the
thread is not at the segment; if it is, the segment is in `overlapped`.

**MdioBus_proofs.** A cycle outlives the poll that gave up on it, so the
invariant follows the cycle in the MAC: `Exact` says, per place of a call, whose
cycle is in progress and what the address latch and MSRWD hold, unless the call started
over another's cycle (`overrun`); `LockInv` that one call is at it. `WaitedInv`
adds that until a poll gives up every cycle in progress is waited for, and with that
every action is a step of `AvrRegisters` or a stutter (`RegisterFile`).

**ModeRegs_proofs.** First the arithmetic of the bytes: what `Encode`, `WithBit`
and a CPU that drops bit 7 keep of the mode and of the port bits. Then `HeldInv`: a
caller whose register nobody has written since it read it (`~stale`) knows what it
holds, and which of the two modes is in force. `ModesInv` and `PortInv` follow by the steps that
write a register. No bound on the values written is assumed.

**Load_proofs.** The scan (`ScanInv`, with `PlaceInv`: where the cursor is within a
card) gives `NetDevsAreOwn` through `NetInv`, which also says what the unused slots hold:
only a left-over slot has network devices before its card is read. `ScanIsExact` needs `EntriesInv`: at each
point the entries are, one to one, the cards of the machine that answer and lie
behind the cursor, and the only reference held is the cursor's. The step that finishes a card
shows that the pairs of `cpld_validate` find exactly this card's control ports,
by `ControlAssumption`, and adds one card to the set; that the set is finite comes from the
library's `FiniteSetTheorems`. After the scan the entries do not change any
more, and `LoadInv` (types, the loop index within the entries, files and LFD bits of entries only)
carries the rest: `PinsAreCounted` counts the pinned entries of a driver one by one;
`LoadedModuleIsSafe` needs that the semaphore is 1 once the module is loaded (`KernelInv`), and that a driver that is going or gone is used by no entry unless it escaped (`DriverInv`);
`TeardownIsUndisturbed` follows the loops of `niagara_destroy`: behind the index no file is left
and no segment is on (`TearInv`).

**LfdLink_proofs.** `Inv` is `TypeOK` and `Shape` (which ports are up in which
state unless an attribute holds or something has raised one, a carrier needs port and
cable, the count is full outside state 4 unless `short`). It
gives `TypeCorrect`, `FullWaits` and `OnePort`. `PassInv` is what a look does to the
ports, shared by `Period` and `PeriodWithReset`; `ResetInv` shows that every mixture of
a look's and a reset's writes keeps `Shape`. The two promises about time are
proved with a measure each. `RepairTime` bounds the periods until a segment with
both its cables is back in state 1: it depends on the state, on how long each
carrier may still be missing (`Due`) and, in state 4, on whether the wait
outlasts them; a `short` wait may only happen once. `RepairPeriod` shows that a
period lowers it or it is 0,
`RepairLinkUp` that a carrier never raises it, and a step that changes a
cable, a port or the attribute `lfd`, or one of the history variables,
restarts the clock. The invariant
`steady + RepairTime <= Settle` follows, and with it `RepairsComplete`. Here
`MaxLag <= LFD_MAX_CHECK_COUNT + 1` is used: state 4 entered with a full count
outlasts any link. `FaultTime` does the same for the companion of a failed port.

**CardAttrs_proofs.** `PartSteps` splits a step: it belongs to one of the three
parts and leaves the variables of the others alone, so every part has its
invariant for itself. The types need two facts of their own (`HookTypeInv`: as long as
`orig_check_link` is NULL no port has the hook and nobody restores it;
`IoTypeInv`: once a command has been stored, the address word names a register).
`BitsInv` follows the Intel driver's bits through every place that the next command takes
them from: the two registers, the data of MDI_CTL and the locals of the
calls; an overlapping call can only exchange one good copy for another, a poll that gives up
(`late`) writes back one that was never filled. `AskedInv` says that one call
runs and how far it has brought the port, until `late` or `overlapped`. `HookInv`
needs that the ports share one operation (`SameOwn`; the driver sets it by the kind
of MAC): then a port that has the hook finds its own operation in the global, whoever
saved it last. `IoInv` says that two threads inside a command are both in
`mixed`, and that the words belong to a thread that is not.

The inductive invariants were model-checked on the instances of the runs before
they were proved.

Only model-checked: liveness (`EveryCallReturns`, the two `EveryCallEnds`,
`StartedIsScanned`, `LoadAndUnloadEnd`), since liveness under fairness and ENABLED are
outside what the proof system does. Every safety invariant, action property and refinement
of a passing run is proved. `UnloadCompletes` and `CardsArePhysical` are violated.

## 6. What is not modelled

* **Hardware set-up.** `cpld_sdp_init` and its power-off fix for I350,
  `cpld_flash_init`, `ioremap` and the windows that failed tries of
  `cpld_validate` leave mapped, the identification registers read by
  `niagara_init`: straight-line code before anybody else knows the card.
* **The Intel driver's own use** of CTRL, CTRL_EXT and the PHY registers, which the
  driver reads, changes and writes back without its locks. `SdpBus` gives the MAC
  resets one effect, turning the pins round; what else is lost is outside this
  repository.
* **The flag and the refusal of `ixgbe_port_set`** (`niagara_ixgbe.c:28, 40`): the
  refusal changes nothing, and the word of the flag is the ixgbe driver's.
* **A CPU command under a whole-byte kick** on an MDIO card (`cpld_mdio.c:143`):
  what the CPU does with a CSR whose command bits vanish is not in this code.
  `MdioBus` has the kick as a call, `CpuAccess` has no kick.
* **Attributes that are one access** of a register or an array, heartbeat
  arithmetic, `fiber_status_get`; `set_power_off_mode` is a read and a write back
  like those of `ModeRegs`.
* **In-kernel users** of `NiagaraGetAttribute`, unbinding an Intel driver through
  sysfs while it is pinned, a signal to the process that unloads the module in `Load`
  (`lfd.c:51` and `79`; `Lfd` has it), the hook that stays in a port when the module is
  removed while the port is down (`niagara_ixgbe.c:36`), devices that come or go
  during the scan.
* **Text**: conversion of values, names of attributes, the procfs variant for
  kernels before 3.10, the utility's output.
* `spi.c` is not compiled.

## 7. What could come next

1. `SdpBus` as an implementation of `AvrRegisters`: `TransferExact` says it of single
   calls, the refinement would say it of all of them together. It can hold only until a
   reset hits a write: its thread sleeps with the lock free while half of the byte is in
   the register, and others read it (`cpld_sdp.c:194-198`).
2. `MdioBus` under `CpuAccess`: the register file of the one as the CPLD
   transfers of the other, and with it the whole-byte kick.
3. `set_power_off_mode` beside the writers of `ModeRegs`.
