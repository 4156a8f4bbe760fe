# A formal model of mikanos_m1mac

TLA+ specifications of the operating system in `src/` (a MikanOS kernel with
its UEFI boot loader and its own USB stack), the TLC configurations that check
them on small instances, and proofs checked by TLAPS for every instance. File
names below are relative to `src/`; `xhci.cpp` is `kernel/usb/xhci/xhci.cpp`.

1. [The system](#1-the-system)
2. [Plan](#2-plan)
3. [Modules and code](#3-modules-and-code)
4. [Runs, bounds and what they show](#4-runs-bounds-and-what-they-show)
5. [Fairness](#5-fairness)
6. [Proofs](#6-proofs)
7. [Divergences found](#7-divergences-found)
8. [What is not modelled](#8-what-is-not-modelled)

To check: `tlc -config Faults.cfg PortConfig.tla` (section 4 names the module of
every configuration), and `tlapm M.tla` for `PortConfigProofs`,
`CommandPathProofs`, `UsbDeviceProofs`, `PortRegisterProofs`,
`XhcStartupProofs`, `PciScanProofs`, `LoaderProofs` and `DesktopProofs`.

## 1. The system

The boot loader (`MikanLoaderPkg/Main.c`) reads the kernel's ELF file, copies
its LOAD segments, leaves the firmware and jumps to `KernelMain`
(`kernel/main.cpp`). The kernel scans PCI for an xHC (the USB 3 host
controller), starts it, runs a port loop once over the root hub ports, and then
polls the event ring for ever. There are no interrupts and no threads: the
driver is one thread of control. The concurrency is between that thread, the
host controller (which reads rings and writes events, contexts and buffers by
DMA, at its own pace), the firmware, and the user with the USB plugs.

| Component | State | Operations | Hard because |
|---|---|---|---|
| Port configuration (`xhci.cpp`) | `port_config_phase[256]`, `addressing_port`, slot table `devices_`, DCBAA | `ConfigurePort`, `ResetPort`, `EnableSlot`, `AddressDevice`, `InitializeDevice`, `CompleteConfiguration`, three `OnEvent` handlers, `ProcessEvent` | one port at a time may be between reset and address; late events; unplugging; commands that fail; a busy wait inside a handler |
| Command/transfer rings (`ring.cpp`) | TRB buffer, write index, cycle bit | `Initialize`, `Push`, doorbell | the controller reads between two stores; the end of a lap; no check for a full ring |
| Event ring (`ring.cpp`) | segment table, dequeue pointer, cycle bit | `HasFront`, `Front`, `Pop` | the controller writes while a handler reads; stale TRBs of the previous lap |
| Device initialisation (`usb/device.cpp`, `xhci/device.cpp`) | `initialize_phase_`, `setup_stage_map_`, `event_waiters_`, `buf_` | `StartInitialize`, three phases, `ControlIn/Out`, `OnTransferEventReceived`, `OnControlCompleted` | an answer is matched with what was asked by a ring position, long after |
| HID class drivers (`classdriver/`) | phase, report buffer, previous report | `SetEndpoint`, `OnEndpointsConfigured`, `OnControlCompleted`, `OnInterruptCompleted` | called once per endpoint number, one buffer for all reports, new keys found by comparing with the report before |
| Fixed-size maps (`arraymap.hpp`) | array of key and value | `Get`, `Put`, `Delete` | `Put` neither replaces nor reports a full map |
| PORTSC access (`port.cpp`, `port.hpp`) | PORTSC of a port | `Reset`, `ClearConnectStatusChanged`, `ClearPortResetChange` | read, mask, write while the hub changes the port; each bit reacts to a write in its own way |
| DMA pool (`usb/memory.cpp`) | `alloc_ptr` | `AllocMem` | alignment and boundary interact; a refused request moves the pointer |
| Controller start-up (`xhci.cpp`) | xHC registers | `RequestHCOwnership`, `Initialize`, `Run` | the BIOS uses the controller at the same time; four unbounded polling loops; read-modify-write of USBCMD |
| PCI scan (`pci.cpp`, `main.cpp`) | device table of 32, routing registers | `ScanAllBus` ... `AddDevice`, the controller search, `SwitchEhci2Xhci`, `ReadBar` | recursion through bridges, errors that must end every level |
| Boot loader (`Main.c`) | memory map key, image | `UefiMain`, `CopyLoadSegments`, ... | the map key goes stale at any time; sizes and roundings |
| Console, mouse cursor, graphics, fonts, logger | frame buffer, text buffer, cursor position | `Log`, `PutString`, `Newline`, `MoveRelative` | three writers to one frame buffer that know nothing of one another; a cursor that may leave the screen |
| Layouts, stubs, tools | see section 8 | | |

How they interact: the event loop calls `ProcessEvent`, which dispatches on the
TRB type to the handlers of the port configuration; these call the slot table,
the DMA pool, the rings (through the doorbell) and, for a transfer event, the
device of the slot; the device calls its class driver back by virtual calls;
`InitializeDevice` and `CompleteConfiguration` bring the phases of the port and
the device together. A mouse's report goes through the class driver's observer to
the mouse cursor, and every log line to the console, both on the one frame
buffer. Driver and controller share memory only: rings, contexts,
the DCBAA, data buffers and registers.

What makes each component correct:

* Port configuration: exactly one port has the turn (never two devices at
  address 0); slots, ports and commands in flight agree; every connected device
  is configured; the turn is never lost.
* Rings: whatever the moments at which each side looks, a ring is a FIFO queue.
* Device: every answer is handled as the answer to its own request; every
  report is read once, in order; nothing is forgotten so that the device stalls.
  The endpoints configured are those of the device's own interface, polled as
  their descriptors ask; a key is notified once when it goes down.
* PORTSC: reading, masking and writing back is as good as one step on one bit.
* Pool: blocks never overlap, lie where they were asked for, and last for what
  start-up needs.
* Start-up: the BIOS is gone before the driver resets, the reset happens only
  while halted, nothing written is lost to the reset, all loops end.
* PCI: everything reachable is found once, the scan ends on every machine, the
  ports shared with EHCI controllers go to the controller that is used.
* Screen: the console holds the last lines, the screen shows them, and nothing of
  an earlier cursor stays.
* Loader: the kernel starts only from a complete image, firmware stopped, and
  the loader writes only to its own pages.

The list of what is hard to test, line by line, is `hazards` in `PROJECT.json`.

## 2. Plan

Order of work, most important behaviour first.

1. **Port configuration** (`UsbBus`, `PortConfig`): modelled, and all its safety
   properties proved but two, which do not hold (`ScratchpadKept`, `TurnPassedOn`, section 7).
2. **Rings** (`Fifo`, `CommandRing`, `EventRing`) and the way of a command
   through both (`CommandPath`): modelled, all safety properties proved.
3. **Device and HID** (`ArrayMap`, `EndpointContext`, `UsbDevice`): modelled, all
   safety properties proved.
4. **PCI, loader, pool, start-up** (`PciScan`, `Loader`, `MemoryPool`,
   `XhcStartup`): modelled, all safety properties proved but one, which does not
   hold (`ScansFromBusZero`, section 7).
5. **The screen** (`Terminal`, `Desktop`) and **PORTSC** (`PortBits`,
   `PortRegister`): modelled, all safety properties and refinements proved.
6. **Left**: the liveness properties stay with TLC (section 6); what is not modelled
   at all is in section 8.

Abstract specifications: `UsbBus` (what a root hub needs from a driver) is
implemented by `PortConfig`; `Fifo` by `CommandRing`, by `EventRing`, by both
together from `Push` to handler (`CommandPath`) and, with capacity 1, by the report
buffer of `UsbDevice`; `PortBits` (a port's bits set and cleared in one step) by
`PortRegister`; `Terminal` (the last lines written) by the console of `Desktop`.

Composition. `PortConfig` uses rings as plain queues and changes bits of PORTSC in
one step; `CommandPath`, which runs `CommandRing` and `EventRing` together, and
`PortRegister` show that it may. `PortConfig` sees a device as
"asks for one control transfer after another until it is initialised";
`UsbDevice` shows that conversation and takes from `PortConfig` only its start
(`InitializeDevice`) and its end (`CompleteConfiguration`). `UsbDevice` uses the
operators of `ArrayMap` and `EndpointContext`; `XhcStartup` extends `MemoryPool`, so that
what start-up and devices allocate comes from one pool.

## 3. Modules and code

Variables and actions carry the names of the source. `PROJECT.json` (`map`)
gives the lines behind every definition. Definitions commented as *mutants* are
plausible mistakes; replacing the definition that follows them by one of them
must break a property, and nothing else uses them.

### UsbBus

An abstract root hub: a device is detached, attached, at address 0 (`default`)
or addressed. `Reset(p)` is allowed only while no other device is at address 0.
This is the reason, given in the comment at `xhci.cpp:32-36`, why ports are
configured one at a time.

### PortConfig

The core. State: `port_config_phase`, `addressing_port`, `devices` (a device
object has the port in its input context, the port the controller wrote to its
output context, and `initialize_phase_`), the DCBAA, and for each port PORTSC's
reset and change bits and the state of the device behind it.

| Action | Code |
|---|---|
| `ConfigurePort` | the port loop, `main.cpp:177-192`, with `ConfigurePort` and `ResetPort`; a port that reads as not connected is left alone in both |
| `OnPortStatusChangeEvent`, `OnEnableSlotCompleted`, `OnAddressDeviceCompleted`, `OnConfigureEndpointCompleted`, `OnTransferEvent` | one round of the event loop: `ProcessEvent`, the handler, everything it calls, and `Pop` |
| `ResumeAfterReset` | the end of the busy wait in `Port::Reset` and whatever its caller still has to do: return to the port loop, or `InitializeDevice` of the port that has just been addressed, and `Pop` |
| `Connect`, `Disconnect`, `PortResetDone`, `RunCommand`, `CompleteTransfer` | user, device and controller |

A handler runs to its end in one step except at the busy wait in `Port::Reset`,
the only place where it depends on the controller's progress. `spin` is the
program counter of that wait, with what its caller will do next; the handler's
event stays at the front of the ring until then.

Abstractions. Reading `IsConnected` and writing the reset bit are one step
(a device unplugged in between looks like one unplugged just after). A failed
transfer, a rejected descriptor and an unsupported device are one outcome,
`ok = FALSE`, after which the driver asks for nothing more. What a class driver
transfers is one pending transfer, `"class"`. The controller may or may not
queue an event when another change bit of the port is already set
(`ReportChange`), because controllers differ there. The event ring is unbounded
here; how a full ring behaves is in `EventRing`. Context contents (speed, packet
sizes, intervals) are left out, except that a disconnected port has no speed,
which makes `ConfigureEndpoints` return.

### Fifo, CommandRing, EventRing, CommandPath

`Fifo` is a queue with `Put` and `Take`. `CommandRing` is `Ring` with the
controller reading it: `WriteData`, `WriteControl` (the word with the cycle
bit, `CopyToLast`), `Advance`, `WriteLinkData`, `WrapAround`, `RingDoorbell` are
the stores of `Push` that the controller can see separately; `Execute`,
`FollowLink` and `GoIdle` are the controller's. A controller that found nothing
looks again only after a doorbell. `Push` does not check for room; the driver
keeps few TRBs outstanding (`MaxPending`, at most `Size - 2`, since the Link TRB
is written lazily; with 32 TRBs that is 30). `PortConfig!InFlightMatchesPhase`
bounds what the driver has outstanding to one command per slot and one more.
`EventRing` has the controller's `PostEvent`
and the driver's `BeginHandler` (reads the front), `EndHandler`, `Pop`; the
controller may write between any two.

Neither runs alone: `CommandPath` composes them as `ProcessEvent` does. A handler
pushes commands (`HandlerPushes`, `HandlerFinishesPush`) and returns
(`HandlerReturns`); the controller executes a command and posts its completion
(`Answer`), with port status changes in between (`PortChanges`). A completion holds
the position of its command, and `IssuerKept` says that the TRB there is still that
command when the handler looks (`xhci.cpp:228`). It is true only because few
commands are outstanding; without `MaxPending` it fails. `answers` is a history
variable that counts the completions handled; the commands numbered from there to
`next` are `Outstanding`, the queue of `Fifo` that the whole path implements.

### ArrayMap, EndpointContext, UsbDevice

`ArrayMap` holds `Get`, `Put`, `Delete` as operators on an array of slots, with
`Put` not looking for an existing key and doing nothing when there is no room.
`UsbDevice` is one device: `usb::Device`, `xhci::Device` and `HIDBaseDriver`,
with the transfer ring of endpoint 0 as an array of TRBs by position
(`pipe.ring`), because the driver reads the setup stage back from it. One
action per outcome of a transfer event (`TransferFailed`, `OnInterruptCompleted`,
`InitializePhase1`..`3`, `HIDOnControlCompleted`, `AnswerRefused`) and
`CompleteConfiguration`; the controller executes one TRB per step (`Execute`),
any of which may fail. The configuration descriptor is a sequence of interface,
endpoint and other descriptors, from which `InitializePhase2` takes the first
supported interface and its endpoints. `EndpointContext` holds what
`ConfigureEndpoints` makes of an endpoint: its index, type and interval at the
device's speed. Reports are bytes (8 of the 1024 of the buffers, as many as a boot
report has); `OnInterruptCompleted` tells the observers what changed (`notified`)
before it copies the report; `Buffers` is what reports may make of a buffer. Assumed of devices
(`ConfigurationAssumption`, `ReportAssumption`), as the USB and HID specifications
demand of them: the supported interface is followed by the endpoints it counts, at most 16
of them, among them an interrupt-in one; every endpoint has an address of its own
and an interval that USB allows at its speed; the second byte of a
keyboard's report is reserved and zero. The `SetProtocol` requests of the endpoint
numbers fit the ring and the setup stage map, as those of the 15 numbers there are
do with the sizes of the code. The Link TRB is left out, as
`CommandRing` shows it makes no difference.

### PciScan

The recursion of `ScanBus`/`ScanDevice`/`ScanFunction` as a stack of positions,
one step per function header read; a full table ends every level.
`NextHostBridge` is the loop over a multi-function host bridge in `ScanAllBus`,
`FindXhc` the choice in `KernelMain`, `TakeOver` what follows it: `SwitchEhci2Xhci`,
which routes the ports an Intel xHC shares with EHCI controllers, and `ReadBar`. The
machine (`topology`) is chosen in `Init`. `Reachable` is what the scan is
measured by: the functions on the buses that bridges lead to, which is the least
set of buses closed under them.

### Loader

`UefiMain` by calls: a call that may fail, or whose effect the memory map key
depends on, is a step. Calls whose statuses are checked and that only use the
firmware's memory are taken together (`SaveMemoryMap`, `ReadKernel`); a failure of
one of them halts. `OpenRootDir` and `OpenGOP` drop the statuses of their calls:
a failure leaves their pointer in `unset` and the loader goes on. Whoever uses
a pointer in `unset` may end in `"undefined"`: of what the program does then
nothing is known. `gop` is used by reading only, so that anything may also be read
there (`PrintMode`, `FormatRead`).
`CopyLoadSegments` copies one segment per step. The firmware changes the
memory map at any time (`FirmwareEvent`) while boot services run. Assumed of
kernel files (`KernelAssumption`), from the linker options of
`kernel/Makefile`: the lowest LOAD segment begins on a page and holds the ELF
header, segments do not overlap and fit memory, the file holds what its program
headers (`ProgramHeader`, the fields the loader reads) say it holds.

### MemoryPool

`AllocMem` in full, for any set of requests and any address of the pool. `Ceil` is
written with `%`; it equals the mask of the code for powers of two, which all
callers pass. For the same reason the alignment of a request divides its boundary
(`BoundaryAssumption`); TLC evaluates that for the requests of the code in
`xhc_startup`.

### XhcStartup

`RequestHCOwnership`, `Initialize` and `Run`: one step per access to a register
that somebody else may change. USBCMD is read into a local copy (`usbcmd`) and
written back in another step. The registers and tables the controller learns of
after the reset are five `Structures`, written one per step. Every allocation is a
step of `MemoryPool`, with the sizes of the code. A refused one that is looked at
ends `Initialize` (`AllocOrFail`): `KernelMain` logs the error and calls `Run` all the
same. Scratchpad pages are not looked at (`AllocPage`). Later, devices
take from the same pool (`AllocForDevice`). The walk along the extended capability
list is one step. The BIOS may start and stop the controller as long as it owns
it. It leaves its two semaphores in any state. When that of the OS is set already,
`RequestHCOwnership` returns without looking at the other one
(`xhci.cpp:297-299`); `shared` is a history variable that says that the BIOS
still owned the controller then, in which case nobody ever waits for it.

### PortBits, PortRegister

`PortBits` is a port as `PortConfig` thinks of it: `Reset` and `Clear(bit)` in one
step, and what the hub does. `PortRegister` has `Port::Reset` and the two clearing
functions as a read with a mask (`BeginReset`, `BeginClear`) and a write
(`WriteBack`), with the hub's steps between them; `Write` says what a written 0 or 1
does to each bit of PORTSC. `ResetWaits` is the end of the busy wait. Left out: a
controller that switches a port's power off between the two accesses has it
switched on again, because the power bit is written back as it was read.

### Terminal, Desktop

`Terminal` is a console without a screen. `Desktop` is the frame buffer by offsets
with its writers: the desktop `KernelMain` draws, `Console` (`PutChar`, `Newline`,
`Scroll`), `Log`, and `MouseCursor` (`MoveRelative`). `PixelAt` computes offsets as the code
does, in 32 unsigned bits. The code keeps the cursor nowhere; `Reach`, the positions
it is taken to, is a bound of the run, and may be all pairs of integers. Writes outside the frame are collected in `beyond`. A
call is a step, as the kernel is one thread that polls. `Glyph` is the pixels of a
character, `WriteString` those of a row up to its NUL. `smeared` is a history
variable: where the cursor was erased since the console last painted there.
Assumed (`FrameAssumption`, `TextAssumption`): console, task bar and panel fit on the screen,
whose frame buffer is not larger than the 4 GiB that `PixelAt` can count; glyphs fit their cell;
the texts are C strings.

### MC modules and proofs

`MCUsbDevice`, `MCPciScan`, `MCLoader`, `MCXhcStartup`, `MCDesktop` hold only the inputs
of the runs. The theorems are in modules of their own:

| Proofs | About |
|---|---|
| `PortConfigProofs` | `PortConfig`: types, the turn, refinement of `UsbBus`; then phases, slots, commands in flight, waiting ports |
| `CommandPathProofs` | `CommandRing`, `EventRing` (a lemma per step of each) and `CommandPath`: both rings and the way through them |
| `UsbDeviceProofs` | `UsbDevice` with `ArrayMap` and `EndpointContext` |
| `PortRegisterProofs` | `PortRegister` |
| `XhcStartupProofs` | `MemoryPool`, and `XhcStartup` on top of it |
| `PciScanProofs` | `PciScan` |
| `LoaderProofs` | `Loader` |
| `DesktopProofs` | `Desktop`, refinement of `Terminal` |

## 4. Runs, bounds and what they show

| Run | Module, configuration | States | Shows |
|---|---|---|---|
| `faults` | `PortConfig`, `Faults.cfg` | 153 460 | `TurnExclusive`, `OneDefaultAddress`, `SlotsMatchPorts`, `InFlightMatchesPhase`, `ContextLoaded`, `PhasesAdvance`, refinement of `UsbBus`, with unplugging and failures; `TurnEnds` |
| `calm` | `PortConfig`, `Calm.cfg` | 59 721 | `NoLostTurn`, `EveryPortConfigured` without them |
| `lost_turn` | `PortConfig`, `LostTurn.cfg` | | `TurnPassedOn` fails when a waiting device is unplugged (section 7) |
| `scratchpad` | `PortConfig`, `Scratchpad.cfg` | | `ScratchpadKept` fails with more devices than slots (section 7) |
| `command_path` | `CommandPath`, `CommandPath.cfg` | 65 756 | each ring is a FIFO queue, both are one from `Push` to handler; a completion's command is still there when it is handled; every command is answered |
| `usb_device` | `MCUsbDevice`, `UsbDevice.cfg` | 73 226 | answers match requests, the right endpoints are configured and polled as asked, reports are read once and in order, keys notified once, the device is never forgotten |
| `pci_scan` | `MCPciScan`, `PciScan.cfg` | 10 802 | the scan ends, is complete, finds nothing twice, fits the table; the choice of the controller, the routing of its ports |
| `pci_bus_zero` | `MCPciScan`, `PciBusZero.cfg` | | bus 0 is missed behind a multi-function host bridge (section 7) |
| `loader` | `MCLoader`, `Loader.cfg` | 24 660 | the kernel starts from a complete image with the firmware stopped; boot ends, in the kernel or in `Halt` unless a call failed whose status is dropped |
| `xhc_startup` | `MCXhcStartup`, `XhcStartup.cfg` | 532 252 | reset only halted and without a BIOS that was waited for, nothing that is written lost to the reset, controller runs; blocks apart and placed as asked; pages for all scratchpad buffers |
| `desktop` | `MCDesktop`, `Desktop.cfg` | 103 410 | the console is a terminal, the screen shows it, only the cursor writes off the frame |
| `port_register` | `PortRegister`, `PortRegister.cfg` | 2 328 | refinement of `PortBits`; the wait for a reset ends |

Why the bounds are enough:

* `Faults.cfg`: 2 ports and 2 slots. Two ports are what the turn is about; the
  proofs of section 6 cover the rest. A device that was unplugged and plugged
  in again does not get a new slot in this code (a port leaves its last phase
  never), so 2 slots serve 2 ports and the failing Enable Slot is in `Faulty`.
* `Calm.cfg`: 3 ports, so that two wait while one has the turn, and the choice
  among waiting ports matters. Nothing is unplugged: with unplugging the
  properties do not hold (section 7).
* `LostTurn.cfg`: 3 ports, the fewest with which one waiting port can be unplugged
  and another be left waiting.
* `CommandPath.cfg`: a command ring of 4 slots, an event ring of 3, 2 commands
  outstanding: two laps differ only in the cycle bit, so every combination of the
  positions of readers and writers occurs. Commands are numbered modulo 5, more than
  there are slots, so a lost, repeated or reordered one is seen.
* `UsbDevice.cfg`: the code's own sizes: 32 TRBs (31 and the Link TRB), 16
  entries, 4 waiters. The device with 15 endpoint numbers uses 30 TRBs for its
  `SetProtocol` requests and needs more waiters than there are. Nine
  configurations: other functions before and behind the HID interface, two boot
  interfaces, one number for two endpoints. Two speeds, one for each formula
  of the interval. Keyboard reports hold up to two keys, one of which has the code
  of a modifier bit; mouse reports may be short.
* `PciScan.cfg`: three buses with two devices of two functions; 6 table
  entries, so that the table fills up on some machines and not on others;
  bridges to every bus, back to bus 0 and to themselves included; an EHCI
  controller of Intel or of another make, two kinds of xHC, and three BARs (32 bits,
  64 bits below and above 4 GiB).
* `Loader.cfg`: pages of 4 addresses, 20 addresses, segments that end inside a
  page, on its edge, or hold no file bytes; `MaxChanges = 3` changes of the
  memory map by the firmware, one more than the loader's two tries.
* `XhcStartup.cfg`: the pool of the code, 128 KiB, at every multiple of 64 bytes
  within a page (the alignment `memory_pool` has) and at one address where the
  command ring would cross 64 KiB. Controllers that want 0, 1, 30, 31 or 32
  scratchpad buffers: none, one, what always fits, and what fits or not depending
  on the address. `MaxWakes = 2` lets the BIOS start and stop the controller (and stop
  and start a running one) while the driver waits. `MaxBlocks = 4` blocks of the sizes of devices.
* `Desktop.cfg`: 3 by 3 pixels, glyphs of one pixel, a console of two rows of two
  letters, a cursor of two pixels. The cursor can hang over every edge (`Reach` goes one
  pixel beyond the left and upper edges and up to the right and lower ones),
  cover text and task bar and be scrolled under; one character has no glyph and
  one text is wider than the console.
* `PortRegister.cfg`: one port, all bits of the register; two change bits stand for those
  the driver does not know, three contents of the link state.

Deadlock is checked except in `usb_device`, `pci_scan`, `pci_bus_zero`, `loader`
and `xhc_startup`, whose systems really come to an end (a device that failed;
the scan is over; the kernel or `Halt` is reached; the controller runs).
In `usb_device` the invariant `KeepsPolling` takes deadlock's place: whenever
nothing is under way the device is polled, unless something went wrong.

## 5. Fairness

* `PortConfig!FairSpec`: the driver is one loop without blocking calls, so
  `ConfigurePort`, `ResumeAfterReset` and `ProcessEvent` are weakly fair; the
  controller ends resets, executes commands and completes control transfers.
  Devices need not send reports, users need not plug anything in.
  `Port::Reset` itself waits without a limit for exactly the step
  `PortResetDone`, so the code too relies on it. `faults` assumes the same; there
  `TurnEnds` shows that two mishaps alone (unplugging during the turn, a refused
  Address Device) keep a turn from ending.
* `CommandPath`: the event loop goes on and a handler finishes what it began; it need
  not push anything. The controller works on its ring. `Answer` is strongly fair:
  port changes may fill the event ring again and again, but not keep the controller
  from posting a completion for ever.
* `PortRegister`: the driver writes what it has read and polls; the hub ends a reset.
* `PciScan`, `Loader`: one sequential program that goes on; the firmware's events
  are not fair.
* `XhcStartup`: the driver polls; the controller halts, resets and becomes
  ready, and the BIOS gives up ownership when asked to: the code waits for each of
  these without a limit. A BIOS that is not asked need not give it up.
* `UsbDevice`, `MemoryPool` and `Desktop` state no liveness and assume no fairness.

## 6. Proofs

Each theorem holds for every value of the constants that the named assumptions of
its module allow. TLC evaluates those assumptions in every run.

| Theorem | States | For |
|---|---|---|
| `TypeCorrect` | `Spec => []TypeOK` | 1..255 ports, 1..255 slots, with or without unplugging and failures |
| `TurnIsExclusive` | `Spec => []TurnExclusive` | the same |
| `NoTwoAtDefault` | `Spec => []OneDefaultAddress` | the same |
| `ImplementsBus` | `Spec => BusSpec` | the same |
| `NoPhaseTwice` | `Spec => PhasesAdvance` | the same |
| `SlotsAreOwned` | `Spec => []SlotsMatchPorts` | the same |
| `InFlightIsAwaited` | `Spec => []InFlightMatchesPhase` | the same |
| `ContextIsLoaded` | `Spec => []ContextLoaded` | the same |
| `NoTurnIsLost` | `~HotUnplug /\ Spec => []NoLostTurn` | the same, nothing unplugged (with unplugging it fails, section 7) |
| `PathTypeCorrect` | `Spec => []TypeOK` | rings and segments of every size |
| `CommandRingIsFifo` | `Spec => RingImplementsFifo` | the same |
| `EventRingIsFifo` | `Spec => EventsImplementFifo` | the same |
| `PathIsFifo` | `Spec => AnsweredInOrder` | the same |
| `IssuerIsKept` | `Spec => []IssuerKept` | the same |
| `UsbTypes` | `Spec => []UsbTypeOK` | every device that fits the assumptions, rings and maps that hold its requests |
| `StagesAreKept` | `Spec => []SetupStageKept` | the same |
| `RequestsMatch` | `Spec => []RequestMatchesPhase` | the same |
| `EndpointsAreOwn` | `Spec => []OwnEndpoints` | the same |
| `EndpointsAreServed` | `Spec => []ServedAsAsked` | the same |
| `NothingIsForgotten` | `Spec => []KeepsPolling` | the same |
| `StreamIsFifo` | `Spec => ReportsInOrder` | the same, every report |
| `KeysAreEdges` | `Spec => KeyEdges` | the same, keyboards |
| `PortIsAtomic` | `Spec => AtomicPort` | any further change bits and link states of the hub |
| `PoolIsSafe` | `PoolSpec => []BlocksApart` | every pool, at every address, every set of requests |
| `PoolPlacesRight` | `PoolSpec => []PlacedAsAsked` | the same |
| `ResetOnlyHalted` | `Spec => []ResetWhileHalted` | however often the BIOS starts the controller; unless the OS semaphore was set while the BIOS still owned it (`shared`) |
| `StartupPoolIsSafe` | `Spec => [](BlocksApart /\ PlacedAsAsked)` | every pool size, number of slots, device |
| `CodeRunsConfigured` | `CodeSizes /\ Spec => []RunsConfigured` | the pool size and slot count of the code, every pool address, every controller |
| `ScanFinds` | `Spec => []ScanIsComplete` | every machine, every size of the table |
| `PortsAreRouted` | `Spec => []PortsRouted` | the same |
| `OnlyOwnPages` | `Spec => []WritesOwnPages` | every page size and every kernel file that fits `KernelAssumption` |
| `StartsFromWholeImage` | `Spec => []KernelStartsClean` | the same |
| `ScreenStaysTrue` | `Spec => []ScreenIsTrue` | every resolution, console, font, cursor shape, cursor position and text |
| `OnlyCursorWritesOutside` | `Spec => OnlyCursorLeaves` | the same |
| `ConsoleImplementsTerminal` | `Spec => ConsoleIsTerminal` | the same |

### The turn (`PortConfigProofs`)

`TurnExclusive` says that a port is in one of the
three phases of the turn exactly if it is `addressing_port`, or if it is the
port that has just been addressed while the driver busy-waits for the reset of
the next. That alone is not inductive, and neither is `TypeOK`: popping an event
at the end of a busy wait needs an event to be there. The inductive invariant

    IInv == TypeOK /\ HandlerHasEvent /\ TurnInv /\ BusInv

adds what the handlers rely on without saying so. `HandlerHasEvent`: a handler
that busy-waits still has its event at the front. `TurnInv`: the port waited for
has the turn and is in `ResettingPort`; the port whose turn has ended is another
one, still in `AddressingDevice`. `BusInv` relates the phases to the devices: only
the port being waited for is in reset; a device at address 0 is at the port
with the turn; a port whose device has an address, and a port named by a device
object, is past the phases in which `ResetPort` resets. The last part is what
prevents a late connect event from resetting a configured port, and what makes
the turn end only once the device has left address 0: `addressing_port` changes
in `OnAddressDeviceCompleted` only if the output context names the port, and
the controller writes it only when the device takes its address, also when
other commands failed or the device is unplugged meanwhile.

`Init => IInv`, `IInv /\ [Next]_vars => IInv'` with one lemma per action, and
`IInv => OneDefaultAddress` give the theorems; the refinement follows from
`IInv` action by action, since only `PortResetDone` puts a device at address 0.

### Slots and commands in flight (`PortConfigProofs`)

    ServiceInv == IInv /\ SlotInv /\ Begun /\ FlightInv

A handler finds its port in one of two ways: through `addressing_port`, or through
the slot of its event and the port in that slot's output context. Neither checks that
the answer is the one awaited. `SlotInv` says what the second way rests on: a slot in
use comes from the controller, its output context names no other port than its
input context, and no two slots name one port. `Begun` gives the other direction: a port past
address assignment has a slot, whose device object is as far as the port. `FlightInv` says
that each command or completion in flight is `Due`: the phase of its port
waits for it, a slot just enabled has no device object, and a command that is still
to be executed has its contexts in place; and that no request is in flight twice. The three need
one another: what a handler does to the phase of one port must not be what something
else in flight waits for, which follows from the uniqueness of the request in flight and of
the slot's port.

The proof that a step keeps `FlightInv` goes backwards. `Carries(f, N)` maps everything in flight after
the step, but what the step pushed (`N`), to what it was before: the same, one place further
(`OnePopped`), or the command that has just become a completion (`OneRan`). What was
due before is due after unless the step changed the phase it waits for, and then it
was the event just popped.

`NoPhaseTwice` lists the moves of a phase (`Forward`) and shows that each step makes one move
at most. `NoTurnIsLost` adds `CalmInv`: every port past `NotConnected` is connected, and
while one waits somebody has the turn. At the end of a turn the scan takes the smallest
waiting port, which exists (`SmallestPort`) and is connected, so that `ResetPort` takes the
turn. That connected ports stay connected is where the hypothesis comes in.

### Rings (`CommandPathProofs`)

`RingInv` and `EventInv` say what a cycle bit means in the middle of a lap.
`Laps`: slots before the write index carry the driver's cycle bit, the others the opposite one.
`Links`: the Link TRB is only ever at the end. `InBounds`: the reader is behind the
writer by at most `MaxPending`, on the same lap or one before. `HalfWritten`: between the two stores of
`Push` the slot is not yet the controller's. For the event ring `EventLaps` and
`NotPast` do the same with the roles swapped, and `OnEvent` keeps the handler on an event that is
there. From them follow, slot by slot, what the controller would read
(`OwnedIsWaiting`) and that the queue it stands for has these elements (`PendingIsWaiting`,
`UnhandledIsLaid`). Each step then is a `Put`, a `Take` or a stutter of `Fifo`; a push counts from the
store of the control word on.

For both rings together, `PathInv` counts commands back from the last one pushed (their
age): which slot and number age k has (`Back`, `Number`), that unanswered commands still have their
TRB (`Written`), that a completion waiting in the event ring is that of an executed command and points to its
TRB (`Genuine`), and that completions wait in order with none left out (`InOrder`,
`NoneLost`). `Room` bounds the ages by `MaxPending`. A push makes everything one older, a
handled completion takes the oldest away. `IssuerKept` is `Genuine` and `Written` together;
the refinement by `Outstanding` needs `NoneLost`, which says that the completion handled
next is that of the oldest command.

### Device and HID (`UsbDeviceProofs`)

    UsbInv == UsbTypeOK /\ AskInv /\ DriverInv /\ CommandInv /\ ProtocolInv /\ PollInv /\ WrongInv

An answer names a position of the ring, and the driver finds what it asked by the
setup stage map. `SetupStageKept` says that this works; that alone is not inductive. What makes it so
is an account of the last requests, counted back from the write index (`Back`): up to the
configuration of the endpoints there is one (`AskInv`), with its stages in the ring, at most one
answer, and its slot of the map taken as long as the answer may come. After that there is one
per endpoint number (`ProtocolInv`), each filed in a slot of its own: this is where
one `SetProtocol` per number would go wrong if they did not fit. While the controller
configures the endpoints the pipe is at rest (`CommandInv`), so that the two accounts never
overlap. `RequestMatchesPhase` follows, as an answer cannot come for anything else.

`DriverInv` holds what phase 2 found in the descriptors. `EndpointsFrom`, the loop of the code
with its count, and `Own`, the descriptors up to the next interface, take the same places: the
`Ranks` of a finite set of numbers are 1 up to its size. `ServedAsAsked` then rests on
`IntervalIs`: an exponent rounded down gives at most the interval asked for and more than
half of it.

`PollInv`: one transfer for reports at most, queued or answered, and the report buffer differs
from the one before by that answer only, so that reading it takes from `Fifo` exactly the one that
was put (`StreamIsFifo`), and comparing it with the one before gives the edges (`KeysAreEdges`).
`WrongInv` says in each phase what must be under way unless something failed; when nothing is,
only polling is left, as `KeepsPolling` says.

### PORTSC (`PortRegisterProofs`)

The copy that is about to be written may be old. `RegisterInv` (`CopyFor`) says in which bits
it may not be: those that a write keeps as written are equal in copy and register, because no
hub changes them; the bits that react to a 1 are masked off, except those named. So the write-back
is the one step of `PortBits` on the register as it is by then.

### Pool and start-up (`XhcStartupProofs`)

`BlocksApart` is inductive with the fact that every
block lies below `alloc_ptr`, which is not below `memory_pool`. Alignment and boundary
enter through `CeilBounds` and `PlacedBounds`: the place chosen is never
below the pointer. `PlacedAsAsked` is about remainders: `CeilDivides` (rounding up gives a multiple),
`DividesAlong` (a multiple of the boundary is one of the alignment, which divides it), and `WithinBoundary` (a block that
begins on a boundary and is no longer than it crosses none, nor does one that ends before
the next).

`StepOfPool` shows that a step of start-up is one of the pool or leaves it alone, so both
properties hold of it (`StartupPoolIsSafe`).

`ResetWhileHalted` needs an account of what BIOS, controller and the copy of USBCMD know of
one another. `TakeoverInv`: the BIOS owns the controller only up to the ownership
handshake, or when start-up was given up before it (`Owned`); the copy of USBCMD agrees with
the register in R/S wherever it is written back, and between the stop and the reset R/S is
clear, so that a controller once halted stays so (`Stopped`); HCRST is set only while the driver
waits for it (`ResetOnce`). The first two hold only without `shared`: a BIOS that was not
waited for writes R/S when it likes, and then the theorem claims nothing of the reset and
`RunsConfigured` nothing of R/S.

`RunsConfigured` limits its claim to controllers that want at most `EnoughFor` scratchpad buffers. That
this limit is right depends on sizes: `CodeRunsConfigured` is stated for the 128 KiB and 8 slots of
the code. `ReadyInv` says what has been told to the controller at each step (`Told`), that nobody
else touches it (`Alone`), how the interrupt enable gets through the copy of USBCMD (`Enabled`),
how much of the pool is gone at the most (`Room`), and that the pages are all there (`Pages`). A
block costs its size, at most its alignment less one for rounding up, and at most its size again for the
boundary; pages cost exactly their size once the first is aligned. For 30 buffers the last
request, the segment table, fits behind at most 129 967 of the 131 072 bytes. For controllers that want
more nothing is claimed (`SizesInv`): whether 31 fit depends on the address of the pool.

### PCI (`PciScanProofs`)

    ScanInv == ScanTypeOK /\ HostInv /\ CoverInv /\ SeenInv /\ (IsTree => OnceInv)

The recursion is a stack, so the invariant speaks of all levels at once. `CoverInv`: each bus the
scan started with, and each behind a bridge that was found, is done, or on the stack and done up to
the position there, unless the table was full. `SeenInv`: the buses on the stack can be
reached. When the stack is empty, what was found is closed under bridges (first part) and
within what can be reached (second part), and `Reachable` is the least set like that; so the two are
equal. `OnceInv`, on a tree of buses only, adds that a bus on the stack is there once
and what was found on it lies before the position, so that nothing is entered twice.
`ChoiceInv` says of the choice what `PortsRouted` needs: once made it is in the table
and Intel's if there is one, and only then is anything routed.

### Loader (`LoaderProofs`)

`LoaderInv`: pages are allocated for the whole image before anything is copied, from the lowest
address of a LOAD segment to the highest, rounded up (`PagesHoldImage`, on `LeastElement`,
`GreatestElement` and `RoundedUp`); segments already copied are in place and later ones leave them alone
(`Copied`); the firmware runs until it is left and is not called after that on the way to the
kernel (`Quiet`); the entry point was read from the image (`Entered`).

### The screen (`DesktopProofs`)

`DesktopInv`: the console is in order (`ConsoleOK`) and the screen is right but for cursor and
smears (`RightOutside`). `ConsoleOK`: a line is text before the column and NUL behind it, the lines
below are empty, the last two bytes of a row are never text, no text lands outside the frame.
That text writes only in the console's area is arithmetic (`GlyphInArea`, `PixelIs`: offsets do not
wrap in 32 bits there), and that the area ends above task bar, panel and button
(`BelowArea`) makes its background one colour (`DeskIs`). This is why `Scroll`, which
fills the area with that colour and writes the rows anew, leaves the screen right. The cursor
may be anywhere: what it paints is inside its shape, what it erases becomes `smeared`.

`PutString` and the step of `Terminal` are both folds over the characters. `RoundsAre` compares
them round by round: if they came apart there would be a first round where they do
(a least number exists by `LeastIs`), and `PutCharIsLine` says that one character leaves the console at the
terminal's lines. So no induction over the text is needed, and `ConsoleIsTerminal` is proved for
texts of every length.

### Only model-checked

Liveness: `EveryPortConfigured`, `TurnEnds`, `EveryCommandAnswered`, `ScanTerminates`,
`BootEnds`, `StartsUp`, `WaitEnds`. Fairness and `ENABLED` are beyond the backends used
here. Every other property of a passing run is a theorem; every run still checks the
properties proved, on its instance, so that a slip in a module shows up before a proof is tried.

## 7. Divergences found

* **A turn can be lost** (`lost_turn`). At the end of a turn, `xhci.cpp:255-263`
  resets the first waiting port and leaves the loop. `ResetPort` does nothing
  if that port is no longer connected; then no port has the turn and no later
  event looks at the other waiting ports. In the trace port 1 has the turn, 2 and 3
  wait, 2 is unplugged, the turn of 1 ends, the loop stops at 2, and 3 is left waiting.
  The comment at `xhci.cpp:34-35` describes 3 as waiting for that sequence. There is a
  second way to be left, which the `break` has nothing to do with: a port that is unplugged
  when the turn ends and plugged in again later is still in `kWaitingAddressed`, in which
  `OnEvent` refuses its connect event (`xhci.cpp:204-205`). `NoLostTurn`, a statement about
  every state, fails with unplugging in both ways; `TurnPassedOn`, about the step that
  ends a turn, only in the first.
* **Entry 0 of the DCBAA can be overwritten** (`scratchpad`). `OnEvent` does not
  look at completion codes. If Enable Slot fails (more devices than
  `kDeviceSize`), the slot is 0, which `AllocDevice` and `LoadDCBAA` accept;
  the scratchpad array that `Initialize` put there (`xhci.cpp:367`) is lost to
  the controller.
* **Bus 0 is not scanned behind a multi-function host bridge** (`pci_bus_zero`).
  The loop at `pci.cpp:169` starts at function 1 and never scans bus 0;
  `pci.hpp:77` says that the scan starts there.

Two more are in the models, and the comments of the properties that passing runs check
state them as exceptions; they have no run of their own:

* **Intervals are not what their comment says.** `endpoint.hpp:62` gives
  `EndpointConfig::interval` the meaning of 125*2^(interval-1) microseconds at every
  speed. The field holds the descriptor's `bInterval` as it is, and `ConfigureEndpoints`
  takes it for milliseconds at low and full speed (`xhci.cpp:440-443`). The code does what USB
  asks for (`ServedAsAsked`), so it is the comment that is wrong: at full speed an interval
  of 1 is 1 ms, not 125 microseconds.
* **A root directory or display that cannot be opened is not noticed.**
  `OpenRootDir` and `OpenGOP` (`Main.c:97-146`) drop the statuses of the calls they make and
  return `EFI_SUCCESS`, so the checks at `Main.c:221-224` and `252-255`, with their messages and
  `Halt`, never fire; the loader goes on through pointers that nothing has set. `BootEnds` says
  that this is the one way not to end in the kernel or in `Halt`.

Also seen, without a run of its own: when the firmware left both ownership semaphores set, the
driver stops and resets the controller while the BIOS owns it (`xhci.cpp:297-299`); no comment
promises anything for that state, and `ResetWhileHalted`, `RunsConfigured` and `StartsUp` state the
exception (`shared`).
`Main.c:377` prints after the boot services
have been stopped, when the pixel format is unknown. `Loader` records such
calls (`late_call`); `KernelStartsClean` shows that the kernel does not start
after one.
When a controller wants more scratchpad buffers than the pool has pages for (31 or
more of 32), `Initialize` fails, or leaves null pointers in the array, and the
controller is started all the same; `RunsConfigured` states the limit.
A key whose code equals the modifier byte of the report before is not notified
(`keyboard.cpp:19` searches all of the previous buffer); `KeyEdges` states the exception.
The cursor erases text and task bar with the desktop's colour, and drawn off the
left or right edge it appears on the next line, above or below the frame it writes
outside it; `ScreenIsTrue` and `OnlyCursorLeaves` (no text writes outside, wherever the cursor
is) say what remains true. A mouse report
shorter than three bytes notifies the displacement of the one before again.

## 8. What is not modelled

* The order of stores inside a handler. A handler of `PortConfig` or `UsbDevice` is one step
  up to its return or busy wait. That Address Device is pushed after the DCBAA entry was made
  (`xhci.cpp:155-160`), and that the next report is asked for after the last one was read
  (`hid.cpp:63-66`), is visible to the controller in between and is not checked;
  that both are done, once and for the right slot or buffer, is.
* Register, TRB, context and descriptor layouts: fixed by the hardware. Modelled are
  the bits of PORTSC and, of endpoint contexts, index, type and interval; otherwise the
  fields that the control flow depends on are record fields here. Maximum packet sizes
  are left out (the default pipe of every full-speed device is set up for 8 bytes,
  `xhci.cpp:58`; a device that needs more fails its transfer, as `Faulty` allows).
* Assembly, libc and libc++ stubs, build files, tools: no state or protocol of
  their own.
* Formatting of texts: `Log` and `printk` write to a buffer of 1024 bytes without
  looking at its end; the texts of the repository are shorter.
* Malformed descriptors (counts that are not true, an endpoint address used twice, an interval USB
  does not know), and configuration descriptors longer than the 256 bytes of
  `buf_`: excluded by `ConfigurationAssumption`.
* Functions nobody calls: `DeviceManager::Remove`, `FindByPort`, `FindByState`,
  `ControlOut` with data, `InterruptOut`.
* What a null pointer does when DMA memory runs out in the middle of configuring a
  device: callers do not look for `nullptr` and the source says nothing of that case.
  `XhcStartup` models the allocations and their refusal.
