----------------------------- MODULE XhcStartup -----------------------------
(***************************************************************************)
(* Controller::Initialize and Controller::Run (kernel/usb/xhci/xhci.cpp:   *)
(* 283-410): the driver takes the host controller over from the BIOS,      *)
(* stops and resets it, builds its data structures in the memory pool,     *)
(* tells it where they are and starts it.  All waiting is by polling a     *)
(* register.  Each access to a register is a step: the BIOS and the        *)
(* controller act in between, and USBCMD is changed by reading it,         *)
(* changing a copy and writing the copy back.  Each allocation is a step   *)
(* of MemoryPool.  Devices that come later take from the same pool.        *)
(***************************************************************************)
EXTENDS MemoryPool, Sequences, FiniteSets

CONSTANTS
  kDeviceSize,      \* slots the driver uses
  Scratchpads,      \* how many scratchpad buffers a controller may want
  DeviceRequests,   \* what configuring a device allocates
  MaxWakes,         \* bound: how often the BIOS starts or stops the controller
  MaxBlocks         \* bound: blocks like those of devices

Ask(s, a, b) == [size |-> s, alignment |-> a, boundary |-> b]

(* What Initialize allocates: two tables of pointers, the rings of 32 TRBs *)
(* and the segment table of one entry, the array of scratchpad pages.      *)
DeviceTable  == Ask(8 * (kDeviceSize + 1), 0, 0)
ContextTable == Ask(8 * (kDeviceSize + 1), 64, 4096)
TRBs         == Ask(32 * 16, 64, 64 * 1024)
SegmentTable == Ask(16, 64, 64 * 1024)
PageArray(n) == Ask(8 * n, 64, 4096)
Page         == Ask(4096, 4096, 4096)
StartupRequests == {DeviceTable, ContextTable, TRBs, SegmentTable, Page}
                   \cup {PageArray(n) : n \in Scratchpads}
AllRequests == StartupRequests \cup DeviceRequests

ASSUME BoundAssumption == MaxWakes \in Nat /\ MaxBlocks \in Nat
ASSUME SlotsAssumption == kDeviceSize \in 1..255 /\ Scratchpads \subseteq Nat
ASSUME AllRequestsAssumption == AllRequests \subseteq Requests

(* What the driver writes after the reset and the reset would undo.        *)
Structures == {"CONFIG", "DCBAAP", "CRCR", "ERST", "IMAN"}

VARIABLES
  (* The driver. *)
  pc,
  usbcmd,        \* the local copy of USBCMD
  scratchpad,    \* scratchpad_buf_arr: was there a page for each entry?
  (* Registers. *)
  max_scratchpad_buffers,                                \* HCSPARAMS2
  run_stop, host_controller_reset, interrupter_enable,   \* USBCMD
  host_controller_halted, controller_not_ready,          \* USBSTS
  legacy,        \* is there a USBLEGSUP capability?
  os_owned, bios_owned,                                  \* its semaphores
  shared,        \* history: did the driver go on without waiting while the
                 \* BIOS still owned the controller?
  written,       \* the structures the controller knows about
  (* The BIOS. *)
  wakes          \* how often it has used the controller

command == <<run_stop, host_controller_reset, interrupter_enable>>
status  == <<host_controller_halted, controller_not_ready>>
owner   == <<legacy, os_owned, bios_owned, shared>>
memory  == <<poolVars, scratchpad, max_scratchpad_buffers>>
vars == <<pc, usbcmd, command, status, owner, written, wakes, memory>>

ReadUSBCMD == [run_stop |-> run_stop, reset |-> host_controller_reset,
               inte |-> interrupter_enable]

(* A write of USBCMD: the controller runs as soon as R/S is set, and needs *)
(* a while to stop and to reset.                                           *)
WriteUSBCMD(r) ==
  /\ run_stop' = r.run_stop
  /\ host_controller_reset' = r.reset
  /\ interrupter_enable' = r.inte
  /\ host_controller_halted' = (host_controller_halted /\ ~r.run_stop)
  /\ UNCHANGED controller_not_ready

Goes(now, then) == pc = now /\ pc' = then

-----------------------------------------------------------------------------
(* The driver: RequestHCOwnership.                                         *)

(* Whoever finds the OS semaphore set takes the controller to be the OS's, *)
(* and does not look at the BIOS's semaphore.                              *)
FindLegacySupport ==
  /\ pc = "ownership"
  /\ pc' = IF legacy /\ ~os_owned THEN "request" ELSE "stop"
  /\ shared' = (legacy /\ os_owned /\ bios_owned)
  /\ UNCHANGED <<usbcmd, command, status, legacy, os_owned, bios_owned, written,
                 wakes, memory>>

RequestOwnership ==
  /\ Goes("request", "wait_owned")
  /\ os_owned' = TRUE
  /\ UNCHANGED <<usbcmd, command, status, legacy, bios_owned, shared, written,
                 wakes, memory>>

WaitOwned ==
  /\ Goes("wait_owned", "stop")
  /\ ~bios_owned /\ os_owned
  /\ UNCHANGED <<usbcmd, command, status, owner, written, wakes, memory>>

(* Stopping: the copy of USBCMD, then R/S cleared in it unless the         *)
(* controller is halted, then the write.                                   *)
ReadForStop ==
  /\ Goes("stop", "look_halted")
  /\ usbcmd' = [ReadUSBCMD EXCEPT !.inte = FALSE]
  /\ UNCHANGED <<command, status, owner, written, wakes, memory>>

(* Mutant of LookHalted: R/S is left as it is.                             *)
LookHaltedOnly ==
  /\ Goes("look_halted", "write_stop")
  /\ UNCHANGED <<usbcmd, command, status, owner, written, wakes, memory>>

LookHalted ==
  /\ Goes("look_halted", "write_stop")
  /\ usbcmd' = IF host_controller_halted THEN usbcmd
               ELSE [usbcmd EXCEPT !.run_stop = FALSE]
  /\ UNCHANGED <<command, status, owner, written, wakes, memory>>

WriteStop ==
  /\ Goes("write_stop", "wait_halted")
  /\ WriteUSBCMD(usbcmd)
  /\ UNCHANGED <<usbcmd, owner, written, wakes, memory>>

(* Mutant of WaitHalted: the controller is taken to stop at once.          *)
WaitHaltedNot ==
  /\ Goes("wait_halted", "read_reset")
  /\ UNCHANGED <<usbcmd, command, status, owner, written, wakes, memory>>

WaitHalted ==
  /\ Goes("wait_halted", "read_reset")
  /\ host_controller_halted
  /\ UNCHANGED <<usbcmd, command, status, owner, written, wakes, memory>>

ReadForReset ==
  /\ Goes("read_reset", "write_reset")
  /\ usbcmd' = [ReadUSBCMD EXCEPT !.reset = TRUE]
  /\ UNCHANGED <<command, status, owner, written, wakes, memory>>

WriteReset ==
  /\ Goes("write_reset", "wait_reset")
  /\ WriteUSBCMD(usbcmd)
  /\ UNCHANGED <<usbcmd, owner, written, wakes, memory>>

WaitReset ==
  /\ Goes("wait_reset", "wait_ready")
  /\ ~host_controller_reset
  /\ UNCHANGED <<usbcmd, command, status, owner, written, wakes, memory>>

(* Mutant of WaitReady: the end of the reset is taken for readiness.       *)
WaitReadyNot ==
  /\ Goes("wait_ready", "CONFIG")
  /\ UNCHANGED <<usbcmd, command, status, owner, written, wakes, memory>>

WaitReady ==
  /\ Goes("wait_ready", "CONFIG")
  /\ ~controller_not_ready
  /\ UNCHANGED <<usbcmd, command, status, owner, written, wakes, memory>>

(* Telling the controller: CONFIG, DCBAAP, CRCR, the event ring's segment  *)
(* table and IMAN, with the allocations between them.  What is written to  *)
(* a controller in reset or not yet ready is lost.                         *)
After == [CONFIG |-> "page_array", DCBAAP |-> "command_ring",
          CRCR |-> "event_ring", ERST |-> "IMAN", IMAN |-> "read_enable"]

WriteStructure ==
  /\ pc \in Structures
  /\ pc' = After[pc]
  /\ written' = IF host_controller_reset \/ controller_not_ready
                THEN written ELSE written \cup {pc}
  /\ UNCHANGED <<usbcmd, command, status, owner, wakes, memory>>

(* DeviceManager::Initialize and the Initialize of both rings.  When the   *)
(* pool has no room Initialize returns there, and KernelMain logs the      *)
(* error and calls Run all the same (main.cpp:167-172).                    *)
Checked ==
  { [at |-> "device_table",  wants |-> DeviceTable,  then |-> "context_table"],
    [at |-> "context_table", wants |-> ContextTable, then |-> "ownership"],
    [at |-> "command_ring",  wants |-> TRBs,         then |-> "CRCR"],
    [at |-> "event_ring",    wants |-> TRBs,         then |-> "segment_table"],
    [at |-> "segment_table", wants |-> SegmentTable, then |-> "ERST"] }

AllocOrFail ==
  /\ \E c \in Checked : /\ pc = c.at
                        /\ AllocMem(c.wants)
                        /\ pc' = IF Fits(c.wants) THEN c.then ELSE "run"
  /\ UNCHANGED <<usbcmd, command, status, owner, written, wakes, scratchpad,
                 max_scratchpad_buffers>>

(* The scratchpad: an array and its pages, if the controller wants any.    *)
(* Nobody looks whether there is a page.                                   *)
AllocPageArray ==
  /\ pc = "page_array"
  /\ \/ /\ max_scratchpad_buffers = 0
        /\ pc' = "DCBAAP"
        /\ UNCHANGED poolVars
     \/ /\ max_scratchpad_buffers > 0
        /\ pc' = "pages"
        /\ AllocMem(PageArray(max_scratchpad_buffers))
  /\ UNCHANGED <<usbcmd, command, status, owner, written, wakes, scratchpad,
                 max_scratchpad_buffers>>

AllocPage ==
  /\ pc = "pages"
  /\ AllocMem(Page)
  /\ scratchpad' = Append(scratchpad, Fits(Page))
  /\ pc' = IF Len(scratchpad') = max_scratchpad_buffers THEN "DCBAAP" ELSE pc
  /\ UNCHANGED <<usbcmd, command, status, owner, written, wakes,
                 max_scratchpad_buffers>>

ReadForEnable ==
  /\ Goes("read_enable", "write_enable")
  /\ usbcmd' = [ReadUSBCMD EXCEPT !.inte = TRUE]
  /\ UNCHANGED <<command, status, owner, written, wakes, memory>>

WriteEnable ==
  /\ Goes("write_enable", "run")
  /\ WriteUSBCMD(usbcmd)
  /\ UNCHANGED <<usbcmd, owner, written, wakes, memory>>

(* Controller::Run.                                                        *)
ReadForRun ==
  /\ Goes("run", "write_run")
  /\ usbcmd' = [ReadUSBCMD EXCEPT !.run_stop = TRUE]
  /\ UNCHANGED <<command, status, owner, written, wakes, memory>>

WriteRun ==
  /\ Goes("write_run", "wait_running")
  /\ WriteUSBCMD(usbcmd)
  /\ UNCHANGED <<usbcmd, owner, written, wakes, memory>>

WaitRunning ==
  /\ Goes("wait_running", "running")
  /\ ~host_controller_halted
  /\ UNCHANGED <<usbcmd, command, status, owner, written, wakes, memory>>

(* AllocDevice, AllocTransferRing and the class drivers: whatever devices  *)
(* the port configuration finds takes from the same pool.                  *)
AllocForDevice ==
  /\ pc = "running"
  /\ Cardinality({b \in blocks : b.req \in DeviceRequests}) < MaxBlocks
  /\ \E r \in DeviceRequests : AllocMem(r)
  /\ UNCHANGED <<pc, usbcmd, command, status, owner, written, wakes, scratchpad,
                 max_scratchpad_buffers>>

Initialize ==
  \/ AllocOrFail
  \/ FindLegacySupport \/ RequestOwnership \/ WaitOwned
  \/ ReadForStop \/ LookHalted \/ WriteStop \/ WaitHalted
  \/ ReadForReset \/ WriteReset \/ WaitReset \/ WaitReady
  \/ WriteStructure \/ AllocPageArray \/ AllocPage
  \/ ReadForEnable \/ WriteEnable

Driver == Initialize \/ ReadForRun \/ WriteRun \/ WaitRunning

-----------------------------------------------------------------------------
(* The controller and the BIOS.                                            *)

Halt ==
  /\ ~run_stop /\ ~host_controller_halted
  /\ host_controller_halted' = TRUE
  /\ UNCHANGED <<pc, usbcmd, command, controller_not_ready, owner, written, wakes, memory>>

(* A reset brings every register back to its default.                      *)
Reset ==
  /\ host_controller_reset
  /\ host_controller_reset' = FALSE
  /\ controller_not_ready' = TRUE
  /\ run_stop' = FALSE /\ interrupter_enable' = FALSE
  /\ host_controller_halted' = TRUE
  /\ written' = {}
  /\ UNCHANGED <<pc, usbcmd, owner, wakes, memory>>

BecomeReady ==
  /\ controller_not_ready
  /\ controller_not_ready' = FALSE
  /\ UNCHANGED <<pc, usbcmd, command, host_controller_halted, owner, written, wakes, memory>>

(* The BIOS lets go some time after it was asked to, and until then uses   *)
(* the controller as it likes.                                             *)
ReleaseOwnership ==
  /\ bios_owned /\ os_owned
  /\ bios_owned' = FALSE
  /\ UNCHANGED <<pc, usbcmd, command, status, legacy, os_owned, shared, written,
                 wakes, memory>>

BiosUses ==
  /\ bios_owned /\ wakes < MaxWakes
  /\ wakes' = wakes + 1
  /\ WriteUSBCMD([ReadUSBCMD EXCEPT !.run_stop = ~run_stop])
  /\ UNCHANGED <<pc, usbcmd, owner, written, memory>>

-----------------------------------------------------------------------------
(* The BIOS leaves the controller running or halted, and its two           *)
(* semaphores, if there are any, in any state: nobody's, the BIOS's, the   *)
(* OS's, or half-way from the one to the other.                            *)
Init ==
  /\ pc = "device_table"
  /\ PoolInit /\ scratchpad = <<>> /\ max_scratchpad_buffers \in Scratchpads
  /\ legacy \in BOOLEAN /\ shared = FALSE
  /\ os_owned \in {FALSE, legacy} /\ bios_owned \in {FALSE, legacy}
  /\ run_stop \in BOOLEAN /\ host_controller_halted = ~run_stop
  /\ interrupter_enable \in BOOLEAN
  /\ host_controller_reset = FALSE /\ controller_not_ready = FALSE
  /\ usbcmd = [run_stop |-> FALSE, reset |-> FALSE, inte |-> FALSE]
  /\ written = {} /\ wakes = 0

Next == \/ Driver \/ AllocForDevice
        \/ Halt \/ Reset \/ BecomeReady \/ ReleaseOwnership \/ BiosUses

(* The driver polls; the controller and the BIOS answer in the end.        *)
Spec == /\ Init /\ [][Next]_vars
        /\ WF_vars(Driver) /\ WF_vars(Halt) /\ WF_vars(Reset)
        /\ WF_vars(BecomeReady) /\ WF_vars(ReleaseOwnership)

-----------------------------------------------------------------------------
(* Properties.                                                             *)

(* The controller is reset only when it is nobody else's and has stopped   *)
(* (xhci.cpp:305, 335), and stays so while the reset is under way.  That   *)
(* is so unless the OS semaphore was set before while the BIOS still       *)
(* owned the controller: there RequestHCOwnership returns without waiting  *)
(* (xhci.cpp:297-299), and the controller is stopped and reset under the   *)
(* hands of the BIOS.                                                      *)
ResetWhileHalted ==
  host_controller_reset /\ ~shared => /\ ~bios_owned
                                      /\ host_controller_halted /\ ~run_stop

(* Once it runs for the driver, the controller has all its structures,     *)
(* interrupts and a page for every scratchpad buffer, wherever the pool    *)
(* was linked to: the pool serves any controller that wants no more        *)
(* buffers than it has pages, but two.  (Beyond that Initialize fails, or  *)
(* worse, leaves null pointers in the array, and Run starts the controller *)
(* all the same.)  A BIOS that was not waited for may stop it again.       *)
EnoughFor == kMemoryPoolSize \div Page.size - 2
RunsConfigured ==
  pc \in {"wait_running", "running"} /\ max_scratchpad_buffers <= EnoughFor =>
    /\ shared \/ run_stop
    /\ written = Structures /\ interrupter_enable
    /\ Len(scratchpad) = max_scratchpad_buffers
    /\ \A i \in DOMAIN scratchpad : scratchpad[i]

(* The polling loops all end and the controller runs, with or without the  *)
(* memory Initialize asks for, unless a BIOS that was not waited for       *)
(* starts and stops it meanwhile.                                          *)
StartsUp == <>(shared \/ (pc = "running" /\ ~host_controller_halted))
=============================================================================
