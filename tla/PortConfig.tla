----------------------------- MODULE PortConfig -----------------------------
(***************************************************************************)
(* The port configuration state machine of the xHCI driver                 *)
(* (kernel/usb/xhci/xhci.cpp): how every root hub port goes from "a device *)
(* is plugged in" to "its class driver runs", one port at a time through   *)
(* the critical part between reset and address assignment.                 *)
(*                                                                         *)
(* Three actors interleave: the driver, one thread of control (first the   *)
(* port loop of KernelMain, then its event loop); the host controller,     *)
(* which resets ports, executes commands, completes transfers and queues   *)
(* events; and the user, who plugs and unplugs devices.  The driver sees   *)
(* the other two only through PORTSC, device contexts and the event ring,  *)
(* and sees the events late.  The two rings are plain FIFO queues here;    *)
(* how they are built from TRBs and cycle bits is in CommandRing and       *)
(* EventRing.  What one control transfer does inside a device is in        *)
(* UsbDevice.                                                              *)
(***************************************************************************)
EXTENDS Integers, Sequences

CONSTANTS
  MaxPorts,   \* Controller::MaxPorts()
  MaxSlots,   \* kDeviceSize
  HotUnplug,  \* may a device be unplugged?
  Faulty      \* may a command or a transfer of a sound device fail?

(* port_config_phase has 256 entries and port numbers are 8 bits wide.      *)
ASSUME PortAssumption == MaxPorts \in 1..255
ASSUME SlotAssumption == MaxSlots \in 1..255
ASSUME SwitchAssumption == HotUnplug \in BOOLEAN /\ Faulty \in BOOLEAN

Ports   == 1..MaxPorts
PortIds == 0..MaxPorts       \* 0 is "no port"
Slots   == 1..MaxSlots
SlotIds == 0..MaxSlots       \* 0 is "no slot", yet devices_[0] exists

ConfigPhase ==
  {"NotConnected", "WaitingAddressed", "ResettingPort", "EnablingSlot",
   "AddressingDevice", "InitializingDevice", "ConfiguringEndpoints",
   "Configured"}

VARIABLES
  (* The driver. *)
  port_config_phase,        \* [PortIds -> ConfigPhase]
  addressing_port,          \* the port whose turn it is, 0 if none
  devices,                  \* DeviceManager::devices_, NoDevice is nullptr
  device_context_pointers,  \* the DCBAA: what each entry points to
  boot,                     \* loop variable of KernelMain; beyond MaxPorts
                            \* the kernel polls events
  spin,                     \* Port::Reset's busy wait: which port it waits
                            \* for, and the port and slot whose
                            \* InitializeDevice comes after it (0: none)
  (* The host controller and the bus. *)
  device,                   \* state of the device behind each port
  pr, csc, prc,             \* PORTSC: port reset and the two change bits
  enabled_slots,            \* slots the controller has handed out
  td,                       \* what each slot's transfer rings hold
  (* Between them. *)
  cr,                       \* command ring
  er                        \* event ring

driverVars == <<port_config_phase, addressing_port, devices,
                device_context_pointers, boot, spin>>
portVars   == <<device, pr, csc, prc>>
vars       == <<driverVars, portVars, enabled_slots, td, cr, er>>

-----------------------------------------------------------------------------
(* Data.                                                                   *)

(* A Device object: the port in its input context, the port the controller *)
(* wrote into its output context (0 until it is addressed), and            *)
(* initialize_phase_ (4 is is_initialized_).                               *)
DeviceObject ==
  [input_port : PortIds, root_hub_port_num : PortIds,
   initialize_phase : 0..4]
NoDevice == [input_port |-> 0, root_hub_port_num |-> 0, initialize_phase |-> 0]

(* Mutant of AddressDeviceCommand: slots counted from one too many.        *)
AddressDeviceCommandOffByOne(s) == [type |-> "AddressDevice", slot_id |-> s + 1]

EnableSlotCommand           == [type |-> "EnableSlot", slot_id |-> 0]
AddressDeviceCommand(s)     == [type |-> "AddressDevice", slot_id |-> s]
ConfigureEndpointCommand(s) == [type |-> "ConfigureEndpoint", slot_id |-> s]
CommandTypes == {"EnableSlot", "AddressDevice", "ConfigureEndpoint"}
Command == [type : CommandTypes, slot_id : SlotIds]

PortStatusChangeEvent(p) == [type |-> "PortStatusChange", port_id |-> p]
TransferEvent(s, ok)     == [type |-> "Transfer", slot_id |-> s, ok |-> ok]
CommandCompletionEvent(issuer, s) ==
  [type |-> "CommandCompletion", issuer |-> issuer, slot_id |-> s]
Event == [type : {"PortStatusChange"}, port_id : Ports]
         \cup [type : {"Transfer"}, slot_id : SlotIds, ok : BOOLEAN]
         \cup [type : {"CommandCompletion"}, issuer : CommandTypes,
               slot_id : SlotIds]

IsConnected(p) == device[p] # "detached"
IsEnabled(p)   == device[p] \in {"default", "addressed"}
FindBySlot(s)  == devices[s]
Allocated(s)   == FindBySlot(s).input_port # 0
RootHubPort(s) == FindBySlot(s).root_hub_port_num

Spinning == spin.port # 0
NoSpin   == [port |-> 0, init |-> 0, slot |-> 0]

(* The event the driver is about to handle.                                *)
Polling(type) == /\ boot > MaxPorts /\ ~Spinning
                 /\ er # <<>> /\ Head(er).type = type
Completion(issuer) == /\ Polling("CommandCompletion")
                      /\ Head(er).issuer = issuer
Pop == er' = Tail(er)

-----------------------------------------------------------------------------
(* The driver: resetting a port.                                           *)

(* Port::Reset writes PR and CSC, then waits for PR to clear.               *)
PortReset(p, init, slot) ==
  /\ pr' = [pr EXCEPT ![p] = TRUE]
  /\ csc' = [csc EXCEPT ![p] = FALSE]
  /\ spin' = [port |-> p, init |-> init, slot |-> slot]
  /\ UNCHANGED <<device, prc>>

(* Mutant of ResetPort: another port may be mid-way.                       *)
ResetPortIgnoringTurn(p) ==
  IF IsConnected(p)
  THEN /\ addressing_port' = p
       /\ port_config_phase' = [port_config_phase EXCEPT ![p] = "ResettingPort"]
       /\ PortReset(p, 0, 0)
  ELSE UNCHANGED <<addressing_port, port_config_phase, spin, portVars>>

(* Mutant of ResetPort: a port whose turn has not come is not remembered.  *)
ResetPortForgettingBusy(p) ==
  IF IsConnected(p) /\ addressing_port = 0
  THEN /\ addressing_port' = p
       /\ port_config_phase' = [port_config_phase EXCEPT ![p] = "ResettingPort"]
       /\ PortReset(p, 0, 0)
  ELSE UNCHANGED <<addressing_port, port_config_phase, spin, portVars>>

(* A port with nothing plugged in is left alone; a port whose turn has not *)
(* come waits; otherwise the port takes the turn.                          *)
ResetPort(p) ==
  \/ /\ ~IsConnected(p)
     /\ UNCHANGED <<addressing_port, port_config_phase, spin, portVars>>
  \/ /\ IsConnected(p)
     /\ addressing_port # 0
     /\ port_config_phase' =
          [port_config_phase EXCEPT ![p] = "WaitingAddressed"]
     /\ UNCHANGED <<addressing_port, spin, portVars>>
  \/ /\ IsConnected(p)
     /\ addressing_port = 0
     /\ IF port_config_phase[p] \in {"NotConnected", "WaitingAddressed"}
        THEN /\ addressing_port' = p
             /\ port_config_phase' =
                  [port_config_phase EXCEPT ![p] = "ResettingPort"]
             /\ PortReset(p, 0, 0)
        ELSE UNCHANGED <<addressing_port, port_config_phase, spin, portVars>>

(* One turn of KernelMain's loop over the ports.  A started reset keeps    *)
(* the loop at this port until ResumeAfterReset.                           *)
ConfigurePort ==
  /\ boot <= MaxPorts /\ ~Spinning
  /\ IF port_config_phase[boot] = "NotConnected"
     THEN ResetPort(boot)
     ELSE UNCHANGED <<addressing_port, port_config_phase, spin, portVars>>
  /\ boot' = IF spin'.port = 0 THEN boot + 1 ELSE boot
  /\ UNCHANGED <<devices, device_context_pointers, enabled_slots, td, cr, er>>

(* Mutants of InitializeDevice: the port's phase is not advanced; the      *)
(* device's own phase is not.                                              *)
InitializeDeviceKeepingPhase(p, s) ==
  /\ UNCHANGED port_config_phase
  /\ devices' = [devices EXCEPT ![s].initialize_phase = 1]
  /\ td' = [td EXCEPT ![s] = "control"]

InitializeDeviceWithoutStart(p, s) ==
  /\ port_config_phase' =
       [port_config_phase EXCEPT ![p] = "InitializingDevice"]
  /\ UNCHANGED devices
  /\ td' = [td EXCEPT ![s] = "control"]

(* InitializeDevice starts the first control transfer of the device.       *)
InitializeDevice(p, s) ==
  /\ port_config_phase' =
       [port_config_phase EXCEPT ![p] = "InitializingDevice"]
  /\ devices' = [devices EXCEPT ![s].initialize_phase = 1]
  /\ td' = [td EXCEPT ![s] = "control"]

(* The busy wait ends: the caller of ResetPort goes on.                    *)
ResumeAfterReset ==
  /\ Spinning /\ ~pr[spin.port]
  /\ spin' = NoSpin
  /\ IF spin.init # 0
     THEN InitializeDevice(spin.init, spin.slot)
     ELSE UNCHANGED <<port_config_phase, devices, td>>
  /\ IF boot <= MaxPorts
     THEN boot' = boot + 1 /\ UNCHANGED er
     ELSE Pop /\ UNCHANGED boot
  /\ UNCHANGED <<addressing_port, device_context_pointers, portVars,
                 enabled_slots, cr>>

-----------------------------------------------------------------------------
(* The driver: one action per kind of event.  Each handler runs to its end *)
(* before the event is popped; a handler that starts a reset pops it in    *)
(* ResumeAfterReset.                                                       *)

(* Mutant of EnableSlot: the phase is not advanced.                        *)
EnableSlotKeepingPhase(p) ==
  /\ IF IsEnabled(p) /\ prc[p]
     THEN /\ prc' = [prc EXCEPT ![p] = FALSE]
          /\ cr' = Append(cr, EnableSlotCommand)
     ELSE UNCHANGED <<prc, cr>>
  /\ UNCHANGED <<port_config_phase, addressing_port, spin, device, pr, csc>>

(* EnableSlot: the reset of p is over, ask for a slot.                     *)
EnableSlot(p) ==
  /\ IF IsEnabled(p) /\ prc[p]
     THEN /\ prc' = [prc EXCEPT ![p] = FALSE]
          /\ port_config_phase' =
               [port_config_phase EXCEPT ![p] = "EnablingSlot"]
          /\ cr' = Append(cr, EnableSlotCommand)
     ELSE UNCHANGED <<prc, port_config_phase, cr>>
  /\ UNCHANGED <<addressing_port, spin, device, pr, csc>>

OnPortStatusChangeEvent ==
  /\ Polling("PortStatusChange")
  /\ LET p == Head(er).port_id
     IN  CASE port_config_phase[p] = "NotConnected" ->
                ResetPort(p) /\ UNCHANGED cr
           [] port_config_phase[p] = "ResettingPort" -> EnableSlot(p)
           [] OTHER -> UNCHANGED <<port_config_phase, addressing_port, spin,
                                   portVars, cr>>
  /\ IF spin'.port = 0 THEN Pop ELSE UNCHANGED er
  /\ UNCHANGED <<devices, device_context_pointers, boot, enabled_slots, td>>

(* Mutant of AddressDevice: the command goes out before LoadDCBAA.         *)
AddressDeviceWithoutDCBAA(p, s) ==
  /\ devices' = [devices EXCEPT ![s].input_port = p]
  /\ port_config_phase' = [port_config_phase EXCEPT ![p] = "AddressingDevice"]
  /\ cr' = Append(cr, AddressDeviceCommand(s))
  /\ UNCHANGED device_context_pointers

(* AllocDevice refuses a slot that has an object; AddressDevice goes on    *)
(* with that object all the same, so the new port is written into its      *)
(* input context either way.                                               *)
AddressDevice(p, s) ==
  /\ devices' = [devices EXCEPT ![s].input_port = p]
  /\ device_context_pointers' =
       [device_context_pointers EXCEPT ![s] = "context"]
  /\ port_config_phase' = [port_config_phase EXCEPT ![p] = "AddressingDevice"]
  /\ cr' = Append(cr, AddressDeviceCommand(s))

OnEnableSlotCompleted ==
  /\ Completion("EnableSlot")
  /\ IF port_config_phase[addressing_port] = "EnablingSlot"
     THEN AddressDevice(addressing_port, Head(er).slot_id)
     ELSE UNCHANGED <<devices, device_context_pointers, port_config_phase, cr>>
  /\ Pop
  /\ UNCHANGED <<addressing_port, boot, spin, portVars, enabled_slots, td>>

(* Mutants of NextWaiting: the scan starts after the finished port; it     *)
(* compares phases with >= instead of ==.                                  *)
NextWaitingAbove(n) ==
  /\ port_config_phase[n] = "WaitingAddressed" /\ n > addressing_port
  /\ \A q \in Ports :
       port_config_phase[q] = "WaitingAddressed" /\ q > addressing_port => n <= q

NextWaitingOrLater(n) ==
  /\ port_config_phase[n] # "NotConnected"
  /\ \A q \in Ports : port_config_phase[q] # "NotConnected" => n <= q

(* The scan of port_config_phase stops at n, the first port that waits.    *)
NextWaiting(n) ==
  /\ port_config_phase[n] = "WaitingAddressed"
  /\ \A q \in Ports : port_config_phase[q] = "WaitingAddressed" => n <= q

(* The turn is over: the next waiting port, if it is still connected, is   *)
(* reset at once, before the finished port's InitializeDevice.             *)
OnAddressDeviceCompleted ==
  /\ Completion("AddressDevice")
  /\ LET s == Head(er).slot_id
         p == RootHubPort(s)
     IN  IF ~Allocated(s) \/ p # addressing_port
              \/ port_config_phase[p] # "AddressingDevice"
         THEN /\ Pop
              /\ UNCHANGED <<addressing_port, port_config_phase, devices, td,
                             spin, portVars>>
         ELSE \/ \E n \in Ports :
                   /\ NextWaiting(n) /\ IsConnected(n)
                   /\ addressing_port' = n
                   /\ port_config_phase' =
                        [port_config_phase EXCEPT ![n] = "ResettingPort"]
                   /\ PortReset(n, p, s)
                   /\ UNCHANGED <<devices, td, er>>
              \/ /\ ~\E n \in Ports : NextWaiting(n) /\ IsConnected(n)
                 /\ addressing_port' = 0
                 /\ InitializeDevice(p, s)
                 /\ Pop
                 /\ UNCHANGED <<spin, portVars>>
  /\ UNCHANGED <<device_context_pointers, boot, enabled_slots, cr>>

(* CompleteConfiguration: class drivers take over and start transfers.     *)
OnConfigureEndpointCompleted ==
  /\ Completion("ConfigureEndpoint")
  /\ LET s == Head(er).slot_id
         p == RootHubPort(s)
     IN  IF Allocated(s) /\ port_config_phase[p] = "ConfiguringEndpoints"
         THEN /\ td' = [td EXCEPT ![s] = "class"]
              /\ port_config_phase' =
                   [port_config_phase EXCEPT ![p] = "Configured"]
         ELSE UNCHANGED <<td, port_config_phase>>
  /\ Pop
  /\ UNCHANGED <<addressing_port, devices, device_context_pointers, boot, spin,
                 portVars, enabled_slots, cr>>

(* ConfigureEndpoints refuses a port whose speed reads as unknown, as it   *)
(* does once nothing is plugged in.                                        *)
ConfigureEndpoints(p, s) ==
  IF IsConnected(p)
  THEN /\ port_config_phase' =
            [port_config_phase EXCEPT ![p] = "ConfiguringEndpoints"]
       /\ cr' = Append(cr, ConfigureEndpointCommand(s))
  ELSE UNCHANGED <<port_config_phase, cr>>

(* A good transfer moves the device on: three control transfers initialise *)
(* it (phases 1 to 3, the next one issued by the completion of the last),  *)
(* later ones belong to its class driver, which issues the next.  A        *)
(* transfer that failed, or whose data the driver rejects, ends there.     *)
OnTransferEvent ==
  /\ Polling("Transfer")
  /\ LET s     == Head(er).slot_id
         p     == RootHubPort(s)
         phase == FindBySlot(s).initialize_phase
         next  == IF phase \in 1..3 THEN phase + 1 ELSE phase
     IN  IF Allocated(s) /\ Head(er).ok
         THEN /\ devices' = [devices EXCEPT ![s].initialize_phase = next]
              /\ td' = [td EXCEPT ![s] = CASE next \in 2..3 -> "control"
                                           [] phase = 4 -> "class"
                                           [] OTHER -> "none"]
              /\ IF next = 4 /\ port_config_phase[p] = "InitializingDevice"
                 THEN ConfigureEndpoints(p, s)
                 ELSE UNCHANGED <<port_config_phase, cr>>
         ELSE UNCHANGED <<devices, td, port_config_phase, cr>>
  /\ Pop
  /\ UNCHANGED <<addressing_port, device_context_pointers, boot, spin,
                 portVars, enabled_slots>>

ProcessEvent ==
  \/ OnPortStatusChangeEvent
  \/ OnEnableSlotCompleted
  \/ OnAddressDeviceCompleted
  \/ OnConfigureEndpointCompleted
  \/ OnTransferEvent

-----------------------------------------------------------------------------
(* The bus and the host controller, as the driver relies on them.          *)

(* Setting a change bit of p queues an event unless the bit was set        *)
(* already; while another change bit is set, controllers differ.           *)
ReportChange(p, already, other) ==
  \/ /\ already \/ other
     /\ UNCHANGED er
  \/ /\ ~already
     /\ er' = Append(er, PortStatusChangeEvent(p))

Connect(p) ==
  /\ device[p] = "detached"
  /\ device' = [device EXCEPT ![p] = "attached"]
  /\ csc' = [csc EXCEPT ![p] = TRUE]
  /\ ReportChange(p, csc[p], prc[p])
  /\ UNCHANGED <<driverVars, pr, prc, enabled_slots, td, cr>>

Disconnect(p) ==
  /\ HotUnplug
  /\ device[p] # "detached"
  /\ device' = [device EXCEPT ![p] = "detached"]
  /\ csc' = [csc EXCEPT ![p] = TRUE]
  /\ ReportChange(p, csc[p], prc[p])
  /\ UNCHANGED <<driverVars, pr, prc, enabled_slots, td, cr>>

PortResetDone(p) ==
  /\ pr[p]
  /\ pr' = [pr EXCEPT ![p] = FALSE]
  /\ prc' = [prc EXCEPT ![p] = TRUE]
  /\ device' = [device EXCEPT ![p] = IF @ = "detached" THEN @ ELSE "default"]
  /\ ReportChange(p, prc[p], csc[p])
  /\ UNCHANGED <<driverVars, csc, enabled_slots, td, cr>>

Complete(s) ==
  /\ cr' = Tail(cr)
  /\ er' = Append(er, CommandCompletionEvent(Head(cr).type, s))

(* A slot that is free, or slot 0 with an error code.                      *)
RunEnableSlot ==
  /\ cr # <<>> /\ Head(cr).type = "EnableSlot"
  /\ \E s \in SlotIds \ enabled_slots :
       /\ s = 0 => Faulty \/ enabled_slots = Slots
       /\ enabled_slots' = enabled_slots \cup ({s} \ {0})
       /\ Complete(s)
  /\ UNCHANGED <<driverVars, portVars, td>>

(* The controller reads the input context, addresses the device on that    *)
(* port and writes the output context it finds through the DCBAA.          *)
Addressable(s) == /\ s \in enabled_slots
                  /\ device_context_pointers[s] = "context"
                  /\ device[devices[s].input_port] = "default"

RunAddressDevice ==
  /\ cr # <<>> /\ Head(cr).type = "AddressDevice"
  /\ LET s == Head(cr).slot_id
         p == devices[s].input_port
     IN  /\ Complete(s)
         /\ \/ /\ Addressable(s)
               /\ device' = [device EXCEPT ![p] = "addressed"]
               /\ devices' = [devices EXCEPT ![s].root_hub_port_num = p]
            \/ /\ Faulty \/ ~Addressable(s)
               /\ UNCHANGED <<device, devices>>
  /\ UNCHANGED <<port_config_phase, addressing_port, device_context_pointers,
                 boot, spin, pr, csc, prc, enabled_slots, td>>

RunConfigureEndpoint ==
  /\ cr # <<>> /\ Head(cr).type = "ConfigureEndpoint"
  /\ Complete(Head(cr).slot_id)
  /\ UNCHANGED <<driverVars, portVars, enabled_slots, td>>

RunCommand == RunEnableSlot \/ RunAddressDevice \/ RunConfigureEndpoint

(* A device that has its address answers; others make the transfer fail.   *)
Responds(s) == /\ RootHubPort(s) # 0
               /\ device[RootHubPort(s)] = "addressed"

CompleteTransfer(s, ok) ==
  /\ td[s] # "none"
  /\ IF ok THEN Responds(s) ELSE Faulty \/ ~Responds(s)
  /\ td' = [td EXCEPT ![s] = "none"]
  /\ er' = Append(er, TransferEvent(s, ok))
  /\ UNCHANGED <<driverVars, portVars, enabled_slots, cr>>

-----------------------------------------------------------------------------
Init ==
  /\ port_config_phase = [p \in PortIds |-> "NotConnected"]
  /\ addressing_port = 0
  /\ devices = [s \in SlotIds |-> NoDevice]
  /\ device_context_pointers =
       [s \in SlotIds |-> IF s = 0 THEN "scratchpad" ELSE "null"]
  /\ boot = 1
  /\ spin = NoSpin
  /\ device = [p \in Ports |-> "detached"]
  /\ pr  = [p \in Ports |-> FALSE]
  /\ csc = [p \in Ports |-> FALSE]
  /\ prc = [p \in Ports |-> FALSE]
  /\ enabled_slots = {}
  /\ td = [s \in SlotIds |-> "none"]
  /\ cr = <<>>
  /\ er = <<>>

Next ==
  \/ ConfigurePort
  \/ ResumeAfterReset
  \/ ProcessEvent
  \/ RunCommand
  \/ \E p \in Ports : Connect(p) \/ Disconnect(p) \/ PortResetDone(p)
  \/ \E s \in SlotIds, ok \in BOOLEAN : CompleteTransfer(s, ok)

Spec == Init /\ [][Next]_vars

(* KernelMain never blocks except in Port::Reset; the controller ends      *)
(* resets, executes commands and ends control transfers.  Nobody owes a    *)
(* user's input, so transfers of class drivers may stay pending forever.   *)
Fairness ==
  /\ WF_vars(ConfigurePort)
  /\ WF_vars(ResumeAfterReset)
  /\ WF_vars(ProcessEvent)
  /\ WF_vars(RunCommand)
  /\ \A p \in Ports : WF_vars(PortResetDone(p))
  /\ \A s \in SlotIds :
       WF_vars(\E ok \in BOOLEAN : td[s] = "control" /\ CompleteTransfer(s, ok))

FairSpec == Spec /\ Fairness

-----------------------------------------------------------------------------
(* Properties.                                                             *)

(* The type invariant: every port and slot number in a register, a         *)
(* command, an event or a context stays in range, so the arrays indexed    *)
(* with them (port_config_phase, devices_, the DCBAA) are never left.      *)
TypeOK ==
  /\ port_config_phase \in [PortIds -> ConfigPhase]
  /\ addressing_port \in PortIds
  /\ devices \in [SlotIds -> DeviceObject]
  /\ device_context_pointers \in
       [SlotIds -> {"null", "scratchpad", "context"}]
  /\ boot \in 1..(MaxPorts + 1)
  /\ spin \in [port : PortIds, init : PortIds, slot : SlotIds]
  /\ device \in [Ports -> {"detached", "attached", "default", "addressed"}]
  /\ pr  \in [Ports -> BOOLEAN]
  /\ csc \in [Ports -> BOOLEAN]
  /\ prc \in [Ports -> BOOLEAN]
  /\ enabled_slots \subseteq Slots
  /\ td \in [SlotIds -> {"none", "control", "class"}]
  /\ cr \in Seq(Command)
  /\ er \in Seq(Event)

(* A handler that busy-waits still has its event at the front of the ring. *)
(* TypeOK is inductive only together with this.                            *)
HandlerHasEvent == Spinning /\ boot > MaxPorts => er # <<>>

TurnPhases == {"ResettingPort", "EnablingSlot", "AddressingDevice"}

(* xhci.cpp:40-43: addressing_port is the one port between reset and       *)
(* address assignment, 0 if there is none.  The finished port of           *)
(* OnAddressDeviceCompleted is still marked AddressingDevice while the     *)
(* driver busy-waits for the next port's reset.                            *)
TurnExclusive ==
  \A p \in PortIds :
    port_config_phase[p] \in TurnPhases
      <=> p # 0 /\ p \in {addressing_port, spin.init}

(* xhci.cpp:32-36: the reason for the turn.  While a port is being reset   *)
(* or holds a device at address 0, no other port does either, whatever is  *)
(* plugged, unplugged or failing meanwhile.                                *)
OneDefaultAddress ==
  \A p, q \in Ports :
    /\ pr[p] \/ device[p] = "default"
    /\ pr[q] \/ device[q] = "default"
    => p = q

(* The inductive invariant behind TurnExclusive and OneDefaultAddress.     *)
(* The busy wait is part of the turn: the port waited for has it, and the  *)
(* port whose turn just ended is still to be initialised.                  *)
TurnInv ==
  /\ IF Spinning THEN /\ spin.port = addressing_port
                      /\ port_config_phase[spin.port] = "ResettingPort"
                 ELSE spin.init = 0
  /\ spin.init # 0 => /\ spin.init # addressing_port
                      /\ port_config_phase[spin.init] = "AddressingDevice"
  /\ port_config_phase[0] = "NotConnected"
  /\ TurnExclusive

(* What the phases say of the devices.  The turn ends when the output      *)
(* context names the port, and then its device has left address 0; a port  *)
(* whose device has an address is past the phases ResetPort starts from.   *)
AddressedPhases == {"AddressingDevice", "InitializingDevice",
                    "ConfiguringEndpoints", "Configured"}
BusInv ==
  /\ \A p \in Ports :
       /\ pr[p] => p = spin.port /\ device[p] \in {"detached", "attached"}
       /\ device[p] = "default" => p = addressing_port
       /\ device[p] = "addressed" => port_config_phase[p] \in AddressedPhases
  /\ \A s \in SlotIds :
       /\ device_context_pointers[s] = "context" => Allocated(s)
       /\ Allocated(s) =>
            port_config_phase[devices[s].input_port] \in AddressedPhases
       /\ RootHubPort(s) # 0 =>
            /\ port_config_phase[RootHubPort(s)] \in AddressedPhases
            /\ device[RootHubPort(s)] # "default"

(* The driver implements the discipline of the bus.                        *)
Bus == INSTANCE UsbBus
BusSpec == Bus!Spec

(* Every port past address assignment has one slot of its own, whose       *)
(* device object is as far as the port is; no two slots serve one port.    *)
OwnsSlot(p, s) == RootHubPort(s) = p
SlotsMatchPorts ==
  /\ \A p \in Ports, s, t \in SlotIds : OwnsSlot(p, s) /\ OwnsSlot(p, t) => s = t
  /\ \A p \in Ports :
       /\ port_config_phase[p] = "InitializingDevice"
            => \E s \in Slots : OwnsSlot(p, s) /\ devices[s].initialize_phase >= 1
       /\ port_config_phase[p] \in {"ConfiguringEndpoints", "Configured"}
            => \E s \in Slots : OwnsSlot(p, s) /\ devices[s].initialize_phase = 4

(* What is in flight, as commands or as completions not handled yet, is    *)
(* what the phases wait for: one Enable Slot or Address Device for the     *)
(* port whose turn it is, and a Configure Endpoint only for a port that    *)
(* waits for it.  So handlers never reject a completion as kInvalidPhase   *)
(* because of the order events arrive in, and the command ring of 32 TRBs  *)
(* holds at most one command per slot and one more.                        *)
InFlight ==
  {<<"command", i>> : i \in DOMAIN cr}
    \cup {<<"completion", i>> : i \in {j \in DOMAIN er :
                                       er[j].type = "CommandCompletion"}}
InFlightType(x) == IF x[1] = "command" THEN cr[x[2]].type ELSE er[x[2]].issuer
InFlightSlot(x) == IF x[1] = "command" THEN cr[x[2]].slot_id
                   ELSE er[x[2]].slot_id
InFlightMatchesPhase ==
  /\ \A x \in InFlight :
       CASE InFlightType(x) = "EnableSlot" ->
              port_config_phase[addressing_port] = "EnablingSlot"
         [] InFlightType(x) = "AddressDevice" ->
              \/ port_config_phase[addressing_port] = "AddressingDevice"
              \/ spin.init # 0 /\ x = <<"completion", 1>>
         [] InFlightType(x) = "ConfigureEndpoint" ->
              port_config_phase[RootHubPort(InFlightSlot(x))]
                = "ConfiguringEndpoints"
  /\ \A x, y \in InFlight :
       /\ InFlightType(x) = InFlightType(y)
       /\ InFlightType(x) = "ConfigureEndpoint" => InFlightSlot(x) = InFlightSlot(y)
       => x = y

(* The controller never executes Address Device for a slot whose DCBAA     *)
(* entry or device object is not in place.                                 *)
ContextLoaded ==
  \A i \in DOMAIN cr : cr[i].type = "AddressDevice" =>
    LET s == cr[i].slot_id
    IN  /\ Allocated(s)
        /\ devices[s].input_port = addressing_port
        /\ device_context_pointers[s] = "context"

(* A port that has been given its address, or lost it by being unplugged,  *)
(* is never reset again, and no phase is gone through twice.               *)
Rank == [NotConnected |-> 0, WaitingAddressed |-> 1, ResettingPort |-> 2,
         EnablingSlot |-> 3, AddressingDevice |-> 4, InitializingDevice |-> 5,
         ConfiguringEndpoints |-> 6, Configured |-> 7]
PhasesAdvance ==
  [][\A p \in Ports :
       Rank[port_config_phase'[p]] >= Rank[port_config_phase[p]]]_vars

(* xhci.cpp:32-36: a waiting port waits for somebody: as long as it is     *)
(* connected, some port is between reset and address assignment, and the   *)
(* end of that turn will look at the waiting ports again.                  *)
NoLostTurn ==
  \A p \in Ports : port_config_phase[p] = "WaitingAddressed" /\ IsConnected(p)
                     => addressing_port # 0

(* xhci.cpp:32-36: the same of the step that ends a turn: the turn goes to *)
(* a port that waits for it unless no port that waits is still connected.  *)
(* So one device unplugged while it waits does not cost another its turn.  *)
TurnPassedOn ==
  [][addressing_port # 0 /\ addressing_port' = 0
       => \A p \in Ports :
            port_config_phase[p] = "WaitingAddressed" => ~IsConnected(p)]_vars

(* devmgr.hpp:31: device_context_pointers_ can be used as the value of     *)
(* DCBAAP, so entry 0 stays the scratchpad buffer array that               *)
(* Controller::Initialize put there.                                       *)
ScratchpadKept == device_context_pointers[0] = "scratchpad"

(* KernelMain's aim: every device that is plugged in, before, during or    *)
(* after the loop over the ports, ends up configured.                      *)
EveryPortConfigured ==
  \A p \in Ports : device[p] = "attached" ~> port_config_phase[p] = "Configured"

(* A turn that has begun ends, unless the device is unplugged or its       *)
(* Address Device command fails: those two leave the turn taken for good   *)
(* (xhci.cpp:119-127 and 245-251 return without giving it back).  Whatever *)
(* happens at other ports, or went wrong before, does not matter.          *)
AddressRefused ==
  \E i \in DOMAIN er : /\ er[i].type = "CommandCompletion"
                       /\ er[i].issuer = "AddressDevice"
                       /\ RootHubPort(er[i].slot_id) = 0
TurnEnds ==
  \A p \in Ports :
    [](pr[p] /\ [](IsConnected(p) /\ ~AddressRefused)
         => <>(addressing_port # p))
=============================================================================
