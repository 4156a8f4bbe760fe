-------------------------- MODULE PortConfigProofs --------------------------
(***************************************************************************)
(* Proofs about PortConfig, for every number of ports and slots, with or   *)
(* without unplugging and failing commands: first who has the turn (IInv), *)
(* then phases, slots and commands in flight, for which IInv is            *)
(* strengthened by what the slot table and the two rings say of the ports. *)
(***************************************************************************)
EXTENDS PortConfig, WellFoundedInduction, TLAPS

Types == {"detached", "attached", "default", "addressed"}

-----------------------------------------------------------------------------
(* Type correctness.                                                       *)

(* What ResetPort leaves behind is typed (xhci.cpp:88-110).                *)
LEMMA ResetPortType ==
  ASSUME TypeOK, NEW p \in Ports, ResetPort(p)
  PROVE  /\ port_config_phase' \in [PortIds -> ConfigPhase]
         /\ addressing_port' \in PortIds
         /\ spin' \in [port : PortIds, init : PortIds, slot : SlotIds]
         /\ pr' \in [Ports -> BOOLEAN]
         /\ csc' \in [Ports -> BOOLEAN]
         /\ UNCHANGED <<device, prc>>
<1> USE PortAssumption, SlotAssumption
<1>1. p \in PortIds /\ 0 \in PortIds /\ 0 \in SlotIds
  BY DEF Ports, PortIds, SlotIds
<1>2. CASE UNCHANGED <<addressing_port, port_config_phase, spin, portVars>>
  BY <1>2 DEF TypeOK, portVars
<1>3. CASE /\ port_config_phase' =
               [port_config_phase EXCEPT ![p] = "WaitingAddressed"]
           /\ UNCHANGED <<addressing_port, spin, portVars>>
  BY <1>1, <1>3 DEF TypeOK, portVars, ConfigPhase
<1>4. CASE /\ addressing_port' = p
           /\ port_config_phase' =
                [port_config_phase EXCEPT ![p] = "ResettingPort"]
           /\ PortReset(p, 0, 0)
  BY <1>1, <1>4 DEF TypeOK, PortReset, ConfigPhase
<1> QED
  BY <1>2, <1>3, <1>4 DEF ResetPort

(* The head of the event ring is an event, and popping it leaves events.   *)
LEMMA PopType ==
  ASSUME TypeOK, er # <<>>
  PROVE  Head(er) \in Event /\ Tail(er) \in Seq(Event)
  BY DEF TypeOK

(* A sequence of events stays one when an event is appended to it.         *)
LEMMA PushType ==
  ASSUME TypeOK
  PROVE  /\ \A e \in Event : Append(er, e) \in Seq(Event)
         /\ \A c \in Command : Append(cr, c) \in Seq(Command)
         /\ EnableSlotCommand \in Command
         /\ \A s \in SlotIds : /\ AddressDeviceCommand(s) \in Command
                               /\ ConfigureEndpointCommand(s) \in Command
         /\ \A s \in SlotIds, t \in CommandTypes :
              CommandCompletionEvent(t, s) \in Event
         /\ \A s \in SlotIds, ok \in BOOLEAN : TransferEvent(s, ok) \in Event
         /\ \A p \in Ports : PortStatusChangeEvent(p) \in Event
  BY SlotAssumption
  DEF TypeOK, Event, Command, CommandTypes, EnableSlotCommand,
      AddressDeviceCommand, ConfigureEndpointCommand, CommandCompletionEvent,
      TransferEvent, PortStatusChangeEvent, SlotIds

(* Setting one field of one device object leaves device objects.           *)
LEMMA DevicesType ==
  ASSUME TypeOK, NEW s \in SlotIds
  PROVE  /\ \A k \in 0..4 : [devices EXCEPT ![s].initialize_phase = k]
                              \in [SlotIds -> DeviceObject]
         /\ \A p \in PortIds : [devices EXCEPT ![s].input_port = p]
                                \in [SlotIds -> DeviceObject]
         /\ \A p \in PortIds : [devices EXCEPT ![s].root_hub_port_num = p]
                                \in [SlotIds -> DeviceObject]
<1>1. devices \in [SlotIds -> DeviceObject] /\ devices[s] \in DeviceObject
  BY DEF TypeOK
<1>2. /\ \A k \in 0..4 : [devices[s] EXCEPT !.initialize_phase = k] \in DeviceObject
      /\ \A p \in PortIds : [devices[s] EXCEPT !.input_port = p] \in DeviceObject
      /\ \A p \in PortIds :
           [devices[s] EXCEPT !.root_hub_port_num = p] \in DeviceObject
  BY <1>1 DEF DeviceObject
<1> QED
  BY <1>1, <1>2

(* Likewise for the phase of one port, and for one slot's transfers.       *)
LEMMA PhaseType ==
  ASSUME TypeOK, NEW p \in PortIds, NEW phase \in ConfigPhase
  PROVE  [port_config_phase EXCEPT ![p] = phase] \in [PortIds -> ConfigPhase]
  BY DEF TypeOK

(* Starting a device's initialisation keeps the phases, the device objects *)
(* and the pending transfers typed (xhci.cpp:166-178).                     *)
LEMMA InitializeDeviceType ==
  ASSUME TypeOK, NEW p \in PortIds, NEW s \in SlotIds, InitializeDevice(p, s)
  PROVE  /\ port_config_phase' \in [PortIds -> ConfigPhase]
         /\ devices' \in [SlotIds -> DeviceObject]
         /\ td' \in [SlotIds -> {"none", "control", "class"}]
<1>1. 1 \in 0..4 /\ "InitializingDevice" \in ConfigPhase
  BY DEF ConfigPhase
<1> QED
  BY <1>1, DevicesType, PhaseType DEF InitializeDevice, TypeOK

(* Port 0 and slot 0 exist as indices: port_config_phase and devices_ are  *)
(* arrays with an entry 0 (xhci.cpp:38, devmgr.cpp:6-26).                  *)
LEMMA ZeroType == 0 \in PortIds /\ 0 \in SlotIds /\ Ports \subseteq PortIds
                  /\ Slots \subseteq SlotIds
  BY PortAssumption, SlotAssumption DEF Ports, PortIds, Slots, SlotIds

(* The state Initialize leaves behind is typed (xhci.cpp:38-43,            *)
(* devmgr.cpp:6-26).                                                       *)
LEMMA TypeInit == Init => TypeOK
  BY PortAssumption, SlotAssumption
  DEF Init, TypeOK, ConfigPhase, DeviceObject, NoDevice, NoSpin, Ports,
      PortIds, Slots, SlotIds

(* Every step of the driver, the controller and the user keeps the state   *)
(* typed; popping needs an event at the front (xhci.cpp:488-505).          *)
LEMMA TypeNext == TypeOK /\ HandlerHasEvent /\ [Next]_vars => TypeOK'
<1> SUFFICES ASSUME TypeOK, HandlerHasEvent, [Next]_vars PROVE TypeOK'
  OBVIOUS
<1> USE PortAssumption, SlotAssumption
<1>1. CASE ConfigurePort
  <2>1. boot \in Ports
    BY <1>1 DEF ConfigurePort, TypeOK, Ports
  <2>2. CASE ResetPort(boot)
    BY <1>1, <2>1, <2>2, ResetPortType DEF ConfigurePort, TypeOK, Ports
  <2>3. CASE UNCHANGED <<addressing_port, port_config_phase, spin, portVars>>
    BY <1>1, <2>1, <2>3 DEF ConfigurePort, TypeOK, Ports, portVars
  <2> QED
    BY <1>1, <2>2, <2>3 DEF ConfigurePort
<1>2. CASE ResumeAfterReset
  <2>1. spin.init \in PortIds /\ spin.slot \in SlotIds
    BY DEF TypeOK
  <2>2. /\ port_config_phase' \in [PortIds -> ConfigPhase]
        /\ devices' \in [SlotIds -> DeviceObject]
        /\ td' \in [SlotIds -> {"none", "control", "class"}]
    <3>1. CASE InitializeDevice(spin.init, spin.slot)
      BY <2>1, <3>1, InitializeDeviceType
    <3>2. CASE UNCHANGED <<port_config_phase, devices, td>>
      BY <3>2 DEF TypeOK
    <3> QED
      BY <1>2, <3>1, <3>2 DEF ResumeAfterReset
  <2>3. spin' \in [port : PortIds, init : PortIds, slot : SlotIds]
    BY <1>2, ZeroType DEF ResumeAfterReset, NoSpin
  <2>4. /\ boot' \in 1..(MaxPorts + 1)
        /\ er' \in Seq(Event)
    <3>1. CASE boot <= MaxPorts
      BY <1>2, <3>1 DEF ResumeAfterReset, TypeOK
    <3>2. CASE ~(boot <= MaxPorts)
      <4>1. boot > MaxPorts
        BY <3>2 DEF TypeOK
      <4>2. er # <<>>
        BY <1>2, <4>1 DEF ResumeAfterReset, HandlerHasEvent
      <4> QED
        BY <1>2, <3>2, <4>2, PopType DEF ResumeAfterReset, Pop, TypeOK
    <3> QED
      BY <3>1, <3>2
  <2> QED
    BY <1>2, <2>2, <2>3, <2>4 DEF ResumeAfterReset, TypeOK, portVars
<1>3. CASE OnPortStatusChangeEvent
  <2> DEFINE p == Head(er).port_id
  <2>1. p \in Ports /\ Tail(er) \in Seq(Event)
    BY <1>3, PopType DEF OnPortStatusChangeEvent, Polling, Event
  <2>2. CASE ResetPort(p) /\ UNCHANGED cr
    BY <1>3, <2>1, <2>2, ResetPortType DEF OnPortStatusChangeEvent, Pop, TypeOK
  <2>3. CASE EnableSlot(p)
    <3>1. p \in PortIds /\ "EnablingSlot" \in ConfigPhase
      BY <2>1, ZeroType DEF ConfigPhase
    <3>2. /\ port_config_phase' \in [PortIds -> ConfigPhase]
          /\ prc' \in [Ports -> BOOLEAN]
          /\ cr' \in Seq(Command)
      <4>1. Append(cr, EnableSlotCommand) \in Seq(Command)
        BY PushType
      <4>2. CASE /\ prc' = [prc EXCEPT ![p] = FALSE]
                 /\ port_config_phase' =
                      [port_config_phase EXCEPT ![p] = "EnablingSlot"]
                 /\ cr' = Append(cr, EnableSlotCommand)
        <5>1. prc' \in [Ports -> BOOLEAN]
          BY <2>1, <4>2 DEF TypeOK
        <5> QED
          BY <3>1, <4>1, <4>2, <5>1, PhaseType
      <4>3. CASE UNCHANGED <<prc, port_config_phase, cr>>
        BY <4>3 DEF TypeOK
      <4> QED
        BY <2>3, <4>2, <4>3 DEF EnableSlot
    <3> QED
      BY <1>3, <2>1, <2>3, <3>2
      DEF OnPortStatusChangeEvent, EnableSlot, Pop, TypeOK
  <2>4. CASE UNCHANGED <<port_config_phase, addressing_port, spin, portVars, cr>>
    BY <1>3, <2>1, <2>4 DEF OnPortStatusChangeEvent, Pop, TypeOK, portVars
  <2> QED
    BY <1>3, <2>2, <2>3, <2>4 DEF OnPortStatusChangeEvent
<1>4. CASE OnEnableSlotCompleted
  <2>1. Head(er).slot_id \in SlotIds /\ Tail(er) \in Seq(Event)
    BY <1>4, PopType DEF OnEnableSlotCompleted, Completion, Polling, Event
  <2> QED
    <3>1. addressing_port \in PortIds /\ "AddressingDevice" \in ConfigPhase
      BY DEF TypeOK, ConfigPhase
    <3>2. /\ port_config_phase' \in [PortIds -> ConfigPhase]
          /\ devices' \in [SlotIds -> DeviceObject]
          /\ device_context_pointers' \in
               [SlotIds -> {"null", "scratchpad", "context"}]
          /\ cr' \in Seq(Command)
      <4>1. CASE AddressDevice(addressing_port, Head(er).slot_id)
        <5>1. devices' \in [SlotIds -> DeviceObject]
          BY <2>1, <3>1, <4>1, DevicesType DEF AddressDevice
        <5>2. port_config_phase' \in [PortIds -> ConfigPhase]
          BY <2>1, <3>1, <4>1, PhaseType DEF AddressDevice
        <5>3. cr' \in Seq(Command)
          BY <2>1, <4>1, PushType DEF AddressDevice
        <5>4. device_context_pointers' \in
                [SlotIds -> {"null", "scratchpad", "context"}]
          BY <2>1, <4>1 DEF AddressDevice, TypeOK
        <5> QED
          BY <5>1, <5>2, <5>3, <5>4
      <4>2. CASE UNCHANGED <<devices, device_context_pointers,
                             port_config_phase, cr>>
        BY <4>2 DEF TypeOK
      <4> QED
        BY <1>4, <4>1, <4>2 DEF OnEnableSlotCompleted
    <3> QED
      BY <1>4, <2>1, <3>2 DEF OnEnableSlotCompleted, Pop, TypeOK, portVars
<1>5. CASE OnAddressDeviceCompleted
  <2> DEFINE s == Head(er).slot_id
             p == RootHubPort(s)
  <2>1. s \in SlotIds /\ p \in PortIds /\ Tail(er) \in Seq(Event)
    BY <1>5, PopType
    DEF OnAddressDeviceCompleted, Completion, Polling, Event, RootHubPort,
        FindBySlot, TypeOK, DeviceObject
  <2>2. CASE /\ Pop
             /\ UNCHANGED <<addressing_port, port_config_phase, devices, td,
                            spin, portVars>>
    BY <1>5, <2>1, <2>2
    DEF OnAddressDeviceCompleted, Pop, TypeOK, portVars
  <2>3. ASSUME NEW n \in Ports,
               addressing_port' = n,
               port_config_phase' =
                 [port_config_phase EXCEPT ![n] = "ResettingPort"],
               PortReset(n, p, s),
               UNCHANGED <<devices, td, er>>
        PROVE  TypeOK'
    <3>1. n \in PortIds /\ "ResettingPort" \in ConfigPhase
      BY ZeroType DEF ConfigPhase
    <3>2. /\ port_config_phase' \in [PortIds -> ConfigPhase]
          /\ addressing_port' \in PortIds
      BY <2>1, <2>3, <3>1, PhaseType
    <3> QED
      BY <1>5, <2>1, <2>3, <3>1, <3>2
      DEF OnAddressDeviceCompleted, PortReset, TypeOK
  <2>4. CASE /\ addressing_port' = 0
             /\ InitializeDevice(p, s)
             /\ Pop
             /\ UNCHANGED <<spin, portVars>>
    BY <1>5, <2>1, <2>4, InitializeDeviceType, ZeroType
    DEF OnAddressDeviceCompleted, Pop, TypeOK, portVars
  <2> QED
    BY <1>5, <2>2, <2>3, <2>4 DEF OnAddressDeviceCompleted
<1>6. CASE OnConfigureEndpointCompleted
  <2> DEFINE s == Head(er).slot_id
  <2>1. s \in SlotIds /\ Tail(er) \in Seq(Event)
    BY <1>6, PopType
    DEF OnConfigureEndpointCompleted, Completion, Polling, Event
  <2> QED
    BY <1>6, <2>1
    DEF OnConfigureEndpointCompleted, Pop, TypeOK, portVars, ConfigPhase
<1>7. CASE OnTransferEvent
  <2> DEFINE s == Head(er).slot_id
             p == RootHubPort(s)
             phase == FindBySlot(s).initialize_phase
             next == IF phase \in 1..3 THEN phase + 1 ELSE phase
  <2>1. s \in SlotIds /\ Tail(er) \in Seq(Event)
    BY <1>7, PopType DEF OnTransferEvent, Polling, Event
  <2>2. next \in 0..4 /\ phase \in 0..4
    BY <2>1 DEF FindBySlot, TypeOK, DeviceObject
  <2>3. CASE UNCHANGED <<devices, td, port_config_phase, cr>>
    BY <1>7, <2>1, <2>3 DEF OnTransferEvent, Pop, TypeOK, portVars
  <2>4. CASE /\ devices' = [devices EXCEPT ![s].initialize_phase = next]
             /\ td' = [td EXCEPT ![s] = CASE next \in 2..3 -> "control"
                                          [] phase = 4 -> "class"
                                          [] OTHER -> "none"]
             /\ IF next = 4 /\ port_config_phase[p] = "InitializingDevice"
                THEN ConfigureEndpoints(p, s)
                ELSE UNCHANGED <<port_config_phase, cr>>
    <3>1. devices' \in [SlotIds -> DeviceObject]
      BY <2>1, <2>2, <2>4, DevicesType, ZeroType
    <3>2. td' \in [SlotIds -> {"none", "control", "class"}]
      BY <2>1, <2>2, <2>4 DEF TypeOK
    <3>3. /\ port_config_phase' \in [PortIds -> ConfigPhase]
          /\ cr' \in Seq(Command)
      <4>1. p \in PortIds /\ "ConfiguringEndpoints" \in ConfigPhase
        BY <2>1 DEF RootHubPort, FindBySlot, TypeOK, DeviceObject, ConfigPhase
      <4> QED
        <5>1. CASE ConfigureEndpoints(p, s)
          <6>1. port_config_phase' \in [PortIds -> ConfigPhase]
            BY <2>1, <4>1, <5>1, PhaseType DEF ConfigureEndpoints, TypeOK
          <6>2. cr' \in Seq(Command)
            <7>1. Append(cr, ConfigureEndpointCommand(s)) \in Seq(Command)
              BY <2>1, PushType
            <7> QED
              BY <5>1, <7>1 DEF ConfigureEndpoints, TypeOK
          <6> QED
            BY <6>1, <6>2
        <5>2. CASE UNCHANGED <<port_config_phase, cr>>
          BY <5>2 DEF TypeOK
        <5> QED
          BY <2>4, <5>1, <5>2
    <3> QED
      BY <1>7, <2>1, <3>1, <3>2, <3>3 DEF OnTransferEvent, Pop, TypeOK, portVars
  <2> QED
    BY <1>7, <2>3, <2>4 DEF OnTransferEvent
<1>8. CASE RunEnableSlot
  <2>1. Head(cr) \in Command /\ Tail(cr) \in Seq(Command)
    BY <1>8 DEF RunEnableSlot, TypeOK
  <2> QED
    <3>1. PICK s \in SlotIds :
            /\ enabled_slots' = enabled_slots \cup ({s} \ {0})
            /\ Complete(s)
      BY <1>8 DEF RunEnableSlot
    <3>2. Head(cr).type \in CommandTypes
      BY <2>1 DEF Command
    <3>3. cr' \in Seq(Command) /\ er' \in Seq(Event)
      BY <2>1, <3>1, <3>2, PushType DEF Complete
    <3>4. enabled_slots' \subseteq Slots
      BY <3>1 DEF TypeOK, Slots, SlotIds
    <3> QED
      BY <1>8, <3>3, <3>4 DEF RunEnableSlot, TypeOK, driverVars, portVars
<1>9. CASE RunAddressDevice
  <2>1. Head(cr) \in Command /\ Tail(cr) \in Seq(Command)
    BY <1>9 DEF RunAddressDevice, TypeOK
  <2>2. Head(cr).slot_id \in SlotIds /\ Head(cr).type \in CommandTypes
    BY <2>1 DEF Command
  <2>3. devices[Head(cr).slot_id].input_port \in PortIds
    BY <2>2 DEF TypeOK, DeviceObject
  <2>4. cr' \in Seq(Command) /\ er' \in Seq(Event)
    BY <1>9, <2>1, <2>2, PushType DEF RunAddressDevice, Complete
  <2> QED
    <3> DEFINE s == Head(cr).slot_id
               p == devices[s].input_port
    <3>1. CASE /\ device' = [device EXCEPT ![p] = "addressed"]
               /\ devices' = [devices EXCEPT ![s].root_hub_port_num = p]
      <4>1. device' \in [Ports -> {"detached", "attached", "default", "addressed"}]
        BY <3>1 DEF TypeOK
      <4>2. devices' \in [SlotIds -> DeviceObject]
        BY <2>2, <2>3, <3>1, DevicesType
      <4> QED
        BY <1>9, <2>4, <4>1, <4>2 DEF RunAddressDevice, TypeOK
    <3>2. CASE UNCHANGED <<device, devices>>
      BY <1>9, <2>4, <3>2 DEF RunAddressDevice, TypeOK
    <3> QED
      BY <1>9, <3>1, <3>2 DEF RunAddressDevice
<1>10. CASE RunConfigureEndpoint
  <2>1. Head(cr) \in Command /\ Tail(cr) \in Seq(Command)
    BY <1>10 DEF RunConfigureEndpoint, TypeOK
  <2> QED
    BY <1>10, <2>1, PushType
    DEF RunConfigureEndpoint, Complete, TypeOK, driverVars, portVars, Command
<1>11. ASSUME NEW p \in Ports, Connect(p) \/ Disconnect(p) \/ PortResetDone(p)
       PROVE  TypeOK'
  <2>1. er' \in Seq(Event)
    <3>1. PICK a \in BOOLEAN, b \in BOOLEAN : ReportChange(p, a, b)
      BY <1>11 DEF Connect, Disconnect, PortResetDone, TypeOK
    <3>2. Append(er, PortStatusChangeEvent(p)) \in Seq(Event)
      BY PushType
    <3> QED
      BY <3>1, <3>2 DEF ReportChange, TypeOK
  <2>2. /\ device' \in [Ports -> {"detached", "attached", "default", "addressed"}]
        /\ pr' \in [Ports -> BOOLEAN]
        /\ csc' \in [Ports -> BOOLEAN]
        /\ prc' \in [Ports -> BOOLEAN]
    BY <1>11 DEF Connect, Disconnect, PortResetDone, TypeOK
  <2> QED
    BY <1>11, <2>1, <2>2 DEF Connect, Disconnect, PortResetDone, TypeOK, driverVars
<1>12. ASSUME NEW s \in SlotIds, NEW ok \in BOOLEAN, CompleteTransfer(s, ok)
       PROVE  TypeOK'
  BY <1>12, PushType DEF CompleteTransfer, TypeOK, driverVars, portVars
<1>13. CASE UNCHANGED vars
  BY <1>13 DEF vars, driverVars, portVars, TypeOK
<1> QED
  BY <1>1, <1>2, <1>3, <1>4, <1>5, <1>6, <1>7, <1>8, <1>9, <1>10, <1>11, <1>12,
     <1>13
  DEF Next, ProcessEvent, RunCommand

(* While a handler busy-waits nobody pops its event: the controller only   *)
(* appends (xhci.cpp:502, port.cpp:31-38).                                 *)
LEMMA HandlerHasEventNext ==
  TypeOK /\ HandlerHasEvent /\ [Next]_vars => HandlerHasEvent'
<1> SUFFICES ASSUME TypeOK, HandlerHasEvent, [Next]_vars,
                    Spinning', boot' > MaxPorts
             PROVE  er' # <<>>
  BY DEF HandlerHasEvent
<1>1. CASE ConfigurePort
  BY <1>1, PortAssumption DEF ConfigurePort, Spinning, TypeOK
<1>2. CASE ResumeAfterReset
  BY <1>2, PortAssumption DEF ResumeAfterReset, Spinning, NoSpin
<1>3. CASE ProcessEvent
  BY <1>3
  DEF ProcessEvent, OnPortStatusChangeEvent, OnEnableSlotCompleted,
      OnAddressDeviceCompleted, OnConfigureEndpointCompleted, OnTransferEvent,
      Completion, Polling, Spinning
<1>4. CASE UNCHANGED <<spin, boot>> /\ (er' = er \/ \E e : er' = Append(er, e))
  <2>1. er # <<>>
    BY <1>4 DEF HandlerHasEvent, Spinning
  <2> QED
    BY <1>4, <2>1 DEF TypeOK
<1>5. CASE RunCommand
  BY <1>4, <1>5
  DEF RunCommand, RunEnableSlot, RunAddressDevice, RunConfigureEndpoint,
      Complete, driverVars
<1>6. ASSUME NEW p \in Ports, Connect(p) \/ Disconnect(p) \/ PortResetDone(p)
      PROVE  er' # <<>>
  BY <1>4, <1>6
  DEF Connect, Disconnect, PortResetDone, ReportChange, driverVars
<1>7. ASSUME NEW s \in SlotIds, NEW ok \in BOOLEAN, CompleteTransfer(s, ok)
      PROVE  er' # <<>>
  BY <1>4, <1>7 DEF CompleteTransfer, driverVars
<1>8. CASE UNCHANGED vars
  BY <1>4, <1>8 DEF vars, driverVars
<1> QED
  BY <1>1, <1>2, <1>3, <1>5, <1>6, <1>7, <1>8 DEF Next

(* Every variable keeps its type.  The inductive invariant adds only that  *)
(* the ring is not empty while a handler of KernelMain's event loop waits  *)
(* for a reset: its event is popped after the handler (xhci.cpp:488-505).  *)
THEOREM TypeCorrect == Spec => [](TypeOK /\ HandlerHasEvent)
<1>1. Init => TypeOK /\ HandlerHasEvent
  BY TypeInit DEF Init, HandlerHasEvent, Spinning, NoSpin
<1>2. TypeOK /\ HandlerHasEvent /\ [Next]_vars => (TypeOK /\ HandlerHasEvent)'
  BY TypeNext, HandlerHasEventNext
<1> QED
  BY <1>1, <1>2, PTL DEF Spec

-----------------------------------------------------------------------------
(* The turn.                                                               *)

(* A step that leaves the phases, the turn and the busy wait alone keeps   *)
(* TurnInv.                                                                *)
LEMMA TurnUnchanged ==
  ASSUME TurnInv, UNCHANGED <<port_config_phase, addressing_port, spin>>
  PROVE  TurnInv'
  BY DEF TurnInv, TurnExclusive, Spinning

(* ResetPort takes the turn only when nobody has it (xhci.cpp:88-110).     *)
LEMMA ResetPortTurn ==
  ASSUME TypeOK, TurnInv, ~Spinning, NEW p \in Ports,
         port_config_phase[p] = "NotConnected", ResetPort(p)
  PROVE  TurnInv'
<1>1. p \in PortIds /\ p # 0 /\ spin.init = 0 /\ 0 \in PortIds
  BY ZeroType DEF TurnInv, Ports
<1>2. CASE UNCHANGED <<addressing_port, port_config_phase, spin, portVars>>
  BY <1>2, TurnUnchanged
<1>3. CASE /\ port_config_phase' =
               [port_config_phase EXCEPT ![p] = "WaitingAddressed"]
           /\ UNCHANGED <<addressing_port, spin, portVars>>
  BY <1>1, <1>3 DEF TypeOK, TurnInv, TurnExclusive, TurnPhases, Spinning
<1>4. CASE /\ addressing_port = 0
           /\ addressing_port' = p
           /\ port_config_phase' =
                [port_config_phase EXCEPT ![p] = "ResettingPort"]
           /\ PortReset(p, 0, 0)
  <2>1. spin'.port = p /\ spin'.init = 0
    BY <1>4 DEF PortReset
  <2>2. \A q \in PortIds : port_config_phase'[q] =
          IF q = p THEN "ResettingPort" ELSE port_config_phase[q]
    BY <1>4 DEF TypeOK
  <2> QED
    BY <1>1, <1>4, <2>1, <2>2 DEF TurnInv, TurnExclusive, TurnPhases, Spinning
<1> QED
  BY <1>2, <1>3, <1>4 DEF ResetPort

(* Every step keeps TurnInv: the phases between reset and address          *)
(* assignment belong to addressing_port and to the port a busy wait will   *)
(* still initialise (xhci.cpp:88-281).                                     *)
LEMMA TurnNext == TypeOK /\ TurnInv /\ [Next]_vars => TurnInv'
<1> SUFFICES ASSUME TypeOK, TurnInv, [Next]_vars PROVE TurnInv'
  OBVIOUS
<1>0. 0 \in PortIds /\ 0 \notin Ports /\ Ports \subseteq PortIds
  BY ZeroType DEF Ports
<1>1. CASE ConfigurePort
  <2>1. boot \in Ports
    BY <1>1 DEF ConfigurePort, TypeOK, Ports
  <2>2. CASE port_config_phase[boot] = "NotConnected"
    BY <1>1, <2>1, <2>2, ResetPortTurn DEF ConfigurePort
  <2>3. CASE port_config_phase[boot] # "NotConnected"
    BY <1>1, <2>3, TurnUnchanged DEF ConfigurePort
  <2> QED
    BY <2>2, <2>3
<1>2. CASE ResumeAfterReset
  <2>1. /\ spin' = NoSpin /\ addressing_port' = addressing_port
        /\ spin.port = addressing_port /\ Spinning
    BY <1>2 DEF ResumeAfterReset, TurnInv
  <2>2. CASE spin.init # 0
    <3>1. port_config_phase' =
            [port_config_phase EXCEPT ![spin.init] = "InitializingDevice"]
      BY <1>2, <2>2 DEF ResumeAfterReset, InitializeDevice
    <3>2. spin.init \in PortIds
      BY DEF TypeOK
    <3>3. \A q \in PortIds : port_config_phase'[q] =
            IF q = spin.init THEN "InitializingDevice" ELSE port_config_phase[q]
      BY <3>1, <3>2 DEF TypeOK
    <3> QED
      BY <1>0, <2>1, <2>2, <3>2, <3>3
      DEF TurnInv, TurnExclusive, TurnPhases, Spinning, NoSpin
  <2>3. CASE spin.init = 0
    BY <1>0, <1>2, <2>1, <2>3
    DEF ResumeAfterReset, TurnInv, TurnExclusive, TurnPhases, Spinning, NoSpin
  <2> QED
    BY <2>2, <2>3
<1>3. CASE OnPortStatusChangeEvent
  <2> DEFINE p == Head(er).port_id
  <2>1. p \in Ports /\ ~Spinning
    BY <1>3, PopType DEF OnPortStatusChangeEvent, Polling, Event
  <2>2. CASE port_config_phase[p] = "NotConnected" /\ ResetPort(p)
    BY <2>1, <2>2, ResetPortTurn
  <2>3. CASE port_config_phase[p] = "ResettingPort" /\ EnableSlot(p)
    <3>1. p \in PortIds
      BY <1>0, <2>1
    <3>2. CASE UNCHANGED port_config_phase
      BY <2>3, <3>2, TurnUnchanged DEF EnableSlot
    <3>3. CASE port_config_phase' =
                 [port_config_phase EXCEPT ![p] = "EnablingSlot"]
      <4>1. \A q \in PortIds : port_config_phase'[q] =
              IF q = p THEN "EnablingSlot" ELSE port_config_phase[q]
        BY <3>1, <3>3 DEF TypeOK
      <4> QED
        BY <1>0, <2>1, <2>3, <3>1, <4>1
        DEF EnableSlot, TurnInv, TurnExclusive, TurnPhases, Spinning
    <3> QED
      BY <2>3, <3>2, <3>3 DEF EnableSlot
  <2>4. CASE UNCHANGED <<port_config_phase, addressing_port, spin, portVars, cr>>
    BY <2>4, TurnUnchanged
  <2> QED
    BY <1>3, <2>2, <2>3, <2>4 DEF OnPortStatusChangeEvent
<1>4. CASE OnEnableSlotCompleted
  <2> DEFINE p == addressing_port
  <2>1. p \in PortIds /\ ~Spinning /\ UNCHANGED <<addressing_port, spin>>
    BY <1>4 DEF OnEnableSlotCompleted, Completion, Polling, TypeOK
  <2>2. CASE UNCHANGED port_config_phase
    BY <2>1, <2>2, TurnUnchanged
  <2>3. CASE /\ port_config_phase[p] = "EnablingSlot"
             /\ port_config_phase' =
                  [port_config_phase EXCEPT ![p] = "AddressingDevice"]
    <3>1. \A q \in PortIds : port_config_phase'[q] =
            IF q = p THEN "AddressingDevice" ELSE port_config_phase[q]
      BY <2>1, <2>3 DEF TypeOK
    <3> QED
      BY <1>0, <2>1, <2>3, <3>1
      DEF TurnInv, TurnExclusive, TurnPhases, Spinning
  <2> QED
    BY <1>4, <2>2, <2>3 DEF OnEnableSlotCompleted, AddressDevice
<1>5. CASE OnAddressDeviceCompleted
  <2> DEFINE s == Head(er).slot_id
             p == RootHubPort(s)
  <2>1. ~Spinning /\ spin.init = 0
    BY <1>5 DEF OnAddressDeviceCompleted, Completion, Polling, TurnInv
  <2>2. CASE UNCHANGED <<addressing_port, port_config_phase, spin>>
    BY <2>2, TurnUnchanged
  <2> DEFINE accepted == /\ p = addressing_port
                         /\ port_config_phase[p] = "AddressingDevice"
  <2>3. ASSUME accepted, NEW n \in Ports, NextWaiting(n),
               addressing_port' = n,
               port_config_phase' =
                 [port_config_phase EXCEPT ![n] = "ResettingPort"],
               PortReset(n, p, s)
        PROVE  TurnInv'
    <3>1. n \in PortIds /\ n # 0 /\ port_config_phase[n] = "WaitingAddressed"
      BY <1>0, <2>3 DEF NextWaiting
    <3>2. spin'.port = n /\ spin'.init = p
      BY <2>3 DEF PortReset
    <3>3. p \in PortIds /\ p # n /\ p # 0
      BY <1>0, <2>3, <3>1 DEF TurnInv, TypeOK
    <3>4. \A q \in PortIds : port_config_phase'[q] =
            IF q = n THEN "ResettingPort" ELSE port_config_phase[q]
      BY <2>3, <3>1 DEF TypeOK
    <3> QED
      BY <1>0, <2>1, <2>3, <3>1, <3>2, <3>3, <3>4
      DEF TurnInv, TurnExclusive, TurnPhases, Spinning
  <2>4. CASE /\ accepted
             /\ addressing_port' = 0
             /\ port_config_phase' =
                  [port_config_phase EXCEPT ![p] = "InitializingDevice"]
             /\ UNCHANGED spin
    <3>1. p \in PortIds
      BY <2>4 DEF TypeOK
    <3>2. \A q \in PortIds : port_config_phase'[q] =
            IF q = p THEN "InitializingDevice" ELSE port_config_phase[q]
      BY <2>4, <3>1 DEF TypeOK
    <3> QED
      BY <1>0, <2>1, <2>4, <3>1, <3>2
      DEF TurnInv, TurnExclusive, TurnPhases, Spinning
  <2> QED
    BY <1>5, <2>2, <2>3, <2>4 DEF OnAddressDeviceCompleted, InitializeDevice
<1>6. CASE OnConfigureEndpointCompleted
  <2> DEFINE p == RootHubPort(Head(er).slot_id)
  <2>1. ~Spinning /\ UNCHANGED <<addressing_port, spin>>
    BY <1>6 DEF OnConfigureEndpointCompleted, Completion, Polling
  <2>2. CASE UNCHANGED port_config_phase
    BY <2>1, <2>2, TurnUnchanged
  <2>3. CASE /\ port_config_phase[p] = "ConfiguringEndpoints"
             /\ port_config_phase' =
                  [port_config_phase EXCEPT ![p] = "Configured"]
    <3>1. \A q \in PortIds : port_config_phase'[q] =
            IF q = p THEN "Configured" ELSE port_config_phase[q]
      BY <2>3 DEF TypeOK
    <3> QED
      BY <1>0, <2>1, <2>3, <3>1
      DEF TurnInv, TurnExclusive, TurnPhases, Spinning
  <2> QED
    BY <1>6, <2>2, <2>3 DEF OnConfigureEndpointCompleted
<1>7. CASE OnTransferEvent
  <2> DEFINE p == RootHubPort(Head(er).slot_id)
  <2>1. ~Spinning /\ UNCHANGED <<addressing_port, spin>>
    BY <1>7 DEF OnTransferEvent, Polling
  <2>2. CASE UNCHANGED port_config_phase
    BY <2>1, <2>2, TurnUnchanged
  <2>3. CASE /\ port_config_phase[p] = "InitializingDevice"
             /\ port_config_phase' =
                  [port_config_phase EXCEPT ![p] = "ConfiguringEndpoints"]
    <3>1. \A q \in PortIds : port_config_phase'[q] =
            IF q = p THEN "ConfiguringEndpoints" ELSE port_config_phase[q]
      BY <2>3 DEF TypeOK
    <3> QED
      BY <1>0, <2>1, <2>3, <3>1
      DEF TurnInv, TurnExclusive, TurnPhases, Spinning
  <2> QED
    BY <1>7, <2>2, <2>3 DEF OnTransferEvent, ConfigureEndpoints
<1>8. CASE RunCommand
  BY <1>8, TurnUnchanged
  DEF RunCommand, RunEnableSlot, RunAddressDevice, RunConfigureEndpoint,
      driverVars
<1>9. ASSUME NEW p \in Ports, Connect(p) \/ Disconnect(p) \/ PortResetDone(p)
      PROVE  TurnInv'
  BY <1>9, TurnUnchanged DEF Connect, Disconnect, PortResetDone, driverVars
<1>10. ASSUME NEW s \in SlotIds, NEW ok \in BOOLEAN, CompleteTransfer(s, ok)
       PROVE  TurnInv'
  BY <1>10, TurnUnchanged DEF CompleteTransfer, driverVars
<1>11. CASE UNCHANGED vars
  BY <1>11, TurnUnchanged DEF vars, driverVars
<1> QED
  BY <1>1, <1>2, <1>3, <1>4, <1>5, <1>6, <1>7, <1>8, <1>9, <1>10, <1>11
  DEF Next, ProcessEvent

-----------------------------------------------------------------------------
(* The bus.                                                                *)

(* A step that leaves the bus, the busy wait and the turn alone and takes  *)
(* no port back out of AddressedPhases.                                    *)
LEMMA BusFrame ==
  ASSUME TypeOK, BusInv,
         UNCHANGED <<device, pr, spin, addressing_port,
                     device_context_pointers>>,
         \A s \in SlotIds :
           /\ devices'[s].input_port = devices[s].input_port
           /\ devices'[s].root_hub_port_num = devices[s].root_hub_port_num,
         \A p \in PortIds : port_config_phase[p] \in AddressedPhases
                             => port_config_phase'[p] \in AddressedPhases
  PROVE  BusInv'
<1>1. \A s \in SlotIds : /\ devices[s].input_port \in PortIds
                         /\ devices[s].root_hub_port_num \in PortIds
  BY DEF TypeOK, DeviceObject
<1>2. Ports \subseteq PortIds
  BY ZeroType
<1> QED
  BY <1>1, <1>2 DEF BusInv, Allocated, RootHubPort, FindBySlot, AddressedPhases

(* A port that starts its reset has no device with an address, and nobody  *)
(* else is on the bus at address 0.                                        *)
LEMMA BusPortReset ==
  ASSUME TypeOK, BusInv, ~Spinning, NEW n \in Ports,
         port_config_phase[n] \in {"NotConnected", "WaitingAddressed"},
         \A p \in Ports : device[p] # "default",
         addressing_port' = n,
         port_config_phase' =
           [port_config_phase EXCEPT ![n] = "ResettingPort"],
         pr' = [pr EXCEPT ![n] = TRUE],
         spin'.port = n,
         UNCHANGED <<device, devices, device_context_pointers>>
  PROVE  BusInv'
<1>1. /\ Ports \subseteq PortIds /\ n \in PortIds
      /\ \A p \in Ports : p # 0
  BY ZeroType DEF Ports
<1>2. \A q \in PortIds : port_config_phase'[q] =
        IF q = n THEN "ResettingPort" ELSE port_config_phase[q]
  BY <1>1 DEF TypeOK
<1>3. \A q \in PortIds : port_config_phase[q] \in AddressedPhases
                         => port_config_phase'[q] \in AddressedPhases
  BY <1>2 DEF AddressedPhases
<1>5. \A p \in Ports : pr'[p] => p = n
  BY <1>1 DEF BusInv, Spinning, TypeOK
<1>6. device[n] \in {"detached", "attached"}
  BY DEF BusInv, TypeOK, AddressedPhases
<1>7. \A s \in SlotIds : /\ devices[s].input_port \in PortIds
                         /\ devices[s].root_hub_port_num \in PortIds
  BY DEF TypeOK, DeviceObject
<1>8. \A p \in Ports :
        /\ pr'[p] => p = spin'.port /\ device'[p] \in {"detached", "attached"}
        /\ device'[p] = "default" => p = addressing_port'
        /\ device'[p] = "addressed" => port_config_phase'[p] \in AddressedPhases
  BY <1>1, <1>3, <1>5, <1>6 DEF BusInv
<1>9. \A s \in SlotIds :
        /\ device_context_pointers'[s] = "context" => Allocated(s)'
        /\ Allocated(s)' =>
             port_config_phase'[devices'[s].input_port] \in AddressedPhases
        /\ RootHubPort(s)' # 0 =>
             /\ port_config_phase'[RootHubPort(s)'] \in AddressedPhases
             /\ device'[RootHubPort(s)'] # "default"
  BY <1>3, <1>7 DEF BusInv, Allocated, RootHubPort, FindBySlot
<1> QED
  BY <1>8, <1>9 DEF BusInv

(* ResetPort keeps BusInv: it resets only a port on which no address was   *)
(* assigned, and only when nobody has the turn (xhci.cpp:88-110).          *)
LEMMA ResetPortBus ==
  ASSUME TypeOK, TurnInv, BusInv, ~Spinning, NEW p \in Ports,
         port_config_phase[p] = "NotConnected", ResetPort(p),
         UNCHANGED <<devices, device_context_pointers>>
  PROVE  BusInv'
<1>1. p \in PortIds /\ \A q \in Ports : q # 0
  BY ZeroType DEF Ports
<1>2. CASE UNCHANGED <<addressing_port, port_config_phase, spin, portVars>>
  BY <1>2, BusFrame DEF portVars
<1>3. CASE /\ port_config_phase' =
               [port_config_phase EXCEPT ![p] = "WaitingAddressed"]
           /\ UNCHANGED <<addressing_port, spin, portVars>>
  <2>1. \A q \in PortIds : port_config_phase[q] \in AddressedPhases
                           => port_config_phase'[q] \in AddressedPhases
    BY <1>1, <1>3 DEF TypeOK, AddressedPhases
  <2> QED
    BY <1>3, <2>1, BusFrame DEF portVars
<1>4. CASE /\ addressing_port = 0
           /\ addressing_port' = p
           /\ port_config_phase' =
                [port_config_phase EXCEPT ![p] = "ResettingPort"]
           /\ PortReset(p, 0, 0)
  <2>1. \A q \in Ports : device[q] # "default"
    BY <1>1, <1>4 DEF BusInv
  <2> QED
    BY <1>4, <2>1, BusPortReset DEF PortReset
<1> QED
  BY <1>2, <1>3, <1>4 DEF ResetPort

(* Every step keeps BusInv, unplugging and failed commands included.       *)
LEMMA BusNext == TypeOK /\ TurnInv /\ BusInv /\ [Next]_vars => BusInv'
<1> SUFFICES ASSUME TypeOK, TurnInv, BusInv, [Next]_vars PROVE BusInv'
  OBVIOUS
<1>0. /\ 0 \in PortIds /\ Ports \subseteq PortIds /\ \A q \in Ports : q # 0
      /\ \A q \in PortIds : q # 0 => q \in Ports
      /\ Slots \subseteq SlotIds
  BY ZeroType DEF Ports, PortIds
<1>a. \A s \in SlotIds : /\ devices[s].input_port \in PortIds
                         /\ devices[s].root_hub_port_num \in PortIds
  BY DEF TypeOK, DeviceObject
<1>1. CASE ConfigurePort
  <2>1. boot \in Ports
    BY <1>1 DEF ConfigurePort, TypeOK, Ports
  <2>2. CASE port_config_phase[boot] = "NotConnected"
    BY <1>1, <2>1, <2>2, ResetPortBus DEF ConfigurePort
  <2>3. CASE port_config_phase[boot] # "NotConnected"
    BY <1>1, <2>3, BusFrame DEF ConfigurePort, portVars
  <2> QED
    BY <2>2, <2>3
<1>2. CASE ResumeAfterReset
  <2>1. /\ spin' = NoSpin /\ ~pr[spin.port] /\ spin.port = addressing_port
        /\ UNCHANGED <<addressing_port, device, pr, device_context_pointers>>
    BY <1>2 DEF ResumeAfterReset, TurnInv, portVars
  <2>2. \A p \in Ports : ~pr'[p]
    BY <2>1 DEF BusInv
  <2>3. /\ \A s \in SlotIds :
             /\ devices'[s].input_port = devices[s].input_port
             /\ devices'[s].root_hub_port_num = devices[s].root_hub_port_num
        /\ \A q \in PortIds : port_config_phase[q] \in AddressedPhases
                              => port_config_phase'[q] \in AddressedPhases
    <3>1. CASE InitializeDevice(spin.init, spin.slot)
      <4>1. spin.init \in PortIds /\ spin.slot \in SlotIds
        BY DEF TypeOK
      <4> QED
        BY <3>1, <4>1 DEF InitializeDevice, TypeOK, AddressedPhases, DeviceObject
    <3>2. CASE UNCHANGED <<port_config_phase, devices>>
      BY <3>2
    <3> QED
      BY <1>2, <3>1, <3>2 DEF ResumeAfterReset
  <2>4. \A p \in Ports :
          /\ device'[p] = "default" => p = addressing_port'
          /\ device'[p] = "addressed" => port_config_phase'[p] \in AddressedPhases
    BY <1>0, <2>1, <2>3 DEF BusInv
  <2>5. \A s \in SlotIds :
          /\ device_context_pointers'[s] = "context" => Allocated(s)'
          /\ Allocated(s)' =>
               port_config_phase'[devices'[s].input_port] \in AddressedPhases
          /\ RootHubPort(s)' # 0 =>
               /\ port_config_phase'[RootHubPort(s)'] \in AddressedPhases
               /\ device'[RootHubPort(s)'] # "default"
    BY <1>a, <2>1, <2>3 DEF BusInv, Allocated, RootHubPort, FindBySlot
  <2> QED
    BY <2>2, <2>4, <2>5 DEF BusInv
<1>3. CASE OnPortStatusChangeEvent
  <2> DEFINE p == Head(er).port_id
  <2>1. /\ p \in Ports /\ p \in PortIds /\ ~Spinning
        /\ UNCHANGED <<devices, device_context_pointers>>
    BY <1>0, <1>3, PopType DEF OnPortStatusChangeEvent, Polling, Event
  <2>2. CASE port_config_phase[p] = "NotConnected" /\ ResetPort(p)
    BY <2>1, <2>2, ResetPortBus
  <2>3. CASE port_config_phase[p] = "ResettingPort" /\ EnableSlot(p)
    <3>1. \A q \in PortIds : port_config_phase[q] \in AddressedPhases
                             => port_config_phase'[q] \in AddressedPhases
      BY <2>1, <2>3 DEF EnableSlot, TypeOK, AddressedPhases
    <3> QED
      BY <2>1, <2>3, <3>1, BusFrame DEF EnableSlot
  <2>4. CASE UNCHANGED <<port_config_phase, addressing_port, spin, portVars, cr>>
    BY <2>1, <2>4, BusFrame DEF portVars
  <2> QED
    BY <1>3, <2>2, <2>3, <2>4 DEF OnPortStatusChangeEvent
<1>4. CASE OnEnableSlotCompleted
  <2> DEFINE s == Head(er).slot_id
             p == addressing_port
  <2>1. s \in SlotIds
    BY <1>4, PopType DEF OnEnableSlotCompleted, Completion, Polling, Event
  <2>2. UNCHANGED <<addressing_port, spin, device, pr>>
    BY <1>4 DEF OnEnableSlotCompleted, portVars
  <2>3. CASE UNCHANGED <<devices, device_context_pointers, port_config_phase>>
    BY <2>2, <2>3, BusFrame
  <2>4. CASE port_config_phase[p] = "EnablingSlot" /\ AddressDevice(p, s)
    <3>1. p \in Ports
      BY <1>0, <2>4 DEF TurnInv, TypeOK
    <3>2. /\ devices' = [devices EXCEPT ![s].input_port = p]
          /\ device_context_pointers' =
               [device_context_pointers EXCEPT ![s] = "context"]
          /\ port_config_phase' =
               [port_config_phase EXCEPT ![p] = "AddressingDevice"]
      BY <2>4 DEF AddressDevice
    <3>3. \A q \in PortIds :
            /\ port_config_phase[q] \in AddressedPhases
                 => port_config_phase'[q] \in AddressedPhases
            /\ port_config_phase'[p] \in AddressedPhases
      BY <1>0, <3>1, <3>2 DEF TypeOK, AddressedPhases
    <3>4. \A t \in SlotIds :
            /\ devices'[t].root_hub_port_num = devices[t].root_hub_port_num
            /\ devices'[t].input_port = IF t = s THEN p ELSE devices[t].input_port
      BY <2>1, <3>2 DEF TypeOK, DeviceObject
    <3>5. \A t \in SlotIds : device_context_pointers'[t] =
            IF t = s THEN "context" ELSE device_context_pointers[t]
      BY <2>1, <3>2 DEF TypeOK
    <3>6. \A q \in Ports :
            /\ pr'[q] => q = spin'.port /\ device'[q] \in {"detached", "attached"}
            /\ device'[q] = "default" => q = addressing_port'
            /\ device'[q] = "addressed" => port_config_phase'[q] \in AddressedPhases
      BY <1>0, <2>2, <3>3 DEF BusInv
    <3>7. \A t \in SlotIds :
            /\ device_context_pointers'[t] = "context" => Allocated(t)'
            /\ Allocated(t)' =>
                 port_config_phase'[devices'[t].input_port] \in AddressedPhases
            /\ RootHubPort(t)' # 0 =>
                 /\ port_config_phase'[RootHubPort(t)'] \in AddressedPhases
                 /\ device'[RootHubPort(t)'] # "default"
      BY <1>0, <1>a, <2>2, <3>1, <3>3, <3>4, <3>5
      DEF BusInv, Allocated, RootHubPort, FindBySlot
    <3> QED
      BY <3>6, <3>7 DEF BusInv
  <2> QED
    BY <1>4, <2>3, <2>4 DEF OnEnableSlotCompleted
<1>5. CASE OnAddressDeviceCompleted
  <2> DEFINE s == Head(er).slot_id
             p == RootHubPort(s)
             accepted == /\ p = addressing_port
                         /\ port_config_phase[p] = "AddressingDevice"
  <2>1. s \in SlotIds
    BY <1>5, PopType DEF OnAddressDeviceCompleted, Completion, Polling, Event
  <2>2. ~Spinning /\ UNCHANGED device_context_pointers
    BY <1>5 DEF OnAddressDeviceCompleted, Completion, Polling
  <2>3. CASE UNCHANGED <<addressing_port, port_config_phase, devices, spin,
                         portVars>>
    BY <2>2, <2>3, BusFrame DEF portVars
  <2>4. ASSUME accepted PROVE \A q \in Ports : device[q] # "default"
    <3>1. p # 0
      BY <2>4 DEF TurnInv
    <3> QED
      BY <2>1, <2>4, <3>1 DEF BusInv
  <2>5. ASSUME accepted, NEW n \in Ports, NextWaiting(n),
               addressing_port' = n,
               port_config_phase' =
                 [port_config_phase EXCEPT ![n] = "ResettingPort"],
               PortReset(n, p, s),
               UNCHANGED devices
        PROVE  BusInv'
    <3>1. port_config_phase[n] \in {"NotConnected", "WaitingAddressed"}
      BY <2>5 DEF NextWaiting
    <3> QED
      BY <2>2, <2>4, <2>5, <3>1, BusPortReset DEF PortReset
  <2>6. CASE /\ accepted
             /\ addressing_port' = 0
             /\ InitializeDevice(p, s)
             /\ UNCHANGED <<spin, portVars>>
    <3>1. p \in PortIds
      BY <2>6 DEF TypeOK
    <3>2. \A q \in PortIds : port_config_phase[q] \in AddressedPhases
                             => port_config_phase'[q] \in AddressedPhases
      BY <2>6, <3>1 DEF InitializeDevice, TypeOK, AddressedPhases
    <3>3. \A t \in SlotIds :
            /\ devices'[t].input_port = devices[t].input_port
            /\ devices'[t].root_hub_port_num = devices[t].root_hub_port_num
      BY <2>1, <2>6 DEF InitializeDevice, TypeOK, DeviceObject
    <3>4. UNCHANGED <<device, pr, spin>>
      BY <2>6 DEF portVars
    <3>5. \A q \in Ports :
            /\ pr'[q] => q = spin'.port /\ device'[q] \in {"detached", "attached"}
            /\ device'[q] # "default"
            /\ device'[q] = "addressed" => port_config_phase'[q] \in AddressedPhases
      BY <1>0, <2>4, <2>6, <3>2, <3>4 DEF BusInv
    <3>6. \A t \in SlotIds :
            /\ device_context_pointers'[t] = "context" => Allocated(t)'
            /\ Allocated(t)' =>
                 port_config_phase'[devices'[t].input_port] \in AddressedPhases
            /\ RootHubPort(t)' # 0 =>
                 /\ port_config_phase'[RootHubPort(t)'] \in AddressedPhases
                 /\ device'[RootHubPort(t)'] # "default"
      BY <1>a, <2>2, <3>2, <3>3, <3>4
      DEF BusInv, Allocated, RootHubPort, FindBySlot
    <3> QED
      BY <3>5, <3>6 DEF BusInv
  <2> QED
    BY <1>5, <2>3, <2>5, <2>6 DEF OnAddressDeviceCompleted
<1>6. CASE OnConfigureEndpointCompleted
  <2> DEFINE p == RootHubPort(Head(er).slot_id)
  <2>1. \A q \in PortIds : port_config_phase[q] \in AddressedPhases
                           => port_config_phase'[q] \in AddressedPhases
    BY <1>6 DEF OnConfigureEndpointCompleted, TypeOK, AddressedPhases
  <2> QED
    BY <1>6, <2>1, BusFrame DEF OnConfigureEndpointCompleted, portVars
<1>7. CASE OnTransferEvent
  <2> DEFINE s == Head(er).slot_id
  <2>1. s \in SlotIds
    BY <1>7, PopType DEF OnTransferEvent, Polling, Event
  <2>2. \A q \in PortIds : port_config_phase[q] \in AddressedPhases
                           => port_config_phase'[q] \in AddressedPhases
    BY <1>7 DEF OnTransferEvent, ConfigureEndpoints, TypeOK, AddressedPhases
  <2>3. \A t \in SlotIds :
          /\ devices'[t].input_port = devices[t].input_port
          /\ devices'[t].root_hub_port_num = devices[t].root_hub_port_num
    <3>1. CASE devices' = devices
      BY <3>1
    <3>2. ASSUME NEW k, devices' = [devices EXCEPT ![s].initialize_phase = k]
          PROVE  \A t \in SlotIds :
                   /\ devices'[t].input_port = devices[t].input_port
                   /\ devices'[t].root_hub_port_num = devices[t].root_hub_port_num
      BY <2>1, <3>2 DEF TypeOK, DeviceObject
    <3> QED
      BY <1>7, <3>1, <3>2 DEF OnTransferEvent
  <2> QED
    BY <1>7, <2>2, <2>3, BusFrame DEF OnTransferEvent, portVars
<1>8. CASE RunEnableSlot \/ RunConfigureEndpoint
  BY <1>8, BusFrame
  DEF RunEnableSlot, RunConfigureEndpoint, driverVars, portVars
<1>9. CASE RunAddressDevice
  <2> DEFINE s == Head(cr).slot_id
             p == devices[s].input_port
  <2>1. UNCHANGED <<port_config_phase, addressing_port, spin, pr,
                    device_context_pointers>>
    BY <1>9 DEF RunAddressDevice
  <2>2. CASE UNCHANGED <<device, devices>>
    BY <2>1, <2>2, BusFrame
  <2>3. CASE /\ Addressable(s)
             /\ device' = [device EXCEPT ![p] = "addressed"]
             /\ devices' = [devices EXCEPT ![s].root_hub_port_num = p]
    <3>1. s \in SlotIds
      BY <1>0, <2>3 DEF Addressable, TypeOK
    <3>2. Allocated(s) /\ port_config_phase[p] \in AddressedPhases
      BY <2>3, <3>1 DEF Addressable, BusInv
    <3>3. p \in Ports
      BY <1>0, <1>a, <3>1, <3>2 DEF Allocated, FindBySlot
    <3>4. \A q \in Ports : device'[q] = IF q = p THEN "addressed" ELSE device[q]
      BY <2>3, <3>3 DEF TypeOK
    <3>5. \A t \in SlotIds :
            /\ devices'[t].input_port = devices[t].input_port
            /\ devices'[t].root_hub_port_num =
                 IF t = s THEN p ELSE devices[t].root_hub_port_num
      BY <2>3, <3>1 DEF TypeOK, DeviceObject
    <3>6. ~pr[p]
      BY <2>3, <3>3 DEF Addressable, BusInv
    <3>7. \A q \in Ports :
            /\ pr'[q] => q = spin'.port /\ device'[q] \in {"detached", "attached"}
            /\ device'[q] = "default" => q = addressing_port'
            /\ device'[q] = "addressed" => port_config_phase'[q] \in AddressedPhases
      BY <2>1, <3>2, <3>4, <3>6 DEF BusInv
    <3>8. \A t \in SlotIds :
            /\ device_context_pointers'[t] = "context" => Allocated(t)'
            /\ Allocated(t)' =>
                 port_config_phase'[devices'[t].input_port] \in AddressedPhases
            /\ RootHubPort(t)' # 0 =>
                 /\ port_config_phase'[RootHubPort(t)'] \in AddressedPhases
                 /\ device'[RootHubPort(t)'] # "default"
      BY <1>0, <1>a, <2>1, <3>2, <3>3, <3>4, <3>5
      DEF BusInv, Allocated, RootHubPort, FindBySlot
    <3> QED
      BY <3>7, <3>8 DEF BusInv
  <2> QED
    BY <1>9, <2>2, <2>3 DEF RunAddressDevice
<1>10. ASSUME NEW p \in Ports, Connect(p) \/ Disconnect(p)
       PROVE  BusInv'
  <2>1. UNCHANGED <<driverVars, pr>>
    BY <1>10 DEF Connect, Disconnect
  <2>2. \A q \in Ports : \/ device'[q] = device[q]
                         \/ device'[q] \in {"detached", "attached"}
    BY <1>10 DEF Connect, Disconnect, TypeOK
  <2> QED
    BY <1>0, <1>a, <2>1, <2>2
    DEF driverVars, BusInv, Allocated, RootHubPort, FindBySlot
<1>11. ASSUME NEW p \in Ports, PortResetDone(p)
       PROVE  BusInv'
  <2>1. UNCHANGED driverVars /\ pr[p] /\ pr' = [pr EXCEPT ![p] = FALSE]
    BY <1>11 DEF PortResetDone
  <2>2. \A q \in Ports : device'[q] =
          IF q = p /\ device[q] # "detached" THEN "default" ELSE device[q]
    BY <1>11 DEF PortResetDone, TypeOK
  <2>3. /\ p = addressing_port
        /\ port_config_phase[p] = "ResettingPort"
    BY <1>0, <2>1 DEF BusInv, TurnInv, Spinning
  <2>4. \A q \in Ports : pr'[q] => pr[q]
    BY <2>1 DEF TypeOK
  <2>5. \A q \in Ports : pr'[q] => q # p
    BY <2>1 DEF TypeOK
  <2>6. \A q \in Ports :
          /\ pr'[q] => q = spin'.port /\ device'[q] \in {"detached", "attached"}
          /\ device'[q] = "default" => q = addressing_port'
          /\ device'[q] = "addressed" => port_config_phase'[q] \in AddressedPhases
    BY <2>1, <2>2, <2>3, <2>4, <2>5 DEF BusInv, driverVars
  <2>7. \A t \in SlotIds :
          /\ device_context_pointers'[t] = "context" => Allocated(t)'
          /\ Allocated(t)' =>
               port_config_phase'[devices'[t].input_port] \in AddressedPhases
          /\ RootHubPort(t)' # 0 =>
               /\ port_config_phase'[RootHubPort(t)'] \in AddressedPhases
               /\ device'[RootHubPort(t)'] # "default"
    BY <1>0, <1>a, <2>1, <2>2, <2>3
    DEF BusInv, driverVars, Allocated, RootHubPort, FindBySlot, AddressedPhases
  <2> QED
    BY <2>6, <2>7 DEF BusInv
<1>12. ASSUME NEW s \in SlotIds, NEW ok \in BOOLEAN, CompleteTransfer(s, ok)
       PROVE  BusInv'
  BY <1>12, BusFrame DEF CompleteTransfer, driverVars, portVars
<1>13. CASE UNCHANGED vars
  BY <1>13, BusFrame DEF vars, driverVars, portVars
<1> QED
  BY <1>1, <1>2, <1>3, <1>4, <1>5, <1>6, <1>7, <1>8, <1>9, <1>10, <1>11,
     <1>12, <1>13
  DEF Next, ProcessEvent, RunCommand

-----------------------------------------------------------------------------
(* The theorems.                                                           *)

IInv == TypeOK /\ HandlerHasEvent /\ TurnInv /\ BusInv

(* IInv holds initially and every step keeps it.                           *)
LEMMA Inductive ==
  /\ Init => IInv
  /\ IInv /\ [Next]_vars => IInv'
<1>1. Init => TurnInv
  BY ZeroType
  DEF Init, TurnInv, TurnExclusive, TurnPhases, Spinning, NoSpin, Ports
<1>2. Init => BusInv
  BY ZeroType
  DEF Init, BusInv, Allocated, RootHubPort, FindBySlot, NoDevice, NoSpin
<1>3. Init => TypeOK /\ HandlerHasEvent
  BY TypeInit DEF Init, HandlerHasEvent, Spinning, NoSpin
<1> QED
  BY <1>1, <1>2, <1>3, TypeNext, HandlerHasEventNext, TurnNext, BusNext DEF IInv

(* IInv, the conjunction of the type invariant, the turn and the bus,      *)
(* holds in every reachable state for every number of ports and slots.     *)
THEOREM Invariance == Spec => []IInv
  BY Inductive, PTL DEF Spec

(* addressing_port names the one port between reset and address            *)
(* assignment, and is 0 when there is none, for every number of ports and  *)
(* in every order of events (xhci.cpp:40-43).                              *)
THEOREM TurnIsExclusive == Spec => []TurnExclusive
<1>1. IInv => TurnExclusive
  BY DEF IInv, TurnInv
<1> QED
  BY <1>1, Invariance, PTL

(* No two ports are ever both in reset or at address 0 (xhci.cpp:32-36),   *)
(* also when devices come and go and commands fail.                        *)
THEOREM NoTwoAtDefault == Spec => []OneDefaultAddress
<1>1. IInv => OneDefaultAddress
  <2> SUFFICES ASSUME IInv, NEW p \in Ports, NEW q \in Ports,
                      pr[p] \/ device[p] = "default",
                      pr[q] \/ device[q] = "default"
               PROVE  p = q
    BY DEF OneDefaultAddress
  <2>1. \A r \in Ports : pr[r] => r = addressing_port
    BY ZeroType DEF IInv, BusInv, TurnInv, Spinning, Ports
  <2> QED
    BY <2>1 DEF IInv, BusInv
<1> QED
  BY <1>1, Invariance, PTL

(* The driver, its controller and its user together implement UsbBus.      *)
THEOREM ImplementsBus == Spec => BusSpec
<1>1. Init => Bus!Init
  BY DEF Init, Bus!Init
<1>2. IInv /\ [Next]_vars => [Bus!Next]_device
  <2> SUFFICES ASSUME IInv, Next PROVE Bus!Next \/ UNCHANGED device
    BY DEF vars, portVars
  <2>1. CASE ConfigurePort \/ ResumeAfterReset \/ ProcessEvent
    BY <2>1
    DEF ConfigurePort, ResumeAfterReset, ProcessEvent, ResetPort, PortReset,
        EnableSlot, OnPortStatusChangeEvent, OnEnableSlotCompleted,
        OnAddressDeviceCompleted, OnConfigureEndpointCompleted,
        OnTransferEvent, portVars
  <2>2. CASE RunEnableSlot \/ RunConfigureEndpoint
    BY <2>2 DEF RunEnableSlot, RunConfigureEndpoint, portVars
  <2>3. CASE RunAddressDevice
    <3> DEFINE s == Head(cr).slot_id
               p == devices[s].input_port
    <3>1. CASE UNCHANGED device
      BY <3>1
    <3>2. CASE Addressable(s) /\ device' = [device EXCEPT ![p] = "addressed"]
      <4>1. s \in SlotIds
        BY <3>2, ZeroType DEF Addressable, IInv, TypeOK
      <4>2. p \in Ports
        BY <3>2, <4>1
        DEF Addressable, IInv, TypeOK, DeviceObject, BusInv, Allocated,
            FindBySlot, Ports, PortIds
      <4>3. Bus!SetAddress(p)
        BY <3>2 DEF Addressable, Bus!SetAddress
      <4> QED
        BY <4>2, <4>3 DEF Bus!Next
    <3> QED
      BY <2>3, <3>1, <3>2 DEF RunAddressDevice
  <2>4. ASSUME NEW p \in Ports, Connect(p) PROVE Bus!Next
    BY <2>4 DEF Connect, Bus!Next, Bus!Plug
  <2>5. ASSUME NEW p \in Ports, Disconnect(p) PROVE Bus!Next
    BY <2>5 DEF Disconnect, Bus!Next, Bus!Unplug
  <2>6. ASSUME NEW p \in Ports, PortResetDone(p)
        PROVE  Bus!Next \/ UNCHANGED device
    <3>1. /\ device[p] \in {"detached", "attached"}
          /\ p = spin.port
      BY <2>6 DEF PortResetDone, IInv, BusInv
    <3>2. p = addressing_port
      BY <3>1, ZeroType DEF IInv, TurnInv, Spinning, Ports
    <3>3. CASE device[p] = "detached"
      BY <2>6, <3>3 DEF PortResetDone, IInv, TypeOK
    <3>4. CASE device[p] = "attached"
      <4>1. \A q \in Ports : device[q] # "default"
        BY <3>2, <3>4 DEF IInv, BusInv
      <4>2. device' = [device EXCEPT ![p] = "default"]
        BY <2>6, <3>4 DEF PortResetDone, IInv, TypeOK
      <4> QED
        BY <3>4, <4>1, <4>2 DEF Bus!Next, Bus!Reset
    <3> QED
      BY <3>1, <3>3, <3>4
  <2>7. ASSUME NEW s \in SlotIds, NEW ok \in BOOLEAN, CompleteTransfer(s, ok)
        PROVE  UNCHANGED device
    BY <2>7 DEF CompleteTransfer, portVars
  <2> QED
    BY <2>1, <2>2, <2>3, <2>4, <2>5, <2>6, <2>7 DEF Next, RunCommand
<1> QED
  BY <1>1, <1>2, Invariance, PTL DEF Spec, BusSpec, Bus!Spec

-----------------------------------------------------------------------------
(* Slots and ports.                                                        *)

(* What the slots say of the ports: a slot number the driver works with    *)
(* comes from the controller, a slot whose output context names a port is  *)
(* the one whose input context does, and no two input contexts name one    *)
(* port.  spin.slot is the slot InitializeDevice gets after the wait.      *)
SlotInv ==
  /\ \A s \in SlotIds :
       /\ Allocated(s) /\ s # 0 => s \in enabled_slots
       /\ RootHubPort(s) # 0 =>
            s # 0 /\ RootHubPort(s) = devices[s].input_port
  /\ \A s, t \in SlotIds :
       Allocated(s) /\ devices[s].input_port = devices[t].input_port => s = t
  /\ spin.init # 0 => RootHubPort(spin.slot) = spin.init /\ boot > MaxPorts

(* A port past address assignment has a slot whose device is as far as the *)
(* port is.                                                                *)
Begun ==
  \A p \in Ports :
    /\ port_config_phase[p] = "InitializingDevice"
         => \E s \in Slots : OwnsSlot(p, s) /\ devices[s].initialize_phase >= 1
    /\ port_config_phase[p] \in {"ConfiguringEndpoints", "Configured"}
         => \E s \in Slots : OwnsSlot(p, s) /\ devices[s].initialize_phase = 4

(* The phase that waits for x, a command or completion in flight.  While   *)
(* the end of a turn busy-waits, its completion is still in the ring.      *)
Awaited(x) ==
  /\ InFlightType(x) = "EnableSlot" =>
       port_config_phase[addressing_port] = "EnablingSlot"
  /\ InFlightType(x) = "AddressDevice" =>
       \/ port_config_phase[addressing_port] = "AddressingDevice"
       \/ spin.init # 0 /\ x = <<"completion", 1>>
  /\ InFlightType(x) = "ConfigureEndpoint" =>
       port_config_phase[RootHubPort(InFlightSlot(x))] = "ConfiguringEndpoints"

(* A slot that Enable Slot has just returned has no device object yet; one *)
(* that is to be addressed has everything the controller will read.        *)
Fresh(x) ==
  x[1] = "completion" /\ InFlightType(x) = "EnableSlot" /\ InFlightSlot(x) # 0 =>
    InFlightSlot(x) \in enabled_slots /\ ~Allocated(InFlightSlot(x))
Loaded(x) ==
  x[1] = "command" /\ InFlightType(x) = "AddressDevice" =>
    /\ devices[InFlightSlot(x)].input_port = addressing_port
    /\ device_context_pointers[InFlightSlot(x)] = "context"

(* What the next handler and the controller rely on of x.                  *)
Due(x) == Awaited(x) /\ Fresh(x) /\ Loaded(x)

(* x and y would answer the same request.                                  *)
SameRequest(x, y) ==
  /\ InFlightType(x) = InFlightType(y)
  /\ InFlightType(x) = "ConfigureEndpoint" => InFlightSlot(x) = InFlightSlot(y)

(* Everything in flight is due, and no request is in flight twice.         *)
FlightInv ==
  /\ \A x \in InFlight : Due(x)
  /\ \A x, y \in InFlight : SameRequest(x, y) => x = y

(* A step of the two queues, backwards: what is in flight after it, apart  *)
(* from N, is what f says was in flight before it.                         *)
Carries(f, N) ==
  /\ f \in [InFlight' \ N -> InFlight]
  /\ \A x, y \in InFlight' \ N : f[x] = f[y] => x = y
  /\ \A x \in InFlight' \ N :
       /\ InFlightType(x)' = InFlightType(f[x])
       /\ x[1] = "command" => f[x][1] = "command"
       /\ x[1] = f[x][1] \/ InFlightType(x)' # "EnableSlot" =>
            InFlightSlot(x)' = InFlightSlot(f[x])

-----------------------------------------------------------------------------
(* What is in flight.                                                      *)

(* InFlight and its two accessors, by the places of the two queues.        *)
IsInFlight(x) ==
  \/ \E i \in 1..Len(cr) : x = <<"command", i>>
  \/ \E j \in 1..Len(er) : /\ x = <<"completion", j>>
                           /\ er[j].type = "CommandCompletion"
Labels ==
  /\ \A x : x \in InFlight <=> IsInFlight(x)
  /\ \A i : /\ InFlightType(<<"command", i>>) = cr[i].type
            /\ InFlightSlot(<<"command", i>>) = cr[i].slot_id
            /\ InFlightType(<<"completion", i>>) = er[i].issuer
            /\ InFlightSlot(<<"completion", i>>) = er[i].slot_id

(* The reading by places, before a step and after it.                      *)
LEMMA LabelsHold == TypeOK => Labels
<1> SUFFICES ASSUME TypeOK PROVE Labels
  OBVIOUS
<1>1. DOMAIN cr = 1..Len(cr) /\ DOMAIN er = 1..Len(er)
  BY DEF TypeOK
<1>2. \A x : x \in InFlight <=> IsInFlight(x)
  BY <1>1 DEF InFlight, IsInFlight
<1> QED
  BY <1>2 DEF InFlightType, InFlightSlot, Labels

(* And in the state after a step.                                          *)
LEMMA LabelsNext == TypeOK' => Labels'
  BY LabelsHold, PTL

(* What is in flight has a type and a slot.                                *)
LEMMA InFlightTyped ==
  ASSUME TypeOK, NEW x \in InFlight
  PROVE  InFlightType(x) \in CommandTypes /\ InFlightSlot(x) \in SlotIds
<1>1. Labels
  BY LabelsHold
<1>2. \A i \in 1..Len(cr) : cr[i] \in Command
  BY DEF TypeOK
<1>3. \A j \in 1..Len(er) : er[j] \in Event
  BY DEF TypeOK
<1>4. CASE \E i \in 1..Len(cr) : x = <<"command", i>>
  BY <1>1, <1>2, <1>4 DEF Labels, Command
<1>5. CASE \E j \in 1..Len(er) : /\ x = <<"completion", j>>
                                  /\ er[j].type = "CommandCompletion"
  BY <1>1, <1>3, <1>5 DEF Labels, Event
<1> QED
  BY <1>1, <1>4, <1>5 DEF Labels, IsInFlight

(* The completion a handler works on is in flight.                         *)
HeadCompletion(type) ==
  /\ <<"completion", 1>> \in InFlight
  /\ InFlightType(<<"completion", 1>>) = type
  /\ InFlightSlot(<<"completion", 1>>) = Head(er).slot_id

(* When a handler runs, its completion is at the front.                    *)
LEMMA CompletionInFlight ==
  ASSUME TypeOK, NEW type, Completion(type)
  PROVE  HeadCompletion(type)
<1>1. Labels
  BY LabelsHold
<1>2. 1 \in 1..Len(er) /\ er[1] = Head(er)
  BY DEF Completion, Polling, TypeOK
<1> QED
  BY <1>1, <1>2 DEF Labels, IsInFlight, Completion, Polling, HeadCompletion

(* Nothing is popped, and at most an event that is no completion appended. *)
LEMMA NothingMoves ==
  ASSUME TypeOK, TypeOK', UNCHANGED cr,
         \/ UNCHANGED er
         \/ \E e \in Event : /\ er' = Append(er, e)
                             /\ e.type # "CommandCompletion"
  PROVE  \E f : /\ Carries(f, {})
                /\ \A x \in InFlight' : f[x] = x
<1> DEFINE f == [x \in InFlight' |-> x]
<1>1. Labels /\ Labels'
  BY LabelsHold, LabelsNext
<1>2. er \in Seq(Event)
  BY DEF TypeOK
<1>3. /\ \A j \in 1..Len(er) : j \in 1..Len(er') /\ er'[j] = er[j]
      /\ \A j \in 1..Len(er') : er'[j].type = "CommandCompletion"
                                 => j \in 1..Len(er) /\ er'[j] = er[j]
  <2>1. CASE UNCHANGED er
    BY <2>1
  <2>2. ASSUME NEW e \in Event, er' = Append(er, e), e.type # "CommandCompletion"
        PROVE  <1>3!1 /\ <1>3!2
    BY <1>2, <2>2
  <2> QED
    BY <2>1, <2>2
<1>4. \A x \in InFlight' :
        /\ x \in InFlight
        /\ InFlightType(x)' = InFlightType(x)
        /\ InFlightSlot(x)' = InFlightSlot(x)
  BY <1>1, <1>3 DEF Labels, IsInFlight
<1>5. Carries(f, {})
  BY <1>4 DEF Carries
<1> QED
  BY <1>5

(* The event at the front is popped; at most one command is pushed.        *)
LEMMA OnePopped ==
  ASSUME TypeOK, TypeOK', er # <<>>, er' = Tail(er),
         UNCHANGED cr \/ \E c \in Command : cr' = Append(cr, c)
  PROVE  \E f : /\ Carries(f, {<<"command", Len(cr) + 1>>})
                /\ \A x \in InFlight' \ {<<"command", Len(cr) + 1>>} :
                     f[x] # <<"completion", 1>> /\ x[1] = f[x][1]
<1> DEFINE N == {<<"command", Len(cr) + 1>>}
           Was(x) == IF x[1] = "command" THEN x ELSE <<"completion", x[2] + 1>>
           f == [x \in InFlight' \ N |-> Was(x)]
<1>1. Labels /\ Labels'
  BY LabelsHold, LabelsNext
<1>2. er \in Seq(Event) /\ cr \in Seq(Command)
  BY DEF TypeOK
<1>3. \A j \in 1..Len(er') : j + 1 \in 1..Len(er) /\ er'[j] = er[j + 1]
  BY <1>2
<1>4. \A i \in 1..Len(cr') :
        <<"command", i>> \notin N => i \in 1..Len(cr) /\ cr'[i] = cr[i]
  BY <1>2
<1>5. ASSUME NEW x \in InFlight' \ N
      PROVE  /\ Was(x) \in InFlight
             /\ Was(x) # <<"completion", 1>>
             /\ InFlightType(x)' = InFlightType(Was(x))
             /\ InFlightSlot(x)' = InFlightSlot(Was(x))
             /\ x[1] \in {"command", "completion"} /\ x[2] \in Nat
             /\ x = <<x[1], x[2]>>
  <2>1. CASE \E i \in 1..Len(cr') : x = <<"command", i>>
    <3>1. PICK i \in 1..Len(cr') : x = <<"command", i>>
      BY <2>1
    <3>2. i \in 1..Len(cr) /\ cr'[i] = cr[i]
      BY <1>4, <1>5, <3>1
    <3> QED
      BY <1>1, <3>1, <3>2 DEF Labels, IsInFlight
  <2>2. CASE \E j \in 1..Len(er') : /\ x = <<"completion", j>>
                                     /\ er'[j].type = "CommandCompletion"
    <3>1. PICK j \in 1..Len(er') : /\ x = <<"completion", j>>
                                   /\ er'[j].type = "CommandCompletion"
      BY <2>2
    <3>2. Was(x) = <<"completion", j + 1>> /\ j \in Nat
      BY <1>2, <3>1
    <3>3. Was(x) # <<"completion", 1>>
      BY <3>2
    <3> QED
      BY <1>1, <1>3, <3>1, <3>2, <3>3 DEF Labels, IsInFlight
  <2> QED
    BY <1>1, <1>5, <2>1, <2>2 DEF Labels, IsInFlight
<1>6. \A x, y \in InFlight' \ N : Was(x) = Was(y) => x = y
  <2> SUFFICES ASSUME NEW x \in InFlight' \ N, NEW y \in InFlight' \ N,
                      Was(x) = Was(y)
               PROVE  x = y
    OBVIOUS
  <2>1. Was(x)[1] = x[1] /\ Was(y)[1] = y[1]
    BY <1>5
  <2> QED
    BY <1>5, <2>1
<1>7. Carries(f, N)
  BY <1>5, <1>6 DEF Carries
<1>8. \A x \in InFlight' \ N : f[x] # <<"completion", 1>> /\ x[1] = f[x][1]
  BY <1>5
<1> HIDE DEF f
<1> QED
  BY <1>7, <1>8

(* The controller executes the first command and reports it.               *)
LEMMA OneRan ==
  ASSUME TypeOK, TypeOK', cr # <<>>, NEW s \in SlotIds, Complete(s),
         Head(cr).type # "EnableSlot" => s = Head(cr).slot_id
  PROVE  \E f : /\ Carries(f, {})
                /\ \A x \in InFlight' :
                     /\ f[x] = <<"completion", 1>> => x = <<"completion", 1>>
                     /\ \/ x[1] = f[x][1]
                        \/ /\ f[x] = <<"command", 1>> /\ x[1] = "completion"
                           /\ InFlightSlot(x)' = s
<1> DEFINE last == <<"completion", Len(er) + 1>>
           Was(x) == IF x = last THEN <<"command", 1>>
                     ELSE IF x[1] = "command" THEN <<"command", x[2] + 1>>
                     ELSE x
           f == [x \in InFlight' |-> Was(x)]
<1>1. Labels /\ Labels'
  BY LabelsHold, LabelsNext
<1>2. er \in Seq(Event) /\ cr \in Seq(Command)
  BY DEF TypeOK
<1>3. \A i \in 1..Len(cr') : i + 1 \in 1..Len(cr) /\ cr'[i] = cr[i + 1]
  BY <1>2 DEF Complete
<1>4. /\ \A j \in 1..Len(er) : er'[j] = er[j]
      /\ Len(er') = Len(er) + 1
      /\ er'[Len(er) + 1] = CommandCompletionEvent(Head(cr).type, s)
  BY <1>2 DEF Complete
<1>5. 1 \in 1..Len(cr) /\ Head(cr) = cr[1]
  BY <1>2
<1>6. ASSUME NEW x \in InFlight'
      PROVE  /\ Was(x) \in InFlight
             /\ InFlightType(x)' = InFlightType(Was(x))
             /\ x[1] = "command" => Was(x)[1] = "command"
             /\ x[1] = Was(x)[1] \/ InFlightType(x)' # "EnableSlot" =>
                  InFlightSlot(x)' = InFlightSlot(Was(x))
             /\ \/ x = last
                \/ \E i \in 1..Len(cr') : x = <<"command", i>>
                \/ \E j \in 1..Len(er) : x = <<"completion", j>>
  <2>1. CASE \E i \in 1..Len(cr') : x = <<"command", i>>
    <3>1. PICK i \in 1..Len(cr') : x = <<"command", i>>
      BY <2>1
    <3>2. Was(x) = <<"command", i + 1>>
      BY <3>1
    <3>3. i + 1 \in 1..Len(cr) /\ cr'[i] = cr[i + 1]
      BY <1>3
    <3>4. /\ InFlightType(x)' = cr[i + 1].type
          /\ InFlightSlot(x)' = cr[i + 1].slot_id
      BY <1>1, <3>1, <3>3 DEF Labels
    <3>5. /\ Was(x) \in InFlight
          /\ InFlightType(Was(x)) = cr[i + 1].type
          /\ InFlightSlot(Was(x)) = cr[i + 1].slot_id
      BY <1>1, <3>2, <3>3 DEF Labels, IsInFlight
    <3> QED
      BY <3>1, <3>4, <3>5
  <2>2. CASE x = last
    <3>1. Was(x) = <<"command", 1>> /\ Was(x)[1] # x[1] /\ x[1] # "command"
      BY <2>2
    <3>2. InFlightType(x)' = Head(cr).type /\ InFlightSlot(x)' = s
      BY <1>1, <1>4, <2>2 DEF Labels, CommandCompletionEvent
    <3> QED
      BY <1>1, <1>5, <2>2, <3>1, <3>2 DEF Labels, IsInFlight
  <2>3. CASE \E j \in 1..Len(er) : /\ x = <<"completion", j>>
                                    /\ er'[j].type = "CommandCompletion"
    <3>1. PICK j \in 1..Len(er) : /\ x = <<"completion", j>>
                                  /\ er'[j].type = "CommandCompletion"
      BY <2>3
    <3>2. Was(x) = x
      BY <1>2, <3>1
    <3> QED
      BY <1>1, <1>4, <3>1, <3>2 DEF Labels, IsInFlight
  <2>4. \A j \in 1..Len(er') : j = Len(er) + 1 \/ j \in 1..Len(er)
    BY <1>2, <1>4
  <2> QED
    BY <1>1, <1>6, <2>1, <2>2, <2>3, <2>4 DEF Labels, IsInFlight
<1>7. \A x, y \in InFlight' : Was(x) = Was(y) => x = y
  <2> SUFFICES ASSUME NEW x \in InFlight', NEW y \in InFlight',
                      Was(x) = Was(y)
               PROVE  x = y
    OBVIOUS
  <2>1. ASSUME NEW z \in InFlight'
        PROVE  \/ z = last /\ Was(z) = <<"command", 1>>
               \/ \E i \in 1..Len(cr') : /\ z = <<"command", i>>
                                         /\ Was(z) = <<"command", i + 1>>
               \/ \E j \in 1..Len(er) : /\ z = <<"completion", j>>
                                        /\ Was(z) = z
    BY <1>2, <1>6, <2>1
  <2>2. \A i \in 1..Len(cr') : i \in Nat \ {0}
    BY <1>2
  <2> QED
    BY <2>1, <2>2
<1>8. Carries(f, {})
  BY <1>6, <1>7 DEF Carries
<1>9. ASSUME NEW x \in InFlight'
      PROVE  /\ f[x] = <<"completion", 1>> => x = <<"completion", 1>>
             /\ \/ x[1] = f[x][1]
                \/ /\ f[x] = <<"command", 1>> /\ x[1] = "completion"
                   /\ InFlightSlot(x)' = s
  <2>1. CASE x = last
    <3>1. InFlightSlot(x)' = s
      BY <1>1, <1>4, <2>1 DEF Labels, CommandCompletionEvent
    <3> QED
      BY <2>1, <3>1
  <2>2. CASE x # last
    BY <1>6, <2>2
  <2> QED
    BY <2>1, <2>2
<1> HIDE DEF f
<1> QED
  BY <1>8, <1>9

(* Port 0 is no port in reset or past it, a device object is typed.        *)
LEMMA DeviceType ==
  ASSUME TypeOK
  PROVE  \A s \in SlotIds : /\ devices[s].input_port \in PortIds
                            /\ devices[s].root_hub_port_num \in PortIds
                            /\ devices[s].initialize_phase \in 0..4
  BY DEF TypeOK, DeviceObject

(* A step that keeps the contexts and leaves no wait, or the same, keeps   *)
(* SlotInv.                                                                *)
ContextsKept ==
  \A t \in SlotIds :
    /\ devices'[t].input_port = devices[t].input_port
    /\ devices'[t].root_hub_port_num = devices[t].root_hub_port_num

(* SlotInv reads only these contexts, the slots enabled and the wait.      *)
LEMMA SlotFrame ==
  ASSUME TypeOK, SlotInv, ContextsKept, enabled_slots \subseteq enabled_slots',
         spin'.init = 0 \/ UNCHANGED <<spin, boot>>
  PROVE  SlotInv'
<1>1. spin.slot \in SlotIds
  BY DEF TypeOK
<1> QED
  BY <1>1 DEF SlotInv, ContextsKept, Allocated, RootHubPort, FindBySlot

(* Setting initialize_phase keeps the contexts.                            *)
LEMMA InitializeKeeps ==
  ASSUME TypeOK, NEW s \in SlotIds, NEW k,
         devices' = [devices EXCEPT ![s].initialize_phase = k]
  PROVE  /\ ContextsKept
         /\ \A t \in SlotIds : devices'[t].initialize_phase =
              IF t = s THEN k ELSE devices[t].initialize_phase
  BY DEF TypeOK, DeviceObject, ContextsKept

(* ResetPort waits for nobody's initialisation.                            *)
LEMMA ResetPortSpin ==
  ASSUME NEW p \in Ports, ResetPort(p), spin.init = 0
  PROVE  spin'.init = 0
  BY DEF ResetPort, PortReset

(* The slot that AddressDevice works with gets the port whose turn it is;  *)
(* it had none, or is slot 0, and no other slot has that port              *)
(* (xhci.cpp:131-164).                                                     *)
LEMMA SlotAddressed ==
  ASSUME TypeOK, TurnInv, BusInv, SlotInv, FlightInv, OnEnableSlotCompleted
  PROVE  SlotInv'
<1> DEFINE s == Head(er).slot_id
           p == addressing_port
<1>1. s \in SlotIds
  BY PopType DEF OnEnableSlotCompleted, Completion, Polling, Event
<1>2. /\ spin.init = 0 /\ UNCHANGED <<addressing_port, boot, spin, enabled_slots>>
  BY DEF OnEnableSlotCompleted, Completion, Polling, TurnInv
<1>3. CASE UNCHANGED <<devices>>
  BY <1>2, <1>3, SlotFrame DEF ContextsKept
<1>4. CASE /\ port_config_phase[p] = "EnablingSlot"
           /\ AddressDevice(p, s)
  <2>1. p \in PortIds /\ p # 0
    BY <1>4 DEF TypeOK, TurnInv
  <2>2. \A t \in SlotIds :
          /\ devices'[t].root_hub_port_num = devices[t].root_hub_port_num
          /\ devices'[t].input_port = IF t = s THEN p ELSE devices[t].input_port
    BY <1>1, <1>4 DEF AddressDevice, TypeOK, DeviceObject
  <2>3. s # 0 => s \in enabled_slots /\ ~Allocated(s)
    <3>1. HeadCompletion("EnableSlot")
      BY CompletionInFlight DEF OnEnableSlotCompleted
    <3> QED
      BY <3>1 DEF HeadCompletion, FlightInv, Due, Fresh
  <2>4. RootHubPort(s) = 0
    BY <1>1, <2>3 DEF SlotInv, Allocated, FindBySlot
  <2>5. \A t \in SlotIds : devices[t].input_port # p
    BY <1>4, <2>1 DEF BusInv, AddressedPhases, Allocated, FindBySlot
  <2> QED
    BY <1>2, <2>1, <2>2, <2>3, <2>4, <2>5
    DEF SlotInv, Allocated, RootHubPort, FindBySlot
<1> QED
  BY <1>3, <1>4 DEF OnEnableSlotCompleted

(* The controller writes the port of the input context into the output     *)
(* context (the Address Device command of device.cpp's context).           *)
LEMMA RunAddressKeeps ==
  ASSUME TypeOK, BusInv, SlotInv, RunAddressDevice
  PROVE  /\ \A t \in SlotIds :
              /\ devices'[t].input_port = devices[t].input_port
              /\ devices'[t].initialize_phase = devices[t].initialize_phase
              /\ \/ devices'[t].root_hub_port_num = devices[t].root_hub_port_num
                 \/ /\ devices'[t].root_hub_port_num = devices[t].input_port
                    /\ Allocated(t) /\ t # 0
         /\ \A t \in SlotIds : RootHubPort(t) # 0 =>
              devices'[t].root_hub_port_num = devices[t].root_hub_port_num
<1> DEFINE s == Head(cr).slot_id
           p == devices[s].input_port
<1>1. CASE UNCHANGED devices
  BY <1>1
<1>2. CASE /\ Addressable(s)
           /\ devices' = [devices EXCEPT ![s].root_hub_port_num = p]
  <2>1. s \in SlotIds /\ s # 0
    BY <1>2, ZeroType DEF Addressable, TypeOK, Slots
  <2>2. Allocated(s)
    BY <1>2, <2>1 DEF Addressable, BusInv
  <2>3. \A t \in SlotIds :
          /\ devices'[t].input_port = devices[t].input_port
          /\ devices'[t].initialize_phase = devices[t].initialize_phase
          /\ devices'[t].root_hub_port_num =
               IF t = s THEN p ELSE devices[t].root_hub_port_num
    BY <1>2, <2>1 DEF TypeOK, DeviceObject
  <2> QED
    BY <2>1, <2>2, <2>3 DEF SlotInv, RootHubPort, FindBySlot
<1> QED
  BY <1>1, <1>2 DEF RunAddressDevice

(* Every step keeps SlotInv.                                               *)
LEMMA SlotNext ==
  ASSUME TypeOK, TurnInv, BusInv, SlotInv, FlightInv, [Next]_vars
  PROVE  SlotInv'
<1>0. ~Spinning => spin.init = 0
  BY DEF TurnInv
<1>1. CASE ConfigurePort
  <2>1. boot \in Ports
    BY <1>1 DEF ConfigurePort, TypeOK, Ports
  <2>2. spin'.init = 0 /\ UNCHANGED <<devices, enabled_slots>>
    BY <1>0, <1>1, <2>1, ResetPortSpin DEF ConfigurePort
  <2> QED
    BY <2>2, SlotFrame DEF ContextsKept
<1>2. CASE ResumeAfterReset
  <2>1. spin.slot \in SlotIds /\ spin'.init = 0 /\ UNCHANGED enabled_slots
    BY <1>2 DEF ResumeAfterReset, NoSpin, TypeOK
  <2>2. ContextsKept
    BY <1>2, <2>1, InitializeKeeps
    DEF ResumeAfterReset, InitializeDevice, ContextsKept
  <2> QED
    BY <2>1, <2>2, SlotFrame
<1>3. CASE OnPortStatusChangeEvent
  <2>1. /\ Head(er).port_id \in Ports /\ ~Spinning
        /\ UNCHANGED <<devices, enabled_slots>>
    BY <1>3, PopType DEF OnPortStatusChangeEvent, Polling, Event
  <2>2. spin'.init = 0
    BY <1>0, <1>3, <2>1, ResetPortSpin DEF OnPortStatusChangeEvent, EnableSlot
  <2> QED
    BY <2>1, <2>2, SlotFrame DEF ContextsKept
<1>4. CASE OnEnableSlotCompleted
  BY <1>4, SlotAddressed
<1>5. CASE OnAddressDeviceCompleted
  <2> DEFINE s == Head(er).slot_id
             p == RootHubPort(s)
  <2>1. /\ s \in SlotIds /\ ~Spinning /\ boot > MaxPorts
        /\ UNCHANGED <<boot, enabled_slots>>
    BY <1>5, PopType DEF OnAddressDeviceCompleted, Completion, Polling, Event
  <2>2. CASE UNCHANGED <<devices, spin>>
    BY <2>1, <2>2, SlotFrame DEF ContextsKept
  <2>3. ASSUME NEW n \in Ports, PortReset(n, p, s), UNCHANGED devices
        PROVE  SlotInv'
    <3>1. devices'[spin'.slot].root_hub_port_num = spin'.init
      BY <2>3 DEF PortReset, RootHubPort, FindBySlot
    <3>2. boot' > MaxPorts
      BY <2>1
    <3> QED
      BY <2>1, <2>3, <3>1, <3>2 DEF SlotInv, Allocated, RootHubPort, FindBySlot
  <2>4. CASE InitializeDevice(p, s) /\ UNCHANGED spin
    BY <2>1, <2>4, InitializeKeeps, SlotFrame DEF InitializeDevice
  <2> QED
    BY <1>5, <2>2, <2>3, <2>4 DEF OnAddressDeviceCompleted
<1>6. CASE OnConfigureEndpointCompleted
  BY <1>6, SlotFrame DEF OnConfigureEndpointCompleted, ContextsKept
<1>7. CASE OnTransferEvent
  <2>1. Head(er).slot_id \in SlotIds
    BY <1>7, PopType DEF OnTransferEvent, Polling, Event
  <2>2. ContextsKept
    <3>1. CASE devices' = devices
      BY <3>1 DEF ContextsKept
    <3>2. ASSUME NEW k, devices' =
                   [devices EXCEPT ![Head(er).slot_id].initialize_phase = k]
          PROVE  ContextsKept
      BY <2>1, <3>2, InitializeKeeps
    <3> QED
      BY <1>7, <3>1, <3>2 DEF OnTransferEvent
  <2> QED
    BY <1>7, <2>2, SlotFrame DEF OnTransferEvent
<1>8. CASE RunEnableSlot \/ RunConfigureEndpoint
  BY <1>8, SlotFrame
  DEF RunEnableSlot, RunConfigureEndpoint, driverVars, ContextsKept
<1>9. CASE RunAddressDevice
  <2>1. UNCHANGED <<enabled_slots, spin, boot>>
    BY <1>9 DEF RunAddressDevice
  <2>2. spin.slot \in SlotIds
    BY DEF TypeOK
  <2> QED
    BY <1>9, <2>1, <2>2, RunAddressKeeps
    DEF SlotInv, Allocated, RootHubPort, FindBySlot
<1>10. ASSUME NEW p \in Ports, Connect(p) \/ Disconnect(p) \/ PortResetDone(p)
       PROVE  SlotInv'
  BY <1>10, SlotFrame
  DEF Connect, Disconnect, PortResetDone, driverVars, ContextsKept
<1>11. ASSUME NEW s \in SlotIds, NEW ok \in BOOLEAN, CompleteTransfer(s, ok)
       PROVE  SlotInv'
  BY <1>11, SlotFrame DEF CompleteTransfer, driverVars, ContextsKept
<1>12. CASE UNCHANGED vars
  BY <1>12, SlotFrame DEF vars, driverVars, ContextsKept
<1> QED
  BY <1>1, <1>2, <1>3, <1>4, <1>5, <1>6, <1>7, <1>8, <1>9, <1>10, <1>11, <1>12
  DEF Next, ProcessEvent, RunCommand

-----------------------------------------------------------------------------
(* The phases.                                                             *)

Forward == {<<"NotConnected", "WaitingAddressed">>,
            <<"NotConnected", "ResettingPort">>,
            <<"WaitingAddressed", "ResettingPort">>,
            <<"ResettingPort", "EnablingSlot">>,
            <<"EnablingSlot", "AddressingDevice">>,
            <<"AddressingDevice", "InitializingDevice">>,
            <<"InitializingDevice", "ConfiguringEndpoints">>,
            <<"ConfiguringEndpoints", "Configured">>}
GoesForward ==
  \A p \in PortIds :
    \/ port_config_phase'[p] = port_config_phase[p]
    \/ <<port_config_phase[p], port_config_phase'[p]>> \in Forward

(* One port moves.                                                         *)
LEMMA OneMove ==
  ASSUME TypeOK, NEW p \in PortIds, NEW phase,
         port_config_phase' = [port_config_phase EXCEPT ![p] = phase],
         <<port_config_phase[p], phase>> \in Forward
  PROVE  GoesForward
<1>1. \A q \in PortIds : port_config_phase'[q] =
        IF q = p THEN phase ELSE port_config_phase[q]
  BY DEF TypeOK
<1> QED
  BY <1>1 DEF GoesForward

(* ResetPort moves the port it is called for out of NotConnected, or       *)
(* nothing (xhci.cpp:88-110).                                              *)
LEMMA ResetPortMoves ==
  ASSUME TypeOK, NEW p \in Ports, port_config_phase[p] = "NotConnected",
         ResetPort(p)
  PROVE  GoesForward
<1>1. p \in PortIds
  BY ZeroType
<1>2. CASE UNCHANGED port_config_phase
  BY <1>2 DEF GoesForward
<1>3. CASE port_config_phase' =
             [port_config_phase EXCEPT ![p] = "WaitingAddressed"]
  BY <1>1, <1>3, OneMove DEF Forward
<1>4. CASE port_config_phase' =
             [port_config_phase EXCEPT ![p] = "ResettingPort"]
  BY <1>1, <1>4, OneMove DEF Forward
<1> QED
  BY <1>2, <1>3, <1>4 DEF ResetPort

(* Every write to port_config_phase moves one port to a later phase        *)
(* (xhci.cpp:88-281).                                                      *)
LEMMA PhaseMoves ==
  ASSUME TypeOK, TurnInv, [Next]_vars
  PROVE  GoesForward
<1>0. CASE UNCHANGED port_config_phase
  BY <1>0 DEF GoesForward
<1>1. CASE ConfigurePort
  <2>1. boot \in Ports
    BY <1>1 DEF ConfigurePort, TypeOK, Ports
  <2> QED
    BY <1>0, <1>1, <2>1, ResetPortMoves DEF ConfigurePort
<1>2. CASE ResumeAfterReset
  <2>1. CASE spin.init # 0
    <3>1. port_config_phase' =
            [port_config_phase EXCEPT ![spin.init] = "InitializingDevice"]
      BY <1>2, <2>1 DEF ResumeAfterReset, InitializeDevice
    <3>2. /\ spin.init \in PortIds
          /\ port_config_phase[spin.init] = "AddressingDevice"
      BY <2>1 DEF TypeOK, TurnInv
    <3> QED
      BY <3>1, <3>2, OneMove DEF Forward
  <2> QED
    BY <1>0, <1>2, <2>1 DEF ResumeAfterReset
<1>3. CASE OnPortStatusChangeEvent
  <2> DEFINE p == Head(er).port_id
  <2>1. p \in Ports /\ p \in PortIds
    BY <1>3, PopType, ZeroType DEF OnPortStatusChangeEvent, Polling, Event
  <2>2. CASE port_config_phase[p] = "NotConnected" /\ ResetPort(p)
    BY <2>1, <2>2, ResetPortMoves
  <2>3. CASE port_config_phase[p] = "ResettingPort" /\ EnableSlot(p)
    BY <1>0, <2>1, <2>3, OneMove DEF EnableSlot, Forward
  <2> QED
    BY <1>0, <1>3, <2>2, <2>3 DEF OnPortStatusChangeEvent
<1>4. CASE OnEnableSlotCompleted
  <2>1. addressing_port \in PortIds
    BY DEF TypeOK
  <2>2. CASE /\ port_config_phase[addressing_port] = "EnablingSlot"
             /\ AddressDevice(addressing_port, Head(er).slot_id)
    BY <2>1, <2>2, OneMove DEF AddressDevice, Forward
  <2> QED
    BY <1>0, <1>4, <2>2 DEF OnEnableSlotCompleted
<1>5. CASE OnAddressDeviceCompleted
  <2> DEFINE s == Head(er).slot_id
             p == RootHubPort(s)
  <2>1. p = addressing_port => p \in PortIds
    BY DEF TypeOK
  <2>2. ASSUME NEW n \in Ports, NextWaiting(n),
               port_config_phase' =
                 [port_config_phase EXCEPT ![n] = "ResettingPort"]
        PROVE  GoesForward
    BY <2>2, OneMove, ZeroType DEF NextWaiting, Forward
  <2>3. CASE /\ p = addressing_port
             /\ port_config_phase[p] = "AddressingDevice"
             /\ InitializeDevice(p, s)
    BY <2>1, <2>3, OneMove DEF InitializeDevice, Forward
  <2> QED
    BY <1>0, <1>5, <2>2, <2>3 DEF OnAddressDeviceCompleted
<1>6. CASE OnConfigureEndpointCompleted
  <2> DEFINE p == RootHubPort(Head(er).slot_id)
  <2>1. p \in PortIds
    BY <1>6, PopType, DeviceType
    DEF OnConfigureEndpointCompleted, Completion, Polling, Event, RootHubPort,
        FindBySlot
  <2>2. CASE /\ port_config_phase[p] = "ConfiguringEndpoints"
             /\ port_config_phase' = [port_config_phase EXCEPT ![p] = "Configured"]
    BY <2>1, <2>2, OneMove DEF Forward
  <2> QED
    BY <1>0, <1>6, <2>2 DEF OnConfigureEndpointCompleted
<1>7. CASE OnTransferEvent
  <2> DEFINE p == RootHubPort(Head(er).slot_id)
  <2>1. p \in PortIds
    BY <1>7, PopType, DeviceType
    DEF OnTransferEvent, Polling, Event, RootHubPort, FindBySlot
  <2>2. CASE /\ port_config_phase[p] = "InitializingDevice"
             /\ port_config_phase' =
                  [port_config_phase EXCEPT ![p] = "ConfiguringEndpoints"]
    BY <2>1, <2>2, OneMove DEF Forward
  <2> QED
    BY <1>0, <1>7, <2>2 DEF OnTransferEvent, ConfigureEndpoints
<1>8. CASE RunCommand
  BY <1>0, <1>8
  DEF RunCommand, RunEnableSlot, RunAddressDevice, RunConfigureEndpoint,
      driverVars
<1>9. ASSUME NEW p \in Ports, Connect(p) \/ Disconnect(p) \/ PortResetDone(p)
      PROVE  GoesForward
  BY <1>0, <1>9 DEF Connect, Disconnect, PortResetDone, driverVars
<1>10. ASSUME NEW s \in SlotIds, NEW ok \in BOOLEAN, CompleteTransfer(s, ok)
       PROVE  GoesForward
  BY <1>0, <1>10 DEF CompleteTransfer, driverVars
<1>11. CASE UNCHANGED vars
  BY <1>0, <1>11 DEF vars, driverVars
<1> QED
  BY <1>1, <1>2, <1>3, <1>4, <1>5, <1>6, <1>7, <1>8, <1>9, <1>10, <1>11
  DEF Next, ProcessEvent

(* A port never goes back to an earlier phase (xhci.cpp:88-281): with the  *)
(* turn's invariant, a step can only move one port to the phase after its  *)
(* own, or past the wait.                                                  *)
THEOREM NoPhaseTwice == Spec => PhasesAdvance
<1>1. IInv /\ [Next]_vars =>
        [\A p \in Ports : Rank[port_config_phase'[p]] >= Rank[port_config_phase[p]]]_vars
  <2> SUFFICES ASSUME IInv, [Next]_vars, NEW p \in Ports
               PROVE  Rank[port_config_phase'[p]] >= Rank[port_config_phase[p]]
    OBVIOUS
  <2>1. GoesForward /\ p \in PortIds
    BY PhaseMoves, ZeroType DEF IInv
  <2>2. CASE port_config_phase'[p] = port_config_phase[p]
    <3>1. port_config_phase[p] \in ConfigPhase
      BY <2>1 DEF IInv, TypeOK
    <3>2. Rank[port_config_phase[p]] \in Nat
      BY <3>1 DEF Rank, ConfigPhase
    <3> QED
      BY <2>2, <3>2
  <2>3. CASE <<port_config_phase[p], port_config_phase'[p]>> \in Forward
    BY <2>3 DEF Forward, Rank
  <2> QED
    BY <2>1, <2>2, <2>3 DEF GoesForward
<1> QED
  BY <1>1, Invariance, PTL DEF Spec, PhasesAdvance

(* A step that starts no device and moves no port to the phases of a       *)
(* started one keeps Begun.                                                *)
LEMMA BegunFrame ==
  ASSUME Begun,
         \A t \in Slots :
           /\ RootHubPort(t) # 0 =>
                devices'[t].root_hub_port_num = devices[t].root_hub_port_num
           /\ devices[t].initialize_phase >= 1 => devices'[t].initialize_phase >= 1
           /\ devices[t].initialize_phase = 4 => devices'[t].initialize_phase = 4,
         \A q \in Ports :
           \/ port_config_phase'[q] = port_config_phase[q]
           \/ /\ port_config_phase[q] = "ConfiguringEndpoints"
              /\ port_config_phase'[q] = "Configured"
           \/ port_config_phase'[q] \notin
                {"InitializingDevice", "ConfiguringEndpoints", "Configured"}
  PROVE  Begun'
<1>1. \A t \in Slots, q \in Ports : OwnsSlot(q, t) => OwnsSlot(q, t)'
  BY ZeroType DEF OwnsSlot, RootHubPort, FindBySlot, Ports
<1> QED
  BY <1>1 DEF Begun

(* InitializeDevice(p, s) starts the device of the slot that p owns.       *)
LEMMA BegunInitialize ==
  ASSUME TypeOK, SlotInv, Begun, NEW p \in Ports, NEW s \in SlotIds,
         RootHubPort(s) = p, InitializeDevice(p, s)
  PROVE  Begun'
<1>1. s \in Slots /\ p \in PortIds
  BY ZeroType DEF SlotInv, Ports, Slots, SlotIds
<1>2. \A t \in SlotIds :
        /\ devices'[t].root_hub_port_num = devices[t].root_hub_port_num
        /\ devices'[t].initialize_phase =
             IF t = s THEN 1 ELSE devices[t].initialize_phase
  BY <1>1 DEF InitializeDevice, TypeOK, DeviceObject
<1>3. \A q \in PortIds : port_config_phase'[q] =
        IF q = p THEN "InitializingDevice" ELSE port_config_phase[q]
  BY <1>1 DEF InitializeDevice, TypeOK
<1>4. \A t \in SlotIds, q \in Ports : OwnsSlot(q, t)' <=> OwnsSlot(q, t)
  BY <1>2 DEF OwnsSlot, RootHubPort, FindBySlot
<1>5. /\ OwnsSlot(p, s)
      /\ \A q \in Ports : q # p => ~OwnsSlot(q, s)
  BY DEF OwnsSlot
<1>6. ASSUME NEW q \in Ports
      PROVE  /\ port_config_phase'[q] = "InitializingDevice"
                  => \E t \in Slots : OwnsSlot(q, t)' /\ devices'[t].initialize_phase >= 1
             /\ port_config_phase'[q] \in {"ConfiguringEndpoints", "Configured"}
                  => \E t \in Slots : OwnsSlot(q, t)' /\ devices'[t].initialize_phase = 4
  <2>1. CASE q = p
    <3>1. port_config_phase'[q] = "InitializingDevice"
      BY <1>1, <1>3, <2>1
    <3>2. OwnsSlot(q, s)' /\ devices'[s].initialize_phase >= 1
      BY <1>2, <1>4, <1>5, <2>1
    <3> QED
      BY <1>1, <3>1, <3>2
  <2>2. CASE q # p
    <3>1. port_config_phase'[q] = port_config_phase[q]
      BY <1>3, <2>2, ZeroType
    <3>2. \A t \in Slots : OwnsSlot(q, t) =>
            OwnsSlot(q, t)' /\ devices'[t].initialize_phase = devices[t].initialize_phase
      BY <1>2, <1>4, <1>5, <2>2, ZeroType
    <3> QED
      BY <3>1, <3>2 DEF Begun
  <2> QED
    BY <2>1, <2>2
<1> QED
  BY <1>6 DEF Begun

(* Every step keeps Begun.                                                 *)
LEMMA BegunNext ==
  ASSUME TypeOK, TurnInv, BusInv, SlotInv, Begun, [Next]_vars
  PROVE  Begun'
<1>0. GoesForward /\ Ports \subseteq PortIds
  BY PhaseMoves, ZeroType
<1> DEFINE Others == \A q \in Ports :
             \/ port_config_phase'[q] = port_config_phase[q]
             \/ /\ port_config_phase[q] = "ConfiguringEndpoints"
                /\ port_config_phase'[q] = "Configured"
             \/ port_config_phase'[q] \notin
                  {"InitializingDevice", "ConfiguringEndpoints", "Configured"}
<1>a. CASE UNCHANGED devices /\ Others
  BY <1>a, BegunFrame
<1>b. CASE UNCHANGED <<devices, port_config_phase>>
  BY <1>a, <1>b
<1>c. ASSUME UNCHANGED devices, NEW p \in PortIds, NEW phase,
             phase \in {"WaitingAddressed", "ResettingPort", "EnablingSlot",
                        "AddressingDevice", "Configured"},
             port_config_phase' = [port_config_phase EXCEPT ![p] = phase]
      PROVE  Begun'
  <2>1. \A q \in Ports : port_config_phase'[q] =
          IF q = p THEN phase ELSE port_config_phase[q]
    BY <1>0, <1>c DEF TypeOK
  <2>2. Others
    BY <1>0, <1>c, <2>1 DEF GoesForward, Forward
  <2> QED
    BY <1>a, <1>c, <2>2
<1>1. CASE ConfigurePort
  <2>1. boot \in PortIds /\ UNCHANGED devices
    BY <1>0, <1>1 DEF ConfigurePort, TypeOK, Ports
  <2> QED
    BY <1>1, <1>b, <1>c, <2>1 DEF ConfigurePort, ResetPort
<1>2. CASE ResumeAfterReset
  <2>1. CASE spin.init # 0
    <3>1. spin.init \in Ports /\ spin.slot \in SlotIds
      BY <2>1 DEF TypeOK, Ports, PortIds
    <3>2. RootHubPort(spin.slot) = spin.init
      BY <2>1 DEF SlotInv
    <3>3. InitializeDevice(spin.init, spin.slot)
      BY <1>2, <2>1 DEF ResumeAfterReset
    <3> QED
      BY <3>1, <3>2, <3>3, BegunInitialize
  <2> QED
    BY <1>2, <1>b, <2>1 DEF ResumeAfterReset
<1>3. CASE OnPortStatusChangeEvent
  <2>1. Head(er).port_id \in PortIds /\ UNCHANGED devices
    BY <1>0, <1>3, PopType DEF OnPortStatusChangeEvent, Polling, Event
  <2> QED
    BY <1>3, <1>b, <1>c, <2>1 DEF OnPortStatusChangeEvent, ResetPort, EnableSlot
<1>4. CASE OnEnableSlotCompleted
  <2>1. addressing_port \in PortIds /\ Head(er).slot_id \in SlotIds
    BY <1>4, PopType DEF OnEnableSlotCompleted, Completion, Polling, Event, TypeOK
  <2>2. CASE AddressDevice(addressing_port, Head(er).slot_id)
    <3>1. \A t \in Slots :
            /\ devices'[t].root_hub_port_num = devices[t].root_hub_port_num
            /\ devices'[t].initialize_phase = devices[t].initialize_phase
      BY <2>1, <2>2, ZeroType DEF AddressDevice, TypeOK, DeviceObject
    <3>2. \A q \in Ports : port_config_phase'[q] =
            IF q = addressing_port THEN "AddressingDevice" ELSE port_config_phase[q]
      BY <1>0, <2>2 DEF AddressDevice, TypeOK
    <3> QED
      BY <3>1, <3>2, BegunFrame
  <2> QED
    BY <1>4, <1>b, <2>2 DEF OnEnableSlotCompleted
<1>5. CASE OnAddressDeviceCompleted
  <2> DEFINE s == Head(er).slot_id
             p == RootHubPort(s)
  <2>1. s \in SlotIds
    BY <1>5, PopType DEF OnAddressDeviceCompleted, Completion, Polling, Event
  <2>2. CASE /\ p = addressing_port
             /\ port_config_phase[p] = "AddressingDevice"
             /\ InitializeDevice(p, s)
    <3>1. p \in Ports
      BY <2>2 DEF TypeOK, TurnInv, Ports, PortIds
    <3> QED
      BY <2>1, <2>2, <3>1, BegunInitialize
  <2> QED
    BY <1>0, <1>5, <1>b, <1>c, <2>2 DEF OnAddressDeviceCompleted
<1>6. CASE OnConfigureEndpointCompleted
  <2>1. RootHubPort(Head(er).slot_id) \in PortIds /\ UNCHANGED devices
    BY <1>6, PopType, DeviceType
    DEF OnConfigureEndpointCompleted, Completion, Polling, Event, RootHubPort,
        FindBySlot
  <2> QED
    BY <1>6, <1>b, <1>c, <2>1 DEF OnConfigureEndpointCompleted
<1>7. CASE OnTransferEvent
  <2> DEFINE s == Head(er).slot_id
             p == RootHubPort(s)
             phase == FindBySlot(s).initialize_phase
             next == IF phase \in 1..3 THEN phase + 1 ELSE phase
  <2>1. s \in SlotIds /\ p \in PortIds /\ phase \in 0..4
    BY <1>7, PopType, DeviceType
    DEF OnTransferEvent, Polling, Event, RootHubPort, FindBySlot
  <2>2. CASE /\ devices' = [devices EXCEPT ![s].initialize_phase = next]
             /\ IF next = 4 /\ port_config_phase[p] = "InitializingDevice"
                THEN ConfigureEndpoints(p, s)
                ELSE UNCHANGED <<port_config_phase, cr>>
    <3>1. \A t \in SlotIds :
            /\ devices'[t].root_hub_port_num = devices[t].root_hub_port_num
            /\ devices'[t].initialize_phase =
                 IF t = s THEN next ELSE devices[t].initialize_phase
      BY <2>1, <2>2 DEF TypeOK, DeviceObject
    <3>2. \A t \in SlotIds :
            /\ devices[t].initialize_phase >= 1 => devices'[t].initialize_phase >= 1
            /\ devices[t].initialize_phase = 4 => devices'[t].initialize_phase = 4
      BY <2>1, <3>1 DEF FindBySlot
    <3>3. CASE UNCHANGED port_config_phase
      BY <3>1, <3>2, <3>3, BegunFrame, ZeroType
    <3>4. CASE /\ next = 4 /\ port_config_phase[p] = "InitializingDevice"
               /\ port_config_phase' =
                    [port_config_phase EXCEPT ![p] = "ConfiguringEndpoints"]
      <4>1. \A q \in PortIds : port_config_phase'[q] =
              IF q = p THEN "ConfiguringEndpoints" ELSE port_config_phase[q]
        BY <2>1, <3>4 DEF TypeOK
      <4>2. p \in Ports
        BY <2>1, <3>4 DEF TurnInv, Ports, PortIds
      <4>3. s \in Slots
        BY <2>1, <4>2, ZeroType DEF SlotInv, Ports, Slots, SlotIds
      <4>4. \A t \in SlotIds, q \in Ports : OwnsSlot(q, t)' <=> OwnsSlot(q, t)
        BY <3>1 DEF OwnsSlot, RootHubPort, FindBySlot
      <4>5. devices'[s].initialize_phase = 4
        BY <2>1, <3>1, <3>4
      <4>6. OwnsSlot(p, s)
        BY DEF OwnsSlot
      <4>7. ASSUME NEW q \in Ports
            PROVE  /\ port_config_phase'[q] = "InitializingDevice"
                        => \E t \in Slots : OwnsSlot(q, t)' /\ devices'[t].initialize_phase >= 1
                   /\ port_config_phase'[q] \in {"ConfiguringEndpoints", "Configured"}
                        => \E t \in Slots : OwnsSlot(q, t)' /\ devices'[t].initialize_phase = 4
        <5>1. CASE q = p
          BY <4>1, <4>2, <4>3, <4>4, <4>5, <4>6, <5>1, ZeroType
        <5>2. CASE q # p
          <6>1. port_config_phase'[q] = port_config_phase[q]
            BY <4>1, <5>2, ZeroType
          <6> QED
            BY <3>2, <4>4, <6>1, ZeroType DEF Begun
        <5> QED
          BY <5>1, <5>2
      <4> QED
        BY <4>7 DEF Begun
    <3> QED
      BY <2>2, <3>3, <3>4 DEF ConfigureEndpoints
  <2> QED
    BY <1>7, <1>b, <2>2 DEF OnTransferEvent
<1>8. CASE RunEnableSlot \/ RunConfigureEndpoint
  BY <1>8, <1>b DEF RunEnableSlot, RunConfigureEndpoint, driverVars
<1>9. CASE RunAddressDevice
  <2>1. \A t \in SlotIds :
          /\ RootHubPort(t) # 0 =>
               devices'[t].root_hub_port_num = devices[t].root_hub_port_num
          /\ devices'[t].initialize_phase = devices[t].initialize_phase
    BY <1>9, RunAddressKeeps
  <2> QED
    BY <1>9, <2>1, BegunFrame, ZeroType DEF RunAddressDevice
<1>10. ASSUME NEW p \in Ports, Connect(p) \/ Disconnect(p) \/ PortResetDone(p)
       PROVE  Begun'
  BY <1>10, <1>b DEF Connect, Disconnect, PortResetDone, driverVars
<1>11. ASSUME NEW s \in SlotIds, NEW ok \in BOOLEAN, CompleteTransfer(s, ok)
       PROVE  Begun'
  BY <1>11, <1>b DEF CompleteTransfer, driverVars
<1>12. CASE UNCHANGED vars
  BY <1>12, <1>b DEF vars, driverVars
<1> QED
  BY <1>1, <1>2, <1>3, <1>4, <1>5, <1>6, <1>7, <1>8, <1>9, <1>10, <1>11, <1>12
  DEF Next, ProcessEvent, RunCommand

-----------------------------------------------------------------------------
(* What is in flight.                                                      *)

(* Contexts that are in place stay in place.                               *)
ContextsStay ==
  /\ \A t \in SlotIds :
       /\ devices'[t].input_port = devices[t].input_port
       /\ RootHubPort(t) # 0 =>
            devices'[t].root_hub_port_num = devices[t].root_hub_port_num
       /\ device_context_pointers[t] = "context" =>
            device_context_pointers'[t] = "context"
  /\ enabled_slots \subseteq enabled_slots'

(* The turn, if its port waits for a command, stays as it is.              *)
TurnStays == port_config_phase[addressing_port]
               \in {"EnablingSlot", "AddressingDevice"} =>
             /\ addressing_port' = addressing_port
             /\ port_config_phase'[addressing_port] =
                  port_config_phase[addressing_port]

(* x stays due when its port's phase stays and its contexts do.            *)
LEMMA DueKept ==
  ASSUME TypeOK, TurnInv, FlightInv, ContextsStay, TurnStays,
         NEW f, NEW N, Carries(f, N), NEW x \in InFlight' \ N,
         f[x] = <<"completion", 1>> /\ spin.init # 0 =>
           x = <<"completion", 1>> /\ spin'.init # 0,
         InFlightType(f[x]) = "ConfigureEndpoint" =>
           port_config_phase'[RootHubPort(InFlightSlot(f[x]))] =
             port_config_phase[RootHubPort(InFlightSlot(f[x]))],
         x[1] = f[x][1] \/ InFlightType(f[x]) # "EnableSlot"
  PROVE  Due(x)'
<1> DEFINE y == f[x]
           s == InFlightSlot(y)
<1>1. /\ y \in InFlight
      /\ InFlightType(x)' = InFlightType(y)
      /\ InFlightSlot(x)' = s
      /\ x[1] = "command" => y[1] = "command"
  BY DEF Carries
<1>2. Due(y) /\ s \in SlotIds
  BY <1>1, InFlightTyped DEF FlightInv
<1> HIDE DEF y, s
<1>3. Awaited(x)'
  <2>1. CASE InFlightType(y) = "EnableSlot"
    BY <1>1, <1>2, <2>1 DEF Due, Awaited, TurnStays
  <2>2. CASE InFlightType(y) = "AddressDevice"
    BY <1>1, <1>2, <2>2 DEF Due, Awaited, TurnStays, y
  <2>3. CASE InFlightType(y) = "ConfigureEndpoint"
    <3>1. port_config_phase[RootHubPort(s)] = "ConfiguringEndpoints"
      BY <1>2, <2>3 DEF Due, Awaited, s
    <3>2. RootHubPort(s) # 0
      BY <3>1 DEF TurnInv
    <3>3. devices'[s].root_hub_port_num = RootHubPort(s)
      BY <1>2, <3>2 DEF ContextsStay, RootHubPort, FindBySlot
    <3>4. port_config_phase'[RootHubPort(s)] = "ConfiguringEndpoints"
      BY <2>3, <3>1 DEF y, s
    <3>5. RootHubPort(InFlightSlot(x))' = RootHubPort(s)
      BY <1>1, <3>3 DEF RootHubPort, FindBySlot
    <3> QED
      BY <1>1, <2>3, <3>4, <3>5 DEF Awaited
  <2> QED
    BY <1>1, <2>1, <2>2, <2>3, InFlightTyped DEF CommandTypes
<1>4. Fresh(x)'
  <2> SUFFICES ASSUME x[1] = "completion", InFlightType(y) = "EnableSlot", s # 0
               PROVE  s \in enabled_slots' /\ devices'[s].input_port = 0
    BY <1>1 DEF Fresh, Allocated, FindBySlot
  <2>1. y[1] = "completion"
    BY DEF y
  <2>2. s \in enabled_slots /\ ~Allocated(s)
    BY <1>2, <2>1 DEF Due, Fresh, s
  <2> QED
    BY <1>2, <2>2 DEF ContextsStay, Allocated, FindBySlot
<1>5. Loaded(x)'
  <2> SUFFICES ASSUME x[1] = "command", InFlightType(y) = "AddressDevice"
               PROVE  /\ devices'[s].input_port = addressing_port'
                      /\ device_context_pointers'[s] = "context"
    BY <1>1 DEF Loaded
  <2>1. y[1] = "command" /\ y # <<"completion", 1>>
    BY <1>1
  <2>2. /\ devices[s].input_port = addressing_port
        /\ device_context_pointers[s] = "context"
        /\ port_config_phase[addressing_port] = "AddressingDevice"
    BY <1>2, <2>1 DEF Due, Loaded, Awaited, s
  <2> QED
    BY <1>2, <2>2 DEF ContextsStay, TurnStays
<1> QED
  BY <1>3, <1>4, <1>5 DEF Due

(* Nothing new in flight: no two answers to one request.                   *)
LEMMA AloneKept ==
  ASSUME FlightInv, NEW f, NEW N, Carries(f, N),
         NEW x \in InFlight' \ N, NEW y \in InFlight' \ N, SameRequest(x, y)'
  PROVE  x = y
<1>1. /\ f[x] \in InFlight /\ f[y] \in InFlight
      /\ InFlightType(x)' = InFlightType(f[x])
      /\ InFlightType(y)' = InFlightType(f[y])
      /\ InFlightType(x)' # "EnableSlot" => InFlightSlot(x)' = InFlightSlot(f[x])
      /\ InFlightType(y)' # "EnableSlot" => InFlightSlot(y)' = InFlightSlot(f[y])
      /\ f[x] = f[y] => x = y
  BY DEF Carries
<1>2. SameRequest(f[x], f[y])
  BY <1>1 DEF SameRequest
<1> QED
  BY <1>1, <1>2 DEF FlightInv

(* A step that leaves everything due keeps FlightInv; what it adds must be *)
(* due, and asked for by nothing else.                                     *)
LEMMA FlightFrom ==
  ASSUME FlightInv, NEW f, NEW N, Carries(f, N),
         \A x \in InFlight' \ N : Due(x)',
         \A x \in InFlight' : x \in N =>
           /\ Due(x)'
           /\ \A y \in InFlight' \ N : ~SameRequest(x, y)'
           /\ \A y \in InFlight' : y \in N => x = y
  PROVE  FlightInv'
<1>1. \A x \in InFlight' : Due(x)'
  OBVIOUS
<1>2. ASSUME NEW x \in InFlight', NEW y \in InFlight', SameRequest(x, y)'
      PROVE  x = y
  <2>1. SameRequest(y, x)'
    BY <1>2 DEF SameRequest
  <2>2. CASE x \notin N /\ y \notin N
    BY <1>2, <2>2, AloneKept
  <2> QED
    BY <1>2, <2>1, <2>2
<1> QED
  BY <1>1, <1>2 DEF FlightInv

(* The common step: nothing new, nothing answered, the turn and the ports  *)
(* that configure endpoints stay.                                          *)
LEMMA FlightFrame ==
  ASSUME TypeOK, TurnInv, FlightInv, ContextsStay, TurnStays,
         \A q \in PortIds : port_config_phase[q] = "ConfiguringEndpoints" =>
           port_config_phase'[q] = port_config_phase[q],
         NEW f, Carries(f, {}),
         \A x \in InFlight' :
           /\ f[x] = <<"completion", 1>> /\ spin.init # 0 =>
                x = <<"completion", 1>> /\ spin'.init # 0
           /\ x[1] = f[x][1] \/ InFlightType(f[x]) # "EnableSlot"
  PROVE  FlightInv'
<1>1. ASSUME NEW x \in InFlight' PROVE Due(x)'
  <2>1. f[x] \in InFlight
    BY DEF Carries
  <2>2. InFlightSlot(f[x]) \in SlotIds
    BY <2>1, InFlightTyped
  <2>3. RootHubPort(InFlightSlot(f[x])) \in PortIds
    BY <2>2, DeviceType DEF RootHubPort, FindBySlot
  <2>4. InFlightType(f[x]) = "ConfigureEndpoint" =>
          port_config_phase[RootHubPort(InFlightSlot(f[x]))] = "ConfiguringEndpoints"
    BY <2>1 DEF FlightInv, Due, Awaited
  <2> QED
    BY <2>3, <2>4, DueKept
<1> QED
  BY <1>1, FlightFrom

(* Popping alone: nothing new in flight.                                   *)
LEMMA OnlyPopped ==
  ASSUME TypeOK, TypeOK', er # <<>>, Pop, UNCHANGED cr
  PROVE  \E f : /\ Carries(f, {})
                /\ \A x \in InFlight' : /\ f[x] # <<"completion", 1>>
                                        /\ x[1] = f[x][1]
<1>1. PICK k \in Nat : k = Len(cr) + 1
  BY DEF TypeOK
<1>2. PICK f : /\ Carries(f, {<<"command", k>>})
               /\ \A x \in InFlight' \ {<<"command", k>>} :
                    /\ f[x] # <<"completion", 1>> /\ x[1] = f[x][1]
  BY <1>1, OnePopped DEF Pop
<1>3. k \notin 1..Len(cr')
  BY <1>1 DEF TypeOK
<1>4. <<"command", k>> \notin InFlight'
  BY <1>3, LabelsNext DEF Labels, IsInFlight
<1>5. InFlight' \ {<<"command", k>>} = InFlight' \ {}
  BY <1>4
<1>6. Carries(f, {})
  BY <1>2, <1>5 DEF Carries
<1> QED
  BY <1>2, <1>5, <1>6

(* A command just pushed.                                                  *)
LEMMA JustPushed ==
  ASSUME TypeOK, TypeOK', NEW c \in Command, cr' = Append(cr, c),
         NEW k, k = Len(cr) + 1
  PROVE  /\ <<"command", k>> \in InFlight'
         /\ InFlightType(<<"command", k>>)' = c.type
         /\ InFlightSlot(<<"command", k>>)' = c.slot_id
<1>1. k \in 1..Len(cr') /\ cr'[k] = c
  BY DEF TypeOK
<1> QED
  BY <1>1, LabelsNext DEF Labels, IsInFlight

(* ResetPort starts a port from NotConnected, so it disturbs nothing that  *)
(* waits for a command (xhci.cpp:88-110).                                  *)
LEMMA ResetPortStays ==
  ASSUME TypeOK, TurnInv, NEW p \in Ports,
         port_config_phase[p] = "NotConnected", ResetPort(p)
  PROVE  /\ TurnStays
         /\ \A q \in PortIds : port_config_phase[q] = "ConfiguringEndpoints" =>
              port_config_phase'[q] = port_config_phase[q]
<1>1. p \in PortIds /\ addressing_port \in PortIds
  BY ZeroType DEF TypeOK
<1>2. \A q \in PortIds : q # p => port_config_phase'[q] = port_config_phase[q]
  BY <1>1 DEF ResetPort, TypeOK
<1>3. addressing_port' = addressing_port \/ addressing_port = 0
  BY DEF ResetPort
<1> QED
  BY <1>1, <1>2, <1>3 DEF TurnStays, TurnInv

(* EnableSlot asks for a slot for the port whose turn it is, and nothing   *)
(* else does (xhci.cpp:112-129).                                           *)
LEMMA FlightEnableSlot ==
  ASSUME TypeOK, TypeOK', TurnInv, FlightInv, er # <<>>, Pop, ~Spinning,
         UNCHANGED <<devices, device_context_pointers, enabled_slots>>,
         NEW p \in Ports, port_config_phase[p] = "ResettingPort", EnableSlot(p),
         cr' = Append(cr, EnableSlotCommand)
  PROVE  FlightInv'
<1>1. spin.init = 0 /\ p = addressing_port /\ p \in PortIds
  BY ZeroType DEF TurnInv, TurnExclusive, TurnPhases
<1>2. PICK k \in Nat : k = Len(cr) + 1
  BY DEF TypeOK
<1>3. EnableSlotCommand \in Command
  BY PushType
<1>4. PICK f : /\ Carries(f, {<<"command", k>>})
               /\ \A x \in InFlight' \ {<<"command", k>>} :
                    f[x] # <<"completion", 1>> /\ x[1] = f[x][1]
  BY <1>2, <1>3, OnePopped DEF Pop
<1>5. /\ InFlightType(<<"command", k>>)' = "EnableSlot"
      /\ <<"command", k>> \in InFlight'
  BY <1>2, <1>3, JustPushed DEF EnableSlotCommand
<1>6. /\ \A q \in PortIds : port_config_phase'[q] =
           IF q = p THEN port_config_phase'[p] ELSE port_config_phase[q]
      /\ addressing_port' = addressing_port
      /\ prc' # prc \/ port_config_phase'[p] = "EnablingSlot"
  BY <1>1 DEF EnableSlot, TypeOK
<1>7. port_config_phase'[p] = "EnablingSlot"
  <2>1. cr' # cr
    BY <1>3 DEF TypeOK
  <2> QED
    BY <1>1, <2>1 DEF EnableSlot, TypeOK
<1>8. ContextsStay /\ TurnStays
  BY <1>1 DEF ContextsStay, TurnStays
<1>9. ASSUME NEW x \in InFlight' \ {<<"command", k>>}
      PROVE  Due(x)' /\ InFlightType(f[x]) # "EnableSlot" /\ f[x] \in InFlight
  <2>1. f[x] \in InFlight
    BY <1>4 DEF Carries
  <2>2. Due(f[x]) /\ InFlightSlot(f[x]) \in SlotIds
    BY <2>1, InFlightTyped DEF FlightInv
  <2>3. InFlightType(f[x]) # "EnableSlot"
    BY <1>1, <2>2 DEF Due, Awaited
  <2>4. RootHubPort(InFlightSlot(f[x])) \in PortIds
    BY <2>2, DeviceType DEF RootHubPort, FindBySlot
  <2>5. InFlightType(f[x]) = "ConfigureEndpoint" =>
          port_config_phase'[RootHubPort(InFlightSlot(f[x]))] =
            port_config_phase[RootHubPort(InFlightSlot(f[x]))]
    BY <1>6, <2>2, <2>4 DEF Due, Awaited
  <2>6. Due(x)'
    BY <1>4, <1>8, <2>5, DueKept
  <2> QED
    BY <2>1, <2>3, <2>6
<1>10. Due(<<"command", k>>)'
  BY <1>1, <1>5, <1>6, <1>7 DEF Due, Awaited, Fresh, Loaded
<1>11. ASSUME NEW x \in InFlight' \ {<<"command", k>>}
       PROVE  ~SameRequest(<<"command", k>>, x)'
  BY <1>4, <1>5, <1>9, <1>11 DEF SameRequest, Carries
<1> QED
  BY <1>4, <1>9, <1>10, <1>11, FlightFrom

(* A port that begins to configure its endpoints asks for that once        *)
(* (xhci.cpp:283-291).                                                     *)
LEMMA FlightConfigure ==
  ASSUME TypeOK, TypeOK', TurnInv, FlightInv, er # <<>>, Pop, ~Spinning,
         ContextsStay, UNCHANGED <<addressing_port>>,
         NEW s \in SlotIds, NEW p \in PortIds, RootHubPort(s) = p,
         port_config_phase[p] = "InitializingDevice",
         port_config_phase' = [port_config_phase EXCEPT ![p] = "ConfiguringEndpoints"],
         cr' = Append(cr, ConfigureEndpointCommand(s))
  PROVE  FlightInv'
<1>1. spin.init = 0 /\ p # 0
  BY DEF TurnInv
<1>2. PICK k \in Nat : k = Len(cr) + 1
  BY DEF TypeOK
<1>3. ConfigureEndpointCommand(s) \in Command
  BY PushType
<1>4. PICK f : /\ Carries(f, {<<"command", k>>})
               /\ \A x \in InFlight' \ {<<"command", k>>} :
                    f[x] # <<"completion", 1>> /\ x[1] = f[x][1]
  BY <1>2, <1>3, OnePopped DEF Pop
<1>5. /\ InFlightType(<<"command", k>>)' = "ConfigureEndpoint"
      /\ InFlightSlot(<<"command", k>>)' = s
      /\ <<"command", k>> \in InFlight'
  BY <1>2, <1>3, JustPushed DEF ConfigureEndpointCommand
<1>6. \A q \in PortIds : port_config_phase'[q] =
        IF q = p THEN "ConfiguringEndpoints" ELSE port_config_phase[q]
  BY DEF TypeOK
<1>7. addressing_port \in PortIds
  BY DEF TypeOK
<1>8. TurnStays
  BY <1>6, <1>7 DEF TurnStays
<1>9. ASSUME NEW x \in InFlight' \ {<<"command", k>>}
      PROVE  /\ Due(x)'
             /\ InFlightType(f[x]) = "ConfigureEndpoint" => InFlightSlot(f[x]) # s
  <2>1. f[x] \in InFlight
    BY <1>4 DEF Carries
  <2>2. Due(f[x]) /\ InFlightSlot(f[x]) \in SlotIds
    BY <2>1, InFlightTyped DEF FlightInv
  <2>3. InFlightType(f[x]) = "ConfigureEndpoint" =>
          port_config_phase[RootHubPort(InFlightSlot(f[x]))] = "ConfiguringEndpoints"
    BY <2>2 DEF Due, Awaited
  <2>4. RootHubPort(InFlightSlot(f[x])) \in PortIds
    BY <2>2, DeviceType DEF RootHubPort, FindBySlot
  <2>5. InFlightType(f[x]) = "ConfigureEndpoint" =>
          port_config_phase'[RootHubPort(InFlightSlot(f[x]))] =
            port_config_phase[RootHubPort(InFlightSlot(f[x]))]
    BY <1>6, <2>3, <2>4
  <2>6. Due(x)'
    BY <1>4, <1>8, <2>5, DueKept
  <2> QED
    BY <2>3, <2>6
<1>10. Due(<<"command", k>>)'
  <2>1. devices'[s].root_hub_port_num = p
    BY <1>1 DEF ContextsStay, RootHubPort, FindBySlot
  <2> QED
    BY <1>5, <1>6, <2>1 DEF Due, Awaited, Fresh, Loaded, RootHubPort, FindBySlot
<1>11. ASSUME NEW x \in InFlight' \ {<<"command", k>>}
       PROVE  ~SameRequest(<<"command", k>>, x)'
  BY <1>4, <1>5, <1>9, <1>11 DEF SameRequest, Carries
<1>12. \A x \in InFlight' \ {<<"command", k>>} : Due(x)'
  BY <1>9
<1>13. \A x \in InFlight' : x \in {<<"command", k>>} =>
         /\ Due(x)'
         /\ \A y \in InFlight' \ {<<"command", k>>} : ~SameRequest(x, y)'
         /\ \A y \in InFlight' : y \in {<<"command", k>>} => x = y
  BY <1>10, <1>11
<1> QED
  BY <1>4, <1>12, <1>13, FlightFrom

(* Enable Slot's completion is followed by Address Device for the same     *)
(* port, with everything in place (xhci.cpp:131-164, 233-243).             *)
LEMMA FlightAddress ==
  ASSUME TypeOK, TypeOK', TurnInv, BusInv, SlotInv, FlightInv,
         OnEnableSlotCompleted, AddressDevice(addressing_port, Head(er).slot_id),
         port_config_phase[addressing_port] = "EnablingSlot"
  PROVE  FlightInv'
<1> DEFINE p == addressing_port
           s == Head(er).slot_id
<1>1. /\ s \in SlotIds /\ er # <<>> /\ Pop /\ ~Spinning /\ spin.init = 0
      /\ UNCHANGED <<addressing_port, spin, enabled_slots>>
  BY PopType DEF OnEnableSlotCompleted, Completion, Polling, Event, TurnInv
<1>2. p \in PortIds /\ p # 0
  BY DEF TypeOK, TurnInv
<1>3. PICK k \in Nat : k = Len(cr) + 1
  BY DEF TypeOK
<1>4. AddressDeviceCommand(s) \in Command /\ cr' = Append(cr, AddressDeviceCommand(s))
  BY <1>1, PushType DEF AddressDevice
<1>5. PICK f : /\ Carries(f, {<<"command", k>>})
               /\ \A x \in InFlight' \ {<<"command", k>>} :
                    f[x] # <<"completion", 1>> /\ x[1] = f[x][1]
  BY <1>1, <1>3, <1>4, OnePopped DEF Pop
<1>6. /\ InFlightType(<<"command", k>>)' = "AddressDevice"
      /\ InFlightSlot(<<"command", k>>)' = s
      /\ <<"command", k>> \in InFlight'
  BY <1>3, <1>4, JustPushed DEF AddressDeviceCommand
<1>7. HeadCompletion("EnableSlot")
  BY CompletionInFlight DEF OnEnableSlotCompleted
<1>8. \A q \in PortIds : port_config_phase'[q] =
        IF q = p THEN "AddressingDevice" ELSE port_config_phase[q]
  BY DEF AddressDevice, TypeOK
<1>9. \A t \in SlotIds : devices'[t].root_hub_port_num = devices[t].root_hub_port_num
  BY <1>1 DEF AddressDevice, TypeOK, DeviceObject
<1>10. /\ devices'[s].input_port = p
       /\ device_context_pointers'[s] = "context"
  BY <1>1 DEF AddressDevice, TypeOK, DeviceObject
<1>11. ASSUME NEW x \in InFlight' \ {<<"command", k>>}
       PROVE  Due(x)' /\ InFlightType(x)' # "AddressDevice"
  <2>1. /\ f[x] \in InFlight /\ f[x] # <<"completion", 1>>
        /\ InFlightType(x)' = InFlightType(f[x])
        /\ InFlightSlot(x)' = InFlightSlot(f[x])
    BY <1>5 DEF Carries
  <2>2. Due(f[x]) /\ InFlightSlot(f[x]) \in SlotIds
    BY <2>1, InFlightTyped DEF FlightInv
  <2>3. InFlightType(f[x]) # "AddressDevice"
    BY <1>1, <2>2 DEF Due, Awaited
  <2>4. InFlightType(f[x]) # "EnableSlot"
    BY <1>7, <2>1 DEF FlightInv, SameRequest, HeadCompletion
  <2>5. InFlightType(x)' = "ConfigureEndpoint"
    BY <2>1, <2>3, <2>4, InFlightTyped DEF CommandTypes
  <2>6. port_config_phase[RootHubPort(InFlightSlot(f[x]))] = "ConfiguringEndpoints"
    BY <2>1, <2>2, <2>5 DEF Due, Awaited
  <2>7. /\ RootHubPort(InFlightSlot(f[x])) \in PortIds
        /\ RootHubPort(InFlightSlot(x))' = RootHubPort(InFlightSlot(f[x]))
    BY <1>9, <2>1, <2>2, DeviceType DEF RootHubPort, FindBySlot
  <2>8. Awaited(x)'
    BY <1>8, <2>5, <2>6, <2>7 DEF Awaited
  <2> QED
    BY <2>5, <2>8 DEF Due, Fresh, Loaded
<1>12. Due(<<"command", k>>)'
  BY <1>1, <1>2, <1>6, <1>8, <1>10 DEF Due, Awaited, Fresh, Loaded
<1>13. ASSUME NEW x \in InFlight' \ {<<"command", k>>}
       PROVE  ~SameRequest(<<"command", k>>, x)'
  BY <1>6, <1>11 DEF SameRequest
<1>14. \A x \in InFlight' \ {<<"command", k>>} : Due(x)'
  BY <1>11
<1>15. \A x \in InFlight' : x \in {<<"command", k>>} =>
         /\ Due(x)'
         /\ \A y \in InFlight' \ {<<"command", k>>} : ~SameRequest(x, y)'
         /\ \A y \in InFlight' : y \in {<<"command", k>>} => x = y
  BY <1>12, <1>13
<1> QED
  BY <1>5, <1>14, <1>15, FlightFrom

(* When the turn ends nothing of it is in flight except, during the wait   *)
(* for the next port's reset, the completion at work (xhci.cpp:245-261).   *)
LEMMA FlightTurnEnds ==
  ASSUME TypeOK, TypeOK', TurnInv, BusInv, SlotInv, FlightInv,
         OnAddressDeviceCompleted,
         NEW s \in SlotIds, s = Head(er).slot_id,
         NEW p \in PortIds, p = RootHubPort(s), p = addressing_port,
         port_config_phase[p] = "AddressingDevice",
         \/ /\ InitializeDevice(p, s)
            /\ Pop /\ UNCHANGED spin
         \/ \E n \in Ports :
              /\ NextWaiting(n)
              /\ port_config_phase' =
                   [port_config_phase EXCEPT ![n] = "ResettingPort"]
              /\ PortReset(n, p, s)
              /\ UNCHANGED <<devices, er>>
  PROVE  FlightInv'
<1>1. /\ er # <<>> /\ ~Spinning /\ spin.init = 0 /\ p # 0
      /\ UNCHANGED <<cr, device_context_pointers, enabled_slots>>
  BY DEF OnAddressDeviceCompleted, Completion, Polling, TurnInv
<1>2. HeadCompletion("AddressDevice")
  BY CompletionInFlight DEF OnAddressDeviceCompleted
<1>3. PICK f : /\ Carries(f, {})
               /\ \A x \in InFlight' : x[1] = f[x][1]
               /\ \A x \in InFlight' : f[x] = <<"completion", 1>> =>
                    spin'.init # 0 /\ x = <<"completion", 1>>
  <2>1. CASE Pop
    BY <1>1, <2>1, OnlyPopped
  <2>2. ASSUME UNCHANGED er, NEW n \in Ports, PortReset(n, p, s)
        PROVE  \E f : /\ Carries(f, {})
                      /\ \A x \in InFlight' : x[1] = f[x][1]
                      /\ \A x \in InFlight' : f[x] = <<"completion", 1>> =>
                           spin'.init # 0 /\ x = <<"completion", 1>>
    <3>1. PICK f : Carries(f, {}) /\ \A x \in InFlight' : f[x] = x
      BY <1>1, <2>2, NothingMoves
    <3>2. spin'.init # 0
      BY <1>1, <2>2 DEF PortReset
    <3> QED
      BY <3>1, <3>2
  <2> QED
    BY <2>1, <2>2
<1>4. \A t \in SlotIds : devices'[t].root_hub_port_num = devices[t].root_hub_port_num
  <2>1. CASE UNCHANGED devices
    BY <2>1
  <2>2. CASE devices' = [devices EXCEPT ![s].initialize_phase = 1]
    BY <2>2 DEF TypeOK, DeviceObject
  <2> QED
    BY <2>1, <2>2 DEF InitializeDevice
<1>5. \A q \in PortIds : port_config_phase[q] = "ConfiguringEndpoints" =>
        port_config_phase'[q] = port_config_phase[q]
  BY ZeroType DEF InitializeDevice, TypeOK, NextWaiting
<1>6. ASSUME NEW x \in InFlight' \ {}
      PROVE  Due(x)'
  <2>1. /\ f[x] \in InFlight
        /\ InFlightType(x)' = InFlightType(f[x])
        /\ InFlightSlot(x)' = InFlightSlot(f[x])
    BY <1>3 DEF Carries
  <2>2. Due(f[x]) /\ InFlightSlot(f[x]) \in SlotIds
    BY <2>1, InFlightTyped DEF FlightInv
  <2>3. InFlightType(f[x]) # "EnableSlot"
    BY <1>1, <2>2 DEF Due, Awaited
  <2>4. CASE InFlightType(f[x]) = "AddressDevice"
    <3>1. f[x] = <<"completion", 1>>
      BY <1>2, <2>1, <2>4 DEF FlightInv, SameRequest, HeadCompletion
    <3>2. spin'.init # 0 /\ x = <<"completion", 1>>
      BY <1>3, <3>1
    <3> QED
      BY <2>1, <2>4, <3>2 DEF Due, Awaited, Fresh, Loaded
  <2>5. CASE InFlightType(f[x]) = "ConfigureEndpoint"
    <3>1. port_config_phase[RootHubPort(InFlightSlot(f[x]))] = "ConfiguringEndpoints"
      BY <2>2, <2>5 DEF Due, Awaited
    <3>2. /\ RootHubPort(InFlightSlot(f[x])) \in PortIds
          /\ RootHubPort(InFlightSlot(x))' = RootHubPort(InFlightSlot(f[x]))
      BY <1>4, <2>1, <2>2, DeviceType DEF RootHubPort, FindBySlot
    <3>3. Awaited(x)'
      BY <1>5, <2>1, <2>5, <3>1, <3>2 DEF Awaited
    <3> QED
      BY <2>1, <2>5, <3>3 DEF Due, Fresh, Loaded
  <2> QED
    BY <2>1, <2>3, <2>4, <2>5, InFlightTyped DEF CommandTypes
<1> QED
  BY <1>3, <1>6, FlightFrom

(* The answer to Configure Endpoint is taken once (xhci.cpp:262-277).      *)
LEMMA FlightConfigured ==
  ASSUME TypeOK, TypeOK', TurnInv, SlotInv, FlightInv,
         OnConfigureEndpointCompleted,
         NEW s \in SlotIds, s = Head(er).slot_id,
         NEW p \in PortIds, p = RootHubPort(s),
         port_config_phase[p] = "ConfiguringEndpoints",
         port_config_phase' = [port_config_phase EXCEPT ![p] = "Configured"]
  PROVE  FlightInv'
<1>1. /\ er # <<>> /\ ~Spinning /\ spin.init = 0 /\ p # 0 /\ Pop
      /\ UNCHANGED <<cr, devices, device_context_pointers, enabled_slots,
                     addressing_port>>
  BY DEF OnConfigureEndpointCompleted, Completion, Polling, TurnInv
<1>2. HeadCompletion("ConfigureEndpoint")
  BY CompletionInFlight DEF OnConfigureEndpointCompleted
<1>3. PICK f : /\ Carries(f, {})
               /\ \A x \in InFlight' : /\ f[x] # <<"completion", 1>>
                                       /\ x[1] = f[x][1]
  BY <1>1, OnlyPopped
<1>4. \A q \in PortIds : port_config_phase'[q] =
        IF q = p THEN "Configured" ELSE port_config_phase[q]
  BY DEF TypeOK
<1>5. ContextsStay /\ TurnStays
  <2>1. addressing_port \in PortIds
    BY DEF TypeOK
  <2> QED
    BY <1>1, <1>4, <2>1 DEF ContextsStay, TurnStays
<1>6. ASSUME NEW x \in InFlight' \ {}
      PROVE  Due(x)'
  <2>1. f[x] \in InFlight /\ f[x] # <<"completion", 1>>
    BY <1>3 DEF Carries
  <2>2. InFlightSlot(f[x]) \in SlotIds
    BY <2>1, InFlightTyped
  <2>3. ASSUME InFlightType(f[x]) = "ConfigureEndpoint"
        PROVE  RootHubPort(InFlightSlot(f[x])) # p
    <3>1. InFlightSlot(f[x]) # s
      BY <1>2, <2>1, <2>3 DEF FlightInv, SameRequest, HeadCompletion
    <3> QED
      BY <1>1, <2>2, <3>1 DEF SlotInv, Allocated, FindBySlot
  <2>4. RootHubPort(InFlightSlot(f[x])) \in PortIds
    BY <2>2, DeviceType DEF RootHubPort, FindBySlot
  <2>5. InFlightType(f[x]) = "ConfigureEndpoint" =>
          port_config_phase'[RootHubPort(InFlightSlot(f[x]))] =
            port_config_phase[RootHubPort(InFlightSlot(f[x]))]
    BY <1>4, <2>3, <2>4
  <2> QED
    BY <1>3, <1>5, <2>5, DueKept
<1> QED
  BY <1>3, <1>6, FlightFrom

(* The command the controller executes next.                               *)
LEMMA FirstCommand ==
  ASSUME TypeOK, cr # <<>>
  PROVE  /\ InFlightType(<<"command", 1>>) = Head(cr).type
         /\ Head(cr).slot_id \in SlotIds
<1>1. Head(cr) = cr[1] /\ Head(cr) \in Command
  BY DEF TypeOK
<1>2. Labels
  BY LabelsHold
<1>3. InFlightType(<<"command", 1>>) = cr[1].type
  BY <1>2 DEF Labels
<1> QED
  BY <1>1, <1>3 DEF Command

(* Every step keeps FlightInv.                                             *)
LEMMA FlightNext ==
  ASSUME TypeOK, TypeOK', HandlerHasEvent, TurnInv, BusInv, SlotInv, FlightInv,
         [Next]_vars
  PROVE  FlightInv'
<1>0. ~Spinning => spin.init = 0
  BY DEF TurnInv
<1> DEFINE Kept == /\ ContextsStay /\ TurnStays
                   /\ \A q \in PortIds :
                        port_config_phase[q] = "ConfiguringEndpoints" =>
                          port_config_phase'[q] = port_config_phase[q]
<1>a. ASSUME Kept, UNCHANGED <<cr, spin>>,
             \/ UNCHANGED er
             \/ \E e \in Event : er' = Append(er, e) /\ e.type # "CommandCompletion"
      PROVE  FlightInv'
  BY <1>a, NothingMoves, FlightFrame
<1>b. ASSUME Kept, spin.init = 0, UNCHANGED <<cr, er>>
      PROVE  FlightInv'
  BY <1>b, NothingMoves, FlightFrame
<1>c. ASSUME Kept, UNCHANGED cr, er # <<>>, Pop
      PROVE  FlightInv'
  BY <1>c, OnlyPopped, FlightFrame
<1>d. ASSUME UNCHANGED <<port_config_phase, addressing_port, devices,
                         device_context_pointers, enabled_slots>>
      PROVE  Kept
  BY <1>d DEF ContextsStay, TurnStays
<1>1. CASE ConfigurePort
  <2>1. /\ boot \in Ports /\ spin.init = 0
        /\ UNCHANGED <<devices, device_context_pointers, enabled_slots, cr, er>>
    BY <1>0, <1>1 DEF ConfigurePort, TypeOK, Ports
  <2>2. ContextsStay
    BY <2>1 DEF ContextsStay
  <2>3. CASE port_config_phase[boot] = "NotConnected" /\ ResetPort(boot)
    BY <1>b, <2>1, <2>2, <2>3, ResetPortStays
  <2>4. CASE UNCHANGED <<port_config_phase, addressing_port>>
    BY <1>b, <1>d, <2>1, <2>4
  <2> QED
    BY <1>1, <2>3, <2>4 DEF ConfigurePort
<1>2. CASE ResumeAfterReset
  <2>1. /\ UNCHANGED <<device_context_pointers, enabled_slots, cr, addressing_port>>
        /\ port_config_phase[addressing_port] = "ResettingPort"
        /\ spin.slot \in SlotIds /\ spin.init \in PortIds
    BY <1>2 DEF ResumeAfterReset, TurnInv, TypeOK
  <2>2. ContextsStay
    <3>1. ContextsKept
      BY <1>2, <2>1, InitializeKeeps
      DEF ResumeAfterReset, InitializeDevice, ContextsKept
    <3> QED
      BY <2>1, <3>1 DEF ContextsStay, ContextsKept
  <2>3. \A q \in PortIds : port_config_phase[q] = "ConfiguringEndpoints" =>
          port_config_phase'[q] = port_config_phase[q]
    <3>1. CASE spin.init # 0
      <4>1. /\ port_config_phase[spin.init] = "AddressingDevice"
            /\ port_config_phase' =
                 [port_config_phase EXCEPT ![spin.init] = "InitializingDevice"]
        BY <1>2, <3>1 DEF ResumeAfterReset, InitializeDevice, TurnInv
      <4> QED
        BY <2>1, <4>1 DEF TypeOK
    <3> QED
      BY <1>2, <3>1 DEF ResumeAfterReset
  <2>4. Kept
    BY <2>1, <2>2, <2>3 DEF TurnStays
  <2>5. CASE boot <= MaxPorts
    <3>1. UNCHANGED er
      BY <1>2, <2>5 DEF ResumeAfterReset
    <3>2. spin.init = 0
      BY <2>5, PortAssumption DEF SlotInv, TypeOK
    <3> QED
      BY <1>b, <2>1, <2>4, <3>1, <3>2
  <2>6. CASE ~(boot <= MaxPorts)
    <3>1. boot > MaxPorts
      BY <2>6, PortAssumption DEF TypeOK
    <3>2. Pop /\ er # <<>>
      BY <1>2, <2>6, <3>1 DEF ResumeAfterReset, HandlerHasEvent
    <3> QED
      BY <1>c, <2>1, <2>4, <3>2
  <2> QED
    BY <2>5, <2>6
<1>3. CASE OnPortStatusChangeEvent
  <2> DEFINE p == Head(er).port_id
  <2>1. /\ p \in Ports /\ er # <<>> /\ ~Spinning /\ spin.init = 0
        /\ UNCHANGED <<devices, device_context_pointers, enabled_slots>>
        /\ Pop \/ UNCHANGED er
        /\ spin' = spin => Pop
    BY <1>0, <1>3, PopType DEF OnPortStatusChangeEvent, Polling, Event, Spinning
  <2>2. ContextsStay
    BY <2>1 DEF ContextsStay
  <2>3. CASE port_config_phase[p] = "NotConnected" /\ ResetPort(p) /\ UNCHANGED cr
    <3>1. Kept
      BY <2>1, <2>2, <2>3, ResetPortStays
    <3> QED
      BY <1>b, <1>c, <2>1, <2>3, <3>1
  <2>4. CASE /\ port_config_phase[p] = "ResettingPort"
             /\ EnableSlot(p)
             /\ cr' = Append(cr, EnableSlotCommand)
    BY <2>1, <2>4, FlightEnableSlot DEF EnableSlot
  <2>5. CASE UNCHANGED <<port_config_phase, addressing_port, cr, spin>>
    BY <1>c, <1>d, <2>1, <2>5
  <2> QED
    BY <1>3, <2>3, <2>4, <2>5 DEF OnPortStatusChangeEvent, EnableSlot
<1>4. CASE OnEnableSlotCompleted
  <2>1. er # <<>> /\ Pop
    BY <1>4 DEF OnEnableSlotCompleted, Completion, Polling
  <2>2. CASE /\ port_config_phase[addressing_port] = "EnablingSlot"
             /\ AddressDevice(addressing_port, Head(er).slot_id)
    BY <1>4, <2>2, FlightAddress
  <2>3. CASE UNCHANGED <<devices, device_context_pointers, port_config_phase, cr>>
    BY <1>4, <1>c, <1>d, <2>1, <2>3 DEF OnEnableSlotCompleted
  <2> QED
    BY <1>4, <2>2, <2>3 DEF OnEnableSlotCompleted
<1>5. CASE OnAddressDeviceCompleted
  <2> DEFINE s == Head(er).slot_id
             p == RootHubPort(s)
  <2>1. /\ s \in SlotIds /\ p \in PortIds /\ er # <<>>
        /\ UNCHANGED <<device_context_pointers, enabled_slots, cr>>
    BY <1>5, PopType, DeviceType
    DEF OnAddressDeviceCompleted, Completion, Polling, Event, RootHubPort,
        FindBySlot
  <2>2. CASE Pop /\ UNCHANGED <<addressing_port, port_config_phase, devices>>
    BY <1>c, <1>d, <2>1, <2>2
  <2>3. CASE /\ p = addressing_port
             /\ port_config_phase[p] = "AddressingDevice"
             /\ \/ /\ InitializeDevice(p, s)
                   /\ Pop /\ UNCHANGED spin
                \/ \E n \in Ports :
                     /\ NextWaiting(n)
                     /\ port_config_phase' =
                          [port_config_phase EXCEPT ![n] = "ResettingPort"]
                     /\ PortReset(n, p, s)
                     /\ UNCHANGED <<devices, er>>
    BY <1>5, <2>1, <2>3, FlightTurnEnds
  <2> QED
    BY <1>5, <2>2, <2>3 DEF OnAddressDeviceCompleted
<1>6. CASE OnConfigureEndpointCompleted
  <2> DEFINE s == Head(er).slot_id
             p == RootHubPort(s)
  <2>1. /\ s \in SlotIds /\ p \in PortIds /\ er # <<>> /\ Pop
        /\ UNCHANGED <<devices, device_context_pointers, enabled_slots, cr,
                       addressing_port>>
    BY <1>6, PopType, DeviceType
    DEF OnConfigureEndpointCompleted, Completion, Polling, Event, RootHubPort,
        FindBySlot
  <2>2. CASE UNCHANGED port_config_phase
    BY <1>c, <1>d, <2>1, <2>2
  <2>3. CASE /\ port_config_phase[p] = "ConfiguringEndpoints"
             /\ port_config_phase' = [port_config_phase EXCEPT ![p] = "Configured"]
    BY <1>6, <2>1, <2>3, FlightConfigured
  <2> QED
    BY <1>6, <2>2, <2>3 DEF OnConfigureEndpointCompleted
<1>7. CASE OnTransferEvent
  <2> DEFINE s == Head(er).slot_id
             p == RootHubPort(s)
  <2>1. /\ s \in SlotIds /\ p \in PortIds /\ er # <<>> /\ Pop /\ ~Spinning
        /\ UNCHANGED <<device_context_pointers, enabled_slots, addressing_port>>
    BY <1>7, PopType, DeviceType
    DEF OnTransferEvent, Polling, Event, RootHubPort, FindBySlot
  <2>2. ContextsStay
    <3>1. CASE devices' = devices
      BY <2>1, <3>1 DEF ContextsStay
    <3>2. ASSUME NEW k, devices' = [devices EXCEPT ![s].initialize_phase = k]
          PROVE  ContextsStay
      BY <2>1, <3>2 DEF ContextsStay, TypeOK, DeviceObject
    <3> QED
      BY <1>7, <3>1, <3>2 DEF OnTransferEvent
  <2>3. CASE UNCHANGED <<port_config_phase, cr>>
    <3>1. Kept
      BY <2>1, <2>2, <2>3 DEF TurnStays
    <3> QED
      BY <1>c, <2>1, <2>3, <3>1
  <2>4. CASE /\ port_config_phase[p] = "InitializingDevice"
             /\ port_config_phase' =
                  [port_config_phase EXCEPT ![p] = "ConfiguringEndpoints"]
             /\ cr' = Append(cr, ConfigureEndpointCommand(s))
    BY <2>1, <2>2, <2>4, FlightConfigure
  <2> QED
    BY <1>7, <2>3, <2>4 DEF OnTransferEvent, ConfigureEndpoints
<1>8. CASE RunEnableSlot
  <2>1. PICK s \in SlotIds \ enabled_slots :
          /\ enabled_slots' = enabled_slots \cup ({s} \ {0})
          /\ Complete(s)
    BY <1>8 DEF RunEnableSlot
  <2>2. /\ cr # <<>> /\ Head(cr).type = "EnableSlot"
        /\ UNCHANGED <<port_config_phase, addressing_port, devices,
                       device_context_pointers, spin>>
    BY <1>8 DEF RunEnableSlot, driverVars
  <2>3. ContextsStay /\ TurnStays
    BY <2>1, <2>2 DEF ContextsStay, TurnStays
  <2>4. PICK f : /\ Carries(f, {})
                 /\ \A x \in InFlight' :
                      /\ f[x] = <<"completion", 1>> => x = <<"completion", 1>>
                      /\ \/ x[1] = f[x][1]
                         \/ /\ f[x] = <<"command", 1>> /\ x[1] = "completion"
                            /\ InFlightSlot(x)' = s
    BY <2>1, <2>2, OneRan
  <2>5. ASSUME NEW x \in InFlight' \ {}
        PROVE  Due(x)'
    <3>1. CASE x[1] = f[x][1]
      BY <2>2, <2>3, <2>4, <3>1, DueKept
    <3>2. CASE /\ f[x] = <<"command", 1>> /\ x[1] = "completion"
               /\ InFlightSlot(x)' = s
      <4>1. /\ f[x] \in InFlight
            /\ InFlightType(x)' = InFlightType(f[x])
        BY <2>4 DEF Carries
      <4>2. InFlightType(f[x]) = "EnableSlot"
        BY <2>2, <3>2, FirstCommand
      <4>3. port_config_phase[addressing_port] = "EnablingSlot"
        BY <4>1, <4>2 DEF FlightInv, Due, Awaited
      <4>4. s # 0 => s \in enabled_slots' /\ ~Allocated(s)
        BY <2>1 DEF SlotInv
      <4>5. s # 0 => ~Allocated(s)'
        BY <2>2, <4>4 DEF Allocated, FindBySlot
      <4>6. Awaited(x)'
        BY <2>2, <4>1, <4>2, <4>3 DEF Awaited
      <4>7. Fresh(x)'
        BY <3>2, <4>4, <4>5 DEF Fresh, Allocated, FindBySlot
      <4> QED
        BY <3>2, <4>6, <4>7 DEF Due, Loaded
    <3> QED
      BY <2>4, <3>1, <3>2
  <2> QED
    BY <2>4, <2>5, FlightFrom
<1>9. ASSUME Kept, UNCHANGED spin, cr # <<>>, Head(cr).type # "EnableSlot",
             Complete(Head(cr).slot_id)
      PROVE  FlightInv'
  <2>1. PICK s \in SlotIds : s = Head(cr).slot_id
    BY <1>9, FirstCommand
  <2>2. PICK f : /\ Carries(f, {})
                 /\ \A x \in InFlight' :
                      /\ f[x] = <<"completion", 1>> => x = <<"completion", 1>>
                      /\ \/ x[1] = f[x][1]
                         \/ /\ f[x] = <<"command", 1>> /\ x[1] = "completion"
                            /\ InFlightSlot(x)' = s
    BY <1>9, <2>1, OneRan
  <2>3. InFlightType(<<"command", 1>>) # "EnableSlot"
    BY <1>9, FirstCommand
  <2>4. \A x \in InFlight' :
          /\ f[x] = <<"completion", 1>> /\ spin.init # 0 =>
               x = <<"completion", 1>> /\ spin'.init # 0
          /\ x[1] = f[x][1] \/ InFlightType(f[x]) # "EnableSlot"
    BY <1>9, <2>2, <2>3
  <2>5. Kept /\ Carries(f, {})
    BY <1>9, <2>2
  <2> QED
    BY <2>4, <2>5, FlightFrame
<1>10. CASE RunAddressDevice
  <2>1. ContextsStay
    BY <1>10, RunAddressKeeps DEF ContextsStay, RunAddressDevice
  <2> QED
    BY <1>9, <1>10, <2>1 DEF RunAddressDevice, TurnStays
<1>11. CASE RunConfigureEndpoint
  BY <1>9, <1>11, <1>d DEF RunConfigureEndpoint, driverVars
<1>12. ASSUME NEW p \in Ports, Connect(p) \/ Disconnect(p) \/ PortResetDone(p)
       PROVE  FlightInv'
  <2>1. UNCHANGED <<driverVars, enabled_slots, cr>>
    BY <1>12 DEF Connect, Disconnect, PortResetDone
  <2>2. \/ UNCHANGED er
        \/ er' = Append(er, PortStatusChangeEvent(p))
    BY <1>12 DEF Connect, Disconnect, PortResetDone, ReportChange
  <2>3. /\ PortStatusChangeEvent(p) \in Event
        /\ PortStatusChangeEvent(p).type # "CommandCompletion"
    BY PushType DEF PortStatusChangeEvent
  <2> QED
    BY <1>a, <1>d, <2>1, <2>2, <2>3 DEF driverVars
<1>13. ASSUME NEW s \in SlotIds, NEW ok \in BOOLEAN, CompleteTransfer(s, ok)
       PROVE  FlightInv'
  <2>1. /\ TransferEvent(s, ok) \in Event
        /\ TransferEvent(s, ok).type # "CommandCompletion"
    BY PushType DEF TransferEvent
  <2> QED
    BY <1>13, <1>a, <1>d, <2>1 DEF CompleteTransfer, driverVars
<1>14. CASE UNCHANGED vars
  BY <1>14, <1>a, <1>d DEF vars, driverVars
<1> QED
  BY <1>1, <1>2, <1>3, <1>4, <1>5, <1>6, <1>7, <1>8, <1>10, <1>11, <1>12, <1>13,
     <1>14
  DEF Next, ProcessEvent, RunCommand

-----------------------------------------------------------------------------
(* The theorems about slots and commands.                                  *)

(* The inductive invariant.                                                *)
ServiceInv == IInv /\ SlotInv /\ Begun /\ FlightInv

(* The three parts lean on IInv and on one another: FlightInv finds the    *)
(* port of a slot through SlotInv, Begun keeps its slots through SlotInv,  *)
(* and PhasesAdvance needs the turn of IInv.                               *)
LEMMA ServiceInductive ==
  /\ Init => ServiceInv
  /\ ServiceInv /\ [Next]_vars => ServiceInv'
<1>1. Init => SlotInv
  BY ZeroType
  DEF Init, SlotInv, Allocated, RootHubPort, FindBySlot, NoDevice, NoSpin
<1>2. Init => Begun
  BY ZeroType DEF Init, Begun
<1>3. Init => FlightInv
  BY DEF Init, FlightInv, InFlight
<1>4. Init => IInv
  BY Inductive
<1>5. ServiceInv /\ [Next]_vars => IInv' /\ TypeOK'
  BY Inductive DEF ServiceInv, IInv
<1>6. ServiceInv /\ [Next]_vars => SlotInv' /\ Begun' /\ FlightInv'
  BY <1>5, SlotNext, BegunNext, FlightNext DEF ServiceInv, IInv
<1> QED
  BY <1>1, <1>2, <1>3, <1>4, <1>5, <1>6 DEF ServiceInv

(* The invariant holds in every state.                                     *)
LEMMA ServiceInvariance == Spec => []ServiceInv
  BY ServiceInductive, PTL DEF Spec

(* One slot serves one port, and its device object is as far as the port   *)
(* is (xhci.cpp:131-178, 233-281), for every number of ports and slots,    *)
(* with slots running out, commands failing and devices coming and going.  *)
THEOREM SlotsAreOwned == Spec => []SlotsMatchPorts
<1>1. ServiceInv => SlotsMatchPorts
  <2> SUFFICES ASSUME ServiceInv PROVE SlotsMatchPorts
    OBVIOUS
  <2>1. ASSUME NEW p \in Ports, NEW s \in SlotIds, NEW t \in SlotIds,
               OwnsSlot(p, s), OwnsSlot(p, t)
        PROVE  s = t
    <3>1. p # 0
      BY DEF Ports
    <3> QED
      BY <2>1, <3>1
      DEF ServiceInv, SlotInv, OwnsSlot, Allocated, FindBySlot, RootHubPort
  <2> QED
    BY <2>1 DEF SlotsMatchPorts, ServiceInv, Begun
<1> QED
  BY <1>1, ServiceInvariance, PTL

(* Every command and completion in flight is the one a phase waits for,    *)
(* and no request is in flight twice; so no handler takes an answer for    *)
(* another's, and the command ring never holds more than one command per   *)
(* slot and one of the turn (xhci.cpp:227-281, ring.cpp:39-54).            *)
THEOREM InFlightIsAwaited == Spec => []InFlightMatchesPhase
<1>1. ServiceInv => InFlightMatchesPhase
  <2> SUFFICES ASSUME ServiceInv PROVE InFlightMatchesPhase
    OBVIOUS
  <2>1. TypeOK /\ FlightInv
    BY DEF ServiceInv, IInv
  <2>2. \A x \in InFlight : Awaited(x) /\ InFlightType(x) \in CommandTypes
    BY <2>1, InFlightTyped DEF FlightInv, Due
  <2>3. \A x \in InFlight :
          CASE InFlightType(x) = "EnableSlot" ->
                 port_config_phase[addressing_port] = "EnablingSlot"
            [] InFlightType(x) = "AddressDevice" ->
                 \/ port_config_phase[addressing_port] = "AddressingDevice"
                 \/ spin.init # 0 /\ x = <<"completion", 1>>
            [] InFlightType(x) = "ConfigureEndpoint" ->
                 port_config_phase[RootHubPort(InFlightSlot(x))]
                   = "ConfiguringEndpoints"
    BY <2>2 DEF Awaited, CommandTypes
  <2> QED
    BY <2>1, <2>3 DEF InFlightMatchesPhase, FlightInv, SameRequest
<1> QED
  BY <1>1, ServiceInvariance, PTL

(* Address Device is in the command ring only while the device object, its *)
(* input context and the DCBAA entry of its slot are in place              *)
(* (xhci.cpp:131-164).                                                     *)
THEOREM ContextIsLoaded == Spec => []ContextLoaded
<1>1. ServiceInv => ContextLoaded
  <2> SUFFICES ASSUME ServiceInv, NEW i \in DOMAIN cr,
                      cr[i].type = "AddressDevice"
               PROVE  /\ Allocated(cr[i].slot_id)
                      /\ devices[cr[i].slot_id].input_port = addressing_port
                      /\ device_context_pointers[cr[i].slot_id] = "context"
    BY DEF ContextLoaded
  <2>1. <<"command", i>> \in InFlight
    BY DEF InFlight
  <2>2. /\ InFlightType(<<"command", i>>) = "AddressDevice"
        /\ InFlightSlot(<<"command", i>>) = cr[i].slot_id
    BY DEF InFlightType, InFlightSlot
  <2>3. Awaited(<<"command", i>>) /\ Loaded(<<"command", i>>)
    BY <2>1 DEF ServiceInv, FlightInv, Due
  <2>4. port_config_phase[addressing_port] = "AddressingDevice"
    BY <2>2, <2>3 DEF Awaited
  <2>5. addressing_port # 0
    BY <2>4 DEF ServiceInv, IInv, TurnInv
  <2> QED
    BY <2>2, <2>3, <2>5 DEF Loaded, Allocated, FindBySlot
<1> QED
  BY <1>1, ServiceInvariance, PTL

-----------------------------------------------------------------------------
(* Waiting ports.                                                          *)

(* The scan of port_config_phase finds the smallest port of any that wait  *)
(* (xhci.cpp:255-261).                                                     *)
LEMMA SmallestPort ==
  ASSUME NEW S, S \subseteq Ports, S # {}
  PROVE  \E n \in S : \A q \in S : n <= q
<1>1. S \subseteq Nat
  BY PortAssumption DEF Ports
<1>2. PICK n \in S : \A q \in S : <<q, n>> \notin OpToRel(<, Nat)
  BY <1>1, NatLessThanWellFounded, WFMin
<1>3. \A q \in S : ~(q < n)
  BY <1>1, <1>2 DEF OpToRel
<1> QED
  BY <1>1, <1>3

(* As long as nothing is unplugged, a port past NotConnected is connected, *)
(* and while a port waits somebody has the turn.                           *)
CalmInv ==
  \A p \in Ports :
    /\ port_config_phase[p] # "NotConnected" => IsConnected(p)
    /\ port_config_phase[p] = "WaitingAddressed" => addressing_port # 0

(* ResetPort is for connected ports, and makes a port wait only while      *)
(* another has the turn (xhci.cpp:88-110).                                 *)
LEMMA ResetPortCalm ==
  ASSUME TypeOK, CalmInv, NEW p \in Ports, ResetPort(p)
  PROVE  CalmInv'
<1>1. p \in PortIds /\ UNCHANGED device /\ p # 0
  BY ZeroType DEF ResetPort, PortReset, portVars, Ports
<1>2. CASE UNCHANGED <<port_config_phase, addressing_port>>
  BY <1>1, <1>2 DEF CalmInv, IsConnected
<1>3. CASE /\ IsConnected(p)
           /\ port_config_phase' =
                [port_config_phase EXCEPT ![p] = "WaitingAddressed"]
           /\ addressing_port # 0 /\ UNCHANGED addressing_port
  <2>1. \A q \in Ports : port_config_phase'[q] =
          IF q = p THEN "WaitingAddressed" ELSE port_config_phase[q]
    BY <1>1, <1>3, ZeroType DEF TypeOK
  <2> QED
    BY <1>1, <1>3, <2>1 DEF CalmInv, IsConnected
<1>4. CASE /\ IsConnected(p)
           /\ port_config_phase' =
                [port_config_phase EXCEPT ![p] = "ResettingPort"]
           /\ addressing_port' = p
  <2>1. \A q \in Ports : port_config_phase'[q] =
          IF q = p THEN "ResettingPort" ELSE port_config_phase[q]
    BY <1>1, <1>4, ZeroType DEF TypeOK
  <2> QED
    BY <1>1, <1>4, <2>1 DEF CalmInv, IsConnected
<1> QED
  BY <1>2, <1>3, <1>4 DEF ResetPort

(* Every step keeps CalmInv while nothing is unplugged.                    *)
LEMMA CalmNext ==
  ASSUME ~HotUnplug, TypeOK, TurnInv, CalmInv, [Next]_vars
  PROVE  CalmInv'
<1>0. GoesForward /\ Ports \subseteq PortIds
  BY PhaseMoves, ZeroType
<1>a. ASSUME UNCHANGED addressing_port,
             \A q \in Ports :
               /\ port_config_phase'[q] = "WaitingAddressed" =>
                    port_config_phase[q] = "WaitingAddressed"
               /\ port_config_phase'[q] # "NotConnected" =>
                    port_config_phase[q] # "NotConnected"
               /\ IsConnected(q) => IsConnected(q)'
      PROVE  CalmInv'
  BY <1>a DEF CalmInv
<1>b. CASE UNCHANGED <<port_config_phase, addressing_port, device>>
  BY <1>a, <1>b DEF IsConnected
<1>1. CASE ConfigurePort
  <2>1. boot \in Ports
    BY <1>1 DEF ConfigurePort, TypeOK, Ports
  <2> QED
    BY <1>1, <1>b, <2>1, ResetPortCalm DEF ConfigurePort, portVars
<1>2. CASE ResumeAfterReset
  <2>1. \A q \in Ports : \/ port_config_phase'[q] = port_config_phase[q]
                         \/ /\ port_config_phase[q] = "AddressingDevice"
                            /\ port_config_phase'[q] = "InitializingDevice"
    <3>1. CASE spin.init # 0
      <4>1. /\ port_config_phase[spin.init] = "AddressingDevice"
            /\ port_config_phase' =
                 [port_config_phase EXCEPT ![spin.init] = "InitializingDevice"]
        BY <1>2, <3>1 DEF ResumeAfterReset, InitializeDevice, TurnInv
      <4> QED
        BY <1>0, <4>1 DEF TypeOK
    <3> QED
      BY <1>2, <3>1 DEF ResumeAfterReset
  <2> QED
    BY <1>2, <1>a, <2>1 DEF ResumeAfterReset, portVars, IsConnected
<1>3. CASE OnPortStatusChangeEvent
  <2> DEFINE p == Head(er).port_id
  <2>1. p \in Ports
    BY <1>3, PopType DEF OnPortStatusChangeEvent, Polling, Event
  <2>2. CASE ResetPort(p)
    BY <2>1, <2>2, ResetPortCalm
  <2>3. CASE port_config_phase[p] = "ResettingPort" /\ EnableSlot(p)
    <3>1. \A q \in Ports : \/ port_config_phase'[q] = port_config_phase[q]
                           \/ /\ port_config_phase[q] = "ResettingPort"
                              /\ port_config_phase'[q] = "EnablingSlot"
      BY <1>0, <2>1, <2>3 DEF EnableSlot, TypeOK
    <3> QED
      BY <1>a, <2>3, <3>1 DEF EnableSlot, IsConnected
  <2> QED
    BY <1>3, <1>b, <2>2, <2>3 DEF OnPortStatusChangeEvent, portVars
<1>4. CASE OnEnableSlotCompleted
  <2>1. UNCHANGED <<addressing_port, device>>
    BY <1>4 DEF OnEnableSlotCompleted, portVars
  <2>2. CASE port_config_phase[addressing_port] = "EnablingSlot"
             /\ AddressDevice(addressing_port, Head(er).slot_id)
    <3>1. \A q \in Ports : \/ port_config_phase'[q] = port_config_phase[q]
                           \/ /\ port_config_phase[q] = "EnablingSlot"
                              /\ port_config_phase'[q] = "AddressingDevice"
      BY <1>0, <2>2 DEF AddressDevice, TypeOK
    <3> QED
      BY <1>a, <2>1, <3>1 DEF IsConnected
  <2> QED
    BY <1>4, <1>b, <2>1, <2>2 DEF OnEnableSlotCompleted
<1>5. CASE OnAddressDeviceCompleted
  <2> DEFINE s == Head(er).slot_id
             p == RootHubPort(s)
  <2>1. UNCHANGED device
    BY <1>5 DEF OnAddressDeviceCompleted, portVars, PortReset
  <2>2. CASE UNCHANGED <<addressing_port, port_config_phase>>
    BY <1>b, <2>1, <2>2
  <2>3. ASSUME NEW n \in Ports, NextWaiting(n), addressing_port' = n,
               port_config_phase' =
                 [port_config_phase EXCEPT ![n] = "ResettingPort"]
        PROVE  CalmInv'
    <3>1. \A q \in Ports : port_config_phase'[q] =
            IF q = n THEN "ResettingPort" ELSE port_config_phase[q]
      BY <1>0, <2>3 DEF TypeOK
    <3>2. n # 0
      BY DEF Ports
    <3> QED
      BY <2>1, <2>3, <3>1, <3>2 DEF CalmInv, NextWaiting, IsConnected
  <2>4. CASE /\ port_config_phase[p] = "AddressingDevice"
             /\ p = addressing_port
             /\ ~\E n \in Ports : NextWaiting(n) /\ IsConnected(n)
             /\ InitializeDevice(p, s)
    <3>1. \A q \in Ports : port_config_phase[q] # "WaitingAddressed"
      <4> SUFFICES ASSUME NEW r \in Ports,
                          port_config_phase[r] = "WaitingAddressed"
                   PROVE  FALSE
        OBVIOUS
      <4> DEFINE W == {q \in Ports : port_config_phase[q] = "WaitingAddressed"}
      <4>1. PICK n \in W : \A q \in W : n <= q
        BY SmallestPort
      <4> QED
        BY <2>4, <4>1 DEF NextWaiting, CalmInv
    <3>2. p \in PortIds
      BY <2>4 DEF TypeOK
    <3>3. \A q \in Ports : port_config_phase'[q] =
            IF q = p THEN "InitializingDevice" ELSE port_config_phase[q]
      BY <1>0, <2>4, <3>2 DEF InitializeDevice, TypeOK
    <3> QED
      BY <2>1, <2>4, <3>1, <3>3 DEF CalmInv, IsConnected
  <2> QED
    BY <1>5, <2>2, <2>3, <2>4 DEF OnAddressDeviceCompleted
<1>6. CASE OnConfigureEndpointCompleted
  <2>1. \A q \in Ports : \/ port_config_phase'[q] = port_config_phase[q]
                         \/ /\ port_config_phase[q] = "ConfiguringEndpoints"
                            /\ port_config_phase'[q] = "Configured"
    BY <1>0, <1>6 DEF OnConfigureEndpointCompleted, TypeOK
  <2> QED
    BY <1>6, <1>a, <2>1 DEF OnConfigureEndpointCompleted, portVars, IsConnected
<1>7. CASE OnTransferEvent
  <2>1. \A q \in Ports : \/ port_config_phase'[q] = port_config_phase[q]
                         \/ /\ port_config_phase[q] = "InitializingDevice"
                            /\ port_config_phase'[q] = "ConfiguringEndpoints"
    BY <1>0, <1>7 DEF OnTransferEvent, ConfigureEndpoints, TypeOK
  <2> QED
    BY <1>7, <1>a, <2>1 DEF OnTransferEvent, portVars, IsConnected
<1>8. CASE RunEnableSlot \/ RunConfigureEndpoint
  BY <1>8, <1>b DEF RunEnableSlot, RunConfigureEndpoint, driverVars, portVars
<1>9. CASE RunAddressDevice
  <2>1. UNCHANGED <<port_config_phase, addressing_port>>
    BY <1>9 DEF RunAddressDevice
  <2>2. \A q \in Ports : device'[q] = device[q] \/ device'[q] = "addressed"
    BY <1>9 DEF RunAddressDevice, TypeOK
  <2> QED
    BY <1>a, <2>1, <2>2 DEF IsConnected
<1>10. ASSUME NEW p \in Ports, Connect(p) \/ Disconnect(p) \/ PortResetDone(p)
       PROVE  CalmInv'
  <2>1. ~Disconnect(p) /\ UNCHANGED <<port_config_phase, addressing_port>>
    BY <1>10 DEF Connect, Disconnect, PortResetDone, driverVars
  <2>2. \A q \in Ports : device[q] # "detached" => device'[q] # "detached"
    BY <1>10, <2>1 DEF Connect, PortResetDone, TypeOK
  <2> QED
    BY <1>a, <2>1, <2>2 DEF IsConnected
<1>11. ASSUME NEW s \in SlotIds, NEW ok \in BOOLEAN, CompleteTransfer(s, ok)
       PROVE  CalmInv'
  BY <1>11, <1>b DEF CompleteTransfer, driverVars, portVars
<1>12. CASE UNCHANGED vars
  BY <1>12, <1>b DEF vars, driverVars, portVars
<1> QED
  BY <1>1, <1>2, <1>3, <1>4, <1>5, <1>6, <1>7, <1>8, <1>9, <1>10, <1>11, <1>12
  DEF Next, ProcessEvent, RunCommand

(* Without unplugging no turn is lost, even if commands and transfers      *)
(* fail: a port that waits does so while another has the turn              *)
(* (xhci.cpp:255-261).  With unplugging it can be lost.                    *)
THEOREM NoTurnIsLost == ~HotUnplug /\ Spec => []NoLostTurn
<1>1. Init => CalmInv
  BY ZeroType DEF Init, CalmInv
<1>2. ~HotUnplug /\ IInv /\ CalmInv /\ [Next]_vars => CalmInv'
  BY CalmNext DEF IInv
<1>3. CalmInv => NoLostTurn
  BY DEF CalmInv, NoLostTurn
<1>4. CASE HotUnplug
  BY <1>4
<1>5. CASE ~HotUnplug
  BY <1>1, <1>2, <1>3, <1>5, Invariance, PTL DEF Spec
<1> QED
  BY <1>4, <1>5
=============================================================================
