------------------------------ MODULE UsbDevice ------------------------------
(***************************************************************************)
(* One USB device from StartInitialize to its class driver reading reports *)
(* for ever: usb::Device (kernel/usb/device.cpp), usb::xhci::Device         *)
(* (kernel/usb/xhci/device.cpp) and its class driver, HIDBaseDriver with   *)
(* the keyboard's or the mouse's OnDataReceived (kernel/usb/classdriver/). *)
(*                                                                         *)
(* The driver asks three things of the device on its control pipe, one     *)
(* after the other (device descriptor, configuration descriptor,           *)
(* SetConfiguration), has the controller configure the endpoints, asks     *)
(* SetProtocol once for every endpoint number its class driver is          *)
(* registered under, and then keeps one interrupt transfer pending.  It is *)
(* all callbacks: an answer is known only by the position of the TRB that  *)
(* caused it, and what had been asked is read back from the ring, so a     *)
(* position must not be used again before its answer has been handled.     *)
(*                                                                         *)
(* The event ring is a FIFO here (EventRing implements it) and the ring of *)
(* the control pipe is its TRBs by position, the Link TRB left out         *)
(* (CommandRing shows what the link does).                                 *)
(***************************************************************************)
EXTENDS Integers, Sequences, FiniteSets, ArrayMap, EndpointContext

CONSTANTS
  RingSize,        \* TRBs in a transfer ring, the link included
  MapSize,         \* slots of setup_stage_map_
  WaiterSize,      \* slots of event_waiters_
  Configurations,  \* configuration descriptors a device may have
  Speeds,          \* at which a device may be connected
  Reports(_),      \* what a device of a kind may report, sequences of bytes
  Buffers,         \* what they may make of a buffer
  Faulty           \* may a transfer fail or bring a wrong descriptor?

(* A configuration is a sequence of descriptors: an interface [driver,     *)
(* endpoints] says which class driver is for it and how many endpoint      *)
(* descriptors follow it; others (HID) come in between.                    *)
EndpointNumbers == 1..15
Endpoint  == [number : EndpointNumbers, dir_in : BOOLEAN, type : EndpointTypes,
              interval : 0..255]
Interface == [driver : {"keyboard", "mouse", "none"}, endpoints : Nat]
Polled(e) == e.type = "interrupt" /\ e.dir_in
NumbersOf(eps) == {eps[i].number : i \in DOMAIN eps}

(* NewClassDriver makes a driver for the first interface it supports and   *)
(* for no other.                                                           *)
SupportedIn(c) == {i \in DOMAIN c : c[i] \in Interface /\ c[i].driver # "none"}

(* The elements of a sequence at some of its places, in order.             *)
InOrder(s, places) ==
  [k \in 1..Cardinality(places) |->
     s[CHOOSE i \in places : Cardinality({j \in places : j <= i}) = k]]

(* The endpoint descriptors that come after descriptor i.                  *)
EndpointsAfter(c, i) == {j \in i + 1 .. Len(c) : c[j] \in Endpoint}

(* Mutant of EndpointsFrom: the interface's count is not looked at.        *)
EndpointsFromAll(c, i) == InOrder(c, EndpointsAfter(c, i))

(* The inner loop of InitializePhase2: the next endpoint descriptors, as   *)
(* many as interface i says, past whatever comes in between.               *)
EndpointsFrom(c, i) ==
  InOrder(c, {j \in EndpointsAfter(c, i) :
                Cardinality({l \in EndpointsAfter(c, i) : l <= j})
                  <= c[i].endpoints})

(* The endpoint descriptors between interface i and the next interface.    *)
Own(c, i) ==
  InOrder(c, {j \in EndpointsAfter(c, i) :
                \A l \in i + 1 .. j : c[l] \notin Interface})

(* An interface the class drivers support is followed by the endpoints it  *)
(* counts, at most 16 (ep_configs_), one of them to read reports from; the *)
(* SetProtocol requests of all its endpoint numbers fit in the control     *)
(* pipe's ring and in setup_stage_map_ (in the code: at most 15 numbers,   *)
(* 30 TRBs of 31, 15 entries of 16).  Every endpoint has an address of its *)
(* own, and a bInterval that USB allows at its speed.                      *)
ASSUME ConfigurationAssumption ==
  \A c \in Configurations :
     /\ c \in Seq({c[j] : j \in DOMAIN c})
     /\ \A i \in SupportedIn(c) :
          LET eps == Own(c, i)
          IN  /\ Len(eps) = c[i].endpoints /\ Len(eps) <= 16
              /\ \E k \in DOMAIN eps : Polled(eps[k])
              /\ 2 * Cardinality(NumbersOf(eps)) <= RingSize - 2
              /\ Cardinality(NumbersOf(eps)) <= MapSize
              /\ \A k, l \in DOMAIN eps :
                   DeviceContextIndex(eps[k]) = DeviceContextIndex(eps[l]) => k = l
              /\ \A k \in DOMAIN eps : eps[k].type = "interrupt" =>
                   eps[k].interval \in 1..(IF Speeds \subseteq SlowSpeeds THEN 255
                                           ELSE 16)
ASSUME SizeAssumption == /\ RingSize \in Nat /\ RingSize >= 6
                         /\ MapSize \in Nat \ {0} /\ WaiterSize \in Nat \ {0}
ASSUME SwitchAssumption == Faulty \in BOOLEAN

kBufferSize == 8   \* bytes of buf_ a boot report may fill (of 1024)
Zeros == [i \in 1..kBufferSize |-> 0]

(* A transfer of len bytes into a buffer, and copy_n.                      *)
CopyN(from, len, to) ==
  [i \in 1..kBufferSize |-> IF i <= len THEN from[i] ELSE to[i]]

(* A boot report fits in the buffer; the second byte of a keyboard's is    *)
(* reserved.  Buffers holds all that reports, short ones too, may leave.   *)
ASSUME ReportAssumption ==
  /\ Zeros \in Buffers
  /\ \A kind \in {"keyboard", "mouse"} : \A r \in Reports(kind) :
       /\ Len(r) \in 1..kBufferSize
       /\ kind = "keyboard" /\ Len(r) > 1 => r[2] = 0
       /\ \A b \in Buffers : CopyN(r, Len(r), b) \in Buffers

VARIABLES
  (* usb::Device and the port's phase in xhci.cpp. *)
  initialize_phase,  \* 4 is is_initialized_
  ep_configs,        \* ep_configs_, num_ep_configs_ long
  class_drivers,     \* the endpoint numbers that have the class driver
  class_driver,      \* the driver made for the device, "none" before
  port_config_phase,
  (* usb::xhci::Device. *)
  pipe,              \* the control pipe: see Pipe
  (* HIDBaseDriver. *)
  hid_phase,         \* its initialize_phase_
  ep_interrupt_in,   \* endpoint number, 0 before SetEndpoint
  previous_buf,      \* its previous_buf_, the bytes a report may fill
  notified,          \* what the last OnDataReceived told the observers
  (* The device and the controller. *)
  configuration,     \* the device's configuration descriptor
  speed,
  contexts,          \* endpoint contexts, by device context index
  received,          \* the last request whose setup stage reached the device
  buf,               \* usb::Device::buf_, written by DMA
  report_buf,        \* HIDBaseDriver::buf_, written by DMA
  report_len,        \* bytes of the last report
  polls,             \* interrupt transfers queued on ep_interrupt_in
  halted,            \* endpoints stopped by a failed transfer
  command,           \* is a Configure Endpoint command executing?
  er                 \* event ring

readVars   == <<previous_buf, notified>>
driverVars == <<initialize_phase, ep_configs, class_drivers, class_driver,
                port_config_phase, contexts, hid_phase, ep_interrupt_in, readVars>>
deviceVars == <<configuration, speed, received, buf, report_buf, report_len, halted>>
vars == <<driverVars, deviceVars, pipe, polls, command, er>>

-----------------------------------------------------------------------------
(* Data.                                                                   *)

Last      == RingSize - 1              \* where the Link TRB is
Positions == 0..(Last - 1)
Requests  == {"GetDescriptor(Device)", "GetDescriptor(Configuration)",
              "SetConfiguration", "SetProtocol"}
NoRequest == "none"
Int8(byte) == IF byte >= 128 THEN byte - 256 ELSE byte

SetupStage(request) == [type |-> "Setup", request |-> request, ioc |-> FALSE]
DataStage           == [type |-> "Data", request |-> NoRequest, ioc |-> TRUE]
StatusStage(ioc)    == [type |-> "Status", request |-> NoRequest, ioc |-> ioc]
Blank               == [type |-> "none", request |-> NoRequest, ioc |-> FALSE]

(* ring: the TRBs by position; ep0: positions the controller has still to  *)
(* execute, oldest first.                                                  *)
NewPipe == [ring            |-> [i \in Positions |-> Blank],
            write_index     |-> 0,
            ep0             |-> <<>>,
            setup_stage_map |-> EmptyTable(MapSize),
            event_waiters   |-> EmptyTable(WaiterSize)]

TransferEvent(ep, issuer, ok) ==
  [type |-> "Transfer", ep |-> ep, issuer |-> issuer, ok |-> ok]
CommandCompletion ==
  [type |-> "CommandCompletion", ep |-> 0, issuer |-> 0, ok |-> TRUE]

Descriptor(request) ==
  CASE request = "GetDescriptor(Device)"        -> "device"
    [] request = "GetDescriptor(Configuration)" -> "configuration"
    [] OTHER                                    -> "other"

-----------------------------------------------------------------------------
(* The control pipe.                                                       *)

Push(p, trb) ==
  [p EXCEPT !.ring[p.write_index] = trb,
            !.write_index = (p.write_index + 1) % Last,
            !.ep0 = Append(@, p.write_index)]

(* Mutant of ControlIn: the entry is filed under the setup stage.          *)
ControlInFiledUnderSetup(p, request) ==
  LET setup  == p.write_index
      pushed == Push(Push(Push(p, SetupStage(request)), DataStage),
                     StatusStage(FALSE))
  IN  [pushed EXCEPT !.setup_stage_map = Put(@, setup, setup)]

(* Device::ControlIn with a buffer: three stages, an event for the data.   *)
ControlIn(p, request) ==
  LET setup  == p.write_index
      data   == (setup + 1) % Last
      pushed == Push(Push(Push(p, SetupStage(request)), DataStage),
                     StatusStage(FALSE))
  IN  [pushed EXCEPT !.setup_stage_map = Put(@, data, setup)]

(* Device::ControlOut without a buffer: two stages, an event for the status. *)
ControlOut(p, request) ==
  LET setup  == p.write_index
      status == (setup + 1) % Last
      pushed == Push(Push(p, SetupStage(request)), StatusStage(TRUE))
  IN  [pushed EXCEPT !.setup_stage_map = Put(@, status, setup)]

(* HIDBaseDriver::OnEndpointsConfigured's request, with itself as waiter.  *)
SetProtocol(p) ==
  LET noted == [p EXCEPT !.event_waiters = Put(@, "SetProtocol", "hid")]
  IN  ControlOut(noted, "SetProtocol")

(* Device::OnEndpointsConfigured calls the driver once per number.         *)
SetProtocols(p, n) ==
  LET asked[i \in 0..n] == IF i = 0 THEN p ELSE SetProtocol(asked[i - 1])
  IN  asked[n]

-----------------------------------------------------------------------------
(* The driver: what it does with the event at the head of the event ring.  *)

Head0   == Head(er)
Pop     == er' = Tail(er)
Handles(type) == er # <<>> /\ Head0.type = type

(* After a transfer the driver was content with: a device that is          *)
(* initialized now, on a port that waits for that, has its endpoints       *)
(* configured.                                                             *)
ConfigureEndpoints(phase) ==
  IF phase = 4 /\ port_config_phase = "InitializingDevice"
  THEN /\ port_config_phase' = "ConfiguringEndpoints"
       /\ contexts' = EnableEndpoints(contexts, speed, ep_configs)
       /\ command' = TRUE
  ELSE UNCHANGED <<port_config_phase, contexts, command>>

(* OnTransferEventReceived: the failure is reported and that is all.       *)
TransferFailed ==
  /\ Handles("Transfer") /\ ~Head0.ok
  /\ Pop
  /\ UNCHANGED <<driverVars, deviceVars, pipe, polls, command>>

(* HIDKeyboardDriver: the keys (bytes 3 to 8) that are nowhere in the      *)
(* previous buffer, whose first byte is not a key but the modifiers.       *)
KeysPushed(now, before) ==
  InOrder(now, {i \in 3..8 : /\ now[i] # 0
                            /\ \A j \in DOMAIN before : before[j] # now[i]})

(* HIDMouseDriver: the displacements, signed bytes.                        *)
OnDataReceived(now, before) ==
  IF class_driver = "keyboard" THEN KeysPushed(now, before)
  ELSE <<Int8(now[2]), Int8(now[3])>>

ReportArrives == /\ Handles("Transfer") /\ Head0.ok /\ Head0.ep # 0
                 /\ Head0.ep \in class_drivers

(* Mutant of OnInterruptCompleted: the next report is not asked for.       *)
OnInterruptCompletedOnce ==
  /\ ReportArrives
  /\ notified' = OnDataReceived(report_buf, previous_buf)
  /\ previous_buf' = CopyN(report_buf, report_len, previous_buf)
  /\ ConfigureEndpoints(initialize_phase)
  /\ Pop
  /\ UNCHANGED <<initialize_phase, ep_configs, class_drivers, class_driver,
                 hid_phase, ep_interrupt_in, deviceVars, pipe, polls>>

(* Mutant of OnInterruptCompleted: buf_ is copied before it was looked at. *)
OnInterruptCompletedCopyFirst ==
  /\ ReportArrives
  /\ previous_buf' = CopyN(report_buf, report_len, previous_buf)
  /\ notified' = OnDataReceived(report_buf, previous_buf')
  /\ polls' = polls + 1
  /\ ConfigureEndpoints(initialize_phase)
  /\ Pop
  /\ UNCHANGED <<initialize_phase, ep_configs, class_drivers, class_driver,
                 hid_phase, ep_interrupt_in, deviceVars, pipe>>

(* A report: OnDataReceived, the copy to previous_buf_, then InterruptIn   *)
(* for the next one.                                                       *)
OnInterruptCompleted ==
  /\ ReportArrives
  /\ notified' = OnDataReceived(report_buf, previous_buf)
  /\ previous_buf' = CopyN(report_buf, report_len, previous_buf)
  /\ polls' = polls + 1
  /\ ConfigureEndpoints(initialize_phase)
  /\ Pop
  /\ UNCHANGED <<initialize_phase, ep_configs, class_drivers, class_driver,
                 hid_phase, ep_interrupt_in, deviceVars, pipe>>

(* An answer on the control pipe: the request it answers, read back from   *)
(* the ring, and the pipe without the entry that led there.                *)
Answers == /\ Handles("Transfer") /\ Head0.ok /\ Head0.ep = 0
           /\ Contains(pipe.setup_stage_map, Head0.issuer)
Request == pipe.ring[Get(pipe.setup_stage_map, Head0.issuer)].request
Answered ==
  [pipe EXCEPT !.setup_stage_map = Delete(@, Head0.issuer)]

(* The data stage's buffer is buf_; a status stage brings none.            *)
Brings(descriptor) ==
  pipe.ring[Head0.issuer].type = "Data" /\ buf = descriptor
BringsDevice == /\ Request \in {"GetDescriptor(Device)",
                                "GetDescriptor(Configuration)"}
                /\ Brings("device")
BringsConfiguration == /\ Request \in {"GetDescriptor(Device)",
                                       "GetDescriptor(Configuration)"}
                       /\ Brings("configuration")

(* Mutant of InitializePhase1: the phase is left alone.                    *)
InitializePhase1KeepingPhase ==
  /\ Answers /\ initialize_phase = 1 /\ BringsDevice
  /\ pipe' = ControlIn(Answered, "GetDescriptor(Configuration)")
  /\ ConfigureEndpoints(1)
  /\ Pop
  /\ UNCHANGED <<initialize_phase, ep_configs, class_drivers, class_driver, hid_phase,
                 ep_interrupt_in, readVars, deviceVars, polls>>

InitializePhase1 ==
  /\ Answers /\ initialize_phase = 1 /\ BringsDevice
  /\ initialize_phase' = 2
  /\ pipe' = ControlIn(Answered, "GetDescriptor(Configuration)")
  /\ ConfigureEndpoints(2)
  /\ Pop
  /\ UNCHANGED <<ep_configs, class_drivers, class_driver, hid_phase, ep_interrupt_in,
                 readVars, deviceVars, polls>>

(* A device without a supported interface stays in phase 2.                *)
InitializePhase2 ==
  /\ Answers /\ initialize_phase = 2 /\ BringsConfiguration
  /\ \/ /\ SupportedIn(configuration) = {}
        /\ pipe' = Answered
        /\ UNCHANGED <<initialize_phase, ep_configs, class_drivers, class_driver>>
     \/ \E i \in SupportedIn(configuration) :
          /\ i = FirstOf(SupportedIn(configuration))
          /\ class_driver' = configuration[i].driver
          /\ ep_configs' = EndpointsFrom(configuration, i)
          /\ class_drivers' = NumbersOf(ep_configs')
          /\ initialize_phase' = 3
          /\ pipe' = ControlOut(Answered, "SetConfiguration")
  /\ ConfigureEndpoints(initialize_phase')
  /\ Pop
  /\ UNCHANGED <<hid_phase, ep_interrupt_in, readVars, deviceVars, polls>>

(* SetEndpoint for every endpoint in turn: the last one to poll is kept.   *)
LastPolled(eps) ==
  LET found == {i \in DOMAIN eps : Polled(eps[i])}
  IN  IF found = {} THEN ep_interrupt_in
      ELSE eps[CHOOSE i \in found : \A j \in found : j <= i].number

InitializePhase3 ==
  /\ Answers /\ initialize_phase = 3 /\ Request = "SetConfiguration"
  /\ ep_interrupt_in' = LastPolled(ep_configs)
  /\ initialize_phase' = 4
  /\ pipe' = Answered
  /\ ConfigureEndpoints(4)
  /\ Pop
  /\ UNCHANGED <<ep_configs, class_drivers, class_driver, hid_phase, readVars, deviceVars,
                 polls>>

(* Mutant of HIDOnControlCompleted: any answer starts the polling.         *)
HIDOnControlCompletedAlways ==
  /\ Answers /\ initialize_phase = 4 /\ Contains(pipe.event_waiters, Request)
  /\ hid_phase' = 2
  /\ polls' = polls + 1
  /\ ConfigureEndpoints(initialize_phase)
  /\ pipe' = Answered
  /\ Pop
  /\ UNCHANGED <<initialize_phase, ep_configs, class_drivers, class_driver, ep_interrupt_in,
                 readVars, deviceVars>>

(* HIDBaseDriver::OnControlCompleted: the first answer starts the polling, *)
(* those to the further SetProtocol requests are refused (NotImplemented). *)
HIDOnControlCompleted ==
  /\ Answers /\ initialize_phase = 4 /\ Contains(pipe.event_waiters, Request)
  /\ \/ /\ hid_phase = 1
        /\ hid_phase' = 2
        /\ polls' = polls + 1
        /\ ConfigureEndpoints(initialize_phase)
     \/ /\ hid_phase # 1
        /\ UNCHANGED <<hid_phase, polls, port_config_phase, contexts, command>>
  /\ pipe' = Answered
  /\ Pop
  /\ UNCHANGED <<initialize_phase, ep_configs, class_drivers, class_driver, ep_interrupt_in,
                 readVars, deviceVars>>

(* The other exits of OnTransferEventReceived and OnControlCompleted:      *)
(* NoCorrespondingSetupStage, NoWaiter and InvalidPhase.  Only the entry   *)
(* is gone then, and nothing is asked again.                               *)
AnswerRefused ==
  /\ Handles("Transfer") /\ Head0.ok /\ Head0.ep = 0
  /\ Contains(pipe.setup_stage_map, Head0.issuer) =>
       CASE initialize_phase = 1 -> ~BringsDevice
         [] initialize_phase = 2 -> ~BringsConfiguration
         [] initialize_phase = 3 -> Request # "SetConfiguration"
         [] OTHER                -> ~Contains(pipe.event_waiters, Request)
  /\ pipe' = Answered
  /\ Pop
  /\ UNCHANGED <<driverVars, deviceVars, polls, command>>

(* xhci.cpp CompleteConfiguration, on the command's completion: the phase, *)
(* then OnEndpointsConfigured.                                             *)
CompleteConfiguration ==
  /\ Handles("CommandCompletion")
  /\ port_config_phase' = "Configured"
  /\ hid_phase' = IF class_drivers = {} THEN hid_phase ELSE 1
  /\ pipe' = SetProtocols(pipe, Cardinality(class_drivers))
  /\ Pop
  /\ UNCHANGED <<initialize_phase, contexts, ep_configs, class_drivers, class_driver, ep_interrupt_in,
                 readVars, deviceVars, polls, command>>

Driver == \/ TransferFailed \/ OnInterruptCompleted
          \/ InitializePhase1 \/ InitializePhase2 \/ InitializePhase3
          \/ HIDOnControlCompleted \/ AnswerRefused
          \/ CompleteConfiguration

-----------------------------------------------------------------------------
(* The device and the controller.                                          *)

(* The controller executes the oldest TRB of the control pipe as it finds  *)
(* it in the ring.  A data stage brings the descriptor asked for; a faulty *)
(* device may bring something else.                                        *)
Current == pipe.ring[Head(pipe.ep0)]

Execute ==
  /\ pipe.ep0 # <<>> /\ 0 \notin halted
  /\ received' = IF Current.type = "Setup" THEN Current.request ELSE received
  /\ IF Current.type = "Data"
     THEN \/ buf' = Descriptor(received)
          \/ Faulty /\ buf' = "other"
     ELSE UNCHANGED buf
  /\ er' = IF Current.ioc
           THEN Append(er, TransferEvent(0, Head(pipe.ep0), TRUE)) ELSE er
  /\ pipe' = [pipe EXCEPT !.ep0 = Tail(@)]
  /\ UNCHANGED <<driverVars, configuration, speed, report_buf, report_len, polls, halted, command>>

(* Any stage may fail: the endpoint halts and stays so, because the driver *)
(* never resets it.                                                        *)
ExecuteFails ==
  /\ Faulty /\ pipe.ep0 # <<>> /\ 0 \notin halted
  /\ halted' = halted \cup {0}
  /\ er' = Append(er, TransferEvent(0, Head(pipe.ep0), FALSE))
  /\ pipe' = [pipe EXCEPT !.ep0 = Tail(@)]
  /\ UNCHANGED <<driverVars, configuration, speed, received, buf, report_buf, report_len, polls,
                 command>>

(* The device has a report and the controller a transfer to put it in; a   *)
(* report may be shorter than the buffer (a short packet, code 13).        *)
Report ==
  /\ polls > 0 /\ ep_interrupt_in \notin halted
  /\ \E r \in Reports(class_driver) :
        /\ report_buf' = CopyN(r, Len(r), report_buf)
        /\ report_len' = Len(r)
  /\ polls' = polls - 1
  /\ er' = Append(er, TransferEvent(ep_interrupt_in, 0, TRUE))
  /\ UNCHANGED <<driverVars, configuration, speed, received, buf, pipe, halted, command>>

ReportFails ==
  /\ Faulty /\ polls > 0 /\ ep_interrupt_in \notin halted
  /\ halted' = halted \cup {ep_interrupt_in}
  /\ polls' = polls - 1
  /\ er' = Append(er, TransferEvent(ep_interrupt_in, 0, FALSE))
  /\ UNCHANGED <<driverVars, configuration, speed, received, buf, report_buf, report_len, pipe,
                 command>>

ExecuteCommand ==
  /\ command
  /\ command' = FALSE
  /\ er' = Append(er, CommandCompletion)
  /\ UNCHANGED <<driverVars, deviceVars, pipe, polls>>

Environment == Execute \/ ExecuteFails \/ Report \/ ReportFails \/ ExecuteCommand

-----------------------------------------------------------------------------
(* xhci.cpp InitializeDevice has set the port's phase and called           *)
(* StartInitialize, which asks for the device descriptor.                  *)
Init ==
  /\ configuration \in Configurations /\ speed \in Speeds
  /\ initialize_phase = 1
  /\ pipe = ControlIn(NewPipe, "GetDescriptor(Device)")
  /\ port_config_phase = "InitializingDevice"
  /\ ep_configs = <<>> /\ class_drivers = {} /\ contexts = [d \in {1} |-> EP0Context]
  /\ hid_phase = 0 /\ ep_interrupt_in = 0 /\ class_driver = "none"
  /\ previous_buf = Zeros /\ notified = <<>>
  /\ received = NoRequest /\ buf = "other"
  /\ report_buf = Zeros /\ report_len = 0
  /\ polls = 0 /\ halted = {} /\ command = FALSE /\ er = <<>>

Next == Driver \/ Environment

Spec == Init /\ [][Next]_vars

-----------------------------------------------------------------------------
(* Properties.                                                             *)

(* Control requests on their way, by the position their answer will name:  *)
(* answers not yet handled, then stages not yet executed.                  *)
Positions0(s) == {s[i] : i \in DOMAIN s}
InEvents == {er[i].issuer : i \in {j \in DOMAIN er :
               er[j].type = "Transfer" /\ er[j].ep = 0 /\ er[j].ok}}
InPipe   == {pos \in Positions0(pipe.ep0) : pipe.ring[pos].ioc}
OnTheWay == InEvents \cup InPipe
RequestAt(pos) == pipe.ring[Get(pipe.setup_stage_map, pos)].request

(* Reports read by the controller and not by the class driver.             *)
Unread == {i \in DOMAIN er : er[i].type = "Transfer" /\ er[i].ep # 0 /\ er[i].ok}

(* A setup stage outlives the wait for its answer: no position is queued   *)
(* twice or reused before its answer is handled, every answer that is      *)
(* still to come finds its entry in setup_stage_map_, and the entry leads  *)
(* to a setup stage (the lookup of OnTransferEventReceived, which reads    *)
(* the ring long after it was written).                                    *)
SetupStageKept ==
  /\ Cardinality(Positions0(pipe.ep0)) = Len(pipe.ep0)
  /\ InEvents \cap Positions0(pipe.ep0) = {}
  /\ \A pos \in OnTheWay :
       /\ pipe.ring[pos].type \in {"Data", "Status"}
       /\ Contains(pipe.setup_stage_map, pos)
       /\ pipe.ring[Get(pipe.setup_stage_map, pos)].type = "Setup"

(* What is being asked of the device is what its phase waits for, so an    *)
(* answer never meets InvalidPhase: up to phase 3 one request at a time,   *)
(* none while the endpoints are being configured, then only SetProtocol,   *)
(* which has its waiter registered.                                        *)
RequestMatchesPhase ==
  /\ \A pos \in OnTheWay : RequestAt(pos) =
       CASE initialize_phase = 1 -> "GetDescriptor(Device)"
         [] initialize_phase = 2 -> "GetDescriptor(Configuration)"
         [] initialize_phase = 3 -> "SetConfiguration"
         [] OTHER                -> "SetProtocol"
  /\ initialize_phase < 4 => Cardinality(OnTheWay) <= 1
  /\ initialize_phase = 4 =>
       /\ port_config_phase = "ConfiguringEndpoints" => OnTheWay = {}
       /\ port_config_phase = "Configured" =>
            Contains(pipe.event_waiters, "SetProtocol")

(* The endpoints the driver configures and polls are those of its own      *)
(* interface, none of the function that follows in the same configuration  *)
(* descriptor, and the one it polls is one to read reports from, however   *)
(* many endpoint numbers were set on it.                                   *)
Supported == SupportedIn(configuration)
OwnEndpoints ==
  /\ initialize_phase >= 3 =>
       ep_configs = Own(configuration, FirstOf(Supported))
  /\ initialize_phase = 4 =>
       \E k \in DOMAIN ep_configs : /\ Polled(ep_configs[k])
                                    /\ ep_configs[k].number = ep_interrupt_in

(* The controller polls an interrupt endpoint at least as often as its     *)
(* descriptor asks and not twice as often, at every speed, from the        *)
(* moment the Configure Endpoint command is given (xhci.cpp:439-467); no   *)
(* transfer is queued on an endpoint it has no context for.  What the      *)
(* descriptor asks is bInterval as ConfigureEndpoints takes it, counted in *)
(* milliseconds at low and full speed, as USB has it.  The comment at      *)
(* endpoint.hpp:62 counts it in powers of two of 125 us whatever the       *)
(* speed, and is right only at the others: at full speed 1 is 1 ms.        *)
Period(e) == IF speed \in SlowSpeeds THEN 8 * e.interval ELSE 2^(e.interval - 1)
ServedAsAsked ==
  /\ port_config_phase # "InitializingDevice" =>
       \A k \in DOMAIN ep_configs :
          LET e == ep_configs[k]
              d == DeviceContextIndex(e)
          IN  /\ d \in DOMAIN contexts
              /\ e.type = "interrupt" =>
                   /\ contexts[d].ep_type = ep_type(e)
                   /\ 2^contexts[d].interval <= Period(e)
                   /\ Period(e) < 2 * 2^contexts[d].interval
  /\ polls > 0 => 2 * ep_interrupt_in + 1 \in DOMAIN contexts

(* Reports go through the single buffer of the class driver like through a *)
(* queue of one place: each is read once, in order, and none is            *)
(* overwritten before it was read.  A short report leaves the bytes behind *)
(* it as they were, in both buffers.                                       *)
Stream == INSTANCE Fifo WITH
            Data <- Buffers, Nothing <- Zeros, Capacity <- 1,
            queue <- [i \in 1..Cardinality(Unread) |-> report_buf], out <- previous_buf
ReportsInOrder == Stream!Spec

(* A key is notified when it goes down and at no later report that still   *)
(* has it, however often the device repeats itself.  A key that went down  *)
(* is missed only if the report before had its code as modifiers: the      *)
(* driver looks for the key in all of the previous buffer.                 *)
Keys(b) == {b[i] : i \in 3..8} \ {0}
KeyEdges ==
  [][class_driver = "keyboard" =>
       {notified'[i] : i \in DOMAIN notified'}
         = (Keys(previous_buf') \ Keys(previous_buf)) \ {previous_buf[1]}
    ]_readVars

(* Whenever nothing is under way, no event, no control transfer and no     *)
(* command, the device is being polled, unless something went wrong: a     *)
(* transfer failed, a descriptor was not what was asked for, or no class   *)
(* driver supports the device.  So no step of the conversation forgets to  *)
(* start the next one, however answers and reports come in between.        *)
UnderWay == er # <<>> \/ pipe.ep0 # <<>> \/ command
KeepsPolling ==
  \/ UnderWay \/ polls > 0
  \/ halted # {} \/ buf = "other" \/ Supported = {}
=============================================================================
