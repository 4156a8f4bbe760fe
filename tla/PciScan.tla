------------------------------- MODULE PciScan -------------------------------
(***************************************************************************)
(* The PCI bus scan of kernel/pci.cpp, the choice of the host controller   *)
(* in KernelMain and how it is taken over from the EHCI controllers        *)
(* (kernel/main.cpp:49-69, 121-164).  The scan is a recursion over         *)
(* configuration space (ScanBus, ScanDevice, ScanFunction, and ScanBus     *)
(* again behind every bridge) that fills a table of fixed size; it is      *)
(* written here as the stack of the buses being scanned, one step for each *)
(* configuration header looked at.                                         *)
(***************************************************************************)
EXTENDS Integers, Sequences, FiniteSets

CONSTANTS
  TableSize,   \* pci::devices holds 32
  Devices,     \* devices on a bus, 32
  Functions,   \* functions of a device, 8
  Topologies,  \* the machines to scan: see TopologyAssumption
  Bars         \* what the controller's BAR 0 and 1 may hold

ASSUME SizeAssumption == /\ TableSize \in Nat \ {0}
                         /\ Devices \in 1..32 /\ Functions \in 2..8

Buses == 0..255
At(b, d, f) == [bus |-> b, device |-> d, function |-> f]
Location == [bus : Buses, device : 0..(Devices - 1), function : 0..(Functions - 1)]

(* What configuration space answers: where a vendor ID is valid, which     *)
(* functions 0 carry the multi-function bit, the secondary bus behind each *)
(* bridge, the xHCI and EHCI controllers and what of it is Intel's.        *)
ASSUME TopologyAssumption ==
  \A t \in Topologies :
     /\ t.present \subseteq Location
     /\ t.multi \cup t.bridges \cup t.xhc \cup t.ehci \cup t.intel
          \subseteq t.present
     /\ t.xhc \cap t.ehci = {}
     /\ \A x \in t.bridges : t.secondary[x] \in Buses

VARIABLES
  topology,   \* the machine; it does not change
  devices,    \* pci::devices, num_device long
  stack,      \* the ScanBus calls: position each has got to, innermost last
  host,       \* ScanAllBus: 0, or the loop over host bridge functions
  pc,         \* "scan", "choose", "found", "ready", "halt"
  full,       \* did an AddDevice fail?
  xhc_dev,    \* KernelMain's choice
  xhc_mmio_base,  \* upper and lower half
  routing     \* for each controller, its registers USB3_PSSEN and XUSB2PR

taken == <<xhc_mmio_base, routing>>
vars == <<topology, devices, stack, host, pc, full, xhc_dev, taken>>

Has(b, d, f)  == At(b, d, f) \in topology.present
(* An absent function reads as all ones, the multi-function bit included.  *)
IsSingleFunctionDevice(b, d) ==
  Has(b, d, 0) /\ At(b, d, 0) \notin topology.multi

-----------------------------------------------------------------------------
(* The scan.                                                               *)

Top      == stack[Len(stack)]
Under    == SubSeq(stack, 1, Len(stack) - 1)
NextDevice(at)   == At(at.bus, at.device + 1, 0)
NextFunction(at) == IF at.function + 1 = Functions THEN NextDevice(at)
                    ELSE At(at.bus, at.device, at.function + 1)

(* Mutant of After: the other functions of a device are not looked at.     *)
AfterFirstFunction(at) == NextDevice(at)

(* Where ScanDevice goes on after a function: function 0 decides whether   *)
(* the others are looked at.                                               *)
After(at) ==
  IF ~Has(at.bus, at.device, 0) \/ IsSingleFunctionDevice(at.bus, at.device)
  THEN NextDevice(at)
  ELSE NextFunction(at)

Scanning == pc = "scan" /\ stack # <<>>
AtEnd    == Top.device = Devices

(* ReadVendorId gives 0xffff: nothing there.                               *)
Skip ==
  /\ Scanning /\ ~AtEnd
  /\ Top \notin topology.present
  /\ stack' = Append(Under, After(Top))
  /\ UNCHANGED <<topology, devices, host, pc, full, xhc_dev, taken>>

(* A function is there.  AddDevice fails on a full table, and the error    *)
(* ends the whole scan; behind a bridge the secondary bus is scanned first. *)
ScanFunction ==
  /\ Scanning /\ ~AtEnd
  /\ Top \in topology.present
  /\ \/ /\ Len(devices) = TableSize
        /\ full' = TRUE
        /\ pc' = "choose"
        /\ UNCHANGED <<devices, stack>>
     \/ /\ Len(devices) < TableSize
        /\ devices' = Append(devices, Top)
        /\ stack' = IF Top \in topology.bridges
                    THEN Under \o <<After(Top), At(topology.secondary[Top], 0, 0)>>
                    ELSE Append(Under, After(Top))
        /\ UNCHANGED <<pc, full>>
  /\ UNCHANGED <<topology, host, xhc_dev, taken>>

(* All devices of a bus were looked at: ScanBus returns.                   *)
Return ==
  /\ Scanning /\ AtEnd
  /\ stack' = Under
  /\ UNCHANGED <<topology, devices, host, pc, full, xhc_dev, taken>>

(* Mutant of NextHostBridge: function++ is missing.                        *)
NextHostBridgeAgain ==
  /\ pc = "scan" /\ stack = <<>> /\ host \in 1..(Functions - 1)
  /\ stack' = IF Has(0, 0, host) THEN <<At(host, 0, 0)>> ELSE <<>>
  /\ UNCHANGED <<topology, devices, host, pc, full, xhc_dev, taken>>

(* The host bridge has several functions: function n of it stands for bus  *)
(* n, from 1 on.                                                           *)
NextHostBridge ==
  /\ pc = "scan" /\ stack = <<>> /\ host \in 1..(Functions - 1)
  /\ stack' = IF Has(0, 0, host) THEN <<At(host, 0, 0)>> ELSE <<>>
  /\ host' = host + 1
  /\ UNCHANGED <<topology, devices, pc, full, xhc_dev, taken>>

ScanEnds ==
  /\ pc = "scan" /\ stack = <<>> /\ host \notin 1..(Functions - 1)
  /\ pc' = "choose"
  /\ UNCHANGED <<topology, devices, stack, host, full, xhc_dev, taken>>

-----------------------------------------------------------------------------
(* KernelMain takes the first Intel xHCI controller of the table, else the *)
(* last of another make; without any it halts.                             *)
Xhcs   == {i \in DOMAIN devices : devices[i] \in topology.xhc}
Intels == {i \in Xhcs : devices[i] \in topology.intel}

FindXhc ==
  /\ pc = "choose"
  /\ \/ /\ Xhcs = {}
        /\ pc' = "halt"
        /\ UNCHANGED xhc_dev
     \/ \E i \in Xhcs :
          /\ IF Intels = {} THEN \A j \in Xhcs : j <= i
             ELSE i \in Intels /\ \A j \in Intels : i <= j
          /\ xhc_dev' = i
          /\ pc' = "found"
  /\ UNCHANGED <<topology, devices, stack, host, full, taken>>

-----------------------------------------------------------------------------
(* KernelMain takes the controller over.                                   *)

(* ReadBar(0): the next BAR is the upper half if bit 2 says so.            *)
ReadBar(bar) == IF (bar.lower \div 4) % 2 = 0 THEN [bar EXCEPT !.upper = 0]
                ELSE bar

(* SwitchEhci2Xhci: each register takes what its mask says can be routed.  *)
Unrouted == [USB3_PSSEN |-> "reset", XUSB2PR |-> "reset"]
Routed   == [USB3_PSSEN |-> "USB3PRM", XUSB2PR |-> "XUSB2PRM"]
IntelEhcExists == \E i \in DOMAIN devices :
                     devices[i] \in topology.ehci \cap topology.intel

(* Mutant of TakeOver: the controller is not asked whose it is.            *)
TakeOverAnyMake ==
  /\ pc = "found"
  /\ \E bar \in Bars : xhc_mmio_base' =
       [ReadBar(bar) EXCEPT !.lower = @ - (@ % 16)]
  /\ routing' = IF IntelEhcExists
                THEN [routing EXCEPT ![devices[xhc_dev]] = Routed] ELSE routing
  /\ pc' = "ready"
  /\ UNCHANGED <<topology, devices, stack, host, full, xhc_dev>>

(* The flags in the BAR's last four bits are no address; an Intel          *)
(* controller has the ports of Intel's EHCI controllers routed to it.      *)
TakeOver ==
  /\ pc = "found"
  /\ \E bar \in Bars : xhc_mmio_base' =
       [ReadBar(bar) EXCEPT !.lower = @ - (@ % 16)]
  /\ routing' = IF devices[xhc_dev] \in topology.intel /\ IntelEhcExists
                THEN [routing EXCEPT ![devices[xhc_dev]] = Routed] ELSE routing
  /\ pc' = "ready"
  /\ UNCHANGED <<topology, devices, stack, host, full, xhc_dev>>

-----------------------------------------------------------------------------
(* ScanAllBus looks at the host bridge, 0.0.0.                             *)
Init ==
  /\ topology \in Topologies
  /\ devices = <<>>
  /\ IF IsSingleFunctionDevice(0, 0) THEN stack = <<At(0, 0, 0)>> /\ host = 0
     ELSE stack = <<>> /\ host = 1
  /\ pc = "scan" /\ full = FALSE /\ xhc_dev = 0
  /\ xhc_mmio_base = [upper |-> 0, lower |-> 0]
  /\ routing = [x \in topology.xhc |-> Unrouted]

Scan == Skip \/ ScanFunction \/ Return \/ NextHostBridge \/ ScanEnds
Next == Scan \/ FindXhc \/ TakeOver

Spec == Init /\ [][Next]_vars /\ WF_vars(Next)

-----------------------------------------------------------------------------
(* Properties.                                                             *)

(* The buses ScanAllBus starts from (pci.cpp:160-177).                     *)
Roots == IF IsSingleFunctionDevice(0, 0) THEN {0}
         ELSE {n \in 1..(Functions - 1) : Has(0, 0, n)}

(* The functions ScanDevice ought to find, and the buses behind them.      *)
Visible(at) ==
  /\ Has(at.bus, at.device, 0)
  /\ at.function = 0 \/ ~IsSingleFunctionDevice(at.bus, at.device)
Behind(buses) ==
  {topology.secondary[b] : b \in {x \in topology.bridges :
                                    x.bus \in buses /\ Visible(x)}}

(* What bridges lead to from some buses: the least set of buses that holds *)
(* them and what is behind its own bridges.                                *)
ReachableBuses(roots) ==
  LET known == roots \cup {topology.secondary[b] : b \in topology.bridges}
  IN  {b \in known : \A S \in SUBSET known :
                        roots \subseteq S /\ Behind(S) \subseteq S => b \in S}
Reachable(roots) ==
  {at \in topology.present : at.bus \in ReachableBuses(roots) /\ Visible(at)}
Found == {devices[i] : i \in DOMAIN devices}

(* A bridge that firmware left unconfigured, or configured in a loop, has  *)
(* a bus that something else leads to as well, or where the scan starts.   *)
IsTree == \A x \in topology.bridges :
            /\ topology.secondary[x] \notin Roots
            /\ \A y \in topology.bridges \ {x} :
                 topology.secondary[y] # topology.secondary[x]

(* What the scan has found: never more than the table holds; nothing       *)
(* twice, on a machine whose bridges form a tree; and, if the table was    *)
(* large enough, exactly what bridges lead to from the buses it starts     *)
(* from, however buses are nested or shared.                               *)
ScanIsComplete ==
  /\ Len(devices) <= TableSize
  /\ IsTree => \A i, j \in DOMAIN devices : devices[i] = devices[j] => i = j
  /\ pc # "scan" /\ ~full => Found = Reachable(Roots)

(* Devices are searched for from bus 0 on, as pci.hpp:77 has it, whatever  *)
(* the host bridge is.                                                     *)
ScansFromBusZero == pc # "scan" /\ ~full => Reachable({0}) \subseteq Found

(* The controller that is started is one of Intel's if the table has one   *)
(* (main.cpp:132), and every USB port it can serve is its own: on a        *)
(* machine with Intel's EHCI controllers it has had them routed, wherever  *)
(* in the bus tree the EHCI was found, unless the table was full.  The     *)
(* registers, which only Intel's controllers have, were written in no      *)
(* other.                                                                  *)
PortsRouted ==
  /\ pc = "ready" =>
       \/ devices[xhc_dev] \in topology.xhc \cap topology.intel
       \/ /\ devices[xhc_dev] \in topology.xhc
          /\ Found \cap topology.xhc \cap topology.intel = {}
  /\ pc = "ready" /\ ~full /\ devices[xhc_dev] \in topology.intel
     /\ Reachable(Roots) \cap topology.ehci \cap topology.intel # {}
       => routing[devices[xhc_dev]] = Routed
  /\ \A x \in topology.xhc :
       routing[x] = Routed => /\ x \in topology.intel
                              /\ pc = "ready" /\ devices[xhc_dev] = x

(* The recursion ends, even where bridges lead back to a bus that is being *)
(* scanned: each round takes a table entry, and a full table ends it.      *)
ScanTerminates == <>(pc \in {"ready", "halt"})
=============================================================================
