------------------------------- MODULE UsbBus -------------------------------
(***************************************************************************)
(* What the root hub owes the USB bus, whoever drives it.  A device that   *)
(* has been reset answers at address 0 (USB "Default" state) until it is   *)
(* given an address of its own, so a port may be reset only while no other *)
(* port holds a device in that state: an address request would otherwise   *)
(* reach two devices.  xhci.cpp:32-36 says the same of root hub ports: from *)
(* reset to address assignment nothing else may be interleaved.            *)
(*                                                                         *)
(* PortConfig implements this specification (see PortConfig!Bus).          *)
(***************************************************************************)
CONSTANTS
  Ports       \* the root hub ports

VARIABLES
  device      \* device[p]: USB device state of what is plugged into port p

DeviceStates == {"detached", "attached", "default", "addressed"}

TypeOK == device \in [Ports -> DeviceStates]

Init == device = [p \in Ports |-> "detached"]

Plug(p) ==
  /\ device[p] = "detached"
  /\ device' = [device EXCEPT ![p] = "attached"]

Unplug(p) ==
  /\ device[p] # "detached"
  /\ device' = [device EXCEPT ![p] = "detached"]

(* A reset finishes only for a device that never had an address, and only  *)
(* while nobody else answers at address 0.                                 *)
Reset(p) ==
  /\ device[p] = "attached"
  /\ \A q \in Ports : device[q] # "default"
  /\ device' = [device EXCEPT ![p] = "default"]

SetAddress(p) ==
  /\ device[p] = "default"
  /\ device' = [device EXCEPT ![p] = "addressed"]

Next == \E p \in Ports : Plug(p) \/ Unplug(p) \/ Reset(p) \/ SetAddress(p)

Spec == Init /\ [][Next]_device

(* Never two devices at address 0: what the guard of Reset buys.           *)
OneDefaultAddress ==
  \A p, q \in Ports : device[p] = "default" /\ device[q] = "default" => p = q
=============================================================================
