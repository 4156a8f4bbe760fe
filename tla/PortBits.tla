------------------------------- MODULE PortBits -------------------------------
(***************************************************************************)
(* A root hub port as the rest of the driver thinks of it: a reset starts, *)
(* or one change bit is cleared, in one step and with no effect on any     *)
(* other bit, while the hub goes on changing the port.  PortConfig is      *)
(* written in these terms (PortReset, EnableSlot); PortRegister implements *)
(* them with a read and a write of PORTSC.                                 *)
(***************************************************************************)
EXTENDS Naturals

CONSTANTS
  OtherChanges,   \* change bits the driver does not know of
  LinkStates      \* contents of port_link_state, sets of bits 5..8

VARIABLES
  bits            \* the bits of PORTSC that are 1, by number

CurrentConnectStatus == 0
PortEnabledDisabled  == 1
PortReset            == 4
PortLinkState        == 5..8
PortPower            == 9
ConnectStatusChange  == 17
PortResetChange      == 21
PortLinkStateChange  == 22

Init == \E powered \in LinkStates : bits = powered \cup {PortPower}

(* The driver.                                                             *)
Reset      == bits' = (bits \ {PortEnabledDisabled, ConnectStatusChange})
                      \cup {PortReset}
Clear(bit) == bits' = bits \ {bit}

(* The hub.  A device that goes during its reset ends it without a port    *)
(* enabled.                                                                *)
Connect ==
  /\ CurrentConnectStatus \notin bits
  /\ bits' = bits \cup {CurrentConnectStatus, ConnectStatusChange}

Disconnect ==
  /\ CurrentConnectStatus \in bits
  /\ bits' = (bits \ {CurrentConnectStatus, PortEnabledDisabled})
             \cup {ConnectStatusChange}

ResetDone ==
  /\ PortReset \in bits
  /\ bits' = (bits \ {PortReset}) \cup {PortResetChange}
             \cup {b \in {PortEnabledDisabled} : CurrentConnectStatus \in bits}

LinkChange ==
  \E link \in LinkStates :
     bits' = (bits \ PortLinkState) \cup link \cup {PortLinkStateChange}

OtherChange == \E bit \in OtherChanges : bits' = bits \cup {bit}

Hub    == Connect \/ Disconnect \/ ResetDone \/ LinkChange \/ OtherChange
Driver == Reset \/ Clear(ConnectStatusChange) \/ Clear(PortResetChange)

Next == Hub \/ Driver
Spec == Init /\ [][Next]_bits
=============================================================================
