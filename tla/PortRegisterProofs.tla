------------------------- MODULE PortRegisterProofs -------------------------
(***************************************************************************)
(* Proof that reading PORTSC, masking it and writing it back is as good as *)
(* one step on the bit it is about, whatever change bits the hub sets and  *)
(* whatever states its link takes meanwhile.  The driver's copy may be old *)
(* in every bit but those that a write keeps: those no hub changes, and    *)
(* the masks let no other bit through.                                     *)
(***************************************************************************)
EXTENDS PortRegister, TLAPS

(* Bits a port can have set: the write strobe reads as 0.                  *)
Known == Kept \cup ByStrobe \cup ClearedBy1 \cup {PR} \cup ReadOnly

(* What is about to be written: the bits named, the bits a write keeps as  *)
(* they are now, and of the link state whatever was read.                  *)
CopyFor(named) ==
  /\ copy \cap Kept = portsc \cap Kept
  /\ copy \subseteq Kept \cup ByStrobe \cup named
  /\ named \subseteq copy

RegisterInv ==
  /\ portsc \subseteq Known
  /\ Port!PortPower \in portsc
  /\ step \in {"idle", "reset", "clear", "wait"}
  /\ step = "reset" => CopyFor({PR, CSC})
  /\ step = "clear" => CopyFor({CSC}) \/ CopyFor({PRC})

USE DEF PR, CSC, PRC, PED, PortLinkStateWriteStrobe,
        Port!PortReset, Port!ConnectStatusChange, Port!PortResetChange,
        Port!PortEnabledDisabled, Port!PortLinkState, Port!PortPower,
        Port!CurrentConnectStatus, Port!PortLinkStateChange

(* The driver holds no copy of the register at first.                      *)
LEMMA RegisterStarts == Init => RegisterInv
BY BitsAssumption DEF Init, Port!Init, RegisterInv, Known, Kept, ByStrobe, ClearedBy1, ReadOnly

(* The hub leaves alone what a write keeps.                                *)
LEMMA HubKeeps ==
  ASSUME portsc \subseteq Known, Port!Hub
  PROVE  portsc' \subseteq Known /\ portsc' \cap Kept = portsc \cap Kept
<1> USE DEF Known, Kept, ByStrobe, ClearedBy1, ReadOnly
<1>1. CASE Port!Connect
  BY <1>1 DEF Port!Connect
<1>2. CASE Port!Disconnect
  BY <1>2 DEF Port!Disconnect
<1>3. CASE Port!ResetDone
  <2>1. portsc' \subseteq (portsc \cup {PRC, PED}) /\ portsc \subseteq portsc' \cup {PR}
    BY <1>3 DEF Port!ResetDone
  <2> QED
    BY <2>1
<1>4. CASE Port!LinkChange
  BY <1>4, BitsAssumption DEF Port!LinkChange
<1>5. CASE Port!OtherChange
  BY <1>5, BitsAssumption DEF Port!OtherChange
<1> QED
  BY <1>1, <1>2, <1>3, <1>4, <1>5 DEF Port!Hub

(* The write of Reset: the hub's bits come through as they are now.        *)
LEMMA WritesReset ==
  ASSUME portsc \subseteq Known, Port!PortPower \in portsc, CopyFor({PR, CSC}), Write(copy)
  PROVE  portsc' = (portsc \ {PED, CSC}) \cup {PR}
<1> USE DEF Known, Kept, ByStrobe, ClearedBy1, ReadOnly
<1>1. 16 \notin copy /\ 9 \in copy /\ 4 \in copy /\ 17 \in copy /\ 1 \notin copy
  BY DEF CopyFor
<1>2. \A b \in 18..23 : b \notin copy
  BY DEF CopyFor
<1>3. portsc' = ((copy \cap Kept) \cup (portsc \cap ByStrobe)
                  \cup ((portsc \cap ClearedBy1) \ copy)
                  \cup ((portsc \cup copy) \cap {PR}) \cup (portsc \cap ReadOnly)) \ {PED}
  BY <1>1 DEF Write
<1>4. copy \cap Kept = portsc \cap Kept
  BY DEF CopyFor
<1>5. ASSUME NEW b \in Known
      PROVE  b \in portsc' <=> b \in (portsc \ {PED, CSC}) \cup {PR}
  <2>1. CASE b \in Kept
    BY <1>3, <1>4, <2>1
  <2>2. CASE b \in ByStrobe
    BY <1>3, <2>2
  <2>3. CASE b \in ClearedBy1
    BY <1>1, <1>2, <1>3, <2>3
  <2>4. CASE b = PR
    BY <1>1, <1>3, <2>4
  <2>5. CASE b \in ReadOnly
    BY <1>3, <2>5
  <2> QED
    BY <2>1, <2>2, <2>3, <2>4, <2>5
<1>6. portsc' \subseteq Known
  BY <1>3, <1>4
<1> QED
  BY <1>5, <1>6

(* The write of a status bit clears this one only.                         *)
LEMMA WritesClear ==
  ASSUME portsc \subseteq Known, Port!PortPower \in portsc,
         NEW bit \in {CSC, PRC}, CopyFor({bit}), Write(copy)
  PROVE  portsc' = portsc \ {bit}
<1> USE DEF Known, Kept, ByStrobe, ClearedBy1, ReadOnly
<1>1. 16 \notin copy /\ 9 \in copy /\ 4 \notin copy /\ 1 \notin copy /\ bit \in copy
  BY DEF CopyFor
<1>2. \A b \in 17..23 : b # bit => b \notin copy
  BY DEF CopyFor
<1>3. portsc' = (copy \cap Kept) \cup (portsc \cap ByStrobe)
                  \cup ((portsc \cap ClearedBy1) \ copy)
                  \cup ((portsc \cup copy) \cap {PR}) \cup (portsc \cap ReadOnly)
  BY <1>1 DEF Write
<1>4. copy \cap Kept = portsc \cap Kept
  BY DEF CopyFor
<1>5. ASSUME NEW b \in Known
      PROVE  b \in portsc' <=> b \in portsc \ {bit}
  <2>1. CASE b \in Kept
    BY <1>3, <1>4, <2>1
  <2>2. CASE b \in ByStrobe
    BY <1>3, <2>2
  <2>3. CASE b \in ClearedBy1
    BY <1>1, <1>2, <1>3, <2>3
  <2>4. CASE b = PR
    BY <1>1, <1>3, <2>4
  <2>5. CASE b \in ReadOnly
    BY <1>3, <2>5
  <2> QED
    BY <2>1, <2>2, <2>3, <2>4, <2>5
<1>6. portsc' \subseteq Known
  BY <1>3, <1>4
<1> QED
  BY <1>5, <1>6

(* Every step keeps the invariant and is a step of PortBits or a stutter   *)
(* (port.cpp:31-38).                                                       *)
LEMMA RegisterSteps ==
  ASSUME RegisterInv, [Next]_vars
  PROVE  RegisterInv' /\ [Port!Next]_portsc
<1>1. CASE BeginReset
  <2>1. UNCHANGED portsc /\ step' = "reset" /\ CopyFor({PR, CSC})'
    BY <1>1 DEF RegisterInv, BeginReset, ReadMasked, ResetMask, CopyFor, Kept, ByStrobe
  <2> QED
    BY <2>1 DEF RegisterInv
<1>2. CASE BeginClear
  <2>1. PICK bit \in {CSC, PRC} : ReadMasked(ClearMask, {bit})
    BY <1>2 DEF BeginClear
  <2>2. UNCHANGED portsc /\ step' = "clear" /\ CopyFor({bit})'
    BY <2>1 DEF RegisterInv, ReadMasked, ClearMask, ResetMask, CopyFor, Known, Kept,
                ByStrobe, ClearedBy1, ReadOnly
  <2> QED
    BY <2>2 DEF RegisterInv
<1>3. CASE WriteBack
  <2>1. CASE step = "reset"
    <3>1. portsc' = (portsc \ {PED, CSC}) \cup {PR}
      BY <1>3, <2>1, WritesReset DEF RegisterInv, WriteBack
    <3>2. step' = "wait"
      BY <1>3, <2>1 DEF WriteBack
    <3>3. portsc' \subseteq Known /\ Port!PortPower \in portsc'
      BY <3>1 DEF RegisterInv, Known
    <3> QED
      BY <3>1, <3>2, <3>3 DEF RegisterInv, Port!Next, Port!Driver, Port!Reset
  <2>2. CASE step = "clear"
    <3>1. PICK bit \in {CSC, PRC} : CopyFor({bit})
      BY <2>2 DEF RegisterInv
    <3>2. portsc' = portsc \ {bit}
      BY <1>3, <3>1, WritesClear DEF RegisterInv, WriteBack
    <3>3. step' = "idle"
      BY <1>3, <2>2 DEF WriteBack
    <3>4. portsc' \subseteq Known /\ Port!PortPower \in portsc'
      BY <3>2 DEF RegisterInv
    <3> QED
      BY <3>2, <3>3, <3>4 DEF RegisterInv, Port!Next, Port!Driver, Port!Clear
  <2> QED
    BY <1>3, <2>1, <2>2 DEF WriteBack
<1>4. CASE ResetWaits
  BY <1>4 DEF RegisterInv, ResetWaits
<1>5. CASE Hub
  <2>1. portsc' \subseteq Known /\ portsc' \cap Kept = portsc \cap Kept
    BY <1>5, HubKeeps DEF RegisterInv, Hub
  <2>2. Port!PortPower \in portsc'
    BY <2>1 DEF RegisterInv, Kept
  <2>3. UNCHANGED <<step, copy>>
    BY <1>5 DEF Hub
  <2>4. \A named : CopyFor(named) => CopyFor(named)'
    BY <2>1, <2>3 DEF CopyFor
  <2>5. RegisterInv'
    BY <2>1, <2>2, <2>3, <2>4 DEF RegisterInv
  <2> QED
    BY <1>5, <2>5 DEF Hub, Port!Next
<1>6. CASE UNCHANGED vars
  BY <1>6 DEF RegisterInv, CopyFor, vars
<1> QED
  BY <1>1, <1>2, <1>3, <1>4, <1>5, <1>6 DEF Next

(* AtomicPort: whatever the hub does between the read and the write, no    *)
(* change bit is lost, the port is not disabled, and its power and link    *)
(* are left alone (port.cpp:43-61, port.hpp:43-55).                        *)
THEOREM PortIsAtomic == Spec => AtomicPort
<1>1. Init => Port!Init
  BY DEF Init
<1>2. RegisterInv /\ [Next]_vars => RegisterInv' /\ [Port!Next]_portsc
  BY RegisterSteps
<1> QED
  BY <1>1, <1>2, RegisterStarts, PTL DEF Spec, AtomicPort, Port!Spec
=============================================================================
