----------------------------- MODULE PortRegister -----------------------------
(***************************************************************************)
(* One port's PORTSC register under kernel/usb/xhci/port.cpp and port.hpp: *)
(* a bit is changed by reading the register, masking and writing it back,  *)
(* and the hub may change the port between the read and the write.  The    *)
(* bits differ in what a write does to them (kept, cleared by 1, started   *)
(* by 1, disabled by 1), so what is written back matters for each of them. *)
(*                                                                         *)
(* The port's power is switched by nobody else here: a controller that     *)
(* switches it off between the read and the write has it switched on again. *)
(***************************************************************************)
EXTENDS Naturals

CONSTANTS OtherChanges, LinkStates

(* They are of the register's change bits and of its link state field.     *)
ASSUME BitsAssumption == /\ OtherChanges \subseteq 17..23
                         /\ LinkStates \subseteq SUBSET (5..8)

VARIABLES
  portsc,    \* the bits of PORTSC that are 1
  step,      \* where the driver is: idle, about to write, in Reset's wait
  copy       \* portsc of Port::Reset and CLEAR_STATUS_BIT, about to be written

vars == <<portsc, step, copy>>

Port == INSTANCE PortBits WITH bits <- portsc

PR  == Port!PortReset
CSC == Port!ConnectStatusChange
PRC == Port!PortResetChange
PED == Port!PortEnabledDisabled
PortLinkStateWriteStrobe == 16

(* What a write of w does, bit by bit (xHCI 5.4.8).                        *)
Kept       == {9, 14, 15, 25, 26, 27}
ByStrobe   == Port!PortLinkState
ClearedBy1 == {PED} \cup (17..23)
ReadOnly   == {0, 3, 10, 11, 12, 13, 24, 30}

Write(w) ==
  LET strobe  == PortLinkStateWriteStrobe \in w
      powered == Port!PortPower \in w
      bits    == (w \cap Kept)
                 \cup ((IF strobe THEN w ELSE portsc) \cap ByStrobe)
                 \cup ((portsc \cap ClearedBy1) \ w)
                 \cup ((portsc \cup w) \cap {PR})
                 \cup (portsc \cap ReadOnly)
      down    == IF powered THEN {} ELSE {0, PED, PR}
  IN  portsc' = bits \ (down \cup {b \in {PED} : PR \in w})

-----------------------------------------------------------------------------
(* The driver.                                                             *)

(* Mutant of ResetMask: the power bit is not among the bits kept.          *)
ResetMaskNoPower == {5, 6, 7, 8, 14, 15, 25, 26, 27}

(* 0x0e00c3e0, and 0x0e01c3e0 in port.hpp.                                 *)
ResetMask == {5, 6, 7, 8, 9, 14, 15, 25, 26, 27}
ClearMask == ResetMask \cup {PortLinkStateWriteStrobe}

ReadMasked(mask, named) ==
  /\ step = "idle"
  /\ copy' = (portsc \cap mask) \cup named
  /\ step' = IF PR \in named THEN "reset" ELSE "clear"
  /\ UNCHANGED portsc

(* The first halves of Reset, ClearConnectStatusChanged and                *)
(* ClearPortResetChange.                                                   *)
BeginReset == ReadMasked(ResetMask, {PR, CSC})
BeginClear == \E bit \in {CSC, PRC} : ReadMasked(ClearMask, {bit})

(* Their second halves; Reset goes on to its busy wait.                    *)
WriteBack ==
  /\ step \in {"reset", "clear"}
  /\ Write(copy)
  /\ step' = IF step = "reset" THEN "wait" ELSE "idle"
  /\ copy' = {}

(* Mutant of ResetWaits: waits for the port to be enabled.                 *)
ResetWaitsEnabled ==
  /\ step = "wait" /\ PED \in portsc
  /\ step' = "idle"
  /\ UNCHANGED <<portsc, copy>>

ResetWaits ==
  /\ step = "wait" /\ PR \notin portsc
  /\ step' = "idle"
  /\ UNCHANGED <<portsc, copy>>

Hub == Port!Hub /\ UNCHANGED <<step, copy>>

Init == Port!Init /\ step = "idle" /\ copy = {}
Next == BeginReset \/ BeginClear \/ WriteBack \/ ResetWaits \/ Hub

(* The driver runs on, and the hub ends a reset it has started.            *)
Spec == /\ Init /\ [][Next]_vars
        /\ WF_vars(WriteBack) /\ WF_vars(ResetWaits)
        /\ WF_vars(Port!ResetDone /\ UNCHANGED <<step, copy>>)

-----------------------------------------------------------------------------
(* Properties.                                                             *)

(* Read, mask and write are as good as one step on the one bit they are    *)
(* about, whatever the hub does between them: no change bit is lost that   *)
(* was set meanwhile or that the driver does not know, the port is not     *)
(* disabled, its power and its link are left alone.                        *)
AtomicPort == Port!Spec

(* The busy wait of Port::Reset ends, even if the device is unplugged      *)
(* during its reset.                                                       *)
WaitEnds == step = "wait" ~> step = "idle"
=============================================================================
