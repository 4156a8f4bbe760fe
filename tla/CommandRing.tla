----------------------------- MODULE CommandRing -----------------------------
(***************************************************************************)
(* usb::xhci::Ring (kernel/usb/xhci/ring.cpp, ring.hpp), the command ring  *)
(* and the transfer rings: the driver writes TRBs into a buffer that the   *)
(* controller reads at the same time.  There is no count of entries; a TRB *)
(* belongs to the controller when its cycle bit equals the controller's,   *)
(* and the last slot holds a Link TRB that sends the controller back to    *)
(* slot 0 with its cycle bit flipped.                                      *)
(*                                                                         *)
(* Each store of the driver that the controller can tell apart is a step:  *)
(* words 0 to 2 of a TRB, then word 3 with the type and the cycle bit.     *)
(* Ring::Push does not look whether the ring is full; what bounds it is    *)
(* up to its callers (CommandPath for the command ring).                   *)
(***************************************************************************)
EXTENDS Integers, Sequences, FiniteSets

CONSTANTS
  Size,        \* buf_size_
  MaxPending,  \* TRBs the callers have outstanding at most
  Count        \* payloads are numbered modulo Count

(* Slot 0, the link and one more slot; a bound on what can be outstanding,  *)
(* and enough numbers to tell all pending TRBs and stale ones apart.        *)
ASSUME SizeAssumption == Size \in Nat /\ Size >= 3
ASSUME PendingAssumption == MaxPending \in 1..(Size - 2)
ASSUME CountAssumption == Count \in Nat /\ Count > Size

Indices == 0..(Size - 1)
Last    == Size - 1
Data    == 0..(Count - 1)
Nothing == Count               \* payload of a slot that holds no command
Toggle(c) == 1 - c

VARIABLES
  (* The driver. *)
  buf,          \* buf_: words 0 to 2, the type and the cycle bit per slot
  write_index,
  cycle_bit,
  pc,           \* where the driver is in Push and the doorbell after it
  next,         \* number of the next TRB to push
  (* The controller. *)
  doorbell,     \* is the controller working on the ring?
  dequeue,      \* slot it reads next
  ccs,          \* its cycle bit
  executed      \* the TRB it executed last

ringVars == <<buf, write_index, cycle_bit, pc, next, doorbell, dequeue, ccs, executed>>

-----------------------------------------------------------------------------
(* The driver.                                                             *)

(* Mutant of WriteData: the slot is handed over with what it held before.  *)
WriteDataHandsOver(d) == buf' = [buf EXCEPT ![write_index].cycle = cycle_bit]

(* CopyToLast, first part: words 0 to 2.                                   *)
WriteData(d) == buf' = [buf EXCEPT ![write_index].data = d]

(* CopyToLast, second part: word 3, which hands the TRB over.              *)
WriteControl(type) ==
  buf' = [buf EXCEPT ![write_index].type = type,
                     ![write_index].cycle = cycle_bit]

(* Pending TRBs, oldest first: from the controller's slot on, as far as    *)
(* cycle bits say that they belong to the controller.                      *)
AtLink    == dequeue = Last
Ahead(k)  == IF AtLink THEN k ELSE dequeue + k
Slot(k)   == Ahead(k) % Last
CycleOf(k) == IF AtLink \/ Ahead(k) >= Last THEN Toggle(ccs) ELSE ccs
Owned(k)  == buf[Slot(k)].cycle = CycleOf(k)
Pending   ==
  LET n == Cardinality({k \in 0..(Size - 2) : \A j \in 0..k : Owned(j)})
  IN  [i \in 1..n |-> buf[Slot(i - 1)].data]

(* The next push may come before the doorbell, as in Device::ControlIn.    *)
Push ==
  /\ pc \in {"idle", "doorbell"}
  /\ WriteData(next)
  /\ pc' = "control"
  /\ UNCHANGED <<write_index, cycle_bit, next, doorbell, dequeue, ccs, executed>>

(* Mutant of Advance: no Link TRB at the end of a lap.                     *)
AdvanceWithoutLink ==
  /\ pc = "control"
  /\ WriteControl("command")
  /\ write_index' = write_index + 1
  /\ next' = (next + 1) % Count
  /\ pc' = "doorbell"
  /\ UNCHANGED <<cycle_bit, doorbell, dequeue, ccs, executed>>

(* The slot after the last command is for the Link TRB.                    *)
Advance ==
  /\ pc = "control"
  /\ WriteControl("command")
  /\ write_index' = write_index + 1
  /\ next' = (next + 1) % Count
  /\ pc' = IF write_index + 1 = Last THEN "link" ELSE "doorbell"
  /\ UNCHANGED <<cycle_bit, doorbell, dequeue, ccs, executed>>

WriteLinkData ==
  /\ pc = "link"
  /\ WriteData(Nothing)
  /\ pc' = "linkControl"
  /\ UNCHANGED <<write_index, cycle_bit, next, doorbell, dequeue, ccs, executed>>

(* Mutant of WrapAround: the producer's cycle bit is not flipped.          *)
WrapAroundSameCycle ==
  /\ pc = "linkControl"
  /\ WriteControl("link")
  /\ write_index' = 0
  /\ pc' = "doorbell"
  /\ UNCHANGED <<cycle_bit, next, doorbell, dequeue, ccs, executed>>

WrapAround ==
  /\ pc = "linkControl"
  /\ WriteControl("link")
  /\ write_index' = 0
  /\ cycle_bit' = Toggle(cycle_bit)
  /\ pc' = "doorbell"
  /\ UNCHANGED <<next, doorbell, dequeue, ccs, executed>>

RingDoorbell ==
  /\ pc = "doorbell"
  /\ doorbell' = TRUE
  /\ pc' = "idle"
  /\ UNCHANGED <<buf, write_index, cycle_bit, next, dequeue, ccs, executed>>

FinishPush == Advance \/ WriteLinkData \/ WrapAround \/ RingDoorbell

-----------------------------------------------------------------------------
(* The controller, once told by the doorbell, works until it finds a TRB   *)
(* that is not its own.                                                    *)

OwnsFront == buf[dequeue].cycle = ccs

Execute ==
  /\ doorbell /\ OwnsFront /\ buf[dequeue].type = "command"
  /\ executed' = buf[dequeue].data
  /\ dequeue' = dequeue + 1
  /\ UNCHANGED <<buf, write_index, cycle_bit, pc, next, doorbell, ccs>>

FollowLink ==
  /\ doorbell /\ OwnsFront /\ buf[dequeue].type = "link"
  /\ dequeue' = 0
  /\ ccs' = Toggle(ccs)
  /\ UNCHANGED <<buf, write_index, cycle_bit, pc, next, doorbell, executed>>

GoIdle ==
  /\ doorbell /\ ~OwnsFront
  /\ doorbell' = FALSE
  /\ UNCHANGED <<buf, write_index, cycle_bit, pc, next, dequeue, ccs, executed>>

-----------------------------------------------------------------------------
(* Ring::Initialize zeroes the buffer; both cycle bits start as 1.         *)
RingInit ==
  /\ buf = [i \in Indices |-> [data |-> Nothing, type |-> "none", cycle |-> 0]]
  /\ write_index = 0
  /\ cycle_bit = 1
  /\ pc = "idle"
  /\ next = 0
  /\ doorbell = FALSE
  /\ dequeue = 0
  /\ ccs = 1
  /\ executed = Nothing

-----------------------------------------------------------------------------
(* Properties.                                                             *)

(* Every slot is typed, and the driver's position is one it can be in: the *)
(* link slot is written only by the last two steps of a lap.               *)
RingTypeOK ==
  /\ buf \in [Indices -> [data : Data \cup {Nothing},
                          type : {"none", "command", "link"}, cycle : 0..1]]
  /\ write_index \in Indices
  /\ (write_index = Last) <=> pc \in {"link", "linkControl"}
  /\ cycle_bit \in 0..1
  /\ pc \in {"idle", "control", "link", "linkControl", "doorbell"}
  /\ next \in Data
  /\ doorbell \in BOOLEAN
  /\ dequeue \in Indices
  /\ ccs \in 0..1
  /\ executed \in Data \cup {Nothing}

(* The ring is a FIFO queue (ring.hpp:29-36): the controller executes the  *)
(* TRBs that were pushed, each once, whole and in order, however its reads *)
(* fall between the stores of a Push.                                      *)
PushedTRBs == INSTANCE Fifo WITH
  Data <- Data, Nothing <- Nothing, Capacity <- MaxPending,
  queue <- Pending, out <- executed
RingImplementsFifo == PushedTRBs!Spec
=============================================================================
