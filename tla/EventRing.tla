------------------------------ MODULE EventRing ------------------------------
(***************************************************************************)
(* usb::xhci::EventRing (ring.cpp:56-114, ring.hpp:78-105): the controller *)
(* writes event TRBs, the driver polls them in ProcessEvent.  There is no  *)
(* Link TRB; both ends wrap at the end of the one segment and flip their   *)
(* cycle bit.  The driver keeps its position in the ERDP register, which   *)
(* is also what tells the controller how far it may write.                 *)
(*                                                                         *)
(* ProcessEvent hands out a pointer into the ring: the handler reads the   *)
(* TRB where it lies, while the controller goes on writing, and Pop comes  *)
(* only after the handler.                                                 *)
(***************************************************************************)
EXTENDS Integers, Sequences

CONSTANTS
  SegmentSize,  \* buf_size_, the size of the segment
  Events,       \* what an event TRB can say
  NoEvent       \* a slot never written

ASSUME SegmentAssumption == SegmentSize \in Nat /\ SegmentSize >= 2
ASSUME EventAssumption == NoEvent \notin Events

Slots     == 0..(SegmentSize - 1)
Opposite(c) == 1 - c

VARIABLES
  segment,      \* buf_: the event and the cycle bit of every slot
  erdp,         \* the ERDP register: slot of the oldest event
  (* The driver. *)
  consumer,     \* cycle_bit_
  handling,     \* "poll", "handle" (an OnEvent runs), "pop"
  handled,      \* the event the last handler worked on
  (* The controller. *)
  enqueue,      \* slot it writes next
  pcs           \* its cycle bit

eventVars == <<segment, erdp, consumer, handling, handled, enqueue, pcs>>

Following(i) == (i + 1) % SegmentSize

-----------------------------------------------------------------------------
(* The controller writes an event unless the ring is full: it never        *)
(* catches up with ERDP.                                                   *)
PostEvent(e) ==
  /\ Following(enqueue) # erdp
  /\ segment' = [segment EXCEPT ![enqueue] = [event |-> e, cycle |-> pcs]]
  /\ enqueue' = Following(enqueue)
  /\ pcs' = IF enqueue = SegmentSize - 1 THEN Opposite(pcs) ELSE pcs
  /\ UNCHANGED <<erdp, consumer, handling, handled>>

-----------------------------------------------------------------------------
(* The driver.                                                             *)

Front == segment[erdp]
HasFront == Front.cycle = consumer

(* Mutant of BeginHandler: the cycle bit of the front is not looked at.    *)
BeginHandlerBlindly ==
  /\ handling = "poll"
  /\ handling' = "handle"
  /\ UNCHANGED <<segment, erdp, consumer, handled, enqueue, pcs>>

(* ProcessEvent looks at the front and enters the handler.                 *)
BeginHandler ==
  /\ handling = "poll" /\ HasFront
  /\ handling' = "handle"
  /\ UNCHANGED <<segment, erdp, consumer, handled, enqueue, pcs>>

(* The handler reads the TRB through the pointer it was given.             *)
EndHandler ==
  /\ handling = "handle"
  /\ handled' = Front.event
  /\ handling' = "pop"
  /\ UNCHANGED <<segment, erdp, consumer, enqueue, pcs>>

(* Mutant of Pop: the cycle bit stays the same at the end of the segment.  *)
PopSameCycle ==
  /\ handling = "pop"
  /\ erdp' = Following(erdp)
  /\ handling' = "poll"
  /\ UNCHANGED <<segment, consumer, handled, enqueue, pcs>>

Pop ==
  /\ handling = "pop"
  /\ erdp' = Following(erdp)
  /\ consumer' = IF erdp = SegmentSize - 1 THEN Opposite(consumer) ELSE consumer
  /\ handling' = "poll"
  /\ UNCHANGED <<segment, handled, enqueue, pcs>>

-----------------------------------------------------------------------------
(* EventRing::Initialize zeroes the segment and points ERDP at its start.  *)
EventInit ==
  /\ segment = [i \in Slots |-> [event |-> NoEvent, cycle |-> 0]]
  /\ erdp = 0
  /\ consumer = 1
  /\ handling = "poll"
  /\ handled = NoEvent
  /\ enqueue = 0
  /\ pcs = 1

-----------------------------------------------------------------------------
(* Properties.                                                             *)

(* Every slot is typed and the driver's position is a slot of the segment. *)
EventTypeOK ==
  /\ segment \in [Slots -> [event : Events \cup {NoEvent}, cycle : 0..1]]
  /\ erdp \in Slots
  /\ consumer \in 0..1
  /\ handling \in {"poll", "handle", "pop"}
  /\ handled \in Events \cup {NoEvent}
  /\ enqueue \in Slots
  /\ pcs \in 0..1

(* Events posted and not handled, oldest first.  The event of a finished   *)
(* handler is still in the ring until it is popped, but no longer waiting. *)
Distance == (enqueue + SegmentSize - erdp) % SegmentSize
Unhandled ==
  LET done == IF handling = "pop" THEN 1 ELSE 0
  IN  [i \in 1..(Distance - done) |->
         segment[(erdp + done + i - 1) % SegmentSize].event]

(* The ring is a FIFO queue: every event is handled once, whole and in the *)
(* order it was posted, even though the controller writes while a handler  *)
(* reads (xhci.cpp:488-505).                                               *)
PostedEvents == INSTANCE Fifo WITH
  Data <- Events, Nothing <- NoEvent, Capacity <- SegmentSize - 1,
  queue <- Unhandled, out <- handled
EventsImplementFifo == PostedEvents!Spec
=============================================================================
