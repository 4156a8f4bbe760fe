---------------------------- MODULE CommandPath ----------------------------
(***************************************************************************)
(* The way of a command through the xHCI driver: a handler pushes it on    *)
(* the command ring, the controller executes it and posts a Command        *)
(* Completion Event, and the event loop hands that to the next handler.    *)
(* CommandRing and EventRing are the two rings at the grain of their       *)
(* stores; here they run together, with port status changes coming between *)
(* the completions.                                                        *)
(*                                                                         *)
(* A completion names its command by the address of the TRB, and the       *)
(* handler learns what was asked by reading that TRB in the command ring   *)
(* (xhci.cpp:228): it must not have been written again by then.            *)
(***************************************************************************)
EXTENDS CommandRing, EventRing

VARIABLES
  answered,    \* number of the command whose completion was handled last
  answers      \* completions handled so far, modulo Count

vars == <<ringVars, eventVars, answered, answers>>

Completion(position, d) == [pointer |-> position, command |-> d]
PortChange              == [pointer |-> Last, command |-> Nothing]
Nowhere                 == [pointer |-> Last, command |-> Count + 1]
AllEvents == {Completion(i, d) : i \in 0..(Last - 1), d \in Data} \cup {PortChange}

IsCompletion(e) == e.command \in Data

(* Both rings take an event to be whatever the controller can post here.   *)
ASSUME ChannelAssumption == AllEvents \subseteq Events

(* Commands pushed and not answered, oldest first: they are numbered, so   *)
(* the count of the answers says which are left, whatever the rings hold.  *)
Unanswered == (next + Count - answers) % Count
Outstanding == [i \in 1..Unanswered |-> (answers + i - 1) % Count]

-----------------------------------------------------------------------------
(* The driver: everything happens inside a handler.  Nothing in the rings  *)
(* limits what a handler pushes; PortConfig!InFlightMatchesPhase is why    *)
(* there are never more than MaxPending commands outstanding.              *)

(* Mutant of HandlerPushes: nothing bounds what is outstanding.            *)
HandlerPushesAlways ==
  /\ handling = "handle"
  /\ Push
  /\ UNCHANGED <<eventVars, answered, answers>>

HandlerPushes ==
  /\ handling = "handle"
  /\ Unanswered < MaxPending
  /\ Push
  /\ UNCHANGED <<eventVars, answered, answers>>

HandlerFinishesPush ==
  /\ FinishPush
  /\ UNCHANGED <<eventVars, answered, answers>>

HandlerReturns ==
  /\ pc = "idle"
  /\ EndHandler
  /\ IF IsCompletion(Front.event)
       THEN /\ answered' = Front.event.command
            /\ answers' = (answers + 1) % Count
       ELSE UNCHANGED <<answered, answers>>
  /\ UNCHANGED ringVars

EventLoop ==
  /\ BeginHandler \/ Pop
  /\ UNCHANGED <<ringVars, answered, answers>>

Driver == HandlerFinishesPush \/ HandlerReturns \/ EventLoop

-----------------------------------------------------------------------------
(* The controller executes a command when it can post the completion.      *)

Answer ==
  /\ Execute
  /\ PostEvent(Completion(dequeue, buf[dequeue].data))
  /\ UNCHANGED <<answered, answers>>

FollowRing ==
  /\ FollowLink \/ GoIdle
  /\ UNCHANGED <<eventVars, answered, answers>>

PortChanges ==
  /\ PostEvent(PortChange)
  /\ UNCHANGED <<ringVars, answered, answers>>

-----------------------------------------------------------------------------
Init == RingInit /\ EventInit /\ answered = Nothing /\ answers = 0

Next == HandlerPushes \/ Driver \/ Answer \/ FollowRing \/ PortChanges

(* The event loop goes on and a handler ends what it began; the controller *)
(* works on its ring, and port changes do not keep it from posting         *)
(* completions for ever.  No port has to change and no handler to push.    *)
Spec == /\ Init /\ [][Next]_vars
        /\ WF_vars(Driver) /\ SF_vars(Answer) /\ WF_vars(FollowRing)

-----------------------------------------------------------------------------
(* Properties.                                                             *)

(* Both rings have their types, and the driver pushes in handlers only.    *)
TypeOK ==
  /\ RingTypeOK /\ EventTypeOK
  /\ pc # "idle" => handling = "handle"
  /\ answered \in Data \cup {Nothing}
  /\ answers \in Data

(* xhci.cpp:228: the TRB a completion points to is still the command that  *)
(* was executed, in every moment before its handler returns, although the  *)
(* controller has given that slot back and the driver goes on pushing.     *)
IssuerKept ==
  \A i \in DOMAIN Unhandled :
    LET e == Unhandled[i]
    IN  IsCompletion(e) => /\ buf[e.pointer].type = "command"
                           /\ buf[e.pointer].data = e.command

(* End to end, from Push to handler, the two rings are one FIFO queue:     *)
(* every command is answered once, and answers come in the order of the    *)
(* commands, whatever port changes come in between.                        *)
Conversation == INSTANCE Fifo WITH
  Data <- Data, Nothing <- Nothing, Capacity <- MaxPending,
  queue <- Outstanding, out <- answered
AnsweredInOrder == Conversation!Spec

(* Every command is answered: no doorbell is lost, the controller never    *)
(* waits at a slot the driver has already passed, and no event stays in    *)
(* the ring while KernelMain polls.                                        *)
EveryCommandAnswered ==
  \A d \in Data : pc = "control" /\ next = d ~> answered = d
=============================================================================
