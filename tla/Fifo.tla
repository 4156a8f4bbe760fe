-------------------------------- MODULE Fifo --------------------------------
(***************************************************************************)
(* What a TRB ring promises its two ends: what one end puts in, the other  *)
(* takes out, once, whole and in order.  CommandRing (driver to controller)*)
(* and EventRing (controller to driver) both implement it, and PortConfig  *)
(* uses it as the sequences cr and er.                                     *)
(***************************************************************************)
EXTENDS Naturals, Sequences

CONSTANTS
  Data,       \* what a TRB can carry
  Nothing,    \* value of out before the first Take
  Capacity    \* how many entries fit

VARIABLES
  queue,      \* put and not yet taken
  out         \* what was taken last

Init == queue = <<>> /\ out = Nothing

Put(d) ==
  /\ Len(queue) < Capacity
  /\ queue' = Append(queue, d)
  /\ UNCHANGED out

Take ==
  /\ queue # <<>>
  /\ out' = Head(queue)
  /\ queue' = Tail(queue)

Next == Take \/ \E d \in Data : Put(d)

Spec == Init /\ [][Next]_<<queue, out>>
=============================================================================
