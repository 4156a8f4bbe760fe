-------------------------- MODULE CommandPathProofs --------------------------
(***************************************************************************)
(* Proofs about CommandPath and the two rings it runs.                     *)
(*                                                                         *)
(* Whatever its size, a ring is the FIFO queue of Fifo as long as its ends *)
(* keep to their side of it.  The queue is nowhere in the rings: what is   *)
(* in it follows from the cycle bits, so the first two invariants say      *)
(* where the bits flip.                                                    *)
(*                                                                         *)
(* For both rings together: commands are answered once and in order, and   *)
(* the TRB a completion points to is still the command that was executed.  *)
(* The rings alone do not say this.  The invariant ties three things       *)
(* together by the age of a command, counted back from the last one        *)
(* pushed: where its TRB lies, what that TRB says, and where its           *)
(* completion waits.                                                       *)
(***************************************************************************)
EXTENDS CommandPath, FiniteSetTheorems, SequenceTheorems, TLAPS

-----------------------------------------------------------------------------
(* Positions and numbers are below twice the modulus they are taken by.    *)

(* Nothing to take away.                                                   *)
LEMMA ModSmall ==
  ASSUME NEW c \in Nat, NEW a \in 0..(c - 1)
  PROVE  a % c = a
  BY SMT

(* The modulus once.                                                       *)
LEMMA ModOnce ==
  ASSUME NEW c \in Nat, NEW a \in c..(2 * c - 1)
  PROVE  a % c = a - c
  BY SMT

(* When a sequence is another one with an entry put at its end, or taken   *)
(* from its front.                                                         *)
LEMMA IsAppend ==
  ASSUME NEW S, NEW s \in Seq(S), NEW t \in Seq(S), NEW e \in S,
         Len(t) = Len(s) + 1,
         \A i \in 1..Len(s) : t[i] = s[i],
         t[Len(t)] = e
  PROVE  t = Append(s, e)
<1>1. /\ Append(s, e) \in Seq(S)
      /\ Len(Append(s, e)) = Len(s) + 1
      /\ \A i \in 1..Len(s) : Append(s, e)[i] = s[i]
      /\ Append(s, e)[Len(s) + 1] = e
  BY AppendProperties
<1>2. Len(s) \in Nat
  BY LenProperties
<1>3. \A i \in 1..Len(t) : t[i] = Append(s, e)[i]
  BY <1>1, <1>2
<1> QED
  BY <1>1, <1>3, SeqEqual

(* A sequence whose entries are those of another, from its second on.      *)
LEMMA IsTail ==
  ASSUME NEW S, NEW s \in Seq(S), NEW t \in Seq(S),
         Len(s) = Len(t) + 1,
         \A i \in 1..Len(t) : t[i] = s[i + 1]
  PROVE  s # <<>> /\ Head(s) = s[1] /\ t = Tail(s)
<1>1. Len(t) \in Nat /\ Len(s) \in Nat
  BY LenProperties
<1>2. s # <<>>
  BY <1>1, EmptySeq
<1>3. Head(s) = s[1]
  BY <1>1, <1>2
<1>4. /\ Tail(s) \in Seq(S)
      /\ Len(Tail(s)) = Len(s) - 1
      /\ \A i \in 1..Len(Tail(s)) : Tail(s)[i] = s[i + 1]
  BY <1>2, HeadTailProperties
<1>5. t = Tail(s)
  BY <1>1, <1>4, SeqEqual
<1> QED
  BY <1>2, <1>3, <1>5

-----------------------------------------------------------------------------
(* The command ring.                                                       *)

(* How many TRBs the controller has not executed, and where the k-th of    *)
(* them lies.  With equal cycle bits the controller is on the driver's lap *)
(* and not past it; otherwise it is one lap behind, beyond the driver.     *)
SameLap  == ccs = cycle_bit
Waiting  == IF SameLap THEN write_index - dequeue
                       ELSE (Last - dequeue) + write_index
Place(k) == IF Ahead(k) >= Last THEN Ahead(k) - Last ELSE Ahead(k)

(* What the driver has written this lap carries its cycle bit, the rest    *)
(* the other one.                                                          *)
Laps == \A i \in Indices :
          buf[i].cycle = IF i < write_index THEN cycle_bit ELSE Toggle(cycle_bit)

(* Commands and the Link TRB keep to their slots.                          *)
Links == /\ \A i \in 0..(Last - 1) : buf[i].type # "link"
         /\ buf[Last].type # "command"

InBounds == /\ IF SameLap THEN dequeue <= write_index ELSE write_index < dequeue
            /\ Waiting <= MaxPending

(* Between its two stores a TRB has its data and is not handed over; its   *)
(* handler found room for it.                                              *)
HalfWritten == pc = "control" => /\ buf[write_index].data = next
                                 /\ Waiting < MaxPending

RingInv == RingTypeOK /\ Laps /\ Links /\ InBounds /\ HalfWritten

(* The index of the Link TRB, the bound on pending TRBs and the range of   *)
(* numbers.                                                                *)
LEMMA LastType == Last \in Nat /\ Last >= 2 /\ MaxPending \in 1..(Last - 1)
                  /\ Count \in Nat /\ Count > Last + 1
  BY SizeAssumption, PendingAssumption, CountAssumption DEF Last

(* The k-th TRB from the controller's slot on is its own exactly if k is   *)
(* less than the number of those waiting.                                  *)
LEMMA OwnedIsWaiting ==
  ASSUME RingInv, NEW k \in 0..(Last - 1)
  PROVE  /\ Slot(k) = Place(k)
         /\ Place(k) \in 0..(Last - 1)
         /\ Owned(k) <=> k < Waiting
         /\ Waiting \in 0..(Last - 1)
<1> USE LastType
<1>1. /\ dequeue \in 0..Last /\ write_index \in 0..Last
      /\ ccs \in 0..1 /\ cycle_bit \in 0..1
  BY DEF RingInv, RingTypeOK, Indices, Last
<1>2. Ahead(k) \in 0..(2 * Last - 1)
  BY <1>1 DEF Ahead, AtLink
<1>3. Slot(k) = Place(k)
  <2>1. CASE Ahead(k) >= Last
    BY <1>2, <2>1, ModOnce DEF Slot, Place
  <2>2. CASE Ahead(k) < Last
    BY <1>2, <2>2, ModSmall DEF Slot, Place
  <2> QED
    BY <1>2, <2>1, <2>2
<1>4. Place(k) \in 0..(Last - 1)
  BY <1>2 DEF Place
<1>5. Waiting \in 0..(Last - 1)
  BY <1>1 DEF RingInv, InBounds, Waiting, SameLap
<1>6. buf[Place(k)].cycle = IF Place(k) < write_index THEN cycle_bit ELSE Toggle(cycle_bit)
  BY <1>4 DEF RingInv, Laps, Indices, Last
<1>7. Owned(k) <=> k < Waiting
  BY <1>1, <1>3, <1>4, <1>5, <1>6
     DEF RingInv, InBounds, Owned, CycleOf, Waiting, SameLap, Place, Ahead, AtLink, Toggle
<1> QED
  BY <1>3, <1>4, <1>5, <1>7

(* Pending by the places of the ring.                                      *)
PendingLaid ==
  /\ Pending \in Seq(Data \cup {Nothing})
  /\ Waiting \in 0..(Last - 1)
  /\ Len(Pending) = Waiting
  /\ \A i \in 1..Waiting : Pending[i] = buf[Place(i - 1)].data

(* The pending TRBs are those that wait from the controller's slot on.     *)
LEMMA PendingIsWaiting == RingInv => PendingLaid
<1> SUFFICES ASSUME RingInv PROVE PendingLaid
  OBVIOUS
<1> USE LastType
<1> DEFINE own == {k \in 0..(Size - 2) : \A j \in 0..k : Owned(j)}
<1>1. \A k \in 0..(Last - 1) : Owned(k) <=> k < Waiting
  BY OwnedIsWaiting
<1>2. Waiting \in 0..(Last - 1)
  BY OwnedIsWaiting
<1>3. own = 0..(Waiting - 1)
  <2>1. Size - 2 = Last - 1
    BY SizeAssumption DEF Last
  <2>2. \A k \in 0..(Last - 1) : (\A j \in 0..k : Owned(j)) <=> k < Waiting
    BY <1>1, <1>2
  <2> QED
    BY <1>2, <2>1, <2>2
<1>4. Cardinality(own) = Waiting
  <2>1. Cardinality(0..(Waiting - 1)) = Waiting
    BY <1>2, FS_Interval
  <2> QED
    BY <1>3, <2>1
<1>5. Pending = [i \in 1..Waiting |-> buf[Slot(i - 1)].data]
  BY <1>4 DEF Pending
<1>6. \A i \in 1..Waiting : /\ Slot(i - 1) = Place(i - 1)
                            /\ Place(i - 1) \in Indices
  <2>1. SUFFICES ASSUME NEW i \in 1..Waiting
                 PROVE  Slot(i - 1) = Place(i - 1) /\ Place(i - 1) \in Indices
    OBVIOUS
  <2>2. i - 1 \in 0..(Last - 1)
    BY <1>2
  <2> QED
    BY <2>2, OwnedIsWaiting DEF Indices, Last
<1>7. \A i \in 1..Waiting : buf[Place(i - 1)].data \in Data \cup {Nothing}
  BY <1>6 DEF RingInv, RingTypeOK
<1>8. Pending = [i \in 1..Waiting |-> buf[Place(i - 1)].data]
  BY <1>5, <1>6
<1>9. Pending \in Seq(Data \cup {Nothing}) /\ Len(Pending) = Waiting
  BY <1>2, <1>7, <1>8
<1> QED
  BY <1>2, <1>8, <1>9 DEF PendingLaid

(* The same in the state after a step.                                     *)
LEMMA PendingIsWaitingNext == RingInv' => PendingLaid'
BY PendingIsWaiting, PTL

(* A step keeps the queue that keeps its length and the data in its slots. *)
LEMMA PendingKept ==
  ASSUME RingInv, RingInv', Waiting' = Waiting,
         \A k \in 0..(Waiting - 1) : buf'[Place(k)'].data = buf[Place(k)].data
  PROVE  Pending' = Pending
<1>1. /\ Pending \in Seq(Data \cup {Nothing})
      /\ Waiting \in 0..(Last - 1)
      /\ Len(Pending) = Waiting
      /\ \A i \in 1..Waiting : Pending[i] = buf[Place(i - 1)].data
  BY PendingIsWaiting DEF PendingLaid
<1>2. /\ Pending' \in Seq(Data \cup {Nothing})
      /\ Len(Pending') = Waiting'
      /\ \A i \in 1..Waiting' : Pending'[i] = buf'[Place(i - 1)'].data
  BY PendingIsWaitingNext DEF PendingLaid
<1>3. \A i \in 1..Waiting : i - 1 \in 0..(Waiting - 1)
  BY <1>1, LastType
<1>4. \A i \in 1..Len(Pending) : Pending'[i] = Pending[i]
  BY <1>1, <1>2, <1>3
<1> QED
  BY <1>1, <1>2, <1>4, SeqEqual

(* A ring that Initialize has just set up is empty (ring.cpp:12-28).       *)
LEMMA RingStarts ==
  ASSUME RingInit
  PROVE  RingInv /\ Pending = <<>> /\ Waiting = 0
<1> USE LastType
<1>1. RingTypeOK
  <2>1. 0 \in Data /\ 0 \in Indices /\ 0 # Last
    BY SizeAssumption DEF Data, Indices, Last
  <2>2. buf \in [Indices -> [data : Data \cup {Nothing},
                            type : {"none", "command", "link"}, cycle : 0..1]]
    BY DEF RingInit
  <2>3. /\ write_index = 0 /\ cycle_bit = 1 /\ pc = "idle" /\ next = 0
        /\ doorbell = FALSE /\ dequeue = 0 /\ ccs = 1 /\ executed = Nothing
    BY DEF RingInit
  <2>4. (write_index = Last) <=> pc \in {"link", "linkControl"}
    BY <2>1, <2>3
  <2>5. executed \in Data \cup {Nothing} /\ doorbell \in BOOLEAN
    BY <2>3
  <2>6. write_index \in Indices /\ next \in Data /\ dequeue \in Indices
    BY <2>1, <2>3
  <2>7. cycle_bit \in 0..1 /\ ccs \in 0..1
    BY <2>3
  <2>8. pc \in {"idle", "control", "link", "linkControl", "doorbell"}
    BY <2>3
  <2> QED
    BY <2>2, <2>4, <2>5, <2>6, <2>7, <2>8 DEF RingTypeOK
<1>2. Waiting = 0
  BY DEF RingInit, Waiting, SameLap
<1>3. RingInv
  BY <1>1, <1>2 DEF RingInit, RingInv, Laps, Links, InBounds, HalfWritten, SameLap,
                    Indices, Toggle, Last
<1>4. Pending \in Seq(Data \cup {Nothing}) /\ Len(Pending) = 0
  BY <1>2, <1>3, PendingIsWaiting DEF PendingLaid
<1> QED
  BY <1>2, <1>3, <1>4, EmptySeq

(* Push writes into a slot that is not the controller's.                   *)
LEMMA PushStep ==
  ASSUME RingInv, Push, Waiting < MaxPending
  PROVE  RingInv' /\ Pending' = Pending /\ Waiting' = Waiting
<1> USE LastType
<1>1. write_index \in 0..(Last - 1)
  BY DEF RingInv, RingTypeOK, Push, Indices, Last
<1>2. RingTypeOK'
  BY <1>1 DEF RingInv, RingTypeOK, Push, WriteData
<1>3. Waiting' = Waiting /\ SameLap' = SameLap
  BY DEF Push, Waiting, SameLap
<1>4. Laps'
  BY <1>1 DEF RingInv, RingTypeOK, Laps, Push, WriteData, Indices, Last
<1>5. Links'
  BY <1>1 DEF RingInv, RingTypeOK, Links, Push, WriteData, Indices, Last
<1>6. InBounds'
  BY <1>3 DEF RingInv, InBounds, Push
<1>7. HalfWritten'
  BY <1>1, <1>3 DEF RingInv, RingTypeOK, HalfWritten, Push, WriteData, Indices, Last
<1>8. RingInv'
  BY <1>2, <1>4, <1>5, <1>6, <1>7 DEF RingInv
<1>9. ASSUME NEW k \in 0..(Waiting - 1)
      PROVE  buf'[Place(k)'].data = buf[Place(k)].data
  <2>1. Waiting \in 0..(Last - 1)
    BY OwnedIsWaiting
  <2>2. k \in 0..(Last - 1)
    BY <2>1
  <2>3. Place(k) \in 0..(Last - 1)
    BY <2>2, OwnedIsWaiting
  <2>4. Place(k)' = Place(k)
    BY DEF Push, Place, Ahead, AtLink
  <2>5. dequeue \in 0..Last
    BY DEF RingInv, RingTypeOK, Indices, Last
  <2>6. Place(k) # write_index
    BY <1>1, <2>1, <2>5 DEF RingInv, InBounds, Waiting, SameLap, Place, Ahead, AtLink
  <2> QED
    BY <1>1, <2>3, <2>4, <2>6 DEF RingInv, RingTypeOK, Push, WriteData, Indices, Last
<1> QED
  BY <1>3, <1>8, <1>9, PendingKept

(* The second store of a TRB puts it in the queue.                         *)
LEMMA AdvanceStep ==
  ASSUME RingInv, Advance
  PROVE  /\ RingInv'
         /\ Waiting' = Waiting + 1
         /\ next \in Data
         /\ Pending' = Append(Pending, next)
<1> USE LastType
<1>1. write_index \in 0..(Last - 1)
  BY DEF RingInv, RingTypeOK, Advance, Indices, Last
<1>2. dequeue \in 0..Last /\ next \in Data
  BY DEF RingInv, RingTypeOK, Indices, Last
<1>3. Waiting \in 0..(Last - 1) /\ Waiting < MaxPending
  BY OwnedIsWaiting DEF RingInv, HalfWritten, Advance
<1>4. Waiting' = Waiting + 1 /\ SameLap' = SameLap
  BY <1>1, <1>2 DEF Advance, Waiting, SameLap
<1>5. RingTypeOK'
  <2>1. (next + 1) % Count \in Data
    BY <1>2 DEF Data
  <2>2. buf' \in [Indices -> [data : Data \cup {Nothing},
                             type : {"none", "command", "link"}, cycle : 0..1]]
    BY <1>1 DEF RingInv, RingTypeOK, Advance, WriteControl
  <2>3. write_index' \in Indices
    BY <1>1 DEF Advance, Indices, Last
  <2>4. pc' \in {"link", "doorbell"} /\ (write_index' = Last <=> pc' = "link")
    BY DEF Advance
  <2> QED
    BY <2>1, <2>2, <2>3, <2>4 DEF RingInv, RingTypeOK, Advance
<1>6. Laps'
  BY <1>1 DEF RingInv, RingTypeOK, Laps, Advance, WriteControl, Indices, Last
<1>7. Links'
  BY <1>1 DEF RingInv, RingTypeOK, Links, Advance, WriteControl, Indices, Last
<1>8. InBounds'
  BY <1>1, <1>2, <1>3, <1>4 DEF RingInv, InBounds, Waiting, SameLap, Advance
<1>9. RingInv'
  BY <1>5, <1>6, <1>7, <1>8 DEF RingInv, HalfWritten, Advance
<1>10. ASSUME NEW k \in 0..Waiting
       PROVE  buf'[Place(k)'].data = buf[Place(k)].data
  <2>1. Place(k)' = Place(k)
    BY DEF Advance, Place, Ahead, AtLink
  <2>2. k \in 0..(Last - 1)
    BY <1>3
  <2>3. Place(k) \in 0..(Last - 1)
    BY <2>2, OwnedIsWaiting
  <2> QED
    BY <1>1, <2>1, <2>3 DEF RingInv, RingTypeOK, Advance, WriteControl, Indices, Last
<1>11. Place(Waiting) = write_index
  BY <1>1, <1>2, <1>3 DEF RingInv, InBounds, Waiting, SameLap, Place, Ahead, AtLink
<1>12. \A k \in 0..Waiting : k = Waiting => buf'[Place(k)'].data = next
  <2>1. buf[write_index].data = next
    BY DEF RingInv, HalfWritten, Advance
  <2> QED
    BY <1>10, <1>11, <2>1
<1>13. Pending' = Append(Pending, next)
  <2>1. /\ Pending \in Seq(Data \cup {Nothing})
        /\ Len(Pending) = Waiting
        /\ \A i \in 1..Waiting : Pending[i] = buf[Place(i - 1)].data
    BY PendingIsWaiting DEF PendingLaid
  <2>2. /\ Pending' \in Seq(Data \cup {Nothing})
        /\ Len(Pending') = Waiting + 1
        /\ \A i \in 1..(Waiting + 1) : Pending'[i] = buf'[Place(i - 1)'].data
    BY <1>4, <1>9, PendingIsWaitingNext DEF PendingLaid
  <2>3. \A i \in 1..Len(Pending) : Pending'[i] = Pending[i]
    <3>1. \A i \in 1..Waiting : i - 1 \in 0..Waiting /\ i \in 1..(Waiting + 1)
      BY <1>3
    <3> QED
      BY <1>10, <2>1, <2>2, <3>1
  <2>4. Pending'[Len(Pending')] = next
    <3>1. \A i \in 1..(Waiting + 1) :
             i = Waiting + 1 => i - 1 \in 0..Waiting /\ i - 1 = Waiting
      BY <1>3
    <3>2. \A i \in 1..(Waiting + 1) : i = Waiting + 1 => Pending'[i] = next
      BY <1>12, <2>2, <3>1
    <3> QED
      BY <1>3, <2>2, <3>2
  <2>5. Len(Pending') = Len(Pending) + 1 /\ next \in Data \cup {Nothing}
    BY <1>2, <2>1, <2>2
  <2> QED
    BY <2>1, <2>2, <2>3, <2>4, <2>5, IsAppend
<1> QED
  BY <1>2, <1>4, <1>9, <1>13

(* The Link TRB and the doorbell are not in the queue.                     *)
LEMMA LinkDataStep ==
  ASSUME RingInv, WriteLinkData
  PROVE  RingInv' /\ Pending' = Pending /\ Waiting' = Waiting
<1> USE LastType
<1>1. write_index = Last /\ Last \in Indices
  BY SizeAssumption DEF RingInv, RingTypeOK, WriteLinkData, Indices, Last
<1>2. RingTypeOK'
  BY <1>1 DEF RingInv, RingTypeOK, WriteLinkData, WriteData
<1>3. Waiting' = Waiting /\ SameLap' = SameLap
  BY DEF WriteLinkData, Waiting, SameLap
<1>4. Laps'
  BY <1>1 DEF RingInv, RingTypeOK, Laps, WriteLinkData, WriteData
<1>5. Links'
  BY <1>1 DEF RingInv, RingTypeOK, Links, WriteLinkData, WriteData, Indices, Last
<1>6. InBounds' /\ HalfWritten'
  BY <1>3 DEF RingInv, InBounds, HalfWritten, WriteLinkData
<1>7. RingInv'
  BY <1>2, <1>4, <1>5, <1>6 DEF RingInv
<1>8. ASSUME NEW k \in 0..(Waiting - 1)
      PROVE  buf'[Place(k)'].data = buf[Place(k)].data
  <2>1. k \in 0..(Last - 1)
    BY OwnedIsWaiting
  <2>2. Place(k) \in 0..(Last - 1)
    BY <2>1, OwnedIsWaiting
  <2>3. Place(k)' = Place(k)
    BY DEF WriteLinkData, Place, Ahead, AtLink
  <2> QED
    BY <1>1, <2>2, <2>3 DEF RingInv, RingTypeOK, WriteLinkData, WriteData, Indices, Last
<1> QED
  BY <1>3, <1>7, <1>8, PendingKept

(* Handing the Link TRB over ends the lap of the driver (ring.cpp:44-51).  *)
LEMMA WrapStep ==
  ASSUME RingInv, WrapAround
  PROVE  RingInv' /\ Pending' = Pending /\ Waiting' = Waiting
<1> USE LastType
<1>1. write_index = Last /\ Last \in Indices /\ 0 \in Indices
  BY SizeAssumption DEF RingInv, RingTypeOK, WrapAround, Indices, Last
<1>2. dequeue \in 0..Last /\ cycle_bit \in 0..1 /\ ccs \in 0..1
  BY DEF RingInv, RingTypeOK, Indices, Last
<1>3. SameLap
  BY <1>1, <1>2 DEF RingInv, InBounds
<1>4. ~SameLap' /\ Waiting' = Waiting
  BY <1>1, <1>2, <1>3 DEF WrapAround, SameLap, Waiting, Toggle
<1>5. RingTypeOK'
  <2>1. buf' \in [Indices -> [data : Data \cup {Nothing},
                             type : {"none", "command", "link"}, cycle : 0..1]]
    <3>1. buf \in [Indices -> [data : Data \cup {Nothing},
                              type : {"none", "command", "link"}, cycle : 0..1]]
      BY DEF RingInv, RingTypeOK
    <3>2. buf' = [buf EXCEPT ![Last].type = "link", ![Last].cycle = cycle_bit]
      BY <1>1 DEF WrapAround, WriteControl
    <3> QED
      BY <1>1, <1>2, <3>1, <3>2
  <2>2. cycle_bit' \in 0..1 /\ write_index' = 0 /\ pc' = "doorbell"
    BY <1>2 DEF WrapAround, Toggle
  <2> QED
    BY <1>1, <2>1, <2>2 DEF RingInv, RingTypeOK, WrapAround
<1>6. Laps'
  BY <1>1, <1>2 DEF RingInv, RingTypeOK, Laps, WrapAround, WriteControl, Indices, Last, Toggle
<1>7. Links'
  BY <1>1 DEF RingInv, RingTypeOK, Links, WrapAround, WriteControl, Indices, Last
<1>8. InBounds' /\ HalfWritten'
  BY <1>1, <1>2, <1>3, <1>4 DEF RingInv, InBounds, HalfWritten, Waiting, WrapAround
<1>9. RingInv'
  BY <1>5, <1>6, <1>7, <1>8 DEF RingInv
<1>10. ASSUME NEW k \in 0..(Waiting - 1)
       PROVE  buf'[Place(k)'].data = buf[Place(k)].data
  <2>1. k \in 0..(Last - 1)
    BY OwnedIsWaiting
  <2>2. Place(k) \in 0..(Last - 1)
    BY <2>1, OwnedIsWaiting
  <2>3. Place(k)' = Place(k)
    BY DEF WrapAround, Place, Ahead, AtLink
  <2> QED
    BY <1>1, <2>2, <2>3 DEF RingInv, RingTypeOK, WrapAround, WriteControl, Indices, Last
<1> QED
  BY <1>4, <1>9, <1>10, PendingKept

(* Waking the controller, or its going to sleep, touches no TRB.           *)
LEMMA DoorbellStep ==
  ASSUME RingInv, RingDoorbell \/ GoIdle
  PROVE  RingInv' /\ Pending' = Pending /\ Waiting' = Waiting
<1>1. RingTypeOK'
  BY DEF RingInv, RingTypeOK, RingDoorbell, GoIdle
<1>2. Waiting' = Waiting /\ SameLap' = SameLap
  BY DEF RingDoorbell, GoIdle, Waiting, SameLap
<1>3. RingInv'
  BY <1>1, <1>2 DEF RingInv, Laps, Links, InBounds, HalfWritten, RingDoorbell, GoIdle
<1>4. \A k \in 0..(Waiting - 1) : buf'[Place(k)'].data = buf[Place(k)].data
  BY DEF RingDoorbell, GoIdle, Place, Ahead, AtLink
<1> QED
  BY <1>2, <1>3, <1>4, PendingKept

(* The controller takes the TRB at the front.                              *)
LEMMA ExecuteStep ==
  ASSUME RingInv, Execute
  PROVE  /\ RingInv'
         /\ dequeue \in 0..(Last - 1)
         /\ dequeue = Place(0)
         /\ Waiting >= 1 /\ Waiting' = Waiting - 1
         /\ Pending # <<>>
         /\ executed' = Head(Pending)
         /\ Pending' = Tail(Pending)
<1> USE LastType
<1>1. dequeue \in 0..Last /\ write_index \in 0..Last /\ ccs \in 0..1 /\ cycle_bit \in 0..1
  BY DEF RingInv, RingTypeOK, Indices, Last
<1>2. dequeue \in 0..(Last - 1)
  BY <1>1 DEF RingInv, Links, Execute
<1>3. dequeue = Place(0)
  BY <1>2 DEF Place, Ahead, AtLink
<1>4. Waiting \in 0..(Last - 1)
  <2>1. 0 \in 0..(Last - 1)
    OBVIOUS
  <2> QED
    BY <2>1, OwnedIsWaiting
<1>5. Waiting >= 1
  <2>1. buf[dequeue].cycle = IF dequeue < write_index THEN cycle_bit ELSE Toggle(cycle_bit)
    BY <1>2 DEF RingInv, Laps, Indices, Last
  <2>2. buf[dequeue].cycle = ccs
    BY DEF Execute, OwnsFront
  <2> QED
    BY <1>1, <1>2, <2>1, <2>2 DEF RingInv, InBounds, Waiting, SameLap, Toggle
<1>6. Waiting' = Waiting - 1 /\ SameLap' = SameLap
  BY <1>1, <1>2 DEF Execute, Waiting, SameLap
<1>7. RingTypeOK'
  <2>1. dequeue' \in Indices
    BY <1>2 DEF Execute, Indices, Last
  <2>2. executed' \in Data \cup {Nothing}
    BY <1>2 DEF RingInv, RingTypeOK, Execute, Indices, Last
  <2> QED
    BY <2>1, <2>2 DEF RingInv, RingTypeOK, Execute
<1>8. InBounds'
  BY <1>1, <1>2, <1>4, <1>5, <1>6 DEF RingInv, InBounds, Waiting, SameLap, Execute
<1>9. RingInv'
  BY <1>4, <1>6, <1>7, <1>8 DEF RingInv, Laps, Links, HalfWritten, Execute
<1>10. ASSUME NEW k \in 0..(Waiting - 2)
       PROVE  buf'[Place(k)'].data = buf[Place(k + 1)].data
  <2>1. Place(k)' = Place(k + 1)
    BY <1>1, <1>2, <1>4, <1>5 DEF RingInv, InBounds, Waiting, SameLap, Execute, Place, Ahead, AtLink
  <2> QED
    BY <2>1 DEF Execute
<1>11. /\ Pending \in Seq(Data \cup {Nothing})
       /\ Len(Pending) = Waiting
       /\ \A i \in 1..Waiting : Pending[i] = buf[Place(i - 1)].data
  BY PendingIsWaiting DEF PendingLaid
<1>12. /\ Pending' \in Seq(Data \cup {Nothing})
       /\ Len(Pending') = Waiting - 1
       /\ \A i \in 1..(Waiting - 1) : Pending'[i] = buf'[Place(i - 1)'].data
  BY <1>6, <1>9, PendingIsWaitingNext DEF PendingLaid
<1>13. \A i \in 1..Len(Pending') : Pending'[i] = Pending[i + 1]
  <2>1. \A i \in 1..(Waiting - 1) : /\ i - 1 \in 0..(Waiting - 2)
                                   /\ i + 1 \in 1..Waiting
                                   /\ (i - 1) + 1 = (i + 1) - 1
    BY <1>4, <1>5
  <2> QED
    BY <1>10, <1>11, <1>12, <2>1
<1>14. Len(Pending) = Len(Pending') + 1
  BY <1>4, <1>11, <1>12
<1>15. Pending # <<>> /\ Head(Pending) = Pending[1] /\ Pending' = Tail(Pending)
  BY <1>11, <1>12, <1>13, <1>14, IsTail
<1>16. Pending[1] = executed'
  <2>1. 1 \in 1..Waiting /\ 1 - 1 = 0
    BY <1>4, <1>5
  <2>2. Pending[1] = buf[Place(0)].data
    BY <1>11, <2>1
  <2> QED
    BY <1>3, <2>2 DEF Execute
<1> QED
  BY <1>2, <1>3, <1>5, <1>6, <1>9, <1>15, <1>16

(* The link sends the controller to the lap the driver is on.              *)
LEMMA FollowStep ==
  ASSUME RingInv, FollowLink
  PROVE  RingInv' /\ Pending' = Pending /\ Waiting' = Waiting
<1> USE LastType
<1>1. dequeue \in 0..Last /\ write_index \in 0..Last /\ ccs \in 0..1 /\ cycle_bit \in 0..1
  BY DEF RingInv, RingTypeOK, Indices, Last
<1>2. dequeue = Last
  BY <1>1 DEF RingInv, Links, FollowLink
<1>3. ~SameLap
  <2>1. buf[Last].cycle = IF Last < write_index THEN cycle_bit ELSE Toggle(cycle_bit)
    BY <1>1, <1>2 DEF RingInv, RingTypeOK, Laps
  <2>2. buf[Last].cycle = ccs
    BY <1>2 DEF FollowLink, OwnsFront
  <2> QED
    BY <1>1, <2>1, <2>2 DEF SameLap, Toggle
<1>4. SameLap' /\ Waiting' = Waiting
  BY <1>1, <1>2, <1>3 DEF FollowLink, SameLap, Waiting, Toggle
<1>5. RingTypeOK'
  <2>1. 0 \in Indices
    BY SizeAssumption DEF Indices
  <2>2. ccs' \in 0..1
    BY <1>1 DEF FollowLink, Toggle
  <2> QED
    BY <2>1, <2>2 DEF RingInv, RingTypeOK, FollowLink
<1>6. InBounds' /\ HalfWritten'
  BY <1>1, <1>4 DEF RingInv, InBounds, HalfWritten, Waiting, FollowLink
<1>7. RingInv'
  BY <1>5, <1>6 DEF RingInv, Laps, Links, FollowLink
<1>8. \A k \in 0..(Waiting - 1) : buf'[Place(k)'].data = buf[Place(k)].data
  <2>1. ASSUME NEW k \in 0..(Waiting - 1)
        PROVE  Place(k)' = Place(k)
    BY <1>2, OwnedIsWaiting DEF FollowLink, Place, Ahead, AtLink
  <2> QED
    BY <2>1 DEF FollowLink
<1> QED
  BY <1>4, <1>7, <1>8, PendingKept

-----------------------------------------------------------------------------
(* The event ring.                                                         *)

(* How many events lie between ERDP and the controller, where the k-th of  *)
(* them lies, and how many of them are handled but not popped.             *)
Held    == IF enqueue >= erdp THEN enqueue - erdp ELSE enqueue + SegmentSize - erdp
Spot(k) == IF erdp + k >= SegmentSize THEN erdp + k - SegmentSize ELSE erdp + k
Done    == IF handling = "pop" THEN 1 ELSE 0

EventLaps == \A i \in Slots :
               segment[i].cycle = IF i < enqueue THEN pcs ELSE Opposite(pcs)

(* Equal cycle bits: the controller is on the driver's lap, at ERDP at the *)
(* least; otherwise it is a lap ahead and has not reached ERDP.            *)
NotPast == IF pcs = consumer THEN erdp <= enqueue ELSE enqueue < erdp

(* A handler runs on an event, which stays at ERDP until it is popped.     *)
OnEvent == handling # "poll" => erdp # enqueue

EventInv == EventTypeOK /\ EventLaps /\ NotPast /\ OnEvent

(* Unhandled by the places of the segment.                                 *)
UnhandledLaid ==
  /\ Unhandled \in Seq(Events \cup {NoEvent})
  /\ Held \in 0..(SegmentSize - 1)
  /\ Done \in 0..1 /\ Done <= Held
  /\ Len(Unhandled) = Held - Done
  /\ \A i \in 1..(Held - Done) : Unhandled[i] = segment[Spot(Done + i - 1)].event

(* The unhandled events are those held, without the one at work.           *)
LEMMA UnhandledIsLaid == EventInv => UnhandledLaid
<1> SUFFICES ASSUME EventInv PROVE UnhandledLaid
  OBVIOUS
<1> USE SegmentAssumption
<1>1. erdp \in 0..(SegmentSize - 1) /\ enqueue \in 0..(SegmentSize - 1)
  BY DEF EventInv, EventTypeOK, Slots
<1>2. Held \in 0..(SegmentSize - 1) /\ Done \in 0..1 /\ Done <= Held
  BY <1>1 DEF Held, Done, EventInv, OnEvent
<1>3. Distance = Held
  <2>1. CASE enqueue >= erdp
    <3>1. enqueue + SegmentSize - erdp \in SegmentSize..(2 * SegmentSize - 1)
      BY <1>1, <2>1
    <3> QED
      BY <1>1, <2>1, <3>1, ModOnce DEF Distance, Held
  <2>2. CASE enqueue < erdp
    <3>1. enqueue + SegmentSize - erdp \in 0..(SegmentSize - 1)
      BY <1>1, <2>2
    <3> QED
      BY <1>1, <2>2, <3>1, ModSmall DEF Distance, Held
  <2> QED
    BY <1>1, <2>1, <2>2
<1>4. ASSUME NEW i \in 1..(Held - Done)
      PROVE  /\ (erdp + Done + i - 1) % SegmentSize = Spot(Done + i - 1)
             /\ Spot(Done + i - 1) \in Slots
  <2>1. Done + i - 1 \in 0..(SegmentSize - 2)
    BY <1>2
  <2> DEFINE k == Done + i - 1
  <2>2. erdp + Done + i - 1 = erdp + k /\ k \in 0..(SegmentSize - 2)
    BY <1>1, <1>2, <2>1
  <2> HIDE DEF k
  <2>3. CASE erdp + k >= SegmentSize
    <3>1. erdp + k \in SegmentSize..(2 * SegmentSize - 1)
      BY <1>1, <2>2, <2>3
    <3>2. PICK a \in SegmentSize..(2 * SegmentSize - 1) : a = erdp + k
      BY <3>1
    <3>3. a % SegmentSize = a - SegmentSize
      BY ModOnce
    <3> QED
      BY <1>1, <2>2, <2>3, <3>2, <3>3 DEF Spot, Slots, k
  <2>4. CASE erdp + k < SegmentSize
    <3>1. erdp + k \in 0..(SegmentSize - 1)
      BY <1>1, <2>2, <2>4
    <3>2. (erdp + k) % SegmentSize = erdp + k
      BY <3>1, ModSmall
    <3> QED
      BY <1>1, <2>2, <2>4, <3>2 DEF Spot, Slots, k
  <2> QED
    BY <1>1, <2>2, <2>3, <2>4
<1>5. Unhandled = [i \in 1..(Held - Done) |-> segment[(erdp + Done + i - 1) % SegmentSize].event]
  BY <1>3 DEF Unhandled, Done
<1>6. Unhandled = [i \in 1..(Held - Done) |-> segment[Spot(Done + i - 1)].event]
  BY <1>4, <1>5
<1>7. \A i \in 1..(Held - Done) : segment[Spot(Done + i - 1)].event \in Events \cup {NoEvent}
  BY <1>4 DEF EventInv, EventTypeOK
<1>8. Unhandled \in Seq(Events \cup {NoEvent}) /\ Len(Unhandled) = Held - Done
  BY <1>2, <1>6, <1>7
<1> QED
  BY <1>2, <1>6, <1>8 DEF UnhandledLaid

(* And in the state after a step.                                          *)
LEMMA UnhandledIsLaidNext == EventInv' => UnhandledLaid'
BY UnhandledIsLaid, PTL

(* The slot after i, without the remainder.                                *)
LEMMA FollowingIs ==
  ASSUME NEW i \in Slots
  PROVE  /\ Following(i) = IF i = SegmentSize - 1 THEN 0 ELSE i + 1
         /\ Following(i) \in Slots
<1> USE SegmentAssumption
<1>1. CASE i = SegmentSize - 1
  <2>1. i + 1 \in SegmentSize..(2 * SegmentSize - 1)
    BY <1>1
  <2> QED
    BY <1>1, <2>1, ModOnce DEF Following, Slots
<1>2. CASE i # SegmentSize - 1
  <2>1. i + 1 \in 0..(SegmentSize - 1)
    BY <1>2 DEF Slots
  <2> QED
    BY <1>2, <2>1, ModSmall DEF Following, Slots
<1> QED
  BY <1>1, <1>2

(* A segment that Initialize has just set up is empty (ring.cpp:56-92).    *)
LEMMA EventStarts ==
  ASSUME EventInit
  PROVE  EventInv /\ Unhandled = <<>>
<1> USE SegmentAssumption
<1>1. segment \in [Slots -> [event : Events \cup {NoEvent}, cycle : 0..1]]
  BY DEF EventInit
<1>2. 0 \in Slots
  BY DEF Slots
<1>3. EventInv
  BY <1>1, <1>2 DEF EventInit, EventInv, EventTypeOK, EventLaps, NotPast, OnEvent, Slots, Opposite
<1>4. Unhandled \in Seq(Events \cup {NoEvent}) /\ Len(Unhandled) = 0
  BY <1>3, UnhandledIsLaid DEF UnhandledLaid, EventInit, Held, Done
<1> QED
  BY <1>3, <1>4, EmptySeq

(* The controller puts an event at the end of the queue.                   *)
LEMMA PostStep ==
  ASSUME EventInv, NEW e \in Events, PostEvent(e)
  PROVE  /\ EventInv'
         /\ Unhandled' = Append(Unhandled, e)
         /\ Len(Unhandled) < SegmentSize - 1
<1> USE SegmentAssumption
<1>1. erdp \in 0..(SegmentSize - 1) /\ enqueue \in 0..(SegmentSize - 1)
      /\ pcs \in 0..1 /\ consumer \in 0..1
  BY DEF EventInv, EventTypeOK, Slots
<1>2. /\ Following(enqueue) = IF enqueue = SegmentSize - 1 THEN 0 ELSE enqueue + 1
      /\ Following(enqueue) \in Slots
  BY <1>1, FollowingIs DEF Slots
<1>3. /\ Unhandled \in Seq(Events \cup {NoEvent})
      /\ Held \in 0..(SegmentSize - 1)
      /\ Done \in 0..1 /\ Done <= Held
      /\ Len(Unhandled) = Held - Done
      /\ \A i \in 1..(Held - Done) : Unhandled[i] = segment[Spot(Done + i - 1)].event
  BY UnhandledIsLaid DEF UnhandledLaid
<1>4. Held < SegmentSize - 1 /\ Held' = Held + 1 /\ Done' = Done
  BY <1>1, <1>2 DEF PostEvent, Held, Done
<1>5. EventTypeOK'
  <2>1. segment' \in [Slots -> [event : Events \cup {NoEvent}, cycle : 0..1]]
    BY <1>1 DEF EventInv, EventTypeOK, PostEvent, Slots
  <2>2. pcs' \in 0..1 /\ enqueue' \in Slots
    BY <1>1, <1>2 DEF PostEvent, Opposite
  <2> QED
    BY <2>1, <2>2 DEF EventInv, EventTypeOK, PostEvent
<1>6. EventLaps'
  BY <1>1, <1>2 DEF EventInv, EventTypeOK, EventLaps, PostEvent, Opposite, Slots
<1>7. NotPast' /\ OnEvent'
  BY <1>1, <1>2 DEF EventInv, NotPast, OnEvent, PostEvent, Opposite
<1>8. EventInv'
  BY <1>5, <1>6, <1>7 DEF EventInv
<1>9. ASSUME NEW k \in 0..Held
      PROVE  /\ Spot(k)' = Spot(k)
             /\ segment'[Spot(k)].event = IF k = Held THEN e ELSE segment[Spot(k)].event
  <2>1. Spot(k)' = Spot(k)
    BY DEF PostEvent, Spot
  <2>2. Spot(k) \in Slots /\ (Spot(k) = enqueue <=> k = Held)
    BY <1>1, <1>3, <1>4 DEF Spot, Held, Slots
  <2> QED
    BY <1>1, <2>1, <2>2 DEF EventInv, EventTypeOK, PostEvent, Slots
<1>10. /\ Unhandled' \in Seq(Events \cup {NoEvent})
       /\ Len(Unhandled') = Held' - Done'
       /\ \A i \in 1..(Held' - Done') :
            Unhandled'[i] = segment'[Spot(Done + i - 1)'].event
  BY <1>8, UnhandledIsLaidNext DEF UnhandledLaid
<1>11. \A i \in 1..(Held + 1 - Done) :
         Unhandled'[i] = IF i = Held + 1 - Done THEN e ELSE segment[Spot(Done + i - 1)].event
  <2>1. ASSUME NEW i \in 1..(Held + 1 - Done)
        PROVE  Unhandled'[i] = IF i = Held + 1 - Done THEN e ELSE segment[Spot(Done + i - 1)].event
    <3>1. PICK k \in 0..Held : k = Done + i - 1
      BY <1>3
    <3>2. Unhandled'[i] = segment'[Spot(k)'].event
      BY <1>3, <1>4, <1>10, <3>1 DEF Spot
    <3>3. k = Held <=> i = Held + 1 - Done
      BY <1>3, <3>1
    <3> QED
      BY <1>9, <3>1, <3>2, <3>3
  <2> QED
    BY <2>1
<1>12. Unhandled' = Append(Unhandled, e)
  <2>1. \A i \in 1..Len(Unhandled) : Unhandled'[i] = Unhandled[i]
    BY <1>3, <1>11
  <2>2. Unhandled'[Len(Unhandled')] = e /\ Len(Unhandled') = Len(Unhandled) + 1
    BY <1>3, <1>4, <1>10, <1>11
  <2>3. e \in Events \cup {NoEvent}
    OBVIOUS
  <2> QED
    BY <1>3, <1>10, <2>1, <2>2, <2>3, IsAppend
<1> QED
  BY <1>3, <1>4, <1>8, <1>12

(* A handler that returns takes the event at the front.                    *)
LEMMA EndStep ==
  ASSUME EventInv, EndHandler
  PROVE  /\ EventInv'
         /\ Unhandled # <<>>
         /\ Front.event = Head(Unhandled)
         /\ handled' = Head(Unhandled)
         /\ Unhandled' = Tail(Unhandled)
<1> USE SegmentAssumption
<1>1. erdp \in 0..(SegmentSize - 1)
  BY DEF EventInv, EventTypeOK, Slots
<1>2. /\ Unhandled \in Seq(Events \cup {NoEvent})
      /\ Held \in 0..(SegmentSize - 1)
      /\ Len(Unhandled) = Held - Done
      /\ \A i \in 1..(Held - Done) : Unhandled[i] = segment[Spot(Done + i - 1)].event
  BY UnhandledIsLaid DEF UnhandledLaid
<1>3. Done = 0 /\ Done' = 1 /\ Held' = Held
  BY DEF EndHandler, Done, Held
<1>4. Held >= 1
  <2>1. enqueue \in 0..(SegmentSize - 1)
    BY DEF EventInv, EventTypeOK, Slots
  <2> QED
    BY <1>1, <2>1 DEF EventInv, OnEvent, EndHandler, Held
<1>5. EventTypeOK'
  <2>1. handled' \in Events \cup {NoEvent}
    BY DEF EventInv, EventTypeOK, EndHandler, Front
  <2> QED
    BY <2>1 DEF EventInv, EventTypeOK, EndHandler
<1>6. EventInv'
  BY <1>5 DEF EventInv, EventLaps, NotPast, OnEvent, EndHandler
<1>7. /\ Unhandled' \in Seq(Events \cup {NoEvent})
      /\ Len(Unhandled') = Held' - Done'
      /\ \A i \in 1..(Held' - Done') : Unhandled'[i] = segment'[Spot(Done + i - 1)'].event
  BY <1>6, UnhandledIsLaidNext DEF UnhandledLaid
<1>8. \A i \in 1..Len(Unhandled') : Unhandled'[i] = Unhandled[i + 1]
  <2>1. ASSUME NEW i \in 1..(Held - 1)
        PROVE  Unhandled'[i] = Unhandled[i + 1]
    <3>1. PICK k \in 0..Held : k = i
      BY <1>2
    <3>2. Unhandled'[i] = segment'[Spot(k)'].event
      BY <1>2, <1>3, <1>7, <3>1 DEF Spot
    <3>3. Unhandled[i + 1] = segment[Spot(k)].event
      BY <1>2, <1>3, <3>1 DEF Spot
    <3>4. Spot(k)' = Spot(k)
      BY DEF Spot, EndHandler
    <3> QED
      BY <3>2, <3>3, <3>4 DEF EndHandler
  <2> QED
    BY <1>2, <1>3, <1>7, <2>1
<1>9. Len(Unhandled) = Len(Unhandled') + 1
  BY <1>2, <1>3, <1>7
<1>10. Unhandled # <<>> /\ Head(Unhandled) = Unhandled[1] /\ Unhandled' = Tail(Unhandled)
  BY <1>2, <1>7, <1>8, <1>9, IsTail
<1>11. Front.event = Unhandled[1]
  <2>1. Unhandled[1] = segment[Spot(0)].event
    BY <1>2, <1>3, <1>4
  <2>2. Spot(0) = erdp
    BY <1>1 DEF Spot
  <2> QED
    BY <2>1, <2>2 DEF Front
<1>12. handled' = Front.event
  BY DEF EndHandler
<1> QED
  BY <1>6, <1>10, <1>11, <1>12

(* Looking at the front and giving its slot back take nothing out.         *)
LEMMA LoopStep ==
  ASSUME EventInv, BeginHandler \/ Pop
  PROVE  EventInv' /\ Unhandled' = Unhandled
<1> USE SegmentAssumption
<1>1. /\ erdp \in 0..(SegmentSize - 1) /\ enqueue \in 0..(SegmentSize - 1)
      /\ pcs \in 0..1 /\ consumer \in 0..1
  BY DEF EventInv, EventTypeOK, Slots
<1>2. /\ Unhandled \in Seq(Events \cup {NoEvent})
      /\ Held \in 0..(SegmentSize - 1)
      /\ Done \in 0..1 /\ Done <= Held
      /\ Len(Unhandled) = Held - Done
      /\ \A i \in 1..(Held - Done) : Unhandled[i] = segment[Spot(Done + i - 1)].event
  BY UnhandledIsLaid DEF UnhandledLaid
<1>3. CASE BeginHandler
  <2>1. erdp # enqueue
    <3>1. segment[erdp].cycle = IF erdp < enqueue THEN pcs ELSE Opposite(pcs)
      BY <1>1 DEF EventInv, EventLaps, Slots
    <3>2. segment[erdp].cycle = consumer
      BY <1>3 DEF BeginHandler, HasFront, Front
    <3> QED
      BY <1>1, <3>1, <3>2 DEF EventInv, NotPast, Opposite
  <2>2. EventTypeOK'
    BY <1>3 DEF EventInv, EventTypeOK, BeginHandler
  <2>3. EventInv'
    BY <1>3, <2>1, <2>2 DEF EventInv, EventLaps, NotPast, OnEvent, BeginHandler
  <2>4. Unhandled' = Unhandled
    BY <1>3 DEF BeginHandler, Unhandled, Distance
  <2> QED
    BY <2>3, <2>4
<1>4. CASE Pop
  <2>1. /\ Following(erdp) = IF erdp = SegmentSize - 1 THEN 0 ELSE erdp + 1
        /\ Following(erdp) \in Slots
    BY <1>1, FollowingIs DEF Slots
  <2>2. erdp # enqueue /\ Done = 1 /\ Done' = 0
    BY <1>4 DEF EventInv, OnEvent, Pop, Done
  <2>3. Held' = Held - 1
    BY <1>1, <1>4, <2>1, <2>2 DEF Pop, Held
  <2>4. EventTypeOK'
    <3>1. consumer' \in 0..1
      BY <1>1, <1>4 DEF Pop, Opposite
    <3> QED
      BY <1>4, <2>1, <3>1 DEF EventInv, EventTypeOK, Pop
  <2>5. NotPast'
    BY <1>1, <1>4, <2>1, <2>2 DEF EventInv, NotPast, Pop, Opposite
  <2>6. EventInv'
    BY <1>4, <2>4, <2>5 DEF EventInv, EventLaps, OnEvent, Pop
  <2>7. /\ Unhandled' \in Seq(Events \cup {NoEvent})
        /\ Len(Unhandled') = Held' - Done'
        /\ \A i \in 1..(Held' - Done') : Unhandled'[i] = segment'[Spot(Done + i - 1)'].event
    BY <2>6, UnhandledIsLaidNext DEF UnhandledLaid
  <2>8. ASSUME NEW i \in 1..(Held - 1)
        PROVE  Unhandled'[i] = Unhandled[i]
    <3>1. PICK k \in 0..(Held - 2) : k = i - 1
      BY <1>2
    <3>2. Unhandled'[i] = segment'[Spot(k)'].event
      BY <1>2, <2>2, <2>3, <2>7, <3>1 DEF Spot
    <3>3. Unhandled[i] = segment[Spot(k + 1)].event
      BY <1>2, <2>2, <3>1 DEF Spot
    <3>4. Spot(k)' = Spot(k + 1)
      BY <1>1, <1>2, <1>4, <2>1 DEF Spot, Pop
    <3> QED
      BY <1>4, <3>2, <3>3, <3>4 DEF Pop
  <2>9. Len(Unhandled') = Len(Unhandled) /\ \A i \in 1..Len(Unhandled') : Unhandled'[i] = Unhandled[i]
    BY <1>2, <2>2, <2>3, <2>7, <2>8
  <2>10. Unhandled' = Unhandled
    BY <1>2, <2>7, <2>9, SeqEqual
  <2> QED
    BY <2>6, <2>10
<1> QED
  BY <1>3, <1>4

-----------------------------------------------------------------------------
(* Both rings together.                                                    *)

(* Slot and number of the k-th last command, and the k of a number.        *)
Back(k)   == IF write_index >= k THEN write_index - k ELSE write_index + Last - k
Number(k) == IF next >= k THEN next - k ELSE next + Count - k
Age(d)    == IF next > d THEN next - d ELSE next + Count - d

AgeOf(i)     == Age(Unhandled[i].command)
Completes(i) == i \in 1..Len(Unhandled) /\ IsCompletion(Unhandled[i])

(* The commands not answered are those waiting in the ring and those whose *)
(* completion waits; there is room for the one being written.              *)
Room == /\ Waiting <= Unanswered /\ Unanswered <= MaxPending
        /\ pc = "control" => Unanswered < MaxPending

(* None of their TRBs has been written over.                               *)
Written == \A k \in 1..Unanswered : /\ buf[Back(k)].type = "command"
                                    /\ buf[Back(k)].data = Number(k)

(* A completion is one of an executed command and points to its TRB.       *)
Genuine == \A i \in 1..Len(Unhandled) : Completes(i) =>
             /\ AgeOf(i) \in (Waiting + 1)..Unanswered
             /\ Unhandled[i].pointer = Back(AgeOf(i))

(* Older commands are completed first, and none is left out.               *)
InOrder  == \A i, j \in 1..Len(Unhandled) :
              i < j /\ Completes(i) /\ Completes(j) => AgeOf(i) > AgeOf(j)
NoneLost == \A k \in (Waiting + 1)..Unanswered :
              \E i \in 1..Len(Unhandled) : Completes(i) /\ AgeOf(i) = k

PathInv == /\ RingInv /\ EventInv
           /\ pc # "idle" => handling = "handle"
           /\ answered \in Data \cup {Nothing}
           /\ answers \in Data
           /\ Room /\ Written /\ Genuine /\ InOrder /\ NoneLost

-----------------------------------------------------------------------------
(* Numbers and ages.                                                       *)

(* The number of unanswered commands, without the remainder.               *)
LEMMA UnansweredIs ==
  ASSUME next \in Data, answers \in Data
  PROVE  /\ Unanswered = IF next >= answers THEN next - answers
                                           ELSE next + Count - answers
         /\ Unanswered \in 0..(Count - 1)
<1> USE LastType
<1>1. CASE next >= answers
  <2>1. next + Count - answers \in Count..(2 * Count - 1)
    BY <1>1 DEF Data
  <2>2. PICK a \in Count..(2 * Count - 1) : a = next + Count - answers
    BY <2>1
  <2>3. a % Count = a - Count
    BY ModOnce
  <2> QED
    BY <1>1, <2>2, <2>3 DEF Unanswered, Data
<1>2. CASE next < answers
  <2>1. PICK a \in 0..(Count - 1) : a = next + Count - answers
    BY <1>2 DEF Data
  <2>2. a % Count = a
    BY ModSmall
  <2> QED
    BY <1>2, <2>1, <2>2 DEF Unanswered, Data
<1> QED
  BY <1>1, <1>2 DEF Data

(* The number after d, without the remainder.                              *)
LEMMA SuccessorIs ==
  ASSUME NEW d \in Data
  PROVE  /\ (d + 1) % Count = IF d = Count - 1 THEN 0 ELSE d + 1
         /\ (d + 1) % Count \in Data
<1> USE LastType
<1>1. CASE d = Count - 1
  <2>1. d + 1 \in Count..(2 * Count - 1)
    BY <1>1
  <2> QED
    BY <1>1, <2>1, ModOnce DEF Data
<1>2. CASE d # Count - 1
  <2>1. d + 1 \in 0..(Count - 1)
    BY <1>2 DEF Data
  <2> QED
    BY <1>2, <2>1, ModSmall DEF Data
<1> QED
  BY <1>1, <1>2

(* Counting back from next names every number exactly once.                *)
LEMMA AgesAreNumbers ==
  ASSUME next \in Data
  PROVE  /\ \A k \in 1..Count : Number(k) \in Data /\ Age(Number(k)) = k
         /\ \A d \in Data : Age(d) \in 1..Count /\ Number(Age(d)) = d
BY LastType DEF Data, Number, Age

(* Outstanding by its places: the numbers from answers on, wrapped once.   *)
OutstandingLaid ==
  /\ Outstanding \in Seq(Data \cup {Nothing})
  /\ Len(Outstanding) = Unanswered
  /\ Unanswered \in 0..(Count - 1)
  /\ \A i \in 1..Unanswered :
       Outstanding[i] = IF answers + i - 1 >= Count THEN answers + i - 1 - Count
                                                    ELSE answers + i - 1

(* Outstanding is laid out like that in every typed state.                 *)
LEMMA OutstandingIsLaid == next \in Data /\ answers \in Data => OutstandingLaid
<1> SUFFICES ASSUME next \in Data, answers \in Data
             PROVE  OutstandingLaid
  OBVIOUS
<1> USE LastType
<1>1. Unanswered \in 0..(Count - 1)
  BY UnansweredIs
<1>2. ASSUME NEW i \in 1..Unanswered
      PROVE  /\ (answers + i - 1) % Count
                   = IF answers + i - 1 >= Count THEN answers + i - 1 - Count
                                                 ELSE answers + i - 1
             /\ (answers + i - 1) % Count \in Data
  <2>1. PICK a \in 0..(2 * Count - 1) : a = answers + i - 1
    BY <1>1 DEF Data
  <2>2. CASE a >= Count
    <3>1. a \in Count..(2 * Count - 1)
      BY <2>2
    <3>2. a % Count = a - Count
      BY <3>1, ModOnce
    <3> QED
      BY <2>1, <2>2, <3>1, <3>2 DEF Data
  <2>3. CASE a < Count
    <3>1. a \in 0..(Count - 1)
      BY <2>3
    <3>2. a % Count = a
      BY <3>1, ModSmall
    <3> QED
      BY <2>1, <2>3, <3>1, <3>2 DEF Data
  <2> QED
    BY <2>1, <2>2, <2>3
<1>3. Outstanding \in Seq(Data \cup {Nothing}) /\ Len(Outstanding) = Unanswered
  BY <1>1, <1>2 DEF Outstanding
<1>4. \A i \in 1..Unanswered : Outstanding[i] = (answers + i - 1) % Count
  BY DEF Outstanding
<1> QED
  BY <1>1, <1>2, <1>3, <1>4 DEF OutstandingLaid

(* And in the state after a step.                                          *)
LEMMA OutstandingIsLaidNext == PathInv' => OutstandingLaid'
<1>1. PathInv => next \in Data /\ answers \in Data
  BY DEF PathInv, RingInv, RingTypeOK
<1>2. PathInv => OutstandingLaid
  BY <1>1, OutstandingIsLaid
<1> QED
  BY <1>2, PTL

-----------------------------------------------------------------------------
(* The invariant.                                                          *)

(* Nothing is outstanding when the controller is set up (ring.cpp:12-28).  *)
LEMMA PathStarts == Init => PathInv /\ Outstanding = <<>>
<1> SUFFICES ASSUME Init PROVE PathInv /\ Outstanding = <<>>
  OBVIOUS
<1> USE LastType
<1>1. RingInv /\ Waiting = 0
  BY RingStarts DEF Init
<1>2. EventInv /\ Unhandled = <<>>
  BY EventStarts DEF Init
<1>3. next = 0 /\ answers = 0 /\ 0 \in Data /\ answered = Nothing /\ pc = "idle"
  BY DEF Init, RingInit, Data
<1>4. Unanswered = 0
  BY <1>3, UnansweredIs
<1>5. Len(Unhandled) = 0
  BY <1>2
<1>6. Room /\ Written /\ NoneLost
  BY <1>1, <1>3, <1>4 DEF Room, Written, NoneLost
<1>7. Genuine /\ InOrder
  BY <1>5 DEF Genuine, InOrder
<1>8. Outstanding = <<>>
  <2>1. OutstandingLaid
    BY <1>3, OutstandingIsLaid
  <2> QED
    BY <1>4, <2>1, EmptySeq DEF OutstandingLaid
<1> QED
  BY <1>1, <1>2, <1>3, <1>6, <1>7, <1>8 DEF PathInv

(* A step of one end of the command ring that neither hands a TRB over nor *)
(* executes one leaves the whole path as it is.                            *)
LEMMA QuietStep ==
  ASSUME PathInv, RingInv', Waiting' = Waiting,
         UNCHANGED <<next, eventVars, answered, answers>>,
         pc' # "idle" => handling = "handle",
         pc' = "control" => Unanswered < MaxPending,
         \A k \in 1..Unanswered : /\ Back(k)' = Back(k)
                                  /\ buf'[Back(k)].type = buf[Back(k)].type
                                  /\ buf'[Back(k)].data = buf[Back(k)].data
  PROVE  PathInv' /\ Outstanding' = Outstanding
<1> USE LastType
<1>1. Unanswered' = Unanswered /\ Outstanding' = Outstanding
  BY DEF Unanswered, Outstanding
<1>2. Unhandled' = Unhandled /\ EventInv'
  BY DEF PathInv, eventVars, Unhandled, Distance, EventInv, EventTypeOK, EventLaps, NotPast, OnEvent
<1>3. \A i : AgeOf(i)' = AgeOf(i) /\ Completes(i)' = Completes(i)
  BY <1>2 DEF AgeOf, Age, Completes
<1>4. Room'
  BY <1>1 DEF PathInv, Room
<1>5. Written'
  BY <1>1 DEF PathInv, Written, Number
<1>6. Genuine'
  <2>1. ASSUME NEW i \in 1..Len(Unhandled), Completes(i)
        PROVE  Unhandled'[i].pointer = Back(AgeOf(i))'
    <3>1. AgeOf(i) \in (Waiting + 1)..Unanswered /\ Unhandled[i].pointer = Back(AgeOf(i))
      BY <2>1 DEF PathInv, Genuine
    <3>2. Waiting \in 0..(Last - 1)
      BY PendingIsWaiting DEF PathInv, PendingLaid
    <3>3. PICK k \in 1..Unanswered : k = AgeOf(i)
      BY <3>1, <3>2
    <3>4. AgeOf(i)' = k
      BY <1>3, <3>3
    <3>5. Back(k)' = Back(AgeOf(i))'
      BY <3>4 DEF Back
    <3> QED
      BY <1>2, <3>1, <3>3, <3>5
  <2> QED
    BY <1>1, <1>2, <1>3, <2>1 DEF PathInv, Genuine
<1>7. InOrder'
  BY <1>2, <1>3 DEF PathInv, InOrder
<1>8. NoneLost'
  BY <1>1, <1>2, <1>3 DEF PathInv, NoneLost
<1> QED
  BY <1>1, <1>2, <1>4, <1>5, <1>6, <1>7, <1>8 DEF PathInv, eventVars

(* Where the commands that are not answered lie.                           *)
LEMMA BackIsSlot ==
  ASSUME PathInv, NEW k \in 1..Unanswered
  PROVE  /\ Back(k) \in 0..(Last - 1)
         /\ Unanswered \in 0..MaxPending
         /\ Waiting \in 0..Unanswered
<1> USE LastType
<1>1. Waiting \in 0..(Last - 1) /\ Unanswered \in 0..(Count - 1)
  BY PendingIsWaiting, UnansweredIs DEF PathInv, PendingLaid, RingInv, RingTypeOK
<1>2. write_index \in 0..Last
  BY DEF PathInv, RingInv, RingTypeOK, Indices, Last
<1> QED
  BY <1>1, <1>2 DEF PathInv, Room, Back

(* A handler begins to push when there is room (xhci.cpp:112-129).         *)
LEMMA PushesStep ==
  ASSUME PathInv, HandlerPushes
  PROVE  PathInv' /\ Outstanding' = Outstanding /\ Pending' = Pending
<1> USE LastType
<1>1. Unanswered < MaxPending /\ Push /\ handling = "handle"
      /\ UNCHANGED <<next, eventVars, answered, answers>>
  BY DEF HandlerPushes, Push
<1>2. Waiting < MaxPending
  <2>1. Waiting \in 0..(Last - 1) /\ Unanswered \in 0..(Count - 1)
    BY PendingIsWaiting, UnansweredIs DEF PathInv, PendingLaid, RingInv, RingTypeOK
  <2> QED
    BY <1>1, <2>1 DEF PathInv, Room
<1>3. RingInv' /\ Pending' = Pending /\ Waiting' = Waiting
  BY <1>1, <1>2, PushStep DEF PathInv
<1>4. ASSUME NEW k \in 1..Unanswered
      PROVE  /\ Back(k)' = Back(k)
             /\ buf'[Back(k)].type = buf[Back(k)].type
             /\ buf'[Back(k)].data = buf[Back(k)].data
  <2>1. Back(k)' = Back(k)
    BY <1>1 DEF Push, Back
  <2>2. Back(k) \in 0..(Last - 1) /\ Unanswered \in 0..MaxPending
    BY BackIsSlot
  <2>3. write_index \in 0..Last
    BY DEF PathInv, RingInv, RingTypeOK, Indices, Last
  <2>4. Back(k) # write_index
    BY <2>2, <2>3 DEF Back
  <2> QED
    BY <1>1, <2>1, <2>2, <2>3, <2>4 DEF PathInv, RingInv, RingTypeOK, Push, WriteData, Indices, Last
<1>5. PathInv' /\ Outstanding' = Outstanding
  BY <1>1, <1>3, <1>4, QuietStep
<1> QED
  BY <1>3, <1>5

(* The two stores of the Link TRB change no command (ring.cpp:44-51).      *)
LEMMA LinkStep ==
  ASSUME PathInv, WriteLinkData \/ WrapAround, UNCHANGED <<eventVars, answered, answers>>
  PROVE  PathInv' /\ Outstanding' = Outstanding /\ Pending' = Pending
<1> USE LastType
<1>1. RingInv' /\ Pending' = Pending /\ Waiting' = Waiting
  BY LinkDataStep, WrapStep DEF PathInv
<1>2. write_index = Last /\ Last \in Indices
  BY SizeAssumption DEF PathInv, RingInv, RingTypeOK, WriteLinkData, WrapAround, Indices, Last
<1>3. pc # "idle" /\ UNCHANGED next /\ pc' # "control"
  BY DEF WriteLinkData, WrapAround
<1>4. handling = "handle"
  BY <1>3 DEF PathInv
<1>5. ASSUME NEW k \in 1..Unanswered
      PROVE  /\ Back(k)' = Back(k)
             /\ buf'[Back(k)].type = buf[Back(k)].type
             /\ buf'[Back(k)].data = buf[Back(k)].data
  <2>1. Back(k) \in 0..(Last - 1) /\ Unanswered \in 0..MaxPending
    BY BackIsSlot
  <2>2. Back(k)' = Back(k)
    BY <1>2, <2>1 DEF WriteLinkData, WrapAround, Back
  <2>3. Back(k) # write_index /\ Back(k) \in Indices
    BY <1>2, <2>1 DEF Indices, Last
  <2>4. \/ buf' = [buf EXCEPT ![write_index].data = Nothing]
        \/ buf' = [buf EXCEPT ![write_index].type = "link", ![write_index].cycle = cycle_bit]
    BY DEF WriteLinkData, WrapAround, WriteData, WriteControl
  <2>5. buf'[Back(k)] = buf[Back(k)]
    BY <1>2, <2>3, <2>4 DEF PathInv, RingInv, RingTypeOK
  <2> QED
    BY <2>2, <2>5
<1>6. PathInv' /\ Outstanding' = Outstanding
  BY <1>1, <1>3, <1>4, <1>5, QuietStep
<1> QED
  BY <1>1, <1>6

(* The doorbell and the controller looking at the ring answer nothing.     *)
LEMMA BellStep ==
  ASSUME PathInv, RingDoorbell \/ GoIdle \/ FollowLink, UNCHANGED <<eventVars, answered, answers>>
  PROVE  PathInv' /\ Outstanding' = Outstanding /\ Pending' = Pending
<1>1. RingInv' /\ Pending' = Pending /\ Waiting' = Waiting
  BY DoorbellStep, FollowStep DEF PathInv
<1>2. UNCHANGED next /\ (pc' = pc \/ pc' = "idle")
  BY DEF RingDoorbell, GoIdle, FollowLink
<1>3. pc' # "idle" => handling = "handle"
  BY <1>2 DEF PathInv
<1>4. pc' = "control" => Unanswered < MaxPending
  BY <1>2 DEF PathInv, Room
<1>5. \A k \in 1..Unanswered : /\ Back(k)' = Back(k)
                               /\ buf'[Back(k)].type = buf[Back(k)].type
                               /\ buf'[Back(k)].data = buf[Back(k)].data
  BY DEF RingDoorbell, GoIdle, FollowLink, Back
<1>6. PathInv' /\ Outstanding' = Outstanding
  BY <1>1, <1>2, <1>3, <1>4, <1>5, QuietStep
<1> QED
  BY <1>1, <1>6

(* The command handed over is the youngest: the others grow older by one.  *)
LEMMA AdvancesStep ==
  ASSUME PathInv, Advance, UNCHANGED <<eventVars, answered, answers>>
  PROVE  /\ PathInv'
         /\ next \in Data
         /\ Outstanding' = Append(Outstanding, next)
         /\ Len(Outstanding) < MaxPending
         /\ Pending' = Append(Pending, next)
<1> USE LastType
<1>1. RingInv' /\ Waiting' = Waiting + 1 /\ next \in Data /\ Pending' = Append(Pending, next)
  BY AdvanceStep DEF PathInv
<1>2. /\ Waiting \in 0..(Last - 1) /\ Unanswered \in 0..(Count - 1)
      /\ Waiting <= Unanswered /\ Unanswered < MaxPending /\ answers \in Data
      /\ write_index \in 0..(Last - 1)
  <2>1. Waiting \in 0..(Last - 1) /\ Unanswered \in 0..(Count - 1)
    BY PendingIsWaiting, UnansweredIs DEF PathInv, PendingLaid, RingInv, RingTypeOK
  <2>2. write_index \in 0..(Last - 1)
    BY DEF PathInv, RingInv, RingTypeOK, Advance, Indices, Last
  <2> QED
    BY <2>1, <2>2 DEF PathInv, Room, Advance
<1>3. next' = (IF next = Count - 1 THEN 0 ELSE next + 1) /\ next' \in Data /\ answers' = answers
  BY <1>1, SuccessorIs DEF Advance
<1>4. Unanswered' = Unanswered + 1
  <2>1. Unanswered = IF next >= answers THEN next - answers ELSE next + Count - answers
    BY <1>1, <1>2, UnansweredIs
  <2>2. Unanswered' = (next' + Count - answers) % Count
    BY <1>3 DEF Unanswered
  <2>3. PICK a \in 0..(2 * Count - 1) : a = next' + Count - answers
    BY <1>2, <1>3 DEF Data
  <2>4. a % Count = IF a >= Count THEN a - Count ELSE a
    <3>1. CASE a >= Count
      <4>1. a \in Count..(2 * Count - 1)
        BY <3>1
      <4> QED
        BY <3>1, <4>1, ModOnce
    <3>2. CASE a < Count
      <4>1. a \in 0..(Count - 1)
        BY <3>2
      <4> QED
        BY <3>2, <4>1, ModSmall
    <3> QED
      BY <3>1, <3>2
  <2> QED
    BY <1>1, <1>2, <1>3, <2>1, <2>2, <2>3, <2>4 DEF Data
<1>5. Unhandled' = Unhandled /\ EventInv'
  BY DEF PathInv, eventVars, Unhandled, Distance, EventInv, EventTypeOK, EventLaps, NotPast, OnEvent
<1>6. ASSUME NEW k \in 1..Unanswered
      PROVE  /\ Back(k + 1)' = Back(k)
             /\ Number(k + 1)' = Number(k)
             /\ buf'[Back(k)].type = buf[Back(k)].type
             /\ buf'[Back(k)].data = buf[Back(k)].data
  <2>1. Back(k) \in 0..(Last - 1) /\ Unanswered \in 0..MaxPending
    BY BackIsSlot
  <2>2. Back(k + 1)' = Back(k)
    BY <1>2, <2>1 DEF Advance, Back
  <2>3. Number(k + 1)' = Number(k)
    BY <1>1, <1>2, <1>3 DEF Number, Data
  <2>4. Back(k) # write_index /\ Back(k) \in Indices
    BY <1>2, <2>1 DEF Back, Indices, Last
  <2>5. buf'[Back(k)] = buf[Back(k)]
    BY <1>2, <2>4 DEF PathInv, RingInv, RingTypeOK, Advance, WriteControl, Indices, Last
  <2> QED
    BY <2>2, <2>3, <2>5
<1>7. \A d \in Data : Age(d) < Count => Age(d)' = Age(d) + 1
  BY <1>1, <1>3 DEF Age, Data
<1>8. Room'
  BY <1>1, <1>2, <1>4 DEF Room, Advance
<1>9. Written'
  <2>1. ASSUME NEW j \in 1..(Unanswered + 1)
        PROVE  buf'[Back(j)'].type = "command" /\ buf'[Back(j)'].data = Number(j)'
    <3>1. CASE j = 1
      <4>1. Back(j)' = write_index /\ Number(j)' = next
        BY <1>1, <1>2, <1>3, <3>1 DEF Back, Number, Advance, Data
      <4>2. buf[write_index].data = next
        BY DEF PathInv, RingInv, HalfWritten, Advance
      <4> QED
        BY <1>2, <4>1, <4>2 DEF PathInv, RingInv, RingTypeOK, Advance, WriteControl, Indices, Last
    <3>2. CASE j # 1
      <4>1. PICK k \in 1..Unanswered : j = k + 1
        BY <1>2, <3>2
      <4>2. Back(j)' = Back(k) /\ Number(j)' = Number(k)
        BY <1>6, <4>1
      <4>3. buf[Back(k)].type = "command" /\ buf[Back(k)].data = Number(k)
        BY DEF PathInv, Written
      <4> QED
        BY <1>6, <4>2, <4>3
    <3> QED
      BY <3>1, <3>2
  <2> QED
    BY <1>4, <2>1 DEF Written
<1>10. ASSUME NEW i \in 1..Len(Unhandled), Completes(i)
       PROVE  /\ Completes(i)'
              /\ AgeOf(i) \in (Waiting + 1)..Unanswered
              /\ AgeOf(i)' = AgeOf(i) + 1
              /\ Unhandled'[i].pointer = Back(AgeOf(i))'
  <2>1. Completes(i)' /\ Unhandled[i].command \in Data
    BY <1>5, <1>10 DEF Completes, IsCompletion
  <2>2. AgeOf(i) \in (Waiting + 1)..Unanswered /\ Unhandled[i].pointer = Back(AgeOf(i))
    BY <1>10 DEF PathInv, Genuine
  <2>3. PICK k \in 1..Unanswered : k = AgeOf(i)
    BY <1>2, <2>2
  <2>4. AgeOf(i)' = AgeOf(i) + 1
    BY <1>2, <1>5, <1>7, <2>1, <2>2 DEF AgeOf, Age
  <2>5. Back(AgeOf(i))' = Back(k + 1)'
    BY <2>3, <2>4 DEF Back
  <2>6. Back(k + 1)' = Back(k)
    BY <1>6
  <2> QED
    BY <1>5, <2>1, <2>2, <2>3, <2>4, <2>5, <2>6
<1>11. \A i : Completes(i)' <=> Completes(i)
  BY <1>5 DEF Completes
<1>12. Genuine'
  <2>1. ASSUME NEW i \in 1..Len(Unhandled), Completes(i)
        PROVE  AgeOf(i)' \in (Waiting + 2)..(Unanswered + 1)
    BY <1>2, <1>10, <2>1
  <2> QED
    BY <1>1, <1>2, <1>4, <1>5, <1>10, <1>11, <2>1 DEF Genuine
<1>13. InOrder'
  <2>1. ASSUME NEW i \in 1..Len(Unhandled), NEW j \in 1..Len(Unhandled),
               i < j, Completes(i), Completes(j)
        PROVE  AgeOf(i)' > AgeOf(j)'
    <3>1. AgeOf(i) > AgeOf(j)
      BY <2>1 DEF PathInv, InOrder
    <3> QED
      BY <1>2, <1>10, <2>1, <3>1
  <2> QED
    BY <1>5, <1>11, <2>1 DEF InOrder
<1>14. NoneLost'
  <2>1. ASSUME NEW j \in (Waiting + 2)..(Unanswered + 1)
        PROVE  \E i \in 1..Len(Unhandled) : Completes(i)' /\ AgeOf(i)' = j
    <3>1. PICK k \in (Waiting + 1)..Unanswered : j = k + 1
      BY <1>2
    <3>2. PICK i \in 1..Len(Unhandled) : Completes(i) /\ AgeOf(i) = k
      BY DEF PathInv, NoneLost
    <3> QED
      BY <1>10, <3>1, <3>2
  <2> QED
    BY <1>1, <1>2, <1>4, <1>5, <2>1 DEF NoneLost
<1>15. PathInv'
  BY <1>1, <1>3, <1>5, <1>8, <1>9, <1>12, <1>13, <1>14 DEF PathInv, Advance, eventVars
<1>16. /\ Outstanding \in Seq(Data \cup {Nothing})
       /\ Len(Outstanding) = Unanswered
       /\ \A i \in 1..Unanswered :
            Outstanding[i] = IF answers + i - 1 >= Count THEN answers + i - 1 - Count
                                                         ELSE answers + i - 1
  BY <1>1, <1>2, OutstandingIsLaid DEF OutstandingLaid
<1>17. /\ Outstanding' \in Seq(Data \cup {Nothing})
       /\ Len(Outstanding') = Unanswered + 1
       /\ \A i \in 1..(Unanswered + 1) :
            Outstanding'[i] = IF answers + i - 1 >= Count THEN answers + i - 1 - Count
                                                          ELSE answers + i - 1
  BY <1>3, <1>4, <1>15, OutstandingIsLaidNext DEF OutstandingLaid
<1>18. Outstanding' = Append(Outstanding, next)
  <2>1. \A i \in 1..Len(Outstanding) : Outstanding'[i] = Outstanding[i]
    BY <1>2, <1>16, <1>17
  <2>2. Outstanding'[Unanswered + 1] = next
    <3>1. Unanswered = IF next >= answers THEN next - answers ELSE next + Count - answers
      BY <1>1, <1>2, UnansweredIs
    <3> QED
      BY <1>1, <1>2, <1>17, <3>1 DEF Data
  <2>3. next \in Data \cup {Nothing}
    BY <1>1
  <2> QED
    BY <1>16, <1>17, <2>1, <2>2, <2>3, IsAppend
<1> QED
  BY <1>1, <1>2, <1>15, <1>16, <1>18

(* Steps of the event ring, with the command ring at rest.                 *)
LEMMA RingRests ==
  ASSUME PathInv, UNCHANGED ringVars, UNCHANGED answers
  PROVE  /\ RingInv' /\ Waiting' = Waiting /\ Pending' = Pending
         /\ Unanswered' = Unanswered /\ Outstanding' = Outstanding
         /\ \A k : Back(k)' = Back(k) /\ Number(k)' = Number(k)
         /\ \A d : Age(d)' = Age(d)
<1> USE DEF ringVars
<1>1. RingInv'
  BY DEF PathInv, RingInv, RingTypeOK, Laps, Links, InBounds, HalfWritten, Waiting, SameLap
<1>2. Waiting' = Waiting /\ Pending' = Pending
  BY DEF Waiting, SameLap, Pending, Owned, Slot, Ahead, AtLink, CycleOf
<1>3. Unanswered' = Unanswered /\ Outstanding' = Outstanding
  BY DEF Unanswered, Outstanding
<1>4. /\ \A k : Back(k)' = Back(k) /\ Number(k)' = Number(k)
      /\ \A d : Age(d)' = Age(d)
  BY DEF Back, Number, Age
<1> QED
  BY <1>1, <1>2, <1>3, <1>4

(* The event loop between two handlers (xhci.cpp:488-505).                 *)
LEMMA LoopsStep ==
  ASSUME PathInv, EventLoop
  PROVE  /\ PathInv' /\ Outstanding' = Outstanding
         /\ Unhandled' = Unhandled
<1>1. EventInv' /\ Unhandled' = Unhandled
  BY LoopStep DEF PathInv, EventLoop
<1>2. /\ RingInv' /\ Waiting' = Waiting
      /\ Unanswered' = Unanswered /\ Outstanding' = Outstanding
      /\ \A k : Back(k)' = Back(k) /\ Number(k)' = Number(k)
      /\ \A d : Age(d)' = Age(d)
  BY RingRests DEF EventLoop
<1>3. UNCHANGED <<buf, pc, answered, answers>>
  BY DEF EventLoop, ringVars
<1>4. \A i : AgeOf(i)' = AgeOf(i) /\ Completes(i)' = Completes(i)
  BY <1>1, <1>3 DEF AgeOf, Age, Completes, EventLoop, ringVars
<1>5. pc' # "idle" => handling' = "handle"
  BY <1>3 DEF PathInv, EventLoop, BeginHandler, Pop
<1>6. Room' /\ Written'
  BY <1>2, <1>3 DEF PathInv, Room, Written
<1>7. ASSUME NEW i \in 1..Len(Unhandled)
      PROVE  Back(AgeOf(i))' = Back(AgeOf(i))
  BY <1>4 DEF Back, EventLoop, ringVars
<1>8. Genuine' /\ InOrder' /\ NoneLost'
  BY <1>1, <1>2, <1>4, <1>7 DEF PathInv, Genuine, InOrder, NoneLost
<1> QED
  BY <1>1, <1>2, <1>3, <1>5, <1>6, <1>8 DEF PathInv

(* What the queue of events holds after an event was put at its end.       *)
LEMMA UnhandledGrows ==
  ASSUME PathInv, NEW e \in Events, PostEvent(e), UNCHANGED next
  PROVE  /\ EventInv' /\ Unhandled' = Append(Unhandled, e)
         /\ Len(Unhandled) \in Nat /\ Len(Unhandled') = Len(Unhandled) + 1
         /\ \A i \in 1..Len(Unhandled) : /\ Unhandled'[i] = Unhandled[i]
                                         /\ Completes(i)' <=> Completes(i)
                                         /\ AgeOf(i)' = AgeOf(i)
         /\ Unhandled'[Len(Unhandled) + 1] = e
<1>1. EventInv' /\ Unhandled' = Append(Unhandled, e)
  BY PostStep DEF PathInv
<1>2. Unhandled \in Seq(Events \cup {NoEvent})
  BY UnhandledIsLaid DEF PathInv, UnhandledLaid
<1>3. /\ Len(Unhandled) \in Nat /\ Len(Unhandled') = Len(Unhandled) + 1
      /\ \A i \in 1..Len(Unhandled) : Unhandled'[i] = Unhandled[i]
      /\ Unhandled'[Len(Unhandled) + 1] = e
  <2>1. e \in Events \cup {NoEvent}
    OBVIOUS
  <2> QED
    BY <1>1, <1>2, <2>1, AppendProperties, LenProperties
<1>4. \A i \in 1..Len(Unhandled) : (Completes(i)' <=> Completes(i)) /\ AgeOf(i)' = AgeOf(i)
  BY <1>3 DEF Completes, AgeOf, Age
<1> QED
  BY <1>1, <1>3, <1>4

(* A Port Status Change Event comes behind the completions.                *)
LEMMA PortChangesStep ==
  ASSUME PathInv, PortChanges
  PROVE  /\ PathInv' /\ Outstanding' = Outstanding
         /\ \E e \in Events : Unhandled' = Append(Unhandled, e)
<1> USE LastType
<1>1. PortChange \in Events /\ ~IsCompletion(PortChange)
  BY ChannelAssumption DEF AllEvents, PortChange, IsCompletion, Nothing, Data
<1>2. /\ EventInv' /\ Unhandled' = Append(Unhandled, PortChange)
      /\ Len(Unhandled) \in Nat /\ Len(Unhandled') = Len(Unhandled) + 1
      /\ \A i \in 1..Len(Unhandled) : /\ Unhandled'[i] = Unhandled[i]
                                      /\ Completes(i)' <=> Completes(i)
                                      /\ AgeOf(i)' = AgeOf(i)
      /\ Unhandled'[Len(Unhandled) + 1] = PortChange
  BY <1>1, UnhandledGrows DEF PortChanges, ringVars
<1>3. /\ RingInv' /\ Waiting' = Waiting
      /\ Unanswered' = Unanswered /\ Outstanding' = Outstanding
      /\ \A k : Back(k)' = Back(k) /\ Number(k)' = Number(k)
  BY RingRests DEF PortChanges
<1>4. UNCHANGED <<buf, pc, write_index, answered, answers, handling>>
  BY DEF PortChanges, PostEvent, ringVars
<1>5. \A i \in 1..Len(Unhandled') : Completes(i)' => i \in 1..Len(Unhandled) /\ Completes(i)
  BY <1>1, <1>2 DEF Completes
<1>6. Room' /\ Written'
  BY <1>3, <1>4 DEF PathInv, Room, Written
<1>7. \A i \in 1..Len(Unhandled) : Back(AgeOf(i))' = Back(AgeOf(i))
  BY <1>2, <1>4 DEF Back
<1>8. Genuine'
  BY <1>2, <1>3, <1>5, <1>7 DEF PathInv, Genuine
<1>9. InOrder'
  BY <1>2, <1>5 DEF PathInv, InOrder
<1>10. NoneLost'
  <2>1. \A i \in 1..Len(Unhandled) : i \in 1..Len(Unhandled')
    BY <1>2
  <2> QED
    BY <1>2, <1>3, <2>1 DEF PathInv, NoneLost
<1> QED
  BY <1>1, <1>2, <1>3, <1>4, <1>6, <1>8, <1>9, <1>10 DEF PathInv

(* An event is posted only where the driver is done.                       *)
LEMMA PostRoom ==
  ASSUME EventInv, NEW e, PostEvent(e)
  PROVE  Len(Unhandled) < SegmentSize - 1
<1> USE SegmentAssumption
<1>1. erdp \in 0..(SegmentSize - 1) /\ enqueue \in 0..(SegmentSize - 1)
  BY DEF EventInv, EventTypeOK, Slots
<1>2. Following(enqueue) = IF enqueue = SegmentSize - 1 THEN 0 ELSE enqueue + 1
  BY <1>1, FollowingIs DEF Slots
<1>3. Held < SegmentSize - 1
  BY <1>1, <1>2 DEF PostEvent, Held
<1> QED
  BY <1>1, <1>3, UnhandledIsLaid DEF UnhandledLaid

(* The TRB executed is the oldest one waiting, and no completion in the    *)
(* event ring is of a younger one.                                         *)
LEMMA AnswerStep ==
  ASSUME PathInv, Answer
  PROVE  /\ PathInv' /\ Outstanding' = Outstanding
         /\ Pending # <<>> /\ executed' = Head(Pending) /\ Pending' = Tail(Pending)
         /\ \E e \in Events : Unhandled' = Append(Unhandled, e)
<1> USE LastType
<1> DEFINE e == Completion(dequeue, buf[dequeue].data)
<1>1. /\ RingInv' /\ dequeue \in 0..(Last - 1) /\ dequeue = Place(0)
      /\ Waiting >= 1 /\ Waiting' = Waiting - 1
      /\ Pending # <<>> /\ executed' = Head(Pending) /\ Pending' = Tail(Pending)
  BY ExecuteStep DEF PathInv, Answer
<1>2. UNCHANGED <<buf, pc, next, write_index, cycle_bit, answered, answers, handling>>
  BY DEF Answer, Execute, PostEvent
<1>3. /\ Waiting \in 1..MaxPending /\ Waiting <= Unanswered /\ Unanswered \in 0..MaxPending
      /\ next \in Data
  <2>1. Waiting \in 0..(Last - 1) /\ Unanswered \in 0..(Count - 1)
    BY PendingIsWaiting, UnansweredIs DEF PathInv, PendingLaid, RingInv, RingTypeOK
  <2> QED
    BY <1>1, <2>1 DEF PathInv, Room, RingInv, RingTypeOK
<1>4. Back(Waiting) = dequeue
  <2>1. write_index \in 0..Last /\ dequeue \in 0..(Last - 1)
    BY <1>1 DEF PathInv, RingInv, RingTypeOK, Indices, Last
  <2> QED
    BY <1>3, <2>1 DEF PathInv, RingInv, InBounds, Waiting, SameLap, Back
<1>5. buf[dequeue].data = Number(Waiting)
  BY <1>3, <1>4 DEF PathInv, Written
<1>6. Number(Waiting) \in Data /\ Age(Number(Waiting)) = Waiting
  BY <1>3, AgesAreNumbers
<1>7. e \in Events /\ IsCompletion(e) /\ e.pointer = dequeue /\ Age(e.command) = Waiting
  BY <1>1, <1>5, <1>6, ChannelAssumption DEF AllEvents, Completion, IsCompletion
<1> HIDE DEF e
<1>8. /\ EventInv' /\ Unhandled' = Append(Unhandled, e)
      /\ Len(Unhandled) \in Nat /\ Len(Unhandled') = Len(Unhandled) + 1
      /\ \A i \in 1..Len(Unhandled) : /\ Unhandled'[i] = Unhandled[i]
                                      /\ Completes(i)' <=> Completes(i)
                                      /\ AgeOf(i)' = AgeOf(i)
      /\ Unhandled'[Len(Unhandled) + 1] = e
  BY <1>2, <1>7, UnhandledGrows DEF Answer, e
<1>9. Unanswered' = Unanswered /\ Outstanding' = Outstanding
  BY <1>2 DEF Unanswered, Outstanding
<1>10. \A k : Back(k)' = Back(k) /\ Number(k)' = Number(k)
  BY <1>2 DEF Back, Number
<1>11. ASSUME NEW n, n = Len(Unhandled) + 1
       PROVE  /\ n \in 1..Len(Unhandled') /\ Completes(n)' /\ AgeOf(n)' = Waiting
              /\ Unhandled'[n].pointer = Back(AgeOf(n))'
  <2>1. n \in 1..Len(Unhandled') /\ Completes(n)'
    BY <1>7, <1>8, <1>11 DEF Completes
  <2>2. AgeOf(n)' = Waiting
    BY <1>2, <1>7, <1>8, <1>11 DEF AgeOf, Age
  <2>3. Back(AgeOf(n))' = Back(Waiting)
    BY <1>2, <2>2 DEF Back
  <2> QED
    BY <1>4, <1>7, <1>8, <1>11, <2>1, <2>2, <2>3
<1>12. \A i \in 1..Len(Unhandled') : i \in 1..Len(Unhandled) \/ i = Len(Unhandled) + 1
  BY <1>8
<1>13. Room' /\ Written'
  BY <1>1, <1>2, <1>3, <1>9, <1>10 DEF PathInv, Room, Written
<1>14. Genuine'
  <2>1. ASSUME NEW i \in 1..Len(Unhandled'), Completes(i)'
        PROVE  /\ AgeOf(i)' \in Waiting..Unanswered
               /\ Unhandled'[i].pointer = Back(AgeOf(i))'
    <3>1. CASE i \in 1..Len(Unhandled)
      <4>1. AgeOf(i) \in (Waiting + 1)..Unanswered /\ Unhandled[i].pointer = Back(AgeOf(i))
        BY <1>8, <2>1, <3>1 DEF PathInv, Genuine
      <4>2. Back(AgeOf(i))' = Back(AgeOf(i))
        BY <1>2, <1>8, <3>1 DEF Back
      <4> QED
        BY <1>3, <1>8, <3>1, <4>1, <4>2
    <3>2. CASE i = Len(Unhandled) + 1
      BY <1>3, <1>11, <3>2
    <3> QED
      BY <1>12, <3>1, <3>2
  <2> QED
    BY <1>1, <1>3, <1>9, <2>1 DEF Genuine
<1>15. InOrder'
  <2>1. ASSUME NEW i \in 1..Len(Unhandled'), NEW j \in 1..Len(Unhandled'),
               i < j, Completes(i)', Completes(j)'
        PROVE  AgeOf(i)' > AgeOf(j)'
    <3>1. i \in 1..Len(Unhandled)
      BY <1>8, <2>1
    <3>2. AgeOf(i) \in (Waiting + 1)..Unanswered
      BY <1>8, <2>1, <3>1 DEF PathInv, Genuine
    <3>3. CASE j \in 1..Len(Unhandled)
      BY <1>8, <2>1, <3>1, <3>3 DEF PathInv, InOrder
    <3>4. CASE j = Len(Unhandled) + 1
      BY <1>3, <1>8, <1>11, <3>1, <3>2, <3>4
    <3> QED
      BY <1>12, <3>3, <3>4
  <2> QED
    BY <2>1 DEF InOrder
<1>16. NoneLost'
  <2>1. ASSUME NEW k \in Waiting..Unanswered
        PROVE  \E i \in 1..Len(Unhandled') : Completes(i)' /\ AgeOf(i)' = k
    <3>1. CASE k = Waiting
      BY <1>11, <3>1
    <3>2. CASE k # Waiting
      <4>1. k \in (Waiting + 1)..Unanswered
        BY <1>3, <3>2
      <4>2. PICK i \in 1..Len(Unhandled) : Completes(i) /\ AgeOf(i) = k
        BY <4>1 DEF PathInv, NoneLost
      <4> QED
        BY <1>8, <4>2
    <3> QED
      BY <3>1, <3>2
  <2> QED
    BY <1>1, <1>3, <1>9, <2>1 DEF NoneLost
<1> QED
  BY <1>1, <1>2, <1>7, <1>8, <1>9, <1>13, <1>14, <1>15, <1>16 DEF PathInv

(* The completion at the front is of the oldest command not answered:      *)
(* every older one was answered, and its own comes first.                  *)
LEMMA ReturnsStep ==
  ASSUME PathInv, HandlerReturns
  PROVE  /\ PathInv'
         /\ Unhandled # <<>> /\ handled' = Head(Unhandled) /\ Unhandled' = Tail(Unhandled)
         /\ \/ UNCHANGED <<Outstanding, answered>>
            \/ /\ Outstanding # <<>>
               /\ answered' = Head(Outstanding)
               /\ Outstanding' = Tail(Outstanding)
<1> USE LastType
<1>1. /\ EventInv' /\ Unhandled # <<>> /\ Front.event = Head(Unhandled)
      /\ handled' = Head(Unhandled) /\ Unhandled' = Tail(Unhandled)
  BY EndStep DEF PathInv, HandlerReturns
<1>2. /\ UNCHANGED ringVars /\ UNCHANGED <<buf, pc, next, write_index>>
      /\ pc = "idle"
  BY DEF HandlerReturns, ringVars
<1>3. /\ Unhandled \in Seq(Events \cup {NoEvent})
      /\ Len(Unhandled) \in Nat /\ Len(Unhandled) >= 1
      /\ Len(Unhandled') = Len(Unhandled) - 1
      /\ Unhandled[1] = Front.event
      /\ \A i \in 1..Len(Unhandled') : Unhandled'[i] = Unhandled[i + 1]
  <2>1. Unhandled \in Seq(Events \cup {NoEvent})
    BY UnhandledIsLaid DEF PathInv, UnhandledLaid
  <2>2. /\ Len(Unhandled') = Len(Unhandled) - 1
        /\ \A i \in 1..Len(Unhandled') : Unhandled'[i] = Unhandled[i + 1]
    BY <1>1, <2>1, HeadTailProperties
  <2>3. Len(Unhandled) \in Nat /\ Len(Unhandled) >= 1
    BY <1>1, <2>1, EmptySeq
  <2> QED
    BY <1>1, <2>1, <2>2, <2>3
<1>4. /\ Waiting \in 0..MaxPending /\ Waiting <= Unanswered /\ Unanswered \in 0..MaxPending
      /\ next \in Data /\ answers \in Data
  <2>1. Waiting \in 0..(Last - 1) /\ Unanswered \in 0..(Count - 1)
    BY PendingIsWaiting, UnansweredIs DEF PathInv, PendingLaid, RingInv, RingTypeOK
  <2> QED
    BY <2>1 DEF PathInv, Room, RingInv, RingTypeOK
<1>5. /\ \A k : Back(k)' = Back(k) /\ Number(k)' = Number(k)
      /\ RingInv' /\ Waiting' = Waiting
  <2>1. \A k : Back(k)' = Back(k) /\ Number(k)' = Number(k)
    BY <1>2 DEF Back, Number
  <2>2. RingInv'
    BY <1>2 DEF PathInv, RingInv, RingTypeOK, Laps, Links, InBounds, HalfWritten, Waiting, SameLap, ringVars
  <2>3. Waiting' = Waiting
    BY <1>2 DEF Waiting, SameLap, ringVars
  <2> QED
    BY <2>1, <2>2, <2>3
<1>6. ASSUME NEW i \in 1..Len(Unhandled')
      PROVE  /\ i + 1 \in 1..Len(Unhandled)
             /\ Unhandled'[i] = Unhandled[i + 1]
             /\ Completes(i)' <=> Completes(i + 1)
             /\ AgeOf(i)' = AgeOf(i + 1)
             /\ Back(AgeOf(i))' = Back(AgeOf(i + 1))
  <2>1. i + 1 \in 1..Len(Unhandled) /\ Unhandled'[i] = Unhandled[i + 1]
    BY <1>3
  <2>2. Completes(i)' <=> Completes(i + 1)
    BY <2>1 DEF Completes
  <2>3. AgeOf(i)' = AgeOf(i + 1)
    BY <1>2, <2>1 DEF AgeOf, Age
  <2>4. Back(AgeOf(i))' = Back(AgeOf(i + 1))
    BY <1>2, <2>3 DEF Back
  <2> QED
    BY <2>1, <2>2, <2>3, <2>4
<1>7. InOrder'
  <2>1. ASSUME NEW i \in 1..Len(Unhandled'), NEW j \in 1..Len(Unhandled'),
               i < j, Completes(i)', Completes(j)'
        PROVE  AgeOf(i)' > AgeOf(j)'
    <3>1. i + 1 \in 1..Len(Unhandled) /\ j + 1 \in 1..Len(Unhandled) /\ i + 1 < j + 1
      BY <1>6, <2>1
    <3>2. AgeOf(i + 1) > AgeOf(j + 1)
      BY <1>6, <2>1, <3>1 DEF PathInv, InOrder
    <3> QED
      BY <1>6, <3>2
  <2> QED
    BY <2>1 DEF InOrder
<1>8. \A i \in 1..Len(Unhandled) : i # 1 => i - 1 \in 1..Len(Unhandled') /\ (i - 1) + 1 = i
  BY <1>3
<1>9. CASE IsCompletion(Front.event)
  <2>1. Completes(1) /\ 1 \in 1..Len(Unhandled)
    BY <1>3, <1>9 DEF Completes
  <2>2. AgeOf(1) \in (Waiting + 1)..Unanswered
    BY <2>1 DEF PathInv, Genuine
  <2>3. AgeOf(1) = Unanswered /\ Unanswered >= 1
    <3>1. Unanswered \in (Waiting + 1)..Unanswered
      BY <1>4, <2>2
    <3>2. PICK i \in 1..Len(Unhandled) : Completes(i) /\ AgeOf(i) = Unanswered
      BY <3>1 DEF PathInv, NoneLost
    <3>3. CASE i = 1
      BY <1>4, <2>2, <3>2, <3>3
    <3>4. CASE i # 1
      <4>1. AgeOf(1) > AgeOf(i)
        BY <2>1, <3>2, <3>4 DEF PathInv, InOrder
      <4> QED
        BY <1>4, <2>2, <3>2, <4>1
    <3> QED
      BY <3>3, <3>4
  <2>4. Unanswered = IF next >= answers THEN next - answers ELSE next + Count - answers
    BY <1>4, UnansweredIs
  <2>5. Front.event.command = answers
    <3>1. Age(Front.event.command) = Unanswered /\ Front.event.command \in Data
      BY <1>3, <1>9, <2>3 DEF AgeOf, IsCompletion
    <3>2. Front.event.command = Number(Unanswered)
      BY <1>4, <3>1, AgesAreNumbers
    <3> QED
      BY <1>4, <2>3, <2>4, <3>2 DEF Number, Data
  <2>6. answered' = answers /\ answers' = (answers + 1) % Count
    BY <1>9, <2>5 DEF HandlerReturns
  <2>7. answers' = (IF answers = Count - 1 THEN 0 ELSE answers + 1) /\ answers' \in Data
    BY <1>4, <2>6, SuccessorIs
  <2>8. Unanswered' = Unanswered - 1
    <3>1. Unanswered' = (next + Count - answers') % Count
      BY <1>2 DEF Unanswered
    <3>2. PICK a \in 0..(2 * Count - 1) : a = next + Count - answers'
      <4>1. PICK b \in Data : b = answers'
        BY <2>7
      <4>2. next + Count - b \in 0..(2 * Count - 1)
        BY <1>4 DEF Data
      <4> QED
        BY <4>1, <4>2
    <3>3. a % Count = IF a >= Count THEN a - Count ELSE a
      <4>1. CASE a >= Count
        <5>1. a \in Count..(2 * Count - 1)
          BY <4>1
        <5> QED
          BY <4>1, <5>1, ModOnce
      <4>2. CASE a < Count
        <5>1. a \in 0..(Count - 1)
          BY <4>2
        <5> QED
          BY <4>2, <5>1, ModSmall
      <4> QED
        BY <4>1, <4>2
    <3> QED
      BY <1>4, <2>3, <2>4, <2>7, <3>1, <3>2, <3>3 DEF Data
  <2>9. \A i \in 1..Len(Unhandled) : i # 1 /\ Completes(i) => AgeOf(i) < Unanswered
    BY <2>1, <2>3, <1>3 DEF PathInv, InOrder
  <2>10. Room' /\ Written'
    <3>1. Waiting <= Unanswered - 1
      BY <1>4, <2>2, <2>3
    <3>2. \A k \in 1..(Unanswered - 1) : k \in 1..Unanswered
      BY <1>4
    <3> QED
      BY <1>2, <1>4, <1>5, <2>8, <3>1, <3>2 DEF PathInv, Room, Written
  <2>11. Genuine'
    <3>1. ASSUME NEW i \in 1..Len(Unhandled'), Completes(i)'
          PROVE  /\ AgeOf(i)' \in (Waiting + 1)..(Unanswered - 1)
                 /\ Unhandled'[i].pointer = Back(AgeOf(i))'
      <4>1. Completes(i + 1) /\ i + 1 \in 1..Len(Unhandled) /\ i + 1 # 1
        BY <1>6, <3>1
      <4>2. AgeOf(i + 1) \in (Waiting + 1)..Unanswered /\ Unhandled[i + 1].pointer = Back(AgeOf(i + 1))
        BY <4>1 DEF PathInv, Genuine
      <4>3. AgeOf(i + 1) < Unanswered
        BY <2>9, <4>1
      <4> QED
        BY <1>4, <1>6, <4>2, <4>3
    <3> QED
      BY <1>5, <2>8, <3>1 DEF Genuine
  <2>12. NoneLost'
    <3>1. ASSUME NEW k \in (Waiting + 1)..(Unanswered - 1)
          PROVE  \E i \in 1..Len(Unhandled') : Completes(i)' /\ AgeOf(i)' = k
      <4>1. k \in (Waiting + 1)..Unanswered /\ k # Unanswered
        BY <1>4
      <4>2. PICK i \in 1..Len(Unhandled) : Completes(i) /\ AgeOf(i) = k
        BY <4>1 DEF PathInv, NoneLost
      <4>3. i # 1
        BY <2>3, <4>1, <4>2
      <4>4. PICK j \in 1..Len(Unhandled') : j + 1 = i
        BY <1>8, <4>3
      <4> QED
        BY <1>6, <4>2, <4>4
    <3> QED
      BY <1>5, <2>8, <3>1 DEF NoneLost
  <2>13. answered' \in Data \cup {Nothing}
    BY <1>4, <2>6
  <2>14. PathInv'
    BY <1>1, <1>2, <1>5, <1>7, <2>7, <2>10, <2>11, <2>12, <2>13 DEF PathInv
  <2>15. /\ Outstanding \in Seq(Data \cup {Nothing})
         /\ Len(Outstanding) = Unanswered
         /\ \A i \in 1..Unanswered :
              Outstanding[i] = IF answers + i - 1 >= Count THEN answers + i - 1 - Count
                                                           ELSE answers + i - 1
    BY <1>4, OutstandingIsLaid DEF OutstandingLaid
  <2>16. /\ Outstanding' \in Seq(Data \cup {Nothing})
         /\ Len(Outstanding') = Unanswered - 1
         /\ \A i \in 1..(Unanswered - 1) :
              Outstanding'[i] = IF answers' + i - 1 >= Count THEN answers' + i - 1 - Count
                                                             ELSE answers' + i - 1
    BY <2>8, <2>14, OutstandingIsLaidNext DEF OutstandingLaid
  <2>17. \A i \in 1..Len(Outstanding') : Outstanding'[i] = Outstanding[i + 1]
    BY <1>4, <2>3, <2>7, <2>15, <2>16 DEF Data
  <2>18. Len(Outstanding) = Len(Outstanding') + 1
    BY <1>4, <2>15, <2>16
  <2>19. Outstanding # <<>> /\ Head(Outstanding) = Outstanding[1] /\ Outstanding' = Tail(Outstanding)
    BY <2>15, <2>16, <2>17, <2>18, IsTail
  <2>20. Outstanding[1] = answers
    BY <1>4, <2>3, <2>15 DEF Data
  <2> QED
    BY <1>1, <2>6, <2>14, <2>19, <2>20
<1>10. CASE ~IsCompletion(Front.event)
  <2>1. UNCHANGED <<answered, answers>> /\ ~Completes(1)
    BY <1>3, <1>10 DEF HandlerReturns, Completes
  <2>2. Unanswered' = Unanswered /\ Outstanding' = Outstanding
    BY <1>2, <2>1 DEF Unanswered, Outstanding
  <2>3. Room' /\ Written'
    BY <1>2, <1>5, <2>2 DEF PathInv, Room, Written
  <2>4. Genuine'
    BY <1>5, <1>6, <2>2 DEF PathInv, Genuine
  <2>5. NoneLost'
    <3>1. ASSUME NEW k \in (Waiting + 1)..Unanswered
          PROVE  \E i \in 1..Len(Unhandled') : Completes(i)' /\ AgeOf(i)' = k
      <4>1. PICK i \in 1..Len(Unhandled) : Completes(i) /\ AgeOf(i) = k
        BY DEF PathInv, NoneLost
      <4>2. PICK j \in 1..Len(Unhandled') : j + 1 = i
        BY <1>8, <2>1, <4>1
      <4> QED
        BY <1>6, <4>1, <4>2
    <3> QED
      BY <1>5, <2>2, <3>1 DEF NoneLost
  <2>6. PathInv'
    BY <1>1, <1>2, <1>5, <1>7, <2>1, <2>3, <2>4, <2>5 DEF PathInv
  <2> QED
    BY <1>1, <2>1, <2>2, <2>6
<1> QED
  BY <1>9, <1>10

-----------------------------------------------------------------------------
(* Every step of the path, with what it means for the three queues.        *)
LEMMA PathSteps ==
  ASSUME PathInv, [Next]_vars
  PROVE  /\ PathInv'
         /\ [PushedTRBs!Next]_<<Pending, executed>>
         /\ [PostedEvents!Next]_<<Unhandled, handled>>
         /\ [Conversation!Next]_<<Outstanding, answered>>
<1> USE DEF PushedTRBs!Next, PushedTRBs!Put, PushedTRBs!Take,
            PostedEvents!Next, PostedEvents!Put, PostedEvents!Take,
            Conversation!Next, Conversation!Put, Conversation!Take
<1> DEFINE EventsRest == Unhandled' = Unhandled /\ handled' = handled
<1>1. ASSUME UNCHANGED eventVars PROVE EventsRest
  BY <1>1 DEF eventVars, Unhandled, Distance
<1>2. CASE HandlerPushes
  <2>1. PathInv' /\ Outstanding' = Outstanding /\ Pending' = Pending
    BY <1>2, PushesStep
  <2> QED
    BY <1>1, <1>2, <2>1 DEF HandlerPushes, Push
<1>3. CASE HandlerFinishesPush
  <2>1. UNCHANGED eventVars /\ UNCHANGED <<answered, answers, executed>>
    BY <1>3 DEF HandlerFinishesPush, FinishPush, Advance, WriteLinkData, WrapAround, RingDoorbell
  <2>2. CASE Advance
    <3>1. /\ PathInv' /\ next \in Data
          /\ Outstanding' = Append(Outstanding, next) /\ Len(Outstanding) < MaxPending
          /\ Pending' = Append(Pending, next)
      BY <2>1, <2>2, AdvancesStep
    <3>2. Len(Pending) < MaxPending
      BY <2>2, PendingIsWaiting DEF PathInv, RingInv, HalfWritten, PendingLaid, Advance
    <3> QED
      BY <1>1, <2>1, <3>1, <3>2
  <2>3. CASE WriteLinkData \/ WrapAround
    <3>1. PathInv' /\ Outstanding' = Outstanding /\ Pending' = Pending
      BY <2>1, <2>3, LinkStep
    <3> QED
      BY <1>1, <2>1, <3>1
  <2>4. CASE RingDoorbell
    <3>1. PathInv' /\ Outstanding' = Outstanding /\ Pending' = Pending
      BY <2>1, <2>4, BellStep
    <3> QED
      BY <1>1, <2>1, <3>1
  <2> QED
    BY <1>3, <2>2, <2>3, <2>4 DEF HandlerFinishesPush, FinishPush
<1>4. CASE HandlerReturns
  <2>1. /\ PathInv'
        /\ Unhandled # <<>> /\ handled' = Head(Unhandled) /\ Unhandled' = Tail(Unhandled)
        /\ \/ UNCHANGED <<Outstanding, answered>>
           \/ /\ Outstanding # <<>>
              /\ answered' = Head(Outstanding)
              /\ Outstanding' = Tail(Outstanding)
    BY <1>4, ReturnsStep
  <2>2. Pending' = Pending /\ executed' = executed
    BY <1>4 DEF HandlerReturns, ringVars, Pending, Owned, Slot, Ahead, AtLink, CycleOf
  <2> QED
    BY <2>1, <2>2
<1>5. CASE EventLoop
  <2>1. PathInv' /\ Outstanding' = Outstanding /\ Unhandled' = Unhandled
    BY <1>5, LoopsStep
  <2>2. Pending' = Pending /\ UNCHANGED <<executed, handled, answered>>
    BY <1>5 DEF EventLoop, BeginHandler, Pop, ringVars, Pending, Owned, Slot, Ahead, AtLink, CycleOf
  <2> QED
    BY <2>1, <2>2
<1>6. CASE Answer
  <2>1. /\ PathInv' /\ Outstanding' = Outstanding
        /\ Pending # <<>> /\ executed' = Head(Pending) /\ Pending' = Tail(Pending)
        /\ \E e \in Events : Unhandled' = Append(Unhandled, e)
    BY <1>6, AnswerStep
  <2>2. UNCHANGED <<handled, answered>>
    BY <1>6 DEF Answer, PostEvent
  <2>3. Len(Unhandled) < SegmentSize - 1
    BY <1>6, PostRoom DEF PathInv, Answer
  <2> QED
    BY <2>1, <2>2, <2>3
<1>7. CASE FollowRing
  <2>1. PathInv' /\ Outstanding' = Outstanding /\ Pending' = Pending
    BY <1>7, BellStep DEF FollowRing
  <2> QED
    BY <1>1, <1>7, <2>1 DEF FollowRing, FollowLink, GoIdle
<1>8. CASE PortChanges
  <2>1. /\ PathInv' /\ Outstanding' = Outstanding
        /\ \E e \in Events : Unhandled' = Append(Unhandled, e)
    BY <1>8, PortChangesStep
  <2>2. Pending' = Pending /\ UNCHANGED <<executed, handled, answered>>
    BY <1>8 DEF PortChanges, PostEvent, ringVars, Pending, Owned, Slot, Ahead, AtLink, CycleOf
  <2>3. Len(Unhandled) < SegmentSize - 1
    BY <1>8, PostRoom DEF PathInv, PortChanges
  <2> QED
    BY <2>1, <2>2, <2>3
<1>9. CASE UNCHANGED vars
  <2>1. UNCHANGED ringVars /\ UNCHANGED eventVars /\ UNCHANGED <<answered, answers>>
    BY <1>9 DEF vars
  <2>2. RingInv' /\ Waiting' = Waiting /\ Pending' = Pending /\ Outstanding' = Outstanding
    BY <2>1, RingRests
  <2>3. UNCHANGED <<buf, write_index, next, pc, executed, handling, handled>>
    BY <2>1 DEF ringVars, eventVars
  <2>4. PathInv'
    <3>1. pc' # "idle" => handling = "handle"
      BY <2>3 DEF PathInv
    <3>2. pc' = "control" => Unanswered < MaxPending
      BY <2>3 DEF PathInv, Room
    <3>3. \A k \in 1..Unanswered : /\ Back(k)' = Back(k)
                                   /\ buf'[Back(k)].type = buf[Back(k)].type
                                   /\ buf'[Back(k)].data = buf[Back(k)].data
      BY <2>3 DEF Back
    <3> QED
      BY <2>1, <2>2, <2>3, <3>1, <3>2, <3>3, QuietStep
  <2> QED
    BY <1>1, <2>1, <2>2, <2>3, <2>4
<1> QED
  BY <1>2, <1>3, <1>4, <1>5, <1>6, <1>7, <1>8, <1>9 DEF Next, Driver

(* The invariant holds in every state of CommandPath.                      *)
LEMMA PathInvariant == Spec => []PathInv
<1>1. Init => PathInv
  BY PathStarts
<1>2. PathInv /\ [Next]_vars => PathInv'
  BY PathSteps
<1> QED
  BY <1>1, <1>2, PTL DEF Spec

-----------------------------------------------------------------------------
(* The results.                                                            *)

(* TypeOK: both rings keep their types whatever their sizes, the driver is *)
(* on the last slot only to write the Link TRB, and it pushes in handlers. *)
THEOREM PathTypeCorrect == Spec => []TypeOK
<1>1. PathInv => TypeOK
  BY DEF PathInv, RingInv, EventInv, TypeOK
<1> QED
  BY <1>1, PathInvariant, PTL

(* IssuerKept: when a handler follows the pointer of a completion, the TRB *)
(* there is still the command that was executed (xhci.cpp:228), although   *)
(* nothing in the rings keeps the driver from writing it again.            *)
THEOREM IssuerIsKept == Spec => []IssuerKept
<1>1. ASSUME PathInv PROVE IssuerKept
  <2>1. SUFFICES ASSUME NEW i \in DOMAIN Unhandled, IsCompletion(Unhandled[i])
                 PROVE  /\ buf[Unhandled[i].pointer].type = "command"
                        /\ buf[Unhandled[i].pointer].data = Unhandled[i].command
    BY DEF IssuerKept
  <2>2. DOMAIN Unhandled = 1..Len(Unhandled)
    BY <1>1, UnhandledIsLaid, LenProperties DEF PathInv, UnhandledLaid
  <2>3. Completes(i) /\ Unhandled[i].command \in Data
    BY <2>1, <2>2 DEF Completes, IsCompletion
  <2>4. AgeOf(i) \in (Waiting + 1)..Unanswered /\ Unhandled[i].pointer = Back(AgeOf(i))
    BY <1>1, <2>2, <2>3 DEF PathInv, Genuine
  <2>5. AgeOf(i) \in 1..Unanswered
    BY <1>1, <2>4, PendingIsWaiting DEF PathInv, PendingLaid
  <2>6. Number(AgeOf(i)) = Unhandled[i].command
    BY <1>1, <2>3, AgesAreNumbers DEF AgeOf, PathInv, RingInv, RingTypeOK
  <2> QED
    BY <1>1, <2>4, <2>5, <2>6 DEF PathInv, Written
<1> QED
  BY <1>1, PathInvariant, PTL

(* RingImplementsFifo: the controller executes every TRB once, whole and   *)
(* in the order of the pushes, for a ring of any size.                     *)
THEOREM CommandRingIsFifo == Spec => RingImplementsFifo
<1>1. Init => PushedTRBs!Init
  BY RingStarts DEF Init, RingInit, PushedTRBs!Init
<1>2. PathInv /\ [Next]_vars => [PushedTRBs!Next]_<<Pending, executed>>
  BY PathSteps
<1> QED
  BY <1>1, <1>2, PathInvariant, PTL DEF Spec, RingImplementsFifo, PushedTRBs!Spec

(* EventsImplementFifo: every event is handled once and in the order it    *)
(* was posted, for a segment of any size.                                  *)
THEOREM EventRingIsFifo == Spec => EventsImplementFifo
<1>1. Init => PostedEvents!Init
  BY EventStarts DEF Init, EventInit, PostedEvents!Init
<1>2. PathInv /\ [Next]_vars => [PostedEvents!Next]_<<Unhandled, handled>>
  BY PathSteps
<1> QED
  BY <1>1, <1>2, PathInvariant, PTL DEF Spec, EventsImplementFifo, PostedEvents!Spec

(* AnsweredInOrder: from Push to handler the two rings are one queue; no   *)
(* command is answered twice or out of turn, and none is passed over.      *)
THEOREM PathIsFifo == Spec => AnsweredInOrder
<1>1. Init => Conversation!Init
  BY PathStarts DEF Init, Conversation!Init
<1>2. PathInv /\ [Next]_vars => [Conversation!Next]_<<Outstanding, answered>>
  BY PathSteps
<1> QED
  BY <1>1, <1>2, PathInvariant, PTL DEF Spec, AnsweredInOrder, Conversation!Spec

=============================================================================
