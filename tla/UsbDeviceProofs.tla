--------------------------- MODULE UsbDeviceProofs ---------------------------
(***************************************************************************)
(* Proofs about UsbDevice, for every configuration a device may have,      *)
(* every report it may send and every size of the driver's tables.         *)
(*                                                                         *)
(* The invariant says what the callbacks take for granted: where on the    *)
(* ring of the control pipe the last request is, counted back from the     *)
(* write index (Back), which answer may be on its way to it, and that the  *)
(* slot of setup_stage_map_ it leads through is taken until then.  Only    *)
(* the last requests are spoken of, so the ring may have any length that   *)
(* holds them.  Moved and the ...Kept lemmas carry over the parts of the   *)
(* invariant that an action has nothing to do with.                        *)
(***************************************************************************)
EXTENDS UsbDevice, FiniteSetTheorems, SequenceTheorems, WellFoundedInduction, TLAPS

-----------------------------------------------------------------------------
(* Numbers in order.                                                       *)

(* The first of some numbers.                                              *)
LEMMA FirstIs ==
  ASSUME NEW S \in SUBSET Nat, S # {}
  PROVE  FirstOf(S) \in S /\ \A j \in S : FirstOf(S) <= j
<1>1. PICK i \in S : \A j \in S : <<j, i>> \notin OpToRel(<, Nat)
  BY NatLessThanWellFounded, WFMin
<1>2. \A j \in S : ~(j < i)
  BY <1>1 DEF OpToRel
<1>3. \A j \in S : i <= j
  BY <1>2
<1> QED
  BY <1>3 DEF FirstOf

(* The last of some numbers.                                               *)
LEMMA LastIs ==
  ASSUME NEW n \in Nat, NEW S \in SUBSET (1..n), S # {}
  PROVE  \E i \in S : \A j \in S : j <= i
<1> DEFINE T == {n - i : i \in S}
<1>1. T \in SUBSET Nat /\ T # {}
  <2>1. \A i \in S : n - i \in Nat
    OBVIOUS
  <2> QED
    BY <2>1
<1>2. PICK t \in T : \A u \in T : t <= u
  <2> HIDE DEF T
  <2> QED
    BY <1>1, FirstIs
<1>3. PICK i \in S : t = n - i
  OBVIOUS
<1>4. \A j \in S : n - i <= n - j
  BY <1>2, <1>3
<1> QED
  BY <1>4

(* The places of a finite set of numbers, counted from its first.          *)
LEMMA Ranks ==
  ASSUME NEW S \in SUBSET Int, IsFiniteSet(S)
  PROVE  /\ \A i \in S : Cardinality({j \in S : j <= i}) \in 1..Cardinality(S)
         /\ \A i, l \in S : Cardinality({j \in S : j <= i}) = Cardinality({j \in S : j <= l})
                              => i = l
         /\ \A k \in 1..Cardinality(S) : \E i \in S : Cardinality({j \in S : j <= i}) = k
<1> DEFINE UpTo(i) == {j \in S : j <= i}
           f == [i \in S |-> Cardinality(UpTo(i))]
           n == Cardinality(S)
<1>1. n \in Nat
  BY FS_CardinalityType
<1>2. \A i \in S : IsFiniteSet(UpTo(i)) /\ Cardinality(UpTo(i)) \in Nat
                   /\ Cardinality(UpTo(i)) <= n
  <2> SUFFICES ASSUME NEW i \in S
               PROVE  IsFiniteSet(UpTo(i)) /\ Cardinality(UpTo(i)) \in Nat
                      /\ Cardinality(UpTo(i)) <= n
    OBVIOUS
  <2>1. UpTo(i) \in SUBSET S
    OBVIOUS
  <2> HIDE DEF UpTo
  <2> QED
    BY <2>1, FS_Subset, FS_CardinalityType
<1>3. \A i \in S : Cardinality(UpTo(i)) # 0
  <2> SUFFICES ASSUME NEW i \in S PROVE Cardinality(UpTo(i)) # 0
    OBVIOUS
  <2>1. i \in UpTo(i)
    OBVIOUS
  <2>2. IsFiniteSet(UpTo(i))
    BY <1>2
  <2> HIDE DEF UpTo
  <2> QED
    BY <2>1, <2>2, FS_EmptySet
<1>4. ASSUME NEW i \in S, NEW l \in S, i < l
      PROVE  Cardinality(UpTo(i)) < Cardinality(UpTo(l))
  <2>1. UpTo(i) \in SUBSET (UpTo(l) \ {l}) /\ l \in UpTo(l)
    <3>1. i \in Int /\ l \in Int /\ \A j \in S : j \in Int
      OBVIOUS
    <3>2. \A j \in S : j <= i => j <= l /\ j # l
      BY <1>4, <3>1
    <3>3. l <= l
      BY <3>1
    <3> QED
      BY <3>2, <3>3
  <2>2. /\ IsFiniteSet(UpTo(l) \ {l})
        /\ Cardinality(UpTo(l) \ {l}) = Cardinality(UpTo(l)) - 1
    <3>1. IsFiniteSet(UpTo(l))
      BY <1>2
    <3> HIDE DEF UpTo
    <3> QED
      BY <2>1, <3>1, FS_RemoveElement
  <2>3. Cardinality(UpTo(i)) <= Cardinality(UpTo(l) \ {l})
    <3> DEFINE A == UpTo(i)
               B == UpTo(l) \ {l}
    <3>1. A \in SUBSET B /\ IsFiniteSet(B)
      BY <2>1, <2>2
    <3> HIDE DEF A, B
    <3>2. Cardinality(A) <= Cardinality(B)
      BY <3>1, FS_Subset
    <3> QED
      BY <3>2 DEF A, B
  <2>4. Cardinality(UpTo(i)) \in Nat /\ Cardinality(UpTo(l)) \in Nat
    BY <1>2
  <2> HIDE DEF UpTo
  <2> QED
    BY <2>2, <2>3, <2>4
<1>5. f \in [S -> 1..n]
  <2>1. \A i \in S : Cardinality(UpTo(i)) \in 1..n
    BY <1>1, <1>2, <1>3
  <2> HIDE DEF UpTo
  <2> QED
    BY <2>1
<1>6. \A i, l \in S : f[i] = f[l] => i = l
  <2> HIDE DEF UpTo
  <2>1. \A i, l \in S : i < l => f[i] < f[l]
    BY <1>4
  <2>2. \A i \in S : f[i] \in Nat
    BY <1>1, <1>5
  <2> QED
    BY <2>1, <2>2
<1> HIDE DEF f
<1>7. f \in Injection(S, 1..n)
  BY <1>5, <1>6 DEF Injection, IsInjective
<1>8. IsFiniteSet(1..n) /\ Cardinality(1..n) = n
  BY <1>1, FS_Interval
<1>9. f \in Surjection(S, 1..n)
  BY <1>7, <1>8, FS_Injection
<1>10. \A k \in 1..n : \E i \in S : f[i] = k
  BY <1>9 DEF Surjection
<1> QED
  BY <1>5, <1>6, <1>10 DEF f

(* What InOrder holds: every chosen element, and no other.                 *)
LEMMA InOrderIs ==
  ASSUME NEW s, NEW S \in SUBSET Int, IsFiniteSet(S)
  PROVE  LET t == InOrder(s, S)
         IN  /\ DOMAIN t = 1..Cardinality(S) /\ Cardinality(S) \in Nat
             /\ \A k \in DOMAIN t : \E i \in S : t[k] = s[i]
             /\ \A i \in S : \E k \in DOMAIN t : t[k] = s[i]
<1> DEFINE Rank(i) == Cardinality({j \in S : j <= i})
           At0(k) == CHOOSE i \in S : Rank(i) = k
<1>1. /\ \A i \in S : Rank(i) \in 1..Cardinality(S)
      /\ \A i, l \in S : Rank(i) = Rank(l) => i = l
      /\ \A k \in 1..Cardinality(S) : \E i \in S : Rank(i) = k
  BY Ranks
<1>2. Cardinality(S) \in Nat
  BY FS_CardinalityType
<1>4. InOrder(s, S) = [k \in 1..Cardinality(S) |-> s[At0(k)]]
  BY DEF InOrder
<1> HIDE DEF Rank
<1>5. \A k \in 1..Cardinality(S) : At0(k) \in S /\ Rank(At0(k)) = k
  BY <1>1
<1>6. \A i \in S : Rank(i) \in 1..Cardinality(S) /\ At0(Rank(i)) = i
  BY <1>1, <1>5
<1> HIDE DEF At0
<1> QED
  BY <1>2, <1>4, <1>5, <1>6

-----------------------------------------------------------------------------
(* Configurations.                                                         *)

(* The inner loop of InitializePhase2 stops at the end of the interface:   *)
(* it finds as many endpoints as the interface counts before the next      *)
(* interface begins, and no more (device.cpp:222-238).                     *)
LEMMA OwnEndpointsFound ==
  ASSUME NEW c \in Configurations, NEW i \in SupportedIn(c)
  PROVE  /\ EndpointsFrom(c, i) = Own(c, i)
         /\ DOMAIN Own(c, i) = 1..c[i].endpoints /\ c[i].endpoints \in Nat
         /\ \A k \in DOMAIN Own(c, i) : Own(c, i)[k] \in Endpoint
<1> DEFINE A == EndpointsAfter(c, i)
           O == {j \in A : \A l \in i + 1 .. j : c[l] \notin Interface}
           F == {j \in A : Cardinality({l \in A : l <= j}) <= c[i].endpoints}
<1>1. Len(c) \in Nat /\ i \in 1..Len(c)
  <2>1. c \in Seq({c[j] : j \in DOMAIN c}) /\ i \in DOMAIN c
    BY ConfigurationAssumption DEF SupportedIn
  <2> QED
    BY <2>1
<1>2. A \in SUBSET Int /\ IsFiniteSet(A) /\ \A j \in A : c[j] \in Endpoint
  <2>1. IsFiniteSet(i + 1 .. Len(c))
    BY <1>1, FS_Interval
  <2>2. A \in SUBSET (i + 1 .. Len(c))
    BY DEF EndpointsAfter
  <2>3. A \in SUBSET Int
    BY <1>1, <2>2
  <2> QED
    BY <2>1, <2>2, <2>3, FS_Subset DEF EndpointsAfter
<1> HIDE DEF A
<1>3. O \in SUBSET A /\ O \in SUBSET Int /\ IsFiniteSet(O)
  <2>1. O \in SUBSET A
    OBVIOUS
  <2> HIDE DEF O
  <2> QED
    BY <1>2, <2>1, FS_Subset
<1>4. Own(c, i) = InOrder(c, O) /\ EndpointsFrom(c, i) = InOrder(c, F)
  BY DEF Own, EndpointsFrom, A
<1>5. \A j, l \in A : j \in O /\ l <= j => l \in O
  <2> SUFFICES ASSUME NEW j \in A, NEW l \in A, j \in O, l <= j PROVE l \in O
    OBVIOUS
  <2>1. j \in Int /\ l \in Int
    BY <1>2
  <2>2. \A m \in i + 1 .. l : m \in i + 1 .. j
    BY <1>1, <2>1
  <2> QED
    BY <2>2
<1> HIDE DEF O
<1>6. /\ DOMAIN Own(c, i) = 1..Cardinality(O) /\ Cardinality(O) \in Nat
      /\ \A k \in DOMAIN Own(c, i) : \E j \in O : Own(c, i)[k] = c[j]
  BY <1>3, <1>4, InOrderIs
<1>7. Cardinality(O) = c[i].endpoints
  <2>1. Len(Own(c, i)) = Cardinality(O)
    BY <1>6
  <2> QED
    BY <2>1, ConfigurationAssumption
<1>8. ASSUME NEW j \in O PROVE j \in F
  <2> DEFINE U == {l \in A : l <= j}
  <2>1. U \in SUBSET O
    BY <1>3, <1>5
  <2> HIDE DEF U
  <2>2. Cardinality(U) <= Cardinality(O)
    BY <1>3, <2>1, FS_Subset
  <2> QED
    BY <1>3, <1>7, <2>2 DEF U
<1>9. ASSUME NEW j \in A, j \notin O PROVE j \notin F
  <2> DEFINE U == {l \in A : l <= j}
  <2>1. j \in U /\ U \in SUBSET A /\ O \in SUBSET U
    <3>1. \A l \in O : l <= j
      BY <1>2, <1>3, <1>5, <1>9
    <3> QED
      BY <1>2, <1>3, <3>1
  <2> HIDE DEF U
  <2>2. IsFiniteSet(U) /\ Cardinality(U) \in Nat
    BY <1>2, <2>1, FS_Subset, FS_CardinalityType
  <2>3. Cardinality(O) <= Cardinality(U) /\ (Cardinality(O) = Cardinality(U) => O = U)
    BY <2>1, <2>2, FS_Subset
  <2>4. Cardinality(O) # Cardinality(U)
    BY <1>9, <2>1, <2>3
  <2>5. ~(Cardinality(U) <= c[i].endpoints)
    BY <1>6, <1>7, <2>2, <2>3, <2>4
  <2> QED
    BY <2>5 DEF U
<1>10. F = O
  BY <1>3, <1>8, <1>9
<1> HIDE DEF F
<1> QED
  BY <1>2, <1>3, <1>4, <1>6, <1>7, <1>10

-----------------------------------------------------------------------------
(* Maps.                                                                   *)

(* Put fills the first empty slot.                                         *)
LEMMA PutIs ==
  ASSUME NEW n \in Nat, NEW t, DOMAIN t = 1..n, NEW key, NEW value,
         NEW i \in 1..n, t[i] = Empty, \A j \in 1..(i - 1) : t[j] # Empty
  PROVE  Put(t, key, value) = [t EXCEPT ![i] = <<key, value>>]
<1>1. EmptySlots(t) \in SUBSET Nat /\ i \in EmptySlots(t)
  BY DEF EmptySlots
<1>2. FirstOf(EmptySlots(t)) \in EmptySlots(t) /\ FirstOf(EmptySlots(t)) <= i
  BY <1>1, FirstIs
<1>3. FirstOf(EmptySlots(t)) = i
  BY <1>2 DEF EmptySlots
<1> QED
  BY <1>1, <1>3 DEF Put

(* A key that is in one slot only is found there and deleted from there.   *)
LEMMA OneSlotIs ==
  ASSUME NEW n \in Nat, NEW t, DOMAIN t = 1..n, NEW key, NEW value,
         NEW i \in 1..n, t[i] = <<key, value>>,
         \A j \in 1..n : HasKey(t[j], key) => j = i
  PROVE  /\ Contains(t, key) /\ Get(t, key) = value
         /\ Delete(t, key) = [t EXCEPT ![i] = Empty]
<1>1. <<key, value>> # <<>> /\ <<key, value>>[1] = key /\ <<key, value>>[2] = value
  OBVIOUS
<1>2. SlotsOf(t, key) = {i}
  BY <1>1 DEF SlotsOf, HasKey, Empty
<1>3. FirstOf(SlotsOf(t, key)) = i
  BY <1>2 DEF FirstOf
<1> QED
  BY <1>1, <1>2, <1>3 DEF Contains, Get, Delete

(* A map of one entry, in the slot Put takes of an empty one.              *)
OneEntry(n, key, value) == [EmptyTable(n) EXCEPT ![1] = <<key, value>>]

(* What is put into an empty map is found there, and can be deleted.       *)
LEMMA OneEntryIs ==
  ASSUME NEW n \in Nat \ {0}, NEW key, NEW value
  PROVE  LET t == OneEntry(n, key, value)
         IN  /\ Put(EmptyTable(n), key, value) = t
             /\ Contains(t, key) /\ Get(t, key) = value
             /\ Delete(t, key) = EmptyTable(n)
<1> DEFINE t == OneEntry(n, key, value)
<1>1. /\ DOMAIN EmptyTable(n) = 1..n /\ \A i \in 1..n : EmptyTable(n)[i] = Empty
      /\ n \in Nat /\ 1 \in 1..n /\ 1..(1 - 1) = {}
  BY DEF EmptyTable
<1>2. Put(EmptyTable(n), key, value) = t
  BY <1>1, PutIs DEF OneEntry
<1>3. DOMAIN t = 1..n /\ t[1] = <<key, value>>
      /\ \A j \in 1..n : j # 1 => t[j] = Empty
  BY <1>1 DEF OneEntry
<1>4. \A j \in 1..n : HasKey(t[j], key) => j = 1
  BY <1>3 DEF HasKey
<1>5. [t EXCEPT ![1] = Empty] = EmptyTable(n)
  BY <1>1, <1>3 DEF OneEntry, EmptyTable
<1> HIDE DEF t
<1>6. Contains(t, key) /\ Get(t, key) = value /\ Delete(t, key) = [t EXCEPT ![1] = Empty]
  BY <1>1, <1>3, <1>4, OneSlotIs
<1> QED
  BY <1>2, <1>5, <1>6 DEF t

(* An empty map holds no key and has nothing to delete.                    *)
LEMMA EmptyTableIs ==
  ASSUME NEW n, NEW key
  PROVE  ~Contains(EmptyTable(n), key) /\ Delete(EmptyTable(n), key) = EmptyTable(n)
BY DEF Contains, Delete, SlotsOf, HasKey, EmptyTable

(* Put does not look whether the key is there already: the waiters' map    *)
(* only ever holds the one waiter, in ever more of its slots.              *)
WaiterTable(t) ==
  t \in [1..WaiterSize -> {Empty, <<"SetProtocol", "hid">>}]

(* Registering the waiter once more leaves it registered.                  *)
LEMMA WaiterPut ==
  ASSUME NEW t, WaiterTable(t)
  PROVE  LET u == Put(t, "SetProtocol", "hid")
         IN  WaiterTable(u) /\ Contains(u, "SetProtocol")
<1> DEFINE entry == <<"SetProtocol", "hid">>
           u == Put(t, "SetProtocol", "hid")
<1>1. entry # <<>> /\ entry[1] = "SetProtocol"
  OBVIOUS
<1>2. WaiterSize \in Nat /\ 1 \in 1..WaiterSize
  BY SizeAssumption
<1> HIDE DEF entry
<1>3. CASE EmptySlots(t) = {}
  <2>1. t[1] = entry /\ DOMAIN t = 1..WaiterSize
    BY <1>2, <1>3 DEF EmptySlots, WaiterTable, entry
  <2> QED
    BY <1>1, <1>2, <1>3, <2>1 DEF Put, Contains, SlotsOf, HasKey, Empty
<1>4. CASE EmptySlots(t) # {}
  <2>1. EmptySlots(t) \in SUBSET Nat
    BY <1>2 DEF EmptySlots, WaiterTable
  <2>2. PICK i \in EmptySlots(t) : i = FirstOf(EmptySlots(t))
    BY <1>4, <2>1, FirstIs
  <2>3. u = [t EXCEPT ![i] = entry] /\ i \in 1..WaiterSize
    BY <1>4, <2>2 DEF Put, EmptySlots, WaiterTable, entry
  <2>4. WaiterTable(u) /\ u[i] = entry /\ i \in DOMAIN u
    BY <2>3 DEF WaiterTable, entry
  <2> QED
    BY <1>1, <2>4 DEF Contains, SlotsOf, HasKey, Empty
<1> QED
  BY <1>3, <1>4

-----------------------------------------------------------------------------
(* The ring of the control pipe.                                           *)

(* The position of the k-th TRB counted back from the last one written.    *)
Back(w, k) == IF k <= w THEN w - k ELSE w - k + Last

(* A ring has at least five TRBs before its link.                          *)
LEMMA LastType == Last \in Nat /\ Last >= 5
  BY SizeAssumption DEF Last

(* Counting back from the write index never names a position twice.        *)
LEMMA BackIs ==
  ASSUME NEW w \in Positions
  PROVE  /\ \A k \in 1..Last : Back(w, k) \in Positions
         /\ \A k, l \in 1..Last : Back(w, k) = Back(w, l) => k = l
         /\ \A k \in 1..(Last - 1) : Back(w, k) # w
BY LastType DEF Back, Positions

(* When the write index goes one on, everything is one further back.       *)
LEMMA BackNext ==
  ASSUME NEW w \in Positions
  PROVE  /\ (w + 1) % Last \in Positions
         /\ Back((w + 1) % Last, 1) = w
         /\ \A k \in 1..(Last - 1) : Back((w + 1) % Last, k + 1) = Back(w, k)
<1>1. Last \in Nat /\ Last >= 5 /\ w \in 0..(Last - 1)
  BY LastType DEF Positions
<1> HIDE DEF Last
<1>2. (w + 1) % Last = IF w + 1 = Last THEN 0 ELSE w + 1
  BY <1>1, SMT
<1> QED
  BY <1>1, <1>2 DEF Back, Positions

(* The control pipe: what is queued is what was written last.              *)
Trb == [type : {"Setup", "Data", "Status", "none"},
        request : Requests \cup {NoRequest}, ioc : BOOLEAN]
Queue(p) == \A i \in 1..Len(p.ep0) : p.ep0[i] = Back(p.write_index, Len(p.ep0) - i + 1)
Pipe ==
  [ring : [Positions -> Trb], write_index : Positions, ep0 : Seq(Positions),
   setup_stage_map : [1..MapSize -> {Empty} \cup (Positions \X Positions)],
   event_waiters : [1..WaiterSize -> {Empty, <<"SetProtocol", "hid">>}]]
PipeOK(p) == p \in Pipe /\ Queue(p) /\ Len(p.ep0) < Last

(* The k-th TRB counted back.                                              *)
Written(p, k) == p.ring[Back(p.write_index, k)]

(* Push writes over the oldest TRB, which must not be queued any more.     *)
LEMMA PushIs ==
  ASSUME NEW p, PipeOK(p), NEW trb \in Trb, Len(p.ep0) + 1 < Last
  PROVE  LET q == Push(p, trb)
         IN  /\ PipeOK(q) /\ Len(q.ep0) = Len(p.ep0) + 1
             /\ q.setup_stage_map = p.setup_stage_map
             /\ q.event_waiters = p.event_waiters
             /\ q.write_index = (p.write_index + 1) % Last
             /\ Written(q, 1) = trb
             /\ \A k \in 1..(Last - 1) :
                  /\ Back(q.write_index, k + 1) = Back(p.write_index, k)
                  /\ Written(q, k + 1) = Written(p, k)
<1> DEFINE w == p.write_index
           x == (w + 1) % Last
           q == Push(p, trb)
<1>1. /\ p \in Pipe /\ w \in Positions /\ p.ring \in [Positions -> Trb]
      /\ p.ep0 \in Seq(Positions) /\ Len(p.ep0) \in Nat
  BY DEF PipeOK, Pipe
<1>2. /\ x \in Positions /\ Back(x, 1) = w
      /\ \A k \in 1..(Last - 1) : Back(x, k + 1) = Back(w, k)
  BY <1>1, BackNext
<1>3. /\ q.ring = [p.ring EXCEPT ![w] = trb] /\ q.write_index = x
      /\ q.ep0 = Append(p.ep0, w)
      /\ q.setup_stage_map = p.setup_stage_map /\ q.event_waiters = p.event_waiters
  BY <1>1 DEF Push, Pipe
<1>4. /\ \A k \in 1..(Last - 1) : Back(w, k) \in Positions /\ Back(w, k) # w
  BY <1>1, BackIs, LastType
<1> HIDE DEF x
<1>5. Written(q, 1) = trb
  BY <1>1, <1>2, <1>3 DEF Written
<1>6. \A k \in 1..(Last - 1) : Written(q, k + 1) = Written(p, k)
  BY <1>1, <1>2, <1>3, <1>4 DEF Written
<1>7. /\ q.ep0 \in Seq(Positions) /\ Len(q.ep0) = Len(p.ep0) + 1
      /\ \A i \in 1..Len(p.ep0) : q.ep0[i] = p.ep0[i]
      /\ q.ep0[Len(p.ep0) + 1] = w
  BY <1>1, <1>3, AppendProperties
<1>8. q \in Pipe
  BY <1>1, <1>2, <1>3, <1>7 DEF Push, Pipe, x
<1> HIDE DEF q, w
<1>9. Queue(q)
  <2> SUFFICES ASSUME NEW i \in 1..Len(q.ep0)
               PROVE  q.ep0[i] = Back(x, Len(q.ep0) - i + 1)
    BY <1>3 DEF Queue
  <2>1. CASE i = Len(p.ep0) + 1
    BY <1>1, <1>2, <1>7, <2>1
  <2>2. CASE i \in 1..Len(p.ep0)
    <3> DEFINE k == Len(p.ep0) - i + 1
    <3>1. k \in 1..(Last - 1) /\ Len(q.ep0) - i + 1 = k + 1
      BY <1>1, <1>7, <2>2, LastType DEF PipeOK
    <3>2. p.ep0[i] = Back(w, k)
      BY <2>2 DEF PipeOK, Queue, w
    <3> HIDE DEF k
    <3> QED
      BY <1>2, <1>7, <2>2, <3>1, <3>2
  <2> QED
    BY <1>1, <1>7, <2>1, <2>2
<1> QED
  BY <1>2, <1>3, <1>5, <1>6, <1>7, <1>8, <1>9 DEF PipeOK, q, x, w

(* The map stays one of positions to positions.                            *)
StageTable(t) == t \in [1..MapSize -> {Empty} \cup (Positions \X Positions)]

(* Put keeps the type of setup_stage_map_.                                 *)
LEMMA StagePut ==
  ASSUME NEW t, StageTable(t), NEW key \in Positions, NEW value \in Positions
  PROVE  StageTable(Put(t, key, value)) /\ StageTable(Delete(t, key))
<1> DEFINE E == {Empty} \cup (Positions \X Positions)
<1>1. <<key, value>> \in E /\ Empty \in E /\ t \in [1..MapSize -> E]
  BY DEF StageTable
<1>2. \A i : [t EXCEPT ![i] = <<key, value>>] \in [1..MapSize -> E]
             /\ [t EXCEPT ![i] = Empty] \in [1..MapSize -> E]
  <2> HIDE DEF E
  <2> QED
    BY <1>1
<1> QED
  BY <1>1, <1>2 DEF StageTable, Put, Delete

(* Changing an entry of the map leaves the rest of the pipe as it was.     *)
LEMMA MapChanged ==
  ASSUME NEW p, PipeOK(p), NEW t, StageTable(t)
  PROVE  LET q == [p EXCEPT !.setup_stage_map = t]
         IN  /\ PipeOK(q) /\ q.ep0 = p.ep0 /\ q.write_index = p.write_index
             /\ q.ring = p.ring /\ q.event_waiters = p.event_waiters
             /\ q.setup_stage_map = t
<1> DEFINE q == [p EXCEPT !.setup_stage_map = t]
<1>1. p \in Pipe
  BY DEF PipeOK
<1>2. /\ q \in Pipe /\ q.ep0 = p.ep0 /\ q.write_index = p.write_index
      /\ q.ring = p.ring /\ q.event_waiters = p.event_waiters
      /\ q.setup_stage_map = t
  BY <1>1 DEF Pipe, StageTable
<1> HIDE DEF q
<1> QED
  BY <1>2 DEF PipeOK, Queue, q

(* ControlIn: the data stage is filed, whose answer comes before the       *)
(* status stage is executed.                                               *)
LEMMA ControlInIs ==
  ASSUME NEW p, PipeOK(p), Len(p.ep0) <= 1, NEW request \in Requests
  PROVE  LET q == ControlIn(p, request)
         IN  /\ PipeOK(q) /\ Len(q.ep0) = Len(p.ep0) + 3
             /\ Written(q, 1) = StatusStage(FALSE)
             /\ Written(q, 2) = DataStage /\ Written(q, 3) = SetupStage(request)
             /\ Written(q, 4) = Written(p, 1)
             /\ q.event_waiters = p.event_waiters
             /\ q.setup_stage_map = Put(p.setup_stage_map, Back(q.write_index, 2),
                                        Back(q.write_index, 3))
<1> DEFINE a == Push(p, SetupStage(request))
           b == Push(a, DataStage)
           c == Push(b, StatusStage(FALSE))
           t == Put(p.setup_stage_map, (p.write_index + 1) % Last, p.write_index)
<1>0. Last \in Nat /\ Last >= 5 /\ Len(p.ep0) \in Nat /\ p.write_index \in Positions
      /\ StageTable(p.setup_stage_map)
  BY LastType DEF PipeOK, Pipe, StageTable
<1>1. /\ SetupStage(request) \in Trb /\ DataStage \in Trb /\ StatusStage(FALSE) \in Trb
  BY DEF Trb, SetupStage, DataStage, StatusStage
<1>2. ControlIn(p, request) = [c EXCEPT !.setup_stage_map = Put(@, (p.write_index + 1) % Last, p.write_index)]
  BY DEF ControlIn
<1> HIDE DEF a, b, c, Last
<1>3. /\ PipeOK(a) /\ Len(a.ep0) = Len(p.ep0) + 1
      /\ a.setup_stage_map = p.setup_stage_map /\ a.event_waiters = p.event_waiters
      /\ a.write_index = (p.write_index + 1) % Last
      /\ Written(a, 1) = SetupStage(request)
      /\ Back(a.write_index, 2) = Back(p.write_index, 1)
      /\ Written(a, 2) = Written(p, 1)
  <2>1. 1 \in 1..(Last - 1)
    BY <1>0
  <2> QED
    BY <1>0, <1>1, <2>1, PushIs DEF a
<1>4. /\ PipeOK(b) /\ Len(b.ep0) = Len(p.ep0) + 2
      /\ b.setup_stage_map = p.setup_stage_map /\ b.event_waiters = p.event_waiters
      /\ Written(b, 1) = DataStage
      /\ Back(b.write_index, 2) = Back(a.write_index, 1)
      /\ Written(b, 2) = SetupStage(request) /\ Written(b, 3) = Written(p, 1)
      /\ Back(b.write_index, 1) = a.write_index
  <2>1. 1 \in 1..(Last - 1) /\ 2 \in 1..(Last - 1)
    BY <1>0
  <2>2. a.write_index \in Positions
    BY <1>3 DEF PipeOK, Pipe
  <2> QED
    BY <1>0, <1>1, <1>3, <2>1, <2>2, PushIs, BackNext DEF b
<1>5. /\ PipeOK(c) /\ Len(c.ep0) = Len(p.ep0) + 3
      /\ c.setup_stage_map = p.setup_stage_map /\ c.event_waiters = p.event_waiters
      /\ Written(c, 1) = StatusStage(FALSE) /\ Written(c, 2) = DataStage
      /\ Written(c, 3) = SetupStage(request) /\ Written(c, 4) = Written(p, 1)
      /\ Back(c.write_index, 2) = a.write_index
      /\ Back(c.write_index, 3) = Back(a.write_index, 1)
  <2>1. 1 \in 1..(Last - 1) /\ 2 \in 1..(Last - 1) /\ 3 \in 1..(Last - 1)
    BY <1>0
  <2>2. PipeOK(b) /\ Len(b.ep0) + 1 < Last
    BY <1>0, <1>4
  <2>3. /\ PipeOK(c) /\ Len(c.ep0) = Len(b.ep0) + 1
        /\ c.setup_stage_map = b.setup_stage_map
        /\ c.event_waiters = b.event_waiters
        /\ Written(c, 1) = StatusStage(FALSE)
        /\ \A k \in 1..(Last - 1) :
             /\ Back(c.write_index, k + 1) = Back(b.write_index, k)
             /\ Written(c, k + 1) = Written(b, k)
    BY <1>1, <2>2, PushIs DEF c
  <2>4. 1 + 1 = 2 /\ 2 + 1 = 3 /\ 3 + 1 = 4 /\ (Len(p.ep0) + 2) + 1 = Len(p.ep0) + 3
    BY <1>0
  <2> QED
    BY <1>4, <2>1, <2>3, <2>4
<1>6. Back(a.write_index, 1) = p.write_index
  BY <1>0, <1>3, BackNext
<1>7. StageTable(t)
  BY <1>0, BackNext, StagePut
<1>8. ControlIn(p, request) = [c EXCEPT !.setup_stage_map = t]
  BY <1>2, <1>5 DEF PipeOK, Pipe
<1> HIDE DEF t
<1> DEFINE q == [c EXCEPT !.setup_stage_map = t]
<1>9. /\ PipeOK(q) /\ q.ep0 = c.ep0 /\ q.write_index = c.write_index
      /\ q.ring = c.ring /\ q.event_waiters = c.event_waiters
      /\ q.setup_stage_map = t
  BY <1>5, <1>7, MapChanged
<1> HIDE DEF q
<1> QED
  BY <1>3, <1>5, <1>6, <1>8, <1>9 DEF Written, t, q

(* ControlOut: the status stage is filed.                                  *)
LEMMA ControlOutIs ==
  ASSUME NEW p, PipeOK(p), Len(p.ep0) + 2 < Last, NEW request \in Requests
  PROVE  LET q == ControlOut(p, request)
         IN  /\ PipeOK(q) /\ Len(q.ep0) = Len(p.ep0) + 2
             /\ Written(q, 1) = StatusStage(TRUE) /\ Written(q, 2) = SetupStage(request)
             /\ \A k \in 1..(Last - 2) :
                  /\ Back(q.write_index, k + 2) = Back(p.write_index, k)
                  /\ Written(q, k + 2) = Written(p, k)
             /\ q.event_waiters = p.event_waiters
             /\ q.setup_stage_map = Put(p.setup_stage_map, Back(q.write_index, 1),
                                        Back(q.write_index, 2))
<1> DEFINE a == Push(p, SetupStage(request))
           b == Push(a, StatusStage(TRUE))
           t == Put(p.setup_stage_map, (p.write_index + 1) % Last, p.write_index)
<1>0. Last \in Nat /\ Last >= 5 /\ Len(p.ep0) \in Nat /\ p.write_index \in Positions
      /\ StageTable(p.setup_stage_map)
  BY LastType DEF PipeOK, Pipe, StageTable
<1>1. SetupStage(request) \in Trb /\ StatusStage(TRUE) \in Trb
  BY DEF Trb, SetupStage, StatusStage
<1>2. ControlOut(p, request) = [b EXCEPT !.setup_stage_map = Put(@, (p.write_index + 1) % Last, p.write_index)]
  BY DEF ControlOut
<1> HIDE DEF a, b, Last
<1>3. /\ PipeOK(a) /\ Len(a.ep0) = Len(p.ep0) + 1
      /\ a.setup_stage_map = p.setup_stage_map /\ a.event_waiters = p.event_waiters
      /\ a.write_index = (p.write_index + 1) % Last
      /\ Written(a, 1) = SetupStage(request)
      /\ \A k \in 1..(Last - 1) :
           /\ Back(a.write_index, k + 1) = Back(p.write_index, k)
           /\ Written(a, k + 1) = Written(p, k)
  BY <1>0, <1>1, PushIs DEF a
<1>4. /\ PipeOK(b) /\ Len(b.ep0) = Len(p.ep0) + 2
      /\ b.setup_stage_map = p.setup_stage_map /\ b.event_waiters = p.event_waiters
      /\ Written(b, 1) = StatusStage(TRUE)
      /\ \A k \in 1..(Last - 1) :
           /\ Back(b.write_index, k + 1) = Back(a.write_index, k)
           /\ Written(b, k + 1) = Written(a, k)
      /\ Back(b.write_index, 1) = a.write_index
  <2>1. a.write_index \in Positions
    BY <1>3 DEF PipeOK, Pipe
  <2>2. PipeOK(a) /\ Len(a.ep0) + 1 < Last
    BY <1>0, <1>3
  <2>3. /\ PipeOK(b) /\ Len(b.ep0) = Len(a.ep0) + 1
        /\ b.setup_stage_map = a.setup_stage_map
        /\ b.event_waiters = a.event_waiters
        /\ b.write_index = (a.write_index + 1) % Last
        /\ Written(b, 1) = StatusStage(TRUE)
        /\ \A k \in 1..(Last - 1) :
             /\ Back(b.write_index, k + 1) = Back(a.write_index, k)
             /\ Written(b, k + 1) = Written(a, k)
    BY <1>1, <2>2, PushIs DEF b
  <2>4. (Len(p.ep0) + 1) + 1 = Len(p.ep0) + 2
    BY <1>0
  <2> QED
    BY <1>3, <2>1, <2>3, <2>4, BackNext
<1>5. Back(a.write_index, 1) = p.write_index
  BY <1>0, <1>3, BackNext
<1>6. \A k \in 1..(Last - 2) : /\ Back(b.write_index, k + 2) = Back(p.write_index, k)
                               /\ Written(b, k + 2) = Written(p, k)
  <2>1. \A k \in 1..(Last - 2) : k \in 1..(Last - 1) /\ k + 1 \in 1..(Last - 1)
                                 /\ (k + 1) + 1 = k + 2
    BY <1>0
  <2> QED
    BY <1>3, <1>4, <2>1
<1>7. Written(b, 2) = SetupStage(request) /\ Back(b.write_index, 2) = p.write_index
  BY <1>0, <1>3, <1>4, <1>5
<1>8. StageTable(t)
  BY <1>0, BackNext, StagePut
<1>9. ControlOut(p, request) = [b EXCEPT !.setup_stage_map = t]
  BY <1>2, <1>4 DEF PipeOK, Pipe
<1> HIDE DEF t
<1> DEFINE q == [b EXCEPT !.setup_stage_map = t]
<1>10. /\ PipeOK(q) /\ q.ep0 = b.ep0 /\ q.write_index = b.write_index
       /\ q.ring = b.ring /\ q.event_waiters = b.event_waiters
       /\ q.setup_stage_map = t
  BY <1>4, <1>8, MapChanged
<1> HIDE DEF q
<1> QED
  BY <1>3, <1>4, <1>6, <1>7, <1>9, <1>10 DEF Written, t, q

(* The pipe after n requests for SetProtocol, no answer being handled yet. *)
AskedFor(p, n) ==
  /\ PipeOK(p) /\ Len(p.ep0) = 2 * n
  /\ \A m \in 0..(n - 1) : /\ Written(p, 2 * m + 1) = StatusStage(TRUE)
                           /\ Written(p, 2 * m + 2) = SetupStage("SetProtocol")
  /\ \A m \in 0..(n - 1) : p.setup_stage_map[n - m]
        = <<Back(p.write_index, 2 * m + 1), Back(p.write_index, 2 * m + 2)>>
  /\ \A j \in 1..MapSize : j > n => p.setup_stage_map[j] = Empty
  /\ n > 0 => Contains(p.event_waiters, "SetProtocol")

(* Each is filed in the first slot that is still empty.                    *)
LEMMA SetProtocolIs ==
  ASSUME NEW p, NEW n \in Nat, AskedFor(p, n), 2 * n + 2 < Last, n < MapSize
  PROVE  AskedFor(SetProtocol(p), n + 1)
<1> DEFINE waiters == Put(p.event_waiters, "SetProtocol", "hid")
           noted == [p EXCEPT !.event_waiters = waiters]
           q == SetProtocol(p)
           w == p.write_index
           x == q.write_index
<1>0. Last \in Nat /\ Last >= 5 /\ MapSize \in Nat
  BY LastType, SizeAssumption
<1>1. /\ p \in Pipe /\ PipeOK(p) /\ WaiterTable(p.event_waiters)
      /\ StageTable(p.setup_stage_map)
  BY DEF AskedFor, PipeOK, Pipe, WaiterTable, StageTable
<1>2. WaiterTable(waiters) /\ Contains(waiters, "SetProtocol")
  BY <1>1, WaiterPut
<1>3. q = ControlOut(noted, "SetProtocol")
  BY DEF SetProtocol
<1> HIDE DEF waiters, q, Last
<1>4. /\ noted \in Pipe /\ noted.ep0 = p.ep0 /\ noted.write_index = w
      /\ noted.ring = p.ring /\ noted.setup_stage_map = p.setup_stage_map
      /\ noted.event_waiters = waiters
  BY <1>1, <1>2 DEF Pipe, WaiterTable
<1> HIDE DEF noted
<1>5. PipeOK(noted)
  BY <1>1, <1>4 DEF PipeOK, Queue
<1>6. Len(noted.ep0) + 2 < Last
  BY <1>4 DEF AskedFor
<1>7. /\ PipeOK(q) /\ Len(q.ep0) = Len(noted.ep0) + 2
      /\ Written(q, 1) = StatusStage(TRUE) /\ Written(q, 2) = SetupStage("SetProtocol")
      /\ \A k \in 1..(Last - 2) : /\ Back(x, k + 2) = Back(noted.write_index, k)
                                  /\ Written(q, k + 2) = Written(noted, k)
      /\ q.event_waiters = noted.event_waiters
      /\ q.setup_stage_map = Put(noted.setup_stage_map, Back(x, 1), Back(x, 2))
  BY <1>3, <1>5, <1>6, ControlOutIs DEF Requests
<1> HIDE DEF x
<1>8. \A m \in 0..(n - 1) :
        /\ Written(q, 2 * (m + 1) + 1) = StatusStage(TRUE)
        /\ Written(q, 2 * (m + 1) + 2) = SetupStage("SetProtocol")
        /\ Back(x, 2 * (m + 1) + 1) = Back(w, 2 * m + 1)
        /\ Back(x, 2 * (m + 1) + 2) = Back(w, 2 * m + 2)
  <2> SUFFICES ASSUME NEW m \in 0..(n - 1)
               PROVE  /\ Written(q, 2 * (m + 1) + 1) = StatusStage(TRUE)
                      /\ Written(q, 2 * (m + 1) + 2) = SetupStage("SetProtocol")
                      /\ Back(x, 2 * (m + 1) + 1) = Back(w, 2 * m + 1)
                      /\ Back(x, 2 * (m + 1) + 2) = Back(w, 2 * m + 2)
    OBVIOUS
  <2>1. /\ 2 * m + 1 \in 1..(Last - 2) /\ 2 * m + 2 \in 1..(Last - 2)
        /\ 2 * (m + 1) + 1 = (2 * m + 1) + 2 /\ 2 * (m + 1) + 2 = (2 * m + 2) + 2
    BY <1>0
  <2>2. \A k : Written(noted, k) = Written(p, k)
    BY <1>4 DEF Written
  <2>3. /\ Written(p, 2 * m + 1) = StatusStage(TRUE)
        /\ Written(p, 2 * m + 2) = SetupStage("SetProtocol")
    BY DEF AskedFor
  <2>4. \A k \in 1..(Last - 2) : Back(x, k + 2) = Back(w, k) /\ Written(q, k + 2) = Written(p, k)
    BY <1>4, <1>7, <2>2
  <2> DEFINE k == 2 * m + 1
             l == 2 * m + 2
  <2>5. /\ Back(x, k + 2) = Back(w, k) /\ Written(q, k + 2) = Written(p, k)
        /\ Back(x, l + 2) = Back(w, l) /\ Written(q, l + 2) = Written(p, l)
    <3>1. k \in 1..(Last - 2) /\ l \in 1..(Last - 2)
      BY <2>1
    <3> HIDE DEF k, l
    <3> QED
      BY <2>4, <3>1
  <2> QED
    BY <2>1, <2>3, <2>5
<1>9. q.setup_stage_map
        = [p.setup_stage_map EXCEPT ![n + 1] = <<Back(x, 1), Back(x, 2)>>]
  <2> DEFINE t == p.setup_stage_map
             i == n + 1
  <2>1. DOMAIN t = 1..MapSize /\ i \in 1..MapSize /\ t[i] = Empty
    BY <1>0, <1>1 DEF AskedFor, StageTable
  <2>2. \A a, b : <<a, b>> # Empty
    BY DEF Empty
  <2>3. \A j \in 1..(i - 1) : t[j] # Empty
    <3> SUFFICES ASSUME NEW j \in 1..n PROVE t[j] # Empty
      OBVIOUS
    <3>1. n - j \in 0..(n - 1) /\ n - (n - j) = j
      OBVIOUS
    <3> QED
      BY <2>2, <3>1 DEF AskedFor
  <2> HIDE DEF t, i
  <2>4. Put(t, Back(x, 1), Back(x, 2)) = [t EXCEPT ![i] = <<Back(x, 1), Back(x, 2)>>]
    BY <1>0, <2>1, <2>3, PutIs
  <2> QED
    BY <1>4, <1>7, <2>4 DEF t, i
<1>10. /\ Len(q.ep0) = 2 * (n + 1)
       /\ Contains(q.event_waiters, "SetProtocol")
  BY <1>2, <1>4, <1>7 DEF AskedFor
<1>11. \A m \in 0..n : m = 0 \/ (m - 1 \in 0..(n - 1) /\ (m - 1) + 1 = m)
  OBVIOUS
<1>12. \A m \in 0..n : /\ Written(q, 2 * m + 1) = StatusStage(TRUE)
                       /\ Written(q, 2 * m + 2) = SetupStage("SetProtocol")
  <2> SUFFICES ASSUME NEW m \in 0..n
               PROVE  /\ Written(q, 2 * m + 1) = StatusStage(TRUE)
                      /\ Written(q, 2 * m + 2) = SetupStage("SetProtocol")
    OBVIOUS
  <2>1. CASE m = 0
    <3>1. 2 * m + 1 = 1 /\ 2 * m + 2 = 2
      BY <2>1
    <3> QED
      BY <1>7, <3>1
  <2>2. CASE m - 1 \in 0..(n - 1) /\ (m - 1) + 1 = m
    <3>1. /\ Written(q, 2 * ((m - 1) + 1) + 1) = StatusStage(TRUE)
          /\ Written(q, 2 * ((m - 1) + 1) + 2) = SetupStage("SetProtocol")
      BY <1>8, <2>2
    <3> QED
      BY <2>2, <3>1
  <2> QED
    BY <1>11, <2>1, <2>2
<1>13. \A m \in 0..n : q.setup_stage_map[(n + 1) - m]
                         = <<Back(x, 2 * m + 1), Back(x, 2 * m + 2)>>
  <2> SUFFICES ASSUME NEW m \in 0..n
               PROVE  q.setup_stage_map[(n + 1) - m]
                        = <<Back(x, 2 * m + 1), Back(x, 2 * m + 2)>>
    OBVIOUS
  <2>1. DOMAIN p.setup_stage_map = 1..MapSize
    BY <1>1 DEF StageTable
  <2>2. CASE m = 0
    BY <1>0, <1>9, <2>1, <2>2
  <2>3. CASE m # 0
    <3>1. /\ m - 1 \in 0..(n - 1) /\ (m - 1) + 1 = m /\ n - (m - 1) = (n + 1) - m
          /\ (n + 1) - m \in 1..MapSize /\ (n + 1) - m # n + 1
      BY <1>0, <2>3
    <3>2. p.setup_stage_map[n - (m - 1)]
            = <<Back(w, 2 * (m - 1) + 1), Back(w, 2 * (m - 1) + 2)>>
      BY <3>1 DEF AskedFor
    <3>3. /\ Back(x, 2 * ((m - 1) + 1) + 1) = Back(w, 2 * (m - 1) + 1)
          /\ Back(x, 2 * ((m - 1) + 1) + 2) = Back(w, 2 * (m - 1) + 2)
      BY <1>8, <3>1
    <3> QED
      BY <1>9, <2>1, <3>1, <3>2, <3>3
  <2> QED
    BY <2>2, <2>3
<1>14. \A j \in 1..MapSize : j > n + 1 => q.setup_stage_map[j] = Empty
  BY <1>0, <1>1, <1>9 DEF AskedFor, StageTable
<1>15. (n + 1) - 1 = n
  OBVIOUS
<1> QED
  BY <1>7, <1>10, <1>12, <1>13, <1>14, <1>15 DEF AskedFor, q, x

(* The loop of OnEndpointsConfigured, one SetProtocol after the other.     *)
LEMMA SetProtocolsIs ==
  ASSUME NEW p, AskedFor(p, 0), NEW n \in Nat, 2 * n < Last, n <= MapSize
  PROVE  AskedFor(SetProtocols(p, n), n)
<1> DEFINE Rec(f, m) == f = [i \in 0..m |-> IF i = 0 THEN p ELSE SetProtocol(f[i - 1])]
           asked == CHOOSE f : Rec(f, n)
<1>1. \A m \in Nat : \E f : Rec(f, m)
  <2> DEFINE Bad == {m \in Nat : ~\E f : Rec(f, m)}
  <2>1. SUFFICES ASSUME Bad # {} PROVE FALSE
    OBVIOUS
  <2>2. PICK m \in Bad : \A l \in Bad : m <= l
    <3>1. Bad \in SUBSET Nat
      OBVIOUS
    <3> HIDE DEF Bad
    <3> QED
      BY <2>1, <3>1, FirstIs
  <2>3. m # 0
    <3>1. Rec([i \in 0..0 |-> p], 0)
      OBVIOUS
    <3> QED
      BY <3>1
  <2>4. m - 1 \in Nat /\ m - 1 \notin Bad
    <3>1. m \in Nat
      OBVIOUS
    <3> HIDE DEF Bad
    <3> QED
      BY <2>2, <2>3, <3>1
  <2>5. PICK f : Rec(f, m - 1)
    BY <2>4
  <2> DEFINE g == [i \in 0..m |-> IF i = m THEN SetProtocol(f[m - 1]) ELSE f[i]]
  <2>6. \A i \in 0..(m - 1) : f[i] = IF i = 0 THEN p ELSE SetProtocol(f[i - 1])
    BY <2>5
  <2>7. \A i \in 0..m : g[i] = IF i = 0 THEN p ELSE SetProtocol(g[i - 1])
    <3> SUFFICES ASSUME NEW i \in 0..m
                 PROVE  g[i] = IF i = 0 THEN p ELSE SetProtocol(g[i - 1])
      OBVIOUS
    <3>1. i # 0 => i - 1 \in 0..m /\ i - 1 # m
      BY <2>4
    <3>2. i # m => i \in 0..(m - 1)
      BY <2>4
    <3> QED
      BY <2>3, <2>6, <3>1, <3>2
  <2>8. Rec(g, m)
    <3>1. g = [i \in 0..m |-> g[i]]
      OBVIOUS
    <3> HIDE DEF g
    <3> QED
      BY <2>7, <3>1
  <2> QED
    BY <2>2, <2>8
<1>2. Rec(asked, n)
  BY <1>1
<1>3. SetProtocols(p, n) = asked[n]
  BY DEF SetProtocols
<1> HIDE DEF asked
<1>4. asked[0] = p /\ \A i \in 1..n : asked[i] = SetProtocol(asked[i - 1])
  <2>1. \A i \in 0..n : asked[i] = IF i = 0 THEN p ELSE SetProtocol(asked[i - 1])
    BY <1>2
  <2>2. 0 \in 0..n /\ \A i \in 1..n : i \in 0..n /\ i # 0
    OBVIOUS
  <2> QED
    BY <2>1, <2>2
<1>5. \A i \in 0..n : AskedFor(asked[i], i)
  <2> DEFINE Bad == {i \in 0..n : ~AskedFor(asked[i], i)}
  <2>1. SUFFICES ASSUME Bad # {} PROVE FALSE
    OBVIOUS
  <2>2. PICK i \in Bad : \A l \in Bad : i <= l
    <3>1. Bad \in SUBSET Nat
      OBVIOUS
    <3> HIDE DEF Bad
    <3> QED
      BY <2>1, <3>1, FirstIs
  <2>3. i # 0 /\ i \in 1..n
    BY <1>4
  <2>4. i - 1 \in 0..n /\ i - 1 \notin Bad /\ (i - 1) + 1 = i /\ i - 1 \in Nat
    BY <2>2, <2>3
  <2>5. AskedFor(asked[i - 1], i - 1)
    BY <2>4
  <2>6. 2 * (i - 1) + 2 < Last /\ i - 1 < MapSize
    BY <2>3, LastType, SizeAssumption
  <2>7. AskedFor(SetProtocol(asked[i - 1]), (i - 1) + 1)
    BY <2>4, <2>5, <2>6, SetProtocolIs
  <2> QED
    BY <1>4, <2>3, <2>4, <2>7
<1> QED
  BY <1>3, <1>5

-----------------------------------------------------------------------------
(* The invariant.                                                          *)

Event == [type : {"Transfer", "CommandCompletion"}, ep : 0..15,
          issuer : Positions, ok : BOOLEAN]

(* Events of a kind that are waiting: answers on the control pipe, reports *)
(* and completions of the Configure Endpoint command.                      *)
Where(kind) == {i \in DOMAIN er : er[i] \in kind}
Reply  == {e \in Event : e.type = "Transfer" /\ e.ep = 0 /\ e.ok}
Data   == {e \in Event : e.type = "Transfer" /\ e.ep # 0 /\ e.ok}
Done   == {e \in Event : e.type = "CommandCompletion"}
Failed == {e \in Event : ~e.ok}
Single(kind) == \A i, j \in Where(kind) : i = j

UsbTypeOK ==
  /\ configuration \in Configurations /\ speed \in Speeds
  /\ initialize_phase \in 1..4 /\ hid_phase \in 0..2 /\ ep_interrupt_in \in 0..15
  /\ port_config_phase \in {"InitializingDevice", "ConfiguringEndpoints", "Configured"}
  /\ PipeOK(pipe)
  /\ polls \in Nat /\ command \in BOOLEAN /\ er \in Seq(Event)

(* Up to phase 3: the request the phase waits for was written last, its    *)
(* data or status stage at Age; before it at most the status stage of the  *)
(* request before.  At most one answer is waiting and it is to that stage. *)
(* The map holds the entry of the request until its answer was handled.    *)
Age   == IF initialize_phase = 3 THEN 1 ELSE 2
Asked == CASE initialize_phase = 1 -> "GetDescriptor(Device)"
           [] initialize_phase = 2 -> "GetDescriptor(Configuration)"
           [] OTHER                -> "SetConfiguration"
Queued == Len(pipe.ep0)
Filed  == OneEntry(MapSize, Back(pipe.write_index, Age), Back(pipe.write_index, Age + 1))
AskInv ==
  initialize_phase < 4 =>
    /\ Queued <= Age + 2
    /\ Queued = Age + 2 => Written(pipe, Age + 2) = StatusStage(FALSE)
    /\ Written(pipe, Age + 1) = SetupStage(Asked)
    /\ Written(pipe, Age) = IF Age = 2 THEN DataStage ELSE StatusStage(TRUE)
    /\ Age = 2 => Written(pipe, 1) = StatusStage(FALSE)
    /\ Single(Reply)
    /\ \A i \in Where(Reply) : /\ er[i].issuer = Back(pipe.write_index, Age)
                               /\ Queued < Age
    /\ pipe.setup_stage_map \in {EmptyTable(MapSize), Filed}
    /\ Queued >= Age \/ Where(Reply) # {} => pipe.setup_stage_map = Filed
    /\ Queued = Age /\ 0 \notin halted => received = Asked
    /\ Age = 2 /\ Where(Reply) # {} => buf \in {Descriptor(Asked), "other"}

(* What the driver knows of the device, and what it has not begun with.    *)
Device == FirstOf(Supported)
DriverInv ==
  /\ initialize_phase < 3 =>
       ep_configs = <<>> /\ class_drivers = {} /\ class_driver = "none"
  /\ initialize_phase >= 3 =>
       /\ Supported # {} /\ ep_configs = Own(configuration, Device)
       /\ class_drivers = NumbersOf(ep_configs)
       /\ class_driver = configuration[Device].driver
  /\ initialize_phase = 4 =>
       /\ \E k \in DOMAIN ep_configs : /\ Polled(ep_configs[k])
                                       /\ ep_configs[k].number = ep_interrupt_in
       /\ contexts = EnableEndpoints([d \in {1} |-> EP0Context], speed, ep_configs)
  /\ initialize_phase < 4 <=> port_config_phase = "InitializingDevice"
  /\ initialize_phase < 4 =>
       contexts = [d \in {1} |-> EP0Context] /\ ep_interrupt_in = 0

(* While the endpoints are being configured the control pipe is at rest.   *)
CommandInv ==
  /\ port_config_phase = "ConfiguringEndpoints" => /\ AskedFor(pipe, 0)
                                                   /\ Where(Reply) = {}
  /\ port_config_phase = "ConfiguringEndpoints" <=> command \/ Where(Done) # {}
  /\ command => Where(Done) = {}
  /\ Single(Done)

(* After that, the requests for SetProtocol: each is filed in a slot of    *)
(* its own until its answer was handled.                                   *)
Numbers == Cardinality(class_drivers)
ProtocolInv ==
  port_config_phase = "Configured" =>
    /\ Queued <= 2 * Numbers
    /\ \A m \in 0..(Numbers - 1) :
         /\ Written(pipe, 2 * m + 1) = StatusStage(TRUE)
         /\ Written(pipe, 2 * m + 2) = SetupStage("SetProtocol")
    /\ \A j \in 1..MapSize : pipe.setup_stage_map[j] # Empty =>
         \E m \in 0..(Numbers - 1) :
            /\ j = Numbers - m
            /\ pipe.setup_stage_map[j] = <<Back(pipe.write_index, 2 * m + 1),
                                           Back(pipe.write_index, 2 * m + 2)>>
    /\ \A m \in 0..(Numbers - 1) :
         \/ 2 * m + 1 <= Queued
         \/ \E i \in Where(Reply) : er[i].issuer = Back(pipe.write_index, 2 * m + 1)
         => pipe.setup_stage_map[Numbers - m] # Empty
    /\ \A i \in Where(Reply) : \E m \in 0..(Numbers - 1) :
         er[i].issuer = Back(pipe.write_index, 2 * m + 1) /\ Queued < 2 * m + 1
    /\ \A i, j \in Where(Reply) : er[i].issuer = er[j].issuer => i = j
    /\ Contains(pipe.event_waiters, "SetProtocol")

(* One transfer for reports at a time: queued, or its report waiting to be *)
(* read.  The report in the buffer lies over the one before.               *)
PollInv ==
  /\ hid_phase = 0 <=> port_config_phase # "Configured"
  /\ hid_phase < 2 => polls = 0 /\ Where(Data) = {}
  /\ polls <= 1 /\ Single(Data) /\ (polls = 1 => Where(Data) = {})
  /\ \A i \in DOMAIN er : er[i].ep \in {0, ep_interrupt_in}
  /\ Where(Data) = {} => report_buf = previous_buf
  /\ Where(Data) # {} => report_buf = CopyN(report_buf, report_len, previous_buf)
  /\ report_buf \in Buffers
  /\ DOMAIN report_buf = 1..kBufferSize /\ DOMAIN previous_buf = 1..kBufferSize
  /\ class_driver # "mouse" => report_buf[2] = 0 /\ previous_buf[2] = 0

(* Nothing is forgotten, unless something went wrong.                      *)
WrongInv ==
  /\ Where(Failed) # {} => halted # {}
  /\ halted = {} /\ buf # "other" /\ Supported # {} =>
       /\ hid_phase = 2        => polls = 1 \/ Where(Data) # {}
       /\ hid_phase = 1        => Queued > 0 \/ Where(Reply) # {}
       /\ initialize_phase < 4 => Queued >= Age \/ Where(Reply) # {}

UsbInv == /\ UsbTypeOK /\ AskInv /\ DriverInv /\ CommandInv /\ ProtocolInv
          /\ PollInv /\ WrongInv

-----------------------------------------------------------------------------
(* The event ring.                                                         *)

(* The driver takes the oldest event.                                      *)
LEMMA PopWhere ==
  ASSUME er \in Seq(Event), er # <<>>, Pop, NEW kind
  PROVE  /\ er' \in Seq(Event) /\ Head0 \in Event /\ Head0 = er[1]
         /\ Head0 \in kind <=> 1 \in Where(kind)
         /\ \A i \in Where(kind)' : i + 1 \in Where(kind) /\ i + 1 # 1 /\ er'[i] = er[i + 1]
         /\ Single(kind) => Single(kind)'
         /\ Single(kind) /\ Head0 \in kind => Where(kind)' = {}
         /\ Where(kind) = {} => Where(kind)' = {}
         /\ Head0 \notin kind /\ Where(kind)' = {} => Where(kind) = {}
<1>1. /\ er' \in Seq(Event) /\ Len(er') = Len(er) - 1 /\ Len(er) \in Nat /\ Len(er) > 0
      /\ Head0 = er[1] /\ \A i \in 1..(Len(er) - 1) : er'[i] = er[i + 1]
  BY HeadTailProperties, EmptySeq DEF Pop, Head0
<1>2. DOMAIN er = 1..Len(er) /\ DOMAIN er' = 1..(Len(er) - 1)
  BY <1>1
<1>3. Head0 \in Event /\ 1 \in DOMAIN er
  BY <1>1, <1>2
<1>4. \A i \in DOMAIN er' : i + 1 \in DOMAIN er /\ i + 1 # 1 /\ er'[i] = er[i + 1] /\ i \in Nat
  BY <1>1, <1>2
<1>5. \A i \in DOMAIN er : i # 1 => i - 1 \in DOMAIN er' /\ er'[i - 1] = er[i]
  BY <1>1, <1>2
<1>6. \A i \in Where(kind)' : i + 1 \in Where(kind) /\ i + 1 # 1 /\ er'[i] = er[i + 1] /\ i \in Nat
  BY <1>4 DEF Where
<1>7. Head0 \in kind <=> 1 \in Where(kind)
  BY <1>1, <1>3 DEF Where
<1>8. Single(kind) => Single(kind)'
  BY <1>6 DEF Single
<1>9. Single(kind) /\ Head0 \in kind => Where(kind)' = {}
  BY <1>6, <1>7 DEF Single
<1>10. Head0 \notin kind /\ Where(kind)' = {} => Where(kind) = {}
  BY <1>1, <1>5 DEF Where
<1> QED
  BY <1>1, <1>3, <1>6, <1>7, <1>8, <1>9, <1>10

(* The controller writes another one.                                      *)
LEMMA AppendWhere ==
  ASSUME er \in Seq(Event), NEW e \in Event, er' = Append(er, e), NEW kind
  PROVE  /\ er' \in Seq(Event)
         /\ DOMAIN er' = DOMAIN er \cup {Len(er) + 1} /\ Len(er) + 1 \notin DOMAIN er
         /\ \A i \in DOMAIN er : er'[i] = er[i]
         /\ er'[Len(er) + 1] = e
         /\ Where(kind)' = IF e \in kind THEN Where(kind) \cup {Len(er) + 1}
                           ELSE Where(kind)
         /\ Where(kind) \in SUBSET DOMAIN er
<1>1. /\ er' \in Seq(Event) /\ Len(er') = Len(er) + 1 /\ Len(er) \in Nat
      /\ \A i \in 1..Len(er) : er'[i] = er[i]
      /\ er'[Len(er) + 1] = e
  BY AppendProperties
<1>2. DOMAIN er = 1..Len(er) /\ DOMAIN er' = 1..(Len(er) + 1)
  BY <1>1
<1>3. DOMAIN er' = DOMAIN er \cup {Len(er) + 1} /\ Len(er) + 1 \notin DOMAIN er
  BY <1>1, <1>2
<1> QED
  BY <1>1, <1>2, <1>3 DEF Where

(* The device's reports that have not been read.                           *)
LEMMA UnreadIs ==
  ASSUME er \in Seq(Event)
  PROVE  /\ Unread = Where(Data)
         /\ InEvents = {er[i].issuer : i \in Where(Reply)}
<1>1. \A i \in DOMAIN er : er[i] \in Event
  OBVIOUS
<1> QED
  BY <1>1 DEF Unread, InEvents, Where, Data, Reply

-----------------------------------------------------------------------------
(* Answers.                                                                *)

(* The pipe without an entry of its map.                                   *)
LEMMA AnsweredIs ==
  ASSUME UsbTypeOK, er # <<>>
  PROVE  /\ PipeOK(Answered) /\ Answered.ep0 = pipe.ep0
         /\ Answered.write_index = pipe.write_index
         /\ Answered.ring = pipe.ring /\ Answered.event_waiters = pipe.event_waiters
         /\ Answered.setup_stage_map = Delete(pipe.setup_stage_map, Head0.issuer)
         /\ \A k : Written(Answered, k) = Written(pipe, k)
<1>1. Head0 \in Event
  BY HeadTailProperties DEF UsbTypeOK, Head0
<1>2. StageTable(pipe.setup_stage_map) /\ Head0.issuer \in Positions
  BY <1>1 DEF UsbTypeOK, PipeOK, Pipe, StageTable, Event
<1> DEFINE t == Delete(pipe.setup_stage_map, Head0.issuer)
<1>3. StageTable(t)
  BY <1>2, StagePut
<1>4. Answered = [pipe EXCEPT !.setup_stage_map = t]
  BY DEF Answered
<1> HIDE DEF t
<1>5. /\ PipeOK(Answered) /\ Answered.ep0 = pipe.ep0
      /\ Answered.write_index = pipe.write_index
      /\ Answered.ring = pipe.ring /\ Answered.event_waiters = pipe.event_waiters
      /\ Answered.setup_stage_map = t
  BY <1>3, <1>4, MapChanged DEF UsbTypeOK
<1> QED
  BY <1>5 DEF Written, t

(* Up to phase 3 an answer leads to the request the phase waits for, and   *)
(* leaves the map empty.                                                   *)
LEMMA AnswerIs ==
  ASSUME UsbTypeOK, AskInv, initialize_phase < 4, er # <<>>, Head0 \in Reply
  PROVE  /\ Contains(pipe.setup_stage_map, Head0.issuer)
         /\ Request = Asked /\ Queued < Age
         /\ Answered.setup_stage_map = EmptyTable(MapSize)
         /\ pipe.ring[Head0.issuer].type = IF Age = 2 THEN "Data" ELSE "Status"
<1>1. 1 \in Where(Reply) /\ Head0 = er[1]
  BY EmptySeq, HeadTailProperties DEF Where, UsbTypeOK, Head0
<1>2. /\ Head0.issuer = Back(pipe.write_index, Age) /\ Queued < Age
      /\ pipe.setup_stage_map = Filed
  BY <1>1 DEF AskInv
<1>3. MapSize \in Nat \ {0}
  BY SizeAssumption
<1>4. /\ Contains(pipe.setup_stage_map, Head0.issuer)
      /\ Get(pipe.setup_stage_map, Head0.issuer) = Back(pipe.write_index, Age + 1)
      /\ Delete(pipe.setup_stage_map, Head0.issuer) = EmptyTable(MapSize)
  BY <1>2, <1>3, OneEntryIs DEF Filed
<1>5. Request = Written(pipe, Age + 1).request /\ pipe.ring[Head0.issuer] = Written(pipe, Age)
  BY <1>2, <1>4 DEF Request, Written
<1>6. Request = Asked
  BY <1>5 DEF AskInv, SetupStage
<1>7. pipe.ring[Head0.issuer].type = IF Age = 2 THEN "Data" ELSE "Status"
  BY <1>5 DEF AskInv, DataStage, StatusStage
<1> QED
  BY <1>2, <1>4, <1>6, <1>7, AnsweredIs

-----------------------------------------------------------------------------
(* What the driver made of the configuration descriptor.                   *)
LEMMA DeviceIs ==
  ASSUME configuration \in Configurations, Supported # {}
  PROVE  /\ Device \in Supported /\ configuration[Device].driver \in {"keyboard", "mouse"}
         /\ LET eps == Own(configuration, Device)
            IN  /\ eps = EndpointsFrom(configuration, Device)
                /\ \A k \in DOMAIN eps : eps[k] \in Endpoint
                /\ DOMAIN eps \in SUBSET Nat
                /\ Cardinality(NumbersOf(eps)) \in Nat \ {0}
                /\ 2 * Cardinality(NumbersOf(eps)) < Last
                /\ Cardinality(NumbersOf(eps)) <= MapSize
                /\ \E k \in DOMAIN eps : Polled(eps[k])
                /\ NumbersOf(eps) \in SUBSET EndpointNumbers
<1> DEFINE c == configuration
           eps == Own(c, Device)
<1>1. Supported \in SUBSET Nat
  <2>1. c \in Seq({c[j] : j \in DOMAIN c})
    BY ConfigurationAssumption
  <2>2. DOMAIN c \in SUBSET Nat
    BY <2>1
  <2> QED
    BY <2>2 DEF Supported, SupportedIn
<1>2. Device \in Supported
  BY <1>1, FirstIs DEF Device
<1>3. c[Device].driver \in {"keyboard", "mouse"}
  BY <1>2 DEF Supported, SupportedIn, Interface
<1>4. Device \in SupportedIn(c)
  BY <1>2 DEF Supported
<1>5. /\ eps = EndpointsFrom(c, Device)
      /\ DOMAIN eps = 1..c[Device].endpoints /\ c[Device].endpoints \in Nat
      /\ \A k \in DOMAIN eps : eps[k] \in Endpoint
  BY <1>4, OwnEndpointsFound
<1>6. /\ 2 * Cardinality(NumbersOf(eps)) <= RingSize - 2
      /\ Cardinality(NumbersOf(eps)) <= MapSize
      /\ \E k \in DOMAIN eps : Polled(eps[k])
  BY <1>4, ConfigurationAssumption
<1> HIDE DEF eps
<1>7. NumbersOf(eps) \in SUBSET EndpointNumbers /\ NumbersOf(eps) # {}
  BY <1>5, <1>6 DEF NumbersOf, Endpoint
<1>8. Cardinality(NumbersOf(eps)) \in Nat \ {0}
  <2>1. IsFiniteSet(EndpointNumbers)
    <3>1. \A a, b \in Int : IsFiniteSet(a..b)
      BY FS_Interval
    <3>2. 1 \in Int /\ 15 \in Int
      OBVIOUS
    <3> QED
      BY <3>1, <3>2, Zenon DEF EndpointNumbers
  <2>2. IsFiniteSet(NumbersOf(eps))
    BY <1>7, <2>1, FS_Subset
  <2> QED
    BY <1>7, <2>2, FS_EmptySet, FS_CardinalityType
<1>9. 2 * Cardinality(NumbersOf(eps)) < Last
  BY <1>6, <1>8, SizeAssumption DEF Last
<1>10. DOMAIN eps \in SUBSET Nat
  BY <1>5
<1> QED
  BY <1>2, <1>3, <1>5, <1>6, <1>7, <1>8, <1>9, <1>10 DEF eps

(* The endpoint numbers of a driver are few enough for ring and map.       *)
LEMMA NumbersIs ==
  ASSUME UsbTypeOK, DriverInv, initialize_phase >= 3
  PROVE  /\ Numbers \in Nat \ {0} /\ 2 * Numbers < Last /\ Numbers <= MapSize
         /\ class_drivers \in SUBSET EndpointNumbers
BY DeviceIs DEF UsbTypeOK, DriverInv, Numbers

(* Once the device is configured an answer leads to a request for          *)
(* SetProtocol, and its entry is the only one that goes.                   *)
LEMMA ProtocolAnswerIs ==
  ASSUME UsbTypeOK, DriverInv, ProtocolInv, port_config_phase = "Configured",
         er # <<>>, Head0 \in Reply
  PROVE  /\ Contains(pipe.setup_stage_map, Head0.issuer)
         /\ Request = "SetProtocol"
         /\ \E m \in 0..(Numbers - 1) :
              /\ Head0.issuer = Back(pipe.write_index, 2 * m + 1)
              /\ Queued < 2 * m + 1
              /\ Answered.setup_stage_map
                   = [pipe.setup_stage_map EXCEPT ![Numbers - m] = Empty]
<1> DEFINE t == pipe.setup_stage_map
           w == pipe.write_index
           n == Numbers
<1>0. /\ n \in Nat \ {0} /\ 2 * n < Last /\ n <= MapSize /\ Last \in Nat
      /\ MapSize \in Nat /\ w \in Positions /\ DOMAIN t = 1..MapSize
  BY NumbersIs, LastType, SizeAssumption DEF DriverInv, UsbTypeOK, PipeOK, Pipe
<1>1. 1 \in Where(Reply) /\ Head0 = er[1]
  BY EmptySeq, HeadTailProperties DEF Where, UsbTypeOK, Head0
<1>2. PICK m \in 0..(n - 1) :
        Head0.issuer = Back(w, 2 * m + 1) /\ Queued < 2 * m + 1
  BY <1>1 DEF ProtocolInv
<1>3. n - m \in 1..MapSize
  BY <1>0
<1>4. t[n - m] # Empty
  BY <1>1, <1>2 DEF ProtocolInv
<1>5. PICK l \in 0..(n - 1) : n - m = n - l
                              /\ t[n - m] = <<Back(w, 2 * l + 1), Back(w, 2 * l + 2)>>
  BY <1>3, <1>4 DEF ProtocolInv
<1>6. l = m
  BY <1>0, <1>5
<1>7. \A j \in 1..MapSize : HasKey(t[j], Back(w, 2 * m + 1)) => j = n - m
  <2> SUFFICES ASSUME NEW j \in 1..MapSize, HasKey(t[j], Back(w, 2 * m + 1))
               PROVE  j = n - m
    OBVIOUS
  <2>1. PICK i \in 0..(n - 1) : j = n - i
                                /\ t[j] = <<Back(w, 2 * i + 1), Back(w, 2 * i + 2)>>
    BY DEF ProtocolInv, HasKey
  <2>2. Back(w, 2 * i + 1) = Back(w, 2 * m + 1)
    BY <2>1 DEF HasKey
  <2>3. 2 * i + 1 \in 1..Last /\ 2 * m + 1 \in 1..Last
    BY <1>0
  <2>4. 2 * i + 1 = 2 * m + 1
    BY <1>0, <2>2, <2>3, BackIs
  <2> QED
    BY <1>0, <2>1, <2>4
<1>8. /\ Contains(t, Head0.issuer) /\ Get(t, Head0.issuer) = Back(w, 2 * m + 2)
      /\ Delete(t, Head0.issuer) = [t EXCEPT ![n - m] = Empty]
  <2> DEFINE i == n - m
             key == Head0.issuer
             value == Back(w, 2 * m + 2)
  <2>1. i \in 1..MapSize /\ t[i] = <<key, value>>
        /\ \A j \in 1..MapSize : HasKey(t[j], key) => j = i
    BY <1>2, <1>3, <1>5, <1>6, <1>7
  <2>3. MapSize \in Nat /\ DOMAIN t = 1..MapSize
    BY <1>0
  <2> HIDE DEF i, t, key, value
  <2>2. /\ Contains(t, key) /\ Get(t, key) = value
        /\ Delete(t, key) = [t EXCEPT ![i] = Empty]
    BY <2>1, <2>3, OneSlotIs
  <2> QED
    BY <2>2 DEF i, t, key, value
<1>9. Request = "SetProtocol"
  <2>1. Written(pipe, 2 * m + 2) = SetupStage("SetProtocol")
    BY DEF ProtocolInv
  <2>2. Request = Written(pipe, 2 * m + 2).request
    BY <1>8 DEF Request, Written
  <2> QED
    BY <2>1, <2>2 DEF SetupStage
<1> QED
  BY <1>2, <1>8, <1>9, AnsweredIs

-----------------------------------------------------------------------------
(* StartInitialize asks for the device descriptor.                         *)
LEMMA UsbInvInit == Init => UsbInv
<1> SUFFICES ASSUME Init PROVE UsbInv
  OBVIOUS
<1>0. Last \in Nat /\ Last >= 5 /\ MapSize \in Nat \ {0}
  BY LastType, SizeAssumption
<1>1. PipeOK(NewPipe) /\ Len(NewPipe.ep0) = 0
      /\ NewPipe.setup_stage_map = EmptyTable(MapSize)
  <2>1. Blank \in Trb /\ 0 \in Positions
    BY <1>0 DEF Blank, Trb, Positions
  <2>2. NewPipe \in Pipe
    BY <2>1 DEF NewPipe, Pipe, EmptyTable
  <2> QED
    BY <1>0, <2>2 DEF PipeOK, Queue, NewPipe
<1>2. "GetDescriptor(Device)" \in Requests
  BY DEF Requests
<1>3. /\ PipeOK(pipe) /\ Len(pipe.ep0) = 3
      /\ Written(pipe, 1) = StatusStage(FALSE) /\ Written(pipe, 2) = DataStage
      /\ Written(pipe, 3) = SetupStage("GetDescriptor(Device)")
      /\ pipe.setup_stage_map = Put(EmptyTable(MapSize), Back(pipe.write_index, 2),
                                    Back(pipe.write_index, 3))
  <2> DEFINE p == NewPipe
             r == "GetDescriptor(Device)"
             q == ControlIn(p, r)
  <2>1. pipe = q
    BY DEF Init
  <2>2. PipeOK(p) /\ Len(p.ep0) <= 1 /\ r \in Requests
    BY <1>1, <1>2
  <2>3. Len(p.ep0) + 3 = 3 /\ p.setup_stage_map = EmptyTable(MapSize)
    BY <1>1
  <2> HIDE DEF p, r
  <2>4. /\ PipeOK(q) /\ Len(q.ep0) = Len(p.ep0) + 3
        /\ Written(q, 1) = StatusStage(FALSE)
        /\ Written(q, 2) = DataStage /\ Written(q, 3) = SetupStage(r)
        /\ q.setup_stage_map = Put(p.setup_stage_map, Back(q.write_index, 2),
                                   Back(q.write_index, 3))
    BY <2>2, ControlInIs
  <2> HIDE DEF q
  <2> QED
    BY <2>1, <2>3, <2>4 DEF r
<1>4. pipe.setup_stage_map
        = OneEntry(MapSize, Back(pipe.write_index, 2), Back(pipe.write_index, 3))
  BY <1>0, <1>3, OneEntryIs
<1>5. er = <<>> /\ \A kind : Where(kind) = {}
  BY DEF Init, Where
<1>6. UsbTypeOK
  <2>1. er \in Seq(Event)
    BY <1>5
  <2>2. /\ configuration \in Configurations /\ speed \in Speeds
        /\ initialize_phase = 1 /\ hid_phase = 0 /\ ep_interrupt_in = 0
        /\ port_config_phase = "InitializingDevice" /\ polls = 0 /\ command = FALSE
    BY DEF Init
  <2>3. initialize_phase \in 1..4 /\ hid_phase \in 0..2 /\ ep_interrupt_in \in 0..15
    BY <2>2
  <2> QED
    BY <1>3, <2>1, <2>2, <2>3 DEF UsbTypeOK
<1>7. AskInv
  <2>1. Age = 2 /\ Asked = "GetDescriptor(Device)" /\ Queued = 3
    BY <1>3 DEF Init, Age, Asked, Queued
  <2>2. Filed = OneEntry(MapSize, Back(pipe.write_index, 2), Back(pipe.write_index, 3))
    BY <2>1 DEF Filed
  <2>3. Where(Reply) = {}
    BY <1>5
  <2>4. Queued <= Age + 2 /\ Queued # Age + 2 /\ Queued # Age
    BY <2>1
  <2>5. pipe.setup_stage_map = Filed
    BY <1>4, <2>2
  <2>6. Written(pipe, Age + 1) = SetupStage(Asked) /\ Written(pipe, Age) = DataStage
    BY <1>3, <2>1
  <2>7. Single(Reply) /\ \A i \in Where(Reply) : FALSE
    BY <2>3 DEF Single
  <2>8. Written(pipe, 1) = StatusStage(FALSE)
    BY <1>3
  <2> QED
    BY <2>1, <2>3, <2>4, <2>5, <2>6, <2>7, <2>8, Zenon DEF AskInv
<1>8. DriverInv /\ CommandInv /\ ProtocolInv
  BY <1>5 DEF Init, DriverInv, CommandInv, ProtocolInv, Single
<1>9. PollInv
  BY <1>5, ReportAssumption DEF Init, PollInv, Single, Zeros, kBufferSize
<1>10. WrongInv
  BY <1>3, <1>5 DEF Init, WrongInv, Queued, Age
<1> QED
  BY <1>6, <1>7, <1>8, <1>9, <1>10 DEF UsbInv

-----------------------------------------------------------------------------
(* What a step leaves alone.                                               *)

(* The events of a kind are the same, perhaps one place further ahead.     *)
Moved(kind) ==
  \E d \in 0..1 : /\ \A i \in Where(kind)' : i + d \in Where(kind) /\ er'[i] = er[i + d]
                  /\ \A j \in Where(kind) : j - d \in Where(kind)'

(* Taking an event of another kind moves those of a kind one ahead.        *)
LEMMA PopMoved ==
  ASSUME er \in Seq(Event), er # <<>>, Pop, NEW kind, Head0 \notin kind
  PROVE  Moved(kind)
<1>1. /\ er' \in Seq(Event) /\ Len(er') = Len(er) - 1 /\ Len(er) \in Nat /\ Len(er) > 0
      /\ Head0 = er[1] /\ \A i \in 1..(Len(er) - 1) : er'[i] = er[i + 1]
  BY HeadTailProperties, EmptySeq DEF Pop, Head0
<1>2. DOMAIN er = 1..Len(er) /\ DOMAIN er' = 1..(Len(er) - 1)
  BY <1>1
<1>3. \A i \in DOMAIN er' : i + 1 \in DOMAIN er /\ er'[i] = er[i + 1]
  BY <1>1, <1>2
<1>4. \A j \in DOMAIN er : j # 1 => j - 1 \in DOMAIN er' /\ er'[j - 1] = er[j]
  BY <1>1, <1>2
<1>5. \A i \in Where(kind)' : i + 1 \in Where(kind) /\ er'[i] = er[i + 1]
  BY <1>3 DEF Where
<1>6. \A j \in Where(kind) : j - 1 \in Where(kind)'
  BY <1>1, <1>4 DEF Where
<1> QED
  BY <1>5, <1>6 DEF Moved

(* Appending an event of another kind leaves those of a kind in place.     *)
LEMMA AppendMoved ==
  ASSUME er \in Seq(Event), NEW e \in Event, er' = Append(er, e), NEW kind, e \notin kind
  PROVE  Moved(kind)
<1>1. Where(kind)' = Where(kind) /\ \A i \in DOMAIN er : er'[i] = er[i]
  BY AppendWhere
<1>2. \A i \in Where(kind) : i \in Nat /\ i \in DOMAIN er
  BY DEF Where
<1>3. \A i \in Where(kind) : i + 0 = i /\ i - 0 = i
  BY <1>2
<1> QED
  BY <1>1, <1>2, <1>3 DEF Moved

(* What stays true of the events of a kind when they only move.            *)
LEMMA MovedIs ==
  ASSUME er \in Seq(Event), er' \in Seq(Event), NEW kind, Moved(kind)
  PROVE  /\ Where(kind)' = {} <=> Where(kind) = {}
         /\ Single(kind) => Single(kind)'
         /\ \A i \in Where(kind)' : \E j \in Where(kind) : er'[i] = er[j]
         /\ (\A i, j \in Where(kind) : er[i].issuer = er[j].issuer => i = j) =>
              \A i, j \in Where(kind)' : er'[i].issuer = er'[j].issuer => i = j
<1>1. PICK d \in 0..1 :
        /\ \A i \in Where(kind)' : i + d \in Where(kind) /\ er'[i] = er[i + d]
        /\ \A j \in Where(kind) : j - d \in Where(kind)'
  BY DEF Moved
<1>2. \A i \in Where(kind)' : i \in Nat
  BY DEF Where
<1>3. \A i, j \in Where(kind)' : i + d = j + d => i = j
  BY <1>2
<1> QED
  BY <1>1, <1>3 DEF Single

(* AskInv does not depend on reports and completions.                      *)
LEMMA AskKept ==
  ASSUME UsbTypeOK, er' \in Seq(Event), AskInv, Moved(Reply),
         UNCHANGED <<initialize_phase, pipe, received, buf>>, halted \subseteq halted'
  PROVE  AskInv'
<1>1. /\ Where(Reply)' = {} <=> Where(Reply) = {}
      /\ Single(Reply) => Single(Reply)'
      /\ \A i \in Where(Reply)' : \E j \in Where(Reply) : er'[i] = er[j]
  BY MovedIs DEF UsbTypeOK
<1>2. Age' = Age /\ Asked' = Asked /\ Queued' = Queued /\ Filed' = Filed
  BY DEF Age, Asked, Queued, Filed
<1>3. SUFFICES ASSUME initialize_phase < 4 PROVE AskInv'
  BY DEF AskInv
<1>4. \A i \in Where(Reply)' : /\ er'[i].issuer = Back(pipe.write_index, Age)
                               /\ Queued < Age
  BY <1>1, <1>3 DEF AskInv
<1> QED
  BY <1>1, <1>2, <1>3, <1>4 DEF AskInv

(* DriverInv does not depend on the event ring.                            *)
LEMMA DriverKept ==
  ASSUME DriverInv,
         UNCHANGED <<initialize_phase, ep_configs, class_drivers, class_driver,
                     port_config_phase, contexts, ep_interrupt_in, configuration, speed>>
  PROVE  DriverInv'
<1>1. Supported' = Supported /\ Device' = Device
  BY DEF Supported, Device
<1> QED
  BY <1>1 DEF DriverInv

(* CommandInv depends on answers and completions alone.                    *)
LEMMA CommandKept ==
  ASSUME UsbTypeOK, er' \in Seq(Event), CommandInv, Moved(Reply), Moved(Done),
         UNCHANGED <<port_config_phase, pipe, command>>
  PROVE  CommandInv'
<1>1. /\ Where(Reply)' = {} <=> Where(Reply) = {}
      /\ Where(Done)' = {} <=> Where(Done) = {}
      /\ Single(Done) => Single(Done)'
  BY MovedIs DEF UsbTypeOK
<1> QED
  BY <1>1 DEF CommandInv

(* ProtocolInv depends on the answers alone.                               *)
LEMMA ProtocolKept ==
  ASSUME UsbTypeOK, er' \in Seq(Event), ProtocolInv, Moved(Reply),
         UNCHANGED <<port_config_phase, pipe, class_drivers>>
  PROVE  ProtocolInv'
<1>1. /\ \A i \in Where(Reply)' : \E j \in Where(Reply) : er'[i] = er[j]
      /\ (\A i, j \in Where(Reply) : er[i].issuer = er[j].issuer => i = j) =>
           \A i, j \in Where(Reply)' : er'[i].issuer = er'[j].issuer => i = j
  BY MovedIs DEF UsbTypeOK
<1>2. Numbers' = Numbers /\ Queued' = Queued
  BY DEF Numbers, Queued
<1>3. SUFFICES ASSUME port_config_phase = "Configured" PROVE ProtocolInv'
  BY DEF ProtocolInv
<1>4. \A m \in 0..(Numbers - 1) :
         \/ 2 * m + 1 <= Queued
         \/ \E i \in Where(Reply)' : er'[i].issuer = Back(pipe.write_index, 2 * m + 1)
         => pipe.setup_stage_map[Numbers - m] # Empty
  BY <1>1, <1>3 DEF ProtocolInv
<1>5. \A i \in Where(Reply)' : \E m \in 0..(Numbers - 1) :
         er'[i].issuer = Back(pipe.write_index, 2 * m + 1) /\ Queued < 2 * m + 1
  BY <1>1, <1>3 DEF ProtocolInv
<1> QED
  BY <1>1, <1>2, <1>3, <1>4, <1>5 DEF ProtocolInv

(* PollInv depends on the reports alone.                                   *)
LEMMA PollKept ==
  ASSUME UsbTypeOK, er' \in Seq(Event), PollInv, Moved(Data),
         hid_phase' = 0 <=> port_config_phase' # "Configured",
         hid_phase' < 2 => hid_phase < 2,
         \A i \in DOMAIN er' : er'[i].ep \in {0, ep_interrupt_in'},
         class_driver' # "mouse" => class_driver # "mouse",
         UNCHANGED <<polls, report_buf, report_len, previous_buf>>
  PROVE  PollInv'
<1>1. /\ Where(Data)' = {} <=> Where(Data) = {}
      /\ Single(Data) => Single(Data)'
  BY MovedIs DEF UsbTypeOK
<1> QED
  BY <1>1 DEF PollInv

(* The endpoints named by the events.                                      *)
LEMMA PopEnds ==
  ASSUME UsbTypeOK, PollInv, er # <<>>, Pop
  PROVE  /\ \A i \in DOMAIN er' : er'[i].ep \in {0, ep_interrupt_in}
         /\ Head0.ep \in {0, ep_interrupt_in}
         /\ Where(Failed)' # {} => Where(Failed) # {}
<1>1. /\ er' \in Seq(Event) /\ Len(er') = Len(er) - 1 /\ Len(er) \in Nat /\ Len(er) > 0
      /\ Head0 = er[1] /\ \A i \in 1..(Len(er) - 1) : er'[i] = er[i + 1]
  BY HeadTailProperties, EmptySeq DEF Pop, Head0, UsbTypeOK
<1>2. \A i \in DOMAIN er' : i + 1 \in DOMAIN er /\ er'[i] = er[i + 1]
  BY <1>1
<1>3. 1 \in DOMAIN er
  BY <1>1
<1>4. \A i \in Where(Failed)' : i + 1 \in Where(Failed)
  BY <1>2 DEF Where
<1> QED
  BY <1>1, <1>2, <1>3, <1>4 DEF PollInv

(* An event appended for the control pipe or the polled endpoint.          *)
LEMMA AppendEnds ==
  ASSUME UsbTypeOK, PollInv, NEW e \in Event, er' = Append(er, e),
         e.ep \in {0, ep_interrupt_in}
  PROVE  \A i \in DOMAIN er' : er'[i].ep \in {0, ep_interrupt_in}
<1>1. /\ DOMAIN er' = DOMAIN er \cup {Len(er) + 1}
      /\ \A i \in DOMAIN er : er'[i] = er[i]
      /\ er'[Len(er) + 1] = e
  BY AppendWhere DEF UsbTypeOK
<1> QED
  BY <1>1 DEF PollInv

-----------------------------------------------------------------------------
(* Reports.                                                                *)

(* The endpoint that is polled is the device's, not the control pipe's.    *)
LEMMA PolledEndpoint ==
  ASSUME UsbTypeOK, DriverInv, initialize_phase = 4
  PROVE  ep_interrupt_in \in 1..15 /\ class_driver \in {"keyboard", "mouse"}
<1>1. /\ Supported # {} /\ ep_configs = Own(configuration, Device)
      /\ class_driver = configuration[Device].driver
  BY DEF DriverInv
<1>2. PICK k \in DOMAIN ep_configs : ep_configs[k].number = ep_interrupt_in
  BY DEF DriverInv
<1>3. ep_configs[k] \in Endpoint /\ configuration[Device].driver \in {"keyboard", "mouse"}
  BY <1>1, DeviceIs DEF UsbTypeOK
<1> QED
  BY <1>1, <1>2, <1>3 DEF Endpoint, EndpointNumbers

(* Configuring starts only after phase 3 has ended.                        *)
LEMMA PhaseIs ==
  ASSUME UsbTypeOK, DriverInv, PollInv, hid_phase # 0 \/ port_config_phase # "InitializingDevice"
  PROVE  initialize_phase = 4
BY DEF UsbTypeOK, DriverInv, PollInv

(* CopyN into a buffer that was copied into already.                       *)
LEMMA CopyNTwice ==
  ASSUME NEW r, NEW l, NEW b
  PROVE  CopyN(CopyN(r, l, b), l, b) = CopyN(r, l, b)
BY DEF CopyN

(* TransferFailed: one failed transfer less to hear of.                    *)
LEMMA TransferFailedKeeps == UsbInv /\ TransferFailed => UsbInv'
<1> SUFFICES ASSUME UsbInv, TransferFailed PROVE UsbInv'
  OBVIOUS
<1>1. /\ er # <<>> /\ Pop /\ Head0.type = "Transfer" /\ ~Head0.ok
      /\ UNCHANGED <<driverVars, deviceVars, pipe, polls, command>>
  BY DEF TransferFailed, Handles
<1>2. UsbTypeOK /\ AskInv /\ DriverInv /\ CommandInv /\ ProtocolInv /\ PollInv /\ WrongInv
  BY DEF UsbInv
<1>3. /\ er \in Seq(Event) /\ er' \in Seq(Event) /\ Head0 \in Event
      /\ Head0 \in Failed <=> 1 \in Where(Failed)
  BY <1>1, <1>2, PopWhere DEF UsbTypeOK
<1>4. Head0 \notin Reply /\ Head0 \notin Data /\ Head0 \notin Done /\ Head0 \in Failed
  BY <1>1, <1>3 DEF Reply, Data, Done, Failed
<1>5. Moved(Reply) /\ Moved(Data) /\ Moved(Done)
  BY <1>1, <1>3, <1>4, PopMoved
<1>6. halted # {} /\ halted' = halted
  BY <1>1, <1>2, <1>3, <1>4 DEF WrongInv, deviceVars
<1>7. UsbTypeOK'
  BY <1>1, <1>2, <1>3 DEF UsbTypeOK, driverVars, deviceVars
<1>8. AskInv'
  BY <1>1, <1>2, <1>3, <1>5, AskKept DEF driverVars, deviceVars
<1>9. DriverInv'
  BY <1>1, <1>2, DriverKept DEF driverVars, deviceVars
<1>10. CommandInv' /\ ProtocolInv'
  BY <1>1, <1>2, <1>3, <1>5, CommandKept, ProtocolKept DEF driverVars
<1>11. PollInv'
  <2>1. hid_phase' = hid_phase /\ port_config_phase' = port_config_phase
        /\ ep_interrupt_in' = ep_interrupt_in /\ class_driver' = class_driver
        /\ UNCHANGED <<polls, report_buf, report_len, previous_buf>>
    BY <1>1 DEF driverVars, deviceVars, readVars
  <2>2. hid_phase = 0 <=> port_config_phase # "Configured"
    BY <1>2 DEF PollInv
  <2>3. \A i \in DOMAIN er' : er'[i].ep \in {0, ep_interrupt_in}
    BY <1>1, <1>2, PopEnds
  <2> QED
    BY <1>2, <1>3, <1>5, <2>1, <2>2, <2>3, PollKept
<1>12. WrongInv'
  BY <1>6 DEF WrongInv
<1> QED
  BY <1>7, <1>8, <1>9, <1>10, <1>11, <1>12 DEF UsbInv

(* Only a device that is configured sends reports.                         *)
LEMMA ReadyForReports ==
  ASSUME UsbInv, hid_phase = 2
  PROVE  /\ port_config_phase = "Configured" /\ initialize_phase = 4
         /\ ep_interrupt_in \in 1..15 /\ class_driver \in {"keyboard", "mouse"}
<1>1. UsbTypeOK /\ DriverInv /\ PollInv
  BY DEF UsbInv
<1>2. port_config_phase = "Configured"
  BY <1>1 DEF PollInv
<1>3. initialize_phase = 4
  BY <1>1, <1>2, PhaseIs
<1> QED
  BY <1>1, <1>2, <1>3, PolledEndpoint

(* OnInterruptCompleted: the report read, the next one is asked for.       *)
LEMMA OnInterruptCompletedKeeps == UsbInv /\ OnInterruptCompleted => UsbInv'
<1> SUFFICES ASSUME UsbInv, OnInterruptCompleted PROVE UsbInv'
  OBVIOUS
<1>1. /\ er # <<>> /\ Pop /\ Head0.type = "Transfer" /\ Head0.ok /\ Head0.ep # 0
      /\ polls' = polls + 1
      /\ previous_buf' = CopyN(report_buf, report_len, previous_buf)
      /\ ConfigureEndpoints(initialize_phase)
      /\ UNCHANGED <<initialize_phase, ep_configs, class_drivers, class_driver,
                     hid_phase, ep_interrupt_in, deviceVars, pipe>>
  BY DEF OnInterruptCompleted, ReportArrives, Handles
<1>2. UsbTypeOK /\ AskInv /\ DriverInv /\ CommandInv /\ ProtocolInv /\ PollInv /\ WrongInv
  BY DEF UsbInv
<1>3. /\ er \in Seq(Event) /\ er' \in Seq(Event) /\ Head0 \in Event
      /\ Head0 \in Data <=> 1 \in Where(Data)
      /\ Single(Data) /\ Head0 \in Data => Where(Data)' = {}
  BY <1>1, <1>2, PopWhere DEF UsbTypeOK
<1>4. Head0 \notin Reply /\ Head0 \in Data /\ Head0 \notin Done
  BY <1>1, <1>3 DEF Reply, Data, Done
<1>5. Moved(Reply) /\ Moved(Done)
  BY <1>1, <1>3, <1>4, PopMoved
<1>6. /\ Where(Data) # {} /\ Where(Data)' = {} /\ polls = 0 /\ hid_phase = 2
      /\ report_buf = CopyN(report_buf, report_len, previous_buf)
  <2>1. Where(Data) # {} /\ polls \in Nat /\ hid_phase \in 0..2
    BY <1>2, <1>3, <1>4 DEF UsbTypeOK
  <2>2. polls <= 1 /\ polls # 1 /\ ~(hid_phase < 2)
    BY <1>2, <2>1 DEF PollInv
  <2> QED
    BY <1>2, <1>3, <1>4, <2>1, <2>2 DEF PollInv
<1>7. port_config_phase = "Configured" /\ initialize_phase = 4
  BY <1>6, ReadyForReports
<1>8. UNCHANGED <<port_config_phase, contexts, command>>
  BY <1>1, <1>7 DEF ConfigureEndpoints
<1>9. previous_buf' = report_buf /\ polls' = 1
  BY <1>1, <1>6
<1>10. UsbTypeOK'
  BY <1>1, <1>2, <1>3, <1>8, <1>9 DEF UsbTypeOK, deviceVars
<1>11. AskInv'
  BY <1>1, <1>2, <1>3, <1>5, AskKept DEF deviceVars
<1>12. DriverInv'
  BY <1>1, <1>2, <1>8, DriverKept DEF deviceVars
<1>13. CommandInv' /\ ProtocolInv'
  BY <1>1, <1>2, <1>3, <1>5, <1>8, CommandKept, ProtocolKept
<1>14. PollInv'
  <2>1. \A i \in DOMAIN er' : er'[i].ep \in {0, ep_interrupt_in}
    BY <1>1, <1>2, PopEnds
  <2>2. report_buf' = report_buf /\ report_len' = report_len
    BY <1>1 DEF deviceVars
  <2> QED
    BY <1>1, <1>2, <1>6, <1>8, <1>9, <2>1, <2>2 DEF PollInv, Single
<1>15. WrongInv'
  <2>1. Where(Failed)' # {} => Where(Failed) # {}
    BY <1>1, <1>2, PopEnds
  <2>2. halted' = halted
    BY <1>1 DEF deviceVars
  <2> QED
    BY <1>1, <1>2, <1>6, <1>7, <1>9, <2>1, <2>2 DEF WrongInv
<1> QED
  BY <1>10, <1>11, <1>12, <1>13, <1>14, <1>15 DEF UsbInv

(* Report: the one transfer becomes the one report to read.                *)
LEMMA ReportKeeps == UsbInv /\ Report => UsbInv'
<1> SUFFICES ASSUME UsbInv, Report PROVE UsbInv'
  OBVIOUS
<1> DEFINE e == TransferEvent(ep_interrupt_in, 0, TRUE)
<1>1. /\ polls > 0 /\ polls' = polls - 1 /\ er' = Append(er, e)
      /\ UNCHANGED <<driverVars, configuration, speed, received, buf, pipe, halted, command>>
  BY DEF Report
<1>2. UsbTypeOK /\ AskInv /\ DriverInv /\ CommandInv /\ ProtocolInv /\ PollInv /\ WrongInv
  BY DEF UsbInv
<1>3. polls = 1 /\ hid_phase = 2 /\ Where(Data) = {} /\ report_buf = previous_buf
  <2>1. polls \in Nat /\ hid_phase \in 0..2
    BY <1>2 DEF UsbTypeOK
  <2>2. polls = 1 /\ ~(hid_phase < 2)
    BY <1>1, <1>2, <2>1 DEF PollInv
  <2> QED
    BY <1>2, <2>1, <2>2 DEF PollInv
<1>4. /\ ep_interrupt_in \in 1..15 /\ class_driver \in {"keyboard", "mouse"}
      /\ initialize_phase = 4 /\ port_config_phase = "Configured"
  BY <1>3, ReadyForReports
<1>5. e \in Event /\ e.ep = ep_interrupt_in /\ e \in Data /\ e \notin Reply /\ e \notin Done
      /\ e \notin Failed
  <2>1. 0 \in Positions
    BY LastType DEF Positions
  <2> QED
    BY <1>4, <2>1 DEF TransferEvent, Event, Data, Reply, Done, Failed
<1> HIDE DEF e
<1>6. /\ er \in Seq(Event) /\ er' \in Seq(Event)
      /\ Where(Data)' = {Len(er) + 1} /\ Where(Failed)' = Where(Failed)
  BY <1>1, <1>2, <1>3, <1>5, AppendWhere DEF UsbTypeOK
<1>7. Moved(Reply) /\ Moved(Done)
  BY <1>1, <1>5, <1>6, AppendMoved
<1>8. PICK r \in Reports(class_driver) : /\ report_buf' = CopyN(r, Len(r), report_buf)
                                         /\ report_len' = Len(r)
  BY DEF Report
<1>9. /\ Len(r) \in 1..8 /\ (class_driver = "keyboard" /\ Len(r) > 1 => r[2] = 0)
      /\ \A b \in Buffers : CopyN(r, Len(r), b) \in Buffers
  BY <1>4, ReportAssumption DEF kBufferSize
<1>10. report_buf' \in Buffers
  BY <1>2, <1>8, <1>9 DEF PollInv
<1>11. report_buf' = CopyN(report_buf', report_len', previous_buf')
  BY <1>1, <1>3, <1>8, CopyNTwice DEF driverVars, readVars
<1>12. class_driver' # "mouse" => report_buf'[2] = 0 /\ previous_buf'[2] = 0
  <2>1. class_driver' = class_driver /\ previous_buf' = previous_buf
    BY <1>1 DEF driverVars, readVars
  <2>2. report_buf'[2] = IF 2 <= Len(r) THEN r[2] ELSE report_buf[2]
    BY <1>8 DEF CopyN, kBufferSize
  <2> QED
    BY <1>2, <1>4, <1>9, <2>1, <2>2 DEF PollInv
<1>13. UsbTypeOK'
  BY <1>1, <1>2, <1>3, <1>6 DEF UsbTypeOK, driverVars
<1>14. AskInv'
  BY <1>1, <1>2, <1>6, <1>7, AskKept DEF driverVars
<1>15. DriverInv'
  BY <1>1, <1>2, DriverKept DEF driverVars
<1>16. CommandInv' /\ ProtocolInv'
  BY <1>1, <1>2, <1>6, <1>7, CommandKept, ProtocolKept DEF driverVars
<1>17. PollInv'
  <2>1. \A i \in DOMAIN er' : er'[i].ep \in {0, ep_interrupt_in}
    BY <1>1, <1>2, <1>5, AppendEnds
  <2>2. UNCHANGED <<hid_phase, port_config_phase, ep_interrupt_in>> /\ polls' = 0
    BY <1>1, <1>3 DEF driverVars
  <2>3. Where(Data)' # {} /\ Single(Data)'
    BY <1>6 DEF Single
  <2>4. DOMAIN report_buf' = 1..kBufferSize /\ DOMAIN previous_buf' = 1..kBufferSize
    <3>1. previous_buf' = previous_buf
      BY <1>1 DEF driverVars, readVars
    <3> QED
      BY <1>2, <1>8, <3>1 DEF PollInv, CopyN
  <2> QED
    BY <1>2, <1>3, <1>4, <1>10, <1>11, <1>12, <2>1, <2>2, <2>3, <2>4 DEF PollInv
<1>18. WrongInv'
  <2>1. Where(Data)' # {}
    BY <1>6
  <2> QED
    BY <1>1, <1>2, <1>3, <1>4, <1>6, <2>1 DEF WrongInv, driverVars
<1> QED
  BY <1>13, <1>14, <1>15, <1>16, <1>17, <1>18 DEF UsbInv

(* ReportFails: the transfer is gone and the endpoint is halted.           *)
LEMMA ReportFailsKeeps == UsbInv /\ ReportFails => UsbInv'
<1> SUFFICES ASSUME UsbInv, ReportFails PROVE UsbInv'
  OBVIOUS
<1> DEFINE e == TransferEvent(ep_interrupt_in, 0, FALSE)
<1>1. /\ polls > 0 /\ polls' = polls - 1 /\ er' = Append(er, e)
      /\ halted' = halted \cup {ep_interrupt_in}
      /\ UNCHANGED <<driverVars, configuration, speed, received, buf, report_buf, report_len, pipe,
                     command>>
  BY DEF ReportFails
<1>2. UsbTypeOK /\ AskInv /\ DriverInv /\ CommandInv /\ ProtocolInv /\ PollInv /\ WrongInv
  BY DEF UsbInv
<1>3. polls = 1 /\ Where(Data) = {} /\ hid_phase = 2
  <2>1. polls \in Nat /\ hid_phase \in 0..2
    BY <1>2 DEF UsbTypeOK
  <2> QED
    BY <1>1, <1>2, <2>1 DEF PollInv
<1>5. e \in Event /\ e.ep = ep_interrupt_in /\ e \notin Data /\ e \notin Reply /\ e \notin Done
  <2>1. 0 \in Positions
    BY LastType DEF Positions
  <2> QED
    BY <1>2, <2>1 DEF UsbTypeOK, TransferEvent, Event, Data, Reply, Done
<1> HIDE DEF e
<1>6. /\ er \in Seq(Event) /\ er' \in Seq(Event) /\ Where(Data)' = {}
  BY <1>1, <1>2, <1>3, <1>5, AppendWhere DEF UsbTypeOK
<1>7. Moved(Reply) /\ Moved(Done)
  BY <1>1, <1>5, <1>6, AppendMoved
<1>13. UsbTypeOK'
  BY <1>1, <1>2, <1>3, <1>6 DEF UsbTypeOK, driverVars
<1>14. AskInv'
  BY <1>1, <1>2, <1>6, <1>7, AskKept DEF driverVars
<1>15. DriverInv'
  BY <1>1, <1>2, DriverKept DEF driverVars
<1>16. CommandInv' /\ ProtocolInv'
  BY <1>1, <1>2, <1>6, <1>7, CommandKept, ProtocolKept DEF driverVars
<1>17. PollInv'
  <2>1. \A i \in DOMAIN er' : er'[i].ep \in {0, ep_interrupt_in}
    BY <1>1, <1>2, <1>5, AppendEnds
  <2>2. /\ UNCHANGED <<hid_phase, port_config_phase, ep_interrupt_in, class_driver,
                       previous_buf, report_buf, report_len>>
        /\ polls' = 0
    BY <1>1, <1>3 DEF driverVars, readVars
  <2>3. Single(Data)'
    BY <1>6 DEF Single
  <2> QED
    BY <1>2, <1>3, <1>6, <2>1, <2>2, <2>3 DEF PollInv
<1>18. WrongInv'
  BY <1>1 DEF WrongInv
<1> QED
  BY <1>13, <1>14, <1>15, <1>16, <1>17, <1>18 DEF UsbInv

-----------------------------------------------------------------------------
(* The Configure Endpoint command.                                         *)

(* ExecuteCommand: the command becomes its completion.                     *)
LEMMA ExecuteCommandKeeps == UsbInv /\ ExecuteCommand => UsbInv'
<1> SUFFICES ASSUME UsbInv, ExecuteCommand PROVE UsbInv'
  OBVIOUS
<1> DEFINE e == CommandCompletion
<1>1. /\ command /\ command' = FALSE /\ er' = Append(er, e)
      /\ UNCHANGED <<driverVars, deviceVars, pipe, polls>>
  BY DEF ExecuteCommand
<1>2. UsbTypeOK /\ AskInv /\ DriverInv /\ CommandInv /\ ProtocolInv /\ PollInv /\ WrongInv
  BY DEF UsbInv
<1>5. e \in Event /\ e.ep = 0 /\ e \in Done /\ e \notin Data /\ e \notin Reply
      /\ e \notin Failed
  <2>1. 0 \in Positions
    BY LastType DEF Positions
  <2> QED
    BY <2>1 DEF CommandCompletion, Event, Data, Reply, Done, Failed
<1> HIDE DEF e
<1>6. /\ er \in Seq(Event) /\ er' \in Seq(Event) /\ Where(Failed)' = Where(Failed)
      /\ Where(Done)' = Where(Done) \cup {Len(er) + 1}
  BY <1>1, <1>2, <1>5, AppendWhere DEF UsbTypeOK
<1>7. Moved(Reply) /\ Moved(Data)
  BY <1>1, <1>5, <1>6, AppendMoved
<1>8. /\ Where(Reply)' = {} <=> Where(Reply) = {}
      /\ Where(Data)' = {} <=> Where(Data) = {}
  BY <1>6, <1>7, MovedIs
<1>13. UsbTypeOK'
  BY <1>1, <1>2, <1>6 DEF UsbTypeOK, driverVars, deviceVars
<1>14. AskInv'
  BY <1>1, <1>2, <1>6, <1>7, AskKept DEF driverVars, deviceVars
<1>15. DriverInv'
  BY <1>1, <1>2, DriverKept DEF driverVars, deviceVars
<1>16. ProtocolInv'
  BY <1>1, <1>2, <1>6, <1>7, ProtocolKept DEF driverVars
<1>17. CommandInv'
  <2>1. Where(Done)' = {Len(er) + 1} /\ port_config_phase = "ConfiguringEndpoints"
    BY <1>1, <1>2, <1>6 DEF CommandInv
  <2>2. Single(Done)' /\ Where(Done)' # {}
    BY <2>1 DEF Single
  <2>3. port_config_phase' = port_config_phase /\ pipe' = pipe /\ command' = FALSE
    BY <1>1 DEF driverVars
  <2> QED
    BY <1>2, <1>8, <2>1, <2>2, <2>3 DEF CommandInv
<1>18. PollInv'
  <2>1. \A i \in DOMAIN er' : er'[i].ep \in {0, ep_interrupt_in}
    BY <1>1, <1>2, <1>5, AppendEnds
  <2>2. UNCHANGED <<hid_phase, port_config_phase, ep_interrupt_in, class_driver,
                    previous_buf, report_buf, report_len, polls>>
    BY <1>1 DEF driverVars, deviceVars, readVars
  <2>3. hid_phase = 0 <=> port_config_phase # "Configured"
    BY <1>2 DEF PollInv
  <2> QED
    BY <1>2, <1>6, <1>7, <2>1, <2>2, <2>3, PollKept
<1>19. WrongInv'
  <2>1. Supported' = Supported /\ Age' = Age /\ Queued' = Queued
    BY <1>1 DEF driverVars, deviceVars, Supported, Age, Queued
  <2> QED
    BY <1>1, <1>2, <1>6, <1>8, <2>1 DEF WrongInv, driverVars, deviceVars
<1> QED
  BY <1>13, <1>14, <1>15, <1>16, <1>17, <1>18, <1>19 DEF UsbInv

-----------------------------------------------------------------------------
(* The conversation on the control pipe up to phase 3.                     *)

(* An answer up to phase 3.                                                *)
LEMMA EarlyAnswer ==
  ASSUME UsbInv, Answers, Pop, initialize_phase < 4
  PROVE  /\ er # <<>> /\ Head0 \in Reply
         /\ er' \in Seq(Event)
         /\ Where(Reply) # {} /\ Where(Reply)' = {} /\ Moved(Data) /\ Moved(Done)
         /\ hid_phase = 0 /\ port_config_phase = "InitializingDevice"
         /\ Where(Done) = {} /\ Where(Done)' = {} /\ ~command
         /\ Where(Failed)' # {} => Where(Failed) # {}
         /\ \A i \in DOMAIN er' : er'[i].ep \in {0, ep_interrupt_in}
<1>1. UsbTypeOK /\ AskInv /\ DriverInv /\ CommandInv /\ PollInv
  BY DEF UsbInv
<1>2. er # <<>> /\ Head0.type = "Transfer" /\ Head0.ok /\ Head0.ep = 0
  BY DEF Answers, Handles
<1>3. /\ er \in Seq(Event) /\ er' \in Seq(Event) /\ Head0 \in Event
      /\ Head0 \in Reply <=> 1 \in Where(Reply)
      /\ Single(Reply) /\ Head0 \in Reply => Where(Reply)' = {}
      /\ Where(Done) = {} => Where(Done)' = {}
  BY <1>1, <1>2, PopWhere DEF UsbTypeOK
<1>4. Head0 \in Reply /\ Head0 \notin Data /\ Head0 \notin Done
  BY <1>2, <1>3 DEF Reply, Data, Done
<1>5. Moved(Data) /\ Moved(Done)
  BY <1>2, <1>3, <1>4, PopMoved
<1>6. Single(Reply)
  BY <1>1 DEF AskInv
<1>7. port_config_phase = "InitializingDevice"
  BY <1>1 DEF DriverInv
<1>8. hid_phase = 0 /\ Where(Done) = {} /\ ~command
  BY <1>1, <1>7 DEF PollInv, CommandInv
<1>9. /\ Where(Failed)' # {} => Where(Failed) # {}
      /\ \A i \in DOMAIN er' : er'[i].ep \in {0, ep_interrupt_in}
  BY <1>1, <1>2, PopEnds
<1> QED
  BY <1>2, <1>3, <1>4, <1>5, <1>6, <1>7, <1>8, <1>9

(* The request that answers one.                                           *)
LEMMA InitializePhase1Keeps == UsbInv /\ InitializePhase1 => UsbInv'
<1> SUFFICES ASSUME UsbInv, InitializePhase1 PROVE UsbInv'
  OBVIOUS
<1>1. /\ Answers /\ Pop /\ initialize_phase = 1 /\ initialize_phase' = 2
      /\ pipe' = ControlIn(Answered, "GetDescriptor(Configuration)")
      /\ ConfigureEndpoints(2)
      /\ UNCHANGED <<ep_configs, class_drivers, class_driver, hid_phase, ep_interrupt_in,
                     readVars, deviceVars, polls>>
  BY DEF InitializePhase1
<1>2. UsbTypeOK /\ AskInv /\ DriverInv /\ CommandInv /\ ProtocolInv /\ PollInv /\ WrongInv
  BY DEF UsbInv
<1>3. /\ er # <<>> /\ Head0 \in Reply
      /\ er' \in Seq(Event)
      /\ Where(Reply)' = {} /\ Moved(Data) /\ Where(Done)' = {} /\ ~command
      /\ hid_phase = 0 /\ port_config_phase = "InitializingDevice"
      /\ Where(Failed)' # {} => Where(Failed) # {}
      /\ \A i \in DOMAIN er' : er'[i].ep \in {0, ep_interrupt_in}
  BY <1>1, EarlyAnswer
<1>4. UNCHANGED <<port_config_phase, contexts, command>>
  BY <1>1 DEF ConfigureEndpoints
<1>5. /\ PipeOK(Answered) /\ Len(Answered.ep0) = Queued
      /\ Written(Answered, 1) = Written(pipe, 1)
  BY <1>2, <1>3, AnsweredIs DEF Queued
<1>6. /\ Answered.setup_stage_map = EmptyTable(MapSize) /\ Queued < 2 /\ Age = 2
      /\ Queued \in Nat
  <2>1. Age = 2
    BY <1>1 DEF Age
  <2>2. Queued \in Nat
    BY <1>2 DEF Queued, UsbTypeOK, PipeOK, Pipe
  <2> QED
    BY <1>1, <1>2, <1>3, <2>1, <2>2, AnswerIs
<1> DEFINE p == Answered
           r == "GetDescriptor(Configuration)"
           q == ControlIn(p, r)
<1>7. /\ PipeOK(q) /\ Len(q.ep0) = Queued + 3
      /\ Written(q, 1) = StatusStage(FALSE)
      /\ Written(q, 2) = DataStage /\ Written(q, 3) = SetupStage(r)
      /\ Written(q, 4) = Written(pipe, 1)
      /\ q.setup_stage_map = OneEntry(MapSize, Back(q.write_index, 2), Back(q.write_index, 3))
  <2>1. PipeOK(p) /\ Len(p.ep0) <= 1 /\ r \in Requests
    BY <1>5, <1>6 DEF Requests
  <2> HIDE DEF p, r
  <2>2. /\ PipeOK(q) /\ Len(q.ep0) = Len(p.ep0) + 3
        /\ Written(q, 1) = StatusStage(FALSE)
        /\ Written(q, 2) = DataStage /\ Written(q, 3) = SetupStage(r)
        /\ Written(q, 4) = Written(p, 1)
        /\ q.setup_stage_map = Put(p.setup_stage_map, Back(q.write_index, 2),
                                   Back(q.write_index, 3))
    BY <2>1, ControlInIs
  <2> HIDE DEF q
  <2>3. MapSize \in Nat \ {0}
    BY SizeAssumption
  <2> QED
    BY <1>5, <1>6, <2>2, <2>3, OneEntryIs DEF p
<1> HIDE DEF q
<1>8. pipe' = q
  BY <1>1 DEF q
<1>9. Age' = 2 /\ Asked' = r /\ Queued' = Queued + 3
      /\ Filed' = OneEntry(MapSize, Back(q.write_index, 2), Back(q.write_index, 3))
  <2>1. Age' = 2 /\ Asked' = r
    BY <1>1 DEF Age, Asked
  <2> QED
    BY <1>7, <1>8, <2>1 DEF Filed, Queued
<1>10. UsbTypeOK'
  BY <1>1, <1>2, <1>3, <1>4, <1>7, <1>8 DEF UsbTypeOK, deviceVars
<1>11. AskInv'
  <2>1. Queued' <= Age' + 2 /\ Queued' # Age' /\ Age' = 2
    BY <1>6, <1>9
  <2>2. Queued' = Age' + 2 => Written(pipe', 4) = StatusStage(FALSE)
    <3>1. initialize_phase < 4
      BY <1>1
    <3>2. Written(pipe, 1) = StatusStage(FALSE)
      BY <1>2, <1>6, <3>1, Zenon DEF AskInv
    <3> QED
      BY <1>7, <1>8, <3>2
  <2>3. /\ Written(pipe', 3) = SetupStage(Asked') /\ Written(pipe', 2) = DataStage
        /\ Written(pipe', 1) = StatusStage(FALSE)
        /\ pipe'.setup_stage_map = Filed'
    BY <1>7, <1>8, <1>9
  <2>4. Single(Reply)'
    BY <1>3 DEF Single
  <2>5. 2 + 1 = 3 /\ 2 + 2 = 4
    OBVIOUS
  <2> QED
    BY <1>3, <2>1, <2>2, <2>3, <2>4, <2>5 DEF AskInv
<1>12. DriverInv'
  BY <1>1, <1>2, <1>4 DEF DriverInv
<1>13. CommandInv' /\ ProtocolInv'
  BY <1>1, <1>3, <1>4 DEF CommandInv, ProtocolInv, Single
<1>14. PollInv'
  <2>1. UNCHANGED <<polls, report_buf, report_len, previous_buf>>
    BY <1>1 DEF deviceVars, readVars
  <2>2. hid_phase' = 0 /\ port_config_phase' # "Configured"
    BY <1>1, <1>3, <1>4
  <2> QED
    BY <1>1, <1>2, <1>3, <2>1, <2>2, PollKept
<1>15. WrongInv'
  BY <1>1, <1>2, <1>3, <1>6, <1>9 DEF WrongInv, deviceVars
<1> QED
  BY <1>10, <1>11, <1>12, <1>13, <1>14, <1>15 DEF UsbInv

(* An answer that brings nothing new to ask.                               *)
LEMMA AskAnswered ==
  ASSUME UsbInv, Answers, Pop, initialize_phase < 4, pipe' = Answered,
         UNCHANGED <<initialize_phase, deviceVars>>
  PROVE  PipeOK(pipe') /\ Queued' = Queued /\ AskInv'
<1>1. UsbTypeOK /\ AskInv
  BY DEF UsbInv
<1>2. er # <<>> /\ Head0 \in Reply /\ Where(Reply)' = {} /\ Where(Reply) # {}
  BY EarlyAnswer
<1>3. /\ PipeOK(pipe') /\ Queued' = Queued
      /\ pipe'.write_index = pipe.write_index /\ \A k : Written(pipe', k) = Written(pipe, k)
  BY <1>1, <1>2, AnsweredIs DEF Queued
<1>4. pipe'.setup_stage_map = EmptyTable(MapSize) /\ Queued < Age
  BY <1>1, <1>2, AnswerIs
<1>5. Age' = Age /\ Asked' = Asked
  BY DEF Age, Asked
<1>6. Queued \in Nat /\ Age \in 1..2
  BY <1>1 DEF Queued, UsbTypeOK, PipeOK, Pipe, Age
<1>7. Queued <= Age + 2 /\ Queued # Age + 2 /\ ~(Queued >= Age) /\ Queued # Age
  BY <1>4, <1>6
<1>8. /\ Written(pipe, Age + 1) = SetupStage(Asked)
      /\ Written(pipe, Age) = IF Age = 2 THEN DataStage ELSE StatusStage(TRUE)
      /\ Age = 2 => Written(pipe, 1) = StatusStage(FALSE)
  BY <1>1 DEF AskInv
<1>9. Single(Reply)'
  BY <1>2 DEF Single
<1>10. AskInv'
  BY <1>2, <1>3, <1>4, <1>5, <1>7, <1>8, <1>9 DEF AskInv
<1> QED
  BY <1>3, <1>10

(* InitializePhase2: the endpoints are taken and SetConfiguration asked.   *)
LEMMA InitializePhase2Keeps == UsbInv /\ InitializePhase2 => UsbInv'
<1> SUFFICES ASSUME UsbInv, InitializePhase2 PROVE UsbInv'
  OBVIOUS
<1>1. /\ Answers /\ Pop /\ initialize_phase = 2
      /\ ConfigureEndpoints(initialize_phase')
      /\ UNCHANGED <<hid_phase, ep_interrupt_in, readVars, deviceVars, polls>>
  BY DEF InitializePhase2
<1>2. UsbTypeOK /\ AskInv /\ DriverInv /\ CommandInv /\ ProtocolInv /\ PollInv /\ WrongInv
  BY DEF UsbInv
<1>3. /\ er # <<>> /\ Head0 \in Reply
      /\ er' \in Seq(Event)
      /\ Where(Reply)' = {} /\ Moved(Data) /\ Where(Done)' = {} /\ ~command
      /\ hid_phase = 0 /\ port_config_phase = "InitializingDevice"
      /\ Where(Failed)' # {} => Where(Failed) # {}
      /\ \A i \in DOMAIN er' : er'[i].ep \in {0, ep_interrupt_in}
  BY <1>1, EarlyAnswer
<1>4. ASSUME initialize_phase' < 4
      PROVE  /\ UNCHANGED <<port_config_phase, contexts, command>>
             /\ CommandInv' /\ ProtocolInv'
  <2>1. UNCHANGED <<port_config_phase, contexts, command>>
    BY <1>1, <1>4 DEF ConfigureEndpoints
  <2>2. CommandInv' /\ ProtocolInv'
    BY <1>3, <2>1 DEF CommandInv, ProtocolInv, Single
  <2> QED
    BY <2>1, <2>2
<1>5. ASSUME port_config_phase' = port_config_phase PROVE PollInv'
  <2>1. UNCHANGED <<polls, report_buf, report_len, previous_buf>>
    BY <1>1 DEF deviceVars, readVars
  <2>2. class_driver # "mouse"
    BY <1>1, <1>2 DEF DriverInv
  <2>3. hid_phase' = 0 /\ port_config_phase' # "Configured"
    BY <1>1, <1>3, <1>5
  <2> QED
    BY <1>1, <1>2, <1>3, <2>1, <2>2, <2>3, PollKept
<1>6. CASE /\ SupportedIn(configuration) = {}
           /\ pipe' = Answered
           /\ UNCHANGED <<initialize_phase, ep_configs, class_drivers, class_driver>>
  <2>1. initialize_phase' < 4
    BY <1>1, <1>6
  <2>2. UNCHANGED <<port_config_phase, contexts, command>> /\ CommandInv' /\ ProtocolInv'
    BY <1>4, <2>1
  <2>3. PipeOK(pipe') /\ AskInv'
    BY <1>1, <1>6, AskAnswered
  <2>4. UsbTypeOK'
    BY <1>1, <1>2, <1>3, <1>6, <2>2, <2>3 DEF UsbTypeOK, deviceVars
  <2>5. DriverInv'
    BY <1>1, <1>2, <1>6, <2>2, DriverKept DEF deviceVars
  <2>6. WrongInv'
    BY <1>1, <1>2, <1>3, <1>6 DEF WrongInv, Supported, deviceVars
  <2> QED
    BY <1>5, <2>2, <2>3, <2>4, <2>5, <2>6 DEF UsbInv
<1>7. CASE \E i \in SupportedIn(configuration) :
              /\ i = FirstOf(SupportedIn(configuration))
              /\ class_driver' = configuration[i].driver
              /\ ep_configs' = EndpointsFrom(configuration, i)
              /\ class_drivers' = NumbersOf(ep_configs')
              /\ initialize_phase' = 3
              /\ pipe' = ControlOut(Answered, "SetConfiguration")
  <2>1. /\ Supported # {} /\ configuration' = configuration /\ Supported' = Supported
        /\ Device' = Device
    BY <1>1, <1>7 DEF Supported, Device, deviceVars
  <2>2. /\ class_driver' = configuration[Device].driver
        /\ ep_configs' = EndpointsFrom(configuration, Device)
        /\ class_drivers' = NumbersOf(ep_configs')
        /\ initialize_phase' = 3
        /\ pipe' = ControlOut(Answered, "SetConfiguration")
    BY <1>7 DEF Supported, Device
  <2>3. UNCHANGED <<port_config_phase, contexts, command>> /\ CommandInv' /\ ProtocolInv'
    BY <1>4, <2>2
  <2>4. ep_configs' = Own(configuration, Device)
    BY <1>2, <2>1, <2>2, DeviceIs DEF UsbTypeOK
  <2>5. DriverInv'
    BY <1>1, <1>2, <1>3, <2>1, <2>2, <2>3, <2>4 DEF DriverInv
  <2>6. /\ PipeOK(Answered) /\ Len(Answered.ep0) = Queued
        /\ Written(Answered, 1) = Written(pipe, 1)
    BY <1>2, <1>3, AnsweredIs DEF Queued
  <2>7. /\ Answered.setup_stage_map = EmptyTable(MapSize) /\ Queued < 2 /\ Age = 2
        /\ Queued \in Nat
    <3>1. Age = 2
      BY <1>1 DEF Age
    <3>2. Queued \in Nat
      BY <1>2 DEF Queued, UsbTypeOK, PipeOK, Pipe
    <3> QED
      BY <1>1, <1>2, <1>3, <3>1, <3>2, AnswerIs
  <2> DEFINE p == Answered
             r == "SetConfiguration"
             q == ControlOut(p, r)
  <2>8. /\ PipeOK(q) /\ Len(q.ep0) = Queued + 2
        /\ Written(q, 1) = StatusStage(TRUE) /\ Written(q, 2) = SetupStage(r)
        /\ Written(q, 3) = Written(pipe, 1)
        /\ q.setup_stage_map = OneEntry(MapSize, Back(q.write_index, 1), Back(q.write_index, 2))
    <3>1. PipeOK(p) /\ Len(p.ep0) + 2 < Last /\ r \in Requests /\ 1 \in 1..(Last - 2)
      BY <2>6, <2>7, LastType DEF Requests
    <3> HIDE DEF p, r
    <3>2. /\ PipeOK(q) /\ Len(q.ep0) = Len(p.ep0) + 2
          /\ Written(q, 1) = StatusStage(TRUE) /\ Written(q, 2) = SetupStage(r)
          /\ \A k \in 1..(Last - 2) : Written(q, k + 2) = Written(p, k)
          /\ q.setup_stage_map = Put(p.setup_stage_map, Back(q.write_index, 1),
                                     Back(q.write_index, 2))
      BY <3>1, ControlOutIs
    <3> HIDE DEF q
    <3>3. Written(q, 1 + 2) = Written(p, 1) /\ 1 + 2 = 3
      BY <3>1, <3>2
    <3>4. MapSize \in Nat \ {0}
      BY SizeAssumption
    <3>5. Written(q, 3) = Written(p, 1) /\ Len(q.ep0) = Queued + 2
      BY <2>6, <3>2, <3>3 DEF p
    <3>6. q.setup_stage_map
            = OneEntry(MapSize, Back(q.write_index, 1), Back(q.write_index, 2))
      BY <2>7, <3>2, <3>4, OneEntryIs DEF p
    <3> QED
      BY <2>6, <3>2, <3>5, <3>6 DEF p
  <2> HIDE DEF q
  <2>9. pipe' = q
    BY <2>2 DEF q
  <2>10. Age' = 1 /\ Asked' = r /\ Queued' = Queued + 2
         /\ Filed' = OneEntry(MapSize, Back(q.write_index, 1), Back(q.write_index, 2))
    <3>1. Age' = 1 /\ Asked' = r
      BY <2>2 DEF Age, Asked
    <3> QED
      BY <2>8, <2>9, <3>1 DEF Filed, Queued
  <2>11. UsbTypeOK'
    BY <1>1, <1>2, <1>3, <2>2, <2>3, <2>8, <2>9 DEF UsbTypeOK, deviceVars
  <2>12. AskInv'
    <3>1. Queued' <= Age' + 2 /\ Queued' # Age' /\ Age' # 2
      BY <2>7, <2>10
    <3>2. Queued' = Age' + 2 => Written(pipe', 3) = StatusStage(FALSE)
      <4>1. initialize_phase < 4
        BY <1>1
      <4>2. Written(pipe, 1) = StatusStage(FALSE)
        BY <1>2, <2>7, <4>1, Zenon DEF AskInv
      <4> QED
        BY <2>8, <2>9, <4>2
    <3>3. /\ Written(pipe', 2) = SetupStage(Asked') /\ Written(pipe', 1) = StatusStage(TRUE)
          /\ pipe'.setup_stage_map = Filed'
      BY <2>8, <2>9, <2>10
    <3>4. Single(Reply)'
      BY <1>3 DEF Single
    <3>5. 1 + 1 = 2 /\ 1 + 2 = 3
      OBVIOUS
    <3> QED
      BY <1>3, <2>10, <3>1, <3>2, <3>3, <3>4, <3>5 DEF AskInv
  <2>13. WrongInv'
    BY <1>1, <1>2, <1>3, <2>2, <2>7, <2>10 DEF WrongInv, deviceVars
  <2> QED
    BY <1>5, <2>3, <2>5, <2>11, <2>12, <2>13 DEF UsbInv
<1> QED
  BY <1>6, <1>7 DEF InitializePhase2

(* SetEndpoint: the last endpoint to poll.                                 *)
LEMMA LastPolledIs ==
  ASSUME NEW eps, NEW n \in Nat, DOMAIN eps = 1..n, \E k \in DOMAIN eps : Polled(eps[k])
  PROVE  \E k \in DOMAIN eps : Polled(eps[k]) /\ eps[k].number = LastPolled(eps)
<1> DEFINE found == {i \in DOMAIN eps : Polled(eps[i])}
           k == CHOOSE i \in found : \A j \in found : j <= i
<1>1. found # {} /\ found \in SUBSET (1..n)
  OBVIOUS
<1>2. \E i \in found : \A j \in found : j <= i
  <2> HIDE DEF found
  <2> QED
    BY <1>1, LastIs
<1>3. k \in found
  <2> HIDE DEF found
  <2> QED
    BY <1>2
<1>4. LastPolled(eps) = eps[k].number
  BY <1>1 DEF LastPolled
<1> HIDE DEF k
<1> QED
  BY <1>3, <1>4

(* InitializePhase3: the Configure Endpoint command is given.              *)
LEMMA InitializePhase3Keeps == UsbInv /\ InitializePhase3 => UsbInv'
<1> SUFFICES ASSUME UsbInv, InitializePhase3 PROVE UsbInv'
  OBVIOUS
<1>1. /\ Answers /\ Pop /\ initialize_phase = 3
      /\ ep_interrupt_in' = LastPolled(ep_configs)
      /\ initialize_phase' = 4
      /\ pipe' = Answered
      /\ ConfigureEndpoints(4)
      /\ UNCHANGED <<ep_configs, class_drivers, class_driver, hid_phase, readVars, deviceVars,
                     polls>>
  BY DEF InitializePhase3
<1>2. UsbTypeOK /\ AskInv /\ DriverInv /\ CommandInv /\ ProtocolInv /\ PollInv /\ WrongInv
  BY DEF UsbInv
<1>3. /\ er # <<>> /\ Head0 \in Reply
      /\ er' \in Seq(Event)
      /\ Where(Reply)' = {} /\ Moved(Data) /\ Where(Done)' = {} /\ ~command
      /\ hid_phase = 0 /\ port_config_phase = "InitializingDevice"
      /\ Where(Failed)' # {} => Where(Failed) # {}
      /\ \A i \in DOMAIN er' : er'[i].ep \in {0, ep_interrupt_in}
  BY <1>1, EarlyAnswer
<1>4. /\ port_config_phase' = "ConfiguringEndpoints" /\ command' = TRUE
      /\ contexts' = EnableEndpoints(contexts, speed, ep_configs)
  BY <1>1, <1>3 DEF ConfigureEndpoints
<1>5. /\ Supported # {} /\ ep_configs = Own(configuration, Device)
      /\ class_drivers = NumbersOf(ep_configs)
      /\ class_driver = configuration[Device].driver
      /\ contexts = [d \in {1} |-> EP0Context] /\ ep_interrupt_in = 0
  BY <1>1, <1>2 DEF DriverInv
<1>6. \E k \in DOMAIN ep_configs : /\ Polled(ep_configs[k])
                                   /\ ep_configs[k].number = ep_interrupt_in'
  <2>1. \E k \in DOMAIN ep_configs : Polled(ep_configs[k])
    BY <1>2, <1>5, DeviceIs DEF UsbTypeOK
  <2>2. /\ DOMAIN ep_configs = 1..configuration[Device].endpoints
        /\ configuration[Device].endpoints \in Nat
    <3>1. Device \in SupportedIn(configuration)
      BY <1>2, <1>5, DeviceIs DEF UsbTypeOK, Supported
    <3> QED
      BY <1>2, <1>5, <3>1, OwnEndpointsFound DEF UsbTypeOK
  <2> QED
    BY <1>1, <2>1, <2>2, LastPolledIs
<1>7. ep_interrupt_in' \in 1..15
  <2>1. \A k \in DOMAIN ep_configs : ep_configs[k] \in Endpoint
    BY <1>2, <1>5, DeviceIs DEF UsbTypeOK
  <2> QED
    BY <1>6, <2>1 DEF Endpoint, EndpointNumbers
<1>8. /\ PipeOK(pipe') /\ Len(pipe'.ep0) = 0
      /\ pipe'.setup_stage_map = EmptyTable(MapSize)
  <2>1. Queued \in Nat /\ Age = 1
    BY <1>1, <1>2 DEF Queued, UsbTypeOK, PipeOK, Pipe, Age
  <2>2. Queued = 0
    BY <1>1, <1>2, <1>3, <2>1, AnswerIs
  <2> QED
    BY <1>1, <1>2, <1>3, <2>2, AnswerIs, AnsweredIs DEF Queued
<1>9. AskedFor(pipe', 0)
  <2>1. \A j \in 1..MapSize : pipe'.setup_stage_map[j] = Empty
    BY <1>8 DEF EmptyTable
  <2>2. 0..(0 - 1) = {}
    OBVIOUS
  <2> QED
    BY <1>8, <2>1, <2>2 DEF AskedFor
<1>10. UsbTypeOK'
  BY <1>1, <1>2, <1>3, <1>4, <1>7, <1>8 DEF UsbTypeOK, deviceVars
<1>11. AskInv' /\ ProtocolInv'
  BY <1>1, <1>4 DEF AskInv, ProtocolInv
<1>12. DriverInv'
  <2>1. Supported' = Supported /\ Device' = Device /\ configuration' = configuration
        /\ speed' = speed
    BY <1>1 DEF Supported, Device, deviceVars
  <2> QED
    BY <1>1, <1>4, <1>5, <1>6, <2>1 DEF DriverInv
<1>13. CommandInv'
  <2>1. Single(Done)'
    BY <1>3 DEF Single
  <2> QED
    BY <1>3, <1>4, <1>9, <2>1 DEF CommandInv
<1>14. PollInv'
  <2>1. UNCHANGED <<polls, report_buf, report_len, previous_buf>>
    BY <1>1 DEF deviceVars, readVars
  <2>2. \A i \in DOMAIN er' : er'[i].ep \in {0, ep_interrupt_in'}
    BY <1>3, <1>5
  <2>3. hid_phase' = 0 /\ port_config_phase' # "Configured"
    BY <1>1, <1>3, <1>4
  <2> QED
    BY <1>1, <1>2, <1>3, <2>1, <2>2, <2>3, PollKept
<1>15. WrongInv'
  BY <1>1, <1>2, <1>3 DEF WrongInv, deviceVars
<1> QED
  BY <1>10, <1>11, <1>12, <1>13, <1>14, <1>15 DEF UsbInv

-----------------------------------------------------------------------------
(* The conversation on the control pipe once the device is configured.     *)

(* HIDOnControlCompleted: the first answer starts the polling.             *)
LEMMA HIDOnControlCompletedKeeps == UsbInv /\ HIDOnControlCompleted => UsbInv'
<1> SUFFICES ASSUME UsbInv, HIDOnControlCompleted PROVE UsbInv'
  OBVIOUS
<1> DEFINE n == Numbers
           w == pipe.write_index
<1>1. /\ Answers /\ Pop /\ initialize_phase = 4
      /\ \/ /\ hid_phase = 1 /\ hid_phase' = 2 /\ polls' = polls + 1
            /\ ConfigureEndpoints(initialize_phase)
         \/ /\ hid_phase # 1
            /\ UNCHANGED <<hid_phase, polls, port_config_phase, contexts, command>>
      /\ pipe' = Answered
      /\ UNCHANGED <<initialize_phase, ep_configs, class_drivers, class_driver, ep_interrupt_in,
                     readVars, deviceVars>>
  BY DEF HIDOnControlCompleted
<1>2. UsbTypeOK /\ AskInv /\ DriverInv /\ CommandInv /\ ProtocolInv /\ PollInv /\ WrongInv
  BY DEF UsbInv
<1>3. er # <<>> /\ Head0.type = "Transfer" /\ Head0.ok /\ Head0.ep = 0
  BY <1>1 DEF Answers, Handles
<1>4. /\ er \in Seq(Event) /\ er' \in Seq(Event) /\ Head0 \in Event /\ Head0 = er[1]
      /\ Head0 \in Reply <=> 1 \in Where(Reply)
      /\ \A i \in Where(Reply)' : i + 1 \in Where(Reply) /\ i + 1 # 1 /\ er'[i] = er[i + 1]
      /\ Where(Data) = {} => Where(Data)' = {}
  BY <1>2, <1>1, <1>3, PopWhere DEF UsbTypeOK
<1>5. Head0 \in Reply /\ Head0 \notin Data /\ Head0 \notin Done /\ 1 \in Where(Reply)
  BY <1>3, <1>4 DEF Reply, Data, Done
<1>6. Moved(Data) /\ Moved(Done)
  BY <1>1, <1>3, <1>4, <1>5, PopMoved
<1>7. port_config_phase = "Configured" /\ hid_phase \in 1..2
  <2>1. port_config_phase \in {"ConfiguringEndpoints", "Configured"}
    BY <1>1, <1>2 DEF UsbTypeOK, DriverInv
  <2>2. port_config_phase = "Configured"
    BY <1>2, <1>5, <2>1 DEF CommandInv
  <2> QED
    BY <1>2, <2>2 DEF UsbTypeOK, PollInv
<1>8. /\ UNCHANGED <<port_config_phase, contexts, command>> /\ hid_phase' = 2
      /\ hid_phase = 1 => polls' = polls + 1
      /\ hid_phase = 2 => polls' = polls
  BY <1>1, <1>7 DEF ConfigureEndpoints
<1>9. /\ PipeOK(pipe') /\ Queued' = Queued /\ pipe'.write_index = w
      /\ pipe'.event_waiters = pipe.event_waiters
      /\ \A k : Written(pipe', k) = Written(pipe, k)
  BY <1>1, <1>2, <1>3, AnsweredIs DEF Queued
<1>10. PICK m \in 0..(n - 1) :
         /\ Head0.issuer = Back(w, 2 * m + 1) /\ Queued < 2 * m + 1
         /\ pipe'.setup_stage_map = [pipe.setup_stage_map EXCEPT ![n - m] = Empty]
  BY <1>1, <1>2, <1>3, <1>5, <1>7, ProtocolAnswerIs
<1>11. n \in Nat \ {0} /\ 2 * n < Last /\ n <= MapSize /\ n' = n
  BY <1>1, <1>2, NumbersIs DEF Numbers
<1>12. /\ DOMAIN pipe.setup_stage_map = 1..MapSize /\ MapSize \in Nat
       /\ w \in Positions /\ Queued \in Nat /\ Last \in Nat
  BY <1>2, SizeAssumption, LastType DEF UsbTypeOK, PipeOK, Pipe, Queued
<1>13. UsbTypeOK'
  <2>1. polls' \in Nat
    BY <1>2, <1>7, <1>8 DEF UsbTypeOK
  <2> QED
    BY <1>1, <1>2, <1>4, <1>8, <1>9, <2>1 DEF UsbTypeOK, deviceVars
<1>14. AskInv'
  BY <1>1 DEF AskInv
<1>15. DriverInv'
  BY <1>1, <1>2, <1>8, DriverKept DEF deviceVars
<1>16. CommandInv'
  <2>1. /\ Where(Done)' = {} <=> Where(Done) = {}
        /\ Single(Done) => Single(Done)'
    BY <1>4, <1>6, MovedIs
  <2> QED
    BY <1>2, <1>7, <1>8, <2>1 DEF CommandInv
<1>17. ProtocolInv'
  <2>1. \A j \in 1..MapSize : pipe'.setup_stage_map[j] # Empty =>
           /\ pipe.setup_stage_map[j] # Empty
           /\ pipe'.setup_stage_map[j] = pipe.setup_stage_map[j]
    BY <1>10, <1>12
  <2>2. \A j \in 1..MapSize : pipe'.setup_stage_map[j] # Empty =>
           \E l \in 0..(n - 1) :
              /\ j = n - l
              /\ pipe'.setup_stage_map[j] = <<Back(w, 2 * l + 1), Back(w, 2 * l + 2)>>
    BY <1>2, <1>7, <2>1 DEF ProtocolInv
  <2>3. \A i \in Where(Reply)' : i + 1 \in Where(Reply) /\ er'[i] = er[i + 1]
                                 /\ er'[i].issuer # Back(w, 2 * m + 1)
    BY <1>2, <1>4, <1>5, <1>7, <1>10 DEF ProtocolInv
  <2>4. ASSUME NEW l \in 0..(n - 1),
               \/ 2 * l + 1 <= Queued
               \/ \E i \in Where(Reply)' : er'[i].issuer = Back(w, 2 * l + 1)
        PROVE  pipe'.setup_stage_map[n - l] # Empty
    <3>1. l # m
      <4>1. ~(2 * m + 1 <= Queued)
        BY <1>10, <1>11, <1>12
      <4>2. \A i \in Where(Reply)' : er'[i].issuer # Back(w, 2 * m + 1)
        BY <2>3
      <4> QED
        BY <2>4, <4>1, <4>2
    <3>2. n - l # n - m /\ n - l \in 1..MapSize
      BY <1>11, <1>12, <3>1
    <3>3. pipe.setup_stage_map[n - l] # Empty
      BY <1>2, <1>7, <2>3, <2>4 DEF ProtocolInv
    <3> QED
      BY <1>10, <1>12, <3>2, <3>3
  <2>5. \A i \in Where(Reply)' : \E l \in 0..(n - 1) :
           er'[i].issuer = Back(w, 2 * l + 1) /\ Queued < 2 * l + 1
    BY <1>2, <1>7, <2>3 DEF ProtocolInv
  <2>6. \A i, j \in Where(Reply)' : er'[i].issuer = er'[j].issuer => i = j
    <3>1. \A i \in Where(Reply)' : i \in Nat
      BY <1>4 DEF Where
    <3>2. \A i, j \in Where(Reply)' : er'[i].issuer = er'[j].issuer => i + 1 = j + 1
      BY <1>2, <1>7, <2>3 DEF ProtocolInv
    <3> QED
      BY <3>1, <3>2
  <2>7. /\ Queued <= 2 * n
        /\ \A l \in 0..(n - 1) : /\ Written(pipe, 2 * l + 1) = StatusStage(TRUE)
                                 /\ Written(pipe, 2 * l + 2) = SetupStage("SetProtocol")
        /\ Contains(pipe.event_waiters, "SetProtocol")
    BY <1>2, <1>7 DEF ProtocolInv
  <2> QED
    BY <1>9, <1>11, <2>2, <2>4, <2>5, <2>6, <2>7 DEF ProtocolInv
<1>18. PollInv'
  <2>1. \A i \in DOMAIN er' : er'[i].ep \in {0, ep_interrupt_in}
    BY <1>2, <1>1, <1>3, PopEnds
  <2>2. UNCHANGED <<report_buf, report_len, previous_buf>>
    BY <1>1 DEF deviceVars, readVars
  <2>3. CASE hid_phase = 2
    <3>1. hid_phase' = 2 /\ port_config_phase' = "Configured" /\ polls' = polls
      BY <1>7, <1>8, <2>3
    <3> QED
      BY <1>1, <1>2, <1>4, <1>6, <2>1, <2>2, <3>1, PollKept
  <2>4. CASE hid_phase = 1
    <3>1. polls = 0 /\ Where(Data) = {} /\ polls' = 1
      BY <1>2, <1>8, <2>4 DEF PollInv
    <3>2. Where(Data)' = {}
      BY <1>4, <3>1
    <3> QED
      BY <1>1, <1>2, <1>7, <1>8, <2>1, <2>2, <3>1, <3>2 DEF PollInv, Single
  <2> QED
    BY <1>7, <2>3, <2>4
<1>19. WrongInv'
  <2>1. Where(Failed)' # {} => Where(Failed) # {}
    BY <1>1, <1>2, <1>3, PopEnds
  <2>2. hid_phase = 1 => polls' = 1
    BY <1>2, <1>8 DEF PollInv
  <2>3. Where(Data) # {} => Where(Data)' # {}
    BY <1>4, <1>6, MovedIs
  <2>4. Supported' = Supported /\ halted' = halted /\ buf' = buf
    BY <1>1 DEF Supported, deviceVars
  <2> QED
    BY <1>1, <1>2, <1>7, <1>8, <2>1, <2>2, <2>3, <2>4 DEF WrongInv
<1> QED
  BY <1>13, <1>14, <1>15, <1>16, <1>17, <1>18, <1>19 DEF UsbInv

(* An answer that is refused: the descriptor was a wrong one.              *)
LEMMA AnswerRefusedIs ==
  ASSUME UsbInv, AnswerRefused
  PROVE  Answers /\ initialize_phase < 4 /\ buf = "other"
<1>1. /\ er # <<>> /\ Head0.type = "Transfer" /\ Head0.ok /\ Head0.ep = 0 /\ Pop
      /\ Contains(pipe.setup_stage_map, Head0.issuer) =>
           CASE initialize_phase = 1 -> ~BringsDevice
             [] initialize_phase = 2 -> ~BringsConfiguration
             [] initialize_phase = 3 -> Request # "SetConfiguration"
             [] OTHER                -> ~Contains(pipe.event_waiters, Request)
  BY DEF AnswerRefused, Handles
<1>2. UsbTypeOK /\ AskInv /\ DriverInv /\ CommandInv /\ ProtocolInv /\ PollInv
  BY DEF UsbInv
<1>3. /\ er \in Seq(Event) /\ Head0 \in Event /\ (Head0 \in Reply <=> 1 \in Where(Reply))
  BY <1>1, <1>2, PopWhere DEF UsbTypeOK
<1>4. Head0 \in Reply /\ Where(Reply) # {}
  BY <1>1, <1>3 DEF Reply
<1>5. initialize_phase \in 1..4
  BY <1>2 DEF UsbTypeOK
<1>6. CASE initialize_phase = 4
  <2>1. port_config_phase \in {"ConfiguringEndpoints", "Configured"}
    BY <1>2, <1>6 DEF UsbTypeOK, DriverInv
  <2>2. port_config_phase = "Configured"
    BY <1>2, <1>4, <2>1 DEF CommandInv
  <2>3. Contains(pipe.setup_stage_map, Head0.issuer) /\ Request = "SetProtocol"
    BY <1>1, <1>2, <1>4, <2>2, ProtocolAnswerIs
  <2>4. Contains(pipe.event_waiters, "SetProtocol")
    BY <1>2, <2>2 DEF ProtocolInv
  <2> QED
    BY <1>1, <1>6, <2>3, <2>4
<1>7. CASE initialize_phase < 4
  <2>1. /\ Contains(pipe.setup_stage_map, Head0.issuer) /\ Request = Asked
        /\ pipe.ring[Head0.issuer].type = IF Age = 2 THEN "Data" ELSE "Status"
    BY <1>1, <1>2, <1>4, <1>7, AnswerIs
  <2>2. Answers
    BY <1>1, <2>1 DEF Answers, Handles
  <2>3. Age = 2 => buf \in {Descriptor(Asked), "other"}
    BY <1>2, <1>4, <1>7 DEF AskInv
  <2>4. CASE initialize_phase = 3
    BY <1>1, <2>1, <2>4 DEF Asked
  <2>5. CASE initialize_phase = 1
    BY <1>1, <2>1, <2>3, <2>5, <2>2, <1>7 DEF Asked, Age, BringsDevice, Brings, Descriptor
  <2>6. CASE initialize_phase = 2
    BY <1>1, <2>1, <2>3, <2>6, <2>2, <1>7
    DEF Asked, Age, BringsConfiguration, Brings, Descriptor
  <2> QED
    BY <1>5, <1>7, <2>4, <2>5, <2>6
<1> QED
  BY <1>5, <1>6, <1>7

(* AnswerRefused: it only happens when something has gone wrong.           *)
LEMMA AnswerRefusedKeeps == UsbInv /\ AnswerRefused => UsbInv'
<1> SUFFICES ASSUME UsbInv, AnswerRefused PROVE UsbInv'
  OBVIOUS
<1>1. /\ Pop /\ pipe' = Answered
      /\ UNCHANGED <<driverVars, deviceVars, polls, command>>
  BY DEF AnswerRefused
<1>2. UsbTypeOK /\ AskInv /\ DriverInv /\ CommandInv /\ ProtocolInv /\ PollInv /\ WrongInv
  BY DEF UsbInv
<1>3. Answers /\ initialize_phase < 4 /\ buf = "other"
  BY AnswerRefusedIs
<1>4. /\ er' \in Seq(Event)
      /\ Where(Reply)' = {} /\ Moved(Data) /\ Where(Done)' = {} /\ ~command
      /\ hid_phase = 0 /\ port_config_phase = "InitializingDevice"
      /\ Where(Failed)' # {} => Where(Failed) # {}
      /\ \A i \in DOMAIN er' : er'[i].ep \in {0, ep_interrupt_in}
  BY <1>1, <1>3, EarlyAnswer
<1>5. PipeOK(pipe') /\ AskInv'
  BY <1>1, <1>3, AskAnswered DEF driverVars
<1>6. UsbTypeOK'
  BY <1>1, <1>2, <1>4, <1>5 DEF UsbTypeOK, driverVars, deviceVars
<1>7. DriverInv'
  BY <1>1, <1>2, DriverKept DEF driverVars, deviceVars
<1>8. CommandInv' /\ ProtocolInv'
  BY <1>1, <1>4 DEF CommandInv, ProtocolInv, Single, driverVars
<1>9. PollInv'
  <2>1. UNCHANGED <<polls, report_buf, report_len, previous_buf, hid_phase, port_config_phase,
                    class_driver, ep_interrupt_in>>
    BY <1>1 DEF deviceVars, driverVars, readVars
  <2>2. hid_phase' = 0 /\ port_config_phase' # "Configured"
    BY <1>4, <2>1
  <2> QED
    BY <1>2, <1>4, <2>1, <2>2, PollKept
<1>10. WrongInv'
  BY <1>1, <1>2, <1>3, <1>4 DEF WrongInv, deviceVars
<1> QED
  BY <1>5, <1>6, <1>7, <1>8, <1>9, <1>10 DEF UsbInv

(* CompleteConfiguration: a SetProtocol for every endpoint number.         *)
LEMMA CompleteConfigurationKeeps == UsbInv /\ CompleteConfiguration => UsbInv'
<1> SUFFICES ASSUME UsbInv, CompleteConfiguration PROVE UsbInv'
  OBVIOUS
<1> DEFINE n == Numbers
           x == pipe'.write_index
<1>1. /\ er # <<>> /\ Head0.type = "CommandCompletion" /\ Pop
      /\ port_config_phase' = "Configured"
      /\ hid_phase' = IF class_drivers = {} THEN hid_phase ELSE 1
      /\ pipe' = SetProtocols(pipe, n)
      /\ UNCHANGED <<initialize_phase, contexts, ep_configs, class_drivers, class_driver, ep_interrupt_in,
                     readVars, deviceVars, polls, command>>
  BY DEF CompleteConfiguration, Handles, Numbers
<1>2. UsbTypeOK /\ AskInv /\ DriverInv /\ CommandInv /\ ProtocolInv /\ PollInv /\ WrongInv
  BY DEF UsbInv
<1>3. /\ er \in Seq(Event) /\ er' \in Seq(Event) /\ Head0 \in Event
      /\ Head0 \in Done <=> 1 \in Where(Done)
      /\ Single(Done) /\ Head0 \in Done => Where(Done)' = {}
      /\ Where(Data) = {} => Where(Data)' = {}
      /\ Where(Reply) = {} => Where(Reply)' = {}
  BY <1>1, <1>2, PopWhere DEF UsbTypeOK
<1>4. Head0 \in Done /\ Where(Done) # {}
  BY <1>1, <1>3 DEF Done
<1>5. /\ port_config_phase = "ConfiguringEndpoints" /\ ~command /\ Where(Done)' = {}
      /\ AskedFor(pipe, 0) /\ Where(Reply) = {}
  BY <1>2, <1>3, <1>4 DEF CommandInv
<1>6. initialize_phase = 4 /\ hid_phase = 0
  BY <1>2, <1>5 DEF UsbTypeOK, DriverInv, PollInv
<1>7. /\ n \in Nat \ {0} /\ 2 * n < Last /\ n <= MapSize /\ MapSize \in Nat
      /\ class_drivers \in SUBSET EndpointNumbers /\ Last \in Nat
  BY <1>2, <1>6, NumbersIs, SizeAssumption, LastType
<1>8. class_drivers # {}
  BY <1>7, FS_EmptySet DEF Numbers
<1>9. AskedFor(pipe', n)
  BY <1>1, <1>5, <1>7, SetProtocolsIs
<1>10. /\ hid_phase' = 1 /\ n' = n /\ Where(Reply)' = {} /\ Queued' = 2 * n
       /\ Where(Data)' = {} /\ polls = 0
  <2>1. Where(Data) = {} /\ polls = 0
    BY <1>2, <1>6 DEF PollInv
  <2>2. Queued' = 2 * n
    BY <1>9 DEF AskedFor, Queued
  <2> QED
    BY <1>1, <1>3, <1>5, <1>8, <2>1, <2>2 DEF Numbers
<1>11. UsbTypeOK'
  BY <1>1, <1>2, <1>3, <1>9, <1>10 DEF UsbTypeOK, deviceVars, AskedFor
<1>12. AskInv'
  BY <1>1, <1>6 DEF AskInv
<1>13. DriverInv'
  <2>1. Supported' = Supported /\ Device' = Device
    BY <1>1 DEF Supported, Device, deviceVars
  <2> QED
    BY <1>1, <1>2, <1>6, <2>1 DEF DriverInv, deviceVars
<1>14. CommandInv'
  BY <1>1, <1>5 DEF CommandInv, Single
<1>15. ProtocolInv'
  <2>1. \A m \in 0..(n - 1) : pipe'.setup_stage_map[n - m]
           = <<Back(x, 2 * m + 1), Back(x, 2 * m + 2)>>
    BY <1>9 DEF AskedFor
  <2>2. \A j \in 1..MapSize : pipe'.setup_stage_map[j] # Empty =>
           \E m \in 0..(n - 1) :
              /\ j = n - m
              /\ pipe'.setup_stage_map[j] = <<Back(x, 2 * m + 1), Back(x, 2 * m + 2)>>
    <3> SUFFICES ASSUME NEW j \in 1..MapSize, pipe'.setup_stage_map[j] # Empty
                 PROVE  \E m \in 0..(n - 1) :
                          /\ j = n - m
                          /\ pipe'.setup_stage_map[j]
                               = <<Back(x, 2 * m + 1), Back(x, 2 * m + 2)>>
      OBVIOUS
    <3>1. j <= n
      BY <1>7, <1>9 DEF AskedFor
    <3>2. n - j \in 0..(n - 1) /\ j = n - (n - j)
      BY <1>7, <3>1
    <3> QED
      BY <2>1, <3>2
  <2>3. \A m \in 0..(n - 1) : pipe'.setup_stage_map[n - m] # Empty
    <3>1. \A a, b : <<a, b>> # Empty
      BY DEF Empty
    <3> QED
      BY <2>1, <3>1
  <2>4. /\ \A m \in 0..(n - 1) : /\ Written(pipe', 2 * m + 1) = StatusStage(TRUE)
                                 /\ Written(pipe', 2 * m + 2) = SetupStage("SetProtocol")
        /\ Contains(pipe'.event_waiters, "SetProtocol")
    <3>1. n > 0
      BY <1>7
    <3> HIDE DEF n
    <3> QED
      BY <1>9, <3>1 DEF AskedFor
  <2>5. Queued' <= 2 * n
    BY <1>7, <1>10
  <2> QED
    BY <1>10, <2>2, <2>3, <2>4, <2>5 DEF ProtocolInv
<1>16. PollInv'
  <2>1. \A i \in DOMAIN er' : er'[i].ep \in {0, ep_interrupt_in}
    BY <1>1, <1>2, PopEnds
  <2>2. Where(Data) = {}
    BY <1>2, <1>6 DEF PollInv
  <2>3. UNCHANGED <<report_buf, report_len, previous_buf>>
    BY <1>1 DEF deviceVars, readVars
  <2> QED
    BY <1>1, <1>2, <1>10, <2>1, <2>2, <2>3 DEF PollInv, Single
<1>17. WrongInv'
  <2>1. Where(Failed)' # {} => Where(Failed) # {}
    BY <1>1, <1>2, PopEnds
  <2>2. Queued' > 0
    BY <1>7, <1>10
  <2> QED
    BY <1>1, <1>2, <1>6, <1>10, <2>1, <2>2 DEF WrongInv, deviceVars
<1> QED
  BY <1>11, <1>12, <1>13, <1>14, <1>15, <1>16, <1>17 DEF UsbInv

-----------------------------------------------------------------------------
(* The controller takes the oldest TRB of the control pipe.                *)

(* What the controller finds when it executes a stage.                     *)
LEMMA ExecuteIs ==
  ASSUME PipeOK(pipe), pipe.ep0 # <<>>, pipe' = [pipe EXCEPT !.ep0 = Tail(@)]
  PROVE  /\ PipeOK(pipe') /\ Queued \in Nat \ {0} /\ Queued < Last /\ Queued' = Queued - 1
         /\ Head(pipe.ep0) = Back(pipe.write_index, Queued) /\ Head(pipe.ep0) \in Positions
         /\ Current = Written(pipe, Queued)
         /\ pipe'.ring = pipe.ring /\ pipe'.write_index = pipe.write_index
         /\ pipe'.setup_stage_map = pipe.setup_stage_map
         /\ pipe'.event_waiters = pipe.event_waiters
         /\ \A k : Written(pipe', k) = Written(pipe, k)
<1> DEFINE s == pipe.ep0
           w == pipe.write_index
<1>1. pipe \in Pipe /\ s \in Seq(Positions) /\ Len(s) < Last /\ Last \in Nat
      /\ \A i \in 1..Len(s) : s[i] = Back(w, Len(s) - i + 1)
  BY LastType DEF PipeOK, Pipe, Queue
<1>2. /\ Tail(s) \in Seq(Positions) /\ Len(Tail(s)) = Len(s) - 1 /\ Len(s) \in Nat /\ Len(s) > 0
      /\ Head(s) = s[1] /\ \A i \in 1..(Len(s) - 1) : Tail(s)[i] = s[i + 1]
  BY <1>1, HeadTailProperties, EmptySeq
<1>3. /\ pipe'.ep0 = Tail(s)
      /\ pipe'.ring = pipe.ring /\ pipe'.write_index = w
      /\ pipe'.setup_stage_map = pipe.setup_stage_map
      /\ pipe'.event_waiters = pipe.event_waiters
  BY <1>1 DEF Pipe
<1>4. pipe' \in Pipe
  BY <1>1, <1>2 DEF Pipe
<1> HIDE DEF s
<1>5. \A i \in 1..(Len(s) - 1) : Tail(s)[i] = Back(w, (Len(s) - 1) - i + 1)
  <2> SUFFICES ASSUME NEW i \in 1..(Len(s) - 1)
               PROVE  Tail(s)[i] = Back(w, (Len(s) - 1) - i + 1)
    OBVIOUS
  <2>1. i + 1 \in 1..Len(s) /\ Len(s) - (i + 1) + 1 = (Len(s) - 1) - i + 1
    BY <1>2
  <2> QED
    BY <1>1, <1>2, <2>1
<1>6. PipeOK(pipe')
  BY <1>1, <1>2, <1>3, <1>4, <1>5 DEF PipeOK, Queue
<1>7. Queued = Len(s) /\ Queued' = Len(s) - 1
  BY <1>2, <1>3 DEF Queued, s
<1>8. Head(s) = Back(w, Len(s)) /\ Head(s) \in Positions
  <2>1. 1 \in 1..Len(s) /\ Len(s) - 1 + 1 = Len(s)
    BY <1>2
  <2> QED
    BY <1>1, <1>2, <2>1
<1>9. Current = Written(pipe, Queued)
  BY <1>7, <1>8 DEF Current, Written, s
<1>10. \A k : Written(pipe', k) = Written(pipe, k)
  BY <1>3 DEF Written
<1>11. /\ Queued \in Nat \ {0} /\ Queued < Last /\ Queued' = Queued - 1
       /\ Head(s) = Back(w, Queued)
  BY <1>1, <1>2, <1>7, <1>8
<1> QED
  BY <1>3, <1>6, <1>8, <1>9, <1>10, <1>11 DEF s

(* Which TRB that is up to phase 3.                                        *)
LEMMA EarlyStage ==
  ASSUME UsbTypeOK, AskInv, initialize_phase < 4, Queued # 0
  PROVE  /\ Queued \in Nat \ {0} /\ Age \in 1..2 /\ Queued <= Age + 2
         /\ Queued > Age + 1 => Queued = Age + 2 /\ Written(pipe, Queued) = StatusStage(FALSE)
         /\ Queued = Age + 1 => Written(pipe, Queued) = SetupStage(Asked)
         /\ Queued = Age => Written(pipe, Queued)
                              = IF Age = 2 THEN DataStage ELSE StatusStage(TRUE)
         /\ Queued < Age => Written(pipe, Queued) = StatusStage(FALSE)
         /\ Queued >= Age => Where(Reply) = {}
<1>1. Queued \in Nat \ {0} /\ Age \in 1..2
  BY DEF Queued, UsbTypeOK, PipeOK, Pipe, Age
<1>2. /\ Queued <= Age + 2
      /\ Queued = Age + 2 => Written(pipe, Age + 2) = StatusStage(FALSE)
      /\ Written(pipe, Age + 1) = SetupStage(Asked)
      /\ Written(pipe, Age) = IF Age = 2 THEN DataStage ELSE StatusStage(TRUE)
      /\ Age = 2 => Written(pipe, 1) = StatusStage(FALSE)
      /\ \A i \in Where(Reply) : Queued < Age
  BY DEF AskInv
<1>3. /\ Queued > Age + 1 => Queued = Age + 2
      /\ Queued < Age => Age = 2 /\ Queued = 1
      /\ Queued >= Age => ~(Queued < Age)
  BY <1>1, <1>2
<1> QED
  BY <1>1, <1>2, <1>3

(* Which TRB that is once the device is configured.                        *)
LEMMA LateStage ==
  ASSUME UsbTypeOK, DriverInv, ProtocolInv, port_config_phase = "Configured", Queued # 0
  PROVE  \/ \E m \in 0..(Numbers - 1) : /\ Queued = 2 * m + 1
                                        /\ Written(pipe, Queued) = StatusStage(TRUE)
         \/ \E m \in 0..(Numbers - 1) : /\ Queued = 2 * m + 2
                                        /\ Written(pipe, Queued) = SetupStage("SetProtocol")
<1>1. Queued \in Nat \ {0} /\ Queued <= 2 * Numbers
  BY DEF Queued, UsbTypeOK, PipeOK, Pipe, ProtocolInv
<1>2. Numbers \in Nat
  <2>1. initialize_phase = 4
    BY DEF UsbTypeOK, DriverInv
  <2> QED
    BY <2>1, NumbersIs
<1>3. \E m \in 0..(Numbers - 1) : Queued = 2 * m + 1 \/ Queued = 2 * m + 2
  <2>1. CASE Queued % 2 = 1
    <3>1. Queued \div 2 \in 0..(Numbers - 1) /\ Queued = 2 * (Queued \div 2) + 1
      BY <1>1, <1>2, <2>1
    <3> QED
      BY <3>1
  <2>2. CASE Queued % 2 = 0
    <3>1. (Queued \div 2) - 1 \in 0..(Numbers - 1) /\ Queued = 2 * ((Queued \div 2) - 1) + 2
      BY <1>1, <1>2, <2>2
    <3> QED
      BY <3>1
  <2>3. Queued % 2 = 0 \/ Queued % 2 = 1
    BY <1>1
  <2> QED
    BY <2>1, <2>2, <2>3
<1> QED
  BY <1>3 DEF ProtocolInv

(* A stage of the control pipe, up to phase 3.                             *)
LEMMA ExecuteEarly ==
  ASSUME UsbInv, Execute, initialize_phase < 4
  PROVE  /\ er' \in Seq(Event) /\ AskInv'
         /\ halted = {} /\ buf' # "other" /\ Supported # {} => Queued' >= Age \/ Where(Reply)' # {}
         /\ Moved(Data) /\ Moved(Done) /\ Where(Failed)' = Where(Failed)
         /\ \A i \in DOMAIN er' : er'[i].ep \in {0, ep_interrupt_in}
<1> DEFINE w == pipe.write_index
           e == TransferEvent(0, Head(pipe.ep0), TRUE)
<1>1. /\ pipe.ep0 # <<>> /\ 0 \notin halted
      /\ received' = IF Current.type = "Setup" THEN Current.request ELSE received
      /\ IF Current.type = "Data"
         THEN \/ buf' = Descriptor(received)
              \/ Faulty /\ buf' = "other"
         ELSE UNCHANGED buf
      /\ er' = IF Current.ioc THEN Append(er, e) ELSE er
      /\ pipe' = [pipe EXCEPT !.ep0 = Tail(@)]
      /\ UNCHANGED <<driverVars, halted>>
  BY DEF Execute
<1>2. UsbTypeOK /\ AskInv /\ PollInv /\ WrongInv
  BY DEF UsbInv
<1>3. /\ PipeOK(pipe') /\ Queued \in Nat \ {0} /\ Queued < Last /\ Queued' = Queued - 1
      /\ Head(pipe.ep0) = Back(w, Queued) /\ Head(pipe.ep0) \in Positions
      /\ Current = Written(pipe, Queued)
      /\ pipe'.write_index = w /\ pipe'.setup_stage_map = pipe.setup_stage_map
      /\ \A k : Written(pipe', k) = Written(pipe, k)
  BY <1>1, <1>2, ExecuteIs DEF UsbTypeOK
<1>4. /\ Age \in 1..2 /\ Queued <= Age + 2
      /\ Queued > Age + 1 => Queued = Age + 2 /\ Current = StatusStage(FALSE)
      /\ Queued = Age + 1 => Current = SetupStage(Asked)
      /\ Queued = Age => Current = IF Age = 2 THEN DataStage ELSE StatusStage(TRUE)
      /\ Queued < Age => Current = StatusStage(FALSE)
      /\ Queued >= Age => Where(Reply) = {}
  BY <1>2, <1>3, EarlyStage
<1>5. /\ Age' = Age /\ Asked' = Asked
      /\ Filed' = Filed
  BY <1>1, <1>3 DEF Age, Asked, Filed, driverVars
<1>6. /\ e \in Event /\ e \in Reply /\ e \notin Data /\ e \notin Done /\ e \notin Failed
      /\ e.ep = 0 /\ e.issuer = Head(pipe.ep0)
  BY <1>3 DEF TransferEvent, Event, Reply, Data, Done, Failed
<1> HIDE DEF e
<1>7. er \in Seq(Event) /\ \A i \in DOMAIN er : er[i].ep \in {0, ep_interrupt_in}
  BY <1>2 DEF UsbTypeOK, PollInv
<1>8. /\ Written(pipe, Age + 1) = SetupStage(Asked)
      /\ Written(pipe, Age) = IF Age = 2 THEN DataStage ELSE StatusStage(TRUE)
      /\ Age = 2 => Written(pipe, 1) = StatusStage(FALSE)
      /\ Single(Reply)
      /\ \A i \in Where(Reply) : er[i].issuer = Back(w, Age) /\ Queued < Age
      /\ pipe.setup_stage_map \in {EmptyTable(MapSize), Filed}
      /\ Queued >= Age \/ Where(Reply) # {} => pipe.setup_stage_map = Filed
      /\ Queued = Age => received = Asked
      /\ Age = 2 /\ Where(Reply) # {} => buf \in {Descriptor(Asked), "other"}
  BY <1>1, <1>2 DEF AskInv
<1>9. CASE Queued = Age
  <2>1. Current = (IF Age = 2 THEN DataStage ELSE StatusStage(TRUE)) /\ Where(Reply) = {}
    <3>1. Current = IF Age = 2 THEN DataStage ELSE StatusStage(TRUE)
      BY <1>4, <1>9, Zenon
    <3>2. Queued >= Age
      BY <1>4, <1>9
    <3> QED
      BY <1>4, <3>1, <3>2, Zenon
  <2>2. /\ Current.ioc /\ Current.type # "Setup"
        /\ Age = 2 => Current.type = "Data"
    BY <2>1 DEF DataStage, StatusStage
  <2>3. er' = Append(er, e) /\ received' = received
        /\ (Age = 2 => buf' \in {Descriptor(Asked), "other"})
    BY <1>1, <1>8, <1>9, <2>2
  <2>4. /\ er' \in Seq(Event) /\ Where(Reply)' = {Len(er) + 1} /\ er'[Len(er) + 1] = e
        /\ Where(Failed)' = Where(Failed)
    BY <1>6, <1>7, <2>1, <2>3, AppendWhere
  <2>5. Moved(Data) /\ Moved(Done)
    BY <1>6, <1>7, <2>3, AppendMoved
  <2>6. \A i \in DOMAIN er' : er'[i].ep \in {0, ep_interrupt_in}
    BY <1>2, <1>6, <2>3, AppendEnds
  <2>7. /\ Queued' <= Age + 2 /\ Queued' # Age + 2 /\ Queued' < Age /\ Queued' # Age
    BY <1>3, <1>4, <1>9
  <2>8. Single(Reply)' /\ Where(Reply)' # {}
    BY <2>4 DEF Single
  <2>9. \A i \in Where(Reply)' : er'[i].issuer = Back(w, Age)
    BY <1>3, <1>6, <1>9, <2>4
  <2>10. pipe'.setup_stage_map = Filed
    BY <1>3, <1>4, <1>8, <1>9
  <2>11. AskInv'
    BY <1>3, <1>5, <1>8, <2>3, <2>7, <2>8, <2>9, <2>10 DEF AskInv
  <2> QED
    BY <2>4, <2>5, <2>6, <2>8, <2>11
<1>10. CASE Queued # Age
  <2>1. /\ ~Current.ioc /\ Current.type # "Data"
        /\ Queued = Age + 1 => Current = SetupStage(Asked)
        /\ Queued # Age + 1 => Current.type # "Setup"
    <3>1. CASE Queued > Age + 1
      BY <1>4, <3>1 DEF StatusStage
    <3>2. CASE Queued = Age + 1
      BY <1>4, <3>2 DEF SetupStage
    <3>3. CASE Queued < Age
      BY <1>4, <3>3 DEF StatusStage
    <3>4. Queued > Age + 1 \/ Queued = Age + 1 \/ Queued < Age
      BY <1>3, <1>4, <1>10
    <3> QED
      BY <1>3, <1>4, <3>1, <3>2, <3>3, <3>4
  <2>2. er' = er /\ buf' = buf /\ (Queued = Age + 1 => received' = Asked)
    BY <1>1, <2>1 DEF SetupStage
  <2>3. /\ Where(Reply)' = Where(Reply) /\ Where(Failed)' = Where(Failed)
        /\ Where(Data)' = Where(Data) /\ Where(Done)' = Where(Done)
    BY <2>2 DEF Where
  <2>4. Moved(Data) /\ Moved(Done)
    <3>1. \A i \in DOMAIN er : i + 0 = i /\ i - 0 = i
      BY <1>7
    <3>2. /\ \A i \in Where(Data) : i \in DOMAIN er
          /\ \A i \in Where(Done) : i \in DOMAIN er
      BY DEF Where
    <3>3. /\ \A i \in Where(Data) : i + 0 = i /\ i - 0 = i
          /\ \A i \in Where(Done) : i + 0 = i /\ i - 0 = i
      BY <3>1, <3>2
    <3> QED
      BY <2>2, <2>3, <3>3 DEF Moved
  <2>5. /\ Queued' <= Age + 2 /\ Queued' # Age + 2 /\ (Queued' = Age => Queued = Age + 1)
        /\ (Queued' >= Age => Queued >= Age) /\ (Queued < Age => Queued' < Age)
        /\ (Queued >= Age => Queued' >= Age)
    BY <1>3, <1>4, <1>10
  <2>6. Single(Reply)'
    BY <1>8, <2>3 DEF Single
  <2>7. \A i \in Where(Reply)' : er'[i].issuer = Back(w, Age) /\ Queued' < Age
    BY <1>8, <2>2, <2>3, <2>5
  <2>8. AskInv'
    BY <1>3, <1>5, <1>8, <2>2, <2>3, <2>5, <2>6, <2>7 DEF AskInv
  <2>9. halted = {} /\ buf' # "other" /\ Supported # {} => Queued' >= Age \/ Where(Reply)' # {}
    BY <1>2, <2>2, <2>3, <2>5 DEF WrongInv
  <2> QED
    BY <1>7, <2>2, <2>3, <2>4, <2>8, <2>9
<1> QED
  BY <1>9, <1>10

(* A stage of the control pipe once the device is configured.              *)
LEMMA ExecuteLate ==
  ASSUME UsbInv, Execute, port_config_phase = "Configured"
  PROVE  /\ er' \in Seq(Event) /\ ProtocolInv' /\ UNCHANGED buf
         /\ hid_phase = 1 => Queued' > 0 \/ Where(Reply)' # {}
         /\ Moved(Data) /\ Moved(Done) /\ Where(Failed)' = Where(Failed)
         /\ \A i \in DOMAIN er' : er'[i].ep \in {0, ep_interrupt_in}
<1> DEFINE w == pipe.write_index
           e == TransferEvent(0, Head(pipe.ep0), TRUE)
           n == Numbers
<1>1. /\ pipe.ep0 # <<>> /\ 0 \notin halted
      /\ IF Current.type = "Data"
         THEN \/ buf' = Descriptor(received)
              \/ Faulty /\ buf' = "other"
         ELSE UNCHANGED buf
      /\ er' = IF Current.ioc THEN Append(er, e) ELSE er
      /\ pipe' = [pipe EXCEPT !.ep0 = Tail(@)]
      /\ UNCHANGED <<driverVars, halted>>
  BY DEF Execute
<1>2. UsbTypeOK /\ DriverInv /\ ProtocolInv /\ PollInv
  BY DEF UsbInv
<1>3. /\ PipeOK(pipe') /\ Queued \in Nat \ {0} /\ Queued < Last /\ Queued' = Queued - 1
      /\ Head(pipe.ep0) = Back(w, Queued) /\ Head(pipe.ep0) \in Positions
      /\ Current = Written(pipe, Queued)
      /\ pipe'.write_index = w /\ pipe'.setup_stage_map = pipe.setup_stage_map
      /\ pipe'.event_waiters = pipe.event_waiters
      /\ \A k : Written(pipe', k) = Written(pipe, k)
  BY <1>1, <1>2, ExecuteIs DEF UsbTypeOK
<1>4. \/ \E m \in 0..(n - 1) : /\ Queued = 2 * m + 1
                               /\ Current = StatusStage(TRUE)
      \/ \E m \in 0..(n - 1) : /\ Queued = 2 * m + 2
                               /\ Current = SetupStage("SetProtocol")
  BY <1>2, <1>3, LateStage
<1>5. n' = n /\ port_config_phase' = port_config_phase
  BY <1>1 DEF Numbers, driverVars
<1>6. /\ e \in Event /\ e \in Reply /\ e \notin Data /\ e \notin Done /\ e \notin Failed
      /\ e.ep = 0 /\ e.issuer = Back(w, Queued)
  BY <1>3 DEF TransferEvent, Event, Reply, Data, Done, Failed
<1> HIDE DEF e
<1>7. er \in Seq(Event) /\ \A i \in DOMAIN er : er[i].ep \in {0, ep_interrupt_in}
  BY <1>2 DEF UsbTypeOK, PollInv
<1>8. /\ Queued <= 2 * n
      /\ \A m \in 0..(n - 1) :
           /\ Written(pipe, 2 * m + 1) = StatusStage(TRUE)
           /\ Written(pipe, 2 * m + 2) = SetupStage("SetProtocol")
      /\ \A j \in 1..MapSize : pipe.setup_stage_map[j] # Empty =>
           \E m \in 0..(n - 1) :
              /\ j = n - m
              /\ pipe.setup_stage_map[j] = <<Back(w, 2 * m + 1), Back(w, 2 * m + 2)>>
      /\ \A m \in 0..(n - 1) :
           \/ 2 * m + 1 <= Queued
           \/ \E i \in Where(Reply) : er[i].issuer = Back(w, 2 * m + 1)
           => pipe.setup_stage_map[n - m] # Empty
      /\ \A i \in Where(Reply) : \E m \in 0..(n - 1) :
           er[i].issuer = Back(w, 2 * m + 1) /\ Queued < 2 * m + 1
      /\ \A i, j \in Where(Reply) : er[i].issuer = er[j].issuer => i = j
      /\ Contains(pipe.event_waiters, "SetProtocol")
  BY <1>2 DEF ProtocolInv
<1>9. n \in Nat /\ 2 * n < Last /\ w \in Positions /\ Last \in Nat
  <2>1. initialize_phase = 4
    BY <1>2 DEF UsbTypeOK, DriverInv
  <2> QED
    BY <1>2, <2>1, NumbersIs, LastType DEF UsbTypeOK, PipeOK, Pipe
<1> HIDE DEF n
<1>10. CASE \E m \in 0..(n - 1) : Queued = 2 * m + 1 /\ Current = StatusStage(TRUE)
  <2> PICK m \in 0..(n - 1) : Queued = 2 * m + 1 /\ Current = StatusStage(TRUE)
    BY <1>10
  <2>1. er' = Append(er, e) /\ buf' = buf
    BY <1>1 DEF StatusStage
  <2>2. /\ er' \in Seq(Event) /\ Where(Reply)' = Where(Reply) \cup {Len(er) + 1}
        /\ er'[Len(er) + 1] = e /\ Where(Failed)' = Where(Failed)
        /\ \A i \in Where(Reply) : er'[i] = er[i]
    BY <1>6, <1>7, <2>1, AppendWhere
  <2>3. Moved(Data) /\ Moved(Done)
    BY <1>6, <1>7, <2>1, AppendMoved
  <2>4. \A i \in DOMAIN er' : er'[i].ep \in {0, ep_interrupt_in}
    BY <1>2, <1>6, <2>1, AppendEnds
  <2>5. \A l \in 0..(n - 1) : Queued < 2 * l + 1 => Back(w, 2 * l + 1) # Back(w, 2 * m + 1)
    <3> SUFFICES ASSUME NEW l \in 0..(n - 1), Queued < 2 * l + 1
                 PROVE  Back(w, 2 * l + 1) # Back(w, 2 * m + 1)
      OBVIOUS
    <3> DEFINE k == 2 * l + 1
               j == 2 * m + 1
    <3>1. k \in 1..Last /\ j \in 1..Last /\ k # j
      BY <1>9
    <3> HIDE DEF k, j
    <3>2. Back(w, k) # Back(w, j)
      BY <1>9, <3>1, BackIs
    <3> QED
      BY <3>2 DEF k, j
  <2>6. \A i \in Where(Reply) : er[i].issuer # e.issuer
    BY <1>6, <1>8, <2>5
  <2>7. \A i, j \in Where(Reply)' : er'[i].issuer = er'[j].issuer => i = j
    BY <1>8, <2>2, <2>6
  <2>8. Queued' <= 2 * n /\ Queued' < 2 * m + 1
        /\ \A l \in 0..(n - 1) : /\ 2 * l + 1 <= Queued' => 2 * l + 1 <= Queued
                                 /\ Queued < 2 * l + 1 => Queued' < 2 * l + 1
    BY <1>3, <1>8, <1>9
  <2>9. \A i \in Where(Reply)' : \E l \in 0..(n - 1) :
           er'[i].issuer = Back(w, 2 * l + 1) /\ Queued' < 2 * l + 1
    BY <1>6, <1>8, <2>2, <2>8
  <2>10. ASSUME NEW l \in 0..(n - 1),
                \/ 2 * l + 1 <= Queued'
                \/ \E i \in Where(Reply)' : er'[i].issuer = Back(w, 2 * l + 1)
         PROVE  pipe.setup_stage_map[n - l] # Empty
    <3>1. CASE 2 * l + 1 <= Queued'
      BY <1>8, <2>8, <3>1
    <3>2. CASE \E i \in Where(Reply) : er'[i].issuer = Back(w, 2 * l + 1)
      BY <1>8, <2>2, <3>2
    <3>3. CASE e.issuer = Back(w, 2 * l + 1)
      <4> DEFINE k == 2 * l + 1
                 j == 2 * m + 1
      <4>1. k \in 1..Last /\ j \in 1..Last /\ Back(w, j) = Back(w, k)
        BY <1>6, <1>9, <3>3
      <4> HIDE DEF k, j
      <4>2. k = j
        BY <1>9, <4>1, BackIs
      <4>3. 2 * l + 1 <= Queued
        BY <1>9, <4>2 DEF k, j
      <4> QED
        BY <1>8, <4>3
    <3> QED
      BY <2>2, <2>10, <3>1, <3>2, <3>3
  <2>11. ProtocolInv'
    <3>1. /\ \A l \in 0..(n - 1) :
               /\ Written(pipe', 2 * l + 1) = StatusStage(TRUE)
               /\ Written(pipe', 2 * l + 2) = SetupStage("SetProtocol")
          /\ Contains(pipe'.event_waiters, "SetProtocol")
      BY <1>3, <1>8
    <3>2. \A j \in 1..MapSize : pipe'.setup_stage_map[j] # Empty =>
             \E l \in 0..(n - 1) :
                /\ j = n - l
                /\ pipe'.setup_stage_map[j] = <<Back(w, 2 * l + 1), Back(w, 2 * l + 2)>>
      BY <1>3, <1>8
    <3>3. \A l \in 0..(n - 1) :
             \/ 2 * l + 1 <= Queued'
             \/ \E i \in Where(Reply)' : er'[i].issuer = Back(w, 2 * l + 1)
             => pipe'.setup_stage_map[n - l] # Empty
      BY <1>3, <2>10
    <3> QED
      BY <1>3, <1>5, <2>7, <2>8, <2>9, <3>1, <3>2, <3>3 DEF ProtocolInv, n
  <2> QED
    BY <2>1, <2>2, <2>3, <2>4, <2>11
<1>11. CASE \E m \in 0..(n - 1) : Queued = 2 * m + 2 /\ Current = SetupStage("SetProtocol")
  <2> PICK m \in 0..(n - 1) : Queued = 2 * m + 2 /\ Current = SetupStage("SetProtocol")
    BY <1>11
  <2>1. er' = er /\ buf' = buf
    BY <1>1 DEF SetupStage
  <2>2. /\ Where(Reply)' = Where(Reply) /\ Where(Failed)' = Where(Failed)
        /\ Where(Data)' = Where(Data) /\ Where(Done)' = Where(Done)
    BY <2>1 DEF Where
  <2>3. Moved(Data) /\ Moved(Done)
    <3>1. \A i \in DOMAIN er : i + 0 = i /\ i - 0 = i
      BY <1>7
    <3>2. /\ \A i \in Where(Data) : i \in DOMAIN er
          /\ \A i \in Where(Done) : i \in DOMAIN er
      BY DEF Where
    <3>3. /\ \A i \in Where(Data) : i + 0 = i /\ i - 0 = i
          /\ \A i \in Where(Done) : i + 0 = i /\ i - 0 = i
      BY <3>1, <3>2
    <3> QED
      BY <2>1, <2>2, <3>3 DEF Moved
  <2>4. Queued' <= 2 * n /\ Queued' > 0
        /\ \A l \in 0..(n - 1) : /\ 2 * l + 1 <= Queued' => 2 * l + 1 <= Queued
                                 /\ Queued < 2 * l + 1 => Queued' < 2 * l + 1
    BY <1>3, <1>8, <1>9
  <2>5. \A l \in 0..(n - 1) :
           \/ 2 * l + 1 <= Queued'
           \/ \E i \in Where(Reply)' : er'[i].issuer = Back(w, 2 * l + 1)
           => pipe.setup_stage_map[n - l] # Empty
    BY <1>8, <2>1, <2>2, <2>4
  <2>6. /\ \A i \in Where(Reply)' : \E l \in 0..(n - 1) :
             er'[i].issuer = Back(w, 2 * l + 1) /\ Queued' < 2 * l + 1
        /\ \A i, j \in Where(Reply)' : er'[i].issuer = er'[j].issuer => i = j
    BY <1>8, <2>1, <2>2, <2>4
  <2>7. ProtocolInv'
    <3>1. /\ \A l \in 0..(n - 1) :
               /\ Written(pipe', 2 * l + 1) = StatusStage(TRUE)
               /\ Written(pipe', 2 * l + 2) = SetupStage("SetProtocol")
          /\ Contains(pipe'.event_waiters, "SetProtocol")
      BY <1>3, <1>8
    <3>2. \A j \in 1..MapSize : pipe'.setup_stage_map[j] # Empty =>
             \E l \in 0..(n - 1) :
                /\ j = n - l
                /\ pipe'.setup_stage_map[j] = <<Back(w, 2 * l + 1), Back(w, 2 * l + 2)>>
      BY <1>3, <1>8
    <3>3. \A l \in 0..(n - 1) :
             \/ 2 * l + 1 <= Queued'
             \/ \E i \in Where(Reply)' : er'[i].issuer = Back(w, 2 * l + 1)
             => pipe'.setup_stage_map[n - l] # Empty
      BY <1>3, <2>5
    <3> QED
      BY <1>3, <1>5, <2>4, <2>6, <3>1, <3>2, <3>3 DEF ProtocolInv, n
  <2> QED
    BY <1>7, <2>1, <2>2, <2>3, <2>4, <2>7
<1> QED
  BY <1>4, <1>10, <1>11 DEF n

(* Execute, before and after the endpoints are configured.                 *)
LEMMA ExecuteKeeps == UsbInv /\ Execute => UsbInv'
<1> SUFFICES ASSUME UsbInv, Execute PROVE UsbInv'
  OBVIOUS
<1>1. /\ pipe.ep0 # <<>>
      /\ pipe' = [pipe EXCEPT !.ep0 = Tail(@)]
      /\ UNCHANGED <<driverVars, configuration, speed, report_buf, report_len, polls, halted, command>>
  BY DEF Execute
<1>2. UsbTypeOK /\ AskInv /\ DriverInv /\ CommandInv /\ ProtocolInv /\ PollInv /\ WrongInv
  BY DEF UsbInv
<1>3. PipeOK(pipe') /\ Queued \in Nat \ {0}
  BY <1>1, <1>2, ExecuteIs DEF UsbTypeOK
<1>4. initialize_phase < 4 \/ port_config_phase = "Configured"
  <2>1. port_config_phase # "ConfiguringEndpoints"
    BY <1>2, <1>3 DEF CommandInv, AskedFor, Queued
  <2> QED
    BY <1>2, <2>1 DEF UsbTypeOK, DriverInv
<1>5. /\ initialize_phase < 4 => port_config_phase = "InitializingDevice" /\ hid_phase = 0
      /\ port_config_phase = "Configured" => ~(initialize_phase < 4)
  BY <1>2 DEF DriverInv, PollInv
<1>6. /\ er' \in Seq(Event)
      /\ Moved(Data) /\ Moved(Done) /\ Where(Failed)' = Where(Failed)
      /\ \A i \in DOMAIN er' : er'[i].ep \in {0, ep_interrupt_in}
  BY <1>4, ExecuteEarly, ExecuteLate
<1>7. /\ Where(Done)' = {} <=> Where(Done) = {}
      /\ Single(Done) => Single(Done)'
      /\ Where(Data)' = {} <=> Where(Data) = {}
  BY <1>2, <1>6, MovedIs DEF UsbTypeOK
<1>8. /\ UNCHANGED <<initialize_phase, ep_configs, class_drivers, class_driver,
                     port_config_phase, contexts, ep_interrupt_in, hid_phase, previous_buf>>
      /\ Supported' = Supported /\ Age' = Age
  BY <1>1 DEF driverVars, readVars, Supported, Age
<1>9. UsbTypeOK'
  BY <1>1, <1>2, <1>3, <1>6, <1>8 DEF UsbTypeOK
<1>10. AskInv'
  <2>1. CASE initialize_phase < 4
    BY <2>1, ExecuteEarly
  <2>2. CASE port_config_phase = "Configured"
    BY <1>5, <1>8, <2>2 DEF AskInv
  <2> QED
    BY <1>4, <2>1, <2>2
<1>11. DriverInv'
  BY <1>1, <1>2, <1>8, DriverKept
<1>12. CommandInv'
  <2>1. port_config_phase # "ConfiguringEndpoints"
    BY <1>4, <1>5
  <2> QED
    BY <1>1, <1>2, <1>7, <1>8, <2>1 DEF CommandInv
<1>13. ProtocolInv'
  <2>1. CASE port_config_phase = "Configured"
    BY <2>1, ExecuteLate
  <2>2. CASE port_config_phase # "Configured"
    BY <1>8, <2>2 DEF ProtocolInv
  <2> QED
    BY <2>1, <2>2
<1>14. PollInv'
  <2>1. hid_phase = 0 <=> port_config_phase # "Configured"
    BY <1>2 DEF PollInv
  <2> QED
    BY <1>1, <1>2, <1>6, <1>8, <2>1, PollKept
<1>15. WrongInv'
  <2>1. CASE initialize_phase < 4
    <3>1. halted = {} /\ buf' # "other" /\ Supported # {} => Queued' >= Age \/ Where(Reply)' # {}
      BY <2>1, ExecuteEarly
    <3> QED
      BY <1>1, <1>2, <1>5, <1>6, <1>8, <2>1, <3>1 DEF WrongInv
  <2>2. CASE port_config_phase = "Configured"
    <3>1. buf' = buf /\ (hid_phase = 1 => Queued' > 0 \/ Where(Reply)' # {})
      BY <2>2, ExecuteLate
    <3> QED
      BY <1>1, <1>2, <1>5, <1>6, <1>7, <1>8, <2>2, <3>1 DEF WrongInv
  <2> QED
    BY <1>4, <2>1, <2>2
<1> QED
  BY <1>9, <1>10, <1>11, <1>12, <1>13, <1>14, <1>15 DEF UsbInv

(* ExecuteFails: the control pipe is halted and nothing else happens.      *)
LEMMA ExecuteFailsKeeps == UsbInv /\ ExecuteFails => UsbInv'
<1> SUFFICES ASSUME UsbInv, ExecuteFails PROVE UsbInv'
  OBVIOUS
<1> DEFINE e == TransferEvent(0, Head(pipe.ep0), FALSE)
           w == pipe.write_index
           n == Numbers
<1>1. /\ pipe.ep0 # <<>>
      /\ halted' = halted \cup {0}
      /\ er' = Append(er, e)
      /\ pipe' = [pipe EXCEPT !.ep0 = Tail(@)]
      /\ UNCHANGED <<driverVars, configuration, speed, received, buf, report_buf, report_len, polls,
                     command>>
  BY DEF ExecuteFails
<1>2. UsbTypeOK /\ AskInv /\ DriverInv /\ CommandInv /\ ProtocolInv /\ PollInv
  BY DEF UsbInv
<1>3. /\ PipeOK(pipe') /\ Queued \in Nat \ {0} /\ Queued' = Queued - 1
      /\ Head(pipe.ep0) \in Positions
      /\ pipe'.write_index = w /\ pipe'.setup_stage_map = pipe.setup_stage_map
      /\ pipe'.event_waiters = pipe.event_waiters
      /\ \A k : Written(pipe', k) = Written(pipe, k)
  BY <1>1, <1>2, ExecuteIs DEF UsbTypeOK
<1>4. port_config_phase # "ConfiguringEndpoints"
  BY <1>2, <1>3 DEF CommandInv, AskedFor, Queued
<1>5. /\ e \in Event /\ e \notin Reply /\ e \notin Data /\ e \notin Done /\ e.ep = 0
  BY <1>3 DEF TransferEvent, Event, Reply, Data, Done
<1> HIDE DEF e
<1>6. /\ er \in Seq(Event) /\ er' \in Seq(Event)
      /\ \A i \in DOMAIN er : er'[i] = er[i]
      /\ Where(Reply)' = Where(Reply) /\ Where(Data)' = Where(Data) /\ Where(Done)' = Where(Done)
  BY <1>1, <1>2, <1>5, AppendWhere DEF UsbTypeOK
<1>7. Moved(Data) /\ Moved(Done)
  BY <1>1, <1>5, <1>6, AppendMoved
<1>8. /\ UNCHANGED <<initialize_phase, ep_configs, class_drivers, class_driver,
                     port_config_phase, contexts, ep_interrupt_in, hid_phase, previous_buf>>
      /\ Age' = Age /\ Asked' = Asked /\ Filed' = Filed /\ n' = n
  BY <1>1, <1>3 DEF driverVars, readVars, Age, Asked, Filed, Numbers
<1>9. \A i \in Where(Reply) : er'[i] = er[i]
  BY <1>6 DEF Where
<1>10. UsbTypeOK'
  BY <1>1, <1>2, <1>3, <1>6, <1>8 DEF UsbTypeOK
<1>11. AskInv'
  <2> SUFFICES ASSUME initialize_phase < 4 PROVE AskInv'
    BY <1>8 DEF AskInv
  <2>1. /\ Queued <= Age + 2 /\ Age \in 1..2
        /\ Written(pipe, Age + 1) = SetupStage(Asked)
        /\ Written(pipe, Age) = IF Age = 2 THEN DataStage ELSE StatusStage(TRUE)
        /\ Age = 2 => Written(pipe, 1) = StatusStage(FALSE)
        /\ Single(Reply)
        /\ \A i \in Where(Reply) : er[i].issuer = Back(w, Age) /\ Queued < Age
        /\ pipe.setup_stage_map \in {EmptyTable(MapSize), Filed}
        /\ Queued >= Age \/ Where(Reply) # {} => pipe.setup_stage_map = Filed
        /\ Age = 2 /\ Where(Reply) # {} => buf \in {Descriptor(Asked), "other"}
    <3>1. Age \in 1..2
      BY DEF Age
    <3> QED
      BY <1>2, <3>1 DEF AskInv
  <2>2. /\ Queued' <= Age + 2 /\ Queued' # Age + 2 /\ (Queued' >= Age => Queued >= Age)
        /\ (Queued < Age => Queued' < Age)
    BY <1>3, <2>1
  <2>3. \A i \in Where(Reply)' : er'[i].issuer = Back(w, Age) /\ Queued' < Age
    BY <1>6, <1>9, <2>1, <2>2
  <2>4. Single(Reply)' /\ 0 \in halted' /\ buf' = buf
    BY <1>1, <1>6, <2>1 DEF Single
  <2> QED
    BY <1>3, <1>6, <1>8, <2>1, <2>2, <2>3, <2>4 DEF AskInv
<1>12. DriverInv'
  BY <1>1, <1>2, <1>8, DriverKept
<1>13. CommandInv'
  BY <1>1, <1>2, <1>4, <1>6, <1>8 DEF CommandInv, Single
<1>14. ProtocolInv'
  <2> SUFFICES ASSUME port_config_phase = "Configured" PROVE ProtocolInv'
    BY <1>8 DEF ProtocolInv
  <2>1. n \in Nat
    <3>1. initialize_phase = 4
      BY <1>2 DEF UsbTypeOK, DriverInv
    <3> QED
      BY <1>2, <3>1, NumbersIs
  <2>2. Queued <= 2 * n
    BY <1>2 DEF ProtocolInv
  <2> HIDE DEF n
  <2>3. /\ Queued' <= 2 * n
        /\ \A l \in 0..(n - 1) : /\ 2 * l + 1 <= Queued' => 2 * l + 1 <= Queued
                                 /\ Queued < 2 * l + 1 => Queued' < 2 * l + 1
    BY <1>3, <2>1, <2>2
  <2>4. /\ \A l \in 0..(n - 1) :
             /\ Written(pipe', 2 * l + 1) = StatusStage(TRUE)
             /\ Written(pipe', 2 * l + 2) = SetupStage("SetProtocol")
        /\ Contains(pipe'.event_waiters, "SetProtocol")
    BY <1>2, <1>3 DEF ProtocolInv, n
  <2>5. \A j \in 1..MapSize : pipe'.setup_stage_map[j] # Empty =>
           \E l \in 0..(n - 1) :
              /\ j = n - l
              /\ pipe'.setup_stage_map[j] = <<Back(w, 2 * l + 1), Back(w, 2 * l + 2)>>
    BY <1>2, <1>3 DEF ProtocolInv, n
  <2>6. \A l \in 0..(n - 1) :
           \/ 2 * l + 1 <= Queued
           \/ \E i \in Where(Reply) : er[i].issuer = Back(w, 2 * l + 1)
           => pipe.setup_stage_map[n - l] # Empty
    BY <1>2 DEF ProtocolInv, n
  <2>7. \A l \in 0..(n - 1) :
           \/ 2 * l + 1 <= Queued'
           \/ \E i \in Where(Reply)' : er'[i].issuer = Back(w, 2 * l + 1)
           => pipe'.setup_stage_map[n - l] # Empty
    BY <1>3, <1>6, <1>9, <2>3, <2>6
  <2>8. \A i \in Where(Reply) : \E l \in 0..(n - 1) :
           er[i].issuer = Back(w, 2 * l + 1) /\ Queued < 2 * l + 1
    BY <1>2 DEF ProtocolInv, n
  <2>9. \A i \in Where(Reply)' : \E l \in 0..(n - 1) :
           er'[i].issuer = Back(w, 2 * l + 1) /\ Queued' < 2 * l + 1
    BY <1>6, <1>9, <2>3, <2>8
  <2>10. \A i, j \in Where(Reply)' : er'[i].issuer = er'[j].issuer => i = j
    BY <1>2, <1>6, <1>9 DEF ProtocolInv
  <2> QED
    BY <1>3, <1>8, <2>3, <2>4, <2>5, <2>7, <2>9, <2>10 DEF ProtocolInv, n
<1>15. PollInv'
  <2>1. hid_phase = 0 <=> port_config_phase # "Configured"
    BY <1>2 DEF PollInv
  <2>2. \A i \in DOMAIN er' : er'[i].ep \in {0, ep_interrupt_in}
    BY <1>1, <1>2, <1>5, AppendEnds
  <2> QED
    BY <1>1, <1>2, <1>6, <1>7, <1>8, <2>1, <2>2, PollKept
<1>16. WrongInv'
  BY <1>1 DEF WrongInv
<1> QED
  BY <1>10, <1>11, <1>12, <1>13, <1>14, <1>15, <1>16 DEF UsbInv

-----------------------------------------------------------------------------
(* Every step.                                                             *)

(* Every step keeps the invariant.                                         *)
LEMMA UsbInvStep == UsbInv /\ [Next]_vars => UsbInv'
<1>1. UsbInv /\ UNCHANGED vars => UsbInv'
  <2> SUFFICES ASSUME UsbInv, UNCHANGED vars PROVE UsbInv'
    OBVIOUS
  <2>1. UsbTypeOK /\ AskInv /\ DriverInv /\ CommandInv /\ ProtocolInv /\ PollInv /\ WrongInv
    BY DEF UsbInv
  <2>2. UNCHANGED <<initialize_phase, ep_configs, class_drivers, class_driver,
                    port_config_phase, pipe, hid_phase, ep_interrupt_in, previous_buf,
                    configuration, speed, contexts, received, buf, report_buf, report_len,
                    polls, halted, command, er>>
    BY DEF vars, driverVars, deviceVars, readVars
  <2>3. /\ Where(Reply)' = Where(Reply) /\ Where(Data)' = Where(Data)
        /\ Where(Done)' = Where(Done) /\ Where(Failed)' = Where(Failed)
        /\ Single(Reply)' = Single(Reply) /\ Single(Data)' = Single(Data)
        /\ Single(Done)' = Single(Done)
    BY <2>2 DEF Where, Single
  <2>4. /\ Age' = Age /\ Asked' = Asked /\ Queued' = Queued /\ Filed' = Filed
        /\ Numbers' = Numbers /\ Supported' = Supported
    BY <2>2 DEF Age, Asked, Queued, Filed, Numbers, Supported
  <2>5. UsbTypeOK'
    BY <2>1, <2>2 DEF UsbTypeOK
  <2>6. DriverInv'
    BY <2>1, <2>2, DriverKept
  <2>7. AskInv'
    BY <2>1, <2>2, <2>3, <2>4 DEF AskInv
  <2>8. CommandInv'
    BY <2>1, <2>2, <2>3 DEF CommandInv
  <2>9. ProtocolInv'
    BY <2>1, <2>2, <2>3, <2>4 DEF ProtocolInv
  <2>10. PollInv' /\ WrongInv'
    BY <2>1, <2>2, <2>3, <2>4 DEF PollInv, WrongInv
  <2> QED
    BY <2>5, <2>6, <2>7, <2>8, <2>9, <2>10 DEF UsbInv
<1>2. UsbInv /\ Next => UsbInv'
  BY TransferFailedKeeps, OnInterruptCompletedKeeps, InitializePhase1Keeps,
     InitializePhase2Keeps, InitializePhase3Keeps, HIDOnControlCompletedKeeps,
     AnswerRefusedKeeps, CompleteConfigurationKeeps, ExecuteKeeps, ExecuteFailsKeeps,
     ReportKeeps, ReportFailsKeeps, ExecuteCommandKeeps
  DEF Next, Driver, Environment
<1> QED
  BY <1>1, <1>2

(* The invariant holds in every state of UsbDevice.                        *)
LEMMA UsbInvAlways == Spec => []UsbInv
BY UsbInvInit, UsbInvStep, PTL DEF Spec

-----------------------------------------------------------------------------
(* What follows from it.                                                   *)

(* An entry of the map, once the device is configured.                     *)
LEMMA EntryIs ==
  ASSUME UsbTypeOK, DriverInv, ProtocolInv, port_config_phase = "Configured",
         NEW m \in 0..(Numbers - 1), pipe.setup_stage_map[Numbers - m] # Empty
  PROVE  LET t == pipe.setup_stage_map
             w == pipe.write_index
         IN  /\ Contains(t, Back(w, 2 * m + 1)) /\ Get(t, Back(w, 2 * m + 1)) = Back(w, 2 * m + 2)
             /\ Written(pipe, 2 * m + 1) = StatusStage(TRUE)
             /\ Written(pipe, 2 * m + 2) = SetupStage("SetProtocol")
<1> DEFINE t == pipe.setup_stage_map
           w == pipe.write_index
           n == Numbers
           i == n - m
           key == Back(w, 2 * m + 1)
           value == Back(w, 2 * m + 2)
<1>0. /\ n \in Nat \ {0} /\ 2 * n < Last /\ n <= MapSize /\ Last \in Nat
      /\ MapSize \in Nat /\ w \in Positions /\ DOMAIN t = 1..MapSize
  <2>1. initialize_phase = 4
    BY DEF UsbTypeOK, DriverInv
  <2> QED
    BY <2>1, NumbersIs, LastType, SizeAssumption DEF UsbTypeOK, PipeOK, Pipe
<1>1. i \in 1..MapSize
  BY <1>0
<1>2. PICK l \in 0..(n - 1) : i = n - l
                              /\ t[i] = <<Back(w, 2 * l + 1), Back(w, 2 * l + 2)>>
  BY <1>1 DEF ProtocolInv
<1>3. l = m
  BY <1>0, <1>2
<1>4. \A j \in 1..MapSize : HasKey(t[j], key) => j = i
  <2> SUFFICES ASSUME NEW j \in 1..MapSize, HasKey(t[j], key)
               PROVE  j = i
    OBVIOUS
  <2>1. PICK k \in 0..(n - 1) : j = n - k
                                /\ t[j] = <<Back(w, 2 * k + 1), Back(w, 2 * k + 2)>>
    BY DEF ProtocolInv, HasKey
  <2>2. Back(w, 2 * k + 1) = Back(w, 2 * m + 1)
    BY <2>1 DEF HasKey
  <2>3. 2 * k + 1 \in 1..Last /\ 2 * m + 1 \in 1..Last
    BY <1>0
  <2>4. 2 * k + 1 = 2 * m + 1
    BY <1>0, <2>2, <2>3, BackIs
  <2> QED
    BY <1>0, <2>1, <2>4
<1>5. t[i] = <<key, value>>
  BY <1>2, <1>3
<1>6. MapSize \in Nat /\ DOMAIN t = 1..MapSize
  BY <1>0
<1> HIDE DEF t, i, key, value
<1>7. Contains(t, key) /\ Get(t, key) = value
  BY <1>1, <1>4, <1>5, <1>6, OneSlotIs
<1>8. /\ Written(pipe, 2 * m + 1) = StatusStage(TRUE)
      /\ Written(pipe, 2 * m + 2) = SetupStage("SetProtocol")
  BY DEF ProtocolInv
<1> QED
  BY <1>7, <1>8 DEF t, key, value

(* The control requests on their way, by where they were written.          *)
LEMMA OnTheWayIs ==
  ASSUME UsbInv
  PROVE  /\ initialize_phase < 4 => \A pos \in OnTheWay :
              pos = Back(pipe.write_index, Age) /\ pipe.setup_stage_map = Filed
         /\ port_config_phase = "ConfiguringEndpoints" => OnTheWay = {}
         /\ port_config_phase = "Configured" => \A pos \in OnTheWay :
              \E m \in 0..(Numbers - 1) : /\ pos = Back(pipe.write_index, 2 * m + 1)
                                          /\ pipe.setup_stage_map[Numbers - m] # Empty
         /\ InEvents \cap Positions0(pipe.ep0) = {}
<1> DEFINE w == pipe.write_index
<1>1. UsbTypeOK /\ AskInv /\ DriverInv /\ CommandInv /\ ProtocolInv
  BY DEF UsbInv
<1>2. InEvents = {er[i].issuer : i \in Where(Reply)}
  BY <1>1, UnreadIs DEF UsbTypeOK
<1>3. \A pos \in Positions0(pipe.ep0) : \E k \in 1..Queued : pos = Back(w, k)
  <2> SUFFICES ASSUME NEW i \in DOMAIN pipe.ep0
               PROVE  \E k \in 1..Queued : pipe.ep0[i] = Back(w, k)
    BY DEF Positions0
  <2>1. /\ DOMAIN pipe.ep0 = 1..Queued /\ Queued \in Nat
        /\ pipe.ep0[i] = Back(w, Queued - i + 1)
    <3> DEFINE s == pipe.ep0
    <3>1. s \in Seq(Positions) /\ \A j \in 1..Len(s) : s[j] = Back(w, Len(s) - j + 1)
      BY <1>1 DEF UsbTypeOK, PipeOK, Pipe, Queue
    <3>2. i \in DOMAIN s
      OBVIOUS
    <3> HIDE DEF s
    <3>3. DOMAIN s = 1..Len(s) /\ Len(s) \in Nat
      BY <3>1
    <3> QED
      BY <3>1, <3>2, <3>3 DEF Queued, s
  <2>2. Queued - i + 1 \in 1..Queued
    BY <2>1
  <2> QED
    BY <2>1, <2>2
<1>4. \A pos \in InPipe : \E k \in 1..Queued : pos = Back(w, k) /\ Written(pipe, k).ioc
  BY <1>3 DEF InPipe, Written
<1>5. Queued \in Nat /\ Queued < Last /\ w \in Positions /\ Last \in Nat
  BY <1>1, LastType DEF Queued, UsbTypeOK, PipeOK, Pipe
<1>6. ASSUME NEW k \in Nat, Queued < k, k <= Last
      PROVE  Back(w, k) \notin Positions0(pipe.ep0)
  <2> SUFFICES ASSUME NEW j \in 1..Queued, Back(w, k) = Back(w, j)
               PROVE  FALSE
    BY <1>3
  <2>1. k \in 1..Last /\ j \in 1..Last /\ k # j
    BY <1>5, <1>6
  <2> QED
    BY <1>5, <2>1, BackIs
<1>7. ASSUME initialize_phase < 4
      PROVE  /\ \A pos \in OnTheWay : pos = Back(w, Age) /\ pipe.setup_stage_map = Filed
             /\ InEvents \cap Positions0(pipe.ep0) = {}
  <2>1. Age \in 1..2 /\ Age <= Last
    BY LastType DEF Age
  <2>2. ASSUME NEW pos \in InEvents
        PROVE  /\ pos = Back(w, Age) /\ Queued < Age /\ pipe.setup_stage_map = Filed
               /\ pos \notin Positions0(pipe.ep0)
    <3>1. pos = Back(w, Age) /\ Queued < Age /\ Where(Reply) # {}
      BY <1>1, <1>2, <1>7, <2>2 DEF AskInv
    <3>2. pipe.setup_stage_map = Filed
      BY <1>1, <1>7, <3>1 DEF AskInv
    <3>3. pos \notin Positions0(pipe.ep0)
      BY <1>6, <2>1, <3>1
    <3> QED
      BY <3>1, <3>2, <3>3
  <2>3. ASSUME NEW pos \in InPipe
        PROVE  pos = Back(w, Age) /\ pipe.setup_stage_map = Filed
    <3>1. PICK k \in 1..Queued : pos = Back(w, k) /\ Written(pipe, k).ioc
      BY <1>4, <2>3
    <3>2. /\ Queued <= Age + 2
          /\ Queued = Age + 2 => Written(pipe, Age + 2) = StatusStage(FALSE)
          /\ Written(pipe, Age + 1) = SetupStage(Asked)
          /\ Age = 2 => Written(pipe, 1) = StatusStage(FALSE)
          /\ Queued >= Age => pipe.setup_stage_map = Filed
      BY <1>1, <1>7 DEF AskInv
    <3>3. /\ k = Age + 2 => Queued = Age + 2
          /\ k < Age => Age = 2 /\ k = 1
          /\ k = Age + 2 \/ k = Age + 1 \/ k = Age \/ k < Age
          /\ k = Age => Queued >= Age
      BY <1>5, <2>1, <3>2
    <3>4. ~StatusStage(FALSE).ioc /\ ~SetupStage(Asked).ioc
      BY DEF StatusStage, SetupStage
    <3>5. k = Age
      BY <3>1, <3>2, <3>3, <3>4
    <3> QED
      BY <3>1, <3>2, <3>3, <3>5
  <2> QED
    BY <2>2, <2>3 DEF OnTheWay
<1>8. ASSUME port_config_phase = "ConfiguringEndpoints"
      PROVE  OnTheWay = {} /\ InEvents \cap Positions0(pipe.ep0) = {}
  <2>1. Queued = 0 /\ Where(Reply) = {}
    BY <1>1, <1>8 DEF CommandInv, AskedFor, Queued
  <2>2. InEvents = {} /\ InPipe = {}
    BY <1>2, <1>4, <2>1
  <2> QED
    BY <2>2 DEF OnTheWay
<1>9. ASSUME port_config_phase = "Configured"
      PROVE  /\ \A pos \in OnTheWay :
                  \E m \in 0..(Numbers - 1) : /\ pos = Back(w, 2 * m + 1)
                                              /\ pipe.setup_stage_map[Numbers - m] # Empty
             /\ InEvents \cap Positions0(pipe.ep0) = {}
  <2>1. Numbers \in Nat \ {0} /\ 2 * Numbers < Last
    <3>1. initialize_phase = 4
      BY <1>1, <1>9 DEF UsbTypeOK, DriverInv
    <3> QED
      BY <1>1, <3>1, NumbersIs
  <2>2. ASSUME NEW pos \in InEvents
        PROVE  /\ \E m \in 0..(Numbers - 1) : /\ pos = Back(w, 2 * m + 1)
                                              /\ pipe.setup_stage_map[Numbers - m] # Empty
               /\ pos \notin Positions0(pipe.ep0)
    <3>1. PICK i \in Where(Reply) : pos = er[i].issuer
      BY <1>2, <2>2
    <3>2. PICK m \in 0..(Numbers - 1) : pos = Back(w, 2 * m + 1) /\ Queued < 2 * m + 1
      BY <1>1, <1>9, <3>1 DEF ProtocolInv
    <3>3. pipe.setup_stage_map[Numbers - m] # Empty
      BY <1>1, <1>9, <3>1, <3>2 DEF ProtocolInv
    <3>4. 2 * m + 1 \in Nat /\ 2 * m + 1 <= Last
      BY <1>5, <2>1
    <3> QED
      BY <1>6, <3>2, <3>3, <3>4
  <2>3. ASSUME NEW pos \in InPipe
        PROVE  \E m \in 0..(Numbers - 1) : /\ pos = Back(w, 2 * m + 1)
                                           /\ pipe.setup_stage_map[Numbers - m] # Empty
    <3>1. PICK k \in 1..Queued : pos = Back(w, k) /\ Written(pipe, k).ioc
      BY <1>4, <2>3
    <3>2. Queued <= 2 * Numbers
      BY <1>1, <1>9 DEF ProtocolInv
    <3>3. k % 2 = 1 \/ k % 2 = 0
      BY <1>5
    <3>4. CASE k % 2 = 1
      <4> DEFINE m == k \div 2
      <4>1. m \in 0..(Numbers - 1) /\ k = 2 * m + 1
        BY <1>5, <2>1, <3>2, <3>4
      <4> HIDE DEF m
      <4>2. 2 * m + 1 <= Queued
        BY <1>5, <4>1
      <4>3. pipe.setup_stage_map[Numbers - m] # Empty
        BY <1>1, <1>9, <4>1, <4>2 DEF ProtocolInv
      <4> QED
        BY <3>1, <4>1, <4>3
    <3>5. CASE k % 2 = 0
      <4> DEFINE m == (k \div 2) - 1
      <4>1. m \in 0..(Numbers - 1) /\ k = 2 * m + 2
        BY <1>5, <2>1, <3>2, <3>5
      <4> HIDE DEF m
      <4>2. Written(pipe, k) = SetupStage("SetProtocol")
        BY <1>1, <1>9, <4>1 DEF ProtocolInv
      <4> QED
        BY <3>1, <4>2 DEF SetupStage
    <3> QED
      BY <3>3, <3>4, <3>5
  <2> QED
    BY <2>2, <2>3 DEF OnTheWay
<1>10. \/ initialize_phase < 4 \/ port_config_phase = "ConfiguringEndpoints"
       \/ port_config_phase = "Configured"
  BY <1>1 DEF UsbTypeOK, DriverInv
<1> QED
  BY <1>7, <1>8, <1>9, <1>10

(* UsbTypeOK: the state of the driver, of the pipe and of its maps has its *)
(* type.                                                                   *)
THEOREM UsbTypes == Spec => []UsbTypeOK
<1>1. UsbInv => UsbTypeOK
  BY DEF UsbInv
<1> QED
  BY <1>1, UsbInvAlways, PTL

(* SetupStageKept: no TRB of the control pipe is written over before its   *)
(* answer was handled, and every answer finds its setup stage, in a ring   *)
(* and maps of any size that hold the requests of the device's endpoints.  *)
THEOREM StagesAreKept == Spec => []SetupStageKept
<1>1. UsbInv => SetupStageKept
  <2> SUFFICES ASSUME UsbInv PROVE SetupStageKept
    OBVIOUS
  <2> DEFINE w == pipe.write_index
             s == pipe.ep0
  <2>1. UsbTypeOK /\ AskInv /\ DriverInv /\ CommandInv /\ ProtocolInv
    BY DEF UsbInv
  <2>2. Cardinality(Positions0(s)) = Len(s)
    <3>1. s \in Seq(Positions) /\ \A j \in 1..Len(s) : s[j] = Back(w, Len(s) - j + 1)
      BY <2>1 DEF UsbTypeOK, PipeOK, Pipe, Queue
    <3>2. Len(s) < Last /\ Last \in Nat /\ w \in Positions
      BY <2>1, LastType DEF UsbTypeOK, PipeOK, Pipe
    <3> HIDE DEF s, w
    <3>3. DOMAIN s = 1..Len(s) /\ Len(s) \in Nat /\ s = [i \in 1..Len(s) |-> s[i]]
      BY <3>1
    <3>4. \A i, j \in 1..Len(s) : s[i] = s[j] => i = j
      <4> SUFFICES ASSUME NEW i \in 1..Len(s), NEW j \in 1..Len(s), s[i] = s[j]
                   PROVE  i = j
        OBVIOUS
      <4> DEFINE k == Len(s) - i + 1
                 l == Len(s) - j + 1
      <4>1. k \in 1..Last /\ l \in 1..Last /\ Back(w, k) = Back(w, l)
        BY <3>1, <3>2, <3>3
      <4> HIDE DEF k, l
      <4>2. k = l
        BY <3>2, <4>1, BackIs
      <4> QED
        BY <3>3, <4>2 DEF k, l
    <3>5. s \in Injection(1..Len(s), Positions0(s)) /\ s \in Surjection(1..Len(s), Positions0(s))
      BY <3>3, <3>4 DEF Injection, IsInjective, Surjection, Positions0
    <3>6. IsFiniteSet(1..Len(s)) /\ Cardinality(1..Len(s)) = Len(s)
      <4> DEFINE n == Len(s)
      <4>1. n \in Nat /\ n \in Int /\ 1 \in Int
        BY <3>3
      <4> HIDE DEF n
      <4>2. IsFiniteSet(1..n) /\ Cardinality(1..n) = IF 1 > n THEN 0 ELSE n - 1 + 1
        BY <4>1, FS_Interval
      <4>3. (IF 1 > n THEN 0 ELSE n - 1 + 1) = n
        BY <4>1
      <4> QED
        BY <4>2, <4>3 DEF n
    <3> QED
      BY <3>5, <3>6, FS_Surjection
  <2>3. InEvents \cap Positions0(s) = {}
    BY OnTheWayIs
  <2>4. ASSUME NEW pos \in OnTheWay
        PROVE  /\ pipe.ring[pos].type \in {"Data", "Status"}
               /\ Contains(pipe.setup_stage_map, pos)
               /\ pipe.ring[Get(pipe.setup_stage_map, pos)].type = "Setup"
    <3>1. CASE initialize_phase < 4
      <4>1. pos = Back(w, Age) /\ pipe.setup_stage_map = Filed
        BY <2>4, <3>1, OnTheWayIs
      <4>2. Contains(pipe.setup_stage_map, pos) /\ Get(pipe.setup_stage_map, pos) = Back(w, Age + 1)
        BY <4>1, OneEntryIs, SizeAssumption DEF Filed
      <4>3. /\ Written(pipe, Age + 1) = SetupStage(Asked)
            /\ Written(pipe, Age) = IF Age = 2 THEN DataStage ELSE StatusStage(TRUE)
        BY <2>1, <3>1 DEF AskInv
      <4>4. Written(pipe, Age).type \in {"Data", "Status"} /\ Written(pipe, Age + 1).type = "Setup"
        BY <4>3 DEF DataStage, StatusStage, SetupStage
      <4> QED
        BY <4>1, <4>2, <4>4 DEF Written
    <3>2. CASE port_config_phase = "Configured"
      <4>1. PICK m \in 0..(Numbers - 1) : /\ pos = Back(w, 2 * m + 1)
                                          /\ pipe.setup_stage_map[Numbers - m] # Empty
        BY <2>4, <3>2, OnTheWayIs
      <4>2. /\ Contains(pipe.setup_stage_map, pos)
            /\ Get(pipe.setup_stage_map, pos) = Back(w, 2 * m + 2)
            /\ Written(pipe, 2 * m + 1) = StatusStage(TRUE)
            /\ Written(pipe, 2 * m + 2) = SetupStage("SetProtocol")
        BY <2>1, <3>2, <4>1, EntryIs
      <4> QED
        BY <4>1, <4>2 DEF Written, StatusStage, SetupStage
    <3>3. CASE port_config_phase = "ConfiguringEndpoints"
      BY <2>4, <3>3, OnTheWayIs
    <3> QED
      BY <2>1, <3>1, <3>2, <3>3 DEF UsbTypeOK, DriverInv
  <2> QED
    BY <2>2, <2>3, <2>4 DEF SetupStageKept
<1> QED
  BY <1>1, UsbInvAlways, PTL

(* RequestMatchesPhase: a device is never asked for anything but what the  *)
(* driver waits for, and never for two things before it is configured.     *)
THEOREM RequestsMatch == Spec => []RequestMatchesPhase
<1>1. UsbInv => RequestMatchesPhase
  <2> SUFFICES ASSUME UsbInv PROVE RequestMatchesPhase
    OBVIOUS
  <2> DEFINE w == pipe.write_index
  <2>1. UsbTypeOK /\ AskInv /\ DriverInv /\ CommandInv /\ ProtocolInv
    BY DEF UsbInv
  <2>2. ASSUME initialize_phase < 4, NEW pos \in OnTheWay
        PROVE  RequestAt(pos) = Asked
    <3>1. pos = Back(w, Age) /\ pipe.setup_stage_map = Filed
      BY <2>2, OnTheWayIs
    <3>2. Get(pipe.setup_stage_map, pos) = Back(w, Age + 1)
      BY <3>1, OneEntryIs, SizeAssumption DEF Filed
    <3>3. Written(pipe, Age + 1) = SetupStage(Asked)
      BY <2>1, <2>2 DEF AskInv
    <3> QED
      BY <3>2, <3>3 DEF RequestAt, Written, SetupStage
  <2>3. ASSUME initialize_phase = 4, NEW pos \in OnTheWay
        PROVE  RequestAt(pos) = "SetProtocol"
    <3>1. port_config_phase = "Configured"
      BY <2>1, <2>3, OnTheWayIs DEF UsbTypeOK, DriverInv
    <3>2. PICK m \in 0..(Numbers - 1) : /\ pos = Back(w, 2 * m + 1)
                                        /\ pipe.setup_stage_map[Numbers - m] # Empty
      BY <2>3, <3>1, OnTheWayIs
    <3>3. /\ Get(pipe.setup_stage_map, pos) = Back(w, 2 * m + 2)
          /\ Written(pipe, 2 * m + 2) = SetupStage("SetProtocol")
      BY <2>1, <3>1, <3>2, EntryIs
    <3> QED
      BY <3>3 DEF RequestAt, Written, SetupStage
  <2>4. \A pos \in OnTheWay : RequestAt(pos) =
          CASE initialize_phase = 1 -> "GetDescriptor(Device)"
            [] initialize_phase = 2 -> "GetDescriptor(Configuration)"
            [] initialize_phase = 3 -> "SetConfiguration"
            [] OTHER                -> "SetProtocol"
    <3>1. initialize_phase \in 1..4
      BY <2>1 DEF UsbTypeOK
    <3> QED
      BY <2>2, <2>3, <3>1 DEF Asked
  <2>5. initialize_phase < 4 => Cardinality(OnTheWay) <= 1
    <3> SUFFICES ASSUME initialize_phase < 4 PROVE Cardinality(OnTheWay) <= 1
      OBVIOUS
    <3> DEFINE T == {Back(w, Age)}
    <3>1. OnTheWay \in SUBSET T
      BY OnTheWayIs
    <3>2. IsFiniteSet(T) /\ Cardinality(T) = 1
      BY FS_Singleton
    <3> HIDE DEF T
    <3> QED
      BY <3>1, <3>2, FS_Subset
  <2>6. initialize_phase = 4 =>
          /\ port_config_phase = "ConfiguringEndpoints" => OnTheWay = {}
          /\ port_config_phase = "Configured" => Contains(pipe.event_waiters, "SetProtocol")
    BY <2>1, OnTheWayIs DEF ProtocolInv
  <2> QED
    BY <2>4, <2>5, <2>6 DEF RequestMatchesPhase
<1> QED
  BY <1>1, UsbInvAlways, PTL

(* OwnEndpoints: whatever the configuration descriptor holds besides, the  *)
(* driver takes the endpoints of its own interface and polls one of them.  *)
THEOREM EndpointsAreOwn == Spec => []OwnEndpoints
<1>1. UsbInv => OwnEndpoints
  BY DEF UsbInv, DriverInv, OwnEndpoints, Device
<1> QED
  BY <1>1, UsbInvAlways, PTL

(* KeepsPolling: the conversation with a device never comes to rest before *)
(* the device is polled, unless something went wrong.                      *)
THEOREM NothingIsForgotten == Spec => []KeepsPolling
<1>1. UsbInv => KeepsPolling
  <2> SUFFICES ASSUME UsbInv, ~UnderWay, halted = {}, buf # "other", Supported # {}
               PROVE  polls > 0
    BY DEF KeepsPolling
  <2>1. UsbTypeOK /\ DriverInv /\ CommandInv /\ PollInv /\ WrongInv
    BY DEF UsbInv
  <2>2. er = <<>> /\ pipe.ep0 = <<>> /\ ~command
    BY DEF UnderWay
  <2>3. Queued = 0 /\ Where(Reply) = {} /\ Where(Data) = {} /\ Where(Done) = {}
    BY <2>2 DEF Queued, Where
  <2>4. Age \in 1..2
    BY DEF Age
  <2>5. /\ hid_phase = 2 => polls = 1
        /\ hid_phase # 1 /\ ~(initialize_phase < 4)
    BY <2>1, <2>3, <2>4 DEF WrongInv
  <2>6. port_config_phase = "Configured"
    BY <2>1, <2>2, <2>3, <2>5 DEF UsbTypeOK, DriverInv, CommandInv
  <2> QED
    BY <2>1, <2>5, <2>6 DEF UsbTypeOK, PollInv
<1> QED
  BY <1>1, UsbInvAlways, PTL

-----------------------------------------------------------------------------
(* How often the endpoints are polled.                                     *)

(* The interval of an interrupt endpoint, rounded down to a power of two   *)
(* of microframes.                                                         *)
LEMMA IntervalIs ==
  ASSUME NEW v \in 1..255
  PROVE  LET n == MostSignificantBit(v)
         IN  /\ n \in 0..7
             /\ 2^((n + 3) % 256) <= 8 * v /\ 8 * v < 2 * 2^((n + 3) % 256)
<1> DEFINE n == MostSignificantBit(v)
<1>1. \E m \in 0..7 : 2^m <= v /\ v < 2^(m + 1)
  <2>1. CASE v < 16
    <3>1. \/ 2^0 <= v /\ v < 2^(0 + 1)
          \/ 2^1 <= v /\ v < 2^(1 + 1)
          \/ 2^2 <= v /\ v < 2^(2 + 1)
          \/ 2^3 <= v /\ v < 2^(3 + 1)
      BY <2>1
    <3> QED
      BY <3>1
  <2>2. CASE v >= 16
    <3>1. \/ 2^4 <= v /\ v < 2^(4 + 1)
          \/ 2^5 <= v /\ v < 2^(5 + 1)
          \/ 2^6 <= v /\ v < 2^(6 + 1)
          \/ 2^7 <= v /\ v < 2^(7 + 1)
      BY <2>2
    <3> QED
      BY <3>1
  <2> QED
    BY <2>1, <2>2
<1>2. n \in 0..7 /\ 2^n <= v /\ v < 2^(n + 1)
  <2>1. v # 0
    OBVIOUS
  <2>2. n = CHOOSE m \in 0..7 : 2^m <= v /\ v < 2^(m + 1)
    BY <2>1 DEF MostSignificantBit
  <2> QED
    BY <1>1, <2>2, Zenon
<1> HIDE DEF n
<1>3. 2^((n + 3) % 256) <= 8 * v /\ 8 * v < 2 * 2^((n + 3) % 256)
  <2>1. CASE n = 0
    BY <1>2, <2>1
  <2>2. CASE n = 1
    BY <1>2, <2>2
  <2>3. CASE n = 2
    BY <1>2, <2>3
  <2>4. CASE n = 3
    BY <1>2, <2>4
  <2>5. CASE n = 4
    BY <1>2, <2>5
  <2>6. CASE n = 5
    BY <1>2, <2>6
  <2>7. CASE n = 6
    BY <1>2, <2>7
  <2>8. CASE n = 7
    BY <1>2, <2>8
  <2> QED
    BY <1>2, <2>1, <2>2, <2>3, <2>4, <2>5, <2>6, <2>7, <2>8
<1> QED
  BY <1>2, <1>3 DEF n

(* Above full speed the descriptor's interval is the exponent plus one.    *)
LEMMA ExponentIs ==
  ASSUME NEW v \in 1..16
  PROVE  2^((v - 1) % 256) <= 2^(v - 1) /\ 2^(v - 1) < 2 * 2^((v - 1) % 256)
<1>1. (v - 1) % 256 = v - 1
  OBVIOUS
<1>2. 2^(v - 1) \in Nat \ {0}
  <2>1. CASE v = 1
    BY <2>1
  <2>2. CASE v = 2
    BY <2>2
  <2>3. CASE v = 3
    BY <2>3
  <2>4. CASE v = 4
    BY <2>4
  <2>5. CASE v = 5
    BY <2>5
  <2>6. CASE v = 6
    BY <2>6
  <2>7. CASE v = 7
    BY <2>7
  <2>8. CASE v = 8
    BY <2>8
  <2>9. CASE v = 9
    BY <2>9
  <2>10. CASE v = 10
    BY <2>10
  <2>11. CASE v = 11
    BY <2>11
  <2>12. CASE v = 12
    BY <2>12
  <2>13. CASE v = 13
    BY <2>13
  <2>14. CASE v = 14
    BY <2>14
  <2>15. CASE v = 15
    BY <2>15
  <2>16. CASE v = 16
    BY <2>16
  <2> QED
    BY <2>1, <2>2, <2>3, <2>4, <2>5, <2>6, <2>7, <2>8,
       <2>9, <2>10, <2>11, <2>12, <2>13, <2>14, <2>15, <2>16
<1> DEFINE x == 2^(v - 1)
<1>3. x \in Nat \ {0} /\ 2^((v - 1) % 256) = x
  BY <1>1, <1>2
<1> HIDE DEF x
<1>4. x <= x /\ x < 2 * x
  BY <1>3
<1> QED
  BY <1>3, <1>4 DEF x

(* A descriptor's interval, as the controller will keep it.                *)
LEMMA ServedIs ==
  ASSUME NEW s, NEW e \in Endpoint, e.type = "interrupt", e.interval \in 1..255,
         s \notin SlowSpeeds => e.interval \in 1..16
  PROVE  LET period == IF s \in SlowSpeeds THEN 8 * e.interval ELSE 2^(e.interval - 1)
             c == Context(s, e)
         IN  c.ep_type = ep_type(e) /\ 2^c.interval <= period /\ period < 2 * 2^c.interval
<1>1. Context(s, e).ep_type = ep_type(e) /\ Context(s, e).interval = convert_interval(s, e)
  BY DEF Context
<1>2. CASE s \in SlowSpeeds
  <2>1. convert_interval(s, e) = (MostSignificantBit(e.interval) + 3) % 256
    BY <1>2 DEF convert_interval
  <2> DEFINE v == e.interval
             m == (MostSignificantBit(v) + 3) % 256
  <2>2. 2^m <= 8 * v /\ 8 * v < 2 * 2^m
    BY IntervalIs
  <2>3. Context(s, e).interval = m
    BY <1>1, <2>1
  <2> HIDE DEF m
  <2> QED
    BY <1>1, <1>2, <2>2, <2>3
<1>3. CASE s \notin SlowSpeeds
  <2>1. convert_interval(s, e) = (e.interval - 1) % 256
    BY <1>3 DEF convert_interval
  <2> DEFINE v == e.interval
             m == (v - 1) % 256
  <2>2. 2^m <= 2^(v - 1) /\ 2^(v - 1) < 2 * 2^m
    <3>1. v \in 1..16
      BY <1>3
    <3> HIDE DEF v
    <3> QED
      BY <3>1, ExponentIs
  <2>3. Context(s, e).interval = m
    BY <1>1, <2>1
  <2> HIDE DEF m
  <2> QED
    BY <1>1, <1>3, <2>2, <2>3
<1> QED
  BY <1>2, <1>3

(* An endpoint whose address no other has gets a context of its own.       *)
LEMMA EnabledIs ==
  ASSUME NEW n \in Nat, NEW eps, DOMAIN eps = 1..n, NEW s, NEW old,
         \A k, l \in DOMAIN eps :
            DeviceContextIndex(eps[k]) = DeviceContextIndex(eps[l]) => k = l,
         NEW k \in DOMAIN eps
  PROVE  LET new == EnableEndpoints(old, s, eps)
             d == DeviceContextIndex(eps[k])
         IN  d \in DOMAIN new /\ new[d] = Context(s, eps[k])
<1> DEFINE d == DeviceContextIndex(eps[k])
           Of == {i \in DOMAIN eps : DeviceContextIndex(eps[i]) = d}
           last == CHOOSE i \in Of : \A j \in Of : j <= i
<1>1. Of = {k} /\ k <= k
  OBVIOUS
<1>2. last = k
  BY <1>1
<1>3. d \in {DeviceContextIndex(eps[i]) : i \in DOMAIN eps}
  OBVIOUS
<1> QED
  BY <1>2, <1>3 DEF EnableEndpoints

(* ServedAsAsked: every interrupt endpoint of the class driver's interface *)
(* is polled at least as often as its descriptor asks and less than twice  *)
(* as often, whatever the intervals that USB allows, and a transfer waits  *)
(* only on an endpoint that has a context.                                 *)
THEOREM EndpointsAreServed == Spec => []ServedAsAsked
<1>1. ASSUME UsbInv, port_config_phase # "InitializingDevice", NEW k \in DOMAIN ep_configs
      PROVE  LET e == ep_configs[k]
                 d == DeviceContextIndex(e)
             IN  /\ d \in DOMAIN contexts
                 /\ e.type = "interrupt" =>
                      /\ contexts[d].ep_type = ep_type(e)
                      /\ 2^contexts[d].interval <= Period(e)
                      /\ Period(e) < 2 * 2^contexts[d].interval
  <2> DEFINE e == ep_configs[k]
             d == DeviceContextIndex(e)
             c == configuration
  <2>1. UsbTypeOK /\ DriverInv /\ initialize_phase = 4
    BY <1>1 DEF UsbInv, UsbTypeOK, DriverInv
  <2>2. /\ Supported # {} /\ ep_configs = Own(c, Device)
        /\ contexts = EnableEndpoints([x \in {1} |-> EP0Context], speed, ep_configs)
    BY <2>1 DEF DriverInv
  <2>3. c \in Configurations /\ speed \in Speeds /\ Device \in SupportedIn(c)
    BY <2>1, <2>2, DeviceIs DEF UsbTypeOK, Supported
  <2>4. DOMAIN ep_configs = 1..c[Device].endpoints /\ c[Device].endpoints \in Nat
        /\ e \in Endpoint
    BY <2>2, <2>3, OwnEndpointsFound
  <2>5. /\ \A i, j \in DOMAIN ep_configs :
             DeviceContextIndex(ep_configs[i]) = DeviceContextIndex(ep_configs[j]) => i = j
        /\ e.type = "interrupt" => e.interval \in 1..(IF Speeds \subseteq SlowSpeeds THEN 255
                                                      ELSE 16)
    BY <2>2, <2>3, ConfigurationAssumption
  <2>6. d \in DOMAIN contexts /\ contexts[d] = Context(speed, e)
    BY <2>2, <2>4, <2>5, EnabledIs
  <2>7. e.type = "interrupt" =>
          /\ e.interval \in 1..255
          /\ speed \notin SlowSpeeds => e.interval \in 1..16
    <3>1. speed \notin SlowSpeeds => ~(Speeds \subseteq SlowSpeeds)
      BY <2>3
    <3>2. \A i \in 1..16 : i \in 1..255
      OBVIOUS
    <3> QED
      BY <2>5, <3>1, <3>2
  <2> HIDE DEF d, e
  <2>8. e.type = "interrupt" =>
          /\ contexts[d].ep_type = ep_type(e)
          /\ 2^contexts[d].interval <= Period(e)
          /\ Period(e) < 2 * 2^contexts[d].interval
    BY <2>4, <2>6, <2>7, ServedIs DEF Period
  <2> QED
    BY <2>6, <2>8 DEF d, e
<1>2. ASSUME UsbInv, polls > 0 PROVE 2 * ep_interrupt_in + 1 \in DOMAIN contexts
  <2>1. UsbTypeOK /\ DriverInv /\ PollInv
    BY <1>2 DEF UsbInv
  <2>2. hid_phase = 2
    BY <1>2, <2>1 DEF UsbTypeOK, PollInv
  <2>3. port_config_phase = "Configured" /\ initialize_phase = 4
    BY <1>2, <2>2, ReadyForReports
  <2>4. PICK k \in DOMAIN ep_configs : /\ Polled(ep_configs[k])
                                       /\ ep_configs[k].number = ep_interrupt_in
    BY <2>1, <2>3 DEF DriverInv
  <2>5. DeviceContextIndex(ep_configs[k]) \in DOMAIN contexts
    BY <1>1, <1>2, <2>3
  <2> QED
    BY <2>4, <2>5 DEF DeviceContextIndex, Polled
<1>3. UsbInv => ServedAsAsked
  BY <1>1, <1>2, Zenon DEF ServedAsAsked
<1> QED
  BY <1>3, UsbInvAlways, PTL

-----------------------------------------------------------------------------
(* What the class driver makes of the reports.                             *)

(* The class driver reads in one step only, and there all of the report.   *)
LEMMA ReadIs ==
  ASSUME UsbInv, OnInterruptCompleted
  PROVE  /\ previous_buf' = report_buf
         /\ report_buf' = report_buf
         /\ Where(Data) # {} /\ Where(Data)' = {}
<1>1. /\ er # <<>> /\ Pop /\ Head0.type = "Transfer" /\ Head0.ok /\ Head0.ep # 0
      /\ previous_buf' = CopyN(report_buf, report_len, previous_buf)
      /\ report_buf' = report_buf
  BY DEF OnInterruptCompleted, ReportArrives, Handles, deviceVars
<1>2. UsbTypeOK /\ PollInv
  BY DEF UsbInv
<1>3. /\ Head0 \in Event
      /\ Head0 \in Data <=> 1 \in Where(Data)
      /\ Single(Data) /\ Head0 \in Data => Where(Data)' = {}
  BY <1>1, <1>2, PopWhere DEF UsbTypeOK
<1>4. Head0 \in Data
  BY <1>1, <1>3 DEF Data
<1> QED
  BY <1>1, <1>2, <1>3, <1>4 DEF PollInv

(* KeyEdges: of a keyboard's report exactly the keys are notified that the *)
(* report before did not have, except one whose code were its modifiers.   *)
THEOREM KeysAreEdges == Spec => KeyEdges
<1>1. ASSUME UsbInv, OnInterruptCompleted, class_driver = "keyboard"
      PROVE  {notified'[i] : i \in DOMAIN notified'}
               = (Keys(previous_buf') \ Keys(previous_buf)) \ {previous_buf[1]}
  <2> DEFINE now == report_buf
             before == previous_buf
             new == {i \in 3..8 : now[i] # 0 /\ \A j \in DOMAIN before : before[j] # now[i]}
  <2>1. previous_buf' = now
    BY <1>1, ReadIs
  <2>2. notified' = InOrder(now, new)
    BY <1>1 DEF OnInterruptCompleted, OnDataReceived, KeysPushed
  <2>3. DOMAIN before = 1..8 /\ before[2] = 0
    BY <1>1 DEF UsbInv, PollInv, kBufferSize
  <2>4. new \in SUBSET Int /\ IsFiniteSet(new)
    <3>1. \A a, b \in Int : IsFiniteSet(a..b)
      BY FS_Interval
    <3>2. 3 \in Int /\ 8 \in Int
      OBVIOUS
    <3>3. IsFiniteSet(3..8)
      BY <3>1, <3>2, Zenon
    <3>4. new \in SUBSET (3..8)
      OBVIOUS
    <3>5. new \in SUBSET Int
      BY <3>4
    <3> HIDE DEF new
    <3> QED
      BY <3>3, <3>4, <3>5, FS_Subset
  <2> DEFINE t == InOrder(now, new)
             S == (Keys(now) \ Keys(before)) \ {before[1]}
  <2>5. /\ \A k \in DOMAIN t : \E i \in new : t[k] = now[i]
        /\ \A i \in new : \E k \in DOMAIN t : t[k] = now[i]
    <3> HIDE DEF new
    <3> QED
      BY <2>4, InOrderIs
  <2>6. \A i \in new : now[i] \in S
    BY <2>3 DEF Keys
  <2>7. \A x \in S : \E i \in new : x = now[i]
    <3> SUFFICES ASSUME NEW x \in S PROVE \E i \in new : x = now[i]
      OBVIOUS
    <3>1. PICK i \in 3..8 : x = now[i] /\ x # 0
      BY DEF Keys
    <3>2. ASSUME NEW j \in DOMAIN before PROVE before[j] # x
      <4>1. j = 1 \/ j = 2 \/ j \in 3..8
        BY <2>3, <3>2
      <4>2. before[1] # x /\ before[2] # x /\ \A l \in 3..8 : before[l] # x
        BY <2>3, <3>1 DEF Keys
      <4> QED
        BY <4>1, <4>2
    <3> QED
      BY <3>1, <3>2
  <2> HIDE DEF new, S
  <2>8. {t[k] : k \in DOMAIN t} = S
    BY <2>5, <2>6, <2>7
  <2> QED
    BY <2>1, <2>2, <2>8 DEF S, t
<1>2. ASSUME Next, ~OnInterruptCompleted PROVE UNCHANGED readVars
  <2> USE DEF driverVars
  <2>1. CASE TransferFailed
    BY <2>1 DEF TransferFailed
  <2>2. CASE InitializePhase1
    BY <2>2 DEF InitializePhase1
  <2>3. CASE InitializePhase2
    BY <2>3 DEF InitializePhase2
  <2>4. CASE InitializePhase3
    BY <2>4 DEF InitializePhase3
  <2>5. CASE HIDOnControlCompleted
    BY <2>5 DEF HIDOnControlCompleted
  <2>6. CASE AnswerRefused
    BY <2>6 DEF AnswerRefused
  <2>7. CASE CompleteConfiguration
    BY <2>7 DEF CompleteConfiguration
  <2>8. CASE Environment
    BY <2>8 DEF Environment, Execute, ExecuteFails, Report, ReportFails, ExecuteCommand
  <2> QED
    BY <1>2, <2>1, <2>2, <2>3, <2>4, <2>5, <2>6, <2>7, <2>8 DEF Next, Driver
<1>3. UsbInv /\ [Next]_vars =>
        [class_driver = "keyboard" =>
           {notified'[i] : i \in DOMAIN notified'}
             = (Keys(previous_buf') \ Keys(previous_buf)) \ {previous_buf[1]}]_readVars
  <2>1. UNCHANGED vars => UNCHANGED readVars
    BY DEF vars, driverVars
  <2> QED
    BY <1>1, <1>2, <2>1
<1> QED
  BY <1>3, UsbInvAlways, PTL DEF Spec, KeyEdges

(* The queue of one place that the event ring and the buffer make.         *)
Held == [i \in 1..Cardinality(Unread) |-> report_buf]

(* The queue over a set of at most one report.                             *)
LEMMA HeldIs ==
  ASSUME NEW S, \A i, j \in S : i = j, NEW b
  PROVE  [i \in 1..Cardinality(S) |-> b] = IF S = {} THEN <<>> ELSE <<b>>
<1>1. CASE S = {}
  <2>1. Cardinality(S) = 0
    BY <1>1, FS_EmptySet
  <2> QED
    BY <1>1, <2>1
<1>2. CASE S # {}
  <2>1. PICK x \in S : S = {x}
    BY <1>2
  <2>2. Cardinality(S) = 1
    BY <2>1, FS_Singleton
  <2>3. 1..1 = {1}
    OBVIOUS
  <2> QED
    BY <1>2, <2>2, <2>3
<1> QED
  BY <1>1, <1>2

(* Only OnInterruptCompleted takes a report and only Report brings one.    *)
LEMMA OtherSteps ==
  ASSUME UsbInv, Next, ~OnInterruptCompleted, ~Report
  PROVE  /\ Where(Data)' = {} <=> Where(Data) = {}
         /\ report_buf' = report_buf /\ previous_buf' = previous_buf
<1>1. er \in Seq(Event) /\ PipeOK(pipe)
  BY DEF UsbInv, UsbTypeOK
<1>2. ASSUME er # <<>>, Pop, Head0.type # "Transfer" \/ Head0.ep = 0 \/ ~Head0.ok
      PROVE  Where(Data)' = {} <=> Where(Data) = {}
  <2>1. Head0 \notin Data
    BY <1>2 DEF Data
  <2> QED
    BY <1>1, <1>2, <2>1, PopWhere
<1>3. ASSUME NEW e \in Event, er' = Append(er, e),
             e.type # "Transfer" \/ e.ep = 0 \/ ~e.ok
      PROVE  Where(Data)' = {} <=> Where(Data) = {}
  <2>1. e \notin Data
    BY <1>3 DEF Data
  <2> QED
    BY <1>1, <1>3, <2>1, AppendWhere
<1> USE DEF driverVars, deviceVars, readVars
<1>4. CASE TransferFailed
  BY <1>2, <1>4 DEF TransferFailed, Handles
<1>5. CASE InitializePhase1
  BY <1>2, <1>5 DEF InitializePhase1, Answers, Handles
<1>6. CASE InitializePhase2
  BY <1>2, <1>6 DEF InitializePhase2, Answers, Handles
<1>7. CASE InitializePhase3
  BY <1>2, <1>7 DEF InitializePhase3, Answers, Handles
<1>8. CASE HIDOnControlCompleted
  BY <1>2, <1>8 DEF HIDOnControlCompleted, Answers, Handles
<1>9. CASE AnswerRefused
  BY <1>2, <1>9 DEF AnswerRefused, Handles
<1>10. CASE CompleteConfiguration
  BY <1>2, <1>10 DEF CompleteConfiguration, Handles
<1>11. CASE Execute
  <2>1. report_buf' = report_buf /\ previous_buf' = previous_buf
    BY <1>11 DEF Execute
  <2>2. CASE Current.ioc
    <3> DEFINE e == TransferEvent(0, Head(pipe.ep0), TRUE)
    <3>1. er' = Append(er, e) /\ e.ep = 0
      BY <1>11, <2>2 DEF Execute, TransferEvent
    <3>2. e \in Event
      <4>1. pipe.ep0 \in Seq(Positions) /\ pipe.ep0 # <<>>
        BY <1>1, <1>11 DEF PipeOK, Pipe, Execute
      <4>2. Head(pipe.ep0) \in Positions
        BY <4>1
      <4> QED
        BY <4>2 DEF TransferEvent, Event
    <3> HIDE DEF e
    <3> QED
      BY <1>3, <2>1, <3>1, <3>2
  <2>3. CASE ~Current.ioc
    BY <1>11, <2>1, <2>3 DEF Execute, Where
  <2> QED
    BY <2>2, <2>3
<1>12. CASE ExecuteFails
  <2> DEFINE e == TransferEvent(0, Head(pipe.ep0), FALSE)
  <2>1. er' = Append(er, e) /\ e.ep = 0 /\ report_buf' = report_buf
        /\ previous_buf' = previous_buf
    BY <1>12 DEF ExecuteFails, TransferEvent
  <2>2. e \in Event
    <3>1. pipe.ep0 \in Seq(Positions) /\ pipe.ep0 # <<>>
      BY <1>1, <1>12 DEF PipeOK, Pipe, ExecuteFails
    <3>2. Head(pipe.ep0) \in Positions
      BY <3>1
    <3> QED
      BY <3>2 DEF TransferEvent, Event
  <2> HIDE DEF e
  <2> QED
    BY <1>3, <2>1, <2>2
<1>13. CASE ReportFails
  <2> DEFINE e == TransferEvent(ep_interrupt_in, 0, FALSE)
  <2>1. er' = Append(er, e) /\ ~e.ok /\ report_buf' = report_buf
        /\ previous_buf' = previous_buf
    BY <1>13 DEF ReportFails, TransferEvent
  <2>2. e \in Event
    BY LastType DEF UsbInv, UsbTypeOK, TransferEvent, Event, Positions
  <2> HIDE DEF e
  <2> QED
    BY <1>3, <2>1, <2>2
<1>14. CASE ExecuteCommand
  <2>1. CommandCompletion \in Event /\ CommandCompletion.type # "Transfer"
    BY LastType DEF CommandCompletion, Event, Positions
  <2> QED
    BY <1>3, <1>14, <2>1 DEF ExecuteCommand
<1> QED
  BY <1>4, <1>5, <1>6, <1>7, <1>8, <1>9, <1>10, <1>11, <1>12, <1>13, <1>14
  DEF Next, Driver, Environment

(* ReportsInOrder: the class driver reads every report once and in order,  *)
(* and none is overwritten in the buffer before it was read.               *)
THEOREM StreamIsFifo == Spec => ReportsInOrder
<1>1. Init => Stream!Init
  <2> SUFFICES ASSUME Init PROVE Held = <<>> /\ previous_buf = Zeros
    BY DEF Stream!Init, Held
  <2>1. er = <<>> /\ previous_buf = Zeros
    BY DEF Init
  <2>2. Unread = {}
    BY <2>1 DEF Unread
  <2> QED
    BY <2>1, <2>2, HeldIs DEF Held
<1>2. ASSUME UsbInv, UsbInv', [Next]_vars PROVE [Stream!Next]_<<Held, previous_buf>>
  <2>1. /\ Held = IF Where(Data) = {} THEN <<>> ELSE <<report_buf>>
        /\ Held' = IF Where(Data)' = {} THEN <<>> ELSE <<report_buf'>>
    <3>1. er \in Seq(Event) /\ er' \in Seq(Event)
      BY <1>2 DEF UsbInv, UsbTypeOK
    <3>2. \A s \in Seq(Event) : \A i \in DOMAIN s : s[i] \in Event
      OBVIOUS
    <3>3. Unread = Where(Data) /\ Unread' = Where(Data)'
      BY <3>1, <3>2 DEF Unread, Where, Data
    <3>4. (\A i, j \in Where(Data) : i = j) /\ (\A i, j \in Where(Data)' : i = j)
      BY <1>2 DEF UsbInv, PollInv, Single
    <3>5. /\ Held = [i \in 1..Cardinality(Where(Data)) |-> report_buf]
          /\ Held' = [i \in 1..Cardinality(Where(Data)') |-> report_buf']
      BY <3>3 DEF Held
    <3> DEFINE S == Where(Data)
               T == Where(Data)'
    <3>6. (\A i, j \in S : i = j) /\ (\A i, j \in T : i = j)
      BY <3>4
    <3> HIDE DEF S, T
    <3>7. [i \in 1..Cardinality(S) |-> report_buf] = IF S = {} THEN <<>> ELSE <<report_buf>>
      BY <3>6, HeldIs
    <3>8. [i \in 1..Cardinality(T) |-> report_buf'] = IF T = {} THEN <<>> ELSE <<report_buf'>>
      BY <3>6, HeldIs
    <3> QED
      BY <3>5, <3>7, <3>8 DEF S, T
  <2>2. CASE OnInterruptCompleted
    <3>1. /\ previous_buf' = report_buf /\ report_buf' = report_buf
          /\ Where(Data) # {} /\ Where(Data)' = {}
      BY <1>2, <2>2, ReadIs
    <3>2. Held = <<report_buf>> /\ Held' = <<>>
      BY <2>1, <3>1
    <3>3. Held # <<>> /\ previous_buf' = Head(Held) /\ Held' = Tail(Held)
      BY <3>1, <3>2
    <3> QED
      BY <3>3 DEF Stream!Next, Stream!Take, Held
  <2>3. CASE Report
    <3> DEFINE e == TransferEvent(ep_interrupt_in, 0, TRUE)
    <3>1. polls > 0 /\ er' = Append(er, e) /\ previous_buf' = previous_buf
      BY <2>3 DEF Report, driverVars, readVars
    <3>2. UsbTypeOK /\ PollInv /\ hid_phase = 2 /\ Where(Data) = {}
      <4>1. UsbTypeOK /\ PollInv
        BY <1>2 DEF UsbInv
      <4>2. polls \in Nat /\ hid_phase \in 0..2
        BY <4>1 DEF UsbTypeOK
      <4>3. polls = 1 /\ ~(hid_phase < 2)
        BY <3>1, <4>1, <4>2 DEF PollInv
      <4> QED
        BY <4>1, <4>2, <4>3 DEF PollInv
    <3>3. ep_interrupt_in \in 1..15
      BY <1>2, <3>2, ReadyForReports
    <3>4. e \in Event /\ e \in Data
      BY <3>3, LastType DEF TransferEvent, Event, Data, Positions
    <3> HIDE DEF e
    <3>5. Where(Data)' # {}
      BY <3>1, <3>2, <3>4, AppendWhere DEF UsbTypeOK
    <3>6. Held = <<>> /\ Held' = <<report_buf'>> /\ report_buf' \in Buffers
      BY <1>2, <2>1, <3>2, <3>5 DEF UsbInv, PollInv
    <3>7. Len(Held) < 1 /\ Held' = Append(Held, report_buf')
      BY <3>6
    <3> QED
      BY <3>1, <3>6, <3>7 DEF Stream!Next, Stream!Put, Held
  <2>4. CASE Next /\ ~OnInterruptCompleted /\ ~Report
    <3>1. /\ Where(Data)' = {} <=> Where(Data) = {}
          /\ report_buf' = report_buf /\ previous_buf' = previous_buf
      BY <1>2, <2>4, OtherSteps
    <3> QED
      BY <2>1, <3>1
  <2>5. CASE UNCHANGED vars
    BY <2>5 DEF vars, driverVars, deviceVars, readVars, Held, Unread
  <2> QED
    BY <1>2, <2>2, <2>3, <2>4, <2>5
<1>3. UsbInv /\ [Next]_vars => UsbInv'
  BY UsbInvStep
<1> QED
  BY <1>1, <1>2, <1>3, UsbInvAlways, PTL DEF Spec, ReportsInOrder, Stream!Spec, Held
=============================================================================
