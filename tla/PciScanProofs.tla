---------------------------- MODULE PciScanProofs ----------------------------
(***************************************************************************)
(* Proofs about PciScan: the scan finds what it ought to find, whatever    *)
(* the machine, and KernelMain takes the right controller of it over.      *)
(*                                                                         *)
(* The recursion of the code is a stack here, so its invariant is about    *)
(* every level at once: each bus the scan has to do with is either done or *)
(* somewhere on the stack, done up to the position there.                  *)
(***************************************************************************)
EXTENDS PciScan, SequenceTheorems, TLAPS

-----------------------------------------------------------------------------
(* The invariant.                                                          *)

(* Where ScanBus can be on a bus: at a function, or past the last device.  *)
Position == [bus : Buses, device : 0..Devices, function : 0..(Functions - 1)]

ScanTypeOK ==
  /\ topology \in Topologies
  /\ devices \in Seq(topology.present) /\ Len(devices) <= TableSize
  /\ stack \in Seq(Position)
  /\ host \in 0..Functions
  /\ pc \in {"scan", "choose", "found", "ready", "halt"}
  /\ full \in BOOLEAN

(* The scan of a bus gets to x before it gets to at.                       *)
Before(x, at) ==
  /\ x.bus = at.bus
  /\ \/ x.device < at.device
     \/ x.device = at.device /\ x.function < at.function

(* A function x that ought to be found on bus b.                           *)
Sought(x, b) == x \in topology.present /\ x.bus = b /\ Visible(x)

(* Bus b is done, or on the stack and done up to the position there.       *)
Covered(b) ==
  \/ \A x : Sought(x, b) => x \in Found
  \/ \E k \in DOMAIN stack :
       /\ stack[k].bus = b
       /\ \A x : Sought(x, b) /\ Before(x, stack[k]) => x \in Found

(* Of the buses the scan starts from those it has got to.                  *)
Started == {b \in Roots : IsSingleFunctionDevice(0, 0) \/ b < host}

HostInv ==
  /\ host = 0 <=> IsSingleFunctionDevice(0, 0)
  /\ pc # "scan" /\ ~full => stack = <<>> /\ host \notin 1..(Functions - 1)

(* Nothing is left out: what was started and what is behind a bridge that  *)
(* was found is done or being done, unless the table was full.             *)
CoverInv ==
  ~full => /\ \A b \in Started : Covered(b)
           /\ \A x \in Found \cap topology.bridges : Covered(topology.secondary[x])

(* Nothing else is found: the buses on the stack can be reached, and what  *)
(* is found of a device can be seen.                                       *)
SeenInv ==
  /\ \A k \in DOMAIN stack :
       /\ stack[k].bus \in ReachableBuses(Roots)
       /\ stack[k].function > 0 =>
            /\ Has(stack[k].bus, stack[k].device, 0)
            /\ ~IsSingleFunctionDevice(stack[k].bus, stack[k].device)
  /\ Found \subseteq Reachable(Roots)

(* On a tree every bus is scanned once: it is on the stack once, what was  *)
(* found on it lies before the position there, and the bridge to it was    *)
(* found before it was got to.                                             *)
Used(b) == \/ \E k \in DOMAIN stack : stack[k].bus = b
           \/ \E x \in Found : x.bus = b
OnceInv ==
  /\ \A i, j \in DOMAIN devices : devices[i] = devices[j] => i = j
  /\ \A k, l \in DOMAIN stack : stack[k].bus = stack[l].bus => k = l
  /\ \A x \in Found, k \in DOMAIN stack :
       x.bus = stack[k].bus => Before(x, stack[k])
  /\ \A b : Used(b) => \/ b \in Started
                       \/ \E y \in Found \cap topology.bridges :
                            topology.secondary[y] = b

ScanInv == /\ ScanTypeOK /\ HostInv /\ CoverInv /\ SeenInv
           /\ IsTree => OnceInv

-----------------------------------------------------------------------------
(* Stacks.                                                                 *)

(* The last position is left: ScanBus returns.                             *)
LEMMA OffTop ==
  ASSUME NEW S, NEW s \in Seq(S), s # <<>>
  PROVE  LET t == SubSeq(s, 1, Len(s) - 1)
         IN  /\ t \in Seq(S) /\ Len(t) = Len(s) - 1
             /\ \A k \in 1..(Len(s) - 1) : t[k] = s[k]
<1>1. Len(s) \in Nat /\ Len(s) > 0
  BY EmptySeq
<1>2. \A i \in 1..(Len(s) - 1) : s[i] \in S
  BY <1>1
<1> DEFINE n == Len(s) - 1
<1>3. n \in Int /\ n >= 0 /\ \A i \in 1..n : s[i] \in S
  BY <1>1, <1>2
<1> HIDE DEF n
<1>4. /\ SubSeq(s, 1, n) \in Seq(S) /\ Len(SubSeq(s, 1, n)) = n
      /\ \A i \in 1..n : SubSeq(s, 1, n)[i] = s[i]
  BY <1>3, SubSeqProperties
<1> QED
  BY <1>4 DEF n

(* The last position is replaced: ScanBus goes on.                         *)
LEMMA OnTop ==
  ASSUME NEW S, NEW s \in Seq(S), s # <<>>, NEW p \in S
  PROVE  LET t == Append(SubSeq(s, 1, Len(s) - 1), p)
         IN  /\ t \in Seq(S) /\ Len(t) = Len(s)
             /\ \A k \in 1..Len(s) : t[k] = IF k = Len(s) THEN p ELSE s[k]
<1>1. Len(s) \in Nat /\ Len(s) > 0
  BY EmptySeq
<1> DEFINE u == SubSeq(s, 1, Len(s) - 1)
<1>2. u \in Seq(S) /\ Len(u) = Len(s) - 1 /\ \A k \in 1..(Len(s) - 1) : u[k] = s[k]
  BY OffTop
<1> HIDE DEF u
<1>3. Append(u, p) \in Seq(S) /\ Len(Append(u, p)) = Len(s)
      /\ \A k \in 1..Len(s) : Append(u, p)[k] = IF k = Len(s) THEN p ELSE s[k]
  BY <1>1, <1>2, AppendProperties
<1> QED
  BY <1>3 DEF u

(* The last position is replaced and another bus begun: ScanBus calls      *)
(* itself.                                                                 *)
LEMMA AddTop ==
  ASSUME NEW S, NEW s \in Seq(S), s # <<>>, NEW p \in S, NEW q \in S
  PROVE  LET t == SubSeq(s, 1, Len(s) - 1) \o <<p, q>>
         IN  /\ t \in Seq(S) /\ Len(t) = Len(s) + 1
             /\ \A k \in 1..(Len(s) + 1) :
                  t[k] = IF k = Len(s) + 1 THEN q
                         ELSE IF k = Len(s) THEN p ELSE s[k]
<1>1. Len(s) \in Nat /\ Len(s) > 0
  BY EmptySeq
<1> DEFINE u == SubSeq(s, 1, Len(s) - 1)
<1>2. u \in Seq(S) /\ Len(u) = Len(s) - 1 /\ \A k \in 1..(Len(s) - 1) : u[k] = s[k]
  BY OffTop
<1>3. /\ <<p, q>> \in Seq(S) /\ Len(<<p, q>>) = 2
      /\ <<p, q>>[1] = p /\ <<p, q>>[2] = q
  OBVIOUS
<1> HIDE DEF u
<1> DEFINE v == <<p, q>>
<1> HIDE DEF v
<1>4. u \o v \in Seq(S) /\ Len(u \o v) = Len(s) + 1
      /\ \A k \in 1..(Len(s) + 1) :
           (u \o v)[k] = IF k < Len(s) THEN u[k] ELSE v[k - (Len(s) - 1)]
  BY <1>1, <1>2, <1>3, ConcatProperties DEF v
<1>5. \A k \in 1..(Len(s) + 1) :
        (u \o v)[k] = IF k = Len(s) + 1 THEN q ELSE IF k = Len(s) THEN p ELSE s[k]
  BY <1>1, <1>2, <1>3, <1>4 DEF v
<1> QED
  BY <1>4, <1>5 DEF u, v

-----------------------------------------------------------------------------
(* Reachable buses.                                                        *)

(* They hold where the scan starts, what is behind their bridges, and      *)
(* nothing that can be done without.                                       *)
LEMMA ReachableIs ==
  ASSUME NEW roots
  PROVE  /\ roots \subseteq ReachableBuses(roots)
         /\ Behind(ReachableBuses(roots)) \subseteq ReachableBuses(roots)
         /\ \A S : roots \subseteq S /\ Behind(S) \subseteq S
                     => ReachableBuses(roots) \subseteq S
<1> DEFINE known == roots \cup {topology.secondary[b] : b \in topology.bridges}
<1>1. \A b : b \in ReachableBuses(roots) <=>
               /\ b \in known
               /\ \A S \in SUBSET known :
                    roots \subseteq S /\ Behind(S) \subseteq S => b \in S
  BY DEF ReachableBuses
<1>2. \A S : Behind(S) \subseteq known
  BY DEF Behind
<1>3. \A S, T : S \subseteq T => Behind(S) \subseteq Behind(T)
  BY DEF Behind
<1> HIDE DEF known
<1>4. roots \subseteq ReachableBuses(roots)
  BY <1>1 DEF known
<1>5. ASSUME NEW b \in Behind(ReachableBuses(roots)) PROVE b \in ReachableBuses(roots)
  <2>1. ASSUME NEW S \in SUBSET known, roots \subseteq S, Behind(S) \subseteq S
        PROVE  b \in S
    <3>1. ReachableBuses(roots) \subseteq S
      BY <1>1, <2>1
    <3> QED
      BY <1>3, <1>5, <2>1, <3>1
  <2> QED
    BY <1>1, <1>2, <1>5, <2>1
<1>6. ASSUME NEW S, roots \subseteq S, Behind(S) \subseteq S
      PROVE  ReachableBuses(roots) \subseteq S
  <2>1. roots \subseteq S \cap known /\ Behind(S \cap known) \subseteq S \cap known
    BY <1>2, <1>3, <1>6 DEF known
  <2> QED
    BY <1>1, <2>1
<1> QED
  BY <1>4, <1>5, <1>6

-----------------------------------------------------------------------------
(* Steps of the scan.                                                      *)

(* The machine is one of those assumed.                                    *)
LEMMA MachineIs ==
  ASSUME topology \in Topologies
  PROVE  /\ topology.present \subseteq Location
         /\ topology.multi \cup topology.bridges \cup topology.xhc
              \cup topology.ehci \cup topology.intel \subseteq topology.present
         /\ topology.xhc \cap topology.ehci = {}
         /\ \A x \in topology.bridges : topology.secondary[x] \in Buses
  BY TopologyAssumption

(* Functions of one machine are told apart by where they are.              *)
LEMMA SamePlace ==
  ASSUME topology \in Topologies,
         NEW x \in topology.present, NEW at \in Position,
         x.bus = at.bus, x.device = at.device, x.function = at.function
  PROVE  x = at
<1>1. x \in Location
  BY MachineIs
<1> QED
  BY <1>1 DEF Location, Position

(* The last position on the stack, and where the scan goes on after it:    *)
(* nothing that ought to be found lies between the two (pci.cpp:102-126).  *)
LEMMA AfterIs ==
  ASSUME ScanTypeOK, SeenInv, Scanning, ~AtEnd
  PROVE  /\ Len(stack) \in DOMAIN stack /\ Top \in Position
         /\ After(Top) \in Position /\ After(Top).bus = Top.bus
         /\ Before(Top, After(Top))
         /\ \A x \in topology.present : Before(x, Top) => Before(x, After(Top))
         /\ \A x : Sought(x, Top.bus) /\ Before(x, After(Top))
                     => Before(x, Top) \/ x = Top
         /\ After(Top).function > 0 =>
              /\ Has(Top.bus, After(Top).device, 0)
              /\ ~IsSingleFunctionDevice(Top.bus, After(Top).device)
         /\ Top \in topology.present => Visible(Top)
<1> DEFINE at == Top
<1>1. Len(stack) \in DOMAIN stack /\ at \in Position
  <2>1. Len(stack) \in Nat /\ Len(stack) > 0
    BY EmptySeq DEF ScanTypeOK, Scanning
  <2> QED
    BY <2>1 DEF ScanTypeOK, Top
<1>2. at.function > 0 => /\ Has(at.bus, at.device, 0)
                         /\ ~IsSingleFunctionDevice(at.bus, at.device)
  BY <1>1 DEF SeenInv, Top
<1>3. at.device \in 0..(Devices - 1) /\ at.function \in 0..(Functions - 1)
      /\ at.bus \in Buses
  BY <1>1, SizeAssumption DEF AtEnd, Position
<1>4. \A x \in topology.present : /\ x.device \in 0..(Devices - 1)
                                  /\ x.function \in 0..(Functions - 1)
  BY MachineIs DEF ScanTypeOK, Location
<1>5. \A x \in topology.present :
        x.bus = at.bus /\ x.device = at.device /\ x.function = at.function => x = at
  BY <1>1, SamePlace DEF ScanTypeOK
<1>6. at \in topology.present => Visible(at)
  <2> SUFFICES ASSUME at \in topology.present PROVE Visible(at)
    OBVIOUS
  <2>1. CASE at.function = 0
    <3>1. at = At(at.bus, at.device, 0)
      BY <1>1, <2>1 DEF At, Position
    <3> QED
      BY <2>1, <3>1 DEF Visible, Has
  <2>2. CASE at.function > 0
    BY <1>2, <2>2 DEF Visible
  <2> QED
    BY <1>3, <2>1, <2>2
<1> HIDE DEF at
<1>7. CASE ~Has(at.bus, at.device, 0) \/ IsSingleFunctionDevice(at.bus, at.device)
  <2>1. After(at) = At(at.bus, at.device + 1, 0) /\ at.function = 0
    BY <1>2, <1>3, <1>7 DEF After, NextDevice
  <2>2. /\ After(at) \in Position /\ After(at).bus = at.bus
        /\ After(at).device = at.device + 1 /\ After(at).function = 0
    BY <1>3, <2>1, SizeAssumption DEF At, Position
  <2>3. \A x \in topology.present : Before(x, at) => Before(x, After(at))
    BY <1>3, <1>4, <2>2 DEF Before
  <2>4. ASSUME NEW x, Sought(x, at.bus), Before(x, After(at))
        PROVE  Before(x, at) \/ x = at
    <3>1. x \in topology.present /\ x.bus = at.bus /\ Visible(x)
          /\ x.device < at.device + 1
      BY <1>4, <2>2, <2>4 DEF Sought, Before
    <3>2. CASE x.device < at.device
      BY <3>1, <3>2 DEF Before
    <3>3. CASE x.device = at.device
      <4>1. x.function = 0
        BY <1>7, <3>1, <3>3 DEF Visible
      <4> QED
        BY <1>5, <2>1, <3>1, <3>3, <4>1
    <3> QED
      BY <1>3, <1>4, <3>1, <3>2, <3>3
  <2> QED
    BY <1>1, <1>3, <1>6, <2>2, <2>3, <2>4 DEF at, Before
<1>8. CASE /\ Has(at.bus, at.device, 0)
           /\ ~IsSingleFunctionDevice(at.bus, at.device)
  <2>1. After(at) = IF at.function + 1 = Functions THEN At(at.bus, at.device + 1, 0)
                    ELSE At(at.bus, at.device, at.function + 1)
    BY <1>8 DEF After, NextFunction, NextDevice
  <2>2. /\ After(at) \in Position /\ After(at).bus = at.bus
        /\ \/ /\ After(at).device = at.device + 1 /\ After(at).function = 0
              /\ at.function + 1 = Functions
           \/ /\ After(at).device = at.device
              /\ After(at).function = at.function + 1
    BY <1>3, <2>1, SizeAssumption DEF At, Position
  <2>3. \A x \in topology.present : Before(x, at) => Before(x, After(at))
    BY <1>3, <1>4, <2>2 DEF Before
  <2>4. ASSUME NEW x, Sought(x, at.bus), Before(x, After(at))
        PROVE  Before(x, at) \/ x = at
    <3>1. x \in topology.present /\ x.bus = at.bus
      BY <2>4 DEF Sought
    <3>2. x.device < at.device \/ (x.device = at.device /\ x.function <= at.function)
      BY <1>3, <1>4, <2>2, <2>4, <3>1, SizeAssumption DEF Before
    <3> QED
      BY <1>3, <1>4, <1>5, <3>1, <3>2 DEF Before
  <2> QED
    BY <1>1, <1>3, <1>6, <1>8, <2>2, <2>3, <2>4 DEF at, Before
<1> QED
  BY <1>7, <1>8

(* The machine does not change, nor what there is to find on it.           *)
LEMMA SameMachine ==
  ASSUME UNCHANGED topology
  PROVE  /\ \A b, d, f : Has(b, d, f)' <=> Has(b, d, f)
         /\ \A b, d : IsSingleFunctionDevice(b, d)' <=> IsSingleFunctionDevice(b, d)
         /\ \A x, b : Sought(x, b)' <=> Sought(x, b)
         /\ Roots' = Roots
         /\ ReachableBuses(Roots)' = ReachableBuses(Roots)
         /\ Reachable(Roots)' = Reachable(Roots)
         /\ IsTree' <=> IsTree
<1> USE DEF Has, IsSingleFunctionDevice, Visible
<1>1. /\ \A b, d, f : Has(b, d, f)' <=> Has(b, d, f)
      /\ \A b, d : IsSingleFunctionDevice(b, d)' <=> IsSingleFunctionDevice(b, d)
      /\ \A x, b : Sought(x, b)' <=> Sought(x, b)
  BY DEF Sought
<1>2. Roots' = Roots
  BY DEF Roots
<1>3. ReachableBuses(Roots)' = ReachableBuses(Roots)
  BY <1>2 DEF ReachableBuses, Behind
<1>4. Reachable(Roots)' = Reachable(Roots)
  BY <1>3 DEF Reachable
<1>5. IsTree' <=> IsTree
  BY <1>2 DEF IsTree
<1> QED
  BY <1>1, <1>2, <1>3, <1>4, <1>5

(* What is in the table after AddDevice.                                   *)
LEMMA Added ==
  ASSUME ScanTypeOK, NEW x \in topology.present, devices' = Append(devices, x)
  PROVE  /\ devices' \in Seq(topology.present) /\ Len(devices') = Len(devices) + 1
         /\ DOMAIN devices' = 1..(Len(devices) + 1)
         /\ \A i \in DOMAIN devices' :
              devices'[i] = IF i = Len(devices) + 1 THEN x ELSE devices[i]
         /\ Found' = Found \cup {x}
<1>1. devices \in Seq(topology.present) /\ DOMAIN devices = 1..Len(devices)
      /\ Len(devices) \in Nat
  BY DEF ScanTypeOK
<1>2. /\ devices' \in Seq(topology.present) /\ Len(devices') = Len(devices) + 1
      /\ DOMAIN devices' = 1..(Len(devices) + 1)
      /\ \A i \in 1..(Len(devices) + 1) :
           devices'[i] = IF i = Len(devices) + 1 THEN x ELSE devices[i]
  BY <1>1, AppendProperties
<1>3. Found' = {devices'[i] : i \in DOMAIN devices'}
  BY DEF Found
<1>4. \A y \in Found \cup {x} : \E i \in DOMAIN devices' : y = devices'[i]
  BY <1>1, <1>2 DEF Found
<1>5. \A i \in DOMAIN devices' : devices'[i] \in Found \cup {x}
  BY <1>1, <1>2 DEF Found
<1> QED
  BY <1>2, <1>3, <1>4, <1>5

(* The position on top goes on to After(Top), what is there having been    *)
(* found.                                                                  *)
Advances ==
  /\ Scanning /\ ~AtEnd /\ UNCHANGED topology
  /\ stack' \in Seq(Position) /\ Len(stack') >= Len(stack)
  /\ \A k \in DOMAIN stack :
       stack'[k] = IF k = Len(stack) THEN After(Top) ELSE stack[k]
  /\ Found \subseteq Found' /\ (Top \in topology.present => Top \in Found')

(* It leaves no bus behind that was covered.                               *)
LEMMA AdvanceCovers ==
  ASSUME ScanTypeOK, SeenInv, Advances
  PROVE  \A b : Covered(b) => Covered(b)'
<1> SUFFICES ASSUME NEW b, Covered(b) PROVE Covered(b)'
  OBVIOUS
<1>1. \A x : Sought(x, b)' <=> Sought(x, b)
  BY SameMachine DEF Advances
<1>2. CASE \A x : Sought(x, b) => x \in Found
  BY <1>1, <1>2 DEF Covered, Advances
<1>3. CASE \E k \in DOMAIN stack :
             /\ stack[k].bus = b
             /\ \A x : Sought(x, b) /\ Before(x, stack[k]) => x \in Found
  <2>1. PICK k \in DOMAIN stack :
               /\ stack[k].bus = b
               /\ \A x : Sought(x, b) /\ Before(x, stack[k]) => x \in Found
    BY <1>3
  <2>2. k \in DOMAIN stack' /\ Len(stack) \in Nat
    BY DEF Advances, ScanTypeOK
  <2>3. CASE k # Len(stack)
    <3>1. stack'[k] = stack[k]
      BY <2>3 DEF Advances
    <3> QED
      BY <1>1, <2>1, <2>2, <3>1 DEF Covered, Advances, Before
  <2>4. CASE k = Len(stack)
    <3>1. stack'[k] = After(Top) /\ stack[k] = Top
      BY <2>4 DEF Advances, Top
    <3>2. After(Top).bus = b
      BY <2>1, <3>1, AfterIs DEF Advances
    <3>3. ASSUME NEW x, Sought(x, b), Before(x, After(Top)) PROVE x \in Found'
      <4>1. Before(x, Top) \/ x = Top
        BY <2>1, <3>1, <3>3, AfterIs DEF Advances
      <4>2. x \in topology.present
        BY <3>3 DEF Sought
      <4> QED
        BY <2>1, <3>1, <3>3, <4>1, <4>2 DEF Advances
    <3> QED
      BY <1>1, <2>2, <3>1, <3>2, <3>3 DEF Covered, Before
  <2> QED
    BY <2>3, <2>4
<1> QED
  BY <1>2, <1>3 DEF Covered

(* The positions below the new top can be seen.                            *)
LEMMA AdvanceSees ==
  ASSUME ScanTypeOK, SeenInv, Advances, NEW k \in DOMAIN stack
  PROVE  /\ stack'[k].bus \in ReachableBuses(Roots)
         /\ stack'[k].function > 0 =>
              /\ Has(stack'[k].bus, stack'[k].device, 0)
              /\ ~IsSingleFunctionDevice(stack'[k].bus, stack'[k].device)
<1>1. CASE k # Len(stack)
  BY <1>1 DEF Advances, SeenInv
<1>2. CASE k = Len(stack)
  <2>1. stack'[k] = After(Top) /\ stack[k] = Top
    BY <1>2 DEF Advances, Top
  <2> QED
    BY <2>1, AfterIs DEF Advances, SeenInv
<1> QED
  BY <1>1, <1>2

(* What was found stays before the positions on the stack.                 *)
LEMMA AdvanceOnce ==
  ASSUME ScanTypeOK, SeenInv, OnceInv, Advances, Found' \subseteq Found \cup {Top}
  PROVE  /\ \A k \in DOMAIN stack : stack'[k].bus = stack[k].bus
         /\ \A x \in Found', k \in DOMAIN stack :
              x.bus = stack'[k].bus => Before(x, stack'[k])
<1>1. Found \subseteq topology.present
  BY DEF ScanTypeOK, Found
<1>2. \A k \in DOMAIN stack : k = Len(stack) => stack[k] = Top /\ stack'[k] = After(Top)
  BY DEF Advances, Top
<1>3. \A k \in DOMAIN stack : stack'[k].bus = stack[k].bus
  BY <1>2, AfterIs DEF Advances
<1>4. ASSUME NEW x \in Found', NEW k \in DOMAIN stack, x.bus = stack'[k].bus
      PROVE  Before(x, stack'[k])
  <2>1. CASE k # Len(stack)
    <3>1. x # Top
      BY <1>3, <1>4, <2>1, AfterIs DEF OnceInv, Top, Advances
    <3> QED
      BY <1>4, <2>1, <3>1 DEF OnceInv, Advances
  <2>2. CASE k = Len(stack)
    BY <1>1, <1>2, <1>3, <1>4, <2>2, AfterIs DEF OnceInv, Advances
  <2> QED
    BY <2>1, <2>2
<1> QED
  BY <1>3, <1>4

(* Nothing at the position: it is left.                                    *)
LEMMA SkipStep == ScanInv /\ Skip => ScanInv'
<1> SUFFICES ASSUME ScanInv, Skip PROVE ScanInv'
  OBVIOUS
<1> USE DEF ScanInv
<1>1. /\ Scanning /\ ~AtEnd /\ Top \notin topology.present
      /\ stack' = Append(Under, After(Top))
      /\ UNCHANGED <<topology, devices, host, pc, full>>
  BY DEF Skip
<1>2. After(Top) \in Position /\ Len(stack) \in DOMAIN stack
  BY <1>1, AfterIs
<1>3. /\ stack' \in Seq(Position) /\ Len(stack') = Len(stack)
      /\ DOMAIN stack' = DOMAIN stack
      /\ \A k \in DOMAIN stack :
           stack'[k] = IF k = Len(stack) THEN After(Top) ELSE stack[k]
  <2>1. stack \in Seq(Position) /\ stack # <<>>
    BY <1>1 DEF ScanTypeOK, Scanning
  <2> QED
    BY <1>1, <1>2, <2>1, OnTop DEF Under
<1>4. Found' = Found
  BY <1>1 DEF Found
<1>5. Advances
  BY <1>1, <1>3, <1>4 DEF Advances, ScanTypeOK
<1>6. ScanTypeOK'
  BY <1>1, <1>3 DEF ScanTypeOK
<1>7. HostInv'
  <2>1. IsSingleFunctionDevice(0, 0)' <=> IsSingleFunctionDevice(0, 0)
    BY <1>1, SameMachine
  <2> QED
    BY <1>1, <2>1 DEF HostInv, Scanning
<1>8. CoverInv'
  <2>1. Started' = Started
    BY <1>1, SameMachine DEF Started
  <2> QED
    BY <1>1, <1>4, <1>5, <2>1, AdvanceCovers DEF CoverInv
<1>9. SeenInv'
  BY <1>1, <1>3, <1>4, <1>5, AdvanceSees, SameMachine DEF SeenInv
<1>10. IsTree' => OnceInv'
  <2> SUFFICES ASSUME IsTree, OnceInv PROVE OnceInv'
    BY <1>1, SameMachine
  <2>1. /\ \A k \in DOMAIN stack : stack'[k].bus = stack[k].bus
        /\ \A x \in Found, k \in DOMAIN stack :
             x.bus = stack'[k].bus => Before(x, stack'[k])
    BY <1>4, <1>5, AdvanceOnce
  <2>2. \A b : Used(b)' => Used(b)
    BY <1>3, <1>4, <2>1 DEF Used
  <2>3. Started' = Started
    BY <1>1, SameMachine DEF Started
  <2> QED
    BY <1>1, <1>3, <1>4, <2>1, <2>2, <2>3 DEF OnceInv, Before
<1> QED
  BY <1>6, <1>7, <1>8, <1>9, <1>10

(* All devices of a bus were looked at: it is done.                        *)
LEMMA ReturnStep == ScanInv /\ Return => ScanInv'
<1> SUFFICES ASSUME ScanInv, Return PROVE ScanInv'
  OBVIOUS
<1> USE DEF ScanInv
<1>1. /\ Scanning /\ Top.device = Devices /\ stack' = Under
      /\ UNCHANGED <<topology, devices, host, pc, full>>
  BY DEF Return, AtEnd
<1>2. /\ stack' \in Seq(Position) /\ Len(stack') = Len(stack) - 1
      /\ DOMAIN stack' = DOMAIN stack \ {Len(stack)}
      /\ \A k \in DOMAIN stack' : stack'[k] = stack[k]
  <2>1. stack \in Seq(Position) /\ stack # <<>>
    BY <1>1 DEF ScanTypeOK, Scanning
  <2>2. /\ stack' \in Seq(Position) /\ Len(stack') = Len(stack) - 1
        /\ \A k \in 1..(Len(stack) - 1) : stack'[k] = stack[k]
    BY <1>1, <2>1, OffTop DEF Under
  <2>3. DOMAIN stack = 1..Len(stack) /\ Len(stack) \in Nat /\ Len(stack) > 0
    BY <2>1, EmptySeq
  <2>4. DOMAIN stack' = 1..(Len(stack) - 1)
    BY <2>2
  <2> QED
    BY <2>2, <2>3, <2>4
<1>3. Found' = Found
  BY <1>1 DEF Found
<1>4. ScanTypeOK'
  BY <1>1, <1>2 DEF ScanTypeOK
<1>5. HostInv'
  <2>1. IsSingleFunctionDevice(0, 0)' <=> IsSingleFunctionDevice(0, 0)
    BY <1>1, SameMachine
  <2> QED
    BY <1>1, <2>1 DEF HostInv, Scanning
<1>6. \A b : Covered(b) => Covered(b)'
  <2> SUFFICES ASSUME NEW b, Covered(b) PROVE Covered(b)'
    OBVIOUS
  <2>1. \A x : Sought(x, b)' <=> Sought(x, b)
    BY <1>1, SameMachine
  <2>2. CASE \A x : Sought(x, b) => x \in Found
    BY <1>3, <2>1, <2>2 DEF Covered
  <2>3. ASSUME NEW k \in DOMAIN stack, stack[k].bus = b,
               \A x : Sought(x, b) /\ Before(x, stack[k]) => x \in Found
        PROVE  Covered(b)'
    <3>1. CASE k = Len(stack)
      <4>1. stack[k].device = Devices
        BY <1>1, <3>1 DEF Top
      <4>2. \A x \in topology.present : x.device \in 0..(Devices - 1)
        BY MachineIs DEF ScanTypeOK, Location
      <4>3. \A x : Sought(x, b) => Before(x, stack[k])
        BY <2>3, <4>1, <4>2, SizeAssumption DEF Sought, Before
      <4> QED
        BY <1>3, <2>1, <2>3, <4>3 DEF Covered
    <3>2. CASE k # Len(stack)
      BY <1>2, <1>3, <2>1, <2>3, <3>2 DEF Covered, Before
    <3> QED
      BY <3>1, <3>2
  <2> QED
    BY <2>2, <2>3 DEF Covered
<1>7. CoverInv'
  <2>1. Started' = Started
    BY <1>1, SameMachine DEF Started
  <2> QED
    BY <1>1, <1>3, <1>6, <2>1 DEF CoverInv
<1>8. SeenInv'
  BY <1>1, <1>2, <1>3, SameMachine DEF SeenInv
<1>9. IsTree' => OnceInv'
  <2> SUFFICES ASSUME IsTree, OnceInv PROVE OnceInv'
    BY <1>1, SameMachine
  <2>1. \A b : Used(b)' => Used(b)
    BY <1>2, <1>3 DEF Used
  <2>2. Started' = Started
    BY <1>1, SameMachine DEF Started
  <2> QED
    BY <1>1, <1>2, <1>3, <2>1, <2>2 DEF OnceInv, Before
<1> QED
  BY <1>4, <1>5, <1>7, <1>8, <1>9

(* A function is there: it is found, and what is behind a bridge is begun. *)
LEMMA FunctionStep == ScanInv /\ ScanFunction => ScanInv'
<1> SUFFICES ASSUME ScanInv, ScanFunction PROVE ScanInv'
  OBVIOUS
<1> USE DEF ScanInv
<1>1. /\ Scanning /\ ~AtEnd /\ Top \in topology.present
      /\ UNCHANGED <<topology, host>>
  BY DEF ScanFunction
<1>2. CASE /\ Len(devices) = TableSize /\ full' = TRUE /\ pc' = "choose"
           /\ UNCHANGED <<devices, stack>>
  <2>1. IsSingleFunctionDevice(0, 0)' <=> IsSingleFunctionDevice(0, 0)
    BY <1>1, SameMachine
  <2>2. ScanTypeOK' /\ HostInv' /\ CoverInv'
    BY <1>1, <1>2, <2>1 DEF ScanTypeOK, HostInv, CoverInv
  <2>3. Found' = Found
    BY <1>2 DEF Found
  <2>4. SeenInv'
    BY <1>1, <1>2, <2>3, SameMachine DEF SeenInv
  <2>5. Started' = Started
    BY <1>1, SameMachine DEF Started
  <2>6. IsTree' => OnceInv'
    BY <1>1, <1>2, <2>3, <2>5, SameMachine DEF OnceInv, Used, Before
  <2> QED
    BY <2>2, <2>4, <2>6
<1>3. CASE /\ Len(devices) < TableSize /\ devices' = Append(devices, Top)
           /\ UNCHANGED <<pc, full>>
           /\ stack' = IF Top \in topology.bridges
                       THEN Under \o <<After(Top), At(topology.secondary[Top], 0, 0)>>
                       ELSE Append(Under, After(Top))
  <2> DEFINE begun == At(topology.secondary[Top], 0, 0)
  <2>1. /\ devices' \in Seq(topology.present) /\ Len(devices') = Len(devices) + 1
        /\ DOMAIN devices' = 1..(Len(devices) + 1)
        /\ \A i \in DOMAIN devices' :
             devices'[i] = IF i = Len(devices) + 1 THEN Top ELSE devices[i]
        /\ Found' = Found \cup {Top}
    BY <1>1, <1>3, Added
  <2>2. /\ After(Top) \in Position /\ Len(stack) \in DOMAIN stack
        /\ Top \in Position /\ Visible(Top)
    BY <1>1, AfterIs
  <2>3. /\ Top \in topology.bridges => topology.secondary[Top] \in Buses
        /\ Top \in topology.bridges =>
             /\ begun \in Position /\ begun.bus = topology.secondary[Top]
             /\ begun.device = 0 /\ begun.function = 0
    BY MachineIs, SizeAssumption DEF ScanTypeOK, At, Position
  <2> HIDE DEF begun
  <2>4. stack \in Seq(Position) /\ stack # <<>> /\ DOMAIN stack = 1..Len(stack)
        /\ Len(stack) \in Nat /\ Len(stack) > 0
    BY <1>1, EmptySeq DEF ScanTypeOK, Scanning
  <2>5. /\ stack' \in Seq(Position)
        /\ Len(stack') = Len(stack) + (IF Top \in topology.bridges THEN 1 ELSE 0)
        /\ \A k \in DOMAIN stack :
             stack'[k] = IF k = Len(stack) THEN After(Top) ELSE stack[k]
        /\ Top \in topology.bridges => stack'[Len(stack) + 1] = begun
    <3> DEFINE p == After(Top)
    <3>1. stack \in Seq(Position) /\ stack # <<>> /\ p \in Position
      BY <2>2, <2>4
    <3>2. \A k \in 1..Len(stack) : k \in 1..(Len(stack) + 1) /\ k # Len(stack) + 1
      BY <2>4
    <3>3. Len(stack) + 1 \in 1..(Len(stack) + 1) /\ Len(stack) + 0 = Len(stack)
      BY <2>4
    <3>4. CASE Top \in topology.bridges
      <4>1. stack' = SubSeq(stack, 1, Len(stack) - 1) \o <<p, begun>>
        BY <1>3, <3>4 DEF Under, begun
      <4>2. begun \in Position
        BY <2>3, <3>4
      <4> HIDE DEF p
      <4>3. /\ stack' \in Seq(Position) /\ Len(stack') = Len(stack) + 1
            /\ \A k \in 1..(Len(stack) + 1) :
                 stack'[k] = IF k = Len(stack) + 1 THEN begun
                             ELSE IF k = Len(stack) THEN p ELSE stack[k]
        BY <3>1, <4>1, <4>2, AddTop
      <4> QED
        BY <2>4, <3>2, <3>3, <3>4, <4>3 DEF p
    <3>5. CASE Top \notin topology.bridges
      <4>1. stack' = Append(SubSeq(stack, 1, Len(stack) - 1), p)
        BY <1>3, <3>5 DEF Under
      <4> HIDE DEF p
      <4>2. /\ stack' \in Seq(Position) /\ Len(stack') = Len(stack)
            /\ \A k \in 1..Len(stack) : stack'[k] = IF k = Len(stack) THEN p ELSE stack[k]
        BY <3>1, <4>1, OnTop
      <4> QED
        BY <2>4, <3>3, <3>5, <4>2 DEF p
    <3> QED
      BY <3>4, <3>5
  <2>6. Advances
    BY <1>1, <2>1, <2>4, <2>5 DEF Advances
  <2>7. \A k \in DOMAIN stack' : k \in DOMAIN stack
          \/ (Top \in topology.bridges /\ k = Len(stack) + 1)
    BY <2>4, <2>5
  <2>8. Top \in topology.bridges => Len(stack) + 1 \in DOMAIN stack'
    BY <2>4, <2>5
  <2>9. DOMAIN stack \subseteq DOMAIN stack'
    BY <2>4, <2>5
  <2>10. ScanTypeOK'
    BY <1>1, <1>3, <2>1, <2>5, SizeAssumption DEF ScanTypeOK
  <2>11. HostInv'
    <3>1. IsSingleFunctionDevice(0, 0)' <=> IsSingleFunctionDevice(0, 0)
      BY <1>1, SameMachine
    <3> QED
      BY <1>1, <1>3, <3>1 DEF HostInv, Scanning
  <2>12. Started' = Started
    BY <1>1, SameMachine DEF Started
  <2>13. ASSUME Top \in topology.bridges, NEW b, b = topology.secondary[Top]
         PROVE  Covered(b)'
    <3>1. \A x : Sought(x, b)' <=> Sought(x, b)
      BY <1>1, SameMachine
    <3>2. \A x \in topology.present : x.device \in Nat /\ x.function \in Nat
      BY MachineIs DEF ScanTypeOK, Location
    <3>3. \A x : ~(Sought(x, b) /\ Before(x, begun))
      BY <2>3, <2>13, <3>2 DEF Sought, Before
    <3>4. /\ Len(stack) + 1 \in DOMAIN stack' /\ stack'[Len(stack) + 1] = begun
          /\ begun.bus = b
      BY <2>3, <2>5, <2>8, <2>13
    <3> QED
      BY <3>1, <3>3, <3>4 DEF Covered, Before
  <2>14. CoverInv'
    <3> SUFFICES ASSUME ~full PROVE CoverInv'
      BY <1>3 DEF CoverInv
    <3>1. \A b : Covered(b) => Covered(b)'
      BY <2>6, AdvanceCovers
    <3>2. \A b \in Started' : Covered(b)'
      BY <2>12, <3>1 DEF CoverInv
    <3>3. \A x \in (Found \cup {Top}) \cap topology.bridges :
            \A b : b = topology.secondary[x] => Covered(b)'
      BY <2>13, <3>1 DEF CoverInv
    <3> QED
      BY <1>1, <2>1, <3>2, <3>3 DEF CoverInv
  <2>15. SeenInv'
    <3>1. Top.bus \in ReachableBuses(Roots)
      BY <2>2 DEF SeenInv, Top
    <3>2. Top \in Reachable(Roots)
      BY <1>1, <2>2, <3>1 DEF Reachable
    <3>3. Top \in topology.bridges =>
            topology.secondary[Top] \in ReachableBuses(Roots)
      BY <2>2, <3>1, ReachableIs DEF Behind
    <3>4. \A k \in DOMAIN stack' :
             /\ stack'[k].bus \in ReachableBuses(Roots)
             /\ stack'[k].function > 0 =>
                  /\ Has(stack'[k].bus, stack'[k].device, 0)
                  /\ ~IsSingleFunctionDevice(stack'[k].bus, stack'[k].device)
      <4> SUFFICES ASSUME NEW k \in DOMAIN stack'
                   PROVE  /\ stack'[k].bus \in ReachableBuses(Roots)
                          /\ stack'[k].function > 0 =>
                               /\ Has(stack'[k].bus, stack'[k].device, 0)
                               /\ ~IsSingleFunctionDevice(stack'[k].bus,
                                                          stack'[k].device)
        OBVIOUS
      <4>1. CASE k \in DOMAIN stack
        BY <2>6, <4>1, AdvanceSees
      <4>2. CASE Top \in topology.bridges /\ k = Len(stack) + 1
        BY <2>3, <2>5, <3>3, <4>2
      <4> QED
        BY <2>7, <4>1, <4>2
    <3>5. Found' \subseteq Reachable(Roots)
      BY <2>1, <3>2 DEF SeenInv
    <3> QED
      BY <1>1, <3>4, <3>5, SameMachine DEF SeenInv
  <2>16. IsTree' => OnceInv'
    <3> SUFFICES ASSUME IsTree, OnceInv PROVE OnceInv'
      BY <1>1, SameMachine
    <3>1. /\ \A k \in DOMAIN stack : stack'[k].bus = stack[k].bus
          /\ \A x \in Found', k \in DOMAIN stack :
               x.bus = stack'[k].bus => Before(x, stack'[k])
      BY <2>1, <2>6, AdvanceOnce
    <3>2. Top \notin Found
      <4>1. ~Before(Top, Top)
        BY <2>2 DEF Before, Position
      <4> QED
        BY <2>2, <4>1 DEF OnceInv, Top
    <3>3. Top \in topology.bridges => ~Used(topology.secondary[Top])
      <4> SUFFICES ASSUME Top \in topology.bridges, Used(topology.secondary[Top])
                   PROVE  FALSE
        OBVIOUS
      <4>1. \/ topology.secondary[Top] \in Started
            \/ \E y \in Found \cap topology.bridges :
                 topology.secondary[y] = topology.secondary[Top]
        BY DEF OnceInv
      <4>2. topology.secondary[Top] \notin Started
        BY DEF IsTree, Started
      <4> QED
        BY <3>2, <4>1, <4>2 DEF IsTree
    <3>4. \A x \in Found : Used(x.bus)
      BY DEF Used
    <3>5. Used(Top.bus)
      BY <2>2 DEF Used, Top
    <3>6. \A k \in DOMAIN stack : Used(stack[k].bus)
      BY DEF Used
    <3>7. \A i, j \in DOMAIN devices' : devices'[i] = devices'[j] => i = j
      <4>1. Len(devices) \in Nat /\ \A i \in DOMAIN devices : devices[i] \in Found
        BY DEF ScanTypeOK, Found
      <4>2. \A i \in DOMAIN devices' : i \in DOMAIN devices \/ i = Len(devices) + 1
        BY <2>1, <4>1 DEF ScanTypeOK
      <4>3. Len(devices) + 1 \notin DOMAIN devices
        BY <4>1 DEF ScanTypeOK
      <4> QED
        BY <2>1, <3>2, <4>1, <4>2, <4>3 DEF OnceInv
    <3>8. \A k, l \in DOMAIN stack' : stack'[k].bus = stack'[l].bus => k = l
      <4>1. \A k, l \in DOMAIN stack : stack'[k].bus = stack'[l].bus => k = l
        BY <3>1 DEF OnceInv
      <4>2. Top \in topology.bridges => \A k \in DOMAIN stack :
              stack'[k].bus # stack'[Len(stack) + 1].bus
        BY <2>3, <2>5, <3>1, <3>3, <3>6
      <4> QED
        BY <2>7, <4>1, <4>2
    <3>9. \A x \in Found', k \in DOMAIN stack' :
            x.bus = stack'[k].bus => Before(x, stack'[k])
      <4>1. Top \in topology.bridges => \A x \in Found' :
              x.bus # stack'[Len(stack) + 1].bus
        BY <2>1, <2>3, <2>5, <3>3, <3>4, <3>5
      <4> QED
        BY <2>7, <3>1, <4>1
    <3>10. ASSUME NEW b, Used(b)'
           PROVE  \/ b \in Started
                  \/ \E y \in Found' \cap topology.bridges : topology.secondary[y] = b
      <4>1. Used(b) \/ (Top \in topology.bridges /\ b = topology.secondary[Top])
        <5>1. CASE \E k \in DOMAIN stack' : stack'[k].bus = b
          BY <2>3, <2>5, <2>7, <3>1, <3>6, <5>1
        <5>2. CASE \E x \in Found' : x.bus = b
          BY <2>1, <3>4, <3>5, <5>2
        <5> QED
          BY <3>10, <5>1, <5>2 DEF Used
      <4> QED
        BY <2>1, <4>1 DEF OnceInv
    <3> QED
      BY <1>1, <2>12, <3>7, <3>8, <3>9, <3>10 DEF OnceInv, Before
  <2> QED
    BY <2>10, <2>11, <2>14, <2>15, <2>16
<1> QED
  BY <1>1, <1>2, <1>3 DEF ScanFunction

(* The next function of the host bridge: its bus is begun.                 *)
LEMMA NextHostBridgeStep == ScanInv /\ NextHostBridge => ScanInv'
<1> SUFFICES ASSUME ScanInv, NextHostBridge PROVE ScanInv'
  OBVIOUS
<1> USE DEF ScanInv
<1>1. /\ pc = "scan" /\ stack = <<>> /\ host \in 1..(Functions - 1)
      /\ stack' = IF Has(0, 0, host) THEN <<At(host, 0, 0)>> ELSE <<>>
      /\ host' = host + 1
      /\ UNCHANGED <<topology, devices, pc, full>>
  BY DEF NextHostBridge
<1>2. Found' = Found
  BY <1>1 DEF Found
<1>3. ~IsSingleFunctionDevice(0, 0)
  BY <1>1 DEF HostInv
<1>4. At(host, 0, 0) \in Position /\ At(host, 0, 0).bus = host
      /\ At(host, 0, 0).device = 0 /\ At(host, 0, 0).function = 0
  BY <1>1, SizeAssumption DEF At, Position, Buses
<1>5. /\ stack' \in Seq(Position)
      /\ \A k \in DOMAIN stack' : /\ k = 1 /\ Has(0, 0, host)
                                  /\ stack'[k] = At(host, 0, 0)
      /\ Has(0, 0, host) => 1 \in DOMAIN stack' /\ stack'[1] = At(host, 0, 0)
  <2> DEFINE p == At(host, 0, 0)
  <2>1. p \in Position
    BY <1>4
  <2> HIDE DEF p
  <2>2. stack' = IF Has(0, 0, host) THEN <<p>> ELSE <<>>
    BY <1>1 DEF p
  <2> QED
    BY <2>1, <2>2 DEF p
<1>6. ScanTypeOK'
  BY <1>1, <1>5, SizeAssumption DEF ScanTypeOK
<1>7. HostInv'
  <2>1. IsSingleFunctionDevice(0, 0)' <=> IsSingleFunctionDevice(0, 0)
    BY <1>1, SameMachine
  <2> QED
    BY <1>1, <1>3, <2>1 DEF HostInv
<1>8. Has(0, 0, host) => host \in Roots
  BY <1>1, <1>3 DEF Roots
<1>9. \A b : b \in Started' <=> b \in Started \/ (Has(0, 0, host) /\ b = host)
  <2>1. (IsSingleFunctionDevice(0, 0)' <=> IsSingleFunctionDevice(0, 0)) /\ Roots' = Roots
    BY <1>1, SameMachine
  <2>2. \A b : b \in Started' <=> b \in Roots /\ b < host + 1
    BY <1>1, <1>3, <2>1 DEF Started
  <2>3. \A b \in Roots : b \in 1..(Functions - 1) /\ Has(0, 0, b)
    BY <1>3 DEF Roots
  <2> QED
    BY <1>1, <1>3, <1>8, <2>2, <2>3, SizeAssumption DEF Started
<1>10. CoverInv'
  <2> SUFFICES ASSUME ~full PROVE CoverInv'
    BY <1>1 DEF CoverInv
  <2>1. \A b : Covered(b) => Covered(b)'
    <3> SUFFICES ASSUME NEW b, Covered(b) PROVE Covered(b)'
      OBVIOUS
    <3>1. \A x : Sought(x, b)' <=> Sought(x, b)
      BY <1>1, SameMachine
    <3> QED
      BY <1>1, <1>2, <3>1 DEF Covered
  <2>2. Has(0, 0, host) => \A b : b = host => Covered(b)'
    <3> SUFFICES ASSUME Has(0, 0, host), NEW b, b = host PROVE Covered(b)'
      OBVIOUS
    <3>1. \A x : Sought(x, b)' <=> Sought(x, b)
      BY <1>1, SameMachine
    <3>2. \A x \in topology.present : x.device \in Nat /\ x.function \in Nat
      BY MachineIs DEF ScanTypeOK, Location
    <3>3. \A x : ~(Sought(x, b) /\ Before(x, At(host, 0, 0)))
      BY <1>4, <3>2 DEF Sought, Before
    <3> QED
      BY <1>4, <1>5, <3>1, <3>3 DEF Covered, Before
  <2> QED
    BY <1>1, <1>2, <1>9, <2>1, <2>2 DEF CoverInv
<1>11. SeenInv'
  <2>1. Has(0, 0, host) => host \in ReachableBuses(Roots)
    BY <1>8, ReachableIs
  <2> QED
    BY <1>1, <1>2, <1>4, <1>5, <2>1, SameMachine DEF SeenInv
<1>12. IsTree' => OnceInv'
  <2> SUFFICES ASSUME IsTree, OnceInv PROVE OnceInv'
    BY <1>1, SameMachine
  <2>1. Has(0, 0, host) => ~Used(host)
    <3>1. host \notin Started
      BY <1>1, <1>3 DEF Started
    <3>2. Has(0, 0, host) => ~\E y \in Found \cap topology.bridges :
                                 topology.secondary[y] = host
      BY <1>8 DEF IsTree
    <3> QED
      BY <3>1, <3>2 DEF OnceInv
  <2>2. \A b : Used(b)' => Used(b) \/ (Has(0, 0, host) /\ b = host)
    BY <1>2, <1>4, <1>5 DEF Used
  <2>3. \A x \in Found, k \in DOMAIN stack' : x.bus # stack'[k].bus
    BY <1>4, <1>5, <2>1 DEF Used
  <2> QED
    BY <1>1, <1>2, <1>5, <1>9, <2>2, <2>3 DEF OnceInv, Before
<1> QED
  BY <1>6, <1>7, <1>10, <1>11, <1>12

(* What comes after the scan leaves its result alone.                      *)
LEMMA ResultKept ==
  ASSUME ScanInv, UNCHANGED <<topology, devices, stack, host, full>>,
         pc' \in {"scan", "choose", "found", "ready", "halt"},
         pc' # "scan" /\ ~full => stack = <<>> /\ host \notin 1..(Functions - 1)
  PROVE  ScanInv'
<1> USE DEF ScanInv
<1>1. Found' = Found /\ Started' = Started
  <2>1. Found' = Found
    BY DEF Found
  <2>2. Started' = Started
    BY SameMachine DEF Started
  <2> QED
    BY <2>1, <2>2
<1>2. ScanTypeOK'
  BY DEF ScanTypeOK
<1>3. HostInv'
  <2>1. IsSingleFunctionDevice(0, 0)' <=> IsSingleFunctionDevice(0, 0)
    BY SameMachine
  <2> QED
    BY <2>1 DEF HostInv
<1>4. \A b : Covered(b)' <=> Covered(b)
  <2> SUFFICES ASSUME NEW b PROVE Covered(b)' <=> Covered(b)
    OBVIOUS
  <2>1. \A x : Sought(x, b)' <=> Sought(x, b)
    BY SameMachine
  <2> QED
    BY <1>1, <2>1 DEF Covered, Before
<1>5. CoverInv'
  BY <1>1, <1>4 DEF CoverInv
<1>6. SeenInv'
  BY <1>1, SameMachine DEF SeenInv
<1>7. IsTree' => OnceInv'
  BY <1>1, SameMachine DEF OnceInv, Used, Before
<1> QED
  BY <1>2, <1>3, <1>5, <1>6, <1>7

(* Before its first step the scan has the root bridge ahead of it.         *)
LEMMA ScanInvInit == Init => ScanInv
<1> SUFFICES ASSUME Init PROVE ScanInv
  OBVIOUS
<1>1. /\ topology \in Topologies /\ devices = <<>> /\ pc = "scan" /\ full = FALSE
      /\ IF IsSingleFunctionDevice(0, 0) THEN stack = <<At(0, 0, 0)>> /\ host = 0
         ELSE stack = <<>> /\ host = 1
  BY DEF Init
<1>2. At(0, 0, 0) \in Position /\ At(0, 0, 0).bus = 0
      /\ At(0, 0, 0).device = 0 /\ At(0, 0, 0).function = 0
  BY SizeAssumption DEF At, Position, Buses
<1>3. /\ stack \in Seq(Position)
      /\ \A k \in DOMAIN stack : /\ k = 1 /\ IsSingleFunctionDevice(0, 0)
                                 /\ stack[k] = At(0, 0, 0)
      /\ IsSingleFunctionDevice(0, 0) => 1 \in DOMAIN stack /\ stack[1] = At(0, 0, 0)
  <2> DEFINE p == At(0, 0, 0)
  <2>1. p \in Position
    BY <1>2
  <2> HIDE DEF p
  <2>2. stack = IF IsSingleFunctionDevice(0, 0) THEN <<p>> ELSE <<>>
    BY <1>1 DEF p
  <2> QED
    BY <2>1, <2>2 DEF p
<1>4. Found = {}
  BY <1>1 DEF Found
<1>5. \A b : b \in Started <=> IsSingleFunctionDevice(0, 0) /\ b = 0
  <2>1. CASE IsSingleFunctionDevice(0, 0)
    BY <2>1 DEF Started, Roots
  <2>2. CASE ~IsSingleFunctionDevice(0, 0)
    BY <1>1, <2>2, SizeAssumption DEF Started, Roots
  <2> QED
    BY <2>1, <2>2
<1>6. ScanTypeOK /\ HostInv
  <2>1. devices \in Seq(topology.present) /\ Len(devices) <= TableSize
    BY <1>1, SizeAssumption
  <2>2. host \in 0..Functions
    BY <1>1, SizeAssumption
  <2>3. ScanTypeOK
    BY <1>1, <1>3, <2>1, <2>2 DEF ScanTypeOK
  <2>4. HostInv
    BY <1>1 DEF HostInv
  <2> QED
    BY <2>3, <2>4
<1>7. CoverInv
  <2>1. \A x \in topology.present : x.device \in Nat /\ x.function \in Nat
    BY <1>1, MachineIs DEF Location
  <2>2. \A x : ~(Sought(x, 0) /\ Before(x, At(0, 0, 0)))
    BY <1>2, <2>1 DEF Sought, Before
  <2>3. IsSingleFunctionDevice(0, 0) => \A b : b = 0 => Covered(b)
    BY <1>2, <1>3, <2>2 DEF Covered
  <2> QED
    BY <1>4, <1>5, <2>3 DEF CoverInv
<1>8. SeenInv
  <2>1. IsSingleFunctionDevice(0, 0) => 0 \in ReachableBuses(Roots)
    BY ReachableIs DEF Roots
  <2> QED
    BY <1>2, <1>3, <1>4, <2>1 DEF SeenInv
<1>9. OnceInv
  BY <1>1, <1>2, <1>3, <1>4, <1>5 DEF OnceInv, Used
<1> QED
  BY <1>6, <1>7, <1>8, <1>9 DEF ScanInv

(* Every step of the scan, and of the choice after it, keeps ScanInv.      *)
LEMMA ScanInvStep == ScanInv /\ [Next]_vars => ScanInv'
<1> SUFFICES ASSUME ScanInv, [Next]_vars PROVE ScanInv'
  OBVIOUS
<1>1. CASE Skip
  BY <1>1, SkipStep
<1>2. CASE ScanFunction
  BY <1>2, FunctionStep
<1>3. CASE Return
  BY <1>3, ReturnStep
<1>4. CASE NextHostBridge
  BY <1>4, NextHostBridgeStep
<1>5. CASE ScanEnds
  BY <1>5, ResultKept DEF ScanEnds
<1>6. CASE FindXhc
  BY <1>6, ResultKept DEF FindXhc, ScanInv, HostInv
<1>7. CASE TakeOver
  BY <1>7, ResultKept DEF TakeOver, ScanInv, HostInv
<1>8. CASE UNCHANGED vars
  BY <1>8, ResultKept DEF vars, ScanInv, HostInv, ScanTypeOK
<1> QED
  BY <1>1, <1>2, <1>3, <1>4, <1>5, <1>6, <1>7, <1>8 DEF Next, Scan

-----------------------------------------------------------------------------
(* When the scan is over its stack is empty: every bus it had to do with   *)
(* is done, so what was found is closed under its bridges.                 *)
LEMMA ScanInvFinds == ScanInv => ScanIsComplete
<1> SUFFICES ASSUME ScanInv PROVE ScanIsComplete
  OBVIOUS
<1> USE DEF ScanInv
<1>1. Len(devices) <= TableSize
      /\ (IsTree => \A i, j \in DOMAIN devices : devices[i] = devices[j] => i = j)
  BY DEF ScanTypeOK, OnceInv
<1>2. ASSUME pc # "scan", ~full PROVE Found = Reachable(Roots)
  <2> DEFINE S == {b \in ReachableBuses(Roots) : \A x : Sought(x, b) => x \in Found}
  <2>1. \A b : Covered(b) => \A x : Sought(x, b) => x \in Found
    BY <1>2 DEF HostInv, Covered
  <2>2. Started = Roots
    BY <1>2, SizeAssumption DEF HostInv, Started, Roots, ScanTypeOK
  <2>3. Roots \subseteq S
    BY <1>2, <2>1, <2>2, ReachableIs DEF CoverInv
  <2>4. Behind(S) \subseteq S
    <3> SUFFICES ASSUME NEW x \in topology.bridges, x.bus \in S, Visible(x)
                 PROVE  topology.secondary[x] \in S
      BY DEF Behind
    <3>1. x \in topology.present
      BY MachineIs DEF ScanTypeOK
    <3>2. x \in Found
      BY <3>1 DEF Sought
    <3>3. topology.secondary[x] \in ReachableBuses(Roots)
      BY ReachableIs DEF Behind
    <3> QED
      BY <1>2, <2>1, <3>2, <3>3 DEF CoverInv
  <2>5. ReachableBuses(Roots) \subseteq S
    <3> HIDE DEF S
    <3> QED
      BY <2>3, <2>4, ReachableIs
  <2> QED
    BY <2>5 DEF Reachable, Sought, SeenInv
<1> QED
  BY <1>1, <1>2 DEF ScanIsComplete

(* The scan finds every function that bridges lead to from the buses it    *)
(* starts from and that its device shows, and nothing else, on every       *)
(* machine, however its buses are nested, shared or looped, if the table   *)
(* held them all; and nothing twice on a tree (pci.cpp:75-177).            *)
THEOREM ScanFinds == Spec => []ScanIsComplete
<1>1. Init => ScanInv
  BY ScanInvInit
<1>2. ScanInv /\ [Next]_vars => ScanInv'
  BY ScanInvStep
<1>3. ScanInv => ScanIsComplete
  BY ScanInvFinds
<1> QED
  BY <1>1, <1>2, <1>3, PTL DEF Spec

-----------------------------------------------------------------------------
(* The controller that is taken over.                                      *)

(* KernelMain's choice, and what is routed to whom once it is made.        *)
ChoiceInv ==
  /\ pc \in {"found", "ready"} =>
       xhc_dev \in Xhcs /\ (Intels = {} \/ xhc_dev \in Intels)
  /\ routing \in [topology.xhc -> {Unrouted, Routed}]
  /\ \A x \in topology.xhc :
       routing[x] = Routed <=> /\ pc = "ready" /\ x = devices[xhc_dev]
                               /\ x \in topology.intel /\ IntelEhcExists

(* Nothing is chosen before the scan has ended.                            *)
LEMMA ChoiceInvInit == Init => ChoiceInv
BY DEF Init, ChoiceInv, Unrouted, Routed

(* The loops of KernelMain over what was found.                            *)
LEMMA ChoiceInvStep == ScanInv /\ ChoiceInv /\ [Next]_vars => ChoiceInv'
<1> SUFFICES ASSUME ScanInv, ChoiceInv, [Next]_vars PROVE ChoiceInv'
  OBVIOUS
<1>1. CASE Scan
  BY <1>1 DEF Scan, Scanning, Skip, ScanFunction, Return, NextHostBridge, ScanEnds,
              ChoiceInv, taken
<1>2. CASE FindXhc
  BY <1>2 DEF FindXhc, ChoiceInv, Xhcs, Intels, taken
<1>3. CASE TakeOver
  <2>1. Xhcs' = Xhcs /\ Intels' = Intels /\ (IntelEhcExists' <=> IntelEhcExists)
    BY <1>3 DEF TakeOver, Xhcs, Intels, IntelEhcExists
  <2>2. devices[xhc_dev] \in topology.xhc
    BY <1>3 DEF TakeOver, ChoiceInv, Xhcs
  <2> QED
    BY <1>3, <2>1, <2>2 DEF TakeOver, ChoiceInv, Unrouted, Routed
<1>4. CASE UNCHANGED vars
  BY <1>4 DEF vars, taken, ChoiceInv, Xhcs, Intels, IntelEhcExists
<1> QED
  BY <1>1, <1>2, <1>3, <1>4 DEF Next

(* An Intel controller is taken over if there is one, and it has every     *)
(* port of Intel's EHCI controllers routed to it, however deep in the bus  *)
(* tree they are; no other controller's registers are written              *)
(* (main.cpp:49-69, 121-164).                                              *)
THEOREM PortsAreRouted == Spec => []PortsRouted
<1>1. Init => ScanInv /\ ChoiceInv
  BY ScanInvInit, ChoiceInvInit
<1>2. ScanInv /\ ChoiceInv /\ [Next]_vars => (ScanInv /\ ChoiceInv)'
  BY ScanInvStep, ChoiceInvStep
<1>3. ScanInv /\ ChoiceInv => PortsRouted
  <2> SUFFICES ASSUME ScanInv, ChoiceInv PROVE PortsRouted
    OBVIOUS
  <2>1. pc = "ready" /\ ~full => Found = Reachable(Roots)
    BY ScanInvFinds DEF ScanIsComplete
  <2>2. \A x : x \in Found <=> \E i \in DOMAIN devices : x = devices[i]
    BY DEF Found
  <2>3. pc = "ready" =>
          /\ devices[xhc_dev] \in topology.xhc
          /\ \/ devices[xhc_dev] \in topology.intel
             \/ Found \cap topology.xhc \cap topology.intel = {}
    BY <2>2 DEF ChoiceInv, Xhcs, Intels
  <2>4. Found \cap topology.ehci \cap topology.intel # {} => IntelEhcExists
    BY <2>2 DEF IntelEhcExists
  <2> QED
    BY <2>1, <2>3, <2>4 DEF PortsRouted, ChoiceInv
<1> QED
  BY <1>1, <1>2, <1>3, PTL DEF Spec
=============================================================================
