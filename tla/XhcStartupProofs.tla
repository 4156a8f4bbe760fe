-------------------------- MODULE XhcStartupProofs --------------------------
(***************************************************************************)
(* Proofs about XhcStartup and the pool it allocates from.                 *)
(*                                                                         *)
(* The allocator hands out disjoint blocks of the pool, whatever is asked  *)
(* for: the inductive invariant adds to BlocksApart that every block ends  *)
(* at or before alloc_ptr, which only moves up.                            *)
(*                                                                         *)
(* The driver resets the controller only when it is its own and has        *)
(* stopped, the pool behind start-up is that safe one, and with the pool   *)
(* of the code the controller runs with everything it needs, wherever that *)
(* pool was linked to.                                                     *)
(***************************************************************************)
EXTENDS XhcStartup, SequenceTheorems, TLAPS

(* Rounding up never goes down, whether or not alignment is a power of two. *)
LEMMA CeilBounds ==
  ASSUME NEW value \in Nat, NEW alignment \in Nat, alignment > 0
  PROVE  Ceil(value, alignment) \in Nat /\ value <= Ceil(value, alignment)
  <1> DEFINE top == value + alignment - 1
             rest == top % alignment
  <1>1. top \in Nat /\ alignment \in Nat
    OBVIOUS
  <1>2. rest \in 0..(alignment - 1)
    <2> HIDE DEF top
    <2> QED BY <1>1
  <1>3. Ceil(value, alignment) = top - rest
    BY DEF Ceil
  <1> HIDE DEF rest
  <1> QED BY <1>2, <1>3

(* What AllocMem places is never below the pointer.                        *)
LEMMA PlacedBounds ==
  ASSUME alloc_ptr \in Nat, NEW r \in Requests
  PROVE  Placed(r) \in Nat /\ alloc_ptr <= Placed(r)
  <1>1. r.size \in Nat /\ r.alignment \in Nat /\ r.boundary \in Nat
    BY RequestAssumption DEF Request
  <1>2. Aligned(r) \in Nat /\ alloc_ptr <= Aligned(r)
    <2>1. CASE r.alignment > 0
      BY <1>1, <2>1, CeilBounds DEF Aligned
    <2>2. CASE ~(r.alignment > 0)
      BY <2>2 DEF Aligned
    <2> QED BY <2>1, <2>2
  <1>3. CASE r.boundary > 0 /\ Ceil(Aligned(r), r.boundary) < Aligned(r) + r.size
    <2>1. Ceil(Aligned(r), r.boundary) \in Nat
          /\ Aligned(r) <= Ceil(Aligned(r), r.boundary)
      BY <1>1, <1>2, <1>3, CeilBounds
    <2>2. Placed(r) = Ceil(Aligned(r), r.boundary)
      BY <1>3 DEF Placed
    <2> HIDE DEF Placed
    <2> QED BY <1>2, <2>1, <2>2
  <1>4. CASE ~(r.boundary > 0 /\ Ceil(Aligned(r), r.boundary) < Aligned(r) + r.size)
    BY <1>2, <1>4 DEF Placed
  <1> QED BY <1>3, <1>4

(* Blocks lie below the pointer, so a new one cannot meet them.            *)
PoolInv ==
  /\ memory_pool \in Nat
  /\ alloc_ptr \in Nat /\ memory_pool <= alloc_ptr
  /\ blocks \subseteq Block
  /\ \A b \in blocks : Beyond(b) <= alloc_ptr
  /\ BlocksApart

(* A pool of which nothing was handed out.                                 *)
LEMMA PoolStarts == PoolInit => PoolInv
  BY PoolAssumption DEF PoolInit, PoolInv, BlocksApart

(* A block is placed at or above the pointer, and the pointer behind it.   *)
LEMMA PoolAllocMem ==
  ASSUME PoolInv, NEW r \in Requests, AllocMem(r)
  PROVE  PoolInv'
  <1>1. Placed(r) \in Nat /\ alloc_ptr <= Placed(r)
    BY PlacedBounds DEF PoolInv
  <1>2. r.size \in Nat
    BY RequestAssumption DEF Request
  <1>3. \A b \in blocks : b.addr \in Nat /\ b.req.size \in Nat
    BY RequestAssumption DEF PoolInv, Block, Request
  <1>4. memory_pool \in Nat /\ Limit \in Nat /\ memory_pool' = memory_pool
    BY PoolAssumption DEF PoolInv, Limit, AllocMem
  <1>5. CASE /\ ~Fits(r)
             /\ alloc_ptr' = Placed(r)
             /\ UNCHANGED blocks
    <2>1. alloc_ptr' \in Nat /\ memory_pool <= alloc_ptr'
      BY <1>1, <1>4, <1>5 DEF PoolInv
    <2>2. \A b \in blocks' : Beyond(b) <= alloc_ptr'
      BY <1>1, <1>3, <1>5 DEF PoolInv, Beyond
    <2>3. blocks' \subseteq Block /\ BlocksApart'
      BY <1>4, <1>5 DEF PoolInv, BlocksApart, Beyond, Limit
    <2> QED BY <1>4, <2>1, <2>2, <2>3 DEF PoolInv, Beyond
  <1>6. CASE /\ Fits(r)
             /\ alloc_ptr' = Placed(r) + r.size
             /\ blocks' = blocks \cup {[addr |-> Placed(r), req |-> r]}
    <2> DEFINE new == [addr |-> Placed(r), req |-> r]
    <2>1. new.addr = Placed(r) /\ Beyond(new) = Placed(r) + r.size
      BY DEF Beyond
    <2>2. new \in Block
      BY <1>1 DEF Block
    <2>3. blocks' = blocks \cup {new}
      BY <1>6
    <2> HIDE DEF new
    <2>4. alloc_ptr' \in Nat /\ memory_pool <= alloc_ptr'
      BY <1>1, <1>2, <1>4, <1>6 DEF PoolInv
    <2>5. \A b \in blocks : Beyond(b) <= Placed(r) /\ Beyond(b) \in Nat
      BY <1>1, <1>3 DEF PoolInv, Beyond
    <2>6. \A b \in blocks' : Beyond(b) <= alloc_ptr'
      BY <1>1, <1>2, <1>6, <2>1, <2>3, <2>5
    <2>7. \A b \in blocks' : memory_pool <= b.addr /\ Beyond(b) <= Limit
      BY <1>1, <1>2, <1>4, <1>6, <2>1, <2>3 DEF PoolInv, BlocksApart, Fits, Limit
    <2>8. \A b, c \in blocks' :
            b = c \/ Beyond(b) <= c.addr \/ Beyond(c) <= b.addr
      BY <2>1, <2>3, <2>5 DEF PoolInv, BlocksApart
    <2> QED BY <1>4, <2>2, <2>3, <2>4, <2>6, <2>7, <2>8
            DEF PoolInv, BlocksApart, Beyond, Limit
  <1> QED BY <1>5, <1>6 DEF AllocMem

(* Blocks never overlap and never leave the pool, for every pool and every *)
(* set of requests.                                                        *)
THEOREM PoolIsSafe == PoolSpec => []BlocksApart
  <1>1. PoolInv /\ [PoolNext]_poolVars => PoolInv'
    <2> SUFFICES ASSUME PoolInv, [PoolNext]_poolVars PROVE PoolInv'
      OBVIOUS
    <2>1. CASE PoolNext
      BY <2>1, PoolAllocMem DEF PoolNext
    <2>2. CASE UNCHANGED poolVars
      BY <2>2 DEF poolVars, Limit, PoolInv, BlocksApart, Beyond
    <2> QED BY <2>1, <2>2
  <1>2. PoolInv => BlocksApart
    BY DEF PoolInv
  <1> QED BY PoolStarts, <1>1, <1>2, PTL DEF PoolSpec

-----------------------------------------------------------------------------
(* Alignments and boundaries.                                              *)

(* A number is a multiple and a rest, and that gives quotient and rest.    *)
LEMMA Quotient ==
  ASSUME NEW b \in Nat, b > 0, NEW q \in Nat, NEW r \in 0..(b - 1)
  PROVE  (b * q + r) \div b = q /\ (b * q + r) % b = r
  BY SMT

(* Every number is one.                                                    *)
LEMMA MultipleAndRest ==
  ASSUME NEW b \in Nat, b > 0, NEW n \in Nat
  PROVE  \E q \in Nat, r \in 0..(b - 1) : n = b * q + r
<1>1. n \div b \in Nat /\ n % b \in 0..(b - 1)
  BY SMT
<1>2. n = b * (n \div b) + (n % b)
  BY SMT
<1> QED
  BY <1>1, <1>2

(* b divides its multiples and nothing else.                               *)
LEMMA DividesIs ==
  ASSUME NEW b \in Nat, b > 0, NEW n \in Nat
  PROVE  Divides(b, n) <=> \E q \in Nat : n = b * q
<1>1. PICK q \in Nat, r \in 0..(b - 1) : n = b * q + r
  BY MultipleAndRest
<1>2. n % b = r
  BY <1>1, Quotient
<1>3. ASSUME NEW k \in Nat, n = b * k PROVE n % b = 0
  <2>1. 0 \in 0..(b - 1) /\ b * k + 0 = n
    BY <1>3
  <2> QED
    BY <2>1, Quotient
<1> QED
  BY <1>1, <1>2, <1>3 DEF Divides

(* What divides a boundary divides the boundary's multiples.               *)
LEMMA DividesAlong ==
  ASSUME NEW a \in Nat, a > 0, NEW b \in Nat, b > 0, NEW n \in Nat,
         Divides(a, b), Divides(b, n)
  PROVE  Divides(a, n)
<1>1. PICK k \in Nat : b = a * k
  BY DividesIs
<1>2. PICK q \in Nat : n = b * q
  BY DividesIs
<1>3. n = a * (k * q) /\ k * q \in Nat
  BY <1>1, <1>2
<1> QED
  BY <1>3, DividesIs

(* Ceil is the next multiple.                                              *)
LEMMA CeilIs ==
  ASSUME NEW b \in Nat, b > 0, NEW q \in Nat, NEW r \in 0..(b - 1)
  PROVE  Ceil(b * q + r, b) = IF r = 0 THEN b * q ELSE b * (q + 1)
<1>1. CASE r = 0
  <2>1. (b * q + (b - 1)) % b = b - 1
    BY Quotient
  <2>2. b * q + r + b - 1 = b * q + (b - 1)
    BY <1>1
  <2> QED
    BY <1>1, <2>1, <2>2 DEF Ceil
<1>2. CASE r # 0
  <2>1. r - 1 \in 0..(b - 1) /\ q + 1 \in Nat
    BY <1>2
  <2>2. (b * (q + 1) + (r - 1)) % b = r - 1
    BY <2>1, Quotient
  <2>3. b * q + r + b - 1 = b * (q + 1) + (r - 1)
    OBVIOUS
  <2>4. Ceil(b * q + r, b) = b * (q + 1) + (r - 1) - (r - 1)
    BY <2>2, <2>3 DEF Ceil
  <2> QED
    BY <1>2, <2>4
<1> QED
  BY <1>1, <1>2

(* So it is divided by what it is rounded up to.                           *)
LEMMA CeilDivides ==
  ASSUME NEW value \in Nat, NEW b \in Nat, b > 0
  PROVE  Divides(b, Ceil(value, b))
<1>1. PICK q \in Nat, r \in 0..(b - 1) : value = b * q + r
  BY MultipleAndRest
<1>2. PICK k \in Nat : Ceil(value, b) = b * k
  <2>1. Ceil(value, b) = b * q \/ Ceil(value, b) = b * (q + 1)
    BY <1>1, CeilIs
  <2>2. q \in Nat /\ q + 1 \in Nat
    OBVIOUS
  <2> QED
    BY <2>1, <2>2
<1>3. b * k \in Nat
  OBVIOUS
<1> QED
  BY <1>2, <1>3, DividesIs

(* A block that starts at a multiple of the boundary and is no larger, or  *)
(* ends before the next multiple, lies between two of them.                *)
LEMMA WithinBoundary ==
  ASSUME NEW b \in Nat, b > 0, NEW addr \in Nat, NEW size \in Nat, size > 0,
         size <= b,
         Divides(b, addr) \/ addr + size <= Ceil(addr, b)
  PROVE  addr \div b = ((addr + size) - 1) \div b
<1>1. PICK q \in Nat, r \in 0..(b - 1) : addr = b * q + r
  BY MultipleAndRest
<1>2. r + size - 1 \in 0..(b - 1)
  <2>1. CASE Divides(b, addr)
    <3>1. r = 0
      BY <1>1, <2>1, Quotient DEF Divides
    <3> QED
      BY <3>1
  <2>2. CASE r # 0 /\ addr + size <= Ceil(addr, b)
    <3>1. Ceil(addr, b) = b * (q + 1)
      BY <1>1, <2>2, CeilIs
    <3>2. b * (q + 1) = b * q + b
      OBVIOUS
    <3>3. b * q + r + size <= b * q + b
      BY <1>1, <2>2, <3>1, <3>2
    <3>4. b * q \in Nat
      OBVIOUS
    <3> DEFINE m == b * q
    <3> HIDE DEF m
    <3>5. m + r + size <= m + b /\ m \in Nat
      BY <3>3, <3>4 DEF m
    <3> QED
      BY <3>5, <2>2
  <2>3. CASE r = 0
    BY <2>3
  <2> QED
    BY <2>1, <2>2, <2>3
<1>3. (addr + size) - 1 = b * q + (r + size - 1)
  BY <1>1
<1>4. addr \div b = q
  BY <1>1, Quotient
<1>5. (b * q + (r + size - 1)) \div b = q
  BY <1>2, Quotient
<1> QED
  BY <1>3, <1>4, <1>5

(* The block that AllocMem places for r (memory.cpp:22-34).                *)
LEMMA PlacedRight ==
  ASSUME alloc_ptr \in Nat, NEW r \in Requests
  PROVE  /\ r.alignment > 0 => Divides(r.alignment, Placed(r))
         /\ r.boundary > 0 /\ r.size > 0 /\ r.size <= r.boundary =>
              Placed(r) \div r.boundary =
              ((Placed(r) + r.size) - 1) \div r.boundary
<1>1. r.size \in Nat /\ r.alignment \in Nat /\ r.boundary \in Nat
  BY RequestAssumption DEF Request
<1>2. Aligned(r) \in Nat /\ Placed(r) \in Nat
  <2>1. CASE r.alignment > 0
    BY <1>1, <2>1, CeilBounds, PlacedBounds DEF Aligned
  <2>2. CASE ~(r.alignment > 0)
    BY <2>2, PlacedBounds DEF Aligned
  <2> QED
    BY <2>1, <2>2
<1>3. r.alignment > 0 => Divides(r.alignment, Aligned(r))
  BY <1>1, CeilDivides DEF Aligned
<1>4. CASE r.boundary > 0 /\ Ceil(Aligned(r), r.boundary) < Aligned(r) + r.size
  <2>1. Placed(r) = Ceil(Aligned(r), r.boundary)
    BY <1>4 DEF Placed
  <2>2. Divides(r.boundary, Placed(r))
    BY <1>1, <1>2, <1>4, <2>1, CeilDivides
  <2>3. r.alignment > 0 => Divides(r.alignment, Placed(r))
    BY <1>1, <1>2, <1>4, <2>2, BoundaryAssumption, DividesAlong
  <2> QED
    BY <1>1, <1>2, <2>2, <2>3, WithinBoundary
<1>5. CASE ~(r.boundary > 0 /\ Ceil(Aligned(r), r.boundary) < Aligned(r) + r.size)
  <2>1. Placed(r) = Aligned(r)
    BY <1>5 DEF Placed
  <2>2. r.boundary > 0 => Placed(r) + r.size <= Ceil(Placed(r), r.boundary)
    <3>1. SUFFICES ASSUME r.boundary > 0
                   PROVE  Placed(r) + r.size <= Ceil(Placed(r), r.boundary)
      OBVIOUS
    <3>2. Ceil(Placed(r), r.boundary) \in Nat
      BY <1>1, <1>2, <3>1, CeilBounds
    <3>3. ~(Ceil(Placed(r), r.boundary) < Placed(r) + r.size)
      BY <1>5, <2>1, <3>1
    <3> QED
      BY <1>1, <1>2, <3>2, <3>3
  <2> QED
    BY <1>1, <1>2, <1>3, <2>1, <2>2, WithinBoundary
<1> QED
  BY <1>4, <1>5

(* A block as PlacedAsAsked wants it.                                      *)
AsAsked(b) ==
  /\ b.req.alignment > 0 => Divides(b.req.alignment, b.addr)
  /\ b.req.boundary > 0 /\ b.req.size > 0 /\ b.req.size <= b.req.boundary =>
       b.addr \div b.req.boundary = (Beyond(b) - 1) \div b.req.boundary

(* Blocks stay where they are, and a new one is placed as it should be.    *)
LEMMA PlacedNext ==
  ASSUME PoolInv, PlacedAsAsked, NEW r \in Requests, AllocMem(r)
  PROVE  PlacedAsAsked'
<1>1. blocks' \subseteq blocks \cup {[addr |-> Placed(r), req |-> r]}
  BY DEF AllocMem
<1>2. alloc_ptr \in Nat
  BY DEF PoolInv
<1>3. AsAsked([addr |-> Placed(r), req |-> r])
  <2> HIDE DEF Placed, Divides
  <2> QED
    BY <1>2, PlacedRight DEF AsAsked, Beyond
<1>4. \A b \in blocks : AsAsked(b)
  BY DEF PlacedAsAsked, AsAsked
<1>5. \A b \in blocks' : AsAsked(b)
  BY <1>1, <1>3, <1>4
<1> QED
  BY <1>5 DEF PlacedAsAsked, AsAsked, Beyond

(* Both invariants of the pool are kept by every step of it.               *)
LEMMA PoolKept ==
  ASSUME PoolInv, PlacedAsAsked, [PoolNext]_poolVars
  PROVE  PoolInv' /\ PlacedAsAsked'
<1>1. CASE PoolNext
  BY <1>1, PoolAllocMem, PlacedNext DEF PoolNext
<1>2. CASE UNCHANGED poolVars
  BY <1>2 DEF poolVars, Limit, PoolInv, BlocksApart, Beyond, PlacedAsAsked
<1> QED
  BY <1>1, <1>2

(* Every block starts at a multiple of its alignment and crosses no        *)
(* boundary that it could keep to (memory.hpp:15-26), for every pool and   *)
(* every set of requests whose alignments divide their boundaries.         *)
THEOREM PoolPlacesRight == PoolSpec => []PlacedAsAsked
<1>1. PoolInit => PoolInv /\ PlacedAsAsked
  BY PoolStarts DEF PoolInit, PlacedAsAsked
<1>2. PoolInv /\ PlacedAsAsked /\ [PoolNext]_poolVars =>
        (PoolInv /\ PlacedAsAsked)'
  BY PoolKept
<1> QED
  BY <1>1, <1>2, PTL DEF PoolSpec

-----------------------------------------------------------------------------
(* Where the driver is.                                                    *)

Owning   == {"device_table", "context_table", "ownership", "request", "wait_owned"}
Stopping == {"stop", "look_halted", "write_stop", "wait_halted"}
Resetting == {"read_reset", "write_reset", "wait_reset"}
Telling  == {"CONFIG", "page_array", "pages", "DCBAAP", "command_ring", "CRCR",
             "event_ring", "segment_table", "ERST", "IMAN"}
Enabling == {"read_enable", "write_enable"}
Running  == {"run", "write_run", "wait_running", "running"}
Steps    == Owning \cup Stopping \cup Resetting \cup {"wait_ready"}
            \cup Telling \cup Enabling \cup Running

RegisterTypeOK ==
  /\ pc \in Steps
  /\ usbcmd \in [run_stop : BOOLEAN, reset : BOOLEAN, inte : BOOLEAN]
  /\ run_stop \in BOOLEAN /\ host_controller_reset \in BOOLEAN
  /\ interrupter_enable \in BOOLEAN /\ host_controller_halted \in BOOLEAN
  /\ controller_not_ready \in BOOLEAN
  /\ legacy \in BOOLEAN /\ os_owned \in BOOLEAN /\ bios_owned \in BOOLEAN
  /\ shared \in BOOLEAN

(* The BIOS has the controller only before it is asked for it, or when     *)
(* Initialize gave up for want of memory before it asked, or when the      *)
(* driver found the OS semaphore set and did not ask.                      *)
Owned ==
  /\ bios_owned => legacy
  /\ bios_owned /\ ~shared => pc \in Owning \cup Running

(* R/S on its way to the reset: a controller that is halted has it clear,  *)
(* and the copy of USBCMD follows the register as long as nobody else      *)
(* writes that.                                                            *)
Stopped ==
  /\ host_controller_halted => ~run_stop
  /\ ~shared =>
       /\ pc = "look_halted" => usbcmd.run_stop = run_stop
       /\ pc \in {"write_stop", "write_reset"} => ~usbcmd.run_stop
       /\ pc \in {"wait_halted"} \cup Resetting => ~run_stop
       /\ pc \in Resetting => host_controller_halted

(* HCRST is set only while the driver waits for it, and no later write of  *)
(* USBCMD sets it again.                                                   *)
ResetOnce ==
  /\ host_controller_reset => pc = "wait_reset"
  /\ usbcmd.reset =>
       pc \notin {"look_halted", "write_stop", "write_enable", "write_run"}

TakeoverInv == RegisterTypeOK /\ Owned /\ Stopped /\ ResetOnce

(* The controller is left by the BIOS as Init says.                        *)
LEMMA TakeoverStarts == Init => TakeoverInv
<1> SUFFICES ASSUME Init PROVE TakeoverInv
  OBVIOUS
<1>1. bios_owned \in BOOLEAN /\ os_owned \in BOOLEAN
  BY Zenon DEF Init
<1>2. RegisterTypeOK
  BY <1>1 DEF Init, RegisterTypeOK, Steps, Owning
<1>3. Owned
  <2>1. bios_owned = FALSE \/ bios_owned = legacy
    BY Zenon DEF Init
  <2>2. bios_owned => legacy
    BY <2>1, Zenon
  <2>3. pc \in Owning
    BY DEF Init, Owning
  <2> QED
    BY <2>2, <2>3, Zenon DEF Owned
<1>4. Stopped /\ ResetOnce
  BY DEF Init, Stopped, ResetOnce, Resetting
<1> QED
  BY <1>2, <1>3, <1>4 DEF TakeoverInv

(* The five allocations that Initialize looks at, one by one.              *)
LEMMA CheckedIs ==
  ASSUME NEW c \in Checked
  PROVE  \/ /\ c.at = "device_table" /\ c.wants = DeviceTable
            /\ c.then = "context_table"
         \/ /\ c.at = "context_table" /\ c.wants = ContextTable
            /\ c.then = "ownership"
         \/ /\ c.at = "command_ring" /\ c.wants = TRBs
            /\ c.then = "CRCR"
         \/ /\ c.at = "event_ring" /\ c.wants = TRBs
            /\ c.then = "segment_table"
         \/ /\ c.at = "segment_table" /\ c.wants = SegmentTable
            /\ c.then = "ERST"
<1>1. \/ c = [at |-> "device_table", wants |-> DeviceTable, then |-> "context_table"]
      \/ c = [at |-> "context_table", wants |-> ContextTable, then |-> "ownership"]
      \/ c = [at |-> "command_ring", wants |-> TRBs, then |-> "CRCR"]
      \/ c = [at |-> "event_ring", wants |-> TRBs, then |-> "segment_table"]
      \/ c = [at |-> "segment_table", wants |-> SegmentTable, then |-> "ERST"]
  BY DEF Checked
<1>2. CASE c = [at |-> "device_table", wants |-> DeviceTable, then |-> "context_table"]
  BY <1>2
<1>3. CASE c = [at |-> "context_table", wants |-> ContextTable, then |-> "ownership"]
  BY <1>3
<1>4. CASE c = [at |-> "command_ring", wants |-> TRBs, then |-> "CRCR"]
  BY <1>4
<1>5. CASE c = [at |-> "event_ring", wants |-> TRBs, then |-> "segment_table"]
  BY <1>5
<1>6. CASE c = [at |-> "segment_table", wants |-> SegmentTable, then |-> "ERST"]
  BY <1>6
<1> QED
  BY <1>1, <1>2, <1>3, <1>4, <1>5, <1>6

(* Where Initialize goes when it allocates (xhci.cpp:324-384).             *)
LEMMA AllocMoves ==
  ASSUME AllocOrFail
  PROVE  /\ \/ pc = "device_table"  /\ pc' = "context_table"
            \/ pc = "context_table" /\ pc' = "ownership"
            \/ pc = "command_ring"  /\ pc' = "CRCR"
            \/ pc = "event_ring"    /\ pc' = "segment_table"
            \/ pc = "segment_table" /\ pc' = "ERST"
            \/ /\ pc \in {"device_table", "context_table", "command_ring",
                          "event_ring", "segment_table"}
               /\ pc' = "run"
         /\ UNCHANGED <<usbcmd, command, status, owner>>
<1>1. PICK c \in Checked : /\ pc = c.at
                           /\ pc' = IF Fits(c.wants) THEN c.then ELSE "run"
  BY Zenon DEF AllocOrFail
<1>2. pc' = c.then \/ pc' = "run"
  BY <1>1
<1>3. UNCHANGED <<usbcmd, command, status, owner>>
  BY DEF AllocOrFail
<1> QED
  BY <1>1, <1>2, <1>3, CheckedIs

(* And when it tells the controller what it has.                           *)
LEMMA TellingMoves ==
  ASSUME WriteStructure \/ AllocPageArray \/ AllocPage
  PROVE  /\ pc \in Telling /\ pc' \in Telling \cup {"read_enable"}
         /\ UNCHANGED <<usbcmd, command, status, owner>>
<1>1. CASE WriteStructure
  <2>1. pc \in Structures /\ pc' = After[pc]
    BY <1>1 DEF WriteStructure
  <2>2. /\ After["CONFIG"] = "page_array" /\ After["DCBAAP"] = "command_ring"
        /\ After["CRCR"] = "event_ring" /\ After["ERST"] = "IMAN"
        /\ After["IMAN"] = "read_enable"
    BY DEF After
  <2>3. UNCHANGED <<usbcmd, command, status, owner>>
    BY <1>1 DEF WriteStructure
  <2> QED
    BY <2>1, <2>2, <2>3 DEF Structures, Telling
<1>2. CASE AllocPageArray
  BY <1>2 DEF AllocPageArray, Telling
<1>3. CASE AllocPage
  BY <1>3 DEF AllocPage, Telling
<1> QED
  BY <1>1, <1>2, <1>3

(* The driver takes the steps of Initialize and Run.                        *)
LEMMA WhereNext == TakeoverInv /\ [Next]_vars => pc' \in Steps
<1> SUFFICES ASSUME TakeoverInv, [Next]_vars PROVE pc' \in Steps
  OBVIOUS
<1> USE DEF TakeoverInv, RegisterTypeOK, Goes, Steps, Owning, Stopping,
             Resetting, Telling, Enabling, Running
<1>1. CASE AllocOrFail
  <2>1. /\ pc \in {"device_table", "context_table"} \cup Telling
        /\ pc' \in {"context_table", "ownership", "run"} \cup Telling
        /\ pc' = "context_table" => pc = "device_table"
        /\ pc' = "ownership" => pc = "context_table"
        /\ UNCHANGED <<usbcmd, command, status, owner>>
    BY <1>1, AllocMoves DEF Telling
  <2> QED
    BY <2>1
<1>2. CASE FindLegacySupport
  BY <1>2 DEF FindLegacySupport
<1>3. CASE RequestOwnership
  BY <1>3 DEF RequestOwnership
<1>4. CASE WaitOwned
  BY <1>4 DEF WaitOwned
<1>5. CASE ReadForStop
  BY <1>5 DEF ReadForStop, ReadUSBCMD
<1>6. CASE LookHalted
  BY <1>6 DEF LookHalted
<1>7. CASE WriteStop
  BY <1>7 DEF WriteStop, WriteUSBCMD
<1>8. CASE WaitHalted
  BY <1>8 DEF WaitHalted
<1>9. CASE ReadForReset
  BY <1>9 DEF ReadForReset, ReadUSBCMD
<1>10. CASE WriteReset
  BY <1>10 DEF WriteReset, WriteUSBCMD
<1>11. CASE WaitReset
  BY <1>11 DEF WaitReset
<1>12. CASE WaitReady
  BY <1>12 DEF WaitReady
<1>13. CASE WriteStructure
  <2>1. /\ pc \in Telling /\ pc' \in Telling \cup {"read_enable"}
        /\ UNCHANGED <<usbcmd, command, status, owner>>
    BY <1>13, TellingMoves
  <2> QED
    BY <2>1
<1>14. CASE AllocPageArray
  <2>1. /\ pc \in Telling /\ pc' \in Telling \cup {"read_enable"}
        /\ UNCHANGED <<usbcmd, command, status, owner>>
    BY <1>14, TellingMoves
  <2> QED
    BY <2>1
<1>15. CASE AllocPage
  <2>1. /\ pc \in Telling /\ pc' \in Telling \cup {"read_enable"}
        /\ UNCHANGED <<usbcmd, command, status, owner>>
    BY <1>15, TellingMoves
  <2> QED
    BY <2>1
<1>16. CASE ReadForEnable
  BY <1>16 DEF ReadForEnable, ReadUSBCMD
<1>17. CASE WriteEnable
  BY <1>17 DEF WriteEnable, WriteUSBCMD
<1>18. CASE ReadForRun
  BY <1>18 DEF ReadForRun, ReadUSBCMD
<1>19. CASE WriteRun
  BY <1>19 DEF WriteRun, WriteUSBCMD
<1>20. CASE WaitRunning
  BY <1>20 DEF WaitRunning
<1>21. CASE AllocForDevice
  BY <1>21 DEF AllocForDevice
<1>22. CASE Halt
  BY <1>22 DEF Halt
<1>23. CASE Reset
  BY <1>23 DEF Reset
<1>24. CASE BecomeReady
  BY <1>24 DEF BecomeReady
<1>25. CASE ReleaseOwnership
  BY <1>25 DEF ReleaseOwnership
<1>26. CASE BiosUses
  BY <1>26 DEF BiosUses, WriteUSBCMD, ReadUSBCMD
<1>27. CASE UNCHANGED vars
  BY <1>27 DEF vars
<1> QED
  BY <1>1, <1>2, <1>3, <1>4, <1>5, <1>6, <1>7, <1>8, <1>9, <1>10, <1>11,
  <1>12, <1>13, <1>14, <1>15, <1>16, <1>17, <1>18, <1>19, <1>20, <1>21, <1>22,
  <1>23, <1>24, <1>25, <1>26, <1>27 DEF Next, Driver, Initialize

(* Registers and the copy of USBCMD keep their types.                      *)
LEMMA TypeNext == TakeoverInv /\ [Next]_vars => RegisterTypeOK'
<1> SUFFICES ASSUME TakeoverInv, [Next]_vars PROVE RegisterTypeOK'
  OBVIOUS
<1>0. pc' \in Steps
  BY WhereNext
<1> USE DEF TakeoverInv, RegisterTypeOK, command, status, owner
<1>1. CASE AllocOrFail
  <2>1. /\ pc \in {"device_table", "context_table"} \cup Telling
        /\ pc' \in {"context_table", "ownership", "run"} \cup Telling
        /\ pc' = "context_table" => pc = "device_table"
        /\ pc' = "ownership" => pc = "context_table"
        /\ UNCHANGED <<usbcmd, command, status, owner>>
    BY <1>0, <1>1, AllocMoves DEF Telling
  <2> QED
    BY <1>0, <2>1
<1>2. CASE FindLegacySupport
  BY <1>0, <1>2 DEF FindLegacySupport
<1>3. CASE RequestOwnership
  BY <1>0, <1>3 DEF RequestOwnership
<1>4. CASE WaitOwned
  BY <1>0, <1>4 DEF WaitOwned
<1>5. CASE ReadForStop
  BY <1>0, <1>5 DEF ReadForStop, ReadUSBCMD
<1>6. CASE LookHalted
  BY <1>0, <1>6 DEF LookHalted
<1>7. CASE WriteStop
  BY <1>0, <1>7 DEF WriteStop, WriteUSBCMD
<1>8. CASE WaitHalted
  BY <1>0, <1>8 DEF WaitHalted
<1>9. CASE ReadForReset
  BY <1>0, <1>9 DEF ReadForReset, ReadUSBCMD
<1>10. CASE WriteReset
  BY <1>0, <1>10 DEF WriteReset, WriteUSBCMD
<1>11. CASE WaitReset
  BY <1>0, <1>11 DEF WaitReset
<1>12. CASE WaitReady
  BY <1>0, <1>12 DEF WaitReady
<1>13. CASE WriteStructure
  <2>1. /\ pc \in Telling /\ pc' \in Telling \cup {"read_enable"}
        /\ UNCHANGED <<usbcmd, command, status, owner>>
    BY <1>0, <1>13, TellingMoves
  <2> QED
    BY <1>0, <2>1
<1>14. CASE AllocPageArray
  <2>1. /\ pc \in Telling /\ pc' \in Telling \cup {"read_enable"}
        /\ UNCHANGED <<usbcmd, command, status, owner>>
    BY <1>0, <1>14, TellingMoves
  <2> QED
    BY <1>0, <2>1
<1>15. CASE AllocPage
  <2>1. /\ pc \in Telling /\ pc' \in Telling \cup {"read_enable"}
        /\ UNCHANGED <<usbcmd, command, status, owner>>
    BY <1>0, <1>15, TellingMoves
  <2> QED
    BY <1>0, <2>1
<1>16. CASE ReadForEnable
  BY <1>0, <1>16 DEF ReadForEnable, ReadUSBCMD
<1>17. CASE WriteEnable
  BY <1>0, <1>17 DEF WriteEnable, WriteUSBCMD
<1>18. CASE ReadForRun
  BY <1>0, <1>18 DEF ReadForRun, ReadUSBCMD
<1>19. CASE WriteRun
  BY <1>0, <1>19 DEF WriteRun, WriteUSBCMD
<1>20. CASE WaitRunning
  BY <1>0, <1>20 DEF WaitRunning
<1>21. CASE AllocForDevice
  BY <1>0, <1>21 DEF AllocForDevice
<1>22. CASE Halt
  BY <1>0, <1>22 DEF Halt
<1>23. CASE Reset
  BY <1>0, <1>23 DEF Reset
<1>24. CASE BecomeReady
  BY <1>0, <1>24 DEF BecomeReady
<1>25. CASE ReleaseOwnership
  BY <1>0, <1>25 DEF ReleaseOwnership
<1>26. CASE BiosUses
  BY <1>0, <1>26 DEF BiosUses, WriteUSBCMD, ReadUSBCMD
<1>27. CASE UNCHANGED vars
  BY <1>0, <1>27 DEF vars
<1> QED
  BY <1>0, <1>1, <1>2, <1>3, <1>4, <1>5, <1>6, <1>7, <1>8, <1>9, <1>10, <1>11,
  <1>12, <1>13, <1>14, <1>15, <1>16, <1>17, <1>18, <1>19, <1>20, <1>21, <1>22,
  <1>23, <1>24, <1>25, <1>26, <1>27 DEF Next, Driver, Initialize

(* The BIOS has let go when the driver goes on to stop the controller      *)
(* (xhci.cpp:283-305).                                                     *)
LEMMA OwnedNext == TakeoverInv /\ [Next]_vars => Owned'
<1> SUFFICES ASSUME TakeoverInv, [Next]_vars PROVE Owned'
  OBVIOUS
<1> USE DEF TakeoverInv, Owned, Goes, owner, Owning, Telling, Running
<1>1. CASE AllocOrFail
  <2>1. /\ pc \in {"device_table", "context_table"} \cup Telling
        /\ pc' \in {"context_table", "ownership", "run"} \cup Telling
        /\ pc' = "context_table" => pc = "device_table"
        /\ pc' = "ownership" => pc = "context_table"
        /\ UNCHANGED <<usbcmd, command, status, owner>>
    BY <1>1, AllocMoves DEF Telling
  <2>2. CASE pc \in Telling
    BY <2>1, <2>2
  <2>3. CASE pc = "device_table" \/ pc = "context_table"
    <3>1. pc' \in {"context_table", "ownership", "run"}
      BY <1>1, <2>3, AllocMoves DEF Telling
    <3> QED
      BY <2>1, <2>3, <3>1
  <2> QED
    BY <2>1, <2>2, <2>3
<1>2. CASE FindLegacySupport
  BY <1>2 DEF FindLegacySupport
<1>3. CASE RequestOwnership
  BY <1>3 DEF RequestOwnership
<1>4. CASE WaitOwned
  BY <1>4 DEF WaitOwned
<1>5. CASE ReadForStop
  BY <1>5 DEF ReadForStop, ReadUSBCMD
<1>6. CASE LookHalted
  BY <1>6 DEF LookHalted
<1>7. CASE WriteStop
  BY <1>7 DEF WriteStop, WriteUSBCMD
<1>8. CASE WaitHalted
  BY <1>8 DEF WaitHalted
<1>9. CASE ReadForReset
  BY <1>9 DEF ReadForReset, ReadUSBCMD
<1>10. CASE WriteReset
  BY <1>10 DEF WriteReset, WriteUSBCMD
<1>11. CASE WaitReset
  BY <1>11 DEF WaitReset
<1>12. CASE WaitReady
  BY <1>12 DEF WaitReady
<1>13. CASE WriteStructure
  <2>1. /\ pc \in Telling /\ pc' \in Telling \cup {"read_enable"}
        /\ UNCHANGED <<usbcmd, command, status, owner>>
    BY <1>13, TellingMoves
  <2> QED
    BY <2>1
<1>14. CASE AllocPageArray
  <2>1. /\ pc \in Telling /\ pc' \in Telling \cup {"read_enable"}
        /\ UNCHANGED <<usbcmd, command, status, owner>>
    BY <1>14, TellingMoves
  <2> QED
    BY <2>1
<1>15. CASE AllocPage
  <2>1. /\ pc \in Telling /\ pc' \in Telling \cup {"read_enable"}
        /\ UNCHANGED <<usbcmd, command, status, owner>>
    BY <1>15, TellingMoves
  <2> QED
    BY <2>1
<1>16. CASE ReadForEnable
  BY <1>16 DEF ReadForEnable, ReadUSBCMD
<1>17. CASE WriteEnable
  BY <1>17 DEF WriteEnable, WriteUSBCMD
<1>18. CASE ReadForRun
  BY <1>18 DEF ReadForRun, ReadUSBCMD
<1>19. CASE WriteRun
  BY <1>19 DEF WriteRun, WriteUSBCMD
<1>20. CASE WaitRunning
  BY <1>20 DEF WaitRunning
<1>21. CASE AllocForDevice
  BY <1>21 DEF AllocForDevice
<1>22. CASE Halt
  BY <1>22 DEF Halt
<1>23. CASE Reset
  BY <1>23 DEF Reset
<1>24. CASE BecomeReady
  BY <1>24 DEF BecomeReady
<1>25. CASE ReleaseOwnership
  BY <1>25 DEF ReleaseOwnership
<1>26. CASE BiosUses
  BY <1>26 DEF BiosUses, WriteUSBCMD, ReadUSBCMD
<1>27. CASE UNCHANGED vars
  BY <1>27 DEF vars
<1> QED
  BY <1>1, <1>2, <1>3, <1>4, <1>5, <1>6, <1>7, <1>8, <1>9, <1>10, <1>11,
  <1>12, <1>13, <1>14, <1>15, <1>16, <1>17, <1>18, <1>19, <1>20, <1>21, <1>22,
  <1>23, <1>24, <1>25, <1>26, <1>27 DEF Next, Driver, Initialize

(* From stopping to the reset the controller is not started again          *)
(* (xhci.cpp:331-349).                                                     *)
LEMMA StoppedNext == TakeoverInv /\ [Next]_vars => Stopped'
<1> SUFFICES ASSUME TakeoverInv, [Next]_vars PROVE Stopped'
  OBVIOUS
<1> USE DEF TakeoverInv, RegisterTypeOK, Owned, Stopped, ResetOnce, Goes,
             command, status, owner, Owning, Resetting, Telling, Running
<1>1. CASE AllocOrFail
  <2>1. /\ pc \in {"device_table", "context_table"} \cup Telling
        /\ pc' \in {"context_table", "ownership", "run"} \cup Telling
        /\ pc' = "context_table" => pc = "device_table"
        /\ pc' = "ownership" => pc = "context_table"
        /\ UNCHANGED <<usbcmd, command, status, owner>>
    BY <1>1, AllocMoves DEF Telling
  <2> QED
    BY <2>1
<1>2. CASE FindLegacySupport
  BY <1>2 DEF FindLegacySupport
<1>3. CASE RequestOwnership
  BY <1>3 DEF RequestOwnership
<1>4. CASE WaitOwned
  BY <1>4 DEF WaitOwned
<1>5. CASE ReadForStop
  BY <1>5 DEF ReadForStop, ReadUSBCMD
<1>6. CASE LookHalted
  BY <1>6 DEF LookHalted
<1>7. CASE WriteStop
  BY <1>7 DEF WriteStop, WriteUSBCMD
<1>8. CASE WaitHalted
  BY <1>8 DEF WaitHalted
<1>9. CASE ReadForReset
  BY <1>9 DEF ReadForReset, ReadUSBCMD
<1>10. CASE WriteReset
  BY <1>10 DEF WriteReset, WriteUSBCMD
<1>11. CASE WaitReset
  BY <1>11 DEF WaitReset
<1>12. CASE WaitReady
  BY <1>12 DEF WaitReady
<1>13. CASE WriteStructure
  <2>1. /\ pc \in Telling /\ pc' \in Telling \cup {"read_enable"}
        /\ UNCHANGED <<usbcmd, command, status, owner>>
    BY <1>13, TellingMoves
  <2> QED
    BY <2>1
<1>14. CASE AllocPageArray
  <2>1. /\ pc \in Telling /\ pc' \in Telling \cup {"read_enable"}
        /\ UNCHANGED <<usbcmd, command, status, owner>>
    BY <1>14, TellingMoves
  <2> QED
    BY <2>1
<1>15. CASE AllocPage
  <2>1. /\ pc \in Telling /\ pc' \in Telling \cup {"read_enable"}
        /\ UNCHANGED <<usbcmd, command, status, owner>>
    BY <1>15, TellingMoves
  <2> QED
    BY <2>1
<1>16. CASE ReadForEnable
  BY <1>16 DEF ReadForEnable, ReadUSBCMD
<1>17. CASE WriteEnable
  BY <1>17 DEF WriteEnable, WriteUSBCMD
<1>18. CASE ReadForRun
  BY <1>18 DEF ReadForRun, ReadUSBCMD
<1>19. CASE WriteRun
  BY <1>19 DEF WriteRun, WriteUSBCMD
<1>20. CASE WaitRunning
  BY <1>20 DEF WaitRunning
<1>21. CASE AllocForDevice
  BY <1>21 DEF AllocForDevice
<1>22. CASE Halt
  BY <1>22 DEF Halt
<1>23. CASE Reset
  BY <1>23 DEF Reset
<1>24. CASE BecomeReady
  BY <1>24 DEF BecomeReady
<1>25. CASE ReleaseOwnership
  BY <1>25 DEF ReleaseOwnership
<1>26. CASE BiosUses
  BY <1>26 DEF BiosUses, WriteUSBCMD, ReadUSBCMD
<1>27. CASE UNCHANGED vars
  BY <1>27 DEF vars
<1> QED
  BY <1>1, <1>2, <1>3, <1>4, <1>5, <1>6, <1>7, <1>8, <1>9, <1>10, <1>11,
  <1>12, <1>13, <1>14, <1>15, <1>16, <1>17, <1>18, <1>19, <1>20, <1>21, <1>22,
  <1>23, <1>24, <1>25, <1>26, <1>27 DEF Next, Driver, Initialize

(* Only one write of USBCMD resets (xhci.cpp:342-349).                      *)
LEMMA ResetOnceNext == TakeoverInv /\ [Next]_vars => ResetOnce'
<1> SUFFICES ASSUME TakeoverInv, [Next]_vars PROVE ResetOnce'
  OBVIOUS
<1> USE DEF TakeoverInv, RegisterTypeOK, ResetOnce, Goes, command, Telling
<1>1. CASE AllocOrFail
  <2>1. /\ pc \in {"device_table", "context_table"} \cup Telling
        /\ pc' \in {"context_table", "ownership", "run"} \cup Telling
        /\ pc' = "context_table" => pc = "device_table"
        /\ pc' = "ownership" => pc = "context_table"
        /\ UNCHANGED <<usbcmd, command, status, owner>>
    BY <1>1, AllocMoves DEF Telling
  <2> QED
    BY <2>1
<1>2. CASE FindLegacySupport
  BY <1>2 DEF FindLegacySupport
<1>3. CASE RequestOwnership
  BY <1>3 DEF RequestOwnership
<1>4. CASE WaitOwned
  BY <1>4 DEF WaitOwned
<1>5. CASE ReadForStop
  BY <1>5 DEF ReadForStop, ReadUSBCMD
<1>6. CASE LookHalted
  BY <1>6 DEF LookHalted
<1>7. CASE WriteStop
  BY <1>7 DEF WriteStop, WriteUSBCMD
<1>8. CASE WaitHalted
  BY <1>8 DEF WaitHalted
<1>9. CASE ReadForReset
  BY <1>9 DEF ReadForReset, ReadUSBCMD
<1>10. CASE WriteReset
  BY <1>10 DEF WriteReset, WriteUSBCMD
<1>11. CASE WaitReset
  BY <1>11 DEF WaitReset
<1>12. CASE WaitReady
  BY <1>12 DEF WaitReady
<1>13. CASE WriteStructure
  <2>1. /\ pc \in Telling /\ pc' \in Telling \cup {"read_enable"}
        /\ UNCHANGED <<usbcmd, command, status, owner>>
    BY <1>13, TellingMoves
  <2> QED
    BY <2>1
<1>14. CASE AllocPageArray
  <2>1. /\ pc \in Telling /\ pc' \in Telling \cup {"read_enable"}
        /\ UNCHANGED <<usbcmd, command, status, owner>>
    BY <1>14, TellingMoves
  <2> QED
    BY <2>1
<1>15. CASE AllocPage
  <2>1. /\ pc \in Telling /\ pc' \in Telling \cup {"read_enable"}
        /\ UNCHANGED <<usbcmd, command, status, owner>>
    BY <1>15, TellingMoves
  <2> QED
    BY <2>1
<1>16. CASE ReadForEnable
  BY <1>16 DEF ReadForEnable, ReadUSBCMD
<1>17. CASE WriteEnable
  BY <1>17 DEF WriteEnable, WriteUSBCMD
<1>18. CASE ReadForRun
  BY <1>18 DEF ReadForRun, ReadUSBCMD
<1>19. CASE WriteRun
  BY <1>19 DEF WriteRun, WriteUSBCMD
<1>20. CASE WaitRunning
  BY <1>20 DEF WaitRunning
<1>21. CASE AllocForDevice
  BY <1>21 DEF AllocForDevice
<1>22. CASE Halt
  BY <1>22 DEF Halt
<1>23. CASE Reset
  BY <1>23 DEF Reset
<1>24. CASE BecomeReady
  BY <1>24 DEF BecomeReady
<1>25. CASE ReleaseOwnership
  BY <1>25 DEF ReleaseOwnership
<1>26. CASE BiosUses
  BY <1>26 DEF BiosUses, WriteUSBCMD, ReadUSBCMD
<1>27. CASE UNCHANGED vars
  BY <1>27 DEF vars
<1> QED
  BY <1>1, <1>2, <1>3, <1>4, <1>5, <1>6, <1>7, <1>8, <1>9, <1>10, <1>11,
  <1>12, <1>13, <1>14, <1>15, <1>16, <1>17, <1>18, <1>19, <1>20, <1>21, <1>22,
  <1>23, <1>24, <1>25, <1>26, <1>27 DEF Next, Driver, Initialize

(* Every step keeps the invariant.                                         *)
LEMMA TakeoverNext == TakeoverInv /\ [Next]_vars => TakeoverInv'
BY TypeNext, OwnedNext, StoppedNext, ResetOnceNext DEF TakeoverInv

(* Whichever of the two semaphores are set at the start, the controller is *)
(* reset only when the BIOS has let go of it and it has stopped, however   *)
(* the two interleave with the driver's accesses (xhci.cpp:305, 331-349),  *)
(* unless the driver found its own semaphore set while the BIOS still had  *)
(* the controller and did not wait (xhci.cpp:297-299).                     *)
THEOREM ResetOnlyHalted == Spec => []ResetWhileHalted
<1>1. TakeoverInv => ResetWhileHalted
  BY DEF TakeoverInv, RegisterTypeOK, Owned, Stopped, ResetOnce, Resetting,
         Owning, Running, ResetWhileHalted
<1> QED
  BY <1>1, TakeoverStarts, TakeoverNext, PTL DEF Spec

-----------------------------------------------------------------------------
(* The pool of start-up.                                                   *)

(* A step of start-up is a step of the pool or leaves it alone.            *)
LEMMA StepOfPool ==
  ASSUME max_scratchpad_buffers \in Scratchpads, [Next]_vars
  PROVE  [PoolNext]_poolVars /\ UNCHANGED max_scratchpad_buffers
<1> USE AllRequestsAssumption DEF AllRequests, StartupRequests, PoolNext
<1>1. CASE AllocOrFail
  <2>1. PICK c \in Checked : AllocMem(c.wants)
    BY <1>1, Zenon DEF AllocOrFail
  <2>2. c.wants \in {DeviceTable, ContextTable, TRBs, SegmentTable}
    BY CheckedIs
  <2> QED
    BY <1>1, <2>1, <2>2 DEF AllocOrFail
<1>2. CASE AllocPageArray
  BY <1>2 DEF AllocPageArray
<1>3. CASE AllocPage
  BY <1>3 DEF AllocPage
<1>4. CASE AllocForDevice
  BY <1>4 DEF AllocForDevice
<1>5. ASSUME UNCHANGED memory
      PROVE  [PoolNext]_poolVars /\ UNCHANGED max_scratchpad_buffers
  BY <1>5 DEF memory
<1>6. CASE UNCHANGED vars
  BY <1>5, <1>6 DEF vars
<1>7. CASE \/ FindLegacySupport \/ RequestOwnership \/ WaitOwned
           \/ ReadForStop \/ LookHalted \/ WriteStop \/ WaitHalted
           \/ ReadForReset \/ WriteReset \/ WaitReset \/ WaitReady
           \/ WriteStructure \/ ReadForEnable \/ WriteEnable
  BY <1>5, <1>7
  DEF FindLegacySupport, RequestOwnership, WaitOwned, ReadForStop, LookHalted,
      WriteStop, WaitHalted, ReadForReset, WriteReset, WaitReset, WaitReady,
      WriteStructure, ReadForEnable, WriteEnable
<1>8. CASE \/ ReadForRun \/ WriteRun \/ WaitRunning
           \/ Halt \/ Reset \/ BecomeReady \/ ReleaseOwnership \/ BiosUses
  BY <1>5, <1>8
  DEF ReadForRun, WriteRun, WaitRunning, Halt, Reset, BecomeReady,
      ReleaseOwnership, BiosUses
<1> QED
  BY <1>1, <1>2, <1>3, <1>4, <1>6, <1>7, <1>8 DEF Next, Driver, Initialize

PlacesInv == /\ PoolInv /\ PlacedAsAsked
             /\ max_scratchpad_buffers \in Scratchpads

(* The invariant of the pool is kept by start-up.                          *)
LEMMA PlacesInvariant ==
  /\ Init => PlacesInv
  /\ PlacesInv /\ [Next]_vars => PlacesInv'
<1>1. Init => PlacesInv
  BY PoolStarts DEF Init, PoolInit, PlacesInv, PlacedAsAsked
<1>2. ASSUME PlacesInv, [Next]_vars PROVE PlacesInv'
  <2>1. /\ PoolInv /\ PlacedAsAsked /\ max_scratchpad_buffers \in Scratchpads
        /\ [PoolNext]_poolVars /\ UNCHANGED max_scratchpad_buffers
    BY <1>2, StepOfPool DEF PlacesInv
  <2> QED
    BY <2>1, PoolKept DEF PlacesInv
<1> QED
  BY <1>1, <1>2

(* What start-up and the devices after it get from the pool is apart and   *)
(* placed as asked, whatever the sizes, the pool's address and the         *)
(* scratchpad (xhci.cpp:351-390, devmgr.cpp:6-26, 70-82).                  *)
THEOREM StartupPoolIsSafe == Spec => [](BlocksApart /\ PlacedAsAsked)
<1>1. PlacesInv => BlocksApart /\ PlacedAsAsked
  BY DEF PlacesInv, PoolInv
<1> QED
  BY <1>1, PlacesInvariant, PTL DEF Spec

-----------------------------------------------------------------------------
(* The controller runs with everything it needs.                           *)

(* The sizes of the code (memory.hpp:13, xhci.hpp:32).                     *)
CodeSizes == kMemoryPoolSize = 4096 * 32 /\ kDeviceSize = 8

(* What has been told to the controller.                                   *)
Told ==
  /\ pc \in Owning \cup Stopping \cup Resetting \cup {"wait_ready", "CONFIG"} =>
       written = {}
  /\ pc \in {"page_array", "pages", "DCBAAP"} => written = {"CONFIG"}
  /\ pc \in {"command_ring", "CRCR"} => written = {"CONFIG", "DCBAAP"}
  /\ pc \in {"event_ring", "segment_table", "ERST"} =>
       written = {"CONFIG", "DCBAAP", "CRCR"}
  /\ pc = "IMAN" => written = {"CONFIG", "DCBAAP", "CRCR", "ERST"}
  /\ pc \in Enabling \cup Running => written = Structures

(* Nobody but the driver touches it any more, unless the driver did not    *)
(* wait for the BIOS to let go; and it is ready when it is written to.     *)
Alone ==
  /\ bios_owned /\ ~shared => pc \in Owning
  /\ controller_not_ready => pc \in {"wait_reset", "wait_ready"}

(* Interrupts and R/S on their way through the copy of USBCMD.             *)
Enabled ==
  /\ pc = "write_enable" => usbcmd.inte
  /\ pc = "write_run" => usbcmd.inte /\ usbcmd.run_stop
  /\ pc \in Running => interrupter_enable
  /\ pc \in {"wait_running", "running"} /\ ~shared => run_stop

(* How much of the pool is gone, at the most: alignment costs a block its  *)
(* alignment, the boundary its size.  Pages follow one another without     *)
(* gaps once the first one is aligned.                                     *)
Gone(n) == alloc_ptr <= memory_pool + n
Room ==
  /\ pc = "device_table" => alloc_ptr = memory_pool
  /\ pc = "context_table" => Gone(72)
  /\ pc \in {"ownership", "request", "wait_owned"} \cup Stopping \cup Resetting
            \cup {"wait_ready", "CONFIG", "page_array"} => Gone(278)
  /\ pc = "pages" =>
       \/ Len(scratchpad) = 0 /\ Gone(820)
       \/ /\ Len(scratchpad) > 0 /\ Gone(4915 + 4096 * Len(scratchpad))
          /\ Divides(4096, alloc_ptr)
  /\ pc \in {"DCBAAP", "command_ring"} => Gone(127795)
  /\ pc \in {"CRCR", "event_ring"} => Gone(128881)
  /\ pc = "segment_table" => Gone(129967)

(* One entry per page so far, none of them null.                           *)
Pages ==
  /\ scratchpad \in Seq(BOOLEAN) /\ \A i \in DOMAIN scratchpad : scratchpad[i]
  /\ pc \in Owning \cup Stopping \cup Resetting
            \cup {"wait_ready", "CONFIG", "page_array"} => scratchpad = <<>>
  /\ pc = "pages" => Len(scratchpad) < max_scratchpad_buffers
  /\ pc \in (Telling \ {"CONFIG", "page_array", "pages"}) \cup Enabling
            \cup Running => Len(scratchpad) = max_scratchpad_buffers

ConfiguredInv == Told /\ Alone /\ Enabled /\ Room /\ Pages

(* Aligning costs less than the alignment, the boundary less than the size *)
(* (memory.cpp:22-34).                                                     *)
LEMMA CeilWithin ==
  ASSUME NEW value \in Nat, NEW b \in Nat, b > 0
  PROVE  Ceil(value, b) <= value + b - 1
<1>1. PICK q \in Nat, r \in 0..(b - 1) : value = b * q + r
  BY MultipleAndRest
<1>2. Ceil(value, b) = IF r = 0 THEN b * q ELSE b * (q + 1)
  BY <1>1, CeilIs
<1>3. b * (q + 1) = b * q + b /\ b * q \in Nat
  OBVIOUS
<1> DEFINE m == b * q
<1> HIDE DEF m
<1>4. value = m + r /\ m \in Nat /\ Ceil(value, b) = IF r = 0 THEN m ELSE m + b
  BY <1>1, <1>2, <1>3 DEF m
<1> QED
  BY <1>4

(* So a request takes at most its alignment and twice its size.            *)
LEMMA EndWithin ==
  ASSUME alloc_ptr \in Nat, NEW r \in Requests, r.alignment > 0, r.size > 0
  PROVE  Placed(r) + r.size <= alloc_ptr + r.alignment + 2 * r.size - 2
<1>1. r.size \in Nat /\ r.alignment \in Nat /\ r.boundary \in Nat
  BY RequestAssumption DEF Request
<1>2. /\ Aligned(r) = Ceil(alloc_ptr, r.alignment)
      /\ Aligned(r) \in Nat /\ Aligned(r) <= alloc_ptr + r.alignment - 1
  BY <1>1, CeilBounds, CeilWithin DEF Aligned
<1>3. Placed(r) \in Nat
  BY PlacedBounds
<1>4. Placed(r) = Aligned(r) \/ Placed(r) < Aligned(r) + r.size
  BY DEF Placed
<1> QED
  BY <1>1, <1>2, <1>3, <1>4

(* A block as large as its alignment and its boundary: the next multiple.  *)
LEMMA PagePlaced ==
  ASSUME alloc_ptr \in Nat, Page \in Requests
  PROVE  /\ Placed(Page) \in Nat /\ Placed(Page) <= alloc_ptr + 4095
         /\ Divides(4096, Placed(Page) + 4096)
         /\ Divides(4096, alloc_ptr) => Placed(Page) = alloc_ptr
<1>1. Page.size = 4096 /\ Page.alignment = 4096 /\ Page.boundary = 4096
  BY DEF Page, Ask
<1> DEFINE q == alloc_ptr \div 4096
           r == alloc_ptr % 4096
<1>2. q \in Nat /\ r \in 0..4095 /\ alloc_ptr = 4096 * q + r
  OBVIOUS
<1>3. Divides(4096, alloc_ptr) => r = 0
  BY DEF Divides
<1> HIDE DEF q, r
<1>4. Aligned(Page) = IF r = 0 THEN 4096 * q ELSE 4096 * (q + 1)
  BY <1>1, <1>2, CeilIs DEF Aligned
<1>5. PICK k \in Nat : Aligned(Page) = 4096 * k
  <2>1. CASE r = 0
    BY <1>2, <1>4, <2>1
  <2>2. CASE r # 0
    <3>1. q + 1 \in Nat /\ Aligned(Page) = 4096 * (q + 1)
      BY <1>2, <1>4, <2>2
    <3> DEFINE k == q + 1
    <3>2. k \in Nat /\ Aligned(Page) = 4096 * k
      BY <3>1
    <3> HIDE DEF k
    <3> QED
      BY <3>2
  <2> QED
    BY <2>1, <2>2
<1>6. Ceil(4096 * k, 4096) = 4096 * k
  BY CeilIs
<1>7. Placed(Page) = Aligned(Page)
  BY <1>1, <1>5, <1>6 DEF Placed
<1>8. Divides(4096, Placed(Page) + 4096)
  BY <1>5, <1>7 DEF Divides
<1> QED
  BY <1>2, <1>3, <1>4, <1>7, <1>8

(* With the sizes of the code, and a controller that wants no more pages   *)
(* than that pool has but two.                                             *)
ReadyInv == /\ CodeSizes /\ max_scratchpad_buffers <= 30
            /\ PlacesInv /\ TakeoverInv /\ ConfiguredInv

(* The sizes of what Initialize asks for.                                  *)
LEMMA Sizes ==
  ASSUME CodeSizes
  PROVE  /\ DeviceTable.size = 72 /\ DeviceTable.alignment = 0
            /\ DeviceTable.boundary = 0
         /\ ContextTable.size = 72 /\ ContextTable.alignment = 64
         /\ TRBs.size = 512 /\ TRBs.alignment = 64
         /\ SegmentTable.size = 16 /\ SegmentTable.alignment = 64
         /\ Page.size = 4096
         /\ \A n : PageArray(n).size = 8 * n /\ PageArray(n).alignment = 64
         /\ Limit = memory_pool + 131072
BY DEF CodeSizes, DeviceTable, ContextTable, TRBs, SegmentTable, Page,
       PageArray, Ask, Limit

(* No allocation of Initialize fails (xhci.cpp:324-384, devmgr.cpp:6-26,   *)
(* ring.cpp:12-28, 56-86).                                                 *)
LEMMA AllocFits ==
  ASSUME ReadyInv, AllocOrFail
  PROVE  /\ \/ pc = "device_table"  /\ pc' = "context_table" /\ Gone(72)'
            \/ pc = "context_table" /\ pc' = "ownership"     /\ Gone(278)'
            \/ pc = "command_ring"  /\ pc' = "CRCR"          /\ Gone(128881)'
            \/ pc = "event_ring"    /\ pc' = "segment_table" /\ Gone(129967)'
            \/ pc = "segment_table" /\ pc' = "ERST"
         /\ UNCHANGED <<usbcmd, command, status, owner, written, scratchpad,
                        max_scratchpad_buffers>>
<1> DEFINE
  G == /\ \/ pc = "device_table"  /\ pc' = "context_table" /\ Gone(72)'
          \/ pc = "context_table" /\ pc' = "ownership"     /\ Gone(278)'
          \/ pc = "command_ring"  /\ pc' = "CRCR"          /\ Gone(128881)'
          \/ pc = "event_ring"    /\ pc' = "segment_table" /\ Gone(129967)'
          \/ pc = "segment_table" /\ pc' = "ERST"
       /\ UNCHANGED <<usbcmd, command, status, owner, written, scratchpad,
                      max_scratchpad_buffers>>
<1> SUFFICES G
  OBVIOUS
<1>1. PICK c \in Checked : /\ pc = c.at /\ AllocMem(c.wants)
                           /\ pc' = IF Fits(c.wants) THEN c.then ELSE "run"
  BY Zenon DEF AllocOrFail
<1>2. /\ UNCHANGED <<usbcmd, command, status, owner, written, scratchpad,
                     max_scratchpad_buffers>>
  BY DEF AllocOrFail
<1>3. alloc_ptr \in Nat /\ memory_pool \in Nat
  BY DEF ReadyInv, PlacesInv, PoolInv
<1>4. /\ DeviceTable \in Requests /\ ContextTable \in Requests
      /\ TRBs \in Requests /\ SegmentTable \in Requests
  BY AllRequestsAssumption DEF AllRequests, StartupRequests
<1>5. ASSUME NEW r \in Requests, NEW n \in Nat, AllocMem(r), n <= 131072,
             Placed(r) + r.size <= memory_pool + n, Limit = memory_pool + 131072
      PROVE  Fits(r) /\ Gone(n)'
  <2>. r.size \in Nat /\ Placed(r) \in Nat
    BY <1>3, PlacedBounds, RequestAssumption DEF Request
  <2>1. Placed(r) + r.size <= memory_pool + 131072
    BY <1>3, <1>5, SMT
  <2>2. Fits(r)
    BY <1>5, <2>1 DEF Fits
  <2> QED
    BY <1>5, <2>2 DEF AllocMem, Gone
<1> DEFINE
  C1 == c.at = "device_table" /\ c.wants = DeviceTable /\ c.then = "context_table"
  C2 == c.at = "context_table" /\ c.wants = ContextTable /\ c.then = "ownership"
  C3 == c.at = "command_ring" /\ c.wants = TRBs /\ c.then = "CRCR"
  C4 == c.at = "event_ring" /\ c.wants = TRBs /\ c.then = "segment_table"
  C5 == c.at = "segment_table" /\ c.wants = SegmentTable /\ c.then = "ERST"
<1>6. CASE C1
  <2>1. Placed(DeviceTable) = alloc_ptr
    BY Sizes DEF ReadyInv, Placed, Aligned
  <2>2. alloc_ptr = memory_pool
    BY <1>1, <1>6 DEF ReadyInv, ConfiguredInv, Room
  <2>3. DeviceTable.size = 72 /\ Limit = memory_pool + 131072
    BY Sizes DEF ReadyInv
  <2>4. Placed(DeviceTable) + DeviceTable.size <= memory_pool + 72
    BY <1>3, <2>1, <2>2, <2>3, SMT
  <2>5. Fits(DeviceTable) /\ Gone(72)'
    BY <1>1, <1>4, <1>5, <1>6, <2>3, <2>4, SMT
  <2>6. pc = "device_table" /\ pc' = "context_table"
    BY <1>1, <1>6, <2>5
  <2> QED
    BY <1>2, <2>5, <2>6
<1>7. CASE C2
  <2>1. Placed(ContextTable) + ContextTable.size <= alloc_ptr + 206
    BY <1>3, <1>4, EndWithin, Sizes DEF ReadyInv
  <2>2. alloc_ptr <= memory_pool + 72
    BY <1>1, <1>7 DEF ReadyInv, ConfiguredInv, Room, Gone
  <2>3. Placed(ContextTable) + ContextTable.size <= memory_pool + 278
    BY <1>3, <1>4, <2>1, <2>2, PlacedBounds, Sizes DEF ReadyInv
  <2>4. Limit = memory_pool + 131072
    BY Sizes DEF ReadyInv
  <2>5. Fits(ContextTable) /\ Gone(278)'
    BY <1>1, <1>4, <1>5, <1>7, <2>3, <2>4, SMT
  <2>6. pc = "context_table" /\ pc' = "ownership"
    BY <1>1, <1>7, <2>5
  <2> QED
    BY <1>2, <2>5, <2>6
<1>8. CASE C3
  <2>1. Placed(TRBs) + TRBs.size <= alloc_ptr + 1086
    BY <1>3, <1>4, EndWithin, Sizes DEF ReadyInv
  <2>2. alloc_ptr <= memory_pool + 127795
    BY <1>1, <1>8 DEF ReadyInv, ConfiguredInv, Room, Gone
  <2>3. Placed(TRBs) + TRBs.size <= memory_pool + 128881
    BY <1>3, <1>4, <2>1, <2>2, PlacedBounds, Sizes DEF ReadyInv
  <2>4. Limit = memory_pool + 131072
    BY Sizes DEF ReadyInv
  <2>5. Fits(TRBs) /\ Gone(128881)'
    BY <1>1, <1>4, <1>5, <1>8, <2>3, <2>4, SMT
  <2>6. pc = "command_ring" /\ pc' = "CRCR"
    BY <1>1, <1>8, <2>5
  <2> QED
    BY <1>2, <2>5, <2>6
<1>9. CASE C4
  <2>1. Placed(TRBs) + TRBs.size <= alloc_ptr + 1086
    BY <1>3, <1>4, EndWithin, Sizes DEF ReadyInv
  <2>2. alloc_ptr <= memory_pool + 128881
    BY <1>1, <1>9 DEF ReadyInv, ConfiguredInv, Room, Gone
  <2>3. Placed(TRBs) + TRBs.size <= memory_pool + 129967
    BY <1>3, <1>4, <2>1, <2>2, PlacedBounds, Sizes DEF ReadyInv
  <2>4. Limit = memory_pool + 131072
    BY Sizes DEF ReadyInv
  <2>5. Fits(TRBs) /\ Gone(129967)'
    BY <1>1, <1>4, <1>5, <1>9, <2>3, <2>4, SMT
  <2>6. pc = "event_ring" /\ pc' = "segment_table"
    BY <1>1, <1>9, <2>5
  <2> QED
    BY <1>2, <2>5, <2>6
<1>10. CASE C5
  <2>1. Placed(SegmentTable) + SegmentTable.size <= alloc_ptr + 94
    BY <1>3, <1>4, EndWithin, Sizes DEF ReadyInv
  <2>2. alloc_ptr <= memory_pool + 129967
    BY <1>1, <1>10 DEF ReadyInv, ConfiguredInv, Room, Gone
  <2>3. Placed(SegmentTable) + SegmentTable.size <= memory_pool + 130061
    BY <1>3, <1>4, <2>1, <2>2, PlacedBounds, Sizes DEF ReadyInv
  <2>4. Limit = memory_pool + 131072
    BY Sizes DEF ReadyInv
  <2>5. Fits(SegmentTable) /\ Gone(130061)'
    BY <1>1, <1>4, <1>5, <1>10, <2>3, <2>4, SMT
  <2>6. pc = "segment_table" /\ pc' = "ERST"
    BY <1>1, <1>10, <2>5
  <2> QED
    BY <1>2, <2>5, <2>6
<1>11. C1 \/ C2 \/ C3 \/ C4 \/ C5
  BY CheckedIs
<1> HIDE DEF G, C1, C2, C3, C4, C5
<1> QED
  BY <1>6, <1>7, <1>8, <1>9, <1>10, <1>11

(* Nor does one of the scratchpad (xhci.cpp:356-368).                      *)
LEMMA PageArrayFits ==
  ASSUME ReadyInv, AllocPageArray
  PROVE  /\ pc = "page_array"
         /\ \/ max_scratchpad_buffers = 0 /\ pc' = "DCBAAP" /\ Gone(278)'
            \/ max_scratchpad_buffers > 0 /\ pc' = "pages" /\ Gone(820)'
         /\ UNCHANGED <<usbcmd, command, status, owner, written, scratchpad,
                        max_scratchpad_buffers>>
<1>1. /\ pc = "page_array"
      /\ UNCHANGED <<usbcmd, command, status, owner, written, scratchpad,
                     max_scratchpad_buffers>>
  BY DEF AllocPageArray
<1>2. alloc_ptr \in Nat /\ memory_pool \in Nat /\ alloc_ptr <= memory_pool + 278
  BY <1>1 DEF ReadyInv, PlacesInv, PoolInv, ConfiguredInv, Room, Gone
<1>3. CASE max_scratchpad_buffers = 0 /\ pc' = "DCBAAP" /\ UNCHANGED poolVars
  BY <1>1, <1>2, <1>3 DEF poolVars, Gone
<1>4. CASE /\ max_scratchpad_buffers > 0 /\ pc' = "pages"
           /\ AllocMem(PageArray(max_scratchpad_buffers))
  <2> DEFINE n == max_scratchpad_buffers
             r == PageArray(n)
  <2>1. n \in 1..30 /\ r \in Requests
    BY <1>4, AllRequestsAssumption, SlotsAssumption
    DEF ReadyInv, PlacesInv, AllRequests, StartupRequests
  <2>2. r.size = 8 * n /\ r.alignment = 64
    BY Sizes DEF ReadyInv
  <2> HIDE DEF r
  <2>3. Placed(r) \in Nat /\ Placed(r) + r.size <= alloc_ptr + r.alignment + 2 * r.size - 2
    BY <1>2, <2>1, <2>2, EndWithin, PlacedBounds
  <2>4. Placed(r) + r.size <= memory_pool + 820
    BY <1>2, <2>1, <2>2, <2>3
  <2>5. Placed(r) + r.size <= Limit
    BY <1>2, <2>1, <2>2, <2>3, <2>4, Sizes DEF ReadyInv
  <2>6. AllocMem(r)
    BY <1>4 DEF r
  <2>7. Gone(820)'
    BY <2>4, <2>5, <2>6 DEF AllocMem, Fits, Gone
  <2> QED
    BY <1>1, <1>4, <2>7
<1> QED
  BY <1>3, <1>4 DEF AllocPageArray

(* Nor of one of its pages: once the first one is aligned they follow one  *)
(* another without gaps (xhci.cpp:360-367).                                *)
LEMMA PageFits ==
  ASSUME ReadyInv, AllocPage
  PROVE  /\ Fits(Page) /\ Placed(Page) \in Nat
         /\ Placed(Page) + 4096 <= memory_pool + (4915 + 4096 * (Len(scratchpad) + 1))
         /\ Divides(4096, Placed(Page) + 4096)
<1>1. pc = "pages"
  BY DEF AllocPage
<1>2. alloc_ptr \in Nat /\ memory_pool \in Nat /\ Page \in Requests
      /\ max_scratchpad_buffers \in Nat /\ max_scratchpad_buffers <= 30
  BY AllRequestsAssumption, SlotsAssumption
  DEF ReadyInv, PlacesInv, PoolInv, AllRequests, StartupRequests
<1>3. Len(scratchpad) \in Nat /\ Len(scratchpad) < max_scratchpad_buffers
  BY <1>1 DEF ReadyInv, ConfiguredInv, Pages
<1> DEFINE n == Len(scratchpad)
<1>4. \/ n = 0 /\ alloc_ptr <= memory_pool + 820
      \/ /\ n > 0 /\ alloc_ptr <= memory_pool + (4915 + 4096 * n)
         /\ Divides(4096, alloc_ptr)
  BY <1>1 DEF ReadyInv, ConfiguredInv, Room, Gone
<1>5. /\ Placed(Page) \in Nat /\ Placed(Page) <= alloc_ptr + 4095
      /\ Divides(4096, Placed(Page) + 4096)
      /\ Divides(4096, alloc_ptr) => Placed(Page) = alloc_ptr
  BY <1>2, PagePlaced
<1>6. n \in Nat /\ n <= 29
  <2>1. n \in Nat /\ n < max_scratchpad_buffers
    BY <1>3
  <2> HIDE DEF n
  <2> QED
    BY <1>2, <2>1, SMT
<1> HIDE DEF n
<1>7. Placed(Page) + 4096 <= memory_pool + (4915 + 4096 * (n + 1))
  BY <1>2, <1>4, <1>5, <1>6
<1>8. Page.size = 4096 /\ Limit = memory_pool + 131072
  BY Sizes DEF ReadyInv
<1>9. Placed(Page) + 4096 <= memory_pool + 131072
  BY <1>2, <1>5, <1>6, <1>7
<1>10. Fits(Page)
  BY <1>8, <1>9 DEF Fits
<1> QED
  BY <1>5, <1>7, <1>10 DEF n

(* A page is added to those of before.                                     *)
LEMMA PageCounted ==
  ASSUME ReadyInv, AllocPage
  PROVE  /\ pc = "pages" /\ scratchpad \in Seq(BOOLEAN)
         /\ scratchpad' = Append(scratchpad, TRUE)
         /\ Len(scratchpad) \in Nat /\ Len(scratchpad') = Len(scratchpad) + 1
         /\ Len(scratchpad') <= max_scratchpad_buffers
         /\ \/ pc' = "DCBAAP" /\ Len(scratchpad') = max_scratchpad_buffers
            \/ pc' = "pages" /\ Len(scratchpad') /= max_scratchpad_buffers
         /\ max_scratchpad_buffers' = max_scratchpad_buffers
<1>1. /\ pc = "pages" /\ scratchpad' = Append(scratchpad, Fits(Page))
      /\ pc' = IF Len(scratchpad') = max_scratchpad_buffers THEN "DCBAAP" ELSE pc
      /\ max_scratchpad_buffers' = max_scratchpad_buffers
  BY DEF AllocPage
<1>2. /\ scratchpad \in Seq(BOOLEAN)
      /\ Len(scratchpad) < max_scratchpad_buffers
  BY <1>1 DEF ReadyInv, ConfiguredInv, Pages
<1>3. Fits(Page) = TRUE
  <2>1. Fits(Page)
    BY PageFits, SMT
  <2>2. Fits(Page) \in BOOLEAN
    BY SMT DEF Fits
  <2> QED
    BY <2>1, <2>2
<1>4. scratchpad' = Append(scratchpad, TRUE)
  BY <1>1, <1>3
<1>5. Len(scratchpad) \in Nat /\ Len(scratchpad') = Len(scratchpad) + 1
  BY <1>2, <1>4, AppendProperties, LenProperties
<1>6. max_scratchpad_buffers \in Nat
  BY SlotsAssumption DEF ReadyInv, PlacesInv
<1>7. Len(scratchpad') <= max_scratchpad_buffers
  BY <1>2, <1>5, <1>6
<1> QED
  BY <1>1, <1>2, <1>4, <1>5, <1>7

(* The structures, one after the other (xhci.cpp:345-384).                  *)
LEMMA StructureArrives ==
  ASSUME ReadyInv, WriteStructure
  PROVE  /\ \/ pc = "CONFIG" /\ pc' = "page_array"
            \/ pc = "DCBAAP" /\ pc' = "command_ring"
            \/ pc = "CRCR" /\ pc' = "event_ring"
            \/ pc = "ERST" /\ pc' = "IMAN"
            \/ pc = "IMAN" /\ pc' = "read_enable"
         /\ written' = written \cup {pc}
         /\ UNCHANGED <<usbcmd, command, status, owner, memory>>
<1>1. /\ pc \in Structures /\ pc' = After[pc]
      /\ written' = IF host_controller_reset \/ controller_not_ready
                    THEN written ELSE written \cup {pc}
      /\ UNCHANGED <<usbcmd, command, status, owner, memory>>
  BY DEF WriteStructure
<1>2. /\ After["CONFIG"] = "page_array" /\ After["DCBAAP"] = "command_ring"
      /\ After["CRCR"] = "event_ring" /\ After["ERST"] = "IMAN"
      /\ After["IMAN"] = "read_enable"
  BY DEF After
<1>3. ~host_controller_reset /\ ~controller_not_ready
  BY <1>1 DEF ReadyInv, TakeoverInv, ResetOnce, ConfiguredInv, Alone, Structures
<1>4. /\ \/ pc = "CONFIG" /\ pc' = "page_array"
         \/ pc = "DCBAAP" /\ pc' = "command_ring"
         \/ pc = "CRCR" /\ pc' = "event_ring"
         \/ pc = "ERST" /\ pc' = "IMAN"
         \/ pc = "IMAN" /\ pc' = "read_enable"
  BY <1>1, <1>2 DEF Structures
<1> QED
  BY <1>1, <1>3, <1>4

(* The controller is told one structure after the other, once it is ready  *)
(* (xhci.cpp:345-384).                                                     *)
LEMMA ToldNext == ReadyInv /\ [Next]_vars => Told'
<1> SUFFICES ASSUME ReadyInv, [Next]_vars PROVE Told'
  OBVIOUS
<1> USE DEF ReadyInv, ConfiguredInv, TakeoverInv, RegisterTypeOK, Owned,
            Stopped, ResetOnce, Told, Alone, Owning, Stopping, Resetting,
            Telling, Enabling, Running, Goes, Structures
<1>1. CASE AllocOrFail
  <2>1. /\ \/ pc = "device_table" /\ pc' = "context_table"
           \/ pc = "context_table" /\ pc' = "ownership"
           \/ pc = "command_ring" /\ pc' = "CRCR"
           \/ pc = "event_ring" /\ pc' = "segment_table"
           \/ pc = "segment_table" /\ pc' = "ERST"
        /\ UNCHANGED <<usbcmd, command, status, owner, written>>
    BY <1>1, AllocFits
  <2> QED
    BY <2>1
<1>2. CASE FindLegacySupport
  BY <1>2 DEF FindLegacySupport
<1>3. CASE RequestOwnership
  BY <1>3 DEF RequestOwnership
<1>4. CASE WaitOwned
  BY <1>4 DEF WaitOwned
<1>5. CASE ReadForStop
  BY <1>5 DEF ReadForStop, ReadUSBCMD
<1>6. CASE LookHalted
  BY <1>6 DEF LookHalted
<1>7. CASE WriteStop
  BY <1>7 DEF WriteStop, WriteUSBCMD
<1>8. CASE WaitHalted
  BY <1>8 DEF WaitHalted
<1>9. CASE ReadForReset
  BY <1>9 DEF ReadForReset, ReadUSBCMD
<1>10. CASE WriteReset
  BY <1>10 DEF WriteReset, WriteUSBCMD
<1>11. CASE WaitReset
  BY <1>11 DEF WaitReset
<1>12. CASE WaitReady
  BY <1>12 DEF WaitReady
<1>13. CASE WriteStructure
  BY <1>13, StructureArrives
<1>14. CASE AllocPageArray
  <2>1. /\ pc = "page_array" /\ pc' \in {"DCBAAP", "pages"}
        /\ UNCHANGED <<usbcmd, command, status, owner, written>>
    BY <1>14, PageArrayFits
  <2> QED
    BY <2>1
<1>15. CASE AllocPage
  <2>1. /\ pc = "pages" /\ pc' \in {"DCBAAP", "pages"}
        /\ UNCHANGED <<usbcmd, command, status, owner, written>>
    BY <1>15 DEF AllocPage
  <2> QED
    BY <2>1
<1>16. CASE ReadForEnable
  BY <1>16 DEF ReadForEnable, ReadUSBCMD
<1>17. CASE WriteEnable
  BY <1>17 DEF WriteEnable, WriteUSBCMD
<1>18. CASE ReadForRun
  BY <1>18 DEF ReadForRun, ReadUSBCMD
<1>19. CASE WriteRun
  BY <1>19 DEF WriteRun, WriteUSBCMD
<1>20. CASE WaitRunning
  BY <1>20 DEF WaitRunning
<1>21. CASE AllocForDevice
  BY <1>21 DEF AllocForDevice
<1>22. CASE Halt
  BY <1>22 DEF Halt
<1>23. CASE Reset
  BY <1>23 DEF Reset
<1>24. CASE BecomeReady
  BY <1>24 DEF BecomeReady
<1>25. CASE ReleaseOwnership
  BY <1>25 DEF ReleaseOwnership
<1>26. CASE BiosUses
  BY <1>26 DEF BiosUses, WriteUSBCMD, ReadUSBCMD
<1>27. CASE UNCHANGED vars
  BY <1>27 DEF vars
<1> QED
  BY <1>1, <1>2, <1>3, <1>4, <1>5, <1>6, <1>7, <1>8, <1>9, <1>10, <1>11,
  <1>12, <1>13, <1>14, <1>15, <1>16, <1>17, <1>18, <1>19, <1>20, <1>21, <1>22,
  <1>23, <1>24, <1>25, <1>26, <1>27 DEF Next, Driver, Initialize

(* The BIOS does not come back, and only a reset makes the controller      *)
(* unready (xhci.cpp:283-343).                                             *)
LEMMA AloneNext == ReadyInv /\ [Next]_vars => Alone'
<1> SUFFICES ASSUME ReadyInv, [Next]_vars PROVE Alone'
  OBVIOUS
<1> USE DEF ReadyInv, ConfiguredInv, TakeoverInv, RegisterTypeOK, Owned,
            ResetOnce, Alone, command, status, owner, Owning, Stopping,
            Resetting, Telling, Enabling, Running, Goes
<1>1. CASE AllocOrFail
  <2>1. /\ \/ pc = "device_table" /\ pc' = "context_table"
           \/ pc = "context_table" /\ pc' = "ownership"
           \/ pc = "command_ring" /\ pc' = "CRCR"
           \/ pc = "event_ring" /\ pc' = "segment_table"
           \/ pc = "segment_table" /\ pc' = "ERST"
        /\ UNCHANGED <<usbcmd, command, status, owner, written>>
    BY <1>1, AllocFits
  <2> QED
    BY <2>1
<1>2. CASE FindLegacySupport
  BY <1>2 DEF FindLegacySupport
<1>3. CASE RequestOwnership
  BY <1>3 DEF RequestOwnership
<1>4. CASE WaitOwned
  BY <1>4 DEF WaitOwned
<1>5. CASE ReadForStop
  BY <1>5 DEF ReadForStop, ReadUSBCMD
<1>6. CASE LookHalted
  BY <1>6 DEF LookHalted
<1>7. CASE WriteStop
  BY <1>7 DEF WriteStop, WriteUSBCMD
<1>8. CASE WaitHalted
  BY <1>8 DEF WaitHalted
<1>9. CASE ReadForReset
  BY <1>9 DEF ReadForReset, ReadUSBCMD
<1>10. CASE WriteReset
  BY <1>10 DEF WriteReset, WriteUSBCMD
<1>11. CASE WaitReset
  BY <1>11 DEF WaitReset
<1>12. CASE WaitReady
  BY <1>12 DEF WaitReady
<1>13. CASE WriteStructure
  BY <1>13, StructureArrives
<1>14. CASE AllocPageArray
  <2>1. /\ pc = "page_array" /\ pc' \in {"DCBAAP", "pages"}
        /\ UNCHANGED <<usbcmd, command, status, owner, written>>
    BY <1>14, PageArrayFits
  <2> QED
    BY <2>1
<1>15. CASE AllocPage
  <2>1. /\ pc = "pages" /\ pc' \in {"DCBAAP", "pages"}
        /\ UNCHANGED <<usbcmd, command, status, owner, written>>
    BY <1>15 DEF AllocPage
  <2> QED
    BY <2>1
<1>16. CASE ReadForEnable
  BY <1>16 DEF ReadForEnable, ReadUSBCMD
<1>17. CASE WriteEnable
  BY <1>17 DEF WriteEnable, WriteUSBCMD
<1>18. CASE ReadForRun
  BY <1>18 DEF ReadForRun, ReadUSBCMD
<1>19. CASE WriteRun
  BY <1>19 DEF WriteRun, WriteUSBCMD
<1>20. CASE WaitRunning
  BY <1>20 DEF WaitRunning
<1>21. CASE AllocForDevice
  BY <1>21 DEF AllocForDevice
<1>22. CASE Halt
  BY <1>22 DEF Halt
<1>23. CASE Reset
  BY <1>23 DEF Reset
<1>24. CASE BecomeReady
  BY <1>24 DEF BecomeReady
<1>25. CASE ReleaseOwnership
  BY <1>25 DEF ReleaseOwnership
<1>26. CASE BiosUses
  BY <1>26 DEF BiosUses, WriteUSBCMD, ReadUSBCMD
<1>27. CASE UNCHANGED vars
  BY <1>27 DEF vars
<1> QED
  BY <1>1, <1>2, <1>3, <1>4, <1>5, <1>6, <1>7, <1>8, <1>9, <1>10, <1>11,
  <1>12, <1>13, <1>14, <1>15, <1>16, <1>17, <1>18, <1>19, <1>20, <1>21, <1>22,
  <1>23, <1>24, <1>25, <1>26, <1>27 DEF Next, Driver, Initialize

(* Each copy of USBCMD is written back before anything changes the register *)
(* (xhci.cpp:387-410).                                                     *)
LEMMA EnabledNext == ReadyInv /\ [Next]_vars => Enabled'
<1> SUFFICES ASSUME ReadyInv, [Next]_vars PROVE Enabled'
  OBVIOUS
<1> USE DEF ReadyInv, ConfiguredInv, TakeoverInv, RegisterTypeOK, ResetOnce,
            Alone, Enabled, command, status, owner, Owning, Stopping,
            Resetting, Telling, Enabling, Running, Goes
<1>1. CASE AllocOrFail
  <2>1. /\ \/ pc = "device_table" /\ pc' = "context_table"
           \/ pc = "context_table" /\ pc' = "ownership"
           \/ pc = "command_ring" /\ pc' = "CRCR"
           \/ pc = "event_ring" /\ pc' = "segment_table"
           \/ pc = "segment_table" /\ pc' = "ERST"
        /\ UNCHANGED <<usbcmd, command, status, owner, written>>
    BY <1>1, AllocFits
  <2> QED
    BY <2>1
<1>2. CASE FindLegacySupport
  BY <1>2 DEF FindLegacySupport
<1>3. CASE RequestOwnership
  BY <1>3 DEF RequestOwnership
<1>4. CASE WaitOwned
  BY <1>4 DEF WaitOwned
<1>5. CASE ReadForStop
  BY <1>5 DEF ReadForStop, ReadUSBCMD
<1>6. CASE LookHalted
  BY <1>6 DEF LookHalted
<1>7. CASE WriteStop
  BY <1>7 DEF WriteStop, WriteUSBCMD
<1>8. CASE WaitHalted
  BY <1>8 DEF WaitHalted
<1>9. CASE ReadForReset
  BY <1>9 DEF ReadForReset, ReadUSBCMD
<1>10. CASE WriteReset
  BY <1>10 DEF WriteReset, WriteUSBCMD
<1>11. CASE WaitReset
  BY <1>11 DEF WaitReset
<1>12. CASE WaitReady
  BY <1>12 DEF WaitReady
<1>13. CASE WriteStructure
  BY <1>13, StructureArrives
<1>14. CASE AllocPageArray
  <2>1. /\ pc = "page_array" /\ pc' \in {"DCBAAP", "pages"}
        /\ UNCHANGED <<usbcmd, command, status, owner, written>>
    BY <1>14, PageArrayFits
  <2> QED
    BY <2>1
<1>15. CASE AllocPage
  <2>1. /\ pc = "pages" /\ pc' \in {"DCBAAP", "pages"}
        /\ UNCHANGED <<usbcmd, command, status, owner, written>>
    BY <1>15 DEF AllocPage
  <2> QED
    BY <2>1
<1>16. CASE ReadForEnable
  BY <1>16 DEF ReadForEnable, ReadUSBCMD
<1>17. CASE WriteEnable
  BY <1>17 DEF WriteEnable, WriteUSBCMD
<1>18. CASE ReadForRun
  BY <1>18 DEF ReadForRun, ReadUSBCMD
<1>19. CASE WriteRun
  BY <1>19 DEF WriteRun, WriteUSBCMD
<1>20. CASE WaitRunning
  BY <1>20 DEF WaitRunning
<1>21. CASE AllocForDevice
  BY <1>21 DEF AllocForDevice
<1>22. CASE Halt
  BY <1>22 DEF Halt
<1>23. CASE Reset
  BY <1>23 DEF Reset
<1>24. CASE BecomeReady
  BY <1>24 DEF BecomeReady
<1>25. CASE ReleaseOwnership
  BY <1>25 DEF ReleaseOwnership
<1>26. CASE BiosUses
  BY <1>26 DEF BiosUses, WriteUSBCMD, ReadUSBCMD
<1>27. CASE UNCHANGED vars
  BY <1>27 DEF vars
<1> QED
  BY <1>1, <1>2, <1>3, <1>4, <1>5, <1>6, <1>7, <1>8, <1>9, <1>10, <1>11,
  <1>12, <1>13, <1>14, <1>15, <1>16, <1>17, <1>18, <1>19, <1>20, <1>21, <1>22,
  <1>23, <1>24, <1>25, <1>26, <1>27 DEF Next, Driver, Initialize

(* What is within a bound is within a larger one.                          *)
Stretches == \A k, n \in Nat : k <= n => (Gone(k) => Gone(n))

(* So it is in a pool, now and in the next state.                         *)
LEMMA GoneStretches == PoolInv => Stretches
BY SMT DEF Stretches, Gone, PoolInv

(* The same after a step.                                                  *)
LEMMA GoneStretchesNext == PoolInv' => Stretches'
BY GoneStretches, PTL

(* The scratchpad leaves room for the rings: an array and at most 30 pages *)
(* (xhci.cpp:356-368).                                                     *)
LEMMA ScratchpadLeaves ==
  ASSUME ReadyInv, AllocPageArray \/ AllocPage, PoolInv'
  PROVE  Room'
<1>1. \A k, n \in Nat : k <= n => (Gone(k)' => Gone(n)')
  BY GoneStretchesNext DEF Stretches
<1>2. CASE AllocPageArray
  <2>1. /\ pc = "page_array"
        /\ \/ pc' = "DCBAAP" /\ Gone(278)'
           \/ pc' = "pages" /\ Gone(820)'
        /\ scratchpad' = scratchpad
    BY <1>2, PageArrayFits
  <2>2. Len(scratchpad') = 0
    BY <2>1 DEF ReadyInv, ConfiguredInv, Pages
  <2>3. Gone(278)' => Gone(127795)'
    BY <1>1, SMT
  <2>4. \/ pc' = "DCBAAP" /\ Gone(127795)'
        \/ pc' = "pages" /\ Len(scratchpad') = 0 /\ Gone(820)'
    BY <2>1, <2>2, <2>3
  <2> QED
    BY <2>4 DEF Room, Stopping, Resetting
<1>3. CASE AllocPage
  <2>1. /\ Len(scratchpad) \in Nat /\ Len(scratchpad') = Len(scratchpad) + 1
        /\ Len(scratchpad') <= max_scratchpad_buffers
        /\ pc' \in {"DCBAAP", "pages"}
    BY <1>3, PageCounted
  <2>2. max_scratchpad_buffers \in Nat /\ max_scratchpad_buffers <= 30
    BY SlotsAssumption DEF ReadyInv, PlacesInv
  <2>3. PICK n \in 1..30 : Len(scratchpad') = n /\ Len(scratchpad) + 1 = n
    <3> DEFINE k == Len(scratchpad)
    <3>1. k \in Nat /\ k + 1 <= max_scratchpad_buffers
      BY <2>1
    <3> HIDE DEF k
    <3>2. k + 1 \in 1..30
      BY <2>2, <3>1
    <3> QED
      BY <2>1, <3>2 DEF k
  <2>4. /\ Placed(Page) + 4096 <= memory_pool + (4915 + 4096 * n)
        /\ Divides(4096, Placed(Page) + 4096) /\ Fits(Page)
    BY <1>3, <2>3, PageFits
  <2>5. AllocMem(Page) /\ Page.size = 4096
    BY <1>3, Sizes DEF AllocPage, ReadyInv
  <2>6. alloc_ptr' = Placed(Page) + 4096 /\ memory_pool' = memory_pool
    BY <2>4, <2>5 DEF AllocMem
  <2>7. Gone(4915 + 4096 * n)'
    BY <2>4, <2>6 DEF Gone
  <2>8. Gone(4915 + 4096 * Len(scratchpad))' /\ Len(scratchpad)' > 0
    BY <2>3, <2>7 DEF Gone
  <2>9. Divides(4096, alloc_ptr)'
    BY <2>4, <2>6 DEF Divides
  <2>10. Gone(127795)'
    <3>1. 4915 + 4096 * n \in Nat /\ 4915 + 4096 * n <= 127795
      OBVIOUS
    <3> QED
      BY <1>1, <2>7, <3>1, SMT
  <2> QED
    BY <2>1, <2>8, <2>9, <2>10 DEF Room, Stopping, Resetting
<1> QED
  BY <1>2, <1>3

(* A page more, and none of them null (xhci.cpp:360-367).                   *)
LEMMA PageAdded ==
  ASSUME ReadyInv, AllocPage
  PROVE  Pages'
<1>1. /\ pc = "pages" /\ scratchpad' = Append(scratchpad, TRUE)
      /\ Len(scratchpad') = Len(scratchpad) + 1
      /\ Len(scratchpad') <= max_scratchpad_buffers
      /\ \/ pc' = "DCBAAP" /\ Len(scratchpad') = max_scratchpad_buffers
         \/ pc' = "pages" /\ Len(scratchpad') /= max_scratchpad_buffers
      /\ max_scratchpad_buffers' = max_scratchpad_buffers
  BY PageCounted
<1>2. /\ scratchpad \in Seq(BOOLEAN) /\ \A i \in DOMAIN scratchpad : scratchpad[i]
  BY DEF ReadyInv, ConfiguredInv, Pages
<1>3. scratchpad' \in Seq(BOOLEAN) /\ Len(scratchpad') \in Nat
  <2>1. scratchpad' \in Seq(BOOLEAN)
    BY <1>1, <1>2, AppendProperties
  <2> QED
    BY <2>1, LenProperties
<1>4. \A i \in DOMAIN scratchpad' : scratchpad'[i]
  <2> SUFFICES ASSUME NEW i \in DOMAIN scratchpad' PROVE scratchpad'[i] = TRUE
    OBVIOUS
  <2>1. i \in 1..Len(scratchpad) \/ i = Len(scratchpad) + 1
    BY <1>1, <1>2, <1>3
  <2>2. CASE i \in 1..Len(scratchpad)
    BY <1>1, <1>2, <2>2, AppendProperties
  <2>3. CASE i = Len(scratchpad) + 1
    BY <1>1, <1>2, <2>3, AppendProperties
  <2> QED
    BY <2>1, <2>2, <2>3
<1>5. max_scratchpad_buffers \in Nat
  BY SlotsAssumption DEF ReadyInv, PlacesInv
<1>6. pc' = "pages" => Len(scratchpad') < max_scratchpad_buffers
  BY <1>1, <1>3, <1>5
<1> QED
  BY <1>1, <1>3, <1>4, <1>6
  DEF Pages, Owning, Stopping, Resetting, Telling, Enabling, Running

(* What each allocation leaves of the pool (memory.cpp:22-34).              *)
LEMMA RoomNext == ReadyInv /\ [Next]_vars => Room'
<1> SUFFICES ASSUME ReadyInv, [Next]_vars PROVE Room'
  OBVIOUS
<1>0. PoolInv'
  BY PlacesInvariant DEF ReadyInv, PlacesInv
<1> USE DEF ReadyInv, ConfiguredInv, TakeoverInv, RegisterTypeOK, Room,
            Gone, memory, poolVars, Owning, Stopping, Resetting, Telling,
            Enabling, Running, Goes
<1>1. CASE AllocOrFail
  BY <1>1, AllocFits, SMT
<1>2. CASE FindLegacySupport
  BY <1>2, SMT DEF FindLegacySupport
<1>3. CASE RequestOwnership
  BY <1>3, SMT DEF RequestOwnership
<1>4. CASE WaitOwned
  BY <1>4, SMT DEF WaitOwned
<1>5. CASE ReadForStop
  BY <1>5, SMT DEF ReadForStop, ReadUSBCMD
<1>6. CASE LookHalted
  BY <1>6, SMT DEF LookHalted
<1>7. CASE WriteStop
  BY <1>7, SMT DEF WriteStop, WriteUSBCMD
<1>8. CASE WaitHalted
  BY <1>8, SMT DEF WaitHalted
<1>9. CASE ReadForReset
  BY <1>9, SMT DEF ReadForReset, ReadUSBCMD
<1>10. CASE WriteReset
  BY <1>10, SMT DEF WriteReset, WriteUSBCMD
<1>11. CASE WaitReset
  BY <1>11, SMT DEF WaitReset
<1>12. CASE WaitReady
  BY <1>12, SMT DEF WaitReady
<1>13. CASE WriteStructure
  BY <1>13, StructureArrives, SMT
<1>14. CASE AllocPageArray
  BY <1>0, <1>14, ScratchpadLeaves
<1>15. CASE AllocPage
  BY <1>0, <1>15, ScratchpadLeaves
<1>16. CASE ReadForEnable
  BY <1>16, SMT DEF ReadForEnable, ReadUSBCMD
<1>17. CASE WriteEnable
  BY <1>17, SMT DEF WriteEnable, WriteUSBCMD
<1>18. CASE ReadForRun
  BY <1>18, SMT DEF ReadForRun, ReadUSBCMD
<1>19. CASE WriteRun
  BY <1>19, SMT DEF WriteRun, WriteUSBCMD
<1>20. CASE WaitRunning
  BY <1>20, SMT DEF WaitRunning
<1>21. CASE AllocForDevice
  BY <1>21, SMT DEF AllocForDevice
<1>22. CASE Halt
  BY <1>22, SMT DEF Halt
<1>23. CASE Reset
  BY <1>23, SMT DEF Reset
<1>24. CASE BecomeReady
  BY <1>24, SMT DEF BecomeReady
<1>25. CASE ReleaseOwnership
  BY <1>25, SMT DEF ReleaseOwnership
<1>26. CASE BiosUses
  BY <1>26, SMT DEF BiosUses, WriteUSBCMD, ReadUSBCMD
<1>27. CASE UNCHANGED vars
  BY <1>27, SMT DEF vars
<1> QED
  BY <1>1, <1>2, <1>3, <1>4, <1>5, <1>6, <1>7, <1>8, <1>9, <1>10, <1>11,
  <1>12, <1>13, <1>14, <1>15, <1>16, <1>17, <1>18, <1>19, <1>20, <1>21, <1>22,
  <1>23, <1>24, <1>25, <1>26, <1>27 DEF Next, Driver, Initialize

(* Each entry of the scratchpad is written once, with a page (xhci.cpp:     *)
(* 356-368).                                                               *)
LEMMA PagesNext == ReadyInv /\ [Next]_vars => Pages'
<1> SUFFICES ASSUME ReadyInv, [Next]_vars PROVE Pages'
  OBVIOUS
<1> USE DEF ReadyInv, ConfiguredInv, TakeoverInv, RegisterTypeOK, Pages,
            memory, Owning, Stopping, Resetting, Telling, Enabling, Running,
            Goes
<1>1. CASE AllocOrFail
  BY <1>1, AllocFits, SMT
<1>2. CASE FindLegacySupport
  BY <1>2, SMT DEF FindLegacySupport
<1>3. CASE RequestOwnership
  BY <1>3, SMT DEF RequestOwnership
<1>4. CASE WaitOwned
  BY <1>4, SMT DEF WaitOwned
<1>5. CASE ReadForStop
  BY <1>5, SMT DEF ReadForStop, ReadUSBCMD
<1>6. CASE LookHalted
  BY <1>6, SMT DEF LookHalted
<1>7. CASE WriteStop
  BY <1>7, SMT DEF WriteStop, WriteUSBCMD
<1>8. CASE WaitHalted
  BY <1>8, SMT DEF WaitHalted
<1>9. CASE ReadForReset
  BY <1>9, SMT DEF ReadForReset, ReadUSBCMD
<1>10. CASE WriteReset
  BY <1>10, SMT DEF WriteReset, WriteUSBCMD
<1>11. CASE WaitReset
  BY <1>11, SMT DEF WaitReset
<1>12. CASE WaitReady
  BY <1>12, SMT DEF WaitReady
<1>13. CASE WriteStructure
  BY <1>13, StructureArrives, SMT
<1>14. CASE AllocPageArray
  BY <1>14, PageArrayFits, SMT
<1>15. CASE AllocPage
  BY <1>15, PageAdded, SMT
<1>16. CASE ReadForEnable
  BY <1>16, SMT DEF ReadForEnable, ReadUSBCMD
<1>17. CASE WriteEnable
  BY <1>17, SMT DEF WriteEnable, WriteUSBCMD
<1>18. CASE ReadForRun
  BY <1>18, SMT DEF ReadForRun, ReadUSBCMD
<1>19. CASE WriteRun
  BY <1>19, SMT DEF WriteRun, WriteUSBCMD
<1>20. CASE WaitRunning
  BY <1>20, SMT DEF WaitRunning
<1>21. CASE AllocForDevice
  BY <1>21, SMT DEF AllocForDevice
<1>22. CASE Halt
  BY <1>22, SMT DEF Halt
<1>23. CASE Reset
  BY <1>23, SMT DEF Reset
<1>24. CASE BecomeReady
  BY <1>24, SMT DEF BecomeReady
<1>25. CASE ReleaseOwnership
  BY <1>25, SMT DEF ReleaseOwnership
<1>26. CASE BiosUses
  BY <1>26, SMT DEF BiosUses, WriteUSBCMD, ReadUSBCMD
<1>27. CASE UNCHANGED vars
  BY <1>27, SMT DEF vars
<1> QED
  BY <1>1, <1>2, <1>3, <1>4, <1>5, <1>6, <1>7, <1>8, <1>9, <1>10, <1>11,
  <1>12, <1>13, <1>14, <1>15, <1>16, <1>17, <1>18, <1>19, <1>20, <1>21, <1>22,
  <1>23, <1>24, <1>25, <1>26, <1>27 DEF Next, Driver, Initialize

(* Start-up begins with an empty pool and nothing told (xhci.cpp:283-330).  *)
LEMMA ReadyStarts ==
  CodeSizes /\ max_scratchpad_buffers <= 30 /\ Init => ReadyInv
<1> SUFFICES ASSUME CodeSizes, max_scratchpad_buffers <= 30, Init
             PROVE  ReadyInv
  OBVIOUS
<1>1. TakeoverInv /\ PlacesInv
  BY TakeoverStarts, PlacesInvariant
<1>2. /\ pc = "device_table" /\ scratchpad = <<>> /\ written = {}
      /\ controller_not_ready = FALSE /\ alloc_ptr = memory_pool
  BY DEF Init, PoolInit
<1>3. Told /\ Alone /\ Enabled
  BY <1>2 DEF Told, Alone, Enabled, Owning, Stopping, Resetting, Telling,
              Enabling, Running
<1>4. Room
  BY <1>2 DEF Room, Stopping, Resetting
<1>5. scratchpad \in Seq(BOOLEAN) /\ \A i \in DOMAIN scratchpad : scratchpad[i]
  BY <1>2
<1>6. Pages
  BY <1>2, <1>5 DEF Pages, Owning, Stopping, Resetting, Telling, Enabling, Running
<1> QED
  BY <1>1, <1>3, <1>4, <1>6, Zenon DEF ReadyInv, ConfiguredInv

(* Every step keeps the invariant.                                         *)
LEMMA ReadyNext == ReadyInv /\ [Next]_vars => ReadyInv'
<1> SUFFICES ASSUME ReadyInv, [Next]_vars PROVE ReadyInv'
  OBVIOUS
<1>1. ConfiguredInv'
  BY ToldNext, AloneNext, EnabledNext, RoomNext, PagesNext, Zenon
  DEF ConfiguredInv
<1>2. TakeoverInv' /\ PlacesInv'
  BY TakeoverNext, PlacesInvariant, Zenon DEF ReadyInv
<1>3. UNCHANGED max_scratchpad_buffers
  BY StepOfPool DEF ReadyInv, PlacesInv
<1>4. (CodeSizes /\ max_scratchpad_buffers <= 30)'
  BY <1>3 DEF ReadyInv, CodeSizes
<1> QED
  BY <1>1, <1>2, <1>4, Zenon DEF ReadyInv

(* Of a controller that wants more pages nothing is claimed.               *)
SizesInv == CodeSizes /\ PlacesInv /\ (max_scratchpad_buffers <= 30 => ReadyInv)

(* With the sizes of the code, the controller that runs for the driver has *)
(* its structures, interrupts and all its pages, wherever the pool lies,   *)
(* however many devices come later and whatever they allocate: the 128 KiB *)
(* serve every controller that wants up to 30 scratchpad buffers           *)
(* (xhci.cpp:283-410, memory.cpp:20-38).  A BIOS that was not waited for   *)
(* may take no more than R/S away.                                         *)
THEOREM CodeRunsConfigured == CodeSizes /\ Spec => []RunsConfigured
<1>1. CodeSizes /\ Init => SizesInv
  BY ReadyStarts, PlacesInvariant, Zenon DEF SizesInv
<1>2. SizesInv /\ [Next]_vars => SizesInv'
  <2> SUFFICES ASSUME SizesInv, [Next]_vars PROVE SizesInv'
    OBVIOUS
  <2>1. CodeSizes' /\ PlacesInv'
    BY PlacesInvariant, Zenon DEF SizesInv, CodeSizes
  <2>2. UNCHANGED max_scratchpad_buffers
    BY StepOfPool DEF SizesInv, PlacesInv
  <2>3. (max_scratchpad_buffers <= 30)' => ReadyInv'
    BY <2>2, ReadyNext DEF SizesInv
  <2> QED
    BY <2>1, <2>3, Zenon DEF SizesInv
<1>3. SizesInv => RunsConfigured
  <2>1. CodeSizes => EnoughFor = 30
    <3> SUFFICES ASSUME kMemoryPoolSize = 4096 * 32, kDeviceSize = 8
                 PROVE  EnoughFor = 30
      BY DEF CodeSizes
    <3>1. (4096 * 32) \div 4096 - 2 = 30
      OBVIOUS
    <3> QED
      BY <3>1 DEF EnoughFor, Page, Ask
  <2>2. ReadyInv => RunsConfigured
    BY DEF ReadyInv, ConfiguredInv, Told, Enabled, Pages, RunsConfigured, Running
  <2>3. ~(max_scratchpad_buffers <= EnoughFor) => RunsConfigured
    BY DEF RunsConfigured
  <2> QED
    BY <2>1, <2>2, <2>3 DEF SizesInv
<1> QED
  BY <1>1, <1>2, <1>3, PTL DEF Spec

=============================================================================
