----------------------------- MODULE MemoryPool -----------------------------
(***************************************************************************)
(* usb::AllocMem (kernel/usb/memory.cpp), the allocator of everything the  *)
(* driver shares with the host controller: rings, device contexts,         *)
(* scratchpad pages.  A pointer moves through a pool that is never given   *)
(* back (FreeMem does nothing).                                            *)
(***************************************************************************)
EXTENDS Integers

CONSTANTS
  Bases,           \* where memory_pool may have been linked to
  kMemoryPoolSize,
  Requests         \* what is asked for: [size, alignment, boundary]

Request == [size : Nat, alignment : Nat, boundary : Nat]
Divides(a, n) == n % a = 0

ASSUME PoolAssumption == Bases \subseteq Nat /\ kMemoryPoolSize \in Nat
ASSUME RequestAssumption == Requests \subseteq Request

(* All callers ask for a boundary that is a multiple of the alignment:     *)
(* both are powers of two, the alignment never the larger.                 *)
ASSUME BoundaryAssumption ==
  \A r \in Requests : r.alignment > 0 /\ r.boundary > 0 =>
                        Divides(r.alignment, r.boundary)

VARIABLES
  memory_pool, \* its address
  alloc_ptr,
  blocks       \* what was handed out: the request and the address it got

poolVars == <<memory_pool, alloc_ptr, blocks>>
Limit == memory_pool + kMemoryPoolSize
Block == [addr : Nat, req : Requests]

(* Mutant of Ceil: rounds down.                                            *)
CeilDown(value, alignment) == value - (value % alignment)

(* (value + alignment - 1) & ~(alignment - 1): for the powers of two it is *)
(* called with, the next multiple of alignment.                            *)
Ceil(value, alignment) ==
  LET top == value + alignment - 1 IN top - (top % alignment)

(* The pointer once it is aligned, and once it is past a boundary that the *)
(* block would otherwise cross.                                            *)
Aligned(r) == IF r.alignment > 0 THEN Ceil(alloc_ptr, r.alignment) ELSE alloc_ptr

(* Mutant of Placed: boundaries are not looked at.                         *)
PlacedAcross(r) == Aligned(r)

Placed(r) ==
  IF r.boundary > 0 /\ Ceil(Aligned(r), r.boundary) < Aligned(r) + r.size
  THEN Ceil(Aligned(r), r.boundary) ELSE Aligned(r)

Fits(r) == Placed(r) + r.size <= Limit

(* A request that does not fit gets nullptr, but the pointer has moved.    *)
AllocMem(r) ==
  /\ \/ /\ ~Fits(r)
        /\ alloc_ptr' = Placed(r)
        /\ UNCHANGED blocks
     \/ /\ Fits(r)
        /\ alloc_ptr' = Placed(r) + r.size
        /\ blocks' = blocks \cup {[addr |-> Placed(r), req |-> r]}
  /\ UNCHANGED memory_pool

PoolInit == memory_pool \in Bases /\ alloc_ptr = memory_pool /\ blocks = {}
PoolNext == \E r \in Requests : AllocMem(r)
PoolSpec == PoolInit /\ [][PoolNext]_poolVars

-----------------------------------------------------------------------------
(* Properties.                                                             *)

Beyond(b) == b.addr + b.req.size

(* No two blocks share a byte and none leaves the pool, wherever alignment *)
(* and boundary have moved the pointer and however requests failed before. *)
BlocksApart ==
  /\ \A b \in blocks : memory_pool <= b.addr /\ Beyond(b) <= Limit
  /\ \A b, c \in blocks : b = c \/ Beyond(b) <= c.addr \/ Beyond(c) <= b.addr

(* memory.hpp:15-26: a block starts at a multiple of its alignment (which  *)
(* moving it to the boundary must not undo) and crosses no boundary if it  *)
(* is no larger than one.                                                  *)
PlacedAsAsked ==
  \A b \in blocks :
    /\ b.req.alignment > 0 => Divides(b.req.alignment, b.addr)
    /\ b.req.boundary > 0 /\ b.req.size > 0 /\ b.req.size <= b.req.boundary =>
         b.addr \div b.req.boundary = (Beyond(b) - 1) \div b.req.boundary
=============================================================================
