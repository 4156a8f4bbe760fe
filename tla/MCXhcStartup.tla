---------------------------- MODULE MCXhcStartup ----------------------------
(* XhcStartup for TLC, with the sizes of the code.                         *)
EXTENDS XhcStartup

(* Every position within a page (memory_pool is aligned to 64 bytes), and  *)
(* a pool where the command ring would cross 64 KiB.                       *)
PoolAddresses == {4096 + 64 * k : k \in 0..63} \cup {64896}

(* None, one, what just fits everywhere, what fits or does not depending   *)
(* on where the pool begins, too many.                                     *)
BufferCounts == {0, 1, 30, 31, 32}

(* A Device, a transfer ring and its TRBs, a class driver; the sizes of    *)
(* C++ objects are rough.                                                  *)
SomeDeviceRequests == {Ask(3600, 64, 4096), Ask(32, 64, 4096), Ask(512, 64, 65536),
                       Ask(2200, 0, 0)}
=============================================================================
