--------------------------- MODULE EndpointContext ---------------------------
(***************************************************************************)
(* How an endpoint descriptor becomes an endpoint context of the xHC       *)
(* (ConfigureEndpoints in xhci.cpp:439-468, context.hpp, endpoint.hpp):    *)
(* its place among the contexts, its type and how often it is polled.      *)
(***************************************************************************)
EXTENDS Integers

SlowSpeeds == {"low", "full"}
EndpointTypes == {"control", "isochronous", "bulk", "interrupt"}

(* An endpoint is [number, dir_in, type, interval].                        *)
DeviceContextIndex(e) == 2 * e.number + (IF e.dir_in THEN 1 ELSE 0)

MostSignificantBit(value) ==
  IF value = 0 THEN -1 ELSE CHOOSE n \in 0..7 : 2^n <= value /\ value < 2^(n + 1)

(* Mutant of convert_interval: every speed counts like high speed.         *)
convert_interval_fast(speed, e) == (e.interval - 1) % 256

(* bInterval counts milliseconds at low and full speed, and is an exponent *)
(* at the others; the context's interval is an exponent of 125 us, written *)
(* to 8 bits.                                                              *)
convert_interval(speed, e) ==
  (CASE speed \notin SlowSpeeds                         -> e.interval - 1
     [] speed \in SlowSpeeds /\ e.type = "isochronous"  -> e.interval + 2
     [] OTHER -> MostSignificantBit(e.interval) + 3) % 256

ep_type(e) ==
  CASE e.type = "control"     -> 4
    [] e.type = "isochronous" -> IF e.dir_in THEN 5 ELSE 1
    [] e.type = "bulk"        -> IF e.dir_in THEN 6 ELSE 2
    [] e.type = "interrupt"   -> IF e.dir_in THEN 7 ELSE 3

Context(speed, e) ==
  [ep_type |-> ep_type(e), interval |-> convert_interval(speed, e)]

(* InitializeEP0Context.                                                   *)
EP0Context == [ep_type |-> 4, interval |-> 0]

(* The contexts of the controller once those of eps are added: two         *)
(* endpoints of one index share a context, the last one's.                 *)
EnableEndpoints(contexts, speed, eps) ==
  LET Of(d) == {i \in DOMAIN eps : DeviceContextIndex(eps[i]) = d}
      added == {DeviceContextIndex(eps[i]) : i \in DOMAIN eps}
  IN  [d \in DOMAIN contexts \cup added |->
         IF d \in added
         THEN Context(speed, eps[CHOOSE i \in Of(d) : \A j \in Of(d) : j <= i])
         ELSE contexts[d]]
=============================================================================
