------------------------------ MODULE MCPciScan ------------------------------
(* PciScan for TLC: small machines.                                        *)
EXTENDS PciScan

(* A machine from its functions: location to what is there.                *)
Machine(multi, bridges, secondary, plain, xhc, ehci, intel) ==
  [present |-> multi \cup bridges \cup plain \cup xhc \cup ehci,
   multi |-> multi, bridges |-> bridges, secondary |-> secondary,
   xhc |-> xhc, ehci |-> ehci \ xhc, intel |-> intel]

Host   == At(0, 0, 0)
(* One machine per way to place one or two bridges, a controller of Intel  *)
(* and a second function, behind a single-function host bridge; another    *)
(* make's controller sits on bus 2, and an EHCI, of Intel too or of another *)
(* make, on bus 1.                                                         *)
Places == {At(b, d, f) : b \in 0..2, d \in 0..1, f \in 0..1} \ {Host, At(0, 0, 1)}

SingleHost ==
  { Machine({m}, {x, y} \ {m, Host}, [p \in {x, y} |-> IF p = x THEN s ELSE t],
            {Host}, {c, At(2, 1, 0)} \ {x, y, m}, {At(1, 1, 0)},
            ({c} \ {x, y, m}) \cup E) :
      m \in {At(0, 1, 0), At(1, 0, 0)},
      x \in {At(0, 1, 0), At(0, 1, 1)}, y \in {At(1, 0, 0), At(1, 0, 1)},
      s \in 0..2, t \in 0..2, c \in Places, E \in {{}, {At(1, 1, 0)}} }

(* The host bridge has several functions, one per bus; behind bus 1 there  *)
(* may be bus 2, and its bridge may lead back to bus 1.                    *)
MultiHost ==
  { Machine({Host}, B, [x \in B |-> s], {At(0, 0, 1)} \cup P, {c} \ B, {}, {c} \ B) :
      c \in Places, P \in SUBSET {At(0, 1, 0), At(1, 1, 0)},
      B \in {{}, {At(1, 0, 0)}}, s \in 1..2 }

(* A 32-bit BAR, and 64-bit ones below and above 4 GiB, with their flags.  *)
SomeBars == {[lower |-> 4096, upper |-> 5], [lower |-> 4096 + 12, upper |-> 0],
             [lower |-> 8192 + 4, upper |-> 5]}

Machines == SingleHost \cup MultiHost
=============================================================================
