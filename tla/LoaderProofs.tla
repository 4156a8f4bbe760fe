---------------------------- MODULE LoaderProofs ----------------------------
(***************************************************************************)
(* Proofs about Loader: whatever kernel file it is given and whatever      *)
(* fails on the way, the loader writes only to the pages it allocated, and *)
(* the kernel starts only with its whole image in place and the firmware   *)
(* stopped.                                                                *)
(***************************************************************************)
EXTENDS Loader, TLAPS, NaturalsInduction, WellFoundedInduction

-----------------------------------------------------------------------------
(* Numbers.                                                                *)

(* A nonempty set of naturals has a smallest one.                          *)
LEMMA LeastElement ==
  ASSUME NEW S, S \subseteq Nat, S # {}
  PROVE  \E n \in S : \A q \in S : n <= q
<1>1. PICK n \in S : \A q \in S : <<q, n>> \notin OpToRel(<, Nat)
  BY NatLessThanWellFounded, WFMin
<1>2. \A q \in S : ~(q < n)
  BY <1>1 DEF OpToRel
<1>3. n \in Nat /\ \A q \in S : q \in Nat
  OBVIOUS
<1>4. \A q \in S : n <= q
  BY <1>2, <1>3
<1> QED
  BY <1>4

(* A bounded one has a largest.                                            *)
LEMMA GreatestElement ==
  ASSUME NEW S, S \subseteq Nat, S # {}, NEW b \in Nat, \A n \in S : n <= b
  PROVE  \E n \in S : \A q \in S : q <= n
<1> DEFINE Above == {n \in Nat : \A q \in S : q <= n}
<1>1. PICK n \in Above : \A m \in Above : n <= m
  <2>1. b \in Above
    OBVIOUS
  <2>2. Above \subseteq Nat /\ Above # {}
    BY <2>1
  <2> HIDE DEF Above
  <2>3. \E n \in Above : \A m \in Above : n <= m
    BY <2>2, LeastElement, Zenon
  <2> QED
    BY <2>3
<1>2. n \in Nat /\ \A q \in S : q <= n
  OBVIOUS
<1>3. n \in S
  <2> SUFFICES ASSUME n \notin S PROVE FALSE
    OBVIOUS
  <2>1. \A q \in S : q \in Nat /\ q < n
    BY <1>2
  <2>2. PICK q \in S : q \in Nat /\ q < n
    BY <2>1
  <2>3. n - 1 \in Above
    BY <1>2, <2>1, <2>2
  <2> QED
    BY <1>1, <1>2, <2>3
<1> QED
  BY <1>2, <1>3

(* Rounding up to whole pages loses nothing (Main.c:319).                  *)
LEMMA RoundedUp ==
  ASSUME NEW x \in Nat, NEW p \in Nat, p > 0
  PROVE  ((x + (p - 1)) \div p) * p >= x /\ ((x + (p - 1)) \div p) \in Nat
<1> DEFINE y == x + (p - 1)
<1>1. y \in Nat /\ y = x + p - 1
  OBVIOUS
<1> HIDE DEF y
<1>2. y \div p \in Nat /\ y % p \in 0..(p - 1)
  BY <1>1, SMT
<1>3. y = p * (y \div p) + (y % p)
  BY <1>1, SMT
<1> DEFINE q == y \div p
           r == y % p
<1>4. q \in Nat /\ r \in 0..(p - 1) /\ y = p * q + r
  BY <1>2, <1>3
<1> HIDE DEF q, r
<1>5. q * p = p * q /\ p * q \in Nat
  BY <1>4
<1>6. q * p >= x
  BY <1>1, <1>4, <1>5
<1> QED
  BY <1>4, <1>6 DEF y, q

-----------------------------------------------------------------------------
(* Where the image lies (Main.c:169-201, 313-326).                         *)

(* What an image is, for the program headers of a kernel file.             *)
LEMMA HeaderTypes ==
  ASSUME kernel \in Kernels
  PROVE  /\ kernel.phdr \in Seq(ProgramHeader)
         /\ Len(kernel.phdr) \in Nat /\ Loads(kernel) \subseteq 1..Len(kernel.phdr)
         /\ \A i \in 1..Len(kernel.phdr) :
              /\ kernel.phdr[i].p_vaddr \in Nat /\ kernel.phdr[i].p_offset \in Nat
              /\ kernel.phdr[i].p_filesz \in Nat /\ kernel.phdr[i].p_memsz \in Nat
<1>1. kernel.phdr \in Seq(ProgramHeader)
  BY KernelAssumption
<1>2. Len(kernel.phdr) \in Nat /\ DOMAIN kernel.phdr = 1..Len(kernel.phdr)
  BY <1>1
<1>3. \A i \in 1..Len(kernel.phdr) : kernel.phdr[i] \in ProgramHeader
  BY <1>1, <1>2
<1> QED
  BY <1>1, <1>2, <1>3 DEF ProgramHeader, Loads

(* FirstAddr is the lowest address of a LOAD segment, that of the one that *)
(* begins with the ELF header.                                             *)
LEMMA FirstIsLowest ==
  ASSUME kernel \in Kernels
  PROVE  /\ FirstAddr \in Nat
         /\ \A i \in Loads(kernel) : FirstAddr <= kernel.phdr[i].p_vaddr
         /\ \E i \in Loads(kernel) : /\ FirstAddr = kernel.phdr[i].p_vaddr
                                     /\ kernel.phdr[i].p_offset = 0
                                     /\ kernel.phdr[i].p_filesz > EntryOffset
<1> DEFINE V == {kernel.phdr[i].p_vaddr : i \in Loads(kernel)}
<1>1. PICK i \in Loads(kernel) :
        /\ \A j \in Loads(kernel) : kernel.phdr[i].p_vaddr <= kernel.phdr[j].p_vaddr
        /\ kernel.phdr[i].p_offset = 0 /\ kernel.phdr[i].p_filesz > EntryOffset
  BY KernelAssumption
<1>2. kernel.phdr[i].p_vaddr \in V
  OBVIOUS
<1>3. /\ FirstAddr \in V
      /\ \A j \in Loads(kernel) : FirstAddr <= kernel.phdr[j].p_vaddr
  BY <1>1, <1>2 DEF FirstAddr
<1>4. V \subseteq Nat
  BY HeaderTypes
<1>5. FirstAddr <= kernel.phdr[i].p_vaddr /\ kernel.phdr[i].p_vaddr <= FirstAddr
  BY <1>1, <1>3
<1>6. FirstAddr = kernel.phdr[i].p_vaddr
  <2>1. FirstAddr \in Nat /\ kernel.phdr[i].p_vaddr \in Nat
    BY <1>2, <1>3, <1>4
  <2> QED
    BY <1>5, <2>1
<1> QED
  BY <1>1, <1>3, <1>4, <1>6

(* LastAddr is the end of the last segment.                                *)
LEMMA LastIsHighest ==
  ASSUME kernel \in Kernels
  PROVE  LastAddr \in Nat /\ \A i \in Loads(kernel) : End(i) <= LastAddr
<1> DEFINE E == {End(i) : i \in Loads(kernel)}
<1>1. \A i \in Loads(kernel) : End(i) \in Nat /\ End(i) <= MemSize
  BY HeaderTypes, KernelAssumption DEF End
<1>2. Loads(kernel) # {}
  BY KernelAssumption
<1>3. E \subseteq Nat /\ E # {} /\ \A n \in E : n <= MemSize
  BY <1>1, <1>2
<1>4. MemSize \in Nat
  BY BoundAssumption
<1>5. PICK n \in E : \A q \in E : q <= n
  <2> HIDE DEF E
  <2> QED
    BY <1>3, <1>4, GreatestElement
<1>6. \A i \in Loads(kernel) : End(i) <= n
  BY <1>5
<1>7. LastAddr \in E /\ \A i \in Loads(kernel) : End(i) <= LastAddr
  BY <1>5, <1>6 DEF LastAddr
<1> QED
  BY <1>3, <1>7

(* The pages asked for hold every segment, cleared part included.          *)
LEMMA PagesHoldImage ==
  ASSUME kernel \in Kernels, NEW i \in Loads(kernel)
  PROVE  Span(kernel.phdr[i]) \subseteq FirstAddr..(FirstAddr + NumPages * PageSize - 1)
<1>1. /\ FirstAddr \in Nat /\ FirstAddr <= kernel.phdr[i].p_vaddr
      /\ LastAddr \in Nat /\ End(i) <= LastAddr
      /\ kernel.phdr[i].p_vaddr \in Nat /\ kernel.phdr[i].p_memsz \in Nat
  BY FirstIsLowest, LastIsHighest, HeaderTypes
<1>2. LastAddr - FirstAddr \in Nat
  BY <1>1 DEF End
<1>3. PageSize \in Nat /\ PageSize > 0
  BY BoundAssumption
<1>4. NumPages \in Nat /\ NumPages * PageSize >= LastAddr - FirstAddr
  BY <1>2, <1>3, RoundedUp DEF NumPages
<1> DEFINE s == NumPages * PageSize
<1>5. s \in Nat /\ s >= LastAddr - FirstAddr
  BY <1>3, <1>4
<1> HIDE DEF s
<1>6. \A a \in Span(kernel.phdr[i]) : a \in FirstAddr..(FirstAddr + s - 1)
  BY <1>1, <1>5 DEF Span, End
<1> QED
  BY <1>6 DEF s

(* A copied segment has its bytes of the file, then zeros; nothing else is *)
(* touched (Main.c:192-199).                                               *)
LEMMA LoadedIs ==
  ASSUME kernel \in Kernels, NEW i \in Loads(kernel), NEW a \in Addresses
  PROVE  Loaded(kernel.phdr[i])[a] =
           IF a \in Span(kernel.phdr[i])
           THEN IF a - kernel.phdr[i].p_vaddr < kernel.phdr[i].p_filesz
                THEN kernel.bytes[kernel.phdr[i].p_offset + (a - kernel.phdr[i].p_vaddr) + 1]
                ELSE Zero
           ELSE memory[a]
<1> DEFINE h == kernel.phdr[i]
<1>1. /\ h.p_vaddr \in Nat /\ h.p_filesz \in Nat /\ h.p_memsz \in Nat
      /\ h.p_filesz <= h.p_memsz
  BY HeaderTypes, KernelAssumption
<1>2. a \in Int
  BY BoundAssumption DEF Addresses
<1> HIDE DEF h
<1>3. a \in h.p_vaddr..(h.p_vaddr + h.p_filesz - 1) <=>
        a \in Span(h) /\ a - h.p_vaddr < h.p_filesz
  BY <1>1, <1>2 DEF Span
<1>4. a \in (h.p_vaddr + h.p_filesz)..(h.p_vaddr + h.p_memsz - 1) <=>
        a \in Span(h) /\ ~(a - h.p_vaddr < h.p_filesz)
  BY <1>1, <1>2 DEF Span
<1>5. Loaded(h)[a] =
        IF a \in h.p_vaddr..(h.p_vaddr + h.p_filesz - 1)
        THEN kernel.bytes[h.p_offset + (a - h.p_vaddr) + 1]
        ELSE IF a \in (h.p_vaddr + h.p_filesz)..(h.p_vaddr + h.p_memsz - 1)
        THEN Zero ELSE memory[a]
  BY Zenon DEF Loaded
<1>6. Loaded(h)[a] = IF a \in Span(h)
                     THEN IF a - h.p_vaddr < h.p_filesz
                          THEN kernel.bytes[h.p_offset + (a - h.p_vaddr) + 1]
                          ELSE Zero
                     ELSE memory[a]
  BY <1>3, <1>4, <1>5, Zenon
<1> QED
  BY <1>6 DEF h

-----------------------------------------------------------------------------
(* The invariant.                                                          *)

Before  == {"GetMemoryMap", "OpenRootDir", "SaveMemoryMap", "OpenGOP",
            "PrintMode", "ReadKernel", "AllocatePages"}
Leaving == {"ExitBootServices", "GetMemoryMapAgain", "ExitBootServicesAgain"}

LoaderTypeOK ==
  /\ kernel \in Kernels
  /\ pc \in Before \cup {"CopyLoadSegments", "config"} \cup Leaving \cup Ended
  /\ segment \in 1..(Len(kernel.phdr) + 1)
  /\ memory = [a \in Addresses |-> memory[a]]

(* Memory is written only between AllocatePages and FreePool.              *)
Stages ==
  /\ pc \in Before => segment = 1 /\ \A a \in Addresses : memory[a] = Junk
  /\ pc \in {"CopyLoadSegments", "config", "kernel"} \cup Leaving =>
       allocated = FirstAddr..(FirstAddr + NumPages * PageSize - 1)
  /\ pc \in {"config", "kernel"} \cup Leaving => segment > Len(kernel.phdr)

(* The segments before the current one are in place, and later ones leave  *)
(* them alone.                                                             *)
Copied ==
  \A i \in Loads(kernel) : i < segment =>
    \A a \in Span(kernel.phdr[i]) : InImage(kernel.phdr[i], a)

(* The boot services run until the loader has left them, and are not       *)
(* called after that on the way to the kernel.                             *)
Quiet ==
  /\ pc # "halted" => late_call = FALSE
  /\ pc \in {"config", "kernel"} => boot_services = FALSE
  /\ pc \notin {"config"} \cup Ended => boot_services = TRUE

Entered == pc = "kernel" => entry = memory[FirstAddr + EntryOffset]

LoaderInv == LoaderTypeOK /\ Stages /\ Copied /\ Quiet /\ Entered /\ WritesOwnPages

(* The loader starts before anything was done.                             *)
LEMMA LoaderStarts == Init => LoaderInv
<1> SUFFICES ASSUME Init PROVE LoaderInv
  OBVIOUS
<1>1. kernel \in Kernels /\ Len(kernel.phdr) \in Nat
      /\ Loads(kernel) \subseteq 1..Len(kernel.phdr)
  BY HeaderTypes DEF Init
<1>2. LoaderTypeOK
  BY <1>1 DEF Init, LoaderTypeOK, Before
<1>3. Stages /\ Quiet /\ Entered /\ WritesOwnPages
  BY DEF Init, Stages, Before, Leaving, Quiet, Ended, Entered, WritesOwnPages
<1>4. Copied
  BY <1>1 DEF Init, Copied
<1> QED
  BY <1>2, <1>3, <1>4 DEF LoaderInv

(* Copying one segment (Main.c:187-201).                                   *)
LEMMA CopyKeeps ==
  ASSUME LoaderInv, CopyLoadSegments
  PROVE  LoaderInv'
<1>1. /\ pc = "CopyLoadSegments" /\ segment <= Len(kernel.phdr)
      /\ memory' = IF IsLoad(kernel, segment) THEN Loaded(kernel.phdr[segment])
                   ELSE memory
      /\ segment' = segment + 1
      /\ UNCHANGED <<pc, entry, boot_services, allocated, kernel, late_call>>
  BY DEF CopyLoadSegments, machineVars
<1>2. /\ kernel \in Kernels /\ Len(kernel.phdr) \in Nat
      /\ Loads(kernel) \subseteq 1..Len(kernel.phdr)
      /\ segment \in 1..Len(kernel.phdr)
  BY <1>1, HeaderTypes DEF LoaderInv, LoaderTypeOK
<1>3. IsLoad(kernel, segment) <=> segment \in Loads(kernel)
  BY <1>2, HeaderTypes DEF Loads
<1>4. memory' = [a \in Addresses |-> memory'[a]]
  BY <1>1 DEF Loaded, LoaderInv, LoaderTypeOK
<1>5. allocated = FirstAddr..(FirstAddr + NumPages * PageSize - 1)
  BY <1>1 DEF LoaderInv, Stages
<1>6. \A i \in Loads(kernel) : \A a \in Span(kernel.phdr[i]) : a \in Addresses
  <2> SUFFICES ASSUME NEW i \in Loads(kernel), NEW a \in Span(kernel.phdr[i])
               PROVE  a \in Addresses
    OBVIOUS
  <2> DEFINE v == kernel.phdr[i].p_vaddr
             m == kernel.phdr[i].p_memsz
  <2>1. v \in Nat /\ m \in Nat
    BY <1>2, HeaderTypes
  <2>2. v + m <= MemSize
    BY <1>2, KernelAssumption
  <2>3. a \in v..(v + m - 1) /\ MemSize \in Nat
    BY BoundAssumption DEF Span
  <2> HIDE DEF v, m
  <2> QED
    BY <2>1, <2>2, <2>3 DEF Addresses
<1>7. \A a \in Addresses :
        \/ memory'[a] = memory[a]
        \/ segment \in Loads(kernel) /\ a \in Span(kernel.phdr[segment])
  BY <1>1, <1>2, <1>3, LoadedIs
<1>8. WritesOwnPages'
  BY <1>1, <1>2, <1>5, <1>7, PagesHoldImage DEF LoaderInv, WritesOwnPages
<1>9. Copied'
  <2> SUFFICES ASSUME NEW i \in Loads(kernel), i < segment + 1,
                      NEW a \in Span(kernel.phdr[i])
               PROVE  InImage(kernel.phdr[i], a)'
    BY <1>1 DEF Copied, Loads, IsLoad
  <2>1. a \in Addresses
    BY <1>6
  <2>2. CASE i = segment
    <3>1. memory'[a] = Loaded(kernel.phdr[i])[a]
      BY <1>1, <1>3, <2>2
    <3> QED
      BY <1>1, <1>2, <2>1, <3>1, LoadedIs DEF InImage
  <2>3. CASE i # segment
    <3>1. i < segment
      BY <1>2, <2>3
    <3>2. segment \in Loads(kernel) => a \notin Span(kernel.phdr[segment])
      BY <1>2, <2>3, KernelAssumption
    <3>3. memory'[a] = memory[a]
      BY <1>7, <2>1, <3>2
    <3>4. InImage(kernel.phdr[i], a)
      BY <3>1 DEF LoaderInv, Copied
    <3> QED
      BY <1>1, <3>3, <3>4 DEF InImage
  <2> QED
    BY <2>2, <2>3
<1>10. LoaderTypeOK'
  BY <1>1, <1>2, <1>4 DEF LoaderInv, LoaderTypeOK
<1>11. Stages' /\ Quiet' /\ Entered'
  <2>1. FirstAddr' = FirstAddr /\ NumPages' = NumPages
    BY <1>1 DEF FirstAddr, NumPages, LastAddr, End, Loads, IsLoad
  <2> QED
    BY <1>1, <2>1 DEF LoaderInv, Stages, Quiet, Entered, Before, Leaving, Ended
<1> QED
  BY <1>8, <1>9, <1>10, <1>11 DEF LoaderInv

(* What neither writes memory nor moves on to another segment.             *)
LEMMA ImageKept ==
  ASSUME LoaderInv, UNCHANGED <<segment, kernel, memory>>
  PROVE  /\ Copied'
         /\ FirstAddr' = FirstAddr /\ NumPages' = NumPages
<1>1. FirstAddr' = FirstAddr /\ NumPages' = NumPages /\ Loads(kernel)' = Loads(kernel)
  BY DEF FirstAddr, NumPages, LastAddr, End, Loads, IsLoad
<1>2. \A i, a : InImage(kernel.phdr[i], a)' <=> InImage(kernel.phdr[i], a)
  BY DEF InImage
<1>3. \A i : Span(kernel.phdr[i])' = Span(kernel.phdr[i])
  BY DEF Span
<1> QED
  BY <1>1, <1>2, <1>3 DEF LoaderInv, Copied

(* Every step keeps the invariant (Main.c:203-388).                        *)
LEMMA LoaderNext == LoaderInv /\ [Next]_vars => LoaderInv'
<1> SUFFICES ASSUME LoaderInv, [Next]_vars PROVE LoaderInv'
  OBVIOUS
<1>1. CASE CopyLoadSegments
  BY <1>1, CopyKeeps
<1>2. ASSUME UNCHANGED <<segment, kernel, memory>>,
             /\ pc' \in Before \cup {"CopyLoadSegments", "config"} \cup Leaving \cup Ended
             /\ Stages' /\ Quiet' /\ Entered'
             /\ allocated' = allocated \/ pc = "AllocatePages"
      PROVE  LoaderInv'
  <2>1. LoaderTypeOK' /\ Copied'
    BY <1>2, ImageKept DEF LoaderInv, LoaderTypeOK
  <2>2. WritesOwnPages'
    BY <1>2 DEF LoaderInv, WritesOwnPages, Stages, Before
  <2> QED
    BY <1>2, <2>1, <2>2 DEF LoaderInv
<1>3. ASSUME UNCHANGED <<segment, kernel, memory>>
      PROVE  FirstAddr' = FirstAddr /\ NumPages' = NumPages
  BY <1>3, ImageKept
<1> USE DEF LoaderInv, LoaderTypeOK, Stages, Quiet, Entered, Before, Leaving,
            Ended, Fails, PrintMessage, loaderVars, firmwareVars, machineVars
<1>4. CASE GetMemoryMap
  <2>1. UNCHANGED <<segment, kernel, memory>>
    BY <1>4 DEF GetMemoryMap, GetMemoryMapAt
  <2>2. FirstAddr' = FirstAddr /\ NumPages' = NumPages
    BY <1>3, <2>1
  <2>3. /\ pc' \in Before \cup {"CopyLoadSegments", "config"} \cup Leaving \cup Ended
        /\ allocated' = allocated \/ pc = "AllocatePages"
    BY <1>4 DEF GetMemoryMap, GetMemoryMapAt
  <2>4. Stages'
    BY <1>4, <2>1, <2>2 DEF GetMemoryMap, GetMemoryMapAt
  <2>5. Quiet'
    BY <1>4, <2>1, <2>2 DEF GetMemoryMap, GetMemoryMapAt
  <2>6. Entered'
    BY <1>4, <2>1, <2>2 DEF GetMemoryMap, GetMemoryMapAt
  <2> QED
    BY <1>2, <2>1, <2>3, <2>4, <2>5, <2>6
<1>5. CASE OpenRootDir
  <2>1. UNCHANGED <<segment, kernel, memory>>
    BY <1>5 DEF OpenRootDir, Opens, Ended, Remap
  <2>2. FirstAddr' = FirstAddr /\ NumPages' = NumPages
    BY <1>3, <2>1
  <2>3. /\ pc' \in Before \cup {"CopyLoadSegments", "config"} \cup Leaving \cup Ended
        /\ allocated' = allocated \/ pc = "AllocatePages"
    BY <1>5 DEF OpenRootDir, Opens, Ended, Remap
  <2>4. Stages'
    BY <1>5, <2>1, <2>2 DEF OpenRootDir, Opens, Ended, Remap
  <2>5. Quiet'
    BY <1>5, <2>1, <2>2 DEF OpenRootDir, Opens, Ended, Remap
  <2>6. Entered'
    BY <1>5, <2>1, <2>2 DEF OpenRootDir, Opens, Ended, Remap
  <2> QED
    BY <1>2, <2>1, <2>3, <2>4, <2>5, <2>6
<1>6. CASE SaveMemoryMap
  <2>1. UNCHANGED <<segment, kernel, memory>>
    BY <1>6 DEF SaveMemoryMap, Strays, Proceed, Remap
  <2>2. FirstAddr' = FirstAddr /\ NumPages' = NumPages
    BY <1>3, <2>1
  <2>3. /\ pc' \in Before \cup {"CopyLoadSegments", "config"} \cup Leaving \cup Ended
        /\ allocated' = allocated \/ pc = "AllocatePages"
    BY <1>6 DEF SaveMemoryMap, Strays, Proceed, Remap
  <2>4. Stages'
    BY <1>6, <2>1, <2>2 DEF SaveMemoryMap, Strays, Proceed, Remap
  <2>5. Quiet'
    BY <1>6, <2>1, <2>2 DEF SaveMemoryMap, Strays, Proceed, Remap
  <2>6. Entered'
    BY <1>6, <2>1, <2>2 DEF SaveMemoryMap, Strays, Proceed, Remap
  <2> QED
    BY <1>2, <2>1, <2>3, <2>4, <2>5, <2>6
<1>7. CASE OpenGOP
  <2>1. UNCHANGED <<segment, kernel, memory>>
    BY <1>7 DEF OpenGOP, Opens, Ended, Remap
  <2>2. FirstAddr' = FirstAddr /\ NumPages' = NumPages
    BY <1>3, <2>1
  <2>3. /\ pc' \in Before \cup {"CopyLoadSegments", "config"} \cup Leaving \cup Ended
        /\ allocated' = allocated \/ pc = "AllocatePages"
    BY <1>7 DEF OpenGOP, Opens, Ended, Remap
  <2>4. Stages'
    BY <1>7, <2>1, <2>2 DEF OpenGOP, Opens, Ended, Remap
  <2>5. Quiet'
    BY <1>7, <2>1, <2>2 DEF OpenGOP, Opens, Ended, Remap
  <2>6. Entered'
    BY <1>7, <2>1, <2>2 DEF OpenGOP, Opens, Ended, Remap
  <2> QED
    BY <1>2, <2>1, <2>3, <2>4, <2>5, <2>6
<1>8. CASE PrintMode
  <2>1. UNCHANGED <<segment, kernel, memory>>
    BY <1>8 DEF PrintMode, Strays
  <2>2. FirstAddr' = FirstAddr /\ NumPages' = NumPages
    BY <1>3, <2>1
  <2>3. /\ pc' \in Before \cup {"CopyLoadSegments", "config"} \cup Leaving \cup Ended
        /\ allocated' = allocated \/ pc = "AllocatePages"
    BY <1>8 DEF PrintMode, Strays
  <2>4. Stages'
    BY <1>8, <2>1, <2>2 DEF PrintMode, Strays
  <2>5. Quiet'
    BY <1>8, <2>1, <2>2 DEF PrintMode, Strays
  <2>6. Entered'
    BY <1>8, <2>1, <2>2 DEF PrintMode, Strays
  <2> QED
    BY <1>2, <2>1, <2>3, <2>4, <2>5, <2>6
<1>9. CASE ReadKernel
  <2>1. UNCHANGED <<segment, kernel, memory>>
    BY <1>9 DEF ReadKernel, Proceed, Remap
  <2>2. FirstAddr' = FirstAddr /\ NumPages' = NumPages
    BY <1>3, <2>1
  <2>3. /\ pc' \in Before \cup {"CopyLoadSegments", "config"} \cup Leaving \cup Ended
        /\ allocated' = allocated \/ pc = "AllocatePages"
    BY <1>9 DEF ReadKernel, Proceed, Remap
  <2>4. Stages'
    BY <1>9, <2>1, <2>2 DEF ReadKernel, Proceed, Remap
  <2>5. Quiet'
    BY <1>9, <2>1, <2>2 DEF ReadKernel, Proceed, Remap
  <2>6. Entered'
    BY <1>9, <2>1, <2>2 DEF ReadKernel, Proceed, Remap
  <2> QED
    BY <1>2, <2>1, <2>3, <2>4, <2>5, <2>6
<1>10. CASE AllocatePages
  <2>1. UNCHANGED <<segment, kernel, memory>>
    BY <1>10 DEF AllocatePages, Remap
  <2>2. FirstAddr' = FirstAddr /\ NumPages' = NumPages
    BY <1>3, <2>1
  <2>3. /\ pc' \in Before \cup {"CopyLoadSegments", "config"} \cup Leaving \cup Ended
        /\ allocated' = allocated \/ pc = "AllocatePages"
    BY <1>10 DEF AllocatePages, Remap
  <2>4. Stages'
    BY <1>10, <2>1, <2>2 DEF AllocatePages, Remap
  <2>5. Quiet'
    BY <1>10, <2>1, <2>2 DEF AllocatePages, Remap
  <2>6. Entered'
    BY <1>10, <2>1, <2>2 DEF AllocatePages, Remap
  <2> QED
    BY <1>2, <2>1, <2>3, <2>4, <2>5, <2>6
<1>11. CASE FreePool
  <2>1. UNCHANGED <<segment, kernel, memory>>
    BY <1>11 DEF FreePool, Remap
  <2>2. FirstAddr' = FirstAddr /\ NumPages' = NumPages
    BY <1>3, <2>1
  <2>3. /\ pc' \in Before \cup {"CopyLoadSegments", "config"} \cup Leaving \cup Ended
        /\ allocated' = allocated \/ pc = "AllocatePages"
    BY <1>11 DEF FreePool, Remap
  <2>4. Stages'
    BY <1>11, <2>1, <2>2 DEF FreePool, Remap
  <2>5. Quiet'
    BY <1>11, <2>1, <2>2 DEF FreePool, Remap
  <2>6. Entered'
    BY <1>11, <2>1, <2>2 DEF FreePool, Remap
  <2> QED
    BY <1>2, <2>1, <2>3, <2>4, <2>5, <2>6
<1>12. CASE ExitBootServices
  <2>1. UNCHANGED <<segment, kernel, memory>>
    BY <1>12 DEF ExitBootServices, Exits
  <2>2. FirstAddr' = FirstAddr /\ NumPages' = NumPages
    BY <1>3, <2>1
  <2>3. /\ pc' \in Before \cup {"CopyLoadSegments", "config"} \cup Leaving \cup Ended
        /\ allocated' = allocated \/ pc = "AllocatePages"
    BY <1>12 DEF ExitBootServices, Exits
  <2>4. Stages'
    BY <1>12, <2>1, <2>2 DEF ExitBootServices, Exits
  <2>5. Quiet'
    BY <1>12, <2>1, <2>2 DEF ExitBootServices, Exits
  <2>6. Entered'
    BY <1>12, <2>1, <2>2 DEF ExitBootServices, Exits
  <2> QED
    BY <1>2, <2>1, <2>3, <2>4, <2>5, <2>6
<1>13. CASE GetMemoryMapAgain
  <2>1. UNCHANGED <<segment, kernel, memory>>
    BY <1>13 DEF GetMemoryMapAgain
  <2>2. FirstAddr' = FirstAddr /\ NumPages' = NumPages
    BY <1>3, <2>1
  <2>3. /\ pc' \in Before \cup {"CopyLoadSegments", "config"} \cup Leaving \cup Ended
        /\ allocated' = allocated \/ pc = "AllocatePages"
    BY <1>13 DEF GetMemoryMapAgain
  <2>4. Stages'
    BY <1>13, <2>1, <2>2 DEF GetMemoryMapAgain
  <2>5. Quiet'
    BY <1>13, <2>1, <2>2 DEF GetMemoryMapAgain
  <2>6. Entered'
    BY <1>13, <2>1, <2>2 DEF GetMemoryMapAgain
  <2> QED
    BY <1>2, <2>1, <2>3, <2>4, <2>5, <2>6
<1>14. CASE ExitBootServicesAgain
  <2>1. UNCHANGED <<segment, kernel, memory>>
    BY <1>14 DEF ExitBootServicesAgain, Exits
  <2>2. FirstAddr' = FirstAddr /\ NumPages' = NumPages
    BY <1>3, <2>1
  <2>3. /\ pc' \in Before \cup {"CopyLoadSegments", "config"} \cup Leaving \cup Ended
        /\ allocated' = allocated \/ pc = "AllocatePages"
    BY <1>14 DEF ExitBootServicesAgain, Exits
  <2>4. Stages'
    BY <1>14, <2>1, <2>2 DEF ExitBootServicesAgain, Exits
  <2>5. Quiet'
    BY <1>14, <2>1, <2>2 DEF ExitBootServicesAgain, Exits
  <2>6. Entered'
    BY <1>14, <2>1, <2>2 DEF ExitBootServicesAgain, Exits
  <2> QED
    BY <1>2, <2>1, <2>3, <2>4, <2>5, <2>6
<1>15. CASE EnterKernel
  <2>1. UNCHANGED <<segment, kernel, memory>>
    BY <1>15 DEF EnterKernel, Strays
  <2>2. FirstAddr' = FirstAddr /\ NumPages' = NumPages
    BY <1>3, <2>1
  <2>3. /\ pc' \in Before \cup {"CopyLoadSegments", "config"} \cup Leaving \cup Ended
        /\ allocated' = allocated \/ pc = "AllocatePages"
    BY <1>15 DEF EnterKernel, Strays
  <2>4. Stages'
    BY <1>15, <2>1, <2>2 DEF EnterKernel, Strays
  <2>5. Quiet'
    BY <1>15, <2>1, <2>2 DEF EnterKernel, Strays
  <2>6. Entered'
    BY <1>15, <2>1, <2>2 DEF EnterKernel, Strays
  <2> QED
    BY <1>2, <2>1, <2>3, <2>4, <2>5, <2>6
<1>16. CASE FirmwareEvent
  <2>1. UNCHANGED <<segment, kernel, memory>>
    BY <1>16 DEF FirmwareEvent, Remap
  <2>2. FirstAddr' = FirstAddr /\ NumPages' = NumPages
    BY <1>3, <2>1
  <2>3. /\ pc' \in Before \cup {"CopyLoadSegments", "config"} \cup Leaving \cup Ended
        /\ allocated' = allocated \/ pc = "AllocatePages"
    BY <1>16 DEF FirmwareEvent, Remap
  <2>4. Stages'
    BY <1>16, <2>1, <2>2 DEF FirmwareEvent, Remap
  <2>5. Quiet'
    BY <1>16, <2>1, <2>2 DEF FirmwareEvent, Remap
  <2>6. Entered'
    BY <1>16, <2>1, <2>2 DEF FirmwareEvent, Remap
  <2> QED
    BY <1>2, <2>1, <2>3, <2>4, <2>5, <2>6
<1>17. CASE UNCHANGED vars
  <2>1. UNCHANGED <<segment, kernel, memory, pc, allocated, entry, boot_services,
                    late_call>>
    BY <1>17 DEF vars
  <2>2. FirstAddr' = FirstAddr /\ NumPages' = NumPages
    BY <1>3, <2>1
  <2>3. Stages' /\ Quiet' /\ Entered'
    BY <2>1, <2>2
  <2> QED
    BY <1>2, <2>1, <2>3
<1> QED
  BY <1>1, <1>4, <1>5, <1>6, <1>7, <1>8, <1>9, <1>10, <1>11, <1>12,
     <1>13, <1>14, <1>15, <1>16, <1>17
  DEF Next, UefiMain

-----------------------------------------------------------------------------
(* The theorems.                                                           *)

(* The loader writes to no memory but the pages it allocated, whatever the *)
(* sizes, the order and the alignment of the segments (Main.c:169-201,     *)
(* 313-326).                                                               *)
THEOREM OnlyOwnPages == Spec => []WritesOwnPages
<1>1. LoaderInv => WritesOwnPages
  BY DEF LoaderInv
<1> QED
  BY <1>1, LoaderStarts, LoaderNext, PTL DEF Spec

(* The kernel starts only with the firmware stopped and not called since,  *)
(* every byte of its segments in place and the entry point of its file     *)
(* (Main.c:187-201, 340-388).                                              *)
THEOREM StartsFromWholeImage == Spec => []KernelStartsClean
<1>1. LoaderInv => KernelStartsClean
  <2> SUFFICES ASSUME LoaderInv, pc = "kernel"
               PROVE  /\ ~boot_services /\ ~late_call
                      /\ \A i \in Loads(kernel) : \A a \in Span(kernel.phdr[i]) :
                           InImage(kernel.phdr[i], a)
                      /\ entry = kernel.bytes[EntryOffset + 1]
    BY DEF KernelStartsClean
  <2>1. boot_services = FALSE /\ late_call = FALSE
    BY DEF LoaderInv, Quiet
  <2>2. kernel \in Kernels /\ segment > Len(kernel.phdr) /\ segment \in Nat
    BY HeaderTypes DEF LoaderInv, LoaderTypeOK, Stages
  <2>3. \A i \in Loads(kernel) : i < segment
    BY <2>2, HeaderTypes
  <2>4. \A i \in Loads(kernel) : \A a \in Span(kernel.phdr[i]) :
          InImage(kernel.phdr[i], a)
    BY <2>3 DEF LoaderInv, Copied
  <2>5. PICK i \in Loads(kernel) : /\ FirstAddr = kernel.phdr[i].p_vaddr
                                   /\ kernel.phdr[i].p_offset = 0
                                   /\ kernel.phdr[i].p_filesz > EntryOffset
    BY <2>2, FirstIsLowest
  <2> DEFINE h == kernel.phdr[i]
  <2>6. /\ FirstAddr \in Nat /\ EntryOffset \in Nat /\ h.p_memsz \in Nat
        /\ h.p_filesz \in Nat /\ h.p_filesz <= h.p_memsz
    <3>1. FirstAddr \in Nat /\ EntryOffset \in Nat
      BY <2>2, FirstIsLowest, BoundAssumption
    <3>2. h.p_memsz \in Nat /\ h.p_filesz \in Nat
      BY <2>2, HeaderTypes
    <3>3. h.p_filesz <= h.p_memsz
      BY <2>2, KernelAssumption
    <3> QED
      BY <3>1, <3>2, <3>3
  <2>7. /\ FirstAddr + EntryOffset \in Span(h)
        /\ (FirstAddr + EntryOffset) - h.p_vaddr = EntryOffset
    <3>1. h.p_vaddr = FirstAddr /\ h.p_filesz > EntryOffset
      BY <2>5
    <3> HIDE DEF h
    <3> QED
      BY <2>6, <3>1 DEF Span
  <2>8. InImage(h, FirstAddr + EntryOffset)
    BY <2>4, <2>7
  <2>9. memory[FirstAddr + EntryOffset] = kernel.bytes[EntryOffset + 1]
    <3>1. h.p_offset = 0 /\ EntryOffset < h.p_filesz
      BY <2>5, <2>6
    <3> HIDE DEF h
    <3>2. h.p_offset + EntryOffset + 1 = EntryOffset + 1
      BY <2>6, <3>1
    <3> QED
      BY <2>7, <2>8, <3>1, <3>2 DEF InImage
  <2> QED
    BY <2>1, <2>4, <2>9 DEF LoaderInv, Entered
<1> QED
  BY <1>1, LoaderStarts, LoaderNext, PTL DEF Spec

=============================================================================
