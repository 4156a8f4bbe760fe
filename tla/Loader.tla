------------------------------- MODULE Loader -------------------------------
(***************************************************************************)
(* UefiMain of the boot loader (MikanLoaderPkg/Main.c): it reads the       *)
(* kernel file, allocates the pages its LOAD segments are linked for,      *)
(* copies the segments there, stops the firmware's boot services and jumps *)
(* to the kernel.  The firmware stops them only for a caller whose map key *)
(* is that of the current memory map, and the map changes under the        *)
(* loader's feet: by what the loader itself asks for, and by the           *)
(* firmware's own timer events.                                            *)
(***************************************************************************)
EXTENDS Integers, Sequences, FiniteSets

CONSTANTS
  Kernels,      \* kernel files: see KernelAssumption
  PageSize,     \* 0x1000
  MemSize,      \* addresses of the memory modelled
  EntryOffset,  \* where an ELF header holds e_entry, 24
  MaxChanges,   \* bound: memory map changes by the firmware's own events
  Formats       \* pixel formats the display may have

Addresses == 0..(MemSize - 1)
Junk == "junk"      \* what memory holds before it is written
Zero == "zero"

(* A kernel file is its bytes and its program headers.  The linker puts    *)
(* the ELF header at the start of the lowest LOAD segment, which starts on *)
(* a page (--image-base), lets no two LOAD segments overlap and gives none *)
(* more bytes in the file than in memory.                                  *)
ProgramHeader == [p_type : STRING, p_vaddr : Nat, p_offset : Nat,
                  p_filesz : Nat, p_memsz : Nat]
IsLoad(k, i) == k.phdr[i].p_type = "LOAD"
Loads(k)     == {i \in DOMAIN k.phdr : IsLoad(k, i)}
Span(h)      == h.p_vaddr..(h.p_vaddr + h.p_memsz - 1)
ASSUME KernelAssumption ==
  \A k \in Kernels :
    /\ k.phdr \in Seq(ProgramHeader)
    /\ \A i \in Loads(k) :
         /\ k.phdr[i].p_vaddr + k.phdr[i].p_memsz <= MemSize
         /\ k.phdr[i].p_filesz <= k.phdr[i].p_memsz
         /\ k.phdr[i].p_offset + k.phdr[i].p_filesz <= Len(k.bytes)
         /\ \A j \in Loads(k) \ {i} : Span(k.phdr[i]) \cap Span(k.phdr[j]) = {}
    /\ \E i \in Loads(k) :
         /\ \A j \in Loads(k) : k.phdr[i].p_vaddr <= k.phdr[j].p_vaddr
         /\ k.phdr[i].p_vaddr % PageSize = 0
         /\ k.phdr[i].p_offset = 0 /\ k.phdr[i].p_filesz > EntryOffset
ASSUME BoundAssumption ==
  PageSize \in Nat \ {0} /\ {MemSize, EntryOffset, MaxChanges} \subseteq Nat

VARIABLES
  (* The loader. *)
  pc,             \* the call UefiMain makes next, or where it ended
  map_key,        \* memmap.map_key
  segment,        \* CopyLoadSegments' i
  entry,          \* entry_addr
  unset,          \* of root_dir and gop, those that a failed call left
                  \* uninitialised, or what it takes to get them
  (* The firmware. *)
  current_key,    \* key of the memory map as it is
  changes,        \* how often the firmware's events changed it
  boot_services,  \* are they running?
  allocated,      \* addresses AllocatePages gave to the loader
  memory,
  (* The machine. *)
  kernel,         \* the kernel file
  format,         \* the display's pixel format
  late_call       \* was a boot service called after they were stopped?

loaderVars == <<map_key, segment, entry, unset>>
firmwareVars == <<current_key, changes, boot_services, allocated, memory>>
machineVars == <<kernel, format>>
vars == <<pc, loaderVars, firmwareVars, machineVars, late_call>>

(* "undefined" is what the program does with an uninitialised pointer:     *)
(* nothing is known of it.                                                 *)
Ended == {"kernel", "halted", "undefined"}

-----------------------------------------------------------------------------
(* Calls of boot services.                                                 *)

(* Print goes through the console's boot service.                          *)
PrintMessage == late_call' = (late_call \/ ~boot_services)

(* "failed to ...", and Halt.                                              *)
Fails == /\ PrintMessage
         /\ pc' = "halted"
         /\ UNCHANGED <<loaderVars, firmwareVars, machineVars>>

(* A call that gives or takes memory changes the memory map.               *)
Remap == current_key' = current_key + 1

GetMemoryMapAt(now, then) ==
  /\ pc = now
  /\ \/ /\ map_key' = current_key
        /\ pc' = then
        /\ UNCHANGED <<segment, entry, unset, firmwareVars, machineVars,
                       late_call>>
     \/ Fails

GetMemoryMap == GetMemoryMapAt("GetMemoryMap", "OpenRootDir")

(* A function that drops the statuses of its calls and returns EFI_SUCCESS *)
(* whatever they were, so its caller's check never fails: it sets the      *)
(* pointer or leaves it as it was.  Its calls build on one another: after  *)
(* one that failed the next goes through what that one should have set.    *)
Opens(pointer, then) ==
  /\ \/ pc' = then /\ unset' \in {unset, unset \cup {pointer}}
     \/ pc' = "undefined" /\ unset' = unset \cup {pointer}
  /\ Remap
  /\ PrintMessage
  /\ UNCHANGED <<map_key, segment, entry, changes, boot_services, allocated,
                 memory, machineVars>>

(* The program goes on through an uninitialised pointer.                   *)
Strays(pointer) ==
  /\ pointer \in unset
  /\ pc' = "undefined"
  /\ UNCHANGED <<loaderVars, firmwareVars, machineVars, late_call>>

OpenRootDir == pc = "OpenRootDir" /\ Opens("root_dir", "SaveMemoryMap")

(* Calls whose statuses are checked, and which use memory of the firmware. *)
Proceed(then) ==
  \/ /\ Remap
     /\ PrintMessage
     /\ pc' = then
     /\ UNCHANGED <<loaderVars, changes, boot_services, allocated, memory,
                    machineVars>>
  \/ Fails

(* The memory map file is opened, written and closed; the statuses of the  *)
(* writes are dropped and nothing hangs on them.                           *)
SaveMemoryMap ==
  /\ pc = "SaveMemoryMap"
  /\ \/ Strays("root_dir")
     \/ "root_dir" \notin unset /\ Proceed("OpenGOP")

OpenGOP == pc = "OpenGOP" /\ Opens("gop", "PrintMode")

(* Print of gop->Mode: whatever is found where the pointer leads is        *)
(* printed, if anything can be read there at all.                          *)
PrintMode ==
  /\ pc = "PrintMode"
  /\ \/ Strays("gop")
     \/ /\ PrintMessage
        /\ pc' = "ReadKernel"
        /\ UNCHANGED <<loaderVars, firmwareVars, machineVars>>

(* The kernel file is opened, a pool allocated and the file read into it.  *)
ReadKernel == pc = "ReadKernel" /\ Proceed("AllocatePages")

(* CalcLoadAddressRange.                                                   *)
FirstAddr == CHOOSE a \in {kernel.phdr[i].p_vaddr : i \in Loads(kernel)} :
               \A i \in Loads(kernel) : a <= kernel.phdr[i].p_vaddr
End(i)    == kernel.phdr[i].p_vaddr + kernel.phdr[i].p_memsz
LastAddr  == CHOOSE a \in {End(i) : i \in Loads(kernel)} :
               \A i \in Loads(kernel) : End(i) <= a

(* Mutant of NumPages: the size is rounded down.                           *)
NumPagesDown == (LastAddr - FirstAddr) \div PageSize
NumPages     == (LastAddr - FirstAddr + PageSize - 1) \div PageSize

AllocatePages ==
  /\ pc = "AllocatePages"
  /\ \/ /\ allocated' = FirstAddr..(FirstAddr + NumPages * PageSize - 1)
        /\ Remap
        /\ pc' = "CopyLoadSegments"
        /\ UNCHANGED <<loaderVars, changes, boot_services, memory, machineVars,
                       late_call>>
     \/ Fails

(* Mutant of Loaded: what the file does not hold is not cleared.           *)
LoadedWithoutBss(h) ==
  [a \in Addresses |->
     IF a \in h.p_vaddr..(h.p_vaddr + h.p_filesz - 1)
     THEN kernel.bytes[h.p_offset + (a - h.p_vaddr) + 1]
     ELSE memory[a]]

(* CopyMem, then SetMem on the rest of the segment: first p_filesz bytes   *)
(* from the file, then p_memsz - p_filesz zeros.                           *)
Loaded(h) ==
  [a \in Addresses |->
     IF a \in h.p_vaddr..(h.p_vaddr + h.p_filesz - 1)
     THEN kernel.bytes[h.p_offset + (a - h.p_vaddr) + 1]
     ELSE IF a \in (h.p_vaddr + h.p_filesz)..(h.p_vaddr + h.p_memsz - 1)
     THEN Zero ELSE memory[a]]

CopyLoadSegments ==
  /\ pc = "CopyLoadSegments" /\ segment <= Len(kernel.phdr)
  /\ memory' = IF IsLoad(kernel, segment) THEN Loaded(kernel.phdr[segment])
               ELSE memory
  /\ segment' = segment + 1
  /\ UNCHANGED <<pc, map_key, entry, unset, current_key, changes,
                 boot_services, allocated, machineVars, late_call>>

(* All segments copied: Print and FreePool.                                *)
FreePool ==
  /\ pc = "CopyLoadSegments" /\ segment > Len(kernel.phdr)
  /\ \/ /\ PrintMessage
        /\ Remap
        /\ pc' = "ExitBootServices"
        /\ UNCHANGED <<loaderVars, changes, boot_services, allocated, memory,
                       machineVars>>
     \/ Fails

-----------------------------------------------------------------------------
(* Leaving the firmware.                                                   *)

Exits == /\ map_key = current_key
         /\ boot_services' = FALSE
         /\ pc' = "config"
         /\ UNCHANGED <<loaderVars, current_key, changes, allocated, memory,
                        machineVars, late_call>>

(* A stale key: the memory map is fetched again.                           *)
ExitBootServices ==
  /\ pc = "ExitBootServices"
  /\ \/ Exits
     \/ /\ map_key # current_key
        /\ pc' = "GetMemoryMapAgain"
        /\ UNCHANGED <<loaderVars, firmwareVars, machineVars, late_call>>

(* Mutant of GetMemoryMapAgain: the loader never gives up.                 *)
GetMemoryMapForever ==
  /\ pc = "GetMemoryMapAgain"
  /\ pc' = "ExitBootServices"
  /\ \/ map_key' = current_key /\ UNCHANGED late_call
     \/ PrintMessage /\ UNCHANGED map_key
  /\ UNCHANGED <<segment, entry, unset, firmwareVars, machineVars>>

(* Here a failure is only reported; the old key is tried again.            *)
GetMemoryMapAgain ==
  /\ pc = "GetMemoryMapAgain"
  /\ pc' = "ExitBootServicesAgain"
  /\ \/ map_key' = current_key /\ UNCHANGED late_call
     \/ PrintMessage /\ UNCHANGED map_key
  /\ UNCHANGED <<segment, entry, unset, firmwareVars, machineVars>>

ExitBootServicesAgain ==
  /\ pc = "ExitBootServicesAgain"
  /\ \/ Exits
     \/ map_key # current_key /\ Fails

(* The entry point is read from the ELF header in the copied image, the    *)
(* pixel format through gop.  A format that neither PixelWriter knows      *)
(* stops the boot.                                                         *)
FormatRead == IF "gop" \in unset THEN Formats ELSE {format}

EnterKernel ==
  /\ pc = "config"
  /\ \/ Strays("gop")
     \/ /\ FormatRead \cap {"RGB", "BGR"} # {}
        /\ entry' = memory[FirstAddr + EntryOffset]
        /\ pc' = "kernel"
        /\ UNCHANGED <<map_key, segment, unset, firmwareVars, machineVars,
                       late_call>>
     \/ /\ FormatRead \ {"RGB", "BGR"} # {}
        /\ entry' = memory[FirstAddr + EntryOffset]
        /\ PrintMessage
        /\ pc' = "halted"
        /\ UNCHANGED <<map_key, segment, unset, firmwareVars, machineVars>>

(* Timer events of the firmware allocate and free memory at any time.      *)
FirmwareEvent ==
  /\ boot_services /\ pc \notin Ended /\ changes < MaxChanges
  /\ Remap
  /\ changes' = changes + 1
  /\ UNCHANGED <<pc, loaderVars, boot_services, allocated, memory, machineVars,
                 late_call>>

-----------------------------------------------------------------------------
Init ==
  /\ kernel \in Kernels /\ format \in Formats
  /\ pc = "GetMemoryMap" /\ map_key = 0 /\ segment = 1 /\ entry = Junk
  /\ unset = {}
  /\ current_key = 1 /\ changes = 0 /\ boot_services = TRUE /\ late_call = FALSE
  /\ allocated = {} /\ memory = [a \in Addresses |-> Junk]

UefiMain == \/ GetMemoryMap \/ OpenRootDir \/ SaveMemoryMap \/ OpenGOP
            \/ PrintMode \/ ReadKernel \/ AllocatePages \/ CopyLoadSegments
            \/ FreePool \/ ExitBootServices \/ GetMemoryMapAgain
            \/ ExitBootServicesAgain \/ EnterKernel
Next == UefiMain \/ FirmwareEvent

(* The loader runs on; the firmware need not do anything.                  *)
Spec == Init /\ [][Next]_vars /\ WF_vars(UefiMain)

-----------------------------------------------------------------------------
(* Properties.                                                             *)

(* The loader writes to no memory but the pages it was given: the rounding *)
(* of NumPages covers the last segment's cleared part too.                 *)
WritesOwnPages == \A a \in Addresses : memory[a] # Junk => a \in allocated

(* The kernel starts only in the environment it was linked for: firmware   *)
(* stopped and not called since, every byte of every LOAD segment in       *)
(* place, those the file does not hold zero, and the entry point that of   *)
(* the file.  Of the display the kernel is told about it says nothing:     *)
(* with gop uninitialised that may be anything.                            *)
InImage(h, a) ==
  memory[a] = IF a - h.p_vaddr < h.p_filesz
              THEN kernel.bytes[h.p_offset + (a - h.p_vaddr) + 1] ELSE Zero
KernelStartsClean ==
  pc = "kernel" =>
    /\ ~boot_services /\ ~late_call
    /\ \A i \in Loads(kernel) : \A a \in Span(kernel.phdr[i]) :
         InImage(kernel.phdr[i], a)
    /\ entry = kernel.bytes[EntryOffset + 1]

(* The loader ends in the kernel or halts with a message whenever a call   *)
(* fails whose status it checks.  What else can happen is that one of the  *)
(* calls fails whose status OpenRootDir and OpenGOP drop (Main.c:97-146),  *)
(* and what it should have set is used; the checks at Main.c:221-224 and   *)
(* 252-255, which should halt the loader then, never fire.                 *)
BootEnds == <>(pc \in Ended /\ (pc = "undefined" => unset # {}))
=============================================================================
