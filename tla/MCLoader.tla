------------------------------ MODULE MCLoader ------------------------------
(* Loader for TLC: small kernel files.                                     *)
EXTENDS Loader

Segment(type, vaddr, offset, filesz, memsz) ==
  [p_type |-> type, p_vaddr |-> vaddr, p_offset |-> offset,
   p_filesz |-> filesz, p_memsz |-> memsz]
Bytes == <<"b0", "b1", "b2", "b3", "b4", "b5">>

(* Pages of 4: segments that end within a page, begin where another ends,  *)
(* come in any order, consist of cleared memory only, and a header that is *)
(* not LOAD.                                                               *)
SmallKernels ==
  { [bytes |-> Bytes, phdr |-> <<Segment("LOAD", 4, 0, 3, 3 + bss),
                                 Segment("PHDR", 0, 0, 2, 2),
                                 Segment("LOAD", 10 + skip, 3, len, len + 1)>>] :
      bss \in {0, 2, 3}, skip \in {0, 2}, len \in {0, 2, 3} }
  \cup
  { [bytes |-> Bytes, phdr |-> <<Segment("LOAD", 8, 2, 2, 5),
                                 Segment("LOAD", 4, 0, 4, 4)>>],
    [bytes |-> Bytes, phdr |-> <<Segment("LOAD", 8, 0, 6, 6)>>] }
=============================================================================
