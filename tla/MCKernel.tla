------------------------------ MODULE MCKernel ------------------------------
(* Instances of Kernel for TLC: three cores, boot information around every *)
(* limit of memory_mappings.                                               *)
EXTENDS Kernel, TLC

CONSTANTS c1, c2, c3

MCCores == {c1, c2, c3}

(* One socket, and the APIC ids a small machine has. *)
MCPackage == [c \in MCCores |-> "socket0"]
MCApicId == (c1 :> 0) @@ (c2 :> 1) @@ (c3 :> 2)

(* A machine whose bootstrap processor has an APIC id of more than 8 bits. *)
X2ApicId == (c1 :> 256) @@ (c2 :> 257) @@ (c3 :> 258)

(* Sizes below the header, at it, at one entry, at the array and past it.  *)
MCSizes == {112, 128, 144, 176, 192}

(* A range of memory in use, and ranges of free memory: at 0, one block,   *)
(* 48 bytes without an aligned block of 32, one with such a block, empty   *)
(* between two words, and one past the last address.                       *)
MCMappings ==
  {[ptr |-> 16, size |-> 34], [ptr |-> 0, size |-> 17], [ptr |-> 16, size |-> 17],
   [ptr |-> 40, size |-> 49], [ptr |-> 24, size |-> 49], [ptr |-> 9, size |-> 1],
   [ptr |-> 112, size |-> 33]}

(* The entry that is skipped is as usable as an entry can be. *)
MCBootInfo ==
  {b \in [size: MCSizes, mmap: [0 .. MmapLen - 1 -> MCMappings]] :
     b.mmap[0] = [ptr |-> 16, size |-> 17]}

=============================================================================
