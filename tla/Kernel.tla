------------------------------- MODULE Kernel -------------------------------
(***************************************************************************)
(* Start-up of ParaOS (paraos/src/main.rs, kernel.rs, platform.rs,         *)
(* panic.rs and the BOOTBOOT information of bootboot.rs).  The boot loader *)
(* starts every core in _start, which calls Kernel::run.  The cores agree  *)
(* on one barrier, the bootstrap core sets up the serial port and gives    *)
(* the free memory to the heap, all meet at the barrier, the bootstrap     *)
(* core prints the banner, and every core ends in loop {}.                 *)
(*                                                                         *)
(* A label of pc names the call a core is about to make.  A step is one    *)
(* such call; the calls that synchronise cores (Once, Barrier) are cut at  *)
(* their atomic accesses, see SpinBarrier.                                 *)
(***************************************************************************)
EXTENDS Naturals, FiniteSets, Sequences, SpinBarrier

CONSTANTS
  Cores,      \* the logical processors the boot loader starts
  Package,    \* the processor package (socket) each core belongs to
  ApicId,     \* the APIC id of each core
  bspid,      \* BOOTBOOT.bspid, the APIC id of the bootstrap processor
  quiet,      \* Kernel::quiet
  MmapLen,    \* length of the array BOOTBOOT.mmap (247 in the code)
  AddressEnd, \* the first number that is not a usize (2^64)
  BlockEnd,   \* the first size LockedHeap<32> has no list for (2^32)
  BootInfo    \* the BOOTBOOT structures the boot loader may hand over

(* bootboot.rs:36-40; the low four bits of size are the kind of memory. *)
MemoryMapping == [ptr: Nat, size: Nat]

ASSUME CoresAssumption ==
  /\ IsFiniteSet(Cores) /\ Cores # {}
  /\ ApicId \in [Cores -> Nat] /\ bspid \in Nat
  /\ quiet \in BOOLEAN

ASSUME BootInfoAssumption ==
  /\ MmapLen \in Nat /\ AddressEnd \in Nat /\ BlockEnd \in Nat \ {0}
  /\ BootInfo \subseteq [size: Nat, mmap: [0 .. MmapLen - 1 -> MemoryMapping]]

VARIABLES
  pc,          \* the call each core is about to make
  start,       \* main.rs START, the Once<Barrier> all cores share
  local_gen,   \* Barrier::wait, the generation a core arrived in
  next_entry,  \* position of each core's loop over the memory mappings
  heap,        \* HEAP_ALLOCATOR: the mappings added to it, by index
  console,     \* history: the messages given to the serial port
  cpuid,       \* the CPUID leaves this machine has
  bootboot     \* BOOTBOOT

vars == <<pc, start, local_gen, next_entry, heap, console, cpuid, bootboot>>
environment == <<cpuid, bootboot>>

Labels == {"num_cores", "call_once", "new_barrier", "apic_id", "port_init",
           "memory_mappings", "add_to_heap", "serial_init", "free_memory",
           "arrive", "wait", "banner", "loop", "panic", "panicked"}

Messages == {"Free memory", "ParaOS", "panic"}

TypeOK ==
  /\ pc \in [Cores -> Labels]
  /\ start \in OnceBarrier
  /\ local_gen \in [Cores -> Nat]
  /\ next_entry \in [Cores -> Nat]
  /\ heap \subseteq Nat
  /\ console \in Seq(Messages)
  /\ cpuid \subseteq {"topology", "features"}
  /\ bootboot \in BootInfo

-----------------------------------------------------------------------------
(* platform.rs num_cores: the processors CPUID leaf 0BH counts at the core *)
(* level, which are those of the package of the core that asks.            *)
num_cores(c) == Cardinality({d \in Cores : Package[d] = Package[c]})

(* Mutant of is_bootstrap_core: the comparison is left out. *)
is_any_core(c) == TRUE

(* kernel.rs:61-64: initial_local_apic_id is an 8-bit field of CPUID leaf  *)
(* 1, compared with the 16-bit bspid.                                      *)
is_bootstrap_core(c) == ApicId[c] % 256 = bspid

(* bootboot.rs memory_mappings: an end of the slice past the array panics, *)
(* and so does a size below the header's 128 bytes (the subtraction panics *)
(* or wraps to an end far past the array).                                 *)
EntryCount(b) == (b.size - 128) \div 16

MappingsPanic(b) == b.size < 128 \/ EntryCount(b) > MmapLen

(* bootboot.rs:42-54. *)
mapping_size(m) == m.size - (m.size % 16)
is_free(m) == m.size % 16 = 1

(* main.rs:39: which mappings the heap is given. *)
Usable(m) == is_free(m) /\ m.ptr # 0

(* main.rs:40-42.  addr + size may overflow.  add_to_heap aligns both ends *)
(* to a word, asserts that they are in order, and cuts the range into      *)
(* blocks aligned to their size, each a power of two with a list of its    *)
(* own: it panics when the range has room for one of BlockEnd bytes.       *)
RoundUp(n, align) == ((n + align - 1) \div align) * align

AddPanics(m) ==
  LET begin == RoundUp(m.ptr, 8)
      end   == ((m.ptr + mapping_size(m)) \div 8) * 8
  IN \/ m.ptr + mapping_size(m) >= AddressEnd
     \/ begin > end
     \/ RoundUp(begin, BlockEnd) + BlockEnd <= end

UsableEntries(b) == {i \in 1 .. EntryCount(b) - 1 : Usable(b.mmap[i])}

Goto(c, label) == pc' = [pc EXCEPT ![c] = label]

Write(message) == console' = Append(console, message)

-----------------------------------------------------------------------------
(* kernel.rs:57 and platform.rs:4-11; expect panics without the leaf. *)
NumCores(c) ==
  /\ pc[c] = "num_cores"
  /\ Goto(c, IF "topology" \in cpuid THEN "call_once" ELSE "panic")
  /\ UNCHANGED <<start, local_gen, next_entry, heap, console, environment>>

(* kernel.rs:58-60, a core that finds the Once incomplete. *)
ClaimOnce(c) ==
  /\ pc[c] = "call_once"
  /\ start.once = "Incomplete"
  /\ start' = ClaimedOnce(start)
  /\ Goto(c, "new_barrier")
  /\ UNCHANGED <<local_gen, next_entry, heap, console, environment>>

(* kernel.rs:60, the closure || Barrier::new(num_cores as usize). *)
NewBarrier(c) ==
  /\ pc[c] = "new_barrier"
  /\ start' = CompletedOnce(num_cores(c))
  /\ Goto(c, "apic_id")
  /\ UNCHANGED <<local_gen, next_entry, heap, console, environment>>

(* kernel.rs:58-60, a core that finds the Once complete, after spinning. *)
FindOnce(c) ==
  /\ pc[c] = "call_once"
  /\ start.once = "Complete"
  /\ Goto(c, "apic_id")
  /\ UNCHANGED <<start, local_gen, next_entry, heap, console, environment>>

(* kernel.rs:61-64; expect panics without the leaf. *)
ReadApicId(c) ==
  /\ pc[c] = "apic_id"
  /\ Goto(c, CASE "features" \notin cpuid -> "panic"
               [] "features" \in cpuid /\ is_bootstrap_core(c) -> "port_init"
               [] OTHER -> "arrive")
  /\ UNCHANGED <<start, local_gen, next_entry, heap, console, environment>>

(* kernel.rs:65. *)
PortInit(c) ==
  /\ pc[c] = "port_init"
  /\ Goto(c, "memory_mappings")
  /\ UNCHANGED <<start, local_gen, next_entry, heap, console, environment>>

(* main.rs:38, BOOTBOOT.memory_mappings()[1..]: skipping the first entry   *)
(* panics when there is none.                                              *)
MemoryMappings(c) ==
  /\ pc[c] = "memory_mappings"
  /\ ~MappingsPanic(bootboot) /\ EntryCount(bootboot) # 0
  /\ next_entry' = [next_entry EXCEPT ![c] = 1]
  /\ Goto(c, "add_to_heap")
  /\ UNCHANGED <<start, local_gen, heap, console, environment>>

MemoryMappingsPanics(c) ==
  /\ pc[c] = "memory_mappings"
  /\ MappingsPanic(bootboot) \/ EntryCount(bootboot) = 0
  /\ Goto(c, "panic")
  /\ UNCHANGED <<start, local_gen, next_entry, heap, console, environment>>

(* main.rs:38-44, one turn of the loop. *)
RangePanics(i) == Usable(bootboot.mmap[i]) /\ AddPanics(bootboot.mmap[i])

AddToHeap(c) ==
  /\ pc[c] = "add_to_heap"
  /\ next_entry[c] < EntryCount(bootboot)
  /\ ~RangePanics(next_entry[c])
  /\ heap' = IF Usable(bootboot.mmap[next_entry[c]])
             THEN heap \cup {next_entry[c]}
             ELSE heap
  /\ next_entry' = [next_entry EXCEPT ![c] = @ + 1]
  /\ UNCHANGED <<pc, start, local_gen, console, environment>>

AddToHeapPanics(c) ==
  /\ pc[c] = "add_to_heap"
  /\ next_entry[c] < EntryCount(bootboot)
  /\ RangePanics(next_entry[c])
  /\ Goto(c, "panic")
  /\ UNCHANGED <<start, local_gen, next_entry, heap, console, environment>>

(* main.rs:38, the end of the loop. *)
HeapReady(c) ==
  /\ pc[c] = "add_to_heap"
  /\ next_entry[c] >= EntryCount(bootboot)
  /\ Goto(c, "serial_init")
  /\ UNCHANGED <<start, local_gen, next_entry, heap, console, environment>>

(* main.rs:45-46. *)
SerialInit(c) ==
  /\ pc[c] = "serial_init"
  /\ Goto(c, "free_memory")
  /\ UNCHANGED <<start, local_gen, next_entry, heap, console, environment>>

(* main.rs:47-54, the last call of the bootstrap initialisation. *)
FreeMemory(c) ==
  /\ pc[c] = "free_memory"
  /\ Write("Free memory")
  /\ Goto(c, "arrive")
  /\ UNCHANGED <<start, local_gen, next_entry, heap, environment>>

(* kernel.rs:69, start_rendezvous.wait(). *)
Arrive(c) ==
  /\ pc[c] = "arrive"
  /\ start' = Arrived(start)
  /\ local_gen' = [local_gen EXCEPT ![c] = start.generation_id]
  /\ Goto(c, IF IsLastArrival(start) THEN "banner" ELSE "wait")
  /\ UNCHANGED <<next_entry, heap, console, environment>>

Leave(c) ==
  /\ pc[c] = "wait"
  /\ MayLeave(start, local_gen[c])
  /\ Goto(c, "banner")
  /\ UNCHANGED <<start, local_gen, next_entry, heap, console, environment>>

(* kernel.rs:71-76, then the loop {} of main.rs:56. *)
Banner(c) ==
  /\ pc[c] = "banner"
  /\ IF is_bootstrap_core(c) /\ ~quiet THEN Write("ParaOS") ELSE UNCHANGED console
  /\ Goto(c, "loop")
  /\ UNCHANGED <<start, local_gen, next_entry, heap, environment>>

(* panic.rs: the handler prints and loops. *)
Panic(c) ==
  /\ pc[c] = "panic"
  /\ Write("panic")
  /\ Goto(c, "panicked")
  /\ UNCHANGED <<start, local_gen, next_entry, heap, environment>>

-----------------------------------------------------------------------------
Init ==
  /\ pc = [c \in Cores |-> "num_cores"]
  /\ start = NewOnce
  /\ local_gen = [c \in Cores |-> 0]
  /\ next_entry = [c \in Cores |-> 0]
  /\ heap = {}
  /\ console = <<>>
  /\ cpuid \in SUBSET {"topology", "features"}
  /\ bootboot \in BootInfo

BootstrapInit(c) ==
  \/ PortInit(c) \/ MemoryMappings(c) \/ MemoryMappingsPanics(c)
  \/ AddToHeap(c) \/ AddToHeapPanics(c) \/ HeapReady(c)
  \/ SerialInit(c) \/ FreeMemory(c)

Run(c) ==
  \/ NumCores(c) \/ ClaimOnce(c) \/ NewBarrier(c) \/ FindOnce(c) \/ ReadApicId(c)
  \/ BootstrapInit(c) \/ Arrive(c) \/ Leave(c) \/ Banner(c) \/ Panic(c)

Next == \E c \in Cores : Run(c)

(* Each core is a processor that never stops; a spinning core sees a       *)
(* change of what it spins on.                                             *)
Fairness == \A c \in Cores : WF_vars(Run(c))

Spec == Init /\ [][Next]_vars /\ Fairness

-----------------------------------------------------------------------------
Bootstrapping ==
  {"port_init", "memory_mappings", "add_to_heap", "serial_init", "free_memory"}
Initialized == {"arrive", "wait", "banner", "loop"}
Released == {"banner", "loop"}

cores_arrived == {c \in Cores : pc[c] \in {"wait"} \cup Released}
cores_released == {c \in Cores : pc[c] \in Released}

(* The machines the start-up code is written for: exactly one core has the *)
(* APIC id of the bootstrap processor, and all are in one package.         *)
OneBootstrap ==
  \E b \in Cores : \A c \in Cores : is_bootstrap_core(c) <=> c = b

OnePackage == \A c, d \in Cores : Package[c] = Package[d]

CpuidComplete == cpuid = {"topology", "features"}

(* The boot information that bootstrap_init panics on. *)
BootPanics(b) ==
  \/ MappingsPanic(b) \/ EntryCount(b) = 0
  \/ \E i \in UsableEntries(b) : AddPanics(b.mmap[i])

(* Once any core has left the rendezvous of kernel.rs:69, the closure of   *)
(* main.rs:37-55 has run to its end: every usable mapping is in the heap,  *)
(* nothing else is, and the allocator could represent each of them.        *)
InitBeforeRelease ==
  cores_released # {} => heap = UsableEntries(bootboot) /\ ~BootPanics(bootboot)

(* kernel.rs:69: a core leaves the rendezvous only when all have arrived.  *)
AllArriveFirst == cores_released # {} => cores_arrived = Cores

(* The mutex of Port is released at once (serial.rs:37 and 53), so what    *)
(* keeps two cores from driving COM1 together is that only the bootstrap   *)
(* core takes the branches of kernel.rs:64 and 71, and that nobody else    *)
(* panics.  So it is, once CPUID has answered.                             *)
UsingSerial(c) ==
  \/ pc[c] \in {"port_init", "serial_init", "free_memory", "panic"}
  \/ pc[c] = "banner" /\ is_bootstrap_core(c) /\ ~quiet

SerialExclusive ==
  CpuidComplete =>
    \A c, d \in Cores : UsingSerial(c) /\ UsingSerial(d) => c = d

(* What the operator of the machine can see: the size of the heap before   *)
(* the banner, each once, or a single panic in their place.                *)
ConsoleLog ==
  CpuidComplete =>
    console \in {<<>>, <<"Free memory">>, <<"panic">>}
               \cup (IF quiet THEN {} ELSE {<<"Free memory", "ParaOS">>})

(* The start-up ends, in a state that CPUID and the boot information       *)
(* determine: all cores panic, or the bootstrap core does and the others   *)
(* wait for it forever, or all reach loop {}.                              *)
Settled ==
  \A c \in Cores :
    pc[c] = CASE ~CpuidComplete -> "panicked"
              [] CpuidComplete /\ BootPanics(bootboot) ->
                   IF is_bootstrap_core(c) THEN "panicked" ELSE "wait"
              [] OTHER -> "loop"

Settles == <>[]Settled

(* The start-up implements the abstract rendezvous. *)
R == INSTANCE Rendezvous WITH
       Bootstrap   <- CHOOSE b \in Cores : is_bootstrap_core(b),
       initialized <- \E c \in Cores : is_bootstrap_core(c) /\ pc[c] \in Initialized,
       arrived     <- cores_arrived,
       released    <- cores_released

(* Every step of the start-up is a step of Rendezvous or leaves it alone.  *)
ImplementsRendezvous == R!Spec

=============================================================================
