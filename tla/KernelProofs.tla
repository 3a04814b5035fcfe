---------------------------- MODULE KernelProofs ----------------------------
(***************************************************************************)
(* For every number of cores and every boot information: on a machine with *)
(* one bootstrap core and one package, no core leaves the rendezvous of    *)
(* Kernel::run before the initialisation has ended, and the start-up       *)
(* implements Rendezvous.                                                  *)
(***************************************************************************)
EXTENDS Kernel, FiniteSetTheorems, TLAPS

BeforeOnce == {"num_cores", "call_once", "new_barrier", "panic", "panicked"}
AfterOnce == Labels \ BeforeOnce
BeforeHeap ==
  {"num_cores", "call_once", "new_barrier", "apic_id", "port_init", "memory_mappings"}
AfterMappings == {"add_to_heap", "serial_init", "free_memory"} \cup Initialized
BeforeFreeMemory ==
  BeforeHeap \cup {"add_to_heap", "serial_init", "free_memory", "panic"}

(* The Once is complete when a core is past call_once, one core at a time  *)
(* runs its closure, and the barrier is for all cores.                     *)
OnceInv ==
  /\ \A c \in Cores : pc[c] \in AfterOnce => start.once = "Complete"
  /\ \A c \in Cores : pc[c] = "new_barrier" => start.once = "Running"
  /\ \A c, d \in Cores : pc[c] = "new_barrier" /\ pc[d] = "new_barrier" => c = d
  /\ start.once = "Complete" => start.num_threads = Cardinality(Cores)

(* The barrier is in its first generation and counts the cores that wait,  *)
(* or in its second one and every core has arrived.                        *)
BarrierInv ==
  start.once = "Complete" =>
    \/ /\ start.generation_id = 0
       /\ cores_released = {}
       /\ start.count = Cardinality(cores_arrived)
       /\ start.count < start.num_threads
       /\ \A c \in Cores : pc[c] = "wait" => local_gen[c] = 0
    \/ start.generation_id = 1 /\ start.count = 0 /\ cores_arrived = Cores

(* Only the bootstrap core initialises, and the heap holds the usable      *)
(* mappings its loop has passed.                                           *)
HeapInv ==
  /\ \A c \in Cores : pc[c] \in Bootstrapping => is_bootstrap_core(c)
  /\ \A c \in Cores : is_bootstrap_core(c) =>
       /\ pc[c] \in BeforeHeap => heap = {}
       /\ pc[c] = "add_to_heap" =>
            /\ next_entry[c] \in 1 .. EntryCount(bootboot)
            /\ heap = {i \in 1 .. next_entry[c] - 1 : Usable(bootboot.mmap[i])}
       /\ pc[c] \in {"serial_init", "free_memory"} \cup Initialized =>
            heap = UsableEntries(bootboot)

(* With both CPUID leaves, only the bootstrap core has anything to panic   *)
(* about.                                                                  *)
PanicInv ==
  CpuidComplete =>
    \A c \in Cores : pc[c] \in {"panic", "panicked"} => is_bootstrap_core(c)

(* What is in the heap could be added, and a bootstrap core that has got   *)
(* past memory_mappings has found entries.                                 *)
RangeInv ==
  /\ \A i \in heap : ~AddPanics(bootboot.mmap[i])
  /\ \A c \in Cores : is_bootstrap_core(c) /\ pc[c] \in AfterMappings =>
       ~MappingsPanic(bootboot) /\ EntryCount(bootboot) # 0

(* With both CPUID leaves, the console shows how far the bootstrap core    *)
(* has come.                                                               *)
ConsoleInv ==
  CpuidComplete =>
    \A c \in Cores : is_bootstrap_core(c) =>
      /\ pc[c] \in BeforeFreeMemory => console = <<>>
      /\ pc[c] \in {"arrive", "wait", "banner"} => console = <<"Free memory">>
      /\ pc[c] = "loop" =>
           console = IF quiet THEN <<"Free memory">> ELSE <<"Free memory", "ParaOS">>
      /\ pc[c] = "panicked" => console = <<"panic">>

IInv == TypeOK /\ OnceInv /\ BarrierInv /\ HeapInv /\ PanicInv /\ RangeInv /\ ConsoleInv

-----------------------------------------------------------------------------
LEMMA InitTypeOK == Init => TypeOK
<1> SUFFICES ASSUME Init PROVE TypeOK
  OBVIOUS
<1>1. start \in OnceBarrier
  BY DEF Init, NewOnce, OnceBarrier, OnceState
<1> QED
  BY <1>1 DEF Init, TypeOK, Labels, Messages

LEMMA ArrivedType ==
  ASSUME NEW b \in OnceBarrier
  PROVE  Arrived(b) \in OnceBarrier
BY DEF Arrived, OnceBarrier

(* Each step of a core keeps the state well typed. *)
LEMMA StepTypeOK == TypeOK /\ [Next]_vars => TypeOK'
<1> SUFFICES ASSUME TypeOK, [Next]_vars PROVE TypeOK'
  OBVIOUS
<1> USE DEF TypeOK, Goto, environment
<1>0. \A m \in Messages : Append(console, m) \in Seq(Messages)
  OBVIOUS
<1>1. CASE UNCHANGED vars
  BY <1>1 DEF vars
<1>2. ASSUME NEW c \in Cores, Run(c) PROVE TypeOK'
  <2>1. CASE NumCores(c)
    BY <2>1 DEF NumCores, Labels
  <2>2. CASE ClaimOnce(c)
    BY <2>2, Zenon DEF ClaimOnce, Labels, ClaimedOnce, OnceBarrier, OnceState
  <2>3. CASE NewBarrier(c)
    <3>1. Cardinality({d \in Cores : Package[d] = Package[c]}) \in Nat
      BY CoresAssumption, FS_Subset, FS_CardinalityType
    <3>2. start' \in OnceBarrier
      BY <2>3, <3>1 DEF NewBarrier, CompletedOnce, num_cores, OnceBarrier, OnceState
    <3> QED
      BY <2>3, <3>2 DEF NewBarrier, Labels
  <2>4. CASE FindOnce(c)
    BY <2>4 DEF FindOnce, Labels
  <2>5. CASE ReadApicId(c)
    <3>1. pc' \in [Cores -> Labels]
      BY <2>5 DEF ReadApicId, Labels
    <3> QED
      BY <2>5, <3>1 DEF ReadApicId
  <2>6. CASE PortInit(c)
    BY <2>6 DEF PortInit, Labels
  <2>7. CASE MemoryMappings(c)
    BY <2>7 DEF MemoryMappings, Labels
  <2>17. CASE MemoryMappingsPanics(c)
    BY <2>17 DEF MemoryMappingsPanics, Labels
  <2>8. CASE AddToHeap(c)
    <3>1. heap' \subseteq Nat
      BY <2>8, Zenon DEF AddToHeap
    <3>2. next_entry' \in [Cores -> Nat]
      BY <2>8 DEF AddToHeap
    <3> QED
      BY <2>8, <3>1, <3>2 DEF AddToHeap
  <2>9. CASE AddToHeapPanics(c)
    BY <2>9 DEF AddToHeapPanics, Labels
  <2>10. CASE HeapReady(c)
    BY <2>10 DEF HeapReady, Labels
  <2>11. CASE SerialInit(c)
    BY <2>11 DEF SerialInit, Labels
  <2>12. CASE FreeMemory(c)
    <3>1. console' \in Seq(Messages)
      BY <1>0, <2>12, Zenon DEF FreeMemory, Write, Messages
    <3> QED
      BY <2>12, <3>1, Zenon DEF FreeMemory, Labels
  <2>13. CASE Arrive(c)
    <3>1. start' \in OnceBarrier
      BY <2>13, ArrivedType DEF Arrive
    <3>2. local_gen' \in [Cores -> Nat]
      BY <2>13 DEF Arrive, OnceBarrier
    <3> QED
      BY <2>13, <3>1, <3>2 DEF Arrive, Labels
  <2>14. CASE Leave(c)
    BY <2>14 DEF Leave, Labels
  <2>15. CASE Banner(c)
    <3>1. console' \in Seq(Messages)
      BY <1>0, <2>15, Zenon DEF Banner, Write, Messages
    <3> QED
      BY <2>15, <3>1 DEF Banner, Labels
  <2>16. CASE Panic(c)
    <3>1. console' \in Seq(Messages)
      BY <1>0, <2>16, Zenon DEF Panic, Write, Messages
    <3> QED
      BY <2>16, <3>1 DEF Panic, Labels
  <2> QED
    BY <1>2, <2>1, <2>2, <2>3, <2>4, <2>5, <2>6, <2>7, <2>8, <2>9, <2>10, <2>11,
       <2>12, <2>13, <2>14, <2>15, <2>16, <2>17 DEF Run, BootstrapInit
<1> QED
  BY <1>1, <1>2 DEF Next

(* The state of the start-up stays well typed, whatever CPUID and the boot *)
(* loader say and however many packages or bootstrap cores there are.      *)
THEOREM TypeCorrect == Spec => []TypeOK
BY InitTypeOK, StepTypeOK, PTL DEF Spec

-----------------------------------------------------------------------------
LEMMA CoresCardinality ==
  ASSUME NEW S \in SUBSET Cores
  PROVE  /\ IsFiniteSet(S)
         /\ Cardinality(S) \in Nat
         /\ Cardinality(S) <= Cardinality(Cores)
         /\ Cardinality(S) = Cardinality(Cores) => S = Cores
BY CoresAssumption, FS_Subset, FS_CardinalityType

LEMMA CoresPositive == Cardinality(Cores) \in Nat \ {0}
BY CoresAssumption, FS_CardinalityType, FS_EmptySet

(* A call of num_cores counts every core of a machine with one package. *)
LEMMA NumCoresAll ==
  ASSUME OnePackage, NEW c \in Cores
  PROVE  num_cores(c) = Cardinality(Cores)
<1>1. {d \in Cores : Package[d] = Package[c]} = Cores
  BY DEF OnePackage
<1> QED
  BY <1>1 DEF num_cores

LEMMA InitInv == Init => IInv
<1> SUFFICES ASSUME Init PROVE IInv
  OBVIOUS
<1>1. OnceInv
  BY DEF Init, OnceInv, NewOnce, AfterOnce, BeforeOnce, Labels
<1>2. BarrierInv
  BY DEF Init, BarrierInv, NewOnce
<1>3. HeapInv
  BY DEF Init, HeapInv, BeforeHeap, Bootstrapping, Initialized
<1>4. PanicInv
  BY DEF Init, PanicInv
<1>5. RangeInv
  BY DEF Init, RangeInv, AfterMappings, Initialized
<1>6. ConsoleInv
  BY DEF Init, ConsoleInv, BeforeFreeMemory, BeforeHeap
<1> QED
  BY <1>1, <1>2, <1>3, <1>4, <1>5, <1>6, InitTypeOK DEF IInv

(* The steps that use neither the Once nor the barrier. *)
LocalStep(c) ==
  /\ pc[c] \in Labels \ {"call_once", "new_barrier", "arrive", "wait", "banner", "loop"}
  /\ \E l \in Labels \ {"new_barrier", "wait", "banner", "loop"} :
       /\ Goto(c, l)
       /\ pc[c] \in BeforeOnce => l \in BeforeOnce
  /\ UNCHANGED <<start, local_gen>>

LEMMA RunSteps ==
  ASSUME NEW c \in Cores, TypeOK, Run(c)
  PROVE  \/ LocalStep(c) \/ ClaimOnce(c) \/ NewBarrier(c) \/ FindOnce(c)
         \/ Arrive(c) \/ Leave(c) \/ Banner(c)
<1> USE DEF LocalStep, Labels, BeforeOnce, environment
<1>1. ASSUME NumCores(c) PROVE LocalStep(c)
  BY <1>1 DEF NumCores
<1>2. ASSUME ReadApicId(c) PROVE LocalStep(c)
  BY <1>2 DEF ReadApicId
<1>3. ASSUME BootstrapInit(c) PROVE LocalStep(c)
  <2>1. ASSUME PortInit(c) PROVE LocalStep(c)
    BY <2>1 DEF PortInit
  <2>2. ASSUME MemoryMappings(c) PROVE LocalStep(c)
    BY <2>2 DEF MemoryMappings
  <2>3. ASSUME MemoryMappingsPanics(c) PROVE LocalStep(c)
    BY <2>3 DEF MemoryMappingsPanics
  <2>4. ASSUME AddToHeap(c) PROVE LocalStep(c)
    <3>1. Goto(c, "add_to_heap")
      BY <2>4 DEF AddToHeap, Goto, TypeOK
    <3> QED
      BY <2>4, <3>1 DEF AddToHeap
  <2>5. ASSUME AddToHeapPanics(c) PROVE LocalStep(c)
    BY <2>5 DEF AddToHeapPanics
  <2>6. ASSUME HeapReady(c) PROVE LocalStep(c)
    BY <2>6 DEF HeapReady
  <2>7. ASSUME SerialInit(c) PROVE LocalStep(c)
    BY <2>7 DEF SerialInit
  <2>8. ASSUME FreeMemory(c) PROVE LocalStep(c)
    BY <2>8, Zenon DEF FreeMemory
  <2> QED
    BY <1>3, <2>1, <2>2, <2>3, <2>4, <2>5, <2>6, <2>7, <2>8 DEF BootstrapInit
<1>4. ASSUME Panic(c) PROVE LocalStep(c)
  BY <1>4 DEF Panic
<1> QED
  BY <1>1, <1>2, <1>3, <1>4 DEF Run

LEMMA OnceStep ==
  ASSUME NEW c \in Cores, OnePackage, TypeOK, OnceInv, Run(c)
  PROVE  OnceInv'
<1> USE DEF OnceInv, TypeOK, Goto, AfterOnce, BeforeOnce, Labels
<1>1. CASE LocalStep(c)
  BY <1>1 DEF LocalStep
<1>2. CASE ClaimOnce(c)
  BY <1>2 DEF ClaimOnce, ClaimedOnce, OnceBarrier
<1>3. CASE NewBarrier(c)
  <2>1. start'.once = "Complete" /\ start'.num_threads = Cardinality(Cores)
    BY <1>3, NumCoresAll DEF NewBarrier, CompletedOnce
  <2> QED
    BY <1>3, <2>1 DEF NewBarrier
<1>4. CASE FindOnce(c)
  BY <1>4 DEF FindOnce
<1>5. CASE Arrive(c)
  <2>1. start'.once = start.once /\ start'.num_threads = start.num_threads
    BY <1>5 DEF Arrive, Arrived
  <2> QED
    BY <1>5, <2>1 DEF Arrive
<1>6. CASE Leave(c)
  BY <1>6 DEF Leave
<1>7. CASE Banner(c)
  BY <1>7 DEF Banner
<1> QED
  BY <1>1, <1>2, <1>3, <1>4, <1>5, <1>6, <1>7, RunSteps, ZenonT(60)

LEMMA BarrierStep ==
  ASSUME NEW c \in Cores, OnePackage, TypeOK, OnceInv, BarrierInv, Run(c)
  PROVE  BarrierInv'
<1> USE DEF Goto
<1>0. /\ cores_arrived \in SUBSET Cores
      /\ cores_released \subseteq cores_arrived
  BY DEF cores_arrived, cores_released
<1>a. ASSUME UNCHANGED <<start, local_gen, cores_arrived, cores_released>>,
             \A d \in Cores : pc'[d] = "wait" => pc[d] = "wait"
      PROVE  BarrierInv'
  BY <1>a DEF BarrierInv
<1>1. CASE LocalStep(c)
  <2>1. /\ UNCHANGED <<start, local_gen, cores_arrived, cores_released>>
        /\ \A d \in Cores : pc'[d] = "wait" => pc[d] = "wait"
    BY <1>1 DEF LocalStep, TypeOK, cores_arrived, cores_released, Released
  <2> QED
    BY <2>1, <1>a
<1>2. CASE ClaimOnce(c)
  BY <1>2 DEF ClaimOnce, ClaimedOnce, OnceBarrier, BarrierInv, TypeOK
<1>3. CASE NewBarrier(c)
  <2>1. cores_arrived' = {} /\ cores_released' = {}
    BY <1>3, Zenon DEF NewBarrier, TypeOK, OnceInv, AfterOnce, BeforeOnce, Labels,
                cores_arrived, cores_released, Released
  <2>2. \A d \in Cores : pc'[d] # "wait"
    BY <2>1 DEF cores_arrived
  <2>3. /\ start'.count = 0 /\ start'.generation_id = 0
        /\ start'.num_threads = Cardinality(Cores)
    BY <1>3, NumCoresAll DEF NewBarrier, CompletedOnce
  <2>4. Cardinality({}) = 0
    BY FS_EmptySet
  <2> QED
    BY <2>1, <2>2, <2>3, <2>4, CoresPositive DEF BarrierInv
<1>4. CASE FindOnce(c)
  <2>1. /\ UNCHANGED <<start, local_gen, cores_arrived, cores_released>>
        /\ \A d \in Cores : pc'[d] = "wait" => pc[d] = "wait"
    BY <1>4 DEF FindOnce, TypeOK, cores_arrived, cores_released, Released
  <2> QED
    BY <2>1, <1>a
<1>5. CASE Arrive(c)
  <2>1. /\ start.once = "Complete"
        /\ start.num_threads = Cardinality(Cores)
    BY <1>5 DEF Arrive, OnceInv, AfterOnce, BeforeOnce, Labels
  <2>2. cores_arrived' = cores_arrived \cup {c} /\ c \notin cores_arrived
    BY <1>5 DEF Arrive, TypeOK, cores_arrived, Released
  <2>3. Cardinality(cores_arrived') = Cardinality(cores_arrived) + 1
    BY <1>0, <2>2, FS_AddElement, CoresCardinality
  <2>4. /\ start.generation_id = 0
        /\ cores_released = {}
        /\ start.count = Cardinality(cores_arrived)
        /\ start.count < start.num_threads
        /\ \A d \in Cores : pc[d] = "wait" => local_gen[d] = 0
    BY <2>1, <2>2 DEF BarrierInv
  <2>5. cores_arrived' \in SUBSET Cores
    BY <1>0, <2>2
  <2>6. start' = Arrived(start)
    BY <1>5 DEF Arrive
  <2>7. start.count \in Nat /\ start.num_threads \in Nat
    BY DEF TypeOK, OnceBarrier
  <2>8. CASE IsLastArrival(start)
    <3>1. start'.generation_id = 1 /\ start'.count = 0
      BY <2>4, <2>6, <2>8 DEF Arrived
    <3>2. Cardinality(cores_arrived') = Cardinality(Cores)
      BY <2>1, <2>3, <2>4, <2>5, <2>7, <2>8, CoresCardinality DEF IsLastArrival
    <3>3. cores_arrived' = Cores
      BY <2>5, <3>2, CoresCardinality
    <3> QED
      BY <3>1, <3>3 DEF BarrierInv
  <2>9. CASE ~IsLastArrival(start)
    <3>1. /\ start'.generation_id = 0 /\ start'.count = start.count + 1
          /\ start'.num_threads = start.num_threads
      BY <2>4, <2>6, <2>9 DEF Arrived
    <3>2. cores_released' = {}
      BY <1>5, <2>4, <2>9 DEF Arrive, TypeOK, cores_released, Released
    <3>3. \A d \in Cores : pc'[d] = "wait" => local_gen'[d] = 0
      BY <1>5, <2>4, <2>9 DEF Arrive, TypeOK
    <3>4. start'.count = Cardinality(cores_arrived') /\ start'.count < start'.num_threads
      BY <2>3, <2>4, <2>7, <2>9, <3>1 DEF IsLastArrival
    <3> QED
      BY <3>1, <3>2, <3>3, <3>4 DEF BarrierInv
  <2> QED
    BY <2>8, <2>9
<1>6. CASE Leave(c)
  <2>1. start.once = "Complete" /\ pc[c] = "wait"
    BY <1>6 DEF Leave, OnceInv, AfterOnce, BeforeOnce, Labels
  <2>2. start.generation_id = 1 /\ start.count = 0 /\ cores_arrived = Cores
    BY <1>6, <2>1 DEF Leave, MayLeave, BarrierInv, TypeOK, OnceBarrier
  <2>3. cores_arrived' = Cores
    BY <1>6, <2>2 DEF Leave, TypeOK, cores_arrived, Released
  <2> QED
    BY <1>6, <2>2, <2>3 DEF Leave, BarrierInv
<1>7. CASE Banner(c)
  <2>1. /\ UNCHANGED <<start, local_gen, cores_arrived, cores_released>>
        /\ \A d \in Cores : pc'[d] = "wait" => pc[d] = "wait"
    BY <1>7 DEF Banner, TypeOK, cores_arrived, cores_released, Released
  <2> QED
    BY <2>1, <1>a
<1> QED
  BY <1>1, <1>2, <1>3, <1>4, <1>5, <1>6, <1>7, RunSteps

LEMMA EntryCountInt == ASSUME TypeOK PROVE EntryCount(bootboot) \in Int
BY BootInfoAssumption DEF TypeOK, EntryCount

LEMMA HeapStep ==
  ASSUME NEW c \in Cores, OneBootstrap, TypeOK, HeapInv, Run(c)
  PROVE  HeapInv'
<1> USE DEF Goto, environment, Bootstrapping, BeforeHeap, Initialized, Labels
<1>1. PICK b \in Cores : \A d \in Cores : is_bootstrap_core(d) <=> d = b
  BY DEF OneBootstrap
<1> DEFINE HeapAt(l, n, h) ==
      /\ l \in BeforeHeap => h = {}
      /\ l = "add_to_heap" =>
           /\ n \in 1 .. EntryCount(bootboot)
           /\ h = {i \in 1 .. n - 1 : Usable(bootboot.mmap[i])}
      /\ l \in {"serial_init", "free_memory"} \cup Initialized =>
           h = UsableEntries(bootboot)
<1>2. /\ \A d \in Cores : pc[d] \in Bootstrapping => d = b
      /\ HeapAt(pc[b], next_entry[b], heap)
  BY <1>1 DEF HeapInv
<1>3. ASSUME UNCHANGED bootboot,
             \A d \in Cores : pc'[d] \in Bootstrapping => d = b,
             HeapAt(pc'[b], next_entry'[b], heap')
      PROVE  HeapInv'
  <2>1. \A d \in Cores : is_bootstrap_core(d)' <=> d = b
    BY <1>1 DEF is_bootstrap_core
  <2>2. EntryCount(bootboot)' = EntryCount(bootboot)
        /\ UsableEntries(bootboot)' = UsableEntries(bootboot)
    BY <1>3 DEF EntryCount, UsableEntries
  <2>3. \A d \in Cores : pc'[d] \in Bootstrapping => is_bootstrap_core(d)'
    BY <1>3, <2>1
  <2>4. (\A d \in Cores : is_bootstrap_core(d) =>
          /\ pc[d] \in BeforeHeap => heap = {}
          /\ pc[d] = "add_to_heap" =>
               /\ next_entry[d] \in 1 .. EntryCount(bootboot)
               /\ heap = {i \in 1 .. next_entry[d] - 1 : Usable(bootboot.mmap[i])}
          /\ pc[d] \in {"serial_init", "free_memory"} \cup Initialized =>
               heap = UsableEntries(bootboot))'
    BY <1>3, <2>1, <2>2
  <2> QED
    BY <2>3, <2>4 DEF HeapInv
<1>4. UNCHANGED bootboot
  BY Zenon DEF Run, BootstrapInit, NumCores, ClaimOnce, NewBarrier, FindOnce, ReadApicId,
         PortInit, MemoryMappings, MemoryMappingsPanics, AddToHeap, AddToHeapPanics,
         HeapReady, SerialInit, FreeMemory, Arrive, Leave, Banner, Panic
<1>5. EntryCount(bootboot) \in Int
  BY EntryCountInt
<1> HIDE DEF HeapAt
<1>6. CASE BootstrapInit(c)
  <2>1. c = b
    BY <1>2, <1>6, ZenonT(60) DEF BootstrapInit, PortInit, MemoryMappings, MemoryMappingsPanics,
         AddToHeap, AddToHeapPanics, HeapReady, SerialInit, FreeMemory
  <2>2. \A d \in Cores : pc'[d] \in Bootstrapping => d = b
    BY <1>2, <1>6, <2>1, ZenonT(60) DEF BootstrapInit, PortInit, MemoryMappings,
         MemoryMappingsPanics, AddToHeap, AddToHeapPanics, HeapReady, SerialInit,
         FreeMemory, TypeOK
  <2>3. HeapAt(pc'[b], next_entry'[b], heap')
    <3>1. CASE PortInit(c)
      BY <1>2, <2>1, <3>1 DEF PortInit, TypeOK, HeapAt
    <3>2. CASE MemoryMappings(c)
      <4>1. EntryCount(bootboot) >= 0
        BY <3>2, BootInfoAssumption DEF MemoryMappings, MappingsPanic, EntryCount, TypeOK
      <4>2. /\ pc'[b] = "add_to_heap" /\ next_entry'[b] = 1 /\ heap' = {}
            /\ EntryCount(bootboot) # 0
        BY <1>2, <2>1, <3>2 DEF MemoryMappings, TypeOK, HeapAt
      <4>3. 1 \in 1 .. EntryCount(bootboot)
        BY <1>5, <4>1, <4>2
      <4>4. {i \in 1 .. 1 - 1 : Usable(bootboot.mmap[i])} = {}
        OBVIOUS
      <4> QED
        BY <4>2, <4>3, <4>4 DEF HeapAt
    <3>3. CASE MemoryMappingsPanics(c)
      BY <2>1, <3>3 DEF MemoryMappingsPanics, TypeOK, HeapAt
    <3>4. CASE AddToHeap(c)
      <4> DEFINE n == next_entry[b]
      <4>1. /\ n \in 1 .. EntryCount(bootboot)
            /\ heap = {i \in 1 .. n - 1 : Usable(bootboot.mmap[i])}
            /\ n < EntryCount(bootboot)
            /\ pc'[b] = "add_to_heap"
            /\ next_entry'[b] = n + 1
        BY <1>2, <2>1, <3>4 DEF AddToHeap, TypeOK, HeapAt
      <4>2. heap' = IF Usable(bootboot.mmap[n]) THEN heap \cup {n} ELSE heap
        BY <2>1, <3>4 DEF AddToHeap
      <4> HIDE DEF n
      <4>3. 1 .. (n + 1) - 1 = (1 .. n - 1) \cup {n}
        BY <1>5, <4>1
      <4>4. heap' = {i \in 1 .. (n + 1) - 1 : Usable(bootboot.mmap[i])}
        BY <4>1, <4>2, <4>3
      <4>5. n + 1 \in 1 .. EntryCount(bootboot)
        BY <1>5, <4>1
      <4> QED
        BY <4>1, <4>4, <4>5 DEF HeapAt
    <3>5. CASE AddToHeapPanics(c)
      BY <2>1, <3>5 DEF AddToHeapPanics, TypeOK, HeapAt
    <3>6. CASE HeapReady(c)
      <4>1. next_entry[b] = EntryCount(bootboot)
        BY <1>2, <1>5, <2>1, <3>6 DEF HeapReady, TypeOK, HeapAt
      <4> QED
        BY <1>2, <2>1, <3>6, <4>1 DEF HeapReady, TypeOK, HeapAt, UsableEntries
    <3>7. CASE SerialInit(c)
      BY <1>2, <2>1, <3>7 DEF SerialInit, TypeOK, HeapAt
    <3>8. CASE FreeMemory(c)
      BY <1>2, <2>1, <3>8, ZenonT(60) DEF FreeMemory, TypeOK, HeapAt
    <3> QED
      BY <1>6, <3>1, <3>2, <3>3, <3>4, <3>5, <3>6, <3>7, <3>8 DEF BootstrapInit
  <2> QED
    BY <1>3, <1>4, <2>2, <2>3
<1>7. CASE ~BootstrapInit(c)
  <2>1. UNCHANGED <<heap, next_entry>>
    BY <1>7 DEF Run, NumCores, ClaimOnce, NewBarrier, FindOnce, ReadApicId,
         Arrive, Leave, Banner, Panic
  <2>2. \A d \in Cores : pc'[d] \in Bootstrapping => d = b
    BY <1>1, <1>2, <1>7 DEF Run, NumCores, ClaimOnce, NewBarrier, FindOnce, ReadApicId,
         Arrive, Leave, Banner, Panic, TypeOK
  <2>3. HeapAt(pc'[b], next_entry[b], heap)
    <3>1. CASE ReadApicId(c)
      BY <1>1, <1>2, <3>1, SMTT(40) DEF ReadApicId, TypeOK, HeapAt
    <3>2. CASE ~ReadApicId(c)
      BY <1>2, <1>7, <3>2 DEF Run, NumCores, ClaimOnce, NewBarrier, FindOnce,
           Arrive, Leave, Banner, Panic, TypeOK, HeapAt
    <3> QED
      BY <3>1, <3>2
  <2> QED
    BY <1>3, <1>4, <2>1, <2>2, <2>3
<1> QED
  BY <1>6, <1>7

LEMMA PanicStep ==
  ASSUME NEW c \in Cores, TypeOK, HeapInv, PanicInv, Run(c)
  PROVE  PanicInv'
<1> USE DEF Goto, environment, PanicInv, CpuidComplete, TypeOK, Labels
<1>1. \A d \in Cores : is_bootstrap_core(d)' <=> is_bootstrap_core(d)
  BY DEF is_bootstrap_core
<1>2. CASE BootstrapInit(c)
  <2>1. is_bootstrap_core(c)
    BY <1>2, ZenonT(60) DEF HeapInv, Bootstrapping, BootstrapInit, PortInit, MemoryMappings,
         MemoryMappingsPanics, AddToHeap, AddToHeapPanics, HeapReady, SerialInit,
         FreeMemory
  <2> QED
    BY <1>1, <1>2, <2>1, ZenonT(60) DEF BootstrapInit, PortInit, MemoryMappings,
         MemoryMappingsPanics, AddToHeap, AddToHeapPanics, HeapReady, SerialInit,
         FreeMemory
<1>3. CASE ~BootstrapInit(c)
  BY <1>1, <1>3, SMTT(40) DEF Run, NumCores, ClaimOnce, NewBarrier, FindOnce, ReadApicId,
       Arrive, Leave, Banner, Panic
<1> QED
  BY <1>2, <1>3

LEMMA RangeStep ==
  ASSUME NEW c \in Cores, TypeOK, HeapInv, RangeInv, Run(c)
  PROVE  RangeInv'
<1> USE DEF Goto, environment, TypeOK, AfterMappings, Initialized, Labels
<1>1. \A d \in Cores : is_bootstrap_core(d)' <=> is_bootstrap_core(d)
  BY DEF is_bootstrap_core
<1>2. UNCHANGED bootboot
  BY ZenonT(60) DEF Run, BootstrapInit, NumCores, ClaimOnce, NewBarrier, FindOnce, ReadApicId,
         PortInit, MemoryMappings, MemoryMappingsPanics, AddToHeap, AddToHeapPanics,
         HeapReady, SerialInit, FreeMemory, Arrive, Leave, Banner, Panic
<1>3. /\ MappingsPanic(bootboot)' <=> MappingsPanic(bootboot)
      /\ EntryCount(bootboot)' = EntryCount(bootboot)
      /\ \A i : AddPanics(bootboot.mmap[i])' <=> AddPanics(bootboot.mmap[i])
  BY <1>2 DEF MappingsPanic, EntryCount, AddPanics
<1>4. \A i \in heap' : ~AddPanics(bootboot.mmap[i])
  <2>1. CASE AddToHeap(c)
    <3> DEFINE n == next_entry[c]
    <3>1. CASE Usable(bootboot.mmap[n])
      <4>1. heap' = heap \cup {n} /\ ~AddPanics(bootboot.mmap[n])
        BY <2>1, <3>1 DEF AddToHeap, RangePanics
      <4> QED
        BY <4>1 DEF RangeInv
    <3>2. CASE ~Usable(bootboot.mmap[n])
      BY <2>1, <3>2 DEF AddToHeap, RangeInv
    <3> QED
      BY <3>1, <3>2
  <2>2. CASE ~AddToHeap(c)
    <3>1. UNCHANGED heap
      BY <2>2, ZenonT(60) DEF Run, BootstrapInit, NumCores, ClaimOnce, NewBarrier, FindOnce,
           ReadApicId, PortInit, MemoryMappings, MemoryMappingsPanics, AddToHeapPanics,
           HeapReady, SerialInit, FreeMemory, Arrive, Leave, Banner, Panic
    <3> QED
      BY <3>1 DEF RangeInv
  <2> QED
    BY <2>1, <2>2
<1>5. ASSUME NEW d \in Cores, is_bootstrap_core(d), pc'[d] \in AfterMappings
      PROVE  ~MappingsPanic(bootboot) /\ EntryCount(bootboot) # 0
  <2>1. CASE pc[d] \in AfterMappings
    BY <1>5, <2>1 DEF RangeInv
  <2>2. CASE pc[d] \notin AfterMappings
    <3>1. d = c
      BY <1>5, <2>2, ZenonT(60) DEF Run, BootstrapInit, NumCores, ClaimOnce, NewBarrier, FindOnce,
           ReadApicId, PortInit, MemoryMappings, MemoryMappingsPanics, AddToHeap,
           AddToHeapPanics, HeapReady, SerialInit, FreeMemory, Arrive, Leave, Banner, Panic
    <3>2. ~ReadApicId(c)
      BY <1>5, <3>1, SMTT(40) DEF ReadApicId
    <3>3. MemoryMappings(c)
      BY <1>5, <2>2, <3>1, <3>2, ZenonT(60) DEF Run, BootstrapInit, NumCores, ClaimOnce, NewBarrier,
           FindOnce, PortInit, MemoryMappingsPanics, AddToHeap, AddToHeapPanics,
           HeapReady, SerialInit, FreeMemory, Arrive, Leave, Banner, Panic
    <3> QED
      BY <3>3 DEF MemoryMappings
  <2> QED
    BY <2>1, <2>2
<1> QED
  BY <1>1, <1>3, <1>4, <1>5 DEF RangeInv

LEMMA AppendFirst == ASSUME NEW x PROVE Append(<<>>, x) = <<x>>
OBVIOUS

LEMMA EqualSequences ==
  ASSUME NEW S, NEW s \in Seq(S), NEW t \in Seq(S),
         Len(s) = Len(t), \A i \in 1 .. Len(s) : s[i] = t[i]
  PROVE  s = t
OBVIOUS

LEMMA AppendSecond ==
  ASSUME NEW S, NEW x \in S, NEW y \in S
  PROVE  Append(<<x>>, y) = <<x, y>>
<1>1. <<x>> \in Seq(S)
  OBVIOUS
<1>2. Append(<<x>>, y) \in Seq(S) /\ Len(Append(<<x>>, y)) = 2
  BY <1>1
<1>3. <<x, y>> \in Seq(S) /\ Len(<<x, y>>) = 2
  OBVIOUS
<1>4. \A i \in 1 .. 2 : Append(<<x>>, y)[i] = <<x, y>>[i]
  BY <1>1
<1> QED
  BY <1>2, <1>3, <1>4, EqualSequences, Zenon

LEMMA ConsoleStep ==
  ASSUME NEW c \in Cores, OneBootstrap, TypeOK, HeapInv, PanicInv, ConsoleInv, Run(c)
  PROVE  ConsoleInv'
<1> USE DEF Goto, environment, TypeOK, BeforeFreeMemory, BeforeHeap, Labels
<1>1. PICK b \in Cores : \A d \in Cores : is_bootstrap_core(d) <=> d = b
  BY DEF OneBootstrap
<1>2. SUFFICES ASSUME CpuidComplete'
      PROVE  /\ pc'[b] \in BeforeFreeMemory => console' = <<>>
             /\ pc'[b] \in {"arrive", "wait", "banner"} => console' = <<"Free memory">>
             /\ pc'[b] = "loop" =>
                  console' = IF quiet THEN <<"Free memory">> ELSE <<"Free memory", "ParaOS">>
             /\ pc'[b] = "panicked" => console' = <<"panic">>
  <2>1. \A d \in Cores : is_bootstrap_core(d)' <=> d = b
    BY <1>1, ZenonT(60) DEF is_bootstrap_core
  <2> QED
    BY <1>2, <2>1, ZenonT(60) DEF ConsoleInv
<1>3. CpuidComplete
  BY <1>2, ZenonT(60) DEF CpuidComplete, Run, BootstrapInit, NumCores, ClaimOnce, NewBarrier,
       FindOnce, ReadApicId, PortInit, MemoryMappings, MemoryMappingsPanics, AddToHeap,
       AddToHeapPanics, HeapReady, SerialInit, FreeMemory, Arrive, Leave, Banner, Panic
<1>4. /\ pc[b] \in BeforeFreeMemory => console = <<>>
      /\ pc[b] \in {"arrive", "wait", "banner"} => console = <<"Free memory">>
      /\ pc[b] = "loop" =>
           console = IF quiet THEN <<"Free memory">> ELSE <<"Free memory", "ParaOS">>
      /\ pc[b] = "panicked" => console = <<"panic">>
  BY <1>1, <1>3, ZenonT(60) DEF ConsoleInv
<1>5. CASE FreeMemory(c)
  <2>1. c = b
    BY <1>1, <1>5, ZenonT(60) DEF FreeMemory, HeapInv, Bootstrapping
  <2>2. pc'[b] = "arrive" /\ console = <<>> /\ console' = Append(console, "Free memory")
    BY <1>4, <1>5, <2>1, ZenonT(60) DEF FreeMemory, Write
  <2>3. console' = <<"Free memory">>
    BY <2>2, AppendFirst, ZenonT(60)
  <2> QED
    BY <2>2, <2>3, ZenonT(60)
<1>6. CASE Panic(c)
  <2>1. c = b
    BY <1>1, <1>3, <1>6 DEF Panic, PanicInv
  <2> QED
    BY <1>4, <1>6, <2>1 DEF Panic, Write
<1>7. CASE Banner(c)
  <2>1. CASE c = b
    <3>1. pc'[b] = "loop" /\ console = <<"Free memory">>
      BY <1>4, <1>7, <2>1, ZenonT(60) DEF Banner
    <3>2. console' = IF quiet THEN console ELSE Append(console, "ParaOS")
      BY <1>1, <1>7, <2>1 DEF Banner, Write
    <3>3. console' = IF quiet THEN <<"Free memory">> ELSE <<"Free memory", "ParaOS">>
      <4>1. Append(<<"Free memory">>, "ParaOS") = <<"Free memory", "ParaOS">>
        <5>1. "Free memory" \in Messages /\ "ParaOS" \in Messages
          BY Zenon DEF Messages
        <5> QED
          BY <5>1, AppendSecond, Zenon
      <4> QED
        BY <3>1, <3>2, <4>1, Zenon
    <3> QED
      BY <3>1, <3>3, ZenonT(60)
  <2>2. CASE c # b
    BY <1>1, <1>4, <1>7, <2>2, ZenonT(60) DEF Banner
  <2> QED
    BY <2>1, <2>2, ZenonT(60)
<1>8. CASE ReadApicId(c)
  BY <1>1, <1>3, <1>4, <1>8, ZenonT(60) DEF ReadApicId, CpuidComplete
<1>9. CASE ~(FreeMemory(c) \/ Panic(c) \/ Banner(c) \/ ReadApicId(c))
  BY <1>4, <1>9, ZenonT(60) DEF Run, BootstrapInit, NumCores, ClaimOnce, NewBarrier, FindOnce,
       PortInit, MemoryMappings, MemoryMappingsPanics, AddToHeap, AddToHeapPanics,
       HeapReady, SerialInit, Arrive, Leave
<1> QED
  BY <1>5, <1>6, <1>7, <1>8, <1>9, Zenon

LEMMA StepInv ==
  ASSUME OneBootstrap, OnePackage
  PROVE  IInv /\ [Next]_vars => IInv'
<1> SUFFICES ASSUME IInv, [Next]_vars PROVE IInv'
  OBVIOUS
<1>1. CASE UNCHANGED vars
  <2> USE <1>1 DEF vars, IInv, is_bootstrap_core, CpuidComplete
  <2>1. TypeOK' /\ OnceInv' /\ BarrierInv' /\ HeapInv' /\ PanicInv'
    BY SMTT(40) DEF TypeOK, OnceInv, BarrierInv, HeapInv, PanicInv, cores_arrived, cores_released
  <2>2. RangeInv'
    BY ZenonT(60) DEF RangeInv, AddPanics, MappingsPanic, EntryCount
  <2>3. ConsoleInv'
    BY Zenon DEF ConsoleInv
  <2> QED
    BY <2>1, <2>2, <2>3, SMTT(40)
<1>2. CASE Next
  <2>1. PICK c \in Cores : Run(c)
    BY <1>2 DEF Next
  <2>2. TypeOK'
    BY StepTypeOK DEF IInv
  <2> QED
    BY <2>1, <2>2, OnceStep, BarrierStep, HeapStep, PanicStep, RangeStep, ConsoleStep DEF IInv
<1> QED
  BY <1>1, <1>2

(* The inductive invariant holds in every state of the start-up of a       *)
(* machine with one package and one bootstrap core (kernel.rs:55-77).      *)
THEOREM Invariance ==
  ASSUME OneBootstrap, OnePackage
  PROVE  Spec => []IInv
<1>1. Init => IInv
  BY InitInv
<1>2. IInv /\ [Next]_vars => IInv'
  BY StepInv
<1> QED
  BY <1>1, <1>2, PTL DEF Spec

-----------------------------------------------------------------------------
LEMMA ReleasedMeansAllArrived ==
  ASSUME IInv, cores_released # {}
  PROVE  cores_arrived = Cores
<1>1. start.once = "Complete"
  BY DEF IInv, OnceInv, AfterOnce, BeforeOnce, Labels, cores_released, Released
<1> QED
  BY <1>1 DEF IInv, BarrierInv

(* No core leaves the barrier of kernel.rs:69 before every core has        *)
(* reached it, for every number of cores.                                  *)
THEOREM RendezvousComplete ==
  ASSUME OneBootstrap, OnePackage
  PROVE  Spec => []AllArriveFirst
<1>1. IInv => AllArriveFirst
  BY ReleasedMeansAllArrived DEF AllArriveFirst
<1> QED
  BY <1>1, Invariance, PTL

(* Past kernel.rs:69 the heap holds exactly the usable memory mappings,    *)
(* none of which add_to_heap panics on, for every number of cores and      *)
(* every boot information.                                                 *)
THEOREM InitialisedWhenReleased ==
  ASSUME OneBootstrap, OnePackage
  PROVE  Spec => []InitBeforeRelease
<1>1. IInv => InitBeforeRelease
  <2> SUFFICES ASSUME IInv, cores_released # {}
               PROVE  heap = UsableEntries(bootboot) /\ ~BootPanics(bootboot)
    BY DEF InitBeforeRelease
  <2>1. PICK b \in Cores : is_bootstrap_core(b)
    BY DEF OneBootstrap
  <2>2. b \in cores_arrived
    BY ReleasedMeansAllArrived
  <2>3. heap = UsableEntries(bootboot)
    BY <2>1, <2>2 DEF IInv, HeapInv, Initialized, cores_arrived, Released
  <2>4. ~MappingsPanic(bootboot) /\ EntryCount(bootboot) # 0
    BY <2>1, <2>2 DEF IInv, RangeInv, AfterMappings, Initialized, cores_arrived, Released
  <2> QED
    BY <2>3, <2>4 DEF IInv, RangeInv, BootPanics
<1> QED
  BY <1>1, Invariance, PTL

(* No two cores use COM1 at the same time although its mutex protects      *)
(* nothing (serial.rs:37): every use is the bootstrap core's.              *)
THEOREM SerialIsExclusive ==
  ASSUME OneBootstrap, OnePackage
  PROVE  Spec => []SerialExclusive
<1>1. IInv => SerialExclusive
  <2> SUFFICES ASSUME IInv, CpuidComplete, NEW c \in Cores, NEW d \in Cores,
                      UsingSerial(c), UsingSerial(d)
               PROVE  c = d
    BY DEF SerialExclusive
  <2>1. is_bootstrap_core(c) /\ is_bootstrap_core(d)
    BY DEF IInv, HeapInv, PanicInv, UsingSerial, Bootstrapping
  <2> QED
    BY <2>1 DEF OneBootstrap
<1> QED
  BY <1>1, Invariance, PTL

(* The console shows the size of the heap before the banner, each once, or *)
(* a single panic, for every number of cores (main.rs:47-54, kernel.rs:73, *)
(* panic.rs).                                                              *)
THEOREM ConsoleIsInOrder ==
  ASSUME OneBootstrap, OnePackage
  PROVE  Spec => []ConsoleLog
<1>1. IInv => ConsoleLog
  <2> SUFFICES ASSUME IInv, CpuidComplete
               PROVE  console \in {<<>>, <<"Free memory">>, <<"panic">>}
                                  \cup (IF quiet THEN {} ELSE {<<"Free memory", "ParaOS">>})
    BY Zenon DEF ConsoleLog
  <2>1. PICK b \in Cores : is_bootstrap_core(b)
    BY DEF OneBootstrap
  <2>2. pc[b] \in BeforeFreeMemory \cup {"arrive", "wait", "banner", "loop", "panicked"}
    BY DEF IInv, TypeOK, Labels, BeforeFreeMemory, BeforeHeap
  <2> QED
    BY <2>1, <2>2, Zenon DEF IInv, ConsoleInv
<1> QED
  BY <1>1, Invariance, PTL

-----------------------------------------------------------------------------
InitEnded == \E c \in Cores : is_bootstrap_core(c) /\ pc[c] \in Initialized

LEMMA RendezvousStep ==
  ASSUME OneBootstrap, OnePackage, IInv, IInv', [Next]_vars
  PROVE  [R!Next]_(R!vars)
<1> USE DEF Goto, environment, Released, Initialized, Labels
<1> DEFINE boot == CHOOSE b \in Cores : is_bootstrap_core(b)
<1>1. boot \in Cores /\ \A d \in Cores : is_bootstrap_core(d) <=> d = boot
  BY DEF OneBootstrap
<1>2. \A d \in Cores : is_bootstrap_core(d)' <=> is_bootstrap_core(d)
  BY DEF is_bootstrap_core
<1>3. InitEnded <=> pc[boot] \in Initialized
  BY <1>1, Zenon DEF InitEnded
<1>4. InitEnded' <=> pc'[boot] \in Initialized
  BY <1>1, <1>2, ZenonT(60) DEF InitEnded
<1>5. TypeOK
  BY DEF IInv
<1> HIDE DEF boot
<1>6. ASSUME InitEnded' <=> InitEnded, cores_arrived' = cores_arrived,
             cores_released' = cores_released
      PROVE  [R!Next]_(R!vars)
  <2>1. InitEnded' = InitEnded
    BY <1>6 DEF InitEnded
  <2> QED
    BY <1>6, <2>1 DEF R!vars, InitEnded
<1>7. CASE UNCHANGED vars
  <2>1. InitEnded' <=> InitEnded
    BY <1>2, <1>7 DEF vars, InitEnded
  <2>2. cores_arrived' = cores_arrived /\ cores_released' = cores_released
    BY <1>7 DEF vars, cores_arrived, cores_released
  <2> QED
    BY <1>6, <2>1, <2>2
<1>8. ASSUME NEW c \in Cores, Run(c) PROVE [R!Next]_(R!vars)
  <2>1. CASE FreeMemory(c)
    <3>1. c = boot
      BY <1>1, <2>1, ZenonT(60) DEF FreeMemory, IInv, HeapInv, Bootstrapping
    <3>2. ~InitEnded /\ InitEnded'
      BY <1>3, <1>4, <1>5, <2>1, <3>1, ZenonT(60) DEF FreeMemory, TypeOK
    <3>3. cores_arrived' = cores_arrived /\ cores_released' = cores_released
      BY <1>5, <2>1, ZenonT(60) DEF FreeMemory, TypeOK, cores_arrived, cores_released
    <3>4. boot \notin cores_arrived
      BY <2>1, <3>1, ZenonT(60) DEF FreeMemory, cores_arrived
    <3>5. R!Initialize
      BY <3>2, <3>3, <3>4 DEF R!Initialize, InitEnded, boot
    <3> QED
      BY <3>5 DEF R!Next
  <2>2. CASE Arrive(c)
    <3>1. /\ cores_arrived' = cores_arrived \cup {c} /\ c \notin cores_arrived
          /\ (InitEnded' <=> InitEnded)
          /\ c = boot => InitEnded
      BY <1>1, <1>3, <1>4, <1>5, <2>2, SMTT(40) DEF Arrive, TypeOK, cores_arrived
    <3>2. start.once = "Complete" /\ start'.once = "Complete"
      BY <2>2 DEF Arrive, Arrived, IInv, OnceInv, AfterOnce, BeforeOnce
    <3>3. start.generation_id = 0 /\ start.count \in Nat
      BY <3>1, <3>2, <1>5 DEF IInv, BarrierInv, TypeOK, OnceBarrier
    <3>4. CASE IsLastArrival(start)
      <4>1. start'.generation_id = 1
        BY <2>2, <3>3, <3>4 DEF Arrive, Arrived
      <4>2. cores_arrived' = Cores
        BY <3>2, <4>1 DEF IInv, BarrierInv
      <4>3. cores_released' = cores_released \cup {c}
        BY <1>5, <2>2, <3>4 DEF Arrive, TypeOK, cores_released
      <4>4. R!Arrive(c)
        BY <3>1, <4>2, <4>3 DEF R!Arrive, InitEnded, boot
      <4> QED
        BY <4>4 DEF R!Next
    <3>5. CASE ~IsLastArrival(start)
      <4>1. start'.generation_id = 0
        BY <2>2, <3>3, <3>5 DEF Arrive, Arrived
      <4>2. Cardinality(cores_arrived') < Cardinality(Cores)
        BY <3>2, <4>1 DEF IInv, BarrierInv, OnceInv
      <4>3. cores_arrived' # Cores
        BY <4>2, CoresPositive
      <4>4. cores_released' = cores_released
        BY <1>5, <2>2, <3>5 DEF Arrive, TypeOK, cores_released
      <4>5. R!Arrive(c)
        BY <3>1, <4>3, <4>4 DEF R!Arrive, InitEnded, boot
      <4> QED
        BY <4>5 DEF R!Next
    <3> QED
      BY <3>4, <3>5
  <2>3. CASE Leave(c)
    <3>1. start.once = "Complete" /\ pc[c] = "wait"
      BY <2>3 DEF Leave, IInv, OnceInv, AfterOnce, BeforeOnce
    <3>2. cores_arrived = Cores
      BY <1>5, <2>3, <3>1 DEF Leave, MayLeave, IInv, BarrierInv, TypeOK, OnceBarrier
    <3>3. /\ cores_arrived' = cores_arrived
          /\ cores_released' = cores_released \cup {c} /\ c \notin cores_released
          /\ (InitEnded' <=> InitEnded)
      BY <1>3, <1>4, <1>5, <2>3 DEF Leave, TypeOK, cores_arrived, cores_released
    <3>4. R!Release(c)
      BY <3>2, <3>3 DEF R!Release, InitEnded
    <3> QED
      BY <3>4 DEF R!Next
  <2>4. CASE ReadApicId(c)
    <3>1. InitEnded' <=> InitEnded
      BY <1>1, <1>3, <1>4, <1>5, <2>4 DEF ReadApicId, TypeOK
    <3>2. cores_arrived' = cores_arrived /\ cores_released' = cores_released
      BY <1>5, <2>4, SMTT(40) DEF ReadApicId, TypeOK, cores_arrived, cores_released
    <3> QED
      BY <1>6, <3>1, <3>2
  <2>5. CASE ~(FreeMemory(c) \/ Arrive(c) \/ Leave(c) \/ ReadApicId(c))
    <3>1. \E l \in Labels :
            /\ Goto(c, l)
            /\ l \in Initialized <=> pc[c] \in Initialized
            /\ l \in Released <=> pc[c] \in Released
            /\ l = "wait" <=> pc[c] = "wait"
      <4>1. CASE AddToHeap(c)
        <5>1. Goto(c, "add_to_heap")
          BY <1>5, <4>1 DEF AddToHeap, TypeOK
        <5> QED
          BY <4>1, <5>1, ZenonT(60) DEF AddToHeap
      <4>2. CASE ~AddToHeap(c)
        BY <1>8, <2>5, <4>2 DEF Run, BootstrapInit, NumCores, ClaimOnce, NewBarrier,
             FindOnce, PortInit, MemoryMappings, MemoryMappingsPanics,
             AddToHeapPanics, HeapReady, SerialInit, Banner, Panic
      <4> QED
        BY <4>1, <4>2, SMTT(40)
    <3>2. InitEnded' <=> InitEnded
      BY <1>1, <1>3, <1>4, <1>5, <3>1 DEF TypeOK
    <3>3. cores_arrived' = cores_arrived /\ cores_released' = cores_released
      BY <1>5, <3>1 DEF TypeOK, cores_arrived, cores_released
    <3> QED
      BY <1>6, <3>2, <3>3
  <2> QED
    BY <2>1, <2>2, <2>3, <2>4, <2>5
<1> QED
  BY <1>7, <1>8 DEF Next

(* Kernel::run implements the abstract rendezvous for every number of      *)
(* cores: the steps of the start-up are steps of Rendezvous or stuttering. *)
THEOREM StartupImplementsRendezvous ==
  ASSUME OneBootstrap, OnePackage
  PROVE  Spec => ImplementsRendezvous
<1>1. Init => R!Init
  BY DEF Init, R!Init, cores_arrived, cores_released, Released, Initialized
<1>2. IInv /\ IInv' /\ [Next]_vars => [R!Next]_(R!vars)
  BY RendezvousStep
<1> QED
  BY <1>1, <1>2, Invariance, PTL DEF Spec, ImplementsRendezvous, R!Spec

=============================================================================
