# ParaOS: TLA+ specifications and proofs

ParaOS is a small kernel for x86-64 (`paraos/`) and a compiler from WebAssembly
to x86-64 (`parawasm/`, tested by `parawasm_tests/`). The two do not call each
other yet. This directory holds specifications of both, the TLC configurations
that check them on small instances, and TLAPS proofs of the properties that
matter most for every size. `PROJECT.json` maps every definition to the lines it
models and lists the runs, the hazards, the findings and the theorems.

Check a run with `tlc -config MCKernel.cfg MCKernel`, a proof with
`tlapm KernelProofs.tla`.

## 1. The system

| Part | Source | State and concurrency | Modelled in |
|---|---|---|---|
| Start-up | `kernel.rs`, `main.rs`, `platform.rs` | every core enters `_start`; a shared `Once<Barrier>`; one core initialises | `Kernel`, `Rendezvous`, `SpinBarrier` |
| Boot information, heap | `bootboot.rs`, `main.rs` | memory map of the boot loader, added to a global heap | `Kernel` |
| Panic handlers | `panic.rs`, `test.rs` | print, then loop or end QEMU | `Kernel`, `TestRunner` |
| Serial driver | `serial.rs` | one UART, used by every core; a mutex whose guard is dropped at once | `Serial` |
| Test harness | `test.rs`, `platform.rs`, `.cargo/runner.sh` | all cores run all tests; two elections on one barrier; an exit port | `TestRunner` |
| Compiler loop, linking | `x86_64/mod.rs` | sequential; payloads, labels, offsets, import slots | `Assembly`, `Compiler` |
| Code generation | `x86_64/mod.rs`, `instructions.rs` | pure: frame, operators, calls | `CodeGen` |
| Optimiser | `x86_64/optimizer.rs` | passes over instructions while labels are shifted | `Optimizer` |
| `dump_asm` | `x86_64/mod.rs` | formats code for a reader | not modelled: changes nothing |
| Emulator of the tests | `parawasm_tests/testing.rs` | modules, a trampoline, hooks and counters over Unicorn | `Emulator` |
| Meaning of the generated code | `mod.rs`, `instructions.rs` | registers and memory against WebAssembly | `Machine`, `WebAssembly`, `Emulator` |
| Build scripts, CI, wiki, IDL | `build.rs`, `bootboot.ld`, ... | configuration and prose | not modelled |

What is hard to test here: the interleavings of cores at the rendezvous, at the
elections and at the UART; panics of one core while others wait; the boundaries
of the memory map and of CPUID fields; label indices that are shifted while they
are compared; offsets computed before an optimisation and used after it; calls
that cross modules, links and hooks of earlier calls. The
list, line by line and with the property that covers each, is in
`PROJECT.json` under `hazards`.

## 2. The modules

`SpinBarrier` has the operations of the `spin` crate that the kernel uses. The
crate is external; its operations are cut at their atomic accesses: the
compare-and-swap of `call_once`, the end of its closure, the critical section in
which a caller of `wait` arrives, and the one in which it sees the next
generation. The operators are pure, so that a specification can hold several
barriers.

`Kernel` is the start-up. `pc[c]` names the call core `c` is about to make, and
there is one action for each call of `Kernel::run` and of the closure of
`_start`, with a second one where the call may panic. `cpuid` (which leaves the
machine has) and `bootboot` (the boot information) are chosen once, in `Init`.
`num_cores` counts the cores of the caller's package, as leaf 0BH does;
`is_bootstrap_core` compares the low 8 bits of the APIC id with `bspid`. A
mapping is an address and a size with the kind of memory in its low four bits.
`AddPanics` says which ranges `add_to_heap` rejects: the sum overflows, no aligned
word is left, or a block would be larger than the allocator has a list for. The
first number that is not an address and the first size without a list are the
constants `AddressEnd` and `BlockEnd` (2^64 and 2^32 in the code).

`Rendezvous` is what the start-up promises: initialise, arrive, be released when
all have arrived. `Kernel!ImplementsRendezvous` maps the program counters to it.

`Serial` is the driver with the UART it drives, one `outb` per step. The mutex is
taken and released before the first `outb`, as the temporary guard of
`self.0.lock();` is. The UART has the divisor behind DLAB, a FIFO of `FifoSize`
characters that drops what does not fit, and the FIFO clear of FCR. Each core makes
the calls of its `program` in order; among them may be one `rendezvous`, the barrier
of `kernel.rs:69`, which a core passes when all that have one left are at it (that
the barrier does this is what `Kernel` is about). The two history variables are
what was sent and what was written.

`TestRunner` is the harness. Phase 0 is the first election, phase `k` test `k`,
the last phase the second election, on the barrier of the first. A test is
`rendezvous` (it runs `Kernel::run`, like the kernel's one test) or `local`.
Which assertions fail on which core is chosen in `Init`. The serial port is
abstracted to the sequence of texts; `Serial` covers what is left out.

`Optimizer` is `optimize`: one step per window of a pass, and indices from 0 as
in the code. `source` is a history variable: where each emitted instruction comes
from.

`CodeGen` has no state: the code of an operator (`handle_instruction`), of a call
and of a whole body (`GenFunction`), or the panic or validation error in its
place, in the order of the code. Types are looked up twice, as the code does, among
the types of functions (`LookupType`); the validator, which is external, uses the
declared type and numbers all types, those of modules and instances too
(`DeclaredType`). `AddLocals` adds a run of locals to the frame before the validator
counts it, as the code does: a run whose bytes do not fit in a `u32` panics, as in a
build with overflow checks (in others the sum wraps and the validator rejects the
run), and one that only exceeds the validator's limit is an error. An instruction is its
`Code` and two operands. The operators that end in `todo!()` are represented by
one operator for each group of them.

`Assembly` has what the steps of `compile` compute, without its state: the
payloads that wasmparser hands out and the order in which its validator accepts
them, the variables of `compile` as a record with one operator for each kind of
payload that changes it, the binding of labels (`BoundCode`), `link_import` and the
lookups in the assembled module. An instruction has one byte, except that `dq` has
eight and `zero_bytes` has none: offsets are compared, never interpreted.

`Compiler` is the loop of `compile`: each section is an action that adds all its
items; then the optimiser, as an instance of `Optimizer` whose steps it takes; then
the binding of labels; then any sequence of `link_import`.

`Machine` is the processor as far as generated code uses it: what one instruction
does to registers, memory and `rip`. A word has eight bytes, as on x86-64, but a
byte has two bits: stores that overlap are told apart, and a word still wraps.

`WebAssembly` says what a function computes, from the declared types and the body
alone, through calls of other functions, other modules and native code. It knows
nothing of registers or frames, and is what compiled code is compared with.

`Emulator` composes `Compiler` and `Machine` with the emulator of
`parawasm_tests`. A test compiles modules and performs any operations of the
emulator in any order: `add_module`, `add_memory`, `link_import` on a module that
is already in memory, `call_function`, `push`, `pop`. A call writes all modules
again, adds a hook that captures the modules of that moment, and starts at the
trampoline; `Step` then runs the hooks and one instruction, until the end of the
trampoline (`Finish`, which removes the hook) or a fetch from memory that is not
mapped (`Fail`, which does not: `?` returns first). An import that is not linked
holds a marker, so that calling it fails. Unicorn is external.

`KernelProofs`, `TestRunnerProofs`, `SerialProofs`, `OptimizerProofs` and
`CompilerProofs` hold the theorems about the specifications. `CompilerProofs` rests
on `CodeTypes` and `CompilerStages` (the types of generated code, and what holds of
the variables of `compile` at each stage), `CodeProofs` (the code of a function, the
binding and the linking), `LayoutProofs` (the layout of the code while payloads are
read) and `FoldInduction` (induction over a loop).
`WasmModules` has the constructors of WebAssembly modules, and the `MC` modules
define the constants of the runs.

## 3. The runs

| Run | Shows |
|---|---|
| `kernel` | three cores, all CPUID answers, memory maps of three entries with sizes below the header, at it, at one entry, at the array's end and past it, and mappings that are taken, not free, at address 0, too short to hold a word, with room for a block that is too large, or reaching past the last address. `InitBeforeRelease`: past the rendezvous the heap is exactly the usable mappings, and the allocator has taken all of them. `AllArriveFirst`. `SerialExclusive`: the branch of `kernel.rs:64` keeps cores apart at the UART, which the mutex does not. `ConsoleLog`. `Settles`: CPUID and the memory map alone decide whether all loop, all panic, or one panics and the rest wait. `ImplementsRendezvous`. |
| `test_runner` | three cores, two tests, up to two failing assertions. `OneLeader` over both generations of the barrier; `SuccessIsSound`; `ReportComplete`; `Verdict`: failure is reported even when cores wait at a barrier forever. |
| `serial` | each program of driver calls alone; `init` on three cores at once; and the harness on two cores, with the second `init` of the test on the leader or on the other core. `Configured`, where no core writes a text while another uses the port. `TextInOrder`, on the same condition: what is legible on the line is the text in order, whatever an `init` garbles or clears. `PolledNotLost`: a character of `write_char` enters the FIFO and stays until it is sent, after `init`s and a text of two cores in any interleaving, because all of them are in front of the barrier. `Drained`. |
| `optimizer` | all codes of up to four instructions over two registers with two labels. `TypeOK` (no label index below zero), `LabelsKeepPlace`, `LabelsStayBehindFixed`, `FixedKept`, `FixedPoint`, `Terminates`. |
| `compiler` | modules of up to three functions and imports. `OptimizerInput`: the generated code meets the assumption of the optimiser's proofs. `EntryPointsExact`, `CallsResolve`, `ExportsResolve`: labels survive optimisation and binding. `OwnStack`, `HeightCovers`, `FrameSlots`: the stack of the optimised code. `PanicsExplained`: a module that uses nothing unsupported panics only in a body for which a type is not found where it is declared. `Finishes`. `LinkedSlots`, `OnlySlotsChange`: any sequence of `link_import`. |
| `emulator` | two modules, one importing from the other, and a native function; up to five operations in any order. `ComputesWasm`: a call returns what WebAssembly says, with the imports as linked last, and fails exactly when it reaches an import that is not linked. `CountsExact`: the instruction counts of all modules over all calls. `StackKept`: `rsp`, `rbp` and what was pushed survive every call. `CallsReturn`. |

Six runs show a disagreement between the code and what its comments, tests or
assertions say (`findings`):

| Run | Shows |
|---|---|
| `kernel_x2apic` | an APIC id of more than 8 bits: no core initialises, all are released |
| `test_runner_two_sockets` | two packages: `num_cores` counts one, two leaders |
| `serial_harness` | a character of one core becomes the divisor in the `init` of another |
| `compiler_types` | a function of type 1 and no function 1: `unwrap` panics |
| `compiler_locals` | the first declared local is where the saved `rbp` is |
| `wasm_operands` | the first of two parameters, the difference of two constants and the first of two results are computed the wrong way round; the repository's test has two of these at once, which cancel |

### Bounds

Three cores are the least for which a core can be early, late and in between at a
barrier; the proofs remove the bound for the start-up and for the elections. Three
mappings reach every
case of the loop (the skipped one, a first and a last). A FIFO of two characters
fills and overflows with the texts used. Four instructions are enough for two
adjacent rewrites and for a rewrite that enables another in the next pass; the
proofs remove this bound. Three functions and imports give calls forwards,
backwards, to itself and to an import; for labels, calls, exports and links the
proofs remove this bound, too. `MaxFails` bounds the failing assertions:
two let one failure overtake another.

`AddressEnd` 128 and `BlockEnd` 32 are small enough for every way in which a range
can be rejected, and keep the alignment of a word (8) below a block.
`MaxOperations` 5 in `emulator` is enough to add both modules, link or relink an
import, and call twice, or call before and after a link, or call after a failed
call; the argument is close to the largest word, so that sums wrap.
`MemorySize` 1024 keeps code and stack apart, as 128 MiB do.

The modules of the run `compiler` that compile are those where the double lookup of
types finds the declared type (`Lookups`), with functions of no, one, and two to six
`i64` parameters, at most two results, and declared locals that no operator uses;
the cases outside are those of the findings and of the hazards with a note. Modules
for which the lookup misses and panics are included (`MisnumberedModules`), as are
those that the validator rejects, that use unsupported operators, that do not encode
or that are cut off. `MaxLocals` 8 and `U32End` 512 (50000 and 2^32 in the code) let
runs of locals meet the validator's limit, exceed it, and overflow the size of the
frame (`LocalsModules`). The run `emulator` keeps to modules of one parameter and one
result at most.

The harness runs on two cores in `serial`: the leader and another one, which is every
role there is; with three cores the run passes too, but takes minutes. The proofs
remove the bound.

### Fairness

A core is a processor that never stops, so each core's steps are weakly fair. A
spinning core re-reads what it spins on, which is a step that becomes enabled and
stays enabled. The UART keeps sending. `compile` and `optimize` are sequential
and run until they return, and so does `emu_start`; nobody has to call
`link_import`, and a test may end anywhere. No lock is assumed
to be fair: the mutex of the port is held for one step and each core makes
finitely many calls.

`CHECK_DEADLOCK FALSE` is set in all runs since all of them end: cores loop, QEMU
exits, functions return. That they end in the right place is what `Settles`,
`Verdict`, `Drained`, `Terminates`, `Finishes` and `CallsReturn` state.

## 4. The proofs

`KernelProofs`, for every finite set of cores and every boot information. Two
assumptions stand in the theorems that need them: `OneBootstrap` (one core has the
APIC id `bspid`) and `OnePackage`. They are what the findings `kernel_x2apic` and
`test_runner_two_sockets` violate.

- `TypeCorrect`, without those assumptions.
- `RendezvousComplete`, `InitialisedWhenReleased`, `SerialIsExclusive`,
  `ConsoleIsInOrder`: the invariants `AllArriveFirst`, `InitBeforeRelease`,
  `SerialExclusive`, `ConsoleLog`.
- `StartupImplementsRendezvous`: each step maps to a step of `Rendezvous` or to
  none.

None of the invariants is inductive. `AllArriveFirst` needs to know that the barrier
counts the cores that wait (`BarrierInv`: first generation, count equal to the
number of cores that arrived; or second generation, and all have), and that it was
made once and for all cores (`OnceInv`). `InitBeforeRelease` needs what the heap
holds at each point of the loop (`HeapInv`) and that no range before that point is
one the allocator rejects (`RangeInv`); it then follows from the bootstrap core
being one of those that arrived. `SerialExclusive` needs that only the bootstrap
core has anything to panic about (`PanicInv`). `ConsoleLog` needs what the console
holds at each point of the bootstrap core (`ConsoleInv`). `IInv` is their
conjunction with `TypeOK`.

`TestRunnerProofs`, for every finite set of cores, every list of tests and every
set of failing assertions:

- `TypeCorrect`, without an assumption on packages.
- `LeaderIsUnique` (`OneLeader`), `SuccessSound` (`SuccessIsSound`) and
  `ReportIsComplete` (`ReportComplete`), on machines with one package
  (`OnePackage`).

The difficulty is that both elections use one barrier. `RoundInv` divides a run
into three rounds. In the first no core is past the first election, and the
barrier counts those that wait in it. In the second the generation is 1, the
barrier counts the cores that wait in the second election, and slow cores may still
be leaving the first one: they see a generation that is not theirs and go.
In the third all cores are in the last phase. A round has its leader exactly when
it has ended. Together with `OnceInv` this gives `LeaderIsUnique`. For
`SuccessSound`, a core that ends QEMU has won the second election, so all cores are
in the last phase, and `PassedInv` says that what a core has behind it has held.
For `ReportIsComplete`, `ReportInv` says how much of the report is written by where
the first leader is, unless some core has panicked; in the third round none has,
and the leader is done.
The invariant was model-checked before it was proved.

`OptimizerProofs`, for every code, every set of labels and any number of passes,
from `OptimizerAssumption` and `InputsAssumption` (a label is at the start or behind an
instruction that no pass touches; the run `compiler` checks that the generated
code is like that, `OptimizerInput`):

- `LabelsSound`: `TypeOK`, `LabelsKeepPlace` and `LabelsAhead`.
- `LabelsStable`: the assumption holds again after each pass.
- `OthersKept`: `FixedKept`.
- `ResultIsFixedPoint`: `FixedPoint`.

The invariant adds where emitted instructions come from (`SourceInv`,
`KeptInv`) and that a pass that has emitted as much as it has consumed has found
nothing to rewrite (`NoMatchInv`), from which the fixed point follows. The lemma
`ShiftLabels` is the heart: consuming `n` instructions and emitting `e` moves the
labels ahead by `n - e`, and no label is between the two instructions of a pair.

`SerialProofs`, for every set of cores, every program of driver calls and every
size of the FIFO:

- `TypeCorrect`.
- `PortConfigured` (`Configured`), if every core calls `init` first (`InitFirst`).
- `TextIsInOrder` (`TextInOrder`); characters are numbered in the order of the texts
  (`Ascending`).
- `PolledIsNotLost` (the action property `PolledNotLost`), if `write_char` is called
  by one core, behind a barrier that all `init`s of all cores are in front of
  (`PollsLate`). Nothing is assumed of what is in front of the barrier: any number of
  cores call `init` and write texts there, in any interleaving.

The first two properties are about programs in which a core that writes is alone
(`Exclusive`).

`RegInv` is the heart of the first: the value of each register after any
interleaving of the `outb`s of any number of `init`s depends only on which cores
have made which of their writes, since all of them write the same values in the
same order and a divisor is behind DLAB. `OrderInv` says that what was sent, what
the FIFO holds and what is still to be written are one increasing sequence.
`PolledIsNotLost` rests on three facts. `MeetInv`: while a core is behind the barrier,
no other one is in a call in front of it. `LatchInv`: DLAB is set only while some core
is between the two writes of `init` that set and clear it, however many `init`s
interleave; so behind the barrier it is clear. `PollInv`: what the poll has seen, an
empty FIFO, is still so at the `outb`, and a polled character is in the FIFO only when
some core is behind the barrier, so that no `init` is left to clear it.
The finding `serial_harness` is what happens to the registers without `Exclusive`;
`MCSerial` evaluates the three assumptions for the programs of the run `serial`
(`KernelProgramsAssumption`).

`CompilerProofs`, for every module in the validator's order (`CompilerAssumption`:
`End` is last, sections are ordered, export names differ, and no more than
`MaxFunctions` functions), every number of optimiser passes and every sequence of
links:

- `TypeCorrect` (`TypeOK`).
- `OptimizerInputMet` (`OptimizerInput`): the assumption of `OptimizerProofs` is
  met, so that its theorems hold of every compilation.
- `CallsResolved` (`CallsResolve`), `ExportsResolved` (`ExportsResolve`),
  `SlotsHoldLinks` (`LinkedSlots`): what is assembled refers to functions and slots
  where they are.
- `LinkWritesSlots` (the action property `OnlySlotsChange`).
- `PanicsAreExplained` (`PanicsExplained`): if `compile` panics on a module that uses
  nothing unsupported, then in a body for which the lookup of a type does not find the
  declared one, of the function or of one that it calls (`BodyTypesFound`). The finding
  `compiler_types` is such a module; the theorem says that there is no other cause, for
  modules of any types, locals and operators. `LocalsAssumption` (the validator's limit
  is far below what a `u32` holds) is why no size overflows.

The properties are about the last stage and say nothing of how it was reached. The
invariant `Inv` does, stage by stage. While payloads are read (`Laid`), labels are in
order, apart from each other and each behind an instruction that no pass touches, and
the slots of imports are in a first part of the code that consists of such
instructions, at the offsets kept for `link_import`; offsets are kept in bytes and
labels as indices, and both are right because this part never changes. During
`optimize` (`Optimizing`) the same holds of the code of the current pass, from
the invariant of `OptimizerProofs` and two additions made for this: passes keep
labels apart (`LabelsStayApart`) and keep a first part that they do not touch
(`PrefixInv`). `Assembled` and `SlotsLinked` then say where functions and slots are in
the binary. That each payload keeps `Stage` is `LayoutProofs!StagesKept`; what the
loop of the assembler binds and what `link_import` changes is
`CodeProofs!AssemblerKept`; what code a body has is `CodeProofs!FunctionCode`, which
`GeneratedCode` restates without a hypothesis.

The loops over items, operators, locals and instructions are folds
(`CodeGen!FoldOnce`). Their induction is proved once, in `FoldInduction`, where the
step and the invariant are constants, and instantiated for each loop. Induction over
the natural numbers, for a set of them, is a hypothesis of these modules
(`Inductive`), so that they need not load the library. `CompilerProofs!NatInductive`
proves it from the well-foundedness of `<`, and the theorems of `CompilerProofs` do not
have it. Long proofs have their lemmas as named steps.

Only model-checked:

- All liveness (`Settles`, `Verdict`, `Drained`, `Terminates`, `Finishes`,
  `CallsReturn`), which needs fairness and `ENABLED`.
- `EntryPointsExact`, which compares codes by `SelectSeq`: what that selects depends
  on an operator that the provers cannot instantiate.
- `OwnStack`, `HeightCovers` and `FrameSlots`, which hold of the modules of the run
  `compiler` (i64, no declared local in use, lookups that agree) and not of every module,
  and would need that each rewrite of the optimiser keeps the stack effect of the
  body it is in.
- Everything about `Emulator`: `WebAssembly` is recursive, and a module with a
  recursive operator is out of the provers' reach.

## 5. Not modelled

- `dump_asm` (mod.rs:513-555) formats the assembled code for a person and changes
  nothing.
- `AssembledModule::deref`, `Kernel::set_quiet`, `memory_types` and the
  conversions of errors return or set a field; `quiet` is a constant of `Kernel`.
- `wasmparser`, `iced_x86`, `spin`, `buddy_system_allocator`, Unicorn and the UART
  are external: modelled from how the code uses them and marked so. The parser is
  reduced to the payloads it hands out, the encoder to lengths, offsets and the
  instructions it refuses.
- A range that starts in the last word of the address space, in a build without
  overflow checks. `AddPanics` has the panic of `addr + size`; without the check the
  sum wraps to below `addr` and the allocator's assertion on the order of the ends
  panics instead, unless the alignment of `addr` wraps as well.
- `add_memory` before the first module. The end of the trampoline, where `emu_start`
  stops, is the first byte behind it; code there could be called and would stop at
  once. The tests of the repository all add a module first, and a module never
  starts with an instruction.
- `i32` operators and results in a machine: their pushes and pops have no encoding
  in 64-bit mode, so no code with them is ever run (`AssemblerError`).
- Alias sections and nested modules, which `compile` only hands to the validator: the
  types and functions they add to the validator's numbering, and not to that of
  `compile`, are left out. A type of a module or an instance is modelled.
- Code that is compiled with the frame of a type other than the declared one, and
  then run. `compile` does produce it (hazards, mod.rs:313); that the lookup misses is
  the finding.
- `Serial` and `TestRunner` composed, the report as it appears on the line while
  other cores initialise: the finding `serial_harness` shows what can happen to it,
  and the product of the two state spaces is too large to check at three cores.
- Build scripts, CI, the wiki and the IDL sketch are configuration and prose.
