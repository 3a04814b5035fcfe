------------------------------ MODULE Emulator ------------------------------
(***************************************************************************)
(* The emulator of the compiler's tests (parawasm_tests/src/testing.rs),   *)
(* composed with the compiler and with the processor: a test compiles      *)
(* modules, adds them and native code to the memory, links imports and     *)
(* calls functions, in any order a test may choose.  Unicorn is external:  *)
(* it executes an instruction at a time and runs the code hooks before it. *)
(*                                                                         *)
(* A call that fails before it changes anything (mem_write without room,   *)
(* pop at the end of the memory) is a step that leaves all as it is.       *)
(***************************************************************************)
EXTENDS Compiler, WebAssembly

CONSTANTS
  MemorySize,    \* bytes that are mapped (128 MiB in the code)
  NativeCodes,   \* what add_memory is called with: [code, value] of functions
  ArgValues,     \* the arguments of calls
  MaxModules,    \* how many modules a test adds
  MaxOperations  \* how many operations of the emulator it performs

ASSUME EmulatorAssumption ==
  /\ MemorySize \in Nat /\ MemorySize <= Word
  /\ ArgValues \subseteq 0 .. Word - 1

VARIABLES
  modules,        \* Emulator::modules, with their executed_instructions
  module_offset,  \* Emulator::module_offset
  code,           \* the instructions in memory, by address
  cpu,            \* registers, data and rip of Unicorn
  hooks,          \* the code hooks: how many modules each of them has captured
  status,         \* "idle", or "running" inside emu_start
  result          \* what the last call_function returned

VARIABLES           \* history
  natives,        \* the native functions: their value by address
  executed,       \* how often the instruction at each address was executed
  expected,       \* what WebAssembly says of the last call
  pushed,         \* the values that push has put on the stack
  failed,         \* whether emu_start ever failed
  operations      \* the number of operations performed

history == <<natives, executed, expected, pushed, failed>>
emu_vars == <<modules, module_offset, code, cpu, hooks, status, result, history, operations>>
all_vars == <<vars, emu_vars>>

-----------------------------------------------------------------------------
(* testing.rs:56-61: call r10, nop. *)
trampoline == (0 :> Ins("Call_rm64", Reg("r10"), None)) @@ (1 :> Ins("Nopd", None, None))
trampoline_len == 2

(* The assembled code at an address: calls are relative to it. *)
LabelAddress(m, label) == m.offset + ByteOffset(SubSeq(m.binary, 1, m.bound[label]))

Placed(m, op) ==
  IF op \notin DOMAIN m.bound THEN op
  ELSE IF op[1] = "got" THEN Imm(LabelAddress(m, op)) ELSE At(LabelAddress(m, op))

(* mem_write of a module: its instructions and its slots. *)
Image(m) ==
  FoldOnce(LAMBDA acc, i :
             [at   |-> acc.at + Length(i),
              code |-> IF Length(i) # 1 THEN acc.code
                       ELSE acc.code @@ (acc.at :> Ins(i.code, Placed(m, i.op0), Placed(m, i.op1))),
              mem  |-> IF i.code = "DeclareQword" THEN Put(acc.mem, acc.at, i.op0[2])
                       ELSE acc.mem],
           [at |-> m.offset, code |-> <<>>, mem |-> <<>>], m.binary)

Fits(size) == module_offset + size <= MemorySize

(* The program of the test is between two calls of the emulator. *)
Between == status = "idle" /\ pc = "added"

(* Mutant of update_module: the module stays in memory as it was added.    *)
update_module_none(mem, m) == mem

(* testing.rs:90-94. *)
update_module(mem, m) == Image(m).mem @@ mem

(* testing.rs:75-88. *)
add_module ==
  LET m == [offset |-> module_offset, module |-> c, binary |-> binary, bound |-> bound,
            input |-> input, linked |-> linked, executed_instructions |-> <<>>,
            len |-> ByteOffset(binary)]
  IN /\ status = "idle" /\ pc = "done"
     /\ Fits(m.len)
     /\ code' = Image(m).code @@ code
     /\ cpu' = [cpu EXCEPT !.mem = Image(m).mem @@ @]
     /\ module_offset' = module_offset + m.len
     /\ modules' = Append(modules, m)
     /\ pc' = "added"
     /\ UNCHANGED <<input, rest, c, bound, binary, linked, opt_vars>>
     /\ UNCHANGED <<hooks, status, result, history>>

(* testing.rs:96-101, for the code of a native function. *)
add_memory(native) ==
  /\ Between
  /\ Fits(ByteOffset(native.code))
  /\ code' = [a \in module_offset .. module_offset + Len(native.code) - 1 |->
                native.code[a - module_offset + 1]] @@ code
  /\ module_offset' = module_offset + ByteOffset(native.code)
  /\ natives' = (module_offset :> native.value) @@ natives
  /\ UNCHANGED <<modules, cpu, hooks, status, result, executed, expected, pushed, failed, vars>>

(* What a test links an import of module k to: a function of its type. *)
Linkable(k, f) ==
  LET type == DeclaredType(modules[k].module, f) IN
  {AddressOf(modules, t) : t \in {t \in DefinedFunctions(modules) :
     DeclaredType(modules[t[1]].module, t[2]) = type}}
  \cup (IF type.params = <<>> /\ type.returns = <<"I64">> THEN DOMAIN natives ELSE {})

(* testing.rs:207-211, link_import through DerefMut: the module changes,   *)
(* its copy in the memory does not.                                        *)
Link_import(k, f, addr) ==
  LET imports == modules[k].module.imports IN
  /\ Between
  /\ modules' = [modules EXCEPT
       ![k].binary = link_import(@, imports, NameOf(imports[f]), addr),
       ![k].linked = (NameOf(imports[f]) :> addr) @@ @]
  /\ UNCHANGED <<module_offset, code, cpu, hooks, status, result, history, vars>>

-----------------------------------------------------------------------------
Count(counts, x) == IF x \in DOMAIN counts THEN counts[x] ELSE 0
CountOne(counts, x) == (x :> Count(counts, x) + 1) @@ counts

(* Mutant of HookOffset: the address instead of the offset.                *)
HookOffsetAbsolute(m, addr) == addr

(* testing.rs:141. *)
HookOffset(m, addr) == addr - m.offset

(* testing.rs:125-150: the hook counts for the first of the modules it has *)
(* captured that the address may belong to.  The end is included.          *)
Candidates(ms, hook, addr) ==
  {k \in 1 .. hook : ms[k].offset <= addr /\ addr <= ms[k].offset + ms[k].len}

RunHook(ms, hook, addr) ==
  IF Candidates(ms, hook, addr) = {} THEN ms
  ELSE LET k == Smallest(Candidates(ms, hook, addr))
       IN [ms EXCEPT ![k].executed_instructions = CountOne(@, HookOffset(ms[k], addr))]

(* The arguments, as write_register puts them (testing.rs:188-190). *)
WithArgs(reg, args) ==
  [r \in DOMAIN reg |->
     IF \E i \in DOMAIN args : IntegerOrder[i] = r
     THEN args[CHOOSE i \in DOMAIN args : IntegerOrder[i] = r]
     ELSE reg[r]]

(* The functions a test may ask for: by index and by exported name. *)
Identified(m) ==
  {find_function(m, i) : i \in FunctionIndices}
  \cup {find_exported(m, name) : name \in DOMAIN m.exports}

(* testing.rs:103-160: a call up to emu_start, at the trampoline.          *)
call_function(k, f, args) ==
  LET m == modules[k].module IN
  /\ Between
  /\ {f} \in Identified(m)
  /\ Len(args) = Len(DeclaredType(m, f).params)
  /\ \E entry \in function_entry_point(m, {f}) :
       cpu' = [reg |-> [WithArgs(cpu.reg, args) EXCEPT !["r10"] = modules[k].offset + entry],
               mem |-> FoldOnce(update_module, cpu.mem, modules),
               rip |-> 0]
  /\ hooks' = Append(hooks, Len(modules))
  /\ status' = "running"
  /\ result' = "none"
  /\ expected' = Invoke(modules, natives, k, f, args)
  /\ UNCHANGED <<modules, module_offset, code, natives, executed, pushed, failed, vars>>

(* testing.rs:113-117: returned before anything changes. *)
FunctionNotFound(k) ==
  /\ Between
  /\ {} \in Identified(modules[k].module)
  /\ result' = "FunctionNotFound"
  /\ UNCHANGED <<modules, module_offset, code, cpu, hooks, status, history, vars>>

-----------------------------------------------------------------------------
(* emu_start: the hooks, then the instruction. *)
Step ==
  /\ status = "running"
  /\ cpu.rip # trampoline_len /\ cpu.rip \in DOMAIN code
  /\ modules' = FoldOnce(LAMBDA ms, hook : RunHook(ms, hook, cpu.rip), modules, hooks)
  /\ cpu' = Execute(cpu, code[cpu.rip])
  /\ executed' = CountOne(executed, cpu.rip)
  /\ UNCHANGED <<module_offset, code, hooks, status, result,
                 natives, expected, pushed, failed, vars>>

(* Mutant of HooksAfter: the hook is not removed.                          *)
HooksAfterAll(all) == all

(* testing.rs:161: the hook of this call. *)
HooksAfter(all) == Front(all)

(* testing.rs:155-162: emu_start stops behind the trampoline. *)
Finish ==
  /\ status = "running"
  /\ cpu.rip = trampoline_len
  /\ hooks' = HooksAfter(hooks)
  /\ status' = "idle"
  /\ result' = "ok"
  /\ UNCHANGED <<modules, module_offset, code, cpu, history, vars>>

(* Mutant of Fail: the fetch that failed is tried again, without end.      *)
FailIgnored == status = "running" /\ cpu.rip >= MemorySize /\ UNCHANGED all_vars

(* testing.rs:155-160: a fetch from memory that is not mapped.  The ?      *)
(* returns before remove_hook, and rsp stays where it is.                  *)
Fail ==
  /\ status = "running"
  /\ cpu.rip >= MemorySize
  /\ status' = "idle"
  /\ result' = "EmulationError"
  /\ failed' = TRUE
  /\ UNCHANGED <<modules, module_offset, code, cpu, hooks,
                 natives, executed, expected, pushed, vars>>

(* testing.rs:174-182. *)
push(value) ==
  /\ Between
  /\ cpu' = PushWord(cpu, value)
  /\ pushed' = Append(pushed, value)
  /\ UNCHANGED <<modules, module_offset, code, hooks, status, result,
                 natives, executed, expected, failed, vars>>

(* testing.rs:165-172. *)
pop ==
  /\ Between /\ cpu.reg["rsp"] + WordSize <= MemorySize
  /\ cpu' = DropWord(cpu)
  /\ pushed' = FirstOf(pushed, IF pushed = <<>> THEN 0 ELSE 1)
  /\ UNCHANGED <<modules, module_offset, code, hooks, status, result,
                 natives, executed, expected, failed, vars>>

-----------------------------------------------------------------------------
(* testing.rs:45-73, after which the test compiles its first module. *)
StackTop == MemorySize - 1

EmulatorInit ==
  /\ Init
  /\ modules = <<>> /\ module_offset = trampoline_len /\ code = trampoline
  /\ cpu = [reg |-> [r \in RegisterNames |-> IF r = "rsp" THEN StackTop ELSE 0],
            mem |-> <<>>, rip |-> 0]
  /\ hooks = <<>> /\ status = "idle" /\ result = "none"
  /\ natives = <<>> /\ executed = <<>> /\ expected = Trap
  /\ pushed = <<>> /\ failed = FALSE /\ operations = 0

CompileStep == status = "idle" /\ Compile /\ UNCHANGED emu_vars

CompileAnother ==
  /\ Between /\ Len(modules) < MaxModules /\ operations < MaxOperations
  /\ pc' = "parse" /\ input' \in Modules /\ rest' = input' /\ c' = NewCompile
  /\ bound' = <<>> /\ binary' = <<>> /\ linked' = <<>>
  /\ UNCHANGED <<opt_vars, emu_vars>>

Emulation == (Step \/ Finish \/ Fail) /\ UNCHANGED operations

Operation ==
  \/ add_module \/ pop
  \/ \E native \in NativeCodes : add_memory(native)
  \/ \E value \in ArgValues : push(value)
  \/ \E k \in DOMAIN modules :
       \/ FunctionNotFound(k)
       \/ \E f \in DOMAIN modules[k].module.imports : \E addr \in Linkable(k, f) :
            Link_import(k, f, addr)
       \/ \E f \in FunctionIndices, args \in UNION {[1 .. n -> ArgValues] : n \in 0 .. 2} :
            call_function(k, f, args)

TestStep == operations < MaxOperations /\ operations' = operations + 1 /\ Operation

EmulatorNext == CompileStep \/ CompileAnother \/ Emulation \/ TestStep

(* compile and emu_start run until they return; a test may stop. *)
EmulatorSpec ==
  EmulatorInit /\ [][EmulatorNext]_all_vars /\ WF_all_vars(CompileStep) /\ WF_all_vars(Emulation)

-----------------------------------------------------------------------------
EmulatorTypeOK ==
  /\ status \in {"idle", "running"}
  /\ result \in {"none", "ok", "EmulationError", "FunctionNotFound"}
  /\ cpu.reg \in [RegisterNames -> 0 .. Word - 1] /\ cpu.rip \in Nat
  /\ module_offset \in 0 .. MemorySize
  /\ hooks \in Seq(DOMAIN modules)
  /\ \A k \in DOMAIN modules : DOMAIN modules[k].executed_instructions \subseteq 0 .. modules[k].len

(* A call of compiled code, through the trampoline, other functions, other *)
(* modules and native code, returns what WebAssembly says of its function, *)
(* with the imports as they were linked last; it fails exactly when it     *)
(* reaches an import that is not linked.                                   *)
ComputesWasm ==
  /\ result = "ok" =>
       /\ expected.status = "ok"
       /\ Len(expected.values) = 1 => cpu.reg["rax"] = expected.values[1]
  /\ result = "EmulationError" => expected.status = "trap"

(* instruction_execution_count is the number of times an instruction of a  *)
(* module was executed, over all calls, as long as none has failed: a      *)
(* hook counts once, for the right module, and is gone after its call.     *)
CountsExact ==
  ~failed =>
    \A k \in DOMAIN modules : \A offset \in 0 .. modules[k].len - 1 :
      Count(modules[k].executed_instructions, offset) = Count(executed, modules[k].offset + offset)

(* Between the calls of a test the stack is as push and pop have left it,  *)
(* and rbp as at the start: compiled functions give back all they take and *)
(* overwrite nothing above their own frames.                               *)
StackKept ==
  status = "idle" /\ ~failed =>
    /\ cpu.reg["rsp"] = StackTop - WordSize * Len(pushed)
    /\ cpu.reg["rbp"] = 0
    /\ \A i \in DOMAIN pushed : Get(cpu.mem, StackTop - WordSize * i) = pushed[i]

(* emu_start has no timeout, but every call returns: compiled code without *)
(* recursion reaches the end of the trampoline or a fault.                 *)
CallsReturn == status = "running" ~> status = "idle"

=============================================================================
