------------------------------ MODULE Compiler ------------------------------
(***************************************************************************)
(* X86_64Compiler::compile and AssembledModule                             *)
(* (parawasm/src/x86_64/mod.rs) as a state machine: the loop over the      *)
(* payloads of a WebAssembly module, the passes of the optimiser, the      *)
(* binding of the labels and the linking of imports.  What its steps       *)
(* compute is Assembly's and CodeGen's.                                    *)
(***************************************************************************)
EXTENDS Assembly

VARIABLES
  pc,      \* "parse", "optimize", "bind", "done", "err" or "panic"
  input,   \* the module that is compiled
  rest,    \* the payloads that are not read yet
  c,       \* the variables of compile, Module and the assembler's code
  bound,   \* the index in the final code of each label that is bound
  binary,  \* the assembled code
  linked   \* history: the last address given to link_import, by name

VARIABLES opt_pc, current, labels, head_idx, new, labels_, source

compile_vars == <<pc, input, rest, c, bound, binary, linked>>
opt_vars == <<opt_pc, current, labels, head_idx, new, labels_, source>>
vars == <<compile_vars, opt_vars>>

O == INSTANCE Optimizer WITH
       pc <- opt_pc,
       Registers <- {Reg(r) : r \in RegisterNames},
       Operands <- OperandNames \X Int,
       OtherCodes <- AllCodes,
       Labels <- AllLabels,
       Inputs <- {}

-----------------------------------------------------------------------------
Payload(kind) == pc = "parse" /\ rest # <<>> /\ Head(rest).kind = kind

(* A section that the validator rejects ends in Err (Rejected). *)
Section(kind) == Payload(kind) /\ Head(rest).valid

Read == ReadItems(Head(rest).kind, c, Head(rest).items)

(* mod.rs:477.  More functions than the limit, and functions without a     *)
(* type, are rejected (Rejected).                                          *)
ReadSection(kind) ==
  /\ Section(kind)
  /\ TypesDefined(c, kind, Head(rest).items)
  /\ Read.function_index <= MaxFunctions
  /\ c' = Read
  /\ rest' = Tail(rest)
  /\ UNCHANGED <<pc, input, bound, binary, linked, opt_vars>>

(* mod.rs:239-251, 252-285, 286-299, 232-238 and 300-308. *)
TypeSection == ReadSection("Type")
ImportSection == ReadSection("Import")
FunctionSection == ReadSection("Function")
MemorySection == ReadSection("Memory")
ExportSection == ReadSection("Export")

(* Mutant of OtherSection: the data is not advanced past the section.      *)
OtherSectionNotConsumed ==
  /\ Section("Other")
  /\ UNCHANGED vars

(* mod.rs:433-475: the other payloads are only validated. *)
OtherSection ==
  /\ Section("Other")
  /\ rest' = Tail(rest)
  /\ UNCHANGED <<pc, input, c, bound, binary, linked, opt_vars>>

Generated ==
  GenFunction(c, c.function_body_index, Head(rest).valid, Head(rest).locals, Head(rest).body)

(* mod.rs:309-432. *)
CodeSectionEntry ==
  /\ Payload("Code")
  /\ c.function_body_index \in c.got
  /\ Generated.status = "ok"
  /\ c' = AddBody(c, Generated)
  /\ rest' = Tail(rest)
  /\ UNCHANGED <<pc, input, bound, binary, linked, opt_vars>>

Stop(result) == pc' = result /\ UNCHANGED <<input, rest, c, bound, binary, linked, opt_vars>>

(* mod.rs:320, 345, 387, 388 and 402: the readers and the validator. *)
CodeSectionEntryRejected ==
  /\ Payload("Code")
  /\ c.function_body_index \in c.got
  /\ Generated.status = "err"
  /\ Stop("err")

(* unwrap (mod.rs:316), drain (mod.rs:325), the overflow of mod.rs:342 and *)
(* the todo!()s.                                                           *)
CodeSectionEntryPanics ==
  /\ Payload("Code")
  /\ c.function_body_index \in c.got
  /\ Generated.status = "panic"
  /\ Stop("panic")

(* The validator, at any section, at a body without a function (mod.rs:310) *)
(* and at the end, when bodies are missing (mod.rs:229).                   *)
Rejected ==
  /\ pc = "parse" /\ rest # <<>>
  /\ \/ Head(rest).kind # "Code" /\ ~Head(rest).valid
     \/ Head(rest).kind \in ItemSections /\ ~TypesDefined(c, Head(rest).kind, Head(rest).items)
     \/ Head(rest).kind \in ItemSections /\ Read.function_index > MaxFunctions
     \/ Payload("Code") /\ c.function_body_index \notin c.got
     \/ Payload("End") /\ c.function_body_index # c.function_index
  /\ Stop("err")

(* mod.rs:480: NeedMoreData.  The loop goes on with the same data. *)
NeedMoreData == pc = "parse" /\ rest = <<>> /\ UNCHANGED vars

(* mod.rs:228-231 and 483-484: the call of optimize. *)
IndexOf(label) ==
  IF \E i \in Range(c.label_indices) : i.label = label
  THEN (CHOOSE i \in Range(c.label_indices) : i.label = label).index
  ELSE 0

End ==
  /\ Section("End")
  /\ c.function_body_index = c.function_index
  /\ pc' = "optimize"
  /\ opt_pc' = "pass" /\ current' = c.code /\ head_idx' = 0 /\ new' = <<>> /\ source' = <<>>
  /\ labels' = [l \in AllLabels |-> IndexOf(l)]
  /\ labels_' = labels'
  /\ UNCHANGED <<input, rest, c, bound, binary, linked>>

Optimize == pc = "optimize" /\ O!Next /\ UNCHANGED compile_vars

(* Mutant of Optimized: label_indices is passed by value.                  *)
OptimizedStaleLabels ==
  /\ pc = "optimize"
  /\ opt_pc = "done"
  /\ c' = [c EXCEPT !.code = current]
  /\ pc' = "bind"
  /\ UNCHANGED <<input, rest, bound, binary, linked, opt_vars>>

(* mod.rs:484-486: optimize has changed label_indices in place. *)
Optimized ==
  /\ pc = "optimize"
  /\ opt_pc = "done"
  /\ c' = [c EXCEPT
             !.code = current,
             !.label_indices = [k \in DOMAIN @ |-> [index |-> labels[@[k].label], label |-> @[k].label]]]
  /\ pc' = "bind"
  /\ UNCHANGED <<input, rest, bound, binary, linked, opt_vars>>

-----------------------------------------------------------------------------
(* mod.rs:487-509. *)
Bind ==
  /\ pc = "bind"
  /\ Encodable(c.code)
  /\ bound' = BoundCode(c).bound
  /\ binary' = BoundCode(c).code
  /\ c' = [c EXCEPT !.entries = BoundCode(c).entries]
  /\ pc' = "done"
  /\ UNCHANGED <<input, rest, linked, opt_vars>>

(* mod.rs:499 and 509: the encoder has no such instruction. *)
AssemblerError ==
  /\ pc = "bind"
  /\ ~Encodable(c.code)
  /\ Stop("err")

-----------------------------------------------------------------------------
LinkImport(link, addr) ==
  /\ pc = "done"
  /\ binary' = link_import(binary, c.imports, link, addr)
  /\ linked' = IF \E f \in c.ils : NameOf(c.imports[f]) = link
               THEN Insert(linked, link, addr) ELSE linked
  /\ UNCHANGED <<pc, input, rest, c, bound, opt_vars>>

-----------------------------------------------------------------------------
Init ==
  /\ pc = "parse"
  /\ input \in Modules
  /\ rest = input
  /\ c = NewCompile
  /\ bound = <<>> /\ binary = <<>> /\ linked = <<>>
  /\ opt_pc = "idle" /\ current = <<>> /\ head_idx = 0 /\ new = <<>> /\ source = <<>>
  /\ labels = [l \in AllLabels |-> 0]
  /\ labels_ = labels

Compile ==
  \/ TypeSection \/ ImportSection \/ FunctionSection \/ MemorySection \/ ExportSection
  \/ CodeSectionEntry \/ CodeSectionEntryRejected \/ CodeSectionEntryPanics
  \/ OtherSection \/ Rejected \/ NeedMoreData \/ End
  \/ Optimize \/ Optimized \/ Bind \/ AssemblerError

Link == \E link \in LinkNames, addr \in Addresses : LinkImport(link, addr)

Next == Compile \/ Link

(* compile runs until it returns; nobody has to link. *)
Spec == Init /\ [][Next]_vars /\ WF_vars(Compile)

-----------------------------------------------------------------------------
TypeOK ==
  /\ pc \in {"parse", "optimize", "bind", "done", "err", "panic"}
  /\ opt_pc \in {"idle", "pass", "compare", "done"}
  /\ c.code \in Seq(O!Instruction)
  /\ c.function_index \in 0 .. MaxFunctions
  /\ c.function_body_index \in 0 .. c.function_index
  /\ DOMAIN c.types = 0 .. c.function_index - 1
  /\ c.got \cup c.ils = DOMAIN c.types /\ c.got \cap c.ils = {}
  /\ Range(c.label_indices) \subseteq [index: Nat, label: AllLabels]
  /\ DOMAIN bound \subseteq AllLabels
  /\ binary \in Seq(O!Instruction)

(* The code that is handed to the optimiser, and that it hands from one    *)
(* pass to the next, meets the assumption about labels under which the     *)
(* optimiser is proved (Optimizer!InputsAssumption).                       *)
OptimizerInput == pc = "optimize" => O!LabelsStayBehindFixed

(* The code of the body of f in the assembled module: from its entry point *)
(* to the next one.                                                        *)
BodyCode(f) ==
  LET first == InstructionAt(binary, c.entries[f])
      later == {k \in {InstructionAt(binary, c.entries[g]) : g \in DOMAIN c.entries} : k > first}
  IN SubSeq(binary, first, IF later = {} THEN Len(binary) ELSE Smallest(later) - 1)

BodyPayload(f) ==
  SelectSeq(input, LAMBDA p : p.kind = "Code")[f + 1 - Cardinality(c.ils)]

Kept(code) == SelectSeq(code, LAMBDA i : O!Fixed(i) /\ i.code # "Zero_bytes")

(* After optimisation and binding, the entry point of every function is    *)
(* where its code starts and the next entry point where it ends: the       *)
(* instructions no pass may touch are those generated for its body.        *)
EntryPointsExact ==
  pc = "done" =>
    /\ DOMAIN c.entries = c.got
    /\ \A f \in c.got :
         Kept(BodyCode(f)) =
           Kept(GenFunction(c, f, TRUE, BodyPayload(f).locals, BodyPayload(f).body).code)

(* Every label an instruction of the assembled code refers to is bound: a  *)
(* call goes to the entry point of the called function, the address of an  *)
(* import is read from the slot that link_import writes.                   *)
CallsResolve ==
  pc = "done" =>
    \A k \in DOMAIN binary : \A label \in {binary[k].op0, binary[k].op1} \cap AllLabels :
      /\ label \in DOMAIN bound
      /\ LET f == label[2]
             at == ByteOffset(SubSeq(binary, 1, bound[label]))
         IN IF label = FunctionLabel(f) THEN at = c.entries[f] ELSE at = c.imports[f].offset

(* The index of the slot that a call of import f reads: behind zero_bytes. *)
SlotIndex(f) == bound[ImportLabel(f)] + 2

(* The slot a call of an import reads holds the last address linked, when  *)
(* no other import has its name, and the marker until it is linked.        *)
LinkedSlots ==
  pc = "done" =>
    \A f \in c.ils :
      LET name == NameOf(c.imports[f])
          slot == binary[SlotIndex(f)]
      IN /\ name \notin DOMAIN linked \/ name.name = NoName => slot = Qword(Unlinked)
         /\ name \in DOMAIN linked /\ Matching(c.imports, name) = {f} => slot = Qword(linked[name])

(* Once assembled, only the slots of imports ever change: link_import never *)
(* overwrites code or a slot of a function.                                *)
OnlySlotsChange ==
  [][pc = "done" =>
       \A k \in DOMAIN binary :
         binary'[k] # binary[k] => \E f \in c.ils : k = SlotIndex(f)]_vars

(* A function that is exported is found by its name, at its entry point;   *)
(* an import that is exported again is not found.                          *)
ExportsResolve ==
  pc = "done" =>
    \A p \in Range(input) : p.kind = "Export" =>
      \A e \in Range(p.items) : e.kind = "Function" =>
        function_entry_point(c, find_exported(c, e.name)) =
          IF e.index \in c.got THEN {c.entries[e.index]} ELSE {}

-----------------------------------------------------------------------------
(* The stack while the code of a body runs, in bytes below the return      *)
(* address: depth is rsp, frame is rbp, floor is where the operands start, *)
(* high the most that was pushed above it.                                 *)
StackStep(s, i) ==
  LET Moved(depth) ==
        [s EXCEPT !.depth = depth, !.ok = @ /\ depth >= s.floor,
                  !.high = Larger(@, depth - s.floor)]
  IN CASE i.code = "Push_r64" -> Moved(s.depth + 8)
       [] i.code = "Pop_r64" -> Moved(s.depth - 8)
       [] i = MovReg("rbp", "rsp") -> [s EXCEPT !.frame = s.depth, !.floor = s.depth, !.high = 0]
       [] i = MovReg("rsp", "rbp") -> [s EXCEPT !.depth = s.frame, !.floor = 0]
       [] i.code = "Sub_rm64_imm32" ->
            [s EXCEPT !.depth = @ + i.op1[2], !.floor = @ + i.op1[2]]
       [] i.code = "Add_rm64_imm32" ->
            [s EXCEPT !.depth = @ - i.op1[2], !.floor = @ - i.op1[2]]
       [] i.code = "Retnq" -> [s EXCEPT !.ok = @ /\ s.depth = 0]
       [] OTHER -> s

RunStack(code) ==
  FoldOnce(StackStep, [depth |-> 0, frame |-> 0, floor |-> 0, high |-> 0, ok |-> TRUE], code)

(* The optimised code of a body never pops more operands than it pushed,   *)
(* so that it never takes its locals, the saved rbp or the return address  *)
(* for operands, and rsp is back at the return address at RET.             *)
OwnStack == pc = "done" => \A f \in c.got : RunStack(BodyCode(f)).ok

(* function_stack_height is an upper bound of the operands that the        *)
(* optimised code ever has on the stack.                                   *)
HeightCovers ==
  pc = "done" =>
    \A f \in c.got : \E height \in function_stack_height(c, find_function(c, f)) :
      RunStack(BodyCode(f)).high <= 8 * height

FrameSlotsOf(code) ==
  {op[2] : op \in {o \in UNION {{i.op0, i.op1} : i \in Range(code)} : o[1] = "rbp-"}}

FrameSize(code) ==
  FoldOnce(LAMBDA n, i : IF i.code = "Sub_rm64_imm32" THEN n + i.op1[2] ELSE n, 0, code)

(* A body reads and writes its parameters and locals only in the part of   *)
(* the stack that it allocates for them, every parameter has a slot of its *)
(* own there, and no two slots overlap: accesses have eight bytes.         *)
FrameSlots ==
  pc = "done" =>
    \A f \in c.got :
      LET slots == FrameSlotsOf(BodyCode(f))
      IN /\ Len(DeclaredType(c, f).params) <= Cardinality(slots)
         /\ \A s \in slots : 8 <= s /\ s <= FrameSize(BodyCode(f))
         /\ \A s, t \in slots : s < t => s + 8 <= t

(* Modules that use nothing the compiler marks todo!(): integers only, at  *)
(* most six parameters, no operator without code; and no run of locals     *)
(* that is longer than all locals of a body may be.                        *)
Supported(module) ==
  \A p \in Range(module) :
    /\ p.kind = "Type" => \A t \in Range(p.items) : t.kind = "Func" =>
         /\ Range(t.params) \cup Range(t.returns) \subseteq Integer
         /\ Len(t.params) <= Len(IntegerOrder)
    /\ p.kind = "Code" =>
         /\ \A op \in Range(p.body) : op.name \notin Unsupported
         /\ \A d \in Range(p.locals) : d.ty \in Sized /\ d.count <= MaxLocals

(* compile never panics on a module that uses nothing unsupported: unwrap  *)
(* always finds the type of a function, and every local has a slot.        *)
SupportedNeverPanics == Supported(input) => pc # "panic"

(* The one reason for which compile panics on such a module: in the body   *)
(* that it is reading, the lookup of a type misses the declared one, of    *)
(* the function itself or of one that it calls.  No other unwrap, drain,   *)
(* todo!() or overflow is reached, and where the types are found every     *)
(* local has its slot.                                                     *)
PanicsExplained ==
  pc = "panic" /\ Supported(input) =>
    rest # <<>> /\ Head(rest).kind = "Code"
    /\ ~BodyTypesFound(c, c.function_body_index, Head(rest).body)

Complete(module) == module # <<>> /\ module[Len(module)].kind = "End"

(* compile returns, or panics, for every module that is not cut off; the   *)
(* loop over the payloads and the passes of the optimiser both end.        *)
Finishes == Complete(input) ~> pc \in {"done", "err", "panic"}

=============================================================================
