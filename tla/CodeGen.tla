------------------------------- MODULE CodeGen -------------------------------
(***************************************************************************)
(* The code generator of the compiler: the instructions of one function    *)
(* body (parawasm/src/x86_64/mod.rs:309-432) and of one WebAssembly        *)
(* operator (instructions.rs).                                             *)
(*                                                                         *)
(* An instruction is its iced_x86 Code and two operands.  An operand is a  *)
(* pair: a register, an immediate value, a slot of the frame or a label.   *)
(***************************************************************************)
EXTENDS Integers, Sequences, Functions

CONSTANTS
  MaxLocals,  \* wasmparser's limit of parameters and locals (50000)
  U32End      \* the first number that is no u32 (2^32)

(* What the limit allows is far from overflowing the u32 of the frame's    *)
(* size: two times the limit, and six parameters, of at most 16 bytes.     *)
ASSUME LocalsAssumption ==
  /\ MaxLocals \in Nat /\ U32End \in Nat
  /\ 16 * (2 * MaxLocals + 6) < U32End

Reg(name) == <<name, 0>>
Imm(value) == <<"imm", value>>
Slot(offset) == <<"rbp-", offset>>          \* [rbp - offset]
FunctionLabel(f) == <<"got", f>>            \* the start of function f
ImportLabel(f) == <<"ils", f>>              \* the address slot of import f
None == <<"none", 0>>

Ins(code, op0, op1) == [code |-> code, op0 |-> op0, op1 |-> op1]

Push(r) == Ins("Push_r64", Reg(r), None)
Pop(r) == Ins("Pop_r64", Reg(r), None)
MovReg(to, from) == Ins("Mov_rm64_r64", Reg(to), Reg(from))
Store(slot, r) == Ins("Mov_rm64_r64", slot, Reg(r))
Load(r, from) == Ins("Mov_r64_rm64", Reg(r), from)
MovImm(r, value) == Ins("Mov_r64_imm64", Reg(r), Imm(value))
Ret == Ins("Retnq", None, None)
Qword(value) == Ins("DeclareQword", Imm(value), None)
ZeroBytes == Ins("Zero_bytes", None, None)

(* The bytes of an instruction: DeclareQword has eight, zero_bytes none,   *)
(* of the others it only matters that they have some.                      *)
Length(i) ==
  CASE i.code = "DeclareQword" -> 8
    [] i.code = "Zero_bytes" -> 0
    [] OTHER -> 1

(* The codes of all instructions but PUSH, POP and MOV of registers. *)
AllCodes ==
  {"DeclareQword", "Zero_bytes", "Mov_r64_rm64", "Mov_r64_imm64", "Call_rel32_64",
   "Call_rm64", "Nopd", "Retnq", "Add_rm64_r64", "Sub_rm64_r64", "Add_rm32_r32",
   "Sub_rm32_r32", "Pop_r32", "Push_r32", "Sub_rm64_imm32", "Add_rm64_imm32"}

RegisterNames ==
  {"rax", "rbx", "rcx", "rdx", "rsi", "rdi", "r8", "r9", "r10", "rbp", "rsp"}

OperandNames ==
  RegisterNames \cup {"eax", "ebx"} \cup {"imm", "rbp-", "got", "ils", "none"}

(* mod.rs:324 and instructions.rs:56; mod.rs:408 and instructions.rs:79. *)
IntegerOrder == <<"rdi", "rsi", "rdx", "rcx", "r8", "r9">>
ReturnOrder == <<"rax", "rdx">>

-----------------------------------------------------------------------------
(* Types.  A reference type has no size: todo!(). *)
Integer == {"I32", "I64"}
Sized == {"I32", "I64", "F32", "F64", "V128"}
ValType == Sized \cup {"FuncRef", "ExternRef"}
FuncType == [kind: {"Func"}, params: Seq(ValType), returns: Seq(ValType)]

(* wasmparser: a run of locals of one type. *)
LocalRun == [count: Nat, ty: ValType]

(* mod.rs:25-38. *)
encoding_size(ty) ==
  CASE ty \in {"I32", "F32"} -> 4
    [] ty \in {"I64", "F64"} -> 8
    [] ty = "V128" -> 16

(* FoldLeft by index, with what is accumulated evaluated once in each step. *)
FoldOnce(op(_, _), base, seq) ==
  LET acc[k \in 0 .. Len(seq)] ==
        IF k = 0 THEN base ELSE CHOOSE r \in {op(a, seq[k]) : a \in {acc[k - 1]}} : TRUE
  IN acc[Len(seq)]

(* mod.rs:329-334. *)
AddParam(acc, ty) ==
  [slots |-> Append(acc.slots, acc.size + encoding_size(ty)),
   size  |-> acc.size + encoding_size(ty)]

(* Mutant of ParamSlots: a parameter's slot starts where the one before    *)
(* ends, as for declared locals.                                           *)
ParamSlotsTooHigh(params) ==
  FoldOnce(LAMBDA acc, ty : [slots |-> Append(acc.slots, acc.size),
                             size  |-> acc.size + encoding_size(ty)],
           [slots |-> <<>>, size |-> 0], params)

(* Mutant of ParamSlots: the slots are four bytes apart.                   *)
ParamSlotsOverlapping(params) ==
  FoldOnce(LAMBDA acc, ty : [slots |-> Append(acc.slots, 4 * Len(acc.slots) + encoding_size(ty)),
                             size  |-> acc.size + encoding_size(ty)],
           [slots |-> <<>>, size |-> 0], params)

(* Mutant of ParamSlots: the first parameter is left out.                  *)
ParamSlotsSkippingFirst(params) ==
  FoldOnce(AddParam, [slots |-> <<>>, size |-> 0], SubSeq(params, 2, Len(params)))

(* mod.rs:328-335: the offset below rbp of each parameter. *)
ParamSlots(params) == FoldOnce(AddParam, [slots |-> <<>>, size |-> 0], params)

(* mod.rs:337-346: the offsets of the declared locals, given as runs of    *)
(* locals of one type.  The offset is that of the end of the locals        *)
(* before, without the size of the local itself.  A run is added before    *)
(* define_locals counts it: a type without a size, and in a build with     *)
(* overflow checks a run that does not fit in a u32, panics before the     *)
(* validator rejects more locals than it has room for.                     *)
AddLocals(acc, d) ==
  LET sz  == encoding_size(d.ty)
      end == acc.size + sz * d.count
  IN IF acc.status # "ok" THEN acc
     ELSE IF d.ty \notin Sized \/ end >= U32End THEN [acc EXCEPT !.status = "panic"]
     ELSE IF d.count > acc.room THEN [acc EXCEPT !.status = "err"]
     ELSE [slots  |-> acc.slots \o [i \in 1 .. d.count |-> acc.size + sz * (i - 1)],
           size   |-> end,
           room   |-> acc.room - d.count,
           status |-> "ok"]

(* room is what the declared parameters leave of the validator's limit. *)
LocalSlots(params, declared, room) ==
  FoldOnce(AddLocals,
           [slots |-> ParamSlots(params).slots, size |-> ParamSlots(params).size,
            room  |-> room, status |-> "ok"],
           declared)

-----------------------------------------------------------------------------
(* The outcome of generating code: the code, or a panic. *)
Emit(code) == [status |-> "ok", code |-> code]
Panic == [status |-> "panic", code |-> <<>>]

Larger(m, n) == IF m > n THEN m ELSE n

FirstN(s, n) == SubSeq(s, 1, IF n < Len(s) THEN n ELSE Len(s))

(* The declared type of a function.  The validator numbers the types of    *)
(* instances and modules too (module_linking, mod.rs:197), unlike          *)
(* function_typedefs.                                                      *)
DeclaredType(ctx, f) == ctx.all_types[ctx.types[f] + 1]

(* mod.rs:311-316 and instructions.rs:50-55: the type of a function is     *)
(* looked up twice in function_types, the second time with a type index as *)
(* if it were a function index; unwrap() panics when nothing is found.     *)
HasLookup(ctx, f) ==
  /\ f \in DOMAIN ctx.types
  /\ ctx.types[f] \in DOMAIN ctx.types
  /\ ctx.types[ctx.types[f]] \in DOMAIN ctx.typedefs

LookupType(ctx, f) == ctx.typedefs[ctx.types[ctx.types[f]]]

(* Whether that is the declared type: of f, and of f and every function    *)
(* that its body calls.                                                    *)
TypeFound(ctx, f) == HasLookup(ctx, f) /\ LookupType(ctx, f) = DeclaredType(ctx, f)

BodyTypesFound(ctx, f, body) ==
  \A g \in DOMAIN ctx.types :
    g = f \/ (\E k \in DOMAIN body : body[k].name = "Call" /\ body[k].arg = g) =>
      TypeFound(ctx, g)

(* instructions.rs:56-67: the last argument is on top of the stack. *)
ArgumentPops(n) == [i \in 1 .. n |-> Pop(IntegerOrder[n + 1 - i])]

(* instructions.rs:49-89.  drain panics past the six registers, and todo!  *)
(* meets every type that is no integer.                                    *)
GenCall(ctx, f) ==
  LET type == LookupType(ctx, f)
      n    == Len(type.params)
      call == IF f \in ctx.got
              THEN <<Ins("Call_rel32_64", FunctionLabel(f), None)>>
              ELSE IF f \in ctx.ils
              THEN <<Load("r10", ImportLabel(f)), Ins("Call_rm64", Reg("r10"), None)>>
              ELSE <<>>
      results == FirstN(ReturnOrder, Len(type.returns))
  IN IF HasLookup(ctx, f) /\ n <= Len(IntegerOrder)
          /\ Range(type.params) \cup Range(type.returns) \subseteq Integer
     THEN Emit(ArgumentPops(n) \o call \o [i \in DOMAIN results |-> Push(results[i])])
     ELSE Panic

(* instructions.rs:25-48.  The 32-bit operators use 32-bit pushes and pops *)
(* that do not exist in 64-bit mode: the assembler fails on them later.    *)
Arithmetic64(code) == <<Pop("rax"), Pop("rbx"), Ins(code, Reg("rax"), Reg("rbx")), Push("rax")>>

Arithmetic32(code) ==
  <<Ins("Pop_r32", Reg("eax"), None), Ins("Pop_r32", Reg("ebx"), None),
    Ins(code, Reg("eax"), Reg("ebx")), Ins("Push_r32", Reg("eax"), None)>>

NotEncodable == {"Pop_r32", "Push_r32"}

(* The operators that end in todo!(), by the groups of instructions.rs.    *)
ControlOperators == {"Control"}          \* blocks, branches, exceptions, select
LocalTeeAndGlobals == {"LocalTee", "Global"}
MemoryOperators == {"Memory"}            \* loads, stores, memory.size and grow
ScalarOperators == {"Scalar"}            \* the other constants and arithmetic
BulkAndTableOperators == {"Bulk"}
AtomicOperators == {"Atomic"}
VectorOperators == {"Vector"}            \* SIMD, then relaxed SIMD
Unsupported ==
  ControlOperators \cup LocalTeeAndGlobals \cup MemoryOperators \cup ScalarOperators
  \cup BulkAndTableOperators \cup AtomicOperators \cup VectorOperators

(* An operator that cannot be read, or that the validator rejects whatever *)
(* the operands are.                                                       *)
InvalidOperators == {"Invalid"}

SupportedOperators ==
  {"I64Const", "I64Add", "I64Sub", "I32Add", "I32Sub", "Call", "Nop", "End", "LocalGet", "LocalSet"}

(* wasmparser: an operator with its index or value. *)
WasmOperator ==
  [name: {"I64Const"}, arg: Int] \cup [name: SupportedOperators \cup Unsupported \cup InvalidOperators, arg: Nat]

(* instructions.rs:11-20 and the supported operators.  Locals are numbered *)
(* from 0.                                                                 *)
handle_instruction(ctx, slots, op) ==
  CASE op.name = "I64Const" -> Emit(<<MovImm("rax", op.arg), Push("rax")>>)
    [] op.name = "I64Add" -> Emit(Arithmetic64("Add_rm64_r64"))
    [] op.name = "I64Sub" -> Emit(Arithmetic64("Sub_rm64_r64"))
    [] op.name = "I32Add" -> Emit(Arithmetic32("Add_rm32_r32"))
    [] op.name = "I32Sub" -> Emit(Arithmetic32("Sub_rm32_r32"))
    [] op.name = "Call" -> GenCall(ctx, op.arg)
    [] op.name = "Nop" -> Emit(<<Ins("Nopd", None, None)>>)
    [] op.name = "End" -> Emit(<<>>)
    [] op.name = "LocalGet" /\ op.arg < Len(slots) ->
         Emit(<<Load("rax", Slot(slots[op.arg + 1])), Push("rax")>>)
    [] op.name = "LocalSet" /\ op.arg < Len(slots) ->
         Emit(<<Pop("rax"), Store(Slot(slots[op.arg + 1]), "rax")>>)
    [] OTHER -> Panic

-----------------------------------------------------------------------------
(* wasmparser's operand stack, a sequence of types: what an operator takes *)
(* off it and puts on it, by the declared types.  local_types are the      *)
(* parameters and the declared locals.                                     *)
Pops(ctx, sig, op) ==
  CASE op.name \in {"I64Add", "I64Sub"} -> <<"I64", "I64">>
    [] op.name \in {"I32Add", "I32Sub"} -> <<"I32", "I32">>
    [] op.name = "LocalSet" -> <<sig.local_types[op.arg + 1]>>
    [] op.name = "Call" -> DeclaredType(ctx, op.arg).params
    [] op.name = "End" -> sig.returns
    [] OTHER -> <<>>

Pushes(ctx, sig, op) ==
  CASE op.name \in {"I64Add", "I64Sub", "I64Const"} -> <<"I64">>
    [] op.name \in {"I32Add", "I32Sub"} -> <<"I32">>
    [] op.name = "LocalGet" -> <<sig.local_types[op.arg + 1]>>
    [] op.name = "Call" -> DeclaredType(ctx, op.arg).returns
    [] op.name = "End" -> sig.returns
    [] OTHER -> <<>>

EndsWith(stack, types) ==
  /\ Len(types) <= Len(stack)
  /\ SubSeq(stack, Len(stack) - Len(types) + 1, Len(stack)) = types

(* op? and func_validator.op: the operator is valid, the indices exist, the *)
(* operands have their types and nothing but the results is left at the    *)
(* end.                                                                    *)
Accepts(ctx, sig, stack, op) ==
  /\ op.name \notin InvalidOperators
  /\ op.name \in {"LocalGet", "LocalSet"} => op.arg < Len(sig.local_types)
  /\ op.name = "Call" => op.arg \in DOMAIN ctx.types
  /\ EndsWith(stack, Pops(ctx, sig, op))
  /\ op.name = "End" => stack = sig.returns

StackAfter(ctx, sig, stack, op) ==
  SubSeq(stack, 1, Len(stack) - Len(Pops(ctx, sig, op))) \o Pushes(ctx, sig, op)

(* Mutant of GenOperators: the last height instead of the largest.         *)
GenOperatorsLastHeight(ctx, slots, sig, body) ==
  FoldOnce(LAMBDA acc, op :
             LET gen == handle_instruction(ctx, slots, op) IN
             IF acc.status # "ok" THEN acc
             ELSE IF ~acc.open \/ ~Accepts(ctx, sig, acc.stack, op)
             THEN [acc EXCEPT !.status = "err"]
             ELSE [status |-> gen.status,
                   code   |-> acc.code \o gen.code,
                   stack  |-> StackAfter(ctx, sig, acc.stack, op),
                   height |-> Len(StackAfter(ctx, sig, acc.stack, op)),
                   open   |-> op.name # "End"],
           [status |-> "ok", code |-> <<>>, stack |-> <<>>, height |-> 0, open |-> TRUE], body)

(* mod.rs:384-400: the operators of a body, and the largest height of the  *)
(* operand stack.  The first rejected operator ends in Err, the first      *)
(* unsupported one in a panic.  Blocks are not supported, so End closes    *)
(* the body, and the validator rejects what follows it.                    *)
GenOperator(ctx, slots, sig, acc, op) ==
  LET gen   == handle_instruction(ctx, slots, op)
      stack == StackAfter(ctx, sig, acc.stack, op)
  IN IF acc.status # "ok" THEN acc
     ELSE IF ~acc.open \/ ~Accepts(ctx, sig, acc.stack, op)
     THEN [acc EXCEPT !.status = "err"]
     ELSE [status |-> gen.status,
           code   |-> acc.code \o gen.code,
           stack  |-> stack,
           height |-> Larger(acc.height, Len(stack)),
           open   |-> op.name # "End"]

GenOperators(ctx, slots, sig, body) ==
  FoldOnce(LAMBDA acc, op : GenOperator(ctx, slots, sig, acc, op),
           [status |-> "ok", code |-> <<>>, stack |-> <<>>, height |-> 0, open |-> TRUE], body)

(* mod.rs:357-382.  There is one register for each parameter (more than    *)
(* six panic), so the arguments on the stack are never read.  pop_back     *)
(* takes the registers from the last one.                                  *)
Spills(params, slots) ==
  [i \in DOMAIN params |-> Store(Slot(slots[i]), IntegerOrder[Len(params) + 1 - i])]

(* Mutant of ResultPops: both registers, however many results there are.   *)
ResultPopsBoth(returns) == [i \in DOMAIN ReturnOrder |-> Pop(ReturnOrder[i])]

(* mod.rs:408-417. *)
ResultPops(returns) ==
  LET results == FirstN(ReturnOrder, Len(returns))
  IN [i \in DOMAIN results |-> Pop(results[i])]

(* mod.rs:348-355 and 419-426. *)
AdjustStack(code, size) ==
  IF size > 0 THEN <<Ins(code, Reg("rsp"), Imm(size))>> ELSE <<>>

Prologue == <<Push("rbp"), MovReg("rbp", "rsp")>>
Epilogue == <<MovReg("rsp", "rbp"), Pop("rbp"), Ret>>

(* The types of the declared locals, one for each local. *)
DeclaredLocals(declared) ==
  FoldOnce(LAMBDA acc, d : acc \o [i \in 1 .. d.count |-> d.ty], <<>>, declared)

(* mod.rs:325 and 332: drain past the six registers, and todo!() on a      *)
(* parameter without a size.                                               *)
ParamsPanic(params) ==
  Len(params) > Len(IntegerOrder) \/ ~(Range(params) \subseteq Sized)

NoCode(status) == [status |-> status, code |-> <<>>, height |-> 0]

(* mod.rs:309-432: function f, of which the frame, the spills and the      *)
(* results follow the type that is looked up, and the validation follows   *)
(* the declared one.  readable: whether the reader of the body finds its   *)
(* operators, which are behind the locals (mod.rs:320).  In the order of   *)
(* the code: unwrap, the reader, the parameters, the locals, the todo!()   *)
(* of the spills (mod.rs:380), the operators, finish (mod.rs:402: a body   *)
(* ends with End) and the todo!() of the results (mod.rs:415).             *)
GenFunction(ctx, f, readable, declared, body) ==
  LET type   == LookupType(ctx, f)
      sig    == [returns     |-> DeclaredType(ctx, f).returns,
                 local_types |-> DeclaredType(ctx, f).params \o DeclaredLocals(declared)]
      layout == LocalSlots(type.params, declared, MaxLocals - Len(DeclaredType(ctx, f).params))
      ops    == GenOperators(ctx, layout.slots, sig, body)
  IN IF ~HasLookup(ctx, f) THEN NoCode("panic")
     ELSE IF ~readable THEN NoCode("err")
     ELSE IF ParamsPanic(type.params) THEN NoCode("panic")
     ELSE IF layout.status # "ok" THEN NoCode(layout.status)
     ELSE IF ~(Range(type.params) \subseteq Integer) THEN NoCode("panic")
     ELSE IF ops.status # "ok" THEN NoCode(ops.status)
     ELSE IF ops.open THEN NoCode("err")
     ELSE IF ~(Range(type.returns) \subseteq Integer) THEN NoCode("panic")
     ELSE [status |-> "ok",
           code   |-> Prologue \o AdjustStack("Sub_rm64_imm32", layout.size)
                      \o Spills(type.params, layout.slots) \o ops.code
                      \o ResultPops(type.returns)
                      \o AdjustStack("Add_rm64_imm32", layout.size) \o Epilogue,
           height |-> ops.height]

=============================================================================
