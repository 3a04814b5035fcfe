------------------------------ MODULE CodeTypes ------------------------------
(***************************************************************************)
(* The types of what CodeGen generates and what it is given, for the       *)
(* proofs about the compiler.                                              *)
(***************************************************************************)
EXTENDS CodeGen

Codes == {"Push_r64", "Pop_r64", "Mov_rm64_r64"} \cup AllCodes

(* The operands of which a label is that of a function in got or of an     *)
(* import in ils, and the instructions with such operands.                 *)
Operand(got, ils) ==
  {op \in OperandNames \X Int : /\ op[1] = "got" => op[2] \in got
                                /\ op[1] = "ils" => op[2] \in ils}

Instr(got, ils) == [code: Codes, op0: Operand(got, ils), op1: Operand(got, ils)]

AllRegisters == RegisterNames \cup {"eax", "ebx"}

(* The declared and the looked-up types that a context knows. *)
ContextOK(ctx) ==
  /\ \A t \in DOMAIN ctx.typedefs : ctx.typedefs[t] \in FuncType

(* The types of functions that compile supports: integers only and at most *)
(* six parameters.                                                         *)
SupportedType(type) ==
  /\ Range(type.params) \cup Range(type.returns) \subseteq Integer
  /\ Len(type.params) <= Len(IntegerOrder)

TypesSupported(ctx) == \A t \in DOMAIN ctx.typedefs : SupportedType(ctx.typedefs[t])

(* Induction over the natural numbers, for the set S of those for which    *)
(* something holds.  It is a hypothesis of the lemmas of CodeProofs and    *)
(* LayoutProofs and is proved in CompilerProofs (NatInductive).            *)
Inductive == \A S : 0 \in S /\ (\A n \in Nat : n \in S => n + 1 \in S) => Nat \subseteq S

=============================================================================
