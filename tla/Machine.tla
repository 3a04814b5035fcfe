------------------------------- MODULE Machine -------------------------------
(***************************************************************************)
(* The processor on which the generated code runs, as far as that code     *)
(* uses it: what one instruction does to the registers, to the bytes of    *)
(* the memory and to rip.  The processor is external.  It is scaled down:  *)
(* a byte has two bits, so that a word, which has eight bytes as on        *)
(* x86-64, has sixteen.                                                    *)
(***************************************************************************)
EXTENDS CodeGen, TLC

WordSize == 8
ByteValues == 4
Word == ByteValues ^ WordSize

(* An operand of assembled code: the word at an address. *)
At(address) == <<"at", address>>

(* Memory is a function of the bytes that were written; the others are 0. *)
Put(mem, address, value) ==
  [a \in address .. address + WordSize - 1 |->
     (value \div ByteValues ^ (a - address)) % ByteValues] @@ mem

Byte(mem, address) == IF address \in DOMAIN mem THEN mem[address] ELSE 0

Get(mem, address) ==
  FoldOnce(LAMBDA n, k : n * ByteValues + Byte(mem, address + WordSize - k), 0,
           [k \in 1 .. WordSize |-> k])

(* The value of an operand, and the machine with another value in it. *)
Place(m, op) == IF op[1] = "at" THEN op[2] ELSE (m.reg["rbp"] - op[2]) % Word

Value(m, op) ==
  CASE op[1] = "imm" -> op[2] % Word
    [] op[1] \in {"at", "rbp-"} -> Get(m.mem, Place(m, op))
    [] OTHER -> m.reg[op[1]]

Assign(m, op, value) ==
  IF op[1] = "rbp-"
  THEN [m EXCEPT !.mem = Put(@, Place(m, op), value)]
  ELSE [m EXCEPT !.reg[op[1]] = value % Word]

PushWord(m, value) ==
  LET rsp == (m.reg["rsp"] - WordSize) % Word
  IN [m EXCEPT !.reg["rsp"] = rsp, !.mem = Put(@, rsp, value)]

TopWord(m) == Get(m.mem, m.reg["rsp"])

DropWord(m) == [m EXCEPT !.reg["rsp"] = (@ + WordSize) % Word]

(* One instruction; a branch goes to the address in its operand. *)
Execute(m, i) ==
  LET next == [m EXCEPT !.rip = @ + Length(i)]
      To(value) == Assign(next, i.op0, value)
  IN CASE i.code = "Push_r64" -> PushWord(next, Value(m, i.op0))
       [] i.code = "Pop_r64" -> Assign(DropWord(next), i.op0, TopWord(m))
       [] i.code \in {"Mov_rm64_r64", "Mov_r64_rm64", "Mov_r64_imm64"} -> To(Value(m, i.op1))
       [] i.code \in {"Add_rm64_r64", "Add_rm64_imm32"} -> To(Value(m, i.op0) + Value(m, i.op1))
       [] i.code \in {"Sub_rm64_r64", "Sub_rm64_imm32"} -> To(Value(m, i.op0) - Value(m, i.op1))
       [] i.code \in {"Call_rel32_64", "Call_rm64"} ->
            [PushWord(next, next.rip) EXCEPT !.rip = Value(m, i.op0)]
       [] i.code = "Retnq" -> [DropWord(m) EXCEPT !.rip = TopWord(m)]
       [] i.code = "Nopd" -> next

=============================================================================
