------------------------------ MODULE Optimizer ------------------------------
(***************************************************************************)
(* The peephole optimiser of the compiler                                  *)
(* (parawasm/src/x86_64/optimizer.rs): passes over the instructions, until *)
(* a pass changes nothing.  A pass moves a window over the instructions,   *)
(* rewrites or drops what it recognises, and shifts the labels of the      *)
(* instructions it has not reached yet.                                    *)
(*                                                                         *)
(* Indices of instructions start at 0, as in the code: At(s, i) is s[i].   *)
(***************************************************************************)
EXTENDS Integers, Sequences

CONSTANTS
  Registers,    \* the registers of the code
  Operands,     \* all operands: registers, memory, immediate values, labels
  OtherCodes,   \* the instructions that are neither PUSH, POP nor MOV
  Labels,       \* CodeLabel
  Inputs        \* what optimize is called with: instructions and labels

(* An instruction is its Code and its operands.  A MOV of code             *)
(* Mov_rm64_r64 may have a memory destination.                             *)
Instruction ==
  [code: {"Push_r64", "Pop_r64", "Mov_rm64_r64"} \cup OtherCodes,
   op0: Operands, op1: Operands]

ASSUME OptimizerAssumption ==
  /\ Registers \subseteq Operands
  /\ OtherCodes \cap {"Push_r64", "Pop_r64", "Mov_rm64_r64"} = {}
  /\ Inputs \subseteq [instructions: Seq(Instruction), labels: [Labels -> Nat]]

VARIABLES
  pc,        \* "pass", "compare" or "done"
  current,   \* current_instructions
  labels,    \* the index of each label in current
  head_idx,  \* how many instructions of current the pass has consumed
  new,       \* new_instructions
  labels_,   \* the index of each label after the shifts of this pass
  source     \* history: the index in current that each instruction of new
             \* comes from

vars == <<pc, current, labels, head_idx, new, labels_, source>>

TypeOK ==
  /\ pc \in {"pass", "compare", "done"}
  /\ current \in Seq(Instruction)
  /\ labels \in [Labels -> Nat]
  /\ head_idx \in 0 .. Len(current)
  /\ new \in Seq(Instruction)
  /\ labels_ \in [Labels -> Nat]
  /\ source \in Seq(Nat) /\ Len(source) = Len(new)

-----------------------------------------------------------------------------
At(s, i) == s[i + 1]

(* Instructions no pass touches.  The code generator binds labels only to  *)
(* the start of a function, after a RET, and to data (mod.rs:275, 290 and  *)
(* 319): the instruction before a label is always one of these.            *)
Fixed(i) == i.code \in OtherCodes

LabelsBehindFixed(instructions, label_indices) ==
  \A l \in Labels :
    /\ label_indices[l] <= Len(instructions)
    /\ label_indices[l] = 0 \/ Fixed(At(instructions, label_indices[l] - 1))

ASSUME InputsAssumption ==
  \A i \in Inputs : LabelsBehindFixed(i.instructions, i.labels)

Mov(to, from) == [code |-> "Mov_rm64_r64", op0 |-> to, op1 |-> from]

(* OpKind::Register for both operands. *)
IsRegisterMov(i) ==
  i.code = "Mov_rm64_r64" /\ i.op0 \in Registers /\ i.op1 \in Registers

(* optimizer.rs:39, 52-59 and 70-73, on the window head[0], head[1]. *)
IsPushPop(i, j) == i.code = "Push_r64" /\ j.code = "Pop_r64"

IsMovBack(i, j) ==
  IsRegisterMov(i) /\ IsRegisterMov(j) /\ i.op0 = j.op1 /\ j.op0 = i.op1

IsMovSelf(i) == IsRegisterMov(i) /\ i.op0 = i.op1

Remaining == Len(current) - head_idx
Head0 == At(current, head_idx)
Head1 == At(current, head_idx + 1)

MatchPushPop == Remaining >= 2 /\ IsPushPop(Head0, Head1)
MatchMovBack == Remaining >= 2 /\ IsMovBack(Head0, Head1)
MatchMovSelf == Remaining >= 1 /\ IsMovSelf(Head0)

(* Mutant of update_labels: the index that is shifted is compared, not the *)
(* index before the pass.                                                  *)
update_labels_shifted(head, count) ==
  labels_' = [l \in Labels |-> IF labels_[l] >= head THEN labels_[l] - count ELSE labels_[l]]

(* Mutant of update_labels: the labels behind the window are shifted too.  *)
update_labels_everywhere(head, count) ==
  labels_' = [l \in Labels |-> labels_[l] - count]

(* optimizer.rs:97-103, called with minus count. *)
update_labels(head, count) ==
  labels_' = [l \in Labels |-> IF labels[l] >= head THEN labels_[l] - count ELSE labels_[l]]

-----------------------------------------------------------------------------
(* optimizer.rs:38-49: PUSH reg + POP reg. *)
PushPop ==
  /\ pc = "pass"
  /\ MatchPushPop
  /\ new' = Append(new, Mov(Head1.op0, Head0.op0))
  /\ source' = Append(source, head_idx)
  /\ head_idx' = head_idx + 2
  /\ update_labels(head_idx', 1)
  /\ UNCHANGED <<pc, current, labels>>

(* Mutant of MovBack: the second MOV is kept, its label is shifted by two. *)
MovBackKeepingOne ==
  /\ pc = "pass"
  /\ ~MatchPushPop /\ MatchMovBack
  /\ new' = Append(new, Head0)
  /\ source' = Append(source, head_idx)
  /\ head_idx' = head_idx + 2
  /\ update_labels(head_idx', 2)
  /\ UNCHANGED <<pc, current, labels>>

(* optimizer.rs:51-66: MOV reg1, reg2 + MOV reg2, reg1. *)
MovBack ==
  /\ pc = "pass"
  /\ ~MatchPushPop /\ MatchMovBack
  /\ head_idx' = head_idx + 2
  /\ update_labels(head_idx', 2)
  /\ UNCHANGED <<pc, current, labels, new, source>>

(* optimizer.rs:68-80: MOV reg, reg. *)
MovSelf ==
  /\ pc = "pass"
  /\ ~MatchPushPop /\ ~MatchMovBack /\ MatchMovSelf
  /\ head_idx' = head_idx + 1
  /\ update_labels(head_idx', 1)
  /\ UNCHANGED <<pc, current, labels, new, source>>

(* Mutant of Keep: the instruction is put at the front.                    *)
KeepAtFront ==
  /\ pc = "pass"
  /\ Remaining >= 1
  /\ ~MatchPushPop /\ ~MatchMovBack /\ ~MatchMovSelf
  /\ new' = <<Head0>> \o new
  /\ source' = <<head_idx>> \o source
  /\ head_idx' = head_idx + 1
  /\ UNCHANGED <<pc, current, labels, labels_>>

(* optimizer.rs:82-85. *)
Keep ==
  /\ pc = "pass"
  /\ Remaining >= 1
  /\ ~MatchPushPop /\ ~MatchMovBack /\ ~MatchMovSelf
  /\ new' = Append(new, Head0)
  /\ source' = Append(source, head_idx)
  /\ head_idx' = head_idx + 1
  /\ UNCHANGED <<pc, current, labels, labels_>>

(* optimizer.rs:87-94. *)
EndPass ==
  /\ pc = "pass"
  /\ Remaining = 0
  /\ labels' = labels_
  /\ pc' = "compare"
  /\ UNCHANGED <<current, head_idx, new, labels_, source>>

(* Mutant of Return: one pass only.                                        *)
ReturnAfterOnePass ==
  /\ pc = "compare"
  /\ pc' = "done"
  /\ current' = new
  /\ UNCHANGED <<labels, head_idx, new, labels_, source>>

(* optimizer.rs:16-18. *)
Return ==
  /\ pc = "compare"
  /\ new = current
  /\ pc' = "done"
  /\ UNCHANGED <<current, labels, head_idx, new, labels_, source>>

(* Mutant of NextPass: the comparison is left out.                         *)
NextPassAlways ==
  /\ pc = "compare"
  /\ current' = new
  /\ head_idx' = 0
  /\ new' = <<>>
  /\ labels_' = labels
  /\ source' = <<>>
  /\ pc' = "pass"
  /\ UNCHANGED labels

(* optimizer.rs:21 and 29-35: the next pass. *)
NextPass ==
  /\ pc = "compare"
  /\ new # current
  /\ current' = new
  /\ head_idx' = 0
  /\ new' = <<>>
  /\ labels_' = labels
  /\ source' = <<>>
  /\ pc' = "pass"
  /\ UNCHANGED labels

-----------------------------------------------------------------------------
StartWith(instructions, label_indices) ==
  /\ pc = "pass"
  /\ current = instructions
  /\ labels = label_indices
  /\ head_idx = 0
  /\ new = <<>>
  /\ labels_ = label_indices
  /\ source = <<>>

Init == \E i \in Inputs : StartWith(i.instructions, i.labels)

Next ==
  PushPop \/ MovBack \/ MovSelf \/ Keep \/ EndPass \/ Return \/ NextPass

Spec == Init /\ [][Next]_vars /\ WF_vars(Next)

-----------------------------------------------------------------------------
(* During a pass, a label stands for the place between what comes from     *)
(* before its instruction and what comes from it or after it.              *)
LabelsKeepPlace ==
  pc = "pass" =>
    \A l \in Labels : labels[l] <= head_idx =>
      /\ labels_[l] <= Len(new)
      /\ \A j \in 1 .. Len(new) : j <= labels_[l] <=> source[j] < labels[l]

(* After every pass a label is again the start or behind an instruction    *)
(* that no pass touches: never inside a pair that the next pass rewrites.  *)
LabelsStayBehindFixed == LabelsBehindFixed(IF pc = "compare" THEN new ELSE current, labels)

(* No pass drops or reorders an instruction it does not recognise.         *)
FixedKept ==
  /\ \A i \in 0 .. head_idx - 1 :
       Fixed(At(current, i)) =>
         \E j \in 1 .. Len(new) : source[j] = i /\ new[j] = At(current, i)
  /\ \A j, k \in 1 .. Len(new) : j < k => source[j] < source[k]

(* At the end nothing is left to rewrite. *)
FixedPoint ==
  pc = "done" =>
    \A i \in 0 .. Len(current) - 1 :
      /\ ~IsMovSelf(At(current, i))
      /\ i + 1 < Len(current) =>
           /\ ~IsPushPop(At(current, i), At(current, i + 1))
           /\ ~IsMovBack(At(current, i), At(current, i + 1))

(* optimize returns: every pass but the last one shortens the code. *)
Terminates == <>(pc = "done")

=============================================================================
