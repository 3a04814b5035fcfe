---------------------------- MODULE MCOptimizer ----------------------------
(* Every code of at most MaxLen instructions over two registers, with two  *)
(* labels wherever the code generator could put them.                      *)
EXTENDS Optimizer, FiniteSets, TLC

CONSTANTS MaxLen, l1, l2

Memory == "memory"
MCOperands == {"rax", "rbp", Memory}

MCLabels == {l1, l2}

(* One instruction of each kind that the optimiser tells apart. *)
MCInstructions ==
  {[code |-> "Push_r64", op0 |-> r, op1 |-> r] : r \in Registers}
  \cup {[code |-> "Pop_r64", op0 |-> r, op1 |-> r] : r \in Registers}
  \cup {Mov(r, s) : r \in Registers, s \in Registers}
  \cup {Mov(Memory, CHOOSE r \in Registers : TRUE)}
  \cup {[code |-> c, op0 |-> Memory, op1 |-> Memory] : c \in OtherCodes}

Codes == UNION {[1 .. n -> MCInstructions] : n \in 0 .. MaxLen}

MCInputs ==
  {i \in [instructions: Codes, labels: [MCLabels -> 0 .. MaxLen]] :
     /\ i.labels[l1] <= i.labels[l2]
     /\ LabelsBehindFixed(i.instructions, i.labels)}

=============================================================================
