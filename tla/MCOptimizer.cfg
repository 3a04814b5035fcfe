SPECIFICATION Spec
CONSTANTS
  l1 = l1
  l2 = l2
  MaxLen = 4
  Registers = {"rax", "rbp"}
  Operands <- MCOperands
  OtherCodes = {"Retnq"}
  Labels <- MCLabels
  Inputs <- MCInputs
INVARIANTS
  TypeOK
  LabelsKeepPlace
  LabelsStayBehindFixed
  FixedKept
  FixedPoint
PROPERTY Terminates
\* optimize has returned.
CHECK_DEADLOCK FALSE
