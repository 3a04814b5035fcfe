SPECIFICATION Spec
CONSTANTS
  c1 = c1
  c2 = c2
  c3 = c3
  Cores <- MCCores
  Package <- OneSocket
  Tests <- MCTests
  MaxFails = 2
INVARIANTS
  TypeOK
  OneLeader
  SuccessIsSound
  ReportComplete
PROPERTY Verdict
\* Nothing happens once QEMU has exited.
CHECK_DEADLOCK FALSE
