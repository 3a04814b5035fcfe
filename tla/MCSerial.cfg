SPECIFICATION Spec
CONSTANTS
  c1 = c1
  c2 = c2
  c3 = c3
  Cores <- ThreeCores
  Programs <- KernelPrograms
  FifoSize = 2
INVARIANTS
  TypeOK
  Configured
  TextInOrder
PROPERTIES
  PolledNotLost
  Drained
CHECK_DEADLOCK FALSE
