SPECIFICATION Spec
CONSTANTS
  c1 = c1
  c2 = c2
  c3 = c3
  Cores <- TwoCores
  Programs <- HarnessPrograms
  FifoSize = 2
INVARIANT ConfiguredByAll
CHECK_DEADLOCK FALSE
