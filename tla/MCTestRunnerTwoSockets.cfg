SPECIFICATION Spec
CONSTANTS
  c1 = c1
  c2 = c2
  c3 = c3
  Cores <- MCCores
  Package <- TwoSockets
  Tests <- MCTests
  MaxFails = 0
INVARIANT OneLeader
CHECK_DEADLOCK FALSE
