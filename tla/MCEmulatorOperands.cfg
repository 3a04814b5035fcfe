SPECIFICATION EmulatorSpec
CONSTANTS
  MaxFunctions = 3
  MaxLocals = 8
  U32End = 512
  Addresses = {}
  LinkNames = {}
  Modules <- OperandModules
  MemorySize = 1024
  NativeCodes <- MCNativeCodes
  ArgValues = {10, 52}
  MaxModules = 1
  MaxOperations = 2
INVARIANTS
  ComputesWasm
\* A test ends, and none of its calls has to be made.
CHECK_DEADLOCK FALSE
