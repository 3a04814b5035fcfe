SPECIFICATION EmulatorSpec
CONSTANTS
  MaxFunctions = 3
  MaxLocals = 8
  U32End = 512
  Addresses = {}
  LinkNames = {}
  Modules <- MCTestModules
  MemorySize = 1024
  NativeCodes <- MCNativeCodes
  ArgValues <- MCArgValues
  MaxModules = 2
  MaxOperations = 5
INVARIANTS
  EmulatorTypeOK
  ComputesWasm
  CountsExact
  StackKept
PROPERTY CallsReturn
\* A test ends, and none of its calls has to be made.
CHECK_DEADLOCK FALSE
