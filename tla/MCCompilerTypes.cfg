SPECIFICATION Spec
CONSTANTS
  MaxFunctions = 3
  MaxLocals = 8
  U32End = 512
  Addresses = {}
  LinkNames = {}
  Modules <- TypesSwapped
INVARIANT SupportedNeverPanics
\* compile has returned.
CHECK_DEADLOCK FALSE
