SPECIFICATION Spec
CONSTANTS
  MaxFunctions = 3
  MaxLocals = 8
  U32End = 512
  Addresses = {101, 102}
  LinkNames <- MCLinkNames
  Modules <- MCModules
INVARIANTS
  TypeOK
  OptimizerInput
  EntryPointsExact
  CallsResolve
  ExportsResolve
  OwnStack
  HeightCovers
  FrameSlots
  PanicsExplained
  LinkedSlots
PROPERTY Finishes OnlySlotsChange
\* compile has returned.
CHECK_DEADLOCK FALSE
