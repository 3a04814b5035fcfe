SPECIFICATION Spec
CONSTANTS
  c1 = c1
  c2 = c2
  c3 = c3
  Cores <- MCCores
  Package <- MCPackage
  ApicId <- MCApicId
  bspid = 1
  quiet = FALSE
  MmapLen = 3
  AddressEnd = 128
  BlockEnd = 32
  BootInfo <- MCBootInfo
INVARIANTS
  TypeOK
  InitBeforeRelease
  AllArriveFirst
  SerialExclusive
  ConsoleLog
PROPERTIES
  Settles
  ImplementsRendezvous
\* Every core ends in loop {}.
CHECK_DEADLOCK FALSE
