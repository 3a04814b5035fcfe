SPECIFICATION Spec
CONSTANTS
  c1 = c1
  c2 = c2
  c3 = c3
  Cores <- MCCores
  Package <- MCPackage
  ApicId <- X2ApicId
  bspid = 256
  quiet = FALSE
  MmapLen = 3
  AddressEnd = 128
  BlockEnd = 32
  BootInfo <- MCBootInfo
INVARIANT InitBeforeRelease
CHECK_DEADLOCK FALSE
