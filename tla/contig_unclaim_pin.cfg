CONSTANTS
  Thread = {t1, t2}
  Allocator = {t1}
  Claimer = {t2}
  HighestPfn = 7
  GenericFloorPfn = 1
  PageBytes = 2
  WindowPages = 8
  InstanceBase = 5
  HeapCeiling = 7
  AddressModulus = 32
  InitialSlots = 2
  MaxSlots = 4
  MaxLive = 2
  MaxMapped = 1
  MaxBucket = 0
  Requests <- Pins
  Claims = {0, 4}
  BootFree <- Supplied
SPECIFICATION Spec
INVARIANTS NoFrameShared
