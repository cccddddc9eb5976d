CONSTANTS
  Thread = {t1, t2}
  Allocator = {t1}
  Claimer = {t2}
  HighestPfn = 7
  GenericFloorPfn = 1
  PageBytes = 2
  WindowPages = 8
  InstanceBase = 5
  HeapCeiling = 7
  AddressModulus = 32
  InitialSlots = 1
  MaxSlots = 4
  MaxLive = 2
  MaxMapped = 1
  MaxBucket = 1
  Requests <- Small
  Claims = {0, 1, 4, 31}
  BootFree <- Supplied
SPECIFICATION Spec
INVARIANTS NoFrameShared Tracked ClaimHolds
