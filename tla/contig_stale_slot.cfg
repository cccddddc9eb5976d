CONSTANTS
  Thread = {t1, t2}
  Allocator = {t1, t2}
  Claimer = {}
  HighestPfn = 7
  GenericFloorPfn = 1
  PageBytes = 2
  WindowPages = 8
  InstanceBase = 5
  HeapCeiling = 7
  AddressModulus = 32
  InitialSlots = 2
  MaxSlots = 4
  MaxLive = 3
  MaxMapped = 1
  MaxBucket = 1
  Requests <- Small
  Claims = {}
  BootFree <- Supplied
SPECIFICATION Spec
INVARIANTS Tracked
