CONSTANTS
  Thread = {t1, t2}
  Allocator = {t1, t2}
  Claimer = {}
  HighestPfn = 7
  GenericFloorPfn = 3
  PageBytes = 2
  WindowPages = 8
  InstanceBase = 5
  HeapCeiling = 7
  AddressModulus = 32
  InitialSlots = 1
  MaxSlots = 4
  MaxLive = 3
  MaxMapped = 2
  MaxBucket = 0
  Requests <- Ordinary
  Claims = {}
  BootFree <- Short
SPECIFICATION Spec
INVARIANTS NoFrameShared NoFrameLost Tracked WithinWindow
SYMMETRY Alike
