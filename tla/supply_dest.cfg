SPECIFICATION Spec
CONSTANTS
    HighestPfn = 8
    KernelLowPfn = 7
    KernelHighPfn = 8
    GenericFloorPfn = 3
    BootFree = {1, 2, 4, 5, 6, 7}
    BootHeld = {8}
    ClaimPages = {5}
    Ptes = {1, 2}
    WordSize = 16
    Requests <- PinRequests
INVARIANT DestFound
