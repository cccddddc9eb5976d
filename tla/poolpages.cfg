SPECIFICATION Spec
CONSTANTS
  NXPP_PAGES = 3
  SysPages = 3
  PtPages = 2
  Frames = {f1, f2, f3, f4, f5}
  NoFrame = NoFrame
  NoOwner = NoOwner
  MaxRun = 2
  Transfer = {d1, d2}
  Overlap = FALSE
SYMMETRY FrameSymmetry
INVARIANTS WindowExact FramesExact OwnersExact DmaStill
