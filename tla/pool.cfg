CONSTANTS
  Thread = {t1, t2}
  NxpClassSize <- TwoClasses
  PageSize = 64
  HeaderSize = 8
  SmallMax = 56
  Granule = 16
  Pages = 3
  BigEntries = 1
  Sizes = {0, 25, 65}
  MaxHeld = 4
SYMMETRY ThreadSymmetry
SPECIFICATION Spec
INVARIANTS BlocksDisjoint BucketsExact PagesPartitioned BigTableExact BlockFits
