CONSTANTS
  Frame = {1, 2, 3, 4}
  PageSize = 2
  Granularity = 4
  Lowest = 4
  Highest = 12
  TableSpan = 8
  Modulus = 32
  Bases = {4, 7}
  Sizes = {2, 6}
  Protects = {"noaccess", "readwrite"}
  RunLength = 2
  Concurrent = FALSE
SPECIFICATION Spec
PROPERTIES FailureRestores
