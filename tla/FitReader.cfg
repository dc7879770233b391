CONSTANTS
  Modulus = 20
  HeaderLen = 3
  Lens = {2, 14, 16}
  StringsAt = {0, 13}
  DepthMax = 1
  BufferLen = 2
  CellsMax = 1
SPECIFICATION Spec
INVARIANTS
  ReadsInside
  PropsInside
PROPERTIES
  Advances
CHECK_DEADLOCK FALSE
