SPECIFICATION Spec
CONSTANTS
  Uint64 = 16
  MaxBlock = 15
  SrsOrder = 64
  MaxCodingRatio = 8
INVARIANTS
  LayersAreRefused
