SPECIFICATION Spec
CONSTANTS
  v1 = v1
  b1 = b1
  Calls = {v1}
  Batches = {b1}
  EthConfirmationDepth = 0
  WaitForFinalization = TRUE
  ReorgDepth = 2
  Tries = 2
  MaxHead = 3
INVARIANTS
  AcceptedIsFinalized
