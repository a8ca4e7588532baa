SPECIFICATION SSpec
CONSTANTS
  v1 = v1
  b1 = b1
  cert = cert
  payload = payload
  NoObject = NoObject
  NoConfirmation = NoConfirmation
  Calls = {v1}
  Batches = {b1}
  EthConfirmationDepth = 2
  WaitForFinalization = FALSE
  ReorgDepth = 2
  Tries = 2
  MaxHead = 3
  PutTries <- MCDefaultTries
  Retrievers = 2
  Timeout <- MCTimeout
  WriteTimeout = 8
  Values = {cert, payload}
  BackedUp = {cert}
  PayloadOf <- MCPayloadOf
  S3Enabled = TRUE
  RouteMixes <- MCPutV1
INVARIANTS
  FailoverIsDelivered
