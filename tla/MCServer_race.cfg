SPECIFICATION FairSpec
CONSTANTS
  r1 = r1
  r2 = r2
  c1 = c1
  c2 = c2
  p1 = p1
  p2 = p2
  w1 = w1
  redis = redis
  s3 = s3
  NoData = NoData
  NoCert = NoCert
  NoProc = NoProc
  NotDispersed = NotDispersed
  NoStatus = NoStatus
  Certs = {c1, c2}
  Forged = {}
  Payloads = {p1, p2}
  Requests = {r1, r2}
  Workers = {}
  Sources = {redis, s3}
  Caches <- MCNoTargets
  Fallbacks <- MCNoTargets
  WriteOnCacheMiss = FALSE
  Faults = FALSE
  Corruption = FALSE
  Stores = {"V1"}
  InitialBackend = "V1"
  DAFaults = FALSE
  AdminEnabled = TRUE
  MaxRestarts = 0
  UsedVersions = {"v0", "v2"}
  OthersVersions = {"v0", "v2"}
  UsedRecencies = {"recent"}
PROPERTIES
  AckedFindsItsStore
