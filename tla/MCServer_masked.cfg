SPECIFICATION Spec
CONSTANTS
  r1 = r1
  r2 = r2
  c1 = c1
  c2 = c2
  p1 = p1
  p2 = p2
  w1 = w1
  redis = redis
  s3 = s3
  NoData = NoData
  NoCert = NoCert
  NoProc = NoProc
  NotDispersed = NotDispersed
  NoStatus = NoStatus
  Certs = {c1, c2}
  Forged = {c2}
  Payloads = {p1, p2}
  Requests = {r1, r2}
  Workers = {w1}
  Sources = {redis, s3}
  Caches <- MCRedis
  Fallbacks <- MCS3
  WriteOnCacheMiss = TRUE
  Faults = FALSE
  Corruption = FALSE
  Stores = {"V1", "V2"}
  InitialBackend = "V2"
  DAFaults = FALSE
  AdminEnabled = FALSE
  MaxRestarts = 0
  UsedVersions = {"v0", "v1", "v2"}
  OthersVersions = {"v0", "v1", "v2"}
  UsedRecencies = {"recent", "stale", "impossible"}
INVARIANTS
  InvalidCertIsTeapot
