SPECIFICATION FairSpec
CONSTANTS
  k1 = k1
  p1 = p1
  p2 = p2
  u1 = u1
  Absent = Absent
  Bad = Bad
  None = None
  Keys = {k1}
  Blobs = {1, 2, 3}
  SRSLength = 2
  Calls = {p1, p2}
  Patches = {u1}
  Expirations = {0, 1}
  InitialExpiration = 1
  MaxAge = 1
  UsedUpdates <- MCUpdates
INVARIANT TypeOK
INVARIANT MapsAgree
PROPERTY WriteOnce
PROPERTY UntimedStay
PROPERTY OtherFieldsIntact
PROPERTY TimedEntriesExpire
PROPERTY CallsReturn
