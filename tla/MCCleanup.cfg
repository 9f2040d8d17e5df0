SPECIFICATION FairSpec
CONSTANTS
  None = None
  s1 = s1
  s2 = s2
  r1 = r1
  r2 = r2
  u1 = u1
  u2 = u2
  u3 = u3
  d1 = d1
  d2 = d2
  c1 = c1
  c2 = c2
  Sessions <- OneSession
  Reports <- OneReport
  Uploads <- TwoUploads
  Documents <- OneDocument
  Cleaners <- TwoCleaners
  Faults <- CleanupFaults
  MaxPhotos = 1
  MaxRevision = 2
  MaxFaults = 2
PROPERTIES
  OverdueIsRemoved
CHECK_DEADLOCK FALSE
