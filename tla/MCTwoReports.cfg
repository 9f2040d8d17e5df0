SPECIFICATION Spec
CONSTANTS
  None = None
  s1 = s1
  s2 = s2
  r1 = r1
  r2 = r2
  u1 = u1
  u2 = u2
  u3 = u3
  d1 = d1
  d2 = d2
  c1 = c1
  c2 = c2
  Sessions <- TwoSessions
  Reports <- TwoReports
  Uploads <- TwoUploads
  Documents <- OneDocument
  Cleaners <- OneCleaner
  Faults <- NoFaults
  MaxPhotos = 1
  MaxRevision = 2
  MaxFaults = 1
SYMMETRY Symmetry
INVARIANTS
  PhotosLinked
CHECK_DEADLOCK FALSE
