SPECIFICATION Spec
CONSTANTS
  s1 = s1
  s2 = s2
  r1 = r1
  r2 = r2
  r3 = r3
  Sessions = {s1, s2}
  Runs = {r1, r2, r3}
  None = None
SYMMETRY ProvisionSymmetry
INVARIANTS
  TypeOK
  MountedSourcesWhole
  CacheHeals
\* Every run may have ended.
CHECK_DEADLOCK FALSE
