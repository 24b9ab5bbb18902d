SPECIFICATION Spec
CONSTANTS
  d1 = d1
  d2 = d2
  u1 = u1
  u2 = u2
  h1 = h1
  h2 = h2
  h3 = h3
  Dials = {d1, d2}
  Users = {u1, u2}
  Handles = {h1, h2, h3}
  NoHandle = NoHandle
  Nobody = Nobody
  MaxSends = 1
SYMMETRY DialSymmetry
INVARIANTS
  TypeOK
  TeardownOwnsSockets
  ClosedConnHoldsNothing
  ProcessReleasedOnce
  HandlesNeedProcess
  SpawnFindsBridge
\* Every dial may have been made and every connection closed.
CHECK_DEADLOCK FALSE
