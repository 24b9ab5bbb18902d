SPECIFICATION FairSpec
CONSTANTS
  d1 = d1
  u1 = u1
  u2 = u2
  u3 = u3
  h1 = h1
  h2 = h2
  Dials = {d1}
  Users = {u1, u2, u3}
  Handles = {h1, h2}
  NoHandle = NoHandle
  Nobody = Nobody
  MaxSends = 1
PROPERTIES
  DialReturns
  ConnCloseReturns
\* Every dial may have been made and every connection closed.
CHECK_DEADLOCK FALSE
