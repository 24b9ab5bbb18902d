SPECIFICATION FairSpec
CONSTANTS
  c1 = c1
  c2 = c2
  c3 = c3
  c4 = c4
  Callers = {c1, c2, c3, c4}
  Nobody = Nobody
  MaxVolumes = 2
INVARIANTS
  TypeOK
  NoSendOnClosedChannel
  RequestsMeetLiveSession
  CloseReturnsAfterTeardown
  AllOrNothing
  IInv
PROPERTIES
  ImplementsComExecutor
  DoReturns
  CloseReturns
  NewSessionReturns
