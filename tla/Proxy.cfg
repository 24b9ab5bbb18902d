SPECIFICATION FairSpec
CONSTANTS
  c1 = c1
  Conns = {c1}
  MaxBytes = 2
  Capacity = 2
  BufSize = 2
INVARIANTS
  TypeOK
  NoIoOnClosedGuest
  CrashOnlyInShutdown
  NothingLeftOnReturn
PROPERTIES
  EndToEnd
  ClientSeesEnd
  HandlerEnds
  ShutdownReturns
\* The program may have exited.
CHECK_DEADLOCK FALSE
