SPECIFICATION FairSpec
CONSTANTS
  MaxBytes = 3
  Capacity = 2
  BufSize = 2
INVARIANTS
  TypeOK
PROPERTIES
  UpIsPipe
  DownIsPipe
  EofArrives
  RelayEnds
\* Everything may have been sent, received and closed.
CHECK_DEADLOCK FALSE
