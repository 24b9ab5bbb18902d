SPECIFICATION ClientReadSpec
CONSTANTS
  MaxBytes = 2
  Capacity = 1
  BufSize = 2
PROPERTY EofIndependentOfStdin
\* Everything may have been sent, received and closed.
CHECK_DEADLOCK FALSE
