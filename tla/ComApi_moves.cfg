SPECIFICATION Spec
CONSTANTS
  t1 = t1
  t2 = t2
  Threads = {t1, t2}
  Inputs <- MCInputs
  Half = 8
  Upper = {0, 15}
  HResults = {0, 1, 8}
  hrRPCETooLate = 9
  DefaultCpu = 2
  DefaultMem = 3
  DefaultBoot = 5
  MiB = 4
  PerMs = 4
  BufLen = 2
  StackMoves = TRUE
INVARIANT CallsReachObjects
\* Every session may have ended.
CHECK_DEADLOCK FALSE
