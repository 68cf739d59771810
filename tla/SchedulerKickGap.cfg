SPECIFICATION Spec
CONSTANTS
  u1 = u1
  k1 = k1
  NumCpus = 2
  Threads <- MCTwo
  UserThreads <- MCOneUser
  WaitKinds <- MCNone
  KickGap = TRUE
  KilledRunsOn = FALSE
  MaxIncidents = 0
INVARIANT SoleExecutor
