SPECIFICATION FairSpec
CONSTANTS
  u1 = u1
  k1 = k1
  NumCpus = 2
  Threads <- MCTwo
  UserThreads <- MCOneUser
  WaitKinds <- MCChild
  KickGap = FALSE
  KilledRunsOn = FALSE
  MaxIncidents = 0
PROPERTY
  ReadyRuns
