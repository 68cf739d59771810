SPECIFICATION Spec
CONSTANTS
  u1 = u1
  k1 = k1
  NumCpus = 2
  Threads <- MCTwo
  UserThreads <- MCOneUser
  WaitKinds <- MCKinds
  KickGap = FALSE
  KilledRunsOn = FALSE
  MaxIncidents = 1
INVARIANTS
  
  SoleExecutor
  QueuesHoldOneEntry
  RunnableHasOwner
  
PROPERTY
  TerminatedIsFinal
