SPECIFICATION KFairSpec
CONSTANTS
  k1 = k1
  a1 = a1
  a2 = a2
  Kthreads <- MCKthreads
  Callers <- MCCallers
  ExitCodes <- MCCodes
  NumCpus = 1
INVARIANTS
  KTypeOK
  JoinSeesTheEnd
  TerminatedIsPublished
PROPERTY
  StopLeadsToExit
