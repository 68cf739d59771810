SPECIFICATION WFairSpec
CONSTANTS
  k1 = k1
  a1 = a1
  a2 = a2
  w1 = w1
  w2 = w2
  Kthreads <- MCKthreads
  Callers <- MCOneClient
  Works <- MCWorks
  ExitCodes <- MCCodes
  NumCpus = 1
  MaxSpawnFailures = 0
PROPERTY AcceptedWorkCompletes
