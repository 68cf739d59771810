SPECIFICATION WSpec
CONSTANTS
  k1 = k1
  a1 = a1
  a2 = a2
  w1 = w1
  w2 = w2
  Kthreads <- MCKthreads
  Callers <- MCClients
  Works <- MCOneWork
  ExitCodes <- MCCodes
  NumCpus = 2
  MaxSpawnFailures = 1
SYMMETRY MCSymmetry
INVARIANTS
  WTypeOK
  PendingInOnePlace
  FlushWaits
  
  JoinSeesTheEnd
