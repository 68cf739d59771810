SPECIFICATION PFairSpec
CONSTANTS
  p1 = p1
  p2 = p2
  Procs <- MCProcs
  Creator = p1
  MaxFds = 2
  Capacity = 2
  Bytes <- MCBytes
  Readers <- MCOneProc
  Interrupted <- MCOneProc
CHECK_DEADLOCK FALSE
INVARIANTS
  PTypeOK
  CountsAreDescriptors
  

  
  
