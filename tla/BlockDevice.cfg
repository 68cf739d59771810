SPECIFICATION BFairSpec
CONSTANTS
  c1 = c1
  s1 = s1
  Clients <- MCClients
  Sleepers <- MCSleepers
  MaxRequests = 2
  TokenSpace = 3
  MayVanish = TRUE
CHECK_DEADLOCK FALSE
INVARIANTS
  BTypeOK
  BuffersNotReused
  CompletionIsMine
  NoMissedCompletion
  StrandedHasTimer
PROPERTIES
  ImplementsService
  RequestEnds
