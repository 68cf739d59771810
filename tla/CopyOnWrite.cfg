SPECIFICATION CFairSpec
CONSTANTS
  s1 = s1
  s2 = s2
  v1 = v1
  v2 = v2
  Nobody = Nobody
  NoPage = NoPage
  Spaces <- MCSpaces
  First = s1
  Pages <- MCPages
  SharedPages <- MCShared
  Mappers <- MCParent
  Victims <- MCParent
  Values <- MCValues
  Zero = 0
  FrameCount = 3
  Contended <- MCContended
  ForkMayFail = TRUE
INVARIANTS CTypeOK RefsAreMappings 
PROPERTIES ImplementsPrivateMemory 
CHECK_DEADLOCK FALSE
