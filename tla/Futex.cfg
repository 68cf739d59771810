SPECIFICATION FFairSpec
CONSTANTS
  t1 = t1
  t2 = t2
  w1 = w1
  Waiters <- MCWaiters
  Wakers <- MCWakers
  Values <- MCValues
  WakeCounts <- MCWakeCounts
  Timed <- MCOneWaiter
  Interrupted <- MCOneWaiter
  Preempted <- MCOneWaiter
INVARIANTS
  FTypeOK
  NoLostWake
  CountedReturnsZero
  BlockedMeansQueued
  BucketsHoldWaiters
PROPERTIES
  TimedWaitEnds
  WokenReturns
