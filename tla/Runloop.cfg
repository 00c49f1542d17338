CONSTANTS
  HostTimers <- MCHostTimers
  FirstTable <- MCFirstTable
  SecondTable <- MCSecondTable
  SlowRate = 60
  FastRate = 150
  HasSpeedPort = TRUE
  Slices = {1, 3, 6}
  Overshoot = 1
  TickArray = 4
  Growth = 2
  Garbage = {9}
  MaxSlices = 2
SPECIFICATION FairSpec
INVARIANT TypeOK
INVARIANT PendingReachTheirTimer
INVARIANT OnlyOvershootDelays
INVARIANT OverrunIsStale
INVARIANT TimersNeverFast
INVARIANT TickWithinPeriod
PROPERTY TicksOnTime
PROPERTY SliceEnds
CHECK_DEADLOCK FALSE
