SPECIFICATION FairSpec
CONSTANTS
  VDepth = 2
  ADepth = 2
  Files <- EqualLength
  FrameTicks = 1
  Rooms = {1}
  MaxDelay = 2
  DefaultPeriod = 1
  PeriodLimit = 4
  MaxTime = 0
  Faults = {}
PROPERTY SpinEnds
CHECK_DEADLOCK FALSE
