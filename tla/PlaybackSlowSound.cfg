SPECIFICATION Spec
CONSTANTS
  VDepth = 2
  ADepth = 2
  Files <- MixedFiles
  FrameTicks = 2
  Rooms = {1}
  MaxDelay = 1
  DefaultPeriod = 1
  PeriodLimit = 4
  MaxTime = 0
  Faults = {}
INVARIANT ClockAligned
CHECK_DEADLOCK FALSE
