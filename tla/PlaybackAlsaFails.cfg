SPECIFICATION FairSpec
CONSTANTS
  VDepth = 2
  ADepth = 2
  Files <- MixedFiles
  FrameTicks = 1
  Rooms = {1}
  MaxDelay = 0
  DefaultPeriod = 1
  PeriodLimit = 4
  MaxTime = 0
  Faults = {"alsa"}
PROPERTY DecoderFlows
CHECK_DEADLOCK FALSE
