SPECIFICATION FairSpec
CONSTANTS
  VDepth = 2
  ADepth = 2
  Files <- AllFiles
  FrameTicks = 2
  Rooms = {1, 2}
  MaxDelay = 1
  DefaultPeriod = 1
  PeriodLimit = 4
  MaxTime = 5
  Faults = {"kill", "alsa", "oom", "dma", "xrun"}
INVARIANTS
  TypeOK
  RingOwnership
  SleepersJustified
  NoSleeperAtJoin
  ShownInOrder
  AudioClockTracksStream
PROPERTIES
  StreamsInOrder
  ScheduleOnlyMovesLater
  EndsOrStands
CHECK_DEADLOCK FALSE
