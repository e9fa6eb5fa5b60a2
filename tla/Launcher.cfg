SPECIFICATION FairSpec
CONSTANTS
  MaxPicks = 2
  MaxCoreChanges = 2
INVARIANTS
  TypeOK
  OnePlayer
  BoostMeansPlaying
  NothingLeftBehind
PROPERTIES
  TermEnds
  FirstSelectionLaunches
CHECK_DEADLOCK FALSE
