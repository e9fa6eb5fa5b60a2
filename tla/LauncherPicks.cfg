SPECIFICATION FairSpec
CONSTANTS
  MaxPicks = 2
  MaxCoreChanges = 0
PROPERTY SelectionLaunches
CHECK_DEADLOCK FALSE
