SPECIFICATION FairSpec
CONSTANTS
  MaxWait = 1
  PaletteBurst = 2
  BurstB = 2
PROPERTY RequestsTakenUp
