SPECIFICATION FairSpec
CONSTANTS
  Rows = 2
  MaxFrames = 4
  MaxRuns = 1
  Prompt = TRUE
  OtherReader = FALSE
  MapMayFail = TRUE
  ScanMayStop = FALSE
INVARIANTS
  TypeOK
  NoTearing
  WholeFramesOnly
  NoFalseTimeout
PROPERTY EveryFrameScanned
