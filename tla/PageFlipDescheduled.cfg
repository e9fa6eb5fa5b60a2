SPECIFICATION Spec
CONSTANTS
  Rows = 2
  MaxFrames = 3
  MaxRuns = 1
  Prompt = FALSE
  OtherReader = FALSE
  MapMayFail = TRUE
  ScanMayStop = FALSE
INVARIANT NoTearing
