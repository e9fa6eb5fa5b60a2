SPECIFICATION Spec
CONSTANTS
  Rows = 2
  MaxFrames = 2
  MaxRuns = 1
  Prompt = TRUE
  OtherReader = TRUE
  MapMayFail = TRUE
  ScanMayStop = FALSE
INVARIANT NoFalseTimeout
