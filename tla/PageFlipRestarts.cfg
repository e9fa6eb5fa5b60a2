SPECIFICATION Spec
CONSTANTS
  Rows = 2
  MaxFrames = 3
  MaxRuns = 3
  Prompt = TRUE
  OtherReader = TRUE
  MapMayFail = TRUE
  ScanMayStop = TRUE
INVARIANT PlanesStable
PROPERTY DoneIsOwn
