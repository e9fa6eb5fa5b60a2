SPECIFICATION Spec
CONSTANTS
  MaxWait = 1
  H = 4
  BEATS = 2
  PerBeat = 2
  CeDiv = 2
  H_FP = 1
  H_SYNC = 1
  H_BP = 9
  V_FP = 1
  V_SYNC = 1
  V_BP = 1
  MaxBurst = 2
INVARIANT ColoursWhenEnabled
