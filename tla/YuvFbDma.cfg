SPECIFICATION FairSpec
CONSTANTS
  W = 16
  H = 4
  Lanes = 4
  MaxTriggers = 2
INVARIANTS
  TypeOK
  FrameConverted
  WholeBursts
  EveryEndReported
PROPERTY EveryFrameEnds
