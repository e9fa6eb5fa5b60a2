SPECIFICATION FairSpec
CONSTANTS
  RgbBytes = 3712
  Lz4Bytes = {2240, 1484}
  AudioBytes = 1728
  Screensaver = TRUE
  MaxFrame = 2
  Window = 1
  MaxFaults = 2
INVARIANTS TypeOK FramesEndWhole FreedUsedByNoPacket
PROPERTIES HeaderStartsFrame PriorityGivenUp
