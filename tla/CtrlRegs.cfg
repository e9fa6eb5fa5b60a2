SPECIFICATION Spec
CONSTANTS
  ReadWords = {16}
  WriteWords = {10}
  Data = {{0}, {1}}
  Pulses = {3}
  MaxAhead = 2
INVARIANTS
  TypeOK
  PulsesNeitherLostNorInvented
  WriteHalvesMatch
PROPERTY ImplementsAccess
