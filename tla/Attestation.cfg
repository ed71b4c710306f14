SPECIFICATION Spec
CONSTANTS
  Origins <- MCOrigins
  MaxKeys = 2
  MaxDepth = 3
  MaxChanges = 2
CHECK_DEADLOCK FALSE
INVARIANTS
  KeysArePair
  DiffTruthful
  PinnedMeansSame
  SignatureTruthful
