SPECIFICATION Spec
CONSTANTS
  Sizes <- MCSizes
  BitSets <- MCBitSets
  Numbers <- MCNumbers
CHECK_DEADLOCK FALSE
INVARIANT ErrorsAreReported
