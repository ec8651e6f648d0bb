SPECIFICATION KeysSpec
CONSTANTS
  w1 = w1
  w2 = w2
  k1 = k1
  k2 = k2
  k3 = k3
  k4 = k4
  Missing = Missing
  Partial = Partial
  Witnesses <- TwoWitnesses
  Keys <- FourKeys
  MaxCrashes = 2
  MaxLosses = 0
CHECK_DEADLOCK FALSE
PROPERTY GeneratedOnlyIfMissing
