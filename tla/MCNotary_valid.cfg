SPECIFICATION NotarySpec
CONSTANTS
  w1 = w1
  w2 = w2
  w3 = w3
  k1 = k1
  k2 = k2
  k3 = k3
  k4 = k4
  m1 = m1
  m2 = m2
  Missing = Missing
  Partial = Partial
  NoFile = NoFile
  Witnesses <- TwoWitnesses
  Keys <- FourKeys
  Messages <- OneMessage
  MaxBundles = 1
  MaxCrashes = 2
  MaxLosses = 1
CHECK_DEADLOCK FALSE
PROPERTY QuorumMeansTwoValid
