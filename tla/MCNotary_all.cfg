SPECIFICATION NotarySpec
CONSTANTS
  w1 = w1
  w2 = w2
  w3 = w3
  k1 = k1
  k2 = k2
  k3 = k3
  k4 = k4
  m1 = m1
  m2 = m2
  Missing = Missing
  Partial = Partial
  NoFile = NoFile
  Witnesses <- ThreeWitnesses
  Keys <- ThreeKeys
  Messages <- TwoMessages
  MaxBundles = 2
  MaxCrashes = 2
  MaxLosses = 1
CHECK_DEADLOCK FALSE
SYMMETRY Symmetry
INVARIANTS
  NotaryInv
  KeysInv
  PairMatches
  IssuedStayVerifiable
  VerdictAgrees
  PayloadIsBound
  LossTolerated
