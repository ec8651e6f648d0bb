SPECIFICATION Spec
CONSTANTS
  r1 = r1
  r2 = r2
  m1 = m1
  b1 = b1
  b2 = b2
  w1 = w1
  w2 = w2
  w3 = w3
  NoOne = NoOne
  Requests <- TwoRequests
  Messages <- OneMessage
  BundleIds <- TwoIds
  Witnesses <- ThreeWitnesses
  MaxCrashes = 1
SYMMETRY Symmetry2
INVARIANTS
  TypeOK
  IInv
  ChainUnbroken
  RowsAttested
  AckedIsStored
CHECK_DEADLOCK FALSE
PROPERTIES
  RefinesLog
  RefinesSealing
