SPECIFICATION FairSpec
CONSTANTS
  r1 = r1
  r2 = r2
  m1 = m1
  b1 = b1
  b2 = b2
  w1 = w1
  w2 = w2
  w3 = w3
  NoOne = NoOne
  Requests <- TwoRequests
  Messages <- OneMessage
  BundleIds <- OneId
  Witnesses <- TwoWitnesses
  MaxCrashes = 1
CHECK_DEADLOCK FALSE
PROPERTIES
  EveryRequestAnswered
  NoGoroutineLeak
