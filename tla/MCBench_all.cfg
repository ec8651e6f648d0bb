SPECIFICATION FairSpec
CONSTANTS
  Count = 3
  Slots = 2
  CorpusSizes <- EmptyOrNot
  Rates <- ZeroOrTen
  Latencies <- TwoLatencies
  None = None
CHECK_DEADLOCK FALSE
INVARIANTS
  BenchInv
  AtMostSlotsInFlight
  NothingLost
  ManifestSound
PROPERTY BenchFinishes
