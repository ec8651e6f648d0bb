SPECIFICATION SystemSpec
CONSTANTS
  Count = 3
  Slots = 2
  CorpusSizes <- OneTransaction
  Rates <- DefaultRate
  Latencies <- OneLatency
  None = None
CHECK_DEADLOCK FALSE
INVARIANTS
  SystemInv
  AnswersTellTheTruth
  ManifestBoundsLedger
