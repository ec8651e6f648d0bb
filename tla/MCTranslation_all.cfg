SPECIFICATION TranslationSpec
CONSTANTS
  Rules <- RulesYaml
  Inputs <- MCInputs
  StartsWith <- MCStartsWith
  ParsedMessages <- MCMessages
  Trim <- MCTrim
  Entity <- MCEntity
  Illegal <- MCIllegal
  OtherCodes <- MCOtherCodes
  NotANumber = NotANumber
  XsdPath = TRUE
CHECK_DEADLOCK FALSE
INVARIANTS
  TranslationInv
  FirstMatchWins
  LogIsProvenance
  EveryFieldDecided
  RejectedForTheMessage
  AmountAsDecided
  PartiesNamed
  AgentsAsDecided
