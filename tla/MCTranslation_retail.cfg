SPECIFICATION TranslationSpec
CONSTANTS
  Rules <- RulesYaml
  Inputs <- MCInputs
  StartsWith <- MCStartsWith
  ParsedMessages <- MCMessages
  Trim <- MCTrim
  Entity <- MCEntity
  Illegal <- MCIllegal
  OtherCodes <- MCOtherCodes
  NotANumber = NotANumber
  XsdPath = FALSE
CHECK_DEADLOCK FALSE
INVARIANT RetailBelowLimit
