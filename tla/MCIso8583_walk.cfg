SPECIFICATION Spec
CONSTANTS
  Sizes <- MCSizes
  BitSets <- MCBitSets
  Numbers <- MCNumbers
CHECK_DEADLOCK FALSE
INVARIANTS
  ParserInv
  FieldsInOrder
  NothingForgotten
  OnlyTheEndIsCut
  StanSparesMerchantType
  BcdNeverPanics
  ValuesFit
