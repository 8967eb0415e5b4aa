SPECIFICATION Spec
CONSTANTS
  Sources <- MCSources
  MAX_INT = 88
INVARIANTS
  TypeOK
  TokenIsItsLexeme
  LongestMatchUnlessZeroExponent
  OnlyBlanksSkippedUnlessAsterisks
  EolVerdictUnlessAmiss
  ErrorsAreReal
PROPERTIES
  ParseEnds
CHECK_DEADLOCK FALSE
