SPECIFICATION Spec
CONSTANTS
  Sources <- MCSources
  Symbols <- MCSymbols
  Inputs <- MCInputs
  IntWidth = 3
  CounterWidth = 4
  Fuel = 12
INVARIANTS
  MeaningKeptUnlessKnown
  NothingLeftToFold
  UsedVariablesAreCountedUnlessTargets
PROPERTY RoundsShrink
CHECK_DEADLOCK FALSE
