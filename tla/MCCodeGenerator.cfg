SPECIFICATION CompilerSpec
CONSTANTS
  Sources <- MCSources
  Symbols <- MCSymbols
  VarTypes <- MCVarTypes
  Orders <- MCOrders
  Inputs <- MCInputs
  IntWidth = 5
  CounterWidth = 4
  Fuel = 12
  MaxSteps = 300
INVARIANTS
  NamesResolveAsParsed
  CompiledMeansSourceUnlessKnown
  RefusedForAReason
PROPERTY CallsLeaveTheirResults
CHECK_DEADLOCK FALSE
