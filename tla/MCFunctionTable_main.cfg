SPECIFICATION Spec
CONSTANTS
  main = main
  print = print
  helper = helper
  CF_INT = CF_INT
  CF_STRING = CF_STRING
  Keys <- MCKeys
  LocalNames <- MCLocalNames
  Types <- MCTypes
  Builtins <- MCBuiltins
  symtable_hash <- MCHash
  TABLE_SIZE = 3
  MaxCalls = 2
  MaxParams = 2
  MaxReturns = 1
SYMMETRY MCSymmetry
INVARIANT CalledMainIsAFunction
CHECK_DEADLOCK FALSE
