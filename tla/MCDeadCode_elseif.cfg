SPECIFICATION OptSpec
CONSTANTS
  Main = Main
  helper = helper
  FuncNames <- MCFuncNames
  MaxSize = 8
INVARIANT LiveCodeKept
CHECK_DEADLOCK FALSE
