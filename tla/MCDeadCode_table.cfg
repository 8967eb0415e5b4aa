SPECIFICATION OptSpec
CONSTANTS
  Main = Main
  helper = helper
  FuncNames <- MCFuncNames
  MaxSize = 9
INVARIANT FreedOnce
CHECK_DEADLOCK FALSE
