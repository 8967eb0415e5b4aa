SPECIFICATION Spec
CONSTANTS
  Main = Main
  helper = helper
  FuncNames <- MCFuncNames
  MaxSize = 6
INVARIANT ReturnsHaveList
CHECK_DEADLOCK FALSE
