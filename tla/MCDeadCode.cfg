SPECIFICATION OptSpec
CONSTANTS
  Main = Main
  helper = helper
  FuncNames <- MCFuncNames
  MaxSize = 8
INVARIANTS
  OptTypeOK
  LiveCodeKeptWithoutDeadElseIf
  FreedIffUnlinked
  DeadCodeGone
  FreedOnceUnlessAfterFor
CHECK_DEADLOCK FALSE
