SPECIFICATION Spec
CONSTANTS
  Main = Main
  helper = helper
  FuncNames <- MCFuncNames
  MaxSize = 9
INVARIANTS
  TypeOK
  ParentLinksBack
  ScopeAgrees
  NoBuilderError
  CleanedOnce
PROPERTIES
  EdgesAreFinal
  MirrorsSource
CHECK_DEADLOCK FALSE
