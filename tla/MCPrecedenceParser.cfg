SPECIFICATION Spec
CONSTANTS
  Kinds <- MCKinds
  Names <- MCNames
  infer_node_type <- ast_infer_node_type
INVARIANTS
  StackIsSound
  ParsesTheGrammarUnlessTargetsAreExpressions
  TypeErrorsAreJustified
  AcceptedIsWellTypedUnlessCalls
CHECK_DEADLOCK FALSE
