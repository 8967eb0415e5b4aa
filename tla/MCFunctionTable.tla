--------------------------- MODULE MCFunctionTable ---------------------------
(* The instance of FunctionTable that TLC checks: a program with main and  *)
(* one more function, one builtin, and a table in which two names share a  *)
(* slot and the slot between them and the third stays empty.               *)
EXTENDS FunctionTable, TLC

CONSTANTS helper, CF_INT, CF_STRING

MCKeys == {main, helper, print}
MCLocalNames == {helper, print}
MCTypes == {CF_INT, CF_STRING}
MCSymmetry == Permutations(MCTypes)
MCHash == [key \in MCKeys |->
  CASE key = main -> 0 [] key = helper -> 3 [] key = print -> 5]
MCBuiltins == << [name |-> print, params |-> << >>, ret_types |-> 0] >>
=============================================================================
