------------------------------ MODULE TypeRules ------------------------------
(***************************************************************************)
(* The data types of expressions, the operands the operators take, and     *)
(* what an inference of ast.c tells its caller about a tree.               *)
(***************************************************************************)
EXTENDS Naturals, Sequences, SequencesExt

DataTypes == {"INT", "FLOAT", "STRING", "BOOL"}
Comparisons == {"LOG_LT", "LOG_GT", "LOG_LTE", "LOG_GTE"}
Equalities == {"LOG_EQ", "LOG_NEQ"}
Logic == {"LOG_AND", "LOG_OR"}
Arithmetic == {"ADD", "SUBTRACT", "MULTIPLY", "DIVIDE"}
Binary == Arithmetic \cup Comparisons \cup Equalities \cup Logic

\* The type of a node, whether the inference succeeded, whether it has reported an
\* error, and the types it has given to variables on the way.
Inferred(type, ok, said, given) == [type |-> type, ok |-> ok, said |-> said, given |-> given]
Good(type) == Inferred(type, TRUE, FALSE, <<>>)
Uninferrable(said) == Inferred("UNINFERRABLE", FALSE, said, <<>>)

\* The types the operands of an operator may have (ast_check_...).
OperandTypes(op) ==
  CASE op \in {"ADD"} \cup Comparisons -> {"INT", "FLOAT", "STRING", "UNKNOWN"}
    [] op \in {"SUBTRACT", "MULTIPLY", "DIVIDE", "AR_NEGATE"} -> {"INT", "FLOAT", "UNKNOWN"}
    [] op \in Logic \cup {"LOG_NOT"} -> {"BOOL", "UNKNOWN"}
    [] OTHER -> DataTypes \cup {"UNKNOWN", "NIL", "MULTIPLE"}

ResultType(op, operands) == IF op \in Comparisons \cup Equalities THEN "BOOL" ELSE operands

\* An unknown operand takes the type of the other one; if it is a variable, so does
\* the variable.
Gives(tree, type) == IF tree[1] = "ID" /\ tree[2] # "none"
                     THEN << <<tree[2], tree[3], type>> >> ELSE <<>>

\* The types of the variables after an inference: what was given last counts.
TypesAfter(vars, given) ==
  [v \in DOMAIN vars |->
     LET times == {i \in DOMAIN given : <<given[i][1], given[i][2]>> = v}
     IN IF times = {} THEN vars[v] ELSE given[Max(times)][3]]
=============================================================================
