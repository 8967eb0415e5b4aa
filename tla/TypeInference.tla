---------------------------- MODULE TypeInference ----------------------------
(***************************************************************************)
(* The type inference of ast.c (ast_infer_node_type, not strict) on the    *)
(* trees the expression parser builds. A tree is a tuple:                  *)
(*   <<"ID", scope, name>>       a variable: scope says in which table its *)
(*                               symbol is, "none" if it has none yet      *)
(*   <<"BLACK_HOLE">>            the variable _                            *)
(*   <<"CONST", type, value>>                                              *)
(*   <<operator, left>>, <<operator, left, right>>                         *)
(*   <<"LIST", trees>>                                                     *)
(*   <<"CALL", function, trees>>                                           *)
(*                                                                         *)
(* Types is what the symbol tables say: the type of every variable as a    *)
(* function of <<scope, name>>, and of every function the record           *)
(* [defined, params, ret_types].                                           *)
(***************************************************************************)
EXTENDS TypeRules

check_binary_node_children(l, r, left, right) ==
  CASE ~l.ok -> Uninferrable(l.said)
    [] l.ok /\ ~r.ok -> Uninferrable(r.said)
    [] "BLACK_HOLE" \in {l.type, r.type} -> Uninferrable(FALSE)
    [] l.type = r.type -> Good(l.type)
    [] l.type = "UNKNOWN" -> Inferred(r.type, TRUE, FALSE, Gives(left, r.type))
    [] r.type = "UNKNOWN" -> Inferred(l.type, TRUE, FALSE, Gives(right, l.type))
    [] OTHER -> Uninferrable(FALSE)

RetType(f) == CASE ~f.defined -> "UNKNOWN"
                [] f.defined /\ f.ret_types = <<>> -> "NIL"
                [] f.defined /\ Len(f.ret_types) = 1 -> f.ret_types[1]
                [] OTHER -> "MULTIPLE"

\* A list succeeds if one of its elements does.
InferList(items) ==
  CASE items = <<>> -> Good("NIL")
    [] Len(items) = 1 -> IF items[1].ok THEN items[1] ELSE Uninferrable(items[1].said)
    [] OTHER -> Inferred("MULTIPLE", \E i \in DOMAIN items : items[i].ok,
                         \E i \in DOMAIN items : items[i].said, <<>>)

func_call_inference(name, f, args) ==
  LET list == InferList(args)
      Accepted(i) == /\ i <= Len(f.params)
                     /\ args[i].ok
                     /\ args[i].type \in {f.params[i], "UNKNOWN"}
  IN CASE name = "print" -> IF list.ok THEN Inferred("NIL", TRUE, list.said, <<>>)
                                      ELSE Uninferrable(list.said)
       [] name # "print" /\ ~f.defined -> Inferred("UNKNOWN", list.ok, list.said, <<>>)
       [] OTHER -> IF Len(args) = Len(f.params) /\ \A i \in DOMAIN args : Accepted(i)
                   THEN Good(RetType(f)) ELSE Uninferrable(TRUE)

RECURSIVE Infer(_, _, _)
Infer(tree, vars, functions) ==
  LET Sub(t) == Infer(t, vars, functions)
      InferAll(list) == [i \in DOMAIN list |-> Sub(list[i])]
  IN CASE tree[1] = "ID" ->
            Good(IF tree[2] = "none" THEN "UNKNOWN" ELSE vars[<<tree[2], tree[3]>>])
       [] tree[1] = "BLACK_HOLE" -> Good("BLACK_HOLE")
       [] tree[1] = "CONST" -> Good(tree[2])
       [] tree[1] = "LIST" -> InferList(InferAll(tree[2]))
       [] tree[1] = "CALL" ->
            func_call_inference(tree[2], functions[tree[2]], InferAll(tree[3]))
       [] tree[1] \in {"AR_NEGATE", "LOG_NOT"} ->
            LET operand == Sub(tree[2])
            IN CASE ~operand.ok -> Uninferrable(operand.said)
                 [] operand.ok /\ operand.type \notin OperandTypes(tree[1]) -> Uninferrable(TRUE)
                 [] OTHER -> operand
       [] tree[1] \in Binary ->
            LET children == check_binary_node_children(Sub(tree[2]), Sub(tree[3]), tree[2], tree[3])
            IN CASE ~children.ok -> children
                 [] children.ok /\ children.type \notin OperandTypes(tree[1]) -> Uninferrable(TRUE)
                 [] OTHER -> [children EXCEPT !.type = ResultType(tree[1], children.type)]

\* assignment_inference_semantic_checks for one variable and one value: black holes take
\* anything, an unknown variable takes the type of the value and the other way round.
InferPair(variable, value, vars, functions) ==
  LET v == Infer(value, vars, functions)
  IN IF ~v.ok THEN Uninferrable(TRUE)
     ELSE IF variable = <<"BLACK_HOLE">> THEN v
     ELSE LET pair == check_binary_node_children(Infer(variable, vars, functions), v, variable, value)
          IN IF pair.ok THEN pair ELSE Uninferrable(TRUE)

\* The same for the values a call returns.
InferReturned(variable, type, vars) ==
  LET v == IF variable = <<"BLACK_HOLE">> THEN "BLACK_HOLE" ELSE vars[<<variable[2], variable[3]>>]
  IN CASE v \in {"BLACK_HOLE", type} -> Good("NIL")
       [] v = "UNKNOWN" -> Inferred("NIL", TRUE, FALSE, Gives(variable, type))
       [] OTHER -> Uninferrable(TRUE)

\* <<operator, variables, values>>, operator ASSIGN or DEFINE; the variables are in a
\* list except for the operators like +=.
InferAssignment(tree, vars, functions) ==
  LET variables == tree[2][2]
      values == tree[3][2]
      call == values[1]
      f == functions[call[2]]
      \* One after the other: what one has given to a variable, the next one sees.
      After(so_far, Item(_)) ==
        LET item == Item(TypesAfter(vars, so_far.given))
        IN IF ~so_far.ok THEN so_far
           ELSE IF item.ok THEN Inferred("NIL", TRUE, FALSE, so_far.given \o item.given)
           ELSE Uninferrable(TRUE)
      All(n, Item(_, _)) ==
        FoldLeft(LAMBDA so_far, i : After(so_far, LAMBDA known : Item(i, known)),
                 Good("NIL"), [i \in 1..n |-> i])
  IN CASE tree[2][1] = "ID" -> All(1, LAMBDA i, known : InferPair(tree[2], tree[3], known, functions))
       [] /\ tree[2][1] = "LIST" /\ tree[1] = "DEFINE"
          /\ ToSet(variables) = {<<"BLACK_HOLE">>} -> Uninferrable(TRUE)
       [] tree[2][1] = "LIST" /\ Len(values) = 1 /\ call[1] = "CALL" ->
            LET result == Infer(call, vars, functions)
            IN CASE ~result.ok -> Uninferrable(result.said)
                 [] result.ok /\ ~f.defined -> Inferred("UNKNOWN", TRUE, result.said, <<>>)
                 [] result.ok /\ f.defined /\ Len(variables) # Len(f.ret_types) -> Uninferrable(TRUE)
                 [] OTHER -> All(Len(variables), LAMBDA i, known :
                                    InferReturned(variables[i], f.ret_types[i], known))
       [] OTHER -> IF Len(variables) # Len(values) THEN Uninferrable(TRUE)
                   ELSE All(Len(variables), LAMBDA i, known :
                               InferPair(variables[i], values[i], known, functions))

ast_infer_node_type(tree, vars, functions) ==
  IF tree[1] \in {"ASSIGN", "DEFINE"} THEN InferAssignment(tree, vars, functions)
                                      ELSE Infer(tree, vars, functions)
=============================================================================
