-------------------------- MODULE ExpressionGrammar ---------------------------
(***************************************************************************)
(* What the expressions and statements of the language are, without a      *)
(* stack or a table: which sequences of tokens are one, the tree it stands *)
(* for, and the types a tree may have. The reference for the precedence    *)
(* parser.                                                                 *)
(***************************************************************************)
EXTENDS PrecedenceParser, TypeInference

Bad == <<"BAD">>
NodeOf(op, trees) == IF Bad \in ToSet(trees) THEN Bad ELSE <<op>> \o trees

\* An expression ends before the first token that belongs to none, or that begins a
\* line where none may begin: after an operator, a comma or an opening bracket.
EndsBefore(tokens, i) ==
  \/ tokens[i].type \in {"OUTSIDE", "INVALID"}
  \/ tokens[i].eol_read /\ i > 1 /\ ~eol_allowed_after(tokens[i - 1].type)
  \/ tokens[i].eol_read /\ i = 1 /\ ~kind.eol_before_allowed
Expression(tokens) ==
  SubSeq(tokens, 1, Min({i \in DOMAIN tokens : EndsBefore(tokens, i)}) - 1)

Depth(s, i) == Cardinality({j \in 1..i-1 : s[j].type = "("}) - Cardinality({j \in 1..i-1 : s[j].type = ")"})
Outermost(s, kinds) == {i \in DOMAIN s : s[i].type \in kinds /\ Depth(s, i) = 0}

EndsOperand(tok) == tok.type \in Literals \cup {"ID", ")"}
BinaryAt(s) == {i \in Outermost(s, BinaryOps) : i > 1 /\ EndsOperand(s[i - 1])}

\* The parts of s between its outermost commas.
Pieces(s) ==
  LET commas == SetToSortSeq(Outermost(s, {","}), <)
      bounds == <<0>> \o commas \o <<Len(s) + 1>>
  IN [i \in 1..Len(bounds)-1 |-> SubSeq(s, bounds[i] + 1, bounds[i + 1] - 1)]

\* scope says where each name of a variable is found.
RECURSIVE Tree(_, _)
Tree(s, scope) ==
  LET Sub(from, to) == Tree(SubSeq(s, from, to), scope)
      lowest == Min({Level(s[i].type) : i \in BinaryAt(s)})
      split == Max({i \in BinaryAt(s) : Level(s[i].type) = lowest})
      n == Len(s)
  IN CASE s = <<>> -> Bad
       [] BinaryAt(s) # {} -> NodeOf(ast_node(s[split].type), <<Sub(1, split - 1), Sub(split + 1, n)>>)
       [] n = 1 /\ BinaryAt(s) = {} ->
            CASE s[1].type = "ID" -> IF s[1].val \in DOMAIN scope
                                     THEN <<"ID", scope[s[1].val], s[1].val>> ELSE <<"ID", "none", s[1].val>>
              [] s[1].type \in Literals -> <<"CONST", s[1].type, s[1].val>>
              [] OTHER -> Bad
       [] n > 1 /\ BinaryAt(s) = {} ->
            CASE s[1].type = "!" -> NodeOf("LOG_NOT", <<Sub(2, n)>>)
              [] s[1].type = "-" -> NodeOf("AR_NEGATE", <<Sub(2, n)>>)
              [] s[1].type = "+" -> Sub(2, n)
              [] s[1].type = "(" /\ s[n].type = ")" -> Sub(2, n - 1)
              [] s[1].type = "ID" /\ s[2].type = "(" /\ s[n].type = ")" ->
                   LET pieces == IF n = 3 THEN <<>> ELSE Pieces(SubSeq(s, 3, n - 1))
                       args == [i \in DOMAIN pieces |-> Tree(pieces[i], scope)]
                   IN IF Bad \in ToSet(args) THEN Bad ELSE <<"CALL", s[1].val, args>>
              [] OTHER -> Bad

Found(name) == CASE kind.types[<<"top", name>>] # "ABSENT" -> "top"
                 [] kind.types[<<"top", name>>] = "ABSENT" /\ kind.types[<<"outer", name>>] # "ABSENT" -> "outer"
                 [] OTHER -> "none"
Scopes == [name \in Names |-> Found(name)]

Variable(piece, op) ==
  IF piece[1].val = "_" /\ op \in {"=", ":="} THEN <<"BLACK_HOLE">>
  ELSE <<"ID", IF op = ":=" THEN "top" ELSE IF piece[1].val \in Names THEN Found(piece[1].val) ELSE "none",
         piece[1].val>>

Sides(s) == Outermost(s, SidesOps)
Targets(s) == Pieces(SubSeq(s, 1, Min(Sides(s)) - 1))
Values(s) == Pieces(SubSeq(s, Min(Sides(s)) + 1, Len(s)))

\* Every target is a single identifier.
TargetsAreVariables(s) ==
  Sides(s) # {} => \A i \in DOMAIN Targets(s) : Len(Targets(s)[i]) = 1 /\ Targets(s)[i][1].type = "ID"

Statement(s) ==
  LET op == s[Min(Sides(s))].type
      targets == [i \in DOMAIN Targets(s) |-> Variable(Targets(s)[i], op)]
      values == [i \in DOMAIN Values(s) |-> Tree(Values(s)[i], Scopes)]
      pieces == Pieces(s)
      list == [i \in DOMAIN pieces |-> Tree(pieces[i], Scopes)]
      several == Len(targets) > 1 \/ Len(values) = 1
  IN CASE Sides(s) = {} ->
            IF Bad \in ToSet(list) THEN Bad ELSE IF Len(list) = 1 THEN list[1] ELSE <<"LIST", list>>
       [] Cardinality(Sides(s)) > 1 -> Bad
       [] Cardinality(Sides(s)) = 1 ->
            CASE Bad \in ToSet(values) -> Bad
              [] Bad \notin ToSet(values) /\ op = "=" /\ several ->
                   <<"ASSIGN", <<"LIST", targets>>, <<"LIST", values>>>>
              [] Bad \notin ToSet(values) /\ op = ":=" /\ several ->
                   <<"DEFINE", <<"LIST", targets>>, <<"LIST", values>>>>
              [] /\ Bad \notin ToSet(values) /\ op \notin {"=", ":="}
                 /\ Len(targets) = 1 /\ Len(values) = 1 ->
                   <<"ASSIGN", targets[1], <<ast_node(op), targets[1], values[1]>>>>
              [] OTHER -> Bad

\* What the assign rule of the call asks for.
Allowed(s) ==
  LET ops == {s[i].type : i \in Sides(s)}
  IN CASE kind.assign_rule = "VALID_STATEMENT" -> ops # {} \/ Statement(s)[1] = "CALL"
       [] kind.assign_rule = "ASSIGN_REQUIRED" -> ops \subseteq AssignOps /\ ops # {}
       [] kind.assign_rule = "DEFINE_REQUIRED" -> ops = {":="}
       [] kind.assign_rule = "PURE_EXPRESSION" -> ops = {}

IsSentence(s) == s # <<>> /\ Statement(s) # Bad /\ Allowed(s)

-----------------------------------------------------------------------------
(* Typing: the set of the types a tree may have if the variables have the  *)
(* types known; a call of a function not yet defined may return anything,  *)
(* but all its calls must have the parameters of the first.                *)

RECURSIVE TypesOf(_, _, _)
TypesOf(tree, known, declared) ==
  LET Sub(i) == TypesOf(tree[i], known, declared)
      NilIf(test) == IF test THEN {"NIL"} ELSE {}
      Takes(i, param) == TypesOf(tree[3][i], known, declared) \cap
                           (IF param = "UNKNOWN" THEN DataTypes ELSE {param}) # {}
      f == declared[tree[2]]
      \* The types the pairs of variables and values of an assignment may both have.
      Fits(variable, value) ==
        IF variable[1] = "BLACK_HOLE" THEN TypesOf(value, known, declared) # {}
        ELSE known[<<variable[2], variable[3]>>] \in TypesOf(value, known, declared)
  IN CASE tree[1] = "ID" -> {known[<<tree[2], tree[3]>>]}
       [] tree[1] = "CONST" -> {tree[2]}
       [] tree[1] \in {"AR_NEGATE", "LOG_NOT"} -> Sub(2) \cap OperandTypes(tree[1])
       [] tree[1] = "DIVIDE" /\ tree[3][1] = "CONST" /\ tree[3][2] \in {"INT", "FLOAT"} /\ tree[3][3] = 0 -> {}
       [] tree[1] \in Binary ->
            {ResultType(tree[1], t) : t \in Sub(2) \cap Sub(3) \cap OperandTypes(tree[1])}
       [] tree[1] = "LIST" -> NilIf(\A i \in DOMAIN tree[2] : TypesOf(tree[2][i], known, declared) # {})
       [] tree[1] = "CALL" ->
            CASE tree[2] = "print" ->
                   NilIf(\A i \in DOMAIN tree[3] : TypesOf(tree[3][i], known, declared) # {})
              [] OTHER -> IF Len(tree[3]) = Len(f.params) /\ \A i \in DOMAIN f.params : Takes(i, f.params[i])
                          THEN IF f.defined THEN {RetType(f)} ELSE DataTypes \cup {"NIL"}
                          ELSE {}
       [] tree[1] \in {"ASSIGN", "DEFINE"} /\ tree[2][1] = "ID" -> NilIf(Fits(tree[2], tree[3]))
       [] tree[1] \in {"ASSIGN", "DEFINE"} /\ tree[2][1] = "LIST" ->
            LET variables == tree[2][2]
                values == tree[3][2]
            IN IF Len(values) = 1 /\ values[1][1] = "CALL"
               THEN LET g == declared[values[1][2]]
                    IN NilIf(/\ TypesOf(values[1], known, declared) # {}
                           /\ \/ ~g.defined
                              \/ /\ Len(variables) = Len(g.ret_types)
                                 /\ \A i \in DOMAIN variables :
                                      \/ variables[i][1] = "BLACK_HOLE"
                                      \/ known[<<variables[i][2], variables[i][3]>>] = g.ret_types[i])
               ELSE NilIf(Len(variables) = Len(values) /\ \A i \in DOMAIN values : Fits(variables[i], values[i]))

\* The variables whose type is not known, or that the statement defines, may have any.
Completions ==
  LET open == {v \in DOMAIN types : types[v] # "ABSENT" /\ kind.types[v] \notin DataTypes}
  IN {[v \in DOMAIN types |-> IF v \in open THEN guess[v] ELSE types[v]] : guess \in [open -> DataTypes]}
WellTyped(trees) ==
  \E known \in Completions : \A t \in trees : TypesOf(t, known, functions) # {}

-----------------------------------------------------------------------------
(* Properties.                                                             *)

\* The trees built so far, without the names of targets.
TreesOnStack == {stack[i].ast : i \in {j \in DOMAIN stack : stack[j].ast # NoTree /\ ~HasName(stack[j])}}

Ended == phase \in {"accepted", "undefined"} \/ (phase = "rejected" /\ Written)
InputTypes == {input[i].type : i \in DOMAIN input}
AllTypesKnown == /\ \A v \in DOMAIN types : kind.types[v] # "UNKNOWN"
                 /\ \A i \in 1..Len(input)-1 : ~(input[i].type = "ID" /\ input[i + 1].type = "(")
                 /\ "/=" \notin InputTypes

\* Accepted is what is a sentence, refused for its syntax what is none, and the tree of a
\* sentence without other errors is the one the grammar gives: precedence, left
\* associativity, signs, calls, assignments and the ends of lines of the table at
\* precedence_parser.c:19. Nothing is claimed when the target of an assignment is an
\* expression: the code takes its value for a name (line 483).
ParsesTheGrammarUnlessTargetsAreExpressions ==
  Ended /\ TargetsAreVariables(Expression(input)) =>
    LET s == Expression(input)
    IN /\ phase = "accepted" => IsSentence(s)
       /\ phase = "accepted" /\ compiler_result = "NONE" => result = Statement(s)
       /\ phase = "rejected" /\ compiler_result = "SYNTAX" => ~IsSentence(s) \/ "INVALID" \in InputTypes
       /\ phase # "undefined"

\* A type error is reported only if, whatever the variables of yet unknown types are, some
\* tree built so far cannot be typed: the checks in the reductions and those of the
\* inference, which run one after the other on each node, never refuse a good program.
TypeErrorsAreJustified ==
  compiler_result \in {"TYPE", "DIVISION_BY_ZERO", "WRONG_PARAMETER"} =>
    ~WellTyped(TreesOnStack \cup {refused})

\* What is accepted without an error can be typed, if nothing in it is of a type that
\* only a later definition tells. /= is excluded: its divisor is never compared with zero
\* (reduce_modify_assign, line 593).
AcceptedIsWellTypedUnlessCalls ==
  phase = "accepted" /\ compiler_result = "NONE" /\ AllTypesKnown => WellTyped({result})
=============================================================================
