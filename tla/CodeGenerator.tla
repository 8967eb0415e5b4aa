----------------------------- MODULE CodeGenerator -----------------------------
(***************************************************************************)
(* tcg_generate of code_generator.c, behind the optimiser: the optimised   *)
(* program becomes a list of instructions, one function at a time, and the *)
(* machine runs them. The names of the operators are those of the          *)
(* functions; an operator takes the generator and gives the generator      *)
(* after the call. Floats and the built-in functions about them are left   *)
(* out, and of the input functions there is inputi.                        *)
(*                                                                         *)
(* The number of arguments and the types of expressions are right: the     *)
(* parser has checked them, but for the values of return.                  *)
(***************************************************************************)
EXTENDS ConstantOptimiser, TargetMachine

CONSTANTS
  Orders,      \* the orders in which the functions may stand in the source
  VarTypes,    \* the type of every variable
  MaxSteps     \* how long a program may run

VARIABLES
  generator,
  machine

(***************************************************************************)
(* The generator is a record:                                              *)
(*   stage, todo  what it does next, and the functions that are left       *)
(*   code, result what it has printed; the first error                     *)
(*   fun          the function it is in                                    *)
(*   scopes       the tables around the statement, innermost first         *)
(*   prefix       symbol_prefix of every table                             *)
(*   defined      the variables that have got a value so far               *)
(*   onlyFind     whether names are looked up among those only             *)
(*   jumping, ifs, logic           the counters labels are made from       *)
(*   terminated, inBranch, terminatedInBranch    about return statements   *)
(*   divUsed                                                               *)
(***************************************************************************)
NewGenerator(order) ==
  [stage |-> "start", todo |-> Reverse(order), code |-> <<>>, result |-> "SUCCESS", fun |-> "",
   scopes |-> <<>>, prefix |-> <<>>, defined |-> {}, onlyFind |-> FALSE,
   jumping |-> 0, ifs |-> 0, logic |-> 0,
   terminated |-> FALSE, inBranch |-> FALSE, terminatedInBranch |-> FALSE, divUsed |-> FALSE]

COND_RES_VAR == <<"GF", 0, "cond_res", "">>
COND_LHS_VAR == <<"GF", 0, "cond_lhs", "">>
COND_RHS_VAR == <<"GF", 0, "cond_rhs", "">>
REG_1 == <<"GF", 0, "r1", "">>
REG_2 == <<"GF", 0, "r2", "">>
REG_3 == <<"GF", 0, "r3", "">>
ConstInt(n) == Const("INT", n)
ConstTrue == Const("BOOL", TRUE)
ConstFalse == Const("BOOL", FALSE)
EmptyString == Const("STRING", <<>>)

FunctionLabel(f) == <<f, "", 0, "">>
ZeroDiv == <<"$", "zero_div", 0, "">>
Label(g, kind, counter, place) == <<g.fun, kind, counter, place>>

Internal == [print |-> [defined |-> TRUE, params |-> <<>>, ret_types |-> <<>>],
             inputi |-> [defined |-> TRUE, params |-> <<>>, ret_types |-> <<"INT", "INT">>],
             len |-> [defined |-> TRUE, params |-> <<"STRING">>, ret_types |-> <<"INT">>],
             chr |-> [defined |-> TRUE, params |-> <<"INT">>, ret_types |-> <<"STRING", "INT">>],
             ord |-> [defined |-> TRUE, params |-> <<"STRING", "INT">>, ret_types |-> <<"INT", "INT">>],
             substr |-> [defined |-> TRUE, params |-> <<"STRING", "INT", "INT">>,
                         ret_types |-> <<"STRING", "INT">>]]
Signatures ==
  Internal @@ [f \in DOMAIN program |->
                 [defined |-> TRUE, ret_types |-> program[f].results,
                  params |-> Mapped(LAMBDA p : VarTypes[Symbol(p)], program[f].params)]]

TypeOf(tree) == Infer(tree, VarTypes, Signatures).type
LogicOps == {"LOG_NOT"} \cup Logic \cup Comparisons \cup Equalities
is_direct_ast(tree) == tree[1] \in {"ID", "CONST"}
\* The optimiser leaves the flag of a tree whose calls it has removed; that only takes the
\* longer way round, by the stack.
HasCalls(tree) == Has(tree, LAMBDA n : n[1] = "CALL")
hasInnerFuncCalls(args) == \E k \in DOMAIN args : HasCalls(args[k])
IsThrownAway(id) == id[1] = "BLACK_HOLE" \/ references[Symbol(id)] = 0

-------------------------------------------------------------------------------
(* Output and names. *)

Error(g, result) == [g EXCEPT !.result = IF @ = "SUCCESS" THEN result ELSE @]

\* A name that is in no table is an error, and nothing is printed for it.
NotFound == -1
Misses(i) == \E k \in 2..Len(i) : i[k][1] = "LF" /\ i[k][2] = NotFound
Emit(g, code) ==
  [g EXCEPT !.code = @ \o code,
            !.result = IF @ = "SUCCESS" /\ (\E k \in DOMAIN code : Misses(code[k])) THEN "INTERNAL" ELSE @]

Inside(g, table) == [g EXCEPT !.scopes = <<table>> \o @]
Outside(g) == [g EXCEPT !.scopes = Tail(@)]

(* Mutant: an inner variable is found before it has a value. *)
AnySymTable(g, name) == SelectSeq(g.scopes, LAMBDA t : <<t, name>> \in Symbols)

\* The tables that have the name, the one that is taken first.
find_sym_table(g, name) ==
  SelectSeq(g.scopes, LAMBDA t : <<t, name>> \in Symbols /\ (g.onlyFind => <<t, name>> \in g.defined))

NameIn(g, tables, id) == <<"LF", IF tables = <<>> THEN NotFound ELSE g.prefix[tables[1]], id[3], id[2]>>
print_var_name(g, id) == NameIn(g, find_sym_table(g, id[3]), id)
print_var_name_or_const(g, tree) == IF tree[1] = "CONST" THEN tree ELSE print_var_name(g, tree)
Argument(f, param) == <<"TF", 1, param[3], f>>

Defines(g, id) == [g EXCEPT !.defined = @ \cup {Symbol(id)}]

-------------------------------------------------------------------------------
(* Expressions. *)

RECURSIVE generate_expression_ast_result(_, _), generate_logic_expression_tree(_, _, _, _),
          generate_func_call(_, _), generate_string_concat(_, _, _),
          generate_logic_expression_assignment(_, _, _), generate_assignment_for_varname(_, _, _)

\* An expression on the stack.
OnStack(g, tree) ==
  IF tree[1] \in LogicOps THEN generate_logic_expression_assignment(g, tree, <<>>)
  ELSE generate_expression_ast_result(g, tree)

DivideBy(g, right) ==
  [Emit(g, (IF right[1] = "ID"
            THEN << <<"JUMPIFEQ", ZeroDiv, ConstInt(0), print_var_name(g, right)>> >>
            ELSE << <<"POPS", REG_1>>, <<"JUMPIFEQ", ZeroDiv, REG_1, ConstInt(0)>>, <<"PUSHS", REG_1>> >>)
           \o << <<"IDIVS">> >>) EXCEPT !.divUsed = TRUE]

generate_expression_ast(g, tree) ==
  CASE tree[1] \in {"ID", "CONST"} -> Emit(g, << <<"PUSHS", print_var_name_or_const(g, tree)>> >>)
    [] tree[1] = "ADD" -> Emit(g, << <<"ADDS">> >>)
    [] tree[1] = "SUBTRACT" -> Emit(g, << <<"SUBS">> >>)
    [] tree[1] = "MULTIPLY" -> Emit(g, << <<"MULS">> >>)
    [] tree[1] = "DIVIDE" -> DivideBy(g, tree[3])
    [] OTHER -> Error(g, "INTERNAL")

RegisterOf(target) == IF target = 2 THEN REG_2 ELSE REG_1

\* Strings are put together in the registers; a constant in front of a sum is printed
\* without a space behind it, and whatever is not a sum is taken for one.
Concatenated(g, left, right, to) ==
  CASE is_direct_ast(left) /\ is_direct_ast(right) ->
         Emit(g, << <<"CONCAT", to, print_var_name_or_const(g, left), print_var_name_or_const(g, right)>> >>)
    [] is_direct_ast(left) /\ ~is_direct_ast(right) ->
         Emit(generate_string_concat(g, right, 1), << <<"MALFORMED">> >>)
    [] ~is_direct_ast(left) /\ is_direct_ast(right) ->
         Emit(generate_string_concat(g, left, 1), << <<"CONCAT", to, REG_1, print_var_name_or_const(g, right)>> >>)
    [] OTHER -> Emit(generate_string_concat(generate_string_concat(g, left, 2), right, 1),
                     << <<"CONCAT", to, REG_2, REG_1>> >>)
generate_string_concat(g, tree, target) ==
  IF tree[1] # "ADD" THEN Error(g, "CRASH")
  ELSE Emit(Concatenated(g, tree[2], tree[3], RegisterOf(target)),
            IF target = 0 THEN << <<"PUSHS", REG_1>> >> ELSE <<>>)

\* -e is 0 - e, unless e is a constant.
generate_expression_ast_result(g, tree) ==
  CASE tree[1] = "CALL" -> generate_func_call(g, tree)
    [] tree[1] = "AR_NEGATE" ->
         IF tree[2][1] = "CONST" THEN generate_expression_ast(g, ConstInt(-tree[2][3]))
         ELSE Emit(generate_expression_ast_result(generate_expression_ast(g, ConstInt(0)), tree[2]), << <<"SUBS">> >>)
    [] tree[1] = "ADD" /\ TypeOf(tree) = "STRING" -> generate_string_concat(g, tree, 0)
    [] tree[1] \in {"ID", "CONST"} -> generate_expression_ast(g, tree)
    [] OTHER -> generate_expression_ast(FoldLeft(generate_expression_ast_result, g, Tail(tree)), tree)

\* A comparison with operands that need no code of their own, and one on the stack.
CompareDirectly(g, op, l, r, yes) ==
  CASE op = "LOG_EQ" -> << <<"JUMPIFEQ", yes, l, r>> >>
    [] op = "LOG_NEQ" -> << <<"JUMPIFNEQ", yes, l, r>> >>
    [] OTHER -> (IF op \in {"LOG_LTE", "LOG_GTE"} THEN << <<"JUMPIFEQ", yes, l, r>> >> ELSE <<>>)
                \o << <<IF op \in {"LOG_LT", "LOG_LTE"} THEN "LT" ELSE "GT", COND_RES_VAR, l, r>>,
                      <<"JUMPIFEQ", yes, ConstTrue, COND_RES_VAR>> >>
CompareOnStack(op, yes) ==
  CASE op \in {"LOG_LTE", "LOG_GTE"} ->
         << <<"POPS", COND_RHS_VAR>>, <<"POPS", COND_LHS_VAR>>,
            <<"JUMPIFEQ", yes, COND_LHS_VAR, COND_RHS_VAR>>,
            <<IF op = "LOG_LTE" THEN "LT" ELSE "GT", COND_RES_VAR, COND_LHS_VAR, COND_RHS_VAR>>,
            <<"JUMPIFEQ", yes, ConstTrue, COND_RES_VAR>> >>
    [] OTHER -> << <<CASE op = "LOG_LT" -> "LTS" [] op = "LOG_GT" -> "GTS" [] OTHER -> "EQS">>,
                   <<"PUSHS", Const("BOOL", op # "LOG_NEQ")>>, <<"JUMPIFEQS", yes>> >>

CompareOperand(g, tree) ==
  IF TypeOf(tree) = "BOOL" THEN generate_logic_expression_assignment(g, tree, <<>>)
  ELSE generate_expression_ast_result(g, tree)

generate_simple_logic_expression(g, tree, yes, no) ==
  CASE tree[1] = "CONST" -> Emit(g, << <<"JUMP", IF tree[3] THEN yes ELSE no>> >>)
    [] tree[1] = "ID" -> Emit(g, << <<"JUMPIFEQ", yes, print_var_name(g, tree), ConstTrue>>, <<"JUMP", no>> >>)
    [] tree[1] = "CALL" -> Emit(generate_func_call(g, tree),
                                << <<"PUSHS", ConstTrue>>, <<"JUMPIFEQS", yes>>, <<"JUMP", no>> >>)
    [] OTHER ->
         IF is_direct_ast(tree[2]) /\ is_direct_ast(tree[3])
         THEN Emit(g, CompareDirectly(g, tree[1], print_var_name_or_const(g, tree[2]),
                                      print_var_name_or_const(g, tree[3]), yes) \o << <<"JUMP", no>> >>)
         ELSE Emit(FoldLeft(CompareOperand, g, Tail(tree)),
                   CompareOnStack(tree[1], yes) \o << <<"JUMP", no>> >>)

\* && and || jump past their right operand; the labels are numbered through the program.
LogicLabel(n) == <<"$", "log", n, "">>
generate_logic_expression_tree(g, tree, yes, no) ==
  LET h == [g EXCEPT !.logic = @ + 1]
      next == LogicLabel(g.logic)
      Right(after) == generate_logic_expression_tree(Emit(after, << <<"LABEL", next>> >>), tree[3], yes, no)
  IN CASE tree[1] = "LOG_AND" -> Right(generate_logic_expression_tree(h, tree[2], next, no))
       [] tree[1] = "LOG_OR" -> Right(generate_logic_expression_tree(h, tree[2], yes, next))
       [] tree[1] = "LOG_NOT" -> generate_logic_expression_tree(g, tree[2], no, yes)
       [] OTHER -> generate_simple_logic_expression(g, tree, yes, no)

\* Where the jumps of a condition meet again; what follows each of the two.
Joined(g, kind, n, whenTrue, whenFalse) ==
  Emit(g, << <<"LABEL", Label(g, kind, n, "true")>>, whenTrue, <<"JUMP", Label(g, kind, n, "end")>>,
             <<"LABEL", Label(g, kind, n, "false")>>, whenFalse, <<"LABEL", Label(g, kind, n, "end")>> >>)
Condition(g, tree, kind, n) ==
  generate_logic_expression_tree(g, tree, Label(g, kind, n, "true"), Label(g, kind, n, "false"))

\* Into the variable, or on the stack if there is none.
generate_logic_expression_assignment(g, tree, target) ==
  LET Gets(c) == IF target = <<>> THEN <<"PUSHS", c>> ELSE <<"MOVE", target, c>>
  IN Joined(Condition([g EXCEPT !.jumping = @ + 1], tree, "", g.jumping), "", g.jumping,
            Gets(ConstTrue), Gets(ConstFalse))

generate_assignment_for_varname(g, target, tree) ==
  CASE is_direct_ast(tree) -> Emit(g, << <<"MOVE", target, print_var_name_or_const(g, tree)>> >>)
    [] tree[1] \in LogicOps -> generate_logic_expression_assignment(g, tree, target)
    [] OTHER -> Emit(generate_expression_ast_result(g, tree), << <<"POPS", target>> >>)

-------------------------------------------------------------------------------
(* Built-in functions. *)

generate_print_log_expr(g, tree) ==
  Joined(Condition([g EXCEPT !.ifs = @ + 1], tree, "print", g.ifs), "print", g.ifs,
         <<"WRITE", ConstTrue>>, <<"WRITE", ConstFalse>>)

PrintArgument(g, tree) ==
  CASE is_direct_ast(tree) -> Emit(g, << <<"WRITE", print_var_name_or_const(g, tree)>> >>)
    [] ~is_direct_ast(tree) /\ TypeOf(tree) = "BOOL" -> generate_print_log_expr(g, tree)
    [] OTHER -> Emit(generate_expression_ast_result(g, tree), << <<"POPS", REG_1>>, <<"WRITE", REG_1>> >>)
generate_print(g, args) == FoldLeft(PrintArgument, g, args)

NextJumping(g) == [g EXCEPT !.jumping = @ + 1]

\* Two values: the error flag below the result.
Succeed(value) == << <<"PUSHS", ConstInt(0)>>, <<"PUSHS", value>> >>
Fail(value) == << <<"PUSHS", ConstInt(1)>>, <<"PUSHS", value>> >>
FailOrEnd(g, kind, n, value) ==
  << <<"JUMP", Label(g, kind, n, "end")>>, <<"LABEL", Label(g, kind, n, "fail")>> >> \o Fail(value)
  \o << <<"LABEL", Label(g, kind, n, "end")>> >>
FailIf(g, kind, n, op, left, right) ==
  << <<op, COND_RES_VAR, left, right>>, <<"JUMPIFEQ", Label(g, kind, n, "fail"), COND_RES_VAR, ConstTrue>> >>

generate_internal_inputx(g) ==
  Emit(NextJumping(g),
       << <<"READ", REG_1>>, <<"TYPE", REG_2, REG_1>>,
          <<"JUMPIFNEQ", Label(g, "input", g.jumping, "fail"), REG_2, Const("STRING", "INT")>> >>
       \o Succeed(REG_1) \o FailOrEnd(g, "input", g.jumping, ConstInt(0)))

\* The code for any other argument than a name or a constant is one line too short.
generate_internal_len(g, tree) ==
  IF is_direct_ast(tree)
  THEN Emit(g, << <<"STRLEN", REG_1, print_var_name_or_const(g, tree)>>, <<"PUSHS", REG_1>> >>)
  ELSE Emit(generate_expression_ast_result(g, tree), << <<"POPS", REG_1>>, <<"MALFORMED">> >>)

CharCodes == 0..255
generate_internal_chr(g, tree) ==
  CASE tree[1] = "CONST" ->
         Emit(g, IF tree[3] \in CharCodes THEN Succeed(Const("STRING", <<tree[3]>>)) ELSE Fail(EmptyString))
    [] OTHER ->
         Emit(generate_expression_ast_result(NextJumping(g), tree),
              << <<"POPS", REG_1>> >> \o FailIf(g, "chr", g.jumping, "LT", REG_1, ConstInt(0))
              \o FailIf(g, "chr", g.jumping, "GT", REG_1, ConstInt(255))
              \o Succeed(REG_1) \o << <<"INT2CHARS">> >> \o FailOrEnd(g, "chr", g.jumping, EmptyString))

\* The string of ord and substr and its length, where it is already.
Subject(g, tree) ==
  CASE tree[1] = "CONST" -> g
    [] tree[1] = "ID" -> Emit(g, << <<"STRLEN", REG_2, print_var_name(g, tree)>> >>)
    [] OTHER -> Emit(generate_expression_ast_result(g, tree), << <<"POPS", REG_1>>, <<"STRLEN", REG_2, REG_1>> >>)
SubjectIn(g, tree) == IF is_direct_ast(tree) THEN print_var_name_or_const(g, tree) ELSE REG_1
LengthIn(tree) == IF tree[1] = "CONST" THEN ConstInt(Len(tree[3])) ELSE REG_2

\* The index into REG_3, and out of the string it fails.
Indexed(g, kind, n, index, length) ==
  Emit(generate_assignment_for_varname(NextJumping(g), REG_3, index),
       FailIf(g, kind, n, "LT", REG_3, ConstInt(0)) \o FailIf(g, kind, n, "GT", REG_3, length)
       \o FailIf(g, kind, n, "EQ", REG_3, length))

OrdOf(g, n, string, args) ==
  Emit(Indexed(g, "ord", n, args[2], LengthIn(args[1])),
       << <<"STRI2INT", REG_2, string, REG_3>> >> \o Succeed(REG_2) \o FailOrEnd(g, "ord", n, EmptyString))
OrdAfter(g, args) == OrdOf(g, g.jumping, SubjectIn(g, args[1]), args)
generate_internal_ord(g, args) == OrdAfter(Subject(g, args[1]), args)

TmpI(n) == <<"TF", n, "tmp_i", "">>
TmpRes(n) == <<"TF", n, "tmp_res", "">>
SubstrLoop(g, n, string, length) ==
  FailIf(g, "substr", n, "LT", REG_3, ConstInt(0))
  \o << <<"ADD", REG_3, REG_3, TmpI(n)>>, <<"GT", COND_RES_VAR, REG_3, length>>,
        <<"JUMPIFEQ", Label(g, "substr", n, "cont"), COND_RES_VAR, ConstFalse>>,
        <<"MOVE", REG_3, length>>,
        <<"LABEL", Label(g, "substr", n, "cont")>>,
        <<"LT", COND_RES_VAR, TmpI(n), REG_3>>,
        <<"JUMPIFEQ", Label(g, "substr", n, "forend"), COND_RES_VAR, ConstFalse>>,
        <<"GETCHAR", REG_2, string, TmpI(n)>>, <<"CONCAT", TmpRes(n), TmpRes(n), REG_2>>,
        <<"ADD", TmpI(n), TmpI(n), ConstInt(1)>>, <<"JUMP", Label(g, "substr", n, "cont")>>,
        <<"LABEL", Label(g, "substr", n, "forend")>> >>
  \o Succeed(TmpRes(n)) \o FailOrEnd(g, "substr", n, EmptyString)
TmpsMade(g, n) ==
  Emit(g, << <<"CREATEFRAME">>, <<"DEFVAR", TmpI(n)>>, <<"DEFVAR", TmpRes(n)>>,
             <<"MOVE", TmpI(n), REG_3>>, <<"MOVE", TmpRes(n), EmptyString>> >>)
SubstrOf(g, n, string, args) ==
  Emit(generate_assignment_for_varname(TmpsMade(Indexed(g, "substr", n, args[2], LengthIn(args[1])), n),
                                       REG_3, args[3]),
       SubstrLoop(g, n, string, LengthIn(args[1])))
SubstrAfter(g, args) == SubstrOf(g, g.jumping, SubjectIn(g, args[1]), args)
generate_internal_substr(g, args) == SubstrAfter(Subject(g, args[1]), args)

generate_internal_func_call(g, f, args) ==
  CASE f = "print" -> generate_print(g, args)
    [] f = "inputi" -> generate_internal_inputx(g)
    [] f = "len" -> generate_internal_len(g, args[1])
    [] f = "chr" -> generate_internal_chr(g, args[1])
    [] f = "ord" -> generate_internal_ord(g, args)
    [] f = "substr" -> generate_internal_substr(g, args)

-------------------------------------------------------------------------------
(* Calls. *)

Finding(g, on) == [g EXCEPT !.onlyFind = on]

\* The arguments go into a new temporary frame: from the stack, last one first, if there is
\* a call in them, which would need the frame; or directly.
PopArgument(f, param) == << <<"DEFVAR", Argument(f, param)>>, <<"POPS", Argument(f, param)>> >>
PassOnStack(g, f, args) ==
  Emit(Finding(FoldLeft(OnStack, g, Reverse(args)), FALSE),
       << <<"CREATEFRAME">> >> \o FlattenSeq(Mapped(LAMBDA p : PopArgument(f, p), program[f].params)))
PassDirectly(g, f, args) ==
  FoldLeft(LAMBDA h, k : generate_assignment_for_varname(
                           Emit(h, << <<"DEFVAR", Argument(f, program[f].params[k])>> >>),
                           Argument(f, program[f].params[k]), args[k]),
           g, [k \in DOMAIN args |-> k])
PassArguments(g, f, args) ==
  CASE args = <<>> -> Emit(g, << <<"CREATEFRAME">> >>)
    [] args # <<>> /\ hasInnerFuncCalls(args) -> PassOnStack(Finding(g, TRUE), f, args)
    [] OTHER -> Finding(PassDirectly(Finding(Emit(g, << <<"CREATEFRAME">> >>), TRUE), f, args), FALSE)

generate_func_call(g, tree) ==
  IF tree[2] \in DOMAIN Internal
  THEN Finding(generate_internal_func_call(Finding(g, TRUE), tree[2], tree[3]), FALSE)
  ELSE Emit(PassArguments(Finding(g, FALSE), tree[2], tree[3]), << <<"CALL", FunctionLabel(tree[2])>> >>)

-------------------------------------------------------------------------------
(* Assignments. *)

PopInto(g, id) ==
  IF IsThrownAway(id) THEN Emit(g, << <<"POPS", REG_1>> >>)
  ELSE Defines(Emit(g, << <<"POPS", print_var_name(g, id)>> >>), id)

(* Mutant: what nobody needs is left on the stack. *)
PopUnlessThrownAway(g, targets, call) ==
  FoldLeft(PopInto, generate_func_call(g, call), SelectSeq(targets, LAMBDA id : ~IsThrownAway(id)))

generate_assignment_with_function_expansion(g, targets, call) ==
  FoldLeft(PopInto, generate_func_call(g, call), targets)

\* Values nobody needs are not worked out, unless there is a call in them. Of several
\* values for one variable the last one stays.
IsOmitted(id, value) == IsThrownAway(id) /\ ~HasCalls(value)
PushValue(g, id, value) == IF IsOmitted(id, value) THEN g ELSE OnStack(g, value)
PopValue(g, targets, k, value) ==
  CASE IsOmitted(targets[k], value) -> g
    [] ~IsOmitted(targets[k], value) /\ (\E l \in (k + 1)..Len(targets) : targets[l] = targets[k]) ->
         Emit(g, << <<"POPS", REG_1>> >>)
    [] OTHER -> PopInto(g, targets[k])
generate_multi_assignment(g, targets, values) ==
  FoldLeft(LAMBDA h, k : PopValue(h, targets, k, values[k]),
           FoldLeft(LAMBDA h, k : PushValue(h, targets[k], values[k]), g, [k \in DOMAIN targets |-> k]),
           Reverse([k \in DOMAIN targets |-> k]))

\* The target is looked up before the value, and among all the names.
AssignTo(g, id, target, value) ==
  Defines(Finding(generate_assignment_for_varname(Finding(g, TRUE), target, value), FALSE), id)
AssignOne(g, id, value) ==
  CASE IsOmitted(id, value) -> g
    [] IsThrownAway(id) /\ HasCalls(value) -> generate_assignment_for_varname(g, REG_1, value)
    [] OTHER -> AssignTo(g, id, print_var_name(g, id), value)

generate_assignment(g, tree) ==
  CASE IsModification(tree) -> AssignOne(g, tree[2], tree[3])
    [] ~IsModification(tree) /\ Len(tree[3][2]) = 1 /\ tree[3][2][1][1] = "CALL" ->
         generate_assignment_with_function_expansion(g, tree[2][2], tree[3][2][1])
    [] OTHER -> IF Len(tree[2][2]) = 1 THEN AssignOne(g, tree[2][2][1], tree[3][2][1])
                ELSE generate_multi_assignment(g, tree[2][2], tree[3][2])

-------------------------------------------------------------------------------
(* Statements. *)

\* The parser gives main one reference when it is done; clean_ast only takes references.
mainReferences == 1
generateMainAsFunc == mainReferences > 1
IsMainBody(g) == g.fun = "main" /\ ~generateMainAsFunc

\* A return outside branches makes up for the ones in branches.
Terminated(g) ==
  [g EXCEPT !.terminated = TRUE,
            !.terminatedInBranch = IF g.terminated THEN @ /\ g.inBranch ELSE g.inBranch]

(* Mutant: the values may be fewer if the results have names. *)
AnyFewer(fun, values) ==
  \/ Len(values) = Len(fun.results)
  \/ fun.named # <<>> /\ Len(values) < Len(fun.results)

ReturnsRightCount(fun, values) ==
  \/ Len(values) = Len(fun.results)
  \/ fun.named # <<>> /\ values = <<>>

(* Mutant: the results stand on the stack the other way round. *)
PushInOrder(g, fun, values) ==
  IF values # <<>> THEN FoldLeft(OnStack, g, values)
  ELSE FoldLeft(LAMBDA h, id : Emit(h, << <<"PUSHS", print_var_name(h, id)>> >>), g, fun.named)

\* The first value, or the first variable of named results, ends up on top.
PushResults(g, fun, values) ==
  IF values # <<>> THEN FoldLeft(OnStack, g, Reverse(values))
  ELSE FoldLeft(LAMBDA h, id : Emit(h, << <<"PUSHS", print_var_name(h, id)>> >>), g, Reverse(fun.named))

ReturnFrom(g, fun, values) ==
  CASE ~ReturnsRightCount(fun, values) -> Error(g, "WRONG_PARAMETER_OR_RETURN_VALUE")
    [] ReturnsRightCount(fun, values) /\ (\E k \in DOMAIN values : TypeOf(values[k]) # fun.results[k]) ->
         Error(g, "WRONG_PARAMETER_OR_RETURN_VALUE")
    [] OTHER -> Terminated(Emit(PushResults(g, fun, values), << <<"POPFRAME">>, <<"RETURN">> >>))

generate_return_statement(g, values) ==
  CASE IsMainBody(g) /\ values # <<>> -> Error(g, "WRONG_PARAMETER_OR_RETURN_VALUE")
    [] IsMainBody(g) /\ values = <<>> -> [Emit(g, << <<"EXIT", ConstInt(0)>> >>) EXCEPT !.terminated = TRUE]
    [] OTHER -> ReturnFrom(g, program[g.fun], values)

RECURSIVE generate_statement(_, _)

\* A block in its own table; what a branch does to the flag is undone behind it.
GenerateBlock(g, block) == Outside(FoldLeft(generate_statement, Inside(g, block[3]), block[2]))
InBranch(g, on) == [g EXCEPT !.inBranch = on]

IfElse(g, n, stat) ==
  IF stat[4] = Null THEN g
  ELSE GenerateBlock(Emit(g, << <<"JUMP", Label(g, "if", n, "end")>>, <<"LABEL", Label(g, "if", n, "else")>> >>),
                     stat[4])
IfThen(g, n, stat) == IfElse(GenerateBlock(Emit(g, << <<"LABEL", Label(g, "if", n, "then")>> >>), stat[3]), n, stat)
generate_if_statement(g, stat) ==
  Emit(InBranch(IfThen(InBranch(generate_logic_expression_tree(
                                  [g EXCEPT !.ifs = @ + 1], stat[2], Label(g, "if", g.ifs, "then"),
                                  Label(g, "if", g.ifs, IF stat[4] = Null THEN "end" ELSE "else")),
                                TRUE), g.ifs, stat), g.inBranch),
       << <<"LABEL", Label(g, "if", g.ifs, "end")>> >>)

ForHeader(g, n, stat) ==
  Emit(generate_logic_expression_tree(
         Emit(IF stat[2] = Null THEN g ELSE generate_assignment(g, stat[2]),
              << <<"LABEL", Label(g, "for", n, "begin")>> >>),
         stat[3], Label(g, "for", n, "then"), Label(g, "for", n, "end")),
       << <<"LABEL", Label(g, "for", n, "then")>> >>)
ForBody(g, n, stat) == InBranch(GenerateBlock(InBranch(ForHeader(g, n, stat), TRUE), stat[5]), g.inBranch)
ForAfterthought(g, stat) == Outside(IF stat[4] = Null THEN g ELSE generate_assignment(g, stat[4]))
generate_for_statement(g, stat) ==
  Emit(ForAfterthought(ForBody(Inside([g EXCEPT !.ifs = @ + 1], stat[6]), g.ifs, stat), stat),
       << <<"JUMP", Label(g, "for", g.ifs, "begin")>>, <<"LABEL", Label(g, "for", g.ifs, "end")>> >>)

generate_basic_statement(g, tree) ==
  CASE tree[1] = "CALL" /\ Signatures[tree[2]].ret_types # <<>> -> Error(g, "SEMANTIC_GENERAL")
    [] tree[1] = "CALL" /\ Signatures[tree[2]].ret_types = <<>> -> generate_func_call(g, tree)
    [] OTHER -> generate_assignment(g, tree)

generate_statement(g, stat) ==
  CASE g.result # "SUCCESS" -> g
    [] g.result = "SUCCESS" /\ stat[1] = "BASIC" -> generate_basic_statement(g, stat[2])
    [] g.result = "SUCCESS" /\ stat[1] = "RETURN" -> generate_return_statement(g, stat[2][2])
    [] g.result = "SUCCESS" /\ stat[1] = "IF" -> generate_if_statement(g, stat)
    [] g.result = "SUCCESS" /\ stat[1] = "FOR" -> generate_for_statement(g, stat)

-------------------------------------------------------------------------------
(* Functions. *)

\* The tables in the order in which the statements lead to them. A block other than the
\* body of a function begins with an empty statement of its own table.
RECURSIVE TablesOf(_, _)
TablesOf(stat, table) ==
  LET Block(b) == IF b = Null THEN <<>>
                  ELSE <<b[3]>> \o FlattenSeq(Mapped(LAMBDA s : TablesOf(s, b[3]), b[2]))
  IN CASE stat[1] = "IF" -> <<table>> \o Block(stat[3]) \o Block(stat[4])
       [] stat[1] = "FOR" -> <<stat[6]>> \o Block(stat[5])
       [] OTHER -> <<table>>

Distinct(tables) == FoldLeft(LAMBDA seen, t : IF Contains(seen, t) THEN seen ELSE Append(seen, t), <<>>, tables)

Variable(g, symbol) == <<"LF", g.prefix[symbol[1]], symbol[2], symbol[1]>>
Defined(g, fun, symbol) ==
  LET var == Variable(g, symbol)
      named == {k \in DOMAIN fun.named : Symbol(fun.named[k]) = symbol}
  IN Emit(g, << <<"DEFVAR", var>> >>
             \o (IF named = {} THEN <<>>
                 ELSE << <<"MOVE", var, DefaultValue(fun.results[CHOOSE k \in named : TRUE])>> >>))
DefinedIn(g, fun, table) ==
  FoldSet(LAMBDA symbol, h : Defined(h, fun, symbol), g,
          {s \in Symbols : s[1] = table /\ references[s] > 0 /\ s \notin ToSet(Mapped(Symbol, fun.params))})

\* Numbers from 1; a table no statement leads to keeps 0, and its variables are not defined.
DefineAll(g, fun, tables) ==
  FoldLeft(LAMBDA h, t : DefinedIn(h, fun, t),
           [g EXCEPT !.prefix = [t \in ToSet(tables) |-> CHOOSE k \in DOMAIN tables : tables[k] = t]
                                @@ (fun.body[3] :> 0) @@ @],
           tables)
generate_definitions(g, fun) ==
  DefineAll(g, fun, Distinct(FlattenSeq(Mapped(LAMBDA s : TablesOf(s, fun.body[3]), fun.body[2]))))

NewFunction(g, f) ==
  [g EXCEPT !.fun = f, !.jumping = 0, !.ifs = 0, !.inBranch = FALSE, !.terminatedInBranch = FALSE,
            !.terminated = FALSE, !.scopes = <<program[f].body[3]>>,
            !.defined = @ \cup ToSet(Mapped(Symbol, program[f].params \o program[f].named))]

EndWithReturn(g, fun) ==
  CASE g.terminated -> g
    [] ~g.terminated /\ fun.results = <<>> -> generate_return_statement(g, <<>>)
    [] OTHER -> Error(g, "WRONG_PARAMETER_OR_RETURN_VALUE")
\* If all the returns were in branches, there is another one, with default values unless
\* the results have names.
EndBranches(g, fun) ==
  IF ~g.terminatedInBranch THEN g
  ELSE Emit(g, (IF fun.named # <<>> THEN <<>>
                ELSE Mapped(LAMBDA t : <<"PUSHS", DefaultValue(t)>>, Reverse(fun.results)))
               \o << <<"POPFRAME">>, <<"RETURN">> >>)
Body(g, fun) == FoldLeft(generate_statement, generate_definitions(g, fun), fun.body[2])
Begin(g) == Emit(g, << <<"LABEL", FunctionLabel(g.fun)>> >>
                    \o (IF IsMainBody(g) THEN << <<"CREATEFRAME">> >> ELSE <<>>) \o << <<"PUSHFRAME">> >>)

generate_function(g, f) ==
  CASE program[f].body[2] = <<>> /\ program[f].results # <<>> /\ program[f].named = <<>> ->
         Error(g, "WRONG_PARAMETER_OR_RETURN_VALUE")
    [] program[f].body[2] = <<>> /\ (program[f].results = <<>> \/ program[f].named # <<>>) ->
         Emit(g, << <<"LABEL", FunctionLabel(f)>>, <<"RETURN">> >>)
    [] OTHER -> EndBranches(EndWithReturn(Body(Begin(NewFunction(g, f)), program[f]), program[f]), program[f])

-------------------------------------------------------------------------------
(* The program. *)

reg3Used == \E f \in DOMAIN program : Has(program[f].body, LAMBDA n : n[1] = "CALL" /\ n[2] \in {"ord", "substr"})
Preamble ==
  Mapped(LAMBDA var : <<"DEFVAR", var>>,
         <<COND_RES_VAR, COND_LHS_VAR, COND_RHS_VAR, REG_1, REG_2>> \o (IF reg3Used THEN <<REG_3>> ELSE <<>>))
  \o (IF program["main"].body[2] = <<>> THEN << <<"EXIT", ConstInt(0)>> >> ELSE <<>>)
  \o (CASE generateMainAsFunc ->
             << <<"CREATEFRAME">>, <<"CALL", FunctionLabel("main")>>, <<"EXIT", ConstInt(0)>> >>
        [] ~generateMainAsFunc /\ Head(generator.todo) # "main" -> << <<"JUMP", FunctionLabel("main")>> >>
        [] OTHER -> <<>>)

optimiserVars == vars

tcg_generate ==
  /\ phase = "done" /\ compiler_result = "SUCCESS"
  /\ generator.stage = "start"
  /\ generator' = [Emit(generator, Preamble) EXCEPT !.stage = "functions"]
  /\ UNCHANGED <<optimiserVars, machine>>

GenerateFunction ==
  /\ generator.stage = "functions" /\ generator.todo # <<>>
  /\ generator' = [generate_function(generator, Head(generator.todo)) EXCEPT !.todo = Tail(@)]
  /\ UNCHANGED <<optimiserVars, machine>>

GenerateZeroDivision ==
  /\ generator.stage = "functions" /\ generator.todo = <<>>
  /\ generator' = [Emit(generator, IF generator.divUsed
                                   THEN << <<"LABEL", ZeroDiv>>, <<"EXIT", ConstInt(9)>> >> ELSE <<>>)
                     EXCEPT !.stage = "generated"]
  /\ UNCHANGED <<optimiserVars, machine>>

\* Not part of the compiler: the machine gets the code and something to read.
Load(input) ==
  /\ generator.stage = "generated" /\ generator.result = "SUCCESS"
  /\ generator' = [generator EXCEPT !.stage = "running"]
  /\ machine' = Loaded(generator.code, input)
  /\ UNCHANGED optimiserVars

Run ==
  /\ generator.stage = "running"
  /\ machine.status = "running" /\ machine.steps < MaxSteps
  /\ machine' = Advanced([machine EXCEPT !.steps = @ + 1], generator.code)
  /\ UNCHANGED <<optimiserVars, generator>>

CompilerInit ==
  /\ Init
  /\ \E order \in Orders : generator = NewGenerator(order)
  /\ machine = Loaded(<<>>, <<>>)

CompilerNext ==
  \/ Next /\ UNCHANGED <<generator, machine>>
  \/ tcg_generate
  \/ GenerateFunction
  \/ GenerateZeroDivision
  \/ \E input \in Inputs : Load(input)
  \/ Run

compilerVars == <<source, program, references, changed, phase, compiler_result, amiss, lost, begun,
                  generator, machine>>
CompilerSpec == CompilerInit /\ [][CompilerNext]_compilerVars

-------------------------------------------------------------------------------
(* Properties. *)

\* A block uses a variable from outside and has one of that name itself, and the use is not
\* one that is looked up among the variables with a value: anything but the value of a
\* single assignment or an argument, without calls in it.
IsShielded(tree, id) ==
  /\ \A n \in ToSet(Nodes(tree)) : n[1] = "CALL" => ~hasInnerFuncCalls(n[3])
  /\ \/ tree[1] = "CALL"
     \/ /\ IsAssignment(tree) /\ Len(Targets(tree)) = 1 /\ Targets(tree)[1] # id
        /\ \A n \in ToSet(Nodes(tree)) : n[1] = "CALL" => n \in ToSet(Subtrees(tree[3]))
UsesShadowed(block, id) ==
  /\ id[2] # block[3] /\ <<block[3], id[3]>> \in Symbols
  /\ \E s \in ToSet(block[2]) : /\ id \in ToSet(Nodes(s))
                                /\ ~(s[1] = "BASIC" /\ IsShielded(s[2], id))
ShadowsWhatItUses ==
  \E b \in Bodies : \E n \in ToSet(Nodes(b)) :
    n[1] = "BLOCK" /\ \E id \in ToSet(Nodes(n)) : id[1] = "ID" /\ UsesShadowed(n, id)

\* Every variable in the code is the one the parser had found: the generator, which looks
\* names up once more (find_sym_table), comes to the same table. The exception is above.
NamesResolveAsParsed ==
  generator.stage = "generated" /\ generator.result = "SUCCESS" /\ ~ShadowsWhatItUses =>
    \A k \in DOMAIN generator.code : \A n \in 2..Len(generator.code[k]) :
      LET o == generator.code[k][n] IN o[1] = "LF" => o[2] = generator.prefix[o[4]]

\* The sources the generator is known to get wrong.
Statements(f, what) == {n \in ToSet(Nodes(source[f].body)) : n[1] = what}
\* A return of main in a branch keeps the end of main from stopping the program.
MainReturnsInBranch ==
  \E n \in Statements("main", "IF") \cup Statements("main", "FOR") : Has(n, LAMBDA s : s[1] = "RETURN")
\* The first statement gives its table the number that parameters are passed under.
BeginsWithLoop ==
  \E f \in DOMAIN source : source[f].params # <<>> /\ source[f].body[2] # <<>> /\ source[f].body[2][1][1] = "FOR"
\* Named results are not pushed where no return statement stands.
NamedResultsMayBeLost ==
  \E f \in DOMAIN source : source[f].named # <<>> /\ ~\E k \in DOMAIN source[f].body[2] : source[f].body[2][k][1] = "RETURN"
\* main stops the program wherever it was called from.
MainIsCalled == \E b \in Bodies : Has(b, LAMBDA n : n[1] = "CALL" /\ n[2] = "main")
\* print writes an argument before it evaluates the next one.
PrintsBetween ==
  \E b \in Bodies : Has(b, LAMBDA n : n[1] = "CALL" /\ n[2] = "print" /\ \E k \in 2..Len(n[3]) : HasEffect(n[3][k]))
\* The last argument, or the last value of a return, is evaluated first.
EvaluatesBackwards ==
  LET Several(trees) == \E k, l \in DOMAIN trees : k # l /\ HasEffect(trees[k]) /\ HasEffect(trees[l])
  IN \E b \in Bodies : Has(b, LAMBDA n : \/ n[1] = "CALL" /\ n[2] \notin DOMAIN Internal /\ Several(n[3])
                                         \/ n[1] = "RETURN" /\ Several(n[2][2]))
\* A division for a variable nobody uses is left out.
DivisionIsOmitted ==
  \E f \in DOMAIN program : Has(program[f].body, LAMBDA n :
    /\ IsAssignment(n) /\ Has(n[3], LAMBDA d : d[1] = "DIVIDE")
    /\ \E k \in DOMAIN Targets(n) : IsThrownAway(Targets(n)[k]))
\* The length of a string that is worked out, and a sum with a sum of strings on its right
\* only or with a call in it, come out as lines that are none, or not at all.
StringsBreak ==
  \E f \in DOMAIN program : Has(program[f].body, LAMBDA n :
    \/ n[1] = "CALL" /\ n[2] = "len" /\ ~is_direct_ast(n[3][1])
    \/ /\ n[1] = "ADD" /\ TypeOf(n) = "STRING"
       /\ \/ is_direct_ast(n[2]) /\ ~is_direct_ast(n[3])
          \/ \E k \in {2, 3} : n[k][1] = "CALL")
\* A call in the index or the length overwrites the registers or the frame that ord and
\* substr keep the string in.
RegistersOverwritten ==
  \E b \in Bodies : Has(b, LAMBDA n : n[1] = "CALL" /\ n[2] \in {"ord", "substr"} /\ hasInnerFuncCalls(Tail(n[3])))
KnownMistranslation ==
  \/ KnownMiscompilation \/ ShadowsWhatItUses \/ MainReturnsInBranch \/ BeginsWithLoop
  \/ NamedResultsMayBeLost \/ MainIsCalled \/ PrintsBetween \/ EvaluatesBackwards
  \/ DivisionIsOmitted \/ StringsBreak \/ RegistersOverwritten

\* The generated code prints, reads and ends as the source does: every statement, call and
\* jump of the code does what the source means (tcg_generate and all it calls), after what
\* the optimiser has done. The sources that break it are named above.
HasRun == generator.stage = "running" /\ machine.status # "running"
CompiledMeansSourceUnlessKnown ==
  HasRun /\ ~KnownMistranslation =>
    LET shown == Shown(source, Symbols, machine.input)
    IN shown.ended \in {"", "division by zero"} =>
         [said |-> machine.said, asked |-> machine.asked, ended |-> machine.status] = shown

\* A call leaves the results of the function on the stack and nothing else, and a program
\* that ends leaves nothing (generate_return_statement, and the POPS of every assignment).
AtReturn(m) == m.status = "running" /\ m.pc \in DOMAIN generator.code /\ generator.code[m.pc][1] = "RETURN" /\ m.calls # <<>>
CallsLeaveTheirResults ==
  [][generator.stage = "running" /\ (AtReturn(machine) \/ machine'.status = "") /\ ~KnownMistranslation =>
       /\ AtReturn(machine) =>
            Len(machine'.stack) = Last(machine.calls).height + Len(source[Last(machine.calls).fun].results)
       /\ machine'.status = "" => machine'.stack = <<>>]_compilerVars

\* The generator refuses a program for a return that does not fit the function, for a
\* function without the return it needs, for a call that leaves its results behind, or for
\* references the optimiser has lost, and for nothing else (generate_return_statement,
\* generate_function, generate_basic_statement, print_var_name_id).
ReturnsOf(f) == {n \in ToSet(Nodes(program[f].body)) : n[1] = "RETURN"}
WrongReturn(f, values) ==
  \/ Len(values) # Len(program[f].results) /\ (values # <<>> \/ program[f].named = <<>>)
  \/ \E k \in DOMAIN values : k \in DOMAIN program[f].results /\ TypeOf(values[k]) # program[f].results[k]
Reasons ==
  {"WRONG_PARAMETER_OR_RETURN_VALUE" : f \in {g \in DOMAIN program :
     \/ \E r \in ReturnsOf(g) : WrongReturn(g, r[2][2])
     \/ /\ program[g].results # <<>> /\ ReturnsOf(g) = {}
        /\ program[g].named = <<>> \/ program[g].body[2] # <<>>}}
  \cup {"SEMANTIC_GENERAL" : f \in {g \in DOMAIN program :
     Has(program[g].body, LAMBDA n : n[1] = "BASIC" /\ n[2][1] = "CALL" /\ Signatures[n[2][2]].ret_types # <<>>)}}
  \cup {"INTERNAL" : s \in {s \in Symbols : references[s] < TimesUsed(s)}}
RefusedForAReason ==
  generator.stage = "generated" =>
    generator.result \in IF Reasons = {} THEN {"SUCCESS"} ELSE Reasons
================================================================================
