--------------------------- MODULE PrecedenceParser ---------------------------
(***************************************************************************)
(* The operator-precedence parser (precedence_parser.c): one call of       *)
(* parse_expression on the tokens the scanner delivers. A stack of symbols *)
(* is compared with the next token in the precedence table; the relation   *)
(* says whether to shift, to reduce by one of the rules, to finish or to   *)
(* give up. Reducing runs the semantic action of the rule, which checks    *)
(* types, defines variables, declares functions and builds the tree.       *)
(*                                                                         *)
(* Tokens are named by what is written: "+", ":=", "(", "ID", "INT", ...;  *)
(* OUTSIDE is any token in no expression, INVALID is a lexical error.      *)
(***************************************************************************)
EXTENDS TypeRules, FiniteSets, FiniteSetsExt, TLC

CONSTANTS Kinds,  \* the kinds of calls to check, by their names
          Names,  \* names of variables
          infer_node_type(_, _, _)  \* ast_infer_node_type: what ast.c infers for a tree

(***************************************************************************)
(* A kind of call: the phrases (sequences of tokens) the source is made of *)
(* and the bound length on its tokens, the assign rule and                 *)
(* eol_before_allowed, the types of the variables in the two innermost     *)
(* tables ("ABSENT" if there is none), the functions, and whether the      *)
(* semantic checks are on: an earlier error turns them off.                *)
(***************************************************************************)
VARIABLES called,                 \* the name of the kind of call
          input, pos,             \* the tokens known so far and the place of the one in token
          stack,                  \* PrecedenceStack
          right_hand_side,
          count,                  \* definitions, assignments, function_calls, ... of parse_expression
          eol_allowed,
          phase,                  \* start, running, then accepted, rejected or undefined
          compiler_result,        \* the first error, NONE if there is none
          types, functions,       \* the symbol tables
          refused                 \* the tree whose check reported the first error

vars == <<called, input, pos, stack, right_hand_side, count, eol_allowed, phase,
          compiler_result, types, functions, refused>>

Tok(type, val) == [type |-> type, val |-> val, eol_read |-> FALSE]
AfterEol(token) == [token EXCEPT !.eol_read = TRUE]
Outside == AfterEol(Tok("OUTSIDE", ""))

Literals == {"INT", "FLOAT", "STRING", "BOOL"}
AssignOps == {"=", "+=", "-=", "*=", "/="}
SidesOps == AssignOps \cup {":="}
BinaryOps == {"+", "-", "*", "/", "<", ">", "<=", ">=", "==", "!=", "&&", "||"}
Unaries == {"!", "u+", "u-"}
Operators == BinaryOps \cup Unaries

TokenTypes == Literals \cup {"ID", "!", "(", ")", ",", "OUTSIDE", "INVALID"} \cup BinaryOps \cup SidesOps

ASSUME KindsAssumption ==
  \A k \in DOMAIN Kinds :
    /\ \A phrase \in Kinds[k].alphabet :
         phrase # <<>> /\ phrase \in Seq({tok \in ToSet(phrase) : tok.type \in TokenTypes})
    /\ DOMAIN Kinds[k].types = {"top", "outer"} \X Names

kind == Kinds[called]
token == input[pos]
prev_token == IF pos = 1 THEN Outside ELSE input[pos - 1]
semantic_enabled == compiler_result = "NONE"

\* The source is written as the parser reads it: one token is looked at after the current
\* one. After a syntax error the rest is written too, for the properties.
Written == input # <<>> /\ Last(input) = Outside
LookedAt == Written \/ Len(input) > pos

-----------------------------------------------------------------------------
(* The precedence table.                                                   *)

Level(op) == CASE op = "||" -> 1
               [] op = "&&" -> 2
               [] op \in {"<", ">", "<=", ">=", "==", "!="} -> 3
               [] op \in {"+", "-"} -> 4
               [] op \in {"*", "/"} -> 5
               [] op \in Unaries -> 6

(* Mutant: operators of one level associate to the right. *)
BindsMore(top, op) == Level(top) > Level(op)

BindsAtLeast(top, op) == Level(top) >= Level(op)

\* Operators of one level associate to the left.
LowerOrEqual(top, op) == op \notin Unaries /\ BindsAtLeast(top, op)

precedence_table(top, symbol) ==
  CASE symbol \in Operators ->
         CASE top \in {")", "i"} -> ">"
           [] top \in Operators -> IF LowerOrEqual(top, symbol) THEN ">" ELSE "<"
           [] top = "f" -> " "
           [] OTHER -> "<"
    [] symbol \in SidesOps ->
         CASE top = "i" -> ">"
           [] top = "," /\ symbol \in {"=", ":="} -> "="
           [] top = "$" -> "<"
           [] OTHER -> " "
    [] symbol \in {"(", "i", "f"} ->
         CASE top = "f" /\ symbol = "(" -> "="
           [] top \in {")", "i", "f"} /\ ~(top = "f" /\ symbol = "(") -> " "
           [] OTHER -> "<"
    [] symbol = ")" ->
         CASE top \in Operators \cup {")", "i"} -> ">"
           [] top \in {"(", ","} -> "="
           [] OTHER -> " "
    [] symbol = "," ->
         CASE top \in Operators \cup {")", "i"} -> ">"
           [] top \in {"=", ":=", "(", ","} -> "="
           [] top = "$" -> "<"
           [] OTHER -> " "
    [] symbol = "$" ->
         CASE top = "$" -> "o"
           [] top \in {"(", "f"} -> " "
           [] OTHER -> ">"

\* A sign is binary after an operand. Asked about a sign on the stack, the code answers
\* by the same tokens, as if it were the current one.
SignIndex == IF prev_token.type \in Literals \cup {"ID", ")"}
             THEN IF token.type = "+" THEN "+" ELSE "-"
             ELSE IF token.type = "+" THEN "u+" ELSE "u-"

\* An identifier is a function if a bracket follows on the same line.
BracketFollows == input[pos + 1].type = "(" /\ ~input[pos + 1].eol_read

get_table_index(type, may_follow_eol, eol_read) ==
  IF ~may_follow_eol /\ eol_read THEN "$"
  ELSE CASE type \in {"+", "-"} -> SignIndex
         [] type \in Literals \cup {"SYMB_ID"} -> "i"
         [] type = "SYMB_FUNCTION" -> "f"
         [] type = "ID" -> IF input[pos + 1].type = "INVALID" THEN "error"
                           ELSE IF BracketFollows THEN "f" ELSE "i"
         [] type \in {"OUTSIDE", "END"} -> "$"
         [] OTHER -> type

EolAfter == BinaryOps \cup SidesOps \cup {"!", ",", "("}
eol_allowed_after(type) == type \in EolAfter

-----------------------------------------------------------------------------
(* The stack.                                                              *)

Symbol(type, data_type, ast, val) ==
  [type |-> type, data_type |-> data_type, ast |-> ast, val |-> val]
NT(data_type, ast) == Symbol("NT", data_type, ast, "")
NoTree == <<"NULL">>
BEGIN == Symbol("BEGIN", "UNKNOWN", NoTree, "")
END == Symbol("END", "UNKNOWN", NoTree, "")

IsTerminal(s) == s.type \notin {"BEGIN", "NT"}
precedence_stack_top == SelectLastInSeq(stack, IsTerminal)
IsBegin(s) == s.type = "BEGIN"
precedence_stack_reduce_start == SelectLastInSeq(stack, IsBegin)

top_index == get_table_index(stack[precedence_stack_top].type, TRUE, TRUE)
symbol_index == get_table_index(token.type, eol_allowed, token.eol_read)
\* No token may follow an identifier that is followed by a lexical error.
relation == IF symbol_index = "error" THEN "error" ELSE precedence_table(top_index, symbol_index)

\* The symbol pushed for the current token.
CurrentType == CASE token.type = "ID" -> IF symbol_index = "f" THEN "SYMB_FUNCTION" ELSE "SYMB_ID"
                 [] token.type \in {"+", "-"} -> symbol_index
                 [] OTHER -> token.type
current_symbol == Symbol(CurrentType, "UNKNOWN", NoTree, token.val)

-----------------------------------------------------------------------------
(* The rules: the kind of reduction the symbols of a handle call for.      *)

Operands(handle) == SelectSeq(handle, LAMBDA s : s.type = "NT")

IsList(handle) == /\ Len(handle) % 2 = 1
                  /\ \A i \in DOMAIN handle :
                       handle[i].type = IF i % 2 = 1 THEN "NT" ELSE ","

IsCall(handle) == /\ Len(handle) >= 3
                  /\ handle[1].type = "SYMB_FUNCTION" /\ handle[2].type = "("
                  /\ Last(handle).type = ")"
                  /\ Len(handle) = 3 \/ IsList(SubSeq(handle, 3, Len(handle) - 1))

SidesAt(handle) == {i \in DOMAIN handle : handle[i].type \in SidesOps}
LeftSide(handle) == SubSeq(handle, 1, Min(SidesAt(handle)) - 1)
RightSide(handle) == SubSeq(handle, Min(SidesAt(handle)) + 1, Len(handle))

IsSides(handle) ==
  /\ Cardinality(SidesAt(handle)) = 1
  /\ IsList(LeftSide(handle)) /\ IsList(RightSide(handle))
  /\ Len(LeftSide(handle)) = 1 => Len(RightSide(handle)) = 1
  /\ handle[Min(SidesAt(handle))].type \in {"=", ":="} \/ Len(handle) = 3

Rule(handle) ==
  LET is(types_of) == [i \in DOMAIN handle |-> handle[i].type] = types_of
  IN CASE Len(handle) = 1 /\ handle[1].type \in Literals -> "literal"
       [] is(<<"SYMB_ID">>) -> "id"
       [] Len(handle) = 2 /\ handle[1].type \in Unaries /\ handle[2].type = "NT" -> "unary"
       [] Len(handle) = 3 /\ handle[2].type \in BinaryOps /\ is(<<"NT", handle[2].type, "NT">>) -> "binary"
       [] is(<<"(", "NT", ")">>) -> "brackets"
       [] IsCall(handle) -> "call"
       [] IsSides(handle) -> "sides"
       [] Len(handle) >= 3 /\ IsList(handle) -> "multi"
       [] OTHER -> "none"

-----------------------------------------------------------------------------
(* The semantic actions: what a reduction puts on the stack and does to    *)
(* the symbol tables, or the error it reports for the tree.                *)

Action(nt) == [error |-> "NONE", nt |-> nt, types |-> types, functions |-> functions]
Failure(error, tree) == [Action(NT("UNKNOWN", tree)) EXCEPT !.error = error]
Expect(condition, error, nt) == IF condition THEN Action(nt) ELSE Failure(error, nt.ast)

ast_node(op) ==
  CASE op \in {"+", "+="} -> "ADD"      [] op \in {"-", "-="} -> "SUBTRACT"
    [] op \in {"*", "*="} -> "MULTIPLY" [] op \in {"/", "/="} -> "DIVIDE"
    [] op = "<"  -> "LOG_LT"   [] op = ">"  -> "LOG_GT"
    [] op = "<=" -> "LOG_LTE"  [] op = ">=" -> "LOG_GTE"
    [] op = "==" -> "LOG_EQ"   [] op = "!=" -> "LOG_NEQ"
    [] op = "&&" -> "LOG_AND"  [] op = "||" -> "LOG_OR"

symtable_stack_find_symbol(name) ==
  CASE name \in Names /\ types[<<"top", name>>] # "ABSENT" -> "top"
    [] name \in Names /\ types[<<"top", name>>] = "ABSENT" /\ types[<<"outer", name>>] # "ABSENT" -> "outer"
    [] OTHER -> "none"

\* A plus leaves its operand as it is.
reduce_unary(op, operand) ==
  LET tree == <<IF op = "!" THEN "LOG_NOT" ELSE "AR_NEGATE", operand.ast>>
      type == IF op = "!" THEN "BOOL" ELSE operand.data_type
  IN IF operand.data_type \in OperandTypes(tree[1])
     THEN Action(IF op = "u+" THEN operand ELSE NT(type, tree))
     ELSE Failure("TYPE", tree)

(* Mutant: a type not known yet matches no other. *)
OperandsEqual(op, left, right) == left = right /\ left \in OperandTypes(ast_node(op)) \cup {"UNKNOWN"}

OperandsMatch(op, left, right) ==
  \/ "UNKNOWN" \in {left, right}
  \/ left = right /\ left \in OperandTypes(ast_node(op))

(* Mutant: a zero among integers is not looked for. *)
IsFloatZero(symbol) == symbol.ast[1] = "CONST" /\ symbol.data_type = "FLOAT" /\ symbol.ast[3] = 0

IsZero(symbol) == symbol.ast[1] = "CONST" /\ symbol.data_type \in {"INT", "FLOAT"} /\ symbol.ast[3] = 0

reduce_binary(op, left, right) ==
  LET tree == <<ast_node(op), left.ast, right.ast>>
      nt == NT(ResultType(ast_node(op), left.data_type), tree)
  IN IF ~OperandsMatch(op, left.data_type, right.data_type) THEN Failure("TYPE", tree)
     ELSE Expect(~(op = "/" /\ IsZero(right)), "DIVISION_BY_ZERO", nt)

reduce_id(name) ==
  LET scope == symtable_stack_find_symbol(name)
  IN IF ~right_hand_side
     THEN Action(Symbol("NT", "UNKNOWN",
                        IF name = "_" THEN <<"BLACK_HOLE">> ELSE <<"ID", "none", name>>, name))
     ELSE IF scope = "none" THEN Failure("UNDEFINED", <<"ID", "none", name>>)
     ELSE Action(NT(types[<<scope, name>>], <<"ID", scope, name>>))

\* The targets are read by their names. Only an identifier that was reduced on the left
\* hand side has one: for any other target the action reads something that is none.
HasName(symbol) == symbol.ast[1] = "BLACK_HOLE" \/ (symbol.ast[1] = "ID" /\ symbol.ast[2] = "none")

Target(symbol, scope) == IF symbol.ast[1] = "ID" THEN <<"ID", scope, symbol.val>> ELSE symbol.ast

FirstBad(targets, Bad(_)) == Min({Len(targets) + 1} \cup {i \in DOMAIN targets : Bad(targets[i])})
NoName(symbol) == ~HasName(symbol)
NoVariable(symbol) == symbol.ast[1] = "ID" /\ symtable_stack_find_symbol(symbol.val) = "none"

reduce_assign(targets, values) ==
  LET resolved == [i \in DOMAIN targets |-> Target(targets[i], symtable_stack_find_symbol(targets[i].val))]
      tree == <<"ASSIGN", <<"LIST", resolved>>, <<"LIST", values>>>>
  IN CASE FirstBad(targets, NoVariable) < FirstBad(targets, NoName) -> Failure("UNDEFINED", tree)
       [] FirstBad(targets, NoName) <= Len(targets) -> Failure("garbage", tree)
       [] OTHER -> Action(NT("UNKNOWN", tree))

reduce_define(targets, values) ==
  LET resolved == [i \in DOMAIN targets |-> Target(targets[i], "top")]
      tree == <<"DEFINE", <<"LIST", resolved>>, <<"LIST", values>>>>
      new == {targets[i].val : i \in DOMAIN targets} \ {"_"}
      added == {n \in new : types[<<"top", n>>] = "ABSENT"}
  IN CASE FirstBad(targets, NoName) <= Len(targets) -> Failure("garbage", tree)
       [] FirstBad(targets, NoName) > Len(targets) /\ added = {} -> Failure("UNDEFINED", tree)
       [] OTHER -> [Action(NT("UNKNOWN", tree)) EXCEPT
                      !.types = [v \in DOMAIN types |-> IF v[1] = "top" /\ v[2] \in added
                                                        THEN "UNKNOWN" ELSE types[v]]]

reduce_modify_assign(op, target, value) ==
  LET scope == symtable_stack_find_symbol(target.val)
      variable == <<"ID", scope, target.val>>
      tree == <<"ASSIGN", variable, <<ast_node(op), variable, value>>>>
  IN IF NoName(target) THEN Failure("garbage", tree)
     ELSE Expect(scope # "none", "UNDEFINED", NT("UNKNOWN", tree))

reduce_sides(op, targets, values) ==
  CASE op = "=" -> reduce_assign(targets, values)
    [] op = ":=" -> reduce_define(targets, values)
    [] OTHER -> reduce_modify_assign(op, targets[1], values[1])

\* A function not yet known is declared by its call.
reduce_function(name, args) ==
  LET f == functions[name]
      trees == [i \in DOMAIN args |-> args[i].ast]
      tree == <<"CALL", name, trees>>
      Fits(i) == /\ i <= Len(f.params)
                 /\ f.params[i] = "UNKNOWN" \/ args[i].data_type \in {"UNKNOWN", f.params[i]}
      declared == [f EXCEPT !.known = TRUE, !.params = [i \in DOMAIN args |-> args[i].data_type]]
  IN CASE symtable_stack_find_symbol(name) # "none" -> Failure("SEMANTIC_GENERAL", tree)
       [] symtable_stack_find_symbol(name) = "none" /\ ~f.known ->
            [Action(NT("UNKNOWN", tree)) EXCEPT !.functions[name] = declared]
       [] OTHER -> Expect(name = "print" \/ \A i \in DOMAIN args : Fits(i),
                          "WRONG_PARAMETER", NT("UNKNOWN", tree))

semantic_action(handle) ==
  LET rule == Rule(handle)
      operands == Operands(handle)
      Trees(symbols) == [i \in DOMAIN symbols |-> symbols[i].ast]
  IN CASE rule = "literal" -> Action(NT(handle[1].type, <<"CONST", handle[1].type, handle[1].val>>))
       [] rule = "id" -> reduce_id(handle[1].val)
       [] rule = "unary" -> reduce_unary(handle[1].type, handle[2])
       [] rule = "binary" -> reduce_binary(handle[2].type, handle[1], handle[3])
       [] rule = "brackets" -> Action(handle[2])
       [] rule = "call" -> reduce_function(handle[1].val, operands)
       [] rule = "sides" -> reduce_sides(handle[Min(SidesAt(handle))].type,
                              Operands(LeftSide(handle)), Trees(Operands(RightSide(handle))))
       [] rule = "multi" -> Action(NT("UNKNOWN", <<"LIST", Trees(operands)>>))

-----------------------------------------------------------------------------
(* The loop of parse_expression.                                           *)

\* set_compiler_result: only the first error counts.
FirstError(error) == IF compiler_result = "NONE" THEN error ELSE compiler_result

GiveUp(error) == /\ phase' = "rejected"
                 /\ compiler_result' = FirstError(error)
                 /\ UNCHANGED <<called, input, pos, stack, right_hand_side, count, eol_allowed,
                                types, functions, refused>>

\* Is there any expression to read?
Start ==
  /\ phase = "start" /\ LookedAt
  /\ IF get_table_index(token.type, kind.eol_before_allowed, token.eol_read) = "$"
     THEN GiveUp("SYNTAX")
     ELSE /\ phase' = "running"
          /\ stack' = <<END>>
          /\ UNCHANGED <<called, input, pos, right_hand_side, count, eol_allowed, compiler_result,
                         types, functions, refused>>

NotPure == kind.assign_rule = "PURE_EXPRESSION" /\ count.assignments + count.definitions > 0
Running == phase = "running" /\ LookedAt

RefuseImpure == Running /\ NotPure /\ GiveUp("SYNTAX")

RefuseLookAhead(rel) == rel = "error" /\ GiveUp("LEXICAL")

(* Mutant: calls inside calls do not add to the level. *)
TopLevelCountersOnly(type) ==
  CASE type = ":=" -> [count EXCEPT !.definitions = @ + 1]
    [] type \in AssignOps -> [count EXCEPT !.assignments = @ + 1]
    [] OTHER -> [count EXCEPT !.function_calls = IF type = "SYMB_FUNCTION" THEN @ + 1 ELSE @,
                              !.function_level = IF type = "SYMB_FUNCTION" THEN 1 ELSE @]

update_token_counters(type) ==
  CASE type = ":=" -> [count EXCEPT !.definitions = @ + 1]
    [] type \in AssignOps -> [count EXCEPT !.assignments = @ + 1]
    [] type = "SYMB_FUNCTION" ->
         [count EXCEPT !.function_calls = IF count.function_level = 0 THEN @ + 1 ELSE @,
                       !.function_level = @ + 1]
    [] OTHER -> IF count.function_level = 0 THEN [count EXCEPT !.other_tokens = @ + 1] ELSE count

\* Push the current symbol on what the stack has become and read the next token.
PushOnto(symbols) ==
  LET type == current_symbol.type
      invalid == input[pos + 1].type = "INVALID"
  IN /\ stack' = Append(symbols, current_symbol)
     /\ count' = update_token_counters(type)
     /\ right_hand_side' = (right_hand_side \/ type \in SidesOps \cup {"SYMB_FUNCTION"})
     /\ pos' = pos + 1
     /\ eol_allowed' = eol_allowed_after(token.type)
     /\ phase' = IF invalid THEN "rejected" ELSE phase
     /\ compiler_result' = IF invalid THEN FirstError("LEXICAL") ELSE compiler_result
     /\ UNCHANGED <<called, input, types, functions, refused>>

Push(rel) == rel = "=" /\ PushOnto(stack)

\* The handle starts right after the topmost terminal.
Shift(rel) == rel = "<" /\ PushOnto(InsertAt(stack, precedence_stack_top + 1, BEGIN))

\* Once the semantic checks are off, a rule only replaces its handle. The tree of a
\* successful action is inferred at once, unless it is an identifier.
reduce(start, handle) ==
  LET action == semantic_action(handle)
      tree == action.nt.ast
      Replaced(nt) == Append(SubSeq(stack, 1, start - 1), nt)
      inferred == IF tree[1] = "ID" THEN Good("UNKNOWN") ELSE infer_node_type(tree, action.types, action.functions)
  IN CASE ~semantic_enabled ->
            /\ stack' = Replaced(NT("UNKNOWN", NoTree))
            /\ UNCHANGED <<phase, compiler_result, types, functions, refused>>
       [] semantic_enabled /\ action.error = "NONE" ->
            /\ stack' = Replaced(action.nt)
            /\ types' = TypesAfter(action.types, inferred.given)
            /\ functions' = action.functions
            /\ compiler_result' = IF inferred.said THEN "TYPE" ELSE "NONE"
            /\ refused' = IF inferred.said THEN tree ELSE refused
            /\ UNCHANGED phase
       [] semantic_enabled /\ action.error = "garbage" ->
            /\ phase' = "undefined"
            /\ UNCHANGED <<stack, compiler_result, types, functions, refused>>
       [] OTHER ->
            /\ phase' = "rejected"
            /\ compiler_result' = action.error
            /\ refused' = tree
            /\ UNCHANGED <<stack, types, functions>>

Reduce(rel) ==
  LET start == precedence_stack_reduce_start
      handle == SubSeq(stack, start + 1, Len(stack))
  IN /\ rel = ">"
     /\ IF start = 0 THEN GiveUp("INTERNAL")
        ELSE IF Rule(handle) = "none" THEN GiveUp("SYNTAX")
        ELSE /\ reduce(start, handle)
             /\ count' = [count EXCEPT !.function_level = IF Rule(handle) = "call" THEN @ - 1 ELSE @]
             /\ UNCHANGED <<called, input, pos, right_hand_side, eol_allowed>>

RefuseToken(rel) == rel = " " /\ GiveUp("SYNTAX")

matches_assign_rule ==
  CASE kind.assign_rule = "VALID_STATEMENT" ->
         \/ count.definitions + count.assignments = 1
         \/ count.function_calls = 1 /\ count.definitions + count.assignments + count.other_tokens = 0
    [] kind.assign_rule = "ASSIGN_REQUIRED" -> count.assignments = 1 /\ count.definitions = 0
    [] kind.assign_rule = "DEFINE_REQUIRED" -> count.definitions = 1 /\ count.assignments = 0
    [] kind.assign_rule = "PURE_EXPRESSION" -> count.definitions = 0 /\ count.assignments = 0

Finish(rel) ==
  /\ rel = "o"
  /\ IF matches_assign_rule
     THEN /\ phase' = "accepted"
          /\ UNCHANGED <<called, input, pos, stack, right_hand_side, count, eol_allowed,
                         compiler_result, types, functions, refused>>
     ELSE GiveUp("SYNTAX")

result == Last(stack).ast

\* The first token has been read without an error; that of a statement is an identifier
\* (statement of parser.c).
Write ==
  /\ ~Written
  /\ (phase \in {"start", "running"} /\ ~LookedAt) \/ (phase = "rejected" /\ compiler_result = "SYNTAX")
  /\ \E phrase \in kind.alphabet \cup {<<Outside>>} :
       /\ phrase = <<Outside>> \/ Len(input) < kind.length
       /\ input = <<>> => phrase[1].type # "INVALID"
       /\ input = <<>> /\ kind.assign_rule = "VALID_STATEMENT" => phrase[1].type = "ID"
       /\ input' = input \o phrase
  /\ UNCHANGED <<called, pos, stack, right_hand_side, count, eol_allowed, phase, compiler_result,
                 types, functions, refused>>

\* What the table says of the topmost terminal and the current token is done.
Obey ==
  /\ Running /\ ~NotPure
  /\ LET rel == relation
     IN \/ RefuseLookAhead(rel)
        \/ Push(rel)
        \/ Shift(rel)
        \/ Reduce(rel)
        \/ RefuseToken(rel)
        \/ Finish(rel)

Next == Write \/ Start \/ RefuseImpure \/ Obey

Init ==
  /\ called \in DOMAIN Kinds
  /\ input = <<>>
  /\ pos = 1
  /\ stack = <<>>
  /\ right_hand_side = (kind.assign_rule = "PURE_EXPRESSION")
  /\ count = [definitions |-> 0, assignments |-> 0, function_calls |-> 0,
              other_tokens |-> 0, function_level |-> 0]
  /\ eol_allowed = TRUE
  /\ phase = "start"
  /\ compiler_result = IF kind.semantics THEN "NONE" ELSE "EARLIER"
  /\ types = kind.types
  /\ functions = kind.functions
  /\ refused = NoTree

Spec == Init /\ [][Next]_vars

-----------------------------------------------------------------------------
(* Properties.                                                             *)

\* Type invariant.
TypeOK ==
  /\ called \in DOMAIN Kinds
  /\ pos \in 1 .. Len(input) + 1
  /\ phase \in {"start", "running", "accepted", "rejected", "undefined"}
  /\ DOMAIN types = {"top", "outer"} \X Names
  /\ count \in [definitions : Nat, assignments : Nat, function_calls : Nat,
                other_tokens : Nat, function_level : Int]
  /\ \A i \in DOMAIN stack :
       stack[i].type \in TokenTypes \cup {"NT", "BEGIN", "END", "SYMB_ID", "SYMB_FUNCTION", "u+", "u-"}

\* The stack always holds what the table asks for: a terminal to compare the next token
\* with and, when a reduction is due, the start of its handle, so the internal errors of
\* the loop (precedence_parser.c:1154, 1203) are never reported. The level of nested calls
\* that decides which tokens the assign rule counts is the number of functions on the
\* stack. And what is left when the expression is accepted is its tree alone, so that none
\* is lost when the top of the stack is taken for the result (line 1233).
StackIsSound ==
  /\ TypeOK
  /\ compiler_result # "INTERNAL"
  /\ phase = "running" =>
       /\ precedence_stack_top # 0
       /\ count.function_level =
            Cardinality({i \in DOMAIN stack : stack[i].type = "SYMB_FUNCTION"})
  /\ phase = "accepted" => [i \in DOMAIN stack |-> stack[i].type] = <<"END", "NT">>
=============================================================================
