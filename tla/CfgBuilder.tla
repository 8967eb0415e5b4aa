------------------------------ MODULE CfgBuilder ------------------------------
(***************************************************************************)
(* The statement grammar of parser.c driving the builder of control_flow.c *)
(* and the stack of symbol tables of stacks.c.                             *)
(*                                                                         *)
(* The recursive descent is a stack of calls, innermost last.  A call is   *)
(* [at, owner]: the place it has reached, and the statement or function it *)
(* is reading (owner is a history field: no guard and no assignment of the *)
(* code's state reads it).  The places are                                 *)
(*   func_name   after the identifier of a function                        *)
(*   func, then, else, for    in body(), before a statement or a brace     *)
(*   if_cond     in an if or an else if, before its opening brace          *)
(*   for_header  in a for, before its opening brace                        *)
(*   return      after the return keyword                                  *)
(*   id_next     after a return whose line ended, before an identifier     *)
(*   else_       after the closing brace of a then block                   *)
(*   elif        in the else_n() that reads an else if                     *)
(*                                                                         *)
(* A step stands for the tokens between two places.  An error can be met   *)
(* at any of them; semantic_enabled is then off for good, the recovery     *)
(* restarts body() anywhere, and only the statement rule for identifiers,  *)
(* which does not test semantic_enabled, still extends the graph.          *)
(***************************************************************************)
EXTENDS ControlFlow, FiniteSets

CONSTANTS
  FuncNames,       \* identifiers of functions, Main among them
  MaxSize          \* bound on the statements and, counted twice, the functions

ASSUME MainAssumption == Main \in FuncNames
ASSUME BoundAssumption == MaxSize \in Nat

VARIABLES
  graph,         \* program, activeStat, activeFunc and cf_error
  symtables,     \* symtable_stack, top last
  allocated,     \* number of local symbol tables symtable_init returned
  calls,         \* the recursion of the parser
  result,        \* compiler_result: SUCCESS, or any error
  finished       \* parser_parse has returned

vars == <<graph, symtables, allocated, calls, result, finished>>

semantic_enabled == result = "SUCCESS"

Places == {"func_name", "func", "then", "else", "for", "if_cond", "for_header",
           "return", "id_next", "else_", "elif"}

-----------------------------------------------------------------------------
(* The calls stack. *)

Top(seq) == seq[Len(seq)]

Pop(seq) == SubSeq(seq, 1, Len(seq) - 1)

Call(at, owner) == [at |-> at, owner |-> owner]

At(place) == calls # << >> /\ Top(calls).at = place

(* body() can read another statement. *)
InBody == \E place \in {"func", "then", "else", "for"} : At(place)

Enter(at, owner) == calls' = Append(calls, Call(at, owner))

MoveTo(at) == calls' = Append(Pop(calls), Call(at, Top(calls).owner))

Return == calls' = Pop(calls)

Reading == ~finished /\ semantic_enabled

Room(n) == Len(graph.stat) + 2 * Len(graph.funcs) + n <= MaxSize

(* Allocates a table, pushes it and assigns it to the active statement of g. *)
PushStatementSymtable(g) ==
  /\ allocated' = allocated + 1
  /\ symtables' = Append(symtables, allocated + 1)
  /\ graph' = cf_assign_statement_symtable(g, allocated + 1)

-----------------------------------------------------------------------------
Init ==
  /\ graph = cf_init
  /\ symtables = << >>
  /\ allocated = 0
  /\ calls = << >>
  /\ result = "SUCCESS"
  /\ finished = FALSE

(* func id: the name is free, or so far only called. *)
FuncName(name) ==
  /\ Reading
  /\ calls = << >>
  /\ Room(2)
  /\ \A f \in 1 .. Len(graph.funcs) : graph.funcs[f].name # name
  /\ graph' = cf_make_function(graph, name)
  /\ Enter("func_name", Len(graph.funcs) + 1)
  /\ UNCHANGED <<symtables, allocated, result, finished>>

(* The parameters, the return types and the opening brace. *)
FuncBody ==
  /\ Reading
  /\ At("func_name")
  /\ graph' = cf_assign_function_symtable(graph, allocated + 1)
  /\ allocated' = allocated + 1
  /\ symtables' = Append(symtables, allocated + 1)
  /\ MoveTo("func")
  /\ UNCHANGED <<result, finished>>

CloseFunc ==
  /\ Reading
  /\ At("func")
  /\ symtables' = Pop(symtables)
  /\ Return
  /\ UNCHANGED <<graph, allocated, result, finished>>

(* An expression statement: the one rule that needs no semantic_enabled. *)
Expression ==
  /\ Reading
  /\ InBody \/ At("id_next")
  /\ Room(1)
  /\ graph' = cf_use_ast_explicit(cf_make_next_statement(graph, "CF_BASIC"))
  /\ IF At("id_next") THEN Return ELSE UNCHANGED calls
  /\ UNCHANGED <<symtables, allocated, result, finished>>

ReturnKeyword ==
  /\ Reading
  /\ InBody
  /\ Room(1)
  /\ graph' = cf_make_next_statement(graph, "CF_RETURN")
  /\ Enter("return", Len(graph.stat) + 1)
  /\ UNCHANGED <<symtables, allocated, result, finished>>

(* A list of expressions, or an empty list before a brace or a keyword. *)
ReturnList ==
  /\ Reading
  /\ At("return")
  /\ graph' = cf_use_ast_explicit(graph)
  /\ Return
  /\ UNCHANGED <<symtables, allocated, result, finished>>

(* The line ends after return and the next one starts with an identifier. *)
ReturnNothing ==
  /\ Reading
  /\ At("return")
  /\ MoveTo("id_next")
  /\ UNCHANGED <<graph, symtables, allocated, result, finished>>

If ==
  /\ Reading
  /\ InBody
  /\ Room(1)
  /\ graph' = cf_make_next_statement(graph, "CF_IF")
  /\ Enter("if_cond", Len(graph.stat) + 1)
  /\ UNCHANGED <<symtables, allocated, result, finished>>

(* The condition and the opening brace, of an if and of an else if. *)
Then ==
  /\ Reading
  /\ At("if_cond")
  /\ Room(1)
  /\ PushStatementSymtable(cf_make_if_then_statement(cf_use_ast_explicit(graph), "CF_BASIC"))
  /\ MoveTo("then")
  /\ UNCHANGED <<result, finished>>

(* The closing brace of a then or an else block. *)
CloseBranch ==
  /\ Reading
  /\ At("then") \/ At("else")
  /\ graph' = cf_pop_previous_branched_statement(graph)
  /\ symtables' = Pop(symtables)
  /\ IF At("then") THEN MoveTo("else_") ELSE Return
  /\ UNCHANGED <<allocated, result, finished>>

NoElse ==
  /\ Reading
  /\ At("else_")
  /\ Return
  /\ UNCHANGED <<graph, symtables, allocated, result, finished>>

Else ==
  /\ Reading
  /\ At("else_")
  /\ Room(1)
  /\ PushStatementSymtable(cf_make_if_else_statement(graph, "CF_BASIC"))
  /\ MoveTo("else")
  /\ UNCHANGED <<result, finished>>

ElseIf ==
  /\ Reading
  /\ At("else_")
  /\ Room(1)
  /\ graph' = cf_make_if_else_statement(graph, "CF_IF")
  /\ calls' = Pop(calls) \o <<Call("elif", Top(calls).owner),
                              Call("if_cond", Len(graph.stat) + 1)>>
  /\ UNCHANGED <<symtables, allocated, result, finished>>

(* The else_() that followed an else if has returned to its else_n(). *)
ElseIfReturn ==
  /\ Reading
  /\ At("elif")
  /\ graph' = cf_pop_previous_branched_statement(graph)
  /\ Return
  /\ UNCHANGED <<symtables, allocated, result, finished>>

(* The header of a for has a table of its own. *)
For ==
  /\ Reading
  /\ InBody
  /\ Room(1)
  /\ PushStatementSymtable(cf_make_next_statement(graph, "CF_FOR"))
  /\ Enter("for_header", Len(graph.stat) + 1)
  /\ UNCHANGED <<result, finished>>

ForBody ==
  /\ Reading
  /\ At("for_header")
  /\ Room(1)
  /\ PushStatementSymtable(cf_make_for_body_statement(cf_use_ast_explicit(graph), "CF_BASIC"))
  /\ MoveTo("for")
  /\ UNCHANGED <<result, finished>>

CloseFor ==
  /\ Reading
  /\ At("for")
  /\ graph' = cf_pop_previous_branched_statement(graph)
  /\ symtables' = Pop(Pop(symtables))
  /\ Return
  /\ UNCHANGED <<allocated, result, finished>>

(* A lexical, syntax or semantic error. *)
Fail ==
  /\ Reading
  /\ result' = "ERROR"
  /\ UNCHANGED <<graph, symtables, allocated, calls, finished>>

(* body(), restarted by recover() or simply going on after a semantic      *)
(* error, meets an expression statement.  Its AST is NULL.                 *)
RecoveredExpression ==
  /\ ~finished
  /\ ~semantic_enabled
  /\ Room(1)
  /\ graph' = cf_make_next_statement(graph, "CF_BASIC")
  /\ UNCHANGED <<symtables, allocated, calls, result, finished>>

EndOfFile ==
  /\ ~finished
  /\ semantic_enabled => calls = << >> /\ graph.mainFunc # NULL
  /\ finished' = TRUE
  /\ UNCHANGED <<graph, symtables, allocated, calls, result>>

Next ==
  \/ \E name \in FuncNames : FuncName(name)
  \/ FuncBody \/ CloseFunc
  \/ Expression \/ ReturnKeyword \/ ReturnList \/ ReturnNothing
  \/ If \/ Then \/ CloseBranch \/ NoElse \/ Else \/ ElseIf \/ ElseIfReturn
  \/ For \/ ForBody \/ CloseFor
  \/ Fail \/ RecoveredExpression \/ EndOfFile

Spec == Init /\ [][Next]_vars

-----------------------------------------------------------------------------
(* Properties *)

Pointers == {NULL} \union Statements(graph)

Tables == 0 .. allocated

(* The data structures are well formed: every pointer of a statement is    *)
(* NULL or a statement, every table was allocated, popCount is at most 2.  *)
TypeOK ==
  /\ \A s \in Statements(graph) :
       graph.stat[s] \in [statementType : StatementTypes, parentStatement : Pointers,
                          followingStatement : Pointers, thenStatement : Pointers,
                          elseStatement : Pointers, bodyStatement : Pointers,
                          parentBranchStatement : Pointers, localSymbolTable : Tables,
                          popCount : 0 .. 2, ast : BOOLEAN]
  /\ \A f \in 1 .. Len(graph.funcs) :
       graph.funcs[f] \in [name : FuncNames, rootStatement : Pointers, symbolTable : Tables]
  /\ graph.activeStat \in Pointers
  /\ graph.activeFunc \in 0 .. Len(graph.funcs)
  /\ graph.mainFunc \in 0 .. Len(graph.funcs)
  /\ graph.cf_error \in CFErrors
  /\ \A i \in 1 .. Len(symtables) : symtables[i] \in Tables \ {0}
  /\ allocated \in 0 .. MaxSize
  /\ \A i \in 1 .. Len(calls) :
       calls[i].at \in Places /\ calls[i].owner \in 1 .. MaxSize
  /\ result \in {"SUCCESS", "ERROR"}
  /\ finished \in BOOLEAN

Edges == {"followingStatement", "thenStatement", "elseStatement", "bodyStatement"}

(* The statement that precedes s in its block, or that s is a branch of:   *)
(* those whose pointers lead to s, each with the pointer.                  *)
Predecessors(s) == {e \in Statements(graph) \X Edges : graph.stat[e[1]][e[2]] = s}

(* Every statement is the root of one function or is reached through one   *)
(* pointer of one statement, and its parentStatement names that statement: *)
(* what the optimiser relies on when it unlinks a statement through its    *)
(* parent.                                                                 *)
ParentLinksBack ==
  \A s \in Statements(graph) :
    LET roots == {f \in 1 .. Len(graph.funcs) : graph.funcs[f].rootStatement = s}
        preds == Predecessors(s)
    IN  /\ Cardinality(roots) + Cardinality(preds) = 1
        /\ IF roots # {} THEN graph.stat[s].parentStatement = NULL
           ELSE \A p \in preds : graph.stat[s].parentStatement = p[1]

(* The table that lookups start from.  Where a statement can be added, the *)
(* table it would inherit through the graph is the one on top of           *)
(* symtable_stack, in which the parser declares names; in a header and     *)
(* before an else it is the table of the active statement.                 *)
ScopeAgrees ==
  Reading =>
    /\ InBody => InheritedSymtable(graph) = Top(symtables)
    /\ (At("if_cond") \/ At("for_header") \/ At("else_") \/ At("return")) =>
         graph.stat[graph.activeStat].localSymbolTable = Top(symtables)
    /\ calls = << >> => symtables = << >>

(* A correct program never makes the builder fail: each operation is       *)
(* called with an active statement of the type it asks for.                *)
NoBuilderError == semantic_enabled => graph.cf_error = "CF_NO_ERROR"

Count(seq, x) == Cardinality({i \in DOMAIN seq : seq[i] = x})

(* Whether the parse succeeded or stopped at any point with an error,      *)
(* cf_clean_all frees every statement and every local table exactly once.  *)
CleanedOnce ==
  finished =>
    LET freed   == cf_clean_all(graph)
        objects == {<<"stat", s>> : s \in Statements(graph)}
                     \union {<<"table", t>> : t \in 1 .. allocated}
    IN  \A x \in objects : Count(freed, x) = 1

(* Once set, an edge of the graph, the root of a function and the table of *)
(* a function never change; a statement keeps the table it was given when  *)
(* another statement follows it.                                           *)
EdgesAreFinal ==
  [][/\ \A s \in Statements(graph) :
          /\ \A field \in Edges :
               graph.stat[s][field] # NULL => graph'.stat[s][field] = graph.stat[s][field]
          /\ graph.stat[s].followingStatement # NULL =>
               graph'.stat[s].localSymbolTable = graph.stat[s].localSymbolTable
     /\ \A f \in 1 .. Len(graph.funcs) :
          \A field \in {"rootStatement", "symbolTable"} :
            graph.funcs[f][field] # NULL => graph'.funcs[f][field] = graph.funcs[f][field]
    ]_vars

(* "All CF_RETURN statements must have an AST_LIST as their body"          *)
(* (code_generator.c), in a program that compiles.                         *)
ReturnsHaveList ==
  (finished /\ semantic_enabled) =>
    \A s \in Statements(graph) :
      graph.stat[s].statementType = "CF_RETURN" => graph.stat[s].ast

-----------------------------------------------------------------------------
(* The graph implements the nesting of the source. *)

(* The statements from s on along followingStatement. *)
Chain(g) ==
  LET from[s \in {NULL} \union Statements(g)] ==
        IF s = NULL THEN << >> ELSE <<s>> \o from[g.stat[s].followingStatement]
  IN  from

ArmField == [then |-> "thenStatement", else |-> "elseStatement", body |-> "bodyStatement"]

(* The blocks opened so far. *)
FunctionBlocks(g) == {f \in 1 .. Len(g.funcs) : g.funcs[f].symbolTable # NULL} \X {"func"}

ArmBlocks(g) ==
  {a \in Statements(g) \X DOMAIN ArmField : g.stat[a[1]][ArmField[a[2]]] # NULL}

(* An arm starts with an empty statement, except that of an else if. *)
FirstOfArm(g, s) ==
  IF g.stat[s].statementType = "CF_IF" THEN s ELSE g.stat[s].followingStatement

FirstOf(g, b) ==
  IF b[2] = "func" THEN g.funcs[b[1]].rootStatement
  ELSE FirstOfArm(g, g.stat[b[1]][ArmField[b[2]]])

ContentOf(g) == [b \in FunctionBlocks(g) \union ArmBlocks(g) |-> Chain(g)[FirstOf(g, b)]]

ArmOfPlace == [func |-> "func", then |-> "then", else |-> "else", for |-> "body",
               elif |-> "else"]

(* Every call but the innermost was made from a block. *)
BlocksOf(cs) ==
  LET n == IF cs = << >> \/ Top(cs).at \in DOMAIN ArmOfPlace THEN Len(cs) ELSE Len(cs) - 1
  IN  [i \in 1 .. n |-> <<cs[i].owner, ArmOfPlace[cs[i].at]>>]

Source == INSTANCE SourceNesting WITH
            MaxId   <- MaxSize,
            content <- ContentOf(graph),
            open    <- BlocksOf(calls),
            failed  <- ~semantic_enabled

(* Followed from a function's root, the finished graph lists the           *)
(* statements of every block in source order, and each arm belongs to the  *)
(* statement it was written under: the popCount bookkeeping always returns *)
(* to the right statement.                                                 *)
MirrorsSource == Source!Spec
=============================================================================
