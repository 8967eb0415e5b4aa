----------------------------- MODULE ControlFlow -----------------------------
(***************************************************************************)
(* The control-flow graph of control_flow.c, as a value, and the builder   *)
(* operations the parser calls on it, as operators from graph to graph.    *)
(*                                                                         *)
(* A graph is a record: the heap of CFStatement objects `stat' in order of *)
(* allocation (a pointer is an index, NULL is 0), the list of functions,   *)
(* the cursors activeStat and activeFunc, the program's mainFunc and the   *)
(* sticky cf_error.  An AST is abstracted to whether one is attached, a    *)
(* symbol table to the number of its allocation.                           *)
(***************************************************************************)
EXTENDS Naturals, Sequences

CONSTANT Main      \* the name of the entry function

NULL == 0

StatementTypes == {"CF_BASIC", "CF_IF", "CF_FOR", "CF_RETURN"}

(* The members of enum cfgraph_error that the operations below can raise,  *)
(* and the crash of a NULL dereference.                                    *)
CFErrors == {"CF_NO_ERROR", "CF_ERROR_NO_ACTIVE_FUNCTION", "CF_ERROR_NO_ACTIVE_STATEMENT",
             "CF_ERROR_INVALID_OPERATION", "CF_ERROR_MAIN_REDEFINITION",
             "CF_ERROR_SYMTABLE_TARGET_HAS_CHILDREN", "NULL_DEREFERENCE"}

(* The empty program; the file's static cursors start out NULL. *)
cf_init ==
  [stat |-> << >>, funcs |-> << >>, activeStat |-> NULL, activeFunc |-> NULL,
   mainFunc |-> NULL, cf_error |-> "CF_NO_ERROR"]

Raise(g, err) == [g EXCEPT !.cf_error = err]

Statements(g) == 1 .. Len(g.stat)

-----------------------------------------------------------------------------
(* The two walks up the parentStatement pointers. *)

(* The first statement at or above s that is not a FOR, or NULL: the loop  *)
(* over bestParent.                                                        *)
NonForAncestor(g) ==
  LET up[s \in {NULL} \union Statements(g)] ==
        IF s = NULL \/ g.stat[s].statementType # "CF_FOR"
        THEN s ELSE up[g.stat[s].parentStatement]
  IN  up

(* An IF is returned to after each of its two branches, a FOR once. *)
MayPopOnce(st) ==
  st.statementType \in {"CF_IF", "CF_FOR"} /\ st.popCount < 1

MayPopInto(st) ==
  \/ st.statementType = "CF_IF" /\ st.popCount < 2
  \/ st.statementType = "CF_FOR" /\ st.popCount < 1

(* The first statement at or above s that may be popped into, or NULL. *)
PoppableAncestor(g) ==
  LET up[s \in {NULL} \union Statements(g)] ==
        IF s = NULL \/ MayPopInto(g.stat[s]) THEN s ELSE up[g.stat[s].parentStatement]
  IN  up

-----------------------------------------------------------------------------
(* The table a statement created now would inherit.  A FOR has the table   *)
(* of its header, which is not the one of the statements after it.         *)
SymtableOfActive(g) ==
  IF g.activeStat = NULL THEN g.funcs[g.activeFunc].symbolTable
  ELSE g.stat[g.activeStat].localSymbolTable

InheritedSymtable(g) ==
  LET a         == g.activeStat
      funcTable == g.funcs[g.activeFunc].symbolTable
  IN  IF a = NULL THEN funcTable
      ELSE IF g.stat[a].statementType # "CF_FOR" THEN g.stat[a].localSymbolTable
      ELSE LET best == NonForAncestor(g)[g.stat[a].parentStatement]
           IN  IF best = NULL THEN funcTable ELSE g.stat[best].localSymbolTable

NewStatement(type, parent, table, branch) ==
  [statementType |-> type, parentStatement |-> parent, followingStatement |-> NULL,
   thenStatement |-> NULL, elseStatement |-> NULL, bodyStatement |-> NULL,
   parentBranchStatement |-> branch, localSymbolTable |-> table, popCount |-> 0,
   ast |-> FALSE]

cf_make_function(g, name) ==
  LET f == [name |-> name, rootStatement |-> NULL, symbolTable |-> NULL]
      h == [g EXCEPT !.funcs = Append(@, f)]
  IN  IF name = Main /\ g.mainFunc # NULL
      THEN Raise(h, "CF_ERROR_MAIN_REDEFINITION")
      ELSE [h EXCEPT !.mainFunc = IF name = Main THEN Len(h.funcs) ELSE @,
                     !.activeStat = NULL,
                     !.activeFunc = Len(h.funcs)]

(* An IF without an else branch is closed by the statement after it. *)
NeverCloses(st) == FALSE

ClosesIf(st) == st.statementType = "CF_IF" /\ st.elseStatement = NULL

(* Appends a statement after the active one and makes it active. *)
cf_make_next_statement(g, type) ==
  LET a      == g.activeStat
      n      == Len(g.stat) + 1
      isRoot == g.funcs[g.activeFunc].rootStatement = NULL
      branch == IF a # NULL THEN g.stat[a].parentBranchStatement
                ELSE IF isRoot THEN n ELSE NULL
      linked == IF a = NULL THEN g.stat
                ELSE [g.stat EXCEPT
                        ![a].followingStatement = n,
                        ![a].popCount = IF ClosesIf(g.stat[a]) THEN @ + 1 ELSE @]
  IN  IF g.activeFunc = NULL THEN Raise(g, "CF_ERROR_NO_ACTIVE_FUNCTION")
      ELSE [g EXCEPT
              !.stat = Append(linked, NewStatement(type, a, InheritedSymtable(g), branch)),
              !.funcs[g.activeFunc].rootStatement = IF isRoot THEN n ELSE @,
              !.activeStat = n]

(* The error of an operation that wants another type of active statement. *)
WrongActiveStatement(g) ==
  Raise(g, IF g.activeStat = NULL THEN "NULL_DEREFERENCE" ELSE "CF_ERROR_INVALID_OPERATION")

ActiveIs(g, type) == g.activeStat # NULL /\ g.stat[g.activeStat].statementType = type

(* The three operations that open a branch: a new statement is made and    *)
(* then moved from the active statement's followingStatement to a field.   *)
(* An IF is not closed by its own branches: the count is taken back.       *)
NotTakenBack(count) == count

TakenBack(count) == count - 1

cf_make_if_then_statement(g, type) ==
  LET a == g.activeStat
      h == cf_make_next_statement(g, type)
  IN  IF ~ActiveIs(g, "CF_IF") THEN WrongActiveStatement(g)
      ELSE [h EXCEPT !.stat[a].popCount = TakenBack(@),
                     !.stat[a].followingStatement = g.stat[a].followingStatement,
                     !.stat[a].thenStatement = h.activeStat,
                     !.stat[h.activeStat].parentBranchStatement = a]

ElseAlsoFollows(g, type) ==
  LET a == g.activeStat
      h == cf_make_next_statement(g, type)
  IN  IF ~ActiveIs(g, "CF_IF") THEN WrongActiveStatement(g)
      ELSE [h EXCEPT !.stat[a].popCount = TakenBack(@),
                     !.stat[a].elseStatement = h.activeStat,
                     !.stat[h.activeStat].parentBranchStatement = a]

cf_make_if_else_statement(g, type) ==
  LET a == g.activeStat
      h == cf_make_next_statement(g, type)
  IN  IF ~ActiveIs(g, "CF_IF") THEN WrongActiveStatement(g)
      ELSE [h EXCEPT !.stat[a].popCount = TakenBack(@),
                     !.stat[a].followingStatement = g.stat[a].followingStatement,
                     !.stat[a].elseStatement = h.activeStat,
                     !.stat[h.activeStat].parentBranchStatement = a]

cf_make_for_body_statement(g, type) ==
  LET a == g.activeStat
      h == cf_make_next_statement(g, type)
  IN  IF ~ActiveIs(g, "CF_FOR") THEN WrongActiveStatement(g)
      ELSE [h EXCEPT !.stat[a].followingStatement = g.stat[a].followingStatement,
                     !.stat[a].bodyStatement = h.activeStat,
                     !.stat[h.activeStat].parentBranchStatement = a]

(* Leaves a branch: the closest IF or FOR above the active statement that  *)
(* still has a branch to come back from becomes active.                    *)
cf_pop_previous_branched_statement(g) ==
  LET a == g.activeStat
      n == PoppableAncestor(g)[g.stat[a].parentStatement]
  IN  IF a = NULL THEN g
      ELSE IF g.stat[a].parentStatement = NULL THEN Raise(g, "NULL_DEREFERENCE")
      ELSE IF n = NULL THEN g
      ELSE [g EXCEPT !.activeStat = n, !.stat[n].popCount = @ + 1]

cf_assign_function_symtable(g, table) ==
  LET f == g.activeFunc
  IN  IF f = NULL THEN Raise(g, "CF_ERROR_NO_ACTIVE_FUNCTION")
      ELSE IF g.funcs[f].rootStatement # NULL
      THEN Raise(g, "CF_ERROR_SYMTABLE_TARGET_HAS_CHILDREN")
      ELSE [g EXCEPT !.funcs[f].symbolTable = table]

cf_assign_statement_symtable(g, table) ==
  LET a == g.activeStat
  IN  IF a = NULL THEN Raise(g, "CF_ERROR_NO_ACTIVE_STATEMENT")
      ELSE IF g.stat[a].followingStatement # NULL
      THEN Raise(g, "CF_ERROR_SYMTABLE_TARGET_HAS_CHILDREN")
      ELSE [g EXCEPT !.stat[a].localSymbolTable = table]

(* Attaches an AST of the right type to the active statement. *)
cf_use_ast_explicit(g) ==
  IF g.activeStat = NULL THEN Raise(g, "NULL_DEREFERENCE")
  ELSE [g EXCEPT !.stat[g.activeStat].ast = TRUE]

-----------------------------------------------------------------------------
(* Memory.  An object is <<"stat", s>> or <<"table", t>>; a clean-up is the *)
(* sequence of the objects it frees.                                       *)

(* A then branch that the optimiser took from an `else if' shares the      *)
(* table of the block around it; an `else if' always does.                 *)
ThenOwnsTable(g, s, parentTable) ==
  LET table  == g.stat[g.stat[s].thenStatement].localSymbolTable
      parent == g.stat[s].parentStatement
  IN  IF parent = NULL THEN parentTable # table
      ELSE g.stat[parent].localSymbolTable # table

EveryElseOwnsTable(g, s) == TRUE

ElseOwnsTable(g, s) == g.stat[g.stat[s].elseStatement].statementType # "CF_IF"

(* What clean_stat(s, parentTable) frees, for each s. *)
clean_stat(g, parentTable) ==
  LET cleaned[s \in {NULL} \union Statements(g)] ==
        LET st     == g.stat[s]
            table(t) == << <<"table", t>> >>
            branch(b, owned) ==
              cleaned[b] \o (IF owned THEN table(g.stat[b].localSymbolTable) ELSE << >>)
        IN  IF s = NULL THEN << >>
            ELSE (IF st.thenStatement = NULL THEN << >>
                  ELSE branch(st.thenStatement, ThenOwnsTable(g, s, parentTable)))
              \o (IF st.elseStatement = NULL THEN << >>
                  ELSE branch(st.elseStatement, ElseOwnsTable(g, s)))
              \o (IF st.bodyStatement = NULL THEN << >> ELSE branch(st.bodyStatement, TRUE))
              \o (IF st.statementType = "CF_FOR" THEN table(st.localSymbolTable) ELSE << >>)
              \o cleaned[st.followingStatement]
              \o << <<"stat", s>> >>
  IN  cleaned

(* Everything cf_clean_all frees, function by function, newest first. *)
cf_clean_all(g) ==
  LET freed[f \in 0 .. Len(g.funcs)] ==
        LET fun == g.funcs[f]
        IN  IF f = 0 THEN << >>
            ELSE clean_stat(g, fun.symbolTable)[fun.rootStatement]
              \o (IF fun.symbolTable = NULL THEN << >> ELSE << <<"table", fun.symbolTable>> >>)
              \o freed[f - 1]
  IN  freed[Len(g.funcs)]
=============================================================================
