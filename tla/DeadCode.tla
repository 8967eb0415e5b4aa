------------------------------- MODULE DeadCode -------------------------------
(***************************************************************************)
(* remove_dead_code of optimiser.c on the graphs that CfgBuilder makes,    *)
(* followed by cf_clean_all: main() of compiler.c with the rest of the     *)
(* optimiser abstracted to its outcome, the conditions that became         *)
(* constants, and the code generator, which leaves the graph alone, left   *)
(* out.                                                                    *)
(*                                                                         *)
(* The recursion of remove_function_dead_code is a stack of pending calls, *)
(* next one last.  A call is [op, at, fun]:                                *)
(*   function  the call on fun->rootStatement                              *)
(*   visit     the call on the statement `at'                              *)
(*   follow    the end of a call whose variable stat is `at'               *)
(***************************************************************************)
EXTENDS CfgBuilder

VARIABLES
  phase,      \* the part of main() that runs
  cond,       \* what the condition of an IF or a FOR has been folded to
  pending,    \* the calls of remove_function_dead_code
  freed,      \* the objects freed so far, in order
  promised    \* history: what the removal began with

optVars == <<phase, cond, pending, freed, promised>>

Conditions == {"true", "false", "dynamic"}

Conditional == {s \in Statements(graph) : graph.stat[s].statementType \in {"CF_IF", "CF_FOR"}}

IsFreed(s) == <<"stat", s>> \in {freed[i] : i \in DOMAIN freed}

(* The code that can run from statement s on: dead branches are skipped,   *)
(* an IF that is always or never taken is its branch.                      *)
LiveCode(g, c) ==
  LET run(s, first, second) == << [statement |-> s, first |-> first, second |-> second] >>
      live[s \in {NULL} \union Statements(g)] ==
        LET st == g.stat[s]
            here ==
              IF st.statementType = "CF_IF" THEN
                IF c[s] = "true" THEN live[st.thenStatement]
                ELSE IF c[s] = "false" THEN live[st.elseStatement]
                ELSE run(s, live[st.thenStatement], live[st.elseStatement])
              ELSE IF st.statementType = "CF_FOR" THEN
                IF c[s] = "false" THEN << >> ELSE run(s, live[st.bodyStatement], << >>)
              ELSE IF st.ast THEN run(s, << >>, << >>)
              ELSE << >>
        IN  IF s = NULL THEN << >> ELSE here \o live[st.followingStatement]
  IN  [f \in 1 .. Len(g.funcs) |-> live[g.funcs[f].rootStatement]]

(* The `else if' statements without an else whose condition is false. *)
DeadElseIfs(c) ==
  {e \in Conditional :
     /\ c[e] = "false"
     /\ graph.stat[e].elseStatement = NULL
     /\ \E i \in Conditional : graph.stat[i].elseStatement = e}

-----------------------------------------------------------------------------
OptInit ==
  /\ Init
  /\ phase = "parse"
  /\ cond = << >>
  /\ pending = << >>
  /\ freed = << >>
  /\ promised = << >>

Parse ==
  /\ phase = "parse"
  /\ Next
  /\ UNCHANGED optVars

(* remove_dead_code calls remove_function_dead_code for every function. *)
(* Mutant: and once more. *)
OneTooMany == [f \in 1 .. Len(graph.funcs) + 1 |-> [op |-> "function", at |-> NULL, fun |-> f]]

EveryFunction == [f \in 1 .. Len(graph.funcs) |-> [op |-> "function", at |-> NULL, fun |-> f]]

(* Folding and propagation change expressions only: some conditions become *)
(* constants.  They read the list of every RETURN and crash without one.   *)
FoldConditions ==
  /\ phase = "parse"
  /\ finished /\ semantic_enabled
  /\ cond' \in [Conditional -> Conditions]
  /\ promised' = [live   |-> LiveCode(graph, cond'),
                  elseIf |-> DeadElseIfs(cond') # {},
                  roots  |-> {graph.funcs[f].rootStatement : f \in 1 .. Len(graph.funcs)}]
  /\ IF ReturnsHaveList
     THEN /\ phase' = "remove"
          /\ pending' = EveryFunction
     ELSE phase' = "crashed" /\ UNCHANGED pending
  /\ UNCHANGED <<vars, freed>>

SkipOptimiser ==
  /\ phase = "parse"
  /\ finished /\ ~semantic_enabled
  /\ phase' = "clean"
  /\ UNCHANGED <<vars, cond, pending, freed, promised>>

-----------------------------------------------------------------------------
(* The removal. *)

(* Unlinks s through its parentStatement, as if it followed it. *)
ForgetNewParent(g, s, f) ==
  LET st == g.stat[s]
      n  == st.followingStatement
  IN  IF s = g.funcs[f].rootStatement
      THEN [g EXCEPT !.funcs[f].rootStatement = n]
      ELSE [g EXCEPT !.stat[st.parentStatement].followingStatement = n]

rebind_adjacent_statements(g, s, f) ==
  LET h == ForgetNewParent(g, s, f)
      n == g.stat[s].followingStatement
      p == IF s = g.funcs[f].rootStatement THEN NULL ELSE g.stat[s].parentStatement
  IN  IF n = NULL THEN h ELSE [h EXCEPT !.stat[n].parentStatement = p]

Do(op, at, fun) == << [op |-> op, at |-> at, fun |-> fun] >>

Current == Top(pending)

Removing(op) == phase = "remove" /\ pending # << >> /\ Current.op = op

VisitFunction ==
  /\ Removing("function")
  /\ pending' = Pop(pending) \o Do("visit", graph.funcs[Current.fun].rootStatement, Current.fun)
  /\ UNCHANGED <<vars, phase, cond, freed, promised>>

Visiting(type) ==
  /\ Removing("visit")
  /\ Current.at # NULL
  /\ graph.stat[Current.at].statementType \in type

(* An `if false' without else or a `for' that never runs: unlink, free,    *)
(* and go on from the statement before.                                    *)
RemoveStatement ==
  /\ Visiting({"CF_IF", "CF_FOR"})
  /\ LET s  == Current.at
         st == graph.stat[s]
         h  == [rebind_adjacent_statements(graph, s, Current.fun)
                  EXCEPT !.stat[s].followingStatement = NULL]
     IN  /\ cond[s] = "false"
         /\ st.elseStatement = NULL
         /\ graph' = h
         /\ freed' = freed \o clean_stat(h, st.localSymbolTable)[s]
         /\ pending' = Pop(pending) \o Do("follow", h.stat[s].parentStatement, Current.fun)
  /\ UNCHANGED <<symtables, allocated, calls, result, finished, phase, cond, promised>>

(* The branch's table is freed unless it is the one the IF lives in. *)
KeepsTable(g, b) == << >>

FreesTable(g, b) ==
  LET table == g.stat[b].localSymbolTable
  IN  IF table = g.stat[g.stat[b].parentStatement].localSymbolTable THEN << >>
      ELSE << <<"table", table>> >>

(* The condition of an IF whose else has become its then branch. *)
(* Mutant: it stays what it was. *)
StaysFalse(s) == cond

NowTrue(s) == [cond EXCEPT ![s] = "true"]

(* An `if false' with an else becomes an `if true' of that else. *)
RemoveThen ==
  /\ Visiting({"CF_IF"})
  /\ LET s  == Current.at
         st == graph.stat[s]
     IN  /\ cond[s] = "false"
         /\ st.elseStatement # NULL
         /\ graph' = [graph EXCEPT !.stat[s].thenStatement = st.elseStatement,
                                   !.stat[s].elseStatement = NULL]
         /\ cond' = NowTrue(s)
         /\ freed' = freed \o clean_stat(graph, st.localSymbolTable)[st.thenStatement]
                           \o FreesTable(graph, st.thenStatement)
         /\ pending' = Pop(pending) \o Do("follow", s, Current.fun)
                         \o Do("visit", st.elseStatement, Current.fun)
  /\ UNCHANGED <<symtables, allocated, calls, result, finished, phase, promised>>

(* An `if true' loses its else. *)
RemoveElse ==
  /\ Visiting({"CF_IF"})
  /\ LET s  == Current.at
         st == graph.stat[s]
         e  == st.elseStatement
     IN  /\ cond[s] = "true"
         /\ IF e = NULL THEN UNCHANGED <<graph, freed>>
            ELSE /\ graph' = [graph EXCEPT !.stat[s].elseStatement = NULL]
                 /\ freed' = freed \o clean_stat(graph, st.localSymbolTable)[e]
                                   \o FreesTable(graph, e)
         /\ pending' = Pop(pending) \o Do("follow", s, Current.fun)
                         \o Do("visit", st.thenStatement, Current.fun)
  /\ UNCHANGED <<symtables, allocated, calls, result, finished, phase, cond, promised>>

VisitBranches ==
  /\ Visiting({"CF_IF"})
  /\ cond[Current.at] = "dynamic"
  /\ LET st == graph.stat[Current.at]
     IN  pending' = Pop(pending) \o Do("follow", Current.at, Current.fun)
                      \o Do("visit", st.elseStatement, Current.fun)
                      \o Do("visit", st.thenStatement, Current.fun)
  /\ UNCHANGED <<vars, phase, cond, freed, promised>>

(* Mutant: the body of a loop is not visited. *)
BodyForgotten ==
  /\ Visiting({"CF_FOR"})
  /\ cond[Current.at] # "false"
  /\ pending' = Pop(pending) \o Do("follow", Current.at, Current.fun)
  /\ UNCHANGED <<vars, phase, cond, freed, promised>>

VisitBody ==
  /\ Visiting({"CF_FOR"})
  /\ cond[Current.at] # "false"
  /\ pending' = Pop(pending) \o Do("follow", Current.at, Current.fun)
                  \o Do("visit", graph.stat[Current.at].bodyStatement, Current.fun)
  /\ UNCHANGED <<vars, phase, cond, freed, promised>>

VisitOther ==
  /\ Removing("visit")
  /\ Current.at = NULL \/ Visiting({"CF_BASIC", "CF_RETURN"})
  /\ pending' = Pop(pending) \o Do("follow", Current.at, Current.fun)
  /\ UNCHANGED <<vars, phase, cond, freed, promised>>

Follow ==
  /\ Removing("follow")
  /\ LET n == graph.stat[Current.at].followingStatement
     IN  pending' = IF Current.at = NULL \/ n = NULL THEN Pop(pending)
                    ELSE Pop(pending) \o Do("visit", n, Current.fun)
  /\ UNCHANGED <<vars, phase, cond, freed, promised>>

EndOfRemoval ==
  /\ phase = "remove"
  /\ pending = << >>
  /\ phase' = "clean"
  /\ UNCHANGED <<vars, cond, pending, freed, promised>>

CleanAll ==
  /\ phase = "clean"
  /\ freed' = freed \o cf_clean_all(graph)
  /\ phase' = "exit"
  /\ UNCHANGED <<vars, cond, pending, promised>>

OptNext ==
  \/ Parse \/ FoldConditions \/ SkipOptimiser
  \/ VisitFunction \/ RemoveStatement \/ RemoveThen \/ RemoveElse
  \/ VisitBranches \/ VisitBody \/ VisitOther \/ Follow
  \/ EndOfRemoval \/ CleanAll

OptSpec == OptInit /\ [][OptNext]_<<vars, optVars>>

-----------------------------------------------------------------------------
(* Properties *)

Removed == promised # << >> /\ phase \in {"clean", "exit"}

FreedObjects == {freed[i] : i \in DOMAIN freed}

(* What the roots of the functions still lead to. *)
Reachable ==
  LET from[s \in Pointers] ==
        LET st == graph.stat[s]
        IN  IF s = NULL THEN {}
            ELSE {s} \union from[st.thenStatement] \union from[st.elseStatement]
                     \union from[st.bodyStatement] \union from[st.followingStatement]
  IN  UNION {from[graph.funcs[f].rootStatement] : f \in 1 .. Len(graph.funcs)}

OptTypeOK ==
  /\ phase \in {"parse", "remove", "crashed", "clean", "exit"}
  /\ \A s \in DOMAIN cond : cond[s] \in Conditions
  /\ \A i \in 1 .. Len(pending) :
       pending[i] \in [op : {"function", "visit", "follow"}, at : Pointers,
                      fun : 1 .. Len(graph.funcs)]
  /\ FreedObjects \subseteq
       ({"stat"} \X Statements(graph)) \union ({"table"} \X (1 .. allocated))

(* Removing dead code keeps the live code: "completely remove the          *)
(* statement" (optimiser.c) removes nothing else.                          *)
LiveCodeKept == Removed => LiveCode(graph, cond) = promised.live

(* The same, of programs in which no `else if' without an else is dead.    *)
LiveCodeKeptWithoutDeadElseIf ==
  Removed /\ ~promised.elseIf => LiveCode(graph, cond) = promised.live

(* In those programs every statement is either freed or still reachable,   *)
(* never both, at each point of the removal, and no call of the removal    *)
(* looks at a freed statement.                                             *)
FreedIffUnlinked ==
  (phase \in {"remove", "clean"} /\ promised # << >> /\ ~promised.elseIf) =>
    /\ \A s \in Statements(graph) : IsFreed(s) <=> s \notin Reachable
    /\ \A i \in DOMAIN pending : ~IsFreed(pending[i].at)

(* No branch that is never taken is left, unless a root was removed: the   *)
(* removal then stops at the new root.                                     *)
DeadCodeGone ==
  (Removed /\ ~promised.elseIf /\ \A s \in promised.roots : ~IsFreed(s)) =>
    \A s \in Reachable \intersect Conditional :
      /\ cond[s] # "false"
      /\ cond[s] = "true" => graph.stat[s].elseStatement = NULL

(* An IF that took its then branch from an `else if' and comes after a     *)
(* FOR: clean_stat compares tables with the header's.                      *)
TakesHeaderTable ==
  \E s \in Conditional \intersect Reachable :
    /\ graph.stat[s].thenStatement # NULL
    /\ graph.stat[graph.stat[s].thenStatement].statementType = "CF_IF"
    /\ graph.stat[s].parentStatement # NULL
    /\ graph.stat[graph.stat[s].parentStatement].statementType = "CF_FOR"

FreesEachOnce ==
  \A x \in ({"stat"} \X Statements(graph)) \union ({"table"} \X (1 .. allocated)) :
    Count(freed, x) = 1

(* At exit everything has been freed exactly once, whatever was removed    *)
(* before: "This could be an optimised if statement, we may not want to    *)
(* clean this table" (control_flow.c).                                     *)
FreedOnce ==
  (phase = "exit" /\ (promised = << >> \/ ~promised.elseIf)) => FreesEachOnce

(* The same, but for an optimised IF that follows a FOR. *)
FreedOnceUnlessAfterFor ==
  (phase = "exit" /\ (promised = << >> \/ ~promised.elseIf) /\ ~TakesHeaderTable) =>
    FreesEachOnce
=============================================================================
