--------------------------- MODULE ConstantOptimiser ---------------------------
(***************************************************************************)
(* optimiser_optimise of optimiser.c: constants are folded and propagated  *)
(* in turn until nothing changes, then dead code is removed.  The names of *)
(* the operators are those of the functions.                               *)
(*                                                                         *)
(* A pass is over the trees of ProgramTrees; trees the program frees are   *)
(* the ones the new tree does not keep, and clean_ast takes a reference    *)
(* from every variable in them.  The types of the parser are assumed to be *)
(* right, so ast_infer_node_type fails only where there is no tree.        *)
(***************************************************************************)
EXTENDS ProgramMeaning, TypeInference, FiniteSetsExt

CONSTANTS
  Sources,        \* the programs that are compiled
  Symbols,        \* their variables
  Inputs,         \* what they may read
  IntWidth,       \* bits of an int
  CounterWidth    \* bits of a reference counter

ASSUME OptimiserAssumption ==
  /\ IntWidth \in Nat \ {0}
  /\ CounterWidth \in Nat \ {0}

VARIABLES
  source,      \* the program the parser has built
  program,     \* what it has become
  references,  \* reference_counter of every variable
  changed,     \* whether this round has changed anything
  phase,       \* the function of the optimiser that runs next, then "done"
  compiler_result,
  amiss,       \* history: "cut" a folded number to an int, "dropped" a call or a division
  lost,        \* history: the variables that removed code assigned to
  begun        \* history: the program this round began with

vars == <<source, program, references, changed, phase, compiler_result, amiss, lost, begun>>

-------------------------------------------------------------------------------
(* Folding. *)

\* A rewriting: the new tree, the trees that were freed, whether it is a change,
\* whether a division by zero was reported; and for the history, what went wrong.
Rewritten(tree, freed, amissing) ==
  [tree |-> tree, freed |-> freed, changed |-> TRUE, zero |-> FALSE, amiss |-> amissing]
Kept(tree) == [tree |-> tree, freed |-> <<>>, changed |-> FALSE, zero |-> FALSE, amiss |-> {}]
DivisionByZero(tree) == [Kept(tree) EXCEPT !.zero = TRUE]

\* ast_leaf_consti takes an int.
ToInt(n) == LET half == 2 ^ (IntWidth - 1) IN ((n + half) % (2 * half)) - half

ast_leaf_const(type, value) == Const(type, IF type = "INT" THEN ToInt(value) ELSE value)

HasEffect(tree) == Has(tree, LAMBDA n : n[1] \in {"CALL", "DIVIDE"})

\* Both operands are constants of a type the operator folds.
Constants(tree, types) == \E t \in types : IsConst(tree[2], t) /\ IsConst(tree[3], t)

Folded(tree) ==
  LET exact == Applied(tree[1], tree[2][2], tree[2][3], tree[3][3])
      new == ast_leaf_const(exact[2], exact[3])
  IN Rewritten(new, <<tree>>, IF new = exact THEN {} ELSE {"cut"})

\* One operand is the result, the other one is freed.
Operand(tree, result, dropped) == Rewritten(tree[result], <<tree[dropped]>>, {})

IsNeutral(tree) == Is(tree, "INT", 0) \/ Is(tree, "STRING", <<>>)

optimise_add(t) ==
  CASE Constants(t, {"INT", "STRING"}) -> Folded(t)
    [] ~Constants(t, {"INT", "STRING"}) /\ IsNeutral(t[2]) -> Operand(t, 3, 2)
    [] ~Constants(t, {"INT", "STRING"}) /\ ~IsNeutral(t[2]) /\ IsNeutral(t[3]) -> Operand(t, 2, 3)
    [] OTHER -> Kept(t)

optimise_subtract(t) ==
  CASE Constants(t, {"INT"}) -> Folded(t)
    [] ~Constants(t, {"INT"}) /\ Is(t[3], "INT", 0) -> Operand(t, 2, 3)
    [] OTHER -> Kept(t)

\* A product with zero is zero whatever the other operand does.
optimise_multiply(t) ==
  LET right == Is(t[3], "INT", 0) \/ Is(t[2], "INT", 1)
      left == Is(t[2], "INT", 0) \/ Is(t[3], "INT", 1)
      Of(result, dropped) ==
        [Operand(t, result, dropped) EXCEPT !.amiss = IF HasEffect(t[dropped]) THEN {"dropped"} ELSE {}]
  IN CASE Constants(t, {"INT"}) -> Folded(t)
       [] ~Constants(t, {"INT"}) /\ right -> Of(3, 2)
       [] ~Constants(t, {"INT"}) /\ ~right /\ left -> Of(2, 3)
       [] OTHER -> Kept(t)

(* Mutant: only a constant is checked for a zero divisor. *)
ZeroByConstantsOnly(t) ==
  CASE Constants(t, {"INT"}) /\ Is(t[3], "INT", 0) -> DivisionByZero(t)
    [] Constants(t, {"INT"}) /\ ~Is(t[3], "INT", 0) -> Folded(t)
    [] ~Constants(t, {"INT"}) /\ Is(t[3], "INT", 1) -> Operand(t, 2, 3)
    [] OTHER -> Kept(t)

optimise_divide(t) ==
  CASE Is(t[3], "INT", 0) -> DivisionByZero(t)
    [] ~Is(t[3], "INT", 0) /\ Constants(t, {"INT"}) -> Folded(t)
    [] ~Constants(t, {"INT"}) /\ Is(t[3], "INT", 1) -> Operand(t, 2, 3)
    [] OTHER -> Kept(t)

\* A negated constant is negated where it is; two negations cancel out.
optimise_negate(t) ==
  CASE IsConst(t[2], "INT") -> Rewritten(Const("INT", -t[2][3]), <<>>, {})
    [] t[2][1] = "AR_NEGATE" -> Rewritten(t[2][2], <<>>, {})
    [] OTHER -> Kept(t)

optimise_log_neg(t) ==
  CASE IsConst(t[2], "BOOL") -> Rewritten(Const("BOOL", ~t[2][3]), <<>>, {})
    [] t[2][1] = "LOG_NOT" -> Rewritten(t[2][2], <<>>, {})
    [] OTHER -> Kept(t)

\* Decided by the left operand, or by two constants.
optimise_log_and_or(t) ==
  LET decisive == (t[1] = "LOG_OR")
  IN CASE Is(t[2], "BOOL", decisive) -> Operand(t, 2, 3)
       [] IsConst(t[2], "BOOL") /\ t[2][3] # decisive /\ IsConst(t[3], "BOOL") -> Operand(t, 3, 2)
       [] OTHER -> Kept(t)

optimise_relational_operator(t) ==
  IF \/ Constants(t, {"INT", "STRING"})
     \/ Constants(t, {"BOOL"}) /\ t[1] \in {"LOG_EQ", "LOG_NEQ"}
  THEN Folded(t) ELSE Kept(t)

optimise_node(t) ==
  CASE t[1] = "ADD" -> optimise_add(t)
    [] t[1] = "SUBTRACT" -> optimise_subtract(t)
    [] t[1] = "MULTIPLY" -> optimise_multiply(t)
    [] t[1] = "DIVIDE" -> optimise_divide(t)
    [] t[1] = "AR_NEGATE" -> optimise_negate(t)
    [] t[1] = "LOG_NOT" -> optimise_log_neg(t)
    [] t[1] \in {"LOG_AND", "LOG_OR"} -> optimise_log_and_or(t)
    [] t[1] \in {"LOG_EQ", "LOG_NEQ", "LOG_LT", "LOG_GT", "LOG_LTE", "LOG_GTE"} ->
         optimise_relational_operator(t)
    [] OTHER -> Kept(t)

Trees(parts) == Mapped(LAMBDA p : p.tree, parts)
Freed(parts) == FlattenSeq(Mapped(LAMBDA p : p.freed, parts))

\* A rewriting on top of the rewritings of the subtrees.
After(parts, top) ==
  [tree |-> top.tree,
   freed |-> Freed(parts) \o top.freed,
   changed |-> top.changed \/ \E i \in DOMAIN parts : parts[i].changed,
   zero |-> top.zero \/ \E i \in DOMAIN parts : parts[i].zero,
   amiss |-> top.amiss \cup UNION {parts[i].amiss : i \in DOMAIN parts}]

\* Post-order, in the expressions of every statement; the target of an operator like +=
\* is a leaf.
RECURSIVE optimise_ast(_)
optimise_ast(tree) ==
  LET parts == Mapped(optimise_ast, Subtrees(tree))
  IN After(parts, optimise_node(WithSubtrees(tree, Trees(parts))))

-------------------------------------------------------------------------------
(* Propagation: the vector of constants is a sequence, newest first. *)

vv_append(vector, symbol, const) == <<[symbol |-> symbol, const |-> const]>> \o vector

Places(vector, symbol) == {i \in DOMAIN vector : vector[i].symbol = symbol}
Newest(places) == CHOOSE i \in places : \A j \in places : i <= j

vv_find(vector, symbol) == vector[Newest(Places(vector, symbol))].const

vv_remove_symbol(vector, symbol) ==
  LET places == Places(vector, symbol)
  IN IF places = {} THEN vector ELSE RemoveAt(vector, Newest(places))

\* How far a pass has got: the constants known, the variables it has replaced, and those
\* of them whose references it has given back.
NothingKnown == [vector |-> <<>>, replaced |-> <<>>, returned |-> <<>>]

IsKnown(vector, id) == Places(vector, Symbol(id)) # {}

RECURSIVE propagate_into_expression(_, _)
propagate_into_expression(tree, vector) ==
  IF tree[1] = "ID"
  THEN IF IsKnown(vector, tree)
       THEN LET c == vv_find(vector, Symbol(tree)) IN ast_leaf_const(c[2], c[3])
       ELSE tree
  ELSE WithSubtrees(tree, Mapped(LAMBDA t : propagate_into_expression(t, vector), Subtrees(tree)))

(* Mutant: a variable that stays counts as a change. *)
ChangedOrNot(tree, unary, known) == [known EXCEPT !.replaced = @ \o Variables(tree)]

(* Mutant: nothing is given back to the target of an operator like +=. *)
NotGivenBack(tree, unary, known) ==
  [known EXCEPT !.replaced = @ \o SelectSeq(Variables(tree), LAMBDA s : Places(known.vector, s) # {})]

\* The symbols replaced in a tree; the target of an operator like += is not counted as a
\* reference, so what is taken from it is given back.
Replaced(tree, unary, known) ==
  LET found == SelectSeq(Variables(tree), LAMBDA s : Places(known.vector, s) # {})
  IN [known EXCEPT !.replaced = @ \o found,
                   !.returned = @ \o SelectSeq(found, LAMBDA s : s = unary)]

Drop(vector, id) == IF id[1] = "ID" THEN vv_remove_symbol(vector, Symbol(id)) ELSE vector

(* Mutant: only the first of several targets. *)
InvalidateFirst(vector, targets) == Drop(vector, targets[1])

Invalidate(vector, targets) == FoldLeft(Drop, vector, targets)

\* New constants of a definition, and the variables that are constant no more.
Learn(tree, remove_only, add_new, known) ==
  LET targets == Targets(tree)
      Item(i) == tree[3][2][i]
      Define(v, i) ==
        IF Item(i)[1] # "CONST" THEN Drop(v, targets[i])
        ELSE IF ~remove_only /\ add_new /\ targets[i][1] = "ID"
        THEN vv_append(v, Symbol(targets[i]), Item(i)) ELSE v
      all == [i \in DOMAIN targets |-> i]
  IN [known EXCEPT !.vector = IF tree[1] = "DEFINE" /\ Len(targets) = Len(tree[3][2])
                              THEN FoldLeft(Define, @, all) ELSE Invalidate(@, targets)]

propagate_ast_constants(tree, remove_only, add_new, known) ==
  LET values == IF IsAssignment(tree) THEN tree[3] ELSE tree
      new == propagate_into_expression(values, known.vector)
      unary == IF IsAssignment(tree) /\ IsModification(tree) THEN Symbol(tree[2]) ELSE Null
      after == IF remove_only THEN known ELSE Replaced(values, unary, known)
      result == CASE remove_only -> tree
                  [] ~remove_only /\ IsAssignment(tree) -> <<tree[1], tree[2], new>>
                  [] OTHER -> new
  IN [tree |-> result, known |-> IF IsAssignment(tree) THEN Learn(result, remove_only, add_new, after) ELSE after]

\* A statement, or the rest of a chain: what it becomes, what is known then, and whether
\* the pass has given up on it.
Pass(tree, known) == [tree |-> tree, known |-> known, gave_up |-> FALSE]
GaveUp(tree, known) == [tree |-> tree, known |-> known, gave_up |-> TRUE]

\* A loop first invalidates what it assigns, then takes the rest into its condition and
\* its body, where nothing new is learnt. The second pass propagates even when the loop
\* stands in a body that is only being invalidated. Without a definition the pass ends.
RECURSIVE propagate_function_constants(_, _, _, _)

Looped(stat, condition, body) ==
  Pass(<<"FOR", stat[2], condition.tree, stat[4], body.tree, stat[6]>>, body.known)
PropagateIntoBody(stat, body, condition) ==
  Looped(stat, condition, propagate_function_constants(body, FALSE, FALSE, condition.known))
PropagateIntoLoop(stat, body) ==
  PropagateIntoBody(stat, body.tree, propagate_ast_constants(stat[3], FALSE, TRUE, body.known))
InvalidateBody(stat, known) ==
  PropagateIntoLoop(stat, propagate_function_constants(stat[5], TRUE, FALSE, known))
InvalidateLoop(stat, known) ==
  InvalidateBody(stat, IF stat[4] = Null THEN known
                       ELSE propagate_ast_constants(stat[4], TRUE, FALSE, known).known)

propagate_function_constants(stat, remove, add, known) ==
  LET Sub(s, k) == propagate_function_constants(s, remove, add, k)
      Chain(done, s) == IF done.gave_up THEN [done EXCEPT !.tree = Append(@, s)]
                       ELSE LET p == Sub(s, done.known) IN [p EXCEPT !.tree = Append(done.tree, @)]
  IN CASE stat = Null -> Pass(stat, known)
       [] stat[1] = "BLOCK" ->
            LET all == FoldLeft(Chain, Pass(<<>>, known), stat[2])
            IN Pass([stat EXCEPT ![2] = all.tree], all.known)
       [] stat[1] \in {"BASIC", "RETURN"} ->
            LET p == propagate_ast_constants(stat[2], remove, add, known)
            IN Pass(<<stat[1], p.tree>>, p.known)
       [] stat[1] = "IF" ->
            LET condition == propagate_ast_constants(stat[2], remove, add, known)
                then == Sub(stat[3], condition.known)
                else == Sub(stat[4], then.known)
            IN Pass(<<"IF", condition.tree, then.tree, else.tree>>, else.known)
       [] stat[1] = "FOR" /\ stat[2] = Null -> GaveUp(stat, known)
       [] stat[1] = "FOR" /\ stat[2] # Null ->
            InvalidateLoop(stat, propagate_ast_constants(stat[2], TRUE, FALSE, known).known)

-------------------------------------------------------------------------------
(* Dead code, on the trees; DeadCode has the links. A dead `else if' without an else is   *)
(* left out, and so is a function that begins with a dead statement.                      *)

IsDead(stat) ==
  \/ stat[1] = "IF" /\ Is(stat[2], "BOOL", FALSE) /\ stat[4] = Null
  \/ stat[1] = "FOR" /\ Is(stat[3], "BOOL", FALSE)

Removed(tree, freed) == [tree |-> tree, freed |-> freed]

RECURSIVE remove_function_dead_code(_)
remove_function_dead_code(stat) ==
  LET Sub(s) == remove_function_dead_code(s)
      then == Sub(stat[3])
      else == Sub(stat[4])
      body == Sub(stat[5])
  IN CASE stat[1] = "BLOCK" ->
            LET live == SelectSeq(stat[2], LAMBDA s : ~IsDead(s))
                dead == SelectSeq(stat[2], IsDead)
                parts == Mapped(Sub, live)
            IN Removed([stat EXCEPT ![2] = Trees(parts)], dead \o Freed(parts))
       [] stat[1] = "IF" /\ Is(stat[2], "BOOL", FALSE) ->
            Removed(<<"IF", Const("BOOL", TRUE), else.tree, Null>>, <<stat[3]>> \o else.freed)
       [] stat[1] = "IF" /\ Is(stat[2], "BOOL", TRUE) ->
            Removed(<<"IF", stat[2], then.tree, Null>>, <<stat[4]>> \o then.freed)
       [] stat[1] = "IF" /\ ~IsConst(stat[2], "BOOL") ->
            Removed(<<"IF", stat[2], then.tree, else.tree>>, then.freed \o else.freed)
       [] stat[1] = "FOR" -> Removed([stat EXCEPT ![5] = body.tree], body.freed)
       [] OTHER -> Removed(stat, <<>>)

-------------------------------------------------------------------------------
(* The reference counters. *)

Bump(counters, symbols, by) ==
  FoldLeft(LAMBDA c, s : [c EXCEPT ![s] = (@ + by) % (2 ^ CounterWidth)], counters, symbols)

clean_ast(counters, freed) ==
  Bump(counters, FlattenSeq(Mapped(Variables, freed)), -1)

\* What the parser counts: every variable on a right-hand side (reduce_id), but not the
\* target that an operator like += puts there (reduce_modify_assign).
RECURSIVE Uses(_)
Uses(tree) ==
  CASE tree[1] = "ID" -> <<Symbol(tree)>>
    [] IsAssignment(tree) /\ ~IsModification(tree) -> Uses(tree[3])
    [] IsAssignment(tree) /\ IsModification(tree) ->
         CASE tree[3] = tree[2] -> <<>>
           [] tree[3][1] \in Arithmetic /\ tree[3][2] = tree[2] -> Uses(tree[3][3])
           [] OTHER -> Uses(tree[3])
    [] OTHER -> FlattenSeq(Mapped(Uses, Subtrees(tree)))

\* The variables an assignment below a tree assigns to.
AssignedIn(tree) ==
  LET nodes == ToSet(Nodes(tree))
  IN UNION {{Symbol(id) : id \in {t \in ToSet(Targets(n)) : t[1] = "ID"}}
              : n \in {m \in nodes : IsAssignment(m)}}

\* The counters when the parser is done; results with names have one reference more.
Counted(prog) ==
  LET Of(f, counters) == Bump(counters, Uses(prog[f].body)
                                        \o Mapped(Symbol, prog[f].named), 1)
  IN FoldSet(Of, [s \in Symbols |-> 0], DOMAIN prog)

-------------------------------------------------------------------------------
(* The optimiser. *)

Init ==
  /\ source \in Sources
  /\ program = source
  /\ references = Counted(source)
  /\ changed = TRUE
  /\ phase = "fold_constants"
  /\ compiler_result = "SUCCESS"
  /\ amiss = {}
  /\ lost = {}
  /\ begun = source

\* Every function becomes what a pass has made of it.
Becomes(parts) == program' = [f \in DOMAIN program |-> [program[f] EXCEPT !.body = parts[f].tree]]

fold_constants ==
  /\ phase = "fold_constants"
  /\ LET parts == [f \in DOMAIN program |-> optimise_ast(program[f].body)]
     IN /\ Becomes(parts)
        /\ references' = FoldSet(LAMBDA f, c : clean_ast(c, parts[f].freed), references, DOMAIN program)
        /\ changed' = \E f \in DOMAIN program : parts[f].changed
        /\ compiler_result' = IF \E f \in DOMAIN program : parts[f].zero
                              THEN "DIVISION_BY_ZERO" ELSE compiler_result
        /\ amiss' = amiss \cup UNION {parts[f].amiss : f \in DOMAIN program}
  /\ phase' = "propagate_constants"
  /\ begun' = program
  /\ UNCHANGED <<source, lost>>

propagate_constants ==
  /\ phase = "propagate_constants"
  /\ LET parts == [f \in DOMAIN program |->
                     propagate_function_constants(program[f].body, FALSE, TRUE, NothingKnown)]
         Recount(f, c) == Bump(Bump(c, parts[f].known.replaced, -1), parts[f].known.returned, 1)
     IN /\ Becomes(parts)
        /\ references' = FoldSet(Recount, references, DOMAIN program)
        /\ changed' = (changed \/ \E f \in DOMAIN program : parts[f].known.replaced # <<>>)
  /\ phase' = IF compiler_result = "SUCCESS" /\ changed' THEN "fold_constants" ELSE "remove_dead_code"
  /\ UNCHANGED <<source, compiler_result, amiss, lost, begun>>

remove_dead_code ==
  /\ phase = "remove_dead_code"
  /\ LET parts == [f \in DOMAIN program |-> remove_function_dead_code(program[f].body)]
     IN /\ Becomes(parts)
        /\ references' = FoldSet(LAMBDA f, c : clean_ast(c, parts[f].freed), references, DOMAIN program)
        /\ lost' = UNION {AssignedIn(List(parts[f].freed)) : f \in DOMAIN program}
  /\ phase' = "done"
  /\ UNCHANGED <<source, changed, compiler_result, amiss, begun>>

Next == fold_constants \/ propagate_constants \/ remove_dead_code

Spec == Init /\ [][Next]_vars

-------------------------------------------------------------------------------
(* Properties. *)

Bodies == {source[f].body : f \in DOMAIN source}
Loops(tree) == {n \in ToSet(Nodes(tree)) : n[1] = "FOR"}

\* The source is one of those the propagation is known to get wrong.
\* A loop without a definition ends the pass over the block it is in.
BareLoopInside == \E b \in Bodies : \E n \in ToSet(Nodes(b)) :
  n[1] \in {"IF", "FOR"} /\ \E l \in Loops(n) \ {n} : l[2] = Null

\* A loop is read as if nothing after it in the surrounding loop had assigned yet.
LoopBeforeAssignment == \E b \in Bodies : \E l \in Loops(b) :
  LET stats == l[5][2]
  IN \E i, j \in DOMAIN stats : /\ i < j /\ Loops(stats[i]) # {}
                                /\ AssignedIn(stats[j]) \cap ToSet(Variables(stats[i])) # {}

\* The vector keeps the older constant of a variable that is defined twice.
DefinedTwice == \E b \in Bodies : \E m, n \in ToSet(Nodes(b)) :
  m[1] = "DEFINE" /\ n[1] = "DEFINE" /\ m # n /\ AssignedIn(m) \cap AssignedIn(n) # {}

KnownMiscompilation ==
  amiss # {} \/ BareLoopInside \/ LoopBeforeAssignment \/ DefinedTwice

\* The optimised program prints, reads and ends as the source does, whatever it reads: no
\* constant is propagated past an assignment (propagate_function_constants), no folding
\* changes a value (optimise_ast), only code that cannot run is removed
\* (remove_function_dead_code). The sources that break it are named above.
MeaningKeptUnlessKnown ==
  phase = "done" /\ compiler_result = "SUCCESS" /\ ~KnownMiscompilation =>
    \A input \in Inputs : Shown(program, Symbols, input) = Shown(source, Symbols, input)

\* The rounds end only when nothing is left to do (optimiser_optimise): no operator has
\* only constants, no divisor is a constant zero, no condition is constant but that of an
\* if whose else was removed or replaced it.
IsLeftover(n) ==
  \/ n[1] \in Binary /\ n[2][1] = "CONST" /\ n[3][1] = "CONST"
  \/ n[1] \in {"AR_NEGATE", "LOG_NOT"} /\ n[2][1] \in {"CONST", n[1]}
  \/ n[1] = "DIVIDE" /\ Is(n[3], "INT", 0)
  \/ n[1] = "IF" /\ n[2][1] = "CONST" /\ ~(n[2][3] /\ n[4] = Null)
  \/ n[1] = "FOR" /\ Is(n[3], "BOOL", FALSE)
NothingLeftToFold ==
  phase = "done" /\ compiler_result = "SUCCESS" =>
    \A f \in DOMAIN program : ~Has(program[f].body, IsLeftover)

Operators == Binary \cup {"AR_NEGATE", "LOG_NOT"}
SumOf(Op(_), S) == FoldSet(LAMBDA f, n : n + Op(f), 0, S)

\* Every variable the finished program reads has at least as many references, so the code
\* generator defines it: what clean_ast takes for a freed or replaced use had been counted.
\* The exceptions are the variables assigned in removed code, and the targets of *=.
TimesUsed(s) == SumOf(LAMBDA f : Len(SelectSeq(Uses(program[f].body), LAMBDA u : u = s)), DOMAIN program)
UsedVariablesAreCountedUnlessTargets ==
  phase = "done" => \A s \in Symbols :
    \/ references[s] >= TimesUsed(s)
    \/ s \in lost
    \/ \E b \in Bodies : Has(b, LAMBDA n : IsAssignment(n) /\ IsModification(n)
                                           /\ Symbol(n[2]) = s /\ n[3][1] = "MULTIPLY")

\* Folding and propagation come to an end (optimiser_optimise loops until a round changes
\* nothing): a round that is followed by another one has left fewer variables and operators.
Size(prog) == SumOf(LAMBDA f : Len(SelectSeq(Nodes(prog[f].body), LAMBDA n : n[1] = "ID" \/ n[1] \in Operators)),
                    DOMAIN prog)
RoundsShrink ==
  [][phase = "propagate_constants" /\ phase' = "fold_constants" => Size(program') < Size(begun)]_vars
================================================================================
