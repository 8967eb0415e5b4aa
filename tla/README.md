# A verification project for the IFJ20 compiler

This directory holds TLA+ models of the compiler in `src/` (a translator of the
language IFJ20, a subset of Go, to the three-address code IFJcode20), TLC runs
that check them on small instances, and TLAPS proofs for instances of every
size. `PROJECT.json` lists the components, runs, theorems, hazards and findings,
and names for every definition the lines of the source it models.

## The system

The compiler is one sequential process that reads a program from standard input,
writes code to standard output and ends with the code of its first error
(`main` of `compiler.c`: parse, optimise, generate, free). Nothing runs
concurrently and nothing is stored; what is hard here is *long sequences of calls
on shared mutable structures*. Four structures are built by one phase and
rewritten by the next ones:

| component | state | operations | used by |
|---|---|---|---|
| scanner (`scanner.c`) | the character read ahead, line and column, all static | `scanner_get_token` under an EOL rule | parser, through `get_token` with one peeked token |
| recursive-descent parser (`parser.c`, `parser.h`) | `token`, `prev_token`, `scanner_result`, `function_table`, `symtable_stack` | one function per nonterminal; `recover()` after an error | `main` |
| expression parser (`precedence_parser.c`) | a stack of symbols, `prev_token` | shift, reduce, one semantic action per rule | the statement rules |
| symbol tables and scopes (`symtable.c`, `stacks.c`) | chained hash tables; a stack of them | init, find, add, add_param, add_ret_type, iterate, free; push, pop, find | both parsers, inference, code generator |
| AST and inference (`ast.c`) | a tree per expression with the inferred types; types and parameters in the symbol tables | build, infer, check | expression parser, optimiser |
| control-flow graph (`control_flow.c`) | statements linked by five pointers, `activeStat`, `activeFunc`, the sticky `cf_error` | make function, next statement, then, else, loop body; pop; assign table; clean | parser (builds), optimiser (rewires), code generator (reads) |
| optimiser (`optimiser.c`, `variable_vector.c`) | the constants known at this point | fold, propagate until nothing changes; remove dead code once | `main` |
| code generator (`code_generator.c`) | the current function, counters of labels, `defined` flags in the scopes | one function per kind of statement and node | `main` |
| result (`stderr_message.c`) | `compiler_result` | the first error stays | all |

They interact by direct calls and through the shared structures: the parser's
semantic actions run only while no error has been met (`semantic_enabled`), an
error in `cf_error` is looked at after every builder call (`check_cf`), the
optimiser relies on the pointers the parser has set, and the code generator on
what both have left.

What makes each component correct:

- *graph builder*: the graph mirrors the nesting of the source, the scope of a
  statement is the scope the parser was in, an operation never meets the wrong
  active statement, and after any error everything is freed once.
- *dead code removal*: the live code stays, dead code goes, what is unlinked is
  freed and what is freed is unlinked.
- *function table*: a map under every hash function; a call and the definition
  agree whichever comes first; no undefined function gets past the parser.
- *scanner*: tokens and EOL verdicts do not depend on peeking; comments end where
  they should; the end of the file hides no token.
- *expression parser*: it accepts the expression grammar and builds its tree.
- *inference*: a type, once known, is the type of every value of the expression.
- *folding and propagation*: an optimised program computes what the original did.
- *recovery*: every parse ends, and an unsuccessful one leaves an error code.

The behaviours that are hard to test are the hazards of `PROJECT.json`: mostly
long legal sequences of calls (nestings of if/else if/for), state that is stale
when it is used (a neighbour's table, a parent pointer, an old constant), a
structure half built when an error stops its construction, and orders (a call
before or after the definition it uses).

## Modules

    ControlFlow        operators on graphs            SymbolTable        operators on tables
      |                                                   |
    CfgBuilder -- CfgBuilder_proofs                   FunctionTable - FunctionTable_proofs
      |    \        |                                     |
      |     \    CfgBuilder_nesting, CfgBuilder_cleanup  implements
      |      \                          |                 |
      |   implements  SourceNesting     |            FunctionMap
      |                                 |
    DeadCode ---------------- DeadCode_proofs - DeadCode_kept - DeadCode_freed

    LexicalGrammar  reference lexemes              TypeRules  data types, operands
        |                                             |             \
    Scanner         the automaton                     |          PrecedenceParser - PrecedenceParser_proofs
        |                                             |             |         shift and reduce
    TokenStream     look-ahead and recovery        TypeInference    |
                                                   types of trees   |
                                                      \             |
                                                    ExpressionGrammar  reference grammar, typing

    ProgramTrees    programs as trees              TypeInference
        |                                                 |
    ProgramMeaning  what a program does            ConstantOptimiser  fold, propagate, remove
        |                                                 |
    TargetMachine   what the code does    ------>  CodeGenerator      generate, load, run

**ControlFlow** is `control_flow.c` as a value: a graph is a record with the heap
of statements (a pointer is an index), the functions, the cursors and the error;
each builder operation is an operator from graph to graph. An AST is reduced to
whether one is attached, a symbol table to its number. `clean_stat` and
`cf_clean_all` return the sequence of the objects they free.

**CfgBuilder** is the statement grammar of `parser.c` driving that builder and
`symtable_stack`. The recursive descent is a stack of calls `[at, owner]`; a step
stands for the tokens between two calls of the builder, so a step of the model
is a stretch of code without choices. `Fail` is an error at any point: from then
on only the rule for identifiers, which does not test `semantic_enabled`, extends
the graph (`RecoveredExpression`).

**SourceNesting** is what a graph builder promises: the statements of every block
in source order, blocks opened and closed like brackets. `CfgBuilder` implements
it (`MirrorsSource`) under a mapping that follows the graph's pointers from the
roots, so it sees what the code generator will see.

**DeadCode** continues `CfgBuilder` with `remove_dead_code` and the final
`cf_clean_all`. Folding and propagation are one step that turns any set of
conditions into constants; the recursion of `remove_function_dead_code` is a stack
of pending calls, one action per branch of its code. `LiveCode` is the reference:
the statements that can run, computed from the pointers and the conditions before
the removal.

**SymbolTable** is `symtable.c` for function symbols: slots with chains, a new
item at the head of its chain, writes through the pointer that `symtable_find`
returns, and the iteration by first and next item. The hash function is a
constant.

**FunctionTable** is everything that touches `function_table` before code is
generated: `prepare_builtins`, the definitions (`execution`, `params`, `ret_type`),
the calls (`reduce_function` with the inference that follows it), the end of
`program` with its loop over the table, and the optimiser's check of every call
(`func_call_inference_semantic_checks`). `declared` is a history variable, what the
source says a function takes.

**FunctionMap** is what its users need to know of the table: a map in which one
step writes one function and a defined function stays defined, and a verdict that
looks at all functions at once, where the code walks chains.

**LexicalGrammar** defines what the scanner should do without an automaton: which
sequences of characters are lexemes of which tokens, their values, which can be
continued to one (`Viable`), what is white space and comments (`IsBlank`), and
whether such a text ends a line.

**Scanner** is `scanner_get_token`: one turn of its loop per step, with the character
read ahead, the test of the EOL rule and the automaton, one action per group of its
states. The source code is chosen character by character as it is read. **TokenStream**
adds `get_token` with its peeked token and the parser as its caller: it may ask under any
rule, look ahead after an identifier, meet a syntax error at any point, and it recovers
like `recover()`. `text` and `refused` are history variables.

**TypeRules** has the data types, the types a node can have and the table of operators and
operands. **TypeInference** is `ast_infer_node_type` (not strict) as a function from a tree, the
types of the variables and the functions to a type, success, whether an error was
reported and the types given to variables on the way. **PrecedenceParser** is one call of
`parse_expression`: a stack of symbols, the precedence table by its five groups of rows,
every rule with its semantic action, the counters that the assign rule looks at. The
tokens are written by the environment as the parser looks at them, one ahead. What it calls
for types is its constant operator `infer_node_type`; the run gives it `ast_infer_node_type`,
the proofs leave it open, as the shape of the stack does not depend on it.
**ExpressionGrammar** says what it should do: a grammar by levels that splits at the last
operator of the lowest level, and typing rules (`TypesOf`) with the variables of unknown
types guessed.

**ProgramTrees** holds the trees of statements that the last two phases walk, and
**ProgramMeaning** is the reference for both: an interpreter of the source language,
left to right, whose run is the values printed, the numbers read and how it ended.
**ConstantOptimiser** is `optimiser_optimise`: one action per pass over the program, the
passes as functions from trees to trees with the constants known so far
(`variable_vector.c`) and the references taken from the variables of freed trees.
Integers have `IntWidth` bits where the code passes them through an `int`.

**CodeGenerator** continues with `tcg_generate`: an action for the start, one for each
function, one for the end. The operators have the names of the functions of
`code_generator.c` and take the generator's state (`currentFunction`, the stack of
symbol tables, the `defined` flags, the output) to the state after the call. An
instruction is a tuple of its name and operands; a variable keeps the number of the
scope that is printed in its name, a label its parts. **TargetMachine** is external: the
interpreter of IFJcode20 as the generated code relies on it, with frames, the data stack
and the run-time errors. `Load` and `Run` execute the code one instruction per step, and
what it did is compared with `ProgramMeaning` of the *source*, so that the run spans
optimiser and generator.

**FunctionTable_proofs** holds the theorems about the function table, those about the
operators of `SymbolTable` first, and **PrecedenceParser_proofs** those about the stack of the
expression parser. **CfgBuilder_proofs** (what one operation of `ControlFlow` does to a graph,
what the parser's sequence of operations keeps, and the tables
on its stack and in the graph) and, on top of it, **CfgBuilder_nesting** (the refinement of
`SourceNesting`) and **CfgBuilder_cleanup** (what is freed) hold those about the graph.
**DeadCode_proofs** (what the three changes of `remove_dead_code` do to a graph and leave of
the pending calls), **DeadCode_kept** (what the whole removal keeps, frees and leaves) and
**DeadCode_freed** (that removal and clean-up free everything once) continue them. The `MC*` modules are the instances for TLC.

## What the runs check

| run | what it shows |
|---|---|
| `cfg` | the graph mirrors the source (`MirrorsSource`), parent pointers and edges agree (`ParentLinksBack`) and are final (`EdgesAreFinal`), scopes agree (`ScopeAgrees`), a correct program never makes the builder fail (`NoBuilderError`), every partial graph is freed once (`CleanedOnce`) |
| `dead_code` | live code is kept (`LiveCodeKeptWithoutDeadElseIf`), a statement is freed exactly when it is unlinked and no pending call is at a freed one (`FreedIffUnlinked`), dead code goes (`DeadCodeGone`), everything is freed once at exit (`FreedOnceUnlessAfterFor`) |
| `functions` | the table is a well formed map (`TableWellFormed`, `IsAMap`), the loop finds every undefined function (`LoopPassesOnlyDefined`, `EveryFunctionDefined`), parameters in the table begin with the declared ones (`TableExtendsDeclaration`) and change no more after the definition (`PrototypesAreFinal`), accepted calls match (`CallsMatchUnlessOverpredicted`) and a program whose calls match is not refused by the optimiser (`RefusedForAReason`) |
| `tokens` | a token has the type and the value of its lexeme, integers up to the limit in every base (`TokenIsItsLexeme`), is as long as it can be (`LongestMatchUnlessZeroExponent`), only white space and comments are passed over in silence (`OnlyBlanksSkippedUnlessAsterisks`), the verdict on ends of lines is about the text before the token whether or not it was looked at under another rule (`EolVerdictUnlessAmiss`), what is refused starts no token (`ErrorsAreReal`), and the parse ends whatever it recovers from (`ParseEnds`) |
| `expressions` | what is accepted is a sentence of the grammar with its tree and what is refused for its syntax is none (`ParsesTheGrammarUnlessTargetsAreExpressions`), a type error is reported only if no types of the unknown variables fit (`TypeErrorsAreJustified`), an accepted expression without calls can be typed (`AcceptedIsWellTypedUnlessCalls`), and the stack has a symbol for each place the code looks at without asking (`StackIsSound`) |
| `optimise` | the optimised program prints, reads and ends as the source (`MeaningKeptUnlessKnown`), nothing is left to fold (`NothingLeftToFold`), a variable in use has the references the generator needs to define it (`UsedVariablesAreCountedUnlessTargets`), and every round but the last makes the program smaller, so the rounds end (`RoundsShrink`) |
| `codegen` | the generated code prints, reads and ends as the source means (`CompiledMeansSourceUnlessKnown`), every variable in it is the one the parser found (`NamesResolveAsParsed`), a call leaves exactly its results on the data stack and the program nothing (`CallsLeaveTheirResults`), and a program is refused only for a reason (`RefusedForAReason`) |
| `cfg_return`, `dead_elseif`, `dead_table`, `functions_args`, `functions_main` | one disagreement each between the code and what its comments or documentation say (see Findings) |

Deadlock is not checked: the program stops at the end of the file or after its
first error, and the models stop with it.

### Bounds

- `cfg`: `MaxSize = 9`, statements plus two for each function. Nine is enough
  for an if with else if and else inside a for, followed by a statement, in one
  function, or for a smaller nesting beside a second function; the popCount rules
  look at two levels of nesting and a follower.
- `dead_code`: `MaxSize = 8`, with every assignment of true, false and dynamic to
  the conditions. `dead_table` needs 9 for its shortest counterexample.
- `functions`: `main`, one more function and one builtin; two types (symmetric);
  two calls of at most two arguments (one before, one after a definition, or both
  in one function), two parameters, one return value (`MaxCalls`, `MaxParams`,
  `MaxReturns`). Three slots: two names share one, a slot between them and the
  third name stays empty. An argument is of known or of unknown type to the
  parser.

- `tokens`: twelve alphabets of four to six characters, the characters of groups of
  states that meet, and sources of three to six characters; `MAX_INT = 88` so that
  literals of four bases lie at, below and above it.
- `expressions`: twelve kinds of calls, each an alphabet of phrases with a bound of four
  to seven tokens and given types, functions and assign rule. Five tokens hold two binary
  operators or an operator, a sign and brackets; every pair of rows and columns of the
  table that expressions use meets.

- `optimise`: two definitions with known or unknown values, one statement (assignments,
  calls, branches with and without else or return, loops with two statements or another
  loop or branch in them), one more and a `print`, in every combination; two inputs.
  `IntWidth = 3` so that sums and products are cut, `CounterWidth = 4` bits count every use.
  `Fuel = 12` rounds of loops and calls are made before a run counts as one without end.
- `codegen`: `main` reads two numbers and does one of some thirty things with them; of
  the functions it calls one comes in eight forms (returns in branches, named results,
  loops, inner calls) and six wrong ones; both orders of the functions, two inputs
  (`a < b` and `a > b`, with a zero). `IntWidth = 5` holds all values, so that only the
  generator can differ; `MaxSteps = 300` instructions are enough for every program here to
  stop. A source is compared if it is in no named exception, which leaves over two hundred
  runs, with branches, loops, nested calls, strings and divisions by zero among them.

### Fairness

`TokenStream` assumes `WF_vars(Next)`: the compiler is one thread that never waits, so
it takes its next step. Which step is open where the model leaves a choice: the parser
may report a syntax error whenever it has a token, as the grammar allows, and still
every behaviour ends. The other specifications claim safety only; that the optimiser's
rounds end is the action property `RoundsShrink` (its measure is a natural number), which
needs no fairness.

## What is proved

For all constants (names, types, builtins, hash function, table size, bounds), by
TLAPS:

- `FunctionTable_proofs!TypeCorrect`: `Spec => []TypeOK`.
- `TableStaysWellFormed`: `Spec => []TableWellFormed`.
- `LoopIsRight`: `Spec => []LoopPassesOnlyDefined`.
- `OnlyDefinedFunctionsPass`: `Spec => []EveryFunctionDefined`.
- `FunctionTable_proofs!TableIsAMap`: `Spec => IsAMap`, the table implements
  `FunctionMap` under the mapping that `FunctionTable` states.
- `FunctionTable_proofs!PrototypesStay`: `Spec => PrototypesAreFinal`.
- `FunctionTable_proofs!DeclarationIsPrefix`: `Spec => []TableExtendsDeclaration`.
- `FunctionTable_proofs!RefusalIsRight`: `Spec => []RefusedForAReason`.
- `FunctionTable_proofs!AcceptedCallsMatch`: `Spec => []CallsMatchUnlessOverpredicted`.
- `FunctionTable_proofs!AddKeepsWellFormed` and its companions: what `symtable_add`,
  a write and the iteration do to a well formed table.

So everything that the run `functions` checks on a small instance holds for every one.
Of the graph:

- `CfgBuilder_proofs!GraphIsTyped`: `Spec => []TypeOK`.
- `CfgBuilder_proofs!BuilderNeverFails`: `Spec => []NoBuilderError`.
- `CfgBuilder_proofs!ParentsAreRight`: `Spec => []ParentLinksBack`.
- `CfgBuilder_proofs!EdgesStay`: `Spec => EdgesAreFinal`.
- `CfgBuilder_proofs!ScopesAreRight`: `Spec => []ScopeAgrees`.
- `CfgBuilder_nesting!NestingIsRight`: `Spec => MirrorsSource`, the builder implements
  `SourceNesting`.
- `CfgBuilder_cleanup!EverythingIsFreedOnce`: `Spec => []CleanedOnce`.

These seven, all that the run `cfg` checks, hold for programs of any size and nesting, with
any names. Of the removal of dead code:

- `DeadCode_proofs!RemovalIsTypeCorrect`: `OptSpec => []OptTypeOK`.
- `DeadCode_kept!NothingFreedIsUsed`: `OptSpec => []FreedIffUnlinked`.
- `DeadCode_kept!LiveCodeIsKept`: `OptSpec => []LiveCodeKeptWithoutDeadElseIf`.
- `DeadCode_kept!NoDeadCodeIsLeft`: `OptSpec => []DeadCodeGone`.
- `DeadCode_freed!RemovedOrLeftIsFreedOnce`: `OptSpec => []FreedOnceUnlessAfterFor`.

These five are all that the run `dead_code` checks; they hold for programs of
any size and for every outcome of folding and propagation. Of the expression
parser:

- `PrecedenceParser_proofs!StackStaysSound`: `Spec => []StackIsSound`.

It holds for expressions of any length and whatever the inference answers.

### The function table

Assumptions: the set of names is finite, the table has a slot, the hash of a name
is a natural number, `main` and `print` are names, builtins are declared with
known types, and `CF_UNKNOWN` is no type that a source can name. The inductive invariant `Inv` adds to the properties what they lean
on: every name in use is in the table (`NamesKnown`; a write through
`symtable_find` is a write to an item only then), the loop's cursor is at an item
or at the end (`CursorAtItem`), and what the loop has established is kept by
inference (`AllDefined`, `MainTakesNothing`). The argument for the loop: the next
item passes exactly one place (`NextItemPassesOne`), the first item passes none,
and the end passes all (`NullIsLast`), so when the loop ends every item has been
looked at. The search for the next slot in use is a choice of a least element,
which `LeastElement` gets from well-foundedness of the natural numbers.

The refinement of `FunctionMap` rests on one fact (`StepWrites`): a step that changes the table
writes one function, keeps it defined if it was, and keeps its prototype if its definition
has been read. The only write to a complete prototype is inference, which fills in the
parameter where the comparison stopped, and that one is unknown (`InferredPrototype`).
With it a step of the table is a write of the map or stutters. A turn of the loop that
fails is the map's verdict "undefined", because the item at the cursor is the one that
`symtable_find` returns for its key (`FoundIsTheItem`); the end of the loop is the verdict
"complete" by `Inv`.

The agreement of calls and definitions needs more in the invariant than it proves: in the middle of a
definition the table is neither the prediction nor the declaration. `Agreement` says that
the declared parameters so far are a prefix of those in the table, with
`current_param` behind them (`InsideParams`), that a function not yet defined has declared
none, and that what the table has beyond the prefix comes from a call of that length
(`AllAgree`). `PassChecks` adds how far the pass of the optimiser has come. A call whose
check fails then does not match, or the call that predicted too much does not
(`CheckedCall`), which is why no program of matching calls is refused.

### The graph

The assumptions are those of `CfgBuilder`: `main` is a name and the bound is a natural
number. `IInv` has a part about the graph, which holds after errors too, and one about the
recursion of the parser, which only a correct program keeps.

`GraphInv`: every statement hangs on one pointer or is one function's root
(`LinkedOnce`), a parent is older than its children (`ParentsBefore`, so that the walks up
the tree end), nothing follows the active statement yet (`ActiveIsLast`), and a function
has a root exactly when a statement is active (`RootIsMade`). `CfgBuilder_proofs` first reduces
the four operations that add a statement to one description (`Grows`): a new statement, and
one free pointer of the active one that now leads to it. It also shows that the two
recursive functions that walk up are what their definitions say (`PoppableUnfolds`, from
well-foundedness) and that a walk depends only on the statements above (`PoppableAgrees`).

`ParserInv`: for every pending call, the statement it reads is of the right type and has
the count of its place (`OwnerState`), and leaving the arm at the statement the parser has
reached leads back to it (`Open`). This is the popCount bookkeeping: of all the statements
between, those finished can no longer be popped into (`Settled`). Without it nothing says
that the walk of `cf_pop_previous_branched_statement` stops at the right statement, and
`NoBuilderError` is not inductive. An operation changes the innermost call only; the lemmas
`FollowEnters`, `BlockEntered`, `ElseIfEntered`, `LeavesThen` and `LeavesStatement` say
how, and `Outer` is what the other calls keep.

`ScopeAgrees` relates a stack of the parser to a walk up the graph. A call in a function, a
branch or the header of a for holds one table of `symtable_stack`, one in the body of a for
two, the others none (`Depths`); the table below those of a call is the one a statement
after the call's owner would inherit (`Scopes`), and the top of the stack is the one the
active statement gives (`TopScope`). What a statement would inherit is read off a path
(`ScopeTable`): the first statement at or above it that is not a FOR. The case that needs
the whole of it is the end of a for, where two tables go and the walk must skip the headers
of all loops the statement is in.

`MirrorsSource` is a refinement. Its mapping follows pointers down (`Chain`) while the
parser works at the far end of them, so the invariant `MInv` names the block of every
statement: there is a map `blk` from statements to blocks under which the first statement of
a block is in it, what follows a statement is in the same block and a block ends in one place
(`BlocksOK`), and the statement that a pending call has reached is in that call's block
(`CallBlocks`). `Chain` is a recursive function; that it is what its definition says follows
from the well-foundedness of the numbers, as an edge leads to a younger statement. A step that
adds a statement then extends the content of one block, the innermost one, at its end, and
each action is a step of `SourceNesting` or a stutter: `Expression`, `If`, `For` and
`ReturnKeyword` are `Add`, `Then`, `Else` and `ForBody` are `OpenArm`, `ElseIf` is
`OpenElseIf`, `FuncBody` is `OpenFunction`, the closing steps are `Close`.

`CleanedOnce` counts. `clean_stat` frees a local table when it leaves a branch, unless the
branch shares it with the statement above, and frees the table of a loop header with the
loop; so of each table there must be exactly one place where that happens. `Homes` are those
places: a function, a branch, a header. The invariant `TInv` says that every allocated table
has one (`OneHome`), and that the table of a then branch, which `clean_stat` compares with the
one above its if, is another one (`ThenIsNew`): otherwise it would be left out. Neither is
about what is freed; that follows for any graph. What a clean-up frees is the sum over the
edges of a statement of what is freed below them (`CountsAddUp`), it is zero where no path
leads to the object's home (`ZeroAbove`), and from its home a path of parent pointers goes up
to one root (`PathToRoot`), along which the count stays one; so one function frees the object
and once (`RootFrees`). The recursive function `clean_stat` is unfolded by the
well-foundedness of the numbers (`CleanUnfolds`), like the other walks.

### Dead code

The assumptions are those of the graph. `remove_dead_code` takes four things about the
parser's graph for granted, and `BInv` carries them through the parse: only an IF has
branches and only a FOR a body, an else comes with a then, a branch starts with an empty
statement or with the IF of an else if, and every branch and header has a table. `AInv` is
what is left of them once statements move: an edge leads to a younger statement, a parent is
older than its children, and every pointer and table is there (`Removable`). As the edges
still lead to younger statements, the walks end, and what `Reachable`, `LiveCode` and
`clean_stat` compute is what their definitions say, by well-foundedness. `OptTypeOK` needs no
more.

The removal changes a graph in three ways: `Unlinks` takes out a statement and joins its
neighbours, `TakesElse` gives an if its else as its then, `Relinks` clears an else; the last two
are `Rearms`. `DeadCode_proofs` says of each what hangs on what afterwards. The invariant
`KInv` is about the statements that are kept, those not freed: they hang together (`Linked`:
each is a root or on exactly one edge of its parent, and no edge leads out of them), and the
pending calls are in order (`PendingOK`). The order is the crux. A call of the removal frees a
whole branch while the calls below it on the stack still hold pointers; they are safe because
each of them is at a statement that stands before all that the calls above it look at
(`Under`), so what is freed is behind all of them. That no `else if` is dead is used in one
place: a statement that is unlinked hangs on `followingStatement`, where the code unlinks it.
From `KInv` the kept statements are the reachable ones (`KeptIsReached`), which is
`FreedIffUnlinked`.

Live code: `LiveCode` at a statement depends on the statements behind it only, and on a branch
only if its condition can be so (`ArmIsDead`); with that each removal keeps the live code of
every statement that is kept, from the last one to the first (`RearmedLiveCode`,
`UnlinkedLiveCode`). Dead code: `DoneOK` says that every kept conditional is in order (`Clean`)
or will be visited: it is reached from a pending call through what that call has still to walk
(`Due`). A removal moves statements, so the lemmas `StillReaches` and `StillDue` show that no
statement is lost to a pending call; at the end nothing is pending. Where the root of a
function was removed the walk stops early, which is why `DeadCodeGone` excludes that.

Freeing: a removal moves statements to places where `clean_stat` no longer recognises whose
table is whose, so `CleanedOnce`, which reads that off the graph, is not kept. `FInv` remembers
it from the parser instead: there are sets `own`, of the statements that came with a table, and
`block`, the table of the block each statement is in (`TablesGiven`). `PInv` proves them of
the parser's graph in a parse without errors, and what is kept of the graph still agrees with
them: what follows a statement is in its block, a branch came with a table or is an `else if` of
the same block (`AllFit`). In those terms each statement frees, of its own, itself and the tables
of its branches or its header (`FreesHeld`), so the clean-up of a branch frees one of each thing
below it (`CutOff`) and the three removals keep the account (`Tally`): what has been freed is,
once each, what is not kept. Two things make the account right. `clean_stat` frees the table of a
then branch only if it differs from that of the statement above, which it does as long as no
`else if` has been made a then branch below a pending visit (`PlainAhead`); and the pending calls
look at different statements (`Apart`), so the visit that makes one is the only one there. After
the removal such branches are there, and the last clean-up compares their tables with the one
above the if: they are in the same block and nothing is freed twice, unless that one is the header
of a for (`NoHeaderTable`), which is finding 3. After an error of the parser the optimiser is
skipped and `CleanedOnce`'s theorem says the same (`CleanedAfterParse`).

### The expression parser

The assumption is that the tokens a call may meet are tokens of the scanner and that its types
are those of the names in the two tables (`KindsAssumption`). The parser looks for the topmost
terminal and for the start of the topmost handle and takes what it finds; nothing says that
they are there. `Shape` says why they are: the end marker is at the bottom and nowhere else
(`Bottom`), below every other terminal is the start of a handle (`Handles`), which stands right
above a terminal and below one (`Begins`), and no two trees are next to each other (`Apart`).
So a terminal above the marker has a handle that can be reduced (`Handles`), what a reduction
leaves has a terminal below the new tree (`Begins`), and what is accepted is one tree (`Apart`,
with `Handles`). `PushKeepsShape`, `ShiftKeepsShape` and `ReduceKeepsShape` are the three
changes of the stack. Of the precedence table little is used (`TableSays`): above the marker
alone nothing is reduced or matched, the end of an expression is never pushed, and the parser
accepts only where the two meet.

The level of nested calls is a count of the functions on the stack (`ReducedFunction`: a handle
holds one exactly if the rule was the one for calls), and `PInv` adds what the phases before and
after the loop keep (`Ready`, `Going`, `TreeAlone`). That semantic actions return one tree is all
that is used of them (`SemanticActionFine`), so the inference may be any function.

### Only model-checked

Of what the runs `cfg`, `dead_code` and `functions` check, nothing. Everything about the scanner, folding and propagation, and the code
generator, and of the expression parser what it has to do with grammar and types: the reference
grammars, the interpreter and everything that walks trees are recursive operators, which the
proof system does not take. Liveness (`ParseEnds`).

## Findings

1. A `return` at the end of a line followed by a statement that starts with an
   identifier gets no list of values (`parser.c:557`); the optimiser dereferences
   it. Run `cfg_return`.
2. Removing a dead `else if` without else also drops the statements after the
   whole if (`optimiser.c:677`). Run `dead_elseif`.
3. After a `for`, an if that was reduced to its `else if` frees the table of the
   block around it (`control_flow.c:464`). Run `dead_table`.
4. A call before the definition may have more arguments than the definition has
   parameters (`parser.c:289`). Run `functions_args`.
5. The reference counter of `main` is overwritten, so a called `main` is never
   generated as a function (`parser.c:1059`). Run `functions_main`.

`LiveCodeKeptWithoutDeadElseIf`, `FreedOnceUnlessAfterFor` and
`CallsMatchUnlessOverpredicted` say what holds outside of 2, 3 and 4. Other properties
whose names exclude a case exclude one where the code is off but no comment or document
says what it should do:

- `0e1` is read as `0` and `e1` (`scanner.c:269`), where `1e1` is a float.
- Two asterisks in a row keep a comment open (`scanner.c:884`), and the end of the file
  after an asterisk is not reported as an open comment.
- A character of value zero switches off the test of ends of lines for the rest of the
  white space, and looks like a used-up character.
- A target of an assignment that is no identifier has its name read from a symbol that
  has none (`precedence_parser.c:483`); in the model this is the phase `undefined`.
- `a /= 0` is not compared with zero (`precedence_parser.c:593`), and operands of
  different types pass in silence when one of them is behind a call not yet defined.

`MeaningKeptUnlessKnown` and `CompiledMeansSourceUnlessKnown` name what is miscompiled;
each exception is a predicate on programs, and without it TLC finds a counterexample:

- `amiss`: folded numbers are cut to an `int` (`ast.c:113`), and a product with zero drops
  calls and divisions (`optimiser.c:139`).
- `BareLoopInside`: a loop without a definition ends the pass over its block
  (`optimiser.c:641`).
- `LoopBeforeAssignment`: constants are propagated into a loop inside a loop before later
  statements of the outer body invalidate them (`optimiser.c:645`).
- `DefinedTwice`: the vector keeps the older constant of a variable defined twice
  (`variable_vector.c:46`).
- `ShadowsWhatItUses`: a block that uses a variable and then defines one of that name
  gets the inner one where the lookup takes any name (`stacks.c:128`); the code stops on a
  variable without a value.
- `MainReturnsInBranch`: a `return` of `main` in a branch suppresses the `EXIT` at its end
  (`code_generator.c:1314`).
- `MainIsCalled`: `main` ends the program wherever it was called from (finding 5).
- `BeginsWithLoop`: a function whose first statement is a loop looks for its parameters
  under another number than they are passed under (`code_generator.c:1604`).
- `NamedResultsMayBeLost`: where no return statement stands outside branches, named results
  are not pushed (`code_generator.c:1731`).
- `EvaluatesBackwards`, `PrintsBetween`: the order of evaluation in calls, returns and
  `print` (`code_generator.c:1360`, `code_generator.c:247`).
- `DivisionIsOmitted`: a division for a variable nobody reads is not generated
  (`code_generator.c:1211`).
- `StringsBreak`, `RegistersOverwritten`: `len` of an expression and some sums of strings
  are printed as lines that are none (`code_generator.c:342`, `code_generator.c:805`), and
  `ord` and `substr` lose their registers to a call in a later argument
  (`code_generator.c:422`).

## Abstractions

- Only function symbols have data; a local variable is a member of the set
  `locals`, and only those of parameters and return values are modelled.
- The parser infers a call's type again for each larger expression around it; the
  passes of the optimiser repeat it in the model. Calls nested in arguments are
  calls of the flat list.
- The definition of a removed loop has no effects that the model sees.
- `Scanner`: line and column numbers, carriage returns, and the values of floats (whether
  one is out of range is a choice). The states of the operators are one state with the
  operator read so far, those of the three bases one with the base.
- `PrecedenceParser`: two symbol tables stand for the stack of them; strings and floats
  are opaque but for zero; all errors of inference are one (`TYPE`).
- `ConstantOptimiser`, `CodeGenerator`: floats are left out. The flag `hasInnerFuncCalls`
  is whether there is a call in the tree now; the program may keep it set after the
  optimiser has removed the call. The program is a tree: the links between statements, and
  what goes wrong with them, are the subject of `CfgBuilder` and `DeadCode`.
- Allocation does not fail.

## Not modelled

- `mutable_string.c`: a growing buffer of characters, whose content is a value here.
- Which tokens the statement rules of `parser.c` accept: their calls on the graph, the
  function table, the scopes and the token stream are modelled, each in its module, and an
  error is a step that may happen anywhere. A model of the whole grammar would repeat
  `parser.c` rule by rule and say nothing of how the rules interact.
- The strict inference of the optimiser's last pass on its own: `FunctionTable` has its
  check of calls, and `TypeInference` the rules.
- Floats behind the parser, the conversions between numbers, and the input functions of
  other types than int: the same code with another type's name.
- A failure of `ord` pushes a string where a number is expected
  (`code_generator.c:554`); the instances call it with indices in range.
- The formatting of names, constants and escape sequences in the output.
- The tests.

## Plan

Done: the graph and its clean-up, the function table and the removal of dead code, with their
theorems, scanner and token stream, expression parser with inference, optimiser, code
generator with the machine its code runs on.

What is left for the project: theorems for the type invariant and the parts of
the token stream that need no reference grammar; for optimiser and generator, floats and larger
families of programs. Liveness and the definitions by recursion over a tree that only runs use
(`Value`, `generate_statement`) stay with TLC.

## Running

    tlc -config MCCfgBuilder.cfg MCCfgBuilder
    tlapm FunctionTable_proofs.tla
    tlapm CfgBuilder_proofs.tla
    tlapm CfgBuilder_nesting.tla
    tlapm CfgBuilder_cleanup.tla
    tlapm DeadCode_proofs.tla
    tlapm DeadCode_kept.tla
    tlapm DeadCode_freed.tla
    tlapm PrecedenceParser_proofs.tla
