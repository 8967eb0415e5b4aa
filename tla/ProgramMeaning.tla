---------------------------- MODULE ProgramMeaning ----------------------------
(***************************************************************************)
(* What a program of the source language does when it runs: the output of  *)
(* print, how it ends, and what it reads.  Operands, arguments and values  *)
(* are evaluated from left to right; && and || stop when they are decided. *)
(*                                                                         *)
(* A program is a function from names to [params, named, results, body]:   *)
(* the parameters, the variables of named results (none if they have no    *)
(* names), the types of the results and the block.  A run is a record:     *)
(*   env    the variables of the current call                              *)
(*   said   what has been printed                                          *)
(*   asked  how many numbers have been read, `input' those there are       *)
(*   ended  "" while it runs, then how it ended; "return" leaves a call    *)
(*   fuel   the calls and rounds of loops it may still make                *)
(***************************************************************************)
EXTENDS ProgramTrees

CONSTANT Fuel

DefaultValue(type) == Const(type, CASE type = "INT" -> 0 [] type = "BOOL" -> FALSE [] OTHER -> <<>>)

Abs(n) == IF n < 0 THEN -n ELSE n

\* The quotient, cut towards zero.
Quotient(l, r) == LET q == Abs(l) \div Abs(r) IN IF (l < 0) = (r < 0) THEN q ELSE -q

Applied(op, type, l, r) ==
  CASE op = "ADD" -> Const(type, IF type = "STRING" THEN l \o r ELSE l + r)
    [] op = "SUBTRACT" -> Const("INT", l - r)
    [] op = "MULTIPLY" -> Const("INT", l * r)
    [] op = "DIVIDE" -> Const("INT", Quotient(l, r))
    [] op = "LOG_EQ" -> Const("BOOL", l = r)
    [] op = "LOG_NEQ" -> Const("BOOL", l # r)
    [] op = "LOG_LT" -> Const("BOOL", l < r)
    [] op = "LOG_GT" -> Const("BOOL", l > r)
    [] op = "LOG_LTE" -> Const("BOOL", l <= r)
    [] op = "LOG_GTE" -> Const("BOOL", l >= r)

Got(value, run) == [value |-> value, run |-> run]
Stopped(run, how) == [run EXCEPT !.ended = how]
Spent(run) == IF run.fuel = 0 THEN Stopped(run, "out of fuel") ELSE [run EXCEPT !.fuel = @ - 1]

Assigned(run, targets, values) ==
  [run EXCEPT !.env = FoldLeft(LAMBDA env, i : IF targets[i][1] = "ID"
                                                THEN [env EXCEPT ![Symbol(targets[i])] = values[i]] ELSE env,
                               @, [i \in DOMAIN targets |-> i])]

RECURSIVE Value(_, _, _), Values(_, _, _), Execute(_, _, _)

\* The values of the trees from left to right.
AndThen(program, so_far, tree) ==
  IF so_far.run.ended # "" THEN so_far
  ELSE LET v == Value(program, tree, so_far.run) IN Got(Append(so_far.value, v.value), v.run)
Values(program, trees, run) ==
  FoldLeft(LAMBDA so_far, tree : AndThen(program, so_far, tree), Got(<<>>, run), trees)

\* The values a call returns; nothing stays of its variables.
Results(fun, left) ==
  IF left.ended = "return" /\ left.returned # <<>> THEN left.returned
  ELSE Mapped(LAMBDA id : left.env[Symbol(id)], fun.named)
Left(fun, env, results, left) ==
  CASE left.ended \notin {"", "return"} -> Got(<<>>, left)
    [] left.ended \in {"", "return"} /\ Len(results) # Len(fun.results) -> Got(<<>>, Stopped(left, "missing return"))
    [] OTHER -> Got(results, [left EXCEPT !.env = env, !.returned = <<>>, !.ended = ""])
LeftWith(fun, env, left) == Left(fun, env, Results(fun, left), left)
Entered(fun, args, run) ==
  Assigned(Assigned(Spent(run), fun.params, args), fun.named, Mapped(DefaultValue, fun.results))
CallOf(program, f, args, run) ==
  LeftWith(program[f], run.env, Execute(program, program[f].body, Entered(program[f], args, run)))

\* A call with its arguments; the value is the sequence of its results, or the only one.
InputI(run) ==
  IF run.asked = Len(run.input) THEN Got(<<Const("INT", 0), Const("INT", 1)>>, run)
  ELSE Got(<<Const("INT", run.input[run.asked + 1]), Const("INT", 0)>>, [run EXCEPT !.asked = @ + 1])
\* The built-in functions without effects: a flag behind a value says whether there is one.
Valued(type, value) == <<Const(type, value), Const("INT", 0)>>
Failed(type) == <<DefaultValue(type), Const("INT", 1)>>
Builtin(f, a) ==
  CASE f = "len" -> <<Const("INT", Len(a[1]))>>
    [] f = "chr" -> IF a[1] \in 0..255 THEN Valued("STRING", <<a[1]>>) ELSE Failed("STRING")
    [] f = "ord" -> IF a[2] \in 0..(Len(a[1]) - 1) THEN Valued("INT", a[1][a[2] + 1]) ELSE Failed("INT")
    [] f = "substr" ->
         IF a[2] \in 0..(Len(a[1]) - 1) /\ a[3] >= 0
         THEN Valued("STRING", SubSeq(a[1], a[2] + 1, IF a[2] + a[3] < Len(a[1]) THEN a[2] + a[3] ELSE Len(a[1])))
         ELSE Failed("STRING")
Single(results) == IF Len(results.value) = 1 THEN Got(results.value[1], results.run) ELSE results
Called(program, f, args) ==
  CASE args.run.ended # "" -> args
    [] args.run.ended = "" /\ f = "print" -> Got(<<>>, [args.run EXCEPT !.said = @ \o args.value])
    [] args.run.ended = "" /\ f = "inputi" -> InputI(args.run)
    [] args.run.ended = "" /\ f \in {"len", "chr", "ord", "substr"} ->
         Single(Got(Builtin(f, Mapped(LAMBDA v : v[3], args.value)), args.run))
    [] OTHER -> Single(CallOf(program, f, args.value, args.run))

\* An operator with its left operand, and with both.
WithBoth(op, left, right) ==
  CASE right.run.ended # "" -> right
    [] right.run.ended = "" /\ op = "DIVIDE" /\ right.value[3] = 0 ->
         Got(right.value, Stopped(right.run, "division by zero"))
    [] OTHER -> Got(Applied(op, left[2], left[3], right.value[3]), right.run)
WithLeft(program, tree, left) ==
  CASE left.run.ended # "" -> left
    [] left.run.ended = "" /\ tree[1] = "AR_NEGATE" -> Got(Const("INT", -left.value[3]), left.run)
    [] left.run.ended = "" /\ tree[1] = "LOG_NOT" -> Got(Const("BOOL", ~left.value[3]), left.run)
    [] left.run.ended = "" /\ tree[1] \in {"LOG_AND", "LOG_OR"} ->
         IF left.value[3] = (tree[1] = "LOG_AND") THEN Value(program, tree[3], left.run) ELSE left
    [] OTHER -> WithBoth(tree[1], left.value, Value(program, tree[3], left.run))

Value(program, tree, run) ==
  CASE tree[1] = "CONST" -> Got(tree, run)
    [] tree[1] = "ID" -> Got(run.env[Symbol(tree)], run)
    [] tree[1] = "CALL" -> Called(program, tree[2], Values(program, tree[3], run))
    [] OTHER -> WithLeft(program, tree, Value(program, tree[2], run))

\* Statements with the values they need.
Assigns(targets, got) == IF got.run.ended # "" THEN got.run ELSE Assigned(got.run, targets, got.value)
Returns(got) == IF got.run.ended # "" THEN got.run ELSE [got.run EXCEPT !.returned = got.value, !.ended = "return"]
Chooses(program, stat, test) ==
  IF test.run.ended # "" THEN test.run
  ELSE Execute(program, IF test.value[3] THEN stat[3] ELSE stat[4], test.run)
Repeats(program, stat, test) ==
  IF test.run.ended # "" \/ ~test.value[3] THEN test.run
  ELSE Execute(program, [stat EXCEPT ![2] = Null],
               Execute(program, stat[4], Execute(program, stat[5], Spent(test.run))))
Enters(program, stat, entered) ==
  IF entered.ended # "" THEN entered ELSE Repeats(program, stat, Value(program, stat[3], entered))

\* The run after a statement.
Execute(program, stat, run) ==
  CASE run.ended # "" \/ stat = Null -> run
    [] run.ended = "" /\ stat[1] = "BLOCK" ->
         FoldLeft(LAMBDA so_far, s : Execute(program, s, so_far), run, stat[2])
    [] run.ended = "" /\ stat[1] = "BASIC" -> Execute(program, stat[2], run)
    [] run.ended = "" /\ stat[1] = "CALL" -> Value(program, stat, run).run
    [] run.ended = "" /\ IsAssignment(stat) ->
         Assigns(Targets(stat),
                 CASE IsModification(stat) -> Values(program, <<stat[3]>>, run)
                   [] ~IsModification(stat) /\ Len(stat[3][2]) < Len(Targets(stat)) ->
                        Value(program, stat[3][2][1], run)
                   [] OTHER -> Values(program, stat[3][2], run))
    [] run.ended = "" /\ stat[1] = "RETURN" -> Returns(Values(program, stat[2][2], run))
    [] run.ended = "" /\ stat[1] = "IF" -> Chooses(program, stat, Value(program, stat[2], run))
    [] run.ended = "" /\ stat[1] = "FOR" -> Enters(program, stat, Execute(program, stat[2], run))

\* What a program shows: its output, the numbers it read and how it ended.
Shown(program, variables, input) ==
  LET start == [env |-> [v \in variables |-> Const("INT", 0)], said |-> <<>>, asked |-> 0,
                input |-> input, ended |-> "", returned |-> <<>>, fuel |-> Fuel]
      end == CallOf(program, "main", <<>>, start).run
  IN [said |-> end.said, asked |-> end.asked, ended |-> end.ended]
===============================================================================
