-------------------------- MODULE MCConstantOptimiser --------------------------
(* The programs on which TLC checks the optimiser: two definitions, one or two      *)
(* statements around which constants may or may not be known, and the output.       *)
EXTENDS ConstantOptimiser

a == <<"ID", "main", "a">>
b == <<"ID", "main", "b">>
c == <<"ID", "main", "c">>
i == <<"ID", "for", "i">>
j == <<"ID", "inner for", "j">>
x == <<"ID", "f", "x">>
MCSymbols == {Symbol(v) : v \in {a, b, c, i, j, x}}
Num(n) == Const("INT", n)

Basic(tree) == <<"BASIC", tree>>
Define(ids, values) == <<"DEFINE", List(ids), List(values)>>
Assign(ids, values) == <<"ASSIGN", List(ids), List(values)>>
Modify(id, op, value) == <<"ASSIGN", id, <<op, id, value>>>>
Call(f, args) == <<"CALL", f, args>>
Block(scope, stats) == <<"BLOCK", stats, scope>>
If(cond, then, else) == <<"IF", cond, Block("then", then), else>>
For(scope, def, cond, after, stats) == <<"FOR", def, cond, after, Block("body", stats), scope>>

Read == Basic(Assign(<<a, <<"BLACK_HOLE">>>>, <<Call("inputi", <<>>)>>))
AddB == Basic(Modify(a, "ADD", b))
Clear == Basic(Modify(a, "MULTIPLY", Num(0)))
Same == Basic(Assign(<<a>>, <<Num(1)>>))
Again == Basic(Define(<<a, c>>, <<Num(2), a>>))
Show == Basic(Call("print", <<<<"ADD", a, b>>, <<"LOG_NOT", <<"LOG_LTE", a, b>>>>>>))
Share == Basic(Assign(<<b>>, <<<<"DIVIDE", <<"AR_NEGATE", <<"AR_NEGATE", b>>>>, a>>>>))
Times == Basic(Assign(<<b, a>>, <<<<"MULTIPLY", a, Call("f", <<b>>)>>, <<"SUBTRACT", b, Num(0)>>>>))
Text == Basic(Call("print", <<<<"ADD", Const("STRING", <<"s">>), Const("STRING", <<>>)>>>>))
Leave == <<"RETURN", List(<<>>)>>
Simple == {Read, AddB, Clear, Same, Again, Show, Share, Times, Text}

Below == <<"LOG_LT", a, b>>
Decided == <<"LOG_AND", <<"LOG_EQ", a, Num(1)>>, <<"LOG_GT", Call("f", <<a>>), Num(0)>>>>
Conditions == {Below, Decided}
Inner == {Read, AddB, Same, Show, Share}

Counts(v, stats) == For(v[2], Define(<<v>>, <<Num(0)>>), <<"LOG_LT", v, Num(2)>>, Modify(v, "ADD", Num(1)), stats)
Bare(stats) == For("header", Null, Below, Modify(a, "ADD", Num(1)), stats)

Branches == {If(cond, <<s>>, else) : cond \in Conditions, s \in Inner,
                                     else \in {Null, Block("else", <<Clear>>), Block("else", <<Same>>), Block("else", <<Leave>>)}}
LoopsOver(v, bodies) == {Counts(v, s) : s \in bodies} \cup {Bare(s) : s \in bodies}
Twice == {<<s, t>> : s, t \in Inner}
Nested == {<<s, t>> : s \in LoopsOver(j, {<<u>> : u \in {Show, AddB}}) \cup {If(Below, <<u>>, Null) : u \in {Read, Show}},
                      t \in {Read, Show, Same}}

Statements == Simple \cup Branches \cup LoopsOver(i, Twice \cup Nested)
Firsts == {Basic(Define(<<a>>, <<Num(n)>>)) : n \in {0, 1}}
            \cup {Basic(Define(<<a, <<"BLACK_HOLE">>>>, <<Call("inputi", <<>>)>>))}
Seconds == {Basic(Define(<<b>>, <<e>>)) : e \in {Num(2), <<"ADD", a, Num(1)>>}}
Lasts == {Read, AddB, Clear, Counts(i, <<Show, AddB>>)}

Fun(params, results, body) == [params |-> params, named |-> <<>>, results |-> results, body |-> Block("f", body)]
f == Fun(<<x>>, <<"INT">>, <<Basic(Call("print", <<x>>)), <<"RETURN", List(<<x>>)>>>>)
MCSources == {[main |-> Fun(<<>>, <<>>, <<p, q, s, t, Show>>), f |-> f] :
                p \in Firsts, q \in Seconds, s \in Statements, t \in Lasts}
MCInputs == {<<0, 2>>, <<1>>}
================================================================================
