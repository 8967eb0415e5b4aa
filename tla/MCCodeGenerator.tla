---------------------------- MODULE MCCodeGenerator ----------------------------
(* The programs on which TLC checks the compiler from the optimiser to the running   *)
(* code: main reads two numbers and does something with them and with f and g, of    *)
(* which f comes in several forms, some of them wrong.                               *)
EXTENDS CodeGenerator

a == <<"ID", "main", "a">>
b == <<"ID", "main", "b">>
s == <<"ID", "main", "s">>
v == <<"ID", "main", "v">>
thenA == <<"ID", "then", "a">>
i == <<"ID", "for", "i">>
bodyA == <<"ID", "body", "a">>
x == <<"ID", "f", "x">>
r == <<"ID", "f", "r">>
q == <<"ID", "f", "q">>
fi == <<"ID", "f for", "i">>
y == <<"ID", "g", "y">>
z == <<"ID", "g", "z">>
Ints == {a, b, thenA, i, bodyA, x, r, q, fi, y}
MCSymbols == {Symbol(id) : id \in Ints \cup {s, v, z}}
MCVarTypes == [sym \in MCSymbols |-> CASE sym = Symbol(s) -> "STRING"
                                       [] sym \in {Symbol(v), Symbol(z)} -> "BOOL" [] OTHER -> "INT"]

Num(n) == Const("INT", n)
Text(codes) == Const("STRING", codes)
Hole == <<"BLACK_HOLE">>
Basic(tree) == <<"BASIC", tree>>
Define(ids, values) == Basic(<<"DEFINE", List(ids), List(values)>>)
Assign(ids, values) == Basic(<<"ASSIGN", List(ids), List(values)>>)
Modify(id, op, value) == <<"ASSIGN", id, <<op, id, value>>>>
Call(fun, args) == <<"CALL", fun, args>>
Block(scope, stats) == <<"BLOCK", stats, scope>>
If(cond, then, else) == <<"IF", cond, Block("then", then), else>>
Else(stats) == Block("else", stats)
Show(values) == Basic(Call("print", values))
Return(values) == <<"RETURN", List(values)>>
For(v_, scope, n, body, stats) ==
  <<"FOR", <<"DEFINE", List(<<v_>>), List(<<Num(0)>>)>>, <<"LOG_LT", v_, n>>, Modify(v_, "ADD", Num(1)),
    Block(body, stats), scope>>

Plus(l, rr) == <<"ADD", l, rr>>
Less(l, rr) == <<"LOG_LT", l, rr>>
F(e) == Call("f", <<e>>)
Read == <<Define(<<a, Hole>>, <<Call("inputi", <<>>)>>), Define(<<b, Hole>>, <<Call("inputi", <<>>)>>)>>

Expressions == {
  <<Show(<<Plus(F(a), F(<<"AR_NEGATE", b>>))>>)>>,
  <<Show(<<a, F(F(b))>>)>>,
  <<Show(<<Less(a, b), <<"LOG_NOT", <<"LOG_EQ", a, F(b)>>>>>>)>>,
  <<Define(<<v>>, <<<<"LOG_OR", <<"LOG_GTE", a, b>>, <<"LOG_LTE", F(a), b>>>>>>),
    If(<<"LOG_NEQ", v, Less(b, <<"MULTIPLY", a, a>>)>>, <<Show(<<v>>)>>, Null)>>,
  <<Define(<<v>>, <<Less(a, b)>>), If(<<"LOG_AND", v, <<"LOG_NEQ", a, Num(0)>>>>, <<Basic(Modify(b, "DIVIDE", a))>>,
                                  Else(<<Show(<<v>>)>>))>>}

Assignments == {
  <<Assign(<<b, a>>, <<a, F(b)>>)>>,
  <<Assign(<<b>>, <<<<"DIVIDE", b, a>>>>)>>,
  <<Assign(<<b>>, <<<<"DIVIDE", a, <<"SUBTRACT", b, a>>>>>>)>>,
  <<Assign(<<a, a, Hole>>, <<Num(1), b, F(a)>>)>>,
  <<Assign(<<Hole, a>>, <<<<"DIVIDE", b, a>>, b>>)>>,
  <<Assign(<<a, b>>, <<Call("g", <<a, Less(a, b)>>)>>)>>,
  <<Assign(<<Hole, b>>, <<Call("g", <<F(a), Less(a, b)>>)>>)>>,
  <<Assign(<<a, Hole>>, <<Call("g", <<F(a), Less(F(b), a)>>)>>)>>,
  <<Basic(Modify(a, "MULTIPLY", Num(0)))>>}

Strings == {
  <<Define(<<s, Hole>>, <<Call("substr", <<Text(<<1, 2, 3>>), a, b>>)>>), Show(<<s, Call("len", <<s>>)>>)>>,
  <<Define(<<s, Hole>>, <<Call("chr", <<Plus(a, b)>>)>>), Show(<<Plus(Plus(s, Text(<<1>>)), Plus(s, s))>>)>>,
  <<Define(<<s>>, <<Text(<<1, 2>>)>>), Assign(<<b, Hole>>, <<Call("ord", <<Plus(s, s), a>>)>>)>>,
  <<Define(<<s, a>>, <<Call("chr", <<Num(3)>>)>>), Show(<<s>>)>>}

Scopes == {
  <<If(Less(a, b), <<Show(<<a>>), Define(<<thenA>>, <<Plus(a, Num(1))>>), Show(<<thenA>>)>>, Null)>>,
  <<If(Less(a, b), <<Define(<<thenA>>, <<F(a)>>), Basic(Modify(thenA, "ADD", b)), Show(<<thenA>>)>>, Null)>>,
  <<If(Less(a, b), <<Assign(<<a>>, <<b>>), Define(<<thenA>>, <<Num(1)>>), Show(<<thenA>>)>>, Null)>>,
  <<For(i, "for", Num(2), "body", <<Show(<<a>>), Define(<<bodyA>>, <<Plus(a, i)>>), Show(<<bodyA>>)>>)>>,
  <<For(i, "for", a, "body", <<Define(<<bodyA, Hole>>, <<Call("g", <<i, Less(b, i)>>)>>), Basic(Modify(b, "ADD", bodyA))>>)>>}

MainBodies == {Read \o m \o <<Show(<<a, b>>)>> : m \in Expressions \cup Assignments \cup Strings \cup Scopes}
                \cup {Read \o m \o <<Show(<<a>>)>> : m \in {<<If(Less(a, b), <<Return(<<>>)>>, Null)>>,
                                                           <<If(Less(a, b), <<Basic(Call("main", <<>>))>>, Null)>>,
                                                           <<Basic(F(a))>>}}
                \cup {Read \o <<Show(<<F(a), b>>), Return(<<>>)>>}

Fun(params, named, results, scope, body) ==
  [params |-> params, named |-> named, results |-> results, body |-> Block(scope, body)]
One == <<"INT">>
FOf(named, results, body) == Fun(<<x>>, named, results, "f", body)
Positive == <<"LOG_GT", x, Num(0)>>
IfPositive(then) == <<"IF", Positive, Block("f then", then), Null>>
Plain == FOf(<<>>, One, <<Show(<<x>>), Return(<<x>>)>>)
MCFunctions == {
  Plain,
  FOf(<<>>, One, <<IfPositive(<<Return(<<Plus(x, Num(1))>>)>>), Show(<<x>>), Return(<<<<"AR_NEGATE", x>>>>)>>),
  FOf(<<>>, One, <<IfPositive(<<Return(<<x>>)>>)>>),
  FOf(<<>>, One, <<Define(<<q, Hole>>, <<Call("g", <<x, Positive>>)>>), Return(<<q>>)>>),
  FOf(<<r>>, One, <<IfPositive(<<Assign(<<r>>, <<x>>), Return(<<>>)>>), Assign(<<r>>, <<Num(1)>>), Return(<<>>)>>),
  FOf(<<r>>, One, <<IfPositive(<<Return(<<x>>)>>)>>),
  FOf(<<>>, One, <<For(fi, "f for", x, "f body", <<Show(<<fi>>)>>), Return(<<x>>)>>),
  FOf(<<>>, One, <<Define(<<q>>, <<Num(0)>>), For(fi, "f for", x, "f body", <<Basic(Modify(q, "ADD", x))>>), Return(<<q>>)>>)}
Broken == {
  <<Define(<<s, Hole>>, <<Call("chr", <<a>>)>>), Assign(<<b>>, <<Plus(a, Call("len", <<Plus(s, s)>>))>>)>>,
  <<Define(<<s, Hole>>, <<Call("chr", <<a>>)>>), Show(<<Plus(s, Plus(s, s))>>)>>,
  <<Define(<<s, Hole>>, <<Call("substr", <<Text(<<1, 2, 3>>), a, F(b)>>)>>), Show(<<s>>)>>,
  <<Define(<<s>>, <<Text(<<1, 2>>)>>), Assign(<<b, Hole>>, <<Call("ord", <<Plus(s, s), F(a)>>)>>)>>}
Wrong == {
  FOf(<<>>, One, <<>>), FOf(<<r>>, One, <<>>),
  FOf(<<>>, One, <<Return(<<x, x>>)>>),
  FOf(<<>>, One, <<Return(<<Text(<<1>>)>>)>>),
  FOf(<<r>>, One, <<Show(<<x>>)>>),
  FOf(<<r, q>>, <<"INT", "INT">>, <<Return(<<x>>)>>)}
g == Fun(<<y, z>>, <<>>, <<"INT", "INT">>, "g",
         <<<<"IF", z, Block("g then", <<Show(<<y>>), Return(<<y, Num(1)>>)>>), Null>>,
           Return(<<Plus(y, Num(1)), Num(0)>>)>>)
MainOf(body) == Fun(<<>>, <<>>, <<>>, "main", body)

MCSources ==
  {[main |-> MainOf(m), f |-> f, g |-> g] : m \in MainBodies, f \in MCFunctions}
  \cup {[main |-> MainOf(Read \o m \o <<Show(<<a, b>>)>>), f |-> Plain, g |-> g] : m \in Broken}
  \cup {[main |-> MainOf(m), f |-> f, g |-> g] : m \in {Read \o <<Show(<<a, b>>)>>, <<>>}, f \in Wrong}
MCOrders == {<<"main", "f", "g">>, <<"g", "f", "main">>}
MCInputs == {<<0, 2>>, <<2, 1>>}
================================================================================
