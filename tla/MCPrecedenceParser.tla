-------------------------- MODULE MCPrecedenceParser --------------------------
(* The kinds of expressions on which TLC checks the precedence parser.     *)
EXTENDS ExpressionGrammar

MCNames == {"a", "b"}

Op(op) == <<Tok(op, "")>>
OpEol(op) == <<AfterEol(Tok(op, ""))>>
Id(name) == <<Tok("ID", name)>>
IdEol(name) == <<AfterEol(Tok("ID", name))>>
IntLit(n) == <<Tok("INT", n)>>
Call(name) == Id(name) \o Op("(")
True == <<Tok("BOOL", TRUE)>>
Str == <<Tok("STRING", "s")>>
Ops(ops) == {Op(op) : op \in ops}

Types(top_a, top_b, outer_a) ==
  [v \in {"top", "outer"} \X MCNames |->
     CASE v = <<"top", "a">> -> top_a [] v = <<"top", "b">> -> top_b
       [] v = <<"outer", "a">> -> outer_a [] OTHER -> "ABSENT"]
Ints == Types("INT", "INT", "ABSENT")

Unknown == [known |-> FALSE, defined |-> FALSE, params |-> <<>>, ret_types |-> <<>>]
Defined(params, ret_types) == [known |-> TRUE, defined |-> TRUE, params |-> params, ret_types |-> ret_types]
Functions == [f |-> Unknown, g |-> Defined(<<"INT">>, <<"INT">>), a |-> Unknown, b |-> Unknown,
              h |-> Defined(<<>>, <<"INT", "BOOL">>), print |-> Defined(<<>>, <<>>)] @@ ("_" :> Unknown)

Kind(rule, alphabet, n, start_types) ==
  [assign_rule |-> rule, alphabet |-> alphabet, length |-> n, eol_before_allowed |-> FALSE,
   types |-> start_types, functions |-> Functions, semantics |-> TRUE]
SyntaxOnly(k) == [k EXCEPT !.semantics = FALSE]

MCKinds == [
  \* precedence, associativity, signs and brackets
  arithmetic |-> Kind("PURE_EXPRESSION", {Id("a"), IntLit(0)} \cup Ops({"-", "/", "(", ")"}), 5, Ints),
  levels |-> SyntaxOnly(Kind("PURE_EXPRESSION", {Id("a")} \cup Ops({"+", "*", "<", "&&", "||"}), 5, Ints)),
  pure |-> Kind("PURE_EXPRESSION", {Id("a"), IntLit(1)} \cup Ops({"=", ":=", "+="}), 4, Ints),
  \* types
  types |-> Kind("PURE_EXPRESSION", {Id("a"), True, Str} \cup Ops({"+", "==", "&&"}), 5,
                 Types("INT", "ABSENT", "BOOL")),
  unknown |-> Kind("PURE_EXPRESSION", {Id("a"), Id("b"), IntLit(1)} \cup Ops({"!", "+", "=="}), 5,
                   Types("UNKNOWN", "BOOL", "ABSENT")),
  \* ends of lines
  lines |-> [Kind("PURE_EXPRESSION", {Id("a"), IdEol("a"), OpEol("+"), OpEol(")")} \cup Ops({"+", "(", "OUTSIDE"}), 5, Ints)
               EXCEPT !.eol_before_allowed = TRUE],
  \* statements
  assign |-> Kind("VALID_STATEMENT", {Id("a"), Id("b"), Id("_"), IntLit(1)} \cup Ops({"=", ":=", ","}), 5,
                  Types("INT", "ABSENT", "BOOL")),
  define |-> Kind("VALID_STATEMENT", {Id("a") \o Op(",") \o Id("b"), True, IntLit(1)} \cup Ops({"=", ":=", ","}), 7,
                  Types("ABSENT", "BOOL", "INT")),
  targets |-> SyntaxOnly(Kind("VALID_STATEMENT", {Id("a"), IntLit(1)} \cup Ops({"=", ",", "("}), 6, Ints)),
  step |-> Kind("ASSIGN_REQUIRED", {Id("a"), IntLit(0)} \cup Ops({"/=", ":=", "-", "+="}), 4, Types("INT", "ABSENT", "ABSENT")),
  init |-> Kind("DEFINE_REQUIRED", {Id("b"), IntLit(1)} \cup Ops({"=", ":=", "-"}), 4, Types("INT", "ABSENT", "ABSENT")),
  \* calls
  calls |-> Kind("VALID_STATEMENT", {Call("f"), Call("g"), Id("a"), IntLit(1)} \cup Ops({",", ")", "=", "INVALID"}), 6,
                 Types("STRING", "ABSENT", "ABSENT")),
  returned |-> Kind("VALID_STATEMENT", {Id("a"), Id("_"), Call("h") \o Op(")"), Call("g") \o Id("a") \o Op(")")} \cup Ops({",", "=", ":="}), 6,
                    Types("UNKNOWN", "ABSENT", "ABSENT")) ]
=============================================================================
