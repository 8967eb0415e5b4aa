----------------------------- MODULE TargetMachine -----------------------------
(***************************************************************************)
(* The interpreter of IFJcode20, as far as the code generator uses it. It  *)
(* is not part of the repository: this is what the generated code relies   *)
(* on. An instruction is a tuple, its operands are                         *)
(*   <<"CONST", type, value>>                a constant                    *)
(*   <<frame, scope number, name, table>>    a variable of GF, LF or TF;   *)
(*                              the table is a remark of the generator     *)
(*   <<function, kind, counter, place>>      a label                       *)
(* A state of the machine is a record:                                     *)
(*   pc, steps, said, asked, input                                         *)
(*   global, temp, frames   variables; temp has no frame or one            *)
(*   stack                  the data stack                                 *)
(*   calls                  the calls it is in: where to go back to, how   *)
(*                          high the stack was, and the function           *)
(*   status                 "running", or how it has stopped               *)
(***************************************************************************)
EXTENDS ProgramMeaning, FiniteSets

Unset == Const("UNSET", 0)
Key(var) == <<var[2], var[3]>>
Frame(m, name) ==
  CASE name = "GF" -> <<m.global>>
    [] name = "TF" -> m.temp
    [] name = "LF" -> IF m.frames = <<>> THEN <<>> ELSE <<Last(m.frames)>>

IsDeclared(m, o) == o[1] = "CONST" \/ (Frame(m, o[1]) # <<>> /\ Key(o) \in DOMAIN Frame(m, o[1])[1])
Content(m, o) == IF o[1] = "CONST" THEN o ELSE Frame(m, o[1])[1][Key(o)]
Put(m, var, value) ==
  CASE var[1] = "GF" -> [m EXCEPT !.global = (Key(var) :> value) @@ @]
    [] var[1] = "TF" -> [m EXCEPT !.temp[1] = (Key(var) :> value) @@ @]
    [] var[1] = "LF" -> [m EXCEPT !.frames[Len(m.frames)] = (Key(var) :> value) @@ @]

Halted(m, how) == [m EXCEPT !.status = how]

\* What an instruction of three operands computes; the one that ends in S takes its
\* operands from the stack.
Computes == [ADD |-> "ADD", SUB |-> "SUBTRACT", MUL |-> "MULTIPLY", IDIV |-> "DIVIDE",
             LT |-> "LOG_LT", GT |-> "LOG_GT", EQ |-> "LOG_EQ"]
OnStackToo == [ADDS |-> "ADD", SUBS |-> "SUB", MULS |-> "MUL", IDIVS |-> "IDIV",
               LTS |-> "LT", GTS |-> "GT", EQS |-> "EQ"]
Ternary == DOMAIN Computes \cup {"CONCAT", "GETCHAR", "STRI2INT"}
Jumps == {"JUMPIFEQ", "JUMPIFNEQ"}

Fits(op, a, b) ==
  CASE op \in {"ADD", "SUB", "MUL", "IDIV"} -> <<a[2], b[2]>> = <<"INT", "INT">>
    [] op \in {"GETCHAR", "STRI2INT"} -> <<a[2], b[2]>> = <<"STRING", "INT">>
    [] op = "CONCAT" -> <<a[2], b[2]>> = <<"STRING", "STRING">>
    [] OTHER -> a[2] = b[2]
HasResult(op, a, b) ==
  CASE op = "IDIV" -> b[3] # 0
    [] op \in {"GETCHAR", "STRI2INT"} -> b[3] \in 0..(Len(a[3]) - 1)
    [] OTHER -> TRUE
Computed(op, a, b) ==
  CASE op = "CONCAT" -> Const("STRING", a[3] \o b[3])
    [] op = "GETCHAR" -> Const("STRING", <<a[3][b[3] + 1]>>)
    [] op = "STRI2INT" -> Const("INT", a[3][b[3] + 1])
    [] OTHER -> Applied(Computes[op], a[2], a[3], b[3])

\* The machine with a result, which Keep takes.
WithResult(m, op, a, b, Keep(_, _)) ==
  CASE ~Fits(op, a, b) -> Halted(m, "operand types")
    [] Fits(op, a, b) /\ ~HasResult(op, a, b) -> Halted(m, "operand value")
    [] OTHER -> Keep(m, Computed(op, a, b))

Push(m, value) == [m EXCEPT !.stack = Append(@, value)]
Pop(m, n) == [m EXCEPT !.stack = SubSeq(@, 1, Len(@) - n)]
Top(m, n) == m.stack[Len(m.stack) - n + 1]

Goto(m, code, label) ==
  [m EXCEPT !.pc = 1 + CHOOSE k \in DOMAIN code : code[k] = <<"LABEL", label>>]
GotoIf(m, code, label, decided) == IF decided THEN Goto(m, code, label) ELSE m

\* The operands an instruction reads, the variable it writes, what it needs on the stack.
Reads(i) ==
  CASE i[1] \in {"WRITE", "PUSHS"} -> <<i[2]>>
    [] i[1] \in {"MOVE", "STRLEN", "TYPE"} -> <<i[3]>>
    [] i[1] \in Ternary \cup Jumps -> <<i[3], i[4]>>
    [] OTHER -> <<>>
Writes(i) == IF i[1] \in {"MOVE", "STRLEN", "TYPE", "READ", "POPS"} \cup Ternary THEN <<i[2]>> ELSE <<>>
Needs(i) == CASE i[1] \in DOMAIN OnStackToo \cup {"JUMPIFEQS"} -> 2
              [] i[1] \in {"POPS", "INT2CHARS"} -> 1
              [] OTHER -> 0

Trouble(m, i) ==
  CASE \E k \in DOMAIN (Reads(i) \o Writes(i)) : ~IsDeclared(m, (Reads(i) \o Writes(i))[k]) -> "no such variable"
    [] i[1] # "TYPE" /\ (\E k \in DOMAIN Reads(i) : IsDeclared(m, Reads(i)[k])
                                                   /\ Content(m, Reads(i)[k]) = Unset) -> "variable without a value"
    [] Len(m.stack) < Needs(i) -> "empty stack"
    [] (i[1] = "PUSHFRAME" /\ m.temp = <<>>) \/ (i[1] = "POPFRAME" /\ m.frames = <<>>) -> "no such frame"
    [] i[1] = "RETURN" /\ m.calls = <<>> -> "no call"
    [] OTHER -> ""

\* The machine, already past the instruction, after its effect; v are the values read.
Effect(m, code, i, v) ==
  CASE i[1] = "LABEL" -> m
    [] i[1] = "DEFVAR" -> IF Frame(m, i[2][1]) = <<>> \/ IsDeclared(m, i[2]) THEN Halted(m, "bad definition")
                          ELSE Put(m, i[2], Unset)
    [] i[1] = "MOVE" -> Put(m, i[2], v[1])
    [] i[1] = "STRLEN" -> IF v[1][2] = "STRING" THEN Put(m, i[2], Const("INT", Len(v[1][3])))
                          ELSE Halted(m, "operand types")
    [] i[1] = "TYPE" -> Put(m, i[2], Const("STRING", v[1][2]))
    [] i[1] = "READ" -> IF m.asked = Len(m.input) THEN Put(m, i[2], Const("NIL", 0))
                        ELSE Put([m EXCEPT !.asked = @ + 1], i[2], Const("INT", m.input[m.asked + 1]))
    [] i[1] = "WRITE" -> [m EXCEPT !.said = Append(@, v[1])]
    [] i[1] = "PUSHS" -> Push(m, v[1])
    [] i[1] = "POPS" -> Put(Pop(m, 1), i[2], Top(m, 1))
    [] i[1] \in Ternary -> WithResult(m, i[1], v[1], v[2], LAMBDA n, value : Put(n, i[2], value))
    [] i[1] \in DOMAIN OnStackToo ->
         WithResult(m, OnStackToo[i[1]], Top(m, 2), Top(m, 1), LAMBDA n, value : Push(Pop(n, 2), value))
    [] i[1] = "INT2CHARS" -> Push(Pop(m, 1), Const("STRING", <<Top(m, 1)[3]>>))
    [] i[1] = "JUMP" -> Goto(m, code, i[2])
    [] i[1] \in Jumps -> IF v[1][2] # v[2][2] THEN Halted(m, "operand types")
                         ELSE GotoIf(m, code, i[2], (v[1] = v[2]) = (i[1] = "JUMPIFEQ"))
    [] i[1] = "JUMPIFEQS" -> GotoIf(Pop(m, 2), code, i[2], Top(m, 1) = Top(m, 2))
    [] i[1] = "CREATEFRAME" -> [m EXCEPT !.temp = <<<<>>>>]
    [] i[1] = "PUSHFRAME" -> [m EXCEPT !.frames = @ \o m.temp, !.temp = <<>>]
    [] i[1] = "POPFRAME" -> [m EXCEPT !.temp = <<Last(m.frames)>>, !.frames = Front(@)]
    [] i[1] = "CALL" -> Goto([m EXCEPT !.calls = Append(@, [back |-> m.pc, height |-> Len(m.stack), fun |-> i[2][1]])],
                             code, i[2])
    [] i[1] = "RETURN" -> [m EXCEPT !.pc = Last(m.calls).back, !.calls = Front(@)]
    [] i[1] = "EXIT" -> Halted(m, IF i[2][3] = 0 THEN "" ELSE "division by zero")

Execution(m, code, i) ==
  IF Trouble(m, i) # "" THEN Halted(m, Trouble(m, i))
  ELSE Effect([m EXCEPT !.pc = @ + 1], code, i, Mapped(LAMBDA o : Content(m, o), Reads(i)))

\* Running off the end is the end.
Advanced(m, code) == IF m.pc > Len(code) THEN Halted(m, "") ELSE Execution(m, code, code[m.pc])

\* The program is refused if a line is malformed, a label stands twice or is missing.
LabelsOf(code) == SelectSeq(code, LAMBDA i : i[1] = "LABEL")
TargetsOf(code) == SelectSeq(code, LAMBDA i : i[1] \in Jumps \cup {"JUMP", "JUMPIFEQS", "CALL"})
IsAssembled(code) ==
  /\ \A k \in DOMAIN code : code[k][1] # "MALFORMED"
  /\ Cardinality(ToSet(LabelsOf(code))) = Len(LabelsOf(code))
  /\ \A i \in ToSet(TargetsOf(code)) : <<"LABEL", i[2]>> \in ToSet(LabelsOf(code))

Loaded(code, input) ==
  [pc |-> 1, steps |-> 0, said |-> <<>>, asked |-> 0, input |-> input, global |-> <<>>, temp |-> <<>>,
   frames |-> <<>>, stack |-> <<>>, calls |-> <<>>,
   status |-> IF IsAssembled(code) THEN "running" ELSE "not assembled"]
================================================================================
