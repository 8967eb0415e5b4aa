---------------------------- MODULE DeadCode_proofs ----------------------------
(***************************************************************************)
(* What the removal of dead code does to every graph the parser can build. *)
(* It stays inside the graph's objects: every pointer it follows and every *)
(* object it frees is one that the parser made.                            *)
(*                                                                         *)
(* Then what each of its three changes leaves of the statements that hang  *)
(* together, and of the calls that are pending: the ground that            *)
(* DeadCode_kept stands on.                                                *)
(***************************************************************************)
EXTENDS DeadCode, CfgBuilder_cleanup

-----------------------------------------------------------------------------
(* More about the graphs of the parser: what the optimiser takes for       *)
(* granted when it visits them.                                            *)

ArmLinks == {"thenStatement", "elseStatement", "bodyStatement"}

(* Only an IF has branches, an else besides a then, and only a FOR a body. *)
ArmsFit(st) ==
  /\ st.statementType # "CF_IF" => st.thenStatement = NULL /\ st.elseStatement = NULL
  /\ st.statementType # "CF_FOR" => st.bodyStatement = NULL
  /\ st.elseStatement # NULL => st.thenStatement # NULL

(* A branch starts with an empty statement, or with the IF of an else if,  *)
(* and has a table.                                                        *)
ArmTypes(field) == IF field = "elseStatement" THEN {"CF_BASIC", "CF_IF"} ELSE {"CF_BASIC"}

ArmStarts(g, s) ==
  \A field \in ArmLinks :
    g.stat[s][field] # NULL =>
      /\ g.stat[g.stat[s][field]].statementType \in ArmTypes(field)
      /\ g.stat[g.stat[s][field]].localSymbolTable # NULL

HeaderHasTable(st) == st.statementType = "CF_FOR" => st.localSymbolTable # NULL

ShapeOK(g) ==
  \A s \in Statements(g) : ArmsFit(g.stat[s]) /\ ArmStarts(g, s) /\ HeaderHasTable(g.stat[s])

AllHaveTables(g) == \A s \in Statements(g) : g.stat[s].localSymbolTable # NULL

(* While there is no error every statement has a table, for the function   *)
(* has one; and an else is read after its then.                            *)
FunctionHasTable(g, cs) ==
  cs # << >> /\ cs[1].at = "func" => g.funcs[g.activeFunc].symbolTable # NULL

ThensRead(g, cs) ==
  \A i \in 1 .. Len(cs) :
    cs[i].at \in {"then", "else_"} => g.stat[cs[i].owner].thenStatement # NULL

BInv ==
  /\ ShapeOK(graph)
  /\ semantic_enabled =>
       AllHaveTables(graph) /\ FunctionHasTable(graph, calls) /\ ThensRead(graph, calls)

(* A statement that is added. *)
NewFits(g, edge, type) ==
  LET st == g.stat[g.activeStat]
  IN  /\ edge \in {"thenStatement", "elseStatement"} => st.statementType = "CF_IF"
      /\ edge = "elseStatement" => st.thenStatement # NULL
      /\ edge = "bodyStatement" => st.statementType = "CF_FOR"
      /\ edge \in ArmLinks => type \in ArmTypes(edge)

LEMMA GrownShape ==
  ASSUME NEW g, NEW tables, NEW h, NEW edge, NEW type, AddsStatement(g, tables, h, edge, type),
         ShapeOK(g), NewFits(g, edge, type),
         \/ edge = "followingStatement" /\ type # "CF_FOR"
         \/ h.stat[NewId(g)].localSymbolTable # NULL
  PROVE  ShapeOK(h)
<1> DEFINE n == NewId(g)
           a == g.activeStat
<1>1. /\ \A s \in Statements(g) : SameStatement(g, h, s)
      /\ \A s \in Statements(g) : \A field \in Edges :
           h.stat[s][field] = IF s = a /\ field = edge THEN n ELSE g.stat[s][field]
      /\ Statements(h) = Statements(g) \union {n} /\ n \notin Statements(g)
      /\ n # NULL
      /\ h.stat[n].statementType = type
      /\ \A field \in Edges : h.stat[n][field] = NULL
  BY GrownStatements
<1>2. /\ edge \in Edges /\ GraphInv(g, tables)
      /\ edge # "followingStatement" => type # "CF_FOR"
  BY DEF AddsStatement
<1>3. ArmLinks \subseteq Edges /\ (edge \in ArmLinks <=> edge # "followingStatement")
  BY <1>2 DEF ArmLinks, Edges
<1>4. \A s \in Statements(g) : \A field \in Edges :
        g.stat[s][field] # NULL => g.stat[s][field] \in Statements(g)
  BY <1>2 DEF GraphInv, PointersOK, PointersIn
<1> HIDE DEF n
<1>5. ASSUME NEW s \in Statements(g)
      PROVE  ArmsFit(h.stat[s]) /\ ArmStarts(h, s) /\ HeaderHasTable(h.stat[s])
  <2>1. ArmsFit(g.stat[s]) /\ ArmStarts(g, s) /\ HeaderHasTable(g.stat[s]) BY DEF ShapeOK
  <2>2. SameStatement(g, h, s) BY <1>1
  <2>3. ArmsFit(h.stat[s])
    <3>1. \A field \in Edges :
            h.stat[s][field] = IF s = a /\ field = edge THEN n ELSE g.stat[s][field]
      BY <1>1
    <3>2. /\ h.stat[s].thenStatement
               = (IF s = a /\ edge = "thenStatement" THEN n ELSE g.stat[s].thenStatement)
          /\ h.stat[s].elseStatement
               = (IF s = a /\ edge = "elseStatement" THEN n ELSE g.stat[s].elseStatement)
          /\ h.stat[s].bodyStatement
               = (IF s = a /\ edge = "bodyStatement" THEN n ELSE g.stat[s].bodyStatement)
      BY <3>1 DEF Edges
    <3> QED BY <1>1, <2>1, <2>2, <3>2 DEF ArmsFit, NewFits, SameStatement
  <2>4. HeaderHasTable(h.stat[s]) BY <2>1, <2>2 DEF HeaderHasTable, SameStatement
  <2>5. ASSUME NEW field \in ArmLinks, h.stat[s][field] # NULL
        PROVE  /\ h.stat[h.stat[s][field]].statementType \in ArmTypes(field)
               /\ h.stat[h.stat[s][field]].localSymbolTable # NULL
    <3>1. h.stat[s][field] = IF s = a /\ field = edge THEN n ELSE g.stat[s][field]
      BY <1>1, <1>3
    <3>2. CASE s = a /\ field = edge
      <4>1. type \in ArmTypes(field) BY <3>2 DEF NewFits
      <4>2. h.stat[n].localSymbolTable # NULL BY <1>3, <3>2 DEF n
      <4> QED BY <1>1, <3>1, <3>2, <4>1, <4>2
    <3>3. CASE ~ (s = a /\ field = edge)
      <4> DEFINE t == g.stat[s][field]
      <4>1. h.stat[s][field] = t BY <3>1, <3>3
      <4>2. t # NULL BY <2>5, <4>1
      <4>3. t \in Statements(g) BY <1>3, <1>4, <4>2
      <4>4. g.stat[t].statementType \in ArmTypes(field) /\ g.stat[t].localSymbolTable # NULL
        BY <2>1, <4>2 DEF ArmStarts
      <4>5. SameStatement(g, h, t) BY <1>1, <4>3
      <4> HIDE DEF t
      <4> QED BY <4>1, <4>4, <4>5 DEF SameStatement
    <3> QED BY <3>2, <3>3
  <2> QED BY <2>3, <2>4, <2>5 DEF ArmStarts
<1>6. ArmsFit(h.stat[n]) /\ ArmStarts(h, n) /\ HeaderHasTable(h.stat[n])
  <2>1. ArmsFit(h.stat[n]) BY <1>1 DEF ArmsFit, Edges
  <2>2. ArmStarts(h, n) BY <1>1, <1>3 DEF ArmStarts
  <2>3. HeaderHasTable(h.stat[n]) BY <1>1 DEF HeaderHasTable, n
  <2> QED BY <2>1, <2>2, <2>3
<1> QED BY <1>1, <1>5, <1>6 DEF ShapeOK

LEMMA SameShapeOK ==
  ASSUME NEW g, NEW tables, GraphInv(g, tables), ShapeOK(g), NEW h, SameOwners(g, h)
  PROVE  ShapeOK(h) /\ (AllHaveTables(g) => AllHaveTables(h))
<1>1. /\ \A s \in Statements(g) : SameStatement(g, h, s)
      /\ \A s \in Statements(g) : \A field \in Edges : h.stat[s][field] = g.stat[s][field]
      /\ Statements(h) = Statements(g)
  BY DEF SameOwners, Statements
<1>2. ArmLinks \subseteq Edges BY DEF ArmLinks, Edges
<1>3. \A s \in Statements(g) : \A field \in Edges :
        g.stat[s][field] # NULL => g.stat[s][field] \in Statements(g)
  BY DEF GraphInv, PointersOK, PointersIn
<1>4. ASSUME NEW s \in Statements(g)
      PROVE  ArmsFit(h.stat[s]) /\ ArmStarts(h, s) /\ HeaderHasTable(h.stat[s])
  <2>1. ArmsFit(g.stat[s]) /\ ArmStarts(g, s) /\ HeaderHasTable(g.stat[s]) BY DEF ShapeOK
  <2>2. SameStatement(g, h, s) BY <1>1
  <2>3. ArmsFit(h.stat[s])
    <3>1. /\ h.stat[s].thenStatement = g.stat[s].thenStatement
          /\ h.stat[s].elseStatement = g.stat[s].elseStatement
          /\ h.stat[s].bodyStatement = g.stat[s].bodyStatement
      BY <1>1 DEF Edges
    <3> QED BY <2>1, <2>2, <3>1 DEF ArmsFit, SameStatement
  <2>4. HeaderHasTable(h.stat[s]) BY <2>1, <2>2 DEF HeaderHasTable, SameStatement
  <2>5. ASSUME NEW field \in ArmLinks, h.stat[s][field] # NULL
        PROVE  /\ h.stat[h.stat[s][field]].statementType \in ArmTypes(field)
               /\ h.stat[h.stat[s][field]].localSymbolTable # NULL
    <3> DEFINE t == g.stat[s][field]
    <3>1. h.stat[s][field] = t /\ t # NULL BY <1>1, <1>2, <2>5
    <3>2. SameStatement(g, h, t) BY <1>1, <1>2, <1>3, <3>1
    <3>3. g.stat[t].statementType \in ArmTypes(field) /\ g.stat[t].localSymbolTable # NULL
      BY <2>1, <3>1 DEF ArmStarts
    <3> HIDE DEF t
    <3> QED BY <3>1, <3>2, <3>3 DEF SameStatement
  <2> QED BY <2>3, <2>4, <2>5 DEF ArmStarts
<1>5. AllHaveTables(g) => AllHaveTables(h) BY <1>1 DEF AllHaveTables, SameStatement
<1> QED BY <1>1, <1>4, <1>5 DEF ShapeOK

(* What becomes of the calls: an old one, or one at a place where nothing  *)
(* is asked of the statement it reads.                                     *)
CallsGoOn(g, cs, cs2) ==
  \A i \in 1 .. Len(cs2) :
    \/ i \in 1 .. Len(cs) /\ cs2[i] = cs[i]
    \/ cs2[i].at \notin {"then", "else_", "func"}
    \/ cs2[i].at \in {"then", "else_"} /\ g.stat[cs2[i].owner].thenStatement # NULL

LEMMA CallsAfter ==
  ASSUME NEW cs \in Seq(CallRecords), NEW g
  PROVE  /\ CallsGoOn(g, cs, cs)
         /\ cs # << >> => CallsGoOn(g, cs, Pop(cs))
         /\ \A c \in CallRecords :
              \/ c.at \notin {"then", "else_", "func"}
              \/ c.at \in {"then", "else_"} /\ g.stat[c.owner].thenStatement # NULL
              => /\ CallsGoOn(g, cs, Append(cs, c))
                 /\ cs # << >> => CallsGoOn(g, cs, Append(Pop(cs), c))
<1>1. CallsGoOn(g, cs, cs) BY DEF CallsGoOn
<1>2. ASSUME cs # << >>
      PROVE  /\ Pop(cs) \in Seq(CallRecords) /\ Len(Pop(cs)) = Len(cs) - 1
             /\ \A i \in 1 .. Len(cs) - 1 : i \in 1 .. Len(cs) /\ Pop(cs)[i] = cs[i]
  BY <1>2, PopCalls
<1>3. cs # << >> => CallsGoOn(g, cs, Pop(cs)) BY <1>2 DEF CallsGoOn
<1>4. ASSUME NEW c \in CallRecords,
             \/ c.at \notin {"then", "else_", "func"}
             \/ c.at \in {"then", "else_"} /\ g.stat[c.owner].thenStatement # NULL,
             NEW ds \in Seq(CallRecords), \A i \in 1 .. Len(ds) : i \in 1 .. Len(cs) /\ ds[i] = cs[i]
      PROVE  CallsGoOn(g, cs, Append(ds, c))
  <2> DEFINE es == Append(ds, c)
  <2>1. /\ Len(es) = Len(ds) + 1 /\ es[Len(ds) + 1] = c /\ Len(ds) \in Nat
        /\ \A i \in 1 .. Len(ds) : es[i] = ds[i]
    OBVIOUS
  <2> HIDE DEF es
  <2>2. \A i \in 1 .. Len(es) : i \in 1 .. Len(ds) \/ i = Len(ds) + 1 BY <2>1
  <2>3. CallsGoOn(g, cs, es) BY <1>4, <2>1, <2>2 DEF CallsGoOn
  <2> QED BY <2>3 DEF es
<1>5. \A i \in 1 .. Len(cs) : i \in 1 .. Len(cs) /\ cs[i] = cs[i] OBVIOUS
<1>6. cs # << >> => \A i \in 1 .. Len(Pop(cs)) : i \in 1 .. Len(cs) /\ Pop(cs)[i] = cs[i]
  BY <1>2
<1> QED BY <1>1, <1>2, <1>3, <1>4, <1>5, <1>6

LEMMA CallsAreFit ==
  ASSUME IInv, BInv, Reading, calls # << >>, FinalStep(graph, graph'),
         Len(graph'.funcs) = Len(graph.funcs), graph'.activeFunc = graph.activeFunc,
         calls' \in Seq(CallRecords), CallsGoOn(graph', calls, calls')
  PROVE  FunctionHasTable(graph', calls') /\ ThensRead(graph', calls')
<1> DEFINE h == graph'
           cs == calls'
<1>1. /\ ParserInv(graph, calls) /\ GraphInv(graph, allocated) /\ graph.activeFunc # NULL
      /\ calls \in Seq(CallRecords)
      /\ FunctionHasTable(graph, calls) /\ ThensRead(graph, calls)
  BY DEF IInv, BInv, Reading, ParserInv, InnermostCall, CallsOK
<1>2. graph.activeFunc \in 1 .. Len(graph.funcs) BY <1>1 DEF GraphInv, GraphOK
<1>3. CallsGoOn(h, calls, cs) /\ FinalStep(graph, h) /\ Len(cs) \in Nat /\ cs \in Seq(CallRecords)
      /\ h.activeFunc = graph.activeFunc
  OBVIOUS
<1> HIDE DEF h, cs
<1>4. FunctionHasTable(h, cs)
  <2> SUFFICES ASSUME cs # << >>, cs[1].at = "func" PROVE h.funcs[h.activeFunc].symbolTable # NULL
    BY DEF FunctionHasTable
  <2>1. 1 \in 1 .. Len(cs) BY <1>3
  <2>2. cs[1] = calls[1] BY <1>3, <2>1 DEF CallsGoOn
  <2>3. graph.funcs[graph.activeFunc].symbolTable # NULL BY <1>1, <2>2 DEF FunctionHasTable
  <2>4. h.funcs[graph.activeFunc].symbolTable = graph.funcs[graph.activeFunc].symbolTable
    BY <1>2, <1>3, <2>3 DEF FinalStep
  <2> QED BY <1>3, <2>3, <2>4
<1>5. ASSUME NEW i \in 1 .. Len(cs), cs[i].at \in {"then", "else_"}
      PROVE  h.stat[cs[i].owner].thenStatement # NULL
  <2> SUFFICES ASSUME i \in 1 .. Len(calls), cs[i] = calls[i]
               PROVE  h.stat[cs[i].owner].thenStatement # NULL
    BY <1>3, <1>5 DEF CallsGoOn
  <2>1. graph.stat[calls[i].owner].thenStatement # NULL BY <1>1, <1>5 DEF ThensRead
  <2>2. i # 1
    <3>1. 1 \in 1 .. Len(calls) BY <1>1
    <3> QED BY <1>1, <1>5, <3>1 DEF ParserInv, Nested
  <2>3. i \in 2 .. Len(calls) BY <1>1, <2>2
  <2>4. Open(graph, calls[i], BelowIn(graph, calls, i)) BY <1>1, <2>3 DEF ParserInv, AllOpen
  <2>5. calls[i].owner \in Statements(graph) BY <2>4 DEF Open
  <2>6. h.stat[calls[i].owner].thenStatement = graph.stat[calls[i].owner].thenStatement
    <3>1. "thenStatement" \in Edges BY DEF Edges
    <3>2. \A s \in Statements(graph) : \A field \in Edges :
            graph.stat[s][field] # NULL => h.stat[s][field] = graph.stat[s][field]
      BY <1>3 DEF FinalStep
    <3> QED BY <2>1, <2>5, <3>1, <3>2
  <2> QED BY <2>1, <2>6
<1> QED BY <1>4, <1>5 DEF ThensRead, h, cs

(* Where a statement can be added, the table it inherits is there.         *)
LEMMA InheritsATable ==
  ASSUME IInv, BInv, Reading, calls # << >>, Top(calls).at # "func_name"
  PROVE  InheritedSymtable(graph) # NULL
<1>1. /\ ParserInv(graph, calls) /\ GraphInv(graph, allocated) /\ graph.activeFunc # NULL
      /\ calls \in Seq(CallRecords) /\ GraphOK(graph, FuncNames)
      /\ FunctionHasTable(graph, calls) /\ AllHaveTables(graph)
  BY DEF IInv, BInv, Reading, ParserInv, InnermostCall, CallsOK, GraphInv
<1>2. calls[1].at = "func"
  <2>1. 1 \in 1 .. Len(calls) /\ Len(calls) \in Nat BY <1>1
  <2>2. calls[1].at \in {"func_name", "func"} BY <1>1, <2>1 DEF ParserInv, Nested
  <2>3. CASE Len(calls) = 1 BY <2>2, <2>3 DEF Top
  <2>4. CASE Len(calls) # 1
    <3> DEFINE n == Len(calls)
    <3>0. n \in Nat /\ 1 \in 1 .. n /\ n # 1 BY <2>1, <2>4
    <3> HIDE DEF n
    <3>1. 1 < n BY <3>0
    <3>2. calls[1].at \in Arms \union {"func"} BY <1>1, <2>1, <3>1 DEF ParserInv, Nested, n
    <3> QED BY <2>2, <3>2 DEF Arms
  <2> QED BY <2>3, <2>4
<1>3. graph.funcs[graph.activeFunc].symbolTable # NULL BY <1>1, <1>2 DEF FunctionHasTable
<1>4. \/ InheritedSymtable(graph) = graph.funcs[graph.activeFunc].symbolTable
      \/ \E s \in Statements(graph) : InheritedSymtable(graph) = graph.stat[s].localSymbolTable
  BY <1>1, InheritedIsThere
<1> QED BY <1>1, <1>3, <1>4 DEF AllHaveTables

LEMMA GrownBInv ==
  ASSUME IInv, BInv, Reading, calls # << >>, FinalStep(graph, graph'),
         NEW edge \in Edges, NEW type,
         edge # "followingStatement" => graph.activeStat # NULL /\ type # "CF_FOR",
         Grows(graph, graph', edge, type, FuncNames), EdgeIsFree(graph, edge),
         NewFits(graph, edge, type), graph'.stat[NewId(graph)].localSymbolTable # NULL,
         calls' \in Seq(CallRecords), CallsGoOn(graph', calls, calls')
  PROVE  BInv'
<1> DEFINE h == graph'
<1>1. AddsStatement(graph, allocated, h, edge, type) BY DEF AddsStatement, IInv
<1>2. Len(h.funcs) = Len(graph.funcs) /\ h.activeFunc = graph.activeFunc
  BY DEF Grows, FunctionsKept
<1>3. FunctionHasTable(h, calls') /\ ThensRead(h, calls') BY <1>2, CallsAreFit
<1>4. ShapeOK(graph) /\ AllHaveTables(graph) BY DEF BInv, Reading
<1>5. h.stat[NewId(graph)].localSymbolTable # NULL OBVIOUS
<1> HIDE DEF h
<1>6. ShapeOK(h) BY <1>1, <1>4, <1>5, GrownShape
<1>7. AllHaveTables(h)
  <2>1. /\ \A s \in Statements(graph) : SameStatement(graph, h, s)
        /\ Statements(h) = Statements(graph) \union {NewId(graph)}
    BY <1>1, GrownStatements
  <2> QED BY <1>4, <1>5, <2>1 DEF AllHaveTables, SameStatement
<1> QED BY <1>3, <1>6, <1>7 DEF BInv, h

(* A step of the parser, with what is known to hold after it. *)
StepFrom == IInv /\ BInv /\ IInv' /\ FinalStep(graph, graph')

LEMMA StepParts ==
  ASSUME StepFrom
  PROVE  /\ IInv /\ BInv /\ FinalStep(graph, graph') /\ GraphInv(graph, allocated)
         /\ calls \in Seq(CallRecords) /\ calls' \in Seq(CallRecords)
         /\ ArmLinks \subseteq Edges /\ allocated \in Nat
BY DEF StepFrom, IInv, CallsOK, ArmLinks, Edges, GraphInv

(* A statement that follows, with a call that is entered or not. *)
LEMMA FollowBInv ==
  ASSUME StepFrom, Reading, calls # << >>, NEW type,
         Grows(graph, graph', "followingStatement", type, FuncNames),
         graph'.stat[NewId(graph)].localSymbolTable # NULL,
         CallsGoOn(graph', calls, calls')
  PROVE  BInv'
<1>1. IInv /\ BInv /\ FinalStep(graph, graph') /\ calls' \in Seq(CallRecords) BY StepParts
<1>2. EdgeIsFree(graph, "followingStatement") /\ "followingStatement" \in Edges
  BY <1>1, FollowingIsFree
<1>3. NewFits(graph, "followingStatement", type) BY DEF NewFits, ArmLinks
<1> QED BY <1>1, <1>2, <1>3, GrownBInv

LEMMA ExpressionShape ==
  ASSUME StepFrom, Expression
  PROVE  BInv'
<1>1. /\ calls \in Seq(CallRecords) /\ calls # << >> /\ Reading
      /\ Top(calls).at \in Arms \union {"func", "id_next"}
      /\ Grows(graph, graph', "followingStatement", "CF_BASIC", FuncNames)
      /\ graph'.stat[NewId(graph)].localSymbolTable = InheritedSymtable(graph)
  BY StepParts, ExpressionGrows
<1>2. InheritedSymtable(graph) # NULL BY <1>1, InheritsATable, StepParts DEF Arms
<1>3. CallsGoOn(graph', calls, calls')
  BY <1>1, CallsAfter DEF Expression, Return
<1> QED BY <1>1, <1>2, <1>3, FollowBInv

LEMMA EntersShape ==
  ASSUME StepFrom, Reading, InBody, NEW type, NEW at \in {"return", "if_cond", "for_header"},
         Grows(graph, graph', "followingStatement", type, FuncNames),
         graph'.stat[NewId(graph)].localSymbolTable = InheritedSymtable(graph)
           \/ graph'.stat[NewId(graph)].localSymbolTable # NULL,
         Enter(at, Len(graph.stat) + 1)
  PROVE  BInv'
<1>1. /\ calls \in Seq(CallRecords) /\ calls # << >>
      /\ Top(calls).at \in Arms \union {"func"} /\ Len(graph.stat) \in Nat
  <2>1. At(Top(calls).at) /\ Top(calls).at \in Arms \union {"func"} BY InBodyCall, StepParts
  <2>2. Len(graph.stat) \in Nat BY StepParts, GraphParts DEF GraphInv
  <2> QED BY <2>1, <2>2, StepParts DEF At
<1>2. InheritedSymtable(graph) # NULL BY <1>1, InheritsATable, StepParts DEF Arms
<1> DEFINE c == Call(at, Len(graph.stat) + 1)
<1>3. c \in CallRecords /\ c.at = at BY <1>1 DEF Call, CallRecords, Places
<1>4. calls' = Append(calls, c) BY DEF Enter
<1> HIDE DEF c
<1>5. c.at \notin {"then", "else_", "func"} BY <1>3
<1>6. CallsGoOn(graph', calls, calls') BY <1>1, <1>3, <1>4, <1>5, CallsAfter
<1> QED BY <1>1, <1>2, <1>6, FollowBInv

LEMMA ReturnKeywordShape ==
  ASSUME StepFrom, ReturnKeyword
  PROVE  BInv'
BY ReturnKeywordGrows, StepParts, EntersShape DEF ReturnKeyword

LEMMA IfShape ==
  ASSUME StepFrom, If
  PROVE  BInv'
BY IfGrows, StepParts, EntersShape DEF If

LEMMA ForShape ==
  ASSUME StepFrom, For
  PROVE  BInv'
<1>1. /\ Grows(graph, graph', "followingStatement", "CF_FOR", FuncNames)
      /\ graph'.stat[NewId(graph)].localSymbolTable = allocated'
      /\ allocated' = allocated + 1 /\ allocated \in Nat
  BY ForGrows, StepParts
<1>2. graph'.stat[NewId(graph)].localSymbolTable # NULL BY <1>1 DEF NULL
<1> QED BY <1>1, <1>2, EntersShape DEF For

(* A block that is opened. *)
LEMMA BlockShape ==
  ASSUME StepFrom, Reading, NEW at \in {"if_cond", "for_header", "else_"}, At(at),
         NEW to \in {"then", "for", "else"}, MoveTo(to),
         NEW edge \in ArmLinks, NewFits(graph, edge, "CF_BASIC"),
         Grows(graph, graph', edge, "CF_BASIC", FuncNames), EdgeIsFree(graph, edge),
         graph'.stat[NewId(graph)].localSymbolTable = allocated', allocated' = allocated + 1,
         to = "then" => edge = "thenStatement"
  PROVE  BInv'
<1> DEFINE a == graph.activeStat
           c == Call(to, Top(calls).owner)
<1>1. /\ calls \in Seq(CallRecords) /\ calls # << >> /\ a # NULL /\ a = Top(calls).owner
      /\ a \in Statements(graph) /\ Top(calls).owner \in 1 .. MaxSize
  BY AtHeader, StepParts DEF Headers
<1>2. graph'.stat[NewId(graph)].localSymbolTable # NULL BY StepParts DEF NULL
<1>3. c \in CallRecords /\ c.at = to /\ c.owner = a
  <2>1. Top(calls).owner \in Nat BY <1>1, BoundAssumption
  <2> QED BY <1>1, <2>1 DEF Call, CallRecords, Places
<1>4. calls' = Append(Pop(calls), c) BY DEF MoveTo
<1>5. to = "then" => graph'.stat[a].thenStatement # NULL
  <2>1. GainsEdge(graph.stat[a], graph'.stat[a], edge, NewId(graph))
    BY <1>1 DEF Grows, StatementsGrow
  <2>2. NewId(graph) # NULL
    <3>1. Len(graph.stat) \in Nat BY StepParts, GraphParts DEF GraphInv
    <3> QED BY <3>1 DEF NewId, NULL
  <2> QED BY <2>1, <2>2 DEF GainsEdge
<1> HIDE DEF c, a
<1>6. CallsGoOn(graph', calls, calls')
  <2>1. \/ c.at \notin {"then", "else_", "func"}
        \/ c.at \in {"then", "else_"} /\ graph'.stat[c.owner].thenStatement # NULL
    BY <1>3, <1>5
  <2> QED BY <1>1, <1>3, <1>4, <2>1, CallsAfter
<1>7. edge \in Edges /\ a # NULL /\ "CF_BASIC" # "CF_FOR" BY <1>1, StepParts
<1> QED BY <1>1, <1>2, <1>6, <1>7, GrownBInv, StepParts DEF a

LEMMA ThenShape ==
  ASSUME StepFrom, Then
  PROVE  BInv'
<1>1. /\ Reading /\ At("if_cond") /\ graph.activeStat # NULL
      /\ OwnerState("if_cond", graph.stat[graph.activeStat])
      /\ Grows(graph, graph', "thenStatement", "CF_BASIC", FuncNames)
      /\ graph'.stat[NewId(graph)].localSymbolTable = allocated'
      /\ allocated' = allocated + 1
  BY ThenGrows, StepParts
<1>2. /\ NewFits(graph, "thenStatement", "CF_BASIC") /\ EdgeIsFree(graph, "thenStatement")
      /\ "thenStatement" \in ArmLinks
  BY <1>1 DEF NewFits, OwnerState, EdgeIsFree, ArmTypes, ArmLinks
<1>3. MoveTo("then") BY DEF Then
<1> QED BY <1>1, <1>2, <1>3, BlockShape

LEMMA ForBodyShape ==
  ASSUME StepFrom, ForBody
  PROVE  BInv'
<1>1. /\ Reading /\ At("for_header") /\ graph.activeStat # NULL
      /\ OwnerState("for_header", graph.stat[graph.activeStat])
      /\ Grows(graph, graph', "bodyStatement", "CF_BASIC", FuncNames)
      /\ graph'.stat[NewId(graph)].localSymbolTable = allocated'
      /\ allocated' = allocated + 1
  BY ForBlockGrows, StepParts
<1>2. /\ NewFits(graph, "bodyStatement", "CF_BASIC") /\ EdgeIsFree(graph, "bodyStatement")
      /\ "bodyStatement" \in ArmLinks
  BY <1>1 DEF NewFits, OwnerState, EdgeIsFree, ArmTypes, ArmLinks
<1>3. MoveTo("for") BY DEF ForBody
<1> QED BY <1>1, <1>2, <1>3, BlockShape

(* Before an else the then branch has been read. *)
LEMMA ElseFits ==
  ASSUME StepFrom, Reading, At("else_"), NEW type \in {"CF_BASIC", "CF_IF"}
  PROVE  NewFits(graph, "elseStatement", type)
<1>1. /\ calls \in Seq(CallRecords) /\ calls # << >> /\ graph.activeStat = Top(calls).owner
      /\ Top(calls).at = "else_" /\ OwnerState("else_", graph.stat[graph.activeStat])
  BY AtHeader, StepParts DEF Headers
<1>2. Len(calls) \in 1 .. Len(calls) /\ Top(calls) = calls[Len(calls)] BY <1>1 DEF Top
<1>3. ThensRead(graph, calls) BY StepParts DEF BInv, Reading
<1>4. graph.stat[graph.activeStat].thenStatement # NULL BY <1>1, <1>2, <1>3 DEF ThensRead
<1> QED BY <1>1, <1>4 DEF NewFits, OwnerState, ArmTypes

LEMMA ElseShape ==
  ASSUME StepFrom, Else
  PROVE  BInv'
<1>1. /\ Reading /\ At("else_")
      /\ Grows(graph, graph', "elseStatement", "CF_BASIC", FuncNames)
      /\ EdgeIsFree(graph, "elseStatement")
      /\ graph'.stat[NewId(graph)].localSymbolTable = allocated'
      /\ allocated' = allocated + 1
  BY ElseGrows, StepParts
<1>2. NewFits(graph, "elseStatement", "CF_BASIC") BY <1>1, ElseFits
<1>3. "elseStatement" \in ArmLinks /\ MoveTo("else") BY DEF ArmLinks, Else
<1> QED BY <1>1, <1>2, <1>3, BlockShape

LEMMA ElseIfShape ==
  ASSUME StepFrom, ElseIf
  PROVE  BInv'
<1> DEFINE n == NewId(graph)
           c == Call("elif", Top(calls).owner)
           d == Call("if_cond", n)
<1>1. /\ Reading /\ At("else_") /\ "CF_IF" \in StatementTypes /\ "elseStatement" \in ArmLinks
      /\ "else_" \in Headers
  BY DEF ElseIf, StatementTypes, ArmLinks, Headers
<1>2. /\ Grows(graph, graph', "elseStatement", "CF_IF", FuncNames)
      /\ graph'.stat[n].localSymbolTable = InheritedSymtable(graph)
      /\ EdgeIsFree(graph, "elseStatement")
  BY <1>1, ElseStep, StepParts DEF ElseIf
<1>3. /\ calls # << >> /\ Top(calls).at = "else_" /\ graph.activeStat # NULL
      /\ calls \in Seq(CallRecords) /\ Top(calls).owner \in 1 .. MaxSize
  BY <1>1, AtHeader, StepParts
<1>4. InheritedSymtable(graph) # NULL BY <1>1, <1>3, InheritsATable, StepParts
<1>5. NewFits(graph, "elseStatement", "CF_IF") BY <1>1, ElseFits
<1>6. /\ c \in CallRecords /\ c.at = "elif" /\ d \in CallRecords /\ d.at = "if_cond"
      /\ calls' = Pop(calls) \o <<c, d>>
  <2>1. Top(calls).owner \in Nat BY <1>3, BoundAssumption
  <2>2. n \in Nat /\ n = Len(graph.stat) + 1
    <3>1. Len(graph.stat) \in Nat BY StepParts, GraphParts DEF GraphInv
    <3> QED BY <3>1 DEF NewId
  <2>3. calls' = Pop(calls) \o <<c, d>> BY <2>2 DEF ElseIf
  <2> QED BY <2>1, <2>2, <2>3 DEF Call, CallRecords, Places
<1> HIDE DEF c, d, n
<1>7. Pop(calls) \in Seq(CallRecords) /\ calls' = Append(Append(Pop(calls), c), d)
  <2>1. Pop(calls) \in Seq(CallRecords) BY <1>3, PopCalls
  <2> QED BY <1>6, <2>1
<1>8. CallsGoOn(graph', calls, calls')
  <2> DEFINE ds == Append(Pop(calls), c)
             g2 == graph'
  <2>0. c.at \notin {"then", "else_", "func"} BY <1>6
  <2>1. ds \in Seq(CallRecords) /\ CallsGoOn(g2, calls, ds)
    <3>1. ds \in Seq(CallRecords) BY <1>6, <1>7
    <3> HIDE DEF g2
    <3>2. CallsGoOn(g2, calls, Append(Pop(calls), c)) BY <1>3, <1>6, <2>0, CallsAfter
    <3> QED BY <3>1, <3>2
  <2>2. /\ Len(Append(ds, d)) = Len(ds) + 1 /\ Append(ds, d)[Len(ds) + 1] = d /\ Len(ds) \in Nat
        /\ \A i \in 1 .. Len(ds) : Append(ds, d)[i] = ds[i]
    BY <1>6, <2>1
  <2>3. calls' = Append(ds, d) BY <1>7
  <2> HIDE DEF ds, g2
  <2>4. \A i \in 1 .. Len(ds) + 1 : i \in 1 .. Len(ds) \/ i = Len(ds) + 1 BY <2>2
  <2>5. CallsGoOn(g2, calls, Append(ds, d)) BY <1>6, <2>1, <2>2, <2>4 DEF CallsGoOn
  <2> QED BY <2>3, <2>5 DEF g2
<1>9. "elseStatement" \in Edges /\ "CF_IF" # "CF_FOR" BY DEF Edges
<1> QED BY <1>1, <1>2, <1>3, <1>4, <1>5, <1>8, <1>9, GrownBInv, StepParts DEF n

(* The steps that add nothing. *)
LEMMA QuietBInv ==
  ASSUME StepFrom, Reading, calls # << >>, SameOwners(graph, graph'),
         graph'.activeFunc = graph.activeFunc, CallsGoOn(graph', calls, calls')
  PROVE  BInv'
<1> DEFINE h == graph'
<1>1. ShapeOK(graph) /\ AllHaveTables(graph) BY StepParts DEF BInv, Reading
<1>2. Len(h.funcs) = Len(graph.funcs) BY DEF SameOwners
<1>3. FunctionHasTable(h, calls') /\ ThensRead(h, calls') BY <1>2, CallsAreFit, StepParts
<1>4. SameOwners(graph, h) /\ GraphInv(graph, allocated) BY StepParts
<1> HIDE DEF h
<1>5. ShapeOK(h) /\ AllHaveTables(h) BY <1>1, <1>4, SameShapeOK
<1> QED BY <1>3, <1>5 DEF BInv, h

LEMMA SameGraphShape ==
  ASSUME StepFrom, Reading, calls # << >>, graph' = graph, CallsGoOn(graph, calls, calls')
  PROVE  BInv'
<1>1. SameOwners(graph, graph') BY DEF SameOwners, SameStatement
<1> QED BY <1>1, QuietBInv

LEMMA MovesOn ==
  ASSUME StepFrom, calls # << >>, NEW at \in {"id_next", "else_"}, MoveTo(at), NEW g,
         at = "else_" => g.stat[Top(calls).owner].thenStatement # NULL
  PROVE  CallsGoOn(g, calls, calls')
<1> DEFINE c == Call(at, Top(calls).owner)
<1>1. Top(calls).owner \in Nat
  <2>1. CallsOK(calls) BY StepParts DEF IInv
  <2> QED BY <2>1, PopCallsOK, BoundAssumption
<1>2. c \in CallRecords /\ c.at = at /\ c.owner = Top(calls).owner
  BY <1>1 DEF Call, CallRecords, Places
<1>3. calls' = Append(Pop(calls), c) BY DEF MoveTo
<1> HIDE DEF c
<1> QED BY <1>2, <1>3, CallsAfter, StepParts

LEMMA ReturnListShape ==
  ASSUME StepFrom, ReturnList
  PROVE  BInv'
<1> DEFINE h == graph'
<1>1. h = cf_use_ast_explicit(graph) BY DEF ReturnList
<1>2. Reading /\ At("return") /\ "return" \in Headers BY DEF ReturnList, Headers
<1>3. /\ GraphOK(graph, FuncNames) /\ graph.activeStat # NULL
      /\ calls # << >> /\ calls \in Seq(CallRecords)
  BY <1>2, AtHeader, StepParts
<1>4. SameButAst(graph, h, FuncNames) BY <1>1, <1>3, UseAstKeepsTheRest DEF GraphOK
<1> HIDE DEF h
<1>5. SameOwners(graph, h) /\ h.activeFunc = graph.activeFunc
  BY <1>4 DEF SameButAst, SameOwners, SameStatement, Statements, Edges
<1>6. CallsGoOn(h, calls, calls') BY <1>3, CallsAfter DEF ReturnList, Return
<1> QED BY <1>2, <1>3, <1>5, <1>6, QuietBInv DEF h

LEMMA ReturnNothingShape ==
  ASSUME StepFrom, ReturnNothing
  PROVE  BInv'
<1>1. Reading /\ calls # << >> /\ MoveTo("id_next") /\ graph' = graph
  BY DEF ReturnNothing, At
<1>2. CallsGoOn(graph, calls, calls') BY <1>1, MovesOn
<1> QED BY <1>1, <1>2, SameGraphShape

LEMMA CallEndsShape ==
  ASSUME StepFrom, Reading, calls # << >>, graph' = graph, Return
  PROVE  BInv'
<1>1. CallsGoOn(graph, calls, calls') BY CallsAfter, StepParts DEF Return
<1> QED BY <1>1, SameGraphShape

LEMMA ArmLeftShape ==
  ASSUME StepFrom, Reading, NEW at \in Arms, At(at),
         graph' = cf_pop_previous_branched_statement(graph),
         Return \/ (at = "then" /\ MoveTo("else_"))
  PROVE  BInv'
<1> DEFINE h == graph'
           n == Top(calls).owner
<1>1. /\ LeavesArm(graph, allocated, h, calls) /\ calls # << >> /\ calls \in Seq(CallRecords)
      /\ Top(calls).at = at
  BY AtArm, StepParts
<1> HIDE DEF h
<1>3. PopsTo(graph, h, n, FuncNames) BY <1>1, LeavingReturns
<1>4. SameOwners(graph, h) /\ h.activeFunc = graph.activeFunc
  BY <1>3 DEF PopsTo, SameOwners, SameStatement, Statements, Edges
<1>5. CallsGoOn(h, calls, calls')
  <2>1. CASE Return BY <1>1, <2>1, CallsAfter DEF Return
  <2>2. CASE at = "then" /\ MoveTo("else_")
    <3>1. ThensRead(graph, calls) BY StepParts DEF BInv, Reading
    <3>2. Len(calls) \in 1 .. Len(calls) /\ Top(calls) = calls[Len(calls)] BY <1>1 DEF Top
    <3>3. graph.stat[n].thenStatement # NULL BY <1>1, <2>2, <3>1, <3>2 DEF ThensRead
    <3>4. n \in Statements(graph) BY <1>1, LeavingReturns
    <3>5. h.stat[n].thenStatement = graph.stat[n].thenStatement
      BY <1>4, <3>4 DEF SameOwners, Edges
    <3> QED BY <1>1, <2>2, <3>3, <3>5, MovesOn
  <2> QED BY <2>1, <2>2
<1> QED BY <1>1, <1>4, <1>5, QuietBInv DEF h

LEMMA SameStats ==
  ASSUME NEW g, NEW h, h.stat = g.stat
  PROVE  (ShapeOK(g) => ShapeOK(h)) /\ (AllHaveTables(g) => AllHaveTables(h))
BY DEF ShapeOK, AllHaveTables, Statements, ArmStarts

LEMMA FuncNameShape ==
  ASSUME StepFrom, NEW name \in FuncNames, FuncName(name)
  PROVE  BInv'
<1> DEFINE h == graph'
           c == Call("func_name", Len(graph.funcs) + 1)
<1>1. /\ Reading /\ GraphInv(graph, allocated) /\ h = cf_make_function(graph, name)
      /\ calls = << >> /\ calls' = Append(calls, c) /\ result' = result
  BY StepParts DEF FuncName, Enter
<1>2. ~ (name = Main /\ graph.mainFunc # NULL)
  <2>1. graph.mainFunc \in 0 .. Len(graph.funcs) /\ Len(graph.funcs) \in Nat
    BY <1>1, GraphParts DEF GraphInv, PointersOK
  <2>2. MainIsMain(graph) BY <1>1 DEF GraphInv
  <2>3. \A f \in 1 .. Len(graph.funcs) : graph.funcs[f].name # name BY DEF FuncName
  <2> QED BY <2>1, <2>2, <2>3 DEF MainIsMain, NULL
<1>3. h.stat = graph.stat BY <1>1, <1>2, FunctionKeepsGraph
<1>4. c.at = "func_name" BY DEF Call
<1> HIDE DEF h, c
<1>5. calls' = <<c>> BY <1>1
<1>6. FunctionHasTable(h, calls') /\ ThensRead(h, calls')
  BY <1>4, <1>5 DEF FunctionHasTable, ThensRead
<1>7. ShapeOK(h) /\ AllHaveTables(h) BY <1>1, <1>3, SameStats, StepParts DEF BInv, Reading
<1> QED BY <1>6, <1>7 DEF BInv, h

LEMMA FuncBodyShape ==
  ASSUME StepFrom, FuncBody
  PROVE  BInv'
<1> DEFINE h == graph'
           f == graph.activeFunc
           c == Call("func", Top(calls).owner)
<1>1. /\ calls \in Seq(CallRecords) /\ calls # << >> /\ Top(calls).at = "func_name"
      /\ GraphInv(graph, allocated) /\ f # NULL /\ InnermostCall(graph, calls) /\ Nested(calls)
      /\ graph.cf_error = "CF_NO_ERROR"
  BY Innermost, StepParts DEF FuncBody
<1>2. graph.activeStat = NULL /\ graph.funcs[f].symbolTable = NULL BY <1>1 DEF InnermostCall
<1>3. h = cf_assign_function_symtable(graph, allocated + 1) BY DEF FuncBody
<1>4. /\ h.stat = graph.stat /\ h.activeFunc = f /\ h.funcs[f].symbolTable = allocated + 1
  BY <1>1, <1>2, <1>3, FunctionTableKeepsGraph
<1>5. Pop(calls) = << >> BY <1>1, FunctionIsAlone
<1>6. c.at = "func" /\ calls' = Append(Pop(calls), c) BY DEF Call, FuncBody, MoveTo
<1>7. allocated + 1 # NULL BY StepParts DEF NULL
<1> HIDE DEF h, c, f
<1>8. calls' = <<c>> BY <1>5, <1>6
<1>9. FunctionHasTable(h, calls') /\ ThensRead(h, calls')
  BY <1>4, <1>6, <1>7, <1>8 DEF FunctionHasTable, ThensRead
<1>10. ShapeOK(h) /\ AllHaveTables(h)
  BY <1>4, SameStats, StepParts DEF BInv, Reading, FuncBody
<1> QED BY <1>9, <1>10 DEF BInv, h

LEMMA RecoveredExpressionShape ==
  ASSUME StepFrom, RecoveredExpression
  PROVE  BInv'
<1>1. /\ graph' = cf_make_next_statement(graph, "CF_BASIC") /\ ~ semantic_enabled
      /\ ~ semantic_enabled' /\ GraphInv(graph, allocated) /\ ShapeOK(graph) /\ IInv
  BY StepParts DEF RecoveredExpression, semantic_enabled, BInv
<1>2. CASE graph.activeFunc = NULL
  <2>1. graph' = Raise(graph, "CF_ERROR_NO_ACTIVE_FUNCTION")
    BY <1>1, <1>2 DEF cf_make_next_statement
  <2>2. graph'.stat = graph.stat BY <1>1, <2>1 DEF Raise, GraphInv, GraphOK, Graphs
  <2> QED BY <1>1, <2>2, SameStats DEF BInv
<1>3. CASE graph.activeFunc # NULL
  <2>1. Grows(graph, graph', "followingStatement", "CF_BASIC", FuncNames)
    BY <1>1, <1>3, NextStep DEF StatementTypes
  <2>2. EdgeIsFree(graph, "followingStatement") /\ "followingStatement" \in Edges
    BY <1>1, FollowingIsFree
  <2>3. AddsStatement(graph, allocated, graph', "followingStatement", "CF_BASIC")
    BY <1>1, <2>1, <2>2 DEF AddsStatement
  <2>4. NewFits(graph, "followingStatement", "CF_BASIC") BY DEF NewFits, ArmLinks
  <2>5. ShapeOK(graph') BY <1>1, <2>3, <2>4, GrownShape
  <2> QED BY <1>1, <2>5 DEF BInv
<1> QED BY <1>2, <1>3

LEMMA InitShape == Init => BInv
<1> SUFFICES ASSUME Init PROVE BInv OBVIOUS
<1>1. graph = cf_init /\ calls = << >> BY DEF Init
<1>2. Statements(graph) = {} BY <1>1 DEF cf_init, Statements
<1>3. 1 .. Len(calls) = {} BY <1>1
<1> QED BY <1>1, <1>2, <1>3 DEF BInv, ShapeOK, AllHaveTables, FunctionHasTable, ThensRead

LEMMA NothingShapes ==
  ASSUME BInv, graph' = graph, calls' = calls, result' = result \/ ~ semantic_enabled'
  PROVE  BInv'
BY DEF BInv, semantic_enabled

LEMMA NextShape == IInv /\ BInv /\ [Next]_vars => BInv'
<1> SUFFICES ASSUME IInv, BInv, [Next]_vars PROVE BInv' OBVIOUS
<1>0. StepFrom BY NextOK DEF StepFrom, StepOK
<1>1. ASSUME NEW name \in FuncNames, FuncName(name) PROVE BInv' BY <1>0, <1>1, FuncNameShape
<1>2. CASE FuncBody BY <1>0, <1>2, FuncBodyShape
<1>3. CASE CloseFunc BY <1>0, <1>3, CallEndsShape DEF CloseFunc, At
<1>4. CASE Expression BY <1>0, <1>4, ExpressionShape
<1>5. CASE ReturnKeyword BY <1>0, <1>5, ReturnKeywordShape
<1>6. CASE ReturnList BY <1>0, <1>6, ReturnListShape
<1>7. CASE ReturnNothing BY <1>0, <1>7, ReturnNothingShape
<1>8. CASE If BY <1>0, <1>8, IfShape
<1>9. CASE Then BY <1>0, <1>9, ThenShape
<1>10. CASE CloseBranch
  <2>1. CASE At("then")
    <3>1. "then" \in Arms BY DEF Arms
    <3> QED BY <1>0, <1>10, <2>1, <3>1, ArmLeftShape DEF CloseBranch
  <2>2. CASE ~ At("then")
    <3>1. "else" \in Arms BY DEF Arms
    <3> QED BY <1>0, <1>10, <2>2, <3>1, ArmLeftShape DEF CloseBranch
  <2> QED BY <2>1, <2>2
<1>11. CASE NoElse BY <1>0, <1>11, CallEndsShape DEF NoElse, At
<1>12. CASE Else BY <1>0, <1>12, ElseShape
<1>13. CASE ElseIf BY <1>0, <1>13, ElseIfShape
<1>14. CASE ElseIfReturn
  <2>1. "elif" \in Arms BY DEF Arms
  <2> QED BY <1>0, <1>14, <2>1, ArmLeftShape DEF ElseIfReturn
<1>15. CASE For BY <1>0, <1>15, ForShape
<1>16. CASE ForBody BY <1>0, <1>16, ForBodyShape
<1>17. CASE CloseFor
  <2>1. "for" \in Arms BY DEF Arms
  <2> QED BY <1>0, <1>17, <2>1, ArmLeftShape DEF CloseFor
<1>18. CASE Fail BY <1>18, NothingShapes DEF Fail, semantic_enabled
<1>19. CASE RecoveredExpression BY <1>0, <1>19, RecoveredExpressionShape
<1>20. CASE EndOfFile BY <1>20, NothingShapes DEF EndOfFile
<1>21. CASE UNCHANGED vars BY <1>21, NothingShapes DEF vars
<1> QED
  BY <1>1, <1>2, <1>3, <1>4, <1>5, <1>6, <1>7, <1>8, <1>9, <1>10, <1>11, <1>12, <1>13, <1>14,
     <1>15, <1>16, <1>17, <1>18, <1>19, <1>20, <1>21 DEF Next

-----------------------------------------------------------------------------
(* What a statement leads to.                                              *)

(* It is reached from s if c is what is reached from the statements after. *)
ReachedWith(g, c, s) ==
  IF s = NULL THEN {}
  ELSE {s} \union c[g.stat[s].thenStatement] \union c[g.stat[s].elseStatement]
           \union c[g.stat[s].bodyStatement] \union c[g.stat[s].followingStatement]

Reach(g) == CHOOSE c : c = [s \in {NULL} \union Statements(g) |-> ReachedWith(g, c, s)]

ReachesFrom(g, low, c) == c = [s \in {NULL} \union low .. Len(g.stat) |-> ReachedWith(g, c, s)]

LEMMA ReachAgrees ==
  ASSUME NEW g, EdgesLeadOn(g), NEW s \in Statements(g), NEW c, NEW d,
         c[NULL] = d[NULL], \A t \in Statements(g) : s < t => c[t] = d[t]
  PROVE  ReachedWith(g, c, s) = ReachedWith(g, d, s)
<1>1. \A field \in Edges : c[g.stat[s][field]] = d[g.stat[s][field]] BY DEF EdgesLeadOn
<1>2. /\ c[g.stat[s].thenStatement] = d[g.stat[s].thenStatement]
      /\ c[g.stat[s].elseStatement] = d[g.stat[s].elseStatement]
      /\ c[g.stat[s].bodyStatement] = d[g.stat[s].bodyStatement]
      /\ c[g.stat[s].followingStatement] = d[g.stat[s].followingStatement]
  BY <1>1 DEF Edges
<1> QED BY <1>2 DEF ReachedWith

LEMMA ReachExists ==
  ASSUME NEW g, EdgesLeadOn(g)
  PROVE  \E c : ReachesFrom(g, 1, c)
<1> DEFINE N == Len(g.stat)
           Missing == {k \in 0 .. N : ~ \E c : ReachesFrom(g, N + 1 - k, c)}
<1>0. N \in Nat BY DEF EdgesLeadOn
<1>1. SUFFICES ASSUME Missing # {} PROVE FALSE
  <2>1. N \in 0 .. N /\ N + 1 - N = 1 BY <1>0
  <2> QED BY <2>1
<1>2. PICK k \in Missing : \A m \in Missing : k <= m
  <2>1. Missing \in SUBSET Nat OBVIOUS
  <2> QED BY <1>1, <2>1, LeastNumber
<1>3. k \in 0 .. N /\ ~ \E c : ReachesFrom(g, N + 1 - k, c) OBVIOUS
<1>4. CASE k = 0
  <2> DEFINE zero == [s \in {NULL} \union N + 1 .. N |-> {}]
  <2>1. N + 1 - k = N + 1 /\ N + 1 .. N = {} BY <1>0, <1>4
  <2>2. \A s \in {NULL} \union N + 1 .. N : ReachedWith(g, zero, s) = {}
    BY <2>1 DEF ReachedWith
  <2>3. ReachesFrom(g, N + 1, zero) BY <2>2 DEF ReachesFrom
  <2> QED BY <1>3, <2>1, <2>3
<1>5. CASE k # 0
  <2> DEFINE low == N + 1 - k
  <2>1. k - 1 \in 0 .. N /\ k - 1 \notin Missing /\ N + 1 - (k - 1) = low + 1 /\ low \in 1 .. N
    BY <1>0, <1>2, <1>3, <1>5
  <2>2. PICK c : ReachesFrom(g, low + 1, c) BY <2>1
  <2> DEFINE longer == [s \in {NULL} \union low .. N |->
                          IF s = low THEN ReachedWith(g, c, low) ELSE c[s]]
  <2>3. \A s \in {NULL} \union low + 1 .. N : c[s] = ReachedWith(g, c, s)
    BY <2>2 DEF ReachesFrom
  <2> HIDE DEF low, Missing
  <2>4. ASSUME NEW s \in {NULL} \union low .. N PROVE longer[s] = ReachedWith(g, longer, s)
    <3>1. longer[NULL] = c[NULL] BY <2>1 DEF NULL
    <3>2. \A t \in low + 1 .. N : longer[t] = c[t] BY <1>0, <2>1
    <3>3. longer[low] = ReachedWith(g, c, low) BY <2>1
    <3> HIDE DEF longer
    <3>4. CASE s = NULL
      <4>1. c[NULL] = {} BY <2>3 DEF ReachedWith
      <4> QED BY <3>1, <3>4, <4>1 DEF ReachedWith
    <3>5. CASE s # NULL
      <4>1. s \in Statements(g) /\ s \in low .. N BY <2>1, <3>5 DEF Statements
      <4>2. \A t \in Statements(g) : s < t => longer[t] = c[t]
        <5>1. \A t \in Statements(g) : s < t => t \in low + 1 .. N BY <1>0, <2>1, <4>1 DEF Statements
        <5> QED BY <3>2, <5>1
      <4>3. ReachedWith(g, longer, s) = ReachedWith(g, c, s)
        BY <3>1, <4>1, <4>2, ReachAgrees
      <4>4. s # low => s \in low + 1 .. N BY <1>0, <2>1, <4>1
      <4> QED BY <2>3, <3>2, <3>3, <4>3, <4>4
    <3> QED BY <3>4, <3>5
  <2>5. longer = [s \in {NULL} \union low .. N |-> longer[s]] OBVIOUS
  <2> HIDE DEF longer
  <2>6. longer = [s \in {NULL} \union low .. N |-> ReachedWith(g, longer, s)] BY <2>4, <2>5
  <2>7. ReachesFrom(g, low, longer) BY <2>6 DEF ReachesFrom
  <2> QED BY <1>3, <2>7 DEF low
<1> QED BY <1>4, <1>5

LEMMA ReachUnfolds ==
  ASSUME NEW g, EdgesLeadOn(g)
  PROVE  /\ Reach(g)[NULL] = {}
         /\ \A s \in Statements(g) : Reach(g)[s] = ReachedWith(g, Reach(g), s)
<1> DEFINE body(f) == [s \in {NULL} \union Statements(g) |-> ReachedWith(g, f, s)]
           d == Reach(g)
<1>1. PICK c : ReachesFrom(g, 1, c) BY ReachExists
<1>2. c = body(c) BY <1>1 DEF ReachesFrom, Statements
<1>3. d = CHOOSE f : f = body(f) BY DEF Reach
<1>4. d = body(d) BY <1>2, <1>3
<1> HIDE DEF d
<1>5. d[NULL] = ReachedWith(g, d, NULL) BY <1>4
<1>6. \A s \in Statements(g) : d[s] = ReachedWith(g, d, s) BY <1>4
<1> QED BY <1>5, <1>6 DEF ReachedWith, d

LEMMA ReachableIs ==
  Reachable = UNION {Reach(graph)[graph.funcs[f].rootStatement] : f \in 1 .. Len(graph.funcs)}
BY DEF Reachable, Reach, ReachedWith, Pointers

(* By its edges. *)
LEMMA ReachHas ==
  ASSUME NEW g, EdgesLeadOn(g), NEW s \in Statements(g), NEW x
  PROVE  x \in Reach(g)[s] <=> x = s \/ \E field \in Edges : x \in Reach(g)[g.stat[s][field]]
<1> DEFINE c == Reach(g)
<1>1. c[s] = ReachedWith(g, c, s) /\ s # NULL
  BY ReachUnfolds DEF Statements, NULL, EdgesLeadOn
<1> HIDE DEF c
<1>2. x \in c[s] <=> \/ x = s \/ x \in c[g.stat[s].thenStatement]
                     \/ x \in c[g.stat[s].elseStatement] \/ x \in c[g.stat[s].bodyStatement]
                     \/ x \in c[g.stat[s].followingStatement]
  BY <1>1 DEF ReachedWith
<1> QED BY <1>2 DEF Edges, c

(* What is reached from d, if it is reached at all, comes after d, is      *)
(* reached through a statement that is reached, and takes what it leads to *)
(* with it.                                                                *)
ReachedRight(g, D, d) ==
  /\ D \subseteq Statements(g) /\ d \in D
  /\ \A x \in D : d <= x
  /\ \A x \in D : \A field \in Edges : g.stat[x][field] # NULL => g.stat[x][field] \in D
  /\ \A x \in D : x # d => \E y \in D : \E field \in Edges : g.stat[y][field] = x

LEMMA ReachIsRight ==
  ASSUME NEW g, EdgesLeadOn(g)
  PROVE  \A d \in Statements(g) : ReachedRight(g, Reach(g)[d], d)
<1> DEFINE c == Reach(g)
           N == Len(g.stat)
           T == {d \in Statements(g) : ReachedRight(g, c[d], d)}
<1>0. N \in Nat /\ Statements(g) = 1 .. N BY DEF EdgesLeadOn, Statements
<1>1. \A s \in Statements(g) : \A x :
        x \in c[s] <=> x = s \/ \E field \in Edges : x \in c[g.stat[s][field]]
  BY ReachHas
<1>2. c[NULL] = {} BY ReachUnfolds
<1> HIDE DEF c
<1>3. ASSUME NEW s \in 1 .. N, \A t \in 1 .. N : s < t => t \in T PROVE s \in T
  <2>1. s \in Statements(g) BY <1>0
  <2>2. ASSUME NEW field \in Edges, g.stat[s][field] # NULL
        PROVE  /\ g.stat[s][field] \in Statements(g) /\ s < g.stat[s][field]
               /\ ReachedRight(g, c[g.stat[s][field]], g.stat[s][field])
    BY <1>0, <1>3, <2>1, <2>2 DEF EdgesLeadOn
  <2>3. ASSUME NEW x \in c[s], x # s
        PROVE  \E field \in Edges : g.stat[s][field] # NULL /\ x \in c[g.stat[s][field]]
    BY <1>1, <1>2, <2>1, <2>3
  <2>4. \A field \in Edges : c[g.stat[s][field]] \subseteq c[s] BY <1>1, <2>1
  <2>5. s \in c[s] BY <1>1, <2>1
  <2>6. ASSUME NEW x \in c[s]
        PROVE  /\ x \in Statements(g) /\ s <= x
               /\ \A field \in Edges : g.stat[x][field] # NULL => g.stat[x][field] \in c[s]
               /\ x # s => \E y \in c[s] : \E field \in Edges : g.stat[y][field] = x
    <3>1. CASE x = s
      <4>1. ASSUME NEW field \in Edges, g.stat[s][field] # NULL PROVE g.stat[s][field] \in c[s]
        BY <2>2, <2>4, <4>1 DEF ReachedRight
      <4>2. s <= s BY <1>0
      <4> QED BY <2>1, <3>1, <4>1, <4>2
    <3>2. CASE x # s
      <4>1. PICK edge \in Edges : g.stat[s][edge] # NULL /\ x \in c[g.stat[s][edge]]
        BY <2>3, <3>2
      <4> DEFINE t == g.stat[s][edge]
      <4>2. t \in Statements(g) /\ s < t /\ ReachedRight(g, c[t], t) /\ c[t] \subseteq c[s]
        BY <2>2, <2>4, <4>1
      <4>3. t = g.stat[s][edge] OBVIOUS
      <4> HIDE DEF t
      <4>4. x \in c[t] BY <4>1, <4>3
      <4>5. x \in Statements(g) /\ t <= x BY <4>2, <4>4 DEF ReachedRight
      <4>6. s <= x BY <1>0, <4>2, <4>5
      <4>7. \A field \in Edges : g.stat[x][field] # NULL => g.stat[x][field] \in c[s]
        BY <4>2, <4>4 DEF ReachedRight
      <4>8. \E y \in c[s] : \E field \in Edges : g.stat[y][field] = x
        <5>1. CASE x = t BY <2>5, <4>3, <5>1
        <5>2. CASE x # t BY <4>2, <4>4, <5>2 DEF ReachedRight
        <5> QED BY <5>1, <5>2
      <4> QED BY <4>5, <4>6, <4>7, <4>8
    <3> QED BY <3>1, <3>2
  <2>7. ReachedRight(g, c[s], s) BY <2>5, <2>6 DEF ReachedRight
  <2> QED BY <2>1, <2>7
<1>4. \A d \in 1 .. N : d \in T
  <2>1. N \in Nat BY <1>0
  <2> HIDE DEF T, N
  <2> QED BY <1>3, <2>1, FromTheEnd
<1> QED BY <1>0, <1>4 DEF c

-----------------------------------------------------------------------------
(* What clean_stat frees: the statements that are reached, and tables that *)
(* were made.                                                              *)

ObjectsOf(n, tables) == ({"stat"} \X (1 .. n)) \union ({"table"} \X (1 .. tables))

HasStat(q, x) == \E i \in DOMAIN q : q[i] = <<"stat", x>>

(* A clean-up that frees the statements of A. *)
Frees(q, n, tables, A) ==
  q \in Seq(ObjectsOf(n, tables)) /\ \A x : HasStat(q, x) <=> x \in A

LEMMA FreesNothing ==
  ASSUME NEW n, NEW tables
  PROVE  Frees(<< >>, n, tables, {})
BY DEF Frees, HasStat

LEMMA FreesTheTable ==
  ASSUME NEW n, NEW tables, NEW t \in 1 .. tables
  PROVE  Frees(TableOf(t), n, tables, {})
<1>1. <<"table", t>> \in ObjectsOf(n, tables) BY DEF ObjectsOf
<1>2. \A x : <<"table", t>> # <<"stat", x>> OBVIOUS
<1> DEFINE y == <<"table", t>>
<1> HIDE DEF y
<1>3. <<y>> \in Seq(ObjectsOf(n, tables)) /\ DOMAIN <<y>> = {1} /\ <<y>>[1] = y BY <1>1 DEF y
<1>4. \A x : ~ HasStat(<<y>>, x) BY <1>2, <1>3 DEF HasStat, y
<1> QED BY <1>3, <1>4 DEF Frees, TableOf, y

LEMMA FreesTheStatement ==
  ASSUME NEW n, NEW tables, NEW s \in 1 .. n
  PROVE  Frees(<< <<"stat", s>> >>, n, tables, {s})
<1>1. <<"stat", s>> \in ObjectsOf(n, tables) BY DEF ObjectsOf
<1>2. \A x : <<"stat", s>> = <<"stat", x>> <=> x = s OBVIOUS
<1> DEFINE y == <<"stat", s>>
<1> HIDE DEF y
<1>3. <<y>> \in Seq(ObjectsOf(n, tables)) /\ DOMAIN <<y>> = {1} /\ <<y>>[1] = y BY <1>1 DEF y
<1>4. \A x : HasStat(<<y>>, x) <=> x = s BY <1>2, <1>3 DEF HasStat, y
<1> QED BY <1>3, <1>4 DEF Frees, y

LEMMA FreesBoth ==
  ASSUME NEW n, NEW tables, NEW p, NEW q, NEW A, NEW B, Frees(p, n, tables, A), Frees(q, n, tables, B)
  PROVE  Frees(p \o q, n, tables, A \union B)
<1> DEFINE S == ObjectsOf(n, tables)
           r == p \o q
<1>1. p \in Seq(S) /\ q \in Seq(S) BY DEF Frees
<1> HIDE DEF S
<1>2. /\ r \in Seq(S) /\ Len(p) \in Nat /\ Len(q) \in Nat /\ Len(r) = Len(p) + Len(q)
      /\ DOMAIN p = 1 .. Len(p) /\ DOMAIN q = 1 .. Len(q) /\ DOMAIN r = 1 .. Len(r)
      /\ \A i \in 1 .. Len(p) : r[i] = p[i]
      /\ \A i \in 1 .. Len(q) : r[Len(p) + i] = q[i]
  BY <1>1
<1> HIDE DEF r
<1>3. ASSUME NEW x PROVE HasStat(r, x) <=> HasStat(p, x) \/ HasStat(q, x)
  <2> DEFINE y == <<"stat", x>>
             m == Len(p)
             k == Len(q)
  <2> HIDE DEF y
  <2>1. ASSUME NEW i \in DOMAIN r, r[i] = y PROVE HasStat(p, x) \/ HasStat(q, x)
    <3>1. i \in 1 .. m + k /\ m \in Nat /\ k \in Nat BY <1>2
    <3>2. CASE i \in 1 .. m BY <1>2, <2>1, <3>2 DEF HasStat, y
    <3>3. CASE i \notin 1 .. m
      <4>1. i - m \in 1 .. k /\ m + (i - m) = i
        <5> HIDE DEF m, k
        <5> QED BY <3>1, <3>3
      <4>2. q[i - m] = y BY <1>2, <2>1, <4>1
      <4> QED BY <1>2, <4>1, <4>2 DEF HasStat, y
    <3> QED BY <3>2, <3>3
  <2>2. ASSUME NEW i \in DOMAIN p, p[i] = y PROVE HasStat(r, x)
    <3>1. i \in 1 .. Len(r) /\ r[i] = y BY <1>2, <2>2
    <3> QED BY <1>2, <3>1 DEF HasStat, y
  <2>3. ASSUME NEW i \in DOMAIN q, q[i] = y PROVE HasStat(r, x)
    <3>1. m + i \in 1 .. Len(r) /\ r[m + i] = y BY <1>2, <2>3
    <3> QED BY <1>2, <3>1 DEF HasStat, y
  <2> QED BY <2>1, <2>2, <2>3 DEF HasStat, y
<1> QED BY <1>2, <1>3 DEF Frees, r, S

(* The tables of branches and headers were made. *)
TablesThere(g, tables) ==
  /\ \A s \in Statements(g) : g.stat[s].statementType = "CF_FOR" => g.stat[s].localSymbolTable \in 1 .. tables
  /\ \A s \in Statements(g) : \A field \in ArmLinks :
       g.stat[s][field] # NULL => g.stat[g.stat[s][field]].localSymbolTable \in 1 .. tables

LEMMA CleanFrees ==
  ASSUME NEW g, EdgesLeadOn(g), NEW tables, TablesThere(g, tables), NEW table
  PROVE  \A s \in {NULL} \union Statements(g) :
           Frees(clean_stat(g, table)[s], Len(g.stat), tables, Reach(g)[s])
<1> DEFINE c == clean_stat(g, table)
           R == Reach(g)
           N == Len(g.stat)
           OK(q, A) == Frees(q, N, tables, A)
           T == {s \in Statements(g) : OK(c[s], R[s])}
<1>0. N \in Nat /\ Statements(g) = 1 .. N BY DEF EdgesLeadOn, Statements
<1>1. c[NULL] = << >> /\ \A s \in Statements(g) : c[s] = FreedWith(g, table, c, s)
  BY CleanUnfolds
<1>2. R[NULL] = {} /\ \A s \in Statements(g) : R[s] = ReachedWith(g, R, s)
  BY ReachUnfolds
<1> HIDE DEF c, R
<1>3. OK(<< >>, {}) BY FreesNothing
<1>4. \A t \in 1 .. tables : OK(TableOf(t), {}) BY FreesTheTable
<1>5. \A s \in 1 .. N : OK(<< <<"stat", s>> >>, {s}) BY FreesTheStatement
<1>6. \A p, q, A, B : OK(p, A) /\ OK(q, B) => OK(p \o q, A \union B) BY FreesBoth
<1>7. ASSUME NEW s \in 1 .. N, \A t \in 1 .. N : s < t => t \in T PROVE s \in T
  <2> DEFINE st == g.stat[s]
             part(b, owned) == IF b = NULL THEN << >> ELSE BranchFreed(g, c, b, owned)
             header == IF st.statementType = "CF_FOR" THEN TableOf(st.localSymbolTable) ELSE << >>
  <2>1. s \in Statements(g) /\ s # NULL BY <1>0 DEF NULL
  <2>2. \A field \in Edges : OK(c[st[field]], R[st[field]])
    <3> TAKE field \in Edges
    <3>1. CASE st[field] = NULL BY <1>1, <1>2, <1>3, <3>1
    <3>2. CASE st[field] # NULL
      <4>1. st[field] \in 1 .. N /\ s < st[field] BY <1>0, <2>1, <3>2 DEF EdgesLeadOn
      <4> QED BY <1>7, <4>1
    <3> QED BY <3>1, <3>2
  <2>3. ASSUME NEW field \in ArmLinks, NEW owned \in BOOLEAN
        PROVE  OK(part(st[field], owned), R[st[field]])
    <3> DEFINE b == st[field]
               tail == IF owned THEN TableOf(g.stat[b].localSymbolTable) ELSE << >>
    <3>1. CASE b = NULL BY <1>2, <1>3, <3>1
    <3>2. CASE b # NULL
      <4>1. OK(c[b], R[b])
        <5>1. field \in Edges BY DEF ArmLinks, Edges
        <5> QED BY <2>2, <5>1
      <4>2. g.stat[b].localSymbolTable \in 1 .. tables BY <2>1, <3>2 DEF TablesThere
      <4>3. OK(tail, {}) BY <1>3, <1>4, <4>2
      <4>4. part(b, owned) = c[b] \o tail BY <3>2 DEF BranchFreed
      <4> HIDE DEF OK, tail, b, part
      <4>5. OK(c[b] \o tail, R[b] \union {}) BY <1>6, <4>1, <4>3
      <4>6. R[b] \union {} = R[b] OBVIOUS
      <4> QED BY <4>4, <4>5, <4>6 DEF b
    <3> QED BY <3>1, <3>2
  <2>4. OK(header, {})
    <3>1. st.statementType = "CF_FOR" => st.localSymbolTable \in 1 .. tables
      BY <2>1 DEF TablesThere
    <3> QED BY <1>3, <1>4, <3>1
  <2>5. OK(part(st.thenStatement, ThenOwnsTable(g, s, table)), R[st.thenStatement])
    BY <2>3 DEF ArmLinks, ThenOwnsTable
  <2>6. OK(part(st.elseStatement, ElseOwnsTable(g, s)), R[st.elseStatement])
    BY <2>3 DEF ArmLinks, ElseOwnsTable
  <2>7. OK(part(st.bodyStatement, TRUE), R[st.bodyStatement])
    BY <2>3 DEF ArmLinks
  <2>8. OK(c[st.followingStatement], R[st.followingStatement]) BY <2>2 DEF Edges
  <2>9. OK(<< <<"stat", s>> >>, {s}) BY <1>5
  <2>10. c[s] = part(st.thenStatement, ThenOwnsTable(g, s, table))
                  \o part(st.elseStatement, ElseOwnsTable(g, s))
                  \o part(st.bodyStatement, TRUE) \o header
                  \o c[st.followingStatement] \o << <<"stat", s>> >>
    BY <1>1, <2>1 DEF FreedWith
  <2>11. R[s] = {s} \union R[st.thenStatement] \union R[st.elseStatement]
                  \union R[st.bodyStatement] \union R[st.followingStatement]
    BY <1>2, <2>1 DEF ReachedWith
  <2> DEFINE p1 == part(st.thenStatement, ThenOwnsTable(g, s, table))
             p2 == part(st.elseStatement, ElseOwnsTable(g, s))
             p3 == part(st.bodyStatement, TRUE)
             p5 == c[st.followingStatement]
             p6 == << <<"stat", s>> >>
             A1 == R[st.thenStatement]
             A2 == R[st.elseStatement]
             A3 == R[st.bodyStatement]
             A5 == R[st.followingStatement]
  <2>12. /\ OK(p1, A1) /\ OK(p2, A2) /\ OK(p3, A3) /\ OK(header, {}) /\ OK(p5, A5) /\ OK(p6, {s})
         /\ c[s] = p1 \o p2 \o p3 \o header \o p5 \o p6
         /\ R[s] = {s} \union A1 \union A2 \union A3 \union A5
    BY <2>4, <2>5, <2>6, <2>7, <2>8, <2>9, <2>10, <2>11
  <2> HIDE DEF p1, p2, p3, p5, p6, A1, A2, A3, A5, header, OK
  <2>13. OK(p1 \o p2, A1 \union A2) BY <1>6, <2>12
  <2>14. OK(p1 \o p2 \o p3, A1 \union A2 \union A3) BY <1>6, <2>12, <2>13
  <2>15. OK(p1 \o p2 \o p3 \o header, A1 \union A2 \union A3 \union {}) BY <1>6, <2>12, <2>14
  <2>16. OK(p1 \o p2 \o p3 \o header \o p5, A1 \union A2 \union A3 \union {} \union A5)
    BY <1>6, <2>12, <2>15
  <2>17. OK(c[s], A1 \union A2 \union A3 \union {} \union A5 \union {s}) BY <1>6, <2>12, <2>16
  <2>18. A1 \union A2 \union A3 \union {} \union A5 \union {s} = R[s] BY <2>12
  <2>19. OK(c[s], R[s]) BY <2>17, <2>18
  <2> QED BY <2>1, <2>19
<1>8. \A s \in 1 .. N : s \in T
  <2>1. N \in Nat BY <1>0
  <2> HIDE DEF T, N
  <2> QED BY <1>7, <2>1, FromTheEnd
<1>9. \A s \in Statements(g) : OK(c[s], R[s]) BY <1>0, <1>8
<1>10. OK(c[NULL], R[NULL]) BY <1>1, <1>2, <1>3
<1> QED BY <1>9, <1>10 DEF c, R

(* Nothing is freed that the graph does not have.                          *)
LEMMA AllIsInTheGraph ==
  ASSUME NEW g, EdgesLeadOn(g), NEW tables, TablesThere(g, tables), Len(g.funcs) \in Nat,
         \A f \in 1 .. Len(g.funcs) :
           /\ g.funcs[f].rootStatement \in {NULL} \union Statements(g)
           /\ g.funcs[f].symbolTable # NULL => g.funcs[f].symbolTable \in 1 .. tables
  PROVE  cf_clean_all(g) \in Seq(ObjectsOf(Len(g.stat), tables))
<1> DEFINE n == Len(g.funcs)
           N == Len(g.stat)
           S == ObjectsOf(N, tables)
<1>1. PICK c : /\ c[0] = << >>
               /\ \A f \in 1 .. n : c[f] = FuncFreed(g, f) \o c[f - 1]
               /\ cf_clean_all(g) = c[n]
  BY AllUnfolds
<1>2. ASSUME NEW f \in 1 .. n PROVE FuncFreed(g, f) \in Seq(S)
  <2> DEFINE p == clean_stat(g, g.funcs[f].symbolTable)[g.funcs[f].rootStatement]
             q == IF g.funcs[f].symbolTable = NULL THEN << >> ELSE TableOf(g.funcs[f].symbolTable)
  <2>1. p \in Seq(S) BY CleanFrees DEF Frees
  <2>2. q \in Seq(S)
    <3>1. CASE g.funcs[f].symbolTable = NULL BY <3>1
    <3>2. CASE g.funcs[f].symbolTable # NULL
      <4>1. g.funcs[f].symbolTable \in 1 .. tables BY <3>2
      <4>2. TableOf(g.funcs[f].symbolTable) \in Seq(S) BY <4>1, FreesTheTable DEF Frees
      <4> QED BY <3>2, <4>2
    <3> QED BY <3>1, <3>2
  <2>3. FuncFreed(g, f) = p \o q BY DEF FuncFreed
  <2> HIDE DEF p, q, S
  <2> QED BY <2>1, <2>2, <2>3
<1> DEFINE Bad == {f \in 0 .. n : c[f] \notin Seq(S)}
<1>3. Bad = {}
  <2> SUFFICES ASSUME Bad # {} PROVE FALSE OBVIOUS
  <2>1. PICK f \in Bad : \A m \in Bad : f <= m
    <3>1. Bad \in SUBSET Nat OBVIOUS
    <3> QED BY <3>1, LeastNumber
  <2>2. f \in 0 .. n /\ c[f] \notin Seq(S) OBVIOUS
  <2>3. f # 0
    <3>1. << >> \in Seq(S) OBVIOUS
    <3> QED BY <1>1, <2>2, <3>1
  <2>4. f \in 1 .. n /\ f - 1 \in 0 .. n /\ ~ (f <= f - 1) BY <2>2, <2>3
  <2>5. c[f - 1] \in Seq(S) BY <2>1, <2>4
  <2>6. FuncFreed(g, f) \in Seq(S) /\ c[f] = FuncFreed(g, f) \o c[f - 1] BY <1>1, <1>2, <2>4
  <2> DEFINE p == FuncFreed(g, f)
             q == c[f - 1]
  <2>7. p \in Seq(S) /\ q \in Seq(S) /\ c[f] = p \o q BY <2>5, <2>6
  <2> HIDE DEF p, q, S
  <2>8. c[f] \in Seq(S) BY <2>7
  <2> QED BY <2>2, <2>8
<1>4. n \in 0 .. n OBVIOUS
<1> QED BY <1>1, <1>3, <1>4

-----------------------------------------------------------------------------
(* The three changes that the removal makes to a graph, field by field.    *)

Links == Edges \union {"parentStatement"}

SameNode(g, h, s) ==
  /\ h.stat[s].statementType = g.stat[s].statementType
  /\ h.stat[s].localSymbolTable = g.stat[s].localSymbolTable
  /\ h.stat[s].ast = g.stat[s].ast

SameSize(g, h) ==
  /\ h \in Graphs(FuncNames) /\ Len(h.stat) = Len(g.stat) /\ Len(h.funcs) = Len(g.funcs)
  /\ Statements(h) = Statements(g)
  /\ \A s \in Statements(g) : SameNode(g, h, s)
  /\ \A f \in 1 .. Len(g.funcs) : h.funcs[f].symbolTable = g.funcs[f].symbolTable

Relinks(g, h, x, field, v) ==
  /\ SameSize(g, h) /\ h.funcs = g.funcs
  /\ \A s \in Statements(g) : \A link \in Links :
       h.stat[s][link] = IF s = x /\ link = field THEN v ELSE g.stat[s][link]

LEMMA RelinkFollowing ==
  ASSUME NEW g \in Graphs(FuncNames), NEW x \in Nat, NEW v \in Nat
  PROVE  Relinks(g, [g EXCEPT !.stat[x].followingStatement = v], x, "followingStatement", v)
<1> DEFINE st == [g.stat EXCEPT ![x].followingStatement = v]
           h == [g EXCEPT !.stat = st]
<1>1. [g EXCEPT !.stat[x].followingStatement = v] = h BY DEF Graphs
<1>2. g.stat \in Seq(StatementRecords) /\ g.funcs \in Seq(FunctionRecords(FuncNames)) BY DEF Graphs
<1>3. st \in Seq(StatementRecords) /\ Len(st) = Len(g.stat)
  <2> DEFINE n == Len(g.stat)
             new(s) == IF s = x THEN [g.stat[s] EXCEPT !.followingStatement = v] ELSE g.stat[s]
  <2>1. n \in Nat /\ DOMAIN g.stat = 1 .. n /\ \A s \in 1 .. n : g.stat[s] \in StatementRecords
    BY <1>2
  <2>2. \A s \in 1 .. n : new(s) \in StatementRecords BY <2>1 DEF StatementRecords
  <2>3. st = [s \in 1 .. n |-> new(s)] BY <2>1
  <2> HIDE DEF st, new
  <2>4. st \in Seq(StatementRecords) /\ Len(st) = n BY <2>1, <2>2, <2>3
  <2> QED BY <2>4
<1>4. h \in Graphs(FuncNames) /\ h.stat = st /\ h.funcs = g.funcs BY <1>3 DEF Graphs
<1>5. Len(g.stat) \in Nat /\ DOMAIN g.stat = 1 .. Len(g.stat) BY <1>2
<1>6. ASSUME NEW s \in Statements(g)
      PROVE  /\ \A link \in Links :
                  st[s][link] = IF s = x /\ link = "followingStatement" THEN v ELSE g.stat[s][link]
             /\ st[s].statementType = g.stat[s].statementType
             /\ st[s].localSymbolTable = g.stat[s].localSymbolTable
             /\ st[s].ast = g.stat[s].ast
  <2>1. s \in DOMAIN g.stat /\ g.stat[s] \in StatementRecords BY <1>2, <1>5 DEF Statements
  <2>2. st[s] = IF s = x THEN [g.stat[s] EXCEPT !.followingStatement = v] ELSE g.stat[s] BY <2>1
  <2> HIDE DEF st
  <2> QED BY <2>1, <2>2 DEF StatementRecords, Links, Edges
<1> HIDE DEF h, st
<1>7. SameSize(g, h) BY <1>3, <1>4, <1>6 DEF SameSize, SameNode, Statements
<1>8. Relinks(g, h, x, "followingStatement", v) BY <1>4, <1>6, <1>7 DEF Relinks
<1> QED BY <1>1, <1>8

LEMMA RelinkParent ==
  ASSUME NEW g \in Graphs(FuncNames), NEW x \in Nat, NEW v \in Nat
  PROVE  Relinks(g, [g EXCEPT !.stat[x].parentStatement = v], x, "parentStatement", v)
<1> DEFINE st == [g.stat EXCEPT ![x].parentStatement = v]
           h == [g EXCEPT !.stat = st]
<1>1. [g EXCEPT !.stat[x].parentStatement = v] = h BY DEF Graphs
<1>2. g.stat \in Seq(StatementRecords) /\ g.funcs \in Seq(FunctionRecords(FuncNames)) BY DEF Graphs
<1>3. st \in Seq(StatementRecords) /\ Len(st) = Len(g.stat)
  <2> DEFINE n == Len(g.stat)
             new(s) == IF s = x THEN [g.stat[s] EXCEPT !.parentStatement = v] ELSE g.stat[s]
  <2>1. n \in Nat /\ DOMAIN g.stat = 1 .. n /\ \A s \in 1 .. n : g.stat[s] \in StatementRecords
    BY <1>2
  <2>2. \A s \in 1 .. n : new(s) \in StatementRecords BY <2>1 DEF StatementRecords
  <2>3. st = [s \in 1 .. n |-> new(s)] BY <2>1
  <2> HIDE DEF st, new
  <2>4. st \in Seq(StatementRecords) /\ Len(st) = n BY <2>1, <2>2, <2>3
  <2> QED BY <2>4
<1>4. h \in Graphs(FuncNames) /\ h.stat = st /\ h.funcs = g.funcs BY <1>3 DEF Graphs
<1>5. Len(g.stat) \in Nat /\ DOMAIN g.stat = 1 .. Len(g.stat) BY <1>2
<1>6. ASSUME NEW s \in Statements(g)
      PROVE  /\ \A link \in Links :
                  st[s][link] = IF s = x /\ link = "parentStatement" THEN v ELSE g.stat[s][link]
             /\ st[s].statementType = g.stat[s].statementType
             /\ st[s].localSymbolTable = g.stat[s].localSymbolTable
             /\ st[s].ast = g.stat[s].ast
  <2>1. s \in DOMAIN g.stat /\ g.stat[s] \in StatementRecords BY <1>2, <1>5 DEF Statements
  <2>2. st[s] = IF s = x THEN [g.stat[s] EXCEPT !.parentStatement = v] ELSE g.stat[s] BY <2>1
  <2> HIDE DEF st
  <2> QED BY <2>1, <2>2 DEF StatementRecords, Links, Edges
<1> HIDE DEF h, st
<1>7. SameSize(g, h) BY <1>3, <1>4, <1>6 DEF SameSize, SameNode, Statements
<1>8. Relinks(g, h, x, "parentStatement", v) BY <1>4, <1>6, <1>7 DEF Relinks
<1> QED BY <1>1, <1>8

LEMMA RelinkElse ==
  ASSUME NEW g \in Graphs(FuncNames), NEW x \in Nat, NEW v \in Nat
  PROVE  Relinks(g, [g EXCEPT !.stat[x].elseStatement = v], x, "elseStatement", v)
<1> DEFINE st == [g.stat EXCEPT ![x].elseStatement = v]
           h == [g EXCEPT !.stat = st]
<1>1. [g EXCEPT !.stat[x].elseStatement = v] = h BY DEF Graphs
<1>2. g.stat \in Seq(StatementRecords) /\ g.funcs \in Seq(FunctionRecords(FuncNames)) BY DEF Graphs
<1>3. st \in Seq(StatementRecords) /\ Len(st) = Len(g.stat)
  <2> DEFINE n == Len(g.stat)
             new(s) == IF s = x THEN [g.stat[s] EXCEPT !.elseStatement = v] ELSE g.stat[s]
  <2>1. n \in Nat /\ DOMAIN g.stat = 1 .. n /\ \A s \in 1 .. n : g.stat[s] \in StatementRecords
    BY <1>2
  <2>2. \A s \in 1 .. n : new(s) \in StatementRecords BY <2>1 DEF StatementRecords
  <2>3. st = [s \in 1 .. n |-> new(s)] BY <2>1
  <2> HIDE DEF st, new
  <2>4. st \in Seq(StatementRecords) /\ Len(st) = n BY <2>1, <2>2, <2>3
  <2> QED BY <2>4
<1>4. h \in Graphs(FuncNames) /\ h.stat = st /\ h.funcs = g.funcs BY <1>3 DEF Graphs
<1>5. Len(g.stat) \in Nat /\ DOMAIN g.stat = 1 .. Len(g.stat) BY <1>2
<1>6. ASSUME NEW s \in Statements(g)
      PROVE  /\ \A link \in Links :
                  st[s][link] = IF s = x /\ link = "elseStatement" THEN v ELSE g.stat[s][link]
             /\ st[s].statementType = g.stat[s].statementType
             /\ st[s].localSymbolTable = g.stat[s].localSymbolTable
             /\ st[s].ast = g.stat[s].ast
  <2>1. s \in DOMAIN g.stat /\ g.stat[s] \in StatementRecords BY <1>2, <1>5 DEF Statements
  <2>2. st[s] = IF s = x THEN [g.stat[s] EXCEPT !.elseStatement = v] ELSE g.stat[s] BY <2>1
  <2> HIDE DEF st
  <2> QED BY <2>1, <2>2 DEF StatementRecords, Links, Edges
<1> HIDE DEF h, st
<1>7. SameSize(g, h) BY <1>3, <1>4, <1>6 DEF SameSize, SameNode, Statements
<1>8. Relinks(g, h, x, "elseStatement", v) BY <1>4, <1>6, <1>7 DEF Relinks
<1> QED BY <1>1, <1>8

LEMMA RelinkThen ==
  ASSUME NEW g \in Graphs(FuncNames), NEW x \in Nat, NEW v \in Nat
  PROVE  Relinks(g, [g EXCEPT !.stat[x].thenStatement = v], x, "thenStatement", v)
<1> DEFINE st == [g.stat EXCEPT ![x].thenStatement = v]
           h == [g EXCEPT !.stat = st]
<1>1. [g EXCEPT !.stat[x].thenStatement = v] = h BY DEF Graphs
<1>2. g.stat \in Seq(StatementRecords) /\ g.funcs \in Seq(FunctionRecords(FuncNames)) BY DEF Graphs
<1>3. st \in Seq(StatementRecords) /\ Len(st) = Len(g.stat)
  <2> DEFINE n == Len(g.stat)
             new(s) == IF s = x THEN [g.stat[s] EXCEPT !.thenStatement = v] ELSE g.stat[s]
  <2>1. n \in Nat /\ DOMAIN g.stat = 1 .. n /\ \A s \in 1 .. n : g.stat[s] \in StatementRecords
    BY <1>2
  <2>2. \A s \in 1 .. n : new(s) \in StatementRecords BY <2>1 DEF StatementRecords
  <2>3. st = [s \in 1 .. n |-> new(s)] BY <2>1
  <2> HIDE DEF st, new
  <2>4. st \in Seq(StatementRecords) /\ Len(st) = n BY <2>1, <2>2, <2>3
  <2> QED BY <2>4
<1>4. h \in Graphs(FuncNames) /\ h.stat = st /\ h.funcs = g.funcs BY <1>3 DEF Graphs
<1>5. Len(g.stat) \in Nat /\ DOMAIN g.stat = 1 .. Len(g.stat) BY <1>2
<1>6. ASSUME NEW s \in Statements(g)
      PROVE  /\ \A link \in Links :
                  st[s][link] = IF s = x /\ link = "thenStatement" THEN v ELSE g.stat[s][link]
             /\ st[s].statementType = g.stat[s].statementType
             /\ st[s].localSymbolTable = g.stat[s].localSymbolTable
             /\ st[s].ast = g.stat[s].ast
  <2>1. s \in DOMAIN g.stat /\ g.stat[s] \in StatementRecords BY <1>2, <1>5 DEF Statements
  <2>2. st[s] = IF s = x THEN [g.stat[s] EXCEPT !.thenStatement = v] ELSE g.stat[s] BY <2>1
  <2> HIDE DEF st
  <2> QED BY <2>1, <2>2 DEF StatementRecords, Links, Edges
<1> HIDE DEF h, st
<1>7. SameSize(g, h) BY <1>3, <1>4, <1>6 DEF SameSize, SameNode, Statements
<1>8. Relinks(g, h, x, "thenStatement", v) BY <1>4, <1>6, <1>7 DEF Relinks
<1> QED BY <1>1, <1>8

LEMMA NewRoot ==
  ASSUME NEW g \in Graphs(FuncNames), NEW f \in 1 .. Len(g.funcs), NEW v \in Nat
  PROVE  LET h == [g EXCEPT !.funcs[f].rootStatement = v]
         IN  /\ SameSize(g, h) /\ h.stat = g.stat
             /\ \A k \in 1 .. Len(g.funcs) :
                  h.funcs[k].rootStatement = IF k = f THEN v ELSE g.funcs[k].rootStatement
<1> DEFINE fs == [g.funcs EXCEPT ![f].rootStatement = v]
           h == [g EXCEPT !.funcs = fs]
           n == Len(g.funcs)
           new(k) == IF k = f THEN [g.funcs[k] EXCEPT !.rootStatement = v] ELSE g.funcs[k]
<1>1. [g EXCEPT !.funcs[f].rootStatement = v] = h BY DEF Graphs
<1>2. g.stat \in Seq(StatementRecords) /\ g.funcs \in Seq(FunctionRecords(FuncNames)) BY DEF Graphs
<1>3. n \in Nat /\ DOMAIN g.funcs = 1 .. n
      /\ \A k \in 1 .. n : g.funcs[k] \in FunctionRecords(FuncNames)
  BY <1>2
<1>4. \A k \in 1 .. n : /\ new(k) \in FunctionRecords(FuncNames)
                        /\ new(k).symbolTable = g.funcs[k].symbolTable
                        /\ new(k).rootStatement = IF k = f THEN v ELSE g.funcs[k].rootStatement
  BY <1>3 DEF FunctionRecords
<1>5. fs = [k \in 1 .. n |-> new(k)] BY <1>3
<1> HIDE DEF fs, new
<1>6. fs \in Seq(FunctionRecords(FuncNames)) /\ Len(fs) = n BY <1>3, <1>4, <1>5
<1>7. h \in Graphs(FuncNames) /\ h.stat = g.stat /\ h.funcs = fs BY <1>6 DEF Graphs
<1> HIDE DEF h
<1>8. SameSize(g, h) BY <1>4, <1>5, <1>6, <1>7 DEF SameSize, SameNode, Statements
<1>9. \A k \in 1 .. n : h.funcs[k].rootStatement = IF k = f THEN v ELSE g.funcs[k].rootStatement
  BY <1>4, <1>5, <1>7
<1> QED BY <1>1, <1>7, <1>8, <1>9

(* A statement is unlinked as if it followed its parent.                   *)
IsRootOf(g, s, f) == s = g.funcs[f].rootStatement

Above(g, s, f) == IF IsRootOf(g, s, f) THEN NULL ELSE g.stat[s].parentStatement

Unlinks(g, h, s, f) ==
  /\ SameSize(g, h)
  /\ \A y \in Statements(g) :
       /\ h.stat[y].followingStatement =
            IF y = s THEN NULL
            ELSE IF ~ IsRootOf(g, s, f) /\ y = g.stat[s].parentStatement
                 THEN g.stat[s].followingStatement
            ELSE g.stat[y].followingStatement
       /\ h.stat[y].parentStatement =
            IF y = g.stat[s].followingStatement THEN Above(g, s, f) ELSE g.stat[y].parentStatement
       /\ \A link \in ArmLinks : h.stat[y][link] = g.stat[y][link]
  /\ \A k \in 1 .. Len(g.funcs) :
       h.funcs[k].rootStatement =
         IF IsRootOf(g, s, f) /\ k = f THEN g.stat[s].followingStatement
         ELSE g.funcs[k].rootStatement

LEMMA Unlinked ==
  ASSUME NEW g \in Graphs(FuncNames), NEW s \in Statements(g), NEW f \in 1 .. Len(g.funcs),
         g.stat[s].parentStatement # s
  PROVE  Unlinks(g, [rebind_adjacent_statements(g, s, f) EXCEPT !.stat[s].followingStatement = NULL],
                 s, f)
<1> DEFINE n == g.stat[s].followingStatement
           q == g.stat[s].parentStatement
           root == IsRootOf(g, s, f)
           p == Above(g, s, f)
           h1 == ForgetNewParent(g, s, f)
           h2 == IF n = NULL THEN h1 ELSE [h1 EXCEPT !.stat[n].parentStatement = p]
           h3 == [h2 EXCEPT !.stat[s].followingStatement = NULL]
<1>1. rebind_adjacent_statements(g, s, f) = h2 BY DEF rebind_adjacent_statements, Above, IsRootOf
<1>2. n \in Nat /\ q \in Nat /\ s \in Nat /\ s # NULL /\ NULL \in Nat
  <2>1. g.stat \in Seq(StatementRecords) BY DEF Graphs
  <2>2. g.stat[s] \in StatementRecords BY <2>1 DEF Statements
  <2> QED BY <2>2 DEF StatementRecords, Statements, NULL
<1>3. p \in Nat BY <1>2 DEF Above
<1>4. /\ SameSize(g, h1)
      /\ \A y \in Statements(g) : \A link \in Links :
           h1.stat[y][link] = IF ~ root /\ y = q /\ link = "followingStatement" THEN n
                              ELSE g.stat[y][link]
      /\ \A k \in 1 .. Len(g.funcs) :
           h1.funcs[k].rootStatement = IF root /\ k = f THEN n ELSE g.funcs[k].rootStatement
  <2>1. CASE root
    <3>1. h1 = [g EXCEPT !.funcs[f].rootStatement = n] BY <2>1 DEF ForgetNewParent, IsRootOf
    <3> HIDE DEF h1, n
    <3>2. /\ SameSize(g, h1) /\ h1.stat = g.stat
          /\ \A k \in 1 .. Len(g.funcs) :
               h1.funcs[k].rootStatement = IF k = f THEN n ELSE g.funcs[k].rootStatement
      BY <1>2, <3>1, NewRoot
    <3> QED BY <2>1, <3>2
  <2>2. CASE ~ root
    <3>1. h1 = [g EXCEPT !.stat[q].followingStatement = n] BY <2>2 DEF ForgetNewParent, IsRootOf
    <3> HIDE DEF h1, n, q
    <3>2. Relinks(g, h1, q, "followingStatement", n) BY <1>2, <3>1, RelinkFollowing
    <3> QED BY <2>2, <3>2 DEF Relinks
  <2> QED BY <2>1, <2>2
<1> HIDE DEF h1, n, q, p, root
<1>5. /\ SameSize(h1, h2) /\ h2.funcs = h1.funcs
      /\ \A y \in Statements(g) : \A link \in Links :
           h2.stat[y][link] = IF y = n /\ link = "parentStatement" THEN p ELSE h1.stat[y][link]
  <2>0. h1 \in Graphs(FuncNames) /\ Statements(h1) = Statements(g) BY <1>4 DEF SameSize
  <2>1. CASE n = NULL
    <3>1. h2 = h1 BY <2>1
    <3>2. NULL \notin Statements(g) BY DEF Statements, NULL
    <3> QED BY <2>0, <2>1, <3>1, <3>2 DEF SameSize, SameNode
  <2>2. CASE n # NULL
    <3>1. h2 = [h1 EXCEPT !.stat[n].parentStatement = p] BY <2>2
    <3> HIDE DEF h2
    <3>2. Relinks(h1, h2, n, "parentStatement", p) BY <1>2, <1>3, <2>0, <3>1, RelinkParent
    <3> QED BY <2>0, <3>2 DEF Relinks
  <2> QED BY <2>1, <2>2
<1> HIDE DEF h2
<1>6. Relinks(h2, h3, s, "followingStatement", NULL)
  <2>1. h2 \in Graphs(FuncNames) BY <1>5 DEF SameSize
  <2> HIDE DEF NULL
  <2> QED BY <1>2, <2>1, RelinkFollowing
<1> HIDE DEF h3
<1>7. SameSize(g, h3) BY <1>4, <1>5, <1>6 DEF SameSize, SameNode, Relinks
<1>8. \A y \in Statements(g) : \A link \in Links :
        h3.stat[y][link] = IF y = s /\ link = "followingStatement" THEN NULL ELSE h2.stat[y][link]
  BY <1>4, <1>5, <1>6 DEF Relinks, SameSize
<1>9. ASSUME NEW y \in Statements(g)
      PROVE  /\ h3.stat[y].followingStatement =
                  IF y = s THEN NULL ELSE IF ~ root /\ y = q THEN n ELSE g.stat[y].followingStatement
             /\ h3.stat[y].parentStatement = IF y = n THEN p ELSE g.stat[y].parentStatement
             /\ \A link \in ArmLinks : h3.stat[y][link] = g.stat[y][link]
  <2>1. /\ "followingStatement" \in Links /\ "parentStatement" \in Links
        /\ \A link \in ArmLinks :
             link \in Links /\ link # "followingStatement" /\ link # "parentStatement"
    BY DEF Links, Edges, ArmLinks
  <2>2. h3.stat[y].followingStatement =
          IF y = s THEN NULL ELSE IF ~ root /\ y = q THEN n ELSE g.stat[y].followingStatement
    BY <1>4, <1>5, <1>8, <2>1
  <2>3. h3.stat[y].parentStatement = IF y = n THEN p ELSE g.stat[y].parentStatement
    BY <1>4, <1>5, <1>8, <2>1
  <2>4. \A link \in ArmLinks : h3.stat[y][link] = g.stat[y][link]
    BY <1>4, <1>5, <1>8, <2>1
  <2> QED BY <2>2, <2>3, <2>4
<1>10. \A k \in 1 .. Len(g.funcs) :
         h3.funcs[k].rootStatement = IF root /\ k = f THEN n ELSE g.funcs[k].rootStatement
  BY <1>4, <1>5, <1>6 DEF Relinks
<1>11. Unlinks(g, h3, s, f) BY <1>7, <1>9, <1>10 DEF Unlinks, n, q, p, root
<1> QED BY <1>1, <1>11 DEF h3

(* The else becomes the then branch.                                       *)
TakesElse(g, h, s) ==
  /\ SameSize(g, h) /\ h.funcs = g.funcs
  /\ \A y \in Statements(g) : \A link \in Links :
       h.stat[y][link] = IF y = s /\ link = "thenStatement" THEN g.stat[s].elseStatement
                         ELSE IF y = s /\ link = "elseStatement" THEN NULL
                         ELSE g.stat[y][link]

LEMMA ElseTaken ==
  ASSUME NEW g \in Graphs(FuncNames), NEW s \in Statements(g)
  PROVE  TakesElse(g, [g EXCEPT !.stat[s].thenStatement = g.stat[s].elseStatement,
                                !.stat[s].elseStatement = NULL], s)
<1> DEFINE e == g.stat[s].elseStatement
           h1 == [g EXCEPT !.stat[s].thenStatement = e]
           h2 == [h1 EXCEPT !.stat[s].elseStatement = NULL]
<1>1. g.stat \in Seq(StatementRecords) /\ s \in Nat /\ NULL \in Nat BY DEF Graphs, Statements, NULL
<1>2. e \in Nat
  <2>1. g.stat[s] \in StatementRecords BY <1>1 DEF Statements
  <2> QED BY <2>1 DEF StatementRecords
<1>3. [g EXCEPT !.stat[s].thenStatement = g.stat[s].elseStatement,
                !.stat[s].elseStatement = NULL] = h2
  OBVIOUS
<1> HIDE DEF e
<1>4. Relinks(g, h1, s, "thenStatement", e) BY <1>1, <1>2, RelinkThen
<1>5. h1 \in Graphs(FuncNames) /\ Statements(h1) = Statements(g) /\ h1.funcs = g.funcs
      /\ SameSize(g, h1)
  BY <1>4 DEF Relinks, SameSize
<1> HIDE DEF h1
<1>6. Relinks(h1, h2, s, "elseStatement", NULL) BY <1>1, <1>5, RelinkElse
<1> HIDE DEF h2
<1>7. SameSize(g, h2) /\ h2.funcs = g.funcs BY <1>5, <1>6 DEF SameSize, SameNode, Relinks
<1>8. ASSUME NEW y \in Statements(g), NEW link \in Links
      PROVE  h2.stat[y][link] = IF y = s /\ link = "thenStatement" THEN e
                                ELSE IF y = s /\ link = "elseStatement" THEN NULL
                                ELSE g.stat[y][link]
  BY <1>4, <1>5, <1>6 DEF Relinks
<1> QED BY <1>3, <1>7, <1>8 DEF TakesElse, e

LEMMA ElseDropped ==
  ASSUME NEW g \in Graphs(FuncNames), NEW s \in Statements(g)
  PROVE  Relinks(g, [g EXCEPT !.stat[s].elseStatement = NULL], s, "elseStatement", NULL)
<1>1. s \in Nat /\ NULL \in Nat BY DEF Statements, NULL
<1> QED BY <1>1, RelinkElse

-----------------------------------------------------------------------------
(* What every graph keeps while code is removed from it, in any program.   *)

RootsThere(g, tables) ==
  \A f \in 1 .. Len(g.funcs) :
    /\ g.funcs[f].rootStatement \in PointersIn(g)
    /\ g.funcs[f].symbolTable # NULL => g.funcs[f].symbolTable \in 1 .. tables

Removable(g, tables) ==
  /\ g \in Graphs(FuncNames) /\ tables \in Nat
  /\ EdgesLeadOn(g) /\ ParentsBefore(g)
  /\ \A s \in Statements(g) : ArmsFit(g.stat[s])
  /\ TablesThere(g, tables)
  /\ RootsThere(g, tables)

LEMMA ParserGraphIsRemovable == IInv /\ BInv => Removable(graph, allocated)
<1> SUFFICES ASSUME IInv, BInv PROVE Removable(graph, allocated) OBVIOUS
<1> DEFINE g == graph
<1>1. GraphInv(g, allocated) /\ ShapeOK(g) BY DEF IInv, BInv
<1> HIDE DEF g
<1>2. /\ GraphOK(g, FuncNames) /\ allocated \in Nat /\ PointersOK(g) /\ TablesOK(g, allocated)
      /\ EdgesLeadOn(g)
      /\ \A s \in Statements(g) : g.stat[s] \in StatementRecords
      /\ \A f \in 1 .. Len(g.funcs) : g.funcs[f] \in FunctionRecords(FuncNames)
  BY <1>1, InvLeadsOn, GraphParts DEF GraphInv
<1>3. g \in Graphs(FuncNames) /\ ParentsBefore(g) BY <1>2 DEF GraphOK
<1>4. \A s \in Statements(g) :
        g.stat[s].localSymbolTable # NULL => g.stat[s].localSymbolTable \in 1 .. allocated
  BY <1>2 DEF TablesOK, StatementRecords, NULL
<1>5. \A f \in 1 .. Len(g.funcs) :
        g.funcs[f].symbolTable # NULL => g.funcs[f].symbolTable \in 1 .. allocated
  BY <1>2 DEF TablesOK, FunctionRecords, NULL
<1>6. RootsThere(g, allocated) BY <1>2, <1>5 DEF RootsThere, PointersOK
<1>7. TablesThere(g, allocated)
  <2>1. ASSUME NEW s \in Statements(g), g.stat[s].statementType = "CF_FOR"
        PROVE  g.stat[s].localSymbolTable \in 1 .. allocated
    BY <1>1, <1>4, <2>1 DEF ShapeOK, HeaderHasTable
  <2>2. ASSUME NEW s \in Statements(g), NEW field \in ArmLinks, g.stat[s][field] # NULL
        PROVE  g.stat[g.stat[s][field]].localSymbolTable \in 1 .. allocated
    <3>1. field \in Edges BY DEF ArmLinks, Edges
    <3>2. g.stat[s][field] \in Statements(g) BY <1>2, <2>2, <3>1 DEF EdgesLeadOn
    <3>3. g.stat[g.stat[s][field]].localSymbolTable # NULL BY <1>1, <2>2 DEF ShapeOK, ArmStarts
    <3> QED BY <1>4, <3>2, <3>3
  <2> QED BY <2>1, <2>2 DEF TablesThere
<1>8. \A s \in Statements(g) : ArmsFit(g.stat[s]) BY <1>1 DEF ShapeOK
<1> QED BY <1>2, <1>3, <1>6, <1>7, <1>8 DEF Removable, g

(* The fields that a change leaves alone.                                  *)
LEMMA FieldNames ==
  /\ ArmLinks \subseteq Edges /\ Edges \subseteq Links /\ "parentStatement" \in Links
  /\ "followingStatement" \in Edges /\ "followingStatement" \notin ArmLinks
  /\ "parentStatement" \notin Edges
  /\ "thenStatement" \in ArmLinks /\ "elseStatement" \in ArmLinks /\ "bodyStatement" \in ArmLinks
  /\ \A edge \in Edges : edge = "followingStatement" \/ edge \in ArmLinks
BY DEF ArmLinks, Edges, Links

LEMMA UnlinkedStaysRemovable ==
  ASSUME NEW g, NEW tables, Removable(g, tables), NEW h, NEW s \in Statements(g), NEW f,
         Unlinks(g, h, s, f)
  PROVE  Removable(h, tables)
<1> DEFINE n == g.stat[s].followingStatement
           q == g.stat[s].parentStatement
           p == Above(g, s, f)
<1>1. /\ g \in Graphs(FuncNames) /\ tables \in Nat /\ EdgesLeadOn(g) /\ ParentsBefore(g)
      /\ TablesThere(g, tables) /\ RootsThere(g, tables) /\ Len(g.stat) \in Nat
      /\ SameSize(g, h) /\ Statements(h) = Statements(g) /\ Len(h.stat) = Len(g.stat)
      /\ Len(h.funcs) = Len(g.funcs)
  BY DEF Removable, Unlinks, SameSize, EdgesLeadOn
<1>2. /\ n # NULL => n \in Statements(g) /\ s < n /\ n \in Nat
      /\ s \in Nat /\ 0 < s /\ q \in Nat /\ q < s
  <2>1. s \in Nat /\ 0 < s BY <1>1 DEF Statements
  <2>2. g.stat[s] \in StatementRecords
    <3>1. g.stat \in Seq(StatementRecords) BY <1>1 DEF Graphs
    <3> QED BY <3>1 DEF Statements
  <2>3. q \in Nat /\ q < s BY <1>1, <2>2 DEF ParentsBefore, StatementRecords
  <2>4. n # NULL => n \in Statements(g) /\ s < n BY <1>1, FieldNames DEF EdgesLeadOn
  <2> QED BY <1>1, <2>1, <2>3, <2>4 DEF Statements
<1>3. \A y \in Statements(g) :
        /\ h.stat[y].followingStatement =
             IF y = s THEN NULL ELSE IF ~ IsRootOf(g, s, f) /\ y = q THEN n
             ELSE g.stat[y].followingStatement
        /\ h.stat[y].parentStatement = IF y = n THEN p ELSE g.stat[y].parentStatement
        /\ \A link \in ArmLinks : h.stat[y][link] = g.stat[y][link]
        /\ SameNode(g, h, y)
  BY DEF Unlinks, SameSize
<1>4. p = NULL \/ p = q BY DEF Above
<1> HIDE DEF n, q, p
<1>5. EdgesLeadOn(h)
  <2>1. ASSUME NEW y \in Statements(g), NEW field \in Edges, h.stat[y][field] # NULL
        PROVE  h.stat[y][field] \in Statements(g) /\ y < h.stat[y][field]
    <3>1. CASE h.stat[y][field] = g.stat[y][field] BY <1>1, <2>1, <3>1 DEF EdgesLeadOn
    <3>2. CASE h.stat[y][field] # g.stat[y][field]
      <4>1. field = "followingStatement" BY <1>3, <3>2, FieldNames
      <4>2. y = q /\ h.stat[y][field] = n BY <1>3, <2>1, <3>2, <4>1
      <4> QED BY <1>2, <2>1, <4>2
    <3> QED BY <3>1, <3>2
  <2> QED BY <1>1, <2>1 DEF EdgesLeadOn
<1>6. ParentsBefore(h)
  <2>1. ASSUME NEW y \in Statements(g) PROVE h.stat[y].parentStatement < y
    <3>1. CASE y = n
      <4>1. n # NULL BY <3>1 DEF Statements, NULL
      <4> QED BY <1>2, <1>3, <1>4, <3>1, <4>1 DEF NULL
    <3>2. CASE y # n BY <1>1, <1>3, <3>2 DEF ParentsBefore
    <3> QED BY <3>1, <3>2
  <2> QED BY <1>1, <2>1 DEF ParentsBefore
<1>7. ASSUME NEW y \in Statements(g) PROVE ArmsFit(h.stat[y])
  <2>1. /\ h.stat[y].thenStatement = g.stat[y].thenStatement
        /\ h.stat[y].elseStatement = g.stat[y].elseStatement
        /\ h.stat[y].bodyStatement = g.stat[y].bodyStatement
        /\ h.stat[y].statementType = g.stat[y].statementType
    BY <1>3, FieldNames DEF SameNode
  <2> QED BY <2>1 DEF ArmsFit, Removable
<1>8. TablesThere(h, tables)
  <2>1. ASSUME NEW y \in Statements(g), h.stat[y].statementType = "CF_FOR"
        PROVE  h.stat[y].localSymbolTable \in 1 .. tables
    BY <1>1, <1>3, <2>1 DEF TablesThere, SameNode
  <2>2. ASSUME NEW y \in Statements(g), NEW field \in ArmLinks, h.stat[y][field] # NULL
        PROVE  h.stat[h.stat[y][field]].localSymbolTable \in 1 .. tables
    <3> DEFINE t == g.stat[y][field]
    <3>1. h.stat[y][field] = t /\ t # NULL BY <1>3, <2>2
    <3>2. t \in Statements(g) BY <1>1, <3>1, FieldNames DEF EdgesLeadOn
    <3>3. g.stat[t].localSymbolTable \in 1 .. tables BY <1>1, <3>1 DEF TablesThere
    <3> HIDE DEF t
    <3> QED BY <1>3, <3>1, <3>2, <3>3 DEF SameNode
  <2> QED BY <1>1, <2>1, <2>2 DEF TablesThere
<1>9. RootsThere(h, tables)
  <2>1. \A k \in 1 .. Len(g.funcs) :
          /\ h.funcs[k].symbolTable = g.funcs[k].symbolTable
          /\ h.funcs[k].rootStatement = n \/ h.funcs[k].rootStatement = g.funcs[k].rootStatement
    BY DEF Unlinks, SameSize, n
  <2>2. n \in PointersIn(g) /\ PointersIn(h) = PointersIn(g) BY <1>1, <1>2 DEF PointersIn
  <2> QED BY <1>1, <2>1, <2>2 DEF RootsThere
<1>10. h \in Graphs(FuncNames) BY <1>1 DEF SameSize
<1> QED BY <1>1, <1>5, <1>6, <1>7, <1>8, <1>9, <1>10 DEF Removable

(* An arm that is moved or dropped.                                        *)
LEMMA RearmedStaysRemovable ==
  ASSUME NEW g, NEW tables, Removable(g, tables), NEW h, NEW s \in Statements(g),
         TakesElse(g, h, s) \/ Relinks(g, h, s, "elseStatement", NULL)
  PROVE  Removable(h, tables)
<1>1. /\ g \in Graphs(FuncNames) /\ tables \in Nat /\ EdgesLeadOn(g) /\ ParentsBefore(g)
      /\ TablesThere(g, tables) /\ RootsThere(g, tables)
      /\ SameSize(g, h) /\ Statements(h) = Statements(g) /\ Len(h.stat) = Len(g.stat)
      /\ h.funcs = g.funcs /\ h \in Graphs(FuncNames)
      /\ \A y \in Statements(g) : SameNode(g, h, y)
  BY DEF Removable, TakesElse, Relinks, SameSize
<1>2. \A y \in Statements(g) :
        /\ h.stat[y].parentStatement = g.stat[y].parentStatement
        /\ \A field \in Edges :
             \/ h.stat[y][field] = g.stat[y][field]
             \/ h.stat[y][field] = NULL
             \/ field = "thenStatement" /\ h.stat[y][field] = g.stat[y].elseStatement
  BY FieldNames DEF TakesElse, Relinks
<1>3. EdgesLeadOn(h) BY <1>1, <1>2, FieldNames DEF EdgesLeadOn
<1>4. ParentsBefore(h) BY <1>1, <1>2 DEF ParentsBefore
<1>5. ASSUME NEW y \in Statements(g) PROVE ArmsFit(h.stat[y])
  <2>1. ArmsFit(g.stat[y]) BY DEF Removable
  <2>2. h.stat[y].statementType = g.stat[y].statementType BY <1>1 DEF SameNode
  <2>3. h.stat[y].bodyStatement = g.stat[y].bodyStatement
    BY FieldNames DEF TakesElse, Relinks
  <2>4. \/ /\ h.stat[y].thenStatement = g.stat[y].thenStatement
           /\ h.stat[y].elseStatement \in {NULL, g.stat[y].elseStatement}
        \/ /\ h.stat[y].thenStatement = g.stat[y].elseStatement
           /\ h.stat[y].elseStatement = NULL
    BY FieldNames DEF TakesElse, Relinks
  <2> QED BY <2>1, <2>2, <2>3, <2>4 DEF ArmsFit
<1>6. TablesThere(h, tables)
  <2>1. ASSUME NEW y \in Statements(g), h.stat[y].statementType = "CF_FOR"
        PROVE  h.stat[y].localSymbolTable \in 1 .. tables
    BY <1>1, <2>1 DEF TablesThere, SameNode
  <2>2. ASSUME NEW y \in Statements(g), NEW field \in ArmLinks, h.stat[y][field] # NULL
        PROVE  h.stat[h.stat[y][field]].localSymbolTable \in 1 .. tables
    <3>1. PICK arm \in ArmLinks : h.stat[y][field] = g.stat[y][arm] BY <1>2, <2>2, FieldNames
    <3> DEFINE t == g.stat[y][arm]
    <3>2. t \in Statements(g) BY <1>1, <2>2, <3>1, FieldNames DEF EdgesLeadOn
    <3>3. g.stat[t].localSymbolTable \in 1 .. tables BY <1>1, <2>2, <3>1 DEF TablesThere
    <3>4. h.stat[y][field] = t BY <3>1
    <3> HIDE DEF t
    <3> QED BY <1>1, <3>2, <3>3, <3>4 DEF SameNode
  <2> QED BY <1>1, <2>1, <2>2 DEF TablesThere
<1>7. RootsThere(h, tables) BY <1>1 DEF RootsThere, PointersIn
<1> QED BY <1>1, <1>3, <1>4, <1>5, <1>6, <1>7 DEF Removable

-----------------------------------------------------------------------------
(* The invariant of main() after the parse, in any program.                *)

PendingCalls(g) ==
  [op : {"function", "visit", "follow"}, at : PointersIn(g), fun : 1 .. Len(g.funcs)]

AInv ==
  /\ phase \in {"remove", "crashed", "clean", "exit"}
  /\ Removable(graph, allocated)
  /\ \A s \in DOMAIN cond : cond[s] \in Conditions
  /\ phase = "remove" => cond \in [Conditional -> Conditions]
  /\ pending \in Seq(PendingCalls(graph))
  /\ freed \in Seq(ObjectsOf(Len(graph.stat), allocated))

OptInv ==
  /\ phase = "parse" =>
       /\ IInv /\ BInv
       /\ cond = << >> /\ pending = << >> /\ freed = << >> /\ promised = << >>
  /\ phase # "parse" => AInv

LEMMA OptInvIsTyped == OptInv => OptTypeOK
<1> SUFFICES ASSUME OptInv PROVE OptTypeOK OBVIOUS
<1>1. CASE phase = "parse"
  <2>1. cond = << >> /\ pending = << >> /\ freed = << >> BY <1>1 DEF OptInv
  <2>2. DOMAIN cond = {} /\ 1 .. Len(pending) = {} /\ FreedObjects = {}
    BY <2>1 DEF FreedObjects
  <2> QED BY <1>1, <2>2 DEF OptTypeOK
<1>2. CASE phase # "parse"
  <2>1. AInv BY <1>2 DEF OptInv
  <2>2. freed \in Seq(ObjectsOf(Len(graph.stat), allocated)) BY <2>1 DEF AInv
  <2>3. FreedObjects \subseteq ObjectsOf(Len(graph.stat), allocated)
    BY <2>2 DEF FreedObjects
  <2>4. pending \in Seq(PendingCalls(graph)) BY <2>1 DEF AInv
  <2>5. \A i \in 1 .. Len(pending) : pending[i] \in PendingCalls(graph) BY <2>4
  <2> QED
    BY <2>1, <2>3, <2>5
    DEF AInv, OptTypeOK, PendingCalls, PointersIn, Pointers, ObjectsOf, Statements
<1> QED BY <1>1, <1>2

LEMMA Pushes ==
  ASSUME NEW S, NEW cs \in Seq(S), NEW c \in S
  PROVE  /\ cs \o <<c>> \in Seq(S) /\ Len(cs \o <<c>>) = Len(cs) + 1 /\ Len(cs) \in Nat
         /\ (cs \o <<c>>)[Len(cs) + 1] = c
         /\ \A i \in 1 .. Len(cs) : (cs \o <<c>>)[i] = cs[i]
OBVIOUS

(* The call that runs, and those below it.                                 *)
LEMMA AtCurrent ==
  ASSUME AInv, pending # << >>
  PROVE  /\ Current \in PendingCalls(graph)
         /\ Current.at \in PointersIn(graph) /\ Current.fun \in 1 .. Len(graph.funcs)
         /\ Current.at # NULL => Current.at \in Statements(graph)
         /\ Pop(pending) \in Seq(PendingCalls(graph))
<1>1. pending \in Seq(PendingCalls(graph)) BY DEF AInv
<1>2. Current \in PendingCalls(graph)
  <2>1. Len(pending) \in 1 .. Len(pending) BY <1>1
  <2> QED BY <1>1, <2>1 DEF Current, Top
<1>3. Pop(pending) \in Seq(PendingCalls(graph)) BY <1>1, PopCalls
<1> QED BY <1>2, <1>3 DEF PendingCalls, PointersIn

LEMMA Calling ==
  ASSUME NEW g, NEW cs \in Seq(PendingCalls(g)), NEW op \in {"function", "visit", "follow"},
         NEW at \in PointersIn(g), NEW fun \in 1 .. Len(g.funcs)
  PROVE  cs \o Do(op, at, fun) \in Seq(PendingCalls(g))
<1> DEFINE c == [op |-> op, at |-> at, fun |-> fun]
<1>1. c \in PendingCalls(g) BY DEF PendingCalls
<1>2. Do(op, at, fun) = <<c>> BY DEF Do
<1> HIDE DEF c
<1> QED BY <1>1, <1>2, Pushes

LEMMA PointersOfRemovable ==
  ASSUME NEW g, NEW tables, Removable(g, tables)
  PROVE  /\ \A s \in Statements(g) : \A link \in Links : g.stat[s][link] \in PointersIn(g)
         /\ \A s \in Statements(g) : s # NULL /\ g.stat[s].parentStatement # s
         /\ \A f \in 1 .. Len(g.funcs) : g.funcs[f].rootStatement \in PointersIn(g)
         /\ NULL \in PointersIn(g)
<1>1. /\ g \in Graphs(FuncNames) /\ EdgesLeadOn(g) /\ ParentsBefore(g) /\ RootsThere(g, tables)
      /\ Len(g.stat) \in Nat
  BY DEF Removable, EdgesLeadOn
<1>2. ASSUME NEW s \in Statements(g)
      PROVE  g.stat[s].parentStatement \in PointersIn(g) /\ g.stat[s].parentStatement # s /\ s # NULL
  <2>1. g.stat \in Seq(StatementRecords) /\ s \in 1 .. Len(g.stat) BY <1>1 DEF Graphs, Statements
  <2>2. g.stat[s] \in StatementRecords BY <2>1
  <2>3. g.stat[s].parentStatement \in Nat BY <2>2 DEF StatementRecords
  <2>4. g.stat[s].parentStatement < s BY <1>1 DEF ParentsBefore
  <2> QED BY <1>1, <2>1, <2>3, <2>4 DEF PointersIn, Statements, NULL
<1>3. \A s \in Statements(g) : \A field \in Edges : g.stat[s][field] \in PointersIn(g)
  BY <1>1 DEF EdgesLeadOn, PointersIn
<1> QED BY <1>1, <1>2, <1>3 DEF Links, RootsThere, PointersIn

(* A call that leaves the graph alone. *)
LEMMA CallsAreTyped ==
  ASSUME OptInv, phase = "remove", pending' \in Seq(PendingCalls(graph)),
         UNCHANGED <<vars, phase, cond, freed, promised>>
  PROVE  OptInv'
<1>1. AInv BY DEF OptInv
<1>2. graph' = graph /\ allocated' = allocated BY DEF vars
<1>3. Conditional' = Conditional BY <1>2 DEF Conditional
<1>4. AInv' BY <1>1, <1>2, <1>3 DEF AInv
<1> QED BY <1>4 DEF OptInv

(* A call that removes something. *)
LEMMA RemovalIsTyped ==
  ASSUME OptInv, phase = "remove", phase' = phase, allocated' = allocated,
         Removable(graph', allocated), SameSize(graph, graph'),
         pending' \in Seq(PendingCalls(graph)), cond' \in [Conditional -> Conditions],
         freed' \in Seq(ObjectsOf(Len(graph.stat), allocated))
  PROVE  OptInv'
<1>1. /\ Len(graph'.stat) = Len(graph.stat) /\ Len(graph'.funcs) = Len(graph.funcs)
      /\ Statements(graph') = Statements(graph)
      /\ \A s \in Statements(graph) : graph'.stat[s].statementType = graph.stat[s].statementType
  BY DEF SameSize, SameNode
<1>2. Conditional' = Conditional BY <1>1 DEF Conditional
<1>3. PendingCalls(graph') = PendingCalls(graph) BY <1>1 DEF PendingCalls, PointersIn
<1>4. cond' \in [Conditional' -> Conditions] BY <1>2
<1>5. \A s \in DOMAIN cond' : cond'[s] \in Conditions OBVIOUS
<1>6. AInv' BY <1>1, <1>3, <1>4, <1>5 DEF AInv
<1> QED BY <1>6 DEF OptInv

LEMMA VisitFunctionTyped ==
  ASSUME OptInv, VisitFunction
  PROVE  OptInv'
<1>1. AInv /\ phase = "remove" /\ pending # << >> BY DEF OptInv, VisitFunction, Removing
<1>2. Removable(graph, allocated) BY <1>1 DEF AInv
<1>3. graph.funcs[Current.fun].rootStatement \in PointersIn(graph)
  BY <1>1, <1>2, AtCurrent, PointersOfRemovable
<1>4. pending' \in Seq(PendingCalls(graph)) BY <1>1, <1>3, AtCurrent, Calling DEF VisitFunction
<1> QED BY <1>1, <1>4, CallsAreTyped DEF VisitFunction

LEMMA VisitsTyped ==
  ASSUME OptInv, VisitBranches \/ VisitBody \/ VisitOther \/ Follow
  PROVE  OptInv'
<1>1. AInv /\ phase = "remove" /\ pending # << >> /\ Removable(graph, allocated)
  BY DEF OptInv, AInv, VisitBranches, VisitBody, VisitOther, Follow, Visiting, Removing
<1>2. /\ Current.at \in PointersIn(graph) /\ Current.fun \in 1 .. Len(graph.funcs)
      /\ Pop(pending) \in Seq(PendingCalls(graph))
      /\ Current.at # NULL => Current.at \in Statements(graph)
  BY <1>1, AtCurrent
<1>3. Current.at # NULL =>
        /\ graph.stat[Current.at].thenStatement \in PointersIn(graph)
        /\ graph.stat[Current.at].elseStatement \in PointersIn(graph)
        /\ graph.stat[Current.at].bodyStatement \in PointersIn(graph)
        /\ graph.stat[Current.at].followingStatement \in PointersIn(graph)
  BY <1>1, <1>2, PointersOfRemovable DEF Links, Edges
<1> DEFINE P == PendingCalls(graph)
           low == Pop(pending) \o Do("follow", Current.at, Current.fun)
<1>4. low \in Seq(P) BY <1>2, Calling
<1>5. \A cs \in Seq(P) : \A at \in PointersIn(graph) : cs \o Do("visit", at, Current.fun) \in Seq(P)
  BY <1>2, Calling
<1> HIDE DEF P
<1>6. CASE VisitBranches
  <2> DEFINE st == graph.stat[Current.at]
             mid == low \o Do("visit", st.elseStatement, Current.fun)
  <2>1. Current.at # NULL BY <1>6 DEF VisitBranches, Visiting
  <2>2. mid \in Seq(P) BY <1>3, <1>4, <1>5, <2>1
  <2>3. pending' = mid \o Do("visit", st.thenStatement, Current.fun) BY <1>6 DEF VisitBranches
  <2> HIDE DEF mid
  <2>4. pending' \in Seq(P) BY <1>3, <1>5, <2>1, <2>2, <2>3
  <2> QED BY <1>1, <1>6, <2>4, CallsAreTyped DEF VisitBranches, P
<1>7. CASE VisitBody
  <2>1. Current.at # NULL BY <1>7 DEF VisitBody, Visiting
  <2>2. pending' = low \o Do("visit", graph.stat[Current.at].bodyStatement, Current.fun)
    BY <1>7 DEF VisitBody
  <2> HIDE DEF low
  <2>3. pending' \in Seq(P) BY <1>3, <1>4, <1>5, <2>1, <2>2
  <2> QED BY <1>1, <1>7, <2>3, CallsAreTyped DEF VisitBody, P
<1>8. CASE VisitOther
  <2>1. pending' \in Seq(P) BY <1>4, <1>8 DEF VisitOther
  <2> QED BY <1>1, <1>8, <2>1, CallsAreTyped DEF VisitOther, P
<1>9. CASE Follow
  <2>1. pending' \in Seq(P) BY <1>2, <1>3, <1>5, <1>9 DEF Follow, P
  <2> QED BY <1>1, <1>9, <2>1, CallsAreTyped DEF Follow, P
<1> QED BY <1>6, <1>7, <1>8, <1>9

(* What has been freed, and what is freed next.                            *)
LEMMA FreedGrows ==
  ASSUME NEW n, NEW tables, NEW q \in Seq(ObjectsOf(n, tables)), NEW r, NEW D,
         Frees(r, n, tables, D)
  PROVE  /\ q \o r \in Seq(ObjectsOf(n, tables))
         /\ \A x : HasStat(q \o r, x) <=> HasStat(q, x) \/ x \in D
<1> DEFINE A == {x \in 1 .. n : HasStat(q, x)}
<1>1. ASSUME NEW x, HasStat(q, x) PROVE x \in 1 .. n
  <2>1. PICK i \in DOMAIN q : q[i] = <<"stat", x>> BY <1>1 DEF HasStat
  <2>2. <<"stat", x>> \in ObjectsOf(n, tables) BY <2>1
  <2> QED BY <2>2 DEF ObjectsOf
<1>2. Frees(q, n, tables, A) BY <1>1 DEF Frees
<1> HIDE DEF A
<1>3. Frees(q \o r, n, tables, A \union D) BY <1>2, FreesBoth
<1> QED BY <1>2, <1>3 DEF Frees

LEMMA FreedGrowsTwice ==
  ASSUME NEW n, NEW tables, NEW q \in Seq(ObjectsOf(n, tables)), NEW r, NEW t, NEW D,
         Frees(r, n, tables, D), Frees(t, n, tables, {})
  PROVE  /\ q \o r \o t \in Seq(ObjectsOf(n, tables))
         /\ \A x : HasStat(q \o r \o t, x) <=> HasStat(q, x) \/ x \in D
<1> DEFINE p == q \o r
<1>1. /\ p \in Seq(ObjectsOf(n, tables))
      /\ \A x : HasStat(p, x) <=> HasStat(q, x) \/ x \in D
  BY FreedGrows
<1> HIDE DEF p
<1>2. /\ p \o t \in Seq(ObjectsOf(n, tables))
      /\ \A x : HasStat(p \o t, x) <=> HasStat(p, x) \/ x \in {}
  BY <1>1, FreedGrows
<1>3. \A x : HasStat(p \o t, x) <=> HasStat(q, x) \/ x \in D BY <1>1, <1>2
<1> QED BY <1>2, <1>3 DEF p

LEMMA BranchTableFrees ==
  ASSUME NEW g, NEW n, NEW tables, NEW b, g.stat[b].localSymbolTable \in 1 .. tables
  PROVE  Frees(FreesTable(g, b), n, tables, {})
<1> DEFINE table == g.stat[b].localSymbolTable
<1>1. Frees(TableOf(table), n, tables, {}) BY FreesTheTable
<1>2. FreesTable(g, b) = << >> \/ FreesTable(g, b) = TableOf(table) BY DEF FreesTable, TableOf
<1> HIDE DEF table
<1> QED BY <1>1, <1>2, FreesNothing

(* The three removals, in the terms of the invariants.                     *)
NowFreed(D) ==
  /\ freed' \in Seq(ObjectsOf(Len(graph.stat), allocated))
  /\ \A x : HasStat(freed', x) <=> HasStat(freed, x) \/ x \in D

LEMMA RemovesStatement ==
  ASSUME AInv, RemoveStatement
  PROVE  LET s == Current.at
         IN  /\ phase = "remove" /\ pending # << >> /\ s \in Statements(graph)
             /\ graph.stat[s].statementType \in {"CF_IF", "CF_FOR"}
             /\ cond[s] = "false" /\ graph.stat[s].elseStatement = NULL
             /\ Unlinks(graph, graph', s, Current.fun) /\ Removable(graph', allocated)
             /\ NowFreed(Reach(graph')[s])
             /\ pending' = Pop(pending) \o Do("follow", graph.stat[s].parentStatement, Current.fun)
<1> DEFINE s == Current.at
           st == graph.stat[s]
           f == Current.fun
           h == graph'
<1>1. /\ phase = "remove" /\ pending # << >> /\ s # NULL
      /\ graph.stat[s].statementType \in {"CF_IF", "CF_FOR"}
      /\ cond[s] = "false" /\ graph.stat[s].elseStatement = NULL
  BY DEF RemoveStatement, Visiting, Removing
<1>2. /\ h = [rebind_adjacent_statements(graph, s, f) EXCEPT !.stat[s].followingStatement = NULL]
      /\ freed' = freed \o clean_stat(h, st.localSymbolTable)[s]
      /\ pending' = Pop(pending) \o Do("follow", h.stat[s].parentStatement, f)
  BY DEF RemoveStatement
<1>3. Removable(graph, allocated) /\ freed \in Seq(ObjectsOf(Len(graph.stat), allocated))
  BY DEF AInv
<1>4. s \in Statements(graph) /\ f \in 1 .. Len(graph.funcs) BY <1>1, AtCurrent
<1>5. Unlinks(graph, h, s, f)
  <2>1. graph \in Graphs(FuncNames) /\ graph.stat[s].parentStatement # s
    BY <1>3, <1>4, PointersOfRemovable DEF Removable
  <2> HIDE DEF s, f, h
  <2> QED BY <1>2, <1>4, <2>1, Unlinked
<1> HIDE DEF h
<1>6. Removable(h, allocated) BY <1>3, <1>4, <1>5, UnlinkedStaysRemovable
<1>7. Len(h.stat) = Len(graph.stat) /\ Statements(h) = Statements(graph)
  BY <1>5 DEF Unlinks, SameSize
<1>8. Frees(clean_stat(h, st.localSymbolTable)[s], Len(graph.stat), allocated, Reach(h)[s])
  <2>1. EdgesLeadOn(h) /\ TablesThere(h, allocated) BY <1>6 DEF Removable
  <2> QED BY <1>4, <1>7, <2>1, CleanFrees
<1>9. NowFreed(Reach(h)[s])
  <2> DEFINE n == Len(graph.stat)
             D == Reach(h)[s]
             q == clean_stat(h, st.localSymbolTable)[s]
  <2>1. freed \in Seq(ObjectsOf(n, allocated)) /\ freed' = freed \o q
        /\ Frees(q, n, allocated, D)
    BY <1>2, <1>3, <1>8
  <2> HIDE DEF D, q, n
  <2>2. /\ freed \o q \in Seq(ObjectsOf(n, allocated))
        /\ \A x : HasStat(freed \o q, x) <=> HasStat(freed, x) \/ x \in D
    BY <2>1, FreedGrows
  <2>3. NowFreed(D) BY <2>1, <2>2 DEF NowFreed, n
  <2> QED BY <2>3 DEF D
<1>10. h.stat[s].parentStatement = st.parentStatement
  <2>1. st.followingStatement # s
    <3>1. EdgesLeadOn(graph) /\ s \in Nat BY <1>3, <1>4 DEF Removable, Statements
    <3>2. st.followingStatement # NULL => s < st.followingStatement
      BY <1>4, <3>1, FieldNames DEF EdgesLeadOn
    <3> QED BY <1>1, <3>1, <3>2
  <2> QED BY <1>4, <1>5, <2>1 DEF Unlinks
<1> QED BY <1>1, <1>2, <1>4, <1>5, <1>6, <1>9, <1>10 DEF h

LEMMA RemovesThen ==
  ASSUME AInv, RemoveThen
  PROVE  LET s == Current.at
             e == graph.stat[s].elseStatement
         IN  /\ phase = "remove" /\ pending # << >> /\ s \in Statements(graph)
             /\ graph.stat[s].statementType = "CF_IF"
             /\ cond[s] = "false" /\ e # NULL /\ graph.stat[s].thenStatement # NULL
             /\ TakesElse(graph, graph', s) /\ Removable(graph', allocated)
             /\ cond' = [cond EXCEPT ![s] = "true"]
             /\ NowFreed(Reach(graph)[graph.stat[s].thenStatement])
             /\ pending' = Pop(pending) \o Do("follow", s, Current.fun)
                                        \o Do("visit", e, Current.fun)
<1> DEFINE s == Current.at
           st == graph.stat[s]
           t == st.thenStatement
           h == graph'
<1>1. /\ phase = "remove" /\ pending # << >> /\ s # NULL
      /\ graph.stat[s].statementType = "CF_IF"
      /\ cond[s] = "false" /\ graph.stat[s].elseStatement # NULL
      /\ cond' = [cond EXCEPT ![s] = "true"]
  BY DEF RemoveThen, Visiting, Removing, NowTrue
<1>2. /\ h = [graph EXCEPT !.stat[s].thenStatement = graph.stat[s].elseStatement,
                           !.stat[s].elseStatement = NULL]
      /\ freed' = freed \o clean_stat(graph, st.localSymbolTable)[t] \o FreesTable(graph, t)
      /\ pending' = Pop(pending) \o Do("follow", s, Current.fun)
                      \o Do("visit", st.elseStatement, Current.fun)
  BY DEF RemoveThen
<1>3. Removable(graph, allocated) /\ freed \in Seq(ObjectsOf(Len(graph.stat), allocated))
  BY DEF AInv
<1>4. s \in Statements(graph) BY <1>1, AtCurrent
<1>5. t # NULL
  <2>1. ArmsFit(graph.stat[s]) BY <1>3, <1>4 DEF Removable
  <2> QED BY <1>1, <2>1 DEF ArmsFit
<1>6. TakesElse(graph, h, s)
  <2>1. graph \in Graphs(FuncNames) BY <1>3 DEF Removable
  <2> HIDE DEF s, h
  <2> QED BY <1>2, <1>4, <2>1, ElseTaken
<1> HIDE DEF h
<1>7. Removable(h, allocated) BY <1>3, <1>4, <1>6, RearmedStaysRemovable
<1>8. EdgesLeadOn(graph) /\ TablesThere(graph, allocated) BY <1>3 DEF Removable
<1>9. t \in Statements(graph) BY <1>4, <1>5, <1>8, FieldNames DEF EdgesLeadOn
<1>10. graph.stat[t].localSymbolTable \in 1 .. allocated
  BY <1>4, <1>5, <1>8, FieldNames DEF TablesThere
<1> DEFINE n == Len(graph.stat)
           D == Reach(graph)[t]
           q == clean_stat(graph, st.localSymbolTable)[t]
           r == FreesTable(graph, t)
<1>11. Frees(q, n, allocated, D) BY <1>8, <1>9, CleanFrees
<1>12. Frees(r, n, allocated, {}) BY <1>10, BranchTableFrees
<1>13. freed \in Seq(ObjectsOf(n, allocated)) /\ freed' = freed \o q \o r BY <1>2, <1>3
<1> HIDE DEF n, D, q, r
<1>14. /\ freed \o q \o r \in Seq(ObjectsOf(n, allocated))
       /\ \A x : HasStat(freed \o q \o r, x) <=> HasStat(freed, x) \/ x \in D
  BY <1>11, <1>12, <1>13, FreedGrowsTwice
<1>15. NowFreed(D) BY <1>13, <1>14 DEF NowFreed, n
<1> QED BY <1>1, <1>2, <1>4, <1>5, <1>6, <1>7, <1>15 DEF h, D

LEMMA RemovesElse ==
  ASSUME AInv, RemoveElse
  PROVE  LET s == Current.at
             e == graph.stat[s].elseStatement
         IN  /\ phase = "remove" /\ pending # << >> /\ s \in Statements(graph)
             /\ graph.stat[s].statementType = "CF_IF" /\ cond[s] = "true"
             /\ e = NULL => graph' = graph /\ freed' = freed
             /\ e # NULL => /\ Relinks(graph, graph', s, "elseStatement", NULL)
                            /\ Removable(graph', allocated)
                            /\ NowFreed(Reach(graph)[e])
             /\ pending' = Pop(pending) \o Do("follow", s, Current.fun)
                             \o Do("visit", graph.stat[s].thenStatement, Current.fun)
<1> DEFINE s == Current.at
           st == graph.stat[s]
           e == st.elseStatement
           h == graph'
<1>1. /\ phase = "remove" /\ pending # << >> /\ s # NULL
      /\ graph.stat[s].statementType = "CF_IF" /\ cond[s] = "true"
      /\ e = NULL => graph' = graph /\ freed' = freed
      /\ pending' = Pop(pending) \o Do("follow", s, Current.fun)
                             \o Do("visit", graph.stat[s].thenStatement, Current.fun)
  BY DEF RemoveElse, Visiting, Removing
<1>2. s \in Statements(graph) BY <1>1, AtCurrent
<1>3. ASSUME e # NULL
      PROVE  /\ Relinks(graph, graph', s, "elseStatement", NULL)
             /\ Removable(graph', allocated)
             /\ NowFreed(Reach(graph)[e])
  <2>1. /\ h = [graph EXCEPT !.stat[s].elseStatement = NULL]
        /\ freed' = freed \o clean_stat(graph, st.localSymbolTable)[e] \o FreesTable(graph, e)
    BY <1>3 DEF RemoveElse
  <2>2. Removable(graph, allocated) /\ freed \in Seq(ObjectsOf(Len(graph.stat), allocated))
    BY DEF AInv
  <2>3. Relinks(graph, h, s, "elseStatement", NULL)
    <3>1. graph \in Graphs(FuncNames) BY <2>2 DEF Removable
    <3> HIDE DEF s, h
    <3> QED BY <1>2, <2>1, <3>1, ElseDropped
  <2> HIDE DEF h
  <2>4. Removable(h, allocated) BY <1>2, <2>2, <2>3, RearmedStaysRemovable
  <2>5. EdgesLeadOn(graph) /\ TablesThere(graph, allocated) BY <2>2 DEF Removable
  <2>6. e \in Statements(graph) BY <1>2, <1>3, <2>5, FieldNames DEF EdgesLeadOn
  <2>7. graph.stat[e].localSymbolTable \in 1 .. allocated
    BY <1>2, <1>3, <2>5, FieldNames DEF TablesThere
  <2> DEFINE n == Len(graph.stat)
             D == Reach(graph)[e]
             q == clean_stat(graph, st.localSymbolTable)[e]
             r == FreesTable(graph, e)
  <2>8. Frees(q, n, allocated, D) BY <2>5, <2>6, CleanFrees
  <2>9. Frees(r, n, allocated, {}) BY <2>7, BranchTableFrees
  <2>10. freed \in Seq(ObjectsOf(n, allocated)) /\ freed' = freed \o q \o r BY <2>1, <2>2
  <2> HIDE DEF n, D, q, r
  <2>11. /\ freed \o q \o r \in Seq(ObjectsOf(n, allocated))
         /\ \A x : HasStat(freed \o q \o r, x) <=> HasStat(freed, x) \/ x \in D
    BY <2>8, <2>9, <2>10, FreedGrowsTwice
  <2>12. NowFreed(D) BY <2>10, <2>11 DEF NowFreed, n
  <2> QED BY <2>3, <2>4, <2>12 DEF h, D
<1> QED BY <1>1, <1>2, <1>3

LEMMA RemoveStatementTyped ==
  ASSUME OptInv, RemoveStatement
  PROVE  OptInv'
<1> DEFINE s == Current.at
           p == graph.stat[s].parentStatement
<1>1. AInv
  <2>1. phase = "remove" BY DEF RemoveStatement, Visiting, Removing
  <2> QED BY <2>1 DEF OptInv
<1>2. /\ phase = "remove" /\ pending # << >> /\ s \in Statements(graph)
      /\ Unlinks(graph, graph', s, Current.fun) /\ Removable(graph', allocated)
      /\ NowFreed(Reach(graph')[s])
      /\ pending' = Pop(pending) \o Do("follow", p, Current.fun)
  BY <1>1, RemovesStatement
<1>3. p \in PointersIn(graph)
  <2>1. Removable(graph, allocated) BY <1>1 DEF AInv
  <2> QED BY <1>2, <2>1, PointersOfRemovable, FieldNames
<1>4. cond' = cond /\ cond \in [Conditional -> Conditions]
      /\ allocated' = allocated /\ phase' = phase
  BY <1>1, <1>2 DEF AInv, RemoveStatement
<1>5. pending' \in Seq(PendingCalls(graph))
  <2>1. Pop(pending) \in Seq(PendingCalls(graph)) /\ Current.fun \in 1 .. Len(graph.funcs)
    BY <1>1, <1>2, AtCurrent
  <2> HIDE DEF p
  <2> QED BY <1>2, <1>3, <2>1, Calling
<1>6. freed' \in Seq(ObjectsOf(Len(graph.stat), allocated)) BY <1>2 DEF NowFreed
<1>7. SameSize(graph, graph') BY <1>2 DEF Unlinks
<1> QED BY <1>2, <1>4, <1>5, <1>6, <1>7, RemovalIsTyped

LEMMA TwoCalls ==
  ASSUME AInv, pending # << >>, NEW s \in PointersIn(graph), NEW t \in PointersIn(graph)
  PROVE  Pop(pending) \o Do("follow", s, Current.fun) \o Do("visit", t, Current.fun)
           \in Seq(PendingCalls(graph))
<1>1. Pop(pending) \in Seq(PendingCalls(graph)) /\ Current.fun \in 1 .. Len(graph.funcs)
  BY AtCurrent
<1> DEFINE low == Pop(pending) \o Do("follow", s, Current.fun)
<1>2. low \in Seq(PendingCalls(graph)) BY <1>1, Calling
<1> HIDE DEF low
<1>3. low \o Do("visit", t, Current.fun) \in Seq(PendingCalls(graph)) BY <1>1, <1>2, Calling
<1> QED BY <1>3 DEF low

LEMMA RemoveThenTyped ==
  ASSUME OptInv, RemoveThen
  PROVE  OptInv'
<1> DEFINE s == Current.at
           e == graph.stat[s].elseStatement
<1>1. AInv
  <2>1. phase = "remove" BY DEF RemoveThen, Visiting, Removing
  <2> QED BY <2>1 DEF OptInv
<1>2. /\ phase = "remove" /\ pending # << >> /\ s \in Statements(graph)
      /\ TakesElse(graph, graph', s) /\ Removable(graph', allocated)
      /\ cond' = [cond EXCEPT ![s] = "true"]
      /\ NowFreed(Reach(graph)[graph.stat[s].thenStatement])
      /\ pending' = Pop(pending) \o Do("follow", s, Current.fun) \o Do("visit", e, Current.fun)
  BY <1>1, RemovesThen
<1>3. s \in PointersIn(graph) /\ e \in PointersIn(graph)
  <2>1. Removable(graph, allocated) BY <1>1 DEF AInv
  <2> QED BY <1>2, <2>1, PointersOfRemovable, FieldNames DEF PointersIn
<1>4. cond' \in [Conditional -> Conditions] /\ allocated' = allocated /\ phase' = phase
  BY <1>1, <1>2 DEF AInv, RemoveThen, Conditions
<1>5. pending' \in Seq(PendingCalls(graph))
  <2> HIDE DEF s, e
  <2> QED BY <1>1, <1>2, <1>3, TwoCalls
<1>6. freed' \in Seq(ObjectsOf(Len(graph.stat), allocated)) BY <1>2 DEF NowFreed
<1>7. SameSize(graph, graph') BY <1>2 DEF TakesElse
<1> QED BY <1>2, <1>4, <1>5, <1>6, <1>7, RemovalIsTyped

LEMMA SameIsSameSize ==
  ASSUME NEW g \in Graphs(FuncNames)
  PROVE  SameSize(g, g)
BY DEF SameSize, SameNode

LEMMA RemoveElseTyped ==
  ASSUME OptInv, RemoveElse
  PROVE  OptInv'
<1> DEFINE s == Current.at
           t == graph.stat[s].thenStatement
           e == graph.stat[s].elseStatement
<1>1. AInv
  <2>1. phase = "remove" BY DEF RemoveElse, Visiting, Removing
  <2> QED BY <2>1 DEF OptInv
<1>2. /\ phase = "remove" /\ pending # << >> /\ s \in Statements(graph)
      /\ e = NULL => graph' = graph /\ freed' = freed
      /\ e # NULL => /\ Relinks(graph, graph', s, "elseStatement", NULL)
                     /\ Removable(graph', allocated)
                     /\ NowFreed(Reach(graph)[e])
      /\ pending' = Pop(pending) \o Do("follow", s, Current.fun) \o Do("visit", t, Current.fun)
  BY <1>1, RemovesElse
<1>3. Removable(graph, allocated) /\ freed \in Seq(ObjectsOf(Len(graph.stat), allocated))
  BY <1>1 DEF AInv
<1>4. s \in PointersIn(graph) /\ t \in PointersIn(graph)
  BY <1>2, <1>3, PointersOfRemovable, FieldNames DEF PointersIn
<1>5. cond' = cond /\ cond \in [Conditional -> Conditions]
      /\ allocated' = allocated /\ phase' = phase
  BY <1>1, <1>2 DEF AInv, RemoveElse
<1>6. pending' \in Seq(PendingCalls(graph))
  <2> HIDE DEF s, t
  <2> QED BY <1>1, <1>2, <1>4, TwoCalls
<1>7. freed' \in Seq(ObjectsOf(Len(graph.stat), allocated)) BY <1>2, <1>3 DEF NowFreed
<1>8. SameSize(graph, graph') /\ Removable(graph', allocated)
  <2>1. graph \in Graphs(FuncNames) BY <1>3 DEF Removable
  <2> QED BY <1>2, <1>3, <2>1, SameIsSameSize DEF Relinks
<1> QED BY <1>2, <1>5, <1>6, <1>7, <1>8, RemovalIsTyped

(* The other steps of main(). *)
LEMMA ParseTyped ==
  ASSUME OptInv, Parse
  PROVE  OptInv'
<1>1. IInv /\ BInv /\ phase = "parse" /\ Next BY DEF OptInv, Parse
<1>2. IInv' /\ BInv' BY <1>1, NextOK, NextShape DEF StepOK
<1>3. UNCHANGED optVars BY DEF Parse
<1> QED BY <1>1, <1>2, <1>3 DEF OptInv, optVars

LEMMA FunctionCalls ==
  ASSUME NEW g, Len(g.funcs) \in Nat
  PROVE  [f \in 1 .. Len(g.funcs) |-> [op |-> "function", at |-> NULL, fun |-> f]]
           \in Seq(PendingCalls(g))
<1>1. \A f \in 1 .. Len(g.funcs) : [op |-> "function", at |-> NULL, fun |-> f] \in PendingCalls(g)
  BY DEF PendingCalls, PointersIn
<1> DEFINE c(f) == [op |-> "function", at |-> NULL, fun |-> f]
           n == Len(g.funcs)
<1>2. n \in Nat /\ \A f \in 1 .. n : c(f) \in PendingCalls(g) BY <1>1
<1> HIDE DEF c, n
<1>3. [f \in 1 .. n |-> c(f)] \in Seq(PendingCalls(g)) BY <1>2
<1> QED BY <1>3 DEF c, n

LEMMA FoldTyped ==
  ASSUME OptInv, FoldConditions
  PROVE  OptInv'
<1>1. /\ IInv /\ BInv /\ phase = "parse" /\ pending = << >> /\ freed = << >>
      /\ phase' \in {"remove", "crashed"} /\ cond' \in [Conditional -> Conditions]
      /\ pending' = EveryFunction \/ pending' = pending
      /\ graph' = graph /\ allocated' = allocated /\ freed' = freed
  BY DEF OptInv, FoldConditions, vars
<1>2. Removable(graph, allocated) BY <1>1, ParserGraphIsRemovable
<1>3. Len(graph.funcs) \in Nat
  <2>1. graph.funcs \in Seq(FunctionRecords(FuncNames)) BY <1>2 DEF Removable, Graphs
  <2> QED BY <2>1
<1>4. pending' \in Seq(PendingCalls(graph))
  <2>1. EveryFunction \in Seq(PendingCalls(graph))
    BY <1>3, FunctionCalls DEF EveryFunction, Do
  <2>2. << >> \in Seq(PendingCalls(graph)) OBVIOUS
  <2> QED BY <1>1, <2>1, <2>2
<1>5. freed \in Seq(ObjectsOf(Len(graph.stat), allocated)) BY <1>1
<1>6. Conditional' = Conditional BY <1>1 DEF Conditional
<1>7. \A s \in DOMAIN cond' : cond'[s] \in Conditions BY <1>1
<1>8. AInv' BY <1>1, <1>2, <1>4, <1>5, <1>6, <1>7 DEF AInv
<1> QED BY <1>1, <1>8 DEF OptInv

LEMMA SkipTyped ==
  ASSUME OptInv, SkipOptimiser
  PROVE  OptInv'
<1>1. /\ IInv /\ BInv /\ pending = << >> /\ freed = << >> /\ cond = << >> /\ phase' = "clean"
      /\ graph' = graph /\ allocated' = allocated /\ freed' = freed /\ cond' = cond
      /\ pending' = pending
  BY DEF OptInv, SkipOptimiser, vars
<1>2. Removable(graph, allocated) BY <1>1, ParserGraphIsRemovable
<1>3. \A s \in DOMAIN cond : cond[s] \in Conditions BY <1>1
<1>4. pending \in Seq(PendingCalls(graph)) /\ freed \in Seq(ObjectsOf(Len(graph.stat), allocated))
  BY <1>1
<1>5. AInv' BY <1>1, <1>2, <1>3, <1>4 DEF AInv
<1> QED BY <1>1, <1>5 DEF OptInv

LEMMA EndTyped ==
  ASSUME OptInv, EndOfRemoval
  PROVE  OptInv'
<1>1. AInv /\ phase' = "clean" BY DEF OptInv, EndOfRemoval
<1>2. graph' = graph /\ allocated' = allocated /\ freed' = freed /\ cond' = cond
      /\ pending' = pending
  BY DEF EndOfRemoval, vars
<1>3. AInv' BY <1>1, <1>2 DEF AInv
<1> QED BY <1>1, <1>3 DEF OptInv

LEMMA CleanAllTyped ==
  ASSUME OptInv, CleanAll
  PROVE  OptInv'
<1>1. AInv /\ phase' = "exit" BY DEF OptInv, CleanAll
<1>2. graph' = graph /\ allocated' = allocated /\ cond' = cond /\ pending' = pending
      /\ freed' = freed \o cf_clean_all(graph)
  BY DEF CleanAll, vars
<1> DEFINE S == ObjectsOf(Len(graph.stat), allocated)
           q == cf_clean_all(graph)
<1>3. Removable(graph, allocated) /\ freed \in Seq(S) BY <1>1 DEF AInv
<1>4. q \in Seq(S)
  <2>1. graph.funcs \in Seq(FunctionRecords(FuncNames)) BY <1>3 DEF Removable, Graphs
  <2>2. Len(graph.funcs) \in Nat BY <2>1
  <2>3. EdgesLeadOn(graph) /\ TablesThere(graph, allocated) /\ RootsThere(graph, allocated)
    BY <1>3 DEF Removable
  <2>4. \A f \in 1 .. Len(graph.funcs) :
          /\ graph.funcs[f].rootStatement \in {NULL} \union Statements(graph)
          /\ graph.funcs[f].symbolTable # NULL => graph.funcs[f].symbolTable \in 1 .. allocated
    BY <2>3 DEF RootsThere, PointersIn
  <2> QED BY <2>2, <2>3, <2>4, AllIsInTheGraph
<1> HIDE DEF S, q
<1>5. freed' \in Seq(S) BY <1>2, <1>3, <1>4 DEF q
<1>6. AInv' BY <1>1, <1>2, <1>5 DEF AInv, S
<1> QED BY <1>1, <1>6 DEF OptInv

LEMMA StutterTyped ==
  ASSUME OptInv, UNCHANGED <<vars, optVars>>
  PROVE  OptInv'
<1>1. /\ graph' = graph /\ symtables' = symtables /\ allocated' = allocated /\ calls' = calls
      /\ result' = result /\ finished' = finished /\ phase' = phase /\ cond' = cond
      /\ pending' = pending /\ freed' = freed /\ promised' = promised
  BY DEF vars, optVars
<1>2. [Next]_vars BY <1>1 DEF vars
<1>3. CASE phase = "parse"
  <2>1. IInv' /\ BInv' BY <1>2, <1>3, NextOK, NextShape DEF OptInv, StepOK
  <2> QED BY <1>1, <1>3, <2>1 DEF OptInv
<1>4. CASE phase # "parse"
  <2>1. Conditional' = Conditional BY <1>1 DEF Conditional
  <2>2. AInv' BY <1>1, <1>4, <2>1 DEF OptInv, AInv
  <2> QED BY <1>1, <1>4, <2>2 DEF OptInv
<1> QED BY <1>3, <1>4

LEMMA OptInitHolds == OptInit => OptInv
<1> SUFFICES ASSUME OptInit PROVE OptInv OBVIOUS
<1>1. Init BY DEF OptInit
<1>2. IInv /\ BInv BY <1>1, InitOK, InitShape
<1> QED BY <1>2 DEF OptInit, OptInv

LEMMA OptNextHolds == OptInv /\ [OptNext]_<<vars, optVars>> => OptInv'
<1> SUFFICES ASSUME OptInv, OptNext \/ UNCHANGED <<vars, optVars>> PROVE OptInv' OBVIOUS
<1>1. CASE Parse BY <1>1, ParseTyped
<1>2. CASE FoldConditions BY <1>2, FoldTyped
<1>3. CASE SkipOptimiser BY <1>3, SkipTyped
<1>4. CASE VisitFunction BY <1>4, VisitFunctionTyped
<1>5. CASE RemoveStatement BY <1>5, RemoveStatementTyped
<1>6. CASE RemoveThen BY <1>6, RemoveThenTyped
<1>7. CASE RemoveElse BY <1>7, RemoveElseTyped
<1>8. CASE VisitBranches \/ VisitBody \/ VisitOther \/ Follow BY <1>8, VisitsTyped
<1>9. CASE EndOfRemoval BY <1>9, EndTyped
<1>10. CASE CleanAll BY <1>10, CleanAllTyped
<1>11. CASE UNCHANGED <<vars, optVars>> BY <1>11, StutterTyped
<1> QED
  BY <1>1, <1>2, <1>3, <1>4, <1>5, <1>6, <1>7, <1>8, <1>9, <1>10, <1>11 DEF OptNext

(* remove_dead_code of optimiser.c visits only statements of the graph,    *)
(* and it and clean_stat free only statements and tables that the parser   *)
(* made, whatever the conditions were folded to: also in the programs in   *)
(* which it unlinks the wrong statement.                                   *)
THEOREM RemovalIsTypeCorrect == OptSpec => []OptTypeOK
<1>1. OptInit => OptInv BY OptInitHolds
<1>2. OptInv /\ [OptNext]_<<vars, optVars>> => OptInv' BY OptNextHolds
<1>3. OptInv => OptTypeOK BY OptInvIsTyped
<1> QED BY <1>1, <1>2, <1>3, PTL DEF OptSpec

-----------------------------------------------------------------------------
(* The statements that are kept, in a program without a dead `else if'.    *)

(* An edge between kept statements: the other end names its parent, and no *)
(* other edge of the parent leads there.                                   *)
EdgeIsLinked(g, K, s, field) ==
  LET t == g.stat[s][field]
  IN  t # NULL =>
        /\ t \in K
        /\ g.stat[t].parentStatement = s
        /\ \A other \in Edges : g.stat[s][other] = t => other = field

RootIsLinked(g, K, f) ==
  LET root == g.funcs[f].rootStatement
  IN  root # NULL =>
        /\ root \in K
        /\ g.stat[root].parentStatement = NULL
        /\ \A k \in 1 .. Len(g.funcs) : g.funcs[k].rootStatement = root => k = f

Hangs(g, K, s) ==
  \/ \E f \in 1 .. Len(g.funcs) : g.funcs[f].rootStatement = s
  \/ \E y \in K : \E field \in Edges : g.stat[y][field] = s

Linked(g, K) ==
  /\ K \subseteq Statements(g)
  /\ \A s \in K : \A field \in Edges : EdgeIsLinked(g, K, s, field)
  /\ \A f \in 1 .. Len(g.funcs) : RootIsLinked(g, K, f)
  /\ \A s \in K : Hangs(g, K, s)

(* A set that no edge leaves. *)
ClosedIn(g, K) ==
  \A s \in K : \A field \in Edges : g.stat[s][field] # NULL => g.stat[s][field] \in K

LEMMA ReachStays ==
  ASSUME NEW g, EdgesLeadOn(g), NEW K, ClosedIn(g, K)
  PROVE  \A d \in Statements(g) : d \in K => Reach(g)[d] \subseteq K
<1> DEFINE c == Reach(g)
           N == Len(g.stat)
           T == {d \in Statements(g) : d \in K => c[d] \subseteq K}
<1>0. N \in Nat /\ Statements(g) = 1 .. N BY DEF EdgesLeadOn, Statements
<1>1. \A s \in Statements(g) : \A x :
        x \in c[s] <=> x = s \/ \E field \in Edges : x \in c[g.stat[s][field]]
  BY ReachHas
<1>2. c[NULL] = {} BY ReachUnfolds
<1> HIDE DEF c
<1>3. ASSUME NEW s \in 1 .. N, \A t \in 1 .. N : s < t => t \in T PROVE s \in T
  <2>1. s \in Statements(g) BY <1>0
  <2>2. ASSUME s \in K, NEW x \in c[s] PROVE x \in K
    <3>1. CASE x = s BY <2>2, <3>1
    <3>2. CASE x # s
      <4>1. PICK field \in Edges : x \in c[g.stat[s][field]] BY <1>1, <2>1, <2>2, <3>2
      <4>2. g.stat[s][field] # NULL BY <1>2, <4>1
      <4>3. g.stat[s][field] \in Statements(g) /\ s < g.stat[s][field] /\ g.stat[s][field] \in K
        BY <2>1, <2>2, <4>2 DEF EdgesLeadOn, ClosedIn
      <4>4. c[g.stat[s][field]] \subseteq K BY <1>0, <1>3, <4>3
      <4> QED BY <4>1, <4>4
    <3> QED BY <3>1, <3>2
  <2> QED BY <2>1, <2>2
<1>4. \A d \in 1 .. N : d \in T
  <2>1. N \in Nat BY <1>0
  <2> HIDE DEF T, N
  <2> QED BY <1>3, <2>1, FromTheEnd
<1> QED BY <1>0, <1>4 DEF c

(* What is kept is what the roots lead to.                                 *)
LEMMA KeptIsReached ==
  ASSUME NEW g, EdgesLeadOn(g), NEW K, Linked(g, K)
  PROVE  K = UNION {Reach(g)[g.funcs[f].rootStatement] : f \in 1 .. Len(g.funcs)}
<1> DEFINE c == Reach(g)
           U == UNION {c[g.funcs[f].rootStatement] : f \in 1 .. Len(g.funcs)}
           Lost == {s \in K : s \notin U}
<1>1. c[NULL] = {} BY ReachUnfolds
<1>2. ClosedIn(g, K) BY DEF ClosedIn, Linked, EdgeIsLinked
<1>3. K \subseteq Statements(g) /\ Statements(g) \subseteq Nat
  BY DEF Linked, Statements, EdgesLeadOn
<1>4. \A d \in Statements(g) : ReachedRight(g, c[d], d) BY ReachIsRight
<1>5. \A d \in Statements(g) : d \in K => c[d] \subseteq K BY <1>2, ReachStays
<1> HIDE DEF c
<1>6. U \subseteq K
  <2> SUFFICES ASSUME NEW f \in 1 .. Len(g.funcs) PROVE c[g.funcs[f].rootStatement] \subseteq K
    OBVIOUS
  <2>1. CASE g.funcs[f].rootStatement = NULL BY <1>1, <2>1
  <2>2. CASE g.funcs[f].rootStatement # NULL
    <3>1. g.funcs[f].rootStatement \in K BY <2>2 DEF Linked, RootIsLinked
    <3> QED BY <1>3, <1>5, <3>1
  <2> QED BY <2>1, <2>2
<1>7. Lost = {}
  <2> SUFFICES ASSUME Lost # {} PROVE FALSE OBVIOUS
  <2>1. PICK s \in Lost : \A t \in Lost : s <= t
    <3>1. Lost \in SUBSET Nat BY <1>3
    <3> HIDE DEF Lost
    <3> QED BY <3>1, LeastNumber
  <2>2. s \in K /\ s \notin U /\ s \in Statements(g) BY <1>3
  <2>3. \A f \in 1 .. Len(g.funcs) : g.funcs[f].rootStatement # s
    <3> SUFFICES ASSUME NEW f \in 1 .. Len(g.funcs), g.funcs[f].rootStatement = s PROVE FALSE
      OBVIOUS
    <3>1. s \in c[s] BY <1>4, <2>2 DEF ReachedRight
    <3>2. c[s] \subseteq U OBVIOUS
    <3> QED BY <2>2, <3>1, <3>2
  <2>4. PICK y \in K : \E field \in Edges : g.stat[y][field] = s
    BY <2>2, <2>3 DEF Linked, Hangs
  <2>5. PICK field \in Edges : g.stat[y][field] = s BY <2>4
  <2>6. s # NULL BY <2>2 DEF Statements, NULL
  <2>7. y \in Statements(g) /\ y < s BY <1>3, <2>5, <2>6 DEF EdgesLeadOn
  <2>8. ~ (s <= y) BY <1>3, <2>2, <2>7
  <2>9. y \in U BY <2>1, <2>4, <2>8
  <2>10. PICK f \in 1 .. Len(g.funcs) : y \in c[g.funcs[f].rootStatement] BY <2>9
  <2>11. g.funcs[f].rootStatement # NULL BY <1>1, <2>10
  <2>12. g.funcs[f].rootStatement \in Statements(g) BY <1>3, <2>11 DEF Linked, RootIsLinked
  <2>13. s \in c[g.funcs[f].rootStatement]
    BY <1>4, <2>5, <2>6, <2>10, <2>12 DEF ReachedRight
  <2>14. c[g.funcs[f].rootStatement] \subseteq U OBVIOUS
  <2> QED BY <2>2, <2>13, <2>14
<1> QED BY <1>6, <1>7 DEF c

-----------------------------------------------------------------------------
(* What is cut off: the statements that hang on d, among those that are    *)
(* kept.                                                                   *)

Inner(g, K, D, d) ==
  /\ D \subseteq K /\ d \in D
  /\ \A x \in D : d <= x
  /\ \A x \in D : x # d => \E y \in D : \E field \in Edges : g.stat[y][field] = x

LEMMA InnerParents ==
  ASSUME NEW g, EdgesLeadOn(g), NEW K, Linked(g, K), NEW D, NEW d, Inner(g, K, D, d)
  PROVE  /\ \A x \in D : x # d => g.stat[x].parentStatement \in D
         /\ \A x \in K \ D : \A field \in Edges : g.stat[x][field] \in D => g.stat[x][field] = d
         /\ \A f \in 1 .. Len(g.funcs) : g.funcs[f].rootStatement \in D => g.funcs[f].rootStatement = d
         /\ NULL \notin D /\ NULL \notin K
<1>1. NULL \notin K /\ NULL \notin D BY DEF Inner, Linked, Statements, NULL
<1>2. ASSUME NEW x \in D, x # d
      PROVE  \E y \in D : g.stat[x].parentStatement = y
  <2>1. PICK y \in D : \E field \in Edges : g.stat[y][field] = x BY <1>2 DEF Inner
  <2>2. PICK field \in Edges : g.stat[y][field] = x BY <2>1
  <2>3. y \in K /\ x # NULL BY <1>1 DEF Inner
  <2>4. EdgeIsLinked(g, K, y, field) BY <2>3 DEF Linked
  <2>5. g.stat[x].parentStatement = y BY <2>2, <2>3, <2>4 DEF EdgeIsLinked
  <2> QED BY <2>5
<1>3. \A x \in D : x # d => g.stat[x].parentStatement \in D BY <1>2
<1>4. ASSUME NEW x \in K \ D, NEW field \in Edges, g.stat[x][field] \in D, g.stat[x][field] # d
      PROVE  FALSE
  <2>1. EdgeIsLinked(g, K, x, field) BY DEF Linked
  <2>2. g.stat[x][field] # NULL BY <1>1, <1>4
  <2>3. g.stat[g.stat[x][field]].parentStatement = x BY <2>1, <2>2 DEF EdgeIsLinked
  <2>4. x \in D BY <1>3, <1>4, <2>3
  <2> QED BY <2>4
<1>5. ASSUME NEW f \in 1 .. Len(g.funcs), g.funcs[f].rootStatement \in D,
             g.funcs[f].rootStatement # d
      PROVE  FALSE
  <2>1. g.funcs[f].rootStatement # NULL /\ RootIsLinked(g, K, f) BY <1>1, <1>5 DEF Linked
  <2>2. g.stat[g.funcs[f].rootStatement].parentStatement = NULL BY <2>1 DEF RootIsLinked
  <2>3. NULL \in D BY <1>3, <1>5, <2>2
  <2> QED BY <1>1, <2>3
<1> QED BY <1>1, <1>3, <1>4, <1>5

(* A branch that is cut off. *)
LEMMA BranchIsInner ==
  ASSUME NEW g, EdgesLeadOn(g), NEW K, Linked(g, K), NEW d \in K
  PROVE  Inner(g, K, Reach(g)[d], d) /\ ClosedIn(g, Reach(g)[d])
<1>1. d \in Statements(g) BY DEF Linked
<1>2. ReachedRight(g, Reach(g)[d], d) BY <1>1, ReachIsRight
<1>3. ClosedIn(g, K) BY DEF ClosedIn, Linked, EdgeIsLinked
<1>4. Reach(g)[d] \subseteq K BY <1>1, <1>3, ReachStays
<1> DEFINE D == Reach(g)[d]
<1> HIDE DEF D
<1>5. ReachedRight(g, D, d) /\ D \subseteq K BY <1>2, <1>4 DEF D
<1>6. Inner(g, K, D, d) /\ ClosedIn(g, D) BY <1>5 DEF ReachedRight, Inner, ClosedIn
<1> QED BY <1>6 DEF D

Rearms(g, h, s, arm) ==
  \/ arm = "thenStatement" /\ TakesElse(g, h, s)
  \/ arm = "elseStatement" /\ Relinks(g, h, s, "elseStatement", NULL)

LEMMA RearmedEdges ==
  ASSUME NEW g, NEW h, NEW s \in Statements(g), NEW arm, Rearms(g, h, s, arm)
  PROVE  /\ arm \in ArmLinks /\ SameSize(g, h) /\ h.funcs = g.funcs
         /\ \A y \in Statements(g) :
              /\ h.stat[y].parentStatement = g.stat[y].parentStatement
              /\ h.stat[y].followingStatement = g.stat[y].followingStatement
              /\ y # s => \A field \in Edges : h.stat[y][field] = g.stat[y][field]
         /\ \A field \in Edges : h.stat[s][field] # NULL =>
              \E from \in Edges \ {arm} : h.stat[s][field] = g.stat[s][from]
         /\ \A field \in Edges \ {arm} :
              \E to \in Edges : h.stat[s][to] = g.stat[s][field]
         /\ \A field \in Edges : \A other \in Edges : other # field =>
              \/ h.stat[s][field] = NULL \/ h.stat[s][other] = NULL
              \/ \E from \in Edges : \E also \in Edges \ {from} :
                   h.stat[s][field] = g.stat[s][from] /\ h.stat[s][other] = g.stat[s][also]
<1>1. CASE arm = "thenStatement" /\ TakesElse(g, h, s)
  <2>1. /\ h.stat[s].thenStatement = g.stat[s].elseStatement /\ h.stat[s].elseStatement = NULL
        /\ h.stat[s].bodyStatement = g.stat[s].bodyStatement
        /\ h.stat[s].followingStatement = g.stat[s].followingStatement
    BY <1>1 DEF TakesElse, Links, Edges
  <2>2. /\ SameSize(g, h) /\ h.funcs = g.funcs
        /\ \A y \in Statements(g) :
              /\ h.stat[y].parentStatement = g.stat[y].parentStatement
              /\ h.stat[y].followingStatement = g.stat[y].followingStatement
              /\ y # s => \A field \in Edges : h.stat[y][field] = g.stat[y][field]
    BY <1>1, FieldNames DEF TakesElse
  <2> QED BY <1>1, <2>1, <2>2 DEF Edges, ArmLinks
<1>2. CASE arm = "elseStatement" /\ Relinks(g, h, s, "elseStatement", NULL)
  <2>1. /\ h.stat[s].thenStatement = g.stat[s].thenStatement /\ h.stat[s].elseStatement = NULL
        /\ h.stat[s].bodyStatement = g.stat[s].bodyStatement
        /\ h.stat[s].followingStatement = g.stat[s].followingStatement
    BY <1>2 DEF Relinks, Links, Edges
  <2>2. /\ SameSize(g, h) /\ h.funcs = g.funcs
        /\ \A y \in Statements(g) :
              /\ h.stat[y].parentStatement = g.stat[y].parentStatement
              /\ h.stat[y].followingStatement = g.stat[y].followingStatement
              /\ y # s => \A field \in Edges : h.stat[y][field] = g.stat[y][field]
    BY <1>2, FieldNames DEF Relinks
  <2> QED BY <1>2, <2>1, <2>2 DEF Edges, ArmLinks
<1> QED BY <1>1, <1>2 DEF Rearms

LEMMA RearmedIsLinked ==
  ASSUME NEW g, EdgesLeadOn(g), NEW K, Linked(g, K), NEW s \in K, NEW arm, NEW h,
         Rearms(g, h, s, arm), g.stat[s][arm] # NULL, NEW D, D = Reach(g)[g.stat[s][arm]]
  PROVE  Linked(h, K \ D)
<1> DEFINE d == g.stat[s][arm]
<1>1. K \subseteq Statements(g) /\ s \in Statements(g) BY DEF Linked
<1>2. /\ arm \in ArmLinks /\ SameSize(g, h) /\ h.funcs = g.funcs
      /\ \A y \in Statements(g) :
           /\ h.stat[y].parentStatement = g.stat[y].parentStatement
           /\ y # s => \A field \in Edges : h.stat[y][field] = g.stat[y][field]
      /\ \A field \in Edges : h.stat[s][field] # NULL =>
           \E from \in Edges \ {arm} : h.stat[s][field] = g.stat[s][from]
      /\ \A field \in Edges \ {arm} :
           \E to \in Edges : h.stat[s][to] = g.stat[s][field]
      /\ \A field \in Edges : \A other \in Edges : other # field =>
           \/ h.stat[s][field] = NULL \/ h.stat[s][other] = NULL
           \/ \E from \in Edges : \E also \in Edges \ {from} :
                h.stat[s][field] = g.stat[s][from] /\ h.stat[s][other] = g.stat[s][also]
  BY <1>1, RearmedEdges
<1>3. EdgeIsLinked(g, K, s, arm) /\ arm \in Edges BY <1>2, FieldNames DEF Linked
<1>4. /\ d \in K /\ g.stat[d].parentStatement = s
      /\ \A other \in Edges : g.stat[s][other] = d => other = arm
  BY <1>3 DEF EdgeIsLinked
<1>5. d \in Statements(g) /\ s < d /\ Statements(g) \subseteq Nat
  BY <1>1, <1>3 DEF EdgesLeadOn, Statements
<1> HIDE DEF d
<1>6. Inner(g, K, D, d) /\ ClosedIn(g, D) BY <1>4, BranchIsInner DEF d
<1>7. /\ \A x \in D : x # d => g.stat[x].parentStatement \in D
      /\ \A x \in K \ D : \A field \in Edges : g.stat[x][field] \in D => g.stat[x][field] = d
      /\ \A f \in 1 .. Len(g.funcs) : g.funcs[f].rootStatement \in D => g.funcs[f].rootStatement = d
      /\ NULL \notin D /\ NULL \notin K
  BY <1>6, InnerParents
<1>8. s \notin D BY <1>1, <1>5, <1>6 DEF Inner
<1>9. ASSUME NEW y \in K \ D, NEW field \in Edges, h.stat[y][field] # NULL
      PROVE  \E from \in Edges : /\ h.stat[y][field] = g.stat[y][from]
                                 /\ y = s => from # arm
                                 /\ y # s => from = field
  BY <1>1, <1>2, <1>9
<1>10. ASSUME NEW y \in K \ D, NEW field \in Edges, h.stat[y][field] # NULL
       PROVE  /\ h.stat[y][field] \in K \ D
              /\ h.stat[h.stat[y][field]].parentStatement = y
  <2>1. PICK from \in Edges : h.stat[y][field] = g.stat[y][from] /\ (y = s => from # arm)
    BY <1>9, <1>10
  <2> DEFINE t == h.stat[y][field]
  <2>2. EdgeIsLinked(g, K, y, from) BY DEF Linked
  <2>3. t \in K /\ g.stat[t].parentStatement = y /\ g.stat[y][from] = t
    BY <1>10, <2>1, <2>2 DEF EdgeIsLinked
  <2> HIDE DEF t
  <2>4. t \notin D
    <3> SUFFICES ASSUME t \in D PROVE FALSE OBVIOUS
    <3>1. t = d BY <1>7, <2>3
    <3>2. y = s /\ from = arm BY <1>4, <2>3, <3>1
    <3> QED BY <2>1, <3>2
  <2>5. h.stat[t].parentStatement = y BY <1>1, <1>2, <2>3
  <2> QED BY <2>3, <2>4, <2>5 DEF t
<1>11. ASSUME NEW y \in K \ D, NEW field \in Edges, h.stat[y][field] # NULL,
              NEW other \in Edges, h.stat[y][other] = h.stat[y][field], other # field
       PROVE  FALSE
  <2>1. \E from \in Edges : \E also \in Edges \ {from} :
          h.stat[y][field] = g.stat[y][from] /\ h.stat[y][other] = g.stat[y][also]
    <3>1. CASE y = s
      <4>1. h.stat[s][field] # NULL /\ h.stat[s][other] # NULL BY <1>11, <3>1
      <4> QED BY <1>2, <1>11, <3>1, <4>1
    <3>2. CASE y # s
      <4>1. h.stat[y][field] = g.stat[y][field] /\ h.stat[y][other] = g.stat[y][other]
        BY <1>1, <1>2, <3>2
      <4> QED BY <1>11, <4>1
    <3> QED BY <3>1, <3>2
  <2>2. PICK from \in Edges : \E also \in Edges \ {from} :
          h.stat[y][field] = g.stat[y][from] /\ h.stat[y][other] = g.stat[y][also]
    BY <2>1
  <2>3. PICK also \in Edges \ {from} :
          h.stat[y][field] = g.stat[y][from] /\ h.stat[y][other] = g.stat[y][also]
    BY <2>2
  <2>4. EdgeIsLinked(g, K, y, from) BY DEF Linked
  <2> QED BY <1>11, <2>3, <2>4 DEF EdgeIsLinked
<1>12. \A y \in K \ D : \A field \in Edges : EdgeIsLinked(h, K \ D, y, field)
  BY <1>10, <1>11 DEF EdgeIsLinked
<1>13. ASSUME NEW f \in 1 .. Len(g.funcs) PROVE RootIsLinked(h, K \ D, f)
  <2> DEFINE root == g.funcs[f].rootStatement
  <2>1. RootIsLinked(g, K, f) BY DEF Linked
  <2>2. ASSUME root # NULL PROVE root \in K \ D /\ h.stat[root].parentStatement = NULL
    <3>1. root \in K /\ g.stat[root].parentStatement = NULL BY <2>1, <2>2 DEF RootIsLinked
    <3>2. s # NULL BY <1>7
    <3>3. root # d BY <1>4, <3>1, <3>2
    <3> QED BY <1>1, <1>2, <1>7, <3>1, <3>3
  <2> QED BY <1>2, <2>1, <2>2 DEF RootIsLinked
<1>14. ASSUME NEW x \in K \ D PROVE Hangs(h, K \ D, x)
  <2>1. Hangs(g, K, x) BY DEF Linked
  <2>2. CASE \E f \in 1 .. Len(g.funcs) : g.funcs[f].rootStatement = x
    BY <1>2, <2>2 DEF Hangs, SameSize
  <2>3. CASE \E y \in K : \E field \in Edges : g.stat[y][field] = x
    <3>1. PICK y \in K : \E field \in Edges : g.stat[y][field] = x BY <2>3
    <3>2. PICK field \in Edges : g.stat[y][field] = x BY <3>1
    <3>3. y \notin D
      <4> SUFFICES ASSUME y \in D PROVE FALSE OBVIOUS
      <4>1. x # NULL BY <1>7
      <4>2. x \in D BY <1>6, <3>2, <4>1 DEF ClosedIn
      <4> QED BY <4>2
    <3>4. CASE y # s BY <1>1, <1>2, <3>2, <3>3, <3>4 DEF Hangs
    <3>5. CASE y = s
      <4>1. field # arm BY <1>6, <3>2, <3>5 DEF Inner, d
      <4>2. PICK to \in Edges : h.stat[s][to] = g.stat[s][field] BY <1>2, <4>1
      <4> QED BY <3>2, <3>3, <3>5, <4>2 DEF Hangs
    <3> QED BY <3>4, <3>5
  <2> QED BY <2>1, <2>2, <2>3 DEF Hangs
<1>15. K \ D \subseteq Statements(h) /\ Len(h.funcs) = Len(g.funcs) BY <1>1, <1>2 DEF SameSize
<1> QED BY <1>12, <1>13, <1>14, <1>15 DEF Linked

(* A statement that is unlinked: it follows its parent, or it is a root.   *)
FollowsOrRoot(g, K, s, f) ==
  \/ IsRootOf(g, s, f)
  \/ /\ ~ IsRootOf(g, s, f)
     /\ g.stat[s].parentStatement \in K
     /\ g.stat[g.stat[s].parentStatement].followingStatement = s

(* The edge that is redirected past s. *)
Redirected(g, s, f, y, field) ==
  ~ IsRootOf(g, s, f) /\ y = g.stat[s].parentStatement /\ field = "followingStatement"

EdgeAfter(g, h, s, f, y, field) ==
  /\ y = s /\ field = "followingStatement" => h.stat[y][field] = NULL
  /\ y # s /\ Redirected(g, s, f, y, field) => h.stat[y][field] = g.stat[s].followingStatement
  /\ ~ (y = s /\ field = "followingStatement") /\ ~ Redirected(g, s, f, y, field) =>
       h.stat[y][field] = g.stat[y][field]

LEMMA UnlinkedEdges ==
  ASSUME NEW g, NEW h, NEW s \in Statements(g), NEW f, Unlinks(g, h, s, f)
  PROVE  \A y \in Statements(g) : \A field \in Edges : EdgeAfter(g, h, s, f, y, field)
<1> SUFFICES ASSUME NEW y \in Statements(g), NEW field \in Edges
             PROVE  EdgeAfter(g, h, s, f, y, field)
  OBVIOUS
<1>1. CASE field = "followingStatement" BY <1>1 DEF Unlinks, Redirected, EdgeAfter
<1>2. CASE field \in ArmLinks
  <2>1. field # "followingStatement" BY <1>2, FieldNames
  <2>2. h.stat[y][field] = g.stat[y][field] BY <1>2 DEF Unlinks
  <2> QED BY <2>1, <2>2 DEF Redirected, EdgeAfter
<1> QED BY <1>1, <1>2, FieldNames

(* What is cut off with s, and what follows s. *)
LEMMA UnlinkedIsInner ==
  ASSUME NEW g, EdgesLeadOn(g), NEW K, Linked(g, K), NEW s \in K, NEW f,
         NEW h, Unlinks(g, h, s, f), EdgesLeadOn(h), FollowsOrRoot(g, K, s, f),
         NEW D, D = Reach(h)[s]
  PROVE  /\ ClosedIn(h, K)
         /\ D \subseteq K /\ s \in D /\ NULL \notin K
         /\ \A x \in D : s <= x
         /\ ClosedIn(h, D)
         /\ \A x \in D : x # s => g.stat[x].parentStatement \in D
         /\ g.stat[s].followingStatement \notin D
         /\ g.stat[s].followingStatement # NULL =>
              /\ g.stat[s].followingStatement \in K /\ s < g.stat[s].followingStatement
              /\ g.stat[g.stat[s].followingStatement].parentStatement = s
<1> DEFINE n == g.stat[s].followingStatement
           p == g.stat[s].parentStatement
           following == "followingStatement"
<1>1. K \subseteq Statements(g) /\ s \in Statements(g) /\ Statements(g) \subseteq Nat
  BY DEF Linked, EdgesLeadOn, Statements
<1>2. NULL \notin K BY DEF Linked, Statements, NULL
<1>3. SameSize(g, h) BY DEF Unlinks
<1>4. following \in Edges BY DEF Edges
<1>5. \A y \in K : \A field \in Edges :
         /\ y = s /\ field = following => h.stat[y][field] = NULL
         /\ y # s /\ Redirected(g, s, f, y, field) => h.stat[y][field] = n
         /\ ~ (y = s /\ field = following) /\ ~ Redirected(g, s, f, y, field) =>
              h.stat[y][field] = g.stat[y][field]
  <2>1. \A y \in Statements(g) : \A field \in Edges : EdgeAfter(g, h, s, f, y, field)
    BY <1>1, UnlinkedEdges
  <2> QED BY <1>1, <2>1 DEF EdgeAfter
<1>6. \A y \in K : \A field \in Edges : EdgeIsLinked(g, K, y, field) BY DEF Linked
<1>7. n # NULL => n \in K /\ g.stat[n].parentStatement = s /\ s < n
                  /\ \A other \in Edges : g.stat[s][other] = n => other = following
  <2>1. EdgeIsLinked(g, K, s, following) BY <1>4, <1>6
  <2>2. n # NULL => s < n BY <1>1, <1>4 DEF EdgesLeadOn
  <2>3. n = g.stat[s][following] OBVIOUS
  <2> QED BY <2>1, <2>2, <2>3 DEF EdgeIsLinked
<1>8. ~ IsRootOf(g, s, f) => p \in K /\ p < s /\ g.stat[p].followingStatement = s
  <2> SUFFICES ASSUME ~ IsRootOf(g, s, f) PROVE p \in K /\ p < s /\ g.stat[p].followingStatement = s
    OBVIOUS
  <2>1. p \in K /\ g.stat[p].followingStatement = s BY DEF FollowsOrRoot
  <2>2. s # NULL BY <1>2
  <2> QED BY <1>1, <1>4, <2>1, <2>2 DEF EdgesLeadOn
<1>9. ClosedIn(h, K)
  <2> SUFFICES ASSUME NEW y \in K, NEW field \in Edges, h.stat[y][field] # NULL
               PROVE  h.stat[y][field] \in K
    BY DEF ClosedIn
  <2>1. EdgeIsLinked(g, K, y, field) BY <1>6
  <2>2. CASE y = s /\ field = following BY <1>5, <2>2
  <2>3. CASE y # s /\ Redirected(g, s, f, y, field)
    <3>1. h.stat[y][field] = n BY <1>5, <2>3
    <3> QED BY <1>7, <3>1
  <2>4. CASE ~ (y = s /\ field = following) /\ ~ Redirected(g, s, f, y, field)
    <3>1. h.stat[y][field] = g.stat[y][field] BY <1>5, <2>4
    <3> QED BY <2>1, <3>1 DEF EdgeIsLinked
  <2>5. ASSUME y = s, Redirected(g, s, f, y, field) PROVE FALSE
    BY <1>1, <1>8, <2>5 DEF Redirected
  <2> QED BY <2>2, <2>3, <2>4, <2>5
<1>10. s \in Statements(h) /\ Statements(h) = Statements(g) BY <1>1, <1>3 DEF SameSize
<1>11. D \subseteq K BY <1>9, <1>10, ReachStays
<1>12. ReachedRight(h, D, s) BY <1>10, ReachIsRight
<1>13. ASSUME NEW x \in D, x # s
       PROVE  \E y \in D : \E field \in Edges :
                g.stat[y][field] = x /\ (y = s => field # following)
  <2>1. PICK y \in D : \E field \in Edges : h.stat[y][field] = x BY <1>12, <1>13 DEF ReachedRight
  <2>2. PICK field \in Edges : h.stat[y][field] = x BY <2>1
  <2>3. y \in K /\ x \in K /\ s <= y BY <1>11, <1>12 DEF ReachedRight
  <2>4. ~ (y = s /\ field = following) BY <1>2, <1>5, <2>2, <2>3
  <2>5. ~ Redirected(g, s, f, y, field)
    <3> SUFFICES ASSUME Redirected(g, s, f, y, field) PROVE FALSE OBVIOUS
    <3>1. y = p /\ p < s BY <1>8 DEF Redirected
    <3>2. y \in Nat /\ s \in Nat BY <1>1, <2>3
    <3> HIDE DEF p
    <3> QED BY <2>3, <3>1, <3>2
  <2>6. g.stat[y][field] = x BY <1>5, <2>2, <2>3, <2>4, <2>5
  <2> QED BY <2>4, <2>6
<1>14. ASSUME NEW x \in D, x # s PROVE g.stat[x].parentStatement \in D /\ x # n
  <2>1. PICK y \in D : \E field \in Edges : g.stat[y][field] = x /\ (y = s => field # following)
    BY <1>13, <1>14
  <2>2. PICK field \in Edges : g.stat[y][field] = x /\ (y = s => field # following) BY <2>1
  <2>3. y \in K /\ x # NULL BY <1>2, <1>11
  <2>4. g.stat[x].parentStatement = y BY <1>6, <2>2, <2>3 DEF EdgeIsLinked
  <2>5. ASSUME x = n PROVE FALSE
    <3>1. y = s BY <1>7, <2>3, <2>4, <2>5
    <3>2. field = following BY <1>7, <2>2, <2>3, <2>5, <3>1
    <3> QED BY <2>2, <3>1, <3>2
  <2> QED BY <2>4, <2>5
<1>15. n \notin D
  <2>1. NULL \notin D BY <1>2, <1>11
  <2>2. n # NULL => n # s BY <1>1, <1>7
  <2> QED BY <1>14, <2>1, <2>2
<1>16. ClosedIn(h, D) BY <1>12 DEF ReachedRight, ClosedIn
<1>17. \A x \in D : s <= x BY <1>12 DEF ReachedRight
<1>18. s \in D BY <1>12 DEF ReachedRight
<1>19. \A x \in D : x # s => g.stat[x].parentStatement \in D BY <1>14
<1>20. n # NULL => n \in K /\ s < n /\ g.stat[n].parentStatement = s BY <1>7
<1> QED BY <1>2, <1>9, <1>11, <1>15, <1>16, <1>17, <1>18, <1>19, <1>20

(* The edges of what is kept, and the old edge each of them comes from. *)
KeptEdge(g, h, s, f, y, field) ==
  \/ h.stat[y][field] = g.stat[y][field] /\ ~ Redirected(g, s, f, y, field)
  \/ h.stat[y][field] = g.stat[s].followingStatement /\ Redirected(g, s, f, y, field)

LEMMA UnlinkedIsLinked ==
  ASSUME NEW g, EdgesLeadOn(g), NEW K, Linked(g, K), NEW s \in K, NEW f,
         NEW h, Unlinks(g, h, s, f), EdgesLeadOn(h), FollowsOrRoot(g, K, s, f),
         f \in 1 .. Len(g.funcs), NEW D, D = Reach(h)[s]
  PROVE  Linked(h, K \ D)
<1> DEFINE n == g.stat[s].followingStatement
           p == g.stat[s].parentStatement
           following == "followingStatement"
           L == K \ D
<1>1. K \subseteq Statements(g) /\ Statements(g) \subseteq Nat
  BY DEF Linked, EdgesLeadOn, Statements
<1>2. /\ ClosedIn(h, K)
      /\ D \subseteq K /\ s \in D /\ NULL \notin K
      /\ \A x \in D : s <= x
      /\ ClosedIn(h, D)
      /\ \A x \in D : x # s => g.stat[x].parentStatement \in D
      /\ n \notin D
      /\ n # NULL => n \in K /\ s < n /\ g.stat[n].parentStatement = s
  BY UnlinkedIsInner
<1>3. \A y \in K : \A field \in Edges : EdgeAfter(g, h, s, f, y, field)
  BY <1>1, UnlinkedEdges
<1>4. \A y \in L : \A field \in Edges : KeptEdge(g, h, s, f, y, field)
  BY <1>2, <1>3 DEF EdgeAfter, KeptEdge
<1>5. \A y \in K : \A field \in Edges : EdgeIsLinked(g, K, y, field) BY DEF Linked
<1>6. /\ SameSize(g, h) /\ Statements(h) = Statements(g) /\ Len(h.funcs) = Len(g.funcs)
      /\ \A y \in Statements(g) : h.stat[y].parentStatement = IF y = n THEN Above(g, s, f)
                                                              ELSE g.stat[y].parentStatement
      /\ \A k \in 1 .. Len(g.funcs) :
           h.funcs[k].rootStatement = IF IsRootOf(g, s, f) /\ k = f THEN n
                                      ELSE g.funcs[k].rootStatement
  BY DEF Unlinks, SameSize
<1>7. ~ IsRootOf(g, s, f) =>
        p \in K /\ p < s /\ p \notin D /\ Above(g, s, f) = p /\ g.stat[p].followingStatement = s
  <2> SUFFICES ASSUME ~ IsRootOf(g, s, f)
               PROVE  p \in K /\ p < s /\ p \notin D /\ Above(g, s, f) = p
                        /\ g.stat[p].followingStatement = s
    OBVIOUS
  <2>1. p \in K /\ g.stat[p].followingStatement = s BY DEF FollowsOrRoot
  <2>2. Above(g, s, f) = p BY DEF Above
  <2> HIDE DEF p
  <2>3. s # NULL /\ following \in Edges BY <1>2 DEF Edges
  <2>4. p \in Nat /\ s \in Nat BY <1>1, <2>1
  <2>5. p < s BY <1>1, <2>1, <2>3 DEF EdgesLeadOn
  <2>6. p \notin D BY <1>2, <2>4, <2>5
  <2> QED BY <2>1, <2>2, <2>5, <2>6
<1>8. IsRootOf(g, s, f) => p = NULL /\ Above(g, s, f) = NULL
  <2> SUFFICES ASSUME IsRootOf(g, s, f) PROVE p = NULL /\ Above(g, s, f) = NULL OBVIOUS
  <2>1. g.funcs[f].rootStatement = s /\ s # NULL BY <1>2 DEF IsRootOf
  <2>2. RootIsLinked(g, K, f) BY DEF Linked
  <2> QED BY <2>1, <2>2 DEF RootIsLinked, Above
<1> HIDE DEF n, p
<1>9. ASSUME NEW y \in L, NEW field \in Edges, h.stat[y][field] # NULL,
             Redirected(g, s, f, y, field)
      PROVE  EdgeIsLinked(h, L, y, field)
  <2>1. ~ IsRootOf(g, s, f) /\ y = p /\ field = following BY <1>9 DEF Redirected, p
  <2>2. h.stat[y][field] = n /\ n # NULL BY <1>4, <1>9 DEF KeptEdge, n
  <2>3. n \in L /\ n \in Statements(g) BY <1>1, <1>2, <2>2
  <2>4. h.stat[n].parentStatement = y BY <1>6, <1>7, <2>1, <2>3
  <2>5. ASSUME NEW other \in Edges, h.stat[y][other] = n, other # field PROVE FALSE
    <3>1. ~ Redirected(g, s, f, y, other) BY <2>1, <2>5 DEF Redirected
    <3>2. g.stat[y][other] = n BY <1>4, <2>5, <3>1 DEF KeptEdge
    <3>3. g.stat[n].parentStatement = y BY <1>5, <2>2, <3>2 DEF EdgeIsLinked
    <3> QED BY <1>2, <2>2, <3>3
  <2> QED BY <2>2, <2>3, <2>4, <2>5 DEF EdgeIsLinked
<1>10. ASSUME NEW y \in L, NEW field \in Edges, h.stat[y][field] # NULL,
              ~ Redirected(g, s, f, y, field)
       PROVE  EdgeIsLinked(h, L, y, field)
  <2> DEFINE t == h.stat[y][field]
  <2>1. t = g.stat[y][field] BY <1>4, <1>10 DEF KeptEdge
  <2>2. EdgeIsLinked(g, K, y, field) BY <1>5
  <2>3. /\ t \in K /\ g.stat[t].parentStatement = y /\ t # NULL
        /\ \A other \in Edges : g.stat[y][other] = t => other = field
    BY <1>10, <2>1, <2>2 DEF EdgeIsLinked
  <2> HIDE DEF t
  <2>4. t # n BY <1>2, <2>3
  <2>5. t # s
    <3> SUFFICES ASSUME t = s PROVE FALSE OBVIOUS
    <3>1. y = p BY <2>3 DEF p
    <3>2. ~ IsRootOf(g, s, f) BY <1>2, <1>8, <3>1
    <3>3. g.stat[p][following] = s BY <1>7, <3>2
    <3>4. following \in Edges BY DEF Edges
    <3>5. field = following BY <2>3, <3>1, <3>3, <3>4
    <3> QED BY <1>10, <3>1, <3>2, <3>5 DEF Redirected, p
  <2>6. t \notin D BY <1>2, <2>3, <2>5
  <2>7. t \in L /\ t \in Statements(g) BY <1>1, <2>3, <2>6
  <2>8. h.stat[t].parentStatement = y BY <1>6, <2>3, <2>4, <2>7
  <2>9. ASSUME NEW other \in Edges, h.stat[y][other] = t PROVE other = field
    <3>1. CASE Redirected(g, s, f, y, other)
      <4>1. h.stat[y][other] = n BY <1>4, <2>3, <2>4, <2>9, <3>1 DEF KeptEdge, n
      <4> QED BY <2>4, <2>9, <4>1
    <3>2. CASE ~ Redirected(g, s, f, y, other)
      <4>1. h.stat[y][other] = g.stat[y][other] BY <1>4, <3>2 DEF KeptEdge
      <4> QED BY <2>3, <2>9, <4>1
    <3> QED BY <3>1, <3>2
  <2> QED BY <2>7, <2>8, <2>9 DEF EdgeIsLinked, t
<1>11. \A y \in L : \A field \in Edges : EdgeIsLinked(h, L, y, field)
  BY <1>9, <1>10 DEF EdgeIsLinked
<1>12. ASSUME NEW k \in 1 .. Len(g.funcs) PROVE RootIsLinked(h, L, k)
  <2> DEFINE root == h.funcs[k].rootStatement
             old == g.funcs[k].rootStatement
  <2>1. RootIsLinked(g, K, k) BY DEF Linked
  <2>2. CASE IsRootOf(g, s, f) /\ k = f
    <3>1. root = n BY <1>6, <2>2
    <3> SUFFICES ASSUME n # NULL PROVE RootIsLinked(h, L, k) BY <3>1 DEF RootIsLinked
    <3>2. n \in L /\ n \in Statements(g) BY <1>1, <1>2
    <3>3. h.stat[n].parentStatement = NULL BY <1>6, <1>8, <2>2, <3>2
    <3>4. ASSUME NEW j \in 1 .. Len(g.funcs), h.funcs[j].rootStatement = n, j # k PROVE FALSE
      <4>1. g.funcs[j].rootStatement = n BY <1>6, <2>2, <3>4
      <4>2. RootIsLinked(g, K, j) BY DEF Linked
      <4>3. g.stat[n].parentStatement = NULL BY <4>1, <4>2 DEF RootIsLinked
      <4> QED BY <1>2, <4>3
    <3> QED BY <1>6, <3>1, <3>2, <3>3, <3>4 DEF RootIsLinked
  <2>3. CASE ~ (IsRootOf(g, s, f) /\ k = f)
    <3>1. root = old BY <1>6, <2>3
    <3> SUFFICES ASSUME old # NULL PROVE RootIsLinked(h, L, k) BY <3>1 DEF RootIsLinked
    <3>2. /\ old \in K /\ g.stat[old].parentStatement = NULL
          /\ \A j \in 1 .. Len(g.funcs) : g.funcs[j].rootStatement = old => j = k
      BY <2>1 DEF RootIsLinked
    <3> HIDE DEF root
    <3>3. old # s
      <4> SUFFICES ASSUME old = s PROVE FALSE OBVIOUS
      <4>1. p = NULL BY <3>2 DEF p
      <4>2. IsRootOf(g, s, f) BY <1>2, <1>7, <4>1
      <4>3. f = k BY <3>2, <4>2 DEF IsRootOf
      <4> QED BY <2>3, <4>2, <4>3
    <3>4. old \notin D BY <1>2, <3>2, <3>3
    <3>5. old # n BY <1>2, <3>2
    <3>6. old \in L /\ h.stat[old].parentStatement = NULL BY <1>1, <1>6, <3>2, <3>4, <3>5
    <3>7. ASSUME NEW j \in 1 .. Len(g.funcs), h.funcs[j].rootStatement = old PROVE j = k
      <4>1. h.funcs[j].rootStatement = g.funcs[j].rootStatement BY <1>6, <3>5, <3>7
      <4> QED BY <3>2, <3>7, <4>1
    <3> QED BY <1>6, <3>1, <3>6, <3>7 DEF RootIsLinked, root
  <2> QED BY <2>2, <2>3
<1>13. ASSUME NEW x \in L PROVE Hangs(h, L, x)
  <2>1. Hangs(g, K, x) /\ x # s /\ x # NULL BY <1>2 DEF Linked
  <2>2. CASE \E k \in 1 .. Len(g.funcs) : g.funcs[k].rootStatement = x
    <3>1. PICK k \in 1 .. Len(g.funcs) : g.funcs[k].rootStatement = x BY <2>2
    <3>2. ~ (IsRootOf(g, s, f) /\ k = f) BY <2>1, <3>1 DEF IsRootOf
    <3>3. h.funcs[k].rootStatement = x BY <1>6, <3>1, <3>2
    <3> QED BY <1>6, <3>3 DEF Hangs
  <2>3. CASE \E y \in K : \E field \in Edges : g.stat[y][field] = x
    <3>1. PICK y \in K : \E field \in Edges : g.stat[y][field] = x BY <2>3
    <3>2. PICK field \in Edges : g.stat[y][field] = x BY <3>1
    <3>3. CASE x = n
      <4>1. following \in Edges BY DEF Edges
      <4>2. CASE IsRootOf(g, s, f)
        <5>1. h.funcs[f].rootStatement = x BY <1>6, <3>3, <4>2
        <5> QED BY <1>6, <5>1 DEF Hangs
      <4>3. CASE ~ IsRootOf(g, s, f)
        <5>1. Redirected(g, s, f, p, following) BY <4>3 DEF Redirected, p
        <5>2. p \in L BY <1>7, <4>3
        <5>3. h.stat[p][following] = x BY <1>4, <3>3, <4>1, <5>1, <5>2 DEF KeptEdge, n
        <5> QED BY <4>1, <5>2, <5>3 DEF Hangs
      <4> QED BY <4>2, <4>3
    <3>4. CASE x # n
      <4>1. ~ Redirected(g, s, f, y, field)
        <5> SUFFICES ASSUME Redirected(g, s, f, y, field) PROVE FALSE OBVIOUS
        <5>1. ~ IsRootOf(g, s, f) /\ y = p /\ field = following BY DEF Redirected, p
        <5>2. g.stat[y][field] = s BY <1>7, <5>1
        <5> QED BY <2>1, <3>2, <5>2
      <4>2. ~ (y = s /\ field = following) BY <3>2, <3>4 DEF n
      <4>3. h.stat[y][field] = x BY <1>3, <3>2, <4>1, <4>2 DEF EdgeAfter
      <4>4. y \notin D
        <5> SUFFICES ASSUME y \in D PROVE FALSE OBVIOUS
        <5>1. x \in D BY <1>2, <2>1, <4>3 DEF ClosedIn
        <5> QED BY <5>1
      <4> QED BY <4>3, <4>4 DEF Hangs
    <3> QED BY <3>3, <3>4
  <2> QED BY <2>1, <2>2, <2>3 DEF Hangs
<1>14. L \subseteq Statements(h) BY <1>1, <1>6
<1> QED BY <1>6, <1>11, <1>12, <1>13, <1>14 DEF Linked

-----------------------------------------------------------------------------
(* The pending calls: they look at kept statements, and each at one that   *)
(* stands before those that the calls above it look at.                    *)

CallOK(g, K, c) ==
  /\ c.at # NULL => c.at \in K
  /\ c.op = "function" => c.at = NULL
  /\ c.op = "visit" /\ c.at # NULL /\ g.stat[c.at].parentStatement = NULL =>
       IsRootOf(g, c.at, c.fun)

(* The statement after which a call goes on. *)
Anchor(g, c) == IF c.op = "follow" THEN c.at ELSE g.stat[c.at].parentStatement

Before(g, c, x) == c.at # NULL => Anchor(g, c) # NULL /\ Anchor(g, c) < x

(* A call that waits for a visit of t does not come back to t: if t follows *)
(* a statement, the call goes on before that one.                          *)
BeforeVisit(g, c, t) ==
  LET p == g.stat[t].parentStatement
  IN  c.at # NULL => /\ Anchor(g, c) # NULL /\ Anchor(g, c) <= p
                     /\ Anchor(g, c) = p => g.stat[p].followingStatement # t

Under(g, c, d) ==
  d.at # NULL => IF d.op = "follow" THEN Before(g, c, d.at) ELSE BeforeVisit(g, c, d.at)

FunctionsBelow(cs) ==
  \A i \in 1 .. Len(cs) : cs[i].op = "function" => \A j \in 1 .. i : cs[j].op = "function"

PendingOK(g, K, cs) ==
  /\ \A i \in 1 .. Len(cs) : CallOK(g, K, cs[i])
  /\ FunctionsBelow(cs)
  /\ \A i, j \in 1 .. Len(cs) : i < j => Under(g, cs[i], cs[j])

(* What the pending calls rest on. *)
Placed(g) ==
  \A s \in Statements(g) :
    /\ s # NULL /\ s \in Nat /\ g.stat[s].parentStatement \in Nat
    /\ g.stat[s].parentStatement < s
    /\ g.stat[s].parentStatement # NULL => g.stat[s].parentStatement \in Statements(g)

LEMMA RemovableIsPlaced ==
  ASSUME NEW g, NEW tables, Removable(g, tables)
  PROVE  Placed(g)
<1>1. \A s \in Statements(g) : s # NULL /\ g.stat[s].parentStatement \in PointersIn(g)
  BY PointersOfRemovable, FieldNames
<1>2. ParentsBefore(g) BY DEF Removable
<1>3. Len(g.stat) \in Nat BY DEF Removable, EdgesLeadOn
<1> QED BY <1>1, <1>2, <1>3 DEF Placed, PointersIn, Statements, NULL, ParentsBefore

LEMMA CallIsPopped ==
  ASSUME NEW S, NEW cs \in Seq(S), cs # << >>, NEW g, NEW K, PendingOK(g, K, cs)
  PROVE  /\ PendingOK(g, K, Pop(cs)) /\ CallOK(g, K, Top(cs))
         /\ \A i \in 1 .. Len(Pop(cs)) : Under(g, Pop(cs)[i], Top(cs))
         /\ Top(cs).op = "function" => \A i \in 1 .. Len(Pop(cs)) : Pop(cs)[i].op = "function"
<1> DEFINE low == Pop(cs)
           n == Len(cs)
<1>1. /\ low \in Seq(S) /\ Len(low) = n - 1 /\ n - 1 \in Nat
      /\ \A i \in 1 .. n - 1 : low[i] = cs[i]
  BY PopCalls
<1>2. n \in Nat /\ n \in 1 .. n /\ Top(cs) = cs[n] BY <1>1 DEF Top
<1> HIDE DEF low, n
<1>3. \A i \in 1 .. Len(low) : i \in 1 .. n /\ i < n /\ low[i] = cs[i] BY <1>1, <1>2
<1>4. /\ \A i \in 1 .. n : CallOK(g, K, cs[i])
      /\ \A i \in 1 .. n : cs[i].op = "function" => \A j \in 1 .. i : cs[j].op = "function"
      /\ \A i, j \in 1 .. n : i < j => Under(g, cs[i], cs[j])
  BY DEF PendingOK, FunctionsBelow, n
<1>5. FunctionsBelow(low)
  <2> SUFFICES ASSUME NEW i \in 1 .. Len(low), low[i].op = "function", NEW j \in 1 .. i
               PROVE  low[j].op = "function"
    BY DEF FunctionsBelow
  <2>1. j \in 1 .. Len(low) BY <1>1
  <2>2. low[i] = cs[i] /\ low[j] = cs[j] /\ i \in 1 .. n BY <1>3, <2>1
  <2> QED BY <1>4, <2>2
<1>6. PendingOK(g, K, low) BY <1>3, <1>4, <1>5 DEF PendingOK
<1>7. CallOK(g, K, Top(cs)) BY <1>2, <1>4
<1>8. \A i \in 1 .. Len(low) : Under(g, low[i], Top(cs)) BY <1>2, <1>3, <1>4
<1>9. ASSUME Top(cs).op = "function", NEW i \in 1 .. Len(low) PROVE low[i].op = "function"
  <2>1. i \in 1 .. n BY <1>3
  <2> QED BY <1>2, <1>3, <1>4, <1>9, <2>1
<1> QED BY <1>6, <1>7, <1>8, <1>9 DEF low

LEMMA CallIsPushed ==
  ASSUME NEW S, NEW cs \in Seq(S), NEW c \in S, NEW g, NEW K, PendingOK(g, K, cs),
         CallOK(g, K, c), c.op # "function", \A i \in 1 .. Len(cs) : Under(g, cs[i], c)
  PROVE  PendingOK(g, K, cs \o <<c>>)
<1> DEFINE q == cs \o <<c>>
           n == Len(cs)
<1>1. /\ Len(q) = n + 1 /\ n \in Nat /\ q[n + 1] = c
      /\ \A i \in 1 .. n : q[i] = cs[i]
  BY Pushes
<1> HIDE DEF q
<1>2. \A i \in 1 .. Len(q) : (i \in 1 .. n /\ q[i] = cs[i]) \/ (i = n + 1 /\ q[i] = c)
  <2> SUFFICES ASSUME NEW i \in 1 .. Len(q)
               PROVE  (i \in 1 .. n /\ q[i] = cs[i]) \/ (i = n + 1 /\ q[i] = c)
    OBVIOUS
  <2> HIDE DEF n
  <2>1. i \in 1 .. n \/ i = n + 1 BY <1>1
  <2> QED BY <1>1, <2>1
<1>3. /\ \A i \in 1 .. n : CallOK(g, K, cs[i])
      /\ \A i \in 1 .. n : cs[i].op = "function" => \A j \in 1 .. i : cs[j].op = "function"
      /\ \A i, j \in 1 .. n : i < j => Under(g, cs[i], cs[j])
  BY DEF PendingOK, FunctionsBelow
<1>4. \A i \in 1 .. Len(q) : CallOK(g, K, q[i]) BY <1>2, <1>3
<1>5. FunctionsBelow(q)
  <2> SUFFICES ASSUME NEW i \in 1 .. Len(q), q[i].op = "function", NEW j \in 1 .. i
               PROVE  q[j].op = "function"
    BY DEF FunctionsBelow
  <2>1. i \in 1 .. n /\ q[i] = cs[i] BY <1>2
  <2>2. j \in 1 .. n BY <1>1, <2>1
  <2>3. q[j] = cs[j] BY <1>1, <2>2
  <2> QED BY <1>3, <2>1, <2>3
<1>6. ASSUME NEW i \in 1 .. Len(q), NEW j \in 1 .. Len(q), i < j PROVE Under(g, q[i], q[j])
  <2>1. i \in 1 .. n /\ q[i] = cs[i] BY <1>1, <1>2, <1>6
  <2>2. CASE j \in 1 .. n /\ q[j] = cs[j] BY <1>3, <1>6, <2>1, <2>2
  <2>3. CASE j = n + 1 /\ q[j] = c BY <2>1, <2>3
  <2> QED BY <1>2, <2>2, <2>3
<1> QED BY <1>4, <1>5, <1>6 DEF PendingOK, q

(* The calls below the current one. *)
AllBefore(g, cs, x) == \A i \in 1 .. Len(cs) : Before(g, cs[i], x)

LEMMA BelowAVisit ==
  ASSUME NEW g, NEW cs, NEW c, \A i \in 1 .. Len(cs) : Under(g, cs[i], c), Placed(g),
         NEW K, K \subseteq Statements(g), PendingOK(g, K, cs),
         c.op = "visit", NEW s \in Statements(g), c.at = s
  PROVE  /\ AllBefore(g, cs, s)
         /\ \A p \in Statements(g) :
              g.stat[s].parentStatement = p /\ g.stat[p].followingStatement = s => AllBefore(g, cs, p)
         /\ g.stat[s].parentStatement = NULL => \A i \in 1 .. Len(cs) : cs[i].at = NULL
<1>1. s # NULL /\ s \in Nat /\ g.stat[s].parentStatement \in Nat /\ g.stat[s].parentStatement < s
  BY DEF Placed
<1>2. ASSUME NEW i \in 1 .. Len(cs), cs[i].at # NULL
      PROVE  /\ Anchor(g, cs[i]) \in Nat /\ Anchor(g, cs[i]) # NULL
             /\ Anchor(g, cs[i]) <= g.stat[s].parentStatement
             /\ Anchor(g, cs[i]) = g.stat[s].parentStatement =>
                  g.stat[g.stat[s].parentStatement].followingStatement # s
  <2>1. CallOK(g, K, cs[i]) BY DEF PendingOK
  <2>2. cs[i].at \in Statements(g) BY <1>2, <2>1 DEF CallOK
  <2>3. Anchor(g, cs[i]) \in Nat BY <2>2 DEF Anchor, Placed
  <2>4. BeforeVisit(g, cs[i], s) BY <1>1 DEF Under
  <2> QED BY <1>2, <2>3, <2>4 DEF BeforeVisit
<1>3. \A i \in 1 .. Len(cs) : Before(g, cs[i], s)
  <2> SUFFICES ASSUME NEW i \in 1 .. Len(cs), cs[i].at # NULL
               PROVE  Anchor(g, cs[i]) # NULL /\ Anchor(g, cs[i]) < s
    BY DEF Before
  <2> DEFINE a == Anchor(g, cs[i])
             q == g.stat[s].parentStatement
  <2>1. a \in Nat /\ a # NULL /\ a <= q BY <1>2
  <2>2. q \in Nat /\ q < s /\ s \in Nat BY <1>1
  <2> HIDE DEF a, q
  <2>3. a < s BY <2>1, <2>2
  <2> QED BY <2>1, <2>3 DEF a
<1>4. ASSUME NEW p \in Statements(g), g.stat[s].parentStatement = p,
             g.stat[p].followingStatement = s, NEW i \in 1 .. Len(cs), cs[i].at # NULL
      PROVE  Anchor(g, cs[i]) # NULL /\ Anchor(g, cs[i]) < p
  <2> DEFINE a == Anchor(g, cs[i])
  <2>1. a \in Nat /\ a # NULL /\ a <= p /\ a # p BY <1>2, <1>4
  <2>2. p \in Nat BY DEF Placed
  <2> HIDE DEF a
  <2>3. a < p BY <2>1, <2>2
  <2> QED BY <2>1, <2>3 DEF a
<1>5. ASSUME g.stat[s].parentStatement = NULL, NEW i \in 1 .. Len(cs), cs[i].at # NULL
      PROVE  FALSE
  <2> DEFINE a == Anchor(g, cs[i])
  <2>1. a \in Nat /\ a # NULL /\ a <= NULL BY <1>2, <1>5
  <2> HIDE DEF a
  <2> QED BY <2>1 DEF NULL
<1> QED BY <1>3, <1>4, <1>5 DEF AllBefore, Before

(* Pushing the calls of a step.                                            *)
LEMMA FollowIsPushed ==
  ASSUME NEW g, NEW cs \in Seq(PendingCalls(g)), NEW K, PendingOK(g, K, cs),
         NEW f \in 1 .. Len(g.funcs), NEW s \in PointersIn(g), s # NULL => s \in K /\ AllBefore(g, cs, s)
  PROVE  PendingOK(g, K, cs \o Do("follow", s, f))
<1> DEFINE c == [op |-> "follow", at |-> s, fun |-> f]
<1>1. c \in PendingCalls(g) BY DEF PendingCalls
<1>2. CallOK(g, K, c) /\ c.op # "function" BY DEF CallOK
<1>3. \A i \in 1 .. Len(cs) : Under(g, cs[i], c) BY DEF Under, AllBefore
<1> HIDE DEF c
<1>4. PendingOK(g, K, cs \o <<c>>) BY <1>1, <1>2, <1>3, CallIsPushed
<1> QED BY <1>4 DEF Do, c

LEMMA VisitIsPushed ==
  ASSUME NEW g, NEW cs \in Seq(PendingCalls(g)), NEW K, PendingOK(g, K, cs),
         NEW f \in 1 .. Len(g.funcs), NEW t \in PointersIn(g),
         t # NULL => /\ t \in K
                     /\ g.stat[t].parentStatement = NULL => IsRootOf(g, t, f)
                     /\ \A i \in 1 .. Len(cs) : BeforeVisit(g, cs[i], t)
  PROVE  PendingOK(g, K, cs \o Do("visit", t, f))
<1> DEFINE c == [op |-> "visit", at |-> t, fun |-> f]
<1>1. c \in PendingCalls(g) BY DEF PendingCalls
<1>2. CallOK(g, K, c) /\ c.op # "function" BY DEF CallOK
<1>3. \A i \in 1 .. Len(cs) : Under(g, cs[i], c) BY DEF Under
<1> HIDE DEF c
<1>4. PendingOK(g, K, cs \o <<c>>) BY <1>1, <1>2, <1>3, CallIsPushed
<1> QED BY <1>4 DEF Do, c

(* A change at or after x leaves the calls that go on before x as they     *)
(* were.                                                                   *)
Untouched(g, h, K, L, x) ==
  /\ \A y \in K : y < x => y \in L
  /\ \A y \in K : g.stat[y].parentStatement # NULL /\ g.stat[y].parentStatement < x =>
       y \in L /\ h.stat[y].parentStatement = g.stat[y].parentStatement
  /\ \A y \in Statements(g) : y < x =>
       h.stat[y].followingStatement = g.stat[y].followingStatement

LEMMA CallsStay ==
  ASSUME NEW g, NEW K, K \subseteq Statements(g), Placed(g), NEW cs, PendingOK(g, K, cs),
         NEW x, AllBefore(g, cs, x), NEW h, NEW L, Untouched(g, h, K, L, x)
  PROVE  PendingOK(h, L, cs) /\ AllBefore(h, cs, x)
<1>1. ASSUME NEW i \in 1 .. Len(cs), cs[i].at # NULL
      PROVE  /\ cs[i].at \in K /\ cs[i].at \in L /\ Anchor(h, cs[i]) = Anchor(g, cs[i])
             /\ Anchor(g, cs[i]) # NULL /\ Anchor(g, cs[i]) < x
             /\ cs[i].op # "follow" =>
                  h.stat[cs[i].at].parentStatement = g.stat[cs[i].at].parentStatement
  <2>1. CallOK(g, K, cs[i]) /\ Before(g, cs[i], x) BY DEF PendingOK, AllBefore
  <2>2. cs[i].at \in K BY <1>1, <2>1 DEF CallOK
  <2>3. Anchor(g, cs[i]) # NULL /\ Anchor(g, cs[i]) < x BY <1>1, <2>1 DEF Before
  <2>4. CASE cs[i].op = "follow" BY <2>2, <2>3, <2>4 DEF Anchor, Untouched
  <2>5. CASE cs[i].op # "follow" BY <2>2, <2>3, <2>5 DEF Anchor, Untouched
  <2> QED BY <2>2, <2>3, <2>4, <2>5
<1>2. ASSUME NEW i \in 1 .. Len(cs) PROVE CallOK(h, L, cs[i]) /\ Before(h, cs[i], x)
  <2>1. CallOK(g, K, cs[i]) BY DEF PendingOK
  <2>2. ASSUME cs[i].at # NULL, cs[i].op = "visit"
        PROVE  h.stat[cs[i].at].parentStatement # NULL
    BY <1>1, <2>2 DEF Anchor
  <2> QED BY <1>1, <2>1, <2>2 DEF CallOK, Before
<1>3. ASSUME NEW i \in 1 .. Len(cs), NEW j \in 1 .. Len(cs), i < j
      PROVE  Under(h, cs[i], cs[j])
  <2>1. Under(g, cs[i], cs[j]) BY <1>3 DEF PendingOK
  <2> SUFFICES ASSUME cs[j].at # NULL, cs[i].at # NULL PROVE Under(h, cs[i], cs[j])
    BY DEF Under, Before, BeforeVisit
  <2>2. Anchor(h, cs[i]) = Anchor(g, cs[i]) /\ Anchor(g, cs[i]) # NULL BY <1>1
  <2>3. CASE cs[j].op = "follow"
    <3>1. Before(g, cs[i], cs[j].at) BY <2>1, <2>3 DEF Under
    <3>2. Before(h, cs[i], cs[j].at) BY <2>2, <3>1 DEF Before
    <3> QED BY <2>3, <3>2 DEF Under
  <2>4. CASE cs[j].op # "follow"
    <3> DEFINE p == g.stat[cs[j].at].parentStatement
    <3>1. BeforeVisit(g, cs[i], cs[j].at) BY <2>1, <2>4 DEF Under
    <3>2. h.stat[cs[j].at].parentStatement = p BY <1>1, <2>4
    <3>3. p # NULL /\ p < x BY <1>1, <2>4 DEF Anchor
    <3>4. p \in Statements(g) BY <1>1, <3>3 DEF Placed
    <3>5. h.stat[p].followingStatement = g.stat[p].followingStatement
      BY <3>3, <3>4 DEF Untouched
    <3>6. BeforeVisit(h, cs[i], cs[j].at) BY <2>2, <3>1, <3>2, <3>5 DEF BeforeVisit
    <3> QED BY <2>4, <3>6 DEF Under
  <2> QED BY <2>3, <2>4
<1>4. FunctionsBelow(cs) BY DEF PendingOK
<1> QED BY <1>2, <1>3, <1>4 DEF PendingOK, AllBefore

(* The arms of what is kept can be visited: none of them is a statement    *)
(* that would be unlinked.                                                 *)
ArmFits(g, c, t) ==
  t # NULL =>
    /\ g.stat[t].statementType \in {"CF_BASIC", "CF_IF"}
    /\ g.stat[t].statementType = "CF_IF" /\ c[t] = "false" => g.stat[t].elseStatement # NULL

ArmsOK(g, c, K) ==
  \A s \in K : \A field \in ArmLinks : ArmFits(g, c, g.stat[s][field])

(* A statement that is removed follows its parent or is a root. *)
LEMMA RemovedFollows ==
  ASSUME NEW g, NEW c, NEW K, Linked(g, K), ArmsOK(g, c, K), NEW s \in K,
         NEW f \in 1 .. Len(g.funcs), NEW d, d.op = "visit", d.at = s, d.fun = f, CallOK(g, K, d),
         g.stat[s].statementType \in {"CF_IF", "CF_FOR"},
         c[s] = "false", g.stat[s].elseStatement = NULL
  PROVE  /\ FollowsOrRoot(g, K, s, f)
         /\ g.stat[s].parentStatement # NULL =>
              /\ g.stat[s].parentStatement \in K
              /\ g.stat[g.stat[s].parentStatement].followingStatement = s
         /\ g.stat[s].parentStatement = NULL <=> IsRootOf(g, s, f)
<1>1. s # NULL /\ K \subseteq Statements(g) BY DEF Linked, Statements, NULL
<1>2. ASSUME NEW k \in 1 .. Len(g.funcs), g.funcs[k].rootStatement = s
      PROVE  g.stat[s].parentStatement = NULL
  <2>1. RootIsLinked(g, K, k) BY DEF Linked
  <2> QED BY <1>1, <1>2, <2>1 DEF RootIsLinked
<1>3. ASSUME g.stat[s].parentStatement = NULL PROVE IsRootOf(g, s, f)
  BY <1>1, <1>3 DEF CallOK
<1>4. ASSUME g.stat[s].parentStatement # NULL
      PROVE  /\ g.stat[s].parentStatement \in K
             /\ g.stat[g.stat[s].parentStatement].followingStatement = s
  <2>1. Hangs(g, K, s) BY DEF Linked
  <2>2. PICK y \in K : \E field \in Edges : g.stat[y][field] = s BY <1>2, <1>4, <2>1 DEF Hangs
  <2>3. PICK field \in Edges : g.stat[y][field] = s BY <2>2
  <2>4. g.stat[s].parentStatement = y
    <3>1. EdgeIsLinked(g, K, y, field) BY DEF Linked
    <3> QED BY <1>1, <2>3, <3>1 DEF EdgeIsLinked
  <2>5. field \notin ArmLinks
    <3> SUFFICES ASSUME field \in ArmLinks PROVE FALSE OBVIOUS
    <3>1. ArmFits(g, c, s) BY <2>3 DEF ArmsOK
    <3> QED BY <1>1, <3>1 DEF ArmFits
  <2>6. field = "followingStatement" BY <2>5, FieldNames
  <2> QED BY <2>3, <2>4, <2>6
<1>5. IsRootOf(g, s, f) => g.stat[s].parentStatement = NULL BY <1>2 DEF IsRootOf
<1>6. FollowsOrRoot(g, K, s, f) BY <1>3, <1>4 DEF FollowsOrRoot
<1> QED BY <1>3, <1>4, <1>5, <1>6

(* The calls of a visit: the arms of s, below them the end of the visit.   *)
AtMost(g, cs, s) ==
  \A i \in 1 .. Len(cs) : cs[i].at # NULL => Anchor(g, cs[i]) # NULL /\ Anchor(g, cs[i]) <= s

LEMMA BeforeIsAtMost ==
  ASSUME NEW g, Placed(g), NEW K, K \subseteq Statements(g), NEW cs, PendingOK(g, K, cs),
         NEW s \in Statements(g), AllBefore(g, cs, s)
  PROVE  AtMost(g, cs, s)
<1> SUFFICES ASSUME NEW i \in 1 .. Len(cs), cs[i].at # NULL
             PROVE  Anchor(g, cs[i]) # NULL /\ Anchor(g, cs[i]) <= s
  BY DEF AtMost
<1> DEFINE a == Anchor(g, cs[i])
<1>1. CallOK(g, K, cs[i]) BY DEF PendingOK
<1>2. cs[i].at \in Statements(g) BY <1>1 DEF CallOK
<1>3. a \in Nat /\ s \in Nat BY <1>2 DEF Anchor, Placed
<1>4. a # NULL /\ a < s BY DEF AllBefore, Before
<1> HIDE DEF a
<1>5. a <= s BY <1>3, <1>4
<1> QED BY <1>4, <1>5 DEF a

LEMMA AtMostPushed ==
  ASSUME NEW g, NEW S, NEW cs \in Seq(S), NEW c \in S, NEW s \in Nat, s # NULL, AtMost(g, cs, s),
         c.at # NULL => Anchor(g, c) = s
  PROVE  AtMost(g, cs \o <<c>>, s)
<1> DEFINE q == cs \o <<c>>
           n == Len(cs)
<1>1. /\ Len(q) = n + 1 /\ n \in Nat /\ q[n + 1] = c
      /\ \A i \in 1 .. n : q[i] = cs[i]
  BY Pushes
<1> HIDE DEF q
<1> SUFFICES ASSUME NEW i \in 1 .. Len(q), q[i].at # NULL
             PROVE  Anchor(g, q[i]) # NULL /\ Anchor(g, q[i]) <= s
  BY DEF AtMost, q
<1>2. i \in 1 .. n \/ i = n + 1
  <2> HIDE DEF n
  <2> QED BY <1>1
<1>3. CASE i \in 1 .. n BY <1>1, <1>3 DEF AtMost
<1>4. CASE i = n + 1
  <2>1. Anchor(g, q[i]) = s BY <1>1, <1>4
  <2>2. s <= s OBVIOUS
  <2> QED BY <2>1, <2>2
<1> QED BY <1>2, <1>3, <1>4

LEMMA ArmIsPushed ==
  ASSUME NEW g, NEW cs \in Seq(PendingCalls(g)), NEW K, Linked(g, K), Placed(g),
         PendingOK(g, K, cs), NEW f \in 1 .. Len(g.funcs), NEW s \in K, AtMost(g, cs, s),
         NEW field \in ArmLinks, g.stat[s][field] \in PointersIn(g)
  PROVE  LET more == cs \o Do("visit", g.stat[s][field], f)
         IN  more \in Seq(PendingCalls(g)) /\ PendingOK(g, K, more) /\ AtMost(g, more, s)
<1> DEFINE t == g.stat[s][field]
           c == [op |-> "visit", at |-> t, fun |-> f]
<1>1. s \in Statements(g) /\ s # NULL /\ s \in Nat BY DEF Linked, Placed
<1>2. EdgeIsLinked(g, K, s, field) /\ field # "followingStatement" /\ "followingStatement" \in Edges
  BY FieldNames DEF Linked
<1>3. t # NULL => /\ t \in K /\ g.stat[t].parentStatement = s
                  /\ g.stat[s]["followingStatement"] # t
  BY <1>2 DEF EdgeIsLinked
<1>4. ASSUME t # NULL, NEW i \in 1 .. Len(cs) PROVE BeforeVisit(g, cs[i], t)
  BY <1>3, <1>4 DEF BeforeVisit, AtMost
<1>5. t \in PointersIn(g) OBVIOUS
<1>6. t # NULL => Anchor(g, c) = s BY <1>3 DEF Anchor
<1> HIDE DEF t
<1>7. PendingOK(g, K, cs \o Do("visit", t, f)) BY <1>1, <1>3, <1>4, <1>5, VisitIsPushed
<1>8. cs \o Do("visit", t, f) \in Seq(PendingCalls(g)) BY <1>5, Calling
<1>9. c \in PendingCalls(g) BY <1>5 DEF PendingCalls
<1>10. c.at # NULL => Anchor(g, c) = s BY <1>6
<1> HIDE DEF c
<1>11. AtMost(g, cs \o <<c>>, s) BY <1>1, <1>9, <1>10, AtMostPushed
<1>12. AtMost(g, cs \o Do("visit", t, f), s) BY <1>11 DEF Do, c
<1> QED BY <1>7, <1>8, <1>12 DEF t

LEMMA VisitEndIsPushed ==
  ASSUME NEW g, NEW cs \in Seq(PendingCalls(g)), NEW K, Linked(g, K), Placed(g),
         PendingOK(g, K, cs), NEW f \in 1 .. Len(g.funcs), NEW s \in K, AllBefore(g, cs, s)
  PROVE  LET low == cs \o Do("follow", s, f)
         IN  low \in Seq(PendingCalls(g)) /\ PendingOK(g, K, low) /\ AtMost(g, low, s)
<1> DEFINE c == [op |-> "follow", at |-> s, fun |-> f]
<1>1. s \in Statements(g) /\ s # NULL /\ s \in Nat /\ K \subseteq Statements(g) BY DEF Linked, Placed
<1>2. s \in PointersIn(g) BY <1>1 DEF PointersIn
<1>3. PendingOK(g, K, cs \o Do("follow", s, f)) BY <1>2, FollowIsPushed
<1>4. cs \o Do("follow", s, f) \in Seq(PendingCalls(g)) BY <1>2, Calling
<1>5. c \in PendingCalls(g) BY <1>2 DEF PendingCalls
<1>6. c.at # NULL => Anchor(g, c) = s BY DEF Anchor
<1>7. AtMost(g, cs, s) BY <1>1, BeforeIsAtMost
<1> HIDE DEF c
<1>8. AtMost(g, cs \o <<c>>, s) BY <1>1, <1>5, <1>6, <1>7, AtMostPushed
<1>9. AtMost(g, cs \o Do("follow", s, f), s) BY <1>8 DEF Do, c
<1> QED BY <1>3, <1>4, <1>9

(* What the three removals leave alone.                                    *)
LEMMA RearmedUntouched ==
  ASSUME NEW g, EdgesLeadOn(g), Placed(g), NEW K, Linked(g, K), NEW s \in K, NEW arm, NEW h,
         Rearms(g, h, s, arm), g.stat[s][arm] # NULL, NEW D, D = Reach(g)[g.stat[s][arm]]
  PROVE  Untouched(g, h, K, K \ D, s) /\ s \notin D
<1> DEFINE d == g.stat[s][arm]
<1>1. K \subseteq Statements(g) /\ s \in Statements(g) BY DEF Linked
<1>2. arm \in Edges /\ \A y \in Statements(g) :
        /\ h.stat[y].parentStatement = g.stat[y].parentStatement
        /\ h.stat[y].followingStatement = g.stat[y].followingStatement
  <2>1. arm \in ArmLinks /\ \A y \in Statements(g) :
          /\ h.stat[y].parentStatement = g.stat[y].parentStatement
          /\ h.stat[y].followingStatement = g.stat[y].followingStatement
    <3>1. arm \in ArmLinks BY <1>1, RearmedEdges
    <3>2. CASE TakesElse(g, h, s)
      BY <3>1, <3>2, FieldNames DEF TakesElse
    <3>3. CASE Relinks(g, h, s, "elseStatement", NULL)
      BY <3>1, <3>3, FieldNames DEF Relinks
    <3> QED BY <3>2, <3>3 DEF Rearms
  <2>2. arm \in Edges BY <2>1, FieldNames
  <2> QED BY <2>1, <2>2
<1>3. d \in K /\ g.stat[d].parentStatement = s
  <2>1. EdgeIsLinked(g, K, s, arm) BY <1>2 DEF Linked
  <2> QED BY <2>1 DEF EdgeIsLinked
<1>4. s < d /\ d \in Nat /\ s \in Nat BY <1>1, <1>2, <1>3 DEF EdgesLeadOn, Placed
<1> HIDE DEF d
<1>5. Inner(g, K, D, d) BY <1>3, BranchIsInner DEF d
<1>6. /\ \A x \in D : x # d => g.stat[x].parentStatement \in D
      /\ \A x \in D : d <= x
      /\ D \subseteq K
  BY <1>5, InnerParents DEF Inner
<1>7. \A x \in K : x \in Nat BY <1>1 DEF Placed
<1>8. \A x \in D : s < x BY <1>4, <1>6, <1>7
<1>9. \A x \in K : x < s \/ x = s => x \notin D BY <1>4, <1>7, <1>8
<1>10. ASSUME NEW y \in K, g.stat[y].parentStatement # NULL, g.stat[y].parentStatement < s
       PROVE  y \notin D
  <2> SUFFICES ASSUME y \in D PROVE FALSE OBVIOUS
  <2>1. y # d BY <1>3, <1>4, <1>10
  <2>2. g.stat[y].parentStatement \in D BY <1>6, <2>1
  <2> QED BY <1>6, <1>9, <1>10, <2>2
<1> QED BY <1>1, <1>2, <1>9, <1>10 DEF Untouched

LEMMA UnlinkedUntouched ==
  ASSUME NEW g, EdgesLeadOn(g), Placed(g), NEW K, Linked(g, K), NEW s \in K, NEW f,
         NEW h, Unlinks(g, h, s, f), EdgesLeadOn(h), FollowsOrRoot(g, K, s, f),
         NEW D, D = Reach(h)[s]
  PROVE  LET p == g.stat[s].parentStatement
         IN  Untouched(g, h, K, K \ D, p) /\ h.stat[s].parentStatement = p /\ p \notin D
<1> DEFINE p == g.stat[s].parentStatement
           n == g.stat[s].followingStatement
<1>1. K \subseteq Statements(g) /\ s \in Statements(g) /\ \A x \in K : x \in Nat
  BY DEF Linked, Placed
<1>2. p < s /\ p \in Nat /\ s \in Nat BY <1>1 DEF Placed
<1>3. /\ D \subseteq K /\ s \in D /\ NULL \notin K
      /\ \A x \in D : s <= x
      /\ \A x \in D : x # s => g.stat[x].parentStatement \in D
      /\ n # NULL => n \in K /\ s < n /\ g.stat[n].parentStatement = s
  BY UnlinkedIsInner
<1>4. \A y \in Statements(g) :
        /\ y # s /\ y # p => h.stat[y].followingStatement = g.stat[y].followingStatement
        /\ y # n => h.stat[y].parentStatement = g.stat[y].parentStatement
  BY DEF Unlinks
<1>5. \A y \in Statements(g) : y \in Nat BY DEF Placed
<1> HIDE DEF p, n
<1>6. \A x \in D : p < x BY <1>1, <1>2, <1>3
<1>7. \A y \in K : y < p => y \notin D BY <1>1, <1>2, <1>6
<1>8. ASSUME NEW y \in K, g.stat[y].parentStatement # NULL, g.stat[y].parentStatement < p
      PROVE  y \notin D /\ h.stat[y].parentStatement = g.stat[y].parentStatement
  <2> DEFINE q == g.stat[y].parentStatement
  <2>1. q \in Nat /\ q < p BY <1>1, <1>8 DEF Placed
  <2>2. q # p /\ q # s /\ ~ (p < q)
    <3> HIDE DEF q
    <3> QED BY <1>2, <2>1
  <2>3. y \notin D
    <3> SUFFICES ASSUME y \in D PROVE FALSE OBVIOUS
    <3>1. y # s BY <2>2 DEF p
    <3>2. q \in D BY <1>3, <3>1
    <3> QED BY <1>6, <2>2, <3>2
  <2>4. y # n
    <3> SUFFICES ASSUME y = n PROVE FALSE OBVIOUS
    <3>1. n # NULL BY <1>3
    <3>2. q = s BY <1>3, <3>1
    <3> QED BY <2>2, <3>2
  <2> QED BY <1>1, <1>4, <2>3, <2>4
<1>9. \A y \in Statements(g) : y < p => y # s /\ y # p BY <1>2, <1>5
<1>10. Untouched(g, h, K, K \ D, p) BY <1>4, <1>7, <1>8, <1>9 DEF Untouched
<1>11. h.stat[s].parentStatement = p
  <2>1. s # n
    <3> SUFFICES ASSUME s = n PROVE FALSE OBVIOUS
    <3>1. s # NULL BY <1>3
    <3> QED BY <1>2, <1>3, <3>1
  <2> QED BY <1>1, <1>4, <2>1 DEF p
<1>12. p \notin D BY <1>2, <1>6
<1> QED BY <1>10, <1>11, <1>12 DEF p
================================================================================
