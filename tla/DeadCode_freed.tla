---------------------------- MODULE DeadCode_freed ----------------------------
(***************************************************************************)
(* In a program without a dead `else if' and without an optimised IF that  *)
(* follows a FOR, the removal of dead code and the final clean-up free     *)
(* every statement and every local table exactly once.                     *)
(*                                                                         *)
(* The invariant: own, the statements that came with a table, and block,   *)
(* the table of the block each statement is in, are as the parser left     *)
(* them; what is kept still hangs together in those terms; the pending     *)
(* calls look at different statements; and what has been freed so far are, *)
(* once each, the statements that are not kept and the tables they came    *)
(* with.                                                                   *)
(***************************************************************************)
EXTENDS DeadCode_kept

-----------------------------------------------------------------------------
(* Statements whose edges stay among them, each to a statement that names  *)
(* its parent.                                                             *)
EdgesHold(g, K) ==
  K \subseteq Statements(g) /\ \A s \in K : \A field \in Edges : EdgeIsLinked(g, K, s, field)

LEMMA LinkedEdgesHold ==
  ASSUME NEW g, NEW K, Linked(g, K)
  PROVE  EdgesHold(g, K)
BY DEF Linked, EdgesHold

(* What is reached from a, if it is among them.                            *)
LEMMA HeldReach ==
  ASSUME NEW g, EdgesLeadOn(g), NEW K, EdgesHold(g, K), NEW a \in K
  PROVE  LET A == Reach(g)[a]
         IN  /\ A \subseteq K /\ a \in A /\ ClosedIn(g, A)
             /\ \A x \in A : a <= x
             /\ \A x \in A : x # a => \E y \in A : \E field \in Edges : g.stat[y][field] = x
             /\ \A x \in A : x # a => g.stat[x].parentStatement \in A
<1> DEFINE A == Reach(g)[a]
<1>1. K \subseteq Statements(g) /\ a \in Statements(g) BY DEF EdgesHold
<1>2. ReachedRight(g, A, a) BY <1>1, ReachIsRight
<1>3. ClosedIn(g, K) BY DEF EdgesHold, EdgeIsLinked, ClosedIn
<1>4. A \subseteq K BY <1>1, <1>3, ReachStays
<1> HIDE DEF A
<1>5. ASSUME NEW x \in A, x # a PROVE g.stat[x].parentStatement \in A
  <2>1. PICK y \in A, field \in Edges : g.stat[y][field] = x BY <1>2, <1>5 DEF ReachedRight
  <2>2. EdgeIsLinked(g, K, y, field) BY <1>4 DEF EdgesHold
  <2>3. x # NULL BY <1>1, <1>4, <1>5 DEF Statements, EdgesLeadOn, NULL
  <2> QED BY <2>1, <2>2, <2>3 DEF EdgeIsLinked
<1> QED BY <1>2, <1>4, <1>5 DEF ReachedRight, ClosedIn, A

(* What hangs on different statements is different.                        *)

LEMMA SiblingsApart ==
  ASSUME NEW g, EdgesLeadOn(g), Placed(g), NEW K, EdgesHold(g, K), NEW a \in K, NEW b \in K,
         a # b, g.stat[a].parentStatement = g.stat[b].parentStatement
  PROVE  Reach(g)[a] \intersect Reach(g)[b] = {}
<1> DEFINE A == Reach(g)[a]
           B == Reach(g)[b]
           Both == A \intersect B
<1>2. a \in Statements(g) /\ b \in Statements(g) /\ K \subseteq Statements(g) /\ Statements(g) \subseteq Nat
  BY DEF EdgesHold, Statements, EdgesLeadOn
<1>3. /\ A \subseteq K /\ B \subseteq K /\ \A x \in A : a <= x
      /\ \A x \in B : b <= x
  BY HeldReach
<1>4. /\ \A x \in A : x # a => g.stat[x].parentStatement \in A
      /\ \A x \in B : x # b => g.stat[x].parentStatement \in B
  BY HeldReach
<1> HIDE DEF A, B
<1>5. \A x \in K : g.stat[x].parentStatement \in Nat /\ g.stat[x].parentStatement < x
  BY <1>2 DEF Placed
<1>6. Both = {}
  <2> SUFFICES ASSUME Both # {} PROVE FALSE OBVIOUS
  <2>1. PICK x \in Both : \A y \in Both : x <= y
    <3>1. Both \in SUBSET Nat BY <1>2, <1>3
    <3> HIDE DEF Both
    <3> QED BY <3>1, LeastNumber
  <2> DEFINE p == g.stat[x].parentStatement
  <2>2. x \in K /\ x \in A /\ x \in B /\ x \in Nat BY <1>2, <1>3
  <2>3. p \in Nat /\ p < x BY <1>5, <2>2
  <2>4. p \notin Both
    <3>1. ~ (x <= p) BY <2>2, <2>3
    <3> HIDE DEF p
    <3> QED BY <2>1, <3>1
  <2>5. x # a
    <3> SUFFICES ASSUME x = a PROVE FALSE OBVIOUS
    <3>1. p \in B BY <1>4, <2>2
    <3>2. p = g.stat[b].parentStatement OBVIOUS
    <3>3. p < b BY <1>5, <3>2
    <3>4. b <= p BY <1>3, <3>1
    <3> HIDE DEF p
    <3>5. b \in Nat BY <1>2
    <3> QED BY <2>3, <3>3, <3>4, <3>5
  <2>6. x # b
    <3> SUFFICES ASSUME x = b PROVE FALSE OBVIOUS
    <3>1. p \in A BY <1>4, <2>2
    <3>2. p = g.stat[a].parentStatement OBVIOUS
    <3>3. p < a BY <1>5, <3>2
    <3>4. a <= p BY <1>3, <3>1
    <3> HIDE DEF p
    <3>5. a \in Nat BY <1>2
    <3> QED BY <2>3, <3>3, <3>4, <3>5
  <2> QED BY <1>4, <2>2, <2>4, <2>5, <2>6
<1> QED BY <1>6 DEF A, B

(* What two edges of a statement lead to, and two roots.                   *)
LEMMA EdgesApart ==
  ASSUME NEW g, EdgesLeadOn(g), Placed(g), NEW K, EdgesHold(g, K), NEW s \in K
  PROVE  /\ \A field \in Edges : \A other \in Edges : field # other =>
              Reach(g)[g.stat[s][field]] \intersect Reach(g)[g.stat[s][other]] = {}
         /\ \A field \in Edges : s \notin Reach(g)[g.stat[s][field]]
<1>1. Reach(g)[NULL] = {} BY ReachUnfolds
<1>2. ASSUME NEW field \in Edges, NEW other \in Edges, field # other
      PROVE  Reach(g)[g.stat[s][field]] \intersect Reach(g)[g.stat[s][other]] = {}
  <2> DEFINE a == g.stat[s][field]
             b == g.stat[s][other]
  <2>1. CASE a = NULL BY <1>1, <2>1
  <2>2. CASE b = NULL BY <1>1, <2>2
  <2>3. CASE a # NULL /\ b # NULL
    <3>1. EdgeIsLinked(g, K, s, field) /\ EdgeIsLinked(g, K, s, other) BY DEF EdgesHold
    <3>2. /\ a \in K /\ b \in K /\ g.stat[a].parentStatement = s /\ g.stat[b].parentStatement = s
          /\ a # b
      BY <1>2, <2>3, <3>1 DEF EdgeIsLinked
    <3> HIDE DEF a, b
    <3>3. Reach(g)[a] \intersect Reach(g)[b] = {} BY <3>2, SiblingsApart
    <3> QED BY <3>3 DEF a, b
  <2> QED BY <2>1, <2>2, <2>3
<1>3. ASSUME NEW field \in Edges, s \in Reach(g)[g.stat[s][field]] PROVE FALSE
  <2> DEFINE a == g.stat[s][field]
  <2>1. a # NULL BY <1>1, <1>3
  <2>2. s \in Statements(g) BY DEF EdgesHold
  <2>3. a \in Statements(g) /\ s < a BY <2>1, <2>2 DEF EdgesLeadOn
  <2> HIDE DEF a
  <2>4. ReachedRight(g, Reach(g)[a], a) BY <2>3, ReachIsRight
  <2>5. a <= s BY <1>3, <2>4 DEF ReachedRight, a
  <2>6. a \in Nat /\ s \in Nat BY <2>2, <2>3 DEF Statements
  <2> QED BY <2>3, <2>5, <2>6
<1> QED BY <1>2, <1>3

LEMMA RootsApart ==
  ASSUME NEW g, EdgesLeadOn(g), Placed(g), NEW K, Linked(g, K),
         NEW f \in 1 .. Len(g.funcs), NEW k \in 1 .. Len(g.funcs), f # k
  PROVE  Reach(g)[g.funcs[f].rootStatement] \intersect Reach(g)[g.funcs[k].rootStatement] = {}
<1> DEFINE a == g.funcs[f].rootStatement
           b == g.funcs[k].rootStatement
<1>1. Reach(g)[NULL] = {} BY ReachUnfolds
<1>2. CASE a = NULL BY <1>1, <1>2
<1>3. CASE b = NULL BY <1>1, <1>3
<1>4. CASE a # NULL /\ b # NULL
  <2>1. RootIsLinked(g, K, f) /\ RootIsLinked(g, K, k) BY DEF Linked
  <2>2. /\ a \in K /\ b \in K /\ a # b
        /\ g.stat[a].parentStatement = NULL /\ g.stat[b].parentStatement = NULL
    BY <1>4, <2>1 DEF RootIsLinked
  <2> HIDE DEF a, b
  <2>3. EdgesHold(g, K) BY LinkedEdgesHold
  <2>4. Reach(g)[a] \intersect Reach(g)[b] = {} BY <2>2, <2>3, SiblingsApart
  <2> QED BY <2>4 DEF a, b
<1> QED BY <1>2, <1>3, <1>4

-----------------------------------------------------------------------------
(* An object that one statement alone frees of its own.                    *)

LEMMA OneOfFive ==
  ASSUME NEW p1 \in BOOLEAN, NEW p2 \in BOOLEAN, NEW p3 \in BOOLEAN, NEW p4 \in BOOLEAN, NEW p5 \in BOOLEAN,
         ~ (p1 /\ p2), ~ (p1 /\ p3), ~ (p1 /\ p4), ~ (p1 /\ p5), ~ (p2 /\ p3),
         ~ (p2 /\ p4), ~ (p2 /\ p5), ~ (p3 /\ p4), ~ (p3 /\ p5), ~ (p4 /\ p5)
  PROVE  One(p1) + One(p2) + One(p3) + One(p4) + One(p5) = One(p1 \/ p2 \/ p3 \/ p4 \/ p5)
<1>1. CASE p1 BY <1>1 DEF One
<1>2. CASE p2 BY <1>2 DEF One
<1>3. CASE p3 BY <1>3 DEF One
<1>4. CASE p4 BY <1>4 DEF One
<1>5. CASE p5 BY <1>5 DEF One
<1>6. CASE ~ (p1 \/ p2 \/ p3 \/ p4 \/ p5) BY <1>6 DEF One
<1> QED BY <1>1, <1>2, <1>3, <1>4, <1>5, <1>6

LEMMA CntOfNone ==
  ASSUME NEW g, Countable(g), NEW table, NEW x
  PROVE  Cnt(g, table, NULL, x) = 0
BY CountsAddUp

LEMMA CntOf ==
  ASSUME NEW g, Countable(g), NEW table, NEW x, NEW s \in Statements(g)
  PROVE  Cnt(g, table, s, x)
           = Cnt(g, table, g.stat[s].thenStatement, x) + Cnt(g, table, g.stat[s].elseStatement, x)
             + Cnt(g, table, g.stat[s].bodyStatement, x)
             + Cnt(g, table, g.stat[s].followingStatement, x) + OwnFrees(g, table, s, x)
BY CountsAddUp

LEMMA ReachCount ==
  ASSUME NEW g, Countable(g), Placed(g), NEW K, EdgesHold(g, K), NEW table, NEW x, NEW w,
         NEW d \in K, \A s \in Reach(g)[d] : OwnFrees(g, table, s, x) = One(s = w)
  PROVE  Cnt(g, table, d, x) = One(w \in Reach(g)[d])
<1> DEFINE N == Len(g.stat)
           D == Reach(g)[d]
           T == {s \in Statements(g) : s \in D => Cnt(g, table, s, x) = One(w \in Reach(g)[s])}
<1>1. EdgesLeadOn(g) /\ N \in Nat BY DEF Countable, EdgesLeadOn
<1>2. d \in Statements(g) /\ d \in D /\ D \subseteq K /\ K \subseteq Statements(g)
  BY <1>1, HeldReach DEF EdgesHold
<1>3. ClosedIn(g, D) BY <1>1, HeldReach
<1>4. Cnt(g, table, NULL, x) = 0 BY CntOfNone
<1>5. Reach(g)[NULL] = {} BY <1>1, ReachUnfolds
<1>6. \A s \in D : OwnFrees(g, table, s, x) = One(s = w) OBVIOUS
<1> HIDE DEF D
<1>7. ASSUME NEW s \in 1 .. N, \A t \in 1 .. N : s < t => t \in T PROVE s \in T
  <2>1. s \in Statements(g) BY DEF Statements
  <2> SUFFICES ASSUME s \in D PROVE Cnt(g, table, s, x) = One(w \in Reach(g)[s]) BY <2>1
  <2> DEFINE In(field) == w \in Reach(g)[g.stat[s][field]]
  <2>2. ASSUME NEW field \in Edges
        PROVE  Cnt(g, table, g.stat[s][field], x) = One(In(field))
    <3> DEFINE t == g.stat[s][field]
    <3>1. CASE t = NULL BY <1>4, <1>5, <3>1 DEF One
    <3>2. CASE t # NULL
      <4>1. t \in Statements(g) /\ s < t BY <1>1, <2>1, <3>2 DEF EdgesLeadOn
      <4>2. t \in D BY <1>3, <3>2 DEF ClosedIn
      <4> HIDE DEF t
      <4>3. t \in T BY <1>7, <4>1 DEF Statements
      <4>4. Cnt(g, table, t, x) = One(w \in Reach(g)[t]) BY <4>2, <4>3
      <4> QED BY <4>4 DEF t
    <3> QED BY <3>1, <3>2
  <2>3. /\ "thenStatement" \in Edges /\ "elseStatement" \in Edges
        /\ "bodyStatement" \in Edges /\ "followingStatement" \in Edges
        /\ \A field \in Edges : field \in {"thenStatement", "elseStatement", "bodyStatement",
                                           "followingStatement"}
    BY DEF Edges
  <2>4. Cnt(g, table, s, x)
          = Cnt(g, table, g.stat[s].thenStatement, x) + Cnt(g, table, g.stat[s].elseStatement, x)
            + Cnt(g, table, g.stat[s].bodyStatement, x)
            + Cnt(g, table, g.stat[s].followingStatement, x) + OwnFrees(g, table, s, x)
    BY <2>1, CntOf
  <2>5. OwnFrees(g, table, s, x) = One(s = w) BY <1>6
  <2>6. Cnt(g, table, s, x) = One(In("thenStatement")) + One(In("elseStatement"))
          + One(In("bodyStatement")) + One(In("followingStatement")) + One(s = w)
    BY <2>2, <2>3, <2>4, <2>5
  <2>7. /\ \A field \in Edges : \A other \in Edges : field # other => ~ (In(field) /\ In(other))
        /\ \A field \in Edges : ~ (In(field) /\ s = w)
    <3>1. s \in K BY <1>2
    <3>2. /\ \A field \in Edges : \A other \in Edges : field # other =>
               Reach(g)[g.stat[s][field]] \intersect Reach(g)[g.stat[s][other]] = {}
          /\ \A field \in Edges : s \notin Reach(g)[g.stat[s][field]]
      BY <1>1, <3>1, EdgesApart
    <3> QED BY <3>2
  <2>8. w \in Reach(g)[s] <=> w = s \/ \E field \in Edges : In(field) BY <1>1, <2>1, ReachHas
  <2> DEFINE p1 == In("thenStatement")
             p2 == In("elseStatement")
             p3 == In("bodyStatement")
             p4 == In("followingStatement")
             p5 == s = w
  <2>14. p1 \in BOOLEAN /\ p2 \in BOOLEAN /\ p3 \in BOOLEAN /\ p4 \in BOOLEAN /\ p5 \in BOOLEAN
    OBVIOUS
  <2> HIDE DEF In
  <2>9. /\ ~ (p1 /\ p2) /\ ~ (p1 /\ p3) /\ ~ (p1 /\ p4) /\ ~ (p1 /\ p5) /\ ~ (p2 /\ p3)
        /\ ~ (p2 /\ p4) /\ ~ (p2 /\ p5) /\ ~ (p3 /\ p4) /\ ~ (p3 /\ p5) /\ ~ (p4 /\ p5)
    BY <2>3, <2>7
  <2>10. w \in Reach(g)[s] <=> p1 \/ p2 \/ p3 \/ p4 \/ p5 BY <2>3, <2>8
  <2>11. Cnt(g, table, s, x) = One(p1) + One(p2) + One(p3) + One(p4) + One(p5) BY <2>6
  <2> HIDE DEF p1, p2, p3, p4, p5
  <2>12. One(p1) + One(p2) + One(p3) + One(p4) + One(p5) = One(p1 \/ p2 \/ p3 \/ p4 \/ p5)
    BY <2>9, <2>14, OneOfFive
  <2>13. One(p1 \/ p2 \/ p3 \/ p4 \/ p5) = One(w \in Reach(g)[s]) BY <2>10 DEF One
  <2> QED BY <2>11, <2>12, <2>13
<1>8. \A s \in 1 .. N : s \in T
  <2> HIDE DEF T, N
  <2> QED BY <1>1, <1>7, FromTheEnd
<1>9. d \in T BY <1>2, <1>8 DEF Statements
<1> QED BY <1>2, <1>9 DEF D

-----------------------------------------------------------------------------
(* The tables as the parser gave them.                                     *)

(* own are the statements that came with a table: the header of a for and  *)
(* the first statement of a branch, but for an else if.  No older          *)
(* statement and no function has that table; every other statement has     *)
(* that of the block it is in, block.                                      *)
TablesGiven(g, tables, own, block) ==
  /\ own \subseteq Statements(g)
  /\ \A s \in Statements(g) :
       /\ g.stat[s].statementType = "CF_FOR" => s \in own
       /\ g.stat[s].statementType = "CF_IF" => s \notin own
       /\ g.stat[s].statementType # "CF_FOR" => g.stat[s].localSymbolTable = block[s]
  /\ \A b \in own :
       /\ g.stat[b].localSymbolTable \in 1 .. tables
       /\ \A y \in Statements(g) : y < b => g.stat[y].localSymbolTable # g.stat[b].localSymbolTable
       /\ \A f \in 1 .. Len(g.funcs) : g.funcs[f].symbolTable # g.stat[b].localSymbolTable
  /\ \A f, k \in 1 .. Len(g.funcs) :
       g.funcs[f].symbolTable # NULL /\ g.funcs[f].symbolTable = g.funcs[k].symbolTable => f = k
  /\ \A t \in 1 .. tables :
       \/ \E b \in own : g.stat[b].localSymbolTable = t
       \/ \E f \in 1 .. Len(g.funcs) : g.funcs[f].symbolTable = t

(* A statement of a block that comes with a table is the header of a for.  *)
InBlock(g, own, s) == s \in own => g.stat[s].statementType = "CF_FOR"

(* What the edges from s lead to: a statement of the same block, or a      *)
(* branch, which an `else if' is without a block of its own.               *)
EdgesFit(g, own, block, s) ==
  /\ LET n == g.stat[s].followingStatement
     IN  n # NULL => block[n] = block[s] /\ InBlock(g, own, n)
  /\ \A arm \in ArmLinks :
       LET t == g.stat[s][arm]
       IN  t # NULL =>
             /\ g.stat[t].statementType # "CF_FOR"
             /\ IF g.stat[t].statementType = "CF_IF"
                THEN block[t] = block[s] /\ arm # "bodyStatement"
                ELSE t \in own

AllFit(g, K, own, block) == \A s \in K : EdgesFit(g, own, block, s)

RootsFit(g, own, block) ==
  \A f \in 1 .. Len(g.funcs) :
    LET root == g.funcs[f].rootStatement
    IN  root # NULL => block[root] = g.funcs[f].symbolTable /\ InBlock(g, own, root)

(* The statement that frees the table of b. *)
Holder(g, b) ==
  IF g.stat[b].statementType = "CF_FOR" THEN b ELSE g.stat[b].parentStatement

(* clean_stat sees whether a then branch has a table of its own.           *)
ThenSeen(g, table, s) ==
  g.stat[s].thenStatement # NULL =>
    (ThenOwnsTable(g, s, table) <=> g.stat[g.stat[s].thenStatement].statementType # "CF_IF")

-----------------------------------------------------------------------------
(* What a clean-up frees of what was given. *)

LEMMA OwnTablesDiffer ==
  ASSUME NEW g, NEW tables, NEW own, NEW block, TablesGiven(g, tables, own, block),
         Len(g.stat) \in Nat, NEW a \in own, NEW b \in own,
         g.stat[a].localSymbolTable = g.stat[b].localSymbolTable
  PROVE  a = b
<1>1. /\ a \in Statements(g) /\ b \in Statements(g)
      /\ \A y \in Statements(g) : y < b => g.stat[y].localSymbolTable # g.stat[b].localSymbolTable
      /\ \A y \in Statements(g) : y < a => g.stat[y].localSymbolTable # g.stat[a].localSymbolTable
  BY DEF TablesGiven
<1>2. ~ (a < b) /\ ~ (b < a) BY <1>1
<1>3. a \in Nat /\ b \in Nat BY <1>1 DEF Statements
<1> QED BY <1>2, <1>3

(* A statement frees of its own the table of a branch of it, or of its     *)
(* header.                                                                 *)
LEMMA FreesHeld ==
  ASSUME NEW g, EdgesLeadOn(g), NEW tables, NEW own, NEW block, TablesGiven(g, tables, own, block),
         NEW K, EdgesHold(g, K), AllFit(g, K, own, block), NEW s \in K, NEW table,
         ThenSeen(g, table, s), NEW b \in own
  PROVE  LET x == <<"table", g.stat[b].localSymbolTable>>
         IN  /\ FreesThen(g, table, s, x) <=> g.stat[s].thenStatement = b
             /\ FreesElse(g, s, x) <=> g.stat[s].elseStatement = b
             /\ FreesBody(g, s, x) <=> g.stat[s].bodyStatement = b
             /\ FreesHeader(g, s, x) <=> s = b /\ g.stat[b].statementType = "CF_FOR"
             /\ <<"stat", s>> # x
<1> DEFINE T == g.stat[b].localSymbolTable
           Type(t) == g.stat[t].statementType
<1>1. /\ s \in Statements(g) /\ b \in Statements(g) /\ b # NULL /\ Type(b) # "CF_IF"
      /\ Len(g.stat) \in Nat
  BY DEF TablesGiven, EdgesHold, Statements, NULL, EdgesLeadOn
<1>2. \A t : <<"table", t>> = <<"table", T>> <=> t = T OBVIOUS
<1>3. ASSUME NEW t \in own, g.stat[t].localSymbolTable = T PROVE t = b
  BY <1>1, <1>3, OwnTablesDiffer
<1>4. ASSUME NEW arm \in ArmLinks, g.stat[s][arm] # NULL
      PROVE  /\ Type(g.stat[s][arm]) # "CF_FOR"
             /\ Type(g.stat[s][arm]) # "CF_IF" => g.stat[s][arm] \in own
             /\ Type(g.stat[s][arm]) = "CF_IF" => arm # "bodyStatement"
  BY <1>4 DEF AllFit, EdgesFit
<1>5. "thenStatement" \in ArmLinks /\ "elseStatement" \in ArmLinks /\ "bodyStatement" \in ArmLinks
  BY DEF ArmLinks
<1>6. FreesThen(g, table, s, <<"table", T>>) <=> g.stat[s].thenStatement = b
  <2> DEFINE t == g.stat[s].thenStatement
  <2>1. t # NULL => /\ Type(t) # "CF_IF" => t \in own
                    /\ ThenOwnsTable(g, s, table) <=> Type(t) # "CF_IF"
    BY <1>4, <1>5 DEF ThenSeen
  <2>2. FreesThen(g, table, s, <<"table", T>>) <=>
          t # NULL /\ ThenOwnsTable(g, s, table) /\ g.stat[t].localSymbolTable = T
    BY <1>2 DEF FreesThen
  <2> HIDE DEF t, T, Type
  <2>3. ASSUME t # NULL, ThenOwnsTable(g, s, table), g.stat[t].localSymbolTable = T PROVE t = b
    BY <1>3, <2>1, <2>3
  <2>4. ASSUME t = b PROVE t # NULL /\ ThenOwnsTable(g, s, table) /\ g.stat[t].localSymbolTable = T
    BY <1>1, <2>1, <2>4 DEF T
  <2> QED BY <2>2, <2>3, <2>4 DEF t, T
<1>7. FreesElse(g, s, <<"table", T>>) <=> g.stat[s].elseStatement = b
  <2> DEFINE t == g.stat[s].elseStatement
  <2>1. t # NULL => (Type(t) # "CF_IF" => t \in own) BY <1>4, <1>5
  <2>2. FreesElse(g, s, <<"table", T>>) <=>
          t # NULL /\ Type(t) # "CF_IF" /\ g.stat[t].localSymbolTable = T
    BY <1>2 DEF FreesElse, ElseOwnsTable
  <2> HIDE DEF t, T, Type
  <2> QED BY <1>1, <1>3, <2>1, <2>2 DEF t, T
<1>8. FreesBody(g, s, <<"table", T>>) <=> g.stat[s].bodyStatement = b
  <2> DEFINE t == g.stat[s].bodyStatement
  <2>1. t # NULL => t \in own BY <1>4, <1>5
  <2>2. FreesBody(g, s, <<"table", T>>) <=> t # NULL /\ g.stat[t].localSymbolTable = T
    BY <1>2 DEF FreesBody
  <2> HIDE DEF t, T, Type
  <2> QED BY <1>1, <1>3, <2>1, <2>2 DEF t, T
<1>9. FreesHeader(g, s, <<"table", T>>) <=> s = b /\ Type(b) = "CF_FOR"
  <2>1. Type(s) = "CF_FOR" => s \in own BY <1>1 DEF TablesGiven
  <2>2. FreesHeader(g, s, <<"table", T>>) <=> Type(s) = "CF_FOR" /\ g.stat[s].localSymbolTable = T
    BY <1>2 DEF FreesHeader
  <2> QED BY <1>3, <2>1, <2>2
<1>10. <<"stat", s>> # <<"table", T>> OBVIOUS
<1> QED BY <1>6, <1>7, <1>8, <1>9, <1>10

(* Which statement frees the table of b in the clean-up of d: none if it   *)
(* is the branch d itself.                                                 *)
HolderUnder(g, b, d) ==
  IF b \in Reach(g)[d] /\ (b # d \/ g.stat[b].statementType = "CF_FOR") THEN Holder(g, b) ELSE NULL

LEMMA HolderFrees ==
  ASSUME NEW g, EdgesLeadOn(g), NEW tables, NEW own, NEW block, TablesGiven(g, tables, own, block),
         NEW K, EdgesHold(g, K), AllFit(g, K, own, block), NEW d \in K, NEW s \in Reach(g)[d],
         NEW table, ThenSeen(g, table, s), NEW b \in own
  PROVE  OwnFrees(g, table, s, <<"table", g.stat[b].localSymbolTable>>) = One(s = HolderUnder(g, b, d))
<1> DEFINE D == Reach(g)[d]
           w == HolderUnder(g, b, d)
           IsFor == g.stat[b].statementType = "CF_FOR"
           x == <<"table", g.stat[b].localSymbolTable>>
           p1 == g.stat[s].thenStatement = b
           p2 == g.stat[s].elseStatement = b
           p3 == g.stat[s].bodyStatement = b
           p4 == s = b /\ IsFor
           p5 == <<"stat", s>> = x
<1>1. /\ D \subseteq K /\ d \in D /\ ClosedIn(g, D) /\ \A y \in D : d <= y
      /\ \A y \in D : y # d => \E z \in D : \E field \in Edges : g.stat[z][field] = y
  BY HeldReach
<1>2. s \in K /\ s \in D /\ K \subseteq Statements(g) /\ s \in Statements(g) BY <1>1 DEF EdgesHold
<1>3. /\ FreesThen(g, table, s, x) <=> p1
      /\ FreesElse(g, s, x) <=> p2
      /\ FreesBody(g, s, x) <=> p3
      /\ FreesHeader(g, s, x) <=> p4
      /\ ~ p5
  BY <1>2, FreesHeld
<1>4. /\ p1 \in BOOLEAN /\ p2 \in BOOLEAN /\ p3 \in BOOLEAN /\ p4 \in BOOLEAN /\ p5 \in BOOLEAN
  OBVIOUS
<1>5. OwnFrees(g, table, s, x) = One(p1) + One(p2) + One(p3) + One(p4) + One(p5)
  BY <1>3 DEF OwnFrees, One
<1>6. "thenStatement" \in ArmLinks /\ "elseStatement" \in ArmLinks /\ "bodyStatement" \in ArmLinks
      /\ ArmLinks \subseteq Edges
  BY DEF ArmLinks, Edges
<1>7. b \in Statements(g) /\ b # NULL /\ b \in Nat /\ s \in Nat /\ s # NULL
  BY <1>2 DEF TablesGiven, Statements, NULL, EdgesLeadOn
<1>8. ASSUME NEW field \in Edges, g.stat[s][field] = b
      PROVE  /\ b \in K /\ b \in D /\ g.stat[b].parentStatement = s /\ s < b
             /\ \A other \in Edges : g.stat[s][other] = b => other = field
  <2>1. EdgeIsLinked(g, K, s, field) BY <1>2 DEF EdgesHold
  <2>2. b \in D BY <1>1, <1>2, <1>7, <1>8 DEF ClosedIn
  <2> QED BY <1>2, <1>7, <1>8, <2>1, <2>2 DEF EdgeIsLinked, EdgesLeadOn
<1>9. ASSUME NEW arm \in ArmLinks, g.stat[s][arm] = b
      PROVE  ~ IsFor /\ s = w /\ s # b
  <2>1. ~ IsFor BY <1>2, <1>7, <1>9 DEF AllFit, EdgesFit
  <2>2. b \in D /\ g.stat[b].parentStatement = s /\ s < b BY <1>6, <1>8, <1>9
  <2>3. b # d /\ s # b
    <3>1. d <= s /\ d \in Nat BY <1>1, <1>2 DEF Statements
    <3> QED BY <1>7, <2>2, <3>1
  <2> QED BY <2>1, <2>2, <2>3 DEF HolderUnder, Holder
<1>10. p1 \/ p2 \/ p3 => s = w BY <1>6, <1>9
<1>11. p4 => s = w BY <1>2 DEF HolderUnder, Holder
<1>12. ASSUME s = w PROVE p1 \/ p2 \/ p3 \/ p4
  <2>1. b \in D /\ (b # d \/ IsFor) /\ s = Holder(g, b) BY <1>7, <1>12 DEF HolderUnder
  <2>2. CASE IsFor BY <2>1, <2>2 DEF Holder
  <2>3. CASE ~ IsFor
    <3>1. PICK z \in D, field \in Edges : g.stat[z][field] = b BY <1>1, <2>1, <2>3
    <3>2. EdgeIsLinked(g, K, z, field) BY <1>1 DEF EdgesHold
    <3>3. z = s BY <1>7, <2>1, <2>3, <3>1, <3>2 DEF EdgeIsLinked, Holder
    <3>4. field # "followingStatement"
      <4>1. field = "followingStatement" => InBlock(g, own, b)
        BY <1>2, <1>7, <3>1, <3>3 DEF AllFit, EdgesFit
      <4> QED BY <2>3, <4>1 DEF InBlock
    <3> QED BY <3>1, <3>3, <3>4 DEF Edges
  <2> QED BY <2>2, <2>3
<1>13. /\ ~ (p1 /\ p2) /\ ~ (p1 /\ p3) /\ ~ (p1 /\ p4) /\ ~ (p1 /\ p5) /\ ~ (p2 /\ p3)
       /\ ~ (p2 /\ p4) /\ ~ (p2 /\ p5) /\ ~ (p3 /\ p4) /\ ~ (p3 /\ p5) /\ ~ (p4 /\ p5)
  <2>1. ~ p5 BY <1>3
  <2>2. ~ (p1 /\ p4) /\ ~ (p2 /\ p4) /\ ~ (p3 /\ p4) BY <1>6, <1>9
  <2>3. ASSUME NEW field \in ArmLinks, NEW other \in ArmLinks, g.stat[s][field] = b, g.stat[s][other] = b
        PROVE  field = other
    BY <1>6, <1>8, <2>3
  <2>4. "thenStatement" # "elseStatement" /\ "thenStatement" # "bodyStatement"
        /\ "elseStatement" # "bodyStatement"
    OBVIOUS
  <2>5. ~ (p1 /\ p2) /\ ~ (p1 /\ p3) /\ ~ (p2 /\ p3) BY <1>6, <2>3, <2>4
  <2> HIDE DEF p1, p2, p3, p4, p5
  <2> QED BY <2>1, <2>2, <2>5
<1>14. p1 \/ p2 \/ p3 \/ p4 \/ p5 <=> s = w BY <1>3, <1>10, <1>11, <1>12
<1> HIDE DEF p1, p2, p3, p4, p5, w, x
<1>15. One(p1) + One(p2) + One(p3) + One(p4) + One(p5) = One(p1 \/ p2 \/ p3 \/ p4 \/ p5)
  BY <1>4, <1>13, OneOfFive
<1>16. One(p1 \/ p2 \/ p3 \/ p4 \/ p5) = One(s = w) BY <1>14 DEF One
<1> QED BY <1>5, <1>15, <1>16 DEF x, w

(* What the clean-up of d frees. *)
Cleaning(g, tables, own, block, K, d, table) ==
  /\ Countable(g) /\ Placed(g) /\ TablesGiven(g, tables, own, block)
  /\ EdgesHold(g, K) /\ AllFit(g, K, own, block) /\ d \in K
  /\ \A s \in Reach(g)[d] : ThenSeen(g, table, s)

LEMMA OwnTableCount ==
  ASSUME NEW g, NEW tables, NEW own, NEW block, NEW K, NEW d, NEW table,
         Cleaning(g, tables, own, block, K, d, table), NEW b \in own
  PROVE  Cnt(g, table, d, <<"table", g.stat[b].localSymbolTable>>)
           = One(b \in Reach(g)[d] /\ (b # d \/ g.stat[b].statementType = "CF_FOR"))
<1> DEFINE D == Reach(g)[d]
           w == HolderUnder(g, b, d)
           x == <<"table", g.stat[b].localSymbolTable>>
           Held == b \in D /\ (b # d \/ g.stat[b].statementType = "CF_FOR")
<1>1. /\ Countable(g) /\ Placed(g) /\ EdgesLeadOn(g) /\ EdgesHold(g, K) /\ d \in K
      /\ TablesGiven(g, tables, own, block) /\ AllFit(g, K, own, block)
      /\ \A s \in D : ThenSeen(g, table, s)
  BY DEF Cleaning, Countable
<1>2. \A s \in D : OwnFrees(g, table, s, x) = One(s = w) BY <1>1, HolderFrees
<1>3. /\ D \subseteq Statements(g)
      /\ \A y \in D : y # d => g.stat[y].parentStatement \in D
  BY <1>1, HeldReach DEF EdgesHold
<1>4. w \in D <=> Held
  <2>1. NULL \notin D BY <1>1, <1>3 DEF Statements, NULL, EdgesLeadOn
  <2> QED BY <1>3, <2>1 DEF HolderUnder, Holder
<1> HIDE DEF w, x
<1>5. Cnt(g, table, d, x) = One(w \in D) BY <1>1, <1>2, ReachCount
<1> HIDE DEF Held
<1> QED BY <1>4, <1>5 DEF One, x, Held

LEMMA StatementCount ==
  ASSUME NEW g, NEW tables, NEW own, NEW block, NEW K, NEW d, NEW table,
         Cleaning(g, tables, own, block, K, d, table), NEW y
  PROVE  Cnt(g, table, d, <<"stat", y>>) = One(y \in Reach(g)[d])
<1>1. Countable(g) /\ Placed(g) /\ EdgesHold(g, K) /\ d \in K BY DEF Cleaning
<1>2. ASSUME NEW s PROVE OwnFrees(g, table, s, <<"stat", y>>) = One(s = y)
  <2>1. \A t : <<"table", t>> # <<"stat", y>> OBVIOUS
  <2>2. <<"stat", s>> = <<"stat", y>> <=> s = y OBVIOUS
  <2> QED BY <2>1, <2>2 DEF OwnFrees, FreesThen, FreesElse, FreesBody, FreesHeader, One
<1> QED BY <1>1, <1>2, ReachCount

(* The table of a function is not freed in there. *)
LEMMA FunctionTableCount ==
  ASSUME NEW g, NEW tables, NEW own, NEW block, NEW K, NEW d, NEW table,
         Cleaning(g, tables, own, block, K, d, table), NEW f \in 1 .. Len(g.funcs)
  PROVE  Cnt(g, table, d, <<"table", g.funcs[f].symbolTable>>) = 0
<1> DEFINE T == g.funcs[f].symbolTable
           Type(t) == g.stat[t].statementType
<1>1. /\ Countable(g) /\ Placed(g) /\ EdgesLeadOn(g) /\ EdgesHold(g, K) /\ d \in K
      /\ TablesGiven(g, tables, own, block) /\ AllFit(g, K, own, block)
      /\ \A s \in Reach(g)[d] : ThenSeen(g, table, s)
  BY DEF Cleaning, Countable
<1>2. Reach(g)[d] \subseteq K /\ K \subseteq Statements(g) BY <1>1, HeldReach DEF EdgesHold
<1>3. ASSUME NEW t \in own PROVE <<"table", g.stat[t].localSymbolTable>> # <<"table", T>>
  BY <1>1 DEF TablesGiven
<1>4. ASSUME NEW s \in Reach(g)[d] PROVE OwnFrees(g, table, s, <<"table", T>>) = One(s = NULL)
  <2>1. s \in K /\ s \in Statements(g) /\ s # NULL /\ ThenSeen(g, table, s)
    BY <1>1, <1>2 DEF Placed
  <2>2. ASSUME NEW arm \in ArmLinks, g.stat[s][arm] # NULL
        PROVE  /\ Type(g.stat[s][arm]) # "CF_IF" => g.stat[s][arm] \in own
               /\ arm = "bodyStatement" => g.stat[s][arm] \in own
    BY <1>1, <2>1, <2>2 DEF AllFit, EdgesFit
  <2>3. "thenStatement" \in ArmLinks /\ "elseStatement" \in ArmLinks /\ "bodyStatement" \in ArmLinks
    BY DEF ArmLinks
  <2>4. ~ FreesThen(g, table, s, <<"table", T>>)
    BY <1>3, <2>1, <2>2, <2>3 DEF FreesThen, ThenSeen
  <2>5. ~ FreesElse(g, s, <<"table", T>>) BY <1>3, <2>2, <2>3 DEF FreesElse, ElseOwnsTable
  <2>6. ~ FreesBody(g, s, <<"table", T>>) BY <1>3, <2>2, <2>3 DEF FreesBody
  <2>7. ~ FreesHeader(g, s, <<"table", T>>) BY <1>1, <1>3, <2>1 DEF FreesHeader, TablesGiven
  <2>8. <<"stat", s>> # <<"table", T>> OBVIOUS
  <2> HIDE DEF T
  <2> QED BY <2>1, <2>4, <2>5, <2>6, <2>7, <2>8 DEF OwnFrees, One
<1>5. NULL \notin Reach(g)[d] BY <1>1, <1>2 DEF Placed
<1> HIDE DEF T
<1> DEFINE x == <<"table", T>>
<1>6. \A s \in Reach(g)[d] : OwnFrees(g, table, s, x) = One(s = NULL) BY <1>4
<1>7. Countable(g) /\ Placed(g) /\ EdgesHold(g, K) /\ d \in K BY <1>1
<1> HIDE DEF x
<1>8. Cnt(g, table, d, x) = One(NULL \in Reach(g)[d]) BY <1>6, <1>7, ReachCount
<1> QED BY <1>5, <1>8 DEF One, T, x

-----------------------------------------------------------------------------
(* The parser gives them: own and block as it adds statements.             *)

Given(g, tables, own, block) ==
  TablesGiven(g, tables, own, block) /\ AllFit(g, Statements(g), own, block) /\ RootsFit(g, own, block)

OwnAfter(g, own, edge, type) == IF BringsTable(edge, type) THEN own \union {NewId(g)} ELSE own

(* The table of the block that a new statement is in: its own if it starts *)
(* the block.                                                              *)
BlockOfNew(g, tables, edge, type) ==
  IF type # "CF_FOR" /\ BringsTable(edge, type) THEN tables + 1 ELSE InheritedSymtable(g)

BlockAfter(g, block, v) ==
  [s \in Statements(g) \union {NewId(g)} |-> IF s = NewId(g) THEN v ELSE block[s]]

(* A statement that is added with its table. *)
AddsWithTable(g, tables, h, edge, type) ==
  /\ AddsStatement(g, tables, h, edge, type)
  /\ h.stat[NewId(g)].localSymbolTable =
       IF BringsTable(edge, type) THEN tables + 1 ELSE InheritedSymtable(g)
  /\ type = "CF_IF" => edge \in {"followingStatement", "elseStatement"}

LEMMA GrownTables ==
  ASSUME NEW g, NEW tables, NEW h, NEW edge, NEW type, AddsWithTable(g, tables, h, edge, type),
         NEW own, NEW block, TablesGiven(g, tables, own, block)
  PROVE  TablesGiven(h, IF BringsTable(edge, type) THEN tables + 1 ELSE tables,
                     OwnAfter(g, own, edge, type),
                     BlockAfter(g, block, BlockOfNew(g, tables, edge, type)))
<1> DEFINE n == NewId(g)
           v == BlockOfNew(g, tables, edge, type)
           own2 == OwnAfter(g, own, edge, type)
           block2 == BlockAfter(g, block, v)
           more == IF BringsTable(edge, type) THEN tables + 1 ELSE tables
           T(x) == h.stat[x].localSymbolTable
<1>1. /\ AddsStatement(g, tables, h, edge, type) /\ GraphInv(g, tables)
      /\ edge # "followingStatement" => type # "CF_FOR"
  BY DEF AddsWithTable, AddsStatement
<1>2. /\ \A s \in Statements(g) : /\ h.stat[s].statementType = g.stat[s].statementType
                                  /\ T(s) = g.stat[s].localSymbolTable
      /\ Statements(h) = Statements(g) \union {n} /\ n \notin Statements(g)
      /\ h.stat[n].statementType = type
      /\ Len(h.funcs) = Len(g.funcs)
      /\ \A f \in 1 .. Len(g.funcs) : h.funcs[f].symbolTable = g.funcs[f].symbolTable
  BY <1>1, GrownStatements DEF SameStatement
<1>3. /\ tables \in Nat
      /\ \A s \in Statements(g) : g.stat[s].localSymbolTable # tables + 1
      /\ \A f \in 1 .. Len(g.funcs) : g.funcs[f].symbolTable # tables + 1
  BY <1>1, TableNumbers
<1>4. Len(g.stat) \in Nat /\ n = Len(g.stat) + 1 /\ \A s \in Statements(g) : s < n /\ s \in Nat
  BY <1>1, GraphParts DEF GraphInv, NewId, Statements
<1>5. BringsTable(edge, type) <=>
        \/ type = "CF_FOR"
        \/ type # "CF_FOR" /\ BringsTable(edge, type)
  BY <1>1 DEF BringsTable
<1>6. T(n) = IF BringsTable(edge, type) THEN tables + 1 ELSE InheritedSymtable(g)
  BY DEF AddsWithTable
<1>7. type = "CF_IF" => ~ BringsTable(edge, type) BY DEF AddsWithTable, BringsTable
<1>8. /\ own2 \subseteq own \union {n} /\ own \subseteq own2
      /\ n \in own2 <=> BringsTable(edge, type)
  BY <1>2 DEF OwnAfter, TablesGiven
<1>9. block2[n] = v /\ \A s \in Statements(g) : block2[s] = block[s] BY <1>2 DEF BlockAfter
<1>10. v = IF type # "CF_FOR" /\ BringsTable(edge, type) THEN tables + 1 ELSE InheritedSymtable(g)
  BY DEF BlockOfNew
<1>11. more \in Nat /\ tables <= more /\ (BringsTable(edge, type) => more = tables + 1)
       /\ (~ BringsTable(edge, type) => more = tables)
  BY <1>3
<1> HIDE DEF n, v, own2, block2, more
<1>12. own2 \subseteq Statements(h) BY <1>2, <1>8 DEF TablesGiven
<1>13. ASSUME NEW s \in Statements(h)
       PROVE  /\ h.stat[s].statementType = "CF_FOR" => s \in own2
              /\ h.stat[s].statementType = "CF_IF" => s \notin own2
              /\ h.stat[s].statementType # "CF_FOR" => T(s) = block2[s]
  <2>1. CASE s = n BY <1>2, <1>5, <1>6, <1>7, <1>8, <1>9, <1>10, <2>1
  <2>2. CASE s \in Statements(g) BY <1>2, <1>8, <1>9, <2>2 DEF TablesGiven
  <2> QED BY <1>2, <2>1, <2>2
<1>14. ASSUME NEW b \in own2
       PROVE  /\ T(b) \in 1 .. more
              /\ \A y \in Statements(h) : y < b => T(y) # T(b)
              /\ \A f \in 1 .. Len(h.funcs) : h.funcs[f].symbolTable # T(b)
  <2>1. CASE b = n
    <3>1. T(b) = tables + 1 /\ more = tables + 1 BY <1>6, <1>8, <1>11, <2>1
    <3>2. \A y \in Statements(h) : y < b => y \in Statements(g) BY <1>2, <1>4, <2>1
    <3> QED BY <1>2, <1>3, <3>1, <3>2
  <2>2. CASE b # n
    <3>1. b \in own /\ b \in Statements(g) BY <1>8, <2>2 DEF TablesGiven
    <3>2. \A y \in Statements(h) : y < b => y \in Statements(g) BY <1>2, <1>4, <3>1
    <3>3. T(b) \in 1 .. tables /\ \A y \in Statements(g) : y < b => T(y) # T(b)
      BY <1>2, <3>1 DEF TablesGiven
    <3>4. T(b) \in 1 .. more BY <1>3, <1>11, <3>3
    <3> QED BY <1>2, <3>1, <3>2, <3>3, <3>4 DEF TablesGiven
  <2> QED BY <2>1, <2>2
<1>15. \A f, k \in 1 .. Len(h.funcs) :
         h.funcs[f].symbolTable # NULL /\ h.funcs[f].symbolTable = h.funcs[k].symbolTable => f = k
  BY <1>2 DEF TablesGiven
<1>16. ASSUME NEW t \in 1 .. more
       PROVE  \/ \E b \in own2 : T(b) = t
              \/ \E f \in 1 .. Len(h.funcs) : h.funcs[f].symbolTable = t
  <2>1. CASE t \in 1 .. tables
    <3>1. \/ \E b \in own : g.stat[b].localSymbolTable = t
          \/ \E f \in 1 .. Len(g.funcs) : g.funcs[f].symbolTable = t
      BY <2>1 DEF TablesGiven
    <3> QED BY <1>2, <1>8, <3>1 DEF TablesGiven
  <2>2. CASE t \notin 1 .. tables
    <3>1. t = tables + 1 /\ BringsTable(edge, type) BY <1>3, <1>11, <2>2
    <3> QED BY <1>6, <1>8, <3>1
  <2> QED BY <2>1, <2>2
<1>17. TablesGiven(h, more, own2, block2)
  BY <1>12, <1>13, <1>14, <1>15, <1>16 DEF TablesGiven
<1> QED BY <1>17 DEF more, own2, block2, v

LEMMA GrownEdgesFit ==
  ASSUME NEW g, NEW tables, NEW h, NEW edge, NEW type, AddsWithTable(g, tables, h, edge, type),
         NEW own, NEW block, own \subseteq Statements(g), AllFit(g, Statements(g), own, block),
         g.activeStat # NULL => InheritedSymtable(g) = block[g.activeStat]
  PROVE  AllFit(h, Statements(h), OwnAfter(g, own, edge, type),
                BlockAfter(g, block, BlockOfNew(g, tables, edge, type)))
<1> DEFINE n == NewId(g)
           a == g.activeStat
           v == BlockOfNew(g, tables, edge, type)
           own2 == OwnAfter(g, own, edge, type)
           block2 == BlockAfter(g, block, v)
           Type(x) == h.stat[x].statementType
<1>1. /\ AddsStatement(g, tables, h, edge, type) /\ GraphInv(g, tables) /\ edge \in Edges
      /\ edge # "followingStatement" => type # "CF_FOR"
  BY DEF AddsWithTable, AddsStatement
<1>2. /\ \A s \in Statements(g) : Type(s) = g.stat[s].statementType
      /\ \A s \in Statements(g) : \A field \in Edges :
           h.stat[s][field] = IF s = a /\ field = edge THEN n ELSE g.stat[s][field]
      /\ Statements(h) = Statements(g) \union {n} /\ n \notin Statements(g) /\ n # NULL
      /\ Type(n) = type /\ \A field \in Edges : h.stat[n][field] = NULL
  BY <1>1, GrownStatements DEF SameStatement
<1>3. \A s \in Statements(g) : \A field \in Edges :
        g.stat[s][field] # NULL => g.stat[s][field] \in Statements(g)
  BY <1>1, EdgeLeadsOn
<1>4. /\ own2 \subseteq own \union {n} /\ own \subseteq own2 /\ n \notin own
      /\ n \in own2 <=> BringsTable(edge, type)
  BY <1>2 DEF OwnAfter
<1>5. block2[n] = v /\ \A s \in Statements(g) : block2[s] = block[s] BY <1>2 DEF BlockAfter
<1>6. /\ type = "CF_FOR" \/ ~ BringsTable(edge, type) => v = InheritedSymtable(g)
      /\ BringsTable(edge, type) <=> IF edge = "followingStatement" THEN type = "CF_FOR"
                                     ELSE ~ (edge = "elseStatement" /\ type = "CF_IF")
      /\ type = "CF_IF" => edge \in {"followingStatement", "elseStatement"}
  BY DEF BlockOfNew, BringsTable, AddsWithTable
<1>7. a = NULL \/ a \in Statements(g) BY <1>1, GraphParts DEF GraphInv, GraphOK
<1>8. /\ ArmLinks \subseteq Edges /\ "followingStatement" \in Edges
      /\ "followingStatement" \notin ArmLinks /\ "bodyStatement" # "elseStatement"
      /\ \A field \in Edges : field = "followingStatement" \/ field \in ArmLinks
  BY FieldNames
<1> HIDE DEF n, a, v, own2, block2
<1>9. ASSUME NEW s \in Statements(g) PROVE EdgesFit(h, own2, block2, s)
  <2>1. /\ \A t \in Statements(g) : t \in own2 <=> t \in own
        /\ NULL \notin Statements(g)
    BY <1>1, <1>2, <1>4, GraphParts DEF GraphInv, Statements, NULL
  <2>2. EdgesFit(g, own, block, s) BY DEF AllFit
  <2> DEFINE f == h.stat[s].followingStatement
  <2>3. f # NULL => block2[f] = block2[s] /\ InBlock(h, own2, f)
    <3>1. CASE s = a /\ edge = "followingStatement"
      <4>1. f = n BY <1>2, <1>8, <3>1
      <4>2. v = InheritedSymtable(g) BY <1>6, <3>1
      <4>3. InheritedSymtable(g) = block[a] BY <2>1, <3>1 DEF a
      <4>4. n \in own2 => Type(n) = "CF_FOR" BY <1>2, <1>4, <1>6, <3>1
      <4> QED BY <1>5, <3>1, <4>1, <4>2, <4>3, <4>4 DEF InBlock
    <3>2. CASE ~ (s = a /\ edge = "followingStatement")
      <4>1. f = g.stat[s].followingStatement BY <1>2, <1>8, <3>2
      <4>2. f # NULL => f \in Statements(g) BY <1>3, <1>8, <4>1
      <4>3. f # NULL => block[f] = block[s] /\ InBlock(g, own, f) BY <2>2, <4>1 DEF EdgesFit
      <4> HIDE DEF f
      <4> QED BY <1>2, <1>5, <2>1, <4>2, <4>3 DEF InBlock
    <3> QED BY <3>1, <3>2
  <2>4. ASSUME NEW arm \in ArmLinks, h.stat[s][arm] # NULL
        PROVE  LET t == h.stat[s][arm]
               IN  /\ Type(t) # "CF_FOR"
                   /\ IF Type(t) = "CF_IF" THEN block2[t] = block2[s] /\ arm # "bodyStatement"
                      ELSE t \in own2
    <3> DEFINE t == h.stat[s][arm]
    <3>1. CASE s = a /\ edge = arm
      <4>1. t = n /\ edge # "followingStatement" BY <1>2, <1>8, <3>1
      <4>2. Type(t) = type /\ type # "CF_FOR" BY <1>1, <1>2, <4>1
      <4>3. InheritedSymtable(g) = block[a] BY <2>1, <3>1 DEF a
      <4>4. CASE type = "CF_IF"
        <5>1. edge = "elseStatement" /\ v = InheritedSymtable(g) BY <1>6, <4>1, <4>4
        <5> QED BY <1>5, <1>8, <3>1, <4>1, <4>2, <4>3, <4>4, <5>1
      <4>5. CASE type # "CF_IF" BY <1>4, <1>6, <4>1, <4>2, <4>5
      <4> QED BY <4>4, <4>5
    <3>2. CASE ~ (s = a /\ edge = arm)
      <4>1. t = g.stat[s][arm] BY <1>2, <1>8, <3>2
      <4>2. t \in Statements(g) BY <1>3, <1>8, <2>4, <4>1
      <4>3. /\ g.stat[t].statementType # "CF_FOR"
            /\ IF g.stat[t].statementType = "CF_IF" THEN block[t] = block[s] /\ arm # "bodyStatement"
               ELSE t \in own
        BY <2>2, <2>4, <4>1 DEF EdgesFit
      <4> HIDE DEF t
      <4>4. /\ Type(t) # "CF_FOR"
            /\ IF Type(t) = "CF_IF" THEN block2[t] = block2[s] /\ arm # "bodyStatement"
               ELSE t \in own2
        BY <1>2, <1>5, <2>1, <4>2, <4>3
      <4> QED BY <4>4 DEF t
    <3> QED BY <3>1, <3>2
  <2> QED BY <2>3, <2>4 DEF EdgesFit
<1>10. EdgesFit(h, own2, block2, n) BY <1>2, <1>8 DEF EdgesFit
<1>11. AllFit(h, Statements(h), own2, block2) BY <1>2, <1>9, <1>10 DEF AllFit
<1> QED BY <1>11 DEF own2, block2, v

LEMMA GrownRootsFit ==
  ASSUME NEW g, NEW tables, NEW h, NEW edge, NEW type, AddsWithTable(g, tables, h, edge, type),
         NEW own, NEW block, own \subseteq Statements(g), RootsFit(g, own, block)
  PROVE  RootsFit(h, OwnAfter(g, own, edge, type),
                  BlockAfter(g, block, BlockOfNew(g, tables, edge, type)))
<1> DEFINE n == NewId(g)
           a == g.activeStat
           v == BlockOfNew(g, tables, edge, type)
           own2 == OwnAfter(g, own, edge, type)
           block2 == BlockAfter(g, block, v)
<1>1. /\ AddsStatement(g, tables, h, edge, type) /\ GraphInv(g, tables) /\ edge \in Edges
      /\ edge # "followingStatement" => a # NULL
      /\ Grows(g, h, edge, type, FuncNames)
  BY DEF AddsWithTable, AddsStatement
<1>2. /\ \A s \in Statements(g) : h.stat[s].statementType = g.stat[s].statementType
      /\ n \notin Statements(g) /\ n # NULL /\ h.stat[n].statementType = type
  BY <1>1, GrownStatements DEF SameStatement
<1>3. /\ own2 \subseteq own \union {n} /\ n \notin own
      /\ n \in own2 <=> BringsTable(edge, type)
  BY <1>2 DEF OwnAfter
<1>4. block2[n] = v /\ \A s \in Statements(g) : block2[s] = block[s] BY <1>2 DEF BlockAfter
<1>5. edge = "followingStatement" =>
        v = InheritedSymtable(g) /\ (BringsTable(edge, type) => type = "CF_FOR")
  BY DEF BlockOfNew, BringsTable
<1>6. a = NULL => InheritedSymtable(g) = g.funcs[g.activeFunc].symbolTable BY DEF InheritedSymtable
<1>7. /\ Len(h.funcs) = Len(g.funcs)
      /\ \A f \in 1 .. Len(g.funcs) :
           /\ h.funcs[f].symbolTable = g.funcs[f].symbolTable
           /\ h.funcs[f].rootStatement =
                IF f = g.activeFunc /\ g.funcs[f].rootStatement = NULL THEN n ELSE g.funcs[f].rootStatement
           /\ g.funcs[f].rootStatement \in {NULL} \union Statements(g)
  BY <1>1 DEF Grows, FunctionsKept, GraphInv, PointersOK, PointersIn
<1>8. ASSUME NEW f \in 1 .. Len(g.funcs), f = g.activeFunc, g.funcs[f].rootStatement = NULL
      PROVE  a = NULL
  BY <1>1, <1>8 DEF GraphInv, RootIsMade, NULL
<1> HIDE DEF n, a, v, own2, block2
<1>9. ASSUME NEW f \in 1 .. Len(h.funcs), h.funcs[f].rootStatement # NULL
      PROVE  LET root == h.funcs[f].rootStatement
             IN  block2[root] = h.funcs[f].symbolTable /\ InBlock(h, own2, root)
  <2>1. CASE f = g.activeFunc /\ g.funcs[f].rootStatement = NULL
    <3>1. h.funcs[f].rootStatement = n /\ a = NULL /\ edge = "followingStatement"
      BY <1>1, <1>7, <1>8, <1>9, <2>1
    <3>2. v = h.funcs[f].symbolTable BY <1>5, <1>6, <1>7, <1>9, <2>1, <3>1
    <3>3. InBlock(h, own2, n) BY <1>2, <1>3, <1>5, <3>1 DEF InBlock
    <3> QED BY <1>4, <3>1, <3>2, <3>3
  <2>2. CASE ~ (f = g.activeFunc /\ g.funcs[f].rootStatement = NULL)
    <3> DEFINE root == g.funcs[f].rootStatement
    <3>1. f \in 1 .. Len(g.funcs) /\ h.funcs[f].rootStatement = root BY <1>7, <1>9, <2>2
    <3>2. root \in Statements(g) BY <1>7, <1>9, <3>1
    <3>3. block[root] = g.funcs[f].symbolTable /\ InBlock(g, own, root)
      BY <1>9, <3>1 DEF RootsFit
    <3>4. h.funcs[f].symbolTable = g.funcs[f].symbolTable BY <1>7, <3>1
    <3>5. root \in own2 => root \in own BY <1>2, <1>3, <3>2
    <3> HIDE DEF root
    <3> QED BY <1>2, <1>4, <3>1, <3>2, <3>3, <3>4, <3>5 DEF InBlock
  <2> QED BY <2>1, <2>2
<1>10. RootsFit(h, own2, block2) BY <1>9 DEF RootsFit
<1> QED BY <1>10 DEF own2, block2, v

(* The parser knows the table of the block it is in, and of those that it  *)
(* returns to.                                                             *)
Found(g, cs, block) ==
  /\ g.activeStat # NULL => ScopeTable(g, g.activeStat) = block[g.activeStat]
  /\ \A i \in 2 .. Len(cs) : ScopeTable(g, cs[i].owner) = block[cs[i].owner]

(* The calls cs2 read n and what the calls cs read. *)
MadeFor(cs, n, cs2) ==
  \A i \in 2 .. Len(cs2) : cs2[i].owner = n \/ \E j \in 2 .. Len(cs) : cs2[i].owner = cs[j].owner

LEMMA GrowsGiven ==
  ASSUME NEW g, NEW tables, NEW h, NEW edge, NEW type, AddsWithTable(g, tables, h, edge, type),
         g.activeFunc # NULL, NEW more, GraphInv(h, more),
         NEW own, NEW block, Given(g, tables, own, block),
         NEW cs, Found(g, cs, block), OwnersIn(g, cs), NEW cs2, MadeFor(cs, NewId(g), cs2)
  PROVE  LET own2   == OwnAfter(g, own, edge, type)
             block2 == BlockAfter(g, block, BlockOfNew(g, tables, edge, type))
         IN  /\ Given(h, IF BringsTable(edge, type) THEN tables + 1 ELSE tables, own2, block2)
             /\ Found(h, cs2, block2)
<1> DEFINE n == NewId(g)
           v == BlockOfNew(g, tables, edge, type)
           own2 == OwnAfter(g, own, edge, type)
           block2 == BlockAfter(g, block, v)
           less == IF BringsTable(edge, type) THEN tables + 1 ELSE tables
<1>1. /\ AddsStatement(g, tables, h, edge, type) /\ GraphInv(g, tables) /\ edge \in Edges
      /\ Grows(g, h, edge, type, FuncNames)
      /\ edge # "followingStatement" => type # "CF_FOR"
  BY DEF AddsWithTable, AddsStatement
<1>2. /\ TablesGiven(g, tables, own, block) /\ AllFit(g, Statements(g), own, block)
      /\ RootsFit(g, own, block) /\ own \subseteq Statements(g)
  BY DEF Given, TablesGiven
<1>3. InheritedSymtable(g) = ScopeTable(g, g.activeStat) BY <1>1, InheritsScope
<1>4. g.activeStat # NULL => InheritedSymtable(g) = block[g.activeStat] BY <1>3 DEF Found
<1>5. TablesGiven(h, less, own2, block2) BY <1>2, GrownTables
<1>6. AllFit(h, Statements(h), own2, block2) BY <1>2, <1>4, GrownEdgesFit
<1>7. RootsFit(h, own2, block2) BY <1>2, GrownRootsFit
<1>8. KeepsScopes(g, h) BY <1>1, GrowsKeepsScopes
<1>9. ScopeTable(h, n) = v
  <2>1. ScopeTable(h, n) = IF type = "CF_FOR" THEN ScopeTable(g, g.activeStat)
                           ELSE h.stat[n].localSymbolTable
    BY <1>1, ScopeOfNew
  <2>2. h.stat[n].localSymbolTable = IF BringsTable(edge, type) THEN tables + 1
                                     ELSE InheritedSymtable(g)
    BY DEF AddsWithTable
  <2> QED BY <1>3, <2>1, <2>2 DEF BlockOfNew
<1>10. /\ n \notin Statements(g) /\ h.activeStat = n
  BY <1>1, GrownStatements DEF Grows
<1>11. block2[n] = v /\ \A s \in Statements(g) : block2[s] = block[s] BY <1>10 DEF BlockAfter
<1> HIDE DEF n, v, own2, block2, less
<1>12. ASSUME NEW i \in 2 .. Len(cs2) PROVE ScopeTable(h, cs2[i].owner) = block2[cs2[i].owner]
  <2>1. CASE cs2[i].owner = n BY <1>9, <1>11, <2>1
  <2>2. CASE \E j \in 2 .. Len(cs) : cs2[i].owner = cs[j].owner
    <3>1. PICK j \in 2 .. Len(cs) : cs2[i].owner = cs[j].owner BY <2>2
    <3>2. cs[j].owner \in Statements(g) BY DEF OwnersIn
    <3>3. ScopeTable(g, cs[j].owner) = block[cs[j].owner] BY DEF Found
    <3>4. ScopeTable(h, cs[j].owner) = ScopeTable(g, cs[j].owner) BY <1>8, <3>2, ScopeIsKept
    <3> QED BY <1>11, <3>1, <3>2, <3>3, <3>4
  <2> QED BY <2>1, <2>2 DEF MadeFor, n
<1>13. Found(h, cs2, block2) BY <1>9, <1>10, <1>11, <1>12 DEF Found
<1>14. Given(h, less, own2, block2) BY <1>5, <1>6, <1>7 DEF Given
<1> QED BY <1>13, <1>14 DEF less, own2, block2, v

(* A step that adds no statement. *)
LEMMA StaysGiven ==
  ASSUME NEW g, NEW tables, GraphInv(g, tables), NEW h, SameOwners(g, h),
         NEW own, NEW block, Given(g, tables, own, block)
  PROVE  Given(h, tables, own, block)
<1>1. /\ h.funcs = g.funcs /\ Statements(h) = Statements(g)
      /\ \A s \in Statements(g) :
           /\ h.stat[s].statementType = g.stat[s].statementType
           /\ h.stat[s].localSymbolTable = g.stat[s].localSymbolTable
           /\ \A field \in Edges : h.stat[s][field] = g.stat[s][field]
  BY DEF SameOwners, SameStatement, Statements
<1>2. TablesGiven(g, tables, own, block) /\ AllFit(g, Statements(g), own, block)
      /\ RootsFit(g, own, block)
  BY DEF Given
<1>3. own \subseteq Statements(g) BY <1>2 DEF TablesGiven
<1>4. TablesGiven(h, tables, own, block) BY <1>1, <1>2, <1>3 DEF TablesGiven
<1>5. \A s \in Statements(g) : \A field \in Edges :
        g.stat[s][field] # NULL => g.stat[s][field] \in Statements(g)
  BY EdgeLeadsOn
<1>6. ArmLinks \subseteq Edges /\ "followingStatement" \in Edges BY FieldNames
<1>7. ASSUME NEW s \in Statements(h) PROVE EdgesFit(h, own, block, s)
  <2>1. EdgesFit(g, own, block, s) BY <1>1, <1>2 DEF AllFit
  <2> DEFINE n == g.stat[s].followingStatement
  <2>2. h.stat[s].followingStatement = n BY <1>1, <1>6
  <2>3. n # NULL => n \in Statements(g) /\ block[n] = block[s] /\ InBlock(g, own, n)
    BY <1>1, <1>5, <1>6, <2>1 DEF EdgesFit
  <2> HIDE DEF n
  <2>4. n # NULL => block[n] = block[s] /\ InBlock(h, own, n) BY <1>1, <2>3 DEF InBlock
  <2>5. ASSUME NEW arm \in ArmLinks, h.stat[s][arm] # NULL
        PROVE  LET t == h.stat[s][arm]
               IN  /\ h.stat[t].statementType # "CF_FOR"
                   /\ IF h.stat[t].statementType = "CF_IF"
                      THEN block[t] = block[s] /\ arm # "bodyStatement"
                      ELSE t \in own
    <3> DEFINE t == g.stat[s][arm]
    <3>1. h.stat[s][arm] = t BY <1>1, <1>6
    <3>2. t # NULL /\ t \in Statements(g) BY <1>1, <1>5, <1>6, <2>5, <3>1
    <3>3. /\ g.stat[t].statementType # "CF_FOR"
          /\ IF g.stat[t].statementType = "CF_IF"
             THEN block[t] = block[s] /\ arm # "bodyStatement"
             ELSE t \in own
      BY <2>1, <3>2 DEF EdgesFit
    <3>4. h.stat[t].statementType = g.stat[t].statementType BY <1>1, <3>2
    <3> HIDE DEF t
    <3> QED BY <3>1, <3>3, <3>4
  <2> QED BY <2>2, <2>4, <2>5 DEF EdgesFit
<1>8. AllFit(h, Statements(h), own, block) BY <1>7 DEF AllFit
<1>9. RootsFit(h, own, block)
  <2> SUFFICES ASSUME NEW f \in 1 .. Len(h.funcs), h.funcs[f].rootStatement # NULL
               PROVE  LET root == h.funcs[f].rootStatement
                      IN  block[root] = h.funcs[f].symbolTable /\ InBlock(h, own, root)
    BY DEF RootsFit
  <2> DEFINE root == g.funcs[f].rootStatement
  <2>1. root \in Statements(g) BY <1>1 DEF GraphInv, PointersOK, PointersIn
  <2>2. block[root] = g.funcs[f].symbolTable /\ InBlock(g, own, root) BY <1>1, <1>2 DEF RootsFit
  <2> HIDE DEF root
  <2>3. InBlock(h, own, root) BY <1>1, <2>1, <2>2 DEF InBlock
  <2> QED BY <1>1, <2>2, <2>3 DEF root
<1> QED BY <1>4, <1>8, <1>9 DEF Given

LEMMA StaysFound ==
  ASSUME NEW g, NEW h, KeepsScopes(g, h), NEW cs, OwnersIn(g, cs), NEW block, Found(g, cs, block),
         NEW cs2, MadeFor(cs, NULL, cs2), \A i \in 2 .. Len(cs2) : cs2[i].owner # NULL,
         g.activeStat # NULL => g.activeStat \in Statements(g),
         \/ h.activeStat = g.activeStat
         \/ \E j \in 2 .. Len(cs) : h.activeStat = cs[j].owner
  PROVE  Found(h, cs2, block)
<1>1. \A s \in Statements(g) : ScopeTable(h, s) = ScopeTable(g, s) BY ScopeIsKept
<1>2. \A j \in 2 .. Len(cs) : cs[j].owner \in Statements(g)
                            /\ ScopeTable(g, cs[j].owner) = block[cs[j].owner]
  BY DEF OwnersIn, Found
<1>3. g.activeStat # NULL => ScopeTable(h, g.activeStat) = block[g.activeStat]
  BY <1>1 DEF Found
<1>4. h.activeStat # NULL => ScopeTable(h, h.activeStat) = block[h.activeStat] BY <1>1, <1>2, <1>3
<1>5. \A i \in 2 .. Len(cs2) : ScopeTable(h, cs2[i].owner) = block[cs2[i].owner]
  BY <1>1, <1>2 DEF MadeFor
<1> QED BY <1>4, <1>5 DEF Found

(* How the calls change. *)
LEMMA CallsMadeBefore ==
  ASSUME NEW cs \in Seq(CallRecords), NEW n
  PROVE  MadeFor(cs, n, cs) /\ (cs # << >> => MadeFor(cs, n, Pop(cs)))
<1>1. MadeFor(cs, n, cs) BY DEF MadeFor
<1>2. ASSUME cs # << >> PROVE MadeFor(cs, n, Pop(cs))
  <2>1. /\ Len(Pop(cs)) = Len(cs) - 1 /\ Len(cs) \in Nat
        /\ \A i \in 1 .. Len(cs) - 1 : Pop(cs)[i] = cs[i]
    BY <1>2, PopCalls
  <2> DEFINE low == Pop(cs)
             k == Len(cs)
  <2> HIDE DEF low
  <2>2. \A i \in 2 .. Len(low) : i \in 2 .. k /\ low[i] = cs[i] BY <2>1 DEF low
  <2>3. MadeFor(cs, n, low) BY <2>2 DEF MadeFor
  <2> QED BY <2>3 DEF low
<1> QED BY <1>1, <1>2

LEMMA CallMade ==
  ASSUME NEW cs \in Seq(CallRecords), NEW low \in Seq(CallRecords), NEW n, MadeFor(cs, n, low),
         NEW c, c.owner = n \/ \E j \in 2 .. Len(cs) : c.owner = cs[j].owner
  PROVE  MadeFor(cs, n, Append(low, c))
<1> DEFINE high == Append(low, c)
<1>1. Len(low) \in Nat /\ Len(high) = Len(low) + 1 OBVIOUS
<1>2. high[Len(low) + 1] = c /\ \A i \in 1 .. Len(low) : high[i] = low[i] OBVIOUS
<1> HIDE DEF high
<1>3. ASSUME NEW i \in 2 .. Len(high)
      PROVE  high[i].owner = n \/ \E j \in 2 .. Len(cs) : high[i].owner = cs[j].owner
  <2>1. CASE i = Len(low) + 1 BY <1>2, <2>1
  <2>2. CASE i # Len(low) + 1
    <3>1. i \in 2 .. Len(low) /\ i \in 1 .. Len(low) BY <1>1, <2>2
    <3> QED BY <1>2, <3>1 DEF MadeFor
  <2> QED BY <2>1, <2>2
<1> QED BY <1>3 DEF MadeFor, high

LEMMA CallEntered ==
  ASSUME NEW cs \in Seq(CallRecords), NEW n, NEW at
  PROVE  MadeFor(cs, n, Append(cs, Call(at, n)))
<1>1. Call(at, n).owner = n BY DEF Call
<1> QED BY <1>1, CallsMadeBefore, CallMade

LEMMA CallMoved ==
  ASSUME NEW cs \in Seq(CallRecords), cs # << >>, NEW n, NEW at
  PROVE  MadeFor(cs, n, Append(Pop(cs), Call(at, Top(cs).owner)))
<1> DEFINE c == Call(at, Top(cs).owner)
           low == Pop(cs)
<1>1. c.owner = cs[Len(cs)].owner BY DEF Call, Top
<1>2. /\ low \in Seq(CallRecords) /\ Len(low) = Len(cs) - 1 /\ Len(cs) - 1 \in Nat
      /\ \A i \in 1 .. Len(cs) - 1 : low[i] = cs[i]
  BY PopCalls
<1>3. MadeFor(cs, n, low) BY CallsMadeBefore
<1> HIDE DEF c, low
<1>4. CASE Len(cs) \in 2 .. Len(cs) BY <1>1, <1>2, <1>3, <1>4, CallMade DEF c, low
<1>5. CASE Len(cs) \notin 2 .. Len(cs)
  <2>1. Len(cs) = 1 BY <1>2, <1>5
  <2>2. Len(Append(low, c)) = 1 BY <1>2, <2>1
  <2>3. MadeFor(cs, n, Append(low, c)) BY <2>2 DEF MadeFor
  <2> QED BY <2>3 DEF c, low
<1> QED BY <1>4, <1>5

LEMMA CallEnteredFrom ==
  ASSUME NEW cs \in Seq(CallRecords), cs # << >>, NEW n, NEW at, NEW to,
         Call(at, Top(cs).owner) \in CallRecords
  PROVE  MadeFor(cs, n, Pop(cs) \o <<Call(at, Top(cs).owner), Call(to, n)>>)
<1> DEFINE low == Pop(cs)
           c == Call(at, Top(cs).owner)
           d == Call(to, n)
           mid == Append(low, c)
<1>1. low \in Seq(CallRecords) BY PopCalls
<1>2. MadeFor(cs, n, mid) BY CallMoved
<1>3. d.owner = n BY DEF Call
<1> HIDE DEF low, c, d
<1>4. mid \in Seq(CallRecords) BY <1>1 DEF c
<1>5. low \o <<c, d>> = Append(mid, d)
  <2> DEFINE S == CallRecords \union {c, d}
  <2>1. low \in Seq(S) /\ c \in S /\ d \in S
    <3>1. Len(low) \in Nat /\ low = [i \in 1 .. Len(low) |-> low[i]]
          /\ \A i \in 1 .. Len(low) : low[i] \in S
      BY <1>1
    <3> QED BY <3>1
  <2> HIDE DEF S
  <2> QED BY <2>1
<1> HIDE DEF mid
<1>6. MadeFor(cs, n, Append(mid, d)) BY <1>2, <1>3, <1>4, CallMade
<1> QED BY <1>5, <1>6 DEF low, c, d

-----------------------------------------------------------------------------
(* Every step of the parser gives them, while the program is correct.      *)

PInv ==
  semantic_enabled => \E own, block : Given(graph, allocated, own, block) /\ Found(graph, calls, block)

LEMMA InitGiven == Init => PInv
<1> SUFFICES ASSUME Init PROVE PInv OBVIOUS
<1>1. graph = cf_init /\ allocated = 0 /\ calls = << >> BY DEF Init
<1>2. Statements(graph) = {} /\ 1 .. Len(graph.funcs) = {} /\ graph.activeStat = NULL
      /\ 1 .. allocated = {} /\ 2 .. Len(calls) = {}
  BY <1>1 DEF cf_init, Statements
<1>3. Given(graph, allocated, {}, << >>)
  BY <1>2 DEF Given, TablesGiven, AllFit, RootsFit
<1>4. Found(graph, calls, << >>) BY <1>2 DEF Found
<1> QED BY <1>3, <1>4 DEF PInv

(* A statement that is added, with a table and without.                    *)
LEMMA AddedGiven ==
  ASSUME IInv, IInv', PInv, Reading, graph.activeFunc # NULL, NEW edge \in Edges, NEW type,
         edge # "followingStatement" => graph.activeStat # NULL /\ type # "CF_FOR",
         type = "CF_IF" => edge \in {"followingStatement", "elseStatement"},
         Grows(graph, graph', edge, type, FuncNames), EdgeIsFree(graph, edge),
         IF BringsTable(edge, type)
         THEN allocated' = allocated + 1 /\ graph'.stat[NewId(graph)].localSymbolTable = allocated'
         ELSE /\ allocated' = allocated
              /\ graph'.stat[NewId(graph)].localSymbolTable = InheritedSymtable(graph),
         MadeFor(calls, NewId(graph), calls')
  PROVE  PInv'
<1> DEFINE h == graph'
           more == allocated'
           cs2 == calls'
<1>1. AddsWithTable(graph, allocated, h, edge, type) BY DEF AddsWithTable, AddsStatement, IInv
<1>2. GraphInv(h, more) BY DEF IInv
<1>3. OwnersIn(graph, calls)
  <2>1. ParserInv(graph, calls) BY DEF IInv, Reading
  <2> QED BY <2>1, OwnersAreIn
<1>4. PICK own, block : Given(graph, allocated, own, block) /\ Found(graph, calls, block)
  BY DEF PInv, Reading
<1>5. MadeFor(calls, NewId(graph), cs2) OBVIOUS
<1>6. more = IF BringsTable(edge, type) THEN allocated + 1 ELSE allocated OBVIOUS
<1> DEFINE own2   == OwnAfter(graph, own, edge, type)
           block2 == BlockAfter(graph, block, BlockOfNew(graph, allocated, edge, type))
<1> HIDE DEF h, more, cs2
<1>7. Given(h, more, own2, block2) /\ Found(h, cs2, block2)
  BY <1>1, <1>2, <1>3, <1>4, <1>5, <1>6, GrowsGiven
<1> QED BY <1>7 DEF PInv, h, more, cs2

(* The rules that add a statement to the block. *)
LEMMA BodyCalls ==
  ASSUME IInv, Reading, InBody
  PROVE  calls \in Seq(CallRecords) /\ calls # << >> /\ graph.activeFunc # NULL
BY InBodyCall, Innermost

LEMMA NewIdIs == Len(graph.stat) + 1 = NewId(graph)
BY DEF NewId

LEMMA ExpressionGiven ==
  ASSUME IInv, IInv', PInv, Expression
  PROVE  PInv'
<1>1. /\ calls \in Seq(CallRecords) /\ calls # << >> /\ graph.activeFunc # NULL /\ Reading
      /\ Grows(graph, graph', "followingStatement", "CF_BASIC", FuncNames)
      /\ graph'.stat[NewId(graph)].localSymbolTable = InheritedSymtable(graph)
  BY ExpressionGrows
<1>2. ~ BringsTable("followingStatement", "CF_BASIC") BY DEF BringsTable
<1>3. allocated' = allocated /\ (calls' = calls \/ calls' = Pop(calls)) BY DEF Expression, Return
<1>4. MadeFor(calls, NewId(graph), calls') BY <1>1, <1>3, CallsMadeBefore
<1> QED BY <1>1, <1>2, <1>3, <1>4, FollowingIsFree, AddedGiven

LEMMA ReturnKeywordGiven ==
  ASSUME IInv, IInv', PInv, ReturnKeyword
  PROVE  PInv'
<1>1. Reading /\ InBody /\ allocated' = allocated
      /\ calls' = Append(calls, Call("return", NewId(graph)))
  BY NewIdIs DEF ReturnKeyword, Enter
<1>2. calls \in Seq(CallRecords) /\ graph.activeFunc # NULL BY <1>1, BodyCalls
<1>3. /\ Grows(graph, graph', "followingStatement", "CF_RETURN", FuncNames)
      /\ graph'.stat[NewId(graph)].localSymbolTable = InheritedSymtable(graph)
  BY ReturnKeywordGrows
<1>4. ~ BringsTable("followingStatement", "CF_RETURN") BY DEF BringsTable
<1>5. MadeFor(calls, NewId(graph), calls') BY <1>1, <1>2, CallEntered
<1> QED BY <1>1, <1>2, <1>3, <1>4, <1>5, FollowingIsFree, AddedGiven

LEMMA IfGiven ==
  ASSUME IInv, IInv', PInv, If
  PROVE  PInv'
<1>1. Reading /\ InBody /\ allocated' = allocated
      /\ calls' = Append(calls, Call("if_cond", NewId(graph)))
  BY NewIdIs DEF If, Enter
<1>2. calls \in Seq(CallRecords) /\ graph.activeFunc # NULL BY <1>1, BodyCalls
<1>3. /\ Grows(graph, graph', "followingStatement", "CF_IF", FuncNames)
      /\ graph'.stat[NewId(graph)].localSymbolTable = InheritedSymtable(graph)
  BY IfGrows
<1>4. ~ BringsTable("followingStatement", "CF_IF") BY DEF BringsTable
<1>5. MadeFor(calls, NewId(graph), calls') BY <1>1, <1>2, CallEntered
<1> QED BY <1>1, <1>2, <1>3, <1>4, <1>5, FollowingIsFree, AddedGiven

LEMMA ForGiven ==
  ASSUME IInv, IInv', PInv, For
  PROVE  PInv'
<1>1. Reading /\ InBody /\ calls' = Append(calls, Call("for_header", NewId(graph)))
  BY NewIdIs DEF For, Enter
<1>2. calls \in Seq(CallRecords) /\ graph.activeFunc # NULL BY <1>1, BodyCalls
<1>3. /\ Grows(graph, graph', "followingStatement", "CF_FOR", FuncNames)
      /\ graph'.stat[NewId(graph)].localSymbolTable = allocated'
      /\ allocated' = allocated + 1
  BY ForGrows
<1>4. BringsTable("followingStatement", "CF_FOR") BY DEF BringsTable
<1>5. MadeFor(calls, NewId(graph), calls') BY <1>1, <1>2, CallEntered
<1> QED BY <1>1, <1>2, <1>3, <1>4, <1>5, FollowingIsFree, AddedGiven

(* The rules that open a branch of the statement that is being read.       *)
LEMMA ThenGiven ==
  ASSUME IInv, IInv', PInv, Then
  PROVE  PInv'
<1>1. /\ Reading /\ At("if_cond") /\ "if_cond" \in Headers
      /\ graph.activeStat # NULL /\ OwnerState("if_cond", graph.stat[graph.activeStat])
      /\ Grows(graph, graph', "thenStatement", "CF_BASIC", FuncNames)
      /\ graph'.stat[NewId(graph)].localSymbolTable = allocated'
      /\ allocated' = allocated + 1
  BY ThenGrows
<1>2. BringsTable("thenStatement", "CF_BASIC") /\ "thenStatement" \in Edges
  BY DEF BringsTable, Edges
<1>3. EdgeIsFree(graph, "thenStatement") BY <1>1 DEF OwnerState, EdgeIsFree
<1>4. calls \in Seq(CallRecords) /\ calls # << >> /\ graph.activeFunc # NULL BY <1>1, AtHeader
<1>5. calls' = Append(Pop(calls), Call("then", Top(calls).owner)) BY DEF Then, MoveTo
<1>6. MadeFor(calls, NewId(graph), calls') BY <1>4, <1>5, CallMoved
<1> QED BY <1>1, <1>2, <1>3, <1>4, <1>6, AddedGiven

LEMMA ForBodyGiven ==
  ASSUME IInv, IInv', PInv, ForBody
  PROVE  PInv'
<1>1. /\ Reading /\ At("for_header") /\ "for_header" \in Headers
      /\ graph.activeStat # NULL /\ OwnerState("for_header", graph.stat[graph.activeStat])
      /\ Grows(graph, graph', "bodyStatement", "CF_BASIC", FuncNames)
      /\ graph'.stat[NewId(graph)].localSymbolTable = allocated'
      /\ allocated' = allocated + 1
  BY ForBlockGrows
<1>2. BringsTable("bodyStatement", "CF_BASIC") /\ "bodyStatement" \in Edges
  BY DEF BringsTable, Edges
<1>3. EdgeIsFree(graph, "bodyStatement") BY <1>1 DEF OwnerState, EdgeIsFree
<1>4. calls \in Seq(CallRecords) /\ calls # << >> /\ graph.activeFunc # NULL BY <1>1, AtHeader
<1>5. calls' = Append(Pop(calls), Call("for", Top(calls).owner)) BY DEF ForBody, MoveTo
<1>6. MadeFor(calls, NewId(graph), calls') BY <1>4, <1>5, CallMoved
<1> QED BY <1>1, <1>2, <1>3, <1>4, <1>6, AddedGiven

LEMMA ElseGiven ==
  ASSUME IInv, IInv', PInv, Else
  PROVE  PInv'
<1>1. /\ Reading /\ At("else_") /\ "else_" \in Headers /\ "elseStatement" \in Edges
      /\ Grows(graph, graph', "elseStatement", "CF_BASIC", FuncNames)
      /\ EdgeIsFree(graph, "elseStatement")
      /\ graph'.stat[NewId(graph)].localSymbolTable = allocated'
      /\ allocated' = allocated + 1
  BY ElseGrows
<1>2. BringsTable("elseStatement", "CF_BASIC") BY DEF BringsTable
<1>3. /\ calls \in Seq(CallRecords) /\ calls # << >> /\ graph.activeFunc # NULL
      /\ graph.activeStat # NULL
  BY <1>1, AtHeader
<1>4. calls' = Append(Pop(calls), Call("else", Top(calls).owner)) BY DEF Else, MoveTo
<1>5. MadeFor(calls, NewId(graph), calls') BY <1>3, <1>4, CallMoved
<1> QED BY <1>1, <1>2, <1>3, <1>5, AddedGiven

LEMMA ElseIfGiven ==
  ASSUME IInv, IInv', PInv, ElseIf
  PROVE  PInv'
<1>1. /\ Reading /\ At("else_") /\ "else_" \in Headers /\ "elseStatement" \in Edges
      /\ "CF_IF" \in StatementTypes /\ allocated' = allocated
      /\ graph' = cf_make_if_else_statement(graph, "CF_IF")
  BY DEF ElseIf, Headers, Edges, StatementTypes
<1>2. /\ Grows(graph, graph', "elseStatement", "CF_IF", FuncNames)
      /\ EdgeIsFree(graph, "elseStatement")
      /\ graph'.stat[NewId(graph)].localSymbolTable = InheritedSymtable(graph)
  BY <1>1, ElseStep
<1>3. /\ calls \in Seq(CallRecords) /\ calls # << >> /\ graph.activeFunc # NULL
      /\ graph.activeStat # NULL /\ Top(calls).owner \in 1 .. MaxSize
  BY <1>1, AtHeader
<1>4. ~ BringsTable("elseStatement", "CF_IF") BY DEF BringsTable
<1>5. calls' = Pop(calls) \o <<Call("elif", Top(calls).owner), Call("if_cond", NewId(graph))>>
  BY NewIdIs DEF ElseIf
<1>6. Call("elif", Top(calls).owner) \in CallRecords
  <2>1. "elif" \in Places BY DEF Places
  <2> QED BY <1>3, <2>1, CallIsOK
<1>7. MadeFor(calls, NewId(graph), calls') BY <1>3, <1>5, <1>6, CallEnteredFrom
<1> QED BY <1>1, <1>2, <1>3, <1>4, <1>7, AddedGiven

(* The rules that add nothing. *)
LEMMA QuietGiven ==
  ASSUME IInv, IInv', PInv, Reading, SameOwners(graph, graph'), KeepsScopes(graph, graph'),
         allocated' = allocated, MadeFor(calls, NULL, calls'),
         \/ graph'.activeStat = graph.activeStat
         \/ \E j \in 2 .. Len(calls) : graph'.activeStat = calls[j].owner
  PROVE  PInv'
<1> DEFINE h == graph'
           cs2 == calls'
<1>1. GraphInv(graph, allocated) BY DEF IInv
<1>2. OwnersIn(graph, calls)
  <2>1. ParserInv(graph, calls) BY DEF IInv, Reading
  <2> QED BY <2>1, OwnersAreIn
<1>3. PICK own, block : Given(graph, allocated, own, block) /\ Found(graph, calls, block)
  BY DEF PInv, Reading
<1>4. \A i \in 2 .. Len(cs2) : cs2[i].owner # NULL
  <2>1. CallsOK(cs2) BY DEF IInv
  <2>2. cs2 \in Seq(CallRecords) BY <2>1 DEF CallsOK
  <2>3. \A i \in 2 .. Len(cs2) : i \in 1 .. Len(cs2) BY <2>2
  <2> HIDE DEF cs2
  <2> QED BY <2>1, <2>3 DEF CallsOK, NULL
<1>5. graph.activeStat # NULL => graph.activeStat \in Statements(graph)
  BY <1>1, InvClimbs
<1>6. /\ SameOwners(graph, h) /\ KeepsScopes(graph, h) /\ MadeFor(calls, NULL, cs2)
      /\ \/ h.activeStat = graph.activeStat
         \/ \E j \in 2 .. Len(calls) : h.activeStat = calls[j].owner
  OBVIOUS
<1> HIDE DEF h, cs2
<1>7. Given(h, allocated, own, block) BY <1>1, <1>3, <1>6, StaysGiven
<1>8. Found(h, cs2, block) BY <1>2, <1>3, <1>4, <1>5, <1>6, StaysFound
<1> QED BY <1>7, <1>8 DEF PInv, h, cs2

(* The calls change and the graph stays as it is. *)
LEMMA CallsGiven ==
  ASSUME IInv, IInv', PInv, Reading, graph' = graph, allocated' = allocated,
         MadeFor(calls, NULL, calls')
  PROVE  PInv'
<1>1. GraphInv(graph, allocated) BY DEF IInv
<1>2. KeepsScopes(graph, graph') BY <1>1, SameKeepsScopes
<1>3. SameOwners(graph, graph') BY DEF SameOwners, SameStatement
<1> QED BY <1>2, <1>3, QuietGiven

LEMMA CallsHere ==
  ASSUME IInv
  PROVE  calls \in Seq(CallRecords)
BY DEF IInv, CallsOK

LEMMA CloseFuncGiven ==
  ASSUME IInv, IInv', PInv, CloseFunc
  PROVE  PInv'
<1>1. Reading /\ At("func") /\ graph' = graph /\ allocated' = allocated /\ calls' = Pop(calls)
  BY DEF CloseFunc, Return
<1>2. calls \in Seq(CallRecords) /\ calls # << >> BY <1>1, CallsHere DEF At
<1>3. MadeFor(calls, NULL, calls') BY <1>1, <1>2, CallsMadeBefore
<1> QED BY <1>1, <1>3, CallsGiven

LEMMA NoElseGiven ==
  ASSUME IInv, IInv', PInv, NoElse
  PROVE  PInv'
<1>1. Reading /\ At("else_") /\ graph' = graph /\ allocated' = allocated /\ calls' = Pop(calls)
  BY DEF NoElse, Return
<1>2. calls \in Seq(CallRecords) /\ calls # << >> BY <1>1, CallsHere DEF At
<1>3. MadeFor(calls, NULL, calls') BY <1>1, <1>2, CallsMadeBefore
<1> QED BY <1>1, <1>3, CallsGiven

LEMMA ReturnNothingGiven ==
  ASSUME IInv, IInv', PInv, ReturnNothing
  PROVE  PInv'
<1>1. Reading /\ At("return") /\ graph' = graph /\ allocated' = allocated
      /\ calls' = Append(Pop(calls), Call("id_next", Top(calls).owner))
  BY DEF ReturnNothing, MoveTo
<1>2. calls \in Seq(CallRecords) /\ calls # << >> BY <1>1, CallsHere DEF At
<1>3. MadeFor(calls, NULL, calls') BY <1>1, <1>2, CallMoved
<1> QED BY <1>1, <1>3, CallsGiven

LEMMA ReturnListGiven ==
  ASSUME IInv, IInv', PInv, ReturnList
  PROVE  PInv'
<1> DEFINE h == graph'
<1>1. h = cf_use_ast_explicit(graph) /\ allocated' = allocated /\ calls' = Pop(calls)
  BY DEF ReturnList, Return
<1>2. Reading /\ At("return") /\ "return" \in Headers BY DEF ReturnList, Headers
<1>3. /\ GraphInv(graph, allocated) /\ GraphOK(graph, FuncNames) /\ graph.activeStat # NULL
      /\ calls \in Seq(CallRecords) /\ calls # << >>
  BY <1>2, AtHeader
<1>4. SameButAst(graph, h, FuncNames) BY <1>1, <1>3, UseAstKeepsTheRest DEF GraphOK
<1>5. GraphInv(h, allocated') BY DEF IInv
<1>6. MadeFor(calls, NULL, calls') BY <1>1, <1>3, CallsMadeBefore
<1> HIDE DEF h
<1>7. SameOwners(graph, h)
  BY <1>4 DEF SameButAst, SameOwners, SameStatement, Statements, Edges
<1>8. KeepsScopes(graph, h) BY <1>3, <1>4, <1>5, AstKeepsScopes
<1>9. h.activeStat = graph.activeStat BY <1>4 DEF SameButAst
<1> QED BY <1>1, <1>2, <1>6, <1>7, <1>8, <1>9, QuietGiven DEF h

(* An arm is left: the parser returns to the statement of the call.        *)
LEMMA ArmLeftGiven ==
  ASSUME IInv, IInv', PInv, Reading, NEW at \in Arms, At(at), allocated' = allocated,
         graph' = cf_pop_previous_branched_statement(graph), MadeFor(calls, NULL, calls')
  PROVE  PInv'
<1> DEFINE h == graph'
           n == Top(calls).owner
<1>1. LeavesArm(graph, allocated, h, calls) BY AtArm
<1>2. /\ GraphInv(graph, allocated) /\ ParserInv(graph, calls) /\ calls \in Seq(CallRecords)
      /\ calls # << >> /\ Top(calls).at = at
  BY Innermost
<1>3. GraphInv(h, allocated') BY DEF IInv
<1> HIDE DEF h
<1>4. PopsTo(graph, h, n, FuncNames) BY <1>1, LeavingReturns
<1>5. SameOwners(graph, h)
  BY <1>4 DEF PopsTo, SameOwners, SameStatement, Statements, Edges
<1>6. KeepsScopes(graph, h) BY <1>2, <1>3, <1>4, PopKeepsScopes
<1>7. h.activeStat = n BY <1>4 DEF PopsTo
<1>8. Len(calls) \in 2 .. Len(calls) BY <1>2, ArmOwner
<1>9. \E j \in 2 .. Len(calls) : h.activeStat = calls[j].owner BY <1>7, <1>8 DEF n, Top
<1> QED BY <1>5, <1>6, <1>9, QuietGiven DEF h

(* The functions. *)
LEMMA FuncNameGiven ==
  ASSUME IInv, PInv, NEW name \in FuncNames, FuncName(name)
  PROVE  PInv'
<1> DEFINE h == graph'
<1>1. /\ GraphInv(graph, allocated) /\ Reading
      /\ h = cf_make_function(graph, name) /\ allocated' = allocated /\ calls = << >>
      /\ calls' = Append(calls, Call("func_name", Len(graph.funcs) + 1))
  BY DEF IInv, FuncName, Enter
<1>2. ~ (name = Main /\ graph.mainFunc # NULL)
  <2>1. graph.mainFunc \in 0 .. Len(graph.funcs) /\ Len(graph.funcs) \in Nat
    BY <1>1, GraphParts DEF GraphInv, PointersOK
  <2>2. MainIsMain(graph) BY <1>1 DEF GraphInv
  <2>3. \A f \in 1 .. Len(graph.funcs) : graph.funcs[f].name # name BY DEF FuncName
  <2> QED BY <2>1, <2>2, <2>3 DEF MainIsMain, NULL
<1>3. /\ h.stat = graph.stat /\ Len(h.funcs) = Len(graph.funcs) + 1 /\ h.activeStat = NULL
      /\ h.funcs[Len(h.funcs)].symbolTable = NULL /\ h.funcs[Len(h.funcs)].rootStatement = NULL
      /\ \A i \in 1 .. Len(graph.funcs) : h.funcs[i] = graph.funcs[i]
  BY <1>1, <1>2, FunctionKeepsGraph
<1>4. PICK own, block : Given(graph, allocated, own, block)
  BY <1>1 DEF PInv, Reading
<1>5. Len(calls') = 1 BY <1>1
<1>6. Len(graph.funcs) \in Nat /\ allocated \in Nat BY <1>1, GraphParts DEF GraphInv
<1> HIDE DEF h
<1>7. 1 .. Len(h.funcs) = 1 .. Len(graph.funcs) \union {Len(h.funcs)}
      /\ Len(h.funcs) \notin 1 .. Len(graph.funcs)
  BY <1>3, <1>6
<1>8. Statements(h) = Statements(graph) BY <1>3 DEF Statements
<1>9. /\ TablesGiven(graph, allocated, own, block) /\ AllFit(graph, Statements(graph), own, block)
      /\ RootsFit(graph, own, block)
  BY <1>4 DEF Given
<1>10. \A b \in own : graph.stat[b].localSymbolTable # NULL
  <2>1. \A t \in 1 .. allocated : t # NULL BY <1>6 DEF NULL
  <2> QED BY <1>9, <2>1 DEF TablesGiven
<1>11. TablesGiven(h, allocated, own, block)
  <2>1. own \subseteq Statements(h) BY <1>8, <1>9 DEF TablesGiven
  <2>2. \A s \in Statements(h) :
          /\ h.stat[s].statementType = "CF_FOR" => s \in own
          /\ h.stat[s].statementType = "CF_IF" => s \notin own
          /\ h.stat[s].statementType # "CF_FOR" => h.stat[s].localSymbolTable = block[s]
    BY <1>3, <1>8, <1>9 DEF TablesGiven
  <2>3. ASSUME NEW b \in own
        PROVE  /\ h.stat[b].localSymbolTable \in 1 .. allocated
               /\ \A y \in Statements(h) : y < b =>
                    h.stat[y].localSymbolTable # h.stat[b].localSymbolTable
               /\ \A f \in 1 .. Len(h.funcs) : h.funcs[f].symbolTable # h.stat[b].localSymbolTable
    BY <1>3, <1>7, <1>8, <1>9, <1>10 DEF TablesGiven
  <2>4. \A f, k \in 1 .. Len(h.funcs) :
          h.funcs[f].symbolTable # NULL /\ h.funcs[f].symbolTable = h.funcs[k].symbolTable => f = k
    BY <1>3, <1>7, <1>9 DEF TablesGiven
  <2>5. \A t \in 1 .. allocated :
          \/ \E b \in own : h.stat[b].localSymbolTable = t
          \/ \E f \in 1 .. Len(h.funcs) : h.funcs[f].symbolTable = t
    BY <1>3, <1>7, <1>9 DEF TablesGiven
  <2> QED BY <2>1, <2>2, <2>3, <2>4, <2>5 DEF TablesGiven
<1>12. AllFit(h, Statements(h), own, block) BY <1>3, <1>8, <1>9 DEF AllFit, EdgesFit, InBlock
<1>13. RootsFit(h, own, block) BY <1>3, <1>7, <1>9 DEF RootsFit, InBlock
<1>14. Given(h, allocated, own, block) BY <1>11, <1>12, <1>13 DEF Given
<1>15. Found(h, calls', block) BY <1>3, <1>5 DEF Found
<1> QED BY <1>1, <1>14, <1>15 DEF PInv, h

LEMMA FuncBodyGiven ==
  ASSUME IInv, PInv, FuncBody
  PROVE  PInv'
<1> DEFINE h == graph'
           f == graph.activeFunc
           more == allocated + 1
<1>1. /\ GraphInv(graph, allocated) /\ f # NULL /\ InnermostCall(graph, calls) /\ Reading
      /\ Top(calls).at = "func_name" /\ calls # << >> /\ Nested(calls) /\ calls \in Seq(CallRecords)
  BY Innermost DEF FuncBody
<1>2. graph.activeStat = NULL /\ graph.funcs[f].symbolTable = NULL BY <1>1 DEF InnermostCall
<1>3. f \in 1 .. Len(graph.funcs) /\ graph.funcs[f].rootStatement = NULL
  BY <1>1, <1>2 DEF GraphInv, GraphOK, RootIsMade
<1>4. h = cf_assign_function_symtable(graph, allocated + 1) /\ allocated' = allocated + 1
  BY DEF FuncBody
<1>5. /\ h.stat = graph.stat /\ Len(h.funcs) = Len(graph.funcs) /\ h.activeStat = NULL
      /\ h.funcs[f].symbolTable = more
      /\ \A i \in 1 .. Len(graph.funcs) :
           /\ h.funcs[i].rootStatement = graph.funcs[i].rootStatement
           /\ i # f => h.funcs[i] = graph.funcs[i]
  BY <1>1, <1>2, <1>4, FunctionTableKeepsGraph
<1>6. Len(calls') = 1
  <2>1. Pop(calls) = << >> BY <1>1, FunctionIsAlone
  <2> QED BY <2>1 DEF FuncBody, MoveTo
<1>7. PICK own, block : Given(graph, allocated, own, block)
  BY <1>1 DEF PInv, Reading
<1>8. /\ allocated \in Nat
      /\ \A s \in Statements(graph) : graph.stat[s].localSymbolTable # more
      /\ \A i \in 1 .. Len(graph.funcs) : graph.funcs[i].symbolTable # more
  BY <1>1, TableNumbers
<1>9. 1 .. more = 1 .. allocated \union {more} /\ more # NULL /\ more \in Nat BY <1>8 DEF NULL
<1> HIDE DEF h, f, more
<1>10. Statements(h) = Statements(graph) BY <1>5 DEF Statements
<1>11. /\ TablesGiven(graph, allocated, own, block) /\ AllFit(graph, Statements(graph), own, block)
       /\ RootsFit(graph, own, block) /\ own \subseteq Statements(graph)
  BY <1>7 DEF Given, TablesGiven
<1>12. \A i \in 1 .. Len(h.funcs) :
         h.funcs[i].symbolTable = IF i = f THEN more ELSE graph.funcs[i].symbolTable
  BY <1>5
<1>13. TablesGiven(h, more, own, block)
  <2>1. own \subseteq Statements(h) BY <1>10, <1>11
  <2>2. \A s \in Statements(h) :
          /\ h.stat[s].statementType = "CF_FOR" => s \in own
          /\ h.stat[s].statementType = "CF_IF" => s \notin own
          /\ h.stat[s].statementType # "CF_FOR" => h.stat[s].localSymbolTable = block[s]
    BY <1>5, <1>10, <1>11 DEF TablesGiven
  <2>3. ASSUME NEW b \in own
        PROVE  /\ h.stat[b].localSymbolTable \in 1 .. more
               /\ \A y \in Statements(h) : y < b =>
                    h.stat[y].localSymbolTable # h.stat[b].localSymbolTable
               /\ \A i \in 1 .. Len(h.funcs) : h.funcs[i].symbolTable # h.stat[b].localSymbolTable
    BY <1>5, <1>8, <1>9, <1>10, <1>11, <1>12 DEF TablesGiven
  <2>4. \A i, k \in 1 .. Len(h.funcs) :
          h.funcs[i].symbolTable # NULL /\ h.funcs[i].symbolTable = h.funcs[k].symbolTable => i = k
    BY <1>5, <1>8, <1>11, <1>12 DEF TablesGiven
  <2>5. \A t \in 1 .. more :
          \/ \E b \in own : h.stat[b].localSymbolTable = t
          \/ \E i \in 1 .. Len(h.funcs) : h.funcs[i].symbolTable = t
    <3> TAKE t \in 1 .. more
    <3>1. CASE t = more BY <1>3, <1>5, <3>1
    <3>2. CASE t # more
      <4>1. \/ \E b \in own : graph.stat[b].localSymbolTable = t
            \/ \E i \in 1 .. Len(graph.funcs) : graph.funcs[i].symbolTable = t
        BY <1>9, <1>11, <3>2 DEF TablesGiven
      <4>2. \A i \in 1 .. Len(graph.funcs) : graph.funcs[i].symbolTable = t => i # f
        BY <1>2, <1>8, <1>9, <3>2 DEF NULL, f
      <4> QED BY <1>5, <1>12, <4>1, <4>2
    <3> QED BY <3>1, <3>2
  <2> QED BY <2>1, <2>2, <2>3, <2>4, <2>5 DEF TablesGiven
<1>14. AllFit(h, Statements(h), own, block) BY <1>5, <1>10, <1>11 DEF AllFit, EdgesFit, InBlock
<1>15. RootsFit(h, own, block)
  <2>1. \A i \in 1 .. Len(h.funcs) : h.funcs[i].rootStatement # NULL =>
          h.funcs[i] = graph.funcs[i]
    BY <1>3, <1>5
  <2> QED BY <1>5, <1>11, <2>1 DEF RootsFit, InBlock
<1>16. Given(h, more, own, block) BY <1>13, <1>14, <1>15 DEF Given
<1>17. Found(h, calls', block) BY <1>5, <1>6 DEF Found
<1> QED BY <1>4, <1>16, <1>17 DEF PInv, h, more

LEMMA NextGiven == IInv /\ IInv' /\ PInv /\ [Next]_vars => PInv'
<1> SUFFICES ASSUME IInv, IInv', PInv, [Next]_vars, semantic_enabled' PROVE PInv'
  BY DEF PInv
<1>1. ASSUME NEW name \in FuncNames, FuncName(name) PROVE PInv' BY <1>1, FuncNameGiven
<1>2. CASE FuncBody BY <1>2, FuncBodyGiven
<1>3. CASE CloseFunc BY <1>3, CloseFuncGiven
<1>4. CASE Expression BY <1>4, ExpressionGiven
<1>5. CASE ReturnKeyword BY <1>5, ReturnKeywordGiven
<1>6. CASE ReturnList BY <1>6, ReturnListGiven
<1>7. CASE ReturnNothing BY <1>7, ReturnNothingGiven
<1>8. CASE If BY <1>8, IfGiven
<1>9. CASE Then BY <1>9, ThenGiven
<1>10. CASE CloseBranch
  <2>1. PICK at \in Arms : At(at) BY <1>10 DEF CloseBranch, Arms
  <2>2. calls \in Seq(CallRecords) /\ calls # << >> BY <2>1, CallsHere DEF At
  <2>3. /\ Reading /\ allocated' = allocated /\ graph' = cf_pop_previous_branched_statement(graph)
        /\ \/ calls' = Pop(calls)
           \/ calls' = Append(Pop(calls), Call("else_", Top(calls).owner))
    BY <1>10 DEF CloseBranch, MoveTo, Return
  <2>4. MadeFor(calls, NULL, calls') BY <2>2, <2>3, CallsMadeBefore, CallMoved
  <2> QED BY <2>1, <2>3, <2>4, ArmLeftGiven
<1>11. CASE NoElse BY <1>11, NoElseGiven
<1>12. CASE Else BY <1>12, ElseGiven
<1>13. CASE ElseIf BY <1>13, ElseIfGiven
<1>14. CASE ElseIfReturn
  <2>1. "elif" \in Arms /\ At("elif") BY <1>14 DEF Arms, ElseIfReturn
  <2>2. calls \in Seq(CallRecords) /\ calls # << >> BY <2>1, CallsHere DEF At
  <2>3. /\ Reading /\ allocated' = allocated /\ graph' = cf_pop_previous_branched_statement(graph)
        /\ calls' = Pop(calls)
    BY <1>14 DEF ElseIfReturn, Return
  <2>4. MadeFor(calls, NULL, calls') BY <2>2, <2>3, CallsMadeBefore
  <2> QED BY <2>1, <2>3, <2>4, ArmLeftGiven
<1>15. CASE For BY <1>15, ForGiven
<1>16. CASE ForBody BY <1>16, ForBodyGiven
<1>17. CASE CloseFor
  <2>1. "for" \in Arms /\ At("for") BY <1>17 DEF Arms, CloseFor
  <2>2. calls \in Seq(CallRecords) /\ calls # << >> BY <2>1, CallsHere DEF At
  <2>3. /\ Reading /\ allocated' = allocated /\ graph' = cf_pop_previous_branched_statement(graph)
        /\ calls' = Pop(calls)
    BY <1>17 DEF CloseFor, Return
  <2>4. MadeFor(calls, NULL, calls') BY <2>2, <2>3, CallsMadeBefore
  <2> QED BY <2>1, <2>3, <2>4, ArmLeftGiven
<1>18. CASE Fail
  <2>1. ~ semantic_enabled' BY <1>18 DEF Fail, semantic_enabled
  <2> QED BY <2>1
<1>19. CASE RecoveredExpression
  <2>1. ~ semantic_enabled' BY <1>19 DEF RecoveredExpression, semantic_enabled
  <2> QED BY <2>1
<1>20. CASE EndOfFile
  <2>1. UNCHANGED <<graph, allocated, calls, result>> BY <1>20 DEF EndOfFile
  <2> QED BY <2>1 DEF PInv, semantic_enabled
<1>21. CASE UNCHANGED vars BY <1>21 DEF vars, PInv, semantic_enabled
<1> QED
  BY <1>1, <1>2, <1>3, <1>4, <1>5, <1>6, <1>7, <1>8, <1>9, <1>10, <1>11, <1>12, <1>13, <1>14,
     <1>15, <1>16, <1>17, <1>18, <1>19, <1>20, <1>21 DEF Next

-----------------------------------------------------------------------------
(* What the three removals leave of it.                                    *)

LEMMA TablesStay ==
  ASSUME NEW g, NEW h, SameSize(g, h), NEW tables, NEW own, NEW block,
         TablesGiven(g, tables, own, block)
  PROVE  TablesGiven(h, tables, own, block)
<1>1. /\ Len(h.funcs) = Len(g.funcs) /\ Statements(h) = Statements(g)
      /\ \A s \in Statements(g) : /\ h.stat[s].statementType = g.stat[s].statementType
                                  /\ h.stat[s].localSymbolTable = g.stat[s].localSymbolTable
      /\ \A f \in 1 .. Len(g.funcs) : h.funcs[f].symbolTable = g.funcs[f].symbolTable
  BY DEF SameSize, SameNode
<1>2. own \subseteq Statements(g) BY DEF TablesGiven
<1>3. \A b \in own : /\ h.stat[b].localSymbolTable = g.stat[b].localSymbolTable
                     /\ b \in Statements(g)
  BY <1>1, <1>2
<1>4. ASSUME NEW b \in own
      PROVE  /\ h.stat[b].localSymbolTable \in 1 .. tables
             /\ \A y \in Statements(h) : y < b => h.stat[y].localSymbolTable # h.stat[b].localSymbolTable
             /\ \A f \in 1 .. Len(h.funcs) : h.funcs[f].symbolTable # h.stat[b].localSymbolTable
  BY <1>1, <1>3 DEF TablesGiven
<1>5. ASSUME NEW s \in Statements(h)
      PROVE  /\ h.stat[s].statementType = "CF_FOR" => s \in own
             /\ h.stat[s].statementType = "CF_IF" => s \notin own
             /\ h.stat[s].statementType # "CF_FOR" => h.stat[s].localSymbolTable = block[s]
  BY <1>1 DEF TablesGiven
<1>6. ASSUME NEW t \in 1 .. tables
      PROVE  \/ \E b \in own : h.stat[b].localSymbolTable = t
             \/ \E f \in 1 .. Len(h.funcs) : h.funcs[f].symbolTable = t
  BY <1>1, <1>3 DEF TablesGiven
<1>7. \A f, k \in 1 .. Len(h.funcs) :
        h.funcs[f].symbolTable # NULL /\ h.funcs[f].symbolTable = h.funcs[k].symbolTable => f = k
  BY <1>1 DEF TablesGiven
<1> QED BY <1>1, <1>2, <1>4, <1>5, <1>6, <1>7 DEF TablesGiven

(* The statements that the edges of g lead to have the types they had. *)
LEMMA UnlinkedFits ==
  ASSUME NEW g, EdgesLeadOn(g), NEW K, Linked(g, K), NEW s \in K, NEW f \in 1 .. Len(g.funcs),
         NEW h, Unlinks(g, h, s, f), FollowsOrRoot(g, K, s, f),
         NEW own, NEW block, AllFit(g, K, own, block), RootsFit(g, own, block)
  PROVE  AllFit(h, K, own, block) /\ RootsFit(h, own, block)
<1> DEFINE n == g.stat[s].followingStatement
           p == g.stat[s].parentStatement
<1>1. /\ K \subseteq Statements(g) /\ Len(h.funcs) = Len(g.funcs)
      /\ \A y \in Statements(g) : h.stat[y].statementType = g.stat[y].statementType
      /\ \A k \in 1 .. Len(g.funcs) : h.funcs[k].symbolTable = g.funcs[k].symbolTable
  BY DEF Unlinks, SameSize, SameNode, Linked
<1>2. \A t \in Statements(g) : InBlock(h, own, t) <=> InBlock(g, own, t) BY <1>1 DEF InBlock
<1>3. ASSUME NEW y \in K, NEW field \in Edges, g.stat[y][field] # NULL
      PROVE  g.stat[y][field] \in Statements(g)
  BY <1>1, <1>3 DEF EdgesLeadOn
<1>4. n # NULL => n \in Statements(g) /\ block[n] = block[s] /\ InBlock(h, own, n)
  <2>1. "followingStatement" \in Edges BY DEF Edges
  <2>2. ASSUME n # NULL PROVE n \in Statements(g) /\ block[n] = block[s] /\ InBlock(g, own, n)
    BY <1>3, <2>1, <2>2 DEF AllFit, EdgesFit
  <2> QED BY <1>2, <2>2
<1>5. ASSUME NEW y \in K PROVE EdgesFit(h, own, block, y)
  <2>1. EdgesFit(g, own, block, y) /\ y \in Statements(g) BY <1>1 DEF AllFit
  <2>2. ASSUME NEW arm \in ArmLinks, h.stat[y][arm] # NULL
        PROVE  LET t == h.stat[y][arm]
               IN  /\ h.stat[t].statementType # "CF_FOR"
                   /\ IF h.stat[t].statementType = "CF_IF"
                      THEN block[t] = block[y] /\ arm # "bodyStatement"
                      ELSE t \in own
    <3>1. h.stat[y][arm] = g.stat[y][arm] BY <2>1 DEF Unlinks
    <3>2. g.stat[y][arm] \in Statements(g) BY <1>3, <2>2, <3>1, FieldNames
    <3>3. h.stat[h.stat[y][arm]].statementType = g.stat[g.stat[y][arm]].statementType BY <1>1, <3>1, <3>2
    <3> QED BY <2>1, <2>2, <3>1, <3>3 DEF EdgesFit
  <2> DEFINE t == h.stat[y].followingStatement
  <2>3. ASSUME t # NULL PROVE block[t] = block[y] /\ InBlock(h, own, t)
    <3>1. y # s BY <2>1, <2>3 DEF Unlinks
    <3>2. CASE ~ IsRootOf(g, s, f) /\ y = p
      <4>1. t = n BY <2>1, <3>1, <3>2 DEF Unlinks
      <4>2. g.stat[y].followingStatement = s BY <3>2 DEF FollowsOrRoot
      <4>3. s # NULL BY <1>1 DEF Statements, NULL, EdgesLeadOn
      <4>4. block[s] = block[y] BY <2>1, <4>2, <4>3 DEF EdgesFit
      <4> QED BY <1>4, <2>3, <4>1, <4>4
    <3>3. CASE ~ (~ IsRootOf(g, s, f) /\ y = p)
      <4>1. t = g.stat[y].followingStatement BY <2>1, <3>1, <3>3 DEF Unlinks
      <4>2. t \in Statements(g) BY <1>3, <2>3, <4>1 DEF Edges
      <4> QED BY <1>2, <2>1, <2>3, <4>1, <4>2 DEF EdgesFit
    <3> QED BY <3>2, <3>3
  <2> QED BY <2>2, <2>3 DEF EdgesFit
<1>6. ASSUME NEW k \in 1 .. Len(g.funcs), h.funcs[k].rootStatement # NULL
      PROVE  LET root == h.funcs[k].rootStatement
             IN  block[root] = h.funcs[k].symbolTable /\ InBlock(h, own, root)
  <2>1. CASE IsRootOf(g, s, f) /\ k = f
    <3>1. h.funcs[k].rootStatement = n BY <2>1 DEF Unlinks
    <3>2. s # NULL BY <1>1 DEF Statements, NULL, EdgesLeadOn
    <3>3. block[s] = g.funcs[k].symbolTable BY <2>1, <3>2 DEF RootsFit, IsRootOf
    <3> QED BY <1>1, <1>4, <1>6, <3>1, <3>3
  <2>2. CASE ~ (IsRootOf(g, s, f) /\ k = f)
    <3>1. h.funcs[k].rootStatement = g.funcs[k].rootStatement BY <2>2 DEF Unlinks
    <3>2. g.funcs[k].rootStatement \in Statements(g) BY <1>1, <1>6, <3>1 DEF Linked, RootIsLinked
    <3> QED BY <1>1, <1>2, <1>6, <3>1, <3>2 DEF RootsFit
  <2> QED BY <2>1, <2>2
<1> QED BY <1>1, <1>5, <1>6 DEF AllFit, RootsFit

LEMMA RearmedFits ==
  ASSUME NEW g, EdgesLeadOn(g), NEW K, Linked(g, K), NEW s \in K, NEW arm,
         NEW h, Rearms(g, h, s, arm),
         NEW own, NEW block, AllFit(g, K, own, block), RootsFit(g, own, block)
  PROVE  AllFit(h, K, own, block) /\ RootsFit(h, own, block)
<1>1. K \subseteq Statements(g) /\ SameSize(g, h) /\ h.funcs = g.funcs
  BY RearmedEdges DEF Linked
<1>2. \A y \in Statements(g) : h.stat[y].statementType = g.stat[y].statementType
  BY <1>1 DEF SameSize, SameNode
<1>3. \A t \in Statements(g) : InBlock(h, own, t) <=> InBlock(g, own, t) BY <1>2 DEF InBlock
<1>4. ASSUME NEW y \in K, NEW field \in Edges, g.stat[y][field] # NULL
      PROVE  g.stat[y][field] \in Statements(g)
  BY <1>1, <1>4 DEF EdgesLeadOn
<1>5. ASSUME NEW y \in K PROVE EdgesFit(h, own, block, y)
  <2>1. EdgesFit(g, own, block, y) /\ y \in Statements(g) BY <1>1 DEF AllFit
  <2>2. h.stat[y].followingStatement = g.stat[y].followingStatement BY <1>1, <2>1, RearmedEdges
  <2> DEFINE n == g.stat[y].followingStatement
  <2>3. n # NULL => block[n] = block[y] /\ InBlock(h, own, n)
    <3>1. n # NULL => n \in Statements(g) BY <1>4 DEF Edges
    <3> QED BY <1>3, <2>1, <3>1 DEF EdgesFit
  <2>4. ASSUME NEW field \in ArmLinks, h.stat[y][field] # NULL
        PROVE  LET t == h.stat[y][field]
               IN  /\ h.stat[t].statementType # "CF_FOR"
                   /\ IF h.stat[t].statementType = "CF_IF"
                      THEN block[t] = block[y] /\ field # "bodyStatement"
                      ELSE t \in own
    <3>1. PICK from \in ArmLinks : /\ h.stat[y][field] = g.stat[y][from]
                                   /\ field = "bodyStatement" => from = field
      <4>1. CASE y = s /\ arm = "thenStatement" /\ field = "thenStatement"
        <5>1. TakesElse(g, h, s) BY <4>1 DEF Rearms
        <5>2. h.stat[y][field] = g.stat[y]["elseStatement"] BY <2>1, <4>1, <5>1, FieldNames DEF TakesElse
        <5> QED BY <4>1, <5>2, FieldNames
      <4>2. CASE ~ (y = s /\ arm = "thenStatement" /\ field = "thenStatement")
        <5>1. h.stat[y][field] = g.stat[y][field]
          <6>1. CASE arm = "thenStatement"
            <7>1. TakesElse(g, h, s) BY <6>1 DEF Rearms
            <7>2. field \in Links BY FieldNames
            <7> QED BY <2>1, <2>4, <4>2, <6>1, <7>1, <7>2 DEF TakesElse
          <6>2. CASE arm = "elseStatement"
            <7>1. Relinks(g, h, s, "elseStatement", NULL) BY <6>2 DEF Rearms
            <7>2. field \in Links BY FieldNames
            <7> QED BY <2>1, <2>4, <7>1, <7>2 DEF Relinks
          <6> QED BY <6>1, <6>2 DEF Rearms
        <5> QED BY <5>1
      <4> QED BY <4>1, <4>2
    <3>2. g.stat[y][from] \in Statements(g) BY <1>4, <2>4, <3>1, FieldNames
    <3>3. h.stat[h.stat[y][field]].statementType = g.stat[g.stat[y][from]].statementType BY <1>2, <3>1, <3>2
    <3> QED BY <2>1, <2>4, <3>1, <3>3 DEF EdgesFit
  <2> QED BY <2>2, <2>3, <2>4 DEF EdgesFit
<1>6. RootsFit(h, own, block)
  <2>1. \A f \in 1 .. Len(g.funcs) : g.funcs[f].rootStatement # NULL => g.funcs[f].rootStatement \in Statements(g)
    BY <1>1 DEF Linked, RootIsLinked
  <2> QED BY <1>1, <1>3, <2>1 DEF RootsFit
<1> QED BY <1>5, <1>6 DEF AllFit

(* What hangs on the statement that is unlinked. *)
LEMMA UnlinkedHold ==
  ASSUME NEW g, EdgesLeadOn(g), Placed(g), NEW K, Linked(g, K), NEW s \in K, NEW f,
         NEW h, Unlinks(g, h, s, f), EdgesLeadOn(h), FollowsOrRoot(g, K, s, f),
         NEW D, D = Reach(h)[s]
  PROVE  EdgesHold(h, D) /\ D \subseteq K /\ s \in D
<1>7. D \subseteq K /\ s \in D /\ ClosedIn(h, D) BY UnlinkedIsInner
<1>8. g.stat[s].followingStatement \notin D BY UnlinkedIsInner
<1> DEFINE n == g.stat[s].followingStatement
           p == g.stat[s].parentStatement
<1>1. D \subseteq K /\ s \in D /\ ClosedIn(h, D) /\ n \notin D BY <1>7, <1>8
<1>2. p \notin D BY UnlinkedUntouched
<1>3. K \subseteq Statements(g) /\ Statements(h) = Statements(g) BY DEF Linked, Unlinks, SameSize
<1>4. s \in Statements(g) /\ Unlinks(g, h, s, f) BY <1>3
<1>5. ASSUME NEW y \in D, NEW field \in Edges
      PROVE  h.stat[y][field] = NULL \/ h.stat[y][field] = g.stat[y][field]
  <2>1. y \in Statements(g) /\ EdgeAfter(g, h, s, f, y, field) BY <1>1, <1>3, <1>4, UnlinkedEdges
  <2>2. ~ Redirected(g, s, f, y, field) BY <1>2, <1>5 DEF Redirected
  <2> QED BY <2>1, <2>2 DEF EdgeAfter
<1>6. ASSUME NEW y \in D, NEW field \in Edges, h.stat[y][field] # NULL
      PROVE  /\ h.stat[y][field] \in D
             /\ h.stat[h.stat[y][field]].parentStatement = y
             /\ \A other \in Edges : h.stat[y][other] = h.stat[y][field] => other = field
  <2> DEFINE t == h.stat[y][field]
  <2>1. t = g.stat[y][field] /\ t # NULL BY <1>5, <1>6
  <2>2. t \in D BY <1>1, <1>6 DEF ClosedIn
  <2>3. EdgeIsLinked(g, K, y, field) BY <1>1 DEF Linked
  <2>4. g.stat[t].parentStatement = y /\ \A other \in Edges : g.stat[y][other] = t => other = field
    BY <2>1, <2>3 DEF EdgeIsLinked
  <2>5. h.stat[t].parentStatement = g.stat[t].parentStatement
    <3>1. t # n /\ t \in Statements(g) BY <1>1, <1>3, <2>2
    <3> QED BY <1>4, <3>1 DEF Unlinks
  <2>6. ASSUME NEW other \in Edges, h.stat[y][other] = t PROVE other = field
    BY <1>5, <2>1, <2>4, <2>6
  <2> QED BY <2>2, <2>4, <2>5, <2>6
<1> QED BY <1>1, <1>3, <1>6 DEF EdgesHold, EdgeIsLinked

(* A change leads nowhere where the graph did not. *)
Shrinks(g, h) ==
  /\ EdgesLeadOn(g) /\ EdgesLeadOn(h) /\ Statements(h) = Statements(g)
  /\ \A y \in Statements(g) :
       /\ \A field \in Edges : h.stat[y][field] # NULL => h.stat[y][field] \in Reach(g)[y]
       /\ h.stat[y].followingStatement # NULL =>
            h.stat[y].followingStatement \in Reach(g)[g.stat[y].followingStatement]
  /\ \A f \in 1 .. Len(g.funcs) :
       h.funcs[f].rootStatement # NULL =>
         /\ h.funcs[f].rootStatement \in Statements(g)
         /\ h.funcs[f].rootStatement \in Reach(g)[g.funcs[f].rootStatement]

(* Reaching is transitive. *)
LEMMA ReachGoesOn ==
  ASSUME NEW g, EdgesLeadOn(g), NEW a \in {NULL} \union Statements(g), NEW b \in Reach(g)[a]
  PROVE  b \in Statements(g) /\ Reach(g)[b] \subseteq Reach(g)[a]
<1>1. a # NULL BY ReachUnfolds
<1>2. ReachedRight(g, Reach(g)[a], a) BY <1>1, ReachIsRight
<1>3. b \in Statements(g) /\ ClosedIn(g, Reach(g)[a]) BY <1>2 DEF ReachedRight, ClosedIn
<1> QED BY <1>3, ReachStays

LEMMA ReachShrinks ==
  ASSUME NEW g, NEW h, Shrinks(g, h), NEW a \in {NULL} \union Statements(g),
         NEW b, b # NULL => b \in Statements(g) /\ b \in Reach(g)[a]
  PROVE  Reach(h)[b] \subseteq Reach(g)[a]
<1>1. EdgesLeadOn(g) /\ EdgesLeadOn(h) /\ Statements(h) = Statements(g) BY DEF Shrinks
<1>2. CASE b = NULL BY <1>1, <1>2, ReachUnfolds
<1>3. CASE b # NULL
  <2>1. b \in Statements(h) /\ b \in Reach(g)[a] BY <1>1, <1>3
  <2>2. ClosedIn(h, Reach(g)[a])
    <3>1. ASSUME NEW y \in Reach(g)[a], NEW field \in Edges, h.stat[y][field] # NULL
          PROVE  h.stat[y][field] \in Reach(g)[a]
      <4>1. y \in Statements(g) /\ Reach(g)[y] \subseteq Reach(g)[a] BY <1>1, ReachGoesOn
      <4>2. h.stat[y][field] \in Reach(g)[y] BY <3>1, <4>1 DEF Shrinks
      <4> QED BY <4>1, <4>2
    <3> QED BY <3>1 DEF ClosedIn
  <2> QED BY <1>1, <2>1, <2>2, ReachStays
<1> QED BY <1>2, <1>3

(* The pending calls have then no more to visit than before. *)
LEMMA AheadShrinks ==
  ASSUME NEW g, NEW h, Shrinks(g, h), NEW c \in PendingCalls(g),
         \A f \in 1 .. Len(g.funcs) : g.funcs[f].rootStatement \in PointersIn(g)
  PROVE  Ahead(h, c) \subseteq Ahead(g, c)
<1>1. EdgesLeadOn(g) /\ EdgesLeadOn(h) /\ Statements(h) = Statements(g) BY DEF Shrinks
<1>2. /\ c.op \in {"function", "visit", "follow"} /\ c.fun \in 1 .. Len(g.funcs)
      /\ c.at \in {NULL} \union Statements(g)
  BY DEF PendingCalls, PointersIn
<1>3. CASE c.op = "function"
  <2>1. g.funcs[c.fun].rootStatement \in {NULL} \union Statements(g) BY <1>2 DEF PointersIn
  <2>2. h.funcs[c.fun].rootStatement # NULL =>
          /\ h.funcs[c.fun].rootStatement \in Statements(g)
          /\ h.funcs[c.fun].rootStatement \in Reach(g)[g.funcs[c.fun].rootStatement]
    BY <1>2 DEF Shrinks
  <2> DEFINE a == g.funcs[c.fun].rootStatement
             b == h.funcs[c.fun].rootStatement
  <2>3. Ahead(h, c) = Reach(h)[b] /\ Ahead(g, c) = Reach(g)[a] BY <1>3 DEF Ahead
  <2> HIDE DEF a, b
  <2>4. Reach(h)[b] \subseteq Reach(g)[a] BY <2>1, <2>2, ReachShrinks DEF a, b
  <2> QED BY <2>3, <2>4
<1>4. CASE c.op = "visit"
  <2> DEFINE a == c.at
  <2>1. a # NULL => a \in Statements(g) /\ a \in Reach(g)[a]
    <3>1. \A d \in Statements(g) : d \in Reach(g)[d] BY <1>1, ReachIsRight DEF ReachedRight
    <3> QED BY <1>2, <3>1
  <2>2. Ahead(h, c) = Reach(h)[a] /\ Ahead(g, c) = Reach(g)[a] BY <1>4 DEF Ahead
  <2> HIDE DEF a
  <2>3. Reach(h)[a] \subseteq Reach(g)[a] BY <1>2, <2>1, ReachShrinks DEF a
  <2> QED BY <2>2, <2>3
<1>5. CASE c.op = "follow" /\ c.at # NULL
  <2> DEFINE a == g.stat[c.at].followingStatement
             b == h.stat[c.at].followingStatement
  <2>1. c.at \in Statements(g) /\ "followingStatement" \in Edges BY <1>2, <1>5 DEF Edges
  <2>2. a \in {NULL} \union Statements(g) BY <1>1, <2>1 DEF EdgesLeadOn
  <2>3. b # NULL => b \in Statements(g) /\ b \in Reach(g)[a] BY <1>1, <2>1 DEF Shrinks, EdgesLeadOn
  <2>4. Ahead(h, c) = Reach(h)[b] /\ Ahead(g, c) = Reach(g)[a] BY <1>5 DEF Ahead
  <2> HIDE DEF a, b
  <2>5. Reach(h)[b] \subseteq Reach(g)[a] BY <2>2, <2>3, ReachShrinks
  <2> QED BY <2>4, <2>5
<1>6. CASE c.op = "follow" /\ c.at = NULL BY <1>6 DEF Ahead
<1> QED BY <1>2, <1>3, <1>4, <1>5, <1>6

LEMMA UnlinkedShrinks ==
  ASSUME NEW g, EdgesLeadOn(g), NEW K, Linked(g, K), NEW s \in K, NEW f,
         NEW h, Unlinks(g, h, s, f), EdgesLeadOn(h), FollowsOrRoot(g, K, s, f),
         \A k \in 1 .. Len(g.funcs) : g.funcs[k].rootStatement \in PointersIn(g)
  PROVE  Shrinks(g, h)
<1> DEFINE n == g.stat[s].followingStatement
           p == g.stat[s].parentStatement
<1>1. /\ K \subseteq Statements(g) /\ s \in Statements(g) /\ Statements(h) = Statements(g)
      /\ "followingStatement" \in Edges
  BY DEF Linked, Unlinks, SameSize, Edges
<1>2. \A d \in Statements(g) : d \in Reach(g)[d] BY ReachIsRight DEF ReachedRight
<1>3. ASSUME NEW y \in Statements(g), NEW field \in Edges, g.stat[y][field] # NULL
      PROVE  /\ g.stat[y][field] \in Statements(g)
             /\ g.stat[y][field] \in Reach(g)[g.stat[y][field]] /\ g.stat[y][field] \in Reach(g)[y]
  <2>1. g.stat[y][field] \in Statements(g) BY <1>3 DEF EdgesLeadOn
  <2>2. g.stat[y][field] \in Reach(g)[g.stat[y][field]] BY <1>2, <2>1
  <2> QED BY <2>1, <2>2, ReachHas
<1>4. n # NULL => n \in Reach(g)[s] /\ n \in Statements(g) BY <1>1, <1>3
<1>5. ASSUME NEW y \in Statements(g), NEW field \in Edges, h.stat[y][field] # NULL
      PROVE  /\ h.stat[y][field] \in Reach(g)[y]
             /\ field = "followingStatement" => h.stat[y][field] \in Reach(g)[g.stat[y].followingStatement]
  <2>1. EdgeAfter(g, h, s, f, y, field) BY <1>1, UnlinkedEdges
  <2>2. CASE y = s /\ field = "followingStatement" BY <1>5, <2>1, <2>2 DEF EdgeAfter
  <2>3. CASE y # s /\ Redirected(g, s, f, y, field)
    <3>1. h.stat[y][field] = n /\ n # NULL BY <1>5, <2>1, <2>3 DEF EdgeAfter
    <3>2. g.stat[y].followingStatement = s /\ field = "followingStatement"
      BY <2>3 DEF Redirected, FollowsOrRoot
    <3>3. s # NULL BY <1>1 DEF Statements, NULL, EdgesLeadOn
    <3>4. s \in Reach(g)[y] BY <1>1, <1>3, <3>2, <3>3
    <3>5. Reach(g)[s] \subseteq Reach(g)[y] BY <3>4, ReachGoesOn
    <3> QED BY <1>4, <3>1, <3>2, <3>5
  <2>4. CASE ~ (y = s /\ field = "followingStatement") /\ ~ (y # s /\ Redirected(g, s, f, y, field))
    <3>1. ~ Redirected(g, s, f, y, field) BY <2>4 DEF Redirected
    <3>2. h.stat[y][field] = g.stat[y][field] BY <2>1, <2>4, <3>1 DEF EdgeAfter
    <3> QED BY <1>3, <1>5, <3>2
  <2> QED BY <2>2, <2>3, <2>4
<1>6. ASSUME NEW k \in 1 .. Len(g.funcs), h.funcs[k].rootStatement # NULL
      PROVE  /\ h.funcs[k].rootStatement \in Statements(g)
             /\ h.funcs[k].rootStatement \in Reach(g)[g.funcs[k].rootStatement]
  <2>1. CASE IsRootOf(g, s, f) /\ k = f
    <3>1. h.funcs[k].rootStatement = n BY <2>1 DEF Unlinks
    <3> QED BY <1>4, <1>6, <2>1, <3>1 DEF IsRootOf
  <2>2. CASE ~ (IsRootOf(g, s, f) /\ k = f)
    <3>1. h.funcs[k].rootStatement = g.funcs[k].rootStatement BY <2>2 DEF Unlinks
    <3>2. g.funcs[k].rootStatement \in Statements(g) BY <1>6, <3>1 DEF PointersIn
    <3> QED BY <1>2, <3>1, <3>2
  <2> QED BY <2>1, <2>2
<1> QED BY <1>1, <1>5, <1>6 DEF Shrinks

LEMMA RearmedLeads ==
  ASSUME NEW g, NEW h, NEW s \in Statements(g), NEW arm, Rearms(g, h, s, arm)
  PROVE  /\ SameSize(g, h) /\ h.funcs = g.funcs
         /\ \A y \in Statements(g) :
              /\ h.stat[y].followingStatement = g.stat[y].followingStatement
              /\ \A field \in Edges : h.stat[y][field] # NULL =>
                   \E from \in Edges : h.stat[y][field] = g.stat[y][from]
              /\ y # s => \A field \in Edges : h.stat[y][field] = g.stat[y][field]
<1>1. SameSize(g, h) /\ h.funcs = g.funcs BY DEF Rearms, TakesElse, Relinks
<1>2. ASSUME NEW y \in Statements(g), y # s, NEW field \in Edges
      PROVE  h.stat[y][field] = g.stat[y][field]
  BY <1>2, FieldNames DEF Rearms, TakesElse, Relinks
<1>3. ASSUME NEW y \in Statements(g)
      PROVE  h.stat[y].followingStatement = g.stat[y].followingStatement
  BY <1>3, FieldNames DEF Rearms, TakesElse, Relinks
<1>4. ASSUME NEW field \in Edges, h.stat[s][field] # NULL
      PROVE  \E from \in Edges : h.stat[s][field] = g.stat[s][from]
  <2>1. \/ h.stat[s][field] = g.stat[s][field]
        \/ field = "thenStatement" /\ h.stat[s][field] = g.stat[s]["elseStatement"]
    BY <1>4, FieldNames DEF Rearms, TakesElse, Relinks
  <2> QED BY <2>1, FieldNames
<1> QED BY <1>1, <1>2, <1>3, <1>4

LEMMA RearmedShrinks ==
  ASSUME NEW g, EdgesLeadOn(g), NEW s \in Statements(g), NEW arm, NEW h, Rearms(g, h, s, arm),
         EdgesLeadOn(h), \A k \in 1 .. Len(g.funcs) : g.funcs[k].rootStatement \in PointersIn(g)
  PROVE  Shrinks(g, h)
<1>1. /\ SameSize(g, h) /\ h.funcs = g.funcs
      /\ \A y \in Statements(g) :
           /\ h.stat[y].followingStatement = g.stat[y].followingStatement
           /\ \A field \in Edges : h.stat[y][field] # NULL =>
                \E from \in Edges : h.stat[y][field] = g.stat[y][from]
  BY RearmedLeads
<1>2. \A d \in Statements(g) : d \in Reach(g)[d] BY ReachIsRight DEF ReachedRight
<1>3. ASSUME NEW y \in Statements(g), NEW field \in Edges, g.stat[y][field] # NULL
      PROVE  /\ g.stat[y][field] \in Reach(g)[g.stat[y][field]] /\ g.stat[y][field] \in Reach(g)[y]
  <2>1. g.stat[y][field] \in Statements(g) BY <1>3 DEF EdgesLeadOn
  <2>2. g.stat[y][field] \in Reach(g)[g.stat[y][field]] BY <1>2, <2>1
  <2> QED BY <2>1, <2>2, ReachHas
<1>4. ASSUME NEW y \in Statements(g), NEW field \in Edges, h.stat[y][field] # NULL
      PROVE  h.stat[y][field] \in Reach(g)[y]
  <2>1. PICK from \in Edges : h.stat[y][field] = g.stat[y][from] BY <1>1, <1>4
  <2> QED BY <1>3, <1>4, <2>1
<1>5. ASSUME NEW y \in Statements(g), h.stat[y].followingStatement # NULL
      PROVE  h.stat[y].followingStatement \in Reach(g)[g.stat[y].followingStatement]
  <2>1. h.stat[y].followingStatement = g.stat[y].followingStatement BY <1>1
  <2>2. "followingStatement" \in Edges BY DEF Edges
  <2> QED BY <1>3, <1>5, <2>1, <2>2
<1>6. ASSUME NEW k \in 1 .. Len(g.funcs), h.funcs[k].rootStatement # NULL
      PROVE  /\ h.funcs[k].rootStatement \in Statements(g)
             /\ h.funcs[k].rootStatement \in Reach(g)[g.funcs[k].rootStatement]
  <2>1. h.funcs[k].rootStatement = g.funcs[k].rootStatement BY <1>1
  <2>2. g.funcs[k].rootStatement \in Statements(g) BY <1>6, <2>1 DEF PointersIn
  <2> QED BY <1>2, <2>1, <2>2
<1> QED BY <1>1, <1>4, <1>5, <1>6 DEF Shrinks, SameSize

-----------------------------------------------------------------------------
(* The pending calls have different statements to visit, and no IF among   *)
(* those has an IF as its then branch.                                     *)

Apart(g, cs) ==
  \A i, j \in 1 .. Len(cs) : i # j => Ahead(g, cs[i]) \intersect Ahead(g, cs[j]) = {}

ThenPlain(g, x) ==
  g.stat[x].thenStatement # NULL => g.stat[g.stat[x].thenStatement].statementType # "CF_IF"

PlainAhead(g, cs) == \A x \in Statements(g) : Due(g, cs, x) => ThenPlain(g, x)

Clear(g, cs) == Apart(g, cs) /\ PlainAhead(g, cs)

LEMMA ApartPopped ==
  ASSUME NEW S, NEW cs \in Seq(S), cs # << >>, NEW g, Apart(g, cs)
  PROVE  Apart(g, Pop(cs)) /\ \A x \in Ahead(g, Top(cs)) : ~ Due(g, Pop(cs), x)
<1> DEFINE low == Pop(cs)
<1>1. /\ Len(cs) \in Nat \ {0} /\ Top(cs) = cs[Len(cs)] /\ Len(low) = Len(cs) - 1
      /\ \A i \in 1 .. Len(low) : low[i] = cs[i]
  BY PopCalls DEF Top
<1> HIDE DEF low
<1>2. \A i \in 1 .. Len(low) : i \in 1 .. Len(cs) /\ i # Len(cs) /\ Len(cs) \in 1 .. Len(cs) BY <1>1
<1>3. Apart(g, low) BY <1>1, <1>2 DEF Apart
<1>4. ASSUME NEW x \in Ahead(g, Top(cs)), Due(g, low, x) PROVE FALSE
  <2>1. PICK i \in 1 .. Len(low) : x \in Ahead(g, low[i]) BY <1>4 DEF Due
  <2>2. Ahead(g, cs[i]) \intersect Ahead(g, cs[Len(cs)]) = {} BY <1>2 DEF Apart
  <2> QED BY <1>1, <1>4, <2>1, <2>2
<1> QED BY <1>3, <1>4 DEF low

(* A call that is pushed, for some of A, which is no other call's. *)
LEMMA ApartPushed ==
  ASSUME NEW S, NEW cs \in Seq(S), NEW c \in S, NEW g, Apart(g, cs),
         NEW A, \A x \in A : ~ Due(g, cs, x), Ahead(g, c) \subseteq A
  PROVE  /\ Apart(g, cs \o <<c>>)
         /\ \A x \in A : x \notin Ahead(g, c) => ~ Due(g, cs \o <<c>>, x)
         /\ \A x : Due(g, cs \o <<c>>, x) => Due(g, cs, x) \/ x \in A
<1> DEFINE more == cs \o <<c>>
<1>1. /\ Len(more) = Len(cs) + 1 /\ Len(cs) \in Nat /\ more[Len(cs) + 1] = c
      /\ \A i \in 1 .. Len(cs) : more[i] = cs[i]
  BY Pushes
<1>2. \A x : Due(g, more, x) <=> Due(g, cs, x) \/ x \in Ahead(g, c) BY DuePushed
<1> HIDE DEF more
<1>3. ASSUME NEW i \in 1 .. Len(more), NEW j \in 1 .. Len(more), i # j,
             NEW x \in Ahead(g, more[i]), x \in Ahead(g, more[j])
      PROVE  FALSE
  <2>1. \A k \in 1 .. Len(more) : k \in 1 .. Len(cs) \/ k = Len(cs) + 1 BY <1>1
  <2>2. \A k \in 1 .. Len(cs) : x \in Ahead(g, cs[k]) => Due(g, cs, x) BY DEF Due
  <2>3. CASE i \in 1 .. Len(cs) /\ j \in 1 .. Len(cs) BY <1>1, <1>3, <2>3 DEF Apart
  <2>4. CASE i \in 1 .. Len(cs) /\ j = Len(cs) + 1 BY <1>1, <1>3, <2>2, <2>4
  <2>5. CASE j \in 1 .. Len(cs) /\ i = Len(cs) + 1 BY <1>1, <1>3, <2>2, <2>5
  <2> QED BY <1>3, <2>1, <2>3, <2>4, <2>5
<1>4. Apart(g, more) BY <1>3 DEF Apart
<1> QED BY <1>2, <1>4 DEF more

LEMMA ApartShrinks ==
  ASSUME NEW g, NEW h, NEW cs, \A i \in 1 .. Len(cs) : Ahead(h, cs[i]) \subseteq Ahead(g, cs[i]),
         Apart(g, cs)
  PROVE  Apart(h, cs) /\ \A x : Due(h, cs, x) => Due(g, cs, x)
<1>1. ASSUME NEW i \in 1 .. Len(cs), NEW j \in 1 .. Len(cs), i # j
      PROVE  Ahead(h, cs[i]) \intersect Ahead(h, cs[j]) = {}
  <2>1. Ahead(g, cs[i]) \intersect Ahead(g, cs[j]) = {} BY <1>1 DEF Apart
  <2> QED BY <2>1
<1>2. ASSUME NEW x, Due(h, cs, x) PROVE Due(g, cs, x) BY <1>2 DEF Due
<1> QED BY <1>1, <1>2 DEF Apart

(* What the calls of a visit of s look at. *)
LEMMA VisitAhead ==
  ASSUME NEW g, EdgesLeadOn(g), NEW t \in PointersIn(g), NEW f
  PROVE  LET c == [op |-> "visit", at |-> t, fun |-> f]
         IN  Ahead(g, c) = Reach(g)[t] /\ Do("visit", t, f) = <<c>>
BY DEF Ahead, Do

LEMMA FollowAhead ==
  ASSUME NEW g, EdgesLeadOn(g), NEW s \in PointersIn(g), NEW f
  PROVE  LET c == [op |-> "follow", at |-> s, fun |-> f]
         IN  /\ Ahead(g, c) = IF s = NULL THEN {} ELSE Reach(g)[g.stat[s].followingStatement]
             /\ Do("follow", s, f) = <<c>>
BY DEF Ahead, Do

LEMMA VisitPushed ==
  ASSUME NEW g, EdgesLeadOn(g), NEW cs \in Seq(PendingCalls(g)), Apart(g, cs),
         NEW A, \A x \in A : ~ Due(g, cs, x),
         NEW t \in PointersIn(g), Reach(g)[t] \subseteq A, NEW f \in 1 .. Len(g.funcs)
  PROVE  LET more == cs \o Do("visit", t, f)
         IN  /\ more \in Seq(PendingCalls(g)) /\ Apart(g, more)
             /\ \A x \in A : x \notin Reach(g)[t] => ~ Due(g, more, x)
             /\ \A x : Due(g, more, x) => Due(g, cs, x) \/ x \in A
<1> DEFINE c == [op |-> "visit", at |-> t, fun |-> f]
<1>1. Ahead(g, c) = Reach(g)[t] /\ Do("visit", t, f) = <<c>> BY VisitAhead
<1>2. c \in PendingCalls(g) BY DEF PendingCalls
<1>3. cs \o Do("visit", t, f) \in Seq(PendingCalls(g)) BY VisitIsDue
<1> HIDE DEF c
<1>4. Ahead(g, c) \subseteq A BY <1>1
<1>5. /\ Apart(g, cs \o <<c>>)
      /\ \A x \in A : x \notin Ahead(g, c) => ~ Due(g, cs \o <<c>>, x)
      /\ \A x : Due(g, cs \o <<c>>, x) => Due(g, cs, x) \/ x \in A
  BY <1>2, <1>4, ApartPushed
<1> QED BY <1>1, <1>3, <1>5

LEMMA FollowPushed ==
  ASSUME NEW g, EdgesLeadOn(g), NEW cs \in Seq(PendingCalls(g)), Apart(g, cs),
         NEW A, \A x \in A : ~ Due(g, cs, x),
         NEW s \in PointersIn(g), s # NULL => Reach(g)[g.stat[s].followingStatement] \subseteq A,
         NEW f \in 1 .. Len(g.funcs)
  PROVE  LET more == cs \o Do("follow", s, f)
         IN  /\ more \in Seq(PendingCalls(g)) /\ Apart(g, more)
             /\ \A x \in A :
                  ~ (s # NULL /\ x \in Reach(g)[g.stat[s].followingStatement]) => ~ Due(g, more, x)
             /\ \A x : Due(g, more, x) => Due(g, cs, x) \/ x \in A
<1> DEFINE c == [op |-> "follow", at |-> s, fun |-> f]
<1>1. /\ Ahead(g, c) = IF s = NULL THEN {} ELSE Reach(g)[g.stat[s].followingStatement]
      /\ Do("follow", s, f) = <<c>>
  BY FollowAhead
<1>2. c \in PendingCalls(g) BY DEF PendingCalls
<1>3. cs \o Do("follow", s, f) \in Seq(PendingCalls(g)) BY FollowIsDue
<1> HIDE DEF c
<1>4. Ahead(g, c) \subseteq A BY <1>1
<1>5. /\ Apart(g, cs \o <<c>>)
      /\ \A x \in A : x \notin Ahead(g, c) => ~ Due(g, cs \o <<c>>, x)
      /\ \A x : Due(g, cs \o <<c>>, x) => Due(g, cs, x) \/ x \in A
  BY <1>2, <1>4, ApartPushed
<1> QED BY <1>1, <1>3, <1>5

(* The calls of a visit of s: what follows s, and then one of its arms, or *)
(* both branches.  They look at parts of A, and not at s.                  *)
(* A longer pile: still apart, with no more to visit than cs and A, and not *)
(* s.                                                                      *)
StillApart(g, cs, s, A, more) ==
  Apart(g, more) /\ \A x : Due(g, more, x) => (Due(g, cs, x) \/ x \in A) /\ x # s

(* What a visit of s leaves: what follows it, and an arm of it. *)
WithArm(g, cs, s, f, arm) == cs \o Do("follow", s, f) \o Do("visit", g.stat[s][arm], f)

LEMMA VisitsPushed ==
  ASSUME NEW g, EdgesLeadOn(g), Placed(g), NEW K, Linked(g, K), NEW s \in K, s \in PointersIn(g),
         NEW cs \in Seq(PendingCalls(g)), Apart(g, cs),
         NEW A, \A x \in A : ~ Due(g, cs, x), Reach(g)[s] \subseteq A,
         NEW f \in 1 .. Len(g.funcs), NEW arm \in ArmLinks
  PROVE  /\ StillApart(g, cs, s, A, WithArm(g, cs, s, f, arm))
         /\ \A other \in ArmLinks : other # arm =>
              StillApart(g, cs, s, A, WithArm(g, cs, s, f, arm) \o Do("visit", g.stat[s][other], f))
<1> DEFINE n == g.stat[s].followingStatement
           R(field) == Reach(g)[g.stat[s][field]]
           low == cs \o Do("follow", s, f)
           B == {x \in A : x \notin Reach(g)[n]}
<1>1. s \in Statements(g) /\ s # NULL /\ EdgesHold(g, K)
  <2>1. s \in Statements(g) BY DEF Linked
  <2>2. s # NULL BY <2>1 DEF Statements, NULL, EdgesLeadOn
  <2> QED BY <2>1, <2>2, LinkedEdgesHold
<1>2. \A field \in Edges : R(field) \subseteq A /\ s \notin R(field) /\ g.stat[s][field] \in PointersIn(g)
  <2>1. ASSUME NEW field \in Edges PROVE R(field) \subseteq Reach(g)[s]
    BY <1>1, ReachHas
  <2>2. ASSUME NEW field \in Edges PROVE g.stat[s][field] \in PointersIn(g)
    BY <1>1 DEF EdgesLeadOn, PointersIn
  <2> QED BY <1>1, <2>1, <2>2, EdgesApart
<1>3. \A field \in ArmLinks : R(field) \intersect Reach(g)[n] = {}
  BY <1>1, EdgesApart, FieldNames
<1>4. Reach(g)[n] \subseteq A /\ s \notin Reach(g)[n]
  <2>1. "followingStatement" \in Edges /\ Reach(g)[n] = R("followingStatement") BY FieldNames
  <2> QED BY <1>2, <2>1
<1>5. s \in A
  <2>1. s \in Reach(g)[s] BY <1>1, ReachHas
  <2> QED BY <2>1
<1> HIDE DEF n, low
<1>6. /\ low \in Seq(PendingCalls(g)) /\ Apart(g, low)
      /\ \A x \in A : ~ (s # NULL /\ x \in Reach(g)[n]) => ~ Due(g, low, x)
      /\ \A x : Due(g, low, x) => Due(g, cs, x) \/ x \in A
  BY <1>4, FollowPushed DEF low, n
<1>7. \A x \in B : ~ Due(g, low, x) BY <1>6
<1>8. \A field \in ArmLinks : R(field) \subseteq B BY <1>2, <1>3, FieldNames
<1>9. s \in B BY <1>4, <1>5
<1> HIDE DEF B
<1> DEFINE t == g.stat[s][arm]
           more == low \o Do("visit", t, f)
<1>10. t \in PointersIn(g) /\ Reach(g)[t] \subseteq B /\ s \notin Reach(g)[t] BY <1>2, <1>8, FieldNames
<1> HIDE DEF t, more
<1>11. /\ more \in Seq(PendingCalls(g)) /\ Apart(g, more)
       /\ \A x \in B : x \notin Reach(g)[t] => ~ Due(g, more, x)
       /\ \A x : Due(g, more, x) => Due(g, low, x) \/ x \in B
  BY <1>6, <1>7, <1>10, VisitPushed DEF more
<1>12. B \subseteq A BY DEF B
<1>13. ASSUME NEW x, Due(g, more, x) PROVE (Due(g, cs, x) \/ x \in A) /\ x # s
  BY <1>6, <1>9, <1>10, <1>11, <1>12, <1>13
<1>14. ASSUME NEW other \in ArmLinks, other # arm
       PROVE  StillApart(g, cs, s, A, more \o Do("visit", g.stat[s][other], f))
  <2> DEFINE u == g.stat[s][other]
             C == {x \in B : x \notin Reach(g)[t]}
             both == more \o Do("visit", u, f)
  <2>1. u \in PointersIn(g) /\ Reach(g)[u] \subseteq B /\ s \notin Reach(g)[u] BY <1>2, <1>8, FieldNames
  <2>2. Reach(g)[u] \intersect Reach(g)[t] = {}
    <3>1. other \in Edges /\ arm \in Edges BY FieldNames
    <3> QED BY <1>1, <1>14, <3>1, EdgesApart DEF t
  <2>3. Reach(g)[u] \subseteq C /\ \A x \in C : ~ Due(g, more, x) BY <1>11, <2>1, <2>2
  <2>4. s \in C /\ C \subseteq B BY <1>9, <1>10
  <2> HIDE DEF u, C, both
  <2>5. /\ Apart(g, both)
        /\ \A x \in C : x \notin Reach(g)[u] => ~ Due(g, both, x)
        /\ \A x : Due(g, both, x) => Due(g, more, x) \/ x \in C
    BY <1>11, <2>1, <2>3, VisitPushed DEF both
  <2>6. ASSUME NEW x, Due(g, both, x) PROVE (Due(g, cs, x) \/ x \in A) /\ x # s
    BY <1>12, <1>13, <2>1, <2>4, <2>5, <2>6
  <2> QED BY <2>5, <2>6 DEF both, u, StillApart
<1>15. StillApart(g, cs, s, A, more) BY <1>11, <1>13 DEF StillApart
<1>16. more = WithArm(g, cs, s, f, arm) BY DEF more, t, low, WithArm
<1> QED BY <1>14, <1>15, <1>16

(* Every call of the removal leaves them so. *)
LEMMA BelowClear ==
  ASSUME AInv, pending # << >>, Clear(graph, pending)
  PROVE  LET cs == Pop(pending)
         IN  /\ cs \in Seq(PendingCalls(graph)) /\ Apart(graph, cs)
             /\ \A x \in Ahead(graph, Current) : ~ Due(graph, cs, x)
             /\ \A x : Due(graph, pending, x) <=> Due(graph, cs, x) \/ x \in Ahead(graph, Current)
             /\ EdgesLeadOn(graph) /\ Removable(graph, allocated) /\ Placed(graph)
             /\ Current.fun \in 1 .. Len(graph.funcs)
<1>1. pending \in Seq(PendingCalls(graph)) /\ Current = Top(pending) /\ Removable(graph, allocated)
  BY DEF AInv, Current
<1>2. Apart(graph, pending) BY DEF Clear
<1>3. Apart(graph, Pop(pending)) /\ \A x \in Ahead(graph, Top(pending)) : ~ Due(graph, Pop(pending), x)
  BY <1>1, <1>2, ApartPopped
<1>4. \A x : Due(graph, pending, x) <=> Due(graph, Pop(pending), x) \/ x \in Ahead(graph, Top(pending))
  BY <1>1, DuePopped
<1>5. Pop(pending) \in Seq(PendingCalls(graph)) /\ Current.fun \in 1 .. Len(graph.funcs) BY AtCurrent
<1>6. EdgesLeadOn(graph) /\ Placed(graph) BY <1>1, RemovableIsPlaced DEF Removable
<1> QED BY <1>1, <1>3, <1>4, <1>5, <1>6

LEMMA QuietClear ==
  ASSUME Clear(graph, pending), graph' = graph, Apart(graph, pending'),
         \A x : Due(graph, pending', x) => Due(graph, pending, x)
  PROVE  Clear(graph, pending)'
<1>1. PlainAhead(graph, pending') BY DEF Clear, PlainAhead
<1>2. Clear(graph, pending') BY <1>1 DEF Clear
<1> QED BY <1>2

LEMMA VisitFunctionClear ==
  ASSUME AInv, Clear(graph, pending), VisitFunction
  PROVE  Clear(graph, pending)'
<1> DEFINE cs == Pop(pending)
           f == Current.fun
           r == graph.funcs[f].rootStatement
           A == Ahead(graph, Current)
<1>1. /\ pending # << >> /\ Current.op = "function" /\ graph' = graph
      /\ pending' = cs \o Do("visit", r, f)
  BY DEF VisitFunction, Removing, vars
<1>2. /\ cs \in Seq(PendingCalls(graph)) /\ Apart(graph, cs)
      /\ \A x \in A : ~ Due(graph, cs, x)
      /\ \A x : Due(graph, pending, x) <=> Due(graph, cs, x) \/ x \in A
      /\ EdgesLeadOn(graph) /\ Removable(graph, allocated) /\ f \in 1 .. Len(graph.funcs)
  BY <1>1, BelowClear
<1>3. r \in PointersIn(graph) BY <1>2, PointersOfRemovable
<1>4. A = Reach(graph)[r] BY <1>1 DEF Ahead
<1> HIDE DEF cs, f, r, A
<1>5. /\ Apart(graph, cs \o Do("visit", r, f))
      /\ \A x : Due(graph, cs \o Do("visit", r, f), x) => Due(graph, cs, x) \/ x \in A
  BY <1>2, <1>3, <1>4, VisitPushed
<1> QED BY <1>1, <1>2, <1>5, QuietClear

LEMMA FollowClear ==
  ASSUME AInv, Clear(graph, pending), Follow
  PROVE  Clear(graph, pending)'
<1> DEFINE cs == Pop(pending)
           f == Current.fun
           s == Current.at
           n == graph.stat[s].followingStatement
           A == Ahead(graph, Current)
<1>1. /\ pending # << >> /\ Current.op = "follow" /\ graph' = graph
      /\ pending' = IF s = NULL \/ n = NULL THEN cs ELSE cs \o Do("visit", n, f)
  BY DEF Follow, Removing, vars
<1>2. /\ cs \in Seq(PendingCalls(graph)) /\ Apart(graph, cs)
      /\ \A x \in A : ~ Due(graph, cs, x)
      /\ \A x : Due(graph, pending, x) <=> Due(graph, cs, x) \/ x \in A
      /\ EdgesLeadOn(graph) /\ Removable(graph, allocated) /\ f \in 1 .. Len(graph.funcs)
  BY <1>1, BelowClear
<1>3. s # NULL => n \in PointersIn(graph) /\ A = Reach(graph)[n]
  <2>1. s # NULL => s \in Statements(graph) BY <1>1, AtCurrent
  <2>2. \A y \in Statements(graph) : graph.stat[y]["followingStatement"] \in PointersIn(graph)
    BY <1>2, PointersOfRemovable, FieldNames
  <2> QED BY <1>1, <2>1, <2>2 DEF Ahead
<1> HIDE DEF cs, f, s, n, A
<1>4. CASE s = NULL \/ n = NULL
  <2>1. pending' = cs BY <1>1, <1>4
  <2> QED BY <1>1, <1>2, <2>1, QuietClear
<1>5. CASE ~ (s = NULL \/ n = NULL)
  <2>1. pending' = cs \o Do("visit", n, f) BY <1>1, <1>5
  <2>2. n \in PointersIn(graph) /\ A = Reach(graph)[n] BY <1>3, <1>5
  <2>3. /\ Apart(graph, cs \o Do("visit", n, f))
        /\ \A x : Due(graph, cs \o Do("visit", n, f), x) => Due(graph, cs, x) \/ x \in A
    BY <1>2, <2>2, VisitPushed
  <2> QED BY <1>1, <1>2, <2>1, <2>3, QuietClear
<1> QED BY <1>4, <1>5

LEMMA VisitOtherClear ==
  ASSUME AInv, Clear(graph, pending), VisitOther
  PROVE  Clear(graph, pending)'
<1> DEFINE cs == Pop(pending)
           f == Current.fun
           s == Current.at
           n == graph.stat[s].followingStatement
           A == Ahead(graph, Current)
<1>1. /\ pending # << >> /\ Current.op = "visit" /\ graph' = graph
      /\ pending' = cs \o Do("follow", s, f)
  BY DEF VisitOther, Removing, vars
<1>2. /\ cs \in Seq(PendingCalls(graph)) /\ Apart(graph, cs)
      /\ \A x \in A : ~ Due(graph, cs, x)
      /\ \A x : Due(graph, pending, x) <=> Due(graph, cs, x) \/ x \in A
      /\ EdgesLeadOn(graph) /\ Removable(graph, allocated) /\ f \in 1 .. Len(graph.funcs)
  BY <1>1, BelowClear
<1>3. /\ s \in PointersIn(graph) /\ A = Reach(graph)[s]
      /\ s # NULL => s \in Statements(graph)
  BY <1>1, VisitsFrom
<1>4. s # NULL => Reach(graph)[n] \subseteq A
  <2>1. "followingStatement" \in Edges BY FieldNames
  <2>2. s # NULL => Reach(graph)[graph.stat[s]["followingStatement"]] \subseteq Reach(graph)[s]
    BY <1>2, <1>3, <2>1, ReachHas
  <2> QED BY <1>3, <2>2
<1> HIDE DEF cs, f, s, A
<1>5. /\ Apart(graph, cs \o Do("follow", s, f))
      /\ \A x : Due(graph, cs \o Do("follow", s, f), x) => Due(graph, cs, x) \/ x \in A
  BY <1>2, <1>3, <1>4, FollowPushed
<1> QED BY <1>1, <1>2, <1>5, QuietClear

(* A visit of the arms of a statement. *)
LEMMA ArmsClear ==
  ASSUME AInv, KInv, Clear(graph, pending), pending # << >>, Current.op = "visit",
         Current.at # NULL, graph' = graph, NEW arm \in ArmLinks,
         LET more == Pop(pending) \o Do("follow", Current.at, Current.fun)
                       \o Do("visit", graph.stat[Current.at][arm], Current.fun)
         IN  \/ pending' = more
             \/ \E other \in ArmLinks \ {arm} :
                  pending' = more \o Do("visit", graph.stat[Current.at][other], Current.fun)
  PROVE  Clear(graph, pending)'
<1> DEFINE cs == Pop(pending)
           f == Current.fun
           s == Current.at
           A == Ahead(graph, Current)
           more == WithArm(graph, cs, s, f, arm)
<1>1. /\ cs \in Seq(PendingCalls(graph)) /\ Apart(graph, cs)
      /\ \A x \in A : ~ Due(graph, cs, x)
      /\ \A x : Due(graph, pending, x) <=> Due(graph, cs, x) \/ x \in A
      /\ EdgesLeadOn(graph) /\ Placed(graph) /\ f \in 1 .. Len(graph.funcs)
  BY BelowClear
<1>2. s \in PointersIn(graph) /\ A = Reach(graph)[s] BY VisitsFrom
<1>3. s \in Kept /\ Linked(graph, Kept) BY InVisit DEF KInv
<1>4. \/ pending' = more
      \/ \E other \in ArmLinks \ {arm} : pending' = more \o Do("visit", graph.stat[s][other], f)
  BY DEF WithArm
<1> HIDE DEF cs, f, s, A
<1>5. /\ StillApart(graph, cs, s, A, more)
      /\ \A other \in ArmLinks : other # arm =>
           StillApart(graph, cs, s, A, more \o Do("visit", graph.stat[s][other], f))
  <2>1. Reach(graph)[s] \subseteq A BY <1>2
  <2> QED BY <1>1, <1>2, <1>3, <2>1, VisitsPushed
<1> HIDE DEF more
<1>6. Apart(graph, pending') /\ \A x : Due(graph, pending', x) => Due(graph, cs, x) \/ x \in A
  <2>1. CASE pending' = more BY <1>5, <2>1 DEF StillApart
  <2>2. CASE pending' # more
    <3>1. PICK other \in ArmLinks \ {arm} : pending' = more \o Do("visit", graph.stat[s][other], f)
      BY <1>4, <2>2
    <3> QED BY <1>5, <3>1 DEF StillApart
  <2> QED BY <2>1, <2>2
<1> QED BY <1>1, <1>6, QuietClear

LEMMA VisitBodyClear ==
  ASSUME AInv, KInv, Clear(graph, pending), VisitBody
  PROVE  Clear(graph, pending)'
<1> DEFINE arm == "bodyStatement"
<1>1. /\ pending # << >> /\ Current.op = "visit" /\ Current.at # NULL /\ graph' = graph
      /\ pending' = Pop(pending) \o Do("follow", Current.at, Current.fun)
                      \o Do("visit", graph.stat[Current.at][arm], Current.fun)
  BY DEF VisitBody, Visiting, Removing, vars
<1>2. arm \in ArmLinks BY FieldNames
<1> HIDE DEF arm
<1> QED BY <1>1, <1>2, ArmsClear

LEMMA VisitBranchesClear ==
  ASSUME AInv, KInv, Clear(graph, pending), VisitBranches
  PROVE  Clear(graph, pending)'
<1> DEFINE arm == "elseStatement"
           other == "thenStatement"
<1>1. /\ pending # << >> /\ Current.op = "visit" /\ Current.at # NULL /\ graph' = graph
      /\ pending' = Pop(pending) \o Do("follow", Current.at, Current.fun)
                      \o Do("visit", graph.stat[Current.at][arm], Current.fun)
                      \o Do("visit", graph.stat[Current.at][other], Current.fun)
  BY DEF VisitBranches, Visiting, Removing, vars
<1>2. arm \in ArmLinks /\ other \in ArmLinks \ {arm} BY FieldNames
<1> HIDE DEF arm, other
<1> QED BY <1>1, <1>2, ArmsClear

(* A change that leads nowhere new and leaves the then branches of what is *)
(* still to be visited.                                                    *)
LEMMA ChangedClear ==
  ASSUME AInv, pending # << >>, Clear(graph, pending), NEW h, SameSize(graph, h), Shrinks(graph, h),
         NEW cs, Apart(h, cs),
         \A x : Due(h, cs, x) => Due(graph, pending, x),
         \A x \in Statements(graph) : Due(h, cs, x) =>
           h.stat[x].thenStatement = graph.stat[x].thenStatement
  PROVE  Clear(h, cs)
<1>1. EdgesLeadOn(graph) /\ Statements(h) = Statements(graph) BY DEF Shrinks
<1>2. ASSUME NEW x \in Statements(graph), Due(h, cs, x) PROVE ThenPlain(h, x)
  <2> DEFINE t == graph.stat[x].thenStatement
  <2>1. ThenPlain(graph, x) /\ h.stat[x].thenStatement = t BY <1>2 DEF Clear, PlainAhead
  <2>2. t # NULL => t \in Statements(graph) BY <1>1 DEF EdgesLeadOn, Edges
  <2>3. t # NULL => h.stat[t].statementType = graph.stat[t].statementType
    BY <2>2 DEF SameSize, SameNode
  <2> QED BY <2>1, <2>3 DEF ThenPlain
<1> QED BY <1>1, <1>2 DEF Clear, PlainAhead

LEMMA RearmClear ==
  ASSUME AInv, KInv, KInv', Clear(graph, pending), pending # << >>, Current.op = "visit",
         Current.at # NULL, NEW arm, Rearms(graph, graph', Current.at, arm),
         Removable(graph', allocated), Current.at \in Kept', NEW field \in ArmLinks,
         pending' = Pop(pending) \o Do("follow", Current.at, Current.fun)
                      \o Do("visit", graph'.stat[Current.at][field], Current.fun)
  PROVE  Clear(graph, pending)'
<1> DEFINE g == graph
           h == graph'
           cs == Pop(pending)
           f == Current.fun
           s == Current.at
           A == Ahead(g, Current)
           L == Kept'
           more == pending'
<1>1. /\ cs \in Seq(PendingCalls(g)) /\ Apart(g, cs)
      /\ \A x \in A : ~ Due(g, cs, x)
      /\ \A x : Due(g, pending, x) <=> Due(g, cs, x) \/ x \in A
      /\ EdgesLeadOn(g) /\ Removable(g, allocated) /\ f \in 1 .. Len(g.funcs)
  BY BelowClear
<1>2. s \in PointersIn(g) /\ A = Reach(g)[s] /\ s \in Statements(g) BY VisitsFrom
<1>3. Linked(h, L) /\ s \in L BY DEF KInv
<1>4. EdgesLeadOn(h) /\ Placed(h) BY RemovableIsPlaced DEF Removable
<1>5. Rearms(g, h, s, arm) /\ more = cs \o Do("follow", s, f) \o Do("visit", h.stat[s][field], f)
  OBVIOUS
<1> HIDE DEF g, h, cs, f, s, A, L, more
<1>6. \A k \in 1 .. Len(g.funcs) : g.funcs[k].rootStatement \in PointersIn(g)
  BY <1>1, PointersOfRemovable
<1>7. Shrinks(g, h) BY <1>1, <1>2, <1>4, <1>5, <1>6, RearmedShrinks
<1>8. SameSize(g, h) /\ h.funcs = g.funcs
      /\ \A y \in Statements(g) : y # s => \A edge \in Edges : h.stat[y][edge] = g.stat[y][edge]
  BY <1>2, <1>5, RearmedLeads
<1>9. PointersIn(h) = PointersIn(g) /\ Statements(h) = Statements(g) BY <1>8 DEF SameSize, PointersIn
<1>10. PendingCalls(h) = PendingCalls(g) BY <1>8, <1>9 DEF PendingCalls
<1>11. \A i \in 1 .. Len(cs) : Ahead(h, cs[i]) \subseteq Ahead(g, cs[i])
  <2>1. \A i \in 1 .. Len(cs) : cs[i] \in PendingCalls(g) BY <1>1
  <2> QED BY <1>6, <1>7, <2>1, AheadShrinks
<1>12. Apart(h, cs) /\ \A x : Due(h, cs, x) => Due(g, cs, x) BY <1>1, <1>11, ApartShrinks
<1>13. Reach(h)[s] \subseteq A
  <2>1. s \in Reach(g)[s] BY <1>1, <1>2, ReachIsRight DEF ReachedRight
  <2>2. Reach(h)[s] \subseteq Reach(g)[s] BY <1>2, <1>7, <2>1, ReachShrinks
  <2> QED BY <1>2, <2>2
<1>14. \A x \in A : ~ Due(h, cs, x) BY <1>1, <1>12
<1>15. Apart(h, more) /\ \A x : Due(h, more, x) => (Due(h, cs, x) \/ x \in A) /\ x # s
  <2>1. s \in PointersIn(h) /\ cs \in Seq(PendingCalls(h)) /\ f \in 1 .. Len(h.funcs)
    BY <1>1, <1>2, <1>8, <1>9, <1>10
  <2>2. StillApart(h, cs, s, A, WithArm(h, cs, s, f, field))
    BY <1>3, <1>4, <1>12, <1>13, <1>14, <2>1, VisitsPushed
  <2>3. more = WithArm(h, cs, s, f, field) BY <1>5 DEF WithArm
  <2> QED BY <2>2, <2>3 DEF StillApart
<1>16. \A x : Due(h, more, x) => Due(g, pending, x) BY <1>1, <1>12, <1>15
<1>17. \A x \in Statements(g) : Due(h, more, x) => h.stat[x].thenStatement = g.stat[x].thenStatement
  BY <1>8, <1>15, FieldNames
<1>18. Clear(h, more) BY <1>7, <1>8, <1>15, <1>16, <1>17, ChangedClear DEF g
<1> QED BY <1>18 DEF h, more

LEMMA RemoveStatementClear ==
  ASSUME AInv, AInv', KInv, Clear(graph, pending), RemoveStatement
  PROVE  Clear(graph, pending)'
<1> DEFINE g == graph
           h == graph'
           cs == Pop(pending)
           f == Current.fun
           s == Current.at
           p == g.stat[s].parentStatement
           A == Ahead(g, Current)
           K == Kept
           more == pending'
<1>1. /\ pending # << >> /\ s \in Statements(g)
      /\ g.stat[s].statementType \in {"CF_IF", "CF_FOR"}
      /\ cond[s] = "false" /\ g.stat[s].elseStatement = NULL
      /\ Unlinks(g, h, s, f) /\ Removable(h, allocated)
      /\ more = cs \o Do("follow", p, f)
  BY RemovesStatement
<1>2. Current.op = "visit" /\ s # NULL BY DEF RemoveStatement, Visiting, Removing
<1>3. /\ cs \in Seq(PendingCalls(g)) /\ Apart(g, cs)
      /\ \A x \in A : ~ Due(g, cs, x)
      /\ \A x : Due(g, pending, x) <=> Due(g, cs, x) \/ x \in A
      /\ EdgesLeadOn(g) /\ Removable(g, allocated) /\ Placed(g) /\ f \in 1 .. Len(g.funcs)
  BY <1>1, BelowClear
<1>4. A = Reach(g)[s] BY <1>1, <1>2, VisitsFrom
<1>5. s \in K /\ Linked(g, K) /\ ArmsOK(g, cond, K) BY <1>1, <1>2, InVisit DEF KInv
<1>6. CallOK(g, K, Current) BY <1>1, InRemoval
<1>7. EdgesLeadOn(h) BY <1>1 DEF Removable
<1> DEFINE cur == Current
<1>8. cur.op = "visit" /\ cur.at = s /\ cur.fun = f /\ CallOK(g, K, cur) BY <1>2, <1>6
<1> HIDE DEF g, h, cs, f, s, A, K, more, cur, p
<1>9. /\ FollowsOrRoot(g, K, s, f)
      /\ p # NULL => p \in K /\ g.stat[p].followingStatement = s
  BY <1>1, <1>3, <1>5, <1>8, RemovedFollows DEF p
<1>10. \A k \in 1 .. Len(g.funcs) : g.funcs[k].rootStatement \in PointersIn(g)
  BY <1>3, PointersOfRemovable
<1>11. Shrinks(g, h) BY <1>1, <1>3, <1>5, <1>7, <1>9, <1>10, UnlinkedShrinks
<1>12. /\ SameSize(g, h)
       /\ \A y \in Statements(g) : \A arm \in ArmLinks : h.stat[y][arm] = g.stat[y][arm]
  BY <1>1 DEF Unlinks
<1>13. PointersIn(h) = PointersIn(g) /\ PendingCalls(h) = PendingCalls(g) /\ f \in 1 .. Len(h.funcs)
  BY <1>3, <1>12 DEF SameSize, PointersIn, PendingCalls
<1>14. \A i \in 1 .. Len(cs) : Ahead(h, cs[i]) \subseteq Ahead(g, cs[i])
  <2>1. \A i \in 1 .. Len(cs) : cs[i] \in PendingCalls(g) BY <1>3
  <2> QED BY <1>10, <1>11, <2>1, AheadShrinks
<1>15. Apart(h, cs) /\ \A x : Due(h, cs, x) => Due(g, cs, x) BY <1>3, <1>14, ApartShrinks
<1>16. \A x \in A : ~ Due(h, cs, x) BY <1>3, <1>15
<1>17. p # NULL => Reach(h)[h.stat[p].followingStatement] \subseteq A
  <2>1. ASSUME p # NULL PROVE Reach(h)[h.stat[p].followingStatement] \subseteq A
    <3> DEFINE b == h.stat[p].followingStatement
    <3>1. p \in K /\ p \in Statements(g) /\ g.stat[p].followingStatement = s
      BY <1>5, <1>9, <2>1 DEF Linked
    <3>2. b # NULL => b \in Statements(g) /\ b \in Reach(g)[s]
      <4>1. b # NULL => b \in Reach(g)[s] BY <1>11, <3>1 DEF Shrinks
      <4> QED BY <1>1, <1>3, <4>1, ReachGoesOn
    <3> HIDE DEF b
    <3>3. Reach(h)[b] \subseteq Reach(g)[s] BY <1>1, <1>11, <3>2, ReachShrinks
    <3> QED BY <1>4, <3>3 DEF b
  <2> QED BY <2>1
<1>18. p \in PointersIn(h)
  <2>1. p # NULL => p \in Statements(g) BY <1>5, <1>9 DEF Linked
  <2> QED BY <1>13, <2>1 DEF PointersIn
<1>19. Apart(h, more) /\ \A x : Due(h, more, x) => Due(h, cs, x) \/ x \in A
  <2>1. cs \in Seq(PendingCalls(h)) BY <1>3, <1>13
  <2>2. /\ Apart(h, cs \o Do("follow", p, f))
        /\ \A x : Due(h, cs \o Do("follow", p, f), x) => Due(h, cs, x) \/ x \in A
    BY <1>7, <1>13, <1>15, <1>16, <1>17, <1>18, <2>1, FollowPushed
  <2> QED BY <1>1, <2>2
<1>20. \A x : Due(h, more, x) => Due(g, pending, x) BY <1>3, <1>15, <1>19
<1>21. \A x \in Statements(g) : h.stat[x].thenStatement = g.stat[x].thenStatement
  BY <1>12, FieldNames
<1>22. pending # << >> BY <1>1
<1>23. Clear(h, more) BY <1>11, <1>12, <1>19, <1>20, <1>21, <1>22, ChangedClear DEF g
<1> QED BY <1>23 DEF h, more

-----------------------------------------------------------------------------
(* What has been freed: once each, the statements that are not kept and    *)
(* the tables they came with, and no table of a function.                  *)

Tally(q, g, K, own) ==
  /\ \A s \in Statements(g) : Count(q, <<"stat", s>>) = One(s \notin K)
  /\ \A b \in own : Count(q, <<"table", g.stat[b].localSymbolTable>>) = One(b \notin K)
  /\ \A f \in 1 .. Len(g.funcs) : Count(q, <<"table", g.funcs[f].symbolTable>>) = 0

(* What is freed with the statements of D. *)
CutOff(r, g, D, own) ==
  /\ r \in Seq(Objects)
  /\ \A s \in Statements(g) : Count(r, <<"stat", s>>) = One(s \in D)
  /\ \A b \in own : Count(r, <<"table", g.stat[b].localSymbolTable>>) = One(b \in D)
  /\ \A f \in 1 .. Len(g.funcs) : Count(r, <<"table", g.funcs[f].symbolTable>>) = 0

LEMMA TallyGrows ==
  ASSUME NEW g, NEW K, NEW own, own \subseteq Statements(g), NEW q \in Seq(Objects),
         Tally(q, g, K, own), NEW D, D \subseteq K, NEW r, CutOff(r, g, D, own)
  PROVE  Tally(q \o r, g, K \ D, own)
<1>1. \A x : Count(q \o r, x) = Count(q, x) + Count(r, x) BY CountAdds DEF CutOff
<1>2. \A s : One(s \notin K) + One(s \in D) = One(s \notin K \ D) BY DEF One
<1>3. ASSUME NEW s \in Statements(g) PROVE Count(q \o r, <<"stat", s>>) = One(s \notin K \ D)
  <2>1. Count(q, <<"stat", s>>) = One(s \notin K) /\ Count(r, <<"stat", s>>) = One(s \in D)
    BY DEF Tally, CutOff
  <2> QED BY <1>1, <1>2, <2>1
<1>4. ASSUME NEW b \in own
      PROVE  Count(q \o r, <<"table", g.stat[b].localSymbolTable>>) = One(b \notin K \ D)
  <2> DEFINE x == <<"table", g.stat[b].localSymbolTable>>
  <2>1. Count(q, x) = One(b \notin K) /\ Count(r, x) = One(b \in D) BY DEF Tally, CutOff
  <2> HIDE DEF x
  <2>2. Count(q \o r, x) = One(b \notin K \ D) BY <1>1, <1>2, <2>1
  <2> QED BY <2>2 DEF x
<1>5. ASSUME NEW f \in 1 .. Len(g.funcs)
      PROVE  Count(q \o r, <<"table", g.funcs[f].symbolTable>>) = 0
  <2> DEFINE x == <<"table", g.funcs[f].symbolTable>>
  <2>1. Count(q, x) = 0 /\ Count(r, x) = 0 BY DEF Tally, CutOff
  <2> HIDE DEF x
  <2>2. Count(q \o r, x) = 0 BY <1>1, <2>1
  <2> QED BY <2>2 DEF x
<1> QED BY <1>3, <1>4, <1>5 DEF Tally

(* The clean-up of a statement that is not the first of a branch. *)
LEMMA StatementCut ==
  ASSUME NEW g, NEW tables, NEW own, NEW block, NEW K, NEW d, NEW table,
         Cleaning(g, tables, own, block, K, d, table),
         d \in own => g.stat[d].statementType = "CF_FOR"
  PROVE  CutOff(clean_stat(g, table)[d], g, Reach(g)[d], own)
<1> DEFINE r == clean_stat(g, table)[d]
           D == Reach(g)[d]
<1>1. Countable(g) /\ d \in Statements(g) BY DEF Cleaning, EdgesHold
<1>2. r \in Seq(Objects) BY <1>1, CleanIsSeq
<1>3. \A x : Count(r, x) = Cnt(g, table, d, x) BY DEF Cnt
<1>4. ASSUME NEW s \in Statements(g) PROVE Count(r, <<"stat", s>>) = One(s \in D)
  <2>1. Cnt(g, table, d, <<"stat", s>>) = One(s \in Reach(g)[d]) BY StatementCount
  <2> QED BY <1>3, <2>1
<1>5. ASSUME NEW b \in own PROVE Count(r, <<"table", g.stat[b].localSymbolTable>>) = One(b \in D)
  <2>1. Cnt(g, table, d, <<"table", g.stat[b].localSymbolTable>>)
          = One(b \in D /\ (b # d \/ g.stat[b].statementType = "CF_FOR"))
    BY OwnTableCount
  <2>2. b \in D /\ (b # d \/ g.stat[b].statementType = "CF_FOR") <=> b \in D OBVIOUS
  <2> HIDE DEF D
  <2>3. One(b \in D /\ (b # d \/ g.stat[b].statementType = "CF_FOR")) = One(b \in D) BY <2>2 DEF One
  <2> QED BY <1>3, <2>1, <2>3 DEF D
<1>6. \A f \in 1 .. Len(g.funcs) : Count(r, <<"table", g.funcs[f].symbolTable>>) = 0
  BY <1>3, FunctionTableCount
<1> QED BY <1>2, <1>4, <1>5, <1>6 DEF CutOff

(* The clean-up of a branch, and of its table if it has one. *)
LEMMA BranchCut ==
  ASSUME NEW g, NEW tables, NEW own, NEW block, NEW K, NEW d, NEW table,
         Cleaning(g, tables, own, block, K, d, table),
         NEW s \in K, g.stat[s].statementType = "CF_IF", NEW arm \in ArmLinks, g.stat[s][arm] = d,
         d # NULL
  PROVE  CutOff(clean_stat(g, table)[d] \o FreesTable(g, d), g, Reach(g)[d], own)
<1> DEFINE q == clean_stat(g, table)[d]
           t == FreesTable(g, d)
           D == Reach(g)[d]
           T(b) == g.stat[b].localSymbolTable
<1>1. /\ Countable(g) /\ EdgesLeadOn(g) /\ TablesGiven(g, tables, own, block)
      /\ EdgesHold(g, K) /\ AllFit(g, K, own, block) /\ d \in K /\ K \subseteq Statements(g)
      /\ d \in Statements(g) /\ s \in Statements(g)
  BY DEF Cleaning, EdgesHold, Countable
<1>2. q \in Seq(Objects) /\ \A x : Count(q, x) = Cnt(g, table, d, x) BY <1>1, CleanIsSeq DEF Cnt
<1>3. g.stat[d].parentStatement = s
  <2>1. arm \in Edges BY FieldNames
  <2>2. EdgeIsLinked(g, K, s, arm) BY <1>1, <2>1 DEF EdgesHold
  <2> QED BY <2>2 DEF EdgeIsLinked
<1>4. /\ g.stat[d].statementType # "CF_FOR"
      /\ d \in own => g.stat[d].statementType # "CF_IF"
      /\ d \notin own => g.stat[d].statementType = "CF_IF" /\ block[d] = block[s]
  BY <1>1 DEF AllFit, EdgesFit, TablesGiven
<1>5. s < d BY <1>1, FieldNames DEF EdgesLeadOn
<1>6. t \in Seq(Objects) /\ \A x : Count(t, x) = One(d \in own /\ <<"table", T(d)>> = x)
  <2>1. CASE d \in own
    <3>1. T(d) # T(s) BY <1>1, <1>5, <2>1 DEF TablesGiven
    <3>2. t = TableOf(T(d)) BY <1>3, <3>1 DEF FreesTable, TableOf
    <3>3. T(d) \in Nat BY <1>1 DEF Countable
    <3> HIDE DEF t, T
    <3>4. TableOf(T(d)) \in Seq(Objects) /\ \A x : Count(TableOf(T(d)), x) = One(<<"table", T(d)>> = x)
      BY <3>3, TableIsSeq
    <3>5. \A x : One(d \in own /\ <<"table", T(d)>> = x) = One(<<"table", T(d)>> = x)
      BY <2>1 DEF One
    <3> QED BY <3>2, <3>4, <3>5
  <2>2. CASE d \notin own
    <3>1. T(d) = block[d] /\ T(s) = block[s] BY <1>1, <1>4, <2>2 DEF TablesGiven
    <3>2. T(d) = T(s) BY <1>4, <2>2, <3>1
    <3>3. t = << >> BY <1>3, <3>2 DEF FreesTable
    <3> HIDE DEF t, T
    <3>4. \A x : Count(<< >>, x) = 0 BY CountOfNone
    <3>5. \A x : One(d \in own /\ <<"table", T(d)>> = x) = 0 BY <2>2 DEF One
    <3>6. << >> \in Seq(Objects) OBVIOUS
    <3> QED BY <3>3, <3>4, <3>5, <3>6
  <2> QED BY <2>1, <2>2
<1> HIDE DEF t
<1>7. q \o t \in Seq(Objects) /\ \A x : Count(q \o t, x) = Count(q, x) + Count(t, x)
  BY <1>2, <1>6, CountAdds
<1>8. ASSUME NEW y \in Statements(g) PROVE Count(q \o t, <<"stat", y>>) = One(y \in D)
  <2>1. Count(q, <<"stat", y>>) = One(y \in D) BY <1>2, StatementCount
  <2>2. <<"table", T(d)>> # <<"stat", y>> OBVIOUS
  <2>3. Count(t, <<"stat", y>>) = 0 BY <1>6, <2>2 DEF One
  <2>4. One(y \in D) \in Nat BY DEF One
  <2> QED BY <1>7, <2>1, <2>3, <2>4
<1>9. ASSUME NEW b \in own PROVE Count(q \o t, <<"table", T(b)>>) = One(b \in D)
  <2> DEFINE x == <<"table", T(b)>>
             Held == b \in D /\ (b # d \/ g.stat[b].statementType = "CF_FOR")
  <2>1. Count(q, x) = One(Held) BY <1>2, OwnTableCount
  <2>2. d \in own /\ <<"table", T(d)>> = x <=> b = d
    <3>1. d \in own /\ T(d) = T(b) => b = d
      <4>1. Len(g.stat) \in Nat BY <1>1 DEF EdgesLeadOn
      <4> QED BY <1>1, <4>1, OwnTablesDiffer
    <3> QED BY <3>1
  <2>3. d \in D BY <1>1, HeldReach
  <2>4. Held <=> b \in D /\ b # d BY <1>4
  <2> HIDE DEF Held, x
  <2>5. Count(t, x) = One(b = d)
    <3>1. Count(t, x) = One(d \in own /\ <<"table", T(d)>> = x) BY <1>6
    <3> QED BY <2>2, <3>1 DEF One
  <2>6. One(Held) + One(b = d) = One(b \in D) BY <2>3, <2>4 DEF One
  <2>7. Count(q \o t, x) = One(b \in D) BY <1>7, <2>1, <2>5, <2>6
  <2> QED BY <2>7 DEF x
<1>10. ASSUME NEW f \in 1 .. Len(g.funcs)
       PROVE  Count(q \o t, <<"table", g.funcs[f].symbolTable>>) = 0
  <2> DEFINE x == <<"table", g.funcs[f].symbolTable>>
  <2>1. Count(q, x) = 0 BY <1>2, FunctionTableCount
  <2>2. d \in own => g.funcs[f].symbolTable # T(d) BY <1>1 DEF TablesGiven
  <2>3. ~ (d \in own /\ <<"table", T(d)>> = x) BY <2>2
  <2> HIDE DEF x
  <2>4. Count(t, x) = 0 BY <1>6, <2>3 DEF One
  <2>5. Count(q \o t, x) = 0 BY <1>7, <2>1, <2>4
  <2> QED BY <2>5 DEF x
<1>11. CutOff(q \o t, g, D, own) BY <1>7, <1>8, <1>9, <1>10 DEF CutOff
<1> QED BY <1>11 DEF t

(* A then branch with a table of its own is seen as one from s: the table  *)
(* is newer than all that it is compared with.                             *)
LEMMA PlainSeen ==
  ASSUME NEW g, EdgesLeadOn(g), Placed(g), NEW tables, NEW own, NEW block,
         TablesGiven(g, tables, own, block), NEW y \in Statements(g), EdgesFit(g, own, block, y),
         ThenPlain(g, y), NEW s \in Statements(g), s <= y
  PROVE  ThenSeen(g, g.stat[s].localSymbolTable, y)
<1> DEFINE t == g.stat[y].thenStatement
           p == g.stat[y].parentStatement
<1> SUFFICES ASSUME t # NULL PROVE ThenSeen(g, g.stat[s].localSymbolTable, y)
  BY DEF ThenSeen
<1>1. t \in Statements(g) /\ y < t /\ g.stat[t].statementType # "CF_IF"
  BY FieldNames DEF EdgesLeadOn, ThenPlain
<1>2. t \in own BY <1>1, FieldNames DEF EdgesFit
<1>3. s \in Nat /\ y \in Nat /\ t \in Nat BY <1>1 DEF Placed
<1>4. g.stat[s].localSymbolTable # g.stat[t].localSymbolTable BY <1>1, <1>2, <1>3 DEF TablesGiven
<1>5. p # NULL => g.stat[p].localSymbolTable # g.stat[t].localSymbolTable
  <2>1. p # NULL => p \in Statements(g) /\ p < y /\ p \in Nat BY DEF Placed
  <2> QED BY <1>1, <1>2, <1>3, <2>1 DEF TablesGiven
<1>6. ThenOwnsTable(g, y, g.stat[s].localSymbolTable) BY <1>4, <1>5 DEF ThenOwnsTable
<1> QED BY <1>1, <1>6 DEF ThenSeen

LEMMA RemovableIsCountable ==
  ASSUME NEW g, NEW tables, Removable(g, tables)
  PROVE  Countable(g)
<1>1. EdgesLeadOn(g) /\ g.stat \in Seq(StatementRecords) BY DEF Removable, Graphs
<1>2. \A s \in Statements(g) : g.stat[s] \in StatementRecords BY <1>1 DEF Statements
<1> QED BY <1>1, <1>2 DEF Countable, StatementRecords

LEMMA FreedIsCountable ==
  ASSUME NEW n \in Nat, NEW tables \in Nat, NEW q \in Seq(ObjectsOf(n, tables))
  PROVE  q \in Seq(Objects)
<1>1. ObjectsOf(n, tables) \subseteq Objects BY DEF ObjectsOf, Objects
<1> HIDE DEF Objects
<1> QED BY <1>1

-----------------------------------------------------------------------------
(* The three removals keep the tally. *)

Balanced(own, block) ==
  /\ TablesGiven(graph, allocated, own, block)
  /\ AllFit(graph, Kept, own, block)
  /\ RootsFit(graph, own, block)
  /\ Tally(freed, graph, Kept, own)

(* The tally is about types and tables, which no removal changes. *)
LEMMA TallyMoves ==
  ASSUME NEW g, NEW h, SameSize(g, h), NEW q, NEW K, NEW own, own \subseteq Statements(g),
         Tally(q, g, K, own)
  PROVE  Tally(q, h, K, own)
<1>1. /\ Len(h.funcs) = Len(g.funcs) /\ Statements(h) = Statements(g)
      /\ \A s \in Statements(g) : h.stat[s].localSymbolTable = g.stat[s].localSymbolTable
      /\ \A f \in 1 .. Len(g.funcs) : h.funcs[f].symbolTable = g.funcs[f].symbolTable
  BY DEF SameSize, SameNode
<1> QED BY <1>1 DEF Tally

LEMMA CutSettles ==
  ASSUME AInv, NEW own, NEW block, Balanced(own, block), NEW D, D \subseteq Kept, Kept' = Kept \ D,
         SameSize(graph, graph'), allocated' = allocated,
         AllFit(graph', Kept, own, block), RootsFit(graph', own, block),
         NEW r, freed' = freed \o r, CutOff(r, graph, D, own)
  PROVE  Balanced(own, block)'
<1> DEFINE h == graph'
           K == Kept
           L == Kept'
           q == freed
           q2 == freed'
           n == allocated
           n2 == allocated'
<1>1. /\ TablesGiven(graph, n, own, block) /\ own \subseteq Statements(graph)
      /\ Tally(q, graph, K, own)
  BY DEF Balanced, TablesGiven
<1>2. q \in Seq(Objects)
  <2>1. q \in Seq(ObjectsOf(Len(graph.stat), n)) /\ n \in Nat /\ Len(graph.stat) \in Nat
    BY DEF AInv, Removable, EdgesLeadOn
  <2> HIDE DEF q, n
  <2> QED BY <2>1, FreedIsCountable
<1>3. SameSize(graph, h) /\ L = K \ D /\ q2 = q \o r /\ n2 = n /\ D \subseteq K OBVIOUS
<1>4. AllFit(h, K, own, block) /\ RootsFit(h, own, block) OBVIOUS
<1> HIDE DEF h, K, L, q, q2, n, n2
<1>5. TablesGiven(h, n2, own, block) BY <1>1, <1>3, TablesStay
<1>6. AllFit(h, L, own, block) BY <1>3, <1>4 DEF AllFit
<1>7. Tally(q \o r, graph, K \ D, own) BY <1>1, <1>2, <1>3, TallyGrows
<1>8. Tally(q2, h, L, own)
  <2>1. Tally(q2, graph, L, own) BY <1>3, <1>7
  <2> QED BY <1>1, <1>3, <2>1, TallyMoves
<1> QED BY <1>4, <1>5, <1>6, <1>8 DEF Balanced, h, L, q2, n2

(* What a visit of s has ahead of it has plain then branches.              *)
LEMMA AheadIsPlain ==
  ASSUME AInv, pending # << >>, Clear(graph, pending), Current.op = "visit", Current.at # NULL
  PROVE  \A y \in Reach(graph)[Current.at] : y \in Statements(graph) /\ ThenPlain(graph, y)
<1> DEFINE s == Current.at
<1>1. /\ EdgesLeadOn(graph)
      /\ \A x : x \in Ahead(graph, Current) => Due(graph, pending, x)
  BY BelowClear
<1>2. s \in Statements(graph) /\ Ahead(graph, Current) = Reach(graph)[s] BY VisitsFrom
<1>3. Reach(graph)[s] \subseteq Statements(graph) BY <1>1, <1>2, ReachIsRight DEF ReachedRight
<1> QED BY <1>1, <1>2, <1>3 DEF Clear, PlainAhead

LEMMA StatementSettled ==
  ASSUME AInv, AInv', KInv, Clear(graph, pending), NEW own, NEW block, Balanced(own, block),
         RemoveStatement
  PROVE  Balanced(own, block)'
<1> DEFINE g == graph
           h == graph'
           f == Current.fun
           s == Current.at
           K == Kept
           D == Reach(h)[s]
           table == g.stat[s].localSymbolTable
           r == clean_stat(h, table)[s]
<1>1. /\ pending # << >> /\ Current.op = "visit" /\ s # NULL /\ allocated' = allocated
      /\ freed' = freed \o r
  BY DEF RemoveStatement, Visiting, Removing
<1>2. /\ s \in K /\ f \in 1 .. Len(g.funcs)
      /\ g.stat[s].statementType \in {"CF_IF", "CF_FOR"}
      /\ Unlinks(g, h, s, f) /\ FollowsOrRoot(g, K, s, f)
      /\ Kept' = K \ D
      /\ EdgesLeadOn(g) /\ EdgesLeadOn(h) /\ Linked(g, K) /\ K \subseteq Statements(g)
  BY StatementRemoved
<1>3. Removable(g, allocated) /\ Removable(h, allocated) BY <1>1 DEF AInv
<1>4. Placed(g) /\ Placed(h) /\ Countable(h) BY <1>3, RemovableIsPlaced, RemovableIsCountable
<1>5. \A y \in Reach(g)[s] : y \in Statements(g) /\ ThenPlain(g, y) BY <1>1, AheadIsPlain
<1>6. TablesGiven(g, allocated, own, block) /\ AllFit(g, K, own, block) /\ RootsFit(g, own, block)
  BY DEF Balanced
<1> DEFINE n == allocated
<1>7. SameSize(g, h) BY <1>2 DEF Unlinks
<1> HIDE DEF g, h, f, s, K, D, n, table
<1>8. AllFit(h, K, own, block) /\ RootsFit(h, own, block) BY <1>2, <1>6, UnlinkedFits
<1>9. EdgesHold(h, D) /\ D \subseteq K /\ s \in D BY <1>2, <1>4, UnlinkedHold DEF D
<1>10. TablesGiven(h, n, own, block) BY <1>6, <1>7, TablesStay DEF n
<1>11. \A k \in 1 .. Len(g.funcs) : g.funcs[k].rootStatement \in PointersIn(g)
  BY <1>3, PointersOfRemovable DEF n
<1>12. Shrinks(g, h) BY <1>2, <1>11, UnlinkedShrinks
<1>13. D \subseteq Reach(g)[s]
  <2>1. s \in Statements(g) BY <1>2
  <2>2. s \in Reach(g)[s] BY <1>2, <2>1, ReachIsRight DEF ReachedRight
  <2> QED BY <1>12, <2>1, <2>2, ReachShrinks DEF D
<1>14. h.stat[s].localSymbolTable = table BY <1>2, <1>7 DEF SameSize, SameNode, table
<1>15. Statements(h) = Statements(g) BY <1>7 DEF SameSize
<1>16. ASSUME NEW y \in D PROVE ThenSeen(h, table, y)
  <2>1. y \in Statements(g) /\ ThenPlain(g, y) /\ y \in Reach(g)[s] BY <1>5, <1>13
  <2>2. ThenPlain(h, y)
    <3> DEFINE t == g.stat[y].thenStatement
    <3>1. h.stat[y].thenStatement = t BY <1>2, <2>1, FieldNames DEF Unlinks
    <3>2. t # NULL => t \in Statements(g) BY <1>2, <2>1, FieldNames DEF EdgesLeadOn
    <3>3. t # NULL => h.stat[t].statementType = g.stat[t].statementType
      BY <1>7, <3>2 DEF SameSize, SameNode
    <3> QED BY <2>1, <3>1, <3>3 DEF ThenPlain
  <2>3. s <= y
    <3>1. s \in Statements(h) BY <1>2, <1>15
    <3> QED BY <1>2, <3>1, ReachIsRight DEF ReachedRight, D
  <2>4. EdgesFit(h, own, block, y) BY <1>8, <1>9 DEF AllFit
  <2>5. ThenSeen(h, h.stat[s].localSymbolTable, y)
    BY <1>2, <1>4, <1>10, <1>15, <2>1, <2>2, <2>3, <2>4, PlainSeen
  <2> QED BY <1>14, <2>5
<1>17. Cleaning(h, n, own, block, D, s, table)
  <2>1. AllFit(h, D, own, block) BY <1>8, <1>9 DEF AllFit
  <2> QED BY <1>4, <1>9, <1>10, <1>16, <2>1 DEF Cleaning, D
<1>18. s \in own => h.stat[s].statementType = "CF_FOR"
  <2>1. h.stat[s].statementType = g.stat[s].statementType BY <1>2, <1>7 DEF SameSize, SameNode
  <2>2. s \in Statements(g) BY <1>2
  <2> QED BY <1>2, <1>6, <2>1, <2>2 DEF TablesGiven
<1>19. CutOff(r, h, D, own) BY <1>17, <1>18, StatementCut DEF D
<1>20. CutOff(r, g, D, own)
  <2>1. /\ Len(h.funcs) = Len(g.funcs)
        /\ \A y \in Statements(g) : h.stat[y].localSymbolTable = g.stat[y].localSymbolTable
        /\ \A k \in 1 .. Len(g.funcs) : h.funcs[k].symbolTable = g.funcs[k].symbolTable
    BY <1>7 DEF SameSize, SameNode
  <2>2. own \subseteq Statements(g) BY <1>6 DEF TablesGiven
  <2> HIDE DEF r
  <2> QED BY <1>15, <1>19, <2>1, <2>2 DEF CutOff
<1> HIDE DEF r
<1>21. D \subseteq K /\ Kept' = K \ D /\ SameSize(graph, graph') /\ allocated' = allocated
       /\ AllFit(graph', K, own, block) /\ RootsFit(graph', own, block)
       /\ freed' = freed \o r /\ CutOff(r, graph, D, own)
  BY <1>1, <1>2, <1>7, <1>8, <1>9, <1>20 DEF g, h
<1> QED BY <1>21, CutSettles DEF K

LEMMA JoinsAssociate ==
  ASSUME NEW S, NEW a \in Seq(S), NEW b \in Seq(S), NEW c \in Seq(S)
  PROVE  (a \o b) \o c = a \o (b \o c)
OBVIOUS

(* A branch that is cut off. *)
LEMMA ArmCut ==
  ASSUME NEW g, NEW n, Removable(g, n), NEW K, Linked(g, K), NEW s \in K,
         \A y \in Reach(g)[s] : y \in Statements(g) /\ ThenPlain(g, y),
         NEW own, NEW block, TablesGiven(g, n, own, block), AllFit(g, K, own, block),
         g.stat[s].statementType = "CF_IF", NEW arm \in ArmLinks, g.stat[s][arm] # NULL
  PROVE  LET d == g.stat[s][arm]
             r == clean_stat(g, g.stat[s].localSymbolTable)[d] \o FreesTable(g, d)
         IN  Reach(g)[d] \subseteq K /\ CutOff(r, g, Reach(g)[d], own)
<1> DEFINE d == g.stat[s][arm]
           D == Reach(g)[d]
           table == g.stat[s].localSymbolTable
<1>1. Placed(g) /\ Countable(g) BY RemovableIsPlaced, RemovableIsCountable
<1>2. EdgesLeadOn(g) BY DEF Removable
<1>3. EdgesHold(g, K) BY LinkedEdgesHold
<1>4. K \subseteq Statements(g) /\ s \in Statements(g) /\ arm \in Edges BY FieldNames DEF Linked
<1>5. d \in K /\ s < d
  <2>1. EdgeIsLinked(g, K, s, arm) BY <1>4 DEF Linked
  <2>2. d \in K BY <2>1 DEF EdgeIsLinked
  <2> QED BY <1>2, <1>4, <2>2 DEF EdgesLeadOn
<1>6. D \subseteq Reach(g)[s] BY <1>2, <1>4, ReachHas
<1>7. g.stat[s][arm] = d /\ d # NULL OBVIOUS
<1> HIDE DEF d
<1>8. D \subseteq K /\ \A x \in D : d <= x BY <1>2, <1>3, <1>5, HeldReach
<1> HIDE DEF D
<1>9. ASSUME NEW y \in D PROVE ThenSeen(g, table, y)
  <2>1. y \in Statements(g) /\ ThenPlain(g, y) BY <1>6
  <2>2. s <= y
    <3>1. d <= y BY <1>8
    <3>2. s \in Nat /\ d \in Nat /\ y \in Nat BY <1>1, <1>4, <1>5, <2>1 DEF Placed
    <3> QED BY <1>5, <3>1, <3>2
  <2>3. EdgesFit(g, own, block, y) BY <1>8 DEF AllFit
  <2> QED BY <1>1, <1>2, <1>4, <2>1, <2>2, <2>3, PlainSeen
<1>10. Cleaning(g, n, own, block, K, d, table) BY <1>1, <1>3, <1>5, <1>9 DEF Cleaning, D
<1> HIDE DEF table
<1>11. CutOff(clean_stat(g, table)[d] \o FreesTable(g, d), g, D, own)
  BY <1>7, <1>10, BranchCut DEF D
<1> QED BY <1>8, <1>11 DEF d, D, table

(* What the clean-up of a branch adds to what has been freed. *)
LEMMA BranchIsSeq ==
  ASSUME NEW g, Countable(g), NEW table, NEW d \in Statements(g)
  PROVE  clean_stat(g, table)[d] \in Seq(Objects) /\ FreesTable(g, d) \in Seq(Objects)
<1>1. clean_stat(g, table)[d] \in Seq(Objects) BY CleanIsSeq
<1>2. g.stat[d].localSymbolTable \in Nat BY DEF Countable
<1>3. FreesTable(g, d) = << >> \/ FreesTable(g, d) = TableOf(g.stat[d].localSymbolTable)
  BY DEF FreesTable, TableOf
<1>4. TableOf(g.stat[d].localSymbolTable) \in Seq(Objects) BY <1>2, TableIsSeq
<1>5. << >> \in Seq(Objects) OBVIOUS
<1> QED BY <1>1, <1>3, <1>4, <1>5

CutsArm(arm) ==
  LET g == graph
      s == Current.at
      d == g.stat[s][arm]
  IN  /\ d # NULL /\ Kept' = Kept \ Reach(g)[d] /\ allocated' = allocated
      /\ freed' = freed \o clean_stat(g, g.stat[s].localSymbolTable)[d] \o FreesTable(g, d)

LEMMA ArmSettled ==
  ASSUME AInv, KInv, Clear(graph, pending), NEW own, NEW block, Balanced(own, block),
         pending # << >>, Current.op = "visit", Current.at # NULL,
         graph.stat[Current.at].statementType = "CF_IF",
         NEW arm \in ArmLinks, Rearms(graph, graph', Current.at, arm), CutsArm(arm)
  PROVE  Balanced(own, block)'
<1> DEFINE g == graph
           s == Current.at
           e == g.stat[s][arm]
           K == Kept
           D == Reach(g)[e]
           n == allocated
           q == clean_stat(g, g.stat[s].localSymbolTable)[e]
           t == FreesTable(g, e)
           r == q \o t
           h == graph'
           old == freed
           new == freed'
<1>1. Removable(g, n) /\ old \in Seq(ObjectsOf(Len(g.stat), n)) BY DEF AInv
<1>2. \A y \in Reach(g)[s] : y \in Statements(g) /\ ThenPlain(g, y) BY AheadIsPlain
<1>3. TablesGiven(g, n, own, block) /\ AllFit(g, K, own, block) /\ RootsFit(g, own, block)
  BY DEF Balanced
<1>4. s \in K /\ Linked(g, K) /\ K \subseteq Statements(g) BY InVisit DEF KInv, Linked
<1>5. /\ Rearms(g, h, s, arm) /\ g.stat[s].statementType = "CF_IF" /\ g.stat[s][arm] # NULL
      /\ Kept' = K \ D /\ allocated' = allocated
  BY DEF CutsArm
<1>6. new = (old \o q) \o t BY DEF CutsArm
<1>7. q = clean_stat(g, g.stat[s].localSymbolTable)[e] /\ t = FreesTable(g, e) /\ e = g.stat[s][arm]
  OBVIOUS
<1> HIDE DEF g, s, e, K, n, q, t, h, old, new
<1>8. D \subseteq K /\ CutOff(r, g, D, own) BY <1>1, <1>2, <1>3, <1>4, <1>5, <1>7, ArmCut
<1>9. EdgesLeadOn(g) /\ Countable(g) /\ Len(g.stat) \in Nat /\ n \in Nat
  BY <1>1, RemovableIsCountable DEF Removable, EdgesLeadOn
<1>10. SameSize(g, h) /\ AllFit(h, K, own, block) /\ RootsFit(h, own, block)
  <2>1. s \in Statements(g) BY <1>4
  <2>2. SameSize(g, h) BY <1>5, <2>1, RearmedLeads
  <2> QED BY <1>3, <1>4, <1>5, <1>9, <2>2, RearmedFits
<1>11. old \in Seq(Objects) BY <1>1, <1>9, FreedIsCountable
<1>12. q \in Seq(Objects) /\ t \in Seq(Objects)
  <2>1. EdgeIsLinked(g, K, s, arm) BY <1>4, FieldNames DEF Linked
  <2>2. e \in Statements(g) BY <1>4, <1>5, <1>7, <2>1 DEF EdgeIsLinked
  <2> QED BY <1>7, <1>9, <2>2, BranchIsSeq
<1>13. new = old \o r BY <1>6, <1>11, <1>12, JoinsAssociate
<1> HIDE DEF r, D
<1>14. D \subseteq Kept /\ Kept' = Kept \ D /\ SameSize(graph, graph') /\ allocated' = allocated
       /\ AllFit(graph', Kept, own, block) /\ RootsFit(graph', own, block)
       /\ freed' = freed \o r /\ CutOff(r, graph, D, own)
  BY <1>5, <1>8, <1>10, <1>13 DEF g, h, K, old, new
<1> QED BY <1>14, CutSettles

(* The two removals of an arm. *)
LEMMA ArmRemovedClear ==
  ASSUME AInv, KInv, KInv', Clear(graph, pending),
         RemoveThen \/ (RemoveElse /\ graph.stat[Current.at].elseStatement # NULL)
  PROVE  Clear(graph, pending)'
<1>1. pending # << >> /\ Current.op = "visit" /\ Current.at # NULL
  BY DEF RemoveThen, RemoveElse, Visiting, Removing
<1>2. Removable(graph', allocated) BY RemovesThen, RemovesElse
<1>3. PICK arm \in ArmLinks :
        /\ Current.at \in Kept' /\ Rearms(graph, graph', Current.at, arm)
        /\ pending' = Pop(pending) \o Do("follow", Current.at, Current.fun)
                        \o Do("visit", graph'.stat[Current.at].thenStatement, Current.fun)
  BY ArmRemoved
<1>4. "thenStatement" \in ArmLinks BY FieldNames
<1>5. pending' = Pop(pending) \o Do("follow", Current.at, Current.fun)
                   \o Do("visit", graph'.stat[Current.at]["thenStatement"], Current.fun)
  BY <1>3
<1> QED BY <1>1, <1>2, <1>3, <1>4, <1>5, RearmClear

LEMMA ThenSettled ==
  ASSUME AInv, KInv, Clear(graph, pending), NEW own, NEW block, Balanced(own, block), RemoveThen
  PROVE  Balanced(own, block)'
<1> DEFINE s == Current.at
           d == graph.stat[s]["thenStatement"]
<1>1. pending # << >> /\ Current.op = "visit" /\ s # NULL /\ graph.stat[s].statementType = "CF_IF"
      /\ allocated' = allocated
      /\ freed' = freed \o clean_stat(graph, graph.stat[s].localSymbolTable)[d]
                        \o FreesTable(graph, d)
  BY DEF RemoveThen, Visiting, Removing
<1>2. d # NULL /\ TakesElse(graph, graph', s) /\ NowFreed(Reach(graph)[d]) BY RemovesThen
<1>3. Rearms(graph, graph', s, "thenStatement") /\ "thenStatement" \in ArmLinks
  BY <1>2, FieldNames DEF Rearms
<1>4. Kept' = Kept \ Reach(graph)[d]
  <2>1. SameSize(graph, graph') BY <1>2 DEF TakesElse
  <2> HIDE DEF d
  <2> QED BY <1>2, <2>1, KeptAfter
<1>5. CutsArm("thenStatement") BY <1>1, <1>2, <1>4 DEF CutsArm
<1> QED BY <1>1, <1>3, <1>5, ArmSettled

LEMMA ElseSettled ==
  ASSUME AInv, KInv, Clear(graph, pending), NEW own, NEW block, Balanced(own, block), RemoveElse,
         graph.stat[Current.at].elseStatement # NULL
  PROVE  Balanced(own, block)'
<1> DEFINE s == Current.at
           d == graph.stat[s]["elseStatement"]
<1>1. pending # << >> /\ Current.op = "visit" /\ s # NULL /\ graph.stat[s].statementType = "CF_IF"
      /\ allocated' = allocated
      /\ freed' = freed \o clean_stat(graph, graph.stat[s].localSymbolTable)[d]
                        \o FreesTable(graph, d)
  BY DEF RemoveElse, Visiting, Removing
<1>2. d # NULL /\ Relinks(graph, graph', s, "elseStatement", NULL) /\ NowFreed(Reach(graph)[d])
  BY RemovesElse
<1>3. Rearms(graph, graph', s, "elseStatement") /\ "elseStatement" \in ArmLinks
  BY <1>2, FieldNames DEF Rearms
<1>4. Kept' = Kept \ Reach(graph)[d]
  <2>1. SameSize(graph, graph') BY <1>2 DEF Relinks
  <2> HIDE DEF d
  <2> QED BY <1>2, <2>1, KeptAfter
<1>5. CutsArm("elseStatement") BY <1>1, <1>2, <1>4 DEF CutsArm
<1> QED BY <1>1, <1>3, <1>5, ArmSettled

(* The other calls free nothing. *)
LEMMA QuietSettled ==
  ASSUME NEW own, NEW block, Balanced(own, block), graph' = graph, freed' = freed,
         allocated' = allocated
  PROVE  Balanced(own, block)'
BY DEF Balanced, Kept

LEMMA NoElseClear ==
  ASSUME AInv, KInv, Clear(graph, pending), RemoveElse,
         graph.stat[Current.at].elseStatement = NULL
  PROVE  Clear(graph, pending)' /\ graph' = graph /\ freed' = freed /\ allocated' = allocated
<1>1. pending # << >> /\ Current.op = "visit" /\ Current.at # NULL /\ allocated' = allocated
  BY DEF RemoveElse, Visiting, Removing
<1>2. /\ graph' = graph /\ freed' = freed
      /\ pending' = Pop(pending) \o Do("follow", Current.at, Current.fun)
                      \o Do("visit", graph.stat[Current.at]["thenStatement"], Current.fun)
  BY RemovesElse
<1>3. "thenStatement" \in ArmLinks BY FieldNames
<1> QED BY <1>1, <1>2, <1>3, ArmsClear

-----------------------------------------------------------------------------
(* The removal of main() keeps all this.                                   *)

FInv == Clear(graph, pending) /\ \E own, block : Balanced(own, block)

LEMMA QuietFInv ==
  ASSUME FInv, Clear(graph, pending)', graph' = graph, freed' = freed, allocated' = allocated
  PROVE  FInv'
<1>1. PICK own, block : Balanced(own, block) BY DEF FInv
<1>2. Balanced(own, block)' BY <1>1, QuietSettled
<1> QED BY <1>2 DEF FInv

LEMMA RemovalKeepsFInv ==
  ASSUME AInv, AInv', KInv, KInv', FInv,
         RemoveStatement \/ RemoveThen \/ (RemoveElse /\ graph.stat[Current.at].elseStatement # NULL)
  PROVE  FInv'
<1>1. Clear(graph, pending) BY DEF FInv
<1>2. PICK own, block : Balanced(own, block) BY DEF FInv
<1>3. Clear(graph, pending)' BY <1>1, RemoveStatementClear, ArmRemovedClear
<1>4. Balanced(own, block)' BY <1>1, <1>2, StatementSettled, ThenSettled, ElseSettled
<1> QED BY <1>3, <1>4 DEF FInv

(* When the removal begins nothing has been freed, and every function is   *)
(* to be visited.                                                          *)
LEMMA FirstClear ==
  ASSUME NEW g, EdgesLeadOn(g), Placed(g), Linked(g, Statements(g)), ShapeOK(g),
         Len(g.funcs) \in Nat, NEW cs,
         cs = [f \in 1 .. Len(g.funcs) |-> [op |-> "function", at |-> NULL, fun |-> f]]
  PROVE  Clear(g, cs)
<1>1. /\ Len(cs) = Len(g.funcs)
      /\ \A i \in 1 .. Len(g.funcs) : cs[i].op = "function" /\ cs[i].fun = i
  OBVIOUS
<1>2. \A i \in 1 .. Len(g.funcs) : Ahead(g, cs[i]) = Reach(g)[g.funcs[i].rootStatement]
  BY <1>1 DEF Ahead
<1>3. ASSUME NEW i \in 1 .. Len(cs), NEW j \in 1 .. Len(cs), i # j
      PROVE  Ahead(g, cs[i]) \intersect Ahead(g, cs[j]) = {}
  <2>1. i \in 1 .. Len(g.funcs) /\ j \in 1 .. Len(g.funcs) BY <1>1
  <2>2. Reach(g)[g.funcs[i].rootStatement] \intersect Reach(g)[g.funcs[j].rootStatement] = {}
    BY <1>3, <2>1, RootsApart
  <2> QED BY <1>2, <2>1, <2>2
<1>4. ASSUME NEW x \in Statements(g) PROVE ThenPlain(g, x)
  <2>1. ArmStarts(g, x) BY DEF ShapeOK
  <2>2. g.stat[x].thenStatement # NULL =>
          g.stat[g.stat[x].thenStatement].statementType \in ArmTypes("thenStatement")
    BY <2>1, FieldNames DEF ArmStarts
  <2>3. ArmTypes("thenStatement") = {"CF_BASIC"} BY DEF ArmTypes
  <2> QED BY <2>2, <2>3 DEF ThenPlain
<1>5. Apart(g, cs) BY <1>3 DEF Apart
<1> QED BY <1>4, <1>5 DEF Clear, PlainAhead

LEMMA NothingTallied ==
  ASSUME NEW g, NEW own, own \subseteq Statements(g)
  PROVE  Tally(<< >>, g, Statements(g), own)
BY CountOfNone DEF Tally, One

LEMMA RemovalBeginsF ==
  ASSUME OptInv, PInv, FoldConditions, Watching'
  PROVE  FInv'
<1> DEFINE g == graph
           K == Statements(g)
           n == allocated
<1>1. /\ KInv' /\ Kept' = K /\ graph' = g /\ pending' = EveryFunction
      /\ Removable(g, n) /\ IInv /\ BInv
  BY RemovalBegins
<1>2. semantic_enabled /\ allocated' = n /\ freed' = freed BY DEF FoldConditions, vars
<1>3. freed = << >>
  <2>1. phase = "parse" BY DEF FoldConditions
  <2> QED BY <2>1 DEF OptInv
<1>4. PICK own, block : Given(g, n, own, block) BY <1>2 DEF PInv
<1>5. GraphInv(g, n) /\ ShapeOK(g) BY <1>1 DEF IInv, BInv
<1>6. Linked(g, K) BY <1>5, ParserGraphIsLinked
<1>7. Placed(g) BY <1>1, RemovableIsPlaced
<1>8. EdgesLeadOn(g) BY <1>1 DEF Removable
<1>9. Len(g.funcs) \in Nat
  <2>1. g.funcs \in Seq(FunctionRecords(FuncNames)) BY <1>1 DEF Removable, Graphs
  <2> QED BY <2>1
<1> DEFINE cs == [f \in 1 .. Len(g.funcs) |-> [op |-> "function", at |-> NULL, fun |-> f]]
<1>10. EveryFunction = cs BY DEF EveryFunction
<1> HIDE DEF cs
<1>11. Clear(g, cs)
  <2>1. cs = [f \in 1 .. Len(g.funcs) |-> [op |-> "function", at |-> NULL, fun |-> f]] BY DEF cs
  <2> HIDE DEF g
  <2> QED BY <1>5, <1>6, <1>7, <1>8, <1>9, <2>1, FirstClear
<1>12. Clear(graph, pending)'
  <2> DEFINE h == graph'
             c == pending'
  <2>1. h = g /\ c = cs BY <1>1, <1>10
  <2> HIDE DEF h, c, g
  <2>2. Clear(h, c) BY <1>11, <2>1
  <2> QED BY <2>2 DEF h, c
<1>13. Balanced(own, block)'
  <2> DEFINE h == graph'
             m == allocated'
             L == Kept'
             q == freed'
  <2>1. h = g /\ m = n /\ L = K /\ q = << >> BY <1>1, <1>2, <1>3
  <2>2. TablesGiven(g, n, own, block) /\ AllFit(g, K, own, block) /\ RootsFit(g, own, block)
    BY <1>4 DEF Given
  <2>3. Tally(<< >>, g, K, own) BY <2>2, NothingTallied DEF TablesGiven
  <2> HIDE DEF h, m, L, q, g, K, n
  <2>4. TablesGiven(h, m, own, block) /\ AllFit(h, L, own, block) /\ RootsFit(h, own, block)
        /\ Tally(q, h, L, own)
    BY <2>1, <2>2, <2>3
  <2> QED BY <2>4 DEF Balanced, h, m, L, q
<1> QED BY <1>12, <1>13 DEF FInv

LEMMA StepKeepsFreed ==
  ASSUME OptInv, OptInv', Watching => KInv, Watching' => KInv', phase = "parse" => PInv,
         Watching => FInv, [OptNext]_<<vars, optVars>>, Watching'
  PROVE  FInv'
<1>1. KInv' OBVIOUS
<1>2. AInv' BY DEF OptInv, Watching
<1>3. ASSUME phase = "parse", promised' = promised PROVE FALSE
  <2>1. promised = << >> BY <1>3 DEF OptInv
  <2> QED BY <1>3, <2>1 DEF Watching
<1>4. CASE Parse BY <1>3, <1>4 DEF Parse, optVars
<1>5. CASE FoldConditions
  <2>1. PInv BY <1>5 DEF FoldConditions
  <2> QED BY <1>5, <2>1, RemovalBeginsF
<1>6. CASE SkipOptimiser BY <1>3, <1>6 DEF SkipOptimiser
<1>7. ASSUME phase = "remove", promised' = promised
      PROVE  AInv /\ KInv /\ FInv /\ Clear(graph, pending)
  <2>1. AInv /\ KInv /\ FInv BY <1>7 DEF Watching, OptInv
  <2> QED BY <2>1 DEF FInv
<1>8. CASE VisitFunction
  <2>1. /\ phase = "remove" /\ promised' = promised /\ graph' = graph /\ freed' = freed
        /\ allocated' = allocated
    BY <1>8 DEF VisitFunction, Removing, vars
  <2>2. Clear(graph, pending)' BY <1>7, <1>8, <2>1, VisitFunctionClear
  <2> QED BY <1>7, <2>1, <2>2, QuietFInv
<1>9. CASE RemoveStatement
  <2>1. phase = "remove" /\ promised' = promised
    BY <1>9 DEF RemoveStatement, Visiting, Removing
  <2> QED BY <1>1, <1>2, <1>7, <1>9, <2>1, RemovalKeepsFInv
<1>10. CASE RemoveThen \/ (RemoveElse /\ graph.stat[Current.at].elseStatement # NULL)
  <2>1. phase = "remove" /\ promised' = promised
    BY <1>10 DEF RemoveThen, RemoveElse, Visiting, Removing
  <2> QED BY <1>1, <1>2, <1>7, <1>10, <2>1, RemovalKeepsFInv
<1>11. CASE RemoveElse /\ graph.stat[Current.at].elseStatement = NULL
  <2>1. phase = "remove" /\ promised' = promised
    BY <1>11 DEF RemoveElse, Visiting, Removing
  <2>2. Clear(graph, pending)' /\ graph' = graph /\ freed' = freed /\ allocated' = allocated
    BY <1>7, <1>11, <2>1, NoElseClear
  <2> QED BY <1>7, <2>1, <2>2, QuietFInv
<1>12. CASE VisitBranches
  <2>1. /\ phase = "remove" /\ promised' = promised /\ graph' = graph /\ freed' = freed
        /\ allocated' = allocated
    BY <1>12 DEF VisitBranches, Visiting, Removing, vars
  <2>2. Clear(graph, pending)' BY <1>7, <1>12, <2>1, VisitBranchesClear
  <2> QED BY <1>7, <2>1, <2>2, QuietFInv
<1>13. CASE VisitBody
  <2>1. /\ phase = "remove" /\ promised' = promised /\ graph' = graph /\ freed' = freed
        /\ allocated' = allocated
    BY <1>13 DEF VisitBody, Visiting, Removing, vars
  <2>2. Clear(graph, pending)' BY <1>7, <1>13, <2>1, VisitBodyClear
  <2> QED BY <1>7, <2>1, <2>2, QuietFInv
<1>14. CASE VisitOther
  <2>1. /\ phase = "remove" /\ promised' = promised /\ graph' = graph /\ freed' = freed
        /\ allocated' = allocated
    BY <1>14 DEF VisitOther, Removing, vars
  <2>2. Clear(graph, pending)' BY <1>7, <1>14, <2>1, VisitOtherClear
  <2> QED BY <1>7, <2>1, <2>2, QuietFInv
<1>15. CASE Follow
  <2>1. /\ phase = "remove" /\ promised' = promised /\ graph' = graph /\ freed' = freed
        /\ allocated' = allocated
    BY <1>15 DEF Follow, Removing, vars
  <2>2. Clear(graph, pending)' BY <1>7, <1>15, <2>1, FollowClear
  <2> QED BY <1>7, <2>1, <2>2, QuietFInv
<1>16. ASSUME FInv, graph' = graph, pending' = pending, freed' = freed, allocated' = allocated
       PROVE  FInv'
  <2>1. Clear(graph, pending)' BY <1>16 DEF FInv
  <2> QED BY <1>16, <2>1, QuietFInv
<1>17. CASE EndOfRemoval
  <2>1. FInv BY <1>7, <1>17 DEF EndOfRemoval
  <2> QED BY <1>16, <1>17, <2>1 DEF EndOfRemoval, vars
<1>18. CASE CleanAll BY <1>18 DEF CleanAll, Watching
<1>19. CASE UNCHANGED <<vars, optVars>>
  <2>1. FInv BY <1>19 DEF Watching, optVars
  <2> QED BY <1>16, <1>19, <2>1 DEF vars, optVars
<1> QED BY <1>4, <1>5, <1>6, <1>8, <1>9, <1>10, <1>11, <1>12, <1>13, <1>14, <1>15, <1>17, <1>18,
           <1>19 DEF OptNext

-----------------------------------------------------------------------------
(* The clean-up of what is left.                                           *)

(* No IF that took its then branch from an else if follows a FOR. *)
NoHeaderTable(g, K) ==
  \A s \in K :
    LET t == g.stat[s].thenStatement
        p == g.stat[s].parentStatement
    IN  t # NULL /\ g.stat[t].statementType = "CF_IF" /\ p # NULL =>
          g.stat[p].statementType # "CF_FOR"

Remaining(g, tables, own, block, K) ==
  /\ Removable(g, tables) /\ Linked(g, K) /\ NoHeaderTable(g, K)
  /\ TablesGiven(g, tables, own, block) /\ AllFit(g, K, own, block) /\ RootsFit(g, own, block)

LEMMA LeftIsCountable ==
  ASSUME NEW g, NEW tables, NEW own, NEW block, NEW K, Remaining(g, tables, own, block, K)
  PROVE  /\ Countable(g) /\ Placed(g) /\ EdgesLeadOn(g) /\ Linked(g, K) /\ EdgesHold(g, K)
         /\ K \subseteq Statements(g) /\ Len(g.funcs) \in Nat
         /\ \A f \in 1 .. Len(g.funcs) :
              /\ g.funcs[f].rootStatement \in PointersIn(g) /\ g.funcs[f].symbolTable \in Nat
              /\ g.funcs[f].rootStatement # NULL => g.funcs[f].rootStatement \in K
<1>1. Removable(g, tables) /\ Linked(g, K) BY DEF Remaining
<1>2. Countable(g) /\ Placed(g) BY <1>1, RemovableIsCountable, RemovableIsPlaced
<1>3. EdgesLeadOn(g) BY <1>1 DEF Removable
<1>4. EdgesHold(g, K) /\ K \subseteq Statements(g) BY <1>1, LinkedEdgesHold DEF Linked
<1>5. g.funcs \in Seq(FunctionRecords(FuncNames)) BY <1>1 DEF Removable, Graphs
<1>6. \A f \in 1 .. Len(g.funcs) : g.funcs[f] \in FunctionRecords(FuncNames) BY <1>5
<1>7. \A f \in 1 .. Len(g.funcs) : g.funcs[f].symbolTable \in Nat BY <1>6 DEF FunctionRecords
<1>8. \A f \in 1 .. Len(g.funcs) : g.funcs[f].rootStatement \in PointersIn(g)
  BY <1>1, PointersOfRemovable
<1>9. \A f \in 1 .. Len(g.funcs) : g.funcs[f].rootStatement # NULL => g.funcs[f].rootStatement \in K
  BY <1>1 DEF Linked, RootIsLinked
<1> QED BY <1>1, <1>2, <1>3, <1>4, <1>5, <1>7, <1>8, <1>9

(* What s hangs on: nothing, or an edge of its parent. *)
LEMMA HangsOnParent ==
  ASSUME NEW g, NEW K, Linked(g, K), NEW s \in K, g.stat[s].parentStatement # NULL
  PROVE  /\ g.stat[s].parentStatement \in K
         /\ \E field \in Edges : g.stat[g.stat[s].parentStatement][field] = s
<1>0. NULL \notin Statements(g) BY DEF NULL, Statements
<1>1. s # NULL BY <1>0 DEF Linked
<1>2. ASSUME NEW f \in 1 .. Len(g.funcs), g.funcs[f].rootStatement = s PROVE FALSE
  <2>1. RootIsLinked(g, K, f) BY DEF Linked
  <2> QED BY <1>1, <1>2, <2>1 DEF RootIsLinked
<1>3. Hangs(g, K, s) BY DEF Linked
<1>4. PICK y \in K, field \in Edges : g.stat[y][field] = s BY <1>2, <1>3 DEF Hangs
<1>5. EdgeIsLinked(g, K, y, field) BY DEF Linked
<1>6. g.stat[s].parentStatement = y BY <1>1, <1>4, <1>5 DEF EdgeIsLinked
<1> QED BY <1>4, <1>6

(* A then branch with a table of its own is seen in the clean-up of the    *)
(* function, and an else if that was made the then branch is not.          *)
LEMMA LeftThenSeen ==
  ASSUME NEW g, NEW tables, NEW own, NEW block, NEW K, Remaining(g, tables, own, block, K),
         NEW f \in 1 .. Len(g.funcs), NEW s \in Reach(g)[g.funcs[f].rootStatement],
         g.funcs[f].rootStatement # NULL
  PROVE  ThenSeen(g, g.funcs[f].symbolTable, s)
<1> DEFINE root == g.funcs[f].rootStatement
           table == g.funcs[f].symbolTable
           t == g.stat[s].thenStatement
           p == g.stat[s].parentStatement
<1>1. /\ Placed(g) /\ EdgesLeadOn(g) /\ Linked(g, K) /\ EdgesHold(g, K) /\ K \subseteq Statements(g)
      /\ root \in K
  BY LeftIsCountable
<1>2. /\ TablesGiven(g, tables, own, block) /\ AllFit(g, K, own, block) /\ RootsFit(g, own, block)
      /\ NoHeaderTable(g, K) /\ Removable(g, tables)
  BY DEF Remaining
<1>3. /\ Reach(g)[root] \subseteq K
      /\ \A x \in Reach(g)[root] : x # root => g.stat[x].parentStatement \in Reach(g)[root]
  BY <1>1, HeldReach
<1>4. s \in K /\ s \in Statements(g) BY <1>1, <1>3
<1>5. EdgesFit(g, own, block, s) BY <1>2, <1>4 DEF AllFit
<1> SUFFICES ASSUME t # NULL
             PROVE  ThenOwnsTable(g, s, table) <=> g.stat[t].statementType # "CF_IF"
  BY DEF ThenSeen
<1>6. t \in Statements(g) /\ s < t BY <1>1, <1>4, FieldNames DEF EdgesLeadOn
<1>7. /\ g.stat[t].statementType # "CF_FOR"
      /\ IF g.stat[t].statementType = "CF_IF" THEN block[t] = block[s] ELSE t \in own
  BY <1>5, FieldNames DEF EdgesFit
<1>8. s \in Nat /\ t \in Nat /\ p \in Nat /\ p < s /\ (p # NULL => p \in Statements(g))
  BY <1>1, <1>4, <1>6 DEF Placed
<1>9. CASE g.stat[t].statementType # "CF_IF"
  <2>1. t \in own BY <1>7, <1>9
  <2>2. table # g.stat[t].localSymbolTable BY <1>2, <2>1 DEF TablesGiven
  <2>3. p # NULL => g.stat[p].localSymbolTable # g.stat[t].localSymbolTable
    <3>1. p < t BY <1>6, <1>8
    <3> QED BY <1>2, <1>8, <2>1, <3>1 DEF TablesGiven
  <2>4. ThenOwnsTable(g, s, table) BY <2>2, <2>3 DEF ThenOwnsTable
  <2> QED BY <1>9, <2>4
<1>10. CASE g.stat[t].statementType = "CF_IF"
  <2>1. g.stat[t].localSymbolTable = block[s]
    <3>1. g.stat[t].localSymbolTable = block[t] BY <1>2, <1>6, <1>7 DEF TablesGiven
    <3> QED BY <1>7, <1>10, <3>1
  <2>2. CASE p = NULL
    <3>1. NULL \notin K BY <1>1 DEF NULL, Statements
    <3>2. s = root BY <1>3, <2>2, <3>1
    <3>3. block[s] = table BY <1>2, <3>2 DEF RootsFit
    <3> QED BY <1>10, <2>1, <2>2, <3>3 DEF ThenOwnsTable
  <2>3. CASE p # NULL
    <3>1. p \in K /\ \E field \in Edges : g.stat[p][field] = s BY <1>1, <1>4, <2>3, HangsOnParent
    <3>2. PICK field \in Edges : g.stat[p][field] = s BY <3>1
    <3>3. g.stat[p].statementType # "CF_FOR" BY <1>2, <1>4, <1>10, <2>3 DEF NoHeaderTable
    <3>4. g.stat[p].localSymbolTable = block[p] BY <1>2, <1>8, <2>3, <3>3 DEF TablesGiven
    <3>5. EdgesFit(g, own, block, p) BY <1>2, <3>1 DEF AllFit
    <3>6. s # NULL BY <1>4 DEF Statements, NULL
    <3>7. g.stat[s].statementType = "CF_IF"
      <4>1. ArmsFit(g.stat[s]) BY <1>2, <1>4 DEF Removable
      <4> QED BY <4>1 DEF ArmsFit
    <3>8. block[s] = block[p]
      <4>1. CASE field = "followingStatement" BY <3>2, <3>5, <3>6, <4>1 DEF EdgesFit
      <4>2. CASE field \in ArmLinks BY <3>2, <3>5, <3>6, <3>7, <4>2 DEF EdgesFit
      <4> QED BY <4>1, <4>2, FieldNames
    <3>9. g.stat[p].localSymbolTable = g.stat[t].localSymbolTable BY <2>1, <3>4, <3>8
    <3> QED BY <1>10, <2>3, <3>9 DEF ThenOwnsTable
  <2> QED BY <2>2, <2>3
<1> QED BY <1>9, <1>10

LEMMA FunctionCut ==
  ASSUME NEW g, NEW tables, NEW own, NEW block, NEW K, Remaining(g, tables, own, block, K),
         NEW f \in 1 .. Len(g.funcs)
  PROVE  CutOff(clean_stat(g, g.funcs[f].symbolTable)[g.funcs[f].rootStatement], g,
                Reach(g)[g.funcs[f].rootStatement], own)
<1> DEFINE root == g.funcs[f].rootStatement
           table == g.funcs[f].symbolTable
<1>1. /\ Countable(g) /\ Placed(g) /\ EdgesLeadOn(g) /\ EdgesHold(g, K) /\ K \subseteq Statements(g)
      /\ root # NULL => root \in K
  BY LeftIsCountable
<1>2. TablesGiven(g, tables, own, block) /\ AllFit(g, K, own, block) /\ RootsFit(g, own, block)
  BY DEF Remaining
<1>3. CASE root = NULL
  <2>1. clean_stat(g, table)[root] = << >> BY <1>1, <1>3, CleanUnfolds
  <2>2. Reach(g)[root] = {} BY <1>1, <1>3, ReachUnfolds
  <2>3. << >> \in Seq(Objects) OBVIOUS
  <2>4. CutOff(<< >>, g, {}, own) BY <2>3, CountOfNone DEF CutOff, One
  <2> QED BY <2>1, <2>2, <2>4
<1>4. CASE root # NULL
  <2>1. \A s \in Reach(g)[root] : ThenSeen(g, table, s) BY <1>4, LeftThenSeen
  <2>2. Cleaning(g, tables, own, block, K, root, table) BY <1>1, <1>2, <1>4, <2>1 DEF Cleaning
  <2>3. root \in own => g.stat[root].statementType = "CF_FOR" BY <1>2, <1>4 DEF RootsFit, InBlock
  <2> QED BY <2>2, <2>3, StatementCut
<1> QED BY <1>3, <1>4

(* An object that goes with a statement, and the table of a function. *)
GoesWith(g, x, y) ==
  \A f \in 1 .. Len(g.funcs) :
    /\ Cnt(g, g.funcs[f].symbolTable, g.funcs[f].rootStatement, x)
         = One(y \in Reach(g)[g.funcs[f].rootStatement])
    /\ <<"table", g.funcs[f].symbolTable>> # x

LEMMA FreedWithIts ==
  ASSUME NEW g, NEW tables, NEW own, NEW block, NEW K, Remaining(g, tables, own, block, K), NEW x, NEW y,
         GoesWith(g, x, y)
  PROVE  cf_clean_all(g) \in Seq(Objects) /\ Count(cf_clean_all(g), x) = One(y \in K)
<1> DEFINE here(f) == y \in Reach(g)[g.funcs[f].rootStatement]
           one == IF y \in K THEN CHOOSE f \in 1 .. Len(g.funcs) : here(f) ELSE 0
<1>1. /\ Countable(g) /\ Placed(g) /\ EdgesLeadOn(g) /\ Linked(g, K) /\ Len(g.funcs) \in Nat
      /\ \A f \in 1 .. Len(g.funcs) :
           g.funcs[f].rootStatement \in PointersIn(g) /\ g.funcs[f].symbolTable \in Nat
  BY LeftIsCountable
<1>2. y \in K <=> \E f \in 1 .. Len(g.funcs) : here(f) BY <1>1, KeptIsReached
<1>3. ASSUME NEW f \in 1 .. Len(g.funcs), NEW k \in 1 .. Len(g.funcs), here(f), here(k) PROVE f = k
  <2>1. f # k => Reach(g)[g.funcs[f].rootStatement] \intersect Reach(g)[g.funcs[k].rootStatement] = {}
    BY <1>1, RootsApart
  <2> QED BY <1>3, <2>1
<1>4. one \in 0 .. Len(g.funcs) /\ (one # 0 <=> y \in K)
      /\ \A f \in 1 .. Len(g.funcs) : here(f) <=> f = one
  <2>1. CASE y \notin K
    <3>1. \A f \in 1 .. Len(g.funcs) : f # 0 BY <1>1
    <3>2. one = 0 BY <2>1
    <3>3. \A f \in 1 .. Len(g.funcs) : ~ here(f) BY <1>2, <2>1
    <3> HIDE DEF one, here
    <3> QED BY <1>1, <2>1, <3>1, <3>2, <3>3
  <2>2. CASE y \in K
    <3>1. one \in 1 .. Len(g.funcs) /\ here(one) BY <1>2, <2>2
    <3> HIDE DEF one, here
    <3>2. one \in 0 .. Len(g.funcs) /\ one # 0 BY <1>1, <3>1
    <3> QED BY <1>3, <2>2, <3>1, <3>2
  <2> QED BY <2>1, <2>2
<1> HIDE DEF one
<1>5. ASSUME NEW f \in 1 .. Len(g.funcs)
      PROVE  FuncFreed(g, f) \in Seq(Objects) /\ Count(FuncFreed(g, f), x) = One(f = one)
  <2> DEFINE table == g.funcs[f].symbolTable
             root == g.funcs[f].rootStatement
             c == Cnt(g, table, root, x)
  <2>1. /\ FuncFreed(g, f) \in Seq(Objects)
        /\ Count(FuncFreed(g, f), x) = c + One(table # NULL /\ <<"table", table>> = x)
    BY <1>1, FunctionCount
  <2>2. One(table # NULL /\ <<"table", table>> = x) = 0 BY DEF One, GoesWith
  <2>3. c = One(f = one) BY <1>4 DEF GoesWith
  <2>4. c + 0 = c BY <2>3 DEF One
  <2> QED BY <2>1, <2>2, <2>3, <2>4
<1>6. cf_clean_all(g) \in Seq(Objects) /\ Count(cf_clean_all(g), x) = One(one # 0)
  <2>1. Len(g.funcs) \in Nat /\ one \in 0 .. Len(g.funcs) BY <1>1, <1>4
  <2>2. \A f \in 1 .. Len(g.funcs) :
          FuncFreed(g, f) \in Seq(Objects) /\ Count(FuncFreed(g, f), x) = One(f = one)
    BY <1>5
  <2> HIDE DEF here
  <2> QED BY <2>1, <2>2, FunctionsFree
<1> QED BY <1>4, <1>6

LEMMA FunctionTableFreed ==
  ASSUME NEW g, NEW tables, NEW own, NEW block, NEW K, Remaining(g, tables, own, block, K),
         NEW k \in 1 .. Len(g.funcs), g.funcs[k].symbolTable # NULL
  PROVE  Count(cf_clean_all(g), <<"table", g.funcs[k].symbolTable>>) = 1
<1> DEFINE x == <<"table", g.funcs[k].symbolTable>>
<1>1. /\ Countable(g) /\ Len(g.funcs) \in Nat
      /\ \A f \in 1 .. Len(g.funcs) :
           g.funcs[f].rootStatement \in PointersIn(g) /\ g.funcs[f].symbolTable \in Nat
  BY LeftIsCountable
<1>2. ASSUME NEW f \in 1 .. Len(g.funcs)
      PROVE  FuncFreed(g, f) \in Seq(Objects) /\ Count(FuncFreed(g, f), x) = One(f = k)
  <2> DEFINE table == g.funcs[f].symbolTable
             root == g.funcs[f].rootStatement
             c == Cnt(g, table, root, x)
  <2>1. /\ FuncFreed(g, f) \in Seq(Objects)
        /\ Count(FuncFreed(g, f), x) = c + One(table # NULL /\ <<"table", table>> = x)
    BY <1>1, FunctionCount
  <2>2. c = 0
    <3>1. CutOff(clean_stat(g, table)[root], g, Reach(g)[root], own) BY FunctionCut
    <3> QED BY <3>1 DEF CutOff, Cnt
  <2>3. table # NULL /\ <<"table", table>> = x <=> f = k
    <3>1. TablesGiven(g, tables, own, block) BY DEF Remaining
    <3>2. g.funcs[f].symbolTable = g.funcs[k].symbolTable => f = k BY <3>1 DEF TablesGiven
    <3> QED BY <3>2
  <2>4. One(table # NULL /\ <<"table", table>> = x) = One(f = k) BY <2>3 DEF One
  <2>5. 0 + One(f = k) = One(f = k) BY DEF One
  <2> QED BY <2>1, <2>2, <2>4, <2>5
<1> HIDE DEF x
<1>3. Count(cf_clean_all(g), x) = 1 BY <1>1, <1>2, OneFunctionFrees
<1> QED BY <1>3 DEF x

LEMMA CleansWhatIsLeft ==
  ASSUME NEW g, NEW tables, NEW own, NEW block, NEW K, Remaining(g, tables, own, block, K)
  PROVE  /\ \A s \in Statements(g) : cf_clean_all(g) \in Seq(Objects)
                                     /\ Count(cf_clean_all(g), <<"stat", s>>) = One(s \in K)
         /\ \A b \in own : cf_clean_all(g) \in Seq(Objects)
              /\ Count(cf_clean_all(g), <<"table", g.stat[b].localSymbolTable>>) = One(b \in K)
<1> DEFINE root(f) == g.funcs[f].rootStatement
           table(f) == g.funcs[f].symbolTable
<1>1. \A f \in 1 .. Len(g.funcs) : CutOff(clean_stat(g, table(f))[root(f)], g, Reach(g)[root(f)], own)
  BY FunctionCut
<1>2. ASSUME NEW s \in Statements(g)
      PROVE  cf_clean_all(g) \in Seq(Objects) /\ Count(cf_clean_all(g), <<"stat", s>>) = One(s \in K)
  <2> DEFINE x == <<"stat", s>>
  <2>1. \A f \in 1 .. Len(g.funcs) :
          /\ Cnt(g, table(f), root(f), x) = One(s \in Reach(g)[root(f)])
          /\ <<"table", table(f)>> # x
    BY <1>1 DEF CutOff, Cnt
  <2> HIDE DEF x
  <2>2. cf_clean_all(g) \in Seq(Objects) /\ Count(cf_clean_all(g), x) = One(s \in K)
    <3>1. GoesWith(g, x, s) BY <2>1 DEF GoesWith
    <3> QED BY <3>1, FreedWithIts
  <2> QED BY <2>2 DEF x
<1>3. ASSUME NEW b \in own
      PROVE  cf_clean_all(g) \in Seq(Objects)
             /\ Count(cf_clean_all(g), <<"table", g.stat[b].localSymbolTable>>) = One(b \in K)
  <2> DEFINE x == <<"table", g.stat[b].localSymbolTable>>
  <2>1. \A f \in 1 .. Len(g.funcs) : Cnt(g, table(f), root(f), x) = One(b \in Reach(g)[root(f)])
    BY <1>1 DEF CutOff, Cnt
  <2>2. \A f \in 1 .. Len(g.funcs) : <<"table", table(f)>> # x
    <3>1. TablesGiven(g, tables, own, block) BY DEF Remaining
    <3> QED BY <3>1 DEF TablesGiven
  <2> HIDE DEF x
  <2>3. cf_clean_all(g) \in Seq(Objects) /\ Count(cf_clean_all(g), x) = One(b \in K)
    <3>1. GoesWith(g, x, b) BY <2>1, <2>2 DEF GoesWith
    <3> QED BY <3>1, FreedWithIts
  <2> QED BY <2>3 DEF x
<1> QED BY <1>2, <1>3

(* What was freed before and what the clean-up frees make one. *)
LEMMA OneInAll ==
  ASSUME NEW p \in BOOLEAN
  PROVE  One(~ p) + One(p) = 1
BY DEF One

LEMMA AllFreedOnce ==
  ASSUME NEW g, NEW tables, NEW own, NEW block, NEW K, Remaining(g, tables, own, block, K),
         NEW q \in Seq(Objects), Tally(q, g, K, own), cf_clean_all(g) \in Seq(Objects)
  PROVE  /\ \A s \in Statements(g) : Count(q \o cf_clean_all(g), <<"stat", s>>) = 1
         /\ \A t \in 1 .. tables : Count(q \o cf_clean_all(g), <<"table", t>>) = 1
<1> DEFINE r == cf_clean_all(g)
<1>1. /\ \A s \in Statements(g) : Count(r, <<"stat", s>>) = One(s \in K)
      /\ \A b \in own : Count(r, <<"table", g.stat[b].localSymbolTable>>) = One(b \in K)
  BY CleansWhatIsLeft
<1>2. \A f \in 1 .. Len(g.funcs) : g.funcs[f].symbolTable # NULL =>
        Count(r, <<"table", g.funcs[f].symbolTable>>) = 1
  BY FunctionTableFreed
<1>3. r \in Seq(Objects) OBVIOUS
<1> HIDE DEF r
<1>4. \A x : Count(q \o r, x) = Count(q, x) + Count(r, x) BY <1>3, CountAdds
<1>5. ASSUME NEW s \in Statements(g) PROVE Count(q \o r, <<"stat", s>>) = 1
  <2>1. Count(q, <<"stat", s>>) = One(~ (s \in K)) BY DEF Tally
  <2>2. Count(q \o r, <<"stat", s>>) = One(~ (s \in K)) + One(s \in K) BY <1>1, <1>4, <2>1
  <2>3. (s \in K) \in BOOLEAN OBVIOUS
  <2> QED BY <2>2, <2>3, OneInAll
<1>6. ASSUME NEW t \in 1 .. tables PROVE Count(q \o r, <<"table", t>>) = 1
  <2>0. TablesGiven(g, tables, own, block) /\ tables \in Nat BY DEF Remaining, Removable
  <2>1. CASE \E b \in own : g.stat[b].localSymbolTable = t
    <3>1. PICK b \in own : g.stat[b].localSymbolTable = t BY <2>1
    <3>2. Count(q, <<"table", t>>) = One(~ (b \in K)) BY <3>1 DEF Tally
    <3>3. Count(r, <<"table", t>>) = One(b \in K) BY <1>1, <3>1
    <3>4. Count(q \o r, <<"table", t>>) = One(~ (b \in K)) + One(b \in K) BY <1>4, <3>2, <3>3
    <3>5. (b \in K) \in BOOLEAN OBVIOUS
    <3> QED BY <3>4, <3>5, OneInAll
  <2>2. CASE \E f \in 1 .. Len(g.funcs) : g.funcs[f].symbolTable = t
    <3>1. PICK f \in 1 .. Len(g.funcs) : g.funcs[f].symbolTable = t BY <2>2
    <3>2. t # NULL BY <2>0 DEF NULL
    <3>3. Count(q, <<"table", t>>) = 0 BY <3>1 DEF Tally
    <3>4. Count(r, <<"table", t>>) = 1 BY <1>2, <3>1, <3>2
    <3>5. Count(q \o r, <<"table", t>>) = 0 + 1 BY <1>4, <3>3, <3>4
    <3> QED BY <3>5
  <2> QED BY <2>0, <2>1, <2>2 DEF TablesGiven
<1> QED BY <1>5, <1>6 DEF r

-----------------------------------------------------------------------------
(* The end of main().                                                      *)

LEMMA KeptHasNoHeaderTable ==
  ASSUME AInv, KInv, ~ TakesHeaderTable
  PROVE  NoHeaderTable(graph, Kept)
<1> SUFFICES ASSUME NEW s \in Kept, graph.stat[s].thenStatement # NULL,
                    graph.stat[graph.stat[s].thenStatement].statementType = "CF_IF",
                    graph.stat[s].parentStatement # NULL,
                    graph.stat[graph.stat[s].parentStatement].statementType = "CF_FOR"
             PROVE  FALSE
  BY DEF NoHeaderTable
<1>1. Kept = Reachable BY KeptIsReachable
<1>2. s \in Statements(graph) BY DEF Kept
<1>3. ArmsFit(graph.stat[s]) BY <1>2 DEF AInv, Removable
<1>4. s \in Conditional BY <1>2, <1>3 DEF ArmsFit, Conditional
<1> QED BY <1>1, <1>4 DEF TakesHeaderTable

LEMMA CleanAllIsSeq ==
  ASSUME AInv
  PROVE  /\ cf_clean_all(graph) \in Seq(Objects) /\ freed \in Seq(Objects)
<1> DEFINE n == Len(graph.stat)
           r == cf_clean_all(graph)
<1>0. Removable(graph, allocated) BY DEF AInv
<1>1. r \in Seq(ObjectsOf(n, allocated))
  <2>1. graph.funcs \in Seq(FunctionRecords(FuncNames)) BY <1>0 DEF Removable, Graphs
  <2>2. Len(graph.funcs) \in Nat BY <2>1
  <2>3. EdgesLeadOn(graph) /\ TablesThere(graph, allocated) /\ RootsThere(graph, allocated)
    BY <1>0 DEF Removable
  <2>4. \A f \in 1 .. Len(graph.funcs) :
          /\ graph.funcs[f].rootStatement \in {NULL} \union Statements(graph)
          /\ graph.funcs[f].symbolTable # NULL => graph.funcs[f].symbolTable \in 1 .. allocated
    BY <2>3 DEF RootsThere, PointersIn
  <2> QED BY <2>2, <2>3, <2>4, AllIsInTheGraph
<1>2. n \in Nat /\ allocated \in Nat BY <1>0 DEF Removable, EdgesLeadOn
<1>3. freed \in Seq(ObjectsOf(n, allocated)) BY DEF AInv
<1> HIDE DEF n, r
<1>4. r \in Seq(Objects) /\ freed \in Seq(Objects) BY <1>1, <1>2, <1>3, FreedIsCountable
<1> QED BY <1>4 DEF r

(* All objects once. *)
OnceEach(g, tables, q) ==
  /\ \A s \in Statements(g) : Count(q, <<"stat", s>>) = 1
  /\ \A t \in 1 .. tables : Count(q, <<"table", t>>) = 1

LEMMA OnceEachIs ==
  ASSUME NEW g, NEW tables, NEW q, OnceEach(g, tables, q)
  PROVE  \A x \in ({"stat"} \X Statements(g)) \union ({"table"} \X (1 .. tables)) : Count(q, x) = 1
<1> SUFFICES ASSUME NEW x \in ({"stat"} \X Statements(g)) \union ({"table"} \X (1 .. tables))
             PROVE  Count(q, x) = 1
  OBVIOUS
<1>1. CASE x \in {"stat"} \X Statements(g)
  <2>1. PICK s \in Statements(g) : x = <<"stat", s>> BY <1>1
  <2> QED BY <2>1 DEF OnceEach
<1>2. CASE x \in {"table"} \X (1 .. tables)
  <2>1. PICK t \in 1 .. tables : x = <<"table", t>> BY <1>2
  <2> QED BY <2>1 DEF OnceEach
<1> QED BY <1>1, <1>2

LEMMA CleanedAfterRemoval ==
  ASSUME AInv, KInv, FInv, ~ TakesHeaderTable
  PROVE  OnceEach(graph, allocated, freed \o cf_clean_all(graph))
<1>1. PICK own, block : Balanced(own, block) BY DEF FInv
<1>2. Remaining(graph, allocated, own, block, Kept)
  BY <1>1, KeptHasNoHeaderTable DEF Remaining, AInv, KInv, Balanced
<1>3. Tally(freed, graph, Kept, own) BY <1>1 DEF Balanced
<1>4. cf_clean_all(graph) \in Seq(Objects) /\ freed \in Seq(Objects) BY CleanAllIsSeq
<1> QED BY <1>2, <1>3, <1>4, AllFreedOnce DEF OnceEach

(* Without the optimiser the clean-up is that of the parser's graph. *)
LEMMA CleanedAfterParse ==
  ASSUME AInv, IInv, TInv, finished, freed = << >>
  PROVE  OnceEach(graph, allocated, freed \o cf_clean_all(graph))
<1> DEFINE r == cf_clean_all(graph)
<1>1. \A x \in {<<"stat", s>> : s \in Statements(graph)}
                 \union {<<"table", t>> : t \in 1 .. allocated} : Count(r, x) = 1
  BY InvIsCleaned DEF CleanedOnce
<1>2. r \in Seq(Objects) BY CleanAllIsSeq
<1> HIDE DEF r
<1>3. << >> \o r = r BY <1>2
<1>4. OnceEach(graph, allocated, r) BY <1>1 DEF OnceEach
<1> QED BY <1>3, <1>4 DEF r

(* What is known in each phase. *)
Phases ==
  /\ phase = "parse" => TInv /\ PInv
  /\ phase = "remove" => promised # << >>
  /\ phase = "clean" /\ promised = << >> => IInv /\ TInv /\ finished /\ freed = << >>

LEMMA PromiseIsMade ==
  ASSUME NEW a, NEW b, NEW c
  PROVE  [live |-> a, elseIf |-> b, roots |-> c] # << >>
<1> DEFINE r == [live |-> a, elseIf |-> b, roots |-> c]
<1>1. "live" \in DOMAIN r OBVIOUS
<1>2. DOMAIN << >> = {} OBVIOUS
<1> HIDE DEF r
<1>3. r # << >> BY <1>1, <1>2
<1> QED BY <1>3 DEF r

LEMMA StepKeepsPhases ==
  ASSUME OptInv, OptInv', Phases, [OptNext]_<<vars, optVars>>
  PROVE  Phases'
<1>1. CASE Parse
  <2>1. phase = "parse" /\ phase' = "parse" /\ [Next]_vars BY <1>1 DEF Parse, optVars
  <2>2. IInv /\ IInv' /\ TInv /\ PInv BY <2>1 DEF OptInv, Phases
  <2>3. TInv' /\ PInv' BY <2>1, <2>2, NextHomes, NextGiven
  <2> QED BY <2>1, <2>3 DEF Phases
<1>2. CASE FoldConditions
  <2>1. phase' \in {"remove", "crashed"} BY <1>2 DEF FoldConditions
  <2>2. promised' # << >> BY <1>2, PromiseIsMade DEF FoldConditions
  <2> QED BY <2>1, <2>2 DEF Phases
<1>3. CASE SkipOptimiser
  <2>1. /\ phase = "parse" /\ finished /\ phase' = "clean" /\ freed' = freed
        /\ graph' = graph /\ allocated' = allocated /\ finished' = finished
    BY <1>3 DEF SkipOptimiser, vars
  <2>2. IInv /\ TInv /\ freed = << >> BY <2>1 DEF OptInv, Phases
  <2>3. IInv'
    <3>1. [Next]_vars BY <1>3 DEF SkipOptimiser
    <3> QED BY <2>2, <3>1, NextOK DEF StepOK
  <2>4. TInv' BY <2>1, <2>2 DEF TInv
  <2> QED BY <2>1, <2>2, <2>3, <2>4 DEF Phases
<1>4. ASSUME phase = "remove", phase' = "remove", promised' = promised PROVE Phases'
  BY <1>4 DEF Phases
<1>5. CASE VisitFunction BY <1>4, <1>5 DEF VisitFunction, Removing
<1>6. CASE RemoveStatement BY <1>4, <1>6 DEF RemoveStatement, Visiting, Removing
<1>7. CASE RemoveThen BY <1>4, <1>7 DEF RemoveThen, Visiting, Removing
<1>8. CASE RemoveElse BY <1>4, <1>8 DEF RemoveElse, Visiting, Removing
<1>9. CASE VisitBranches BY <1>4, <1>9 DEF VisitBranches, Visiting, Removing
<1>10. CASE VisitBody BY <1>4, <1>10 DEF VisitBody, Visiting, Removing
<1>11. CASE VisitOther BY <1>4, <1>11 DEF VisitOther, Removing
<1>12. CASE Follow BY <1>4, <1>12 DEF Follow, Removing
<1>13. CASE EndOfRemoval
  <2>1. phase = "remove" /\ phase' = "clean" /\ promised' = promised BY <1>13 DEF EndOfRemoval
  <2>2. promised' # << >> BY <2>1 DEF Phases
  <2> QED BY <2>1, <2>2 DEF Phases
<1>14. CASE CleanAll BY <1>14 DEF CleanAll, Phases
<1>15. CASE UNCHANGED <<vars, optVars>>
  <2>1. /\ phase' = phase /\ promised' = promised /\ freed' = freed /\ UNCHANGED vars
    BY <1>15 DEF optVars
  <2>2. graph' = graph /\ allocated' = allocated /\ finished' = finished BY <2>1 DEF vars
  <2>3. IInv => IInv' BY <2>1, NextOK DEF StepOK
  <2>4. TInv => TInv' BY <2>2 DEF TInv
  <2>5. PInv => PInv'
    <3>1. semantic_enabled' = semantic_enabled /\ calls' = calls BY <2>1 DEF vars, semantic_enabled
    <3> QED BY <2>2, <3>1 DEF PInv
  <2> QED BY <2>1, <2>2, <2>3, <2>4, <2>5 DEF Phases
<1> QED BY <1>1, <1>2, <1>3, <1>5, <1>6, <1>7, <1>8, <1>9, <1>10, <1>11, <1>12, <1>13, <1>14,
           <1>15 DEF OptNext

LEMMA StepFreesOnce ==
  ASSUME OptInv, Watching => KInv, Watching => FInv, Phases, FreedOnceUnlessAfterFor,
         [OptNext]_<<vars, optVars>>
  PROVE  FreedOnceUnlessAfterFor'
<1> SUFFICES ASSUME phase' = "exit", promised' = << >> \/ ~ promised'.elseIf, ~ TakesHeaderTable'
             PROVE  FreesEachOnce'
  BY DEF FreedOnceUnlessAfterFor
<1>1. ASSUME graph' = graph
      PROVE  ~ TakesHeaderTable
  <2>1. Reachable' = Reachable /\ Conditional' = Conditional
    BY <1>1 DEF Reachable, Conditional, Pointers
  <2> QED BY <1>1, <2>1 DEF TakesHeaderTable
<1>2. CASE CleanAll
  <2>1. /\ phase = "clean" /\ freed' = freed \o cf_clean_all(graph) /\ promised' = promised
        /\ graph' = graph /\ allocated' = allocated
    BY <1>2 DEF CleanAll, vars
  <2>2. AInv BY <2>1 DEF OptInv
  <2>3. OnceEach(graph, allocated, freed \o cf_clean_all(graph))
    <3>1. CASE promised = << >> BY <2>1, <2>2, <3>1, CleanedAfterParse DEF Phases
    <3>2. CASE promised # << >>
      <4>1. Watching BY <2>1, <3>2 DEF Watching
      <4> QED BY <1>1, <2>1, <2>2, <4>1, CleanedAfterRemoval
    <3> QED BY <3>1, <3>2
  <2> DEFINE h == graph'
             n == allocated'
             q == freed'
             q2 == freed \o cf_clean_all(graph)
  <2>4. q = q2 /\ h = graph /\ n = allocated /\ OnceEach(graph, allocated, q2) BY <2>1, <2>3
  <2> HIDE DEF h, n, q, q2
  <2>5. OnceEach(h, n, q) BY <2>4
  <2>6. \A x \in ({"stat"} \X Statements(h)) \union ({"table"} \X (1 .. n)) : Count(q, x) = 1
    BY <2>5, OnceEachIs
  <2> QED BY <2>6 DEF FreesEachOnce, h, n, q
<1>3. CASE UNCHANGED <<vars, optVars>>
  <2>1. /\ phase' = phase /\ promised' = promised /\ freed' = freed
        /\ graph' = graph /\ allocated' = allocated
    BY <1>3 DEF vars, optVars
  <2>2. FreesEachOnce BY <1>1, <2>1 DEF FreedOnceUnlessAfterFor
  <2> QED BY <2>1, <2>2 DEF FreesEachOnce
<1>4. CASE Parse BY <1>4 DEF Parse, optVars
<1>5. CASE FoldConditions BY <1>5 DEF FoldConditions
<1>6. CASE SkipOptimiser BY <1>6 DEF SkipOptimiser
<1>7. CASE VisitFunction BY <1>7 DEF VisitFunction, Removing
<1>8. CASE RemoveStatement BY <1>8 DEF RemoveStatement, Visiting, Removing
<1>9. CASE RemoveThen BY <1>9 DEF RemoveThen, Visiting, Removing
<1>10. CASE RemoveElse BY <1>10 DEF RemoveElse, Visiting, Removing
<1>11. CASE VisitBranches BY <1>11 DEF VisitBranches, Visiting, Removing
<1>12. CASE VisitBody BY <1>12 DEF VisitBody, Visiting, Removing
<1>13. CASE VisitOther BY <1>13 DEF VisitOther, Removing
<1>14. CASE Follow BY <1>14 DEF Follow, Removing
<1>15. CASE EndOfRemoval BY <1>15 DEF EndOfRemoval
<1> QED BY <1>2, <1>3, <1>4, <1>5, <1>6, <1>7, <1>8, <1>9, <1>10, <1>11, <1>12, <1>13, <1>14,
           <1>15 DEF OptNext

(* In a program without a dead `else if' and in which no IF that took its  *)
(* then branch from an `else if' follows a FOR, remove_function_dead_code, *)
(* with the tables that it frees of the branches it cuts off, and the      *)
(* final cf_clean_all together free every statement and every local table  *)
(* that the parser made exactly once; so does cf_clean_all alone when an   *)
(* error of the parser makes main() skip the optimiser.                    *)
THEOREM RemovedOrLeftIsFreedOnce == OptSpec => []FreedOnceUnlessAfterFor
<1> DEFINE Inv == /\ OptInv /\ (Watching => KInv) /\ (Watching => FInv) /\ Phases
                  /\ FreedOnceUnlessAfterFor
<1>1. OptInit => Inv
  <2>1. OptInit => OptInv BY OptInitHolds
  <2>2. OptInit => ~ Watching BY DEF OptInit, Watching
  <2>3. OptInit => Phases BY InitHomes, InitGiven DEF OptInit, Phases
  <2>4. OptInit => FreedOnceUnlessAfterFor BY DEF OptInit, FreedOnceUnlessAfterFor
  <2> QED BY <2>1, <2>2, <2>3, <2>4
<1>2. Inv /\ [OptNext]_<<vars, optVars>> => Inv'
  <2> SUFFICES ASSUME Inv, [OptNext]_<<vars, optVars>> PROVE Inv' OBVIOUS
  <2>1. OptInv' BY OptNextHolds
  <2>2. Watching' => KInv' BY <2>1, StepKeepsKept
  <2>3. Phases' BY <2>1, StepKeepsPhases
  <2>4. phase = "parse" => PInv BY DEF Phases
  <2>5. Watching' => FInv' BY <2>1, <2>2, <2>4, StepKeepsFreed
  <2>6. FreedOnceUnlessAfterFor' BY StepFreesOnce
  <2> QED BY <2>1, <2>2, <2>3, <2>5, <2>6
<1>3. Inv => FreedOnceUnlessAfterFor OBVIOUS
<1> QED BY <1>1, <1>2, <1>3, PTL DEF OptSpec
================================================================================
