--------------------------- MODULE CfgBuilder_proofs ---------------------------
(***************************************************************************)
(* The graph that the parser builds is well formed after every step, the   *)
(* builder never meets an error while the program is correct, and the      *)
(* stack of symbol tables agrees with the tables of the graph: a name that *)
(* parser.c declares in the top table of symtable_stack is found from the  *)
(* statement that is being read.                                           *)
(***************************************************************************)
EXTENDS CfgBuilder, Integers, FiniteSets, FiniteSetTheorems, WellFoundedInduction, TLAPS

-----------------------------------------------------------------------------
(* What the operations of ControlFlow do to a graph, and that the walks up *)
(* the parent pointers are what their recursive definitions say.           *)

LEMMA LeastNumber ==
  ASSUME NEW T \in SUBSET Nat, T # {}
  PROVE  \E x \in T : \A y \in T : x <= y
<1>1. PICK x \in T : \A y \in T : ~ (<<y, x>> \in OpToRel(<, Nat))
  BY NatLessThanWellFounded, WFMin
<1>2. \A y \in T : ~ (y < x)
  BY <1>1 DEF OpToRel
<1> QED BY <1>2

(* A set that holds s whenever it holds all later numbers holds all.       *)
LEMMA FromTheEnd ==
  ASSUME NEW N \in Nat, NEW T,
         \A s \in 1 .. N : (\A t \in 1 .. N : s < t => t \in T) => s \in T
  PROVE  \A s \in 1 .. N : s \in T
<1> DEFINE Out == {k \in 0 .. N : N - k \in 1 .. N /\ N - k \notin T}
<1> SUFFICES ASSUME NEW x \in 1 .. N, x \notin T PROVE FALSE OBVIOUS
<1>1. N - x \in Out
  <2>1. N - x \in 0 .. N /\ N - (N - x) = x OBVIOUS
  <2> QED BY <2>1
<1>2. PICK k \in Out : \A m \in Out : k <= m
  <2>1. Out \in SUBSET Nat /\ Out # {} BY <1>1
  <2> HIDE DEF Out
  <2> QED BY <2>1, LeastNumber
<1>3. ASSUME NEW t \in 1 .. N, N - k < t PROVE t \in T
  <2>1. N - t \in 0 .. N /\ N - (N - t) = t /\ N - t < k BY <1>2, <1>3
  <2> QED BY <1>2, <2>1
<1> QED BY <1>2, <1>3

-----------------------------------------------------------------------------
(* A walk towards 0 along numbers that only get smaller is defined.        *)
Walk(N, Stop, parent, up) ==
  up = [s \in {0} \union 1 .. N |-> IF s = 0 \/ s \in Stop THEN s ELSE up[parent[s]]]

LEMMA WalkExists ==
  ASSUME NEW N \in Nat, NEW Stop, NEW parent \in [1 .. N -> Nat],
         \A s \in 1 .. N : parent[s] < s
  PROVE  \E up : Walk(N, Stop, parent, up)
<1> DEFINE Missing == {n \in 0 .. N : ~ \E up : Walk(n, Stop, parent, up)}
<1>1. SUFFICES Missing = {}
  <2>1. N \in 0 .. N OBVIOUS
  <2> QED BY <1>1, <2>1
<1>2. SUFFICES ASSUME Missing # {} PROVE FALSE OBVIOUS
<1>3. PICK n \in Missing : \A m \in Missing : n <= m
  <2>1. Missing \in SUBSET Nat OBVIOUS
  <2> QED BY <1>2, <2>1, LeastNumber
<1>4. CASE n = 0
  <2> DEFINE zero == [s \in {0} \union 1 .. 0 |-> 0]
  <2>1. Walk(0, Stop, parent, zero) BY DEF Walk
  <2> QED BY <1>3, <1>4, <2>1
<1>5. CASE n # 0
  <2>1. n \in 1 .. N /\ n - 1 \in 0 .. N /\ n - 1 \notin Missing BY <1>3, <1>5
  <2>2. PICK up : Walk(n - 1, Stop, parent, up) BY <2>1
  <2> DEFINE last == IF n \in Stop THEN n ELSE up[parent[n]]
             longer == [s \in {0} \union 1 .. n |-> IF s = n THEN last ELSE up[s]]
  <2>3. \A s \in 1 .. n : parent[s] \in {0} \union 1 .. n - 1 /\ (s # n => parent[s] # n)
    BY <2>1
  <2>4. \A s \in {0} \union 1 .. n - 1 :
          up[s] = IF s = 0 \/ s \in Stop THEN s ELSE up[parent[s]]
    BY <2>2 DEF Walk
  <2>5. \A s \in {0} \union 1 .. n :
          longer[s] = IF s = 0 \/ s \in Stop THEN s ELSE longer[parent[s]]
    <3> SUFFICES ASSUME NEW s \in {0} \union 1 .. n
                 PROVE  longer[s] = IF s = 0 \/ s \in Stop THEN s ELSE longer[parent[s]]
      OBVIOUS
    <3>1. CASE s = 0 BY <2>1, <2>4, <3>1
    <3>2. CASE s = n
      <4>1. n # 0 /\ parent[n] \in {0} \union 1 .. n - 1 BY <2>1, <2>3
      <4>2. longer[parent[n]] = up[parent[n]] BY <2>1, <4>1
      <4> QED BY <2>1, <3>2, <4>1, <4>2
    <3>3. CASE s # 0 /\ s # n
      <4>1. s \in {0} \union 1 .. n - 1 /\ s \in 1 .. n BY <2>1, <3>3
      <4>2. longer[s] = up[s] BY <3>3
      <4>3. longer[parent[s]] = up[parent[s]] BY <2>1, <2>3, <3>3, <4>1
      <4> QED BY <2>4, <4>1, <4>2, <4>3
    <3> QED BY <3>1, <3>2, <3>3
  <2>6. Walk(n, Stop, parent, longer)
    <3> HIDE DEF last
    <3>1. longer = [s \in {0} \union 1 .. n |-> longer[s]] OBVIOUS
    <3> HIDE DEF longer
    <3> QED BY <2>5, <3>1 DEF Walk
  <2> QED BY <1>3, <2>6
<1> QED BY <1>4, <1>5

(* Two walks with the same stops and parents up to m agree up to m.        *)
WalksWithSame(m, N, Stop, parent, up, N2, Stop2, parent2, up2) ==
  /\ m \in Nat /\ N \in Nat /\ N2 \in Nat /\ m <= N /\ m <= N2
  /\ Walk(N, Stop, parent, up)
  /\ Walk(N2, Stop2, parent2, up2)
  /\ \A s \in 1 .. m : /\ parent[s] \in Nat /\ parent[s] < s /\ parent2[s] = parent[s]
                       /\ s \in Stop <=> s \in Stop2

LEMMA WalksAgree ==
  ASSUME NEW m, NEW N, NEW Stop, NEW parent, NEW up, NEW N2, NEW Stop2, NEW parent2, NEW up2,
         WalksWithSame(m, N, Stop, parent, up, N2, Stop2, parent2, up2)
  PROVE  \A s \in 0 .. m : up2[s] = up[s]
<1> USE DEF WalksWithSame
<1> DEFINE Differ == {s \in 0 .. m : up2[s] # up[s]}
<1>1. SUFFICES ASSUME Differ # {} PROVE FALSE OBVIOUS
<1>2. PICK s \in Differ : \A t \in Differ : s <= t
  <2>1. Differ \in SUBSET Nat OBVIOUS
  <2> QED BY <1>1, <2>1, LeastNumber
<1>3. /\ up[s] = IF s = 0 \/ s \in Stop THEN s ELSE up[parent[s]]
      /\ up2[s] = IF s = 0 \/ s \in Stop2 THEN s ELSE up2[parent2[s]]
  <2>1. s \in {0} \union 1 .. N /\ s \in {0} \union 1 .. N2 OBVIOUS
  <2> QED BY <2>1 DEF Walk
<1>4. s # 0 BY <1>3
<1>5. s \in 1 .. m BY <1>4
<1>6. parent[s] \in 0 .. m /\ parent[s] < s BY <1>5
<1>7. parent[s] \notin Differ BY <1>2, <1>6
<1> QED BY <1>3, <1>4, <1>5, <1>6, <1>7

(* A walk ends at 0 or at a stop. *)
LEMMA WalkEnds ==
  ASSUME NEW N \in Nat, NEW Stop, NEW parent, NEW up, Walk(N, Stop, parent, up),
         \A s \in 1 .. N : parent[s] \in Nat /\ parent[s] < s
  PROVE  \A s \in 0 .. N : up[s] \in 0 .. N
<1> DEFINE Astray == {s \in 0 .. N : up[s] \notin 0 .. N}
<1>1. SUFFICES ASSUME Astray # {} PROVE FALSE OBVIOUS
<1>2. PICK s \in Astray : \A t \in Astray : s <= t
  <2>1. Astray \in SUBSET Nat OBVIOUS
  <2> QED BY <1>1, <2>1, LeastNumber
<1>3. up[s] = IF s = 0 \/ s \in Stop THEN s ELSE up[parent[s]]
  <2>1. s \in {0} \union 1 .. N OBVIOUS
  <2> QED BY <2>1 DEF Walk
<1>4. s # 0 BY <1>3
<1>5. s \in 1 .. N BY <1>4
<1>6. parent[s] \in 0 .. N /\ parent[s] < s BY <1>5
<1>7. parent[s] \notin Astray BY <1>2, <1>6
<1> QED BY <1>3, <1>4, <1>6, <1>7

-----------------------------------------------------------------------------
StatementRecords ==
  [statementType : StatementTypes, parentStatement : Nat, followingStatement : Nat,
   thenStatement : Nat, elseStatement : Nat, bodyStatement : Nat,
   parentBranchStatement : Nat, localSymbolTable : Nat, popCount : Nat, ast : BOOLEAN]

ParentsBefore(g) == \A s \in Statements(g) : g.stat[s].parentStatement < s

(* All that the walks need to know of a graph. *)
Climbable(g) ==
  /\ g.stat \in Seq(StatementRecords)
  /\ ParentsBefore(g)

ParentOf(g) == [s \in Statements(g) |-> g.stat[s].parentStatement]
PoppableIn(g) == {s \in Statements(g) : MayPopInto(g.stat[s])}
NotForIn(g) == {s \in Statements(g) : g.stat[s].statementType # "CF_FOR"}

LEMMA ClimbableParents ==
  ASSUME NEW g, Climbable(g)
  PROVE  /\ Len(g.stat) \in Nat
         /\ ParentOf(g) \in [1 .. Len(g.stat) -> Nat]
         /\ \A s \in 1 .. Len(g.stat) : /\ ParentOf(g)[s] = g.stat[s].parentStatement
                                        /\ ParentOf(g)[s] < s /\ ParentOf(g)[s] \in Nat
<1>1. g.stat \in Seq(StatementRecords) /\ Len(g.stat) \in Nat BY DEF Climbable
<1>2. ASSUME NEW s \in 1 .. Len(g.stat)
      PROVE  g.stat[s].parentStatement \in Nat /\ g.stat[s].parentStatement < s
  <2>1. g.stat[s] \in StatementRecords BY <1>1
  <2>2. g.stat[s].parentStatement \in Nat BY <2>1 DEF StatementRecords
  <2> QED BY <2>2 DEF Climbable, ParentsBefore, Statements
<1> QED BY <1>1, <1>2 DEF ParentOf, Statements

LEMMA PoppableWalk ==
  ASSUME NEW g, Climbable(g)
  PROVE  Walk(Len(g.stat), PoppableIn(g), ParentOf(g), PoppableAncestor(g))
<1> DEFINE body(up) == [s \in {NULL} \union Statements(g) |->
                          IF s = NULL \/ MayPopInto(g.stat[s]) THEN s
                          ELSE up[g.stat[s].parentStatement]]
<1>1. PICK up : Walk(Len(g.stat), PoppableIn(g), ParentOf(g), up)
  BY ClimbableParents, WalkExists
<1>2. ASSUME NEW f
      PROVE  body(f) = [s \in {0} \union 1 .. Len(g.stat) |->
                          IF s = 0 \/ s \in PoppableIn(g) THEN s ELSE f[ParentOf(g)[s]]]
  BY ClimbableParents DEF NULL, Statements, PoppableIn, ParentOf
<1>3. up = body(up) BY <1>1, <1>2 DEF Walk
<1>4. PoppableAncestor(g) = CHOOSE f : f = body(f) BY DEF PoppableAncestor
<1>5. PoppableAncestor(g) = body(PoppableAncestor(g)) BY <1>3, <1>4
<1> QED BY <1>2, <1>5 DEF Walk

LEMMA NonForWalk ==
  ASSUME NEW g, Climbable(g)
  PROVE  Walk(Len(g.stat), NotForIn(g), ParentOf(g), NonForAncestor(g))
<1> DEFINE body(up) == [s \in {NULL} \union Statements(g) |->
                          IF s = NULL \/ g.stat[s].statementType # "CF_FOR" THEN s
                          ELSE up[g.stat[s].parentStatement]]
<1>1. PICK up : Walk(Len(g.stat), NotForIn(g), ParentOf(g), up)
  BY ClimbableParents, WalkExists
<1>2. ASSUME NEW f
      PROVE  body(f) = [s \in {0} \union 1 .. Len(g.stat) |->
                          IF s = 0 \/ s \in NotForIn(g) THEN s ELSE f[ParentOf(g)[s]]]
  BY ClimbableParents DEF NULL, Statements, NotForIn, ParentOf
<1>3. up = body(up) BY <1>1, <1>2 DEF Walk
<1>4. NonForAncestor(g) = CHOOSE f : f = body(f) BY DEF NonForAncestor
<1>5. NonForAncestor(g) = body(NonForAncestor(g)) BY <1>3, <1>4
<1> QED BY <1>2, <1>5 DEF Walk

(* The statement that an arm returns to: the closest one that may be       *)
(* popped into, and it depends on nothing but the statements above.        *)
LEMMA PoppableUnfolds ==
  ASSUME NEW g, Climbable(g)
  PROVE  /\ PoppableAncestor(g)[NULL] = NULL
         /\ \A s \in Statements(g) :
              PoppableAncestor(g)[s] = IF MayPopInto(g.stat[s]) THEN s
                                       ELSE PoppableAncestor(g)[g.stat[s].parentStatement]
         /\ \A s \in {NULL} \union Statements(g) :
              PoppableAncestor(g)[s] \in {NULL} \union Statements(g)
<1> DEFINE up == PoppableAncestor(g)
<1>1. Walk(Len(g.stat), PoppableIn(g), ParentOf(g), up) BY PoppableWalk
<1>2. Len(g.stat) \in Nat /\ \A s \in 1 .. Len(g.stat) :
        /\ ParentOf(g)[s] = g.stat[s].parentStatement
        /\ ParentOf(g)[s] < s /\ ParentOf(g)[s] \in Nat
  BY ClimbableParents
<1>3. \A s \in 0 .. Len(g.stat) : up[s] \in 0 .. Len(g.stat)
  BY <1>1, <1>2, WalkEnds
<1> HIDE DEF up
<1>4. \A s \in {0} \union 1 .. Len(g.stat) :
        up[s] = IF s = 0 \/ s \in PoppableIn(g) THEN s ELSE up[ParentOf(g)[s]]
  BY <1>1 DEF Walk
<1>5. up[0] = 0 BY <1>4
<1>6. ASSUME NEW s \in 1 .. Len(g.stat)
      PROVE  up[s] = IF MayPopInto(g.stat[s]) THEN s ELSE up[g.stat[s].parentStatement]
  <2>1. s # 0 BY <1>2
  <2>2. s \in PoppableIn(g) <=> MayPopInto(g.stat[s]) BY DEF PoppableIn, Statements
  <2>3. ParentOf(g)[s] = g.stat[s].parentStatement BY <1>2
  <2> QED BY <1>4, <2>1, <2>2, <2>3
<1>7. \A s \in {0} \union 1 .. Len(g.stat) : up[s] \in {0} \union 1 .. Len(g.stat)
  BY <1>2, <1>3
<1> QED BY <1>5, <1>6, <1>7 DEF up, NULL, Statements

LEMMA PoppableAgrees ==
  ASSUME NEW g, Climbable(g), NEW h, Climbable(h), NEW m \in Nat, m <= Len(g.stat), m <= Len(h.stat),
         \A s \in 1 .. m : /\ h.stat[s].parentStatement = g.stat[s].parentStatement
                           /\ MayPopInto(h.stat[s]) <=> MayPopInto(g.stat[s])
  PROVE  \A s \in 0 .. m : PoppableAncestor(h)[s] = PoppableAncestor(g)[s]
<1>1. Walk(Len(g.stat), PoppableIn(g), ParentOf(g), PoppableAncestor(g))
        /\ Walk(Len(h.stat), PoppableIn(h), ParentOf(h), PoppableAncestor(h))
  BY PoppableWalk
<1>2. /\ Len(g.stat) \in Nat /\ Len(h.stat) \in Nat
      /\ \A s \in 1 .. Len(g.stat) : /\ ParentOf(g)[s] = g.stat[s].parentStatement
                                     /\ ParentOf(g)[s] < s /\ ParentOf(g)[s] \in Nat
      /\ \A s \in 1 .. Len(h.stat) : ParentOf(h)[s] = h.stat[s].parentStatement
  BY ClimbableParents
<1>3. ASSUME NEW s \in 1 .. m
      PROVE  /\ ParentOf(g)[s] \in Nat /\ ParentOf(g)[s] < s /\ ParentOf(h)[s] = ParentOf(g)[s]
             /\ s \in PoppableIn(g) <=> s \in PoppableIn(h)
  <2>1. s \in 1 .. Len(g.stat) /\ s \in 1 .. Len(h.stat) BY <1>2
  <2> QED BY <1>2, <2>1 DEF PoppableIn, Statements
<1> DEFINE N == Len(g.stat)
           N2 == Len(h.stat)
           up == PoppableAncestor(g)
           up2 == PoppableAncestor(h)
           Stop == PoppableIn(g)
           Stop2 == PoppableIn(h)
           parent == ParentOf(g)
           parent2 == ParentOf(h)
<1>4. WalksWithSame(m, N, Stop, parent, up, N2, Stop2, parent2, up2)
  BY <1>1, <1>2, <1>3 DEF WalksWithSame
<1> HIDE DEF N, N2, up, up2, Stop, Stop2, parent, parent2
<1>5. \A s \in 0 .. m : up2[s] = up[s] BY <1>4, WalksAgree
<1> QED BY <1>5 DEF up, up2

LEMMA NonForIsThere ==
  ASSUME NEW g, Climbable(g), NEW s \in {NULL} \union Statements(g)
  PROVE  NonForAncestor(g)[s] \in {NULL} \union Statements(g)
<1>1. Len(g.stat) \in Nat
        /\ \A t \in 1 .. Len(g.stat) : ParentOf(g)[t] < t /\ ParentOf(g)[t] \in Nat
  BY ClimbableParents
<1>2. Walk(Len(g.stat), NotForIn(g), ParentOf(g), NonForAncestor(g)) BY NonForWalk
<1>3. \A t \in 0 .. Len(g.stat) : NonForAncestor(g)[t] \in 0 .. Len(g.stat)
  BY <1>1, <1>2, WalkEnds
<1> QED BY <1>1, <1>3 DEF NULL, Statements

-----------------------------------------------------------------------------
FunctionRecords(names) == [name : names, rootStatement : Nat, symbolTable : Nat]

Graphs(names) ==
  [stat : Seq(StatementRecords), funcs : Seq(FunctionRecords(names)), activeStat : Nat,
   activeFunc : Nat, mainFunc : Nat, cf_error : CFErrors]

(* A graph whose cursors are NULL or at something. *)
GraphOK(g, names) ==
  /\ g \in Graphs(names)
  /\ ParentsBefore(g)
  /\ g.activeStat \in {NULL} \union Statements(g)
  /\ g.activeFunc \in {NULL} \union 1 .. Len(g.funcs)

(* A statement just made, the n-th. *)
IsNew(st, type, parent, n) ==
  /\ st \in StatementRecords
  /\ st.statementType = type
  /\ st.parentStatement = parent
  /\ st.parentBranchStatement <= n
  /\ st.followingStatement = NULL /\ st.thenStatement = NULL
  /\ st.elseStatement = NULL /\ st.bodyStatement = NULL
  /\ st.popCount = 0

(* What becomes of the statement that the n-th one is attached to. *)
GainsEdge(old, new, edge, n) ==
  /\ new \in StatementRecords
  /\ new.statementType = old.statementType
  /\ new.parentStatement = old.parentStatement
  /\ new.parentBranchStatement = old.parentBranchStatement
  /\ new.localSymbolTable = old.localSymbolTable
  /\ new.followingStatement = IF edge = "followingStatement" THEN n ELSE old.followingStatement
  /\ new.thenStatement = IF edge = "thenStatement" THEN n ELSE old.thenStatement
  /\ new.elseStatement = IF edge = "elseStatement" THEN n ELSE old.elseStatement
  /\ new.bodyStatement = IF edge = "bodyStatement" THEN n ELSE old.bodyStatement
  /\ new.popCount = IF edge = "followingStatement" /\ ClosesIf(old) THEN old.popCount + 1
                    ELSE old.popCount

(* The graph h is the graph g with one more statement, the active one. *)
NewId(g) == Len(g.stat) + 1

StatementsGrow(g, h, edge, type) ==
  /\ h.stat \in Seq(StatementRecords)
  /\ Len(h.stat) = NewId(g)
  /\ IsNew(h.stat[NewId(g)], type, g.activeStat, NewId(g))
  /\ \A s \in Statements(g) : s # g.activeStat => h.stat[s] = g.stat[s]
  /\ g.activeStat # NULL =>
       GainsEdge(g.stat[g.activeStat], h.stat[g.activeStat], edge, NewId(g))

FunctionsKept(g, h) ==
  /\ Len(h.funcs) = Len(g.funcs)
  /\ \A f \in 1 .. Len(g.funcs) :
       /\ h.funcs[f].name = g.funcs[f].name
       /\ h.funcs[f].symbolTable = g.funcs[f].symbolTable
       /\ h.funcs[f].rootStatement =
            IF f = g.activeFunc /\ g.funcs[f].rootStatement = NULL THEN NewId(g)
            ELSE g.funcs[f].rootStatement

Grows(g, h, edge, type, names) ==
  /\ h \in Graphs(names)
  /\ h.activeStat = NewId(g)
  /\ h.activeFunc = g.activeFunc /\ h.mainFunc = g.mainFunc /\ h.cf_error = g.cf_error
  /\ StatementsGrow(g, h, edge, type)
  /\ FunctionsKept(g, h)

(* A table the statement could inherit is one that somebody has. *)
LEMMA InheritedIsThere ==
  ASSUME NEW names, NEW g, GraphOK(g, names), g.activeFunc # NULL
  PROVE  /\ InheritedSymtable(g) \in Nat
         /\ \/ InheritedSymtable(g) = g.funcs[g.activeFunc].symbolTable
            \/ \E s \in Statements(g) : InheritedSymtable(g) = g.stat[s].localSymbolTable
<1> DEFINE a == g.activeStat
           best == NonForAncestor(g)[g.stat[a].parentStatement]
<1>1. Climbable(g) BY DEF GraphOK, Graphs, Climbable
<1>2. ASSUME NEW s \in Statements(g)
      PROVE  g.stat[s].localSymbolTable \in Nat /\ g.stat[s].parentStatement \in Nat
  <2>1. g.stat[s] \in StatementRecords BY <1>1 DEF Climbable, Statements
  <2> QED BY <2>1 DEF StatementRecords
<1>3. g.funcs[g.activeFunc].symbolTable \in Nat
  <2>1. g.funcs \in Seq(FunctionRecords(names)) /\ g.activeFunc \in 1 .. Len(g.funcs)
    BY DEF GraphOK, Graphs
  <2>2. g.funcs[g.activeFunc] \in FunctionRecords(names) BY <2>1
  <2> QED BY <2>2 DEF FunctionRecords
<1>4. ASSUME a # NULL PROVE best \in {NULL} \union Statements(g)
  <2>1. a \in Statements(g) BY <1>4 DEF GraphOK
  <2>2. g.stat[a].parentStatement \in {NULL} \union Statements(g)
    <3>1. g.stat[a].parentStatement \in Nat BY <1>2, <2>1
    <3>2. g.stat[a].parentStatement < a BY <2>1 DEF GraphOK, ParentsBefore
    <3>3. Len(g.stat) \in Nat BY <1>1 DEF Climbable
    <3> QED BY <2>1, <3>1, <3>2, <3>3 DEF Statements, NULL
  <2> QED BY <1>1, <2>2, NonForIsThere
<1>5. a # NULL => a \in Statements(g) BY DEF GraphOK
<1> HIDE DEF a, best
<1>6. \/ InheritedSymtable(g) = g.funcs[g.activeFunc].symbolTable
      \/ a # NULL /\ InheritedSymtable(g) = g.stat[a].localSymbolTable
      \/ a # NULL /\ best # NULL /\ InheritedSymtable(g) = g.stat[best].localSymbolTable
  BY DEF InheritedSymtable, a, best
<1> QED BY <1>2, <1>3, <1>4, <1>5, <1>6

-----------------------------------------------------------------------------
(* The operations that add a statement. *)

(* What the parts of a well-formed graph are. *)
LEMMA GraphParts ==
  ASSUME NEW names, NEW g, GraphOK(g, names)
  PROVE  /\ g.stat \in Seq(StatementRecords) /\ g.funcs \in Seq(FunctionRecords(names))
         /\ Len(g.stat) \in Nat /\ Len(g.funcs) \in Nat
         /\ g.activeStat \in Nat /\ g.activeFunc \in Nat
         /\ \A s \in Statements(g) : g.stat[s] \in StatementRecords
         /\ \A f \in 1 .. Len(g.funcs) : g.funcs[f] \in FunctionRecords(names)
<1>1. g.stat \in Seq(StatementRecords) /\ g.funcs \in Seq(FunctionRecords(names))
  BY DEF GraphOK, Graphs
<1>2. \A s \in Statements(g) : g.stat[s] \in StatementRecords
  BY <1>1 DEF Statements
<1>3. \A f \in 1 .. Len(g.funcs) : g.funcs[f] \in FunctionRecords(names) BY <1>1
<1> QED BY <1>1, <1>2, <1>3 DEF GraphOK, Graphs

LEMMA NewStatementIsNew ==
  ASSUME NEW type \in StatementTypes, NEW parent \in Nat, NEW table \in Nat, NEW branch \in Nat,
         NEW n \in Nat, branch <= n
  PROVE  IsNew(NewStatement(type, parent, table, branch), type, parent, n)
BY DEF IsNew, NewStatement, StatementRecords, NULL

LEMMA LinkedStatement ==
  ASSUME NEW st \in StatementRecords, NEW n \in Nat, NEW new,
         new = [st EXCEPT !.followingStatement = n,
                          !.popCount = IF ClosesIf(st) THEN @ + 1 ELSE @]
  PROVE  GainsEdge(st, new, "followingStatement", n)
<1> DEFINE count == IF ClosesIf(st) THEN st.popCount + 1 ELSE st.popCount
<1>1. count \in Nat BY DEF StatementRecords
<1>2. new = [st EXCEPT !.followingStatement = n, !.popCount = count] OBVIOUS
<1>3. GainsEdge(st, new, "followingStatement", n) <=> new \in StatementRecords
  <2> HIDE DEF count
  <2>1. /\ new.statementType = st.statementType /\ new.parentStatement = st.parentStatement
        /\ new.parentBranchStatement = st.parentBranchStatement
        /\ new.localSymbolTable = st.localSymbolTable
        /\ new.followingStatement = n /\ new.thenStatement = st.thenStatement
        /\ new.elseStatement = st.elseStatement /\ new.bodyStatement = st.bodyStatement
        /\ new.popCount = count
    BY <1>2 DEF StatementRecords
  <2> QED BY <2>1 DEF GainsEdge, count
<1>4. new \in StatementRecords
  <2> HIDE DEF count
  <2> QED BY <1>1, <1>2 DEF StatementRecords
<1> QED BY <1>3, <1>4

(* The whole effect of cf_make_next_statement. *)
LEMMA NextStatementGrows ==
  ASSUME NEW names, NEW g, GraphOK(g, names), g.activeFunc # NULL, NEW type \in StatementTypes,
         \A s \in Statements(g) : g.stat[s].parentBranchStatement <= Len(g.stat)
  PROVE  LET h == cf_make_next_statement(g, type)
         IN  /\ Grows(g, h, "followingStatement", type, names)
             /\ h.stat[NewId(g)].localSymbolTable = InheritedSymtable(g)
<1> DEFINE a == g.activeStat
           n == Len(g.stat) + 1
           f == g.activeFunc
           isRoot == g.funcs[f].rootStatement = NULL
           branch == IF a # NULL THEN g.stat[a].parentBranchStatement
                     ELSE IF isRoot THEN n ELSE NULL
           linked == IF a = NULL THEN g.stat
                     ELSE [g.stat EXCEPT
                             ![a].followingStatement = n,
                             ![a].popCount = IF ClosesIf(g.stat[a]) THEN @ + 1 ELSE @]
           table == InheritedSymtable(g)
           new == NewStatement(type, a, table, branch)
           funcs == [g.funcs EXCEPT ![f].rootStatement = IF isRoot THEN n ELSE @]
           h == cf_make_next_statement(g, type)
<1>1. /\ g.stat \in Seq(StatementRecords) /\ g.funcs \in Seq(FunctionRecords(names))
      /\ Len(g.stat) \in Nat /\ n \in Nat /\ a \in Nat /\ f \in 1 .. Len(g.funcs)
      /\ a # NULL => a \in Statements(g) /\ a \in 1 .. Len(g.stat)
      /\ \A s \in Statements(g) : g.stat[s] \in StatementRecords
  BY GraphParts DEF GraphOK, Statements
<1>2. h = [g EXCEPT !.stat = Append(linked, new), !.funcs = funcs, !.activeStat = n]
  <2>1. g \in Graphs(names) BY DEF GraphOK
  <2> QED BY <2>1 DEF cf_make_next_statement, Graphs
<1> HIDE DEF h
<1>3. g \in Graphs(names) BY DEF GraphOK
<1>4. /\ h.stat = Append(linked, new) /\ h.funcs = funcs /\ h.activeStat = n
      /\ h.activeFunc = g.activeFunc /\ h.mainFunc = g.mainFunc /\ h.cf_error = g.cf_error
      /\ h = [stat |-> h.stat, funcs |-> h.funcs, activeStat |-> h.activeStat,
              activeFunc |-> h.activeFunc, mainFunc |-> h.mainFunc, cf_error |-> h.cf_error]
  BY <1>2, <1>3 DEF Graphs
<1>5. branch \in Nat /\ branch <= n
  <2>1. CASE a # NULL
    <3>1. g.stat[a].parentBranchStatement \in Nat BY <1>1, <2>1 DEF StatementRecords
    <3>2. g.stat[a].parentBranchStatement <= Len(g.stat) BY <1>1, <2>1
    <3> QED BY <1>1, <2>1, <3>1, <3>2
  <2>2. CASE a = NULL BY <1>1, <2>2 DEF NULL
  <2> QED BY <2>1, <2>2
<1>6. table \in Nat BY InheritedIsThere
<1>7. IsNew(new, type, a, n) BY <1>1, <1>5, <1>6, NewStatementIsNew
<1> DEFINE old == g.stat[a]
           longer == [old EXCEPT !.followingStatement = n,
                                 !.popCount = IF ClosesIf(old) THEN @ + 1 ELSE @]
<1>8. ASSUME a # NULL PROVE GainsEdge(old, longer, "followingStatement", n)
  BY <1>1, <1>8, LinkedStatement
<1>9. /\ linked \in Seq(StatementRecords) /\ Len(linked) = Len(g.stat)
      /\ \A s \in Statements(g) : s # a => linked[s] = g.stat[s]
      /\ a # NULL => linked[a] = longer
  <2>1. CASE a = NULL BY <1>1, <2>1
  <2>2. CASE a # NULL
    <3>1. longer \in StatementRecords BY <1>8, <2>2 DEF GainsEdge
    <3>2. linked = [g.stat EXCEPT ![a] = longer] BY <1>1, <2>2
    <3> HIDE DEF longer, linked
    <3> QED BY <1>1, <2>2, <3>1, <3>2 DEF Statements
  <2> QED BY <2>1, <2>2
<1>10. new \in StatementRecords BY <1>7 DEF IsNew
<1> HIDE DEF linked, new, longer, funcs
<1>11. /\ h.stat \in Seq(StatementRecords) /\ Len(h.stat) = n /\ h.stat[n] = new
       /\ \A s \in Statements(g) : h.stat[s] = linked[s]
  BY <1>1, <1>4, <1>9, <1>10 DEF Statements
<1>12. StatementsGrow(g, h, "followingStatement", type)
  BY <1>1, <1>7, <1>8, <1>9, <1>11 DEF StatementsGrow, NewId
<1>13. funcs \in Seq(FunctionRecords(names)) /\ FunctionsKept(g, h)
  <2>1. g.funcs[f] \in FunctionRecords(names) BY <1>1
  <2> DEFINE root == IF isRoot THEN n ELSE g.funcs[f].rootStatement
             fun == [g.funcs[f] EXCEPT !.rootStatement = root]
  <2>2. fun \in FunctionRecords(names) /\ fun.name = g.funcs[f].name
          /\ fun.symbolTable = g.funcs[f].symbolTable /\ fun.rootStatement = root
    BY <1>1, <2>1 DEF FunctionRecords
  <2>3. funcs = [g.funcs EXCEPT ![f] = fun] BY <1>1 DEF funcs
  <2> HIDE DEF fun
  <2>4. /\ funcs \in Seq(FunctionRecords(names)) /\ Len(funcs) = Len(g.funcs)
        /\ funcs[f] = fun /\ \A i \in 1 .. Len(g.funcs) : i # f => funcs[i] = g.funcs[i]
    BY <1>1, <2>2, <2>3
  <2> QED BY <1>4, <2>2, <2>4 DEF FunctionsKept, NewId
<1>14. h \in Graphs(names)
  BY <1>1, <1>3, <1>4, <1>11, <1>13 DEF Graphs
<1>15. Grows(g, h, "followingStatement", type, names)
  BY <1>4, <1>12, <1>13, <1>14 DEF Grows, NewId
<1>16. h.stat[NewId(g)].localSymbolTable = InheritedSymtable(g)
  BY <1>11 DEF NewId, new, NewStatement
<1> QED BY <1>15, <1>16 DEF h

(* Opening a branch: the new statement is then moved to another edge.      *)
LEMMA MovedGrows ==
  ASSUME NEW names, NEW g, GraphOK(g, names), g.activeStat # NULL,
         NEW h, NEW type, Grows(g, h, "followingStatement", type, names),
         NEW edge, NEW moved, GainsEdge(g.stat[g.activeStat], moved, edge, NewId(g)),
         NEW k,
         k = [h EXCEPT !.stat = [h.stat EXCEPT
                ![g.activeStat] = moved,
                ![NewId(g)] = [h.stat[NewId(g)] EXCEPT !.parentBranchStatement = g.activeStat]]]
  PROVE  Grows(g, k, edge, type, names)
<1> DEFINE a == g.activeStat
           n == NewId(g)
           arm == [h.stat[n] EXCEPT !.parentBranchStatement = a]
           stat == [h.stat EXCEPT ![a] = moved, ![n] = arm]
<1>1. /\ h \in Graphs(names) /\ h.activeStat = n /\ StatementsGrow(g, h, "followingStatement", type)
      /\ FunctionsKept(g, h)
      /\ h.activeFunc = g.activeFunc /\ h.mainFunc = g.mainFunc /\ h.cf_error = g.cf_error
  BY DEF Grows
<1>2. /\ h.stat \in Seq(StatementRecords) /\ Len(h.stat) = n /\ Len(g.stat) \in Nat
      /\ a \in 1 .. Len(g.stat) /\ n = Len(g.stat) + 1 /\ IsNew(h.stat[n], type, a, n)
  BY <1>1, GraphParts DEF StatementsGrow, GraphOK, Statements, NewId
<1>3. IsNew(arm, type, a, n) /\ arm.localSymbolTable = h.stat[n].localSymbolTable
  <2>1. h.stat[n] \in StatementRecords BY <1>2 DEF IsNew
  <2> DEFINE st == h.stat[n]
  <2> HIDE DEF st, n
  <2>2. arm = [st EXCEPT !.parentBranchStatement = a] BY DEF st
  <2>3. st \in StatementRecords /\ IsNew(st, type, a, n) BY <1>2, <2>1 DEF st
  <2> HIDE DEF arm
  <2>4. arm \in StatementRecords
    <3>1. a \in Nat BY <1>2
    <3> HIDE DEF a
    <3> QED BY <2>2, <2>3, <3>1 DEF StatementRecords
  <2>5. /\ arm.statementType = st.statementType /\ arm.parentStatement = st.parentStatement
        /\ arm.parentBranchStatement = a /\ arm.localSymbolTable = st.localSymbolTable
        /\ arm.followingStatement = st.followingStatement /\ arm.thenStatement = st.thenStatement
        /\ arm.elseStatement = st.elseStatement /\ arm.bodyStatement = st.bodyStatement
        /\ arm.popCount = st.popCount
    BY <2>2, <2>3 DEF StatementRecords
  <2>6. IsNew(arm, type, a, n) BY <1>2, <2>3, <2>4, <2>5 DEF IsNew
  <2> QED BY <2>5, <2>6 DEF st
<1> HIDE DEF arm
<1>4. moved \in StatementRecords BY DEF GainsEdge
<1>5. arm \in StatementRecords BY <1>3 DEF IsNew
<1>6. /\ stat \in Seq(StatementRecords) /\ Len(stat) = n
      /\ stat[n] = arm /\ stat[a] = moved
      /\ \A s \in Statements(g) : s # a => stat[s] = h.stat[s]
  <2> HIDE DEF n, a
  <2> QED BY <1>2, <1>4, <1>5 DEF Statements
<1>7. k = [h EXCEPT !.stat = stat] BY DEF arm
<1> HIDE DEF stat
<1>8. /\ k \in Graphs(names) /\ k.stat = stat /\ k.funcs = h.funcs /\ k.activeStat = h.activeStat
      /\ k.activeFunc = h.activeFunc /\ k.mainFunc = h.mainFunc /\ k.cf_error = h.cf_error
  BY <1>1, <1>6, <1>7 DEF Graphs
<1>9. StatementsGrow(g, k, edge, type)
  BY <1>1, <1>2, <1>3, <1>6, <1>8 DEF StatementsGrow
<1>10. FunctionsKept(g, k) BY <1>1, <1>8 DEF FunctionsKept
<1> QED BY <1>1, <1>3, <1>6, <1>8, <1>9, <1>10 DEF Grows

(* The record of the active statement once the pointer is moved.           *)
LEMMA MovedToThen ==
  ASSUME NEW old \in StatementRecords, NEW n \in Nat, ClosesIf(old),
         NEW next, GainsEdge(old, next, "followingStatement", n),
         NEW moved,
         moved = [next EXCEPT !.popCount = TakenBack(@),
                              !.followingStatement = old.followingStatement,
                              !.thenStatement = n]
  PROVE  GainsEdge(old, moved, "thenStatement", n)
<1> DEFINE count == TakenBack(next.popCount)
<1>1. count = old.popCount /\ old.popCount \in Nat /\ old.followingStatement \in Nat
  BY DEF GainsEdge, TakenBack, StatementRecords
<1>2. next \in StatementRecords BY DEF GainsEdge
<1>3. moved = [next EXCEPT !.popCount = old.popCount,
                           !.followingStatement = old.followingStatement, !.thenStatement = n]
  BY <1>1
<1>4. moved \in StatementRecords BY <1>1, <1>2, <1>3 DEF StatementRecords
<1>5. /\ moved.statementType = next.statementType /\ moved.parentStatement = next.parentStatement
      /\ moved.parentBranchStatement = next.parentBranchStatement
      /\ moved.localSymbolTable = next.localSymbolTable
      /\ moved.followingStatement = old.followingStatement /\ moved.thenStatement = n
      /\ moved.elseStatement = next.elseStatement /\ moved.bodyStatement = next.bodyStatement
      /\ moved.popCount = old.popCount
  BY <1>2, <1>3 DEF StatementRecords
<1> QED BY <1>4, <1>5 DEF GainsEdge

LEMMA MovedToElse ==
  ASSUME NEW old \in StatementRecords, NEW n \in Nat, ClosesIf(old),
         NEW next, GainsEdge(old, next, "followingStatement", n),
         NEW moved,
         moved = [next EXCEPT !.popCount = TakenBack(@),
                              !.followingStatement = old.followingStatement,
                              !.elseStatement = n]
  PROVE  GainsEdge(old, moved, "elseStatement", n)
<1> DEFINE count == TakenBack(next.popCount)
<1>1. count = old.popCount /\ old.popCount \in Nat /\ old.followingStatement \in Nat
  BY DEF GainsEdge, TakenBack, StatementRecords
<1>2. next \in StatementRecords BY DEF GainsEdge
<1>3. moved = [next EXCEPT !.popCount = old.popCount,
                           !.followingStatement = old.followingStatement, !.elseStatement = n]
  BY <1>1
<1>4. moved \in StatementRecords BY <1>1, <1>2, <1>3 DEF StatementRecords
<1>5. /\ moved.statementType = next.statementType /\ moved.parentStatement = next.parentStatement
      /\ moved.parentBranchStatement = next.parentBranchStatement
      /\ moved.localSymbolTable = next.localSymbolTable
      /\ moved.followingStatement = old.followingStatement /\ moved.thenStatement = next.thenStatement
      /\ moved.elseStatement = n /\ moved.bodyStatement = next.bodyStatement
      /\ moved.popCount = old.popCount
  BY <1>2, <1>3 DEF StatementRecords
<1> QED BY <1>4, <1>5 DEF GainsEdge

LEMMA MovedToBody ==
  ASSUME NEW old \in StatementRecords, NEW n \in Nat, old.statementType = "CF_FOR",
         NEW next, GainsEdge(old, next, "followingStatement", n),
         NEW moved,
         moved = [next EXCEPT !.followingStatement = old.followingStatement,
                              !.bodyStatement = n]
  PROVE  GainsEdge(old, moved, "bodyStatement", n)
<1>1. next.popCount = old.popCount /\ old.followingStatement \in Nat
  BY DEF GainsEdge, ClosesIf, StatementRecords
<1>2. next \in StatementRecords BY DEF GainsEdge
<1>3. moved \in StatementRecords BY <1>1, <1>2 DEF StatementRecords
<1>4. /\ moved.statementType = next.statementType /\ moved.parentStatement = next.parentStatement
      /\ moved.parentBranchStatement = next.parentBranchStatement
      /\ moved.localSymbolTable = next.localSymbolTable
      /\ moved.followingStatement = old.followingStatement /\ moved.thenStatement = next.thenStatement
      /\ moved.elseStatement = next.elseStatement /\ moved.bodyStatement = n
      /\ moved.popCount = next.popCount
  BY <1>2 DEF StatementRecords
<1> QED BY <1>1, <1>3, <1>4 DEF GainsEdge

(* The parser opens a branch only on a statement of the right type that    *)
(* does not have the branch yet.                                           *)
BranchesMayGrow(names, g, type) ==
  /\ GraphOK(g, names)
  /\ g.activeFunc # NULL /\ g.activeStat # NULL
  /\ type \in StatementTypes
  /\ \A s \in Statements(g) : g.stat[s].parentBranchStatement <= Len(g.stat)

LEMMA IfThenGrows ==
  ASSUME NEW names, NEW g, NEW type, BranchesMayGrow(names, g, type),
         ClosesIf(g.stat[g.activeStat])
  PROVE  Grows(g, cf_make_if_then_statement(g, type), "thenStatement", type, names)
<1> USE DEF BranchesMayGrow
<1> DEFINE a == g.activeStat
           h == cf_make_next_statement(g, type)
           next == h.stat[a]
           moved == [next EXCEPT !.popCount = TakenBack(@),
                                 !.followingStatement = g.stat[a].followingStatement,
                                 !.thenStatement = NewId(g)]
           k == cf_make_if_then_statement(g, type)
<1>1. Grows(g, h, "followingStatement", type, names) BY NextStatementGrows
<1>2. /\ GainsEdge(g.stat[a], next, "followingStatement", NewId(g))
      /\ g.stat[a] \in StatementRecords /\ NewId(g) \in Nat /\ NewId(g) # a
      /\ h.activeStat = NewId(g) /\ h \in Graphs(names)
      /\ a \in 1 .. Len(h.stat) /\ NewId(g) \in 1 .. Len(h.stat)
      /\ h.stat \in Seq(StatementRecords)
  BY <1>1, GraphParts DEF Grows, StatementsGrow, NewId, GraphOK, Statements
<1> HIDE DEF h
<1>3. GainsEdge(g.stat[a], moved, "thenStatement", NewId(g))
  BY <1>2, MovedToThen
<1>4. k = [h EXCEPT !.stat = [h.stat EXCEPT
             ![a] = moved, ![NewId(g)] = [h.stat[NewId(g)] EXCEPT !.parentBranchStatement = a]]]
  <2>1. k = [h EXCEPT !.stat[a].popCount = TakenBack(@),
                      !.stat[a].followingStatement = g.stat[a].followingStatement,
                      !.stat[a].thenStatement = NewId(g),
                      !.stat[NewId(g)].parentBranchStatement = a]
    BY <1>2 DEF h, cf_make_if_then_statement, ActiveIs, ClosesIf
  <2> HIDE DEF k, a
  <2> QED BY <1>2, <2>1, ZenonT(60) DEF Graphs
<1> HIDE DEF k, moved
<1> QED BY <1>1, <1>3, <1>4, MovedGrows DEF k

LEMMA IfElseGrows ==
  ASSUME NEW names, NEW g, NEW type, BranchesMayGrow(names, g, type),
         ClosesIf(g.stat[g.activeStat])
  PROVE  /\ Grows(g, cf_make_if_else_statement(g, type), "elseStatement", type, names)
         /\ cf_make_if_else_statement(g, type).stat[NewId(g)].localSymbolTable
              = InheritedSymtable(g)
<1> USE DEF BranchesMayGrow
<1> DEFINE a == g.activeStat
           h == cf_make_next_statement(g, type)
           next == h.stat[a]
           moved == [next EXCEPT !.popCount = TakenBack(@),
                                 !.followingStatement = g.stat[a].followingStatement,
                                 !.elseStatement = NewId(g)]
           k == cf_make_if_else_statement(g, type)
<1>1. /\ Grows(g, h, "followingStatement", type, names)
      /\ h.stat[NewId(g)].localSymbolTable = InheritedSymtable(g)
  BY NextStatementGrows
<1>2. /\ GainsEdge(g.stat[a], next, "followingStatement", NewId(g))
      /\ g.stat[a] \in StatementRecords /\ NewId(g) \in Nat /\ NewId(g) # a
      /\ h.activeStat = NewId(g) /\ h \in Graphs(names)
      /\ a \in 1 .. Len(h.stat) /\ NewId(g) \in 1 .. Len(h.stat)
      /\ h.stat \in Seq(StatementRecords)
  BY <1>1, GraphParts DEF Grows, StatementsGrow, NewId, GraphOK, Statements
<1> HIDE DEF h
<1>3. GainsEdge(g.stat[a], moved, "elseStatement", NewId(g))
  BY <1>2, MovedToElse
<1>4. k = [h EXCEPT !.stat = [h.stat EXCEPT
             ![a] = moved, ![NewId(g)] = [h.stat[NewId(g)] EXCEPT !.parentBranchStatement = a]]]
  <2>1. k = [h EXCEPT !.stat[a].popCount = TakenBack(@),
                      !.stat[a].followingStatement = g.stat[a].followingStatement,
                      !.stat[a].elseStatement = NewId(g),
                      !.stat[NewId(g)].parentBranchStatement = a]
    BY <1>2 DEF h, cf_make_if_else_statement, ActiveIs, ClosesIf
  <2> HIDE DEF k, a
  <2> QED BY <1>2, <2>1, ZenonT(60) DEF Graphs
<1> HIDE DEF k, moved
<1>5. Grows(g, k, "elseStatement", type, names) BY <1>1, <1>3, <1>4, MovedGrows
<1>6. k.stat[NewId(g)].localSymbolTable = h.stat[NewId(g)].localSymbolTable
  <2> HIDE DEF a
  <2>1. h.stat[NewId(g)] \in StatementRecords BY <1>2
  <2> DEFINE branch == [h.stat[NewId(g)] EXCEPT !.parentBranchStatement = a]
             stat == [h.stat EXCEPT ![a] = moved, ![NewId(g)] = branch]
  <2>2. k = [h EXCEPT !.stat = stat] BY <1>4
  <2>3. k.stat = stat
    <3> HIDE DEF stat
    <3> QED BY <1>2, <2>2 DEF Graphs
  <2>4. k.stat[NewId(g)] = branch
    <3> HIDE DEF branch
    <3> QED BY <1>2, <2>3
  <2> QED BY <2>1, <2>4 DEF StatementRecords
<1> QED BY <1>1, <1>5, <1>6 DEF k

LEMMA ForBodyGrows ==
  ASSUME NEW names, NEW g, NEW type, BranchesMayGrow(names, g, type),
         g.stat[g.activeStat].statementType = "CF_FOR"
  PROVE  Grows(g, cf_make_for_body_statement(g, type), "bodyStatement", type, names)
<1> USE DEF BranchesMayGrow
<1> DEFINE a == g.activeStat
           h == cf_make_next_statement(g, type)
           next == h.stat[a]
           moved == [next EXCEPT !.followingStatement = g.stat[a].followingStatement,
                                 !.bodyStatement = NewId(g)]
           k == cf_make_for_body_statement(g, type)
<1>1. Grows(g, h, "followingStatement", type, names) BY NextStatementGrows
<1>2. /\ GainsEdge(g.stat[a], next, "followingStatement", NewId(g))
      /\ g.stat[a] \in StatementRecords /\ NewId(g) \in Nat /\ NewId(g) # a
      /\ h.activeStat = NewId(g) /\ h \in Graphs(names)
      /\ a \in 1 .. Len(h.stat) /\ NewId(g) \in 1 .. Len(h.stat)
      /\ h.stat \in Seq(StatementRecords)
  BY <1>1, GraphParts DEF Grows, StatementsGrow, NewId, GraphOK, Statements
<1> HIDE DEF h
<1>3. GainsEdge(g.stat[a], moved, "bodyStatement", NewId(g))
  BY <1>2, MovedToBody
<1>4. k = [h EXCEPT !.stat = [h.stat EXCEPT
             ![a] = moved, ![NewId(g)] = [h.stat[NewId(g)] EXCEPT !.parentBranchStatement = a]]]
  <2>1. k = [h EXCEPT !.stat[a].followingStatement = g.stat[a].followingStatement,
                      !.stat[a].bodyStatement = NewId(g),
                      !.stat[NewId(g)].parentBranchStatement = a]
    BY <1>2 DEF h, cf_make_for_body_statement, ActiveIs
  <2> HIDE DEF k, a
  <2> QED BY <1>2, <2>1, ZenonT(60) DEF Graphs
<1> HIDE DEF k, moved
<1> QED BY <1>1, <1>3, <1>4, MovedGrows DEF k

-----------------------------------------------------------------------------
(* The operations that add nothing.                                        *)

(* A new statement that is given its table is still new.                   *)
LEMMA AssignKeepsGrows ==
  ASSUME NEW names, NEW g, GraphOK(g, names), NEW h, NEW edge, NEW type,
         Grows(g, h, edge, type, names), NEW table \in Nat
  PROVE  /\ Grows(g, cf_assign_statement_symtable(h, table), edge, type, names)
         /\ cf_assign_statement_symtable(h, table).stat[NewId(g)].localSymbolTable = table
<1> DEFINE n == NewId(g)
           st == h.stat[n]
           assigned == [st EXCEPT !.localSymbolTable = table]
           k == cf_assign_statement_symtable(h, table)
<1>1. /\ h \in Graphs(names) /\ h.activeStat = n /\ StatementsGrow(g, h, edge, type)
      /\ FunctionsKept(g, h)
      /\ h.activeFunc = g.activeFunc /\ h.mainFunc = g.mainFunc /\ h.cf_error = g.cf_error
  BY DEF Grows
<1>2. /\ h.stat \in Seq(StatementRecords) /\ Len(h.stat) = n /\ Len(g.stat) \in Nat
      /\ n = Len(g.stat) + 1 /\ IsNew(st, type, g.activeStat, n) /\ st \in StatementRecords
      /\ st.followingStatement = NULL /\ n # NULL
      /\ g.activeStat # n /\ (g.activeStat # NULL => g.activeStat \in Statements(g))
  BY <1>1, GraphParts DEF StatementsGrow, IsNew, NewId, NULL, GraphOK, Statements
<1>3. k = [h EXCEPT !.stat = [h.stat EXCEPT ![n] = assigned]]
  <2>1. k = [h EXCEPT !.stat[n].localSymbolTable = table]
    BY <1>1, <1>2 DEF cf_assign_statement_symtable
  <2> HIDE DEF k, n
  <2> QED BY <1>1, <1>2, <2>1 DEF Graphs
<1> HIDE DEF k
<1>4. IsNew(assigned, type, g.activeStat, n) /\ assigned.localSymbolTable = table
  <2> HIDE DEF st, n
  <2>1. assigned \in StatementRecords BY <1>2 DEF StatementRecords
  <2>2. /\ assigned.statementType = st.statementType /\ assigned.parentStatement = st.parentStatement
        /\ assigned.parentBranchStatement = st.parentBranchStatement
        /\ assigned.localSymbolTable = table
        /\ assigned.followingStatement = st.followingStatement
        /\ assigned.thenStatement = st.thenStatement /\ assigned.elseStatement = st.elseStatement
        /\ assigned.bodyStatement = st.bodyStatement /\ assigned.popCount = st.popCount
    BY <1>2 DEF StatementRecords
  <2> QED BY <1>2, <2>1, <2>2 DEF IsNew
<1> HIDE DEF assigned
<1> DEFINE stat == [h.stat EXCEPT ![n] = assigned]
<1>5. /\ stat \in Seq(StatementRecords) /\ Len(stat) = n /\ stat[n] = assigned
      /\ \A s \in Statements(g) : stat[s] = h.stat[s]
  <2>1. assigned \in StatementRecords BY <1>4 DEF IsNew
  <2> HIDE DEF n
  <2> QED BY <1>2, <2>1 DEF Statements
<1> HIDE DEF stat
<1>6. /\ k \in Graphs(names) /\ k.stat = stat /\ k.funcs = h.funcs /\ k.activeStat = h.activeStat
      /\ k.activeFunc = h.activeFunc /\ k.mainFunc = h.mainFunc /\ k.cf_error = h.cf_error
  BY <1>1, <1>3, <1>5 DEF Graphs, stat
<1>7. StatementsGrow(g, k, edge, type)
  BY <1>1, <1>2, <1>4, <1>5, <1>6 DEF StatementsGrow
<1>8. FunctionsKept(g, k) BY <1>1, <1>6 DEF FunctionsKept
<1>9. Grows(g, k, edge, type, names) BY <1>1, <1>6, <1>7, <1>8 DEF Grows
<1> QED BY <1>4, <1>5, <1>6, <1>9 DEF k

(* The graphs g and h differ only in the AST of the active statement.      *)
SameButAst(g, h, names) ==
  /\ h \in Graphs(names)
  /\ h.funcs = g.funcs /\ h.activeStat = g.activeStat /\ h.activeFunc = g.activeFunc
  /\ h.mainFunc = g.mainFunc /\ h.cf_error = g.cf_error
  /\ Len(h.stat) = Len(g.stat)
  /\ \A s \in Statements(g) :
       /\ s # g.activeStat => h.stat[s] = g.stat[s]
       /\ \A field \in {"statementType", "parentStatement", "followingStatement",
                        "thenStatement", "elseStatement", "bodyStatement",
                        "parentBranchStatement", "localSymbolTable", "popCount"} :
            h.stat[s][field] = g.stat[s][field]

LEMMA UseAstKeepsTheRest ==
  ASSUME NEW names, NEW g, g \in Graphs(names), g.activeStat \in Statements(g), g.activeStat # NULL
  PROVE  SameButAst(g, cf_use_ast_explicit(g), names)
<1> DEFINE a == g.activeStat
           st == g.stat[a]
           used == [st EXCEPT !.ast = TRUE]
           h == cf_use_ast_explicit(g)
<1>1. /\ g.stat \in Seq(StatementRecords) /\ a \in 1 .. Len(g.stat) /\ st \in StatementRecords
      /\ \A s \in Statements(g) : s \in 1 .. Len(g.stat)
  BY DEF Graphs, Statements
<1>2. h = [g EXCEPT !.stat = [g.stat EXCEPT ![a] = used]]
  BY <1>1 DEF cf_use_ast_explicit, Graphs
<1> HIDE DEF h
<1>3. /\ used \in StatementRecords
      /\ \A field \in {"statementType", "parentStatement", "followingStatement",
                       "thenStatement", "elseStatement", "bodyStatement",
                       "parentBranchStatement", "localSymbolTable", "popCount"} :
           used[field] = st[field]
  <2> HIDE DEF st
  <2> QED BY <1>1 DEF StatementRecords
<1> HIDE DEF used
<1>4. /\ h \in Graphs(names) /\ h.stat = [g.stat EXCEPT ![a] = used]
      /\ h.funcs = g.funcs /\ h.activeStat = g.activeStat /\ h.activeFunc = g.activeFunc
      /\ h.mainFunc = g.mainFunc /\ h.cf_error = g.cf_error
  <2>1. [g.stat EXCEPT ![a] = used] \in Seq(StatementRecords) BY <1>1, <1>3
  <2> QED BY <1>2, <2>1 DEF Graphs
<1>5. /\ Len(h.stat) = Len(g.stat) /\ h.stat[a] = used
      /\ \A s \in Statements(g) : s # a => h.stat[s] = g.stat[s]
  BY <1>1, <1>4
<1>6. ASSUME NEW s \in Statements(g),
             NEW field \in {"statementType", "parentStatement", "followingStatement",
                            "thenStatement", "elseStatement", "bodyStatement",
                            "parentBranchStatement", "localSymbolTable", "popCount"}
      PROVE  h.stat[s][field] = g.stat[s][field]
  BY <1>3, <1>5
<1> QED BY <1>4, <1>5, <1>6 DEF SameButAst, h

LEMMA SameButAstIsOK ==
  ASSUME NEW names, NEW g, GraphOK(g, names), NEW h, SameButAst(g, h, names)
  PROVE  /\ GraphOK(h, names)
         /\ \A s \in Statements(g) : h.stat[s].parentStatement = g.stat[s].parentStatement
                                     /\ h.stat[s].parentBranchStatement = g.stat[s].parentBranchStatement
                                     /\ h.stat[s].localSymbolTable = g.stat[s].localSymbolTable
                                     /\ h.stat[s].statementType = g.stat[s].statementType
                                     /\ h.stat[s].elseStatement = g.stat[s].elseStatement
<1>1. /\ h \in Graphs(names) /\ h.funcs = g.funcs /\ h.activeStat = g.activeStat
      /\ h.activeFunc = g.activeFunc /\ Statements(h) = Statements(g)
  BY DEF SameButAst, Statements
<1>2. ASSUME NEW s \in Statements(g)
      PROVE  /\ h.stat[s].parentStatement = g.stat[s].parentStatement
             /\ h.stat[s].parentBranchStatement = g.stat[s].parentBranchStatement
             /\ h.stat[s].localSymbolTable = g.stat[s].localSymbolTable
             /\ h.stat[s].statementType = g.stat[s].statementType
             /\ h.stat[s].elseStatement = g.stat[s].elseStatement
  BY DEF SameButAst
<1> QED BY <1>1, <1>2 DEF GraphOK, ParentsBefore

(* It does not matter for the new statement whether the old one has an AST. *)
LEMMA AstThenGrows ==
  ASSUME NEW names, NEW g, GraphOK(g, names), NEW u, SameButAst(g, u, names),
         NEW h, NEW edge, NEW type, Grows(u, h, edge, type, names)
  PROVE  Grows(g, h, edge, type, names)
<1>1. /\ u.funcs = g.funcs /\ u.activeStat = g.activeStat /\ u.activeFunc = g.activeFunc
      /\ u.mainFunc = g.mainFunc /\ u.cf_error = g.cf_error /\ Len(u.stat) = Len(g.stat)
      /\ Statements(u) = Statements(g) /\ NewId(u) = NewId(g)
      /\ \A s \in Statements(g) : s # g.activeStat => u.stat[s] = g.stat[s]
  BY DEF SameButAst, Statements, NewId
<1>2. ASSUME g.activeStat # NULL
      PROVE  GainsEdge(g.stat[g.activeStat], h.stat[g.activeStat], edge, NewId(g))
  <2> DEFINE old == g.stat[g.activeStat]
             ast == u.stat[g.activeStat]
             new == h.stat[g.activeStat]
             n == NewId(g)
  <2>1. g.activeStat \in Statements(g) BY <1>2 DEF GraphOK
  <2>2. /\ ast.statementType = old.statementType /\ ast.parentStatement = old.parentStatement
        /\ ast.parentBranchStatement = old.parentBranchStatement
        /\ ast.localSymbolTable = old.localSymbolTable
        /\ ast.followingStatement = old.followingStatement /\ ast.thenStatement = old.thenStatement
        /\ ast.elseStatement = old.elseStatement /\ ast.bodyStatement = old.bodyStatement
        /\ ast.popCount = old.popCount
    BY <2>1 DEF SameButAst
  <2>3. GainsEdge(ast, new, edge, n) BY <1>1, <1>2 DEF Grows, StatementsGrow
  <2> HIDE DEF ast, old, new, n
  <2>4. GainsEdge(old, new, edge, n) BY <2>2, <2>3 DEF GainsEdge, ClosesIf
  <2> QED BY <2>4 DEF old, new, n
<1>3. StatementsGrow(g, h, edge, type) BY <1>1, <1>2 DEF Grows, StatementsGrow
<1>4. FunctionsKept(g, h) BY <1>1 DEF Grows, FunctionsKept
<1> QED BY <1>1, <1>3, <1>4 DEF Grows

LEMMA GrowsThenAst ==
  ASSUME NEW names, NEW g, GraphOK(g, names),
         NEW h, NEW edge, NEW type, Grows(g, h, edge, type, names)
  PROVE  /\ Grows(g, cf_use_ast_explicit(h), edge, type, names)
         /\ cf_use_ast_explicit(h).stat[NewId(g)].localSymbolTable
              = h.stat[NewId(g)].localSymbolTable
<1> DEFINE n == NewId(g)
           k == cf_use_ast_explicit(h)
           st == h.stat[n]
           used == k.stat[n]
<1>1. /\ h \in Graphs(names) /\ h.activeStat = n /\ StatementsGrow(g, h, edge, type)
      /\ FunctionsKept(g, h)
      /\ h.activeFunc = g.activeFunc /\ h.mainFunc = g.mainFunc /\ h.cf_error = g.cf_error
  BY DEF Grows
<1>2. /\ Len(h.stat) = n /\ n = Len(g.stat) + 1 /\ Len(g.stat) \in Nat /\ n # NULL
      /\ n \in Statements(h) /\ IsNew(st, type, g.activeStat, n)
      /\ \A s \in Statements(g) : s \in Statements(h) /\ s # n
      /\ g.activeStat # NULL => g.activeStat \in Statements(g)
  BY <1>1, GraphParts DEF StatementsGrow, NewId, NULL, GraphOK, Statements
<1>3. SameButAst(h, k, names) BY <1>1, <1>2, UseAstKeepsTheRest
<1> HIDE DEF k
<1>4. /\ k \in Graphs(names) /\ k.funcs = h.funcs /\ k.activeStat = h.activeStat
      /\ k.activeFunc = h.activeFunc /\ k.mainFunc = h.mainFunc /\ k.cf_error = h.cf_error
      /\ Len(k.stat) = n /\ k.stat \in Seq(StatementRecords)
      /\ \A s \in Statements(g) : k.stat[s] = h.stat[s]
  BY <1>1, <1>2, <1>3 DEF SameButAst, Graphs
<1>5. /\ used.statementType = st.statementType /\ used.parentStatement = st.parentStatement
      /\ used.parentBranchStatement = st.parentBranchStatement
      /\ used.localSymbolTable = st.localSymbolTable
      /\ used.followingStatement = st.followingStatement
      /\ used.thenStatement = st.thenStatement /\ used.elseStatement = st.elseStatement
      /\ used.bodyStatement = st.bodyStatement /\ used.popCount = st.popCount
  BY <1>2, <1>3 DEF SameButAst
<1>6. IsNew(used, type, g.activeStat, n)
  <2>1. used \in StatementRecords BY <1>2, <1>4
  <2> HIDE DEF used, st
  <2> QED BY <1>2, <1>5, <2>1 DEF IsNew
<1>7. StatementsGrow(g, k, edge, type)
  BY <1>1, <1>2, <1>4, <1>6 DEF StatementsGrow
<1>8. FunctionsKept(g, k) BY <1>1, <1>4 DEF FunctionsKept
<1>9. Grows(g, k, edge, type, names) BY <1>1, <1>4, <1>7, <1>8 DEF Grows
<1> QED BY <1>5, <1>9 DEF k

(* Leaving a branch: one more count at the statement it returns to.        *)
PopsTo(g, h, n, names) ==
  /\ h \in Graphs(names)
  /\ h.funcs = g.funcs /\ h.activeStat = n /\ h.activeFunc = g.activeFunc
  /\ h.mainFunc = g.mainFunc /\ h.cf_error = g.cf_error
  /\ Len(h.stat) = Len(g.stat)
  /\ \A s \in Statements(g) :
       /\ s # n => h.stat[s] = g.stat[s]
       /\ \A field \in {"statementType", "parentStatement", "followingStatement",
                        "thenStatement", "elseStatement", "bodyStatement",
                        "parentBranchStatement", "localSymbolTable"} :
            h.stat[s][field] = g.stat[s][field]
  /\ h.stat[n].popCount = g.stat[n].popCount + 1

LEMMA PopReturns ==
  ASSUME NEW names, NEW g, GraphOK(g, names), g.activeStat # NULL, NEW n \in Statements(g),
         PoppableAncestor(g)[g.stat[g.activeStat].parentStatement] = n
  PROVE  PopsTo(g, cf_pop_previous_branched_statement(g), n, names)
<1> DEFINE h == cf_pop_previous_branched_statement(g)
           st == g.stat[n]
           counted == [st EXCEPT !.popCount = @ + 1]
<1>1. /\ g \in Graphs(names) /\ g.stat \in Seq(StatementRecords) /\ n \in 1 .. Len(g.stat)
      /\ n # NULL /\ n \in Nat /\ st \in StatementRecords
      /\ \A s \in Statements(g) : s \in 1 .. Len(g.stat)
  BY GraphParts DEF GraphOK, Statements, NULL
<1>2. g.stat[g.activeStat].parentStatement # NULL
  <2>1. Climbable(g) BY DEF GraphOK, Graphs, Climbable
  <2>2. PoppableAncestor(g)[NULL] = NULL BY <2>1, PoppableUnfolds
  <2> QED BY <1>1, <2>2
<1>3. h = [g EXCEPT !.activeStat = n, !.stat = [g.stat EXCEPT ![n] = counted]]
  <2>1. h = [g EXCEPT !.activeStat = n, !.stat[n].popCount = @ + 1]
    BY <1>1, <1>2 DEF cf_pop_previous_branched_statement
  <2>2. h = [g EXCEPT !.activeStat = n, !.stat[n] = counted] BY <2>1
  <2> HIDE DEF h, counted
  <2> QED BY <1>1, <2>2 DEF Graphs
<1> HIDE DEF h
<1>4. /\ counted \in StatementRecords /\ counted.popCount = st.popCount + 1
      /\ \A field \in {"statementType", "parentStatement", "followingStatement",
                       "thenStatement", "elseStatement", "bodyStatement",
                       "parentBranchStatement", "localSymbolTable"} :
           counted[field] = st[field]
  <2> DEFINE count == st.popCount + 1
  <2>1. counted = [st EXCEPT !.popCount = count] OBVIOUS
  <2> HIDE DEF st, counted
  <2>2. count \in Nat
    <3>1. st.popCount \in Nat BY <1>1 DEF StatementRecords
    <3> QED BY <3>1
  <2> HIDE DEF count
  <2>3. counted \in StatementRecords BY <1>1, <2>1, <2>2 DEF StatementRecords
  <2>4. counted.popCount = count BY <1>1, <2>1 DEF StatementRecords
  <2>5. \A field \in {"statementType", "parentStatement", "followingStatement",
                       "thenStatement", "elseStatement", "bodyStatement",
                       "parentBranchStatement", "localSymbolTable"} :
           counted[field] = st[field]
    BY <1>1, <2>1 DEF StatementRecords
  <2> QED BY <2>3, <2>4, <2>5 DEF count
<1> HIDE DEF counted
<1>5. [g.stat EXCEPT ![n] = counted] \in Seq(StatementRecords) BY <1>1, <1>4
<1>6. /\ h \in Graphs(names) /\ h.stat = [g.stat EXCEPT ![n] = counted]
      /\ h.funcs = g.funcs /\ h.activeStat = n /\ h.activeFunc = g.activeFunc
      /\ h.mainFunc = g.mainFunc /\ h.cf_error = g.cf_error
  BY <1>1, <1>3, <1>5 DEF Graphs
<1>7. /\ Len(h.stat) = Len(g.stat) /\ h.stat[n] = counted
      /\ \A s \in Statements(g) : s # n => h.stat[s] = g.stat[s]
  BY <1>1, <1>6
<1>8. ASSUME NEW s \in Statements(g),
             NEW field \in {"statementType", "parentStatement", "followingStatement",
                            "thenStatement", "elseStatement", "bodyStatement",
                            "parentBranchStatement", "localSymbolTable"}
      PROVE  h.stat[s][field] = g.stat[s][field]
  BY <1>4, <1>7
<1> QED BY <1>4, <1>6, <1>7, <1>8 DEF PopsTo, h

-----------------------------------------------------------------------------
(* The invariant of the graph, whether or not an error was met.            *)

PointersIn(g) == {NULL} \union Statements(g)

(* The statements and the edges that lead to s, and the functions whose    *)
(* root it is.                                                             *)
PredecessorsIn(g, s) == {e \in Statements(g) \X Edges : g.stat[e[1]][e[2]] = s}

RootsAt(g, s) == {f \in 1 .. Len(g.funcs) : g.funcs[f].rootStatement = s}

LinkedOnce(g, s) ==
  \/ /\ g.stat[s].parentStatement = NULL
     /\ PredecessorsIn(g, s) = {}
     /\ \E f \in 1 .. Len(g.funcs) : RootsAt(g, s) = {f}
  \/ /\ RootsAt(g, s) = {}
     /\ \E field \in Edges : PredecessorsIn(g, s) = {<<g.stat[s].parentStatement, field>>}

PointersOK(g) ==
  /\ \A s \in Statements(g) :
       /\ g.stat[s].parentStatement \in PointersIn(g)
       /\ g.stat[s].parentBranchStatement \in PointersIn(g)
       /\ \A field \in Edges : g.stat[s][field] \in PointersIn(g)
       /\ g.stat[s].popCount <= 2
  /\ \A f \in 1 .. Len(g.funcs) : g.funcs[f].rootStatement \in PointersIn(g)
  /\ g.mainFunc \in 0 .. Len(g.funcs)

TablesOK(g, tables) ==
  /\ \A s \in Statements(g) : g.stat[s].localSymbolTable <= tables
  /\ \A f \in 1 .. Len(g.funcs) : g.funcs[f].symbolTable <= tables

(* Nothing follows the active statement yet, and if it is an IF without an *)
(* else it was popped into once at most.                                   *)
ActiveIsLast(g) ==
  g.activeStat # NULL =>
    /\ g.stat[g.activeStat].followingStatement = NULL
    /\ ClosesIf(g.stat[g.activeStat]) => g.stat[g.activeStat].popCount <= 1

RootIsMade(g) ==
  /\ g.activeFunc # NULL =>
       (g.activeStat = NULL <=> g.funcs[g.activeFunc].rootStatement = NULL)
  /\ g.activeFunc = NULL => g.activeStat = NULL

MainIsMain(g) == g.mainFunc # NULL => g.funcs[g.mainFunc].name = Main

GraphInv(g, tables) ==
  /\ GraphOK(g, FuncNames)
  /\ tables \in Nat
  /\ PointersOK(g)
  /\ TablesOK(g, tables)
  /\ \A s \in Statements(g) : LinkedOnce(g, s)
  /\ ActiveIsLast(g)
  /\ RootIsMade(g)
  /\ MainIsMain(g)

(* A statement that an edge leads to comes after the one it starts from,   *)
(* and no other edge leads to it.                                          *)
LEMMA EdgeLeadsOn ==
  ASSUME NEW g, NEW tables, GraphInv(g, tables), NEW s \in Statements(g), NEW field \in Edges,
         g.stat[s][field] # NULL
  PROVE  /\ g.stat[s][field] \in Statements(g) /\ s < g.stat[s][field]
         /\ \A f \in 1 .. Len(g.funcs) : g.funcs[f].rootStatement # g.stat[s][field]
         /\ \A r \in Statements(g) : \A other \in Edges :
              g.stat[r][other] = g.stat[s][field] => r = s /\ other = field
<1> DEFINE t == g.stat[s][field]
<1>1. t \in Statements(g) BY DEF GraphInv, PointersOK, PointersIn
<1>2. LinkedOnce(g, t) BY <1>1 DEF GraphInv
<1>3. <<s, field>> \in PredecessorsIn(g, t) BY DEF PredecessorsIn
<1>4. RootsAt(g, t) = {} /\ \E f \in Edges : PredecessorsIn(g, t) = {<<g.stat[t].parentStatement, f>>}
  BY <1>2, <1>3 DEF LinkedOnce
<1>5. PICK f \in Edges : PredecessorsIn(g, t) = {<<g.stat[t].parentStatement, f>>} BY <1>4
<1>6. s = g.stat[t].parentStatement /\ f = field BY <1>3, <1>5
<1>7. s < t BY <1>1, <1>6 DEF GraphInv, GraphOK, ParentsBefore
<1>8. ASSUME NEW r \in Statements(g), NEW other \in Edges, g.stat[r][other] = t
      PROVE  r = s /\ other = field
  <2>1. <<r, other>> \in PredecessorsIn(g, t) BY <1>8 DEF PredecessorsIn
  <2> QED BY <1>5, <1>6, <2>1
<1>9. ASSUME NEW i \in 1 .. Len(g.funcs), g.funcs[i].rootStatement = t PROVE FALSE
  BY <1>4, <1>9 DEF RootsAt
<1> HIDE DEF t
<1>10. t = g.stat[s][field] BY DEF t
<1> QED BY <1>1, <1>7, <1>8, <1>9, <1>10

(* What no step may do to a graph.                                         *)
FinalStep(g, h) ==
  /\ \A s \in Statements(g) :
       /\ \A field \in Edges : g.stat[s][field] # NULL => h.stat[s][field] = g.stat[s][field]
       /\ g.stat[s].followingStatement # NULL =>
            h.stat[s].localSymbolTable = g.stat[s].localSymbolTable
  /\ \A f \in 1 .. Len(g.funcs) :
       \A field \in {"rootStatement", "symbolTable"} :
         g.funcs[f][field] # NULL => h.funcs[f][field] = g.funcs[f][field]

(* The new statement takes an edge that was free.                          *)
EdgeIsFree(g, edge) == g.activeStat # NULL => g.stat[g.activeStat][edge] = NULL

-----------------------------------------------------------------------------
(* What a statement that is added does to the old ones, and what it is.    *)
OldKept(g, h, edge, s) ==
  /\ s \in Statements(h) /\ s # NewId(g)
  /\ h.stat[s].statementType = g.stat[s].statementType
  /\ h.stat[s].parentStatement = g.stat[s].parentStatement
  /\ h.stat[s].parentBranchStatement = g.stat[s].parentBranchStatement
  /\ h.stat[s].localSymbolTable = g.stat[s].localSymbolTable
  /\ \A field \in Edges :
       h.stat[s][field] = IF s = g.activeStat /\ field = edge THEN NewId(g)
                          ELSE g.stat[s][field]
  /\ h.stat[s].popCount =
       IF s = g.activeStat /\ edge = "followingStatement" /\ ClosesIf(g.stat[s])
       THEN g.stat[s].popCount + 1 ELSE g.stat[s].popCount

NewAdded(g, h, type) ==
  /\ NewId(g) \in Statements(h)
  /\ Statements(h) = Statements(g) \union {NewId(g)} /\ NewId(g) \notin Statements(g)
  /\ IsNew(h.stat[NewId(g)], type, g.activeStat, NewId(g))
  /\ \A field \in Edges : h.stat[NewId(g)][field] = NULL
  /\ NewId(g) # NULL /\ NewId(g) \in Nat

LEMMA GrowsOld ==
  ASSUME NEW g, NEW tables, GraphInv(g, tables), NEW h, NEW edge \in Edges, NEW type,
         Grows(g, h, edge, type, FuncNames), NEW s \in Statements(g)
  PROVE  OldKept(g, h, edge, s)
<1>1. /\ Len(g.stat) \in Nat /\ Len(h.stat) = NewId(g) /\ s \in 1 .. Len(g.stat)
      /\ s # NULL
  BY GraphParts DEF GraphInv, Grows, StatementsGrow, Statements, NULL
<1>2. s \in Statements(h) /\ s # NewId(g) BY <1>1 DEF Statements, NewId
<1>3. CASE s # g.activeStat
  <2>1. h.stat[s] = g.stat[s] BY <1>3 DEF Grows, StatementsGrow
  <2> QED BY <1>2, <1>3, <2>1 DEF OldKept
<1>4. CASE s = g.activeStat
  <2> DEFINE old == g.stat[s]
             new == h.stat[s]
             n == NewId(g)
  <2>1. GainsEdge(old, new, edge, n) BY <1>1, <1>4 DEF Grows, StatementsGrow
  <2> HIDE DEF old, new, n
  <2>2. \A field \in Edges : new[field] = IF field = edge THEN n ELSE old[field]
    BY <2>1 DEF GainsEdge, Edges
  <2>3. new.popCount = IF edge = "followingStatement" /\ ClosesIf(old)
                       THEN old.popCount + 1 ELSE old.popCount
    BY <2>1 DEF GainsEdge
  <2>4. /\ new.statementType = old.statementType /\ new.parentStatement = old.parentStatement
        /\ new.parentBranchStatement = old.parentBranchStatement
        /\ new.localSymbolTable = old.localSymbolTable
    BY <2>1 DEF GainsEdge
  <2> QED BY <1>2, <1>4, <2>2, <2>3, <2>4 DEF old, new, n, OldKept
<1> QED BY <1>3, <1>4

LEMMA GrowsNew ==
  ASSUME NEW g, NEW tables, GraphInv(g, tables), NEW h, NEW edge \in Edges, NEW type,
         Grows(g, h, edge, type, FuncNames)
  PROVE  NewAdded(g, h, type)
<1>1. Len(g.stat) \in Nat /\ Len(h.stat) = NewId(g)
      /\ IsNew(h.stat[NewId(g)], type, g.activeStat, NewId(g))
  BY GraphParts DEF GraphInv, Grows, StatementsGrow
<1>2. \A field \in Edges : h.stat[NewId(g)][field] = NULL BY <1>1 DEF IsNew, Edges
<1> QED BY <1>1, <1>2 DEF Statements, NewId, NULL, NewAdded

LEMMA GrowsLinks ==
  ASSUME NEW g, NEW tables, GraphInv(g, tables), NEW h, NEW edge \in Edges, NEW type,
         Grows(g, h, edge, type, FuncNames), EdgeIsFree(g, edge), g.activeFunc # NULL
  PROVE  \A s \in Statements(h) : LinkedOnce(h, s)
<1> DEFINE n == NewId(g)
<1>1. /\ Statements(h) = Statements(g) \union {n} /\ n \notin Statements(g) /\ n # NULL
      /\ h.stat[n].parentStatement = g.activeStat
      /\ \A field \in Edges : h.stat[n][field] = NULL
  BY GrowsNew DEF IsNew, NewAdded
<1>2. /\ NULL \notin Statements(g) /\ g.activeStat \in {NULL} \union Statements(g)
      /\ g.activeFunc \in 1 .. Len(g.funcs) /\ Len(h.funcs) = Len(g.funcs)
  <2>1. NULL \notin Statements(g) BY DEF Statements, NULL
  <2>2. g.activeStat \in {NULL} \union Statements(g) /\ g.activeFunc \in 1 .. Len(g.funcs)
    BY DEF GraphInv, GraphOK
  <2>3. Len(h.funcs) = Len(g.funcs) BY DEF Grows, FunctionsKept
  <2> QED BY <2>1, <2>2, <2>3
<1>3. ASSUME NEW p \in Statements(g)
      PROVE  \A field \in Edges :
               h.stat[p][field] = IF p = g.activeStat /\ field = edge THEN n ELSE g.stat[p][field]
  <2>1. OldKept(g, h, edge, p) BY GrowsOld
  <2> QED BY <2>1 DEF OldKept
<1>4. \A f \in 1 .. Len(g.funcs) :
        h.funcs[f].rootStatement = IF f = g.activeFunc /\ g.funcs[f].rootStatement = NULL
                                   THEN n ELSE g.funcs[f].rootStatement
  BY DEF Grows, FunctionsKept
<1>5. \A p \in Statements(g) : \A field \in Edges : g.stat[p][field] \in {NULL} \union Statements(g)
  BY DEF GraphInv, PointersOK, PointersIn
<1>6. \A f \in 1 .. Len(g.funcs) : g.funcs[f].rootStatement \in {NULL} \union Statements(g)
  BY DEF GraphInv, PointersOK, PointersIn
<1> HIDE DEF n
<1>7. ASSUME NEW s \in Statements(g) PROVE LinkedOnce(h, s)
  <2>1. PredecessorsIn(h, s) = PredecessorsIn(g, s)
    <3>1. ASSUME NEW p \in Statements(h), NEW field \in Edges
          PROVE  h.stat[p][field] = s <=> p \in Statements(g) /\ g.stat[p][field] = s
      BY <1>1, <1>2, <1>3, <1>7, <3>1 DEF EdgeIsFree
    <3> QED BY <1>1, <3>1 DEF PredecessorsIn
  <2>2. RootsAt(h, s) = RootsAt(g, s)
    <3>1. ASSUME NEW f \in 1 .. Len(g.funcs)
          PROVE  h.funcs[f].rootStatement = s <=> g.funcs[f].rootStatement = s
      BY <1>1, <1>2, <1>4, <1>7
    <3> QED BY <1>2, <3>1 DEF RootsAt
  <2>3. h.stat[s].parentStatement = g.stat[s].parentStatement
    <3>1. OldKept(g, h, edge, s) BY GrowsOld
    <3> QED BY <3>1 DEF OldKept
  <2>4. LinkedOnce(g, s) BY DEF GraphInv
  <2> QED BY <1>2, <2>1, <2>2, <2>3, <2>4 DEF LinkedOnce
<1>8. LinkedOnce(h, n)
  <2>1. CASE g.activeStat = NULL
    <3>1. PredecessorsIn(h, n) = {} BY <1>1, <1>2, <1>3, <1>5, <2>1 DEF PredecessorsIn
    <3>2. g.funcs[g.activeFunc].rootStatement = NULL BY <2>1 DEF GraphInv, RootIsMade
    <3>3. RootsAt(h, n) = {g.activeFunc} BY <1>1, <1>2, <1>4, <1>6, <3>2 DEF RootsAt
    <3> QED BY <1>1, <1>2, <2>1, <3>1, <3>3 DEF LinkedOnce
  <2>2. CASE g.activeStat # NULL
    <3>1. g.funcs[g.activeFunc].rootStatement # NULL BY <2>2 DEF GraphInv, RootIsMade
    <3>2. RootsAt(h, n) = {} BY <1>1, <1>2, <1>4, <1>6, <3>1 DEF RootsAt
    <3>3. g.activeStat \in Statements(g) BY <1>2, <2>2
    <3>4. ASSUME NEW p \in Statements(h), NEW field \in Edges
          PROVE  h.stat[p][field] = n <=> p = g.activeStat /\ field = edge
      BY <1>1, <1>3, <1>5, <3>3
    <3>5. PredecessorsIn(h, n) = {<<g.activeStat, edge>>}
      BY <1>1, <3>3, <3>4 DEF PredecessorsIn
    <3> QED BY <1>1, <3>2, <3>5 DEF LinkedOnce
  <2> QED BY <2>1, <2>2
<1> QED BY <1>1, <1>7, <1>8

LEMMA GrowsKeepsGraph ==
  ASSUME NEW g, NEW tables, GraphInv(g, tables), g.activeFunc # NULL,
         NEW h, NEW edge \in Edges, NEW type,
         Grows(g, h, edge, type, FuncNames), EdgeIsFree(g, edge),
         NEW more \in Nat, tables <= more, h.stat[NewId(g)].localSymbolTable <= more
  PROVE  GraphInv(h, more)
<1> DEFINE n == NewId(g)
<1>1. NewAdded(g, h, type) BY GrowsNew
<1>2. \A s \in Statements(g) : OldKept(g, h, edge, s) BY GrowsOld
<1>3. /\ h \in Graphs(FuncNames) /\ h.activeStat = n /\ h.activeFunc = g.activeFunc
      /\ h.mainFunc = g.mainFunc /\ FunctionsKept(g, h)
      /\ Len(h.funcs) = Len(g.funcs)
  BY DEF Grows, FunctionsKept
<1>4. /\ Statements(h) = Statements(g) \union {n} /\ n \in Nat /\ n # NULL
      /\ IsNew(h.stat[n], type, g.activeStat, n) /\ n = Len(g.stat) + 1 /\ Len(g.stat) \in Nat
      /\ Len(h.stat) = n /\ Statements(h) = 1 .. n
  <2>1. Len(g.stat) \in Nat BY GraphParts DEF GraphInv
  <2>2. Len(h.stat) = n BY DEF Grows, StatementsGrow
  <2> QED BY <1>1, <2>1, <2>2 DEF NewAdded, NewId, Statements
<1>5. /\ GraphOK(g, FuncNames) /\ PointersOK(g) /\ TablesOK(g, tables) /\ ActiveIsLast(g)
      /\ RootIsMade(g) /\ MainIsMain(g) /\ tables \in Nat
      /\ g.activeStat \in {NULL} \union Statements(g)
      /\ g.activeFunc \in 1 .. Len(g.funcs)
  BY DEF GraphInv, GraphOK
<1> HIDE DEF n
<1>6. GraphOK(h, FuncNames)
  <2>1. ParentsBefore(h)
    <3>1. ASSUME NEW s \in Statements(g) PROVE h.stat[s].parentStatement < s
      BY <1>2, <1>5 DEF OldKept, GraphOK, ParentsBefore
    <3>2. h.stat[n].parentStatement < n BY <1>4, <1>5 DEF IsNew, Statements, NULL
    <3> QED BY <1>4, <3>1, <3>2 DEF ParentsBefore
  <2> QED BY <1>3, <1>4, <1>5, <2>1 DEF GraphOK
<1>7. PointersOK(h)
  <2>1. PointersIn(g) \subseteq PointersIn(h) /\ n \in PointersIn(h) /\ NULL \in PointersIn(h)
    BY <1>4 DEF PointersIn
  <2>2. ASSUME NEW s \in Statements(g)
        PROVE  /\ h.stat[s].parentStatement \in PointersIn(h)
               /\ h.stat[s].parentBranchStatement \in PointersIn(h)
               /\ \A field \in Edges : h.stat[s][field] \in PointersIn(h)
               /\ h.stat[s].popCount <= 2
    <3>1. OldKept(g, h, edge, s) BY <1>2
    <3>2. /\ h.stat[s].parentStatement \in PointersIn(h)
          /\ h.stat[s].parentBranchStatement \in PointersIn(h)
      BY <1>5, <2>1, <3>1 DEF OldKept, PointersOK
    <3>3. \A field \in Edges : h.stat[s][field] \in PointersIn(h)
      BY <1>5, <2>1, <3>1 DEF OldKept, PointersOK, n
    <3>4. h.stat[s].popCount <= 2
      <4>1. g.stat[s].popCount \in Nat /\ g.stat[s].popCount <= 2
        <5>1. g.stat[s] \in StatementRecords BY <1>5, GraphParts
        <5>2. g.stat[s].popCount \in Nat BY <5>1 DEF StatementRecords
        <5> QED BY <1>5, <5>2 DEF PointersOK
      <4>2. CASE s = g.activeStat /\ edge = "followingStatement" /\ ClosesIf(g.stat[s])
        <5>1. g.stat[s].popCount <= 1
          <6>1. s # NULL BY <1>4 DEF Statements, NULL
          <6> QED BY <1>5, <4>2, <6>1 DEF ActiveIsLast
        <5>2. h.stat[s].popCount = g.stat[s].popCount + 1 BY <3>1, <4>2 DEF OldKept
        <5> QED BY <4>1, <5>1, <5>2
      <4>3. CASE ~ (s = g.activeStat /\ edge = "followingStatement" /\ ClosesIf(g.stat[s]))
        <5>1. h.stat[s].popCount = g.stat[s].popCount BY <3>1, <4>3 DEF OldKept
        <5> QED BY <4>1, <5>1
      <4> QED BY <4>2, <4>3
    <3> QED BY <3>2, <3>3, <3>4
  <2>3. /\ h.stat[n].parentStatement \in PointersIn(h)
        /\ h.stat[n].parentBranchStatement \in PointersIn(h)
        /\ \A field \in Edges : h.stat[n][field] \in PointersIn(h)
        /\ h.stat[n].popCount <= 2
    <3>1. \A field \in Edges : h.stat[n][field] = NULL BY <1>1 DEF NewAdded, n
    <3>2. h.stat[n].parentStatement \in PointersIn(h) BY <1>4, <1>5, <2>1 DEF IsNew, PointersIn
    <3>3. h.stat[n].parentBranchStatement \in Nat /\ h.stat[n].parentBranchStatement <= n
      BY <1>4 DEF IsNew, StatementRecords
    <3>4. h.stat[n].parentBranchStatement \in PointersIn(h)
      BY <1>4, <3>3 DEF PointersIn, NULL
    <3> QED BY <1>4, <2>1, <3>1, <3>2, <3>4 DEF IsNew
  <2>4. \A f \in 1 .. Len(h.funcs) : h.funcs[f].rootStatement \in PointersIn(h)
    BY <1>3, <1>5, <2>1 DEF FunctionsKept, PointersOK, n
  <2> QED BY <1>3, <1>4, <1>5, <2>2, <2>3, <2>4 DEF PointersOK
<1>8. TablesOK(h, more)
  <2>1. ASSUME NEW s \in Statements(g) PROVE h.stat[s].localSymbolTable <= more
    <3>1. OldKept(g, h, edge, s) BY <1>2
    <3>2. g.stat[s] \in StatementRecords BY <1>5, GraphParts
    <3>3. g.stat[s].localSymbolTable \in Nat BY <3>2 DEF StatementRecords
    <3>4. g.stat[s].localSymbolTable <= tables BY <1>5 DEF TablesOK
    <3> QED BY <1>5, <3>1, <3>3, <3>4 DEF OldKept
  <2>2. ASSUME NEW f \in 1 .. Len(g.funcs) PROVE h.funcs[f].symbolTable <= more
    <3>1. g.funcs[f] \in FunctionRecords(FuncNames) BY <1>5, GraphParts
    <3>2. g.funcs[f].symbolTable \in Nat BY <3>1 DEF FunctionRecords
    <3>3. g.funcs[f].symbolTable <= tables BY <1>5 DEF TablesOK
    <3>4. h.funcs[f].symbolTable = g.funcs[f].symbolTable BY <1>3 DEF FunctionsKept
    <3> QED BY <1>5, <3>2, <3>3, <3>4
  <2> QED BY <1>3, <1>4, <2>1, <2>2 DEF TablesOK, n
<1>9. \A s \in Statements(h) : LinkedOnce(h, s) BY GrowsLinks
<1>10. ActiveIsLast(h) BY <1>3, <1>4 DEF ActiveIsLast, IsNew
<1>11. RootIsMade(h)
  <2>1. h.funcs[h.activeFunc].rootStatement # NULL
    BY <1>3, <1>4, <1>5 DEF FunctionsKept, n
  <2> QED BY <1>3, <1>4, <1>5, <2>1 DEF RootIsMade
<1>12. MainIsMain(h)
  <2>1. g.mainFunc # NULL => g.mainFunc \in 1 .. Len(g.funcs)
    <3>1. g.mainFunc \in 0 .. Len(g.funcs) BY <1>5 DEF PointersOK
    <3>2. Len(g.funcs) \in Nat BY <1>5, GraphParts
    <3> QED BY <3>1, <3>2 DEF NULL
  <2> QED BY <1>3, <1>5, <2>1 DEF MainIsMain, FunctionsKept
<1> QED BY <1>6, <1>7, <1>8, <1>9, <1>10, <1>11, <1>12 DEF GraphInv

LEMMA GrowsIsFinal ==
  ASSUME NEW g, NEW tables, GraphInv(g, tables),
         NEW h, NEW edge \in Edges, NEW type,
         Grows(g, h, edge, type, FuncNames), EdgeIsFree(g, edge)
  PROVE  FinalStep(g, h)
<1>1. ASSUME NEW s \in Statements(g)
      PROVE  /\ \A field \in Edges :
                  g.stat[s][field] # NULL => h.stat[s][field] = g.stat[s][field]
             /\ h.stat[s].localSymbolTable = g.stat[s].localSymbolTable
  <2>1. OldKept(g, h, edge, s) BY GrowsOld
  <2>2. s # NULL BY DEF Statements, NULL
  <2> QED BY <2>1, <2>2 DEF OldKept, EdgeIsFree
<1>2. ASSUME NEW f \in 1 .. Len(g.funcs), NEW field \in {"rootStatement", "symbolTable"},
             g.funcs[f][field] # NULL
      PROVE  h.funcs[f][field] = g.funcs[f][field]
  BY <1>2 DEF Grows, FunctionsKept
<1> QED BY <1>1, <1>2 DEF FinalStep

-----------------------------------------------------------------------------
(* A step that adds nothing: only counts, ASTs and the cursor may change.  *)
SameShape(g, h) ==
  /\ h \in Graphs(FuncNames)
  /\ h.funcs = g.funcs /\ h.activeFunc = g.activeFunc /\ h.mainFunc = g.mainFunc
  /\ Len(h.stat) = Len(g.stat)
  /\ h.activeStat \in Statements(g) \union {NULL}
  /\ (h.activeStat = NULL) = (g.activeStat = NULL)
  /\ \A s \in Statements(g) :
       /\ h.stat[s].parentStatement = g.stat[s].parentStatement
       /\ h.stat[s].parentBranchStatement = g.stat[s].parentBranchStatement
       /\ h.stat[s].localSymbolTable = g.stat[s].localSymbolTable
       /\ \A field \in Edges : h.stat[s][field] = g.stat[s][field]
       /\ h.stat[s].popCount <= 2

LEMMA SameShapeKeepsGraph ==
  ASSUME NEW g, NEW tables, GraphInv(g, tables), NEW h, SameShape(g, h), ActiveIsLast(h)
  PROVE  GraphInv(h, tables) /\ FinalStep(g, h)
<1>1. /\ h \in Graphs(FuncNames) /\ h.funcs = g.funcs /\ h.activeFunc = g.activeFunc
      /\ h.mainFunc = g.mainFunc /\ Statements(h) = Statements(g)
      /\ h.activeStat \in Statements(g) \union {NULL}
      /\ (h.activeStat = NULL) = (g.activeStat = NULL)
  BY DEF SameShape, Statements
<1>2. ASSUME NEW s \in Statements(g)
      PROVE  /\ h.stat[s].parentStatement = g.stat[s].parentStatement
             /\ h.stat[s].parentBranchStatement = g.stat[s].parentBranchStatement
             /\ h.stat[s].localSymbolTable = g.stat[s].localSymbolTable
             /\ \A field \in Edges : h.stat[s][field] = g.stat[s][field]
             /\ h.stat[s].popCount <= 2
  BY DEF SameShape
<1>3. /\ GraphOK(g, FuncNames) /\ PointersOK(g) /\ TablesOK(g, tables) /\ tables \in Nat
      /\ RootIsMade(g) /\ MainIsMain(g) /\ \A s \in Statements(g) : LinkedOnce(g, s)
  BY DEF GraphInv
<1>4. GraphOK(h, FuncNames) BY <1>1, <1>2, <1>3 DEF GraphOK, ParentsBefore
<1>5. PointersOK(h)
  <2>1. PointersIn(h) = PointersIn(g) BY <1>1 DEF PointersIn
  <2> QED BY <1>1, <1>2, <1>3, <2>1 DEF PointersOK
<1>6. TablesOK(h, tables) BY <1>1, <1>2, <1>3 DEF TablesOK
<1>7. ASSUME NEW s \in Statements(h) PROVE LinkedOnce(h, s)
  <2>1. ASSUME NEW e \in Statements(g) \X Edges
        PROVE  h.stat[e[1]][e[2]] = s <=> g.stat[e[1]][e[2]] = s
    <3>1. e[1] \in Statements(g) /\ e[2] \in Edges OBVIOUS
    <3> QED BY <1>2, <3>1
  <2>2. PredecessorsIn(h, s) = PredecessorsIn(g, s) BY <1>1, <2>1 DEF PredecessorsIn
  <2>3. RootsAt(h, s) = RootsAt(g, s) BY <1>1 DEF RootsAt
  <2>4. h.stat[s].parentStatement = g.stat[s].parentStatement BY <1>1, <1>2
  <2>5. LinkedOnce(g, s) BY <1>1, <1>3
  <2> QED BY <1>1, <2>2, <2>3, <2>4, <2>5 DEF LinkedOnce
<1>8. RootIsMade(h) BY <1>1, <1>3 DEF RootIsMade
<1>9. MainIsMain(h) BY <1>1, <1>3 DEF MainIsMain
<1>10. FinalStep(g, h) BY <1>1, <1>2 DEF FinalStep
<1> QED BY <1>3, <1>4, <1>5, <1>6, <1>7, <1>8, <1>9, <1>10 DEF GraphInv

LEMMA PopKeepsGraph ==
  ASSUME NEW g, NEW tables, GraphInv(g, tables), g.activeStat # NULL,
         NEW n \in Statements(g), NEW h, PopsTo(g, h, n, FuncNames),
         g.stat[n].popCount <= 1, g.stat[n].followingStatement = NULL,
         ClosesIf(g.stat[n]) => g.stat[n].popCount = 0
  PROVE  GraphInv(h, tables) /\ FinalStep(g, h)
<1>1. n # NULL /\ \A s \in Statements(g) : g.stat[s].popCount \in Nat /\ g.stat[s].popCount <= 2
  <2>1. ASSUME NEW s \in Statements(g) PROVE g.stat[s].popCount \in Nat /\ g.stat[s].popCount <= 2
    <3>1. g.stat[s] \in StatementRecords BY GraphParts DEF GraphInv
    <3>2. g.stat[s].popCount \in Nat BY <3>1 DEF StatementRecords
    <3> QED BY <3>2 DEF GraphInv, PointersOK
  <2> QED BY <2>1 DEF Statements, NULL
<1>2. /\ h \in Graphs(FuncNames) /\ h.funcs = g.funcs /\ h.activeStat = n
      /\ h.activeFunc = g.activeFunc /\ h.mainFunc = g.mainFunc /\ Len(h.stat) = Len(g.stat)
      /\ h.stat[n].popCount = g.stat[n].popCount + 1
      /\ \A s \in Statements(g) : s # n => h.stat[s] = g.stat[s]
  BY DEF PopsTo
<1>3. ASSUME NEW s \in Statements(g)
      PROVE  /\ h.stat[s].statementType = g.stat[s].statementType
             /\ h.stat[s].parentStatement = g.stat[s].parentStatement
             /\ h.stat[s].parentBranchStatement = g.stat[s].parentBranchStatement
             /\ h.stat[s].localSymbolTable = g.stat[s].localSymbolTable
             /\ \A field \in Edges : h.stat[s][field] = g.stat[s][field]
  <2>1. \A field \in {"statementType", "parentStatement", "followingStatement",
                      "thenStatement", "elseStatement", "bodyStatement",
                      "parentBranchStatement", "localSymbolTable"} :
          h.stat[s][field] = g.stat[s][field]
    BY DEF PopsTo
  <2> QED BY <2>1 DEF Edges
<1>4. ASSUME NEW s \in Statements(g) PROVE h.stat[s].popCount <= 2
  BY <1>1, <1>2
<1>5. SameShape(g, h) BY <1>1, <1>2, <1>3, <1>4 DEF SameShape
<1>6. ActiveIsLast(h)
  <2>1. h.stat[n].followingStatement = NULL BY <1>3 DEF Edges
  <2>2. ClosesIf(h.stat[n]) => ClosesIf(g.stat[n]) BY <1>3 DEF ClosesIf, Edges
  <2> QED BY <1>1, <1>2, <2>1, <2>2 DEF ActiveIsLast
<1> QED BY <1>5, <1>6, SameShapeKeepsGraph

LEMMA AstKeepsGraph ==
  ASSUME NEW g, NEW tables, GraphInv(g, tables), NEW h, SameButAst(g, h, FuncNames)
  PROVE  GraphInv(h, tables) /\ FinalStep(g, h)
<1>1. ASSUME NEW s \in Statements(g)
      PROVE  /\ h.stat[s].statementType = g.stat[s].statementType
             /\ h.stat[s].parentStatement = g.stat[s].parentStatement
             /\ h.stat[s].parentBranchStatement = g.stat[s].parentBranchStatement
             /\ h.stat[s].localSymbolTable = g.stat[s].localSymbolTable
             /\ \A field \in Edges : h.stat[s][field] = g.stat[s][field]
             /\ h.stat[s].popCount = g.stat[s].popCount
  <2>1. \A field \in {"statementType", "parentStatement", "followingStatement",
                      "thenStatement", "elseStatement", "bodyStatement",
                      "parentBranchStatement", "localSymbolTable", "popCount"} :
          h.stat[s][field] = g.stat[s][field]
    BY DEF SameButAst
  <2> QED BY <2>1 DEF Edges
<1>2. /\ h \in Graphs(FuncNames) /\ h.funcs = g.funcs /\ h.activeStat = g.activeStat
      /\ h.activeFunc = g.activeFunc /\ h.mainFunc = g.mainFunc /\ Len(h.stat) = Len(g.stat)
  BY DEF SameButAst
<1>3. g.activeStat \in {NULL} \union Statements(g) /\ ActiveIsLast(g) /\ PointersOK(g)
  BY DEF GraphInv, GraphOK
<1>4. SameShape(g, h) BY <1>1, <1>2, <1>3 DEF SameShape, PointersOK
<1>5. ActiveIsLast(h) BY <1>1, <1>2, <1>3 DEF ActiveIsLast, ClosesIf, Edges
<1> QED BY <1>4, <1>5, SameShapeKeepsGraph

LEMMA RaiseKeepsGraph ==
  ASSUME NEW g, NEW tables, GraphInv(g, tables), NEW err \in CFErrors
  PROVE  GraphInv(Raise(g, err), tables) /\ FinalStep(g, Raise(g, err))
<1> DEFINE h == Raise(g, err)
<1>1. g \in Graphs(FuncNames) /\ g.activeStat \in {NULL} \union Statements(g)
        /\ ActiveIsLast(g) /\ PointersOK(g)
  BY DEF GraphInv, GraphOK
<1>2. /\ h \in Graphs(FuncNames) /\ h.funcs = g.funcs /\ h.activeStat = g.activeStat
      /\ h.activeFunc = g.activeFunc /\ h.mainFunc = g.mainFunc /\ h.stat = g.stat
  BY <1>1 DEF Raise, Graphs
<1> HIDE DEF h
<1>3. SameShape(g, h) BY <1>1, <1>2 DEF SameShape, PointersOK
<1>4. ActiveIsLast(h) BY <1>1, <1>2 DEF ActiveIsLast
<1>5. GraphInv(h, tables) /\ FinalStep(g, h) BY <1>3, <1>4, SameShapeKeepsGraph
<1> QED BY <1>5 DEF h

(* A longer bound on the tables. *)
LEMMA MoreTables ==
  ASSUME NEW g, NEW tables, GraphInv(g, tables), NEW more \in Nat, tables <= more
  PROVE  GraphInv(g, more)
<1>1. ASSUME NEW s \in Statements(g) PROVE g.stat[s].localSymbolTable <= more
  <2>1. g.stat[s] \in StatementRecords BY GraphParts DEF GraphInv
  <2>2. g.stat[s].localSymbolTable \in Nat BY <2>1 DEF StatementRecords
  <2> QED BY <2>2 DEF GraphInv, TablesOK
<1>2. ASSUME NEW f \in 1 .. Len(g.funcs) PROVE g.funcs[f].symbolTable <= more
  <2>1. g.funcs[f] \in FunctionRecords(FuncNames) BY GraphParts DEF GraphInv
  <2>2. g.funcs[f].symbolTable \in Nat BY <2>1 DEF FunctionRecords
  <2> QED BY <2>2 DEF GraphInv, TablesOK
<1> QED BY <1>1, <1>2 DEF GraphInv, TablesOK

(* A new function, as a node without statements and table.                 *)
LEMMA FunctionKeepsGraph ==
  ASSUME NEW g, NEW tables, GraphInv(g, tables), NEW name \in FuncNames,
         ~ (name = Main /\ g.mainFunc # NULL)
  PROVE  LET h == cf_make_function(g, name)
         IN  /\ GraphInv(h, tables) /\ FinalStep(g, h)
             /\ Len(h.funcs) = Len(g.funcs) + 1 /\ h.stat = g.stat
             /\ h.activeStat = NULL /\ h.activeFunc = Len(h.funcs)
             /\ h.funcs[Len(h.funcs)].symbolTable = NULL
             /\ h.funcs[Len(h.funcs)].rootStatement = NULL
             /\ \A i \in 1 .. Len(g.funcs) : h.funcs[i] = g.funcs[i]
             /\ h.cf_error = g.cf_error
<1> DEFINE f == [name |-> name, rootStatement |-> NULL, symbolTable |-> NULL]
           n == Len(g.funcs) + 1
           funcs == Append(g.funcs, f)
           h == cf_make_function(g, name)
<1>1. /\ g \in Graphs(FuncNames) /\ PointersOK(g) /\ TablesOK(g, tables) /\ MainIsMain(g)
      /\ tables \in Nat /\ \A s \in Statements(g) : LinkedOnce(g, s)
      /\ ParentsBefore(g) /\ Len(g.funcs) \in Nat /\ g.funcs \in Seq(FunctionRecords(FuncNames))
  BY GraphParts DEF GraphInv, GraphOK
<1>2. f \in FunctionRecords(FuncNames) BY DEF FunctionRecords, NULL
<1>3. /\ funcs \in Seq(FunctionRecords(FuncNames)) /\ Len(funcs) = n /\ funcs[n] = f
      /\ n \in Nat /\ n # NULL
      /\ \A i \in 1 .. Len(g.funcs) : funcs[i] = g.funcs[i]
  <2> HIDE DEF f
  <2> QED BY <1>1, <1>2 DEF NULL
<1>4. h = [g EXCEPT !.funcs = funcs, !.mainFunc = IF name = Main THEN n ELSE @,
                    !.activeStat = NULL, !.activeFunc = n]
  <2>1. [g EXCEPT !.funcs = Append(@, f)].funcs = funcs BY <1>1 DEF Graphs
  <2> HIDE DEF f, funcs
  <2> QED BY <1>1, <1>3, <2>1 DEF cf_make_function, f, funcs, Graphs
<1> HIDE DEF h, funcs
<1>5. /\ h.stat = g.stat /\ h.funcs = funcs /\ h.activeStat = NULL /\ h.activeFunc = n
      /\ h.mainFunc = (IF name = Main THEN n ELSE g.mainFunc) /\ h.cf_error = g.cf_error
      /\ h \in Graphs(FuncNames)
  BY <1>1, <1>3, <1>4 DEF Graphs, NULL
<1>6. Statements(h) = Statements(g) /\ NULL \notin Statements(g)
  BY <1>5 DEF Statements, NULL
<1>7. f.rootStatement = NULL /\ f.symbolTable = NULL /\ f.name = name OBVIOUS
<1> HIDE DEF f
<1>8. GraphOK(h, FuncNames)
  BY <1>1, <1>3, <1>5, <1>6 DEF GraphOK, ParentsBefore
<1>9. PointersOK(h)
  <2>1. PointersIn(h) = PointersIn(g) /\ NULL \in PointersIn(h) BY <1>6 DEF PointersIn
  <2>2. \A i \in 1 .. n : i \in 1 .. Len(g.funcs) \/ i = n BY <1>1
  <2>3. \A i \in 1 .. n : funcs[i].rootStatement \in PointersIn(h)
    BY <1>1, <1>3, <1>7, <2>1, <2>2 DEF PointersOK
  <2>4. h.mainFunc \in 0 .. n
    <3>1. g.mainFunc \in 0 .. Len(g.funcs) BY <1>1 DEF PointersOK
    <3> QED BY <1>1, <1>3, <1>5, <3>1
  <2> QED BY <1>1, <1>3, <1>5, <1>6, <2>1, <2>3, <2>4 DEF PointersOK
<1>10. TablesOK(h, tables)
  <2>1. \A i \in 1 .. n : i \in 1 .. Len(g.funcs) \/ i = n BY <1>1
  <2>2. \A i \in 1 .. n : funcs[i].symbolTable <= tables
    BY <1>1, <1>3, <1>7, <2>1 DEF TablesOK, NULL
  <2> QED BY <1>1, <1>3, <1>5, <1>6, <2>2 DEF TablesOK
<1>11. ASSUME NEW s \in Statements(h) PROVE LinkedOnce(h, s)
  <2>1. PredecessorsIn(h, s) = PredecessorsIn(g, s) BY <1>5, <1>6 DEF PredecessorsIn
  <2>2. RootsAt(h, s) = RootsAt(g, s)
    <3>1. \A i \in 1 .. n : i \in 1 .. Len(g.funcs) \/ i = n BY <1>1
    <3>2. s # NULL BY <1>6
    <3>3. ASSUME NEW i \in 1 .. n
          PROVE  funcs[i].rootStatement = s
                   <=> i \in 1 .. Len(g.funcs) /\ g.funcs[i].rootStatement = s
      <4>1. CASE i = n BY <1>1, <1>3, <1>7, <3>2, <4>1
      <4>2. CASE i \in 1 .. Len(g.funcs) BY <1>3, <4>2
      <4> QED BY <3>1, <4>1, <4>2
    <3>4. 1 .. Len(g.funcs) \subseteq 1 .. n /\ Len(h.funcs) = n /\ h.funcs = funcs
      BY <1>1, <1>3, <1>5
    <3> QED BY <3>3, <3>4 DEF RootsAt
  <2>3. LinkedOnce(g, s) BY <1>1, <1>6
  <2>4. 1 .. Len(g.funcs) \subseteq 1 .. Len(h.funcs) BY <1>1, <1>3, <1>5
  <2> QED BY <1>5, <2>1, <2>2, <2>3, <2>4 DEF LinkedOnce
<1>12. ActiveIsLast(h) BY <1>5 DEF ActiveIsLast
<1>13. RootIsMade(h) BY <1>3, <1>5, <1>7 DEF RootIsMade
<1>14. MainIsMain(h)
  <2>1. g.mainFunc \in 0 .. Len(g.funcs) BY <1>1 DEF PointersOK
  <2>2. CASE name = Main BY <1>3, <1>5, <1>7, <2>2 DEF MainIsMain
  <2>3. CASE name # Main BY <1>1, <1>3, <1>5, <2>1, <2>3 DEF MainIsMain, NULL
  <2> QED BY <2>2, <2>3
<1>15. FinalStep(g, h) BY <1>3, <1>5 DEF FinalStep
<1>16. GraphInv(h, tables)
  BY <1>1, <1>8, <1>9, <1>10, <1>11, <1>12, <1>13, <1>14 DEF GraphInv
<1> QED BY <1>3, <1>5, <1>7, <1>15, <1>16 DEF h

(* The table of a function that has no statement yet.                      *)
LEMMA FunctionTableKeepsGraph ==
  ASSUME NEW g, NEW tables, GraphInv(g, tables), g.activeFunc # NULL, g.activeStat = NULL,
         g.funcs[g.activeFunc].symbolTable = NULL
  PROVE  LET h == cf_assign_function_symtable(g, tables + 1)
         IN  /\ GraphInv(h, tables + 1) /\ FinalStep(g, h)
             /\ Len(h.funcs) = Len(g.funcs) /\ h.stat = g.stat
             /\ h.activeStat = NULL /\ h.activeFunc = g.activeFunc
             /\ h.funcs[g.activeFunc].symbolTable = tables + 1
             /\ \A i \in 1 .. Len(g.funcs) :
                  /\ h.funcs[i].rootStatement = g.funcs[i].rootStatement
                  /\ i # g.activeFunc => h.funcs[i] = g.funcs[i]
             /\ h.cf_error = g.cf_error
<1> DEFINE a == g.activeFunc
           table == tables + 1
           old == g.funcs[a]
           f == [old EXCEPT !.symbolTable = table]
           funcs == [g.funcs EXCEPT ![a] = f]
           h == cf_assign_function_symtable(g, tables + 1)
<1>1. /\ g \in Graphs(FuncNames) /\ PointersOK(g) /\ TablesOK(g, tables) /\ MainIsMain(g)
      /\ tables \in Nat /\ table \in Nat /\ \A s \in Statements(g) : LinkedOnce(g, s)
      /\ ParentsBefore(g) /\ g.funcs \in Seq(FunctionRecords(FuncNames)) /\ RootIsMade(g)
      /\ a \in 1 .. Len(g.funcs) /\ old \in FunctionRecords(FuncNames) /\ Len(g.funcs) \in Nat
  BY GraphParts DEF GraphInv, GraphOK
<1>2. old.rootStatement = NULL BY <1>1 DEF RootIsMade
<1>3. h = [g EXCEPT !.funcs = funcs]
  <2>1. h = [g EXCEPT !.funcs[a].symbolTable = table]
    BY <1>1, <1>2 DEF cf_assign_function_symtable
  <2> HIDE DEF h
  <2> QED BY <1>1, <2>1 DEF Graphs
<1> HIDE DEF h
<1>4. /\ f \in FunctionRecords(FuncNames) /\ f.name = old.name /\ f.rootStatement = NULL
      /\ f.symbolTable = table
  <2> HIDE DEF old, table
  <2> QED BY <1>1, <1>2 DEF FunctionRecords
<1> HIDE DEF f
<1>5. /\ funcs \in Seq(FunctionRecords(FuncNames)) /\ Len(funcs) = Len(g.funcs)
      /\ funcs[a] = f /\ \A i \in 1 .. Len(g.funcs) : i # a => funcs[i] = g.funcs[i]
  BY <1>1, <1>4
<1> HIDE DEF funcs
<1>6. /\ h.stat = g.stat /\ h.funcs = funcs /\ h.activeStat = NULL /\ h.activeFunc = a
      /\ h.mainFunc = g.mainFunc /\ h.cf_error = g.cf_error /\ h \in Graphs(FuncNames)
  BY <1>1, <1>3, <1>5 DEF Graphs
<1>7. Statements(h) = Statements(g) BY <1>6 DEF Statements
<1>8. \A i \in 1 .. Len(g.funcs) : funcs[i].rootStatement = g.funcs[i].rootStatement
                                   /\ funcs[i].name = g.funcs[i].name
  BY <1>1, <1>2, <1>4, <1>5
<1>9. GraphOK(h, FuncNames) BY <1>1, <1>5, <1>6, <1>7 DEF GraphOK, ParentsBefore
<1>10. PointersOK(h)
  <2>1. PointersIn(h) = PointersIn(g) BY <1>7 DEF PointersIn
  <2> QED BY <1>1, <1>5, <1>6, <1>7, <1>8, <2>1 DEF PointersOK
<1>11. TablesOK(h, table)
  <2>1. GraphInv(g, table) BY <1>1, MoreTables
  <2>2. TablesOK(g, table) BY <2>1 DEF GraphInv
  <2>3. \A i \in 1 .. Len(g.funcs) : funcs[i].symbolTable <= table
    BY <1>1, <1>4, <1>5, <2>2 DEF TablesOK
  <2> QED BY <1>5, <1>6, <1>7, <2>2, <2>3 DEF TablesOK
<1>12. ASSUME NEW s \in Statements(h) PROVE LinkedOnce(h, s)
  <2>1. PredecessorsIn(h, s) = PredecessorsIn(g, s) BY <1>6, <1>7 DEF PredecessorsIn
  <2>2. RootsAt(h, s) = RootsAt(g, s) BY <1>5, <1>6, <1>8 DEF RootsAt
  <2>3. LinkedOnce(g, s) BY <1>1, <1>7
  <2> QED BY <1>5, <1>6, <2>1, <2>2, <2>3 DEF LinkedOnce
<1>13. ActiveIsLast(h) BY <1>6 DEF ActiveIsLast
<1>14. RootIsMade(h) BY <1>1, <1>4, <1>5, <1>6 DEF RootIsMade
<1>15. MainIsMain(h)
  <2>1. g.mainFunc # NULL => g.mainFunc \in 1 .. Len(g.funcs)
    <3>1. g.mainFunc \in 0 .. Len(g.funcs) BY <1>1 DEF PointersOK
    <3> QED BY <1>1, <3>1 DEF NULL
  <2> QED BY <1>1, <1>6, <1>8, <2>1 DEF MainIsMain
<1>16. FinalStep(g, h)
  <2>1. ASSUME NEW i \in 1 .. Len(g.funcs), NEW field \in {"rootStatement", "symbolTable"},
               g.funcs[i][field] # NULL
        PROVE  h.funcs[i][field] = g.funcs[i][field]
    BY <1>2, <1>5, <1>6, <1>8, <2>1
  <2> QED BY <1>6, <2>1 DEF FinalStep
<1>17. GraphInv(h, table)
  BY <1>1, <1>9, <1>10, <1>11, <1>12, <1>13, <1>14, <1>15 DEF GraphInv
<1> QED BY <1>4, <1>5, <1>6, <1>8, <1>16, <1>17 DEF h

-----------------------------------------------------------------------------
(* The invariant of the recursion, in a program without an error.          *)

Arms == {"then", "else", "for", "elif"}

Headers == {"if_cond", "for_header", "return", "id_next", "else_"}

CallRecords == [at : Places, owner : Nat]

(* The statement that is open while a call has reached a place.            *)
OwnerState(at, st) ==
  /\ at \in {"if_cond", "then", "else_", "else", "elif"} => st.statementType = "CF_IF"
  /\ at \in {"for_header", "for"} => st.statementType = "CF_FOR"
  /\ at \in {"return", "id_next"} => st.statementType = "CF_RETURN"
  /\ st.popCount = IF at \in {"else_", "else", "elif"} THEN 1 ELSE 0
  /\ st.followingStatement = NULL
  /\ at = "if_cond" => st.thenStatement = NULL
  /\ at \in {"if_cond", "then", "else_"} => st.elseStatement = NULL
  /\ at \in {"else", "elif"} => st.elseStatement # NULL
  /\ at = "for_header" => st.bodyStatement = NULL

(* An open call c; in its arm the parser has reached the statement b, and  *)
(* leaving the arm at b returns to the owner of the call.                  *)
Open(g, c, b) ==
  /\ c.owner \in Statements(g)
  /\ OwnerState(c.at, g.stat[c.owner])
  /\ c.at \in Arms =>
       /\ b \in Statements(g)
       /\ c.owner < b
       /\ PoppableAncestor(g)[g.stat[b].parentStatement] = c.owner

(* A finished statement is never popped into again.                        *)
Settled(st) ==
  \/ st.statementType \notin {"CF_IF", "CF_FOR"}
  \/ st.statementType = "CF_IF" /\ st.popCount = 2
  \/ ClosesIf(st) /\ st.popCount = 1
  \/ st.statementType = "CF_FOR" /\ st.popCount = 1

(* The steps of the walk, after a statement is added and after a pop.      *)
LEMMA GrowsWalk ==
  ASSUME NEW g, NEW tables, GraphInv(g, tables), g.activeStat # NULL,
         NEW h, NEW more, GraphInv(h, more), NEW edge \in Edges, NEW type,
         Grows(g, h, edge, type, FuncNames)
  PROVE  /\ \A b \in Statements(g) : b <= g.activeStat =>
              PoppableAncestor(h)[h.stat[b].parentStatement]
                = PoppableAncestor(g)[g.stat[b].parentStatement]
         /\ PoppableAncestor(h)[h.stat[NewId(g)].parentStatement] =
              IF MayPopInto(h.stat[g.activeStat]) THEN g.activeStat
              ELSE PoppableAncestor(g)[g.stat[g.activeStat].parentStatement]
<1> DEFINE a == g.activeStat
           m == a - 1
<1>1. /\ Climbable(g) /\ Climbable(h) /\ a \in Statements(g) /\ Len(g.stat) \in Nat
      /\ Len(h.stat) = Len(g.stat) + 1 /\ a \in Statements(h)
  <2>1. Climbable(g) /\ Climbable(h) BY DEF GraphInv, GraphOK, Graphs, Climbable
  <2>2. Len(g.stat) \in Nat BY GraphParts DEF GraphInv
  <2>3. a \in Statements(g) BY DEF GraphInv, GraphOK
  <2>4. Len(h.stat) = Len(g.stat) + 1 BY DEF Grows, StatementsGrow, NewId
  <2> QED BY <2>1, <2>2, <2>3, <2>4 DEF Statements
<1>2. m \in Nat /\ m <= Len(g.stat) /\ m <= Len(h.stat) BY <1>1 DEF Statements
<1>3. ASSUME NEW s \in 1 .. m PROVE h.stat[s] = g.stat[s]
  <2>1. s \in Statements(g) /\ s # a BY <1>1, <1>2 DEF Statements
  <2> QED BY <2>1 DEF Grows, StatementsGrow
<1> HIDE DEF m
<1>4. \A s \in 0 .. m : PoppableAncestor(h)[s] = PoppableAncestor(g)[s]
  BY <1>1, <1>2, <1>3, PoppableAgrees
<1>5. ASSUME NEW b \in Statements(g), b <= a
      PROVE  PoppableAncestor(h)[h.stat[b].parentStatement]
                = PoppableAncestor(g)[g.stat[b].parentStatement]
  <2>1. OldKept(g, h, edge, b) BY GrowsOld
  <2>2. h.stat[b].parentStatement = g.stat[b].parentStatement BY <2>1 DEF OldKept
  <2>3. g.stat[b].parentStatement \in 0 .. m
    <3>1. ParentOf(g)[b] < b /\ ParentOf(g)[b] \in Nat
            /\ ParentOf(g)[b] = g.stat[b].parentStatement
      BY <1>1, ClimbableParents DEF Statements
    <3> QED BY <1>1, <1>5, <3>1 DEF m, Statements
  <2> QED BY <1>4, <2>2, <2>3
<1>6. h.stat[NewId(g)].parentStatement = a
  <2>1. NewAdded(g, h, type) BY GrowsNew
  <2> QED BY <2>1 DEF NewAdded, IsNew
<1>7. PoppableAncestor(h)[a] = IF MayPopInto(h.stat[a]) THEN a
                               ELSE PoppableAncestor(h)[h.stat[a].parentStatement]
  BY <1>1, PoppableUnfolds
<1>8. a <= a BY <1>1 DEF Statements
<1>9. PoppableAncestor(h)[h.stat[a].parentStatement]
        = PoppableAncestor(g)[g.stat[a].parentStatement]
  BY <1>1, <1>5, <1>8
<1> QED BY <1>5, <1>6, <1>7, <1>9

LEMMA PopWalk ==
  ASSUME NEW g, NEW tables, GraphInv(g, tables), NEW n \in Statements(g),
         NEW h, NEW more, GraphInv(h, more), PopsTo(g, h, n, FuncNames)
  PROVE  \A b \in Statements(g) : b <= n =>
           PoppableAncestor(h)[h.stat[b].parentStatement]
             = PoppableAncestor(g)[g.stat[b].parentStatement]
<1> DEFINE m == n - 1
<1>1. /\ Climbable(g) /\ Climbable(h) /\ Len(g.stat) \in Nat /\ Len(h.stat) = Len(g.stat)
  <2>1. Climbable(g) /\ Climbable(h) BY DEF GraphInv, GraphOK, Graphs, Climbable
  <2>2. Len(g.stat) \in Nat BY GraphParts DEF GraphInv
  <2> QED BY <2>1, <2>2 DEF PopsTo
<1>2. m \in Nat /\ m <= Len(g.stat) /\ m <= Len(h.stat) BY <1>1 DEF Statements
<1>3. ASSUME NEW s \in 1 .. m PROVE h.stat[s] = g.stat[s]
  <2>1. s \in Statements(g) /\ s # n BY <1>1, <1>2 DEF Statements
  <2> QED BY <2>1 DEF PopsTo
<1> HIDE DEF m
<1>4. \A s \in 0 .. m : PoppableAncestor(h)[s] = PoppableAncestor(g)[s]
  BY <1>1, <1>2, <1>3, PoppableAgrees
<1>5. ASSUME NEW b \in Statements(g), b <= n
      PROVE  PoppableAncestor(h)[h.stat[b].parentStatement]
                = PoppableAncestor(g)[g.stat[b].parentStatement]
  <2>1. h.stat[b].parentStatement = g.stat[b].parentStatement BY DEF PopsTo
  <2>2. g.stat[b].parentStatement \in 0 .. m
    <3>1. ParentOf(g)[b] < b /\ ParentOf(g)[b] \in Nat
            /\ ParentOf(g)[b] = g.stat[b].parentStatement
      BY <1>1, ClimbableParents DEF Statements
    <3> QED BY <1>1, <1>5, <3>1 DEF m, Statements
  <2> QED BY <1>4, <2>1, <2>2
<1> QED BY <1>5

LEMMA AstWalk ==
  ASSUME NEW g, NEW tables, GraphInv(g, tables),
         NEW h, NEW more, GraphInv(h, more), SameButAst(g, h, FuncNames)
  PROVE  \A b \in Statements(g) :
           PoppableAncestor(h)[h.stat[b].parentStatement]
             = PoppableAncestor(g)[g.stat[b].parentStatement]
<1> DEFINE m == Len(g.stat)
<1>1. /\ Climbable(g) /\ Climbable(h) /\ m \in Nat /\ Len(h.stat) = m
  <2>1. Climbable(g) /\ Climbable(h) BY DEF GraphInv, GraphOK, Graphs, Climbable
  <2>2. Len(g.stat) \in Nat BY GraphParts DEF GraphInv
  <2> QED BY <2>1, <2>2 DEF SameButAst
<1>2. ASSUME NEW s \in 1 .. m
      PROVE  /\ h.stat[s].parentStatement = g.stat[s].parentStatement
             /\ MayPopInto(h.stat[s]) <=> MayPopInto(g.stat[s])
  <2>1. s \in Statements(g) BY DEF Statements
  <2>2. /\ h.stat[s].parentStatement = g.stat[s].parentStatement
        /\ h.stat[s].statementType = g.stat[s].statementType
        /\ h.stat[s].popCount = g.stat[s].popCount
    BY <2>1 DEF SameButAst
  <2> QED BY <2>2 DEF MayPopInto
<1>3. \A s \in 0 .. m : PoppableAncestor(h)[s] = PoppableAncestor(g)[s]
  <2>1. m <= Len(g.stat) /\ m <= Len(h.stat) BY <1>1
  <2> HIDE DEF m
  <2> QED BY <1>1, <1>2, <2>1, PoppableAgrees
<1>4. ASSUME NEW b \in Statements(g)
      PROVE  PoppableAncestor(h)[h.stat[b].parentStatement]
                = PoppableAncestor(g)[g.stat[b].parentStatement]
  <2>1. b \in 1 .. m BY DEF Statements
  <2>2. h.stat[b].parentStatement = g.stat[b].parentStatement BY <1>2, <2>1
  <2>3. g.stat[b].parentStatement \in 0 .. m
    <3>1. ParentOf(g)[b] < b /\ ParentOf(g)[b] \in Nat
            /\ ParentOf(g)[b] = g.stat[b].parentStatement
      BY <1>1, <2>1, ClimbableParents
    <3> QED BY <1>1, <2>1, <3>1
  <2> QED BY <1>3, <2>2, <2>3
<1> QED BY <1>4

(* Calls whose arm ends at or before the active statement stay open.       *)
LEMMA GrowsKeepsOpen ==
  ASSUME NEW g, NEW tables, GraphInv(g, tables), g.activeStat # NULL,
         NEW h, NEW more, GraphInv(h, more), NEW edge \in Edges, NEW type,
         Grows(g, h, edge, type, FuncNames),
         NEW c, NEW b, Open(g, c, b), c.at \in Arms, b <= g.activeStat
  PROVE  Open(h, c, b)
<1>1. /\ b \in Statements(g) /\ c.owner < b /\ c.owner \in Statements(g)
      /\ PoppableAncestor(g)[g.stat[b].parentStatement] = c.owner
      /\ OwnerState(c.at, g.stat[c.owner])
  BY DEF Open
<1>2. c.owner # g.activeStat
  <2>1. g.activeStat \in Statements(g) BY DEF GraphInv, GraphOK
  <2>2. Statements(g) \subseteq Nat BY DEF Statements
  <2> QED BY <1>1, <2>1, <2>2
<1>3. h.stat[c.owner] = g.stat[c.owner] BY <1>1, <1>2 DEF Grows, StatementsGrow
<1>4. Statements(h) = Statements(g) \union {NewId(g)}
  <2>1. NewAdded(g, h, type) BY GrowsNew
  <2> QED BY <2>1 DEF NewAdded
<1>5. PoppableAncestor(h)[h.stat[b].parentStatement]
        = PoppableAncestor(g)[g.stat[b].parentStatement]
  BY <1>1, GrowsWalk
<1> QED BY <1>1, <1>3, <1>4, <1>5 DEF Open

(* The call in whose arm a statement follows a settled one.                *)
LEMMA FollowKeepsOpen ==
  ASSUME NEW g, NEW tables, GraphInv(g, tables), g.activeStat # NULL,
         NEW h, NEW more, GraphInv(h, more), NEW type,
         Grows(g, h, "followingStatement", type, FuncNames),
         Settled(g.stat[g.activeStat]),
         NEW c, Open(g, c, g.activeStat), c.at \in Arms
  PROVE  Open(h, c, NewId(g))
<1> DEFINE a == g.activeStat
           st == g.stat[a]
<1>0. "followingStatement" \in Edges BY DEF Edges
<1>1. /\ a \in Statements(g) /\ c.owner < a /\ c.owner \in Statements(g)
      /\ PoppableAncestor(g)[g.stat[a].parentStatement] = c.owner
      /\ OwnerState(c.at, g.stat[c.owner])
  BY DEF Open
<1>2. Len(g.stat) \in Nat BY GraphParts DEF GraphInv
<1>3. c.owner # a /\ c.owner < NewId(g) BY <1>1, <1>2 DEF Statements, NewId
<1>4. h.stat[c.owner] = g.stat[c.owner] BY <1>1, <1>3 DEF Grows, StatementsGrow
<1>5. NewAdded(g, h, type) BY <1>0, GrowsNew
<1>6. ~ MayPopInto(h.stat[a])
  <2>1. OldKept(g, h, "followingStatement", a) BY <1>0, <1>1, GrowsOld
  <2>2. /\ h.stat[a].statementType = st.statementType
        /\ h.stat[a].popCount = IF ClosesIf(st) THEN st.popCount + 1 ELSE st.popCount
    BY <2>1 DEF OldKept
  <2>3. Settled(st) OBVIOUS
  <2> HIDE DEF st, a
  <2>4. CASE ClosesIf(st)
    <3>1. st.statementType = "CF_IF" /\ (st.popCount = 1 \/ st.popCount = 2)
      BY <2>3, <2>4 DEF Settled, ClosesIf
    <3> QED BY <2>2, <2>4, <3>1 DEF MayPopInto
  <2>5. CASE ~ ClosesIf(st)
    <3>1. \/ st.statementType \notin {"CF_IF", "CF_FOR"}
          \/ st.statementType = "CF_IF" /\ st.popCount = 2
          \/ st.statementType = "CF_FOR" /\ st.popCount = 1
      BY <2>3, <2>5 DEF Settled
    <3> QED BY <2>2, <2>5, <3>1 DEF MayPopInto
  <2> QED BY <2>4, <2>5
<1>7. PoppableAncestor(h)[h.stat[NewId(g)].parentStatement]
        = PoppableAncestor(g)[g.stat[a].parentStatement]
  BY <1>0, <1>6, GrowsWalk
<1> QED BY <1>1, <1>3, <1>4, <1>5, <1>7 DEF Open, NewAdded

(* The call that enters an arm of the active statement.                    *)
LEMMA ArmIsOpen ==
  ASSUME NEW g, NEW tables, GraphInv(g, tables), g.activeStat # NULL,
         NEW h, NEW more, GraphInv(h, more), NEW edge \in Edges, NEW type,
         Grows(g, h, edge, type, FuncNames),
         NEW at, OwnerState(at, h.stat[g.activeStat]), at \in Arms
  PROVE  Open(h, Call(at, g.activeStat), NewId(g))
<1> DEFINE a == g.activeStat
<1>1. a \in Statements(g) BY DEF GraphInv, GraphOK
<1>2. Len(g.stat) \in Nat BY GraphParts DEF GraphInv
<1>3. a < NewId(g) BY <1>1, <1>2 DEF Statements, NewId
<1>4. NewAdded(g, h, type) BY GrowsNew
<1>5. MayPopInto(h.stat[a])
  <2> DEFINE st == h.stat[a]
  <2>1. OwnerState(at, st) OBVIOUS
  <2> HIDE DEF st
  <2>2. CASE at \in {"then", "else", "elif"}
    BY <2>1, <2>2 DEF OwnerState, MayPopInto
  <2>3. CASE at = "for" BY <2>1, <2>3 DEF OwnerState, MayPopInto
  <2> QED BY <2>2, <2>3 DEF Arms, st
<1>6. PoppableAncestor(h)[h.stat[NewId(g)].parentStatement] = a
  BY <1>5, GrowsWalk
<1>7. Call(at, a).at = at /\ Call(at, a).owner = a BY DEF Call
<1> QED BY <1>1, <1>3, <1>4, <1>6, <1>7 DEF Open, NewAdded

(* A call that has reached a header: nothing is said of its arm.           *)
LEMMA HeaderIsOpen ==
  ASSUME NEW h, NEW at, NEW s \in Statements(h), OwnerState(at, h.stat[s]), at \notin Arms, NEW b
  PROVE  Open(h, Call(at, s), b)
BY DEF Open, Call

LEMMA PopKeepsOpen ==
  ASSUME NEW g, NEW tables, GraphInv(g, tables), NEW n \in Statements(g),
         NEW h, NEW more, GraphInv(h, more), PopsTo(g, h, n, FuncNames),
         NEW c, NEW b, Open(g, c, b), c.at \in Arms, b <= n
  PROVE  Open(h, c, b)
<1>1. /\ b \in Statements(g) /\ c.owner < b /\ c.owner \in Statements(g)
      /\ PoppableAncestor(g)[g.stat[b].parentStatement] = c.owner
      /\ OwnerState(c.at, g.stat[c.owner])
  BY DEF Open
<1>2. c.owner # n
  <2>1. Statements(g) \subseteq Nat BY DEF Statements
  <2> QED BY <1>1, <2>1
<1>3. h.stat[c.owner] = g.stat[c.owner] BY <1>1, <1>2 DEF PopsTo
<1>4. Statements(h) = Statements(g) BY DEF PopsTo, Statements
<1>5. PoppableAncestor(h)[h.stat[b].parentStatement]
        = PoppableAncestor(g)[g.stat[b].parentStatement]
  BY <1>1, PopWalk
<1> QED BY <1>1, <1>3, <1>4, <1>5 DEF Open

LEMMA AstKeepsOpen ==
  ASSUME NEW g, NEW tables, GraphInv(g, tables),
         NEW h, NEW more, GraphInv(h, more), SameButAst(g, h, FuncNames),
         NEW c, NEW b, Open(g, c, b)
  PROVE  Open(h, c, b)
<1>1. Statements(h) = Statements(g) BY DEF SameButAst, Statements
<1>2. c.owner \in Statements(g) /\ OwnerState(c.at, g.stat[c.owner]) BY DEF Open
<1>3. OwnerState(c.at, h.stat[c.owner])
  <2>1. /\ h.stat[c.owner].statementType = g.stat[c.owner].statementType
        /\ h.stat[c.owner].popCount = g.stat[c.owner].popCount
        /\ h.stat[c.owner].followingStatement = g.stat[c.owner].followingStatement
        /\ h.stat[c.owner].thenStatement = g.stat[c.owner].thenStatement
        /\ h.stat[c.owner].elseStatement = g.stat[c.owner].elseStatement
        /\ h.stat[c.owner].bodyStatement = g.stat[c.owner].bodyStatement
    BY <1>2 DEF SameButAst
  <2> QED BY <1>2, <2>1 DEF OwnerState
<1>4. ASSUME c.at \in Arms
      PROVE  PoppableAncestor(h)[h.stat[b].parentStatement]
                = PoppableAncestor(g)[g.stat[b].parentStatement]
  <2>1. b \in Statements(g) BY <1>4 DEF Open
  <2> QED BY <2>1, AstWalk
<1> QED BY <1>1, <1>2, <1>3, <1>4 DEF Open

-----------------------------------------------------------------------------
(* The first call reads a function and the others a statement; all but the *)
(* last have been left in the middle of a block.                           *)
Nested(cs) ==
  \A i \in 1 .. Len(cs) :
    /\ i = 1 <=> cs[i].at \in {"func_name", "func"}
    /\ i < Len(cs) => cs[i].at \in Arms \union {"func"}

(* The statement the parser has reached in the arm of the call i.          *)
BelowIn(g, cs, i) == IF i = Len(cs) THEN g.activeStat ELSE cs[i + 1].owner

AllOpen(g, cs) == \A i \in 2 .. Len(cs) : Open(g, cs[i], BelowIn(g, cs, i))

Ordered(g, cs) ==
  \A i \in 2 .. Len(cs) :
    /\ cs[i].owner <= g.activeStat
    /\ \A j \in 2 .. Len(cs) : i < j => cs[i].owner < cs[j].owner

InnermostCall(g, cs) ==
  cs # << >> =>
    /\ g.activeFunc # NULL
    /\ Top(cs).at = "func_name" =>
         g.activeStat = NULL /\ g.funcs[g.activeFunc].symbolTable = NULL
    /\ Top(cs).at \in Headers => g.activeStat = Top(cs).owner
    /\ Top(cs).at \in Arms \union {"func"} =>
         (g.activeStat # NULL => Settled(g.stat[g.activeStat]))

ParserInv(g, cs) ==
  /\ g.cf_error = "CF_NO_ERROR"
  /\ Nested(cs)
  /\ AllOpen(g, cs)
  /\ Ordered(g, cs)
  /\ InnermostCall(g, cs)

-----------------------------------------------------------------------------
(* The sequence of calls. *)

LEMMA PopCalls ==
  ASSUME NEW S, NEW cs \in Seq(S), cs # << >>
  PROVE  /\ Pop(cs) \in Seq(S) /\ Len(Pop(cs)) = Len(cs) - 1 /\ Len(cs) - 1 \in Nat
         /\ \A i \in 1 .. Len(cs) - 1 : Pop(cs)[i] = cs[i]
<1> DEFINE n == Len(cs) - 1
<1>1. Len(cs) \in Nat /\ n \in Nat /\ n <= Len(cs) OBVIOUS
<1>2. Pop(cs) = [i \in 1 .. n |-> cs[i]] BY <1>1 DEF Pop
<1>3. \A i \in 1 .. n : cs[i] \in S BY <1>1
<1> HIDE DEF n
<1>4. Len(Pop(cs)) = n /\ Pop(cs) \in Seq(S) BY <1>1, <1>2, <1>3
<1>5. \A i \in 1 .. n : Pop(cs)[i] = cs[i] BY <1>2
<1> QED BY <1>1, <1>4, <1>5 DEF n

LEMMA MoveCalls ==
  ASSUME NEW S, NEW cs \in Seq(S), cs # << >>, NEW c \in S
  PROVE  /\ Append(Pop(cs), c) \in Seq(S) /\ Len(Append(Pop(cs), c)) = Len(cs)
         /\ Len(cs) - 1 \in Nat
         /\ Append(Pop(cs), c)[Len(cs)] = c
         /\ \A i \in 1 .. Len(cs) - 1 : Append(Pop(cs), c)[i] = cs[i]
<1>1. /\ Pop(cs) \in Seq(S) /\ Len(Pop(cs)) = Len(cs) - 1 /\ Len(cs) - 1 \in Nat
      /\ \A i \in 1 .. Len(cs) - 1 : Pop(cs)[i] = cs[i]
  BY PopCalls
<1> QED BY <1>1

(* What the invariant says of the calls below the innermost one.           *)
LEMMA OuterCalls ==
  ASSUME NEW g, NEW tables, GraphInv(g, tables), NEW cs \in Seq(CallRecords), ParserInv(g, cs),
         NEW i \in 2 .. Len(cs)
  PROVE  /\ g.activeStat \in Statements(g) /\ g.activeStat # NULL
         /\ cs[i].owner \in Statements(g) /\ cs[i].owner <= g.activeStat
         /\ OwnerState(cs[i].at, g.stat[cs[i].owner])
         /\ i < Len(cs) => /\ cs[i].at \in Arms /\ Open(g, cs[i], cs[i + 1].owner)
                           /\ cs[i + 1].owner \in Statements(g)
                           /\ cs[i + 1].owner <= g.activeStat
                           /\ cs[i + 1].owner <= cs[Len(cs)].owner
         /\ i = Len(cs) => /\ Open(g, cs[i], g.activeStat)
                           /\ cs[i].at \in Arms \union Headers
                           /\ cs[i].at \in Headers => g.activeStat = cs[i].owner
<1>1. Len(cs) \in Nat /\ i \in 1 .. Len(cs) /\ i # 1 /\ cs # << >> /\ Top(cs) = cs[Len(cs)]
  BY DEF Top
<1>2. Open(g, cs[i], BelowIn(g, cs, i)) BY DEF ParserInv, AllOpen
<1>3. cs[i].owner \in Statements(g) /\ OwnerState(cs[i].at, g.stat[cs[i].owner])
  BY <1>2 DEF Open
<1>4. cs[i].owner <= g.activeStat BY DEF ParserInv, Ordered
<1>5. g.activeStat \in Statements(g) /\ g.activeStat # NULL
  <2>1. g.activeStat \in {NULL} \union Statements(g) BY DEF GraphInv, GraphOK
  <2> QED BY <1>3, <1>4, <2>1 DEF Statements, NULL
<1>6. cs[i].at \notin {"func_name", "func"} BY <1>1 DEF ParserInv, Nested
<1>7. ASSUME i < Len(cs)
      PROVE  /\ cs[i].at \in Arms /\ Open(g, cs[i], cs[i + 1].owner)
             /\ cs[i + 1].owner \in Statements(g) /\ cs[i + 1].owner <= g.activeStat
             /\ cs[i + 1].owner <= cs[Len(cs)].owner
  <2>1. cs[i].at \in Arms BY <1>1, <1>6, <1>7 DEF ParserInv, Nested
  <2>2. Open(g, cs[i], cs[i + 1].owner) BY <1>1, <1>2, <1>7 DEF BelowIn
  <2>3. i + 1 \in 2 .. Len(cs) /\ Len(cs) \in 2 .. Len(cs) BY <1>1, <1>7
  <2>4. cs[i + 1].owner \in Statements(g) BY <2>1, <2>2 DEF Open
  <2>5. cs[i + 1].owner <= g.activeStat BY <2>3 DEF ParserInv, Ordered
  <2>6. cs[i + 1].owner <= cs[Len(cs)].owner
    <3>1. CASE i + 1 = Len(cs)
      <4>1. cs[i + 1].owner \in Nat BY <2>4 DEF Statements
      <4> QED BY <3>1, <4>1
    <3>2. CASE i + 1 < Len(cs)
      <4>1. cs[i + 1].owner < cs[Len(cs)].owner BY <2>3, <3>2 DEF ParserInv, Ordered
      <4>2. Open(g, cs[Len(cs)], BelowIn(g, cs, Len(cs))) BY <2>3 DEF ParserInv, AllOpen
      <4>3. cs[Len(cs)].owner \in Statements(g) BY <4>2 DEF Open
      <4> QED BY <2>4, <4>1, <4>3 DEF Statements
    <3> QED BY <1>1, <2>3, <3>1, <3>2
  <2> QED BY <2>1, <2>2, <2>4, <2>5, <2>6
<1>8. ASSUME i = Len(cs)
      PROVE  /\ Open(g, cs[i], g.activeStat) /\ cs[i].at \in Arms \union Headers
             /\ cs[i].at \in Headers => g.activeStat = cs[i].owner
  <2>1. Open(g, cs[i], g.activeStat) BY <1>2, <1>8 DEF BelowIn
  <2>2. cs[i] \in CallRecords BY <1>1
  <2>3. cs[i].at \in Places BY <2>2 DEF CallRecords
  <2>4. cs[i].at \in Arms \union Headers BY <1>6, <2>3 DEF Places, Arms, Headers
  <2>5. cs[i].at \in Headers => g.activeStat = cs[i].owner
    BY <1>1, <1>8 DEF ParserInv, InnermostCall
  <2> QED BY <2>1, <2>4, <2>5
<1> QED BY <1>3, <1>4, <1>5, <1>7, <1>8

-----------------------------------------------------------------------------
(* The first k calls of cs, the last of them in an arm that now ends at b. *)
Outer(h, cs, k, b) ==
  /\ k \in 1 .. Len(cs)
  /\ b \in Nat
  /\ Nested(cs)
  /\ cs[k].at \in Arms \union {"func"}
  /\ \A i \in 2 .. k :
       /\ Open(h, cs[i], IF i = k THEN b ELSE cs[i + 1].owner)
       /\ cs[i].owner \in Nat /\ cs[i].owner < b
       /\ \A j \in 2 .. k : i < j => cs[i].owner < cs[j].owner

SamePrefix(cs, cs2, k) == \A i \in 1 .. k : cs2[i] = cs[i]

WellOpen(h, cs) == Nested(cs) /\ AllOpen(h, cs) /\ Ordered(h, cs)

(* They are all that is left. *)
LEMMA OuterIsLeft ==
  ASSUME NEW h, NEW cs \in Seq(CallRecords), NEW k, NEW b, Outer(h, cs, k, b), h.activeStat = b,
         NEW cs2 \in Seq(CallRecords), Len(cs2) = k, SamePrefix(cs, cs2, k)
  PROVE  WellOpen(h, cs2)
<1>1. /\ Len(cs) \in Nat /\ k \in 1 .. Len(cs) /\ Nested(cs) /\ cs[k].at \in Arms \union {"func"}
      /\ \A i \in 1 .. k : cs2[i] = cs[i]
  BY DEF Outer, SamePrefix
<1>2. Nested(cs2)
  <2>1. \A i \in 1 .. k : i \in 1 .. Len(cs) /\ (i < k => i < Len(cs)) BY <1>1
  <2> QED BY <1>1, <2>1 DEF Nested
<1>3. AllOpen(h, cs2)
  <2>1. ASSUME NEW i \in 2 .. k PROVE Open(h, cs2[i], BelowIn(h, cs2, i))
    <3>1. cs2[i] = cs[i] /\ (i # k => cs2[i + 1] = cs[i + 1]) BY <1>1
    <3>2. BelowIn(h, cs2, i) = IF i = k THEN b ELSE cs[i + 1].owner BY <3>1 DEF BelowIn
    <3> QED BY <3>1, <3>2 DEF Outer
  <2> QED BY <2>1 DEF AllOpen
<1>4. Ordered(h, cs2)
  <2>1. ASSUME NEW i \in 2 .. k
        PROVE  /\ cs2[i].owner <= h.activeStat
               /\ \A j \in 2 .. k : i < j => cs2[i].owner < cs2[j].owner
    <3>1. /\ cs[i].owner < b /\ cs[i].owner \in Nat /\ b \in Nat
          /\ \A j \in 2 .. k : i < j => cs[i].owner < cs[j].owner
      BY DEF Outer
    <3>2. \A j \in 2 .. k : cs2[j] = cs[j] BY <1>1
    <3> QED BY <3>1, <3>2
  <2> QED BY <2>1 DEF Ordered
<1> QED BY <1>2, <1>3, <1>4 DEF WellOpen

(* A call of the statement b is entered, or goes on.                       *)
LEMMA OuterAndCall ==
  ASSUME NEW h, NEW cs \in Seq(CallRecords), NEW k, NEW c, Outer(h, cs, k, c.owner),
         Open(h, c, h.activeStat), c.at \notin {"func_name", "func"},
         h.activeStat \in Nat, c.owner <= h.activeStat,
         NEW cs2 \in Seq(CallRecords), Len(cs2) = k + 1, SamePrefix(cs, cs2, k), cs2[k + 1] = c
  PROVE  WellOpen(h, cs2)
<1>1. /\ Len(cs) \in Nat /\ k \in 1 .. Len(cs) /\ Nested(cs) /\ cs[k].at \in Arms \union {"func"}
      /\ \A i \in 1 .. k : cs2[i] = cs[i]
  BY DEF Outer, SamePrefix
<1>2. \A i \in 1 .. k + 1 : i = k + 1 \/ i \in 1 .. k BY <1>1
<1>3. Nested(cs2)
  <2>1. ASSUME NEW i \in 1 .. k
        PROVE  /\ i = 1 <=> cs2[i].at \in {"func_name", "func"}
               /\ cs2[i].at \in Arms \union {"func"}
    <3>1. i \in 1 .. Len(cs) /\ (i # k => i < Len(cs)) BY <1>1
    <3> QED BY <1>1, <3>1 DEF Nested
  <2>2. k + 1 # 1 BY <1>1
  <2> QED BY <1>2, <2>1, <2>2 DEF Nested
<1>4. AllOpen(h, cs2)
  <2>1. ASSUME NEW i \in 2 .. k PROVE Open(h, cs2[i], BelowIn(h, cs2, i))
    <3>1. k \in Nat /\ i \in Nat /\ i <= k BY <1>1
    <3>2. i # k + 1 BY <3>1
    <3>3. cs2[i] = cs[i] /\ (i # k => cs2[i + 1] = cs[i + 1]) BY <1>1
    <3>4. BelowIn(h, cs2, i) = IF i = k THEN c.owner ELSE cs[i + 1].owner
      BY <3>2, <3>3 DEF BelowIn
    <3> QED BY <3>3, <3>4 DEF Outer
  <2>2. Open(h, cs2[k + 1], BelowIn(h, cs2, k + 1))
    <3>1. BelowIn(h, cs2, k + 1) = h.activeStat BY DEF BelowIn
    <3> QED BY <3>1
  <2>3. \A i \in 2 .. k + 1 : i = k + 1 \/ i \in 2 .. k BY <1>1
  <2> QED BY <2>1, <2>2, <2>3 DEF AllOpen
<1>5. Ordered(h, cs2)
  <2>1. ASSUME NEW i \in 2 .. k
        PROVE  /\ cs2[i].owner <= h.activeStat
               /\ \A j \in 2 .. k + 1 : i < j => cs2[i].owner < cs2[j].owner
    <3>1. /\ cs[i].owner < c.owner /\ cs[i].owner \in Nat /\ c.owner \in Nat
          /\ \A j \in 2 .. k : i < j => cs[i].owner < cs[j].owner
      BY DEF Outer
    <3>2. \A j \in 2 .. k : cs2[j] = cs[j] BY <1>1
    <3>3. \A j \in 2 .. k + 1 : j = k + 1 \/ j \in 2 .. k BY <1>1
    <3>4. cs2[i].owner = cs[i].owner BY <3>2
    <3>5. cs2[i].owner <= h.activeStat BY <3>1, <3>4
    <3>6. ASSUME NEW j \in 2 .. k + 1, i < j PROVE cs2[i].owner < cs2[j].owner
      <4>1. CASE j = k + 1 BY <3>1, <3>4, <4>1
      <4>2. CASE j \in 2 .. k BY <3>1, <3>2, <3>4, <3>6, <4>2
      <4> QED BY <3>3, <4>1, <4>2
    <3> QED BY <3>5, <3>6
  <2>2. /\ cs2[k + 1].owner <= h.activeStat
        /\ \A j \in 2 .. k + 1 : ~ (k + 1 < j)
    BY <1>1
  <2>3. \A i \in 2 .. k + 1 : i = k + 1 \/ i \in 2 .. k BY <1>1
  <2> QED BY <2>1, <2>2, <2>3 DEF Ordered
<1> QED BY <1>3, <1>4, <1>5 DEF WellOpen

(* A call in an arm that ends at b is one of the outer ones.               *)
LEMMA OuterGrows ==
  ASSUME NEW h, NEW cs \in Seq(CallRecords), NEW k, NEW c, Outer(h, cs, k, c.owner),
         NEW b \in Nat, Open(h, c, b), c.at \in Arms, c.owner < b,
         NEW cs2 \in Seq(CallRecords), Len(cs2) = k + 1, SamePrefix(cs, cs2, k), cs2[k + 1] = c
  PROVE  Outer(h, cs2, k + 1, b)
<1>1. /\ Len(cs) \in Nat /\ k \in 1 .. Len(cs) /\ Nested(cs) /\ cs[k].at \in Arms \union {"func"}
      /\ \A i \in 1 .. k : cs2[i] = cs[i]
  BY DEF Outer, SamePrefix
<1>2. \A i \in 1 .. k + 1 : i = k + 1 \/ i \in 1 .. k BY <1>1
<1>3. c.at \notin {"func_name", "func"} BY DEF Arms
<1>4. Nested(cs2)
  <2>1. ASSUME NEW i \in 1 .. k
        PROVE  /\ i = 1 <=> cs2[i].at \in {"func_name", "func"}
               /\ cs2[i].at \in Arms \union {"func"}
    <3>1. i \in 1 .. Len(cs) /\ (i # k => i < Len(cs)) BY <1>1
    <3> QED BY <1>1, <3>1 DEF Nested
  <2>2. k + 1 # 1 BY <1>1
  <2> QED BY <1>2, <1>3, <2>1, <2>2 DEF Nested
<1>5. ASSUME NEW i \in 2 .. k
      PROVE  /\ Open(h, cs2[i], cs2[i + 1].owner)
             /\ cs2[i].owner \in Nat /\ cs2[i].owner < b
             /\ \A j \in 2 .. k + 1 : i < j => cs2[i].owner < cs2[j].owner
  <2>1. cs2[i] = cs[i] /\ (i # k => cs2[i + 1] = cs[i + 1]) BY <1>1
  <2>2. Open(h, cs[i], IF i = k THEN c.owner ELSE cs[i + 1].owner) BY DEF Outer
  <2>3. /\ cs[i].owner < c.owner /\ cs[i].owner \in Nat /\ c.owner \in Nat
        /\ \A j \in 2 .. k : i < j => cs[i].owner < cs[j].owner
    BY DEF Outer
  <2>4. \A j \in 2 .. k : cs2[j] = cs[j] BY <1>1
  <2>5. \A j \in 2 .. k + 1 : j = k + 1 \/ j \in 2 .. k BY <1>1
  <2>6. Open(h, cs2[i], cs2[i + 1].owner)
    <3>1. CASE i = k BY <2>1, <2>2, <3>1
    <3>2. CASE i # k BY <2>1, <2>2, <3>2
    <3> QED BY <3>1, <3>2
  <2>7. cs2[i].owner = cs[i].owner BY <2>1
  <2>8. cs2[i].owner \in Nat /\ cs2[i].owner < b BY <2>3, <2>7
  <2>9. ASSUME NEW j \in 2 .. k + 1, i < j PROVE cs2[i].owner < cs2[j].owner
    <3>1. CASE j = k + 1 BY <2>3, <2>7, <3>1
    <3>2. CASE j \in 2 .. k BY <2>3, <2>4, <2>7, <2>9, <3>2
    <3> QED BY <2>5, <3>1, <3>2
  <2> QED BY <2>6, <2>8, <2>9
<1>6. \A i \in 2 .. k + 1 : i = k + 1 \/ (i \in 2 .. k /\ i # k + 1) BY <1>1
<1>7. c.owner \in Nat BY DEF Outer
<1>8. \A j \in 2 .. k + 1 : ~ (k + 1 < j) BY <1>1
<1>9. k + 1 \in 1 .. Len(cs2) BY <1>1
<1> QED BY <1>4, <1>5, <1>6, <1>7, <1>8, <1>9 DEF Outer

-----------------------------------------------------------------------------
(* A statement follows the active one in a block.                          *)
Follows(g, tables, h, more, type, cs) ==
  /\ GraphInv(g, tables) /\ GraphInv(h, more)
  /\ cs \in Seq(CallRecords) /\ cs # << >>
  /\ ParserInv(g, cs)
  /\ type \in StatementTypes
  /\ Grows(g, h, "followingStatement", type, FuncNames)
  /\ Top(cs).at \in Arms \union {"func", "id_next"}

LEMMA FollowedIsSettled ==
  ASSUME NEW g, NEW tables, NEW h, NEW more, NEW type, NEW cs,
         Follows(g, tables, h, more, type, cs), g.activeStat # NULL
  PROVE  Settled(g.stat[g.activeStat])
<1>1. CASE Top(cs).at \in Arms \union {"func"}
  BY <1>1 DEF Follows, ParserInv, InnermostCall
<1>2. CASE Top(cs).at = "id_next"
  <2>1. Len(cs) \in Nat \ {0} /\ Len(cs) \in 1 .. Len(cs) /\ Top(cs) = cs[Len(cs)]
    BY DEF Follows, Top
  <2>2. Len(cs) # 1
    <3>1. Nested(cs) BY DEF Follows, ParserInv
    <3>2. cs[Len(cs)].at \notin {"func_name", "func"} BY <1>2, <2>1
    <3> QED BY <2>1, <3>1, <3>2 DEF Nested
  <2>3. Len(cs) \in 2 .. Len(cs)
    <3> DEFINE n == Len(cs)
    <3>1. n \in Nat \ {0} /\ n # 1 BY <2>1, <2>2
    <3> HIDE DEF n
    <3>2. n \in 2 .. n BY <3>1
    <3> QED BY <3>2 DEF n
  <2>4. OwnerState("id_next", g.stat[cs[Len(cs)].owner])
    BY <1>2, <2>1, <2>3, OuterCalls DEF Follows
  <2>5. cs[Len(cs)].owner = g.activeStat
    BY <1>2, <2>1 DEF Follows, ParserInv, InnermostCall, Headers
  <2> QED BY <2>4, <2>5 DEF OwnerState, Settled
<1> QED BY <1>1, <1>2 DEF Follows

LEMMA FollowKeepsCalls ==
  ASSUME NEW g, NEW tables, NEW h, NEW more, NEW type, NEW cs,
         Follows(g, tables, h, more, type, cs),
         NEW k \in Nat,
         k = IF Top(cs).at = "id_next" THEN Len(cs) - 1 ELSE Len(cs),
         NEW i \in 2 .. k
  PROVE  /\ i \in 2 .. Len(cs) /\ cs[i].owner < NewId(g)
         /\ Open(h, cs[i], IF i = k THEN NewId(g) ELSE cs[i + 1].owner)
<1>1. /\ GraphInv(g, tables) /\ GraphInv(h, more) /\ cs \in Seq(CallRecords) /\ cs # << >>
      /\ ParserInv(g, cs) /\ Grows(g, h, "followingStatement", type, FuncNames)
      /\ Top(cs).at \in Arms \union {"func", "id_next"}
  BY DEF Follows
<1>2. Len(cs) \in Nat /\ Top(cs) = cs[Len(cs)] /\ k <= Len(cs) /\ i \in 2 .. Len(cs)
  BY <1>1 DEF Top
<1>3. /\ g.activeStat \in Statements(g) /\ g.activeStat # NULL
      /\ cs[i].owner \in Statements(g) /\ cs[i].owner <= g.activeStat
  BY <1>1, <1>2, OuterCalls
<1>4. cs[i].owner < NewId(g)
  <2>1. Len(g.stat) \in Nat BY <1>1, GraphParts DEF GraphInv
  <2> QED BY <1>3, <2>1 DEF Statements, NewId
<1>5. "followingStatement" \in Edges BY DEF Edges
<1>6. Settled(g.stat[g.activeStat]) BY <1>3, FollowedIsSettled
<1>7. CASE i < k
  <2>1. i < Len(cs) BY <1>2, <1>7
  <2>2. cs[i].at \in Arms /\ Open(g, cs[i], cs[i + 1].owner) /\ cs[i + 1].owner <= g.activeStat
    BY <1>1, <1>2, <2>1, OuterCalls
  <2>3. Open(h, cs[i], cs[i + 1].owner)
    <3> DEFINE c == cs[i]
               b == cs[i + 1].owner
    <3>1. Open(g, c, b) /\ c.at \in Arms /\ b <= g.activeStat BY <2>2
    <3> HIDE DEF c, b
    <3>2. Open(h, c, b) BY <1>1, <1>3, <1>5, <3>1, GrowsKeepsOpen
    <3> QED BY <3>2 DEF c, b
  <2> QED BY <1>2, <1>4, <1>7, <2>3
<1>8. CASE i = k
  <2>1. Open(g, cs[i], g.activeStat) /\ cs[i].at \in Arms
    <3>1. CASE Top(cs).at = "id_next"
      <4>1. i = Len(cs) - 1 /\ i + 1 = Len(cs) /\ i < Len(cs) BY <1>2, <1>8, <3>1
      <4>2. cs[i].at \in Arms /\ Open(g, cs[i], cs[i + 1].owner)
        BY <1>1, <1>2, <4>1, OuterCalls
      <4>3. cs[Len(cs)].owner = g.activeStat
        BY <1>1, <1>2, <3>1 DEF ParserInv, InnermostCall, Headers
      <4> QED BY <4>1, <4>2, <4>3
    <3>2. CASE Top(cs).at # "id_next"
      <4>1. i = Len(cs) BY <1>8, <3>2
      <4>2. Open(g, cs[i], g.activeStat) BY <1>1, <1>2, <4>1, OuterCalls
      <4>3. cs[i].at # "func" BY <1>1, <1>2 DEF ParserInv, Nested
      <4> QED BY <1>1, <1>2, <3>2, <4>1, <4>2, <4>3
    <3> QED BY <3>1, <3>2
  <2>2. Open(h, cs[i], NewId(g)) BY <1>1, <1>3, <1>6, <2>1, FollowKeepsOpen
  <2> QED BY <1>2, <1>4, <1>8, <2>2
<1> QED BY <1>7, <1>8

LEMMA FollowIsOuter ==
  ASSUME NEW g, NEW tables, NEW h, NEW more, NEW type, NEW cs,
         Follows(g, tables, h, more, type, cs), NEW k \in Nat,
         k = IF Top(cs).at = "id_next" THEN Len(cs) - 1 ELSE Len(cs)
  PROVE  Outer(h, cs, k, NewId(g))
<1>1. /\ GraphInv(g, tables) /\ cs \in Seq(CallRecords) /\ cs # << >>
      /\ ParserInv(g, cs) /\ Top(cs).at \in Arms \union {"func", "id_next"}
  BY DEF Follows
<1>2. Len(cs) \in Nat /\ Len(cs) >= 1 /\ Top(cs) = cs[Len(cs)] BY <1>1 DEF Top
<1>3. Nested(cs) BY <1>1 DEF ParserInv
<1>4. NewId(g) \in Nat
  <2>1. Len(g.stat) \in Nat BY <1>1, GraphParts DEF GraphInv
  <2> QED BY <2>1 DEF NewId
<1>5. k \in 1 .. Len(cs) /\ cs[k].at \in Arms \union {"func"}
  <2>1. CASE Top(cs).at = "id_next"
    <3>1. Len(cs) # 1
      <4>1. 1 \in 1 .. Len(cs) BY <1>2
      <4> QED BY <1>2, <1>3, <2>1, <4>1 DEF Nested
    <3>2. k \in 1 .. Len(cs) /\ k < Len(cs) BY <1>2, <2>1, <3>1
    <3> QED BY <1>3, <3>2 DEF Nested
  <2>2. CASE Top(cs).at # "id_next" BY <1>1, <1>2, <2>2
  <2> QED BY <2>1, <2>2
<1>6. ASSUME NEW i \in 2 .. k
      PROVE  /\ Open(h, cs[i], IF i = k THEN NewId(g) ELSE cs[i + 1].owner)
             /\ cs[i].owner \in Nat /\ cs[i].owner < NewId(g)
             /\ \A j \in 2 .. k : i < j => cs[i].owner < cs[j].owner
  <2>1. /\ i \in 2 .. Len(cs) /\ cs[i].owner < NewId(g)
        /\ Open(h, cs[i], IF i = k THEN NewId(g) ELSE cs[i + 1].owner)
    BY FollowKeepsCalls
  <2>2. cs[i].owner \in Nat
    <3>1. cs[i].owner \in Statements(g) BY <1>1, <2>1, OuterCalls
    <3> QED BY <3>1 DEF Statements
  <2>3. \A j \in 2 .. k : j \in 2 .. Len(cs) BY <1>5, <1>2
  <2>4. \A j \in 2 .. k : i < j => cs[i].owner < cs[j].owner
    BY <1>1, <2>1, <2>3 DEF ParserInv, Ordered
  <2> QED BY <2>1, <2>2, <2>4
<1> QED BY <1>3, <1>4, <1>5, <1>6 DEF Outer

(* An expression statement, in a block or after an empty return.           *)
LEMMA FollowStays ==
  ASSUME NEW g, NEW tables, NEW h, NEW more, NEW cs,
         Follows(g, tables, h, more, "CF_BASIC", cs),
         NEW cs2 \in Seq(CallRecords),
         cs2 = IF Top(cs).at = "id_next" THEN Pop(cs) ELSE cs
  PROVE  ParserInv(h, cs2)
<1> DEFINE k == Len(cs2)
<1>1. /\ GraphInv(g, tables) /\ GraphInv(h, more) /\ cs \in Seq(CallRecords) /\ cs # << >>
      /\ ParserInv(g, cs) /\ Grows(g, h, "followingStatement", "CF_BASIC", FuncNames)
      /\ Top(cs).at \in Arms \union {"func", "id_next"}
  BY DEF Follows
<1>2. /\ Len(cs) \in Nat /\ Len(cs) >= 1 /\ k \in Nat
      /\ k = IF Top(cs).at = "id_next" THEN Len(cs) - 1 ELSE Len(cs)
      /\ \A i \in 1 .. k : cs2[i] = cs[i] /\ i \in 1 .. Len(cs)
      /\ Top(cs) = cs[Len(cs)]
  <2>1. Len(cs) \in Nat /\ Len(cs) >= 1 /\ Top(cs) = cs[Len(cs)] BY <1>1 DEF Top
  <2>2. CASE Top(cs).at = "id_next"
    <3>1. cs2 = Pop(cs) BY <2>2
    <3>2. /\ Len(cs2) = Len(cs) - 1 /\ Len(cs) - 1 \in Nat
          /\ \A i \in 1 .. Len(cs) - 1 : cs2[i] = cs[i]
      BY <1>1, <3>1, PopCalls
    <3> QED BY <2>1, <2>2, <3>2
  <2>3. CASE Top(cs).at # "id_next" BY <2>1, <2>3
  <2> QED BY <2>2, <2>3
<1> HIDE DEF k
<1>3. h.activeStat = NewId(g) /\ h.activeFunc = g.activeFunc /\ h.cf_error = "CF_NO_ERROR"
  BY <1>1 DEF Grows, ParserInv
<1>4. Outer(h, cs, k, NewId(g)) BY <1>2, FollowIsOuter
<1>5. WellOpen(h, cs2)
  <2>1. SamePrefix(cs, cs2, k) BY <1>2 DEF SamePrefix
  <2> QED BY <1>1, <1>3, <1>4, <2>1, OuterIsLeft DEF k
<1>6. InnermostCall(h, cs2)
  <2> SUFFICES ASSUME cs2 # << >> PROVE InnermostCall(h, cs2) BY DEF InnermostCall
  <2>1. k >= 1 /\ Top(cs2) = cs[k]
    <3>1. k >= 1 BY <1>2 DEF k
    <3> QED BY <1>2, <3>1 DEF Top, k
  <2>2. Top(cs2).at \in Arms \union {"func"}
    <3>1. CASE Top(cs).at = "id_next"
      <4>1. k < Len(cs) /\ k \in 1 .. Len(cs) BY <1>2, <2>1, <3>1
      <4> QED BY <1>1, <2>1, <4>1 DEF ParserInv, Nested
    <3>2. CASE Top(cs).at # "id_next" BY <1>1, <1>2, <2>1, <3>2
    <3> QED BY <3>1, <3>2
  <2>3. NewAdded(g, h, "CF_BASIC")
    <3>1. "followingStatement" \in Edges BY DEF Edges
    <3> QED BY <1>1, <3>1, GrowsNew
  <2>4. Settled(h.stat[h.activeStat])
    BY <1>3, <2>3 DEF NewAdded, IsNew, Settled
  <2>5. g.activeFunc # NULL BY <1>1 DEF ParserInv, InnermostCall
  <2> QED BY <1>3, <2>2, <2>4, <2>5 DEF InnermostCall, Arms, Headers
<1> QED BY <1>3, <1>5, <1>6 DEF ParserInv, WellOpen

(* A statement that is entered: a return, an if or a for.                  *)
EntersAt(at, type) ==
  \/ at = "return" /\ type = "CF_RETURN"
  \/ at = "if_cond" /\ type = "CF_IF"
  \/ at = "for_header" /\ type = "CF_FOR"

LEMMA FollowEnters ==
  ASSUME NEW g, NEW tables, NEW h, NEW more, NEW cs,
         NEW at, NEW type, EntersAt(at, type),
         Follows(g, tables, h, more, type, cs), Top(cs).at # "id_next",
         NEW cs2 \in Seq(CallRecords), cs2 = Append(cs, Call(at, NewId(g)))
  PROVE  ParserInv(h, cs2)
<1> DEFINE n == NewId(g)
           c == Call(at, n)
           k == Len(cs)
<1>1. /\ GraphInv(g, tables) /\ GraphInv(h, more) /\ cs \in Seq(CallRecords) /\ cs # << >>
      /\ ParserInv(g, cs) /\ Grows(g, h, "followingStatement", type, FuncNames)
      /\ k \in Nat
  BY DEF Follows
<1>2. h.activeStat = n /\ h.activeFunc = g.activeFunc /\ h.cf_error = "CF_NO_ERROR"
  BY <1>1 DEF Grows, ParserInv
<1>3. NewAdded(g, h, type)
  <2>1. "followingStatement" \in Edges BY DEF Edges
  <2> QED BY <1>1, <2>1, GrowsNew
<1>4. at \notin Arms /\ at \in Headers /\ at \notin {"func_name", "func"}
  BY DEF Arms, Headers, EntersAt
<1>5. Open(h, c, n)
  <2>1. n \in Statements(h) BY <1>3 DEF NewAdded
  <2>2. OwnerState(at, h.stat[n]) BY <1>3 DEF NewAdded, IsNew, OwnerState, EntersAt
  <2> QED BY <1>4, <2>1, <2>2, HeaderIsOpen
<1>6. Outer(h, cs, k, n) BY <1>1, FollowIsOuter
<1>7. c.owner = n /\ c.at = at BY DEF Call
<1> HIDE DEF c, n
<1>8. /\ Len(cs2) = k + 1 /\ cs2[k + 1] = c /\ SamePrefix(cs, cs2, k)
      /\ Top(cs2) = c
  BY <1>1 DEF SamePrefix, Top, c, n
<1>9. WellOpen(h, cs2)
  <2>1. n \in Nat /\ n <= n BY <1>3 DEF NewAdded, n
  <2> HIDE DEF k
  <2> QED BY <1>1, <1>2, <1>4, <1>5, <1>6, <1>7, <1>8, <2>1, OuterAndCall
<1>10. InnermostCall(h, cs2)
  <2>1. g.activeFunc # NULL BY <1>1 DEF ParserInv, InnermostCall
  <2> QED BY <1>2, <1>4, <1>7, <1>8, <2>1 DEF InnermostCall, Headers
<1> QED BY <1>2, <1>9, <1>10 DEF ParserInv, WellOpen

(* Between two arms the innermost call is at its own statement.            *)
LEMMA HeaderOwner ==
  ASSUME NEW g, NEW tables, GraphInv(g, tables), NEW cs \in Seq(CallRecords), cs # << >>,
         ParserInv(g, cs), Top(cs).at \in Headers
  PROVE  /\ Len(cs) \in 2 .. Len(cs) /\ Top(cs) = cs[Len(cs)] /\ Len(cs) - 1 \in 1 .. Len(cs)
         /\ g.activeStat = Top(cs).owner /\ g.activeStat \in Statements(g)
         /\ g.activeStat # NULL
         /\ OwnerState(Top(cs).at, g.stat[g.activeStat])
<1> DEFINE n == Len(cs)
<1>1. n \in Nat /\ n >= 1 /\ Top(cs) = cs[n] BY DEF Top
<1>2. n # 1
  <2>1. Nested(cs) BY DEF ParserInv
  <2>2. cs[n].at \notin {"func_name", "func"} BY <1>1 DEF Headers
  <2>3. n \in 1 .. n BY <1>1
  <2> QED BY <2>1, <2>2, <2>3 DEF Nested
<1> HIDE DEF n
<1>3. n \in 2 .. n /\ n - 1 \in 1 .. n BY <1>1, <1>2
<1>4. g.activeStat = Top(cs).owner BY DEF ParserInv, InnermostCall
<1>5. /\ g.activeStat \in Statements(g) /\ g.activeStat # NULL
      /\ OwnerState(cs[n].at, g.stat[cs[n].owner])
  BY <1>3, OuterCalls DEF n
<1> QED BY <1>1, <1>3, <1>4, <1>5 DEF n

(* The same in an arm, other than the body of a function.                  *)
LEMMA ArmOwner ==
  ASSUME NEW g, NEW tables, GraphInv(g, tables), NEW cs \in Seq(CallRecords), cs # << >>,
         ParserInv(g, cs), Top(cs).at \in Arms
  PROVE  /\ Len(cs) \in 2 .. Len(cs) /\ Top(cs) = cs[Len(cs)] /\ Len(cs) - 1 \in 1 .. Len(cs)
         /\ g.activeStat \in Statements(g) /\ g.activeStat # NULL
         /\ Open(g, Top(cs), g.activeStat)
<1> DEFINE n == Len(cs)
<1>1. n \in Nat /\ n >= 1 /\ Top(cs) = cs[n] BY DEF Top
<1>2. n # 1
  <2>1. Nested(cs) BY DEF ParserInv
  <2>2. cs[n].at \notin {"func_name", "func"} BY <1>1 DEF Arms
  <2>3. n \in 1 .. n BY <1>1
  <2> QED BY <2>1, <2>2, <2>3 DEF Nested
<1> HIDE DEF n
<1>3. n \in 2 .. n /\ n - 1 \in 1 .. n BY <1>1, <1>2
<1>4. /\ g.activeStat \in Statements(g) /\ g.activeStat # NULL
      /\ Open(g, cs[n], g.activeStat)
  BY <1>3, OuterCalls DEF n
<1> QED BY <1>1, <1>3, <1>4 DEF n

(* All calls but the innermost, after a step that keeps them open.         *)
LEMMA OthersAreOuter ==
  ASSUME NEW g, NEW tables, GraphInv(g, tables), NEW cs \in Seq(CallRecords), ParserInv(g, cs),
         Len(cs) \in 2 .. Len(cs), NEW h,
         \A c, b : (Open(g, c, b) /\ c.at \in Arms /\ b <= cs[Len(cs)].owner) => Open(h, c, b)
  PROVE  Outer(h, cs, Len(cs) - 1, cs[Len(cs)].owner)
<1> DEFINE n == Len(cs)
           k == n - 1
           b == cs[n].owner
<1>1. n \in Nat /\ k \in Nat /\ k >= 1 /\ k \in 1 .. n /\ k < n /\ n \in 2 .. n OBVIOUS
<1>2. Nested(cs) /\ cs[k].at \in Arms \union {"func"}
  <2> HIDE DEF k
  <2> QED BY <1>1 DEF ParserInv, Nested
<1>3. b \in Nat
  <2>1. b \in Statements(g) BY <1>1, OuterCalls
  <2> QED BY <2>1 DEF Statements
<1>4. ASSUME NEW i \in 2 .. k
      PROVE  /\ Open(h, cs[i], IF i = k THEN b ELSE cs[i + 1].owner)
             /\ cs[i].owner \in Nat /\ cs[i].owner < b
             /\ \A j \in 2 .. k : i < j => cs[i].owner < cs[j].owner
  <2>1. i \in 2 .. n /\ i < n /\ (i = k => i + 1 = n) BY <1>1
  <2>2. /\ cs[i].at \in Arms /\ Open(g, cs[i], cs[i + 1].owner)
        /\ cs[i + 1].owner <= b /\ cs[i].owner \in Statements(g)
    BY <2>1, OuterCalls
  <2>3. Open(h, cs[i], cs[i + 1].owner) BY <2>2
  <2>4. cs[i].owner \in Nat BY <2>2 DEF Statements
  <2>5. cs[i].owner < b BY <1>1, <2>1 DEF ParserInv, Ordered
  <2>6. \A j \in 2 .. k : j \in 2 .. n BY <1>1
  <2>7. \A j \in 2 .. k : i < j => cs[i].owner < cs[j].owner
    BY <2>1, <2>6 DEF ParserInv, Ordered
  <2> QED BY <2>1, <2>3, <2>4, <2>5, <2>7
<1> QED BY <1>1, <1>2, <1>3, <1>4 DEF Outer

(* The parser enters an arm of the active statement.                       *)
EntersArm(g, tables, h, more, edge, type, at, cs) ==
  /\ GraphInv(g, tables) /\ GraphInv(h, more)
  /\ cs \in Seq(CallRecords) /\ cs # << >>
  /\ ParserInv(g, cs)
  /\ Top(cs).at \in Headers
  /\ edge \in Edges /\ type \in StatementTypes
  /\ Grows(g, h, edge, type, FuncNames)
  /\ at \in Arms
  /\ OwnerState(at, h.stat[g.activeStat])

LEMMA EnteredIsOuter ==
  ASSUME NEW g, NEW tables, NEW h, NEW more, NEW edge, NEW type, NEW at, NEW cs,
         EntersArm(g, tables, h, more, edge, type, at, cs)
  PROVE  /\ Outer(h, cs, Len(cs) - 1, g.activeStat)
         /\ Open(h, Call(at, g.activeStat), NewId(g))
         /\ g.activeStat < NewId(g) /\ NewId(g) \in Nat /\ g.activeStat \in Nat
         /\ NewAdded(g, h, type)
         /\ h.activeStat = NewId(g) /\ h.activeFunc = g.activeFunc
         /\ h.cf_error = "CF_NO_ERROR" /\ g.activeFunc # NULL
<1> USE DEF EntersArm
<1>1. /\ Len(cs) \in 2 .. Len(cs) /\ Top(cs) = cs[Len(cs)] /\ g.activeStat = Top(cs).owner
      /\ g.activeStat \in Statements(g) /\ g.activeStat # NULL
  BY HeaderOwner
<1>2. ASSUME NEW c, NEW b, Open(g, c, b), c.at \in Arms, b <= cs[Len(cs)].owner
      PROVE  Open(h, c, b)
  BY <1>1, <1>2, GrowsKeepsOpen
<1>3. Outer(h, cs, Len(cs) - 1, cs[Len(cs)].owner) BY <1>1, <1>2, OthersAreOuter
<1>4. Open(h, Call(at, g.activeStat), NewId(g)) BY <1>1, ArmIsOpen
<1>5. g.activeStat < NewId(g) /\ NewId(g) \in Nat /\ g.activeStat \in Nat
  <2>1. Len(g.stat) \in Nat BY GraphParts DEF GraphInv
  <2> QED BY <1>1, <2>1 DEF Statements, NewId
<1>6. NewAdded(g, h, type) BY GrowsNew
<1>7. /\ h.activeStat = NewId(g) /\ h.activeFunc = g.activeFunc
      /\ h.cf_error = "CF_NO_ERROR" /\ g.activeFunc # NULL
  BY DEF Grows, ParserInv, InnermostCall
<1> QED BY <1>1, <1>3, <1>4, <1>5, <1>6, <1>7

(* A then block, an else block or the body of a for.                       *)
LEMMA BlockEntered ==
  ASSUME NEW g, NEW tables, NEW h, NEW more, NEW edge, NEW at, NEW cs,
         EntersArm(g, tables, h, more, edge, "CF_BASIC", at, cs),
         NEW cs2 \in Seq(CallRecords), cs2 = Append(Pop(cs), Call(at, Top(cs).owner))
  PROVE  ParserInv(h, cs2)
<1> DEFINE n == NewId(g)
           c == Call(at, g.activeStat)
           k == Len(cs) - 1
<1>1. /\ Outer(h, cs, k, g.activeStat) /\ Open(h, c, n)
      /\ g.activeStat < n /\ n \in Nat /\ g.activeStat \in Nat /\ NewAdded(g, h, "CF_BASIC")
      /\ h.activeStat = n /\ h.activeFunc = g.activeFunc
      /\ h.cf_error = "CF_NO_ERROR" /\ g.activeFunc # NULL
  BY EnteredIsOuter
<1>2. /\ Len(cs) \in 2 .. Len(cs) /\ Top(cs) = cs[Len(cs)] /\ g.activeStat = Top(cs).owner
      /\ cs \in Seq(CallRecords) /\ cs # << >> /\ at \in Arms
  BY HeaderOwner DEF EntersArm
<1>3. c.at = at /\ c.owner = g.activeStat /\ at \notin {"func_name", "func"}
      /\ at \notin Headers /\ at # "func_name"
  BY <1>2 DEF Call, Arms, Headers
<1> HIDE DEF c, n
<1>4. c \in CallRecords
  <2>1. at \in Places BY <1>2 DEF Arms, Places
  <2> QED BY <1>1, <2>1 DEF CallRecords, Call, c
<1>5. /\ Len(cs2) = k + 1 /\ cs2[k + 1] = c /\ SamePrefix(cs, cs2, k) /\ Top(cs2) = c
  <2>1. cs2 = Append(Pop(cs), c) BY <1>2 DEF c
  <2>2. /\ Len(cs2) = Len(cs) /\ cs2[Len(cs)] = c /\ Len(cs) - 1 \in Nat
        /\ \A i \in 1 .. Len(cs) - 1 : cs2[i] = cs[i]
    BY <1>2, <1>4, <2>1, MoveCalls
  <2>3. k + 1 = Len(cs) BY <1>2
  <2> QED BY <2>2, <2>3 DEF SamePrefix, Top
<1> HIDE DEF k
<1>6. WellOpen(h, cs2)
  <2>1. g.activeStat <= n BY <1>1
  <2> QED BY <1>1, <1>2, <1>3, <1>5, <2>1, OuterAndCall
<1>7. InnermostCall(h, cs2)
  <2>1. Settled(h.stat[n]) BY <1>1 DEF NewAdded, IsNew, Settled, n
  <2> QED BY <1>1, <1>3, <1>5, <2>1 DEF InnermostCall
<1> QED BY <1>1, <1>6, <1>7 DEF ParserInv, WellOpen

(* An else if: the rest of it is the else branch of the outer if.          *)
LEMMA ElseIfEntered ==
  ASSUME NEW g, NEW tables, NEW h, NEW more, NEW edge, NEW cs,
         EntersArm(g, tables, h, more, edge, "CF_IF", "elif", cs),
         NEW cs2 \in Seq(CallRecords),
         cs2 = Pop(cs) \o <<Call("elif", Top(cs).owner), Call("if_cond", NewId(g))>>
  PROVE  ParserInv(h, cs2)
<1> DEFINE n == NewId(g)
           c == Call("elif", g.activeStat)
           d == Call("if_cond", n)
           k == Len(cs) - 1
           cs1 == Append(Pop(cs), c)
<1>1. /\ Outer(h, cs, k, g.activeStat) /\ Open(h, c, n)
      /\ g.activeStat < n /\ n \in Nat /\ g.activeStat \in Nat /\ NewAdded(g, h, "CF_IF")
      /\ h.activeStat = n /\ h.activeFunc = g.activeFunc
      /\ h.cf_error = "CF_NO_ERROR" /\ g.activeFunc # NULL
  BY EnteredIsOuter
<1>2. /\ Len(cs) \in 2 .. Len(cs) /\ Top(cs) = cs[Len(cs)] /\ g.activeStat = Top(cs).owner
      /\ cs \in Seq(CallRecords) /\ cs # << >>
  BY HeaderOwner DEF EntersArm
<1>3. c.at = "elif" /\ c.owner = g.activeStat /\ d.at = "if_cond" /\ d.owner = n
  BY DEF Call
<1>4. Open(h, d, n)
  <2>1. n \in Statements(h) BY <1>1 DEF NewAdded
  <2>2. OwnerState("if_cond", h.stat[n]) BY <1>1 DEF NewAdded, IsNew, OwnerState
  <2>3. "if_cond" \notin Arms BY DEF Arms
  <2> QED BY <2>1, <2>2, <2>3, HeaderIsOpen
<1>5. c \in CallRecords /\ d \in CallRecords
  <2>1. "elif" \in Places /\ "if_cond" \in Places BY DEF Places
  <2> QED BY <1>1, <2>1 DEF CallRecords, Call
<1>6. cs2 = Pop(cs) \o <<c, d>> BY <1>2
<1> HIDE DEF c, d, n
<1>7. /\ Pop(cs) \in Seq(CallRecords) /\ Len(Pop(cs)) = k /\ k \in Nat
      /\ \A i \in 1 .. k : Pop(cs)[i] = cs[i]
  BY <1>2, PopCalls
<1> HIDE DEF k
<1>8. /\ cs1 \in Seq(CallRecords) /\ Len(cs1) = k + 1 /\ cs1[k + 1] = c
      /\ \A i \in 1 .. k : cs1[i] = cs[i]
  BY <1>5, <1>7
<1>9. /\ Len(cs2) = k + 2 /\ cs2[k + 1] = c /\ cs2[k + 2] = d
      /\ \A i \in 1 .. k : cs2[i] = cs[i]
  <2> DEFINE outer == Pop(cs)
             two == <<c, d>>
  <2>1. outer \in Seq(CallRecords) /\ Len(outer) = k BY <1>7
  <2>2. two \in Seq(CallRecords) /\ Len(two) = 2 /\ two[1] = c /\ two[2] = d BY <1>5
  <2>3. cs2 = outer \o two BY <1>6
  <2> HIDE DEF outer, two
  <2>4. /\ Len(cs2) = k + 2 /\ cs2[k + 1] = c /\ cs2[k + 2] = d
        /\ \A i \in 1 .. k : cs2[i] = outer[i]
    <3>1. Len(cs2) = k + 2 BY <1>7, <2>1, <2>2, <2>3
    <3>2. \A i \in 1 .. k + 2 : cs2[i] = IF i <= k THEN outer[i] ELSE two[i - k]
      BY <1>7, <2>1, <2>2, <2>3
    <3>3. k + 1 \in 1 .. k + 2 /\ k + 2 \in 1 .. k + 2 /\ k + 1 - k = 1 /\ k + 2 - k = 2
          /\ ~ (k + 1 <= k) /\ ~ (k + 2 <= k) /\ \A i \in 1 .. k : i \in 1 .. k + 2 /\ i <= k
      BY <1>7
    <3>4. cs2[k + 1] = two[1] /\ cs2[k + 2] = two[2] BY <1>7, <3>2, <3>3
    <3> QED BY <2>2, <3>1, <3>2, <3>3, <3>4
  <2> QED BY <1>7, <2>4 DEF outer
<1> HIDE DEF cs1
<1>10. Outer(h, cs1, k + 1, n)
  <2>1. SamePrefix(cs, cs1, k) BY <1>8 DEF SamePrefix
  <2>2. c.at \in Arms BY <1>3 DEF Arms
  <2> QED BY <1>1, <1>2, <1>3, <1>8, <2>1, <2>2, OuterGrows
<1>11. SamePrefix(cs1, cs2, k + 1)
  <2>1. \A i \in 1 .. k + 1 : i = k + 1 \/ i \in 1 .. k BY <1>7
  <2> QED BY <1>8, <1>9, <2>1 DEF SamePrefix
<1>12. WellOpen(h, cs2)
  <2> DEFINE j == k + 1
  <2>1. Len(cs2) = j + 1 /\ cs2[j + 1] = d BY <1>7, <1>9
  <2>2. n <= n BY <1>1
  <2> HIDE DEF j
  <2> QED BY <1>1, <1>3, <1>4, <1>8, <1>10, <1>11, <2>1, <2>2, OuterAndCall DEF j
<1>13. InnermostCall(h, cs2)
  <2>1. Top(cs2) = d BY <1>9 DEF Top
  <2> QED BY <1>1, <1>3, <2>1 DEF InnermostCall, Arms, Headers
<1> QED BY <1>1, <1>12, <1>13 DEF ParserInv, WellOpen

(* The statement that leaving an arm returns to is the owner of the call.  *)
LeavesArm(g, tables, h, cs) ==
  /\ GraphInv(g, tables)
  /\ cs \in Seq(CallRecords) /\ cs # << >>
  /\ ParserInv(g, cs)
  /\ Top(cs).at \in Arms
  /\ h = cf_pop_previous_branched_statement(g)

LEMMA LeavingReturns ==
  ASSUME NEW g, NEW tables, NEW h, NEW cs, LeavesArm(g, tables, h, cs)
  PROVE  LET n == Top(cs).owner
         IN  /\ n \in Statements(g) /\ PopsTo(g, h, n, FuncNames)
             /\ GraphInv(h, tables) /\ FinalStep(g, h)
             /\ Outer(h, cs, Len(cs) - 1, n)
             /\ OwnerState(Top(cs).at, g.stat[n])
<1> USE DEF LeavesArm
<1> DEFINE n == Top(cs).owner
           at == Top(cs).at
<1>1. /\ Len(cs) \in 2 .. Len(cs) /\ Top(cs) = cs[Len(cs)]
      /\ g.activeStat \in Statements(g) /\ g.activeStat # NULL
      /\ Open(g, Top(cs), g.activeStat)
  BY ArmOwner
<1>2. /\ n \in Statements(g) /\ OwnerState(at, g.stat[n])
      /\ PoppableAncestor(g)[g.stat[g.activeStat].parentStatement] = n
  BY <1>1 DEF Open
<1>3. PopsTo(g, h, n, FuncNames)
  <2>1. GraphOK(g, FuncNames) BY DEF GraphInv
  <2> HIDE DEF n
  <2> QED BY <1>1, <1>2, <2>1, PopReturns
<1>4. /\ g.stat[n].popCount <= 1 /\ g.stat[n].followingStatement = NULL
      /\ ClosesIf(g.stat[n]) => g.stat[n].popCount = 0
  <2> DEFINE st == g.stat[n]
  <2>1. OwnerState(at, st) /\ at \in Arms BY <1>2
  <2> HIDE DEF st, at
  <2>2. st.popCount <= 1 /\ st.followingStatement = NULL BY <2>1 DEF OwnerState
  <2>3. ClosesIf(st) => st.popCount = 0 BY <2>1 DEF OwnerState, ClosesIf, Arms
  <2> QED BY <2>2, <2>3 DEF st
<1>5. GraphInv(h, tables) /\ FinalStep(g, h)
  <2> HIDE DEF n
  <2> QED BY <1>1, <1>2, <1>3, <1>4, PopKeepsGraph
<1>6. ASSUME NEW c, NEW b, Open(g, c, b), c.at \in Arms, b <= cs[Len(cs)].owner
      PROVE  Open(h, c, b)
  <2>1. b <= n BY <1>1, <1>6
  <2> HIDE DEF n
  <2> QED BY <1>2, <1>3, <1>5, <1>6, <2>1, PopKeepsOpen
<1>7. Outer(h, cs, Len(cs) - 1, cs[Len(cs)].owner) BY <1>1, <1>6, OthersAreOuter
<1> QED BY <1>1, <1>2, <1>3, <1>5, <1>7

(* A call returns with the cursor at its own statement, now settled.       *)
LEMMA CallReturns ==
  ASSUME NEW h, NEW cs \in Seq(CallRecords), Len(cs) \in 2 .. Len(cs),
         Outer(h, cs, Len(cs) - 1, h.activeStat),
         h.cf_error = "CF_NO_ERROR", h.activeFunc # NULL,
         Settled(h.stat[h.activeStat])
  PROVE  Pop(cs) \in Seq(CallRecords) /\ ParserInv(h, Pop(cs))
<1> DEFINE k == Len(cs) - 1
<1>1. cs # << >> /\ k \in Nat /\ k \in 1 .. Len(cs)
  <2>1. cs # << >>
    <3>1. cs = << >> => Len(cs) = 0 OBVIOUS
    <3> QED BY <3>1
  <2> QED BY <2>1
<1>2. /\ Pop(cs) \in Seq(CallRecords) /\ Len(Pop(cs)) = k
      /\ \A i \in 1 .. k : Pop(cs)[i] = cs[i]
  BY <1>1, PopCalls
<1> DEFINE cs2 == Pop(cs)
<1> HIDE DEF cs2
<1>3. /\ cs2 \in Seq(CallRecords) /\ Len(cs2) = k /\ SamePrefix(cs, cs2, k)
  BY <1>2 DEF SamePrefix, cs2
<1> HIDE DEF k
<1>4. WellOpen(h, cs2)
  <2>1. Outer(h, cs, k, h.activeStat) BY DEF k
  <2> QED BY <1>3, <2>1, OuterIsLeft
<1>5. Top(cs2).at \in Arms \union {"func"}
  <2>1. cs2[k] = cs[k] /\ Top(cs2) = cs2[k] BY <1>1, <1>3 DEF SamePrefix, Top, k
  <2>2. cs[k].at \in Arms \union {"func"} BY DEF Outer, k
  <2> QED BY <2>1, <2>2
<1>6. InnermostCall(h, cs2) BY <1>5 DEF InnermostCall, Arms, Headers
<1> QED BY <1>3, <1>4, <1>6 DEF ParserInv, WellOpen, cs2

(* The end of an else, of an else if or of a for.                          *)
LEMMA LeavesStatement ==
  ASSUME NEW g, NEW tables, NEW h, NEW cs, LeavesArm(g, tables, h, cs), Top(cs).at # "then"
  PROVE  Pop(cs) \in Seq(CallRecords) /\ ParserInv(h, Pop(cs))
<1> DEFINE n == Top(cs).owner
           st == g.stat[n]
           at == Top(cs).at
<1>1. /\ n \in Statements(g) /\ PopsTo(g, h, n, FuncNames)
      /\ Outer(h, cs, Len(cs) - 1, n) /\ OwnerState(at, st)
  BY LeavingReturns
<1>2. /\ cs \in Seq(CallRecords) /\ cs # << >> /\ Len(cs) \in 2 .. Len(cs)
      /\ at \in {"else", "for", "elif"} /\ g.cf_error = "CF_NO_ERROR" /\ g.activeFunc # NULL
  BY ArmOwner DEF LeavesArm, Arms, ParserInv, InnermostCall
<1>3. h.activeStat = n /\ h.cf_error = "CF_NO_ERROR" /\ h.activeFunc # NULL
  BY <1>1, <1>2 DEF PopsTo
<1>4. Settled(h.stat[n])
  <2>1. h.stat[n].popCount = st.popCount + 1 /\ h.stat[n].statementType = st.statementType
    BY <1>1 DEF PopsTo
  <2> HIDE DEF st, at
  <2>2. CASE at = "for" BY <1>1, <2>1, <2>2 DEF OwnerState, Settled
  <2>3. CASE at \in {"else", "elif"} BY <1>1, <2>1, <2>3 DEF OwnerState, Settled
  <2> QED BY <1>2, <2>2, <2>3
<1> HIDE DEF n
<1> QED BY <1>1, <1>2, <1>3, <1>4, CallReturns

(* The end of a then block: an else may follow.                            *)
LEMMA LeavesThen ==
  ASSUME NEW g, NEW tables, NEW h, NEW cs, LeavesArm(g, tables, h, cs), Top(cs).at = "then",
         NEW cs2 \in Seq(CallRecords), cs2 = Append(Pop(cs), Call("else_", Top(cs).owner))
  PROVE  ParserInv(h, cs2)
<1> DEFINE n == Top(cs).owner
           st == g.stat[n]
           c == Call("else_", n)
           k == Len(cs) - 1
<1>1. /\ n \in Statements(g) /\ PopsTo(g, h, n, FuncNames)
      /\ Outer(h, cs, k, n) /\ OwnerState("then", st)
  BY LeavingReturns
<1>2. /\ cs \in Seq(CallRecords) /\ cs # << >> /\ Len(cs) \in 2 .. Len(cs)
      /\ g.cf_error = "CF_NO_ERROR" /\ g.activeFunc # NULL
  BY ArmOwner DEF LeavesArm, ParserInv, InnermostCall
<1>3. h.activeStat = n /\ h.cf_error = "CF_NO_ERROR" /\ h.activeFunc # NULL
  BY <1>1, <1>2 DEF PopsTo
<1>4. /\ c \in CallRecords /\ c.at = "else_" /\ c.owner = n /\ n \in Nat /\ n <= n
  <2>1. n \in Nat BY <1>1 DEF Statements
  <2> HIDE DEF n
  <2> QED BY <2>1 DEF Call, CallRecords, Places
<1>5. Open(h, c, n)
  <2>1. OwnerState("else_", h.stat[n])
    <3>1. /\ h.stat[n].popCount = st.popCount + 1 /\ h.stat[n].statementType = st.statementType
          /\ h.stat[n].followingStatement = st.followingStatement
          /\ h.stat[n].elseStatement = st.elseStatement
      BY <1>1 DEF PopsTo
    <3> HIDE DEF st
    <3> QED BY <1>1, <3>1 DEF OwnerState
  <2>2. n \in Statements(h) BY <1>1 DEF PopsTo, Statements
  <2>3. "else_" \notin Arms BY DEF Arms
  <2> HIDE DEF n
  <2> QED BY <2>1, <2>2, <2>3, HeaderIsOpen
<1> HIDE DEF c, n
<1>6. /\ Len(cs2) = k + 1 /\ cs2[k + 1] = c /\ SamePrefix(cs, cs2, k) /\ Top(cs2) = c
  <2>1. cs2 = Append(Pop(cs), c) BY DEF c, n
  <2>2. /\ Len(cs2) = Len(cs) /\ cs2[Len(cs)] = c /\ Len(cs) - 1 \in Nat
        /\ \A i \in 1 .. Len(cs) - 1 : cs2[i] = cs[i]
    BY <1>2, <1>4, <2>1, MoveCalls
  <2>3. k + 1 = Len(cs) BY <1>2
  <2> QED BY <2>2, <2>3 DEF SamePrefix, Top
<1> HIDE DEF k
<1>7. WellOpen(h, cs2) BY <1>1, <1>2, <1>3, <1>4, <1>5, <1>6, OuterAndCall
<1>8. InnermostCall(h, cs2)
  BY <1>3, <1>4, <1>6 DEF InnermostCall, Arms
<1> QED BY <1>3, <1>7, <1>8 DEF ParserInv, WellOpen

(* A return with its list, and an if without an else: the call returns and *)
(* the graph is the same but for an AST.                                   *)
LEMMA StatementEnds ==
  ASSUME NEW g, NEW tables, GraphInv(g, tables), NEW cs \in Seq(CallRecords), cs # << >>,
         ParserInv(g, cs), Top(cs).at \in {"return", "else_"},
         NEW h, GraphInv(h, tables), h = g \/ SameButAst(g, h, FuncNames)
  PROVE  Pop(cs) \in Seq(CallRecords) /\ ParserInv(h, Pop(cs))
<1> DEFINE a == g.activeStat
           st == g.stat[a]
           at == Top(cs).at
<1>1. /\ Len(cs) \in 2 .. Len(cs) /\ Top(cs) = cs[Len(cs)]
      /\ a = Top(cs).owner /\ a \in Statements(g) /\ OwnerState(at, st)
  <2>1. Top(cs).at \in Headers BY DEF Headers
  <2> QED BY <2>1, HeaderOwner
<1>2. /\ h.activeStat = a /\ h.activeFunc = g.activeFunc /\ h.cf_error = g.cf_error
      /\ h.stat[a].statementType = st.statementType /\ h.stat[a].popCount = st.popCount
      /\ h.stat[a].elseStatement = st.elseStatement
  <2>1. CASE h = g BY <2>1
  <2>2. CASE SameButAst(g, h, FuncNames) BY <1>1, <2>2 DEF SameButAst
  <2> QED BY <2>1, <2>2
<1>3. ASSUME NEW c, NEW b, Open(g, c, b) PROVE Open(h, c, b)
  <2>1. CASE h = g BY <1>3, <2>1
  <2>2. CASE SameButAst(g, h, FuncNames) BY <1>3, <2>2, AstKeepsOpen
  <2> QED BY <2>1, <2>2
<1>4. Outer(h, cs, Len(cs) - 1, cs[Len(cs)].owner) BY <1>1, <1>3, OthersAreOuter
<1>5. Outer(h, cs, Len(cs) - 1, h.activeStat) BY <1>1, <1>2, <1>4
<1>6. Settled(h.stat[h.activeStat])
  <2>1. at \in {"return", "else_"} OBVIOUS
  <2> HIDE DEF st, at
  <2>2. CASE at = "return" BY <1>1, <1>2, <2>2 DEF OwnerState, Settled
  <2>3. CASE at = "else_" BY <1>1, <1>2, <2>3 DEF OwnerState, Settled, ClosesIf
  <2> QED BY <2>1, <2>2, <2>3
<1>7. h.cf_error = "CF_NO_ERROR" /\ h.activeFunc # NULL
  BY <1>2 DEF ParserInv, InnermostCall
<1> QED BY <1>1, <1>5, <1>6, <1>7, CallReturns

(* The line ends after return.                                             *)
LEMMA ReturnLineEnds ==
  ASSUME NEW g, NEW tables, GraphInv(g, tables), NEW cs \in Seq(CallRecords), cs # << >>,
         ParserInv(g, cs), Top(cs).at = "return",
         NEW cs2 \in Seq(CallRecords), cs2 = Append(Pop(cs), Call("id_next", Top(cs).owner))
  PROVE  ParserInv(g, cs2)
<1> DEFINE a == g.activeStat
           c == Call("id_next", a)
           k == Len(cs) - 1
<1>1. /\ Len(cs) \in 2 .. Len(cs) /\ Top(cs) = cs[Len(cs)]
      /\ a = Top(cs).owner /\ a \in Statements(g) /\ OwnerState("return", g.stat[a])
  <2>1. Top(cs).at \in Headers BY DEF Headers
  <2> QED BY <2>1, HeaderOwner
<1>2. Outer(g, cs, k, a) BY <1>1, OthersAreOuter
<1>3. Open(g, c, a)
  <2>1. OwnerState("id_next", g.stat[a]) BY <1>1 DEF OwnerState
  <2>2. "id_next" \notin Arms BY DEF Arms
  <2> QED BY <1>1, <2>1, <2>2, HeaderIsOpen
<1>4. /\ c \in CallRecords /\ c.at = "id_next" /\ c.owner = a /\ a \in Nat /\ a <= a
  <2>1. a \in Nat BY <1>1 DEF Statements
  <2> HIDE DEF a
  <2> QED BY <2>1 DEF Call, CallRecords, Places
<1> HIDE DEF c
<1>5. /\ Len(cs2) = k + 1 /\ cs2[k + 1] = c /\ SamePrefix(cs, cs2, k) /\ Top(cs2) = c
  <2>1. cs2 = Append(Pop(cs), c) BY <1>1 DEF c
  <2>2. /\ Len(cs2) = Len(cs) /\ cs2[Len(cs)] = c /\ Len(cs) - 1 \in Nat
        /\ \A i \in 1 .. Len(cs) - 1 : cs2[i] = cs[i]
    BY <1>4, <2>1, MoveCalls
  <2>3. k + 1 = Len(cs) BY <1>1
  <2> QED BY <2>2, <2>3 DEF SamePrefix, Top
<1> HIDE DEF k
<1>6. WellOpen(g, cs2) BY <1>2, <1>3, <1>4, <1>5, OuterAndCall
<1>7. InnermostCall(g, cs2)
  <2>1. g.activeFunc # NULL BY DEF ParserInv, InnermostCall
  <2> QED BY <1>4, <1>5, <2>1 DEF InnermostCall, Arms
<1> QED BY <1>6, <1>7 DEF ParserInv, WellOpen

(* The call that reads a function is the only one while it is the last.    *)
LEMMA FunctionIsAlone ==
  ASSUME NEW cs \in Seq(CallRecords), cs # << >>, Nested(cs), Top(cs).at \in {"func_name", "func"}
  PROVE  Len(cs) = 1 /\ Pop(cs) = << >>
<1>1. Len(cs) \in Nat /\ Len(cs) \in 1 .. Len(cs) /\ Top(cs) = cs[Len(cs)] BY DEF Top
<1>2. Len(cs) = 1 BY <1>1 DEF Nested
<1>3. Len(Pop(cs)) = 0 /\ Pop(cs) \in Seq(CallRecords)
  <2>1. Len(Pop(cs)) = Len(cs) - 1 /\ Pop(cs) \in Seq(CallRecords) BY PopCalls
  <2> QED BY <1>2, <2>1
<1>4. Pop(cs) = << >> BY <1>3
<1> QED BY <1>2, <1>4

(* A single call, that of a function.                                      *)
LEMMA FunctionCall ==
  ASSUME NEW h, h.cf_error = "CF_NO_ERROR", h.activeFunc # NULL, h.activeStat = NULL,
         NEW at \in {"func_name", "func"},
         at = "func_name" => h.funcs[h.activeFunc].symbolTable = NULL,
         NEW owner \in Nat
  PROVE  <<Call(at, owner)>> \in Seq(CallRecords) /\ ParserInv(h, <<Call(at, owner)>>)
<1> DEFINE c == Call(at, owner)
           cs == <<c>>
<1>1. c \in CallRecords /\ c.at = at BY DEF Call, CallRecords, Places
<1> HIDE DEF c
<1>2. /\ cs \in Seq(CallRecords) /\ Len(cs) = 1 /\ cs[1] = c /\ Top(cs) = c
      /\ \A i \in 1 .. 1 : i = 1 /\ ~ (i < 1)
  BY <1>1 DEF Top
<1> HIDE DEF cs
<1>3. Nested(cs) BY <1>1, <1>2 DEF Nested
<1>4. AllOpen(h, cs) /\ Ordered(h, cs)
  <2>1. 2 .. 1 = {} OBVIOUS
  <2> QED BY <1>2, <2>1 DEF AllOpen, Ordered
<1>5. InnermostCall(h, cs) BY <1>1, <1>2 DEF InnermostCall, Arms, Headers
<1>6. cs \in Seq(CallRecords) /\ ParserInv(h, cs) BY <1>2, <1>3, <1>4, <1>5 DEF ParserInv
<1> QED BY <1>6 DEF cs, c

LEMMA NoCall ==
  ASSUME NEW h, h.cf_error = "CF_NO_ERROR"
  PROVE  << >> \in Seq(CallRecords) /\ ParserInv(h, << >>)
<1>1. << >> \in Seq(CallRecords) /\ Len(<< >>) = 0 OBVIOUS
<1>2. 1 .. 0 = {} /\ 2 .. 0 = {} OBVIOUS
<1>3. Nested(<< >>) /\ AllOpen(h, << >>) /\ Ordered(h, << >>)
  BY <1>1, <1>2 DEF Nested, AllOpen, Ordered
<1>4. InnermostCall(h, << >>) BY DEF InnermostCall
<1> QED BY <1>1, <1>3, <1>4 DEF ParserInv

-----------------------------------------------------------------------------
(* The inductive invariant. *)

Pending(cs) == IF cs # << >> /\ Top(cs).at = "func_name" THEN 1 ELSE 0

(* Every table belongs to a statement or a function that was made for it.  *)
Bounded ==
  /\ allocated + Pending(calls) <= Len(graph.stat) + Len(graph.funcs)
  /\ Len(graph.stat) + 2 * Len(graph.funcs) <= MaxSize

CallsOK(cs) ==
  /\ cs \in Seq(CallRecords)
  /\ \A i \in 1 .. Len(cs) : cs[i].owner \in 1 .. MaxSize

IInv ==
  /\ GraphInv(graph, allocated)
  /\ CallsOK(calls)
  /\ symtables \in Seq(1 .. allocated)
  /\ result \in {"SUCCESS", "ERROR"}
  /\ finished \in BOOLEAN
  /\ Bounded
  /\ semantic_enabled => ParserInv(graph, calls)

StepOK == IInv' /\ FinalStep(graph, graph')

LEMMA PopAny ==
  ASSUME NEW S, NEW s \in Seq(S)
  PROVE  Pop(s) \in Seq(S)
<1>1. CASE s # << >> BY <1>1, PopCalls
<1>2. CASE s = << >>
  <2>1. Pop(s) = SubSeq(<< >>, 1, 0 - 1) BY <1>2 DEF Pop
  <2>2. SubSeq(<< >>, 1, 0 - 1) = << >> OBVIOUS
  <2> QED BY <2>1, <2>2
<1> QED BY <1>1, <1>2

LEMMA PushTable ==
  ASSUME NEW n \in Nat, NEW s \in Seq(1 .. n)
  PROVE  Append(s, n + 1) \in Seq(1 .. n + 1)
<1>1. s \in Seq(1 .. n + 1)
  <2>1. Len(s) \in Nat /\ \A i \in 1 .. Len(s) : s[i] \in 1 .. n + 1 OBVIOUS
  <2>2. s = [i \in 1 .. Len(s) |-> s[i]] OBVIOUS
  <2> QED BY <2>1, <2>2
<1>2. n + 1 \in 1 .. n + 1 OBVIOUS
<1> DEFINE S == 1 .. n + 1
           m == n + 1
<1>3. s \in Seq(S) /\ m \in S BY <1>1, <1>2
<1> HIDE DEF S, m
<1>4. Append(s, m) \in Seq(S) BY <1>3
<1> QED BY <1>4 DEF S, m

(* The calls stay in range. *)
LEMMA AppendCall ==
  ASSUME NEW cs, CallsOK(cs), NEW c \in CallRecords, c.owner \in 1 .. MaxSize
  PROVE  CallsOK(Append(cs, c))
<1>1. cs \in Seq(CallRecords) /\ Len(cs) \in Nat BY DEF CallsOK
<1> DEFINE cs2 == Append(cs, c)
<1>2. /\ cs2 \in Seq(CallRecords) /\ Len(cs2) = Len(cs) + 1 /\ cs2[Len(cs) + 1] = c
      /\ \A i \in 1 .. Len(cs) : cs2[i] = cs[i]
  BY <1>1
<1> HIDE DEF cs2
<1>3. \A i \in 1 .. Len(cs) + 1 : i \in 1 .. Len(cs) \/ i = Len(cs) + 1 BY <1>1
<1>4. CallsOK(cs2) BY <1>2, <1>3 DEF CallsOK
<1> QED BY <1>4 DEF cs2

LEMMA PopCallsOK ==
  ASSUME NEW cs, CallsOK(cs), cs # << >>
  PROVE  CallsOK(Pop(cs)) /\ Top(cs) \in CallRecords /\ Top(cs).owner \in 1 .. MaxSize
<1>1. cs \in Seq(CallRecords) /\ Len(cs) \in Nat /\ Len(cs) \in 1 .. Len(cs) BY DEF CallsOK
<1>2. /\ Pop(cs) \in Seq(CallRecords) /\ Len(Pop(cs)) = Len(cs) - 1
      /\ \A i \in 1 .. Len(cs) - 1 : Pop(cs)[i] = cs[i] /\ i \in 1 .. Len(cs)
  BY <1>1, PopCalls
<1>3. CallsOK(Pop(cs)) BY <1>2 DEF CallsOK
<1>4. Top(cs) \in CallRecords /\ Top(cs).owner \in 1 .. MaxSize BY <1>1 DEF Top, CallsOK
<1> QED BY <1>3, <1>4

LEMMA CallIsOK ==
  ASSUME NEW at \in Places, NEW owner \in 1 .. MaxSize
  PROVE  Call(at, owner) \in CallRecords /\ Call(at, owner).owner \in 1 .. MaxSize
BY BoundAssumption DEF Call, CallRecords

(* Where a statement was read, the innermost call is not a new function.   *)
LEMMA NothingPending ==
  ASSUME NEW h, NEW cs, ParserInv(h, cs), h.activeStat # NULL
  PROVE  Pending(cs) = 0
BY DEF Pending, ParserInv, InnermostCall

-----------------------------------------------------------------------------
(* The operations, where the invariant holds.                              *)
LEMMA NextStep ==
  ASSUME NEW g, NEW tables, GraphInv(g, tables), g.activeFunc # NULL, NEW type \in StatementTypes
  PROVE  /\ Grows(g, cf_make_next_statement(g, type), "followingStatement", type, FuncNames)
         /\ cf_make_next_statement(g, type).stat[NewId(g)].localSymbolTable = InheritedSymtable(g)
         /\ EdgeIsFree(g, "followingStatement")
         /\ InheritedSymtable(g) <= tables
<1>1. GraphOK(g, FuncNames) /\ Len(g.stat) \in Nat
  BY GraphParts DEF GraphInv
<1>2. \A s \in Statements(g) : g.stat[s].parentBranchStatement <= Len(g.stat)
  <2>1. \A s \in Statements(g) : g.stat[s].parentBranchStatement \in PointersIn(g)
    BY DEF GraphInv, PointersOK
  <2> QED BY <1>1, <2>1 DEF PointersIn, Statements, NULL
<1>3. /\ Grows(g, cf_make_next_statement(g, type), "followingStatement", type, FuncNames)
      /\ cf_make_next_statement(g, type).stat[NewId(g)].localSymbolTable = InheritedSymtable(g)
  BY <1>1, <1>2, NextStatementGrows
<1>4. InheritedSymtable(g) <= tables
  <2>1. \/ InheritedSymtable(g) = g.funcs[g.activeFunc].symbolTable
        \/ \E s \in Statements(g) : InheritedSymtable(g) = g.stat[s].localSymbolTable
    BY <1>1, InheritedIsThere
  <2>2. g.activeFunc \in 1 .. Len(g.funcs) BY DEF GraphInv, GraphOK
  <2> QED BY <2>1, <2>2 DEF GraphInv, TablesOK
<1>5. EdgeIsFree(g, "followingStatement") BY DEF GraphInv, ActiveIsLast, EdgeIsFree
<1> QED BY <1>3, <1>4, <1>5

(* A branch may be opened once the AST of the active statement is set.     *)
LEMMA BranchStep ==
  ASSUME NEW g, NEW tables, GraphInv(g, tables), g.activeFunc # NULL, g.activeStat # NULL,
         NEW type \in StatementTypes,
         NEW u, u = g \/ SameButAst(g, u, FuncNames)
  PROVE  /\ BranchesMayGrow(FuncNames, u, type)
         /\ u.activeStat = g.activeStat
         /\ u.stat[g.activeStat].statementType = g.stat[g.activeStat].statementType
         /\ u.stat[g.activeStat].elseStatement = g.stat[g.activeStat].elseStatement
         /\ GraphInv(u, tables)
<1>1. GraphInv(u, tables) /\ u.activeFunc # NULL /\ u.activeStat = g.activeStat
  <2>1. CASE u = g BY <2>1
  <2>2. CASE SameButAst(g, u, FuncNames)
    <3>1. GraphInv(u, tables) BY <2>2, AstKeepsGraph
    <3> QED BY <2>2, <3>1 DEF SameButAst
  <2> QED BY <2>1, <2>2
<1>2. GraphOK(u, FuncNames) /\ Len(u.stat) \in Nat BY <1>1, GraphParts DEF GraphInv
<1>3. \A s \in Statements(u) : u.stat[s].parentBranchStatement <= Len(u.stat)
  <2>1. \A s \in Statements(u) : u.stat[s].parentBranchStatement \in PointersIn(u)
    BY <1>1 DEF GraphInv, PointersOK
  <2> QED BY <1>2, <2>1 DEF PointersIn, Statements, NULL
<1>4. /\ u.stat[g.activeStat].statementType = g.stat[g.activeStat].statementType
      /\ u.stat[g.activeStat].elseStatement = g.stat[g.activeStat].elseStatement
  <2>1. g.activeStat \in Statements(g) BY DEF GraphInv, GraphOK
  <2> QED BY <2>1 DEF SameButAst
<1> QED BY <1>1, <1>2, <1>3, <1>4 DEF BranchesMayGrow

-----------------------------------------------------------------------------
(* Every step keeps the invariant. *)

LEMMA InitOK == Init => IInv
<1> SUFFICES ASSUME Init PROVE IInv OBVIOUS
<1>1. /\ graph = cf_init /\ symtables = << >> /\ allocated = 0 /\ calls = << >>
      /\ result = "SUCCESS" /\ finished = FALSE
  BY DEF Init
<1>2. GraphInv(cf_init, 0)
  <2>1. Statements(cf_init) = {} BY DEF Statements, cf_init
  <2>2. cf_init \in Graphs(FuncNames) BY DEF cf_init, Graphs, NULL, CFErrors
  <2>3. GraphOK(cf_init, FuncNames)
    BY <2>1, <2>2 DEF GraphOK, ParentsBefore, cf_init, NULL
  <2>4. PointersOK(cf_init) BY <2>1 DEF PointersOK, cf_init, NULL
  <2>5. TablesOK(cf_init, 0) BY <2>1 DEF TablesOK, cf_init
  <2>6. ActiveIsLast(cf_init) /\ RootIsMade(cf_init) /\ MainIsMain(cf_init)
    BY DEF ActiveIsLast, RootIsMade, MainIsMain, cf_init, NULL
  <2> QED BY <2>1, <2>3, <2>4, <2>5, <2>6 DEF GraphInv
<1>3. Bounded BY <1>1, BoundAssumption DEF Bounded, Pending, cf_init
<1>4. CallsOK(calls) BY <1>1 DEF CallsOK
<1>5. ParserInv(graph, calls) BY <1>1, NoCall DEF cf_init
<1>6. symtables \in Seq(1 .. allocated) BY <1>1
<1> QED BY <1>1, <1>2, <1>3, <1>4, <1>5, <1>6 DEF IInv

LEMMA SameIsFinal ==
  ASSUME NEW g
  PROVE  FinalStep(g, g)
BY DEF FinalStep

(* The numbers of the bound. *)
LEMMA Sizes ==
  ASSUME IInv
  PROVE  /\ allocated \in Nat /\ Len(graph.stat) \in Nat /\ Len(graph.funcs) \in Nat
         /\ Pending(calls) \in 0 .. 1
         /\ allocated + Pending(calls) <= Len(graph.stat) + Len(graph.funcs)
         /\ Len(graph.stat) + 2 * Len(graph.funcs) <= MaxSize
<1>1. GraphInv(graph, allocated) BY DEF IInv
<1>2. allocated \in Nat /\ Len(graph.stat) \in Nat /\ Len(graph.funcs) \in Nat
  BY <1>1, GraphParts DEF GraphInv
<1>3. Pending(calls) \in 0 .. 1 BY DEF Pending
<1>4. Bounded BY DEF IInv
<1> HIDE DEF Pending
<1>5. /\ allocated + Pending(calls) <= Len(graph.stat) + Len(graph.funcs)
      /\ Len(graph.stat) + 2 * Len(graph.funcs) <= MaxSize
  BY <1>4 DEF Bounded
<1> QED BY <1>2, <1>3, <1>5

(* The bound after a step that made these numbers of tables, statements    *)
(* and functions.                                                          *)
LEMMA StaysBounded ==
  ASSUME NEW t \in Nat, NEW s \in Nat, NEW f \in Nat, NEW p \in 0 .. 1,
         allocated' = t, Len(graph'.stat) = s, Len(graph'.funcs) = f, Pending(calls') = p,
         t + p <= s + f, s + 2 * f <= MaxSize
  PROVE  Bounded'
<1>1. allocated' + Pending(calls') <= Len(graph'.stat) + Len(graph'.funcs) OBVIOUS
<1>2. Len(graph'.stat) + 2 * Len(graph'.funcs) <= MaxSize OBVIOUS
<1> QED BY <1>1, <1>2 DEF Bounded

(* The cases of a call that has been made. *)
LEMMA Innermost ==
  ASSUME IInv, Reading, NEW at, At(at)
  PROVE  /\ calls \in Seq(CallRecords) /\ calls # << >> /\ Top(calls).at = at
         /\ GraphInv(graph, allocated) /\ ParserInv(graph, calls)
         /\ graph.activeFunc # NULL /\ InnermostCall(graph, calls) /\ Nested(calls)
         /\ graph.cf_error = "CF_NO_ERROR"
BY DEF IInv, Reading, At, CallsOK, ParserInv, InnermostCall

LEMMA FuncNameOK ==
  ASSUME IInv, NEW name \in FuncNames, FuncName(name)
  PROVE  StepOK
<1> DEFINE n == Len(graph.funcs) + 1
           c == Call("func_name", n)
<1>1. /\ GraphInv(graph, allocated) /\ GraphOK(graph, FuncNames) /\ calls = << >>
      /\ Len(graph.funcs) \in Nat /\ Len(graph.stat) \in Nat /\ allocated \in Nat
      /\ semantic_enabled /\ graph.cf_error = "CF_NO_ERROR"
  BY GraphParts DEF IInv, GraphInv, FuncName, Reading, ParserInv
<1>2. ~ (name = Main /\ graph.mainFunc # NULL)
  <2>1. graph.mainFunc \in 0 .. Len(graph.funcs) BY DEF IInv, GraphInv, PointersOK
  <2>2. MainIsMain(graph) BY DEF IInv, GraphInv
  <2>3. \A f \in 1 .. Len(graph.funcs) : graph.funcs[f].name # name BY DEF FuncName
  <2> QED BY <1>1, <2>1, <2>2, <2>3 DEF MainIsMain, NULL
<1>3. /\ GraphInv(graph', allocated) /\ FinalStep(graph, graph')
      /\ Len(graph'.funcs) = n /\ graph'.stat = graph.stat
      /\ graph'.activeStat = NULL /\ graph'.activeFunc = n
      /\ graph'.funcs[n].symbolTable = NULL /\ graph'.cf_error = "CF_NO_ERROR"
  <2>1. graph' = cf_make_function(graph, name) BY DEF FuncName
  <2> QED BY <1>1, <1>2, <2>1, FunctionKeepsGraph
<1>4. calls' = <<c>> BY <1>1 DEF FuncName, Enter
<1>5. n \in 1 .. MaxSize /\ n \in Nat /\ n # NULL /\ Len(graph.stat) + 2 * n <= MaxSize
  <2> DEFINE s == Len(graph.stat)
             f == Len(graph.funcs)
  <2>1. s + 2 * f + 2 <= MaxSize BY DEF FuncName, Room
  <2>2. s \in Nat /\ f \in Nat BY <1>1
  <2> HIDE DEF s, f
  <2>3. f + 1 \in 1 .. MaxSize /\ f + 1 \in Nat /\ f + 1 # NULL /\ s + 2 * (f + 1) <= MaxSize
    BY <2>1, <2>2, BoundAssumption DEF NULL
  <2> QED BY <2>3 DEF s, f
<1>6. <<c>> \in Seq(CallRecords) /\ ParserInv(graph', <<c>>)
  BY <1>3, <1>5, FunctionCall
<1>7. CallsOK(calls')
  <2>1. c.owner = n BY DEF Call
  <2> QED BY <1>4, <1>5, <1>6, <2>1 DEF CallsOK
<1>8. Bounded'
  <2> DEFINE s == Len(graph.stat)
             f == Len(graph.funcs)
  <2>1. allocated + Pending(calls) <= s + f BY Sizes
  <2>2. Pending(calls') = 1 /\ Pending(calls) = 0 BY <1>1, <1>4 DEF Pending, Top, Call
  <2>3. allocated' = allocated BY DEF FuncName
  <2>4. /\ Len(graph'.stat) = s /\ Len(graph'.funcs) = f + 1 /\ s + 2 * (f + 1) <= MaxSize
        /\ s \in Nat /\ f \in Nat
    BY <1>1, <1>3, <1>5
  <2> HIDE DEF s, f
  <2>5. f + 1 \in Nat /\ allocated + 1 <= s + (f + 1) BY <1>1, <2>1, <2>2, <2>4
  <2> QED BY <1>1, <2>2, <2>3, <2>4, <2>5, StaysBounded
<1>9. symtables' = symtables /\ allocated' = allocated /\ result' = result /\ finished' = finished
  BY DEF FuncName
<1>10. ParserInv(graph', calls') BY <1>4, <1>6
<1> QED BY <1>3, <1>7, <1>8, <1>9, <1>10 DEF StepOK, IInv

LEMMA FuncBodyOK ==
  ASSUME IInv, FuncBody
  PROVE  StepOK
<1>1. /\ calls \in Seq(CallRecords) /\ calls # << >> /\ Top(calls).at = "func_name"
      /\ GraphInv(graph, allocated) /\ ParserInv(graph, calls)
      /\ graph.activeFunc # NULL /\ InnermostCall(graph, calls) /\ Nested(calls)
      /\ graph.cf_error = "CF_NO_ERROR"
  BY Innermost DEF FuncBody
<1> DEFINE owner == Top(calls).owner
           c == Call("func", owner)
<1>2. /\ allocated \in Nat /\ Len(graph.stat) \in Nat /\ Len(graph.funcs) \in Nat
  BY <1>1, GraphParts DEF GraphInv
<1>3. graph.activeStat = NULL /\ graph.funcs[graph.activeFunc].symbolTable = NULL
  BY <1>1 DEF InnermostCall
<1>4. /\ GraphInv(graph', allocated + 1) /\ FinalStep(graph, graph')
      /\ Len(graph'.funcs) = Len(graph.funcs) /\ graph'.stat = graph.stat
      /\ graph'.activeStat = NULL /\ graph'.activeFunc = graph.activeFunc
      /\ graph'.cf_error = "CF_NO_ERROR"
  <2>1. graph' = cf_assign_function_symtable(graph, allocated + 1) BY DEF FuncBody
  <2> QED BY <1>1, <1>3, <2>1, FunctionTableKeepsGraph
<1>5. calls' = <<c>>
  <2>1. Pop(calls) = << >> BY <1>1, FunctionIsAlone
  <2> QED BY <2>1 DEF FuncBody, MoveTo
<1>6. owner \in 1 .. MaxSize /\ owner \in Nat
  <2>1. owner \in 1 .. MaxSize BY <1>1, PopCallsOK DEF IInv
  <2> QED BY <2>1, BoundAssumption
<1> HIDE DEF owner
<1>7. <<c>> \in Seq(CallRecords) /\ ParserInv(graph', <<c>>)
  BY <1>1, <1>4, <1>6, FunctionCall
<1>8. CallsOK(calls')
  <2>1. c.owner = owner BY DEF Call
  <2> QED BY <1>5, <1>6, <1>7, <2>1 DEF CallsOK
<1>9. /\ symtables' = Append(symtables, allocated + 1) /\ allocated' = allocated + 1
      /\ result' = result /\ finished' = finished
  BY DEF FuncBody
<1>10. symtables' \in Seq(1 .. allocated') BY <1>2, <1>9, PushTable DEF IInv
<1>11. Bounded'
  <2>1. Pending(calls) = 1 BY <1>1 DEF Pending
  <2>2. Pending(calls') = 0 BY <1>5 DEF Pending, Top, Call
  <2>3. /\ allocated + 1 <= Len(graph.stat) + Len(graph.funcs)
        /\ Len(graph.stat) + 2 * Len(graph.funcs) <= MaxSize
    BY <2>1, Sizes
  <2> DEFINE s == Len(graph.stat)
             f == Len(graph.funcs)
             t == allocated + 1
  <2>4. /\ t \in Nat /\ s \in Nat /\ f \in Nat
        /\ allocated' = t /\ Len(graph'.stat) = s /\ Len(graph'.funcs) = f
    BY <1>2, <1>4, <1>9
  <2>5. t <= s + f /\ s + 2 * f <= MaxSize BY <2>3
  <2> HIDE DEF s, f, t
  <2>7. t + 0 <= s + f BY <2>4, <2>5
  <2>6. 0 \in 0 .. 1 OBVIOUS
  <2> QED BY <2>2, <2>4, <2>5, <2>6, <2>7, StaysBounded
<1>12. ParserInv(graph', calls') BY <1>5, <1>7
<1> QED BY <1>4, <1>8, <1>9, <1>10, <1>11, <1>12 DEF StepOK, IInv
LEMMA CloseFuncOK ==
  ASSUME IInv, CloseFunc
  PROVE  StepOK
<1>1. /\ calls \in Seq(CallRecords) /\ calls # << >> /\ Top(calls).at = "func"
      /\ Nested(calls) /\ graph.cf_error = "CF_NO_ERROR"
  BY Innermost DEF CloseFunc
<1>2. calls' = << >>
  <2>1. Pop(calls) = << >> BY <1>1, FunctionIsAlone
  <2> QED BY <2>1 DEF CloseFunc, Return
<1>3. /\ symtables' = Pop(symtables) /\ graph' = graph /\ allocated' = allocated
      /\ result' = result /\ finished' = finished
  BY DEF CloseFunc
<1>4. symtables' \in Seq(1 .. allocated')
  <2> DEFINE S == 1 .. allocated
  <2>1. symtables \in Seq(S) BY DEF IInv
  <2> HIDE DEF S
  <2>2. Pop(symtables) \in Seq(S) BY <2>1, PopAny
  <2> QED BY <1>3, <2>2 DEF S
<1>5. ParserInv(graph', calls') BY <1>1, <1>2, <1>3, NoCall
<1>6. CallsOK(calls') BY <1>2 DEF CallsOK
<1>7. Bounded'
  <2>1. Pending(calls) = 0 /\ Pending(calls') = 0 BY <1>1, <1>2 DEF Pending
  <2>2. Bounded BY DEF IInv
  <2> QED BY <1>3, <2>1, <2>2 DEF Bounded
<1>8. FinalStep(graph, graph') BY <1>3, SameIsFinal
<1> QED BY <1>3, <1>4, <1>5, <1>6, <1>7, <1>8 DEF StepOK, IInv

(* A step of the parser that adds a statement, and perhaps its table.      *)
LEMMA GrownStep ==
  ASSUME IInv, Reading, Room(1), GraphInv(graph', allocated'), FinalStep(graph, graph'),
         Len(graph'.stat) = NewId(graph), Len(graph'.funcs) = Len(graph.funcs),
         graph'.activeStat = NewId(graph),
         \/ allocated' = allocated /\ symtables' = symtables
         \/ allocated' = allocated + 1 /\ symtables' = Append(symtables, allocated + 1),
         UNCHANGED <<result, finished>>, CallsOK(calls'), ParserInv(graph', calls')
  PROVE  StepOK
<1>1. symtables' \in Seq(1 .. allocated')
  <2>1. symtables \in Seq(1 .. allocated) /\ allocated \in Nat BY Sizes DEF IInv
  <2>2. CASE allocated' = allocated /\ symtables' = symtables BY <2>1, <2>2
  <2>3. CASE allocated' = allocated + 1 /\ symtables' = Append(symtables, allocated + 1)
    BY <2>1, <2>3, PushTable
  <2> QED BY <2>2, <2>3
<1>2. Bounded'
  <2> DEFINE s == Len(graph.stat)
             f == Len(graph.funcs)
             t == allocated'
             p == Pending(calls)
  <2>1. Pending(calls') = 0
    <3>1. NewId(graph) # NULL BY Sizes DEF NewId, NULL
    <3> QED BY <3>1, NothingPending
  <2>2. /\ s \in Nat /\ f \in Nat /\ allocated \in Nat /\ p \in 0 .. 1
        /\ allocated + p <= s + f /\ Len(graph'.stat) = s + 1 /\ Len(graph'.funcs) = f
    BY Sizes DEF NewId
  <2>3. s + 2 * f + 1 <= MaxSize BY DEF Room
  <2>4. t = allocated \/ t = allocated + 1 OBVIOUS
  <2>5. t = allocated' OBVIOUS
  <2> HIDE DEF s, f, t, p
  <2>6. /\ s + 1 \in Nat /\ t \in Nat /\ t + 0 <= (s + 1) + f /\ (s + 1) + 2 * f <= MaxSize
        /\ 0 \in 0 .. 1
    BY <2>2, <2>3, <2>4, BoundAssumption
  <2> QED BY <2>1, <2>2, <2>5, <2>6, StaysBounded
<1> QED BY <1>1, <1>2 DEF StepOK, IInv

(* A step that adds nothing to the graph, where a statement was read.      *)
LEMMA QuietStep ==
  ASSUME IInv, Reading, GraphInv(graph', allocated), FinalStep(graph, graph'),
         Len(graph'.stat) = Len(graph.stat), Len(graph'.funcs) = Len(graph.funcs),
         graph'.activeStat # NULL, allocated' = allocated,
         symtables' \in Seq(1 .. allocated),
         UNCHANGED <<result, finished>>, CallsOK(calls'), ParserInv(graph', calls')
  PROVE  StepOK
<1>1. Bounded'
  <2> DEFINE s == Len(graph.stat)
             f == Len(graph.funcs)
             p == Pending(calls)
  <2>1. Pending(calls') = 0 BY NothingPending
  <2>2. /\ s \in Nat /\ f \in Nat /\ allocated \in Nat /\ p \in 0 .. 1
        /\ allocated + p <= s + f /\ s + 2 * f <= MaxSize
        /\ Len(graph'.stat) = s /\ Len(graph'.funcs) = f
    BY Sizes
  <2> HIDE DEF s, f, p
  <2>3. allocated + 0 <= s + f /\ 0 \in 0 .. 1 BY <2>2
  <2> QED BY <2>1, <2>2, <2>3, StaysBounded
<1> QED BY <1>1 DEF StepOK, IInv

(* The number of a new statement is in range. *)
LEMMA NewIdFits ==
  ASSUME IInv, Room(1)
  PROVE  NewId(graph) \in 1 .. MaxSize /\ NewId(graph) = Len(graph.stat) + 1
<1> DEFINE s == Len(graph.stat)
           f == Len(graph.funcs)
<1>1. s + 2 * f + 1 <= MaxSize /\ s \in Nat /\ f \in Nat BY Sizes DEF Room
<1> HIDE DEF s, f
<1>2. s + 1 \in 1 .. MaxSize BY <1>1, BoundAssumption
<1> QED BY <1>2 DEF NewId, s

(* The place that body() has reached. *)
LEMMA InBodyCall ==
  ASSUME IInv, Reading, InBody
  PROVE  Top(calls).at \in Arms \union {"func"} /\ Top(calls).at # "id_next" /\ At(Top(calls).at)
BY DEF InBody, At, Arms

(* What the rules that add a statement to the block do to the graph.       *)
LEMMA ExpressionGrows ==
  ASSUME IInv, Expression
  PROVE  /\ calls \in Seq(CallRecords) /\ calls # << >>
         /\ Top(calls).at \in Arms \union {"func", "id_next"}
         /\ GraphInv(graph, allocated) /\ ParserInv(graph, calls) /\ graph.activeFunc # NULL
         /\ Reading
         /\ Grows(graph, graph', "followingStatement", "CF_BASIC", FuncNames)
         /\ graph'.stat[NewId(graph)].localSymbolTable = InheritedSymtable(graph)
         /\ InheritedSymtable(graph) <= allocated
         /\ EdgeIsFree(graph, "followingStatement")
<1> DEFINE h == cf_make_next_statement(graph, "CF_BASIC")
<1>1. /\ calls \in Seq(CallRecords) /\ calls # << >>
      /\ Top(calls).at \in Arms \union {"func", "id_next"}
      /\ GraphInv(graph, allocated) /\ ParserInv(graph, calls) /\ graph.activeFunc # NULL
      /\ Reading
  <2>1. Reading BY DEF Expression
  <2>2. CASE InBody
    BY <2>1, <2>2, InBodyCall, Innermost DEF Expression
  <2>3. CASE At("id_next")
    BY <2>1, <2>3, Innermost
  <2> QED BY <2>1, <2>2, <2>3 DEF Expression
<1>2. /\ Grows(graph, h, "followingStatement", "CF_BASIC", FuncNames)
      /\ h.stat[NewId(graph)].localSymbolTable = InheritedSymtable(graph)
      /\ InheritedSymtable(graph) <= allocated
      /\ EdgeIsFree(graph, "followingStatement")
  BY <1>1, NextStep DEF StatementTypes
<1>3. graph' = cf_use_ast_explicit(h) BY DEF Expression
<1> HIDE DEF h
<1>4. GraphOK(graph, FuncNames) BY <1>1 DEF GraphInv
<1>5. /\ Grows(graph, graph', "followingStatement", "CF_BASIC", FuncNames)
      /\ graph'.stat[NewId(graph)].localSymbolTable = InheritedSymtable(graph)
  BY <1>2, <1>3, <1>4, GrowsThenAst
<1> QED BY <1>1, <1>2, <1>5

LEMMA ReturnKeywordGrows ==
  ASSUME IInv, ReturnKeyword
  PROVE  /\ Grows(graph, graph', "followingStatement", "CF_RETURN", FuncNames)
         /\ graph'.stat[NewId(graph)].localSymbolTable = InheritedSymtable(graph)
         /\ InheritedSymtable(graph) <= allocated
<1>1. GraphInv(graph, allocated) /\ graph.activeFunc # NULL
  BY InBodyCall, Innermost DEF ReturnKeyword
<1> QED BY <1>1, NextStep DEF ReturnKeyword, StatementTypes

LEMMA IfGrows ==
  ASSUME IInv, If
  PROVE  /\ Grows(graph, graph', "followingStatement", "CF_IF", FuncNames)
         /\ graph'.stat[NewId(graph)].localSymbolTable = InheritedSymtable(graph)
         /\ InheritedSymtable(graph) <= allocated
<1>1. GraphInv(graph, allocated) /\ graph.activeFunc # NULL
  BY InBodyCall, Innermost DEF If
<1> QED BY <1>1, NextStep DEF If, StatementTypes

LEMMA ExpressionOK ==
  ASSUME IInv, Expression
  PROVE  StepOK
<1>1. /\ calls \in Seq(CallRecords) /\ calls # << >>
      /\ Top(calls).at \in Arms \union {"func", "id_next"}
      /\ GraphInv(graph, allocated) /\ ParserInv(graph, calls) /\ graph.activeFunc # NULL
      /\ Reading
  BY ExpressionGrows
<1>2. EdgeIsFree(graph, "followingStatement") BY ExpressionGrows
<1>4. allocated \in Nat BY <1>1 DEF GraphInv
<1>5. /\ Grows(graph, graph', "followingStatement", "CF_BASIC", FuncNames)
      /\ graph'.stat[NewId(graph)].localSymbolTable <= allocated
  BY ExpressionGrows
<1>6. "followingStatement" \in Edges /\ allocated <= allocated BY <1>4 DEF Edges
<1>7. GraphInv(graph', allocated) /\ FinalStep(graph, graph')
  BY <1>1, <1>2, <1>4, <1>5, <1>6, GrowsKeepsGraph, GrowsIsFinal
<1>8. Follows(graph, allocated, graph', allocated, "CF_BASIC", calls)
  BY <1>1, <1>5, <1>7 DEF Follows, StatementTypes
<1>9. calls' = IF Top(calls).at = "id_next" THEN Pop(calls) ELSE calls
  BY <1>1 DEF Expression, At, Return
<1>10. CallsOK(calls') /\ calls' \in Seq(CallRecords)
  <2>1. CallsOK(calls) BY DEF IInv
  <2>2. CallsOK(Pop(calls)) BY <1>1, <2>1, PopCallsOK
  <2>3. CallsOK(calls') BY <1>9, <2>1, <2>2
  <2> QED BY <2>3 DEF CallsOK
<1>11. ParserInv(graph', calls') BY <1>8, <1>9, <1>10, FollowStays
<1>12. /\ Len(graph'.stat) = NewId(graph) /\ Len(graph'.funcs) = Len(graph.funcs)
       /\ graph'.activeStat = NewId(graph)
  BY <1>5 DEF Grows, StatementsGrow, FunctionsKept
<1>13. /\ allocated' = allocated /\ symtables' = symtables /\ UNCHANGED <<result, finished>>
       /\ Room(1)
  BY DEF Expression
<1> QED BY <1>1, <1>7, <1>10, <1>11, <1>12, <1>13, GrownStep
(* A return, an if and a for are entered alike. *)
LEMMA StatementEntered ==
  ASSUME IInv, Reading, InBody, Room(1), NEW at, NEW type,
         EntersAt(at, type),
         Grows(graph, graph', "followingStatement", type, FuncNames),
         graph'.stat[NewId(graph)].localSymbolTable <= allocated',
         Enter(at, Len(graph.stat) + 1),
         \/ allocated' = allocated /\ symtables' = symtables
         \/ allocated' = allocated + 1 /\ symtables' = Append(symtables, allocated + 1),
         UNCHANGED <<result, finished>>
  PROVE  StepOK
<1> DEFINE n == NewId(graph)
           c == Call(at, n)
           more == allocated'
<1>1. /\ calls \in Seq(CallRecords) /\ calls # << >>
      /\ Top(calls).at \in Arms \union {"func"}
      /\ GraphInv(graph, allocated) /\ ParserInv(graph, calls) /\ graph.activeFunc # NULL
  BY InBodyCall, Innermost
<1>2. n \in 1 .. MaxSize /\ n = Len(graph.stat) + 1 BY NewIdFits
<1>3. allocated \in Nat /\ more \in Nat /\ allocated <= more
  <2>1. allocated \in Nat BY Sizes
  <2> QED BY <2>1
<1>4. /\ "followingStatement" \in Edges /\ EdgeIsFree(graph, "followingStatement")
      /\ type \in StatementTypes /\ at \in Places
  BY <1>1, NextStep DEF Edges, StatementTypes, Places, EntersAt
<1>5. GraphInv(graph', more) /\ FinalStep(graph, graph')
  <2> HIDE DEF more
  <2>1. graph'.stat[NewId(graph)].localSymbolTable <= more BY DEF more
  <2> QED BY <1>1, <1>3, <1>4, <2>1, GrowsKeepsGraph, GrowsIsFinal
<1>6. calls' = Append(calls, c) BY <1>2 DEF Enter
<1>7. CallsOK(calls') /\ calls' \in Seq(CallRecords)
  <2>1. CallsOK(calls) BY DEF IInv
  <2>2. c \in CallRecords /\ c.owner \in 1 .. MaxSize BY <1>2, <1>4, CallIsOK
  <2> HIDE DEF c
  <2>3. CallsOK(Append(calls, c)) BY <2>1, <2>2, AppendCall
  <2> QED BY <1>6, <2>3 DEF CallsOK
<1>8. Follows(graph, allocated, graph', more, type, calls)
  BY <1>1, <1>4, <1>5 DEF Follows
<1>9. ParserInv(graph', calls')
  <2>1. Top(calls).at # "id_next" BY <1>1 DEF Arms
  <2>2. calls' = Append(calls, Call(at, NewId(graph))) BY <1>6
  <2> DEFINE cs2 == calls'
             h == graph'
  <2>3. cs2 \in Seq(CallRecords) /\ cs2 = Append(calls, Call(at, NewId(graph))) BY <1>7, <2>2
  <2>4. Follows(graph, allocated, h, more, type, calls) BY <1>8
  <2> HIDE DEF more, cs2, h
  <2>5. ParserInv(h, cs2) BY <2>1, <2>3, <2>4, FollowEnters
  <2> QED BY <2>5 DEF cs2, h
<1>10. /\ Len(graph'.stat) = NewId(graph) /\ Len(graph'.funcs) = Len(graph.funcs)
       /\ graph'.activeStat = NewId(graph)
  BY DEF Grows, StatementsGrow, FunctionsKept
<1> QED BY <1>5, <1>7, <1>9, <1>10, GrownStep

LEMMA ReturnKeywordOK ==
  ASSUME IInv, ReturnKeyword
  PROVE  StepOK
<1>2. /\ Grows(graph, graph', "followingStatement", "CF_RETURN", FuncNames)
      /\ graph'.stat[NewId(graph)].localSymbolTable <= allocated
  BY ReturnKeywordGrows
<1>3. /\ Reading /\ InBody /\ Room(1) /\ Enter("return", Len(graph.stat) + 1)
      /\ allocated' = allocated /\ symtables' = symtables /\ UNCHANGED <<result, finished>>
  BY DEF ReturnKeyword
<1> QED BY <1>2, <1>3, StatementEntered DEF EntersAt

LEMMA IfOK ==
  ASSUME IInv, If
  PROVE  StepOK
<1>2. /\ Grows(graph, graph', "followingStatement", "CF_IF", FuncNames)
      /\ graph'.stat[NewId(graph)].localSymbolTable <= allocated
  BY IfGrows
<1>3. /\ Reading /\ InBody /\ Room(1) /\ Enter("if_cond", Len(graph.stat) + 1)
      /\ allocated' = allocated /\ symtables' = symtables /\ UNCHANGED <<result, finished>>
  BY DEF If
<1> QED BY <1>2, <1>3, StatementEntered DEF EntersAt

(* A new statement that also gets a table of its own.                      *)
LEMMA TablePushed ==
  ASSUME IInv, NEW g, GraphOK(g, FuncNames), NEW h, NEW edge, NEW type,
         Grows(g, h, edge, type, FuncNames), PushStatementSymtable(h)
  PROVE  /\ Grows(g, graph', edge, type, FuncNames)
         /\ graph'.stat[NewId(g)].localSymbolTable = allocated'
         /\ allocated' = allocated + 1 /\ symtables' = Append(symtables, allocated + 1)
         /\ allocated' \in Nat /\ allocated <= allocated'
<1> DEFINE table == allocated + 1
<1>1. table \in Nat /\ allocated <= table
  <2>1. allocated \in Nat BY Sizes
  <2> QED BY <2>1
<1>2. /\ graph' = cf_assign_statement_symtable(h, table)
      /\ allocated' = table /\ symtables' = Append(symtables, table)
  BY DEF PushStatementSymtable
<1> HIDE DEF table
<1>3. /\ Grows(g, graph', edge, type, FuncNames)
      /\ graph'.stat[NewId(g)].localSymbolTable = table
  BY <1>1, <1>2, AssignKeepsGrows
<1> QED BY <1>1, <1>2, <1>3 DEF table

LEMMA ForGrows ==
  ASSUME IInv, For
  PROVE  /\ Grows(graph, graph', "followingStatement", "CF_FOR", FuncNames)
         /\ graph'.stat[NewId(graph)].localSymbolTable = allocated'
         /\ allocated' = allocated + 1 /\ symtables' = Append(symtables, allocated + 1)
         /\ allocated' \in Nat
<1> DEFINE h == cf_make_next_statement(graph, "CF_FOR")
<1>1. GraphInv(graph, allocated) /\ graph.activeFunc # NULL /\ GraphOK(graph, FuncNames)
  BY InBodyCall, Innermost DEF For, GraphInv
<1>2. Grows(graph, h, "followingStatement", "CF_FOR", FuncNames)
  BY <1>1, NextStep DEF StatementTypes
<1>3. PushStatementSymtable(h) BY DEF For
<1> HIDE DEF h
<1> QED BY <1>1, <1>2, <1>3, TablePushed

LEMMA ForOK ==
  ASSUME IInv, For
  PROVE  StepOK
<1>4. /\ Grows(graph, graph', "followingStatement", "CF_FOR", FuncNames)
      /\ graph'.stat[NewId(graph)].localSymbolTable = allocated'
      /\ allocated' = allocated + 1 /\ symtables' = Append(symtables, allocated + 1)
      /\ allocated' \in Nat
  BY ForGrows
<1>5. graph'.stat[NewId(graph)].localSymbolTable <= allocated' BY <1>4
<1>6. /\ Reading /\ InBody /\ Room(1) /\ Enter("for_header", Len(graph.stat) + 1)
      /\ UNCHANGED <<result, finished>>
  BY DEF For
<1> QED BY <1>4, <1>5, <1>6, StatementEntered DEF EntersAt
(* The statement that an arm is opened on. *)
LEMMA AtHeader ==
  ASSUME IInv, Reading, NEW at \in Headers, At(at)
  PROVE  /\ calls \in Seq(CallRecords) /\ calls # << >> /\ Top(calls).at = at
         /\ CallsOK(calls) /\ CallsOK(Pop(calls)) /\ Top(calls).owner \in 1 .. MaxSize
         /\ GraphInv(graph, allocated) /\ GraphOK(graph, FuncNames) /\ ParserInv(graph, calls)
         /\ graph.activeFunc # NULL /\ graph.activeStat = Top(calls).owner
         /\ graph.activeStat \in Statements(graph) /\ graph.activeStat # NULL
         /\ OwnerState(at, graph.stat[graph.activeStat])
<1>1. /\ calls \in Seq(CallRecords) /\ calls # << >> /\ Top(calls).at = at
      /\ GraphInv(graph, allocated) /\ ParserInv(graph, calls) /\ graph.activeFunc # NULL
  BY Innermost
<1>2. /\ graph.activeStat = Top(calls).owner /\ graph.activeStat \in Statements(graph)
      /\ graph.activeStat # NULL /\ OwnerState(at, graph.stat[graph.activeStat])
  BY <1>1, HeaderOwner
<1>3. CallsOK(calls) BY DEF IInv
<1>4. CallsOK(Pop(calls)) /\ Top(calls).owner \in 1 .. MaxSize BY <1>1, <1>3, PopCallsOK
<1>5. GraphOK(graph, FuncNames) BY <1>1 DEF GraphInv
<1> QED BY <1>1, <1>2, <1>3, <1>4, <1>5

(* The parser goes on to another place of the same statement.              *)
LEMMA MovedCalls ==
  ASSUME CallsOK(calls), calls # << >>, NEW at \in Places, MoveTo(at)
  PROVE  CallsOK(calls') /\ calls' \in Seq(CallRecords)
         /\ calls' = Append(Pop(calls), Call(at, Top(calls).owner))
<1> DEFINE c == Call(at, Top(calls).owner)
<1>1. CallsOK(Pop(calls)) /\ Top(calls).owner \in 1 .. MaxSize BY PopCallsOK
<1>2. c \in CallRecords /\ c.owner \in 1 .. MaxSize BY <1>1, CallIsOK
<1>3. calls' = Append(Pop(calls), c) BY DEF MoveTo
<1> HIDE DEF c
<1>4. CallsOK(calls') BY <1>1, <1>2, <1>3, AppendCall
<1> QED BY <1>3, <1>4 DEF CallsOK, c

LEMMA ReturnListOK ==
  ASSUME IInv, ReturnList
  PROVE  StepOK
<1> DEFINE h == graph'
           cs2 == calls'
<1>1. Reading /\ At("return") /\ "return" \in Headers BY DEF ReturnList, Headers
<1>2. /\ calls \in Seq(CallRecords) /\ calls # << >> /\ Top(calls).at = "return"
      /\ CallsOK(Pop(calls)) /\ GraphInv(graph, allocated) /\ GraphOK(graph, FuncNames)
      /\ ParserInv(graph, calls)
      /\ graph.activeStat \in Statements(graph) /\ graph.activeStat # NULL
  BY <1>1, AtHeader
<1>3. SameButAst(graph, h, FuncNames)
  BY <1>2, UseAstKeepsTheRest DEF ReturnList, GraphOK
<1>4. cs2 = Pop(calls) BY DEF ReturnList, Return
<1>5. /\ Len(h.stat) = Len(graph.stat) /\ Len(h.funcs) = Len(graph.funcs)
      /\ h.activeStat # NULL
  BY <1>2, <1>3 DEF SameButAst
<1>6. /\ allocated' = allocated /\ symtables' = symtables /\ UNCHANGED <<result, finished>>
      /\ symtables' \in Seq(1 .. allocated)
  BY DEF ReturnList, IInv
<1> HIDE DEF h, cs2
<1>7. GraphInv(h, allocated) /\ FinalStep(graph, h) BY <1>2, <1>3, AstKeepsGraph
<1>8. ParserInv(h, cs2) BY <1>2, <1>3, <1>4, <1>7, StatementEnds
<1>9. GraphInv(graph', allocated) /\ FinalStep(graph, graph') /\ ParserInv(graph', calls')
  BY <1>7, <1>8 DEF h, cs2
<1>10. CallsOK(calls') BY <1>2, <1>4 DEF cs2
<1> QED BY <1>1, <1>5, <1>6, <1>9, <1>10, QuietStep DEF h

LEMMA NoElseOK ==
  ASSUME IInv, NoElse
  PROVE  StepOK
<1> DEFINE cs2 == calls'
<1>1. Reading /\ At("else_") /\ "else_" \in Headers BY DEF NoElse, Headers
<1>2. /\ calls \in Seq(CallRecords) /\ calls # << >> /\ Top(calls).at = "else_"
      /\ CallsOK(Pop(calls)) /\ GraphInv(graph, allocated) /\ ParserInv(graph, calls)
      /\ graph.activeStat # NULL
  BY <1>1, AtHeader
<1>3. calls' = Pop(calls) /\ graph' = graph BY DEF NoElse, Return
<1>4. ParserInv(graph, Pop(calls)) BY <1>2, StatementEnds
<1>5. /\ allocated' = allocated /\ symtables' = symtables /\ UNCHANGED <<result, finished>>
      /\ symtables' \in Seq(1 .. allocated)
  BY DEF NoElse, IInv
<1>6. FinalStep(graph, graph') BY <1>3, SameIsFinal
<1> QED BY <1>1, <1>2, <1>3, <1>4, <1>5, <1>6, QuietStep

LEMMA ReturnNothingOK ==
  ASSUME IInv, ReturnNothing
  PROVE  StepOK
<1> DEFINE cs2 == calls'
<1>1. Reading /\ At("return") /\ "return" \in Headers BY DEF ReturnNothing, Headers
<1>2. /\ calls \in Seq(CallRecords) /\ calls # << >> /\ Top(calls).at = "return"
      /\ CallsOK(calls) /\ GraphInv(graph, allocated) /\ ParserInv(graph, calls)
      /\ graph.activeStat # NULL
  BY <1>1, AtHeader
<1>3. /\ CallsOK(calls') /\ calls' \in Seq(CallRecords)
      /\ calls' = Append(Pop(calls), Call("id_next", Top(calls).owner))
  <2>1. "id_next" \in Places /\ MoveTo("id_next") BY DEF ReturnNothing, Places
  <2> QED BY <1>2, <2>1, MovedCalls
<1>4. ParserInv(graph, cs2)
  <2>1. cs2 \in Seq(CallRecords) /\ cs2 = Append(Pop(calls), Call("id_next", Top(calls).owner))
    BY <1>3
  <2> HIDE DEF cs2
  <2> QED BY <1>2, <2>1, ReturnLineEnds
<1>5. /\ allocated' = allocated /\ symtables' = symtables /\ UNCHANGED <<result, finished>>
      /\ symtables' \in Seq(1 .. allocated) /\ graph' = graph
  BY DEF ReturnNothing, IInv
<1>6. FinalStep(graph, graph') BY <1>5, SameIsFinal
<1> QED BY <1>1, <1>2, <1>3, <1>4, <1>5, <1>6, QuietStep

(* A block is opened on the statement of the innermost call.               *)
LEMMA BlockOK ==
  ASSUME IInv, Reading, Room(1), NEW from \in Headers, At(from),
         NEW edge \in Edges, EdgeIsFree(graph, edge), NEW at \in Arms,
         Grows(graph, graph', edge, "CF_BASIC", FuncNames),
         OwnerState(at, graph'.stat[graph.activeStat]),
         graph'.stat[NewId(graph)].localSymbolTable = allocated',
         allocated' = allocated + 1, symtables' = Append(symtables, allocated + 1),
         MoveTo(at), UNCHANGED <<result, finished>>
  PROVE  StepOK
<1> DEFINE h == graph'
           more == allocated'
           cs2 == calls'
<1>1. /\ calls \in Seq(CallRecords) /\ calls # << >> /\ Top(calls).at = from
      /\ CallsOK(calls) /\ GraphInv(graph, allocated) /\ ParserInv(graph, calls)
      /\ graph.activeFunc # NULL
  BY AtHeader
<1>2. more \in Nat /\ allocated <= more
  <2>1. allocated \in Nat BY Sizes
  <2> QED BY <2>1
<1>3. /\ CallsOK(calls') /\ cs2 \in Seq(CallRecords)
      /\ cs2 = Append(Pop(calls), Call(at, Top(calls).owner))
  <2>1. at \in Places BY DEF Arms, Places
  <2> QED BY <1>1, <2>1, MovedCalls
<1>4. /\ h.stat[NewId(graph)].localSymbolTable <= more
      /\ Grows(graph, h, edge, "CF_BASIC", FuncNames)
      /\ OwnerState(at, h.stat[graph.activeStat])
      /\ "CF_BASIC" \in StatementTypes
  BY <1>2 DEF StatementTypes
<1>5. /\ Len(h.stat) = NewId(graph) /\ Len(h.funcs) = Len(graph.funcs)
      /\ h.activeStat = NewId(graph)
  BY DEF Grows, StatementsGrow, FunctionsKept
<1> HIDE DEF h, more, cs2
<1>6. GraphInv(h, more) /\ FinalStep(graph, h)
  BY <1>1, <1>2, <1>4, GrowsKeepsGraph, GrowsIsFinal
<1>7. EntersArm(graph, allocated, h, more, edge, "CF_BASIC", at, calls)
  BY <1>1, <1>4, <1>6 DEF EntersArm
<1>8. ParserInv(h, cs2) BY <1>3, <1>7, BlockEntered
<1>9. GraphInv(graph', allocated') /\ FinalStep(graph, graph') /\ ParserInv(graph', calls')
  BY <1>6, <1>8 DEF h, more, cs2
<1> QED BY <1>3, <1>5, <1>9, GrownStep DEF h
LEMMA ThenGrows ==
  ASSUME IInv, Then
  PROVE  /\ Reading /\ At("if_cond") /\ "if_cond" \in Headers
         /\ GraphInv(graph, allocated) /\ graph.activeStat \in Statements(graph)
         /\ graph.activeStat # NULL /\ OwnerState("if_cond", graph.stat[graph.activeStat])
         /\ Grows(graph, graph', "thenStatement", "CF_BASIC", FuncNames)
         /\ graph'.stat[NewId(graph)].localSymbolTable = allocated'
         /\ allocated' = allocated + 1 /\ symtables' = Append(symtables, allocated + 1)
<1> DEFINE a == graph.activeStat
           u == cf_use_ast_explicit(graph)
           h == cf_make_if_then_statement(u, "CF_BASIC")
<1>1. Reading /\ At("if_cond") /\ "if_cond" \in Headers BY DEF Then, Headers
<1>2. /\ GraphInv(graph, allocated) /\ GraphOK(graph, FuncNames) /\ graph.activeFunc # NULL
      /\ a \in Statements(graph) /\ a # NULL /\ OwnerState("if_cond", graph.stat[a])
  BY <1>1, AtHeader
<1>3. SameButAst(graph, u, FuncNames) BY <1>2, UseAstKeepsTheRest DEF GraphOK
<1>4. PushStatementSymtable(h) BY DEF Then
<1> HIDE DEF u
<1>5. BranchesMayGrow(FuncNames, u, "CF_BASIC") /\ ClosesIf(u.stat[u.activeStat])
  <2>1. "CF_BASIC" \in StatementTypes BY DEF StatementTypes
  <2>2. ClosesIf(graph.stat[a]) BY <1>2 DEF OwnerState, ClosesIf
  <2>3. /\ BranchesMayGrow(FuncNames, u, "CF_BASIC") /\ u.activeStat = a
        /\ u.stat[a].statementType = graph.stat[a].statementType
        /\ u.stat[a].elseStatement = graph.stat[a].elseStatement
    BY <1>2, <1>3, <2>1, BranchStep
  <2> QED BY <2>2, <2>3 DEF ClosesIf
<1>6. Grows(u, h, "thenStatement", "CF_BASIC", FuncNames) BY <1>5, IfThenGrows
<1> HIDE DEF h
<1>7. Grows(graph, h, "thenStatement", "CF_BASIC", FuncNames)
  BY <1>2, <1>3, <1>6, AstThenGrows
<1>8. /\ Grows(graph, graph', "thenStatement", "CF_BASIC", FuncNames)
      /\ graph'.stat[NewId(graph)].localSymbolTable = allocated'
      /\ allocated' = allocated + 1 /\ symtables' = Append(symtables, allocated + 1)
  BY <1>2, <1>4, <1>7, TablePushed
<1> QED BY <1>1, <1>2, <1>8

LEMMA ThenOK ==
  ASSUME IInv, Then
  PROVE  StepOK
<1> DEFINE a == graph.activeStat
<1>1. Reading /\ At("if_cond") /\ "if_cond" \in Headers BY ThenGrows
<1>2. a \in Statements(graph) /\ a # NULL /\ OwnerState("if_cond", graph.stat[a]) BY ThenGrows
<1>8. /\ Grows(graph, graph', "thenStatement", "CF_BASIC", FuncNames)
      /\ graph'.stat[NewId(graph)].localSymbolTable = allocated'
      /\ allocated' = allocated + 1 /\ symtables' = Append(symtables, allocated + 1)
  BY ThenGrows
<1>9. "thenStatement" \in Edges /\ EdgeIsFree(graph, "thenStatement") /\ "then" \in Arms
  BY <1>2 DEF Edges, EdgeIsFree, OwnerState, Arms
<1>10. OwnerState("then", graph'.stat[a])
  <2>1. GainsEdge(graph.stat[a], graph'.stat[a], "thenStatement", NewId(graph))
    BY <1>2, <1>8 DEF Grows, StatementsGrow
  <2> QED BY <1>2, <2>1 DEF OwnerState, GainsEdge
<1>11. Room(1) /\ MoveTo("then") /\ UNCHANGED <<result, finished>> BY DEF Then
<1> QED BY <1>1, <1>8, <1>9, <1>10, <1>11, BlockOK

LEMMA ForBlockGrows ==
  ASSUME IInv, ForBody
  PROVE  /\ Reading /\ At("for_header") /\ "for_header" \in Headers
         /\ GraphInv(graph, allocated) /\ graph.activeStat \in Statements(graph)
         /\ graph.activeStat # NULL /\ OwnerState("for_header", graph.stat[graph.activeStat])
         /\ Grows(graph, graph', "bodyStatement", "CF_BASIC", FuncNames)
         /\ graph'.stat[NewId(graph)].localSymbolTable = allocated'
         /\ allocated' = allocated + 1 /\ symtables' = Append(symtables, allocated + 1)
<1> DEFINE a == graph.activeStat
           u == cf_use_ast_explicit(graph)
           h == cf_make_for_body_statement(u, "CF_BASIC")
<1>1. Reading /\ At("for_header") /\ "for_header" \in Headers BY DEF ForBody, Headers
<1>2. /\ GraphInv(graph, allocated) /\ GraphOK(graph, FuncNames) /\ graph.activeFunc # NULL
      /\ a \in Statements(graph) /\ a # NULL /\ OwnerState("for_header", graph.stat[a])
  BY <1>1, AtHeader
<1>3. SameButAst(graph, u, FuncNames) BY <1>2, UseAstKeepsTheRest DEF GraphOK
<1>4. PushStatementSymtable(h) BY DEF ForBody
<1> HIDE DEF u
<1>5. /\ BranchesMayGrow(FuncNames, u, "CF_BASIC")
      /\ u.stat[u.activeStat].statementType = "CF_FOR"
  <2>1. "CF_BASIC" \in StatementTypes BY DEF StatementTypes
  <2>2. graph.stat[a].statementType = "CF_FOR" BY <1>2 DEF OwnerState
  <2>3. /\ BranchesMayGrow(FuncNames, u, "CF_BASIC") /\ u.activeStat = a
        /\ u.stat[a].statementType = graph.stat[a].statementType
    BY <1>2, <1>3, <2>1, BranchStep
  <2> QED BY <2>2, <2>3
<1>6. Grows(u, h, "bodyStatement", "CF_BASIC", FuncNames) BY <1>5, ForBodyGrows
<1> HIDE DEF h
<1>7. Grows(graph, h, "bodyStatement", "CF_BASIC", FuncNames)
  BY <1>2, <1>3, <1>6, AstThenGrows
<1>8. /\ Grows(graph, graph', "bodyStatement", "CF_BASIC", FuncNames)
      /\ graph'.stat[NewId(graph)].localSymbolTable = allocated'
      /\ allocated' = allocated + 1 /\ symtables' = Append(symtables, allocated + 1)
  BY <1>2, <1>4, <1>7, TablePushed
<1> QED BY <1>1, <1>2, <1>8

LEMMA ForBodyOK ==
  ASSUME IInv, ForBody
  PROVE  StepOK
<1> DEFINE a == graph.activeStat
<1>1. Reading /\ At("for_header") /\ "for_header" \in Headers BY ForBlockGrows
<1>2. a \in Statements(graph) /\ a # NULL /\ OwnerState("for_header", graph.stat[a]) BY ForBlockGrows
<1>8. /\ Grows(graph, graph', "bodyStatement", "CF_BASIC", FuncNames)
      /\ graph'.stat[NewId(graph)].localSymbolTable = allocated'
      /\ allocated' = allocated + 1 /\ symtables' = Append(symtables, allocated + 1)
  BY ForBlockGrows
<1>9. "bodyStatement" \in Edges /\ EdgeIsFree(graph, "bodyStatement") /\ "for" \in Arms
  BY <1>2 DEF Edges, EdgeIsFree, OwnerState, Arms
<1>10. OwnerState("for", graph'.stat[a])
  <2>1. GainsEdge(graph.stat[a], graph'.stat[a], "bodyStatement", NewId(graph))
    BY <1>2, <1>8 DEF Grows, StatementsGrow
  <2> QED BY <1>2, <2>1 DEF OwnerState, GainsEdge
<1>11. Room(1) /\ MoveTo("for") /\ UNCHANGED <<result, finished>> BY DEF ForBody
<1> QED BY <1>1, <1>8, <1>9, <1>10, <1>11, BlockOK

(* The else branch of an if whose then block has been left.                *)
LEMMA ElseStep ==
  ASSUME IInv, Reading, At("else_"), NEW type \in StatementTypes
  PROVE  LET h == cf_make_if_else_statement(graph, type)
         IN  /\ Grows(graph, h, "elseStatement", type, FuncNames)
             /\ h.stat[NewId(graph)].localSymbolTable = InheritedSymtable(graph)
             /\ InheritedSymtable(graph) <= allocated
             /\ EdgeIsFree(graph, "elseStatement")
<1> DEFINE a == graph.activeStat
<1>1. /\ GraphInv(graph, allocated) /\ graph.activeFunc # NULL
      /\ a \in Statements(graph) /\ a # NULL /\ OwnerState("else_", graph.stat[a])
  BY AtHeader DEF Headers
<1>2. ClosesIf(graph.stat[a]) /\ EdgeIsFree(graph, "elseStatement")
  BY <1>1 DEF OwnerState, ClosesIf, EdgeIsFree
<1>3. BranchesMayGrow(FuncNames, graph, type) BY <1>1, BranchStep
<1>4. InheritedSymtable(graph) <= allocated BY <1>1, NextStep
<1> QED BY <1>2, <1>3, <1>4, IfElseGrows

LEMMA ElseOwner ==
  ASSUME IInv, Reading, At("else_"), NEW h, NEW type, NEW at \in {"else", "elif"},
         Grows(graph, h, "elseStatement", type, FuncNames)
  PROVE  OwnerState(at, h.stat[graph.activeStat])
<1> DEFINE a == graph.activeStat
<1>1. a # NULL /\ OwnerState("else_", graph.stat[a]) BY AtHeader DEF Headers
<1>2. GainsEdge(graph.stat[a], h.stat[a], "elseStatement", NewId(graph))
  BY <1>1 DEF Grows, StatementsGrow
<1>3. NewId(graph) # NULL BY Sizes DEF NewId, NULL
<1> QED BY <1>1, <1>2, <1>3 DEF OwnerState, GainsEdge

LEMMA ElseGrows ==
  ASSUME IInv, Else
  PROVE  /\ Reading /\ At("else_") /\ "else_" \in Headers /\ "else" \in Arms
         /\ "elseStatement" \in Edges
         /\ Grows(graph, graph', "elseStatement", "CF_BASIC", FuncNames)
         /\ EdgeIsFree(graph, "elseStatement")
         /\ graph'.stat[NewId(graph)].localSymbolTable = allocated'
         /\ allocated' = allocated + 1 /\ symtables' = Append(symtables, allocated + 1)
<1> DEFINE h == cf_make_if_else_statement(graph, "CF_BASIC")
<1>1. /\ Reading /\ At("else_") /\ "else_" \in Headers /\ "else" \in Arms
      /\ "elseStatement" \in Edges
  BY DEF Else, Headers, Arms, Edges
<1>2. Grows(graph, h, "elseStatement", "CF_BASIC", FuncNames) /\ EdgeIsFree(graph, "elseStatement")
  BY <1>1, ElseStep DEF StatementTypes
<1>3. PushStatementSymtable(h) BY DEF Else
<1>4. GraphOK(graph, FuncNames) BY <1>1, AtHeader
<1> HIDE DEF h
<1>5. /\ Grows(graph, graph', "elseStatement", "CF_BASIC", FuncNames)
      /\ graph'.stat[NewId(graph)].localSymbolTable = allocated'
      /\ allocated' = allocated + 1 /\ symtables' = Append(symtables, allocated + 1)
  BY <1>2, <1>3, <1>4, TablePushed
<1> QED BY <1>1, <1>2, <1>5

LEMMA ElseOK ==
  ASSUME IInv, Else
  PROVE  StepOK
<1>1. /\ Reading /\ At("else_") /\ "else_" \in Headers /\ "else" \in Arms
      /\ "elseStatement" \in Edges
  BY ElseGrows
<1>2. EdgeIsFree(graph, "elseStatement") BY ElseGrows
<1>5. /\ Grows(graph, graph', "elseStatement", "CF_BASIC", FuncNames)
      /\ graph'.stat[NewId(graph)].localSymbolTable = allocated'
      /\ allocated' = allocated + 1 /\ symtables' = Append(symtables, allocated + 1)
  BY ElseGrows
<1>6. OwnerState("else", graph'.stat[graph.activeStat]) BY <1>1, <1>5, ElseOwner
<1>7. Room(1) /\ MoveTo("else") /\ UNCHANGED <<result, finished>> BY DEF Else
<1> QED BY <1>1, <1>2, <1>5, <1>6, <1>7, BlockOK

LEMMA ElseIfOK ==
  ASSUME IInv, ElseIf
  PROVE  StepOK
<1> DEFINE h == graph'
           cs2 == calls'
           n == NewId(graph)
           c == Call("elif", Top(calls).owner)
           d == Call("if_cond", n)
<1>1. /\ Reading /\ At("else_") /\ "else_" \in Headers /\ "elif" \in Arms
      /\ "elseStatement" \in Edges /\ "CF_IF" \in StatementTypes /\ Room(1)
  BY DEF ElseIf, Headers, Arms, Edges, StatementTypes
<1>2. /\ Grows(graph, h, "elseStatement", "CF_IF", FuncNames)
      /\ h.stat[n].localSymbolTable <= allocated
      /\ EdgeIsFree(graph, "elseStatement")
  BY <1>1, ElseStep DEF ElseIf
<1>3. /\ calls \in Seq(CallRecords) /\ calls # << >> /\ Top(calls).at = "else_"
      /\ CallsOK(Pop(calls)) /\ Top(calls).owner \in 1 .. MaxSize
      /\ GraphInv(graph, allocated) /\ ParserInv(graph, calls) /\ graph.activeFunc # NULL
  BY <1>1, AtHeader
<1>4. n \in 1 .. MaxSize /\ n = Len(graph.stat) + 1 BY <1>1, NewIdFits
<1>5. allocated \in Nat /\ allocated <= allocated
  <2>1. allocated \in Nat BY Sizes
  <2> QED BY <2>1
<1>6. cs2 = Pop(calls) \o <<c, d>> BY <1>4 DEF ElseIf
<1>7. OwnerState("elif", h.stat[graph.activeStat]) BY <1>1, <1>2, ElseOwner
<1>8. CallsOK(cs2) /\ cs2 \in Seq(CallRecords)
  <2>1. /\ c \in CallRecords /\ c.owner \in 1 .. MaxSize
        /\ d \in CallRecords /\ d.owner \in 1 .. MaxSize
    BY <1>3, <1>4, CallIsOK DEF Places
  <2> HIDE DEF c, d
  <2>2. CallsOK(Append(Pop(calls), c)) BY <1>3, <2>1, AppendCall
  <2>3. CallsOK(Append(Append(Pop(calls), c), d)) BY <2>1, <2>2, AppendCall
  <2>4. Pop(calls) \in Seq(CallRecords) BY <1>3 DEF CallsOK
  <2>5. cs2 = Append(Append(Pop(calls), c), d) BY <1>6, <2>1, <2>4
  <2>6. CallsOK(cs2) BY <2>3, <2>5
  <2> QED BY <2>6 DEF CallsOK
<1>9. /\ Len(h.stat) = NewId(graph) /\ Len(h.funcs) = Len(graph.funcs)
      /\ h.activeStat = NewId(graph)
  BY <1>2 DEF Grows, StatementsGrow, FunctionsKept
<1>10. /\ allocated' = allocated /\ symtables' = symtables /\ UNCHANGED <<result, finished>>
  BY DEF ElseIf
<1> HIDE DEF h, cs2
<1>11. GraphInv(h, allocated) /\ FinalStep(graph, h)
  BY <1>1, <1>2, <1>3, <1>5, GrowsKeepsGraph, GrowsIsFinal
<1>12. EntersArm(graph, allocated, h, allocated, "elseStatement", "CF_IF", "elif", calls)
  BY <1>1, <1>2, <1>3, <1>7, <1>11 DEF EntersArm
<1>13. ParserInv(h, cs2) BY <1>6, <1>8, <1>12, ElseIfEntered
<1>14. /\ GraphInv(graph', allocated') /\ FinalStep(graph, graph')
       /\ ParserInv(graph', calls') /\ CallsOK(calls')
       /\ Len(graph'.stat) = NewId(graph) /\ Len(graph'.funcs) = Len(graph.funcs)
       /\ graph'.activeStat = NewId(graph)
  BY <1>8, <1>9, <1>10, <1>11, <1>13 DEF h, cs2
<1> QED BY <1>1, <1>10, <1>14, GrownStep
(* The parser leaves an arm of the statement of the innermost call.        *)
LEMMA AtArm ==
  ASSUME IInv, Reading, NEW at \in Arms, At(at),
         graph' = cf_pop_previous_branched_statement(graph)
  PROVE  /\ calls \in Seq(CallRecords) /\ calls # << >> /\ Top(calls).at = at
         /\ CallsOK(calls) /\ CallsOK(Pop(calls))
         /\ LeavesArm(graph, allocated, graph', calls)
         /\ GraphInv(graph', allocated) /\ FinalStep(graph, graph')
         /\ Len(graph'.stat) = Len(graph.stat) /\ Len(graph'.funcs) = Len(graph.funcs)
         /\ graph'.activeStat # NULL
<1> DEFINE h == graph'
           n == Top(calls).owner
<1>1. /\ calls \in Seq(CallRecords) /\ calls # << >> /\ Top(calls).at = at
      /\ GraphInv(graph, allocated) /\ ParserInv(graph, calls)
  BY Innermost
<1>2. CallsOK(calls) /\ CallsOK(Pop(calls)) BY <1>1, PopCallsOK DEF IInv
<1>3. LeavesArm(graph, allocated, h, calls) BY <1>1 DEF LeavesArm
<1> HIDE DEF h
<1>4. /\ n \in Statements(graph) /\ PopsTo(graph, h, n, FuncNames)
      /\ GraphInv(h, allocated) /\ FinalStep(graph, h)
  BY <1>3, LeavingReturns
<1>5. n # NULL BY <1>4 DEF Statements, NULL
<1>6. /\ Len(h.stat) = Len(graph.stat) /\ Len(h.funcs) = Len(graph.funcs)
      /\ h.activeStat # NULL
  BY <1>4, <1>5 DEF PopsTo
<1> QED BY <1>1, <1>2, <1>3, <1>4, <1>6 DEF h

(* With it the call returns, and the tables of the arm go out of scope.    *)
LEMMA ArmLeft ==
  ASSUME IInv, Reading, NEW at \in Arms, At(at), at # "then",
         graph' = cf_pop_previous_branched_statement(graph), Return,
         symtables' \in Seq(1 .. allocated), UNCHANGED <<allocated, result, finished>>
  PROVE  StepOK
<1> DEFINE h == graph'
<1>1. /\ Top(calls).at = at /\ CallsOK(Pop(calls)) /\ LeavesArm(graph, allocated, h, calls)
      /\ GraphInv(h, allocated) /\ FinalStep(graph, h)
      /\ Len(h.stat) = Len(graph.stat) /\ Len(h.funcs) = Len(graph.funcs)
      /\ h.activeStat # NULL
  BY AtArm
<1>2. calls' = Pop(calls) BY DEF Return
<1> HIDE DEF h
<1>3. ParserInv(h, Pop(calls)) BY <1>1, LeavesStatement
<1>4. ParserInv(graph', calls') /\ CallsOK(calls') BY <1>1, <1>2, <1>3 DEF h
<1> QED BY <1>1, <1>4, QuietStep DEF h

LEMMA TablesLeft ==
  ASSUME IInv
  PROVE  /\ Pop(symtables) \in Seq(1 .. allocated)
         /\ Pop(Pop(symtables)) \in Seq(1 .. allocated)
<1> DEFINE S == 1 .. allocated
<1>1. symtables \in Seq(S) BY DEF IInv
<1> HIDE DEF S
<1>2. Pop(symtables) \in Seq(S) BY <1>1, PopAny
<1>3. Pop(Pop(symtables)) \in Seq(S) BY <1>2, PopAny
<1> QED BY <1>2, <1>3 DEF S

LEMMA CloseBranchOK ==
  ASSUME IInv, CloseBranch
  PROVE  StepOK
<1>1. /\ Reading /\ graph' = cf_pop_previous_branched_statement(graph)
      /\ symtables' = Pop(symtables) /\ UNCHANGED <<allocated, result, finished>>
      /\ allocated' = allocated
  BY DEF CloseBranch
<1>2. symtables' \in Seq(1 .. allocated) BY <1>1, TablesLeft
<1>3. CASE At("then")
  <2> DEFINE h == graph'
             cs2 == calls'
  <2>1. "then" \in Arms /\ "else_" \in Places BY DEF Arms, Places
  <2>2. /\ calls \in Seq(CallRecords) /\ calls # << >> /\ Top(calls).at = "then"
        /\ CallsOK(calls) /\ LeavesArm(graph, allocated, h, calls)
        /\ GraphInv(h, allocated) /\ FinalStep(graph, h)
        /\ Len(h.stat) = Len(graph.stat) /\ Len(h.funcs) = Len(graph.funcs)
        /\ h.activeStat # NULL
    BY <1>1, <1>3, <2>1, AtArm
  <2>3. MoveTo("else_") BY <1>3 DEF CloseBranch
  <2>4. /\ CallsOK(calls') /\ cs2 \in Seq(CallRecords)
        /\ cs2 = Append(Pop(calls), Call("else_", Top(calls).owner))
    BY <2>1, <2>2, <2>3, MovedCalls
  <2> HIDE DEF h, cs2
  <2>5. ParserInv(h, cs2) BY <2>2, <2>4, LeavesThen
  <2>6. ParserInv(graph', calls') BY <2>5 DEF h, cs2
  <2> QED BY <1>1, <1>2, <2>2, <2>4, <2>6, QuietStep DEF h
<1>4. CASE At("else") /\ ~At("then")
  <2>1. "else" \in Arms /\ "else" # "then" BY DEF Arms
  <2>2. Return BY <1>4 DEF CloseBranch
  <2> QED BY <1>1, <1>2, <1>4, <2>1, <2>2, ArmLeft
<1> QED BY <1>3, <1>4 DEF CloseBranch

LEMMA ElseIfReturnOK ==
  ASSUME IInv, ElseIfReturn
  PROVE  StepOK
<1>1. /\ Reading /\ At("elif") /\ graph' = cf_pop_previous_branched_statement(graph) /\ Return
      /\ symtables' = symtables /\ UNCHANGED <<allocated, result, finished>>
  BY DEF ElseIfReturn
<1>2. symtables' \in Seq(1 .. allocated) BY <1>1 DEF IInv
<1>3. "elif" \in Arms /\ "elif" # "then" BY DEF Arms
<1> QED BY <1>1, <1>2, <1>3, ArmLeft

LEMMA CloseForOK ==
  ASSUME IInv, CloseFor
  PROVE  StepOK
<1>1. /\ Reading /\ At("for") /\ graph' = cf_pop_previous_branched_statement(graph) /\ Return
      /\ symtables' = Pop(Pop(symtables)) /\ UNCHANGED <<allocated, result, finished>>
  BY DEF CloseFor
<1>2. symtables' \in Seq(1 .. allocated) BY <1>1, TablesLeft
<1>3. "for" \in Arms /\ "for" # "then" BY DEF Arms
<1> QED BY <1>1, <1>2, <1>3, ArmLeft

LEMMA FailOK ==
  ASSUME IInv, Fail
  PROVE  StepOK
<1>1. /\ result' = "ERROR" /\ graph' = graph /\ symtables' = symtables
      /\ allocated' = allocated /\ calls' = calls /\ finished' = finished
  BY DEF Fail
<1>2. ~semantic_enabled' BY <1>1 DEF semantic_enabled
<1>3. Bounded' BY <1>1 DEF IInv, Bounded
<1>4. FinalStep(graph, graph') BY <1>1, SameIsFinal
<1> QED BY <1>1, <1>2, <1>3, <1>4 DEF StepOK, IInv

LEMMA RecoveredExpressionOK ==
  ASSUME IInv, RecoveredExpression
  PROVE  StepOK
<1> DEFINE h == graph'
<1>1. /\ h = cf_make_next_statement(graph, "CF_BASIC") /\ ~semantic_enabled /\ Room(1)
      /\ symtables' = symtables /\ allocated' = allocated /\ calls' = calls
      /\ result' = result /\ finished' = finished
  BY DEF RecoveredExpression
<1>2. ~semantic_enabled' BY <1>1 DEF semantic_enabled
<1>3. /\ GraphInv(graph, allocated) /\ allocated \in Nat /\ allocated <= allocated
  <2>1. allocated \in Nat BY Sizes
  <2> QED BY <2>1 DEF IInv
<1>4. CASE graph.activeFunc = NULL
  <2>1. h = Raise(graph, "CF_ERROR_NO_ACTIVE_FUNCTION")
    BY <1>1, <1>4 DEF cf_make_next_statement
  <2>2. "CF_ERROR_NO_ACTIVE_FUNCTION" \in CFErrors BY DEF CFErrors
  <2>3. GraphInv(h, allocated) /\ FinalStep(graph, h)
    <3> HIDE DEF h
    <3> QED BY <1>3, <2>1, <2>2, RaiseKeepsGraph
  <2>4. h.stat = graph.stat /\ h.funcs = graph.funcs
    BY <1>3, <2>1 DEF Raise, GraphInv, GraphOK, Graphs
  <2>5. Bounded' BY <1>1, <2>4 DEF IInv, Bounded
  <2> QED BY <1>1, <1>2, <2>3, <2>5 DEF StepOK, IInv
<1>5. CASE graph.activeFunc # NULL
  <2>1. "CF_BASIC" \in StatementTypes /\ "followingStatement" \in Edges
    BY DEF StatementTypes, Edges
  <2>2. /\ Grows(graph, h, "followingStatement", "CF_BASIC", FuncNames)
        /\ h.stat[NewId(graph)].localSymbolTable <= allocated
        /\ EdgeIsFree(graph, "followingStatement")
    BY <1>1, <1>3, <1>5, <2>1, NextStep
  <2>3. GraphInv(h, allocated) /\ FinalStep(graph, h)
    <3> HIDE DEF h
    <3> QED BY <1>3, <1>5, <2>1, <2>2, GrowsKeepsGraph, GrowsIsFinal
  <2>4. Len(h.stat) = Len(graph.stat) + 1 /\ Len(h.funcs) = Len(graph.funcs)
    BY <2>2 DEF Grows, StatementsGrow, FunctionsKept, NewId
  <2>5. Bounded'
    <3> DEFINE s == Len(graph.stat)
               f == Len(graph.funcs)
               p == Pending(calls)
    <3>1. /\ s \in Nat /\ f \in Nat /\ allocated \in Nat /\ p \in 0 .. 1
          /\ allocated + p <= s + f /\ Len(graph'.stat) = s + 1 /\ Len(graph'.funcs) = f
      BY <2>4, Sizes
    <3>2. s + 2 * f + 1 <= MaxSize BY <1>1 DEF Room
    <3>3. Pending(calls') = p BY <1>1
    <3> HIDE DEF s, f, p
    <3>4. s + 1 \in Nat /\ allocated + p <= (s + 1) + f /\ (s + 1) + 2 * f <= MaxSize
      BY <3>1, <3>2, BoundAssumption
    <3> QED BY <1>1, <3>1, <3>3, <3>4, StaysBounded
  <2> QED BY <1>1, <1>2, <2>3, <2>5 DEF StepOK, IInv
<1> QED BY <1>4, <1>5

(* The end of the parse, and a step of anything but the parser.            *)
LEMMA NothingChanges ==
  ASSUME IInv, UNCHANGED <<graph, symtables, allocated, calls, result>>, finished' \in BOOLEAN
  PROVE  StepOK
<1>1. Bounded' BY DEF IInv, Bounded
<1>2. semantic_enabled' = semantic_enabled BY DEF semantic_enabled
<1>3. FinalStep(graph, graph') BY SameIsFinal
<1> QED BY <1>1, <1>2, <1>3 DEF StepOK, IInv

LEMMA NextOK == IInv /\ [Next]_vars => StepOK
<1> SUFFICES ASSUME IInv, [Next]_vars PROVE StepOK OBVIOUS
<1>1. ASSUME NEW name \in FuncNames, FuncName(name) PROVE StepOK BY <1>1, FuncNameOK
<1>2. CASE FuncBody BY <1>2, FuncBodyOK
<1>3. CASE CloseFunc BY <1>3, CloseFuncOK
<1>4. CASE Expression BY <1>4, ExpressionOK
<1>5. CASE ReturnKeyword BY <1>5, ReturnKeywordOK
<1>6. CASE ReturnList BY <1>6, ReturnListOK
<1>7. CASE ReturnNothing BY <1>7, ReturnNothingOK
<1>8. CASE If BY <1>8, IfOK
<1>9. CASE Then BY <1>9, ThenOK
<1>10. CASE CloseBranch BY <1>10, CloseBranchOK
<1>11. CASE NoElse BY <1>11, NoElseOK
<1>12. CASE Else BY <1>12, ElseOK
<1>13. CASE ElseIf BY <1>13, ElseIfOK
<1>14. CASE ElseIfReturn BY <1>14, ElseIfReturnOK
<1>15. CASE For BY <1>15, ForOK
<1>16. CASE ForBody BY <1>16, ForBodyOK
<1>17. CASE CloseFor BY <1>17, CloseForOK
<1>18. CASE Fail BY <1>18, FailOK
<1>19. CASE RecoveredExpression BY <1>19, RecoveredExpressionOK
<1>20. CASE EndOfFile BY <1>20, NothingChanges DEF EndOfFile
<1>21. CASE UNCHANGED vars BY <1>21, NothingChanges DEF vars, IInv
<1> QED
  BY <1>1, <1>2, <1>3, <1>4, <1>5, <1>6, <1>7, <1>8, <1>9, <1>10, <1>11, <1>12, <1>13, <1>14,
     <1>15, <1>16, <1>17, <1>18, <1>19, <1>20, <1>21 DEF Next
-----------------------------------------------------------------------------
(* What the invariant says of the properties of CfgBuilder.                *)

LEMMA IInvIsTyped == IInv => TypeOK
<1> SUFFICES ASSUME IInv PROVE TypeOK OBVIOUS
<1>1. /\ GraphInv(graph, allocated) /\ GraphOK(graph, FuncNames)
      /\ PointersOK(graph) /\ TablesOK(graph, allocated) /\ CallsOK(calls)
  BY DEF IInv, GraphInv
<1>2. /\ allocated \in Nat /\ graph \in Graphs(FuncNames)
      /\ \A s \in Statements(graph) : graph.stat[s] \in StatementRecords
      /\ \A f \in 1 .. Len(graph.funcs) : graph.funcs[f] \in FunctionRecords(FuncNames)
      /\ Len(graph.funcs) \in Nat
  BY <1>1, GraphParts DEF GraphInv, GraphOK
<1>3. ASSUME NEW s \in Statements(graph)
      PROVE  graph.stat[s] \in
               [statementType : StatementTypes, parentStatement : Pointers,
                followingStatement : Pointers, thenStatement : Pointers,
                elseStatement : Pointers, bodyStatement : Pointers,
                parentBranchStatement : Pointers, localSymbolTable : Tables,
                popCount : 0 .. 2, ast : BOOLEAN]
  <2> DEFINE st == graph.stat[s]
  <2>1. st \in StatementRecords BY <1>2
  <2>2. /\ st.parentStatement \in Pointers /\ st.parentBranchStatement \in Pointers
        /\ \A field \in Edges : st[field] \in Pointers
        /\ st.popCount <= 2
    BY <1>1 DEF PointersOK, PointersIn, Pointers
  <2>3. /\ st.followingStatement \in Pointers /\ st.thenStatement \in Pointers
        /\ st.elseStatement \in Pointers /\ st.bodyStatement \in Pointers
    BY <2>2 DEF Edges
  <2>4. st.localSymbolTable <= allocated BY <1>1 DEF TablesOK
  <2> HIDE DEF st
  <2>5. st.localSymbolTable \in Nat /\ st.popCount \in Nat BY <2>1 DEF StatementRecords
  <2>6. st.localSymbolTable \in Tables /\ st.popCount \in 0 .. 2
    BY <1>2, <2>2, <2>4, <2>5 DEF Tables
  <2>7. st \in [statementType : StatementTypes, parentStatement : Pointers,
                followingStatement : Pointers, thenStatement : Pointers,
                elseStatement : Pointers, bodyStatement : Pointers,
                parentBranchStatement : Pointers, localSymbolTable : Tables,
                popCount : 0 .. 2, ast : BOOLEAN]
    BY <2>1, <2>2, <2>3, <2>6 DEF StatementRecords
  <2> QED BY <2>7 DEF st
<1>4. ASSUME NEW f \in 1 .. Len(graph.funcs)
      PROVE  graph.funcs[f] \in [name : FuncNames, rootStatement : Pointers, symbolTable : Tables]
  <2> DEFINE fun == graph.funcs[f]
  <2>1. fun \in FunctionRecords(FuncNames) BY <1>2
  <2>2. fun.rootStatement \in Pointers /\ fun.symbolTable <= allocated
    BY <1>1 DEF PointersOK, PointersIn, Pointers, TablesOK
  <2> HIDE DEF fun
  <2>3. fun.symbolTable \in Nat BY <2>1 DEF FunctionRecords
  <2>4. fun.symbolTable \in Tables BY <1>2, <2>2, <2>3 DEF Tables
  <2>5. fun \in [name : FuncNames, rootStatement : Pointers, symbolTable : Tables]
    BY <2>1, <2>2, <2>4 DEF FunctionRecords
  <2> QED BY <2>5 DEF fun
<1>5. /\ graph.activeStat \in Pointers /\ graph.activeFunc \in 0 .. Len(graph.funcs)
      /\ graph.mainFunc \in 0 .. Len(graph.funcs) /\ graph.cf_error \in CFErrors
  BY <1>1, <1>2 DEF GraphOK, Graphs, PointersOK, Pointers, NULL
<1>6. \A i \in 1 .. Len(symtables) : symtables[i] \in Tables \ {0}
  <2> DEFINE S == 1 .. allocated
  <2>1. symtables \in Seq(S) BY DEF IInv
  <2> HIDE DEF S
  <2>2. \A i \in 1 .. Len(symtables) : symtables[i] \in S BY <2>1
  <2> QED BY <1>2, <2>2 DEF Tables, S
<1>7. allocated \in 0 .. MaxSize
  <2> DEFINE s == Len(graph.stat)
             f == Len(graph.funcs)
             p == Pending(calls)
  <2>1. /\ s \in Nat /\ f \in Nat /\ p \in 0 .. 1
        /\ allocated + p <= s + f /\ s + 2 * f <= MaxSize
    BY Sizes
  <2> HIDE DEF s, f, p
  <2> QED BY <1>2, <2>1, BoundAssumption
<1>8. \A i \in 1 .. Len(calls) : calls[i].at \in Places /\ calls[i].owner \in 1 .. MaxSize
  <2>1. \A i \in 1 .. Len(calls) : calls[i] \in CallRecords BY <1>1 DEF CallsOK
  <2> QED BY <1>1, <2>1 DEF CallsOK, CallRecords
<1>9. result \in {"SUCCESS", "ERROR"} /\ finished \in BOOLEAN BY DEF IInv
<1> QED BY <1>3, <1>4, <1>5, <1>6, <1>7, <1>8, <1>9 DEF TypeOK

LEMMA IInvLinksBack == IInv => ParentLinksBack
<1> SUFFICES ASSUME IInv PROVE ParentLinksBack OBVIOUS
<1> SUFFICES ASSUME NEW s \in Statements(graph)
             PROVE  LET roots == RootsAt(graph, s)
                        preds == PredecessorsIn(graph, s)
                    IN  /\ Cardinality(roots) + Cardinality(preds) = 1
                        /\ IF roots # {} THEN graph.stat[s].parentStatement = NULL
                           ELSE \A p \in preds : graph.stat[s].parentStatement = p[1]
  BY DEF ParentLinksBack, RootsAt, PredecessorsIn, Predecessors
<1>1. LinkedOnce(graph, s) BY DEF IInv, GraphInv
<1>2. CASE /\ graph.stat[s].parentStatement = NULL
           /\ PredecessorsIn(graph, s) = {}
           /\ \E f \in 1 .. Len(graph.funcs) : RootsAt(graph, s) = {f}
  <2>1. PICK f \in 1 .. Len(graph.funcs) : RootsAt(graph, s) = {f} BY <1>2
  <2> DEFINE roots == RootsAt(graph, s)
             preds == PredecessorsIn(graph, s)
  <2>2. Cardinality({f}) = 1 /\ Cardinality({}) = 0 BY FS_Singleton, FS_EmptySet
  <2>3. roots = {f} /\ preds = {} BY <1>2, <2>1
  <2> HIDE DEF roots, preds
  <2>4. Cardinality(roots) = 1 /\ Cardinality(preds) = 0 BY <2>2, <2>3
  <2>5. Cardinality(roots) + Cardinality(preds) = 1 BY <2>4
  <2> QED BY <1>2, <2>3, <2>5 DEF roots, preds
<1>3. CASE /\ RootsAt(graph, s) = {}
           /\ \E field \in Edges :
                PredecessorsIn(graph, s) = {<<graph.stat[s].parentStatement, field>>}
  <2> DEFINE parent == graph.stat[s].parentStatement
  <2>1. PICK field \in Edges : PredecessorsIn(graph, s) = {<<parent, field>>} BY <1>3
  <2>2. Cardinality({<<parent, field>>}) = 1 /\ Cardinality({}) = 0
    BY FS_Singleton, FS_EmptySet
  <2> HIDE DEF parent
  <2>3. ASSUME NEW p \in {<<parent, field>>} PROVE parent = p[1] BY SMT
  <2> QED BY <1>3, <2>1, <2>2, <2>3 DEF parent
<1> QED BY <1>1, <1>2, <1>3 DEF LinkedOnce

LEMMA IInvHasNoError == IInv => NoBuilderError
BY DEF IInv, ParserInv, NoBuilderError

-----------------------------------------------------------------------------
(* The theorems, for every set of names and every bound on the program.    *)

(* The invariant that the others follow from holds after every step of the *)
(* statement rules of parser.c and of the builder in control_flow.c.       *)
THEOREM BuilderInvariant == Spec => []IInv
<1>1. Init => IInv BY InitOK
<1>2. IInv /\ [Next]_vars => IInv' BY NextOK DEF StepOK
<1> QED BY <1>1, <1>2, PTL DEF Spec

(* Every pointer that control_flow.c keeps in a statement, a function or a *)
(* cursor is NULL or leads to an object that exists, every table was made  *)
(* by the parser, and popCount never exceeds 2.                            *)
THEOREM GraphIsTyped == Spec => []TypeOK
<1>1. IInv => TypeOK BY IInvIsTyped
<1> QED BY <1>1, BuilderInvariant, PTL

(* While a program is correct, no operation of control_flow.c is refused   *)
(* and none dereferences NULL: parser.c calls each where the active        *)
(* statement is of the type it asks for, and leaving a block returns to    *)
(* the statement that opened it.                                           *)
THEOREM BuilderNeverFails == Spec => []NoBuilderError
<1>1. IInv => NoBuilderError BY IInvHasNoError
<1> QED BY <1>1, BuilderInvariant, PTL

(* Whether or not errors were met, every statement hangs on one pointer or *)
(* is the root of one function, and parentStatement leads back along it,   *)
(* as the unlinking in optimiser.c needs.                                  *)
THEOREM ParentsAreRight == Spec => []ParentLinksBack
<1>1. IInv => ParentLinksBack BY IInvLinksBack
<1> QED BY <1>1, BuilderInvariant, PTL

(* No step of the builder moves a pointer that was set, replaces the table *)
(* of a function, or the table of a statement that another one follows.    *)
THEOREM EdgesStay == Spec => EdgesAreFinal
<1> DEFINE Kept ==
      /\ \A s \in Statements(graph) :
           /\ \A field \in Edges :
                graph.stat[s][field] # NULL => graph'.stat[s][field] = graph.stat[s][field]
           /\ graph.stat[s].followingStatement # NULL =>
                graph'.stat[s].localSymbolTable = graph.stat[s].localSymbolTable
      /\ \A f \in 1 .. Len(graph.funcs) :
           \A field \in {"rootStatement", "symbolTable"} :
             graph.funcs[f][field] # NULL => graph'.funcs[f][field] = graph.funcs[f][field]
<1>1. IInv /\ [Next]_vars => Kept BY NextOK DEF StepOK, FinalStep
<1>2. IInv /\ [Next]_vars => [Kept]_vars BY <1>1
<1> HIDE DEF Kept
<1>3. Spec => [][Kept]_vars BY <1>2, BuilderInvariant, PTL DEF Spec
<1> QED BY <1>3 DEF EdgesAreFinal, Kept

-----------------------------------------------------------------------------
(* The table of the block that s is in: that of the closest statement at   *)
(* or above s that is not a FOR, or of the function.                       *)
ScopeTable(g, s) ==
  LET b == NonForAncestor(g)[s]
  IN  IF b = NULL THEN g.funcs[g.activeFunc].symbolTable
      ELSE g.stat[b].localSymbolTable

(* The tables that a call has on the stack at a place.                     *)
TablesOf(at) ==
  IF at \in {"func", "then", "else", "for_header"} THEN 1
  ELSE IF at = "for" THEN 2 ELSE 0

(* After the first i calls, d[i] tables are on the stack.                  *)
Depths(cs, ts, d) ==
  /\ d \in [Nat -> Nat]
  /\ d[0] = 0
  /\ \A i \in 1 .. Len(cs) : d[i] = d[i - 1] + TablesOf(cs[i].at)
  /\ \A i \in 0 .. Len(cs) : \A j \in 0 .. i : d[j] <= d[i]
  /\ d[Len(cs)] = Len(ts)

(* Under its tables, a call finds the table of the block it was made in.   *)
Scopes(g, cs, ts) ==
  \E d : /\ Depths(cs, ts, d)
         /\ \A i \in 2 .. Len(cs) : /\ d[i - 1] >= 1
                                    /\ ScopeTable(g, cs[i].owner) = ts[d[i - 1]]

(* The table on top, in a block or a header and in the header of a for.    *)
TopScope(g, cs, ts) ==
  cs # << >> =>
    /\ Top(cs).at \notin {"func_name", "for_header"} =>
         ScopeTable(g, g.activeStat) = Top(ts)
    /\ Top(cs).at = "for_header" => g.stat[g.activeStat].localSymbolTable = Top(ts)

Scoped(g, cs, ts) == Scopes(g, cs, ts) /\ TopScope(g, cs, ts)

-----------------------------------------------------------------------------
(* Calls and tables are pushed and popped together.                        *)

Without(ts, n) == SubSeq(ts, 1, Len(ts) - n)

LEMMA WithoutTables ==
  ASSUME NEW S, NEW ts \in Seq(S), NEW n \in Nat, n <= Len(ts)
  PROVE  /\ Without(ts, n) \in Seq(S) /\ Len(Without(ts, n)) = Len(ts) - n
         /\ Len(ts) - n \in Nat
         /\ \A i \in 1 .. Len(ts) - n : Without(ts, n)[i] = ts[i]
<1> DEFINE m == Len(ts) - n
<1>1. Len(ts) \in Nat /\ m \in Nat /\ m <= Len(ts) OBVIOUS
<1>2. Without(ts, n) = [i \in 1 .. m |-> ts[i]] BY <1>1 DEF Without
<1>3. \A i \in 1 .. m : ts[i] \in S BY <1>1
<1> HIDE DEF m
<1>4. Len(Without(ts, n)) = m /\ Without(ts, n) \in Seq(S) BY <1>1, <1>2, <1>3
<1>5. \A i \in 1 .. m : Without(ts, n)[i] = ts[i] BY <1>2
<1> QED BY <1>1, <1>4, <1>5 DEF m

LEMMA ScopesPop ==
  ASSUME NEW g, NEW cs \in Seq(CallRecords), cs # << >>, NEW ts \in Seq(Nat), Scopes(g, cs, ts)
  PROVE  LET low == Without(ts, TablesOf(Top(cs).at))
         IN  /\ TablesOf(Top(cs).at) <= Len(ts) /\ TablesOf(Top(cs).at) \in Nat
             /\ low \in Seq(Nat)
             /\ Scopes(g, Pop(cs), low)
             /\ Len(cs) = 1 => low = << >>
             /\ Len(cs) > 1 => low # << >> /\ Top(low) = ScopeTable(g, Top(cs).owner)
<1> DEFINE k == Len(cs)
           t == TablesOf(Top(cs).at)
           low == Without(ts, t)
           cs1 == Pop(cs)
<1>1. PICK d : /\ Depths(cs, ts, d)
               /\ \A i \in 2 .. k : d[i - 1] >= 1 /\ ScopeTable(g, cs[i].owner) = ts[d[i - 1]]
  BY DEF Scopes
<1>2. /\ k \in Nat /\ k >= 1 /\ k \in 1 .. k /\ Top(cs) = cs[k] /\ k - 1 \in Nat
      /\ Len(cs1) = k - 1 /\ \A i \in 1 .. k - 1 : cs1[i] = cs[i]
  BY PopCalls DEF Top
<1>3. t \in Nat BY DEF TablesOf
<1>4. /\ d \in [Nat -> Nat] /\ d[0] = 0 /\ d[k] = d[k - 1] + t /\ d[k] = Len(ts)
      /\ \A i \in 1 .. k : d[i] = d[i - 1] + TablesOf(cs[i].at)
      /\ \A i \in 0 .. k : \A j \in 0 .. i : d[j] <= d[i]
  BY <1>1, <1>2 DEF Depths
<1> HIDE DEF k, t, cs1
<1>5. d[k - 1] \in Nat /\ d[k] \in Nat BY <1>2, <1>4
<1>6. t <= Len(ts) /\ Len(ts) - t = d[k - 1]
  <2>1. Len(ts) = d[k - 1] + t BY <1>4
  <2> HIDE <1>4
  <2> QED BY <1>3, <1>5, <2>1
<1>7. low \in Seq(Nat) /\ Len(low) = d[k - 1] /\ \A i \in 1 .. d[k - 1] : low[i] = ts[i]
  <2>1. /\ low \in Seq(Nat) /\ Len(low) = Len(ts) - t
        /\ \A i \in 1 .. Len(ts) - t : low[i] = ts[i]
    BY <1>3, <1>6, WithoutTables
  <2> QED BY <1>6, <2>1
<1> HIDE DEF low
<1>8. Depths(cs1, low, d)
  <2>1. \A i \in 1 .. k - 1 : i \in 1 .. k /\ cs1[i] = cs[i] BY <1>2
  <2>2. \A i \in 0 .. k - 1 : i \in 0 .. k BY <1>2
  <2> QED BY <1>2, <1>4, <1>7, <2>1, <2>2 DEF Depths
<1>9. ASSUME NEW i \in 2 .. k
      PROVE  d[i - 1] >= 1 /\ ScopeTable(g, cs[i].owner) = low[d[i - 1]]
             /\ d[i - 1] \in 1 .. d[k - 1]
  <2>1. d[i - 1] >= 1 /\ ScopeTable(g, cs[i].owner) = ts[d[i - 1]] BY <1>1, <1>9 DEF k
  <2>2. i - 1 \in Nat /\ i - 1 \in 0 .. k - 1 /\ k - 1 \in 0 .. k /\ i - 1 \in 0 .. (k - 1)
    BY <1>2
  <2>3. d[i - 1] <= d[k - 1] /\ d[i - 1] \in Nat BY <1>4, <2>2
  <2>4. d[i - 1] \in 1 .. d[k - 1] BY <1>5, <2>1, <2>3
  <2> QED BY <1>7, <2>1, <2>4
<1>10. Scopes(g, cs1, low)
  <2>1. \A i \in 2 .. k - 1 : i \in 2 .. k /\ i \in 1 .. k - 1 BY <1>2
  <2>2. \A i \in 2 .. Len(cs1) : d[i - 1] >= 1 /\ ScopeTable(g, cs1[i].owner) = low[d[i - 1]]
    BY <1>2, <1>9, <2>1
  <2> QED BY <1>8, <2>2 DEF Scopes
<1>11. ASSUME k = 1 PROVE low = << >>
  <2>1. Len(low) = 0 BY <1>4, <1>7, <1>11
  <2> QED BY <1>7, <2>1
<1>12. ASSUME k > 1 PROVE low # << >> /\ Top(low) = ScopeTable(g, Top(cs).owner)
  <2>1. k \in 2 .. k BY <1>2, <1>12
  <2>2. d[k - 1] >= 1 /\ ScopeTable(g, cs[k].owner) = low[d[k - 1]] BY <1>9, <2>1
  <2>3. low # << >> BY <1>7, <2>2
  <2> QED BY <1>2, <1>7, <2>2, <2>3 DEF Top
<1> QED BY <1>3, <1>6, <1>7, <1>10, <1>11, <1>12 DEF k, t, low, cs1

LEMMA ScopesPush ==
  ASSUME NEW g, NEW cs \in Seq(CallRecords), NEW low \in Seq(Nat), Scopes(g, cs, low),
         NEW c \in CallRecords, NEW ts \in Seq(Nat),
         Len(ts) = Len(low) + TablesOf(c.at), \A i \in 1 .. Len(low) : ts[i] = low[i],
         cs # << >> => low # << >> /\ Top(low) = ScopeTable(g, c.owner)
  PROVE  Scopes(g, Append(cs, c), ts)
<1> DEFINE k == Len(cs)
           t == TablesOf(c.at)
           cs2 == Append(cs, c)
<1>1. PICK d : /\ Depths(cs, low, d)
               /\ \A i \in 2 .. k : d[i - 1] >= 1 /\ ScopeTable(g, cs[i].owner) = low[d[i - 1]]
  BY DEF Scopes
<1>2. /\ k \in Nat /\ Len(cs2) = k + 1 /\ cs2[k + 1] = c
      /\ \A i \in 1 .. k : cs2[i] = cs[i]
  OBVIOUS
<1>3. t \in Nat BY DEF TablesOf
<1>4. /\ d \in [Nat -> Nat] /\ d[0] = 0 /\ d[k] = Len(low)
      /\ \A i \in 1 .. k : d[i] = d[i - 1] + TablesOf(cs[i].at)
      /\ \A i \in 0 .. k : \A j \in 0 .. i : d[j] <= d[i]
  BY <1>1 DEF Depths
<1> HIDE DEF k, t, cs2
<1> DEFINE m == k + 1
           e == [d EXCEPT ![m] = d[k] + t]
<1>5. /\ e \in [Nat -> Nat] /\ e[k + 1] = d[k] + t /\ k \in 0 .. k
      /\ \A i \in 0 .. k : e[i] = d[i] /\ d[i] \in Nat
  <2>1. k \in Nat /\ m \in Nat /\ k \in 0 .. k /\ d[k] \in Nat BY <1>2, <1>4
  <2>2. d[k] + t \in Nat BY <1>3, <2>1
  <2>3. \A i \in 0 .. k : i # m /\ i \in Nat BY <2>1
  <2>4. m = k + 1 OBVIOUS
  <2> HIDE DEF m
  <2> QED BY <1>4, <2>1, <2>2, <2>3, <2>4
<1>6. Len(ts) = e[k + 1] BY <1>4, <1>5 DEF t
<1> HIDE DEF e
<1>7. ASSUME NEW i \in 1 .. k + 1 PROVE e[i] = e[i - 1] + TablesOf(cs2[i].at)
  <2>1. CASE i = k + 1
    <3>1. k \in 0 .. k /\ i - 1 = k BY <1>2, <2>1
    <3> QED BY <1>2, <1>5, <2>1, <3>1 DEF t
  <2>2. CASE i \in 1 .. k
    <3>1. i \in 0 .. k /\ i - 1 \in 0 .. k BY <1>2, <2>2
    <3> QED BY <1>2, <1>4, <1>5, <2>2, <3>1
  <2> QED BY <1>2, <2>1, <2>2
<1>8. ASSUME NEW i \in 0 .. k + 1, NEW j \in 0 .. i PROVE e[j] <= e[i]
  <2>0. k \in 0 .. k /\ d[k] \in Nat BY <1>5
  <2>1. CASE i = k + 1 /\ j = k + 1 BY <1>3, <1>5, <2>0, <2>1
  <2>2. CASE i = k + 1 /\ j # k + 1
    <3>1. j \in 0 .. k BY <1>2, <2>2
    <3>2. d[j] <= d[k] /\ d[j] \in Nat BY <1>4, <1>5, <2>0, <3>1
    <3>3. e[j] = d[j] /\ e[i] = d[k] + t BY <1>5, <2>2, <3>1
    <3>4. d[j] <= d[k] + t BY <1>3, <2>0, <3>2
    <3> QED BY <3>3, <3>4
  <2>3. CASE i # k + 1
    <3>1. i \in 0 .. k /\ j \in 0 .. k BY <1>2, <2>3
    <3> QED BY <1>4, <1>5, <3>1
  <2> QED BY <2>1, <2>2, <2>3
<1>9. Depths(cs2, ts, e)
  <2>1. 0 \in 0 .. k BY <1>2
  <2> QED BY <1>2, <1>4, <1>5, <1>6, <1>7, <1>8, <2>1 DEF Depths
<1>10. ASSUME NEW i \in 2 .. k + 1
       PROVE  e[i - 1] >= 1 /\ ScopeTable(g, cs2[i].owner) = ts[e[i - 1]]
  <2>0. i - 1 \in 0 .. k BY <1>2
  <2>1. i - 1 \in 0 .. k /\ e[i - 1] = d[i - 1] /\ d[i - 1] \in Nat BY <1>5, <2>0
  <2>2. CASE i = k + 1
    <3>1. cs # << >> /\ k >= 1 BY <1>2, <2>2 DEF k
    <3>2. low # << >> /\ Top(low) = ScopeTable(g, c.owner) BY <3>1
    <3>3. Len(low) \in 1 .. Len(low) /\ Len(low) >= 1 BY <3>2
    <3>4. d[i - 1] = Len(low) BY <1>2, <1>4, <2>2
    <3> QED BY <1>2, <2>1, <2>2, <3>2, <3>3, <3>4 DEF Top
  <2>3. CASE i # k + 1
    <3>1. i \in 2 .. k /\ i \in 1 .. k BY <1>2, <2>3
    <3>2. d[i - 1] >= 1 /\ ScopeTable(g, cs[i].owner) = low[d[i - 1]] BY <1>1, <3>1 DEF k
    <3>3. d[i - 1] <= d[k] BY <1>2, <1>4, <2>1
    <3>4. d[i - 1] \in 1 .. Len(low) BY <1>4, <2>1, <3>2, <3>3
    <3> QED BY <1>2, <2>1, <3>1, <3>2, <3>4
  <2> QED BY <2>2, <2>3
<1> QED BY <1>2, <1>9, <1>10 DEF Scopes, cs2

LEMMA NoScopes ==
  ASSUME NEW g
  PROVE  Scopes(g, << >>, << >>)
<1> DEFINE d == [n \in Nat |-> 0]
<1>1. Depths(<< >>, << >>, d) BY DEF Depths
<1> QED BY <1>1 DEF Scopes

LEMMA NoCallNoTable ==
  ASSUME NEW g, NEW ts \in Seq(Nat), Scopes(g, << >>, ts)
  PROVE  ts = << >>
<1>1. PICK d : Depths(<< >>, ts, d) BY DEF Scopes
<1>2. Len(ts) = 0 BY <1>1 DEF Depths
<1> QED BY <1>2

-----------------------------------------------------------------------------
(* The walk over the loops, step by step. *)
LEMMA NonForUnfolds ==
  ASSUME NEW g, Climbable(g)
  PROVE  /\ NonForAncestor(g)[NULL] = NULL
         /\ \A s \in Statements(g) :
              NonForAncestor(g)[s] = IF g.stat[s].statementType # "CF_FOR" THEN s
                                     ELSE NonForAncestor(g)[g.stat[s].parentStatement]
<1> DEFINE up == NonForAncestor(g)
<1>1. Walk(Len(g.stat), NotForIn(g), ParentOf(g), up) BY NonForWalk
<1>2. Len(g.stat) \in Nat /\ \A s \in 1 .. Len(g.stat) :
        ParentOf(g)[s] = g.stat[s].parentStatement
  BY ClimbableParents
<1> HIDE DEF up
<1>3. \A s \in {0} \union 1 .. Len(g.stat) :
        up[s] = IF s = 0 \/ s \in NotForIn(g) THEN s ELSE up[ParentOf(g)[s]]
  BY <1>1 DEF Walk
<1>4. up[0] = 0 BY <1>3
<1>5. ASSUME NEW s \in 1 .. Len(g.stat)
      PROVE  up[s] = IF g.stat[s].statementType # "CF_FOR" THEN s
                     ELSE up[g.stat[s].parentStatement]
  <2>1. s # 0 BY <1>2
  <2>2. s \in NotForIn(g) <=> g.stat[s].statementType # "CF_FOR" BY DEF NotForIn, Statements
  <2>3. ParentOf(g)[s] = g.stat[s].parentStatement BY <1>2
  <2> QED BY <1>3, <2>1, <2>2, <2>3
<1> QED BY <1>4, <1>5 DEF up, NULL, Statements

LEMMA NonForAgrees ==
  ASSUME NEW g, Climbable(g), NEW h, Climbable(h), Len(g.stat) <= Len(h.stat),
         \A s \in Statements(g) : /\ h.stat[s].parentStatement = g.stat[s].parentStatement
                                  /\ h.stat[s].statementType = g.stat[s].statementType
  PROVE  \A s \in {NULL} \union Statements(g) : NonForAncestor(h)[s] = NonForAncestor(g)[s]
<1>1. Walk(Len(g.stat), NotForIn(g), ParentOf(g), NonForAncestor(g))
        /\ Walk(Len(h.stat), NotForIn(h), ParentOf(h), NonForAncestor(h))
  BY NonForWalk
<1>2. /\ Len(g.stat) \in Nat /\ Len(h.stat) \in Nat
      /\ \A s \in 1 .. Len(g.stat) : /\ ParentOf(g)[s] = g.stat[s].parentStatement
                                     /\ ParentOf(g)[s] < s /\ ParentOf(g)[s] \in Nat
      /\ \A s \in 1 .. Len(h.stat) : ParentOf(h)[s] = h.stat[s].parentStatement
  BY ClimbableParents
<1>3. ASSUME NEW s \in 1 .. Len(g.stat)
      PROVE  /\ ParentOf(g)[s] \in Nat /\ ParentOf(g)[s] < s /\ ParentOf(h)[s] = ParentOf(g)[s]
             /\ s \in NotForIn(g) <=> s \in NotForIn(h)
  <2>1. s \in 1 .. Len(h.stat) BY <1>2
  <2> QED BY <1>2, <2>1 DEF NotForIn, Statements
<1> DEFINE N == Len(g.stat)
           N2 == Len(h.stat)
           up == NonForAncestor(g)
           up2 == NonForAncestor(h)
           Stop == NotForIn(g)
           Stop2 == NotForIn(h)
           parent == ParentOf(g)
           parent2 == ParentOf(h)
<1>4. WalksWithSame(N, N, Stop, parent, up, N2, Stop2, parent2, up2)
  BY <1>1, <1>2, <1>3 DEF WalksWithSame
<1> HIDE DEF N, N2, up, up2, Stop, Stop2, parent, parent2
<1>5. \A s \in 0 .. N : up2[s] = up[s] BY <1>4, WalksAgree
<1> QED BY <1>2, <1>5 DEF up, up2, N, NULL, Statements

(* A graph that kept the tables, the types and the parents of another.     *)
KeepsScopes(g, h) ==
  /\ Climbable(g) /\ Climbable(h)
  /\ Len(g.stat) <= Len(h.stat)
  /\ h.activeFunc = g.activeFunc
  /\ h.funcs[g.activeFunc].symbolTable = g.funcs[g.activeFunc].symbolTable
  /\ \A s \in Statements(g) : /\ h.stat[s].parentStatement = g.stat[s].parentStatement
                              /\ h.stat[s].statementType = g.stat[s].statementType
                              /\ h.stat[s].localSymbolTable = g.stat[s].localSymbolTable

LEMMA ScopeIsKept ==
  ASSUME NEW g, NEW h, KeepsScopes(g, h), NEW s \in {NULL} \union Statements(g)
  PROVE  ScopeTable(h, s) = ScopeTable(g, s)
<1> DEFINE b == NonForAncestor(g)[s]
<1>1. NonForAncestor(h)[s] = b BY NonForAgrees DEF KeepsScopes
<1>2. b \in {NULL} \union Statements(g) BY NonForIsThere DEF KeepsScopes
<1> HIDE DEF b
<1>3. ScopeTable(g, s) = IF b = NULL THEN g.funcs[g.activeFunc].symbolTable
                         ELSE g.stat[b].localSymbolTable
  BY DEF ScopeTable, b
<1>4. ScopeTable(h, s) = IF b = NULL THEN h.funcs[h.activeFunc].symbolTable
                         ELSE h.stat[b].localSymbolTable
  BY <1>1 DEF ScopeTable
<1> QED BY <1>2, <1>3, <1>4 DEF KeepsScopes

LEMMA InvClimbs ==
  ASSUME NEW g, NEW tables, GraphInv(g, tables)
  PROVE  Climbable(g) /\ Len(g.stat) \in Nat /\ g.activeStat \in {NULL} \union Statements(g)
BY GraphParts DEF GraphInv, GraphOK, Graphs, Climbable

LEMMA SameKeepsScopes ==
  ASSUME NEW g, NEW tables, GraphInv(g, tables)
  PROVE  KeepsScopes(g, g)
BY InvClimbs DEF KeepsScopes

LEMMA GrowsKeepsScopes ==
  ASSUME NEW g, NEW tables, GraphInv(g, tables), NEW h, NEW more, GraphInv(h, more),
         g.activeFunc # NULL, NEW edge \in Edges, NEW type,
         Grows(g, h, edge, type, FuncNames)
  PROVE  KeepsScopes(g, h)
<1>1. Climbable(g) /\ Climbable(h) /\ Len(g.stat) \in Nat BY InvClimbs
<1>2. Len(h.stat) = Len(g.stat) + 1 /\ h.activeFunc = g.activeFunc
  BY DEF Grows, StatementsGrow, NewId
<1>3. g.activeFunc \in 1 .. Len(g.funcs) BY DEF GraphInv, GraphOK
<1>4. h.funcs[g.activeFunc].symbolTable = g.funcs[g.activeFunc].symbolTable
  BY <1>3 DEF Grows, FunctionsKept
<1>5. ASSUME NEW s \in Statements(g)
      PROVE  /\ h.stat[s].parentStatement = g.stat[s].parentStatement
             /\ h.stat[s].statementType = g.stat[s].statementType
             /\ h.stat[s].localSymbolTable = g.stat[s].localSymbolTable
  BY GrowsOld DEF OldKept
<1> QED BY <1>1, <1>2, <1>4, <1>5 DEF KeepsScopes

LEMMA PopKeepsScopes ==
  ASSUME NEW g, NEW tables, GraphInv(g, tables), NEW h, NEW more, GraphInv(h, more),
         NEW n, PopsTo(g, h, n, FuncNames)
  PROVE  KeepsScopes(g, h)
BY InvClimbs DEF KeepsScopes, PopsTo

LEMMA AstKeepsScopes ==
  ASSUME NEW g, NEW tables, GraphInv(g, tables), NEW h, NEW more, GraphInv(h, more),
         SameButAst(g, h, FuncNames)
  PROVE  KeepsScopes(g, h)
BY InvClimbs DEF KeepsScopes, SameButAst

(* What a statement inherits is the table of the block it is added to.     *)
LEMMA InheritsScope ==
  ASSUME NEW g, NEW tables, GraphInv(g, tables)
  PROVE  InheritedSymtable(g) = ScopeTable(g, g.activeStat)
<1> DEFINE a == g.activeStat
           up == NonForAncestor(g)
           above == up[g.stat[a].parentStatement]
<1>1. Climbable(g) /\ a \in {NULL} \union Statements(g) BY InvClimbs
<1>2. /\ up[NULL] = NULL
      /\ a # NULL => up[a] = IF g.stat[a].statementType # "CF_FOR" THEN a ELSE above
  BY <1>1, NonForUnfolds
<1>3. ScopeTable(g, a) = IF up[a] = NULL THEN g.funcs[g.activeFunc].symbolTable
                         ELSE g.stat[up[a]].localSymbolTable
  BY DEF ScopeTable
<1>4. InheritedSymtable(g) =
        IF a = NULL THEN g.funcs[g.activeFunc].symbolTable
        ELSE IF g.stat[a].statementType # "CF_FOR" THEN g.stat[a].localSymbolTable
        ELSE IF above = NULL THEN g.funcs[g.activeFunc].symbolTable
             ELSE g.stat[above].localSymbolTable
  BY DEF InheritedSymtable
<1> HIDE DEF a, up, above
<1> QED BY <1>2, <1>3, <1>4 DEF a

(* The table found from a statement just added. *)
LEMMA ScopeOfNew ==
  ASSUME NEW g, NEW tables, GraphInv(g, tables), NEW h, NEW more, GraphInv(h, more),
         g.activeFunc # NULL, NEW edge \in Edges, NEW type,
         Grows(g, h, edge, type, FuncNames)
  PROVE  ScopeTable(h, NewId(g)) = IF type = "CF_FOR" THEN ScopeTable(g, g.activeStat)
                                   ELSE h.stat[NewId(g)].localSymbolTable
<1> DEFINE n == NewId(g)
           up == NonForAncestor(h)
<1>1. /\ n \in Statements(h) /\ n # NULL /\ h.stat[n].statementType = type
      /\ h.stat[n].parentStatement = g.activeStat
  <2>1. NewAdded(g, h, type) BY GrowsNew
  <2> QED BY <2>1 DEF NewAdded, IsNew
<1>2. Climbable(h) /\ g.activeStat \in {NULL} \union Statements(g) BY InvClimbs
<1>3. up[n] = IF type # "CF_FOR" THEN n ELSE up[g.activeStat]
  BY <1>1, <1>2, NonForUnfolds
<1>4. ScopeTable(h, g.activeStat) = ScopeTable(g, g.activeStat)
  BY <1>2, GrowsKeepsScopes, ScopeIsKept
<1> HIDE DEF n
<1>5. CASE type = "CF_FOR" BY <1>3, <1>4, <1>5 DEF ScopeTable, n
<1>6. CASE type # "CF_FOR" BY <1>1, <1>3, <1>6 DEF ScopeTable, n
<1> QED BY <1>5, <1>6

-----------------------------------------------------------------------------
(* What is left on the stack when the innermost call leaves its place.     *)
Low(cs, ts) == Without(ts, TablesOf(Top(cs).at))

OwnersIn(g, cs) == \A i \in 2 .. Len(cs) : cs[i].owner \in Statements(g)

LEMMA OwnersAreIn ==
  ASSUME NEW g, NEW cs, ParserInv(g, cs)
  PROVE  OwnersIn(g, cs)
<1>1. ASSUME NEW i \in 2 .. Len(cs) PROVE cs[i].owner \in Statements(g)
  BY DEF ParserInv, AllOpen, Open
<1> QED BY <1>1 DEF OwnersIn

LEMMA ScopesAreKept ==
  ASSUME NEW g, NEW h, KeepsScopes(g, h), NEW cs, NEW ts, Scopes(g, cs, ts), OwnersIn(g, cs)
  PROVE  Scopes(h, cs, ts)
<1>1. PICK d : /\ Depths(cs, ts, d)
               /\ \A i \in 2 .. Len(cs) : /\ d[i - 1] >= 1
                                          /\ ScopeTable(g, cs[i].owner) = ts[d[i - 1]]
  BY DEF Scopes
<1>2. \A i \in 2 .. Len(cs) : ScopeTable(h, cs[i].owner) = ScopeTable(g, cs[i].owner)
  BY ScopeIsKept DEF OwnersIn
<1> QED BY <1>1, <1>2 DEF Scopes

(* The stack that the innermost call, of a statement, leaves behind.       *)
Left(g, h, cs, ts) ==
  /\ KeepsScopes(g, h)
  /\ cs \in Seq(CallRecords) /\ Len(cs) \in 2 .. Len(cs)
  /\ Nested(cs) /\ OwnersIn(g, cs)
  /\ ts \in Seq(Nat)
  /\ Scopes(g, cs, ts)

LEMMA LowScopes ==
  ASSUME NEW g, NEW h, NEW cs, NEW ts, Left(g, h, cs, ts)
  PROVE  /\ Low(cs, ts) \in Seq(Nat) /\ Low(cs, ts) # << >>
         /\ TablesOf(Top(cs).at) <= Len(ts) /\ TablesOf(Top(cs).at) \in Nat
         /\ Pop(cs) \in Seq(CallRecords) /\ Pop(cs) # << >>
         /\ Top(Pop(cs)).at \in Arms \union {"func"}
         /\ Scopes(h, Pop(cs), Low(cs, ts))
         /\ Top(Low(cs, ts)) = ScopeTable(g, Top(cs).owner)
         /\ Top(Low(cs, ts)) = ScopeTable(h, Top(cs).owner)
<1> DEFINE k == Len(cs)
<1>1. /\ cs \in Seq(CallRecords) /\ k \in 2 .. k /\ k \in Nat /\ cs # << >> /\ k > 1
      /\ k - 1 \in 1 .. k /\ k - 1 < k /\ Top(cs) = cs[k]
  BY DEF Left, Top
<1>2. /\ Low(cs, ts) \in Seq(Nat) /\ Scopes(g, Pop(cs), Low(cs, ts)) /\ Low(cs, ts) # << >>
      /\ TablesOf(Top(cs).at) <= Len(ts) /\ TablesOf(Top(cs).at) \in Nat
      /\ Top(Low(cs, ts)) = ScopeTable(g, Top(cs).owner)
  BY <1>1, ScopesPop DEF Left, Low
<1>3. /\ Pop(cs) \in Seq(CallRecords) /\ Len(Pop(cs)) = k - 1
      /\ \A i \in 1 .. k - 1 : Pop(cs)[i] = cs[i]
  BY <1>1, PopCalls
<1>4. OwnersIn(g, Pop(cs))
  <2>1. \A i \in 2 .. k - 1 : i \in 1 .. k - 1 /\ i \in 2 .. k BY <1>1
  <2> QED BY <1>3, <2>1 DEF Left, OwnersIn
<1>5. Scopes(h, Pop(cs), Low(cs, ts)) BY <1>2, <1>4, ScopesAreKept DEF Left
<1>6. Top(cs).owner \in Statements(g) BY <1>1 DEF Left, OwnersIn
<1>7. ScopeTable(h, Top(cs).owner) = ScopeTable(g, Top(cs).owner)
  BY <1>6, ScopeIsKept DEF Left
<1>8. Pop(cs) # << >> /\ Top(Pop(cs)) = cs[k - 1]
  <2>1. k - 1 >= 1 /\ k - 1 \in 1 .. k - 1 BY <1>1
  <2> QED BY <1>3, <2>1 DEF Top
<1>9. cs[k - 1].at \in Arms \union {"func"} BY <1>1 DEF Left, Nested
<1> QED BY <1>2, <1>3, <1>5, <1>7, <1>8, <1>9

(* The call returns, and the block around it goes on.                      *)
LEMMA ReturnScoped ==
  ASSUME NEW g, NEW h, NEW cs, NEW ts, Left(g, h, cs, ts),
         ScopeTable(h, h.activeStat) = ScopeTable(g, Top(cs).owner)
  PROVE  Scoped(h, Pop(cs), Low(cs, ts))
<1>1. /\ Top(Pop(cs)).at \in Arms \union {"func"} /\ Scopes(h, Pop(cs), Low(cs, ts))
      /\ Top(Low(cs, ts)) = ScopeTable(g, Top(cs).owner)
  BY LowScopes
<1>2. Top(Pop(cs)).at # "for_header" BY <1>1 DEF Arms
<1> QED BY <1>1, <1>2 DEF Scoped, TopScope

(* The call moves to another place, where it has these tables.             *)
LEMMA MoveScopes ==
  ASSUME NEW g, NEW h, NEW cs, NEW ts, Left(g, h, cs, ts),
         NEW c \in CallRecords, c.owner = Top(cs).owner, NEW ts2 \in Seq(Nat),
         Len(ts2) = Len(Low(cs, ts)) + TablesOf(c.at),
         \A i \in 1 .. Len(Low(cs, ts)) : ts2[i] = Low(cs, ts)[i]
  PROVE  Scopes(h, Append(Pop(cs), c), ts2)
<1> DEFINE low == Low(cs, ts)
           cs1 == Pop(cs)
<1>1. /\ low \in Seq(Nat) /\ low # << >> /\ cs1 \in Seq(CallRecords) /\ Scopes(h, cs1, low)
      /\ Top(low) = ScopeTable(h, c.owner)
  BY LowScopes
<1>2. Len(ts2) = Len(low) + TablesOf(c.at) /\ \A i \in 1 .. Len(low) : ts2[i] = low[i]
  OBVIOUS
<1> HIDE DEF low, cs1
<1>3. Scopes(h, Append(cs1, c), ts2) BY <1>1, <1>2, ScopesPush
<1> QED BY <1>3 DEF cs1

(* A call is made for a statement of the block.                            *)
LEMMA EnterScopes ==
  ASSUME NEW g, NEW h, KeepsScopes(g, h), NEW cs \in Seq(CallRecords), cs # << >>,
         OwnersIn(g, cs), NEW ts \in Seq(Nat), Scopes(g, cs, ts), ts # << >>,
         NEW c \in CallRecords, NEW ts2 \in Seq(Nat),
         Len(ts2) = Len(ts) + TablesOf(c.at), \A i \in 1 .. Len(ts) : ts2[i] = ts[i],
         ScopeTable(h, c.owner) = Top(ts)
  PROVE  Scopes(h, Append(cs, c), ts2)
<1>1. Scopes(h, cs, ts) BY ScopesAreKept
<1> QED BY <1>1, ScopesPush

LEMMA TopOfAppended ==
  ASSUME NEW S, NEW s \in Seq(S), NEW x \in S
  PROVE  /\ Append(s, x) \in Seq(S) /\ Append(s, x) # << >> /\ Top(Append(s, x)) = x
         /\ Len(Append(s, x)) = Len(s) + 1 /\ \A i \in 1 .. Len(s) : Append(s, x)[i] = s[i]
<1>1. /\ Append(s, x) \in Seq(S) /\ Len(Append(s, x)) = Len(s) + 1
      /\ Append(s, x)[Len(s) + 1] = x /\ \A i \in 1 .. Len(s) : Append(s, x)[i] = s[i]
      /\ Len(s) \in Nat
  OBVIOUS
<1>2. Append(s, x) # << >> BY <1>1
<1> QED BY <1>1, <1>2 DEF Top

(* Calls that are in a block have a table. *)
LEMMA BlockHasTable ==
  ASSUME NEW g, NEW cs \in Seq(CallRecords), cs # << >>, Nested(cs),
         Top(cs).at \notin {"func_name"}, NEW ts \in Seq(Nat), Scopes(g, cs, ts)
  PROVE  ts # << >>
<1>1. PICK d : Depths(cs, ts, d) BY DEF Scopes
<1> DEFINE k == Len(cs)
<1>2. k \in Nat /\ k >= 1 /\ k \in 0 .. k /\ 1 \in 0 .. k /\ 1 \in 1 .. k /\ Top(cs) = cs[k]
  BY DEF Top
<1> HIDE DEF k
<1>3. cs[1].at = "func"
  <2>1. cs[1].at \in {"func_name", "func"} BY <1>2 DEF Nested, k
  <2>2. CASE k = 1 BY <1>2, <2>1, <2>2
  <2>3. CASE k # 1
    <3>1. 1 < k BY <1>2, <2>3
    <3>2. cs[1].at \in Arms \union {"func"} BY <1>2, <3>1 DEF Nested, k
    <3> QED BY <2>1, <3>2 DEF Arms
  <2> QED BY <2>2, <2>3
<1>4. d[1] = 1
  <2>1. d[1] = d[1 - 1] + TablesOf(cs[1].at) BY <1>1, <1>2 DEF Depths, k
  <2>2. TablesOf(cs[1].at) = 1 BY <1>3 DEF TablesOf
  <2>3. d[1 - 1] = 0 BY <1>1 DEF Depths
  <2> QED BY <2>1, <2>2, <2>3
<1>5. d[1] <= d[k] /\ d[k] = Len(ts)
  <2>1. \A i \in 0 .. k : \A j \in 0 .. i : d[j] <= d[i] BY <1>1 DEF Depths, k
  <2>2. 1 \in 0 .. k /\ 1 \in 0 .. k BY <1>2
  <2>3. k \in 0 .. k /\ 1 \in 0 .. k /\ 1 <= k BY <1>2
  <2>4. d[1] <= d[k] BY <2>1, <2>3
  <2> QED BY <1>1, <2>4 DEF Depths, k
<1>6. Len(ts) >= 1 BY <1>4, <1>5
<1> QED BY <1>6

-----------------------------------------------------------------------------
(* The strengthening of ScopeAgrees, and what each action does to it.      *)
SInv == semantic_enabled => Scoped(graph, calls, symtables)

LEMMA SeqOfTables ==
  ASSUME NEW n, n \in Nat, NEW ts \in Seq(1 .. n)
  PROVE  ts \in Seq(Nat)
<1>1. Len(ts) \in Nat /\ \A i \in 1 .. Len(ts) : ts[i] \in Nat OBVIOUS
<1>2. ts = [i \in 1 .. Len(ts) |-> ts[i]] OBVIOUS
<1> QED BY <1>1, <1>2

LEMMA ScopesHere ==
  ASSUME IInv, SInv, Reading
  PROVE  /\ GraphInv(graph, allocated) /\ ParserInv(graph, calls)
         /\ calls \in Seq(CallRecords) /\ Nested(calls) /\ OwnersIn(graph, calls)
         /\ symtables \in Seq(Nat) /\ allocated \in Nat
         /\ Scopes(graph, calls, symtables) /\ TopScope(graph, calls, symtables)
<1>1. /\ GraphInv(graph, allocated) /\ ParserInv(graph, calls) /\ calls \in Seq(CallRecords)
      /\ Scopes(graph, calls, symtables) /\ TopScope(graph, calls, symtables)
      /\ symtables \in Seq(1 .. allocated)
  BY DEF IInv, SInv, Reading, Scoped, CallsOK
<1>2. Nested(calls) /\ OwnersIn(graph, calls) BY <1>1, OwnersAreIn DEF ParserInv
<1>3. allocated \in Nat BY Sizes
<1>4. symtables \in Seq(Nat) BY <1>1, <1>3, SeqOfTables
<1> QED BY <1>1, <1>2, <1>3, <1>4

(* The innermost call reads a statement. *)
LEMMA LeftHere ==
  ASSUME IInv, SInv, Reading, NEW at \in Arms \union Headers, At(at),
         NEW h, KeepsScopes(graph, h)
  PROVE  /\ Left(graph, h, calls, symtables) /\ Top(calls).at = at
         /\ Top(calls) \in CallRecords /\ Top(calls).owner \in Nat
         /\ ScopeTable(h, Top(calls).owner) = ScopeTable(graph, Top(calls).owner)
<1>1. /\ calls \in Seq(CallRecords) /\ calls # << >> /\ Top(calls).at = at
      /\ GraphInv(graph, allocated) /\ ParserInv(graph, calls)
  BY Innermost
<1>2. Len(calls) \in 2 .. Len(calls)
  <2>1. CASE at \in Headers BY <1>1, <2>1, HeaderOwner
  <2>2. CASE at \in Arms BY <1>1, <2>2, ArmOwner
  <2> QED BY <2>1, <2>2
<1>3. Left(graph, h, calls, symtables) BY <1>2, ScopesHere DEF Left
<1>4. Top(calls) \in CallRecords BY <1>1 DEF Top
<1>5. Top(calls).owner \in Nat BY <1>4 DEF CallRecords
<1>6. Top(calls).owner \in Statements(graph) BY <1>2, ScopesHere DEF OwnersIn, Top
<1>7. ScopeTable(h, Top(calls).owner) = ScopeTable(graph, Top(calls).owner)
  BY <1>6, ScopeIsKept
<1> QED BY <1>1, <1>3, <1>4, <1>5, <1>7

LEMMA SameTables ==
  ASSUME NEW a \in Seq(Nat), NEW b \in Seq(Nat), Len(a) = Len(b),
         \A i \in 1 .. Len(a) : a[i] = b[i]
  PROVE  a = b
<1>1. a = [i \in 1 .. Len(a) |-> a[i]] OBVIOUS
<1>2. b = [i \in 1 .. Len(b) |-> b[i]] OBVIOUS
<1> QED BY <1>1, <1>2

LEMMA NothingTaken ==
  ASSUME NEW ts \in Seq(Nat)
  PROVE  /\ Without(ts, 0) = ts
         /\ Without(ts, 1) = Pop(ts)
         /\ 2 <= Len(ts) => Without(ts, 2) = Pop(Pop(ts))
<1>1. Len(ts) \in Nat OBVIOUS
<1>2. Without(ts, 0) = ts
  <2>1. /\ Without(ts, 0) \in Seq(Nat) /\ Len(Without(ts, 0)) = Len(ts) - 0
        /\ \A i \in 1 .. Len(ts) - 0 : Without(ts, 0)[i] = ts[i]
    BY <1>1, WithoutTables
  <2> DEFINE w == Without(ts, 0)
  <2>2. w \in Seq(Nat) /\ Len(w) = Len(ts) /\ \A i \in 1 .. Len(ts) : w[i] = ts[i]
    BY <1>1, <2>1
  <2> HIDE DEF w
  <2>3. w = ts BY <2>2, SameTables
  <2> QED BY <2>3 DEF w
<1>3. Without(ts, 1) = Pop(ts) BY DEF Without, Pop
<1>4. ASSUME 2 <= Len(ts) PROVE Without(ts, 2) = Pop(Pop(ts))
  <2> DEFINE w == Without(ts, 2)
             one == Pop(ts)
             two == Pop(one)
             n == Len(ts)
  <2>1. n - 2 \in Nat /\ n - 1 \in Nat /\ (n - 1) - 1 = n - 2 /\ n \in Nat BY <1>1, <1>4
  <2>2. /\ w \in Seq(Nat) /\ Len(w) = n - 2 /\ \A i \in 1 .. n - 2 : w[i] = ts[i]
    BY <1>4, WithoutTables
  <2>3. /\ one \in Seq(Nat) /\ Len(one) = n - 1 /\ \A i \in 1 .. n - 1 : one[i] = ts[i]
    <3>1. ts # << >> BY <1>4
    <3> QED BY <3>1, PopCalls
  <2> HIDE DEF n, w, one
  <2>4. one # << >> BY <1>4, <2>1, <2>3 DEF n
  <2>5. /\ two \in Seq(Nat) /\ Len(two) = Len(one) - 1
        /\ \A i \in 1 .. Len(one) - 1 : two[i] = one[i]
    BY <2>3, <2>4, PopCalls
  <2> HIDE DEF two
  <2>6. Len(two) = n - 2 /\ \A i \in 1 .. n - 2 : two[i] = ts[i]
    <3>1. Len(one) - 1 = n - 2 BY <2>1, <2>3
    <3>2. \A i \in 1 .. n - 2 : i \in 1 .. n - 1 BY <2>1
    <3> QED BY <2>3, <2>5, <3>1, <3>2
  <2>7. w = two BY <2>2, <2>5, <2>6, SameTables
  <2> QED BY <2>7 DEF w, two, one
<1> QED BY <1>2, <1>3, <1>4

(* A return or the end of a list of values, of an if or of a block: the    *)
(* call returns, and the graph is at its statement.                        *)
LEMMA CallReturnsScoped ==
  ASSUME IInv, SInv, Reading, NEW at \in Arms \union Headers, At(at),
         KeepsScopes(graph, graph'), calls' = Pop(calls),
         symtables' = Low(calls, symtables),
         ScopeTable(graph', graph'.activeStat) = ScopeTable(graph, Top(calls).owner)
  PROVE  SInv'
<1> DEFINE h == graph'
<1>1. Left(graph, h, calls, symtables) BY LeftHere
<1>2. ScopeTable(h, h.activeStat) = ScopeTable(graph, Top(calls).owner) OBVIOUS
<1> HIDE DEF h
<1>3. Scoped(h, Pop(calls), Low(calls, symtables)) BY <1>1, <1>2, ReturnScoped
<1> QED BY <1>3 DEF SInv, h

(* The places that have no table of their own.                             *)
LEMMA NoTableOfItsOwn ==
  ASSUME IInv, SInv, Reading,
         NEW at \in {"if_cond", "return", "id_next", "else_", "elif"}, At(at)
  PROVE  Low(calls, symtables) = symtables
<1>1. Top(calls).at = at BY DEF At
<1>2. TablesOf(Top(calls).at) = 0 BY <1>1 DEF TablesOf
<1>3. symtables \in Seq(Nat) BY ScopesHere
<1> QED BY <1>2, <1>3, NothingTaken DEF Low

LEMMA HeaderReturnsScoped ==
  ASSUME IInv, SInv, Reading, NEW at \in {"return", "id_next", "else_"}, At(at),
         KeepsScopes(graph, graph'), calls' = Pop(calls), symtables' = symtables,
         \/ graph'.activeStat = graph.activeStat
         \/ ScopeTable(graph', graph'.activeStat) = ScopeTable(graph, graph.activeStat)
  PROVE  SInv'
<1>1. at \in Headers /\ at \in Arms \union Headers BY DEF Headers
<1>2. graph.activeStat = Top(calls).owner /\ graph.activeStat \in Statements(graph)
  BY <1>1, AtHeader
<1>3. symtables' = Low(calls, symtables) BY NoTableOfItsOwn
<1>4. ScopeTable(graph', graph.activeStat) = ScopeTable(graph, graph.activeStat)
  <2> DEFINE h == graph'
  <2>1. KeepsScopes(graph, h) OBVIOUS
  <2> HIDE DEF h
  <2>2. ScopeTable(h, graph.activeStat) = ScopeTable(graph, graph.activeStat)
    BY <1>2, <2>1, ScopeIsKept
  <2> QED BY <2>2 DEF h
<1>5. ScopeTable(graph', graph'.activeStat) = ScopeTable(graph, Top(calls).owner)
  BY <1>2, <1>4
<1> QED BY <1>1, <1>3, <1>5, CallReturnsScoped

-----------------------------------------------------------------------------
(* The actions. *)

LEMMA FuncNameScoped ==
  ASSUME IInv, SInv, NEW name \in FuncNames, FuncName(name)
  PROVE  SInv'
<1> DEFINE n == Len(graph.funcs) + 1
           c == Call("func_name", n)
           h == graph'
<1>1. Reading /\ calls = << >> /\ symtables' = symtables /\ calls' = Append(<< >>, c)
  BY DEF FuncName, Enter
<1>2. symtables = << >> BY <1>1, ScopesHere, NoCallNoTable
<1>3. n \in Nat BY Sizes
<1>4. c \in CallRecords /\ c.at = "func_name" BY <1>3 DEF Call, CallRecords, Places
<1> HIDE DEF c, h
<1>5. << >> \in Seq(CallRecords) /\ << >> \in Seq(Nat) OBVIOUS
<1>6. Scopes(h, << >>, << >>) BY NoScopes
<1>7. Len(<< >>) = Len(<< >>) + TablesOf(c.at) BY <1>4 DEF TablesOf
<1>8. Scopes(h, Append(<< >>, c), << >>) BY <1>4, <1>5, <1>6, <1>7, ScopesPush
<1>9. Top(Append(<< >>, c)) = c BY <1>4, <1>5, TopOfAppended
<1>10. TopScope(h, Append(<< >>, c), << >>) BY <1>4, <1>9 DEF TopScope
<1> QED BY <1>1, <1>2, <1>8, <1>10 DEF SInv, Scoped, h

LEMMA FuncBodyScoped ==
  ASSUME IInv, SInv, FuncBody, IInv'
  PROVE  SInv'
<1> DEFINE owner == Top(calls).owner
           c == Call("func", owner)
           h == graph'
           t == allocated + 1
<1>1. /\ calls \in Seq(CallRecords) /\ calls # << >> /\ Top(calls).at = "func_name"
      /\ graph.activeFunc # NULL /\ InnermostCall(graph, calls) /\ Nested(calls)
      /\ GraphInv(graph, allocated)
  BY Innermost DEF FuncBody
<1>2. Reading /\ calls' = Append(Pop(calls), c) /\ symtables' = Append(symtables, t)
  BY DEF FuncBody, MoveTo
<1>3. Len(calls) = 1 /\ Pop(calls) = << >> BY <1>1, FunctionIsAlone
<1>4. symtables = << >>
  <2>1. symtables \in Seq(Nat) /\ Scopes(graph, calls, symtables) BY <1>2, ScopesHere
  <2>2. Without(symtables, TablesOf(Top(calls).at)) = << >> BY <1>1, <1>3, <2>1, ScopesPop
  <2>3. TablesOf(Top(calls).at) = 0 BY <1>1 DEF TablesOf
  <2> QED BY <2>1, <2>2, <2>3, NothingTaken
<1>5. c \in CallRecords /\ c.at = "func"
  <2>1. Top(calls) \in CallRecords BY <1>1 DEF Top
  <2> QED BY <2>1 DEF Call, CallRecords, Places
<1>6. /\ h.activeStat = NULL /\ h.activeFunc = graph.activeFunc
      /\ h.funcs[graph.activeFunc].symbolTable = t
  <2>1. graph.activeStat = NULL /\ graph.funcs[graph.activeFunc].symbolTable = NULL
    BY <1>1 DEF InnermostCall
  <2>2. h = cf_assign_function_symtable(graph, allocated + 1) BY DEF FuncBody
  <2> QED BY <1>1, <2>1, <2>2, FunctionTableKeepsGraph
<1>7. Climbable(h)
  <2>1. GraphInv(graph', allocated') BY DEF IInv
  <2> QED BY <2>1, InvClimbs
<1>8. t \in Nat BY Sizes
<1> HIDE DEF c, h, t
<1>9. ScopeTable(h, h.activeStat) = t BY <1>6, <1>7, NonForUnfolds DEF ScopeTable
<1>10. << >> \in Seq(CallRecords) /\ << >> \in Seq(Nat) OBVIOUS
<1> DEFINE ts == Append(<< >>, t)
<1>11. ts \in Seq(Nat) /\ Len(ts) = 1 /\ Top(ts) = t /\ ts # << >>
  <2>1. /\ ts \in Seq(Nat) /\ Len(ts) = Len(<< >>) + 1 /\ Top(ts) = t /\ ts # << >>
    BY <1>8, <1>10, TopOfAppended
  <2>2. Len(<< >>) + 1 = 1 OBVIOUS
  <2> QED BY <2>1, <2>2
<1> HIDE DEF ts
<1>12. Scopes(h, << >>, << >>) BY NoScopes
<1>13. Len(ts) = Len(<< >>) + TablesOf(c.at) BY <1>5, <1>11 DEF TablesOf
<1>14. Scopes(h, Append(<< >>, c), ts)
  <2>1. \A i \in 1 .. Len(<< >>) : ts[i] = (<< >>)[i] OBVIOUS
  <2> QED BY <1>5, <1>10, <1>11, <1>12, <1>13, <2>1, ScopesPush
<1>15. Top(Append(<< >>, c)) = c BY <1>5, <1>10, TopOfAppended
<1>16. TopScope(h, Append(<< >>, c), ts) BY <1>5, <1>9, <1>11, <1>15 DEF TopScope
<1> QED BY <1>2, <1>3, <1>4, <1>14, <1>16 DEF SInv, Scoped, h, ts

LEMMA CloseFuncScoped ==
  ASSUME IInv, SInv, CloseFunc
  PROVE  SInv'
<1>1. /\ calls \in Seq(CallRecords) /\ calls # << >> /\ Top(calls).at = "func"
      /\ Nested(calls)
  BY Innermost DEF CloseFunc
<1>2. /\ Reading /\ calls' = Pop(calls) /\ symtables' = Pop(symtables)
  BY DEF CloseFunc, Return
<1>3. Len(calls) = 1 /\ Pop(calls) = << >> BY <1>1, FunctionIsAlone
<1>4. Pop(symtables) = << >>
  <2>1. symtables \in Seq(Nat) /\ Scopes(graph, calls, symtables) BY <1>2, ScopesHere
  <2>2. Without(symtables, TablesOf(Top(calls).at)) = << >> BY <1>1, <1>3, <2>1, ScopesPop
  <2>3. TablesOf(Top(calls).at) = 1 BY <1>1 DEF TablesOf
  <2> QED BY <2>1, <2>2, <2>3, NothingTaken
<1> DEFINE h == graph'
<1> HIDE DEF h
<1>5. Scopes(h, << >>, << >>) /\ TopScope(h, << >>, << >>) BY NoScopes DEF TopScope
<1> QED BY <1>2, <1>3, <1>4, <1>5 DEF SInv, Scoped, h

(* A statement is added to the block.                                      *)
LEMMA BlockGrowsScoped ==
  ASSUME IInv, SInv, Reading, InBody, IInv', NEW type,
         Grows(graph, graph', "followingStatement", type, FuncNames)
  PROVE  /\ KeepsScopes(graph, graph')
         /\ calls \in Seq(CallRecords) /\ calls # << >> /\ OwnersIn(graph, calls)
         /\ symtables \in Seq(Nat) /\ symtables # << >> /\ Scopes(graph, calls, symtables)
         /\ Top(symtables) = ScopeTable(graph, graph.activeStat)
         /\ Top(calls).at \in Arms \union {"func"}
         /\ graph'.activeStat = NewId(graph)
         /\ \/ type = "CF_FOR" /\ ScopeTable(graph', NewId(graph)) = Top(symtables)
            \/ /\ type # "CF_FOR"
               /\ ScopeTable(graph', NewId(graph)) = graph'.stat[NewId(graph)].localSymbolTable
<1> DEFINE h == graph'
           more == allocated'
<1>1. /\ calls \in Seq(CallRecords) /\ calls # << >> /\ Top(calls).at \in Arms \union {"func"}
      /\ GraphInv(graph, allocated) /\ graph.activeFunc # NULL /\ Nested(calls)
      /\ OwnersIn(graph, calls) /\ symtables \in Seq(Nat) /\ Scopes(graph, calls, symtables)
      /\ TopScope(graph, calls, symtables)
  BY InBodyCall, Innermost, ScopesHere
<1>2. Top(calls).at \notin {"func_name", "for_header"} BY <1>1 DEF Arms
<1>3. symtables # << >> BY <1>1, <1>2, BlockHasTable
<1>4. Top(symtables) = ScopeTable(graph, graph.activeStat) BY <1>1, <1>2 DEF TopScope
<1>5. GraphInv(h, more) BY DEF IInv
<1>6. Grows(graph, h, "followingStatement", type, FuncNames) OBVIOUS
<1>7. "followingStatement" \in Edges BY DEF Edges
<1> HIDE DEF h, more
<1>8. KeepsScopes(graph, h) BY <1>1, <1>5, <1>6, <1>7, GrowsKeepsScopes
<1>9. ScopeTable(h, NewId(graph)) = IF type = "CF_FOR" THEN ScopeTable(graph, graph.activeStat)
                                    ELSE h.stat[NewId(graph)].localSymbolTable
  BY <1>1, <1>5, <1>6, <1>7, ScopeOfNew
<1>10. h.activeStat = NewId(graph) BY <1>6 DEF Grows
<1> QED BY <1>1, <1>3, <1>4, <1>8, <1>9, <1>10 DEF h

LEMMA ExpressionScoped ==
  ASSUME IInv, SInv, Expression, IInv'
  PROVE  SInv'
<1>1. /\ Reading /\ Grows(graph, graph', "followingStatement", "CF_BASIC", FuncNames)
      /\ graph'.stat[NewId(graph)].localSymbolTable = InheritedSymtable(graph)
      /\ GraphInv(graph, allocated) /\ graph.activeFunc # NULL
  BY ExpressionGrows
<1>2. symtables' = symtables BY DEF Expression
<1>3. ScopeTable(graph, graph.activeStat) = InheritedSymtable(graph) BY <1>1, InheritsScope
<1>4. CASE InBody /\ ~At("id_next")
  <2>1. calls' = calls BY <1>4 DEF Expression
  <2> DEFINE h == graph'
  <2>2. /\ KeepsScopes(graph, h) /\ OwnersIn(graph, calls) /\ Scopes(graph, calls, symtables)
        /\ Top(symtables) = ScopeTable(graph, graph.activeStat)
        /\ Top(calls).at \in Arms \union {"func"} /\ h.activeStat = NewId(graph)
        /\ ScopeTable(h, NewId(graph)) = h.stat[NewId(graph)].localSymbolTable
    BY <1>1, <1>4, BlockGrowsScoped
  <2>3. h.stat[NewId(graph)].localSymbolTable = InheritedSymtable(graph) BY <1>1
  <2> HIDE DEF h
  <2>4. Scopes(h, calls, symtables) BY <2>2, ScopesAreKept
  <2>5. TopScope(h, calls, symtables) BY <1>3, <2>2, <2>3 DEF TopScope, Arms
  <2> QED BY <1>2, <2>1, <2>4, <2>5 DEF SInv, Scoped, h
<1>5. CASE At("id_next")
  <2> DEFINE h == graph'
             more == allocated'
  <2>1. GraphInv(h, more) BY DEF IInv
  <2>2. "followingStatement" \in Edges /\ "CF_BASIC" # "CF_FOR" BY DEF Edges
  <2>3. /\ Grows(graph, h, "followingStatement", "CF_BASIC", FuncNames)
        /\ h.stat[NewId(graph)].localSymbolTable = InheritedSymtable(graph)
    BY <1>1
  <2> HIDE DEF h, more
  <2>4. KeepsScopes(graph, h) BY <1>1, <2>1, <2>2, <2>3, GrowsKeepsScopes
  <2>5. ScopeTable(h, NewId(graph)) = h.stat[NewId(graph)].localSymbolTable
    BY <1>1, <2>1, <2>2, <2>3, ScopeOfNew
  <2>6. h.activeStat = NewId(graph) BY <2>3 DEF Grows
  <2>7. ScopeTable(h, h.activeStat) = ScopeTable(graph, graph.activeStat)
    BY <1>3, <2>3, <2>5, <2>6
  <2>8. calls' = Pop(calls) BY <1>5 DEF Expression, Return
  <2>9. /\ KeepsScopes(graph, graph')
        /\ ScopeTable(graph', graph'.activeStat) = ScopeTable(graph, graph.activeStat)
    BY <2>4, <2>7 DEF h
  <2> QED BY <1>1, <1>2, <1>5, <2>8, <2>9, HeaderReturnsScoped
<1> QED BY <1>4, <1>5 DEF Expression

(* A return, an if and a for: a call is made for the new statement.        *)
LEMMA EntersScoped ==
  ASSUME IInv, SInv, Reading, InBody, IInv', NEW at \in {"return", "if_cond", "for_header"},
         NEW type, type = "CF_FOR" <=> at = "for_header",
         Grows(graph, graph', "followingStatement", type, FuncNames),
         Enter(at, Len(graph.stat) + 1),
         \/ /\ at # "for_header" /\ symtables' = symtables
            /\ graph'.stat[NewId(graph)].localSymbolTable = InheritedSymtable(graph)
         \/ /\ at = "for_header" /\ symtables' = Append(symtables, allocated + 1)
            /\ graph'.stat[NewId(graph)].localSymbolTable = allocated + 1
  PROVE  SInv'
<1> DEFINE h == graph'
           n == NewId(graph)
           c == Call(at, n)
           t == allocated + 1
           ts2 == symtables'
<1>1. /\ KeepsScopes(graph, h)
      /\ calls \in Seq(CallRecords) /\ calls # << >> /\ OwnersIn(graph, calls)
      /\ symtables \in Seq(Nat) /\ symtables # << >> /\ Scopes(graph, calls, symtables)
      /\ Top(symtables) = ScopeTable(graph, graph.activeStat)
      /\ h.activeStat = n
      /\ \/ type = "CF_FOR" /\ ScopeTable(h, n) = Top(symtables)
         \/ type # "CF_FOR" /\ ScopeTable(h, n) = h.stat[n].localSymbolTable
  BY BlockGrowsScoped
<1>2. InheritedSymtable(graph) = Top(symtables)
  BY <1>1, InheritsScope, ScopesHere
<1>3. ScopeTable(h, n) = Top(symtables) BY <1>1, <1>2
<1>4. n \in Nat /\ t \in Nat BY Sizes DEF NewId
<1>5. c \in CallRecords /\ c.at = at /\ c.owner = n
  BY <1>4 DEF Call, CallRecords, Places
<1>6. calls' = Append(calls, c) BY DEF Enter, NewId
<1>7. /\ ts2 \in Seq(Nat) /\ Len(ts2) = Len(symtables) + TablesOf(at)
      /\ \A i \in 1 .. Len(symtables) : ts2[i] = symtables[i]
      /\ at = "for_header" => Top(ts2) = h.stat[n].localSymbolTable
      /\ at # "for_header" => Top(ts2) = ScopeTable(h, n)
  <2>1. CASE at = "for_header"
    <3>1. TablesOf(at) = 1 BY <2>1 DEF TablesOf
    <3>2. ts2 = Append(symtables, t) /\ h.stat[n].localSymbolTable = t BY <2>1
    <3> HIDE DEF t, h, n, ts2
    <3> QED BY <1>1, <1>4, <2>1, <3>1, <3>2, TopOfAppended
  <2>2. CASE at # "for_header"
    <3>1. TablesOf(at) = 0 BY <2>2 DEF TablesOf
    <3>2. ts2 = symtables BY <2>2
    <3>3. Len(symtables) + 0 = Len(symtables) BY <1>1
    <3> HIDE DEF h, n, ts2
    <3> QED BY <1>1, <1>3, <2>2, <3>1, <3>2, <3>3
  <2> QED BY <2>1, <2>2
<1> HIDE DEF h, n, c, t, ts2
<1>8. Scopes(h, Append(calls, c), ts2) BY <1>1, <1>3, <1>5, <1>7, EnterScopes
<1>9. Top(Append(calls, c)) = c BY <1>1, <1>5, TopOfAppended
<1>10. TopScope(h, Append(calls, c), ts2) BY <1>1, <1>5, <1>7, <1>9 DEF TopScope
<1> QED BY <1>6, <1>8, <1>10 DEF SInv, Scoped, h, ts2

LEMMA ReturnKeywordScoped ==
  ASSUME IInv, SInv, ReturnKeyword, IInv'
  PROVE  SInv'
<1>1. /\ Reading /\ InBody /\ symtables' = symtables /\ Enter("return", Len(graph.stat) + 1)
  BY DEF ReturnKeyword
<1> QED BY <1>1, ReturnKeywordGrows, EntersScoped

LEMMA IfScoped ==
  ASSUME IInv, SInv, If, IInv'
  PROVE  SInv'
<1>1. /\ Reading /\ InBody /\ symtables' = symtables /\ Enter("if_cond", Len(graph.stat) + 1)
  BY DEF If
<1> QED BY <1>1, IfGrows, EntersScoped

LEMMA ForScoped ==
  ASSUME IInv, SInv, For, IInv'
  PROVE  SInv'
<1>1. /\ Reading /\ InBody /\ Enter("for_header", Len(graph.stat) + 1)
  BY DEF For
<1> QED BY <1>1, ForGrows, EntersScoped

LEMMA ReturnListScoped ==
  ASSUME IInv, SInv, ReturnList, IInv'
  PROVE  SInv'
<1> DEFINE h == graph'
           more == allocated'
<1>1. /\ Reading /\ At("return") /\ calls' = Pop(calls) /\ symtables' = symtables
      /\ "return" \in Headers
  BY DEF ReturnList, Return, Headers
<1>2. /\ GraphInv(graph, allocated) /\ GraphOK(graph, FuncNames)
      /\ graph.activeStat \in Statements(graph) /\ graph.activeStat # NULL
  BY <1>1, AtHeader
<1>3. SameButAst(graph, h, FuncNames)
  BY <1>2, UseAstKeepsTheRest DEF ReturnList, GraphOK
<1>4. GraphInv(h, more) BY DEF IInv
<1> HIDE DEF h, more
<1>5. KeepsScopes(graph, h) /\ h.activeStat = graph.activeStat
  BY <1>2, <1>3, <1>4, AstKeepsScopes DEF SameButAst
<1>6. KeepsScopes(graph, graph') /\ graph'.activeStat = graph.activeStat BY <1>5 DEF h
<1> QED BY <1>1, <1>6, HeaderReturnsScoped

LEMMA NoElseScoped ==
  ASSUME IInv, SInv, NoElse
  PROVE  SInv'
<1>1. /\ Reading /\ At("else_") /\ calls' = Pop(calls) /\ symtables' = symtables
      /\ graph' = graph
  BY DEF NoElse, Return
<1>2. KeepsScopes(graph, graph) BY <1>1, ScopesHere, SameKeepsScopes
<1>3. KeepsScopes(graph, graph') /\ graph'.activeStat = graph.activeStat BY <1>1, <1>2
<1> QED BY <1>1, <1>3, HeaderReturnsScoped

LEMMA ReturnNothingScoped ==
  ASSUME IInv, SInv, ReturnNothing
  PROVE  SInv'
<1> DEFINE c == Call("id_next", Top(calls).owner)
<1>1. /\ Reading /\ At("return") /\ symtables' = symtables /\ graph' = graph
      /\ calls' = Append(Pop(calls), c) /\ "return" \in Arms \union Headers
  BY DEF ReturnNothing, MoveTo, Headers
<1>2. /\ symtables \in Seq(Nat) /\ TopScope(graph, calls, symtables)
      /\ calls \in Seq(CallRecords)
  BY <1>1, ScopesHere
<1>3. KeepsScopes(graph, graph) BY <1>1, ScopesHere, SameKeepsScopes
<1>4. /\ Left(graph, graph, calls, symtables) /\ Top(calls).at = "return"
      /\ Top(calls).owner \in Nat /\ calls # << >>
  BY <1>1, <1>3, LeftHere DEF At
<1>5. c \in CallRecords /\ c.at = "id_next" /\ c.owner = Top(calls).owner
  BY <1>4 DEF Call, CallRecords, Places
<1>6. Low(calls, symtables) = symtables BY <1>1, NoTableOfItsOwn
<1>7. Len(symtables) = Len(symtables) + TablesOf(c.at) BY <1>2, <1>5 DEF TablesOf
<1> HIDE DEF c
<1>8. Scopes(graph, Append(Pop(calls), c), symtables)
  BY <1>2, <1>4, <1>5, <1>6, <1>7, MoveScopes
<1>9. Pop(calls) \in Seq(CallRecords) BY <1>4, LowScopes
<1>10. Top(Append(Pop(calls), c)) = c BY <1>5, <1>9, TopOfAppended
<1>11. TopScope(graph, Append(Pop(calls), c), symtables)
  BY <1>2, <1>4, <1>5, <1>10 DEF TopScope
<1> QED BY <1>1, <1>8, <1>11 DEF SInv, Scoped

(* A block is opened: its table is pushed, on that of the header of a for. *)
LEMMA BlockScoped ==
  ASSUME IInv, SInv, Reading, IInv', NEW from \in {"if_cond", "for_header", "else_"}, At(from),
         NEW at \in {"then", "for", "else"}, at = "for" <=> from = "for_header",
         NEW edge \in Edges, Grows(graph, graph', edge, "CF_BASIC", FuncNames),
         graph'.stat[NewId(graph)].localSymbolTable = allocated + 1,
         symtables' = Append(symtables, allocated + 1), MoveTo(at)
  PROVE  SInv'
<1> DEFINE h == graph'
           more == allocated'
           n == NewId(graph)
           c == Call(at, Top(calls).owner)
           t == allocated + 1
           ts2 == symtables'
           low == Low(calls, symtables)
<1>1. /\ GraphInv(graph, allocated) /\ graph.activeFunc # NULL /\ symtables \in Seq(Nat)
  BY Innermost, ScopesHere
<1>2. GraphInv(h, more) /\ Grows(graph, h, edge, "CF_BASIC", FuncNames) /\ t \in Nat
  BY Sizes DEF IInv
<1>3. /\ calls' = Append(Pop(calls), c) /\ ts2 = Append(symtables, t) /\ h.stat[n].localSymbolTable = t
  BY DEF MoveTo
<1>4. from \in Arms \union Headers BY DEF Headers
<1> HIDE DEF h, more, n, c, t, ts2, low
<1>5. KeepsScopes(graph, h) BY <1>1, <1>2, GrowsKeepsScopes
<1>6. /\ Left(graph, h, calls, symtables) /\ Top(calls).at = from
      /\ Top(calls).owner \in Nat
  BY <1>4, <1>5, LeftHere
<1>7. c \in CallRecords /\ c.at = at /\ c.owner = Top(calls).owner
  BY <1>6 DEF c, Call, CallRecords, Places
<1>8. ScopeTable(h, n) = t
  <2>1. "CF_BASIC" # "CF_FOR" OBVIOUS
  <2> QED BY <1>1, <1>2, <1>3, <2>1, ScopeOfNew DEF n
<1>9. /\ ts2 \in Seq(Nat) /\ Top(ts2) = t /\ Len(ts2) = Len(symtables) + 1
      /\ \A i \in 1 .. Len(symtables) : ts2[i] = symtables[i]
  BY <1>1, <1>2, <1>3, TopOfAppended
<1> DEFINE k == TablesOf(from)
           m == Len(symtables)
<1>10. /\ Len(low) = m - k /\ \A i \in 1 .. m - k : low[i] = symtables[i]
       /\ m - k \in Nat /\ k \in Nat /\ m \in Nat /\ k <= m /\ Pop(calls) \in Seq(CallRecords)
  <2>1. k \in Nat /\ k <= m /\ Pop(calls) \in Seq(CallRecords) BY <1>6, LowScopes
  <2>2. low = Without(symtables, k) BY <1>6 DEF low, Low
  <2>3. m \in Nat BY <1>1
  <2> HIDE DEF k
  <2> QED BY <1>1, <2>1, <2>2, <2>3, WithoutTables
<1>11. TablesOf(at) = k + 1 BY DEF TablesOf
<1> HIDE DEF k
<1>12. Len(ts2) = Len(low) + TablesOf(c.at)
  <2>1. Len(ts2) = m + 1 BY <1>9
  <2> HIDE DEF m
  <2>2. m + 1 = (m - k) + (k + 1) BY <1>10
  <2> QED BY <1>7, <1>10, <1>11, <2>1, <2>2
<1>13. \A i \in 1 .. Len(low) : ts2[i] = low[i]
  <2>1. \A i \in 1 .. m - k : i \in 1 .. m
    <3> HIDE DEF m
    <3> QED BY <1>10
  <2> QED BY <1>9, <1>10, <2>1
<1>14. Scopes(h, Append(Pop(calls), c), ts2)
  BY <1>6, <1>7, <1>9, <1>12, <1>13, MoveScopes DEF low
<1>15. Top(Append(Pop(calls), c)) = c BY <1>7, <1>10, TopOfAppended
<1>16. h.activeStat = n BY <1>2 DEF Grows, n
<1>17. TopScope(h, Append(Pop(calls), c), ts2)
  BY <1>7, <1>8, <1>9, <1>15, <1>16 DEF TopScope
<1> QED BY <1>3, <1>14, <1>17 DEF SInv, Scoped, h, ts2

LEMMA ThenScoped ==
  ASSUME IInv, SInv, Then, IInv'
  PROVE  SInv'
<1>1. MoveTo("then") /\ "thenStatement" \in Edges BY DEF Then, Edges
<1>2. /\ Reading /\ At("if_cond") /\ Grows(graph, graph', "thenStatement", "CF_BASIC", FuncNames)
      /\ graph'.stat[NewId(graph)].localSymbolTable = allocated + 1
      /\ symtables' = Append(symtables, allocated + 1)
  BY ThenGrows
<1> QED BY <1>1, <1>2, BlockScoped

LEMMA ForBodyScoped ==
  ASSUME IInv, SInv, ForBody, IInv'
  PROVE  SInv'
<1>1. MoveTo("for") /\ "bodyStatement" \in Edges BY DEF ForBody, Edges
<1>2. /\ Reading /\ At("for_header") /\ Grows(graph, graph', "bodyStatement", "CF_BASIC", FuncNames)
      /\ graph'.stat[NewId(graph)].localSymbolTable = allocated + 1
      /\ symtables' = Append(symtables, allocated + 1)
  BY ForBlockGrows
<1> QED BY <1>1, <1>2, BlockScoped

LEMMA ElseScoped ==
  ASSUME IInv, SInv, Else, IInv'
  PROVE  SInv'
<1>1. MoveTo("else") /\ "elseStatement" \in Edges BY DEF Else, Edges
<1>2. /\ Reading /\ At("else_") /\ Grows(graph, graph', "elseStatement", "CF_BASIC", FuncNames)
      /\ graph'.stat[NewId(graph)].localSymbolTable = allocated + 1
      /\ symtables' = Append(symtables, allocated + 1)
  BY ElseGrows
<1> QED BY <1>1, <1>2, BlockScoped

(* The if of an else if has the table of the block that the first if is in. *)
LEMMA ElseIfScoped ==
  ASSUME IInv, SInv, ElseIf, IInv'
  PROVE  SInv'
<1> DEFINE h == graph'
           more == allocated'
           n == NewId(graph)
           c == Call("elif", Top(calls).owner)
           d == Call("if_cond", n)
           cs1 == Append(Pop(calls), c)
<1>1. /\ Reading /\ At("else_") /\ symtables' = symtables
      /\ "else_" \in Arms \union Headers /\ "elseStatement" \in Edges
      /\ "CF_IF" \in StatementTypes
  BY DEF ElseIf, Headers, Edges, StatementTypes
<1>2. /\ Grows(graph, h, "elseStatement", "CF_IF", FuncNames)
      /\ h.stat[n].localSymbolTable = InheritedSymtable(graph)
  BY <1>1, ElseStep DEF ElseIf
<1>3. GraphInv(h, more) BY DEF IInv
<1>4. /\ GraphInv(graph, allocated) /\ graph.activeFunc # NULL /\ symtables \in Seq(Nat)
      /\ TopScope(graph, calls, symtables) /\ calls # << >> /\ Top(calls).at = "else_"
  BY <1>1, Innermost, ScopesHere
<1>5. n \in Nat BY Sizes DEF NewId
<1> HIDE DEF h, more
<1>6. KeepsScopes(graph, h) BY <1>1, <1>2, <1>3, <1>4, GrowsKeepsScopes
<1>7. Left(graph, h, calls, symtables) /\ Top(calls).owner \in Nat BY <1>1, <1>6, LeftHere
<1>8. /\ c \in CallRecords /\ c.at = "elif" /\ c.owner = Top(calls).owner
      /\ d \in CallRecords /\ d.at = "if_cond" /\ d.owner = n
  BY <1>5, <1>7 DEF Call, CallRecords, Places
<1>9. Low(calls, symtables) = symtables BY <1>1, NoTableOfItsOwn
<1>10. /\ Len(symtables) = Len(symtables) + TablesOf(c.at)
       /\ Len(symtables) = Len(symtables) + TablesOf(d.at)
  BY <1>4, <1>8 DEF TablesOf
<1>11. symtables # << >> /\ Pop(calls) \in Seq(CallRecords) BY <1>7, <1>9, LowScopes
<1>12. ScopeTable(h, n) = Top(symtables)
  <2>1. ScopeTable(graph, graph.activeStat) = Top(symtables) BY <1>4 DEF TopScope
  <2>2. ScopeTable(h, NewId(graph)) = h.stat[NewId(graph)].localSymbolTable
    <3>1. "CF_IF" # "CF_FOR" OBVIOUS
    <3> QED BY <1>1, <1>2, <1>3, <1>4, <3>1, ScopeOfNew
  <2>3. InheritedSymtable(graph) = ScopeTable(graph, graph.activeStat) BY <1>4, InheritsScope
  <2> QED BY <1>2, <2>1, <2>2, <2>3
<1>13. calls' = Append(cs1, d)
  <2>1. calls' = Pop(calls) \o <<c, d>> BY DEF ElseIf, NewId
  <2> HIDE DEF c, d
  <2> QED BY <1>8, <1>11, <2>1
<1> HIDE DEF c, d, n
<1>14. Scopes(h, cs1, symtables) BY <1>4, <1>7, <1>8, <1>9, <1>10, MoveScopes
<1>15. cs1 \in Seq(CallRecords) BY <1>8, <1>11, TopOfAppended
<1> HIDE DEF cs1
<1>16. Scopes(h, Append(cs1, d), symtables)
  BY <1>4, <1>8, <1>10, <1>11, <1>12, <1>14, <1>15, ScopesPush
<1>17. Top(Append(cs1, d)) = d BY <1>8, <1>15, TopOfAppended
<1>18. h.activeStat = n BY <1>2 DEF Grows, n
<1>19. TopScope(h, Append(cs1, d), symtables)
  BY <1>8, <1>12, <1>17, <1>18 DEF TopScope
<1> QED BY <1>1, <1>13, <1>16, <1>19 DEF SInv, Scoped, h

(* An arm is left: the graph returns to the statement it is an arm of.     *)
LEMMA ArmPops ==
  ASSUME IInv, SInv, Reading, NEW at \in Arms, At(at), IInv',
         graph' = cf_pop_previous_branched_statement(graph)
  PROVE  /\ KeepsScopes(graph, graph')
         /\ graph'.activeStat = Top(calls).owner
         /\ ScopeTable(graph', graph'.activeStat) = ScopeTable(graph, Top(calls).owner)
<1> DEFINE h == graph'
           more == allocated'
<1>1. LeavesArm(graph, allocated, h, calls) BY AtArm
<1>2. GraphInv(graph, allocated) /\ GraphInv(h, more) BY DEF IInv
<1> HIDE DEF h, more
<1>3. PopsTo(graph, h, Top(calls).owner, FuncNames) BY <1>1, LeavingReturns
<1>4. KeepsScopes(graph, h) BY <1>2, <1>3, PopKeepsScopes
<1>5. h.activeStat = Top(calls).owner BY <1>3 DEF PopsTo
<1>6. ScopeTable(h, Top(calls).owner) = ScopeTable(graph, Top(calls).owner)
  BY <1>4, LeftHere
<1> QED BY <1>4, <1>5, <1>6 DEF h

LEMMA CloseBranchScoped ==
  ASSUME IInv, SInv, CloseBranch, IInv'
  PROVE  SInv'
<1>1. /\ Reading /\ graph' = cf_pop_previous_branched_statement(graph)
      /\ symtables' = Pop(symtables)
  BY DEF CloseBranch
<1>2. symtables \in Seq(Nat) BY <1>1, ScopesHere
<1>3. CASE At("then")
  <2> DEFINE h == graph'
             c == Call("else_", Top(calls).owner)
             low == Low(calls, symtables)
  <2>1. "then" \in Arms BY DEF Arms
  <2>2. /\ KeepsScopes(graph, h) /\ h.activeStat = Top(calls).owner
        /\ ScopeTable(h, h.activeStat) = ScopeTable(graph, Top(calls).owner)
    BY <1>1, <1>3, <2>1, ArmPops
  <2>3. calls' = Append(Pop(calls), c) BY <1>3 DEF CloseBranch, MoveTo
  <2> HIDE DEF h
  <2>4. /\ Left(graph, h, calls, symtables) /\ Top(calls).at = "then"
        /\ Top(calls).owner \in Nat
    BY <1>1, <1>3, <2>1, <2>2, LeftHere
  <2>5. c \in CallRecords /\ c.at = "else_" /\ c.owner = Top(calls).owner
    BY <2>4 DEF Call, CallRecords, Places
  <2>6. symtables' = low
    <3>1. TablesOf("then") = 1 BY DEF TablesOf
    <3> QED BY <1>1, <1>2, <2>4, <3>1, NothingTaken DEF Low
  <2>7. /\ low \in Seq(Nat) /\ Pop(calls) \in Seq(CallRecords)
        /\ Top(low) = ScopeTable(graph, Top(calls).owner)
    BY <2>4, LowScopes
  <2>8. Len(low) = Len(low) + TablesOf(c.at) BY <2>5, <2>7 DEF TablesOf
  <2> HIDE DEF c
  <2>9. Scopes(h, Append(Pop(calls), c), low) BY <2>4, <2>5, <2>7, <2>8, MoveScopes
  <2>10. Top(Append(Pop(calls), c)) = c BY <2>5, <2>7, TopOfAppended
  <2>11. TopScope(h, Append(Pop(calls), c), low)
    BY <2>2, <2>5, <2>7, <2>10 DEF TopScope
  <2> QED BY <2>3, <2>6, <2>9, <2>11 DEF SInv, Scoped, h
<1>4. CASE At("else") /\ ~At("then")
  <2>1. "else" \in Arms /\ "else" \in Arms \union Headers BY DEF Arms
  <2>2. /\ KeepsScopes(graph, graph')
        /\ ScopeTable(graph', graph'.activeStat) = ScopeTable(graph, Top(calls).owner)
    BY <1>1, <1>4, <2>1, ArmPops
  <2>3. calls' = Pop(calls) BY <1>4 DEF CloseBranch, Return
  <2>4. symtables' = Low(calls, symtables)
    <3>1. TablesOf("else") = 1 BY DEF TablesOf
    <3>2. Top(calls).at = "else" BY <1>4 DEF At
    <3> QED BY <1>1, <1>2, <3>1, <3>2, NothingTaken DEF Low
  <2> QED BY <1>1, <1>4, <2>1, <2>2, <2>3, <2>4, CallReturnsScoped
<1> QED BY <1>3, <1>4 DEF CloseBranch

LEMMA ElseIfReturnScoped ==
  ASSUME IInv, SInv, ElseIfReturn, IInv'
  PROVE  SInv'
<1>1. /\ Reading /\ At("elif") /\ graph' = cf_pop_previous_branched_statement(graph)
      /\ calls' = Pop(calls) /\ symtables' = symtables
      /\ "elif" \in Arms /\ "elif" \in Arms \union Headers
  BY DEF ElseIfReturn, Return, Arms
<1>2. /\ KeepsScopes(graph, graph')
      /\ ScopeTable(graph', graph'.activeStat) = ScopeTable(graph, Top(calls).owner)
  BY <1>1, ArmPops
<1>3. symtables' = Low(calls, symtables) BY <1>1, NoTableOfItsOwn
<1> QED BY <1>1, <1>2, <1>3, CallReturnsScoped

LEMMA CloseForScoped ==
  ASSUME IInv, SInv, CloseFor, IInv'
  PROVE  SInv'
<1>1. /\ Reading /\ At("for") /\ graph' = cf_pop_previous_branched_statement(graph)
      /\ calls' = Pop(calls) /\ symtables' = Pop(Pop(symtables))
      /\ "for" \in Arms /\ "for" \in Arms \union Headers
  BY DEF CloseFor, Return, Arms
<1>2. /\ KeepsScopes(graph, graph')
      /\ ScopeTable(graph', graph'.activeStat) = ScopeTable(graph, Top(calls).owner)
  BY <1>1, ArmPops
<1>3. symtables' = Low(calls, symtables)
  <2>1. symtables \in Seq(Nat) BY <1>1, ScopesHere
  <2>2. Top(calls).at = "for" /\ TablesOf("for") = 2 BY <1>1 DEF At, TablesOf
  <2>3. TablesOf(Top(calls).at) <= Len(symtables)
    <3>1. KeepsScopes(graph, graph) BY <1>1, ScopesHere, SameKeepsScopes
    <3>2. Left(graph, graph, calls, symtables) BY <1>1, <3>1, LeftHere
    <3> QED BY <3>2, LowScopes
  <2> QED BY <1>1, <2>1, <2>2, <2>3, NothingTaken DEF Low
<1> QED BY <1>1, <1>2, <1>3, CallReturnsScoped

-----------------------------------------------------------------------------
(* The strengthening is inductive. *)

LEMMA InitScoped == Init => SInv
<1> SUFFICES ASSUME Init PROVE SInv OBVIOUS
<1>1. calls = << >> /\ symtables = << >> BY DEF Init
<1>2. Scopes(graph, << >>, << >>) BY NoScopes
<1> QED BY <1>1, <1>2 DEF SInv, Scoped, TopScope

LEMMA NextScoped == IInv /\ SInv /\ [Next]_vars => SInv'
<1> SUFFICES ASSUME IInv, SInv, [Next]_vars PROVE SInv' OBVIOUS
<1>0. IInv' BY NextOK DEF StepOK
<1>1. ASSUME NEW name \in FuncNames, FuncName(name) PROVE SInv' BY <1>1, FuncNameScoped
<1>2. CASE FuncBody BY <1>0, <1>2, FuncBodyScoped
<1>3. CASE CloseFunc BY <1>3, CloseFuncScoped
<1>4. CASE Expression BY <1>0, <1>4, ExpressionScoped
<1>5. CASE ReturnKeyword BY <1>0, <1>5, ReturnKeywordScoped
<1>6. CASE ReturnList BY <1>0, <1>6, ReturnListScoped
<1>7. CASE ReturnNothing BY <1>7, ReturnNothingScoped
<1>8. CASE If BY <1>0, <1>8, IfScoped
<1>9. CASE Then BY <1>0, <1>9, ThenScoped
<1>10. CASE CloseBranch BY <1>0, <1>10, CloseBranchScoped
<1>11. CASE NoElse BY <1>11, NoElseScoped
<1>12. CASE Else BY <1>0, <1>12, ElseScoped
<1>13. CASE ElseIf BY <1>0, <1>13, ElseIfScoped
<1>14. CASE ElseIfReturn BY <1>0, <1>14, ElseIfReturnScoped
<1>15. CASE For BY <1>0, <1>15, ForScoped
<1>16. CASE ForBody BY <1>0, <1>16, ForBodyScoped
<1>17. CASE CloseFor BY <1>0, <1>17, CloseForScoped
<1>18. CASE Fail BY <1>18 DEF Fail, SInv, semantic_enabled
<1>19. CASE RecoveredExpression BY <1>19 DEF RecoveredExpression, SInv, semantic_enabled
<1>20. CASE EndOfFile BY <1>20 DEF EndOfFile, SInv, semantic_enabled
<1>21. CASE UNCHANGED vars BY <1>21 DEF vars, SInv, semantic_enabled
<1> QED
  BY <1>1, <1>2, <1>3, <1>4, <1>5, <1>6, <1>7, <1>8, <1>9, <1>10, <1>11, <1>12, <1>13, <1>14,
     <1>15, <1>16, <1>17, <1>18, <1>19, <1>20, <1>21 DEF Next

LEMMA SInvAgrees == IInv /\ SInv => ScopeAgrees
<1> SUFFICES ASSUME IInv, SInv, Reading
             PROVE  /\ InBody => InheritedSymtable(graph) = Top(symtables)
                    /\ (At("if_cond") \/ At("for_header") \/ At("else_") \/ At("return")) =>
                         graph.stat[graph.activeStat].localSymbolTable = Top(symtables)
                    /\ calls = << >> => symtables = << >>
  BY DEF ScopeAgrees
<1>1. /\ GraphInv(graph, allocated) /\ TopScope(graph, calls, symtables)
      /\ symtables \in Seq(Nat) /\ Scopes(graph, calls, symtables)
  BY ScopesHere
<1>2. ASSUME InBody PROVE InheritedSymtable(graph) = Top(symtables)
  <2>1. /\ calls # << >> /\ Top(calls).at \notin {"func_name", "for_header"}
    BY <1>2 DEF InBody, At
  <2> QED BY <1>1, <2>1, InheritsScope DEF TopScope
<1>3. ASSUME NEW at \in {"if_cond", "else_", "return"}, At(at)
      PROVE  graph.stat[graph.activeStat].localSymbolTable = Top(symtables)
  <2> DEFINE a == graph.activeStat
  <2>1. at \in Headers BY DEF Headers
  <2>2. /\ calls # << >> /\ Top(calls).at = at /\ a \in Statements(graph) /\ a # NULL
        /\ OwnerState(at, graph.stat[a])
    BY <1>3, <2>1, AtHeader
  <2>3. graph.stat[a].statementType # "CF_FOR" BY <2>2 DEF OwnerState
  <2>4. NonForAncestor(graph)[a] = a BY <1>1, <2>2, <2>3, InvClimbs, NonForUnfolds
  <2>5. ScopeTable(graph, a) = Top(symtables) BY <1>1, <2>2 DEF TopScope
  <2> QED BY <2>2, <2>4, <2>5 DEF ScopeTable
<1>4. ASSUME At("for_header")
      PROVE  graph.stat[graph.activeStat].localSymbolTable = Top(symtables)
  BY <1>1, <1>4 DEF TopScope, At
<1>5. ASSUME calls = << >> PROVE symtables = << >> BY <1>1, <1>5, NoCallNoTable
<1> QED BY <1>2, <1>3, <1>4, <1>5

-----------------------------------------------------------------------------
(* Wherever a rule of parser.c declares or looks up a name, the top of     *)
(* symtable_stack is the table that cf_make_next_statement gives to the    *)
(* statement of that rule: pushes and pops of the tables match the moves   *)
(* of activeStat over every nesting of ifs, else ifs and loops.            *)
THEOREM ScopesAreRight == Spec => []ScopeAgrees
<1>1. Init => SInv BY InitScoped
<1>2. IInv /\ IInv' /\ SInv /\ [Next]_vars => SInv' BY NextScoped
<1>3. IInv /\ SInv => ScopeAgrees BY SInvAgrees
<1> QED BY <1>1, <1>2, <1>3, BuilderInvariant, PTL DEF Spec
===============================================================================
