-------------------------- MODULE CfgBuilder_nesting --------------------------
(***************************************************************************)
(* The graph that the parser builds implements the nesting of the source:  *)
(* every step of CfgBuilder is a step, or a stutter, of SourceNesting.     *)
(***************************************************************************)
EXTENDS CfgBuilder_proofs

-----------------------------------------------------------------------------
(* Sequences that grow at either end. *)

LEMMA ConsIsSeq ==
  ASSUME NEW S, NEW x \in S, NEW c \in Seq(S)
  PROVE  /\ <<x>> \o c \in Seq(S) /\ <<x>> \o c # << >>
         /\ Len(<<x>> \o c) = Len(c) + 1
         /\ c # << >> => Top(<<x>> \o c) = Top(c)
         /\ c = << >> => <<x>> \o c = <<x>>
<1>1. <<x>> \o c \in Seq(S) /\ Len(<<x>> \o c) = Len(c) + 1 BY Z3
<1>2. <<x>> \o c # << >> BY <1>1
<1>3. ASSUME c # << >> PROVE Top(<<x>> \o c) = Top(c)
  <2>1. Len(c) \in Nat /\ Len(c) # 0 BY <1>3
  <2>2. (<<x>> \o c)[Len(c) + 1] = c[Len(c)] BY <2>1
  <2> QED BY <1>1, <2>2 DEF Top
<1>4. c = << >> => <<x>> \o c = <<x>> OBVIOUS
<1> QED BY <1>1, <1>2, <1>3, <1>4

LEMMA SameSeq ==
  ASSUME NEW S, NEW a \in Seq(S), NEW b \in Seq(S), Len(a) = Len(b),
         \A i \in 1 .. Len(a) : a[i] = b[i]
  PROVE  a = b
<1>1. a = [i \in 1 .. Len(a) |-> a[i]] /\ b = [i \in 1 .. Len(b) |-> b[i]] OBVIOUS
<1> QED BY <1>1

LEMMA ConsAppend ==
  ASSUME NEW S, NEW x \in S, NEW c \in Seq(S), NEW y \in S
  PROVE  <<x>> \o Append(c, y) = Append(<<x>> \o c, y)
<1> DEFINE a == <<x>> \o Append(c, y)
           b == Append(<<x>> \o c, y)
<1>1. a \in Seq(S) /\ b \in Seq(S) /\ Len(a) = Len(c) + 2 /\ Len(b) = Len(c) + 2 /\ Len(c) \in Nat
  BY ConsIsSeq
<1>2. ASSUME NEW i \in 1 .. Len(c) + 2 PROVE a[i] = b[i]
  <2>1. CASE i = 1 BY <2>1
  <2>2. CASE i = Len(c) + 2 BY <2>2
  <2>3. CASE i \in 2 .. Len(c) + 1 BY <2>3
  <2> QED BY <2>1, <2>2, <2>3
<1> HIDE DEF a, b
<1>3. a = b BY <1>1, <1>2, SameSeq
<1> QED BY <1>3 DEF a, b

LEMMA LastOfAppended ==
  ASSUME NEW S, NEW s \in Seq(S), NEW x \in S
  PROVE  /\ Append(s, x) \in Seq(S) /\ Append(s, x) # << >> /\ Top(Append(s, x)) = x
         /\ Len(Append(s, x)) = Len(s) + 1 /\ Len(s) \in Nat
         /\ Append(s, x)[Len(s) + 1] = x
         /\ \A i \in 1 .. Len(s) : Append(s, x)[i] = s[i]
BY DEF Top

-----------------------------------------------------------------------------
LEMMA OneElement ==
  ASSUME NEW x, NEW y
  PROVE  /\ <<x>> # << >> /\ Top(<<x>>) = x /\ <<x>> \o << >> = <<x>>
         /\ <<x>> \o <<y>> = Append(<<x>>, y)
<1>1. Len(<<x>>) = 1 /\ <<x>>[1] = x OBVIOUS
<1>2. Top(<<x>>) = x BY <1>1 DEF Top
<1>3. <<x>> # << >> OBVIOUS
<1>4. <<x>> \o << >> = <<x>> OBVIOUS
<1>5. <<x>> \o <<y>> = Append(<<x>>, y) OBVIOUS
<1> QED BY <1>2, <1>3, <1>4, <1>5

(* A walk along numbers that only get larger, until 0, is defined.         *)
Follow(N, low, next, c) ==
  c = [s \in {0} \union low .. N |-> IF s = 0 THEN << >> ELSE <<s>> \o c[next[s]]]

LEMMA FollowExists ==
  ASSUME NEW N \in Nat, NEW next, \A s \in 1 .. N : next[s] \in 0 .. N /\ (next[s] # 0 => s < next[s])
  PROVE  \E c : Follow(N, 1, next, c)
<1> DEFINE Missing == {k \in 0 .. N : ~ \E c : Follow(N, N + 1 - k, next, c)}
<1>1. SUFFICES Missing = {}
  <2>1. N \in 0 .. N /\ N + 1 - N = 1 OBVIOUS
  <2> QED BY <1>1, <2>1
<1>2. SUFFICES ASSUME Missing # {} PROVE FALSE OBVIOUS
<1>3. PICK k \in Missing : \A m \in Missing : k <= m
  <2>1. Missing \in SUBSET Nat OBVIOUS
  <2> QED BY <1>2, <2>1, LeastNumber
<1>4. k \in 0 .. N /\ ~ \E c : Follow(N, N + 1 - k, next, c) OBVIOUS
<1>5. CASE k = 0
  <2> DEFINE zero == [s \in {0} \union N + 1 .. N |-> << >>]
  <2>1. N + 1 - k = N + 1 /\ N + 1 .. N = {} BY <1>5
  <2>2. Follow(N, N + 1, next, zero) BY <2>1 DEF Follow
  <2> QED BY <1>4, <2>1, <2>2
<1>6. CASE k # 0
  <2> DEFINE low == N + 1 - k
  <2>1. k - 1 \in 0 .. N /\ k - 1 \notin Missing /\ N + 1 - (k - 1) = low + 1 /\ low \in 1 .. N
    BY <1>3, <1>4, <1>6
  <2>2. PICK c : Follow(N, low + 1, next, c) BY <2>1
  <2> HIDE DEF low, Missing
  <2> DEFINE longer == [s \in {0} \union low .. N |->
                          IF s = low THEN <<low>> \o c[next[low]] ELSE c[s]]
  <2>3. \A s \in {0} \union low + 1 .. N : c[s] = IF s = 0 THEN << >> ELSE <<s>> \o c[next[s]]
    BY <2>2 DEF Follow
  <2>4. \A s \in {0} \union low .. N :
          longer[s] = IF s = 0 THEN << >> ELSE <<s>> \o longer[next[s]]
    <3> SUFFICES ASSUME NEW s \in {0} \union low .. N
                 PROVE  longer[s] = IF s = 0 THEN << >> ELSE <<s>> \o longer[next[s]]
      OBVIOUS
    <3>1. CASE s = 0
      <4>1. low # 0 /\ longer[0] = c[0] BY <2>1
      <4>2. c[0] = << >> BY <2>3
      <4> HIDE DEF longer
      <4> QED BY <3>1, <4>1, <4>2
    <3>2. CASE s # 0
      <4>1. s \in low .. N /\ s \in 1 .. N BY <2>1, <3>2
      <4>2. next[s] \in {0} \union low + 1 .. N /\ next[s] \in {0} \union low .. N /\ next[s] # low
        BY <2>1, <4>1
      <4>3. longer[next[s]] = c[next[s]] BY <4>2
      <4>4. s # low => s \in low + 1 .. N BY <2>1, <4>1
      <4> QED BY <2>3, <3>2, <4>1, <4>3, <4>4
    <3> QED BY <3>1, <3>2
  <2>5. longer = [s \in {0} \union low .. N |-> longer[s]] OBVIOUS
  <2> HIDE DEF longer
  <2>6. Follow(N, low, next, longer) BY <2>4, <2>5 DEF Follow
  <2> QED BY <1>4, <2>6 DEF low
<1> QED BY <1>5, <1>6

-----------------------------------------------------------------------------
(* The chains of a graph. *)

(* In a well-formed graph a statement is made after the one it follows.    *)
FollowsLater(g) ==
  /\ Len(g.stat) \in Nat
  /\ \A s \in Statements(g) :
       /\ g.stat[s].followingStatement \in {NULL} \union Statements(g)
       /\ g.stat[s].followingStatement # NULL => s < g.stat[s].followingStatement

LEMMA InvFollowsLater ==
  ASSUME NEW g, NEW tables, GraphInv(g, tables)
  PROVE  FollowsLater(g)
<1>1. Len(g.stat) \in Nat BY GraphParts DEF GraphInv
<1>2. "followingStatement" \in Edges BY DEF Edges
<1>3. ASSUME NEW s \in Statements(g)
      PROVE  g.stat[s].followingStatement \in {NULL} \union Statements(g)
  BY <1>2 DEF GraphInv, PointersOK, PointersIn
<1>4. ASSUME NEW s \in Statements(g), g.stat[s].followingStatement # NULL
      PROVE  s < g.stat[s].followingStatement
  BY <1>2, <1>4, EdgeLeadsOn
<1> QED BY <1>1, <1>3, <1>4 DEF FollowsLater

LEMMA ChainUnfolds ==
  ASSUME NEW g, FollowsLater(g)
  PROVE  /\ Chain(g)[NULL] = << >>
         /\ \A s \in Statements(g) : Chain(g)[s] = <<s>> \o Chain(g)[g.stat[s].followingStatement]
<1> DEFINE body(from) == [s \in {NULL} \union Statements(g) |->
                            IF s = NULL THEN << >>
                            ELSE <<s>> \o from[g.stat[s].followingStatement]]
           next == [s \in Statements(g) |-> g.stat[s].followingStatement]
           N == Len(g.stat)
<1>1. N \in Nat /\ \A s \in 1 .. N : next[s] \in 0 .. N /\ (next[s] # 0 => s < next[s])
  BY DEF FollowsLater, Statements, NULL
<1>2. ASSUME NEW f
      PROVE  body(f) = [s \in {0} \union 1 .. N |-> IF s = 0 THEN << >> ELSE <<s>> \o f[next[s]]]
  BY DEF NULL, Statements
<1>3. PICK from : Follow(N, 1, next, from)
  <2> HIDE DEF N, next
  <2> QED BY <1>1, FollowExists
<1>4. from = body(from) BY <1>2, <1>3 DEF Follow
<1>5. Chain(g) = CHOOSE f : f = body(f) BY DEF Chain
<1>6. Chain(g) = body(Chain(g)) BY <1>4, <1>5
<1>7. Chain(g)[NULL] = << >> BY <1>6
<1>8. ASSUME NEW s \in Statements(g)
      PROVE  Chain(g)[s] = <<s>> \o Chain(g)[g.stat[s].followingStatement]
  <2>1. s # NULL BY DEF NULL, Statements
  <2> DEFINE from2 == Chain(g)
  <2> HIDE DEF from2
  <2>2. body(from2)[s] = <<s>> \o from2[g.stat[s].followingStatement] BY <2>1
  <2> HIDE DEF body
  <2>3. from2 = body(from2) BY <1>6 DEF from2
  <2>4. from2[s] = <<s>> \o from2[g.stat[s].followingStatement] BY <2>2, <2>3
  <2> QED BY <2>4 DEF from2
<1> QED BY <1>7, <1>8

(* A chain is a list of statements that ends where nothing follows.        *)
ChainAt(g, s) ==
  /\ Chain(g)[s] \in Seq(Statements(g)) /\ Chain(g)[s] # << >>
  /\ Top(Chain(g)[s]) \in Statements(g)
  /\ g.stat[Top(Chain(g)[s])].followingStatement = NULL

LEMMA ChainIsSeq ==
  ASSUME NEW g, FollowsLater(g)
  PROVE  \A s \in Statements(g) : ChainAt(g, s)
<1> DEFINE T == {s \in Statements(g) : ChainAt(g, s)}
           N == Len(g.stat)
<1>1. ASSUME NEW s \in 1 .. N, \A t \in 1 .. N : s < t => t \in T PROVE s \in T
  <2> DEFINE t == g.stat[s].followingStatement
  <2>0. s \in Statements(g) BY DEF Statements
  <2>1. Chain(g)[s] = <<s>> \o Chain(g)[t] BY <2>0, ChainUnfolds
  <2>2. CASE t = NULL
    <3>1. Chain(g)[t] = << >> BY <2>2, ChainUnfolds
    <3>2. Chain(g)[s] = <<s>> BY <2>1, <3>1
    <3>3. <<s>> \in Seq(Statements(g)) /\ <<s>> # << >> /\ Top(<<s>>) = s BY <2>0 DEF Top
    <3> QED BY <2>0, <2>2, <3>2, <3>3 DEF ChainAt
  <2>3. CASE t # NULL
    <3>1. t \in Statements(g) /\ s < t BY <2>0, <2>3 DEF FollowsLater
    <3>2. ChainAt(g, t) BY <1>1, <3>1 DEF Statements
    <3>3. Chain(g)[t] \in Seq(Statements(g)) /\ Chain(g)[t] # << >> BY <3>2 DEF ChainAt
    <3>4. /\ Chain(g)[s] \in Seq(Statements(g)) /\ Chain(g)[s] # << >>
          /\ Top(Chain(g)[s]) = Top(Chain(g)[t])
      BY <2>0, <2>1, <3>3, ConsIsSeq
    <3> QED BY <2>0, <3>2, <3>4 DEF ChainAt
  <2> QED BY <2>2, <2>3
<1>2. N \in Nat BY DEF FollowsLater
<1>3. \A s \in 1 .. N : s \in T
  <2> HIDE DEF T, N
  <2> QED BY <1>1, <1>2, FromTheEnd
<1> QED BY <1>3 DEF Statements

(* The same links make the same chains. *)
LEMMA ChainIsKept ==
  ASSUME NEW g, FollowsLater(g), NEW h, FollowsLater(h),
         \A s \in Statements(g) : /\ s \in Statements(h)
                                  /\ h.stat[s].followingStatement = g.stat[s].followingStatement
  PROVE  \A s \in {NULL} \union Statements(g) : Chain(h)[s] = Chain(g)[s]
<1> DEFINE T == {s \in Statements(g) : Chain(h)[s] = Chain(g)[s]}
           N == Len(g.stat)
<1>0. Chain(h)[NULL] = Chain(g)[NULL] BY ChainUnfolds
<1>1. ASSUME NEW s \in 1 .. N, \A t \in 1 .. N : s < t => t \in T PROVE s \in T
  <2> DEFINE t == g.stat[s].followingStatement
  <2>0. s \in Statements(g) BY DEF Statements
  <2>1. Chain(g)[s] = <<s>> \o Chain(g)[t] BY <2>0, ChainUnfolds
  <2>2. Chain(h)[s] = <<s>> \o Chain(h)[t] BY <2>0, ChainUnfolds
  <2>3. t = NULL \/ (t \in 1 .. N /\ s < t) BY <2>0 DEF FollowsLater, Statements
  <2> QED BY <1>0, <1>1, <2>0, <2>1, <2>2, <2>3
<1>2. N \in Nat BY DEF FollowsLater
<1>3. \A s \in 1 .. N : s \in T
  <2> HIDE DEF T, N
  <2> QED BY <1>1, <1>2, FromTheEnd
<1> QED BY <1>0, <1>3 DEF Statements

(* A statement that is linked behind the last one is added to its chain.   *)
LinksBehind(g, h, a, n) ==
  /\ FollowsLater(g) /\ FollowsLater(h)
  /\ n \in Statements(h) /\ n \notin Statements(g) /\ n # NULL
  /\ h.stat[n].followingStatement = NULL
  /\ \A s \in Statements(g) :
       /\ s \in Statements(h)
       /\ h.stat[s].followingStatement = IF s = a THEN n ELSE g.stat[s].followingStatement
  /\ a \in Statements(g) => g.stat[a].followingStatement = NULL

LEMMA ChainGrows ==
  ASSUME NEW g, NEW h, NEW a, NEW n, LinksBehind(g, h, a, n)
  PROVE  /\ Chain(h)[n] = <<n>>
         /\ \A s \in Statements(g) :
              Chain(h)[s] = IF Top(Chain(g)[s]) = a THEN Append(Chain(g)[s], n) ELSE Chain(g)[s]
<1> DEFINE Grown(s) == IF Top(Chain(g)[s]) = a THEN Append(Chain(g)[s], n) ELSE Chain(g)[s]
           T == {s \in Statements(g) : Chain(h)[s] = Grown(s)}
           N == Len(g.stat)
<1>a. FollowsLater(g) /\ FollowsLater(h) BY DEF LinksBehind
<1>b. Chain(g)[NULL] = << >> /\ Chain(h)[NULL] = << >> BY <1>a, ChainUnfolds
<1>0. Chain(h)[n] = <<n>>
  <2>1. Chain(h)[n] = <<n>> \o Chain(h)[h.stat[n].followingStatement]
    BY <1>a, ChainUnfolds DEF LinksBehind
  <2>2. Chain(h)[n] = <<n>> \o << >> BY <1>b, <2>1 DEF LinksBehind
  <2> QED BY <2>2
<1>1. ASSUME NEW s \in 1 .. N, \A t \in 1 .. N : s < t => t \in T PROVE s \in T
  <2> DEFINE t == g.stat[s].followingStatement
  <2>0. s \in Statements(g) /\ s \in Statements(h) BY DEF Statements, LinksBehind
  <2>1. Chain(g)[s] = <<s>> \o Chain(g)[t] BY <1>a, <2>0, ChainUnfolds
  <2>2. Chain(h)[s] = <<s>> \o Chain(h)[h.stat[s].followingStatement] BY <1>a, <2>0, ChainUnfolds
  <2>3. t = NULL \/ (t \in Statements(g) /\ t \in 1 .. N /\ s < t)
    BY <1>a, <2>0 DEF FollowsLater, Statements
  <2>4. Top(<<s>>) = s /\ <<s>> \o <<n>> = Append(<<s>>, n) /\ <<s>> \o << >> = <<s>>
    BY OneElement
  <2>5. CASE s = a
    <3>1. t = NULL /\ h.stat[s].followingStatement = n BY <2>0, <2>5 DEF LinksBehind
    <3>2. Chain(g)[s] = <<s>> BY <1>b, <2>1, <2>4, <3>1
    <3>3. Chain(h)[s] = Append(<<s>>, n) BY <1>0, <2>2, <2>4, <3>1
    <3> QED BY <2>0, <2>4, <2>5, <3>2, <3>3
  <2>6. CASE s # a /\ t = NULL
    <3>1. h.stat[s].followingStatement = NULL BY <2>0, <2>6 DEF LinksBehind
    <3>2. Chain(g)[s] = <<s>> /\ Chain(h)[s] = <<s>> BY <1>b, <2>1, <2>2, <2>4, <2>6, <3>1
    <3> QED BY <2>0, <2>4, <2>6, <3>2
  <2>7. CASE s # a /\ t # NULL
    <3>1. h.stat[s].followingStatement = t BY <2>0, <2>7 DEF LinksBehind
    <3>2. Chain(h)[t] = Grown(t) BY <1>1, <2>3, <2>7
    <3>3. Chain(g)[t] \in Seq(Statements(g)) /\ Chain(g)[t] # << >>
      BY <1>a, <2>3, <2>7, ChainIsSeq DEF ChainAt
    <3>4. Top(Chain(g)[s]) = Top(Chain(g)[t]) BY <2>0, <2>1, <3>3, ConsIsSeq
    <3>5. Chain(g)[t] \in Seq(Statements(h)) /\ n \in Statements(h)
      BY <3>3 DEF LinksBehind
    <3>6. <<s>> \o Append(Chain(g)[t], n) = Append(<<s>> \o Chain(g)[t], n)
      <4> DEFINE c == Chain(g)[t]
                 S == Statements(h)
      <4>1. s \in S /\ c \in Seq(S) /\ n \in S BY <2>0, <3>5
      <4> HIDE DEF c, S
      <4>2. <<s>> \o Append(c, n) = Append(<<s>> \o c, n) BY <4>1, ConsAppend
      <4> QED BY <4>2 DEF c
    <3>7. Chain(h)[s] = <<s>> \o Grown(t) BY <2>2, <3>1, <3>2
    <3>8. Chain(h)[s] = Grown(s) BY <2>1, <3>4, <3>6, <3>7
    <3> QED BY <2>0, <3>8
  <2> QED BY <2>5, <2>6, <2>7
<1>2. N \in Nat BY <1>a DEF FollowsLater
<1>3. \A s \in 1 .. N : s \in T
  <2> HIDE DEF T, N
  <2> QED BY <1>1, <1>2, FromTheEnd
<1> QED BY <1>0, <1>3 DEF Statements

-----------------------------------------------------------------------------
(* The blocks of a graph, and the block that each statement is in.         *)

Blocks(g) == FunctionBlocks(g) \union ArmBlocks(g)

HasArm(g, s, arm) == arm \in DOMAIN ArmField /\ g.stat[s][ArmField[arm]] # NULL

(* The first statement of a block is in it, what follows a statement is in *)
(* its block, and a block ends at one statement.                           *)
BlocksOK(g, blk) ==
  /\ \A s \in Statements(g) :
       /\ blk[s] \in Blocks(g)
       /\ blk[s][2] = "func" => g.funcs[blk[s][1]].rootStatement # NULL
  /\ \A f \in 1 .. Len(g.funcs) :
       g.funcs[f].rootStatement # NULL => blk[g.funcs[f].rootStatement] = <<f, "func">>
  /\ \A s \in Statements(g) : \A arm \in DOMAIN ArmField :
       HasArm(g, s, arm) =>
         /\ blk[g.stat[s][ArmField[arm]]] = <<s, arm>>
         /\ g.stat[g.stat[s][ArmField[arm]]].statementType \in {"CF_BASIC", "CF_IF"}
  /\ \A s \in Statements(g) :
       g.stat[s].followingStatement # NULL => blk[g.stat[s].followingStatement] = blk[s]
  /\ \A s, t \in Statements(g) :
       (/\ blk[s] = blk[t]
        /\ g.stat[s].followingStatement = NULL
        /\ g.stat[t].followingStatement = NULL) => s = t

LEMMA ArmEdges ==
  /\ DOMAIN ArmField = {"then", "else", "body"}
  /\ \A arm \in DOMAIN ArmField :
       /\ arm # "func" /\ ArmField[arm] \in Edges /\ ArmField[arm] # "followingStatement"
       /\ \A other \in DOMAIN ArmField : ArmField[other] = ArmField[arm] => other = arm
<1>1. DOMAIN ArmField = {"then", "else", "body"} BY DEF ArmField
<1>2. /\ ArmField["then"] = "thenStatement" /\ ArmField["else"] = "elseStatement"
      /\ ArmField["body"] = "bodyStatement"
  BY DEF ArmField
<1> QED BY <1>1, <1>2 DEF Edges

LEMMA BlocksAre ==
  ASSUME NEW g
  PROVE  /\ \A b \in Blocks(g) :
              \/ \E f \in 1 .. Len(g.funcs) : b = <<f, "func">> /\ g.funcs[f].symbolTable # NULL
              \/ \E s \in Statements(g), arm \in DOMAIN ArmField :
                   b = <<s, arm>> /\ HasArm(g, s, arm)
         /\ \A f \in 1 .. Len(g.funcs) :
              g.funcs[f].symbolTable # NULL => <<f, "func">> \in Blocks(g)
         /\ \A s \in Statements(g), arm \in DOMAIN ArmField :
              HasArm(g, s, arm) => <<s, arm>> \in Blocks(g)
         /\ \A f : <<f, "func">> \in Blocks(g) =>
              f \in 1 .. Len(g.funcs) /\ g.funcs[f].symbolTable # NULL
         /\ \A s : \A arm \in DOMAIN ArmField : <<s, arm>> \in Blocks(g) =>
              s \in Statements(g) /\ HasArm(g, s, arm)
<1>1. ASSUME NEW b \in Blocks(g)
      PROVE  \/ \E f \in 1 .. Len(g.funcs) : b = <<f, "func">> /\ g.funcs[f].symbolTable # NULL
             \/ \E s \in Statements(g), arm \in DOMAIN ArmField :
                  b = <<s, arm>> /\ HasArm(g, s, arm)
  <2>1. CASE b \in FunctionBlocks(g) BY <2>1 DEF FunctionBlocks
  <2>2. CASE b \in ArmBlocks(g) BY <2>2 DEF ArmBlocks, HasArm
  <2> QED BY <2>1, <2>2 DEF Blocks
<1>2. ASSUME NEW f \in 1 .. Len(g.funcs), g.funcs[f].symbolTable # NULL
      PROVE  <<f, "func">> \in Blocks(g)
  BY <1>2 DEF Blocks, FunctionBlocks
<1>3. ASSUME NEW s \in Statements(g), NEW arm \in DOMAIN ArmField, HasArm(g, s, arm)
      PROVE  <<s, arm>> \in Blocks(g)
  <2>1. <<s, arm>> \in Statements(g) \X DOMAIN ArmField OBVIOUS
  <2>2. <<s, arm>>[1] = s /\ <<s, arm>>[2] = arm OBVIOUS
  <2> QED BY <1>3, <2>1, <2>2 DEF Blocks, ArmBlocks, HasArm
<1>4. ASSUME NEW f, <<f, "func">> \in Blocks(g)
      PROVE  f \in 1 .. Len(g.funcs) /\ g.funcs[f].symbolTable # NULL
  BY <1>1, <1>4, ArmEdges
<1>5. ASSUME NEW s, NEW arm \in DOMAIN ArmField, <<s, arm>> \in Blocks(g)
      PROVE  s \in Statements(g) /\ HasArm(g, s, arm)
  BY <1>1, <1>5, ArmEdges
<1> QED BY <1>1, <1>2, <1>3, <1>4, <1>5

(* What the two kinds of block start with. *)
LEMMA FirstIs ==
  ASSUME NEW g
  PROVE  /\ \A f : FirstOf(g, <<f, "func">>) = g.funcs[f].rootStatement
         /\ \A s : \A arm \in DOMAIN ArmField :
              FirstOf(g, <<s, arm>>) = FirstOfArm(g, g.stat[s][ArmField[arm]])
BY ArmEdges DEF FirstOf

LEMMA FirstIsIn ==
  ASSUME NEW g, NEW tables, GraphInv(g, tables), NEW blk, BlocksOK(g, blk), NEW b \in Blocks(g)
  PROVE  /\ FirstOf(g, b) \in {NULL} \union Statements(g)
         /\ FirstOf(g, b) # NULL => blk[FirstOf(g, b)] = b
<1>1. CASE \E f \in 1 .. Len(g.funcs) : b = <<f, "func">> /\ g.funcs[f].symbolTable # NULL
  <2>1. PICK f \in 1 .. Len(g.funcs) : b = <<f, "func">> BY <1>1
  <2>2. FirstOf(g, b) = g.funcs[f].rootStatement BY <2>1, FirstIs
  <2>3. g.funcs[f].rootStatement \in {NULL} \union Statements(g)
    BY DEF GraphInv, PointersOK, PointersIn
  <2> QED BY <2>1, <2>2, <2>3 DEF BlocksOK
<1>2. CASE \E s \in Statements(g), arm \in DOMAIN ArmField : b = <<s, arm>> /\ HasArm(g, s, arm)
  <2>1. PICK s \in Statements(g), arm \in DOMAIN ArmField : b = <<s, arm>> /\ HasArm(g, s, arm)
    BY <1>2
  <2> DEFINE t == g.stat[s][ArmField[arm]]
  <2>2. t # NULL /\ t \in Statements(g) /\ blk[t] = b
    <3>1. ArmField[arm] \in Edges BY ArmEdges
    <3>2. t \in {NULL} \union Statements(g) BY <3>1 DEF GraphInv, PointersOK, PointersIn
    <3>3. t # NULL BY <2>1 DEF HasArm
    <3> QED BY <2>1, <3>2, <3>3 DEF BlocksOK
  <2>3. FirstOf(g, b) = FirstOfArm(g, t) BY <2>1, FirstIs
  <2> HIDE DEF t
  <2>4. g.stat[t].followingStatement \in {NULL} \union Statements(g)
    BY <2>2, InvFollowsLater DEF FollowsLater
  <2> QED BY <2>2, <2>3, <2>4 DEF BlocksOK, FirstOfArm
<1> QED BY <1>1, <1>2, BlocksAre

(* A chain stays in its block. *)
LEMMA ChainInBlock ==
  ASSUME NEW g, NEW tables, GraphInv(g, tables), NEW blk, BlocksOK(g, blk)
  PROVE  \A s \in Statements(g) : blk[Top(Chain(g)[s])] = blk[s]
<1> DEFINE T == {s \in Statements(g) : blk[Top(Chain(g)[s])] = blk[s]}
           N == Len(g.stat)
<1>0. FollowsLater(g) BY InvFollowsLater
<1>1. ASSUME NEW s \in 1 .. N, \A t \in 1 .. N : s < t => t \in T PROVE s \in T
  <2> DEFINE t == g.stat[s].followingStatement
  <2>0. s \in Statements(g) BY DEF Statements
  <2>1. Chain(g)[s] = <<s>> \o Chain(g)[t] BY <1>0, <2>0, ChainUnfolds
  <2>2. CASE t = NULL
    <3>1. Chain(g)[t] = << >> BY <1>0, <2>2, ChainUnfolds
    <3>2. Top(Chain(g)[s]) = s BY <2>1, <3>1, OneElement
    <3> QED BY <2>0, <3>2
  <2>3. CASE t # NULL
    <3>1. t \in Statements(g) /\ s < t BY <1>0, <2>0, <2>3 DEF FollowsLater
    <3>2. blk[Top(Chain(g)[t])] = blk[t] BY <1>1, <3>1 DEF Statements
    <3>3. Chain(g)[t] \in Seq(Statements(g)) /\ Chain(g)[t] # << >>
      BY <1>0, <3>1, ChainIsSeq DEF ChainAt
    <3>4. Top(Chain(g)[s]) = Top(Chain(g)[t]) BY <2>0, <2>1, <3>3, ConsIsSeq
    <3>5. blk[t] = blk[s] BY <2>0, <2>3 DEF BlocksOK
    <3> QED BY <2>0, <3>2, <3>4, <3>5
  <2> QED BY <2>2, <2>3
<1>2. N \in Nat BY <1>0 DEF FollowsLater
<1>3. \A s \in 1 .. N : s \in T
  <2> HIDE DEF T, N
  <2> QED BY <1>1, <1>2, FromTheEnd
<1> QED BY <1>3 DEF Statements

(* The block b is the one that the active statement is in. *)
ActiveIn(g, b, blk) ==
  /\ b \in Blocks(g)
  /\ g.activeStat # NULL => blk[g.activeStat] = b
  /\ g.activeStat = NULL => b = <<g.activeFunc, "func">>

(* Its last statement is the active one; a block may have none yet but the *)
(* empty statement of an arm.                                              *)
LEMMA EndsInActive ==
  ASSUME NEW g, NEW tables, GraphInv(g, tables), NEW blk, BlocksOK(g, blk),
         NEW b, ActiveIn(g, b, blk), g.activeFunc # NULL
  PROVE  /\ FirstOf(g, b) # NULL => /\ g.activeStat # NULL
                                    /\ Top(Chain(g)[FirstOf(g, b)]) = g.activeStat
         /\ g.activeStat # NULL /\ FirstOf(g, b) = NULL =>
              \E s \in Statements(g) : \E arm \in DOMAIN ArmField :
                 /\ b = <<s, arm>> /\ g.stat[s][ArmField[arm]] = g.activeStat
                 /\ g.stat[g.activeStat].statementType = "CF_BASIC"
<1> DEFINE a == g.activeStat
           f == FirstOf(g, b)
<1>1. b \in Blocks(g) /\ f \in {NULL} \union Statements(g) /\ (f # NULL => blk[f] = b)
  BY FirstIsIn DEF ActiveIn
<1>2. a # NULL => a \in Statements(g) /\ g.stat[a].followingStatement = NULL
  BY DEF GraphInv, GraphOK, ActiveIsLast
<1>3. ASSUME f # NULL PROVE a # NULL
  <2>1. CASE a = NULL
    <3>1. f = g.funcs[g.activeFunc].rootStatement BY <2>1, FirstIs DEF ActiveIn
    <3>2. g.funcs[g.activeFunc].rootStatement = NULL BY <2>1 DEF GraphInv, RootIsMade
    <3> QED BY <1>3, <3>1, <3>2
  <2> QED BY <2>1
<1>4. ASSUME f # NULL PROVE Top(Chain(g)[f]) = a
  <2> DEFINE e == Top(Chain(g)[f])
  <2>1. f \in Statements(g) /\ blk[f] = b BY <1>1, <1>4
  <2>2. ChainAt(g, f) BY <2>1, InvFollowsLater, ChainIsSeq
  <2>3. e \in Statements(g) /\ g.stat[e].followingStatement = NULL BY <2>2 DEF ChainAt
  <2>4. blk[e] = b BY <2>1, ChainInBlock
  <2>5. a \in Statements(g) /\ g.stat[a].followingStatement = NULL /\ blk[a] = b
    BY <1>2, <1>3, <1>4 DEF ActiveIn
  <2> HIDE DEF e, a
  <2>6. e = a BY <2>3, <2>4, <2>5 DEF BlocksOK
  <2> QED BY <2>6 DEF e
<1>5. ASSUME a # NULL, f = NULL
      PROVE  \E s \in Statements(g) : \E arm \in DOMAIN ArmField :
                 /\ b = <<s, arm>> /\ g.stat[s][ArmField[arm]] = a
                 /\ g.stat[a].statementType = "CF_BASIC"
  <2>1. a \in Statements(g) /\ blk[a] = b /\ g.stat[a].followingStatement = NULL
    BY <1>2, <1>5 DEF ActiveIn
  <2>2. b[2] # "func"
    <3>1. CASE b[2] = "func"
      <4>1. g.funcs[b[1]].rootStatement # NULL BY <2>1, <3>1 DEF BlocksOK
      <4>2. f = g.funcs[b[1]].rootStatement BY <3>1 DEF FirstOf
      <4> QED BY <1>5, <4>1, <4>2
    <3> QED BY <3>1
  <2>3. PICK s \in Statements(g), arm \in DOMAIN ArmField : b = <<s, arm>> /\ HasArm(g, s, arm)
    BY <1>1, <2>2, BlocksAre
  <2> DEFINE t == g.stat[s][ArmField[arm]]
  <2>4. /\ t \in Statements(g) /\ blk[t] = b
        /\ g.stat[t].statementType \in {"CF_BASIC", "CF_IF"}
    <3>1. ArmField[arm] \in Edges BY ArmEdges
    <3>2. t \in {NULL} \union Statements(g) BY <3>1 DEF GraphInv, PointersOK, PointersIn
    <3>3. t # NULL BY <2>3 DEF HasArm
    <3> QED BY <2>3, <3>2, <3>3 DEF BlocksOK
  <2>5. f = FirstOfArm(g, t) BY <2>3, FirstIs
  <2> HIDE DEF t, f, a
  <2>6. t # NULL BY <2>4 DEF Statements, NULL
  <2>7. g.stat[t].statementType = "CF_BASIC" /\ g.stat[t].followingStatement = NULL
    BY <1>5, <2>4, <2>5, <2>6 DEF FirstOfArm
  <2>8. t = a BY <2>1, <2>4, <2>7 DEF BlocksOK
  <2> QED BY <2>3, <2>7, <2>8 DEF t
<1> QED BY <1>3, <1>4, <1>5

-----------------------------------------------------------------------------
(* Steps that leave the blocks as they are. *)

(* The graph h has the links, types and functions of the graph g.          *)
SameLinks(g, h) ==
  /\ Statements(h) = Statements(g)
  /\ h.funcs = g.funcs
  /\ \A s \in Statements(g) :
       /\ h.stat[s].statementType = g.stat[s].statementType
       /\ \A field \in Edges : h.stat[s][field] = g.stat[s][field]

LEMMA ArmIsKept ==
  ASSUME NEW g, NEW h, NEW s, NEW arm \in DOMAIN ArmField,
         h.stat[s][ArmField[arm]] = g.stat[s][ArmField[arm]]
  PROVE  HasArm(h, s, arm) <=> HasArm(g, s, arm)
BY DEF HasArm

LEMMA SameLinksKeepBlocks ==
  ASSUME NEW g, NEW tables, GraphInv(g, tables), NEW h, SameLinks(g, h)
  PROVE  /\ Blocks(h) = Blocks(g)
         /\ \A b \in Blocks(g) : FirstOf(h, b) = FirstOf(g, b)
<1>0. \A arm \in DOMAIN ArmField : ArmField[arm] \in Edges BY ArmEdges
<1>1. ASSUME NEW s \in Statements(g), NEW arm \in DOMAIN ArmField
      PROVE  h.stat[s][ArmField[arm]] = g.stat[s][ArmField[arm]]
  BY <1>0 DEF SameLinks
<1>2. FunctionBlocks(h) = FunctionBlocks(g) BY DEF FunctionBlocks, SameLinks
<1>3. ArmBlocks(h) = ArmBlocks(g)
  <2>1. Statements(h) = Statements(g) BY DEF SameLinks
  <2>2. ASSUME NEW x \in Statements(g) \X DOMAIN ArmField
        PROVE  h.stat[x[1]][ArmField[x[2]]] = g.stat[x[1]][ArmField[x[2]]]
    BY <1>1
  <2> QED BY <2>1, <2>2 DEF ArmBlocks
<1>4. ASSUME NEW b \in Blocks(g) PROVE FirstOf(h, b) = FirstOf(g, b)
  <2>1. CASE \E f \in 1 .. Len(g.funcs) : b = <<f, "func">> /\ g.funcs[f].symbolTable # NULL
    BY <2>1, FirstIs DEF SameLinks
  <2>2. CASE \E s \in Statements(g), arm \in DOMAIN ArmField : b = <<s, arm>> /\ HasArm(g, s, arm)
    <3>1. PICK s \in Statements(g), arm \in DOMAIN ArmField : b = <<s, arm>> /\ HasArm(g, s, arm)
      BY <2>2
    <3> DEFINE t == g.stat[s][ArmField[arm]]
    <3>2. t \in Statements(g)
      <4>1. t \in {NULL} \union Statements(g) BY <1>0 DEF GraphInv, PointersOK, PointersIn
      <4> QED BY <3>1, <4>1 DEF HasArm
    <3>3. FirstOf(h, b) = FirstOfArm(h, t) /\ FirstOf(g, b) = FirstOfArm(g, t)
      BY <1>1, <3>1, FirstIs
    <3>4. /\ h.stat[t].statementType = g.stat[t].statementType
          /\ h.stat[t].followingStatement = g.stat[t].followingStatement
      BY <3>2 DEF SameLinks, Edges
    <3> QED BY <3>3, <3>4 DEF FirstOfArm
  <2> QED BY <2>1, <2>2, BlocksAre
<1> QED BY <1>2, <1>3, <1>4 DEF Blocks

(* The content is read off the blocks and the chains alone.                *)
LEMMA ContentIs ==
  ASSUME NEW g
  PROVE  /\ DOMAIN ContentOf(g) = Blocks(g)
         /\ \A b \in Blocks(g) : ContentOf(g)[b] = Chain(g)[FirstOf(g, b)]
BY DEF ContentOf, Blocks

LEMMA ContentsAgree ==
  ASSUME NEW g, NEW f, f = [b \in DOMAIN f |-> f[b]], DOMAIN f = Blocks(g),
         \A b \in Blocks(g) : f[b] = Chain(g)[FirstOf(g, b)]
  PROVE  ContentOf(g) = f
BY DEF ContentOf, Blocks

LEMMA SameLinksKeepContent ==
  ASSUME NEW g, NEW tables, GraphInv(g, tables), NEW h, NEW more, GraphInv(h, more),
         SameLinks(g, h)
  PROVE  ContentOf(h) = ContentOf(g)
<1>1. FollowsLater(g) /\ FollowsLater(h) BY InvFollowsLater
<1>2. \A s \in Statements(g) : /\ s \in Statements(h)
                               /\ h.stat[s].followingStatement = g.stat[s].followingStatement
  BY DEF SameLinks, Edges
<1>3. \A s \in {NULL} \union Statements(g) : Chain(h)[s] = Chain(g)[s]
  BY <1>1, <1>2, ChainIsKept
<1>4. Blocks(h) = Blocks(g) /\ \A b \in Blocks(g) : FirstOf(h, b) = FirstOf(g, b)
  BY SameLinksKeepBlocks
<1>5. ASSUME NEW b \in Blocks(g) PROVE FirstOf(g, b) \in {NULL} \union Statements(g)
  <2>1. CASE \E f \in 1 .. Len(g.funcs) : b = <<f, "func">> /\ g.funcs[f].symbolTable # NULL
    BY <2>1, FirstIs DEF GraphInv, PointersOK, PointersIn
  <2>2. CASE \E s \in Statements(g), arm \in DOMAIN ArmField : b = <<s, arm>> /\ HasArm(g, s, arm)
    <3>1. PICK s \in Statements(g), arm \in DOMAIN ArmField : b = <<s, arm>> /\ HasArm(g, s, arm)
      BY <2>2
    <3> DEFINE t == g.stat[s][ArmField[arm]]
    <3>2. t \in Statements(g)
      <4>1. ArmField[arm] \in Edges BY ArmEdges
      <4>2. t \in {NULL} \union Statements(g) BY <4>1 DEF GraphInv, PointersOK, PointersIn
      <4> QED BY <3>1, <4>2 DEF HasArm
    <3>3. FirstOf(g, b) = FirstOfArm(g, t) BY <3>1, FirstIs
    <3>4. g.stat[t].followingStatement \in {NULL} \union Statements(g)
      BY <1>1, <3>2 DEF FollowsLater
    <3> QED BY <3>2, <3>3, <3>4 DEF FirstOfArm
  <2> QED BY <2>1, <2>2, BlocksAre
<1>6. \A b \in Blocks(h) : ContentOf(g)[b] = Chain(h)[FirstOf(h, b)]
  BY <1>3, <1>4, <1>5, ContentIs
<1>7. ContentOf(g) = [b \in DOMAIN ContentOf(g) |-> ContentOf(g)[b]] BY DEF ContentOf
<1>8. DOMAIN ContentOf(g) = Blocks(h) BY <1>4, ContentIs
<1> QED BY <1>6, <1>7, <1>8, ContentsAgree

LEMMA SameLinksKeepBlocksOK ==
  ASSUME NEW g, NEW tables, GraphInv(g, tables), NEW h, SameLinks(g, h),
         NEW blk, BlocksOK(g, blk)
  PROVE  BlocksOK(h, blk)
<1>1. Blocks(h) = Blocks(g) /\ Statements(h) = Statements(g) /\ h.funcs = g.funcs
  BY SameLinksKeepBlocks DEF SameLinks
<1>2. ASSUME NEW s \in Statements(h), NEW arm \in DOMAIN ArmField, HasArm(h, s, arm)
      PROVE  /\ blk[h.stat[s][ArmField[arm]]] = <<s, arm>>
             /\ h.stat[h.stat[s][ArmField[arm]]].statementType \in {"CF_BASIC", "CF_IF"}
  <2> DEFINE t == g.stat[s][ArmField[arm]]
  <2>1. h.stat[s][ArmField[arm]] = t BY <1>1, ArmEdges DEF SameLinks
  <2>2. HasArm(g, s, arm) BY <1>2, <2>1 DEF HasArm
  <2>3. blk[t] = <<s, arm>> /\ g.stat[t].statementType \in {"CF_BASIC", "CF_IF"}
    BY <1>1, <2>2 DEF BlocksOK
  <2>4. t \in Statements(g)
    <3>1. ArmField[arm] \in Edges BY ArmEdges
    <3>2. t \in {NULL} \union Statements(g) BY <1>1, <3>1 DEF GraphInv, PointersOK, PointersIn
    <3> QED BY <2>2, <3>2 DEF HasArm
  <2> HIDE DEF t
  <2> QED BY <2>1, <2>3, <2>4 DEF SameLinks
<1>3. \A s \in Statements(h) : h.stat[s].followingStatement = g.stat[s].followingStatement
  BY <1>1 DEF SameLinks, Edges
<1> QED BY <1>1, <1>2, <1>3 DEF BlocksOK

-----------------------------------------------------------------------------
(* A statement is added behind the active one. *)

Extended(g, h, blk, b) == [s \in Statements(h) |-> IF s = NewId(g) THEN b ELSE blk[s]]

(* What follows says of g and h, field by field.                           *)
Behind(g, h, type) ==
  /\ FollowsLater(g) /\ FollowsLater(h)
  /\ Statements(h) = Statements(g) \union {NewId(g)} /\ NewId(g) \notin Statements(g)
  /\ NewId(g) # NULL
  /\ h.stat[NewId(g)].statementType = type
  /\ \A field \in Edges : h.stat[NewId(g)][field] = NULL
  /\ g.activeStat \in {NULL} \union Statements(g)
  /\ g.activeStat # NULL => g.stat[g.activeStat].followingStatement = NULL
  /\ \A s \in Statements(g) :
       /\ h.stat[s].statementType = g.stat[s].statementType
       /\ h.stat[s].followingStatement =
            IF s = g.activeStat THEN NewId(g) ELSE g.stat[s].followingStatement
       /\ \A arm \in DOMAIN ArmField : h.stat[s][ArmField[arm]] = g.stat[s][ArmField[arm]]
  /\ FunctionsKept(g, h)

LEMMA FollowIsBehind ==
  ASSUME NEW g, NEW tables, GraphInv(g, tables), NEW h, NEW more, GraphInv(h, more),
         NEW type, Grows(g, h, "followingStatement", type, FuncNames)
  PROVE  Behind(g, h, type)
<1>1. "followingStatement" \in Edges BY DEF Edges
<1>2. NewAdded(g, h, type) BY <1>1, GrowsNew
<1>3. \A s \in Statements(g) : OldKept(g, h, "followingStatement", s) BY <1>1, GrowsOld
<1>4. FollowsLater(g) /\ FollowsLater(h) BY InvFollowsLater
<1>5. /\ g.activeStat \in {NULL} \union Statements(g)
      /\ g.activeStat # NULL => g.stat[g.activeStat].followingStatement = NULL
  BY DEF GraphInv, GraphOK, ActiveIsLast
<1>6. \A s \in Statements(g) :
       /\ h.stat[s].statementType = g.stat[s].statementType
       /\ h.stat[s].followingStatement =
            IF s = g.activeStat THEN NewId(g) ELSE g.stat[s].followingStatement
  BY <1>1, <1>3 DEF OldKept
<1>7. \A s \in Statements(g) : \A arm \in DOMAIN ArmField :
        h.stat[s][ArmField[arm]] = g.stat[s][ArmField[arm]]
  BY <1>3, ArmEdges DEF OldKept
<1>8. FunctionsKept(g, h) BY DEF Grows
<1> QED BY <1>2, <1>4, <1>5, <1>6, <1>7, <1>8 DEF Behind, NewAdded, IsNew

LEMMA BehindBlocks ==
  ASSUME NEW g, NEW tables, GraphInv(g, tables), NEW h, NEW type, Behind(g, h, type)
  PROVE  Blocks(h) = Blocks(g)
<1>1. FunctionBlocks(h) = FunctionBlocks(g) BY DEF Behind, FunctionBlocks, FunctionsKept
<1>2. \A arm \in DOMAIN ArmField : ~ HasArm(h, NewId(g), arm)
  BY ArmEdges DEF Behind, HasArm
<1>3. ArmBlocks(h) = ArmBlocks(g)
  <2>1. \A s \in Statements(g) : \A arm \in DOMAIN ArmField : HasArm(h, s, arm) <=> HasArm(g, s, arm)
    BY ArmIsKept DEF Behind
  <2>2. ArmBlocks(h) = {x \in Statements(h) \X DOMAIN ArmField : HasArm(h, x[1], x[2])}
    BY DEF ArmBlocks, HasArm
  <2>3. ArmBlocks(g) = {x \in Statements(g) \X DOMAIN ArmField : HasArm(g, x[1], x[2])}
    BY DEF ArmBlocks, HasArm
  <2>4. Statements(h) = Statements(g) \union {NewId(g)} BY DEF Behind
  <2> QED BY <1>2, <2>1, <2>2, <2>3, <2>4
<1> QED BY <1>1, <1>3 DEF Blocks

(* Only the block of the active statement may start otherwise.             *)
LEMMA BehindFirst ==
  ASSUME NEW g, NEW tables, GraphInv(g, tables), NEW h, NEW type, Behind(g, h, type),
         NEW blk, BlocksOK(g, blk), NEW b, ActiveIn(g, b, blk), g.activeFunc # NULL
  PROVE  /\ \A c \in Blocks(g) : c # b => FirstOf(h, c) = FirstOf(g, c)
         /\ FirstOf(h, b) = IF FirstOf(g, b) = NULL THEN NewId(g) ELSE FirstOf(g, b)
<1> DEFINE a == g.activeStat
           n == NewId(g)
<1>1. ASSUME NEW c \in Blocks(g), NEW f \in 1 .. Len(g.funcs), c = <<f, "func">>
      PROVE  /\ c # b => FirstOf(h, c) = FirstOf(g, c)
             /\ c = b => FirstOf(h, b) = IF FirstOf(g, b) = NULL THEN n ELSE FirstOf(g, b)
  <2>1. FirstOf(h, c) = h.funcs[f].rootStatement /\ FirstOf(g, c) = g.funcs[f].rootStatement
    BY <1>1, FirstIs
  <2>2. h.funcs[f].rootStatement = IF f = g.activeFunc /\ g.funcs[f].rootStatement = NULL
                                   THEN n ELSE g.funcs[f].rootStatement
    BY DEF Behind, FunctionsKept
  <2>3. f = g.activeFunc /\ g.funcs[f].rootStatement = NULL => c = b
    BY <1>1 DEF GraphInv, RootIsMade, ActiveIn
  <2>4. c = b /\ g.funcs[f].rootStatement = NULL => f = g.activeFunc
    <3>1. SUFFICES ASSUME c = b, g.funcs[f].rootStatement = NULL PROVE f = g.activeFunc OBVIOUS
    <3>2. CASE a = NULL BY <1>1, <3>1, <3>2 DEF ActiveIn
    <3>3. CASE a # NULL
      <4>1. a \in Statements(g) /\ blk[a] = c BY <3>1, <3>3 DEF GraphInv, GraphOK, ActiveIn
      <4> HIDE DEF a
      <4>2. c[2] = "func" /\ c[1] = f BY <1>1
      <4> QED BY <3>1, <4>1, <4>2 DEF BlocksOK
    <3> QED BY <3>2, <3>3
  <2> QED BY <2>1, <2>2, <2>3, <2>4
<1>2. ASSUME NEW c \in Blocks(g), NEW s \in Statements(g), NEW arm \in DOMAIN ArmField,
             c = <<s, arm>>, HasArm(g, s, arm)
      PROVE  /\ c # b => FirstOf(h, c) = FirstOf(g, c)
             /\ c = b => FirstOf(h, b) = IF FirstOf(g, b) = NULL THEN n ELSE FirstOf(g, b)
  <2> DEFINE t == g.stat[s][ArmField[arm]]
  <2>1. t \in Statements(g) /\ blk[t] = c
    <3>1. ArmField[arm] \in Edges BY ArmEdges
    <3>2. t \in {NULL} \union Statements(g) BY <3>1 DEF GraphInv, PointersOK, PointersIn
    <3>3. t # NULL BY <1>2 DEF HasArm
    <3> QED BY <1>2, <3>2, <3>3 DEF BlocksOK
  <2>2. h.stat[s][ArmField[arm]] = t BY DEF Behind
  <2>3. FirstOf(h, c) = FirstOfArm(h, t) /\ FirstOf(g, c) = FirstOfArm(g, t)
    BY <1>2, <2>2, FirstIs
  <2> HIDE DEF t
  <2>4. /\ h.stat[t].statementType = g.stat[t].statementType
        /\ h.stat[t].followingStatement = IF t = a THEN n ELSE g.stat[t].followingStatement
    BY <2>1 DEF Behind
  <2>5. t # NULL BY <2>1 DEF Statements, NULL
  <2>6. t = a => c = b BY <2>1, <2>5 DEF ActiveIn
  <2>7. t = a => g.stat[t].followingStatement = NULL BY <2>5 DEF Behind
  <2>8. c = b /\ t # a => FirstOfArm(g, t) # NULL
    <3>1. SUFFICES ASSUME c = b, t # a, FirstOfArm(g, t) = NULL PROVE FALSE OBVIOUS
    <3>2. g.stat[t].followingStatement = NULL BY <2>5, <3>1 DEF FirstOfArm
    <3>3. CASE a = NULL BY <1>2, <3>1, <3>3, ArmEdges DEF ActiveIn
    <3>4. CASE a # NULL
      <4>1. a \in Statements(g) /\ g.stat[a].followingStatement = NULL /\ blk[a] = c
        BY <3>1, <3>4 DEF Behind, ActiveIn
      <4> HIDE DEF a
      <4> QED BY <2>1, <3>1, <3>2, <4>1 DEF BlocksOK
    <3> QED BY <3>3, <3>4
  <2> HIDE DEF n, a
  <2>9. FirstOfArm(h, t) = IF g.stat[t].statementType = "CF_IF" THEN t
                           ELSE IF t = a THEN n ELSE g.stat[t].followingStatement
    BY <2>4 DEF FirstOfArm
  <2>10. FirstOfArm(g, t) = IF g.stat[t].statementType = "CF_IF" THEN t
                            ELSE g.stat[t].followingStatement
    BY DEF FirstOfArm
  <2> QED BY <2>3, <2>5, <2>6, <2>7, <2>8, <2>9, <2>10
<1>3. b \in Blocks(g) BY DEF ActiveIn
<1> QED BY <1>1, <1>2, <1>3, BlocksAre

(* The statement is the last one of its block, and nothing else changes.   *)
LEMMA BehindContent ==
  ASSUME NEW g, NEW tables, GraphInv(g, tables), NEW h, NEW type, Behind(g, h, type),
         NEW blk, BlocksOK(g, blk), NEW b, ActiveIn(g, b, blk), g.activeFunc # NULL
  PROVE  ContentOf(h) = [ContentOf(g) EXCEPT ![b] = Append(@, NewId(g))]
<1> DEFINE n == NewId(g)
           a == g.activeStat
           new == [ContentOf(g) EXCEPT ![b] = Append(@, n)]
<1>1. LinksBehind(g, h, a, n)
  <2>1. a \in Statements(g) => a # NULL BY DEF Statements, NULL
  <2>2. h.stat[n].followingStatement = NULL BY DEF Behind, Edges
  <2>3. n \in Statements(h) /\ n \notin Statements(g) /\ n # NULL BY DEF Behind
  <2>4. \A s \in Statements(g) :
         /\ s \in Statements(h)
         /\ h.stat[s].followingStatement = IF s = a THEN n ELSE g.stat[s].followingStatement
    BY DEF Behind
  <2>5. FollowsLater(g) /\ FollowsLater(h) /\ (a # NULL => g.stat[a].followingStatement = NULL)
    BY DEF Behind
  <2> HIDE DEF a, n
  <2> QED BY <2>1, <2>2, <2>3, <2>4, <2>5 DEF LinksBehind
<1>2. Chain(h)[n] = <<n>> /\ \A s \in Statements(g) :
        Chain(h)[s] = IF Top(Chain(g)[s]) = a THEN Append(Chain(g)[s], n) ELSE Chain(g)[s]
  BY <1>1, ChainGrows
<1>3. Chain(h)[NULL] = << >> /\ Chain(g)[NULL] = << >> BY ChainUnfolds DEF Behind
<1>4. b \in Blocks(g) BY DEF ActiveIn
<1>5. Blocks(h) = Blocks(g) BY BehindBlocks
<1>6. DOMAIN new = Blocks(g) /\ new = [c \in DOMAIN new |-> new[c]] BY ContentIs DEF ContentOf
<1>7. ASSUME NEW c \in Blocks(g) PROVE new[c] = Chain(h)[FirstOf(h, c)]
  <2> DEFINE f == FirstOf(g, c)
  <2>1. f \in {NULL} \union Statements(g) /\ (f # NULL => blk[f] = c) BY FirstIsIn
  <2>2. ContentOf(g)[c] = Chain(g)[f] BY ContentIs
  <2>3. CASE c = b
    <3>1. new[c] = Append(Chain(g)[f], n) BY <1>4, <2>2, <2>3, ContentIs
    <3>2. FirstOf(h, c) = IF f = NULL THEN n ELSE f BY <2>3, BehindFirst
    <3>3. CASE f = NULL
      <4>1. new[c] = Append(<< >>, n) BY <1>3, <3>1, <3>3
      <4>2. Append(<< >>, n) = <<n>> OBVIOUS
      <4> QED BY <1>2, <3>2, <3>3, <4>1, <4>2
    <3>4. CASE f # NULL
      <4>1. Top(Chain(g)[f]) = a BY <2>3, <3>4, EndsInActive
      <4> QED BY <1>2, <2>1, <3>1, <3>2, <3>4, <4>1
    <3> QED BY <3>3, <3>4
  <2>4. CASE c # b
    <3>1. new[c] = Chain(g)[f] BY <2>2, <2>4, ContentIs
    <3>2. FirstOf(h, c) = f BY <2>4, BehindFirst
    <3>3. CASE f = NULL BY <1>3, <3>1, <3>2, <3>3
    <3>4. CASE f # NULL
      <4>1. f \in Statements(g) /\ blk[f] = c BY <2>1, <3>4
      <4>2. blk[Top(Chain(g)[f])] = c BY <4>1, ChainInBlock
      <4>3. ChainAt(g, f) BY <4>1, ChainIsSeq DEF Behind
      <4>4. Top(Chain(g)[f]) # a
        <5>1. Top(Chain(g)[f]) # NULL BY <4>3 DEF ChainAt, Statements, NULL
        <5> QED BY <2>4, <4>2, <5>1 DEF ActiveIn
      <4> QED BY <1>2, <3>1, <3>2, <4>1, <4>4
    <3> QED BY <3>3, <3>4
  <2> QED BY <2>3, <2>4
<1> HIDE DEF new
<1>8. ContentOf(h) = new BY <1>5, <1>6, <1>7, ContentsAgree
<1> QED BY <1>8 DEF new

LEMMA BehindBlocksOK ==
  ASSUME NEW g, NEW tables, GraphInv(g, tables), NEW h, NEW type, Behind(g, h, type),
         NEW blk, BlocksOK(g, blk), NEW b, ActiveIn(g, b, blk), g.activeFunc # NULL
  PROVE  BlocksOK(h, Extended(g, h, blk, b))
<1> DEFINE n == NewId(g)
           a == g.activeStat
           blk2 == Extended(g, h, blk, b)
<1>1. /\ Statements(h) = Statements(g) \union {n} /\ n \notin Statements(g)
      /\ blk2[n] = b /\ \A s \in Statements(g) : blk2[s] = blk[s]
  BY DEF Behind, Extended
<1>2. Blocks(h) = Blocks(g) /\ b \in Blocks(g) BY BehindBlocks DEF ActiveIn
<1>3. /\ a \in {NULL} \union Statements(g)
      /\ a # NULL => g.stat[a].followingStatement = NULL /\ blk[a] = b
      /\ a = NULL => /\ b = <<g.activeFunc, "func">>
                     /\ g.funcs[g.activeFunc].rootStatement = NULL
  BY DEF Behind, ActiveIn, GraphInv, RootIsMade
<1>4. /\ Len(h.funcs) = Len(g.funcs) /\ g.activeFunc \in 1 .. Len(g.funcs)
      /\ \A f \in 1 .. Len(g.funcs) : h.funcs[f].rootStatement =
            IF f = g.activeFunc /\ g.funcs[f].rootStatement = NULL THEN n
            ELSE g.funcs[f].rootStatement
  BY DEF Behind, FunctionsKept, GraphInv, GraphOK, NULL
<1>5. n # NULL BY DEF Behind
<1> HIDE DEF blk2, n, a
<1>6. ASSUME NEW s \in Statements(h)
      PROVE  /\ blk2[s] \in Blocks(h)
             /\ blk2[s][2] = "func" => h.funcs[blk2[s][1]].rootStatement # NULL
  <2>1. CASE s = n
    <3>1. blk2[s] = b /\ b \in Blocks(g) BY <1>1, <1>2, <2>1
    <3>2. SUFFICES ASSUME b[2] = "func" PROVE h.funcs[b[1]].rootStatement # NULL
      BY <1>2, <3>1
    <3>3. b[1] \in 1 .. Len(g.funcs) BY <3>1, <3>2, BlocksAre, ArmEdges
    <3>4. CASE a = NULL
      <4>1. b[1] = g.activeFunc BY <1>3, <3>4
      <4> QED BY <1>3, <1>4, <1>5, <3>4, <4>1
    <3>5. CASE a # NULL
      <4>1. g.funcs[b[1]].rootStatement # NULL BY <1>3, <3>2, <3>5 DEF BlocksOK
      <4> QED BY <1>4, <1>5, <3>3, <4>1
    <3> QED BY <3>4, <3>5
  <2>2. CASE s # n
    <3>1. s \in Statements(g) /\ blk2[s] = blk[s] BY <1>1, <2>2
    <3>2. blk[s] \in Blocks(g) BY <3>1 DEF BlocksOK
    <3>3. blk[s][2] = "func" => blk[s][1] \in 1 .. Len(g.funcs) BY <3>2, BlocksAre, ArmEdges
    <3>4. blk[s][2] = "func" => g.funcs[blk[s][1]].rootStatement # NULL BY <3>1 DEF BlocksOK
    <3>5. blk[s][2] = "func" => h.funcs[blk[s][1]].rootStatement # NULL
      BY <1>4, <1>5, <3>3, <3>4
    <3> QED BY <1>2, <3>1, <3>2, <3>5
  <2> QED BY <2>1, <2>2
<1>7. ASSUME NEW f \in 1 .. Len(h.funcs), h.funcs[f].rootStatement # NULL
      PROVE  blk2[h.funcs[f].rootStatement] = <<f, "func">>
  <2>1. CASE f = g.activeFunc /\ g.funcs[f].rootStatement = NULL
    <3>1. h.funcs[f].rootStatement = n BY <1>4, <2>1
    <3>2. a = NULL BY <2>1 DEF a, GraphInv, RootIsMade
    <3> QED BY <1>1, <1>3, <2>1, <3>1, <3>2
  <2>2. CASE ~ (f = g.activeFunc /\ g.funcs[f].rootStatement = NULL)
    <3> DEFINE r == g.funcs[f].rootStatement
    <3>1. h.funcs[f].rootStatement = r /\ f \in 1 .. Len(g.funcs) BY <1>4, <2>2
    <3>2. r \in Statements(g) BY <1>7, <3>1 DEF GraphInv, PointersOK, PointersIn
    <3>3. blk[r] = <<f, "func">> BY <1>7, <3>1 DEF BlocksOK
    <3> HIDE DEF r
    <3> QED BY <1>1, <3>1, <3>2, <3>3
  <2> QED BY <2>1, <2>2
<1>8. ASSUME NEW s \in Statements(h), NEW arm \in DOMAIN ArmField, HasArm(h, s, arm)
      PROVE  /\ blk2[h.stat[s][ArmField[arm]]] = <<s, arm>>
             /\ h.stat[h.stat[s][ArmField[arm]]].statementType \in {"CF_BASIC", "CF_IF"}
  <2> DEFINE t == g.stat[s][ArmField[arm]]
  <2>1. s # n
    <3>1. CASE s = n
      <4>1. h.stat[s][ArmField[arm]] = NULL BY <3>1, ArmEdges DEF Behind, n
      <4> QED BY <1>8, <4>1 DEF HasArm
    <3> QED BY <3>1
  <2>2. s \in Statements(g) BY <1>1, <2>1
  <2>3. h.stat[s][ArmField[arm]] = t BY <2>2 DEF Behind
  <2>4. HasArm(g, s, arm) /\ t # NULL BY <1>8, <2>3 DEF HasArm
  <2>5. blk[t] = <<s, arm>> /\ g.stat[t].statementType \in {"CF_BASIC", "CF_IF"}
    BY <2>2, <2>4 DEF BlocksOK
  <2>6. t \in Statements(g)
    <3>1. ArmField[arm] \in Edges BY ArmEdges
    <3>2. t \in {NULL} \union Statements(g) BY <2>2, <3>1 DEF GraphInv, PointersOK, PointersIn
    <3> QED BY <2>4, <3>2
  <2> HIDE DEF t
  <2>7. h.stat[t].statementType = g.stat[t].statementType BY <2>6 DEF Behind
  <2> QED BY <1>1, <2>3, <2>5, <2>6, <2>7
<1>9. \A s \in Statements(g) :
        h.stat[s].followingStatement = IF s = a THEN n ELSE g.stat[s].followingStatement
  BY DEF Behind, a, n
<1>10. ASSUME NEW s \in Statements(h), h.stat[s].followingStatement # NULL
       PROVE  blk2[h.stat[s].followingStatement] = blk2[s]
  <2>1. s # n BY <1>10 DEF Behind, Edges, n
  <2>2. s \in Statements(g) BY <1>1, <2>1
  <2>3. CASE s = a
    <3>1. s # NULL BY <2>2 DEF Statements, NULL
    <3> QED BY <1>1, <1>3, <1>9, <2>2, <2>3, <3>1
  <2>4. CASE s # a
    <3> DEFINE t == g.stat[s].followingStatement
    <3>1. h.stat[s].followingStatement = t BY <1>9, <2>2, <2>4
    <3>2. t \in Statements(g) BY <1>10, <2>2, <3>1 DEF Behind, FollowsLater
    <3>3. blk[t] = blk[s] BY <1>10, <2>2, <3>1 DEF BlocksOK
    <3> HIDE DEF t
    <3> QED BY <1>1, <2>2, <3>1, <3>2, <3>3
  <2> QED BY <2>3, <2>4
<1>11. ASSUME NEW s \in Statements(g), blk[s] = b, h.stat[s].followingStatement = NULL
       PROVE  FALSE
  <2>1. s # a /\ g.stat[s].followingStatement = NULL BY <1>5, <1>9, <1>11
  <2>2. CASE a = NULL
    <3>1. b = <<g.activeFunc, "func">> /\ g.funcs[g.activeFunc].rootStatement = NULL BY <1>3, <2>2
    <3>2. blk[s][2] = "func" /\ blk[s][1] = g.activeFunc BY <1>11, <3>1
    <3> QED BY <3>1, <3>2 DEF BlocksOK
  <2>3. CASE a # NULL
    <3>1. a \in Statements(g) /\ blk[a] = b /\ g.stat[a].followingStatement = NULL BY <1>3, <2>3
    <3> QED BY <1>11, <2>1, <3>1 DEF BlocksOK
  <2> QED BY <2>2, <2>3
<1>12. ASSUME NEW s \in Statements(h), NEW t \in Statements(h), blk2[s] = blk2[t],
              h.stat[s].followingStatement = NULL, h.stat[t].followingStatement = NULL
       PROVE  s = t
  <2>1. CASE s = n /\ t # n
    <3>1. t \in Statements(g) /\ blk[t] = b BY <1>1, <1>12, <2>1
    <3> QED BY <1>11, <1>12, <3>1
  <2>2. CASE s # n /\ t = n
    <3>1. s \in Statements(g) /\ blk[s] = b BY <1>1, <1>12, <2>2
    <3> QED BY <1>11, <1>12, <3>1
  <2>3. CASE s # n /\ t # n
    <3>1. s \in Statements(g) /\ t \in Statements(g) /\ blk[s] = blk[t] BY <1>1, <1>12, <2>3
    <3>2. g.stat[s].followingStatement = NULL /\ g.stat[t].followingStatement = NULL
      BY <1>5, <1>9, <1>12, <3>1
    <3> QED BY <3>1, <3>2 DEF BlocksOK
  <2> QED BY <2>1, <2>2, <2>3
<1>13. BlocksOK(h, blk2) BY <1>6, <1>7, <1>8, <1>10, <1>12 DEF BlocksOK
<1> QED BY <1>13 DEF blk2

-----------------------------------------------------------------------------
(* A statement is added as an arm of the active one. *)
InArm(g, h, arm, type) ==
  /\ FollowsLater(g) /\ FollowsLater(h)
  /\ arm \in DOMAIN ArmField
  /\ type \in {"CF_BASIC", "CF_IF"}
  /\ Statements(h) = Statements(g) \union {NewId(g)} /\ NewId(g) \notin Statements(g)
  /\ NewId(g) # NULL
  /\ h.stat[NewId(g)].statementType = type
  /\ \A field \in Edges : h.stat[NewId(g)][field] = NULL
  /\ g.activeStat \in Statements(g)
  /\ ~ HasArm(g, g.activeStat, arm)
  /\ \A s \in Statements(g) :
       /\ h.stat[s].statementType = g.stat[s].statementType
       /\ h.stat[s].followingStatement = g.stat[s].followingStatement
       /\ \A other \in DOMAIN ArmField :
            h.stat[s][ArmField[other]] = IF s = g.activeStat /\ other = arm THEN NewId(g)
                                         ELSE g.stat[s][ArmField[other]]
  /\ Len(h.funcs) = Len(g.funcs)
  /\ \A f \in 1 .. Len(g.funcs) :
       /\ h.funcs[f].symbolTable = g.funcs[f].symbolTable
       /\ h.funcs[f].rootStatement = g.funcs[f].rootStatement

LEMMA BranchIsInArm ==
  ASSUME NEW g, NEW tables, GraphInv(g, tables), NEW h, NEW more, GraphInv(h, more),
         g.activeStat # NULL, NEW arm \in DOMAIN ArmField, EdgeIsFree(g, ArmField[arm]),
         NEW type \in {"CF_BASIC", "CF_IF"}, Grows(g, h, ArmField[arm], type, FuncNames)
  PROVE  InArm(g, h, arm, type)
<1> DEFINE edge == ArmField[arm]
<1>1. edge \in Edges /\ edge # "followingStatement" BY ArmEdges
<1> HIDE DEF edge
<1>0. Grows(g, h, edge, type, FuncNames) /\ EdgeIsFree(g, edge) BY DEF edge
<1>2. NewAdded(g, h, type) BY <1>0, <1>1, GrowsNew
<1>3. \A s \in Statements(g) : OldKept(g, h, edge, s) BY <1>0, <1>1, GrowsOld
<1>4. FollowsLater(g) /\ FollowsLater(h) BY InvFollowsLater
<1>5. g.activeStat \in Statements(g) BY DEF GraphInv, GraphOK
<1>6. \A s \in Statements(g) :
       /\ h.stat[s].statementType = g.stat[s].statementType
       /\ h.stat[s].followingStatement = g.stat[s].followingStatement
  BY <1>1, <1>3 DEF OldKept, Edges
<1>7. \A s \in Statements(g) : \A other \in DOMAIN ArmField :
        h.stat[s][ArmField[other]] = IF s = g.activeStat /\ other = arm THEN NewId(g)
                                     ELSE g.stat[s][ArmField[other]]
  BY <1>3, ArmEdges DEF OldKept, edge
<1>8. FunctionsKept(g, h) BY DEF Grows
<1>9. ~ HasArm(g, g.activeStat, arm) BY DEF HasArm, EdgeIsFree
<1>10. \A f \in 1 .. Len(g.funcs) : h.funcs[f].rootStatement = g.funcs[f].rootStatement
  BY <1>8 DEF FunctionsKept, GraphInv, RootIsMade
<1> QED BY <1>2, <1>4, <1>5, <1>6, <1>7, <1>8, <1>9, <1>10 DEF InArm, NewAdded, IsNew, FunctionsKept

LEMMA InArmBlocks ==
  ASSUME NEW g, NEW h, NEW arm, NEW type, InArm(g, h, arm, type)
  PROVE  /\ Blocks(h) = Blocks(g) \union {<<g.activeStat, arm>>}
         /\ <<g.activeStat, arm>> \notin Blocks(g)
<1> DEFINE b == <<g.activeStat, arm>>
           n == NewId(g)
<1>0. arm \in DOMAIN ArmField /\ g.activeStat \in Statements(g) /\ n # NULL BY DEF InArm
<1>1. FunctionBlocks(h) = FunctionBlocks(g) BY DEF InArm, FunctionBlocks
<1>2. \A other \in DOMAIN ArmField : ~ HasArm(h, n, other)
  BY ArmEdges DEF InArm, HasArm
<1>3. \A s \in Statements(g) : \A other \in DOMAIN ArmField :
        HasArm(h, s, other) <=> (HasArm(g, s, other) \/ (s = g.activeStat /\ other = arm))
  BY DEF InArm, HasArm
<1>4. ArmBlocks(h) = ArmBlocks(g) \union {b}
  <2>1. ArmBlocks(h) = {x \in Statements(h) \X DOMAIN ArmField : HasArm(h, x[1], x[2])}
    BY DEF ArmBlocks, HasArm
  <2>2. ArmBlocks(g) = {x \in Statements(g) \X DOMAIN ArmField : HasArm(g, x[1], x[2])}
    BY DEF ArmBlocks, HasArm
  <2>3. Statements(h) = Statements(g) \union {n} /\ n \notin Statements(g) BY DEF InArm
  <2>4. b \in Statements(h) \X DOMAIN ArmField /\ b[1] = g.activeStat /\ b[2] = arm
    BY <1>0, <2>3
  <2> HIDE DEF n
  <2>5. ASSUME NEW x \in ArmBlocks(h) PROVE x \in ArmBlocks(g) \union {b}
    <3>1. x \in Statements(h) \X DOMAIN ArmField /\ HasArm(h, x[1], x[2]) BY <2>1, <2>5
    <3>2. x[1] \in Statements(g) /\ x = <<x[1], x[2]>> BY <1>2, <2>3, <3>1
    <3>3. CASE HasArm(g, x[1], x[2]) BY <2>2, <3>1, <3>2, <3>3
    <3>4. CASE x[1] = g.activeStat /\ x[2] = arm BY <3>2, <3>4
    <3> QED BY <1>3, <3>1, <3>2, <3>3, <3>4
  <2>6. ASSUME NEW x \in ArmBlocks(g) PROVE x \in ArmBlocks(h)
    <3>1. x \in Statements(g) \X DOMAIN ArmField /\ HasArm(g, x[1], x[2]) BY <2>2, <2>6
    <3> QED BY <1>3, <2>1, <2>3, <3>1
  <2>7. b \in ArmBlocks(h) BY <1>0, <1>3, <2>1, <2>4
  <2> HIDE DEF b
  <2> QED BY <2>5, <2>6, <2>7
<1>5. b \notin Blocks(g) BY <1>0, BlocksAre DEF InArm
<1> QED BY <1>1, <1>4, <1>5 DEF Blocks

LEMMA InArmFirst ==
  ASSUME NEW g, NEW tables, GraphInv(g, tables), NEW h, NEW arm, NEW type,
         InArm(g, h, arm, type)
  PROVE  /\ \A c \in Blocks(g) : FirstOf(h, c) = FirstOf(g, c)
         /\ FirstOf(h, <<g.activeStat, arm>>) = IF type = "CF_IF" THEN NewId(g) ELSE NULL
<1> DEFINE n == NewId(g)
<1>1. FirstOf(h, <<g.activeStat, arm>>) = IF type = "CF_IF" THEN n ELSE NULL
  <2>1. FirstOf(h, <<g.activeStat, arm>>) = FirstOfArm(h, h.stat[g.activeStat][ArmField[arm]])
    BY FirstIs DEF InArm
  <2>2. h.stat[g.activeStat][ArmField[arm]] = n BY DEF InArm
  <2>3. h.stat[n].statementType = type /\ h.stat[n].followingStatement = NULL
    BY DEF InArm, Edges
  <2> HIDE DEF n
  <2> QED BY <2>1, <2>2, <2>3 DEF FirstOfArm
<1>2. ASSUME NEW c \in Blocks(g), NEW f \in 1 .. Len(g.funcs), c = <<f, "func">>
      PROVE  FirstOf(h, c) = FirstOf(g, c)
  BY <1>2, FirstIs DEF InArm
<1>3. ASSUME NEW c \in Blocks(g), NEW s \in Statements(g), NEW other \in DOMAIN ArmField,
             c = <<s, other>>, HasArm(g, s, other)
      PROVE  FirstOf(h, c) = FirstOf(g, c)
  <2> DEFINE t == g.stat[s][ArmField[other]]
  <2>1. t \in Statements(g)
    <3>1. ArmField[other] \in Edges BY ArmEdges
    <3>2. t \in {NULL} \union Statements(g) BY <3>1 DEF GraphInv, PointersOK, PointersIn
    <3> QED BY <1>3, <3>2 DEF HasArm
  <2>2. h.stat[s][ArmField[other]] = t BY <1>3 DEF InArm
  <2>3. FirstOf(h, c) = FirstOfArm(h, t) /\ FirstOf(g, c) = FirstOfArm(g, t)
    BY <1>3, <2>2, FirstIs
  <2> HIDE DEF t
  <2> QED BY <2>1, <2>3 DEF FirstOfArm, InArm
<1> QED BY <1>1, <1>2, <1>3, BlocksAre

LEMMA InArmContent ==
  ASSUME NEW g, NEW tables, GraphInv(g, tables), NEW h, NEW arm, NEW type,
         InArm(g, h, arm, type), NEW blk, BlocksOK(g, blk)
  PROVE  ContentOf(h) = Source!With(ContentOf(g), <<g.activeStat, arm>>,
                                    IF type = "CF_IF" THEN <<NewId(g)>> ELSE << >>)
<1> DEFINE n == NewId(g)
           b == <<g.activeStat, arm>>
           value == IF type = "CF_IF" THEN <<n>> ELSE << >>
           new == Source!With(ContentOf(g), b, value)
<1>1. Blocks(h) = Blocks(g) \union {b} /\ b \notin Blocks(g) BY InArmBlocks
<1>2. /\ \A c \in Blocks(g) : FirstOf(h, c) = FirstOf(g, c)
      /\ FirstOf(h, b) = IF type = "CF_IF" THEN n ELSE NULL
  BY InArmFirst
<1>3. \A s \in {NULL} \union Statements(g) : Chain(h)[s] = Chain(g)[s]
  BY ChainIsKept DEF InArm
<1>4. Chain(h)[NULL] = << >> /\ Chain(h)[n] = <<n>>
  <2>1. Chain(h)[NULL] = << >> BY ChainUnfolds DEF InArm
  <2>2. n \in Statements(h) /\ h.stat[n].followingStatement = NULL BY DEF InArm, Edges
  <2>3. Chain(h)[n] = <<n>> \o Chain(h)[NULL] BY <2>2, ChainUnfolds DEF InArm
  <2> QED BY <2>1, <2>3, OneElement
<1> HIDE DEF b, n
<1>5. /\ DOMAIN new = Blocks(h) /\ new = [c \in DOMAIN new |-> new[c]]
      /\ new[b] = value /\ \A c \in Blocks(g) : new[c] = ContentOf(g)[c]
  <2>1. DOMAIN ContentOf(g) = Blocks(g) BY ContentIs
  <2> QED BY <1>1, <2>1 DEF Source!With
<1> HIDE DEF new
<1>6. ASSUME NEW c \in Blocks(h) PROVE new[c] = Chain(h)[FirstOf(h, c)]
  <2>1. CASE c = b BY <1>2, <1>4, <1>5, <2>1
  <2>2. CASE c # b
    <3>1. c \in Blocks(g) BY <1>1, <2>2
    <3>2. FirstOf(g, c) \in {NULL} \union Statements(g) BY <3>1, FirstIsIn
    <3>3. ContentOf(g)[c] = Chain(g)[FirstOf(g, c)] BY <3>1, ContentIs
    <3> QED BY <1>2, <1>3, <1>5, <3>1, <3>2, <3>3
  <2> QED BY <2>1, <2>2
<1>7. ContentOf(h) = new BY <1>5, <1>6, ContentsAgree
<1> QED BY <1>7 DEF new, b, n

LEMMA InArmBlocksOK ==
  ASSUME NEW g, NEW tables, GraphInv(g, tables), NEW h, NEW arm, NEW type,
         InArm(g, h, arm, type), NEW blk, BlocksOK(g, blk)
  PROVE  BlocksOK(h, Extended(g, h, blk, <<g.activeStat, arm>>))
<1> DEFINE n == NewId(g)
           a == g.activeStat
           b == <<a, arm>>
           blk2 == Extended(g, h, blk, b)
<1>1. /\ Statements(h) = Statements(g) \union {n} /\ n \notin Statements(g)
      /\ blk2[n] = b /\ \A s \in Statements(g) : blk2[s] = blk[s]
  BY DEF InArm, Extended
<1>2. Blocks(h) = Blocks(g) \union {b} /\ b \notin Blocks(g) BY InArmBlocks
<1>3. a \in Statements(g) /\ arm \in DOMAIN ArmField /\ arm # "func" BY ArmEdges DEF InArm
<1>4. /\ Len(h.funcs) = Len(g.funcs)
      /\ \A f \in 1 .. Len(g.funcs) : h.funcs[f].rootStatement = g.funcs[f].rootStatement
  BY DEF InArm
<1>5. n # NULL BY DEF InArm
<1>b. b[1] = a /\ b[2] = arm OBVIOUS
<1>n. h.stat[n].statementType \in {"CF_BASIC", "CF_IF"} /\ h.stat[n].followingStatement = NULL
  BY DEF InArm, Edges
<1>m. \A other \in DOMAIN ArmField : ~ HasArm(h, n, other) BY ArmEdges DEF InArm, HasArm
<1>k. \A s \in Statements(g) : \A other \in DOMAIN ArmField :
        h.stat[s][ArmField[other]] = IF s = a /\ other = arm THEN n ELSE g.stat[s][ArmField[other]]
  BY DEF InArm
<1>l. \A s \in Statements(g) : h.stat[s].followingStatement = g.stat[s].followingStatement
  BY DEF InArm
<1>d. b = <<a, arm>> OBVIOUS
<1> HIDE DEF blk2, n, b, a
<1>6. ASSUME NEW s \in Statements(h)
      PROVE  /\ blk2[s] \in Blocks(h)
             /\ blk2[s][2] = "func" => h.funcs[blk2[s][1]].rootStatement # NULL
  <2>1. CASE s = n BY <1>1, <1>2, <1>3, <1>b, <2>1
  <2>2. CASE s # n
    <3>1. s \in Statements(g) /\ blk2[s] = blk[s] BY <1>1, <2>2
    <3>2. blk[s] \in Blocks(g) BY <3>1 DEF BlocksOK
    <3>3. blk[s][2] = "func" => blk[s][1] \in 1 .. Len(g.funcs) BY <3>2, BlocksAre, ArmEdges
    <3>4. blk[s][2] = "func" => g.funcs[blk[s][1]].rootStatement # NULL BY <3>1 DEF BlocksOK
    <3> QED BY <1>2, <1>4, <3>1, <3>2, <3>3, <3>4
  <2> QED BY <2>1, <2>2
<1>7. ASSUME NEW f \in 1 .. Len(h.funcs), h.funcs[f].rootStatement # NULL
      PROVE  blk2[h.funcs[f].rootStatement] = <<f, "func">>
  <2> DEFINE r == g.funcs[f].rootStatement
  <2>1. h.funcs[f].rootStatement = r /\ f \in 1 .. Len(g.funcs) BY <1>4
  <2>2. r \in Statements(g) BY <1>7, <2>1 DEF GraphInv, PointersOK, PointersIn
  <2>3. blk[r] = <<f, "func">> BY <1>7, <2>1 DEF BlocksOK
  <2> HIDE DEF r
  <2> QED BY <1>1, <2>1, <2>2, <2>3
<1>8. ASSUME NEW s \in Statements(h), NEW other \in DOMAIN ArmField, HasArm(h, s, other)
      PROVE  /\ blk2[h.stat[s][ArmField[other]]] = <<s, other>>
             /\ h.stat[h.stat[s][ArmField[other]]].statementType \in {"CF_BASIC", "CF_IF"}
  <2> DEFINE t == g.stat[s][ArmField[other]]
  <2>2. s \in Statements(g) BY <1>1, <1>8, <1>m
  <2>3. CASE s = a /\ other = arm
    <3>1. h.stat[s][ArmField[other]] = n BY <1>k, <2>2, <2>3
    <3> HIDE DEF t
    <3>2. blk2[n] = <<s, other>> BY <1>1, <1>d, <2>3
    <3> QED BY <1>n, <3>1, <3>2
  <2>4. CASE ~ (s = a /\ other = arm)
    <3>3. h.stat[s][ArmField[other]] = t BY <1>k, <2>2, <2>4
    <3>4. HasArm(g, s, other) /\ t # NULL BY <1>8, <3>3 DEF HasArm
    <3>5. blk[t] = <<s, other>> /\ g.stat[t].statementType \in {"CF_BASIC", "CF_IF"}
      BY <2>2, <3>4 DEF BlocksOK
    <3>6. t \in Statements(g)
      <4>1. ArmField[other] \in Edges BY ArmEdges
      <4>2. t \in {NULL} \union Statements(g) BY <2>2, <4>1 DEF GraphInv, PointersOK, PointersIn
      <4> QED BY <3>4, <4>2
    <3> HIDE DEF t
    <3>7. h.stat[t].statementType = g.stat[t].statementType BY <3>6 DEF InArm
    <3> QED BY <1>1, <3>3, <3>5, <3>6, <3>7
  <2> QED BY <2>3, <2>4
<1>10. ASSUME NEW s \in Statements(h), h.stat[s].followingStatement # NULL
       PROVE  blk2[h.stat[s].followingStatement] = blk2[s]
  <2>1. s # n BY <1>10, <1>n
  <2>2. s \in Statements(g) BY <1>1, <2>1
  <2> DEFINE t == g.stat[s].followingStatement
  <2>3. h.stat[s].followingStatement = t BY <1>l, <2>2
  <2>4. t \in Statements(g) BY <1>10, <2>2, <2>3 DEF InArm, FollowsLater
  <2>5. blk[t] = blk[s] BY <1>10, <2>2, <2>3 DEF BlocksOK
  <2> HIDE DEF t
  <2> QED BY <1>1, <2>2, <2>3, <2>4, <2>5
<1>12. ASSUME NEW s \in Statements(h), NEW t \in Statements(h), blk2[s] = blk2[t],
              h.stat[s].followingStatement = NULL, h.stat[t].followingStatement = NULL
       PROVE  s = t
  <2>0. \A r \in Statements(g) : blk[r] # b BY <1>2 DEF BlocksOK
  <2>1. CASE s = n \/ t = n BY <1>1, <1>12, <2>0, <2>1
  <2>3. CASE s # n /\ t # n
    <3>1. s \in Statements(g) /\ t \in Statements(g) /\ blk[s] = blk[t] BY <1>1, <1>12, <2>3
    <3>2. g.stat[s].followingStatement = NULL /\ g.stat[t].followingStatement = NULL
      BY <1>l, <1>12, <3>1
    <3> QED BY <3>1, <3>2 DEF BlocksOK
  <2> QED BY <2>1, <2>3
<1>13. BlocksOK(h, blk2) BY <1>6, <1>7, <1>8, <1>10, <1>12 DEF BlocksOK
<1> QED BY <1>13 DEF blk2, b, a

-----------------------------------------------------------------------------
(* A function is made, and gets its table with the brace that opens it.    *)
FunctionAdded(g, h) ==
  /\ h.stat = g.stat
  /\ Len(g.funcs) \in Nat /\ Len(h.funcs) = Len(g.funcs) + 1
  /\ \A f \in 1 .. Len(g.funcs) : h.funcs[f] = g.funcs[f]
  /\ h.funcs[Len(h.funcs)].symbolTable = NULL /\ h.funcs[Len(h.funcs)].rootStatement = NULL

FunctionOpened(g, h) ==
  /\ h.stat = g.stat
  /\ Len(h.funcs) = Len(g.funcs)
  /\ g.activeFunc \in 1 .. Len(g.funcs)
  /\ g.funcs[g.activeFunc].symbolTable = NULL /\ h.funcs[g.activeFunc].symbolTable # NULL
  /\ g.funcs[g.activeFunc].rootStatement = NULL
  /\ \A f \in 1 .. Len(g.funcs) :
       /\ h.funcs[f].rootStatement = g.funcs[f].rootStatement
       /\ f # g.activeFunc => h.funcs[f] = g.funcs[f]

LEMMA SameStatements ==
  ASSUME NEW g, NEW h, h.stat = g.stat
  PROVE  /\ Chain(h) = Chain(g) /\ ArmBlocks(h) = ArmBlocks(g) /\ Statements(h) = Statements(g)
         /\ \A s \in Statements(g), arm \in DOMAIN ArmField :
              /\ HasArm(h, s, arm) <=> HasArm(g, s, arm)
              /\ FirstOf(h, <<s, arm>>) = FirstOf(g, <<s, arm>>)
<1>1. Statements(h) = Statements(g) BY DEF Statements
<1>2. Chain(h) = Chain(g) BY <1>1 DEF Chain
<1>3. ArmBlocks(h) = ArmBlocks(g) BY <1>1 DEF ArmBlocks
<1>4. ASSUME NEW s \in Statements(g), NEW arm \in DOMAIN ArmField
      PROVE  FirstOf(h, <<s, arm>>) = FirstOf(g, <<s, arm>>)
  BY FirstIs DEF FirstOfArm
<1>5. ASSUME NEW s \in Statements(g), NEW arm \in DOMAIN ArmField
      PROVE  HasArm(h, s, arm) <=> HasArm(g, s, arm)
  BY DEF HasArm
<1> QED BY <1>1, <1>2, <1>3, <1>4, <1>5

LEMMA AddedBlocks ==
  ASSUME NEW g, NEW h, FunctionAdded(g, h)
  PROVE  Blocks(h) = Blocks(g) /\ \A b \in Blocks(g) : FirstOf(h, b) = FirstOf(g, b)
<1>1. FunctionBlocks(h) = FunctionBlocks(g) BY DEF FunctionAdded, FunctionBlocks
<1>2. Blocks(h) = Blocks(g) BY <1>1, SameStatements DEF Blocks, FunctionAdded
<1>3. ASSUME NEW b \in Blocks(g) PROVE FirstOf(h, b) = FirstOf(g, b)
  <2>1. CASE \E f \in 1 .. Len(g.funcs) : b = <<f, "func">> /\ g.funcs[f].symbolTable # NULL
    <3>1. PICK f \in 1 .. Len(g.funcs) : b = <<f, "func">> BY <2>1
    <3>2. h.funcs[f] = g.funcs[f] BY DEF FunctionAdded
    <3> QED BY <3>1, <3>2, FirstIs
  <2>2. CASE \E s \in Statements(g), arm \in DOMAIN ArmField : b = <<s, arm>> /\ HasArm(g, s, arm)
    BY <2>2, SameStatements DEF FunctionAdded
  <2> QED BY <2>1, <2>2, BlocksAre
<1> QED BY <1>2, <1>3

LEMMA AddedContent ==
  ASSUME NEW g, NEW tables, GraphInv(g, tables), NEW h, FunctionAdded(g, h),
         NEW blk, BlocksOK(g, blk)
  PROVE  ContentOf(h) = ContentOf(g) /\ BlocksOK(h, blk)
<1>1. Blocks(h) = Blocks(g) /\ \A b \in Blocks(g) : FirstOf(h, b) = FirstOf(g, b)
  BY AddedBlocks
<1>2. Chain(h) = Chain(g) /\ Statements(h) = Statements(g) /\ h.stat = g.stat
  BY SameStatements DEF FunctionAdded
<1>3. ContentOf(h) = ContentOf(g)
  <2>1. \A b \in Blocks(h) : ContentOf(g)[b] = Chain(h)[FirstOf(h, b)] BY <1>1, <1>2, ContentIs
  <2>2. ContentOf(g) = [b \in DOMAIN ContentOf(g) |-> ContentOf(g)[b]] BY DEF ContentOf
  <2>3. DOMAIN ContentOf(g) = Blocks(h) BY <1>1, ContentIs
  <2> QED BY <2>1, <2>2, <2>3, ContentsAgree
<1>4. ASSUME NEW s \in Statements(g), blk[s][2] = "func"
      PROVE  h.funcs[blk[s][1]].rootStatement # NULL
  <2>1. blk[s] \in Blocks(g) /\ g.funcs[blk[s][1]].rootStatement # NULL BY <1>4 DEF BlocksOK
  <2>2. blk[s][1] \in 1 .. Len(g.funcs) BY <1>4, <2>1, BlocksAre, ArmEdges
  <2> QED BY <2>1, <2>2 DEF FunctionAdded
<1>5. ASSUME NEW f \in 1 .. Len(h.funcs), h.funcs[f].rootStatement # NULL
      PROVE  blk[h.funcs[f].rootStatement] = <<f, "func">>
  <2>1. f \in 1 .. Len(g.funcs) BY <1>5 DEF FunctionAdded
  <2>2. h.funcs[f] = g.funcs[f] BY <2>1 DEF FunctionAdded
  <2> QED BY <1>5, <2>1, <2>2 DEF BlocksOK
<1>6. \A s \in Statements(g), arm \in DOMAIN ArmField : HasArm(h, s, arm) <=> HasArm(g, s, arm)
  BY SameStatements DEF FunctionAdded
<1>7. BlocksOK(h, blk) BY <1>1, <1>2, <1>4, <1>5, <1>6 DEF BlocksOK
<1> QED BY <1>3, <1>7

LEMMA OpenedBlocks ==
  ASSUME NEW g, NEW h, FunctionOpened(g, h)
  PROVE  /\ Blocks(h) = Blocks(g) \union {<<g.activeFunc, "func">>}
         /\ <<g.activeFunc, "func">> \notin Blocks(g)
         /\ \A b \in Blocks(h) : FirstOf(h, b) = FirstOf(g, b)
<1> DEFINE f == g.activeFunc
<1>1. FunctionBlocks(h) = FunctionBlocks(g) \union {<<f, "func">>}
  BY DEF FunctionOpened, FunctionBlocks
<1>2. Blocks(h) = Blocks(g) \union {<<f, "func">>}
  BY <1>1, SameStatements DEF Blocks, FunctionOpened
<1>3. <<f, "func">> \notin Blocks(g) BY BlocksAre DEF FunctionOpened
<1>4. ASSUME NEW b \in Blocks(h) PROVE FirstOf(h, b) = FirstOf(g, b)
  <2>1. CASE \E i \in 1 .. Len(h.funcs) : b = <<i, "func">> /\ h.funcs[i].symbolTable # NULL
    <3>1. PICK i \in 1 .. Len(h.funcs) : b = <<i, "func">> BY <2>1
    <3>2. h.funcs[i].rootStatement = g.funcs[i].rootStatement BY DEF FunctionOpened
    <3> QED BY <3>1, <3>2, FirstIs
  <2>2. CASE \E s \in Statements(h), arm \in DOMAIN ArmField : b = <<s, arm>> /\ HasArm(h, s, arm)
    BY <2>2, SameStatements DEF FunctionOpened
  <2> QED BY <2>1, <2>2, BlocksAre
<1> QED BY <1>2, <1>3, <1>4

LEMMA OpenedContent ==
  ASSUME NEW g, NEW tables, GraphInv(g, tables), NEW h, FunctionOpened(g, h),
         NEW blk, BlocksOK(g, blk)
  PROVE  /\ ContentOf(h) = Source!With(ContentOf(g), <<g.activeFunc, "func">>, << >>)
         /\ BlocksOK(h, blk)
<1> DEFINE b == <<g.activeFunc, "func">>
           new == Source!With(ContentOf(g), b, << >>)
<1>1. /\ Blocks(h) = Blocks(g) \union {b} /\ b \notin Blocks(g)
      /\ \A c \in Blocks(h) : FirstOf(h, c) = FirstOf(g, c)
  BY OpenedBlocks
<1>2. Chain(h) = Chain(g) /\ Statements(h) = Statements(g) /\ h.stat = g.stat
  BY SameStatements DEF FunctionOpened
<1>3. FirstOf(g, b) = NULL BY FirstIs DEF FunctionOpened
<1>4. Chain(g)[NULL] = << >> BY InvFollowsLater, ChainUnfolds
<1> HIDE DEF b
<1>5. /\ DOMAIN new = Blocks(h) /\ new = [c \in DOMAIN new |-> new[c]]
      /\ new[b] = << >> /\ \A c \in Blocks(g) : new[c] = ContentOf(g)[c]
  <2>1. DOMAIN ContentOf(g) = Blocks(g) BY ContentIs
  <2> QED BY <1>1, <2>1 DEF Source!With
<1> HIDE DEF new
<1>6. \A c \in Blocks(h) : new[c] = Chain(h)[FirstOf(h, c)]
  BY <1>1, <1>2, <1>3, <1>4, <1>5, ContentIs
<1>7. ContentOf(h) = new BY <1>5, <1>6, ContentsAgree
<1>8. \A s \in Statements(g), arm \in DOMAIN ArmField : HasArm(h, s, arm) <=> HasArm(g, s, arm)
  BY SameStatements DEF FunctionOpened
<1>9. /\ Len(h.funcs) = Len(g.funcs)
      /\ \A f \in 1 .. Len(g.funcs) : h.funcs[f].rootStatement = g.funcs[f].rootStatement
  BY DEF FunctionOpened
<1>10. ASSUME NEW s \in Statements(g), blk[s][2] = "func"
       PROVE  h.funcs[blk[s][1]].rootStatement # NULL
  <2>1. blk[s] \in Blocks(g) /\ g.funcs[blk[s][1]].rootStatement # NULL BY <1>10 DEF BlocksOK
  <2>2. blk[s][1] \in 1 .. Len(g.funcs) BY <1>10, <2>1, BlocksAre, ArmEdges
  <2> QED BY <1>9, <2>1, <2>2
<1>11. ASSUME NEW f \in 1 .. Len(h.funcs), h.funcs[f].rootStatement # NULL
       PROVE  blk[h.funcs[f].rootStatement] = <<f, "func">>
  BY <1>9, <1>11 DEF BlocksOK
<1>12. ASSUME NEW s \in Statements(g) PROVE blk[s] \in Blocks(h) BY <1>1 DEF BlocksOK
<1>13. BlocksOK(h, blk) BY <1>2, <1>8, <1>10, <1>11, <1>12 DEF BlocksOK
<1> QED BY <1>7, <1>13 DEF new, b

-----------------------------------------------------------------------------
(* The calls and the blocks they read. *)

BlockOf(c) == <<c.owner, ArmOfPlace[c.at]>>

InBlock(c) == c.at \in DOMAIN ArmOfPlace

Spine(cs) == [i \in 1 .. Len(cs) |-> BlockOf(cs[i])]

LEMMA BlockPlaces ==
  /\ DOMAIN ArmOfPlace = Arms \union {"func"}
  /\ ArmOfPlace["func"] = "func" /\ ArmOfPlace["then"] = "then" /\ ArmOfPlace["else"] = "else"
  /\ ArmOfPlace["for"] = "body" /\ ArmOfPlace["elif"] = "else"
  /\ Headers \intersect DOMAIN ArmOfPlace = {} /\ "func_name" \notin DOMAIN ArmOfPlace
<1>1. DOMAIN ArmOfPlace = {"func", "then", "else", "for", "elif"} BY DEF ArmOfPlace
<1>2. /\ ArmOfPlace["func"] = "func" /\ ArmOfPlace["then"] = "then"
      /\ ArmOfPlace["else"] = "else" /\ ArmOfPlace["for"] = "body"
      /\ ArmOfPlace["elif"] = "else"
  BY DEF ArmOfPlace
<1> QED BY <1>1, <1>2 DEF Arms, Headers

LEMMA NoBlocks == BlocksOf(<< >>) = << >> /\ Spine(<< >>) = << >>
<1>1. Len(<< >>) = 0 /\ 1 .. 0 = {} OBVIOUS
<1>2. Spine(<< >>) = << >> BY <1>1 DEF Spine
<1>3. BlocksOf(<< >>) = Spine(<< >>) BY DEF BlocksOf, Spine, BlockOf
<1> QED BY <1>2, <1>3

LEMMA BlocksAreSpine ==
  ASSUME NEW cs, cs # << >>, InBlock(Top(cs))
  PROVE  BlocksOf(cs) = Spine(cs)
BY DEF BlocksOf, Spine, BlockOf, InBlock

LEMMA SpineIsSeq ==
  ASSUME NEW cs \in Seq(CallRecords)
  PROVE  Spine(cs) \in Seq({BlockOf(cs[i]) : i \in 1 .. Len(cs)}) /\ Len(Spine(cs)) = Len(cs)
<1> DEFINE T == {BlockOf(cs[i]) : i \in 1 .. Len(cs)}
<1>1. Len(cs) \in Nat OBVIOUS
<1>2. Spine(cs) \in [1 .. Len(cs) -> T] BY DEF Spine
<1> HIDE DEF T
<1>3. Spine(cs) \in Seq(T) /\ Len(Spine(cs)) = Len(cs) BY <1>1, <1>2
<1> QED BY <1>3 DEF T

(* The call that is added, if it reads a block, is the innermost one.      *)
LEMMA BlocksOfCall ==
  ASSUME NEW cs \in Seq(CallRecords), NEW c \in CallRecords
  PROVE  BlocksOf(Append(cs, c)) = IF InBlock(c) THEN Append(Spine(cs), BlockOf(c)) ELSE Spine(cs)
<1> DEFINE cs2 == Append(cs, c)
           n == Len(cs)
           T == {BlockOf(cs[i]) : i \in 1 .. n} \union {BlockOf(c)}
<1>1. /\ cs2 # << >> /\ Top(cs2) = c /\ Len(cs2) = n + 1 /\ n \in Nat
      /\ cs2[n + 1] = c /\ \A i \in 1 .. n : cs2[i] = cs[i]
  BY LastOfAppended
<1>2. Spine(cs) \in Seq(T) /\ Len(Spine(cs)) = n
  <2>1. Spine(cs) \in [1 .. n -> T] BY DEF Spine
  <2> HIDE DEF T
  <2> QED BY <1>1, <2>1
<1>3. \A i \in 1 .. n : Spine(cs)[i] = BlockOf(cs[i]) BY DEF Spine
<1>t. BlockOf(c) \in T OBVIOUS
<1> HIDE DEF cs2, T
<1>4. CASE InBlock(c)
  <2> DEFINE b == Append(Spine(cs), BlockOf(c))
  <2>1. /\ b \in Seq(T) /\ Len(b) = n + 1 /\ b[n + 1] = BlockOf(c)
        /\ \A i \in 1 .. n : b[i] = BlockOf(cs[i])
    BY <1>1, <1>2, <1>3, <1>t, LastOfAppended
  <2> HIDE DEF b
  <2>2. b = [i \in 1 .. n + 1 |-> b[i]] BY <1>1, <2>1
  <2>3. \A i \in 1 .. n + 1 : b[i] = BlockOf(cs2[i])
    <3> SUFFICES ASSUME NEW i \in 1 .. n + 1 PROVE b[i] = BlockOf(cs2[i]) OBVIOUS
    <3>1. i \in 1 .. n \/ i = n + 1 BY <1>1
    <3> QED BY <1>1, <2>1, <3>1
  <2>4. BlocksOf(cs2) = [i \in 1 .. n + 1 |-> BlockOf(cs2[i])]
    BY <1>1, <1>4 DEF BlocksOf, InBlock, BlockOf
  <2>5. BlocksOf(cs2) = b BY <2>2, <2>3, <2>4
  <2> QED BY <1>4, <2>5 DEF b, cs2
<1>5. CASE ~ InBlock(c)
  <2>1. BlocksOf(cs2) = [i \in 1 .. n + 1 - 1 |-> BlockOf(cs2[i])]
    BY <1>1, <1>5 DEF BlocksOf, InBlock, BlockOf
  <2>2. n + 1 - 1 = n BY <1>1
  <2>3. Spine(cs) = [i \in 1 .. n |-> BlockOf(cs[i])] BY DEF Spine
  <2>4. BlocksOf(cs2) = Spine(cs) BY <1>1, <2>1, <2>2, <2>3
  <2> QED BY <1>5, <2>4 DEF cs2
<1> QED BY <1>4, <1>5

LEMMA CallsSplit ==
  ASSUME NEW cs \in Seq(CallRecords), cs # << >>
  PROVE  /\ cs = Append(Pop(cs), Top(cs)) /\ Pop(cs) \in Seq(CallRecords)
         /\ Top(cs) \in CallRecords /\ Len(cs) \in Nat \ {0}
<1>1. Len(cs) \in Nat /\ Len(cs) # 0 OBVIOUS
<1>2. Top(cs) \in CallRecords BY <1>1 DEF Top
<1>3. /\ Pop(cs) \in Seq(CallRecords) /\ Len(Pop(cs)) = Len(cs) - 1
      /\ \A i \in 1 .. Len(cs) - 1 : Pop(cs)[i] = cs[i]
  BY PopCalls
<1> DEFINE s == Append(Pop(cs), Top(cs))
<1>4. /\ s \in Seq(CallRecords) /\ Len(s) = Len(cs) /\ s[Len(cs)] = Top(cs)
      /\ \A i \in 1 .. Len(cs) - 1 : s[i] = cs[i]
  <2>1. Len(Pop(cs)) + 1 = Len(cs) BY <1>1, <1>3
  <2> QED BY <1>2, <1>3, <2>1, LastOfAppended
<1> HIDE DEF s
<1>5. \A i \in 1 .. Len(cs) : cs[i] = s[i]
  <2> SUFFICES ASSUME NEW i \in 1 .. Len(cs) PROVE cs[i] = s[i] OBVIOUS
  <2>1. i = Len(cs) \/ i \in 1 .. Len(cs) - 1 BY <1>1
  <2> QED BY <1>4, <2>1 DEF Top
<1>6. cs = s BY <1>4, <1>5, SameSeq
<1> QED BY <1>1, <1>2, <1>3, <1>6 DEF s

(* All calls but the innermost read a block. *)
LEMMA OuterBlocks ==
  ASSUME NEW cs \in Seq(CallRecords), cs # << >>, Nested(cs)
  PROVE  BlocksOf(Pop(cs)) = Spine(Pop(cs))
<1>1. /\ Pop(cs) \in Seq(CallRecords) /\ Len(Pop(cs)) = Len(cs) - 1 /\ Len(cs) - 1 \in Nat
      /\ \A i \in 1 .. Len(cs) - 1 : Pop(cs)[i] = cs[i]
  BY PopCalls
<1>2. CASE Pop(cs) = << >> BY <1>2, NoBlocks
<1>3. CASE Pop(cs) # << >>
  <2>1. Len(cs) - 1 # 0 BY <1>1, <1>3
  <2>2. Len(cs) - 1 \in 1 .. Len(cs) /\ Len(cs) - 1 < Len(cs) BY <1>1, <2>1
  <2>3. Top(Pop(cs)) = cs[Len(cs) - 1] BY <1>1, <2>1 DEF Top
  <2>4. InBlock(Top(Pop(cs))) BY <2>2, <2>3, BlockPlaces DEF Nested, InBlock
  <2> QED BY <1>3, <2>4, BlocksAreSpine
<1> QED BY <1>2, <1>3

-----------------------------------------------------------------------------
(* A call, in whose block the parser has reached the statement below.      *)
CallIn(g, c, below, blk) ==
  /\ c.at = "func" => g.funcs[c.owner].symbolTable # NULL
  /\ InBlock(c) /\ below # NULL => blk[below] = BlockOf(c)
  /\ c.at \in {"else_", "else", "elif"} => g.stat[c.owner].thenStatement # NULL

(* The first k calls; the last of them has reached b. *)
CallsIn(g, cs, k, b, blk) ==
  \A i \in 1 .. k :
    /\ i = 1 => cs[i].owner = g.activeFunc
    /\ CallIn(g, cs[i], IF i = k THEN b ELSE cs[i + 1].owner, blk)

CallBlocks(g, cs, blk) == CallsIn(g, cs, Len(cs), g.activeStat, blk)

LEMMA CallsInFewer ==
  ASSUME NEW g, NEW cs, NEW blk, NEW b, NEW k \in Nat, CallsIn(g, cs, k + 1, b, blk)
  PROVE  CallsIn(g, cs, k, cs[k + 1].owner, blk)
<1> SUFFICES ASSUME NEW i \in 1 .. k
             PROVE  /\ i = 1 => cs[i].owner = g.activeFunc
                    /\ CallIn(g, cs[i], IF i = k THEN cs[k + 1].owner ELSE cs[i + 1].owner, blk)
  BY DEF CallsIn
<1>1. i \in 1 .. k + 1 /\ i # k + 1 OBVIOUS
<1> QED BY <1>1 DEF CallsIn

LEMMA CallsInSame ==
  ASSUME NEW g, NEW cs, NEW cs2, NEW blk, NEW b, NEW k \in Nat, CallsIn(g, cs, k, b, blk),
         SamePrefix(cs, cs2, k)
  PROVE  CallsIn(g, cs2, k, b, blk)
<1> SUFFICES ASSUME NEW i \in 1 .. k
             PROVE  /\ i = 1 => cs2[i].owner = g.activeFunc
                    /\ CallIn(g, cs2[i], IF i = k THEN b ELSE cs2[i + 1].owner, blk)
  BY DEF CallsIn
<1>1. cs2[i] = cs[i] /\ (i # k => i + 1 \in 1 .. k /\ cs2[i + 1] = cs[i + 1]) BY DEF SamePrefix
<1> QED BY <1>1 DEF CallsIn

LEMMA CallsInMore ==
  ASSUME NEW g, NEW cs, NEW c, NEW cs2, NEW blk, NEW b, NEW k \in Nat \ {0},
         CallsIn(g, cs, k, c.owner, blk), SamePrefix(cs, cs2, k), cs2[k + 1] = c,
         CallIn(g, c, b, blk)
  PROVE  CallsIn(g, cs2, k + 1, b, blk)
<1>1. CallsIn(g, cs2, k, c.owner, blk) BY CallsInSame
<1> SUFFICES ASSUME NEW i \in 1 .. k + 1
             PROVE  /\ i = 1 => cs2[i].owner = g.activeFunc
                    /\ CallIn(g, cs2[i], IF i = k + 1 THEN b ELSE cs2[i + 1].owner, blk)
  BY DEF CallsIn
<1>2. CASE i = k + 1 BY <1>2
<1>3. CASE i # k + 1
  <2>1. i \in 1 .. k BY <1>3
  <2>2. CASE i = k BY <1>1, <1>3, <2>1, <2>2 DEF CallsIn
  <2>3. CASE i # k BY <1>1, <1>3, <2>1, <2>3 DEF CallsIn
  <2> QED BY <2>2, <2>3
<1> QED BY <1>2, <1>3

(* A step that keeps the blocks of the old statements keeps what is said   *)
(* of the calls.                                                           *)
KeepsBlocks(g, h, blk, blk2) ==
  /\ h.activeFunc = g.activeFunc
  /\ \A f \in 1 .. Len(g.funcs) : g.funcs[f].symbolTable # NULL => h.funcs[f].symbolTable # NULL
  /\ \A s \in Statements(g) :
       /\ blk2[s] = blk[s]
       /\ g.stat[s].thenStatement # NULL => h.stat[s].thenStatement # NULL

LEMMA CallsInKept ==
  ASSUME NEW g, NEW tables, GraphInv(g, tables), g.activeFunc # NULL,
         NEW cs, ParserInv(g, cs), Len(cs) \in Nat,
         NEW h, NEW blk, NEW blk2, KeepsBlocks(g, h, blk, blk2),
         NEW k \in Nat, k <= Len(cs), NEW b \in {NULL} \union Statements(g),
         CallsIn(g, cs, k, b, blk)
  PROVE  CallsIn(h, cs, k, b, blk2)
<1> SUFFICES ASSUME NEW i \in 1 .. k
             PROVE  /\ i = 1 => cs[i].owner = h.activeFunc
                    /\ CallIn(h, cs[i], IF i = k THEN b ELSE cs[i + 1].owner, blk2)
  BY DEF CallsIn
<1> DEFINE below == IF i = k THEN b ELSE cs[i + 1].owner
<1>1. i \in 1 .. Len(cs) /\ (i # k => i + 1 \in 2 .. Len(cs)) OBVIOUS
<1>2. (i = 1 => cs[i].owner = g.activeFunc) /\ CallIn(g, cs[i], below, blk) BY DEF CallsIn
<1>3. \A j \in 2 .. Len(cs) : cs[j].owner \in Statements(g)
  BY DEF ParserInv, AllOpen, Open
<1>4. below \in {NULL} \union Statements(g) BY <1>1, <1>3
<1>5. cs[i].at = "func" => i = 1 BY <1>1 DEF ParserInv, Nested
<1>6. cs[i].at \in {"else_", "else", "elif"} => i # 1 BY <1>1 DEF ParserInv, Nested
<1>7. g.activeFunc \in 1 .. Len(g.funcs) BY DEF GraphInv, GraphOK
<1> HIDE DEF below
<1>8. cs[i].at = "func" => h.funcs[cs[i].owner].symbolTable # NULL
  BY <1>2, <1>5, <1>7 DEF CallIn, KeepsBlocks
<1>9. below # NULL => below \in Statements(g) BY <1>4
<1>10. InBlock(cs[i]) /\ below # NULL => blk2[below] = BlockOf(cs[i])
  BY <1>2, <1>9 DEF CallIn, KeepsBlocks
<1>11. cs[i].at \in {"else_", "else", "elif"} => h.stat[cs[i].owner].thenStatement # NULL
  <2>1. i # 1 => i \in 2 .. Len(cs) BY <1>1
  <2> QED BY <1>2, <1>3, <1>6, <2>1 DEF CallIn, KeepsBlocks
<1>12. CallIn(h, cs[i], below, blk2) BY <1>8, <1>10, <1>11 DEF CallIn
<1>13. i = 1 => cs[i].owner = h.activeFunc BY <1>2 DEF KeepsBlocks
<1> QED BY <1>12, <1>13 DEF below

-----------------------------------------------------------------------------
(* The invariant that ties the calls to the blocks of the graph.           *)
MInv ==
  semantic_enabled =>
    \E blk : BlocksOK(graph, blk) /\ CallBlocks(graph, calls, blk)

(* The innermost block is that of the call k, and the active statement is  *)
(* in it.                                                                  *)
Located(g, cs, blk, k, b) ==
  /\ k \in 1 .. Len(cs) /\ InBlock(cs[k]) /\ b = BlockOf(cs[k])
  /\ BlocksOf(cs) # << >> /\ Top(BlocksOf(cs)) = b
  /\ ActiveIn(g, b, blk)
  /\ CallsIn(g, cs, k, g.activeStat, blk)

LEMMA TopOfSpine ==
  ASSUME NEW cs \in Seq(CallRecords), cs # << >>
  PROVE  Spine(cs) # << >> /\ Top(Spine(cs)) = BlockOf(Top(cs))
<1>1. Len(cs) \in Nat \ {0} /\ Len(Spine(cs)) = Len(cs) BY SpineIsSeq, CallsSplit
<1>2. Spine(cs)[Len(cs)] = BlockOf(cs[Len(cs)]) BY <1>1 DEF Spine
<1>3. Spine(cs) # << >>
  <2>1. Len(<< >>) = 0 OBVIOUS
  <2> QED BY <1>1, <2>1
<1> QED BY <1>1, <1>2, <1>3 DEF Top

LEMMA BlocksHere ==
  ASSUME NEW cs \in Seq(CallRecords), cs # << >>, Nested(cs)
  PROVE  BlocksOf(cs) = IF InBlock(Top(cs)) THEN Append(BlocksOf(Pop(cs)), BlockOf(Top(cs)))
                        ELSE BlocksOf(Pop(cs))
<1>1. cs = Append(Pop(cs), Top(cs)) /\ Pop(cs) \in Seq(CallRecords) /\ Top(cs) \in CallRecords
  BY CallsSplit
<1>2. BlocksOf(Pop(cs)) = Spine(Pop(cs)) BY OuterBlocks
<1> QED BY <1>1, <1>2, BlocksOfCall

LEMMA InBlockLocated ==
  ASSUME NEW g, NEW tables, GraphInv(g, tables), NEW cs \in Seq(CallRecords), cs # << >>,
         ParserInv(g, cs), InBlock(Top(cs)), NEW blk, BlocksOK(g, blk), CallBlocks(g, cs, blk)
  PROVE  Located(g, cs, blk, Len(cs), BlockOf(Top(cs)))
<1> DEFINE b == BlockOf(Top(cs))
           a == g.activeStat
           k == Len(cs)
<1>1. k \in 1 .. Len(cs) /\ cs[k] = Top(cs) BY CallsSplit DEF Top
<1>2. BlocksOf(cs) # << >> /\ Top(BlocksOf(cs)) = b BY BlocksAreSpine, TopOfSpine
<1>3. CallsIn(g, cs, k, a, blk) BY DEF CallBlocks
<1>4. CallIn(g, Top(cs), a, blk) /\ (k = 1 => Top(cs).owner = g.activeFunc)
  BY <1>1, <1>3 DEF CallsIn
<1>5. CASE Top(cs).at = "func"
  <2>1. k = 1 BY <1>1, <1>5 DEF ParserInv, Nested
  <2>2. b = <<g.activeFunc, "func">> BY <1>4, <1>5, <2>1, BlockPlaces DEF BlockOf
  <2>3. g.activeFunc # NULL BY DEF ParserInv, InnermostCall
  <2>4. g.activeFunc \in 1 .. Len(g.funcs) BY <2>3 DEF GraphInv, GraphOK
  <2>5. g.funcs[g.activeFunc].symbolTable # NULL BY <1>4, <1>5, <2>1 DEF CallIn
  <2>6. b \in Blocks(g) BY <2>2, <2>4, <2>5, BlocksAre
  <2>7. ActiveIn(g, b, blk) BY <1>4, <2>2, <2>6 DEF ActiveIn, CallIn
  <2> QED BY <1>1, <1>2, <1>3, <2>7 DEF Located
<1>6. CASE Top(cs).at # "func"
  <2>1. Top(cs).at \in Arms BY <1>6, BlockPlaces DEF InBlock
  <2>2. a # NULL /\ a \in Statements(g) BY <2>1, ArmOwner
  <2>3. blk[a] = b BY <1>4, <2>2 DEF CallIn
  <2>4. b \in Blocks(g) BY <2>2, <2>3 DEF BlocksOK
  <2>5. ActiveIn(g, b, blk) BY <2>2, <2>3, <2>4 DEF ActiveIn
  <2> QED BY <1>1, <1>2, <1>3, <2>5 DEF Located
<1> QED BY <1>5, <1>6

LEMMA HeaderLocated ==
  ASSUME NEW g, NEW tables, GraphInv(g, tables), NEW cs \in Seq(CallRecords), cs # << >>,
         ParserInv(g, cs), Top(cs).at \in Headers,
         NEW blk, BlocksOK(g, blk), CallBlocks(g, cs, blk)
  PROVE  /\ Located(g, cs, blk, Len(cs) - 1, BlockOf(cs[Len(cs) - 1]))
         /\ BlocksOf(cs) = BlocksOf(Pop(cs))
<1> DEFINE k == Len(cs) - 1
           b == BlockOf(cs[k])
           a == g.activeStat
<1>1. /\ Len(cs) \in 2 .. Len(cs) /\ Top(cs) = cs[Len(cs)] /\ k \in 1 .. Len(cs)
      /\ a = Top(cs).owner /\ a \in Statements(g) /\ a # NULL
  BY HeaderOwner
<1>2. Nested(cs) BY DEF ParserInv
<1>3. InBlock(cs[k]) BY <1>1, <1>2, BlockPlaces DEF Nested, InBlock
<1>4. ~ InBlock(Top(cs)) BY BlockPlaces DEF InBlock
<1>5. BlocksOf(cs) = BlocksOf(Pop(cs)) BY <1>2, <1>4, BlocksHere
<1>6. /\ Pop(cs) \in Seq(CallRecords) /\ Pop(cs) # << >> /\ Top(Pop(cs)) = cs[k]
  <2>1. /\ Pop(cs) \in Seq(CallRecords) /\ Len(Pop(cs)) = k
        /\ \A i \in 1 .. k : Pop(cs)[i] = cs[i]
    BY PopCalls
  <2>2. k \in 1 .. k BY <1>1
  <2> HIDE DEF k
  <2> QED BY <2>1, <2>2 DEF Top
<1>7. BlocksOf(cs) # << >> /\ Top(BlocksOf(cs)) = b
  BY <1>2, <1>5, <1>6, OuterBlocks, TopOfSpine
<1>8. CallsIn(g, cs, k, a, blk)
  <2>1. k \in Nat /\ k + 1 = Len(cs) BY <1>1
  <2>2. CallsIn(g, cs, k + 1, a, blk) BY <2>1 DEF CallBlocks
  <2> HIDE DEF k
  <2>3. CallsIn(g, cs, k, cs[k + 1].owner, blk) BY <2>1, <2>2, CallsInFewer
  <2> QED BY <1>1, <2>1, <2>3
<1>9. CallIn(g, cs[k], a, blk)
  <2>1. k \in 1 .. k BY <1>1
  <2> HIDE DEF k
  <2> QED BY <1>8, <2>1 DEF CallsIn
<1>10. blk[a] = b BY <1>1, <1>3, <1>9 DEF CallIn
<1>11. b \in Blocks(g) BY <1>1, <1>10 DEF BlocksOK
<1>12. ActiveIn(g, b, blk) BY <1>1, <1>10, <1>11 DEF ActiveIn
<1> QED BY <1>1, <1>3, <1>5, <1>7, <1>8, <1>12 DEF Located

-----------------------------------------------------------------------------
(* The steps of SourceNesting, from what becomes of the blocks.            *)

(* Whatever is recorded is a statement of the graph. *)
LEMMA RecordedIn ==
  ASSUME IInv, NEW blk, BlocksOK(graph, blk)
  PROVE  NewId(graph) \notin Source!Recorded
<1>1. GraphInv(graph, allocated) /\ FollowsLater(graph) BY InvFollowsLater DEF IInv
<1>2. ASSUME NEW b \in Blocks(graph) PROVE ContentOf(graph)[b] \in Seq(Statements(graph))
  <2>1. /\ ContentOf(graph)[b] = Chain(graph)[FirstOf(graph, b)]
        /\ FirstOf(graph, b) \in {NULL} \union Statements(graph)
    BY <1>1, FirstIsIn, ContentIs
  <2>2. << >> \in Seq(Statements(graph)) OBVIOUS
  <2> QED BY <1>1, <2>1, <2>2, ChainUnfolds, ChainIsSeq DEF ChainAt
<1>3. NewId(graph) \notin Statements(graph)
  <2>1. Len(graph.stat) \in Nat BY <1>1 DEF FollowsLater
  <2> QED BY <2>1 DEF NewId, Statements
<1>4. DOMAIN ContentOf(graph) = Blocks(graph) BY ContentIs
<1>5. ASSUME NEW b \in Blocks(graph), NEW i \in 1 .. Len(ContentOf(graph)[b])
      PROVE  ContentOf(graph)[b][i] \in Statements(graph)
  BY <1>2
<1> QED BY <1>3, <1>4, <1>5 DEF Source!Recorded

(* The statement last read is the active one, where it may get an arm.     *)
LEMMA LastIsActive ==
  ASSUME NEW g, NEW tables, GraphInv(g, tables), NEW blk, BlocksOK(g, blk),
         NEW b, ActiveIn(g, b, blk), g.activeFunc # NULL,
         g.activeStat # NULL, g.stat[g.activeStat].statementType # "CF_BASIC"
  PROVE  ContentOf(g)[b] # << >> /\ Top(ContentOf(g)[b]) = g.activeStat
<1>1. FirstOf(g, b) # NULL /\ Top(Chain(g)[FirstOf(g, b)]) = g.activeStat BY EndsInActive
<1>2. b \in Blocks(g) BY DEF ActiveIn
<1>3. FirstOf(g, b) \in Statements(g) BY <1>1, <1>2, FirstIsIn
<1>4. ChainAt(g, FirstOf(g, b)) BY <1>3, InvFollowsLater, ChainIsSeq
<1>5. ContentOf(g)[b] = Chain(g)[FirstOf(g, b)] BY <1>2, ContentIs
<1> QED BY <1>1, <1>4, <1>5 DEF ChainAt

LEMMA ReadMaps ==
  ASSUME Reading, UNCHANGED result, Source!Read
  PROVE  Source!Next
BY DEF Source!Next, Reading, semantic_enabled

LEMMA AddMaps ==
  ASSUME Reading, UNCHANGED result, NEW n \in 1 .. MaxSize, n \notin Source!Recorded,
         BlocksOf(calls) # << >>, NEW b, b = Top(BlocksOf(calls)),
         ContentOf(graph') = [ContentOf(graph) EXCEPT ![b] = Append(@, n)],
         BlocksOf(calls') = BlocksOf(calls)
  PROVE  Source!Next
<1>1. Source!Innermost = b BY DEF Source!Innermost, Top
<1>2. Source!Add(n) BY <1>1 DEF Source!Add
<1>3. Source!Read BY <1>2 DEF Source!Read, Source!Ids
<1> QED BY <1>3, ReadMaps

LEMMA OpenArmMaps ==
  ASSUME Reading, UNCHANGED result, BlocksOf(calls) # << >>, NEW b, b = Top(BlocksOf(calls)),
         ContentOf(graph)[b] # << >>, NEW a, Top(ContentOf(graph)[b]) = a,
         NEW arm \in {"then", "else", "body"}, <<a, arm>> \notin DOMAIN ContentOf(graph),
         arm = "else" => <<a, "then">> \in DOMAIN ContentOf(graph),
         ContentOf(graph') = Source!With(ContentOf(graph), <<a, arm>>, << >>),
         BlocksOf(calls') = Append(BlocksOf(calls), <<a, arm>>)
  PROVE  Source!Next
<1>1. Source!Innermost = b BY DEF Source!Innermost, Top
<1>2. Source!LastStatement = a BY <1>1 DEF Source!LastStatement, Top
<1>3. Source!OpenArm(arm) BY <1>1, <1>2 DEF Source!OpenArm
<1>4. Source!Read BY <1>3 DEF Source!Read, Source!Arms
<1> QED BY <1>4, ReadMaps

LEMMA OpenElseIfMaps ==
  ASSUME Reading, UNCHANGED result, BlocksOf(calls) # << >>, NEW b, b = Top(BlocksOf(calls)),
         ContentOf(graph)[b] # << >>, NEW a, Top(ContentOf(graph)[b]) = a,
         NEW n \in 1 .. MaxSize, n \notin Source!Recorded,
         <<a, "else">> \notin DOMAIN ContentOf(graph),
         <<a, "then">> \in DOMAIN ContentOf(graph),
         ContentOf(graph') = Source!With(ContentOf(graph), <<a, "else">>, <<n>>),
         BlocksOf(calls') = Append(BlocksOf(calls), <<a, "else">>)
  PROVE  Source!Next
<1>1. Source!Innermost = b BY DEF Source!Innermost, Top
<1>2. Source!LastStatement = a BY <1>1 DEF Source!LastStatement, Top
<1>3. Source!OpenElseIf(n) BY <1>1, <1>2 DEF Source!OpenElseIf
<1>4. Source!Read BY <1>3 DEF Source!Read, Source!Ids
<1> QED BY <1>4, ReadMaps

LEMMA OpenFunctionMaps ==
  ASSUME Reading, UNCHANGED result, BlocksOf(calls) = << >>, NEW f \in 1 .. MaxSize,
         <<f, "func">> \notin DOMAIN ContentOf(graph),
         ContentOf(graph') = Source!With(ContentOf(graph), <<f, "func">>, << >>),
         BlocksOf(calls') = << <<f, "func">> >>
  PROVE  Source!Next
<1>1. Source!OpenFunction(f) BY DEF Source!OpenFunction
<1>2. Source!Read BY <1>1 DEF Source!Read, Source!Ids
<1> QED BY <1>2, ReadMaps

LEMMA CloseMaps ==
  ASSUME Reading, UNCHANGED result, ContentOf(graph') = ContentOf(graph),
         NEW S, NEW low \in Seq(S), NEW b \in S,
         BlocksOf(calls) = Append(low, b), BlocksOf(calls') = low
  PROVE  Source!Next
<1>1. Append(low, b) # << >> /\ SubSeq(Append(low, b), 1, Len(Append(low, b)) - 1) = low
  <2>1. /\ Append(low, b) \in Seq(S) /\ Append(low, b) # << >> /\ Len(Append(low, b)) = Len(low) + 1
        /\ Len(low) \in Nat /\ \A i \in 1 .. Len(low) : Append(low, b)[i] = low[i]
    BY LastOfAppended
  <2> DEFINE s == Append(low, b)
             t == SubSeq(s, 1, Len(s) - 1)
  <2> HIDE DEF s
  <2>2. s \in Seq(S) /\ Len(s) - 1 = Len(low) /\ Len(low) <= Len(s) /\ Len(s) \in Nat
        /\ \A i \in 1 .. Len(low) : s[i] = low[i]
    BY <2>1 DEF s
  <2>3. t \in Seq(S) /\ Len(t) = Len(low) /\ \A i \in 1 .. Len(low) : t[i] = low[i]
    BY <2>1, <2>2
  <2> HIDE DEF t
  <2>4. t = low BY <2>3, SameSeq
  <2> QED BY <2>1, <2>4 DEF s, t
<1>2. Source!Close BY <1>1 DEF Source!Close
<1>3. Source!Read BY <1>2 DEF Source!Read
<1> QED BY <1>3, ReadMaps

MapOK == MInv' /\ [Source!Next]_<<ContentOf(graph), BlocksOf(calls), ~semantic_enabled>>

LEMMA QuietMaps ==
  ASSUME UNCHANGED result, ContentOf(graph') = ContentOf(graph), BlocksOf(calls') = BlocksOf(calls)
  PROVE  [Source!Next]_<<ContentOf(graph), BlocksOf(calls), ~semantic_enabled>>
BY DEF semantic_enabled

-----------------------------------------------------------------------------
(* A statement follows the active one. *)

(* The calls after a step, from those that it leaves.                      *)
LEMMA BlocksLeft ==
  ASSUME NEW h, NEW cs, NEW k \in Nat, NEW blk, CallsIn(h, cs, k, h.activeStat, blk),
         NEW cs2, Len(cs2) = k, SamePrefix(cs, cs2, k)
  PROVE  CallBlocks(h, cs2, blk)
BY CallsInSame DEF CallBlocks

LEMMA BlocksAndCall ==
  ASSUME NEW h, NEW cs, NEW k \in Nat \ {0}, NEW blk, NEW c,
         CallsIn(h, cs, k, c.owner, blk), CallIn(h, c, h.activeStat, blk),
         NEW cs2, Len(cs2) = k + 1, SamePrefix(cs, cs2, k), cs2[k + 1] = c
  PROVE  CallBlocks(h, cs2, blk)
BY CallsInMore DEF CallBlocks

LEMMA GrowsKeepsBlocks ==
  ASSUME NEW g, NEW tables, GraphInv(g, tables), NEW h, NEW edge \in Edges, NEW type,
         Grows(g, h, edge, type, FuncNames), NEW blk, NEW b
  PROVE  KeepsBlocks(g, h, blk, Extended(g, h, blk, b))
<1>1. NewAdded(g, h, type) /\ \A s \in Statements(g) : OldKept(g, h, edge, s)
  BY GrowsNew, GrowsOld
<1>2. \A s \in Statements(g) : Extended(g, h, blk, b)[s] = blk[s] BY <1>1 DEF NewAdded, Extended
<1>3. \A s \in Statements(g) : g.stat[s].thenStatement # NULL => h.stat[s].thenStatement # NULL
  <2>1. NewId(g) # NULL BY <1>1 DEF NewAdded
  <2>2. "thenStatement" \in Edges BY DEF Edges
  <2>3. \A s \in Statements(g) : h.stat[s].thenStatement =
           IF s = g.activeStat /\ "thenStatement" = edge THEN NewId(g) ELSE g.stat[s].thenStatement
    BY <1>1, <2>2 DEF OldKept
  <2> QED BY <2>1, <2>3
<1>4. /\ h.activeFunc = g.activeFunc
      /\ \A f \in 1 .. Len(g.funcs) : h.funcs[f].symbolTable = g.funcs[f].symbolTable
  BY DEF Grows, FunctionsKept
<1> QED BY <1>2, <1>3, <1>4 DEF KeepsBlocks

(* What the innermost call reads, as the graph is before the step.         *)
StatementAdded(type, k, b, blk) ==
  /\ IInv /\ IInv' /\ Reading /\ UNCHANGED result /\ Room(1)
  /\ calls # << >>
  /\ Grows(graph, graph', "followingStatement", type, FuncNames)
  /\ BlocksOK(graph, blk) /\ Located(graph, calls, blk, k, b)

LEMMA AddedFacts ==
  ASSUME NEW type, NEW k, NEW b, NEW blk, StatementAdded(type, k, b, blk)
  PROVE  /\ GraphInv(graph, allocated) /\ GraphInv(graph', allocated')
         /\ graph.activeFunc # NULL /\ ParserInv(graph, calls)
         /\ calls \in Seq(CallRecords) /\ Len(calls) \in Nat
         /\ k \in 1 .. Len(calls) /\ k \in Nat /\ k # 0 /\ k <= Len(calls)
         /\ ActiveIn(graph, b, blk) /\ b = BlockOf(calls[k]) /\ InBlock(calls[k])
         /\ Behind(graph, graph', type)
         /\ graph'.activeStat = NewId(graph)
<1>1. GraphInv(graph, allocated) /\ GraphInv(graph', allocated')
  BY DEF StatementAdded, IInv
<1>2. ParserInv(graph, calls) BY DEF StatementAdded, IInv, Reading
<1>3. graph.activeFunc # NULL BY <1>2 DEF StatementAdded, ParserInv, InnermostCall
<1>4. calls \in Seq(CallRecords) /\ Len(calls) \in Nat BY DEF StatementAdded, IInv, CallsOK
<1>5. k \in 1 .. Len(calls) /\ ActiveIn(graph, b, blk) /\ b = BlockOf(calls[k]) /\ InBlock(calls[k])
  BY DEF StatementAdded, Located
<1>6. k \in Nat /\ k # 0 /\ k <= Len(calls) BY <1>4, <1>5
<1>7. Grows(graph, graph', "followingStatement", type, FuncNames) BY DEF StatementAdded
<1>8. Behind(graph, graph', type) BY <1>1, <1>7, FollowIsBehind
<1>9. graph'.activeStat = NewId(graph) BY <1>7 DEF Grows
<1> QED BY <1>1, <1>2, <1>3, <1>4, <1>5, <1>6, <1>8, <1>9

(* Its blocks are right, and the calls up to k are at the new statement.   *)
LEMMA AddedBlocksOK ==
  ASSUME NEW type, NEW k, NEW b, NEW blk, StatementAdded(type, k, b, blk)
  PROVE  /\ BlocksOK(graph', Extended(graph, graph', blk, b))
         /\ CallsIn(graph', calls, k, NewId(graph), Extended(graph, graph', blk, b))
<1> DEFINE blk2 == Extended(graph, graph', blk, b)
           n == NewId(graph)
           h == graph'
           more == allocated'
<1>1. /\ GraphInv(graph, allocated) /\ GraphInv(h, more)
      /\ graph.activeFunc # NULL /\ ParserInv(graph, calls)
      /\ calls \in Seq(CallRecords) /\ Len(calls) \in Nat
      /\ k \in 1 .. Len(calls) /\ k \in Nat /\ k # 0 /\ k <= Len(calls)
      /\ ActiveIn(graph, b, blk) /\ b = BlockOf(calls[k]) /\ InBlock(calls[k])
      /\ Behind(graph, h, type)
  BY AddedFacts
<1>2. BlocksOK(graph, blk) /\ Grows(graph, h, "followingStatement", type, FuncNames)
  BY DEF StatementAdded
<1> HIDE DEF h, more
<1>3. BlocksOK(h, Extended(graph, h, blk, b)) BY <1>1, <1>2, BehindBlocksOK
<1>4. KeepsBlocks(graph, h, blk, Extended(graph, h, blk, b))
  BY <1>1, <1>2, GrowsKeepsBlocks DEF Edges
<1>5. CallsIn(graph, calls, k, graph.activeStat, blk) BY DEF StatementAdded, Located
<1>6. graph.activeStat \in {NULL} \union Statements(graph) BY <1>1 DEF GraphInv, GraphOK
<1>7. CallsIn(h, calls, k, graph.activeStat, Extended(graph, h, blk, b))
  BY <1>1, <1>4, <1>5, <1>6, CallsInKept
<1>8. Extended(graph, h, blk, b)[n] = b BY <1>1 DEF Behind, Extended
<1> DEFINE blk3 == Extended(graph, h, blk, b)
<1> HIDE DEF blk3, n
<1>9. ASSUME NEW i \in 1 .. k
      PROVE  /\ i = 1 => calls[i].owner = h.activeFunc
             /\ CallIn(h, calls[i], IF i = k THEN n ELSE calls[i + 1].owner, blk3)
  <2>1. /\ i = 1 => calls[i].owner = h.activeFunc
        /\ CallIn(h, calls[i], IF i = k THEN graph.activeStat ELSE calls[i + 1].owner, blk3)
    BY <1>7 DEF CallsIn, blk3
  <2>2. blk3[n] = BlockOf(calls[k]) BY <1>1, <1>8 DEF blk3
  <2>3. CASE i = k BY <1>1, <2>1, <2>2, <2>3 DEF CallIn
  <2>4. CASE i # k BY <2>1, <2>4
  <2> QED BY <2>3, <2>4
<1>10. CallsIn(h, calls, k, n, blk3) BY <1>9 DEF CallsIn
<1> QED BY <1>3, <1>10 DEF blk3, n, h

LEMMA AddedMaps ==
  ASSUME NEW type, NEW k, NEW b, NEW blk, StatementAdded(type, k, b, blk),
         BlocksOf(calls') = BlocksOf(calls)
  PROVE  Source!Next
<1> DEFINE n == NewId(graph)
           h == graph'
<1>1. /\ GraphInv(graph, allocated) /\ graph.activeFunc # NULL
      /\ ActiveIn(graph, b, blk) /\ Behind(graph, h, type)
  BY AddedFacts
<1>2. /\ BlocksOK(graph, blk) /\ IInv /\ Room(1) /\ Reading /\ UNCHANGED result
      /\ BlocksOf(calls) # << >> /\ b = Top(BlocksOf(calls))
  BY DEF StatementAdded, Located
<1> HIDE DEF h
<1>3. ContentOf(h) = [ContentOf(graph) EXCEPT ![b] = Append(@, n)] BY <1>1, <1>2, BehindContent
<1>4. n \in 1 .. MaxSize BY <1>2, NewIdFits
<1>5. n \notin Source!Recorded BY <1>2, RecordedIn
<1> HIDE DEF n
<1>6. ContentOf(graph') = [ContentOf(graph) EXCEPT ![b] = Append(@, n)] BY <1>3 DEF h
<1> QED BY <1>2, <1>4, <1>5, <1>6, AddMaps

(* The invariant after a step, for one map of the statements.              *)
LEMMA MInvAfter ==
  ASSUME NEW blk, BlocksOK(graph', blk), CallBlocks(graph', calls', blk)
  PROVE  MInv'
BY DEF MInv

LEMMA MInvHere ==
  ASSUME IInv, MInv, Reading
  PROVE  /\ \E blk : BlocksOK(graph, blk) /\ CallBlocks(graph, calls, blk)
         /\ GraphInv(graph, allocated) /\ ParserInv(graph, calls) /\ Nested(calls)
         /\ calls \in Seq(CallRecords) /\ Len(calls) \in Nat
BY DEF MInv, IInv, Reading, CallsOK, ParserInv

(* A return, an if or a for is entered. *)
LEMMA EntersMaps ==
  ASSUME IInv, IInv', MInv, Reading, InBody, Room(1), UNCHANGED result,
         NEW at \in {"return", "if_cond", "for_header"}, NEW type,
         Grows(graph, graph', "followingStatement", type, FuncNames),
         Enter(at, Len(graph.stat) + 1)
  PROVE  MapOK
<1> DEFINE n == NewId(graph)
           c == Call(at, n)
           k == Len(calls)
           b == BlockOf(Top(calls))
           cs2 == calls'
<1>1. PICK blk : BlocksOK(graph, blk) /\ CallBlocks(graph, calls, blk) BY MInvHere
<1>2. /\ GraphInv(graph, allocated) /\ ParserInv(graph, calls) /\ Nested(calls)
      /\ calls \in Seq(CallRecords)
  BY MInvHere
<1>3. Top(calls).at \in Arms \union {"func"} /\ calls # << >>
  BY InBodyCall DEF At
<1>4. InBlock(Top(calls)) BY <1>3, BlockPlaces DEF InBlock
<1>5. Located(graph, calls, blk, k, b) BY <1>1, <1>2, <1>3, <1>4, InBlockLocated
<1>6. StatementAdded(type, k, b, blk) BY <1>1, <1>3, <1>5 DEF StatementAdded
<1>7. k \in Nat /\ k # 0 /\ graph'.activeStat = n BY <1>6, AddedFacts
<1>8. c \in CallRecords /\ ~ InBlock(c) /\ c.owner = n /\ c.at = at
  <2>1. n \in Nat BY <1>2, GraphParts DEF NewId, GraphInv
  <2>2. at \in Places /\ at \in Headers BY DEF Places, Headers
  <2>3. c.owner = n /\ c.at = at /\ c \in CallRecords BY <2>1, <2>2 DEF Call, CallRecords
  <2>4. ~ InBlock(c) BY <2>2, <2>3, BlockPlaces DEF InBlock
  <2> QED BY <2>3, <2>4
<1>9. cs2 = Append(calls, c) BY DEF Enter, NewId
<1> DEFINE blk2 == Extended(graph, graph', blk, b)
<1>10. BlocksOK(graph', blk2) /\ CallsIn(graph', calls, k, n, blk2) BY <1>6, AddedBlocksOK
<1> HIDE DEF blk2, n, c, k, b, cs2
<1>11. CallIn(graph', c, n, blk2) BY <1>8 DEF CallIn
<1>12. Len(cs2) = k + 1 /\ SamePrefix(calls, cs2, k) /\ cs2[k + 1] = c
  BY <1>2, <1>8, <1>9, LastOfAppended DEF SamePrefix, k
<1>13. CallBlocks(graph', cs2, blk2) BY <1>7, <1>8, <1>10, <1>11, <1>12, BlocksAndCall
<1>14. MInv' BY <1>10, <1>13, MInvAfter DEF cs2
<1>15. BlocksOf(cs2) = BlocksOf(calls)
  <2>1. BlocksOf(cs2) = Spine(calls) BY <1>2, <1>8, <1>9, BlocksOfCall
  <2>2. BlocksOf(calls) = Spine(calls) BY <1>3, <1>4, BlocksAreSpine
  <2> QED BY <2>1, <2>2
<1>16. Source!Next BY <1>6, <1>15, AddedMaps DEF cs2
<1> QED BY <1>14, <1>16 DEF MapOK

LEMMA ReturnKeywordMaps ==
  ASSUME IInv, IInv', MInv, ReturnKeyword
  PROVE  MapOK
<1>1. Grows(graph, graph', "followingStatement", "CF_RETURN", FuncNames) BY ReturnKeywordGrows
<1> QED BY <1>1, EntersMaps DEF ReturnKeyword

LEMMA IfMaps ==
  ASSUME IInv, IInv', MInv, If
  PROVE  MapOK
<1>1. Grows(graph, graph', "followingStatement", "CF_IF", FuncNames) BY IfGrows
<1> QED BY <1>1, EntersMaps DEF If

LEMMA ForMaps ==
  ASSUME IInv, IInv', MInv, For
  PROVE  MapOK
<1>1. Grows(graph, graph', "followingStatement", "CF_FOR", FuncNames) BY ForGrows
<1> QED BY <1>1, EntersMaps DEF For

(* An expression statement, in a block or after an empty return.           *)
LEMMA ExpressionMaps ==
  ASSUME IInv, IInv', MInv, Expression
  PROVE  MapOK
<1> DEFINE n == NewId(graph)
           cs2 == calls'
<1>0. /\ Reading /\ Room(1) /\ UNCHANGED result
      /\ calls' = IF At("id_next") THEN Pop(calls) ELSE calls
  BY DEF Expression, Return
<1>1. PICK blk : BlocksOK(graph, blk) /\ CallBlocks(graph, calls, blk) BY <1>0, MInvHere
<1>2. /\ GraphInv(graph, allocated) /\ ParserInv(graph, calls) /\ Nested(calls)
      /\ calls \in Seq(CallRecords) /\ Len(calls) \in Nat
  BY <1>0, MInvHere
<1>3. /\ calls # << >> /\ Top(calls).at \in Arms \union {"func", "id_next"}
      /\ Grows(graph, graph', "followingStatement", "CF_BASIC", FuncNames)
  BY ExpressionGrows
<1>4. CASE Top(calls).at # "id_next"
  <2> DEFINE k == Len(calls)
             b == BlockOf(Top(calls))
             blk2 == Extended(graph, graph', blk, b)
  <2>1. InBlock(Top(calls)) BY <1>3, <1>4, BlockPlaces DEF InBlock
  <2>2. Located(graph, calls, blk, k, b) BY <1>1, <1>2, <1>3, <2>1, InBlockLocated
  <2>3. StatementAdded("CF_BASIC", k, b, blk) BY <1>0, <1>1, <1>3, <2>2 DEF StatementAdded
  <2>4. graph'.activeStat = n BY <2>3, AddedFacts
  <2>5. BlocksOK(graph', blk2) /\ CallsIn(graph', calls, k, n, blk2) BY <2>3, AddedBlocksOK
  <2>6. calls' = calls BY <1>0, <1>4 DEF At
  <2> HIDE DEF blk2, b
  <2>7. CallBlocks(graph', calls', blk2) BY <2>4, <2>5, <2>6 DEF CallBlocks
  <2>8. MInv' BY <2>5, <2>7, MInvAfter
  <2>9. Source!Next BY <2>3, <2>6, AddedMaps
  <2> QED BY <2>8, <2>9 DEF MapOK
<1>5. CASE Top(calls).at = "id_next"
  <2> DEFINE k == Len(calls) - 1
             b == BlockOf(calls[k])
             blk2 == Extended(graph, graph', blk, b)
  <2>1. Top(calls).at \in Headers BY <1>5 DEF Headers
  <2>2. Located(graph, calls, blk, k, b) /\ BlocksOf(calls) = BlocksOf(Pop(calls))
    BY <1>1, <1>2, <1>3, <2>1, HeaderLocated
  <2>3. StatementAdded("CF_BASIC", k, b, blk) BY <1>0, <1>1, <1>3, <2>2 DEF StatementAdded
  <2>4. k \in Nat /\ graph'.activeStat = n BY <2>3, AddedFacts
  <2>5. BlocksOK(graph', blk2) /\ CallsIn(graph', calls, k, n, blk2) BY <2>3, AddedBlocksOK
  <2>6. cs2 = Pop(calls) BY <1>0, <1>3, <1>5 DEF At
  <2> HIDE DEF blk2, b, cs2
  <2>7. Len(cs2) = k /\ SamePrefix(calls, cs2, k)
    BY <1>2, <1>3, <2>6, PopCalls DEF SamePrefix
  <2> HIDE DEF k, n
  <2>8. CallBlocks(graph', cs2, blk2) BY <2>4, <2>5, <2>7, BlocksLeft
  <2>9. MInv' BY <2>5, <2>8, MInvAfter DEF cs2
  <2>10. Source!Next BY <2>2, <2>3, <2>6, AddedMaps DEF cs2
  <2> QED BY <2>9, <2>10 DEF MapOK
<1> QED BY <1>4, <1>5

-----------------------------------------------------------------------------
(* An arm of the active statement is entered. *)
ArmEntered(arm, type, blk) ==
  /\ IInv /\ IInv' /\ Reading /\ UNCHANGED result /\ Room(1)
  /\ calls # << >> /\ Top(calls).at \in Headers
  /\ graph.stat[graph.activeStat].statementType \in {"CF_IF", "CF_FOR"}
  /\ arm \in DOMAIN ArmField /\ type \in {"CF_BASIC", "CF_IF"}
  /\ EdgeIsFree(graph, ArmField[arm])
  /\ Grows(graph, graph', ArmField[arm], type, FuncNames)
  /\ arm = "else" => graph.stat[graph.activeStat].thenStatement # NULL
  /\ BlocksOK(graph, blk) /\ CallBlocks(graph, calls, blk)

LEMMA EnteredFacts ==
  ASSUME NEW arm, NEW type, NEW blk, ArmEntered(arm, type, blk)
  PROVE  /\ GraphInv(graph, allocated) /\ GraphInv(graph', allocated')
         /\ graph.activeFunc # NULL /\ ParserInv(graph, calls) /\ Nested(calls)
         /\ calls \in Seq(CallRecords) /\ Len(calls) \in Nat
         /\ Len(calls) - 1 \in Nat \ {0}
         /\ graph.activeStat = Top(calls).owner /\ graph.activeStat \in Statements(graph)
         /\ graph.activeStat # NULL
         /\ Located(graph, calls, blk, Len(calls) - 1, BlockOf(calls[Len(calls) - 1]))
         /\ BlocksOf(calls) = BlocksOf(Pop(calls)) /\ BlocksOf(calls) = Spine(Pop(calls))
         /\ InArm(graph, graph', arm, type)
         /\ graph'.activeStat = NewId(graph)
<1>1. GraphInv(graph, allocated) /\ GraphInv(graph', allocated')
  BY DEF ArmEntered, IInv
<1>2. ParserInv(graph, calls) /\ Nested(calls)
  BY DEF ArmEntered, IInv, Reading, ParserInv
<1>3. calls \in Seq(CallRecords) /\ Len(calls) \in Nat /\ calls # << >>
  BY DEF ArmEntered, IInv, CallsOK
<1>4. /\ Len(calls) \in 2 .. Len(calls)
      /\ graph.activeStat = Top(calls).owner /\ graph.activeStat \in Statements(graph)
      /\ graph.activeStat # NULL
  BY <1>1, <1>2, <1>3, HeaderOwner DEF ArmEntered
<1>5. graph.activeFunc # NULL BY <1>2, <1>3 DEF ParserInv, InnermostCall
<1>6. /\ Located(graph, calls, blk, Len(calls) - 1, BlockOf(calls[Len(calls) - 1]))
      /\ BlocksOf(calls) = BlocksOf(Pop(calls))
  BY <1>1, <1>2, <1>3, HeaderLocated DEF ArmEntered
<1>7. BlocksOf(calls) = Spine(Pop(calls)) BY <1>2, <1>3, <1>6, OuterBlocks
<1>8. InArm(graph, graph', arm, type)
  <2> DEFINE h == graph'
             more == allocated'
  <2>1. GraphInv(h, more) /\ Grows(graph, h, ArmField[arm], type, FuncNames)
    BY <1>1 DEF ArmEntered
  <2> HIDE DEF h, more
  <2>2. InArm(graph, h, arm, type) BY <1>1, <1>4, <2>1, BranchIsInArm DEF ArmEntered
  <2> QED BY <2>2 DEF h
<1>9. graph'.activeStat = NewId(graph) BY DEF ArmEntered, Grows
<1>10. Len(calls) - 1 \in Nat \ {0}
  <2> DEFINE m == Len(calls)
  <2>1. m \in Nat /\ m \in 2 .. m BY <1>3, <1>4
  <2> HIDE DEF m
  <2>2. m - 1 \in Nat \ {0} BY <2>1
  <2> QED BY <2>2 DEF m
<1> QED BY <1>1, <1>2, <1>3, <1>4, <1>5, <1>6, <1>7, <1>8, <1>9, <1>10

LEMMA EnteredBlocksOK ==
  ASSUME NEW arm, NEW type, NEW blk, ArmEntered(arm, type, blk), NEW blk2,
         blk2 = Extended(graph, graph', blk, <<graph.activeStat, arm>>)
  PROVE  /\ BlocksOK(graph', blk2)
         /\ CallsIn(graph', calls, Len(calls) - 1, graph.activeStat, blk2)
         /\ blk2[NewId(graph)] = <<graph.activeStat, arm>>
         /\ arm = "else" => graph'.stat[graph.activeStat].thenStatement # NULL
<1> DEFINE h == graph'
           k == Len(calls) - 1
           a == graph.activeStat
<1>1. /\ GraphInv(graph, allocated) /\ graph.activeFunc # NULL /\ ParserInv(graph, calls)
      /\ Len(calls) \in Nat /\ k \in Nat \ {0} /\ a \in Statements(graph)
      /\ InArm(graph, h, arm, type)
      /\ Located(graph, calls, blk, k, BlockOf(calls[k]))
  BY EnteredFacts
<1>2. /\ BlocksOK(graph, blk) /\ Grows(graph, h, ArmField[arm], type, FuncNames)
      /\ ArmField[arm] \in Edges
      /\ arm = "else" => graph.stat[a].thenStatement # NULL
  BY ArmEdges DEF ArmEntered
<1> DEFINE edge == ArmField[arm]
<1> HIDE DEF h, edge
<1>3. blk2 = Extended(graph, h, blk, <<a, arm>>) BY DEF h
<1>4. BlocksOK(h, blk2) BY <1>1, <1>2, <1>3, InArmBlocksOK
<1>5. KeepsBlocks(graph, h, blk, blk2)
  <2>1. Grows(graph, h, edge, type, FuncNames) /\ edge \in Edges BY <1>2 DEF edge
  <2> QED BY <1>1, <1>3, <2>1, GrowsKeepsBlocks
<1>6. CallsIn(graph, calls, k, a, blk) BY <1>1 DEF Located
<1>7. k <= Len(calls) /\ k \in Nat BY <1>1
<1> HIDE DEF a, k
<1>8. CallsIn(h, calls, k, a, blk2) BY <1>1, <1>5, <1>6, <1>7, CallsInKept
<1>9. blk2[NewId(graph)] = <<a, arm>> BY <1>1, <1>3 DEF InArm, Extended
<1>10. arm = "else" => h.stat[a].thenStatement # NULL BY <1>1, <1>2, <1>5 DEF KeepsBlocks
<1> QED BY <1>4, <1>8, <1>9, <1>10 DEF h, a, k

(* What SourceNesting asks of the step. *)
LEMMA EnteredMapped ==
  ASSUME NEW arm, NEW type, NEW blk, ArmEntered(arm, type, blk), NEW b, b = Top(BlocksOf(calls))
  PROVE  /\ BlocksOf(calls) # << >>
         /\ ContentOf(graph)[b] # << >> /\ Top(ContentOf(graph)[b]) = graph.activeStat
         /\ <<graph.activeStat, arm>> \notin DOMAIN ContentOf(graph)
         /\ arm = "else" => <<graph.activeStat, "then">> \in DOMAIN ContentOf(graph)
         /\ ContentOf(graph') = Source!With(ContentOf(graph), <<graph.activeStat, arm>>,
                                  IF type = "CF_IF" THEN <<NewId(graph)>> ELSE << >>)
<1> DEFINE h == graph'
           a == graph.activeStat
<1>1. /\ GraphInv(graph, allocated) /\ graph.activeFunc # NULL /\ a \in Statements(graph)
      /\ a # NULL /\ InArm(graph, h, arm, type)
      /\ Located(graph, calls, blk, Len(calls) - 1, BlockOf(calls[Len(calls) - 1]))
  BY EnteredFacts
<1>2. BlocksOf(calls) # << >> /\ ActiveIn(graph, b, blk) BY <1>1 DEF Located
<1>3. /\ BlocksOK(graph, blk) /\ graph.stat[a].statementType # "CF_BASIC"
      /\ arm = "else" => graph.stat[a].thenStatement # NULL
  BY DEF ArmEntered
<1> HIDE DEF h
<1>4. ContentOf(graph)[b] # << >> /\ Top(ContentOf(graph)[b]) = a
  BY <1>1, <1>2, <1>3, LastIsActive
<1>5. DOMAIN ContentOf(graph) = Blocks(graph) BY ContentIs
<1>6. <<a, arm>> \notin Blocks(graph) BY <1>1, InArmBlocks
<1>7. arm = "else" => <<a, "then">> \in Blocks(graph)
  <2>1. "then" \in DOMAIN ArmField /\ ArmField["then"] = "thenStatement" BY DEF ArmField
  <2> QED BY <1>1, <1>3, <2>1, BlocksAre DEF HasArm
<1>8. ContentOf(h) = Source!With(ContentOf(graph), <<a, arm>>,
                                 IF type = "CF_IF" THEN <<NewId(graph)>> ELSE << >>)
  BY <1>1, <1>3, InArmContent
<1> QED BY <1>2, <1>4, <1>5, <1>6, <1>7, <1>8 DEF h

(* A then block, an else block or the body of a for.                       *)
LEMMA BlockMaps ==
  ASSUME NEW arm, NEW blk, ArmEntered(arm, "CF_BASIC", blk),
         NEW at \in Arms, ArmOfPlace[at] = arm, MoveTo(at)
  PROVE  MapOK
<1> DEFINE a == graph.activeStat
           n == NewId(graph)
           k == Len(calls) - 1
           c == Call(at, a)
           cs2 == calls'
           blk2 == Extended(graph, graph', blk, <<a, arm>>)
           b == Top(BlocksOf(calls))
<1>1. /\ calls \in Seq(CallRecords) /\ Len(calls) \in Nat /\ k \in Nat \ {0}
      /\ a = Top(calls).owner /\ a \in Statements(graph)
      /\ BlocksOf(calls) = Spine(Pop(calls)) /\ graph'.activeStat = n
  BY EnteredFacts
<1>2. /\ BlocksOK(graph', blk2) /\ CallsIn(graph', calls, k, a, blk2) /\ blk2[n] = <<a, arm>>
      /\ arm = "else" => graph'.stat[a].thenStatement # NULL
  BY EnteredBlocksOK
<1>3. c \in CallRecords /\ c.owner = a /\ c.at = at /\ InBlock(c) /\ BlockOf(c) = <<a, arm>>
  <2>1. a \in Nat BY <1>1 DEF Statements
  <2>2. at \in Places /\ at \in DOMAIN ArmOfPlace BY BlockPlaces DEF Places, Arms
  <2> QED BY <2>1, <2>2 DEF Call, CallRecords, InBlock, BlockOf
<1>4. cs2 = Append(Pop(calls), c) BY <1>1 DEF MoveTo
<1>5. calls # << >> BY DEF ArmEntered
<1>b. at \in {"else", "elif"} => arm = "else" BY BlockPlaces
<1>c. at # "func" /\ at # "else_" BY DEF Arms
<1> HIDE DEF c, cs2, blk2, a, k, b, n
<1>6. Len(cs2) = k + 1 /\ SamePrefix(calls, cs2, k) /\ cs2[k + 1] = c
  BY <1>1, <1>3, <1>4, <1>5, MoveCalls DEF SamePrefix, k
<1>7. CallIn(graph', c, n, blk2) BY <1>2, <1>3, <1>b, <1>c DEF CallIn
<1>8. CallBlocks(graph', cs2, blk2) BY <1>1, <1>2, <1>3, <1>6, <1>7, BlocksAndCall
<1>9. MInv' BY <1>2, <1>8, MInvAfter DEF cs2
<1>10. BlocksOf(cs2) = Append(BlocksOf(calls), <<a, arm>>)
  <2>1. Pop(calls) \in Seq(CallRecords) BY <1>1, <1>5, PopCalls
  <2>2. BlocksOf(cs2) = Append(Spine(Pop(calls)), BlockOf(c)) BY <1>3, <1>4, <2>1, BlocksOfCall
  <2> QED BY <1>1, <1>3, <2>2
<1>11. /\ BlocksOf(calls) # << >>
       /\ ContentOf(graph)[b] # << >> /\ Top(ContentOf(graph)[b]) = a
       /\ <<a, arm>> \notin DOMAIN ContentOf(graph)
       /\ arm = "else" => <<a, "then">> \in DOMAIN ContentOf(graph)
       /\ ContentOf(graph') = Source!With(ContentOf(graph), <<a, arm>>, << >>)
  <2>1. "CF_BASIC" # "CF_IF" OBVIOUS
  <2> QED BY <2>1, EnteredMapped DEF a, b
<1>12. Reading /\ UNCHANGED result /\ arm \in {"then", "else", "body"}
  BY ArmEdges DEF ArmEntered
<1>13. Source!Next BY <1>10, <1>11, <1>12, OpenArmMaps DEF b, cs2
<1> QED BY <1>9, <1>13 DEF MapOK
LEMMA ArmFields ==
  /\ DOMAIN ArmField = {"then", "else", "body"}
  /\ ArmField["then"] = "thenStatement" /\ ArmField["else"] = "elseStatement"
  /\ ArmField["body"] = "bodyStatement"
BY DEF ArmField

LEMMA ThenMaps ==
  ASSUME IInv, IInv', MInv, Then
  PROVE  MapOK
<1>1. Reading /\ Room(1) /\ UNCHANGED result /\ MoveTo("then") BY DEF Then
<1>2. PICK blk : BlocksOK(graph, blk) /\ CallBlocks(graph, calls, blk) BY <1>1, MInvHere
<1>3. /\ At("if_cond") /\ "if_cond" \in Headers
      /\ OwnerState("if_cond", graph.stat[graph.activeStat])
      /\ Grows(graph, graph', "thenStatement", "CF_BASIC", FuncNames)
  BY ThenGrows
<1>4. /\ graph.stat[graph.activeStat].statementType = "CF_IF"
      /\ EdgeIsFree(graph, "thenStatement")
  BY <1>3 DEF OwnerState, EdgeIsFree
<1>5. calls # << >> /\ Top(calls).at \in Headers BY <1>3 DEF At
<1>6. ArmEntered("then", "CF_BASIC", blk)
  BY <1>1, <1>2, <1>3, <1>4, <1>5, ArmFields DEF ArmEntered
<1>7. "then" \in Arms /\ ArmOfPlace["then"] = "then" BY BlockPlaces DEF Arms
<1> QED BY <1>1, <1>6, <1>7, BlockMaps

LEMMA ForBodyMaps ==
  ASSUME IInv, IInv', MInv, ForBody
  PROVE  MapOK
<1>1. Reading /\ Room(1) /\ UNCHANGED result /\ MoveTo("for") BY DEF ForBody
<1>2. PICK blk : BlocksOK(graph, blk) /\ CallBlocks(graph, calls, blk) BY <1>1, MInvHere
<1>3. /\ At("for_header") /\ "for_header" \in Headers
      /\ OwnerState("for_header", graph.stat[graph.activeStat])
      /\ Grows(graph, graph', "bodyStatement", "CF_BASIC", FuncNames)
  BY ForBlockGrows
<1>4. /\ graph.stat[graph.activeStat].statementType = "CF_FOR"
      /\ EdgeIsFree(graph, "bodyStatement")
  BY <1>3 DEF OwnerState, EdgeIsFree
<1>5. calls # << >> /\ Top(calls).at \in Headers BY <1>3 DEF At
<1>6. ArmEntered("body", "CF_BASIC", blk)
  BY <1>1, <1>2, <1>3, <1>4, <1>5, ArmFields DEF ArmEntered
<1>7. "for" \in Arms /\ ArmOfPlace["for"] = "body" BY BlockPlaces DEF Arms
<1> QED BY <1>1, <1>6, <1>7, BlockMaps

(* Before an else the then block has been read. *)
LEMMA ThenWasRead ==
  ASSUME IInv, Reading, At("else_"), NEW blk, CallBlocks(graph, calls, blk)
  PROVE  /\ calls # << >> /\ Top(calls).at \in Headers
         /\ graph.activeStat = Top(calls).owner
         /\ graph.stat[graph.activeStat].statementType = "CF_IF"
         /\ graph.stat[graph.activeStat].thenStatement # NULL
<1>1. "else_" \in Headers BY DEF Headers
<1>2. /\ calls \in Seq(CallRecords) /\ calls # << >> /\ Top(calls).at = "else_"
      /\ graph.activeStat = Top(calls).owner
      /\ OwnerState("else_", graph.stat[graph.activeStat])
  BY <1>1, AtHeader
<1>3. Len(calls) \in 1 .. Len(calls) BY <1>2, CallsSplit
<1>4. CallIn(graph, calls[Len(calls)], graph.activeStat, blk)
  BY <1>3 DEF CallBlocks, CallsIn
<1>5. graph.stat[Top(calls).owner].thenStatement # NULL
  BY <1>2, <1>4 DEF CallIn, Top
<1>6. graph.stat[graph.activeStat].statementType = "CF_IF" BY <1>2 DEF OwnerState
<1> QED BY <1>1, <1>2, <1>5, <1>6

LEMMA ElseMaps ==
  ASSUME IInv, IInv', MInv, Else
  PROVE  MapOK
<1>1. Reading /\ Room(1) /\ UNCHANGED result /\ MoveTo("else") BY DEF Else
<1>2. PICK blk : BlocksOK(graph, blk) /\ CallBlocks(graph, calls, blk) BY <1>1, MInvHere
<1>3. /\ At("else_") /\ Grows(graph, graph', "elseStatement", "CF_BASIC", FuncNames)
      /\ EdgeIsFree(graph, "elseStatement") /\ "else" \in Arms
  BY ElseGrows
<1>4. /\ calls # << >> /\ Top(calls).at \in Headers
      /\ graph.stat[graph.activeStat].statementType = "CF_IF"
      /\ graph.stat[graph.activeStat].thenStatement # NULL
  BY <1>1, <1>2, <1>3, ThenWasRead
<1>5. ArmEntered("else", "CF_BASIC", blk)
  BY <1>1, <1>2, <1>3, <1>4, ArmFields DEF ArmEntered
<1>6. ArmOfPlace["else"] = "else" BY BlockPlaces
<1> QED BY <1>1, <1>3, <1>5, <1>6, BlockMaps

(* An else if: its statement is the first of the else arm.                 *)
LEMMA ElseIfMaps ==
  ASSUME IInv, IInv', MInv, ElseIf
  PROVE  MapOK
<1> DEFINE n == NewId(graph)
           a == graph.activeStat
           k == Len(calls) - 1
           elif == Call("elif", a)
           cond == Call("if_cond", n)
           cs1 == Append(Pop(calls), elif)
           cs2 == calls'
           h == graph'
<1>1. /\ Reading /\ At("else_") /\ Room(1) /\ UNCHANGED result
      /\ h = cf_make_if_else_statement(graph, "CF_IF")
      /\ cs2 = Pop(calls) \o <<Call("elif", Top(calls).owner), Call("if_cond", Len(graph.stat) + 1)>>
  BY DEF ElseIf
<1>2. PICK blk : BlocksOK(graph, blk) /\ CallBlocks(graph, calls, blk) BY <1>1, MInvHere
<1>3. /\ Grows(graph, h, "elseStatement", "CF_IF", FuncNames)
      /\ EdgeIsFree(graph, "elseStatement")
  BY <1>1, ElseStep DEF StatementTypes
<1>4. /\ calls # << >> /\ Top(calls).at \in Headers /\ a = Top(calls).owner
      /\ graph.stat[a].statementType = "CF_IF" /\ graph.stat[a].thenStatement # NULL
  BY <1>1, <1>2, ThenWasRead
<1>5. ArmEntered("else", "CF_IF", blk)
  BY <1>1, <1>2, <1>3, <1>4, ArmFields DEF ArmEntered
<1> DEFINE blk2 == Extended(graph, h, blk, <<a, "else">>)
<1>6. /\ calls \in Seq(CallRecords) /\ Len(calls) \in Nat /\ k \in Nat \ {0}
      /\ BlocksOf(calls) = Spine(Pop(calls)) /\ h.activeStat = n
      /\ a \in Statements(graph)
  BY <1>5, EnteredFacts
<1>7. /\ BlocksOK(h, blk2) /\ CallsIn(h, calls, k, a, blk2)
      /\ blk2[n] = <<a, "else">> /\ h.stat[a].thenStatement # NULL
  BY <1>5, EnteredBlocksOK
<1>8. n \in 1 .. MaxSize /\ n = Len(graph.stat) + 1 BY <1>1, NewIdFits
<1>9. elif \in CallRecords /\ cond \in CallRecords
  <2>1. a \in 1 .. MaxSize
    <3>1. calls[Len(calls)].owner \in 1 .. MaxSize BY <1>6 DEF IInv, CallsOK
    <3> QED BY <3>1, <1>4 DEF Top
  <2> QED BY <2>1, <1>8 DEF CallRecords, Call, Places
<1>10. Pop(calls) \in Seq(CallRecords) BY <1>4, <1>6, CallsSplit
<1>11. cs2 = Append(cs1, cond)
  BY <1>1, <1>4, <1>8, <1>9, <1>10
<1>12. /\ cs1 \in Seq(CallRecords) /\ Len(cs1) = k + 1 /\ SamePrefix(calls, cs1, k)
       /\ cs1[k + 1] = elif
  BY <1>4, <1>6, <1>9, MoveCalls DEF SamePrefix
<1>13. /\ Len(cs2) = k + 2 /\ SamePrefix(cs1, cs2, k + 1) /\ cs2[k + 2] = cond
  <2>1. Len(cs1) = k + 1 BY <1>12
  <2> HIDE DEF cs1, cs2, cond, k
  <2> QED BY <2>1, <1>6, <1>9, <1>11, <1>12, LastOfAppended DEF SamePrefix
<1>14. elif.at = "elif" /\ elif.owner = a /\ cond.at = "if_cond" /\ cond.owner = n BY DEF Call
<1>15. InBlock(elif) /\ BlockOf(elif) = <<a, "else">> /\ ~ InBlock(cond)
  <2>1. "elif" \in DOMAIN ArmOfPlace /\ ArmOfPlace["elif"] = "else"
        /\ "if_cond" \notin DOMAIN ArmOfPlace
    BY BlockPlaces DEF Arms, Headers
  <2> HIDE DEF elif, cond
  <2> QED BY <2>1, <1>14 DEF InBlock, BlockOf
<1> HIDE DEF elif, cond, cs1, blk2, cs2, h, k, n
<1>16. CallIn(h, elif, n, blk2) BY <1>7, <1>14, <1>15 DEF CallIn
<1>17. CallIn(h, cond, h.activeStat, blk2) BY <1>14, <1>15 DEF CallIn
<1>18. CallsIn(h, cs1, k + 1, n, blk2)
  BY <1>6, <1>7, <1>12, <1>14, <1>16, CallsInMore
<1>19. CallBlocks(h, cs2, blk2)
  <2> DEFINE m == k + 1
  <2>1. m \in Nat \ {0} /\ k + 2 = m + 1 BY <1>6
  <2> HIDE DEF m
  <2>2. CallsIn(h, cs1, m, cond.owner, blk2) BY <1>14, <1>18 DEF m
  <2>3. Len(cs2) = m + 1 /\ SamePrefix(cs1, cs2, m) /\ cs2[m + 1] = cond
    BY <2>1, <1>13 DEF m
  <2> QED BY <2>1, <2>2, <2>3, <1>17, BlocksAndCall
<1>20. MInv' BY <1>7, <1>19, MInvAfter DEF h, cs2
<1>21. BlocksOf(cs2) = Append(BlocksOf(calls), <<a, "else">>)
  <2>1. BlocksOf(cs2) = Spine(cs1) BY <1>9, <1>11, <1>12, <1>15, BlocksOfCall
  <2>2. BlocksOf(cs1) = Append(Spine(Pop(calls)), <<a, "else">>)
    BY <1>9, <1>10, <1>15, BlocksOfCall DEF cs1
  <2>3. cs1 # << >> /\ Top(cs1) = elif
    BY <1>9, <1>10, LastOfAppended DEF cs1
  <2>4. BlocksOf(cs1) = Spine(cs1) BY <2>3, <1>15, BlocksAreSpine
  <2> QED BY <2>1, <2>2, <2>4, <1>6
<1>22. Source!Next
  <2> DEFINE b == Top(BlocksOf(calls))
  <2>1. /\ BlocksOf(calls) # << >>
        /\ ContentOf(graph)[b] # << >> /\ Top(ContentOf(graph)[b]) = a
        /\ <<a, "else">> \notin DOMAIN ContentOf(graph)
        /\ <<a, "then">> \in DOMAIN ContentOf(graph)
        /\ ContentOf(graph') = Source!With(ContentOf(graph), <<a, "else">>, <<n>>)
    BY <1>5, EnteredMapped DEF n
  <2>2. n \notin Source!Recorded BY <1>2, RecordedIn DEF n
  <2>3. BlocksOf(calls') = Append(BlocksOf(calls), <<a, "else">>) BY <1>21 DEF cs2
  <2> HIDE DEF b
  <2>4. b = Top(BlocksOf(calls)) BY DEF b
  <2> QED BY <1>1, <1>8, <2>1, <2>2, <2>3, <2>4, OpenElseIfMaps
<1> QED BY <1>20, <1>22 DEF MapOK
-----------------------------------------------------------------------------
(* Steps that add no statement. *)

LEMMA AstKeepsLinks ==
  ASSUME NEW g, NEW h, SameButAst(g, h, FuncNames)
  PROVE  SameLinks(g, h)
<1>1. Statements(h) = Statements(g) BY DEF SameButAst, Statements
<1> QED BY <1>1 DEF SameButAst, SameLinks, Edges

LEMMA PopKeepsLinks ==
  ASSUME NEW g, NEW h, NEW n, PopsTo(g, h, n, FuncNames)
  PROVE  SameLinks(g, h)
<1>1. Statements(h) = Statements(g) BY DEF PopsTo, Statements
<1> QED BY <1>1 DEF PopsTo, SameLinks, Edges

(* The innermost call c leaves the calls below it, at its statement n,     *)
(* and blk still says which block each statement is in.                    *)
CallLeft(h, blk) ==
  /\ IInv /\ Reading /\ MInv
  /\ calls # << >> /\ Top(calls).at \in Arms \union Headers
  /\ GraphInv(h, allocated)
  /\ SameLinks(graph, h) /\ h.activeFunc = graph.activeFunc
  /\ h.activeStat = Top(calls).owner
  /\ BlocksOK(graph, blk) /\ CallBlocks(graph, calls, blk)

LEMMA LeftCalls ==
  ASSUME NEW h, NEW blk, CallLeft(h, blk)
  PROVE  /\ calls \in Seq(CallRecords) /\ Len(calls) \in Nat /\ Len(calls) - 1 \in Nat \ {0}
         /\ GraphInv(graph, allocated) /\ Nested(calls)
         /\ ContentOf(h) = ContentOf(graph) /\ BlocksOK(h, blk)
         /\ CallsIn(h, calls, Len(calls) - 1, Top(calls).owner, blk)
         /\ h.stat[Top(calls).owner].thenStatement = graph.stat[Top(calls).owner].thenStatement
<1> DEFINE k == Len(calls) - 1
           n == Top(calls).owner
<1>1. /\ GraphInv(graph, allocated) /\ ParserInv(graph, calls) /\ Nested(calls)
      /\ calls \in Seq(CallRecords) /\ Len(calls) \in Nat /\ calls # << >>
  BY MInvHere DEF CallLeft
<1>2. /\ Len(calls) \in 2 .. Len(calls) /\ n \in Statements(graph) /\ Top(calls) = calls[Len(calls)]
  <2>1. CASE Top(calls).at \in Arms BY <1>1, <2>1, ArmOwner DEF Open
  <2>2. CASE Top(calls).at \in Headers BY <1>1, <2>2, HeaderOwner
  <2> QED BY <2>1, <2>2 DEF CallLeft
<1>3. k \in Nat \ {0} /\ k + 1 = Len(calls) /\ k <= Len(calls)
  <2> DEFINE m == Len(calls)
  <2>1. m \in Nat /\ m \in 2 .. m BY <1>1, <1>2
  <2> HIDE DEF m
  <2>2. m - 1 \in Nat \ {0} /\ (m - 1) + 1 = m /\ m - 1 <= m BY <2>1
  <2> QED BY <2>2 DEF m
<1>4. graph.activeFunc # NULL BY <1>1 DEF ParserInv, InnermostCall
<1>5. ContentOf(h) = ContentOf(graph) /\ BlocksOK(h, blk)
  BY <1>1, SameLinksKeepContent, SameLinksKeepBlocksOK DEF CallLeft
<1>6. KeepsBlocks(graph, h, blk, blk)
  <2>1. SameLinks(graph, h) /\ h.activeFunc = graph.activeFunc BY DEF CallLeft
  <2>2. "thenStatement" \in Edges BY DEF Edges
  <2>3. \A s \in Statements(graph) : h.stat[s].thenStatement = graph.stat[s].thenStatement
    BY <2>1, <2>2 DEF SameLinks
  <2>4. h.funcs = graph.funcs BY <2>1 DEF SameLinks
  <2> QED BY <2>1, <2>3, <2>4 DEF KeepsBlocks
<1>7. CallsIn(graph, calls, k, n, blk)
  <2>1. CallsIn(graph, calls, k + 1, graph.activeStat, blk)
    BY <1>3 DEF CallLeft, CallBlocks
  <2>2. CallsIn(graph, calls, k, calls[k + 1].owner, blk)
    <3> HIDE DEF k
    <3> QED BY <1>3, <2>1, CallsInFewer
  <2> QED BY <1>2, <1>3, <2>2
<1>8. CallsIn(h, calls, k, n, blk)
  <2>1. n \in {NULL} \union Statements(graph) BY <1>2
  <2> HIDE DEF k, n
  <2> QED BY <1>1, <1>3, <1>4, <1>6, <1>7, <2>1, CallsInKept
<1>9. h.stat[n].thenStatement = graph.stat[n].thenStatement
  BY <1>2 DEF CallLeft, SameLinks, Edges
<1> QED BY <1>1, <1>3, <1>5, <1>8, <1>9

LEMMA LeftReturns ==
  ASSUME NEW h, NEW blk, CallLeft(h, blk), graph' = h, Return
  PROVE  MInv' /\ ContentOf(graph') = ContentOf(graph) /\ calls' = Pop(calls)
<1> DEFINE k == Len(calls) - 1
           cs2 == calls'
<1>1. /\ calls \in Seq(CallRecords) /\ k \in Nat
      /\ ContentOf(h) = ContentOf(graph) /\ BlocksOK(h, blk)
      /\ CallsIn(h, calls, k, Top(calls).owner, blk)
  BY LeftCalls
<1>2. cs2 = Pop(calls) BY DEF Return
<1>3. calls # << >> /\ h.activeStat = Top(calls).owner BY DEF CallLeft
<1> HIDE DEF cs2
<1>4. Len(cs2) = k /\ SamePrefix(calls, cs2, k) BY <1>1, <1>2, <1>3, PopCalls DEF SamePrefix
<1> HIDE DEF k
<1>5. CallBlocks(h, cs2, blk) BY <1>1, <1>3, <1>4, BlocksLeft
<1>6. BlocksOK(graph', blk) /\ CallBlocks(graph', calls', blk) BY <1>1, <1>5 DEF cs2
<1>7. MInv' BY <1>6, MInvAfter
<1> QED BY <1>1, <1>2, <1>7 DEF cs2

LEMMA LeftMoves ==
  ASSUME NEW h, NEW blk, CallLeft(h, blk), graph' = h,
         NEW at \in {"id_next", "else_"}, MoveTo(at),
         at = "else_" => graph.stat[Top(calls).owner].thenStatement # NULL
  PROVE  /\ MInv' /\ ContentOf(graph') = ContentOf(graph)
         /\ BlocksOf(calls') = BlocksOf(Pop(calls))
<1> DEFINE k == Len(calls) - 1
           c == Call(at, Top(calls).owner)
           cs2 == calls'
<1>1. /\ calls \in Seq(CallRecords) /\ k \in Nat \ {0} /\ Len(calls) \in Nat /\ Nested(calls)
      /\ ContentOf(h) = ContentOf(graph) /\ BlocksOK(h, blk)
      /\ CallsIn(h, calls, k, Top(calls).owner, blk)
      /\ h.stat[Top(calls).owner].thenStatement = graph.stat[Top(calls).owner].thenStatement
  BY LeftCalls
<1>2. cs2 = Append(Pop(calls), c) BY DEF MoveTo
<1>3. calls # << >> /\ h.activeStat = Top(calls).owner BY DEF CallLeft
<1>4. c \in CallRecords /\ c.at = at /\ c.owner = Top(calls).owner /\ ~ InBlock(c)
  <2>1. Top(calls) \in CallRecords BY <1>1, <1>3, CallsSplit
  <2>2. at \in Places /\ at \in Headers BY DEF Places, Headers
  <2>3. at \notin DOMAIN ArmOfPlace BY <2>2, BlockPlaces
  <2> QED BY <2>1, <2>2, <2>3 DEF CallRecords, Call, InBlock
<1>5. Pop(calls) \in Seq(CallRecords) BY <1>1, <1>3, CallsSplit
<1> HIDE DEF c, cs2
<1>6. Len(cs2) = k + 1 /\ SamePrefix(calls, cs2, k) /\ cs2[k + 1] = c
  BY <1>1, <1>2, <1>3, <1>4, MoveCalls DEF SamePrefix
<1> HIDE DEF k
<1>7. CallIn(h, c, h.activeStat, blk)
  <2>1. c.at # "func" /\ c.at \notin {"else", "elif"} BY <1>4
  <2> QED BY <1>1, <1>4, <2>1 DEF CallIn
<1>8. CallsIn(h, calls, k, c.owner, blk) BY <1>1, <1>4
<1>9. CallBlocks(h, cs2, blk) BY <1>1, <1>6, <1>7, <1>8, BlocksAndCall
<1>10. BlocksOK(graph', blk) /\ CallBlocks(graph', calls', blk) BY <1>1, <1>9 DEF cs2
<1>11. MInv' BY <1>10, MInvAfter
<1>12. BlocksOf(cs2) = Spine(Pop(calls)) BY <1>2, <1>4, <1>5, BlocksOfCall
<1>13. BlocksOf(Pop(calls)) = Spine(Pop(calls)) BY <1>1, <1>3, OuterBlocks
<1> QED BY <1>1, <1>11, <1>12, <1>13 DEF cs2

(* A block that ends is the innermost one.                                 *)
LEMMA BlockCloses ==
  ASSUME Reading, UNCHANGED result, calls \in Seq(CallRecords), calls # << >>, Nested(calls),
         InBlock(Top(calls)),
         ContentOf(graph') = ContentOf(graph), BlocksOf(calls') = BlocksOf(Pop(calls))
  PROVE  Source!Next
<1> DEFINE low == BlocksOf(Pop(calls))
           b == BlockOf(Top(calls))
           S == {BlockOf(Pop(calls)[i]) : i \in 1 .. Len(Pop(calls))} \union {b}
<1>1. BlocksOf(calls) = Append(low, b) BY BlocksHere
<1>2. Pop(calls) \in Seq(CallRecords) BY CallsSplit
<1>3. low = Spine(Pop(calls)) BY OuterBlocks
<1>4. low \in Seq(S)
  <2> DEFINE R == {BlockOf(Pop(calls)[i]) : i \in 1 .. Len(Pop(calls))}
  <2>1. low \in Seq(R) BY <1>2, <1>3, SpineIsSeq
  <2>2. R \subseteq S OBVIOUS
  <2> HIDE DEF R, S, low
  <2> QED BY <2>1, <2>2
<1>5. b \in S OBVIOUS
<1> HIDE DEF S, b, low
<1>6. BlocksOf(calls') = low BY DEF low
<1> QED BY <1>1, <1>4, <1>5, <1>6, CloseMaps
(* The parser leaves an arm of the statement of the innermost call.        *)
LEMMA ArmIsLeft ==
  ASSUME IInv, MInv, Reading, NEW at \in Arms, At(at),
         graph' = cf_pop_previous_branched_statement(graph)
  PROVE  /\ \E blk : CallLeft(graph', blk)
         /\ calls \in Seq(CallRecords) /\ calls # << >> /\ Nested(calls) /\ Top(calls).at = at
         /\ Top(calls).owner \in Statements(graph) /\ InBlock(Top(calls))
<1> DEFINE h == graph'
<1>1. PICK blk : BlocksOK(graph, blk) /\ CallBlocks(graph, calls, blk) BY MInvHere
<1>2. /\ calls \in Seq(CallRecords) /\ calls # << >> /\ Top(calls).at = at
      /\ LeavesArm(graph, allocated, h, calls)
  BY AtArm
<1>3. Nested(calls) BY MInvHere
<1> HIDE DEF h
<1>4. /\ Top(calls).owner \in Statements(graph)
      /\ PopsTo(graph, h, Top(calls).owner, FuncNames) /\ GraphInv(h, allocated)
  BY <1>2, LeavingReturns
<1>5. SameLinks(graph, h) BY <1>4, PopKeepsLinks
<1>6. h.activeFunc = graph.activeFunc /\ h.activeStat = Top(calls).owner BY <1>4 DEF PopsTo
<1>7. CallLeft(h, blk) BY <1>1, <1>2, <1>4, <1>5, <1>6 DEF CallLeft
<1>8. InBlock(Top(calls)) BY <1>2, BlockPlaces DEF InBlock
<1> QED BY <1>2, <1>3, <1>4, <1>7, <1>8 DEF h

LEMMA ArmReturnMaps ==
  ASSUME IInv, MInv, Reading, NEW at \in Arms, At(at), UNCHANGED result,
         graph' = cf_pop_previous_branched_statement(graph), Return
  PROVE  MapOK
<1>1. PICK blk : CallLeft(graph', blk) BY ArmIsLeft
<1>2. calls \in Seq(CallRecords) /\ calls # << >> /\ Nested(calls) /\ InBlock(Top(calls))
  BY ArmIsLeft
<1>3. MInv' /\ ContentOf(graph') = ContentOf(graph) /\ calls' = Pop(calls)
  BY <1>1, LeftReturns
<1>4. Source!Next BY <1>2, <1>3, BlockCloses
<1> QED BY <1>3, <1>4 DEF MapOK

LEMMA ElseIfReturnMaps ==
  ASSUME IInv, MInv, ElseIfReturn
  PROVE  MapOK
BY ArmReturnMaps DEF ElseIfReturn, Arms

LEMMA CloseForMaps ==
  ASSUME IInv, MInv, CloseFor
  PROVE  MapOK
BY ArmReturnMaps DEF CloseFor, Arms

LEMMA CloseBranchMaps ==
  ASSUME IInv, MInv, CloseBranch
  PROVE  MapOK
<1>1. /\ Reading /\ UNCHANGED result
      /\ graph' = cf_pop_previous_branched_statement(graph)
      /\ At("then") \/ At("else")
      /\ IF At("then") THEN MoveTo("else_") ELSE Return
  BY DEF CloseBranch
<1>2. CASE ~ At("then")
  BY <1>1, <1>2, ArmReturnMaps DEF Arms
<1>3. CASE At("then")
  <2>1. "then" \in Arms BY DEF Arms
  <2>2. PICK blk : CallLeft(graph', blk) BY <1>1, <1>3, <2>1, ArmIsLeft
  <2>3. /\ calls \in Seq(CallRecords) /\ calls # << >> /\ Nested(calls) /\ InBlock(Top(calls))
        /\ Top(calls).at = "then" /\ Top(calls).owner \in Statements(graph)
    BY <1>1, <1>3, <2>1, ArmIsLeft
  <2>4. graph.stat[Top(calls).owner].thenStatement # NULL
    <3> DEFINE n == Top(calls).owner
               a == graph.activeStat
    <3>1. GraphInv(graph, allocated) /\ ParserInv(graph, calls) BY <1>1, MInvHere
    <3>2. a \in Statements(graph) /\ a # NULL /\ Len(calls) \in 1 .. Len(calls)
      BY <2>1, <2>3, <3>1, ArmOwner, CallsSplit
    <3>3. BlocksOK(graph, blk) /\ CallBlocks(graph, calls, blk) BY <2>2 DEF CallLeft
    <3>4. CallIn(graph, calls[Len(calls)], a, blk) BY <3>2, <3>3 DEF CallBlocks, CallsIn
    <3>5. blk[a] = BlockOf(Top(calls)) BY <2>3, <3>2, <3>4 DEF CallIn, Top
    <3>6. BlockOf(Top(calls)) = <<n, "then">> BY <2>3, BlockPlaces DEF BlockOf
    <3>7. <<n, "then">> \in Blocks(graph) BY <3>2, <3>3, <3>5, <3>6 DEF BlocksOK
    <3>8. "then" \in DOMAIN ArmField BY ArmFields
    <3>9. HasArm(graph, n, "then") BY <3>7, <3>8, BlocksAre
    <3> QED BY <3>9, ArmFields DEF HasArm
  <2>5. MoveTo("else_") BY <1>1, <1>3
  <2>6. /\ MInv' /\ ContentOf(graph') = ContentOf(graph)
        /\ BlocksOf(calls') = BlocksOf(Pop(calls))
    BY <2>2, <2>4, <2>5, LeftMoves
  <2>7. Source!Next BY <1>1, <2>3, <2>6, BlockCloses
  <2> QED BY <2>6, <2>7 DEF MapOK
<1> QED BY <1>2, <1>3

(* The parser is done with a statement that has no block open.             *)
LEMMA HeaderIsLeft ==
  ASSUME IInv, MInv, Reading, NEW at \in Headers, At(at),
         NEW h, h = graph \/ SameButAst(graph, h, FuncNames), GraphInv(h, allocated)
  PROVE  /\ \E blk : CallLeft(h, blk)
         /\ BlocksOf(calls) = BlocksOf(Pop(calls))
<1>1. PICK blk : BlocksOK(graph, blk) /\ CallBlocks(graph, calls, blk) BY MInvHere
<1>2. /\ calls \in Seq(CallRecords) /\ calls # << >> /\ Top(calls).at = at
      /\ GraphInv(graph, allocated) /\ ParserInv(graph, calls)
      /\ graph.activeStat = Top(calls).owner
  BY AtHeader
<1>3. SameLinks(graph, h)
  <2>1. CASE h = graph BY <2>1 DEF SameLinks
  <2>2. CASE SameButAst(graph, h, FuncNames) BY <2>2, AstKeepsLinks
  <2> QED BY <2>1, <2>2
<1>4. h.activeFunc = graph.activeFunc /\ h.activeStat = Top(calls).owner
  BY <1>2 DEF SameButAst
<1>5. CallLeft(h, blk) BY <1>1, <1>2, <1>3, <1>4 DEF CallLeft
<1>6. BlocksOf(calls) = BlocksOf(Pop(calls)) BY <1>1, <1>2, HeaderLocated
<1> QED BY <1>5, <1>6

LEMMA ReturnListMaps ==
  ASSUME IInv, MInv, ReturnList
  PROVE  MapOK
<1> DEFINE h == graph'
<1>1. /\ Reading /\ At("return") /\ "return" \in Headers /\ UNCHANGED result
      /\ h = cf_use_ast_explicit(graph) /\ Return
  BY DEF ReturnList, Headers
<1>2. /\ GraphInv(graph, allocated) /\ GraphOK(graph, FuncNames)
      /\ graph.activeStat \in Statements(graph) /\ graph.activeStat # NULL
  BY <1>1, AtHeader
<1>3. SameButAst(graph, h, FuncNames)
  BY <1>1, <1>2, UseAstKeepsTheRest DEF GraphOK
<1> HIDE DEF h
<1>4. GraphInv(h, allocated) BY <1>2, <1>3, AstKeepsGraph
<1>5. PICK blk : CallLeft(h, blk) BY <1>1, <1>3, <1>4, HeaderIsLeft
<1>6. BlocksOf(calls) = BlocksOf(Pop(calls)) BY <1>1, <1>3, <1>4, HeaderIsLeft
<1>7. MInv' /\ ContentOf(graph') = ContentOf(graph) /\ calls' = Pop(calls)
  <2>1. graph' = h BY DEF h
  <2> QED BY <1>1, <1>5, <2>1, LeftReturns
<1> QED BY <1>1, <1>6, <1>7, QuietMaps DEF MapOK

LEMMA NoElseMaps ==
  ASSUME IInv, MInv, NoElse
  PROVE  MapOK
<1>1. /\ Reading /\ At("else_") /\ "else_" \in Headers /\ UNCHANGED result
      /\ graph' = graph /\ Return
  BY DEF NoElse, Headers
<1>2. GraphInv(graph, allocated) BY DEF IInv
<1>3. PICK blk : CallLeft(graph, blk) BY <1>1, <1>2, HeaderIsLeft
<1>4. BlocksOf(calls) = BlocksOf(Pop(calls)) BY <1>1, <1>2, HeaderIsLeft
<1>5. MInv' /\ ContentOf(graph') = ContentOf(graph) /\ calls' = Pop(calls)
  BY <1>1, <1>3, LeftReturns
<1> QED BY <1>1, <1>4, <1>5, QuietMaps DEF MapOK

LEMMA ReturnNothingMaps ==
  ASSUME IInv, MInv, ReturnNothing
  PROVE  MapOK
<1>1. /\ Reading /\ At("return") /\ "return" \in Headers /\ UNCHANGED result
      /\ graph' = graph /\ MoveTo("id_next")
  BY DEF ReturnNothing, Headers
<1>2. GraphInv(graph, allocated) BY DEF IInv
<1>3. PICK blk : CallLeft(graph, blk) BY <1>1, <1>2, HeaderIsLeft
<1>4. BlocksOf(calls) = BlocksOf(Pop(calls)) BY <1>1, <1>2, HeaderIsLeft
<1>5. /\ MInv' /\ ContentOf(graph') = ContentOf(graph)
      /\ BlocksOf(calls') = BlocksOf(Pop(calls))
  BY <1>1, <1>3, LeftMoves
<1>6. BlocksOf(calls') = BlocksOf(calls) BY <1>4, <1>5
<1> QED BY <1>1, <1>5, <1>6, QuietMaps DEF MapOK
-----------------------------------------------------------------------------
(* The steps between functions, and those that end the parse.              *)

LEMMA OneCall ==
  ASSUME NEW h, NEW blk, NEW c \in CallRecords, c.owner = h.activeFunc, CallIn(h, c, h.activeStat, blk)
  PROVE  CallBlocks(h, <<c>>, blk)
<1>1. Len(<<c>>) = 1 /\ <<c>>[1] = c OBVIOUS
<1>2. ASSUME NEW i \in 1 .. 1 PROVE i = 1 OBVIOUS
<1> QED BY <1>1, <1>2 DEF CallBlocks, CallsIn

LEMMA BlocksOfOne ==
  ASSUME NEW c \in CallRecords
  PROVE  BlocksOf(<<c>>) = IF InBlock(c) THEN <<BlockOf(c)>> ELSE << >>
<1>1. << >> \in Seq(CallRecords) /\ <<c>> = Append(<< >>, c) OBVIOUS
<1>2. Spine(<< >>) = << >> BY NoBlocks
<1>3. Append(<< >>, BlockOf(c)) = <<BlockOf(c)>> OBVIOUS
<1> QED BY <1>1, <1>2, <1>3, BlocksOfCall

LEMMA FuncNameMaps ==
  ASSUME IInv, IInv', MInv, NEW name \in FuncNames, FuncName(name)
  PROVE  MapOK
<1> DEFINE n == Len(graph.funcs) + 1
           c == Call("func_name", n)
           h == graph'
<1>1. /\ Reading /\ calls = << >> /\ UNCHANGED result
      /\ h = cf_make_function(graph, name) /\ calls' = <<c>>
  BY DEF FuncName, Enter
<1>2. PICK blk : BlocksOK(graph, blk) /\ CallBlocks(graph, calls, blk) BY <1>1, MInvHere
<1>3. /\ GraphInv(graph, allocated) /\ GraphOK(graph, FuncNames) /\ Len(graph.funcs) \in Nat
  BY GraphParts DEF IInv, GraphInv
<1>4. ~ (name = Main /\ graph.mainFunc # NULL)
  <2>1. graph.mainFunc \in 0 .. Len(graph.funcs) BY <1>3 DEF GraphInv, PointersOK
  <2>2. MainIsMain(graph) BY <1>3 DEF GraphInv
  <2>3. \A f \in 1 .. Len(graph.funcs) : graph.funcs[f].name # name BY DEF FuncName
  <2> QED BY <1>3, <2>1, <2>2, <2>3 DEF MainIsMain, NULL
<1>5. /\ FunctionAdded(graph, h)
      /\ h.activeStat = NULL /\ h.activeFunc = n
  BY <1>1, <1>3, <1>4, FunctionKeepsGraph DEF FunctionAdded
<1>6. c \in CallRecords /\ c.at = "func_name" /\ c.owner = n
  BY <1>3 DEF Call, CallRecords, Places
<1>7. ~ InBlock(c) BY <1>6, BlockPlaces DEF InBlock
<1> HIDE DEF c, h, n
<1>8. ContentOf(h) = ContentOf(graph) /\ BlocksOK(h, blk) BY <1>2, <1>3, <1>5, AddedContent
<1>9. CallIn(h, c, h.activeStat, blk) BY <1>6, <1>7 DEF CallIn
<1>10. CallBlocks(h, <<c>>, blk) BY <1>5, <1>6, <1>9, OneCall
<1>11. BlocksOK(graph', blk) /\ CallBlocks(graph', calls', blk) BY <1>1, <1>8, <1>10 DEF h
<1>12. MInv' BY <1>11, MInvAfter
<1>13. BlocksOf(calls') = BlocksOf(calls) BY <1>1, <1>6, <1>7, BlocksOfOne, NoBlocks
<1>14. ContentOf(graph') = ContentOf(graph) BY <1>8 DEF h
<1> QED BY <1>1, <1>12, <1>13, <1>14, QuietMaps DEF MapOK

LEMMA FuncBodyMaps ==
  ASSUME IInv, IInv', MInv, FuncBody
  PROVE  MapOK
<1> DEFINE f == graph.activeFunc
           c == Call("func", Top(calls).owner)
           h == graph'
<1>1. /\ Reading /\ At("func_name") /\ UNCHANGED result
      /\ h = cf_assign_function_symtable(graph, allocated + 1) /\ MoveTo("func")
  BY DEF FuncBody
<1>2. /\ calls \in Seq(CallRecords) /\ calls # << >> /\ Top(calls).at = "func_name"
      /\ GraphInv(graph, allocated) /\ InnermostCall(graph, calls) /\ Nested(calls)
      /\ f # NULL
  BY <1>1, Innermost
<1>3. graph.activeStat = NULL /\ graph.funcs[f].symbolTable = NULL
  BY <1>2 DEF InnermostCall
<1>4. Len(calls) = 1 /\ Pop(calls) = << >> BY <1>2, FunctionIsAlone
<1>5. calls' = <<c>> BY <1>1, <1>4 DEF MoveTo
<1>6. PICK blk : BlocksOK(graph, blk) /\ CallBlocks(graph, calls, blk) BY <1>1, MInvHere
<1>7. Top(calls).owner = f
  <2>1. 1 \in 1 .. Len(calls) BY <1>4
  <2>2. calls[1].owner = f BY <1>6, <2>1 DEF CallBlocks, CallsIn
  <2> QED BY <1>4, <2>2 DEF Top
<1>8. f \in 1 .. MaxSize
  <2>1. Top(calls).owner \in 1 .. MaxSize BY <1>2, PopCallsOK DEF IInv
  <2> QED BY <1>7, <2>1
<1>9. c \in CallRecords /\ c.at = "func" /\ c.owner = f
  BY <1>7, <1>8, BoundAssumption DEF Call, CallRecords, Places
<1>10. InBlock(c) /\ BlockOf(c) = <<f, "func">>
  <2>1. "func" \in DOMAIN ArmOfPlace /\ ArmOfPlace["func"] = "func" BY BlockPlaces
  <2> HIDE DEF c
  <2> QED BY <1>9, <2>1 DEF InBlock, BlockOf
<1>11. /\ FunctionOpened(graph, h)
       /\ h.activeStat = NULL /\ h.activeFunc = f /\ h.funcs[f].symbolTable # NULL
  <2>1. /\ Len(h.funcs) = Len(graph.funcs) /\ h.stat = graph.stat
        /\ h.activeStat = NULL /\ h.activeFunc = f
        /\ h.funcs[f].symbolTable = allocated + 1
        /\ \A i \in 1 .. Len(graph.funcs) :
             /\ h.funcs[i].rootStatement = graph.funcs[i].rootStatement
             /\ i # f => h.funcs[i] = graph.funcs[i]
    BY <1>1, <1>2, <1>3, FunctionTableKeepsGraph
  <2>2. graph.funcs[f].rootStatement = NULL
    BY <1>2, <1>3 DEF GraphInv, RootIsMade
  <2>3. f \in 1 .. Len(graph.funcs)
    BY <1>2, GraphParts DEF GraphInv, GraphOK, Graphs, NULL
  <2>4. allocated + 1 # NULL
    <3>1. allocated \in Nat BY <1>2 DEF GraphInv
    <3> QED BY <3>1 DEF NULL
  <2> HIDE DEF f, h
  <2> QED BY <1>3, <2>1, <2>2, <2>3, <2>4 DEF FunctionOpened, f
<1> HIDE DEF c, h, f
<1>12. /\ ContentOf(h) = Source!With(ContentOf(graph), <<f, "func">>, << >>)
       /\ BlocksOK(h, blk)
  BY <1>2, <1>6, <1>11, OpenedContent DEF f
<1>13. CallIn(h, c, h.activeStat, blk) BY <1>9, <1>11 DEF CallIn
<1>14. CallBlocks(h, <<c>>, blk) BY <1>9, <1>11, <1>13, OneCall
<1>15. BlocksOK(graph', blk) /\ CallBlocks(graph', calls', blk) BY <1>5, <1>12, <1>14 DEF h
<1>16. MInv' BY <1>15, MInvAfter
<1>17. BlocksOf(calls) = << >>
  <2>1. ~ InBlock(Top(calls)) BY <1>2, BlockPlaces DEF InBlock
  <2> QED BY <1>2, <1>4, <2>1, BlocksHere, NoBlocks
<1>18. BlocksOf(calls') = << <<f, "func">> >> BY <1>5, <1>9, <1>10, BlocksOfOne
<1>19. <<f, "func">> \notin DOMAIN ContentOf(graph)
  <2>1. <<f, "func">> \notin Blocks(graph) BY <1>11, OpenedBlocks DEF f
  <2> QED BY <2>1, ContentIs
<1>20. Source!Next
  BY <1>1, <1>8, <1>12, <1>17, <1>18, <1>19, OpenFunctionMaps DEF h
<1> QED BY <1>16, <1>20 DEF MapOK

LEMMA CloseFuncMaps ==
  ASSUME IInv, MInv, CloseFunc
  PROVE  MapOK
<1>1. Reading /\ At("func") /\ UNCHANGED result /\ graph' = graph /\ Return BY DEF CloseFunc
<1>2. /\ calls \in Seq(CallRecords) /\ calls # << >> /\ Top(calls).at = "func"
      /\ Nested(calls)
  BY <1>1, Innermost
<1>3. calls' = Pop(calls) /\ Pop(calls) = << >> BY <1>1, <1>2, FunctionIsAlone DEF Return
<1>4. PICK blk : BlocksOK(graph, blk) BY <1>1, MInvHere
<1>5. CallBlocks(graph', calls', blk)
  <2>1. Len(<< >>) = 0 OBVIOUS
  <2>2. \A i \in 1 .. 0 : FALSE OBVIOUS
  <2> QED BY <1>3, <2>1, <2>2 DEF CallBlocks, CallsIn
<1>6. MInv' BY <1>1, <1>4, <1>5, MInvAfter
<1>7. InBlock(Top(calls)) BY <1>2, BlockPlaces DEF InBlock
<1>8. BlocksOf(calls') = BlocksOf(Pop(calls)) BY <1>3
<1>9. ContentOf(graph') = ContentOf(graph) BY <1>1
<1>10. Source!Next BY <1>1, <1>2, <1>7, <1>8, <1>9, BlockCloses
<1> QED BY <1>6, <1>10 DEF MapOK

(* After an error nothing is promised. *)
LEMMA FailMaps ==
  ASSUME Fail
  PROVE  MapOK
<1>1. /\ semantic_enabled /\ ~ semantic_enabled'
      /\ ContentOf(graph') = ContentOf(graph) /\ BlocksOf(calls') = BlocksOf(calls)
  BY DEF Fail, Reading, semantic_enabled
<1>2. MInv' BY <1>1 DEF MInv
<1>3. Source!Next BY <1>1 DEF Source!Next
<1> QED BY <1>2, <1>3 DEF MapOK

LEMMA RecoveredExpressionMaps ==
  ASSUME RecoveredExpression
  PROVE  MapOK
<1>1. ~ semantic_enabled /\ ~ semantic_enabled'
  BY DEF RecoveredExpression, semantic_enabled
<1>2. MInv' BY <1>1 DEF MInv
<1>3. Source!Next BY <1>1 DEF Source!Next
<1> QED BY <1>2, <1>3 DEF MapOK

LEMMA NothingMaps ==
  ASSUME MInv, UNCHANGED <<graph, calls, result>>
  PROVE  MapOK
<1>1. MInv' BY DEF MInv, semantic_enabled, CallBlocks
<1> QED BY <1>1, QuietMaps DEF MapOK

LEMMA StepOfSource == IInv /\ IInv' /\ MInv /\ [Next]_vars => MapOK
<1> SUFFICES ASSUME IInv, IInv', MInv, [Next]_vars PROVE MapOK
  OBVIOUS
<1>1. CASE \E name \in FuncNames : FuncName(name) BY <1>1, FuncNameMaps
<1>2. CASE FuncBody BY <1>2, FuncBodyMaps
<1>3. CASE CloseFunc BY <1>3, CloseFuncMaps
<1>4. CASE Expression BY <1>4, ExpressionMaps
<1>5. CASE ReturnKeyword BY <1>5, ReturnKeywordMaps
<1>6. CASE ReturnList BY <1>6, ReturnListMaps
<1>7. CASE ReturnNothing BY <1>7, ReturnNothingMaps
<1>8. CASE If BY <1>8, IfMaps
<1>9. CASE Then BY <1>9, ThenMaps
<1>10. CASE CloseBranch BY <1>10, CloseBranchMaps
<1>11. CASE NoElse BY <1>11, NoElseMaps
<1>12. CASE Else BY <1>12, ElseMaps
<1>13. CASE ElseIf BY <1>13, ElseIfMaps
<1>14. CASE ElseIfReturn BY <1>14, ElseIfReturnMaps
<1>15. CASE For BY <1>15, ForMaps
<1>16. CASE ForBody BY <1>16, ForBodyMaps
<1>17. CASE CloseFor BY <1>17, CloseForMaps
<1>18. CASE Fail BY <1>18, FailMaps
<1>19. CASE RecoveredExpression BY <1>19, RecoveredExpressionMaps
<1>20. CASE EndOfFile BY <1>20, NothingMaps DEF EndOfFile
<1>21. CASE UNCHANGED vars BY <1>21, NothingMaps DEF vars
<1> QED
  BY <1>1, <1>2, <1>3, <1>4, <1>5, <1>6, <1>7, <1>8, <1>9, <1>10, <1>11, <1>12, <1>13, <1>14,
     <1>15, <1>16, <1>17, <1>18, <1>19, <1>20, <1>21 DEF Next

(* Before the first function there is no block. *)
LEMMA NothingIsNested == Init => MInv /\ Source!Init
<1> SUFFICES ASSUME Init PROVE MInv /\ Source!Init
  OBVIOUS
<1>1. /\ graph.stat = << >> /\ graph.funcs = << >> /\ calls = << >> /\ result = "SUCCESS"
  BY DEF Init, cf_init
<1>2. Statements(graph) = {} /\ 1 .. Len(graph.funcs) = {}
  <2>1. Len(<< >>) = 0 /\ 1 .. 0 = {} OBVIOUS
  <2> QED BY <1>1, <2>1 DEF Statements
<1>3. BlocksOK(graph, << >>) BY <1>2 DEF BlocksOK
<1>4. CallBlocks(graph, calls, << >>)
  <2>1. Len(<< >>) = 0 /\ 1 .. 0 = {} OBVIOUS
  <2> QED BY <1>1, <2>1 DEF CallBlocks, CallsIn
<1>5. MInv BY <1>3, <1>4 DEF MInv
<1>6. Blocks(graph) = {}
  <2>1. ASSUME NEW b \in Blocks(graph) PROVE FALSE BY <1>2, <2>1, BlocksAre
  <2> QED BY <2>1
<1>7. ContentOf(graph) = << >>
  <2>1. DOMAIN << >> = {} OBVIOUS
  <2>2. << >> = [b \in DOMAIN << >> |-> << >>[b]] OBVIOUS
  <2> QED BY <1>6, <2>1, <2>2, ContentsAgree
<1>8. Source!Init BY <1>1, <1>7, NoBlocks DEF Source!Init, semantic_enabled
<1> QED BY <1>5, <1>8

-----------------------------------------------------------------------------
(* For every set of names and every bound on the program: until the first  *)
(* error, the graph that control_flow.c builds under the rules of parser.c *)
(* holds, block by block, the statements of the source in source order.    *)
(* Each step of the parser reads one statement into the innermost block,   *)
(* opens a block on the statement read last, closes the innermost block,   *)
(* or changes neither; the popCount bookkeeping always leads back to the   *)
(* statement that a block was opened on.                                   *)
THEOREM NestingIsRight == Spec => MirrorsSource
<1>1. Init => MInv /\ Source!Init BY NothingIsNested
<1>2. IInv /\ IInv' /\ MInv /\ [Next]_vars =>
        MInv' /\ [Source!Next]_<<ContentOf(graph), BlocksOf(calls), ~semantic_enabled>>
  BY StepOfSource DEF MapOK
<1>3. Spec => []IInv BY BuilderInvariant
<1> QED BY <1>1, <1>2, <1>3, PTL DEF Spec, MirrorsSource, Source!Spec, Source!vars
=============================================================================
