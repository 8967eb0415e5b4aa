--------------------------- MODULE CfgBuilder_cleanup ---------------------------
(***************************************************************************)
(* Whatever the parser has built when it stops, cf_clean_all frees every   *)
(* statement and every local table exactly once.                           *)
(***************************************************************************)
EXTENDS CfgBuilder_proofs

-----------------------------------------------------------------------------
(* How often a sequence holds something. *)

LEMMA CountIsNat ==
  ASSUME NEW S, NEW a \in Seq(S), NEW x
  PROVE  /\ Count(a, x) \in Nat
         /\ IsFiniteSet({i \in 1 .. Len(a) : a[i] = x})
         /\ Count(a, x) = Cardinality({i \in 1 .. Len(a) : a[i] = x})
<1> DEFINE A == {i \in 1 .. Len(a) : a[i] = x}
<1>1. Len(a) \in Nat /\ DOMAIN a = 1 .. Len(a) OBVIOUS
<1>2. IsFiniteSet(1 .. Len(a)) BY <1>1, FS_Interval
<1>3. IsFiniteSet(A) BY <1>2, FS_Subset
<1>4. Cardinality(A) \in Nat BY <1>3, FS_CardinalityType
<1>5. Count(a, x) = Cardinality(A) BY <1>1 DEF Count
<1> QED BY <1>3, <1>4, <1>5

LEMMA CountAdds ==
  ASSUME NEW S, NEW a \in Seq(S), NEW b \in Seq(S), NEW x
  PROVE  a \o b \in Seq(S) /\ Count(a \o b, x) = Count(a, x) + Count(b, x)
<1> DEFINE m == Len(a)
           n == Len(b)
           A == {i \in 1 .. m : a[i] = x}
           B == {i \in 1 .. n : b[i] = x}
           C == {i \in 1 .. m + n : (a \o b)[i] = x}
           D == {i \in m + 1 .. m + n : (a \o b)[i] = x}
           shift == [i \in B |-> m + i]
<1>1. m \in Nat /\ n \in Nat /\ a \o b \in Seq(S) /\ Len(a \o b) = m + n OBVIOUS
<1>2. \A i \in 1 .. m : (a \o b)[i] = a[i] OBVIOUS
<1>3. \A i \in 1 .. n : (a \o b)[m + i] = b[i] OBVIOUS
<1>4. IsFiniteSet(A) /\ IsFiniteSet(B) /\ Count(a, x) = Cardinality(A) /\ Count(b, x) = Cardinality(B)
      /\ Count(a \o b, x) = Cardinality(C)
  BY <1>1, CountIsNat
<1> HIDE DEF m, n
<1>5. C = A \union D /\ A \cap D = {}
  <2>1. \A i \in 1 .. m + n : i \in 1 .. m \/ i \in m + 1 .. m + n BY <1>1
  <2>2. \A i \in 1 .. m : i \in 1 .. m + n /\ i \notin m + 1 .. m + n BY <1>1
  <2>3. \A i \in m + 1 .. m + n : i \in 1 .. m + n BY <1>1
  <2> QED BY <1>2, <2>1, <2>2, <2>3
<1>6. shift \in Bijection(B, D)
  <2>1. \A i \in B : m + i \in D BY <1>1, <1>3
  <2>2. \A i, j \in B : m + i = m + j => i = j BY <1>1
  <2>3. ASSUME NEW d \in D PROVE \E i \in B : m + i = d
    <3>1. d - m \in 1 .. n /\ m + (d - m) = d BY <1>1
    <3> QED BY <1>3, <3>1
  <2> QED BY <2>1, <2>2, <2>3 DEF Bijection, Injection, Surjection, IsInjective
<1>7. IsFiniteSet(D) /\ Cardinality(D) = Cardinality(B)
  <2> HIDE DEF A, B, C, D, shift
  <2>1. ExistsBijection(B, D) BY <1>6 DEF ExistsBijection
  <2> QED BY <1>4, <2>1, FS_Bijection
<1>8. Cardinality(C) = Cardinality(A) + Cardinality(D)
  <2> HIDE DEF A, B, C, D
  <2>1. Cardinality(A \union D) = Cardinality(A) + Cardinality(D) - Cardinality(A \cap D)
    BY <1>4, <1>7, FS_Union
  <2>2. Cardinality({}) = 0 BY FS_EmptySet
  <2>3. Cardinality(A) \in Nat /\ Cardinality(D) \in Nat BY <1>4, <1>7, FS_CardinalityType
  <2>4. Cardinality(C) = Cardinality(A) + Cardinality(D) - 0 BY <1>5, <2>1, <2>2
  <2> QED BY <2>3, <2>4
<1> QED BY <1>1, <1>4, <1>7, <1>8

LEMMA CountOfNone ==
  ASSUME NEW x
  PROVE  Count(<< >>, x) = 0
<1>1. {i \in DOMAIN << >> : << >>[i] = x} = {} OBVIOUS
<1> QED BY <1>1, FS_EmptySet DEF Count

LEMMA CountOfOne ==
  ASSUME NEW x, NEW y
  PROVE  Count(<<y>>, x) = IF y = x THEN 1 ELSE 0
<1>2. CASE y = x
  <2>1. {i \in DOMAIN <<y>> : <<y>>[i] = x} = {1} BY <1>2
  <2> QED BY <1>2, <2>1, FS_Singleton DEF Count
<1>3. CASE y # x
  <2>1. {i \in DOMAIN <<y>> : <<y>>[i] = x} = {} BY <1>3
  <2> QED BY <1>3, <2>1, FS_EmptySet DEF Count
<1> QED BY <1>2, <1>3

-----------------------------------------------------------------------------
(* clean_stat is what its recursive definition says.                       *)

(* An edge is NULL or leads to a statement that was made later.            *)
EdgesLeadOn(g) ==
  /\ Len(g.stat) \in Nat
  /\ \A s \in Statements(g) : \A field \in Edges :
       g.stat[s][field] # NULL => g.stat[s][field] \in Statements(g) /\ s < g.stat[s][field]

TableOf(t) == << <<"table", t>> >>

BranchFreed(g, c, b, owned) ==
  c[b] \o (IF owned THEN TableOf(g.stat[b].localSymbolTable) ELSE << >>)

(* What clean_stat(s, table) frees if c is what its inner calls free.      *)
FreedWith(g, table, c, s) ==
  IF s = NULL THEN << >>
  ELSE (IF g.stat[s].thenStatement = NULL THEN << >>
        ELSE BranchFreed(g, c, g.stat[s].thenStatement, ThenOwnsTable(g, s, table)))
    \o (IF g.stat[s].elseStatement = NULL THEN << >>
        ELSE BranchFreed(g, c, g.stat[s].elseStatement, ElseOwnsTable(g, s)))
    \o (IF g.stat[s].bodyStatement = NULL THEN << >>
        ELSE BranchFreed(g, c, g.stat[s].bodyStatement, TRUE))
    \o (IF g.stat[s].statementType = "CF_FOR" THEN TableOf(g.stat[s].localSymbolTable) ELSE << >>)
    \o c[g.stat[s].followingStatement]
    \o << <<"stat", s>> >>

CleansFrom(g, table, low, c) ==
  c = [s \in {NULL} \union low .. Len(g.stat) |-> FreedWith(g, table, c, s)]

(* It depends on the inner calls only. *)
LEMMA FreedAgrees ==
  ASSUME NEW g, EdgesLeadOn(g), NEW table, NEW s \in Statements(g), NEW c, NEW d,
         c[NULL] = d[NULL], \A t \in Statements(g) : s < t => c[t] = d[t]
  PROVE  FreedWith(g, table, c, s) = FreedWith(g, table, d, s)
<1>1. \A field \in Edges : c[g.stat[s][field]] = d[g.stat[s][field]] BY DEF EdgesLeadOn
<1>2. /\ c[g.stat[s].thenStatement] = d[g.stat[s].thenStatement]
      /\ c[g.stat[s].elseStatement] = d[g.stat[s].elseStatement]
      /\ c[g.stat[s].bodyStatement] = d[g.stat[s].bodyStatement]
      /\ c[g.stat[s].followingStatement] = d[g.stat[s].followingStatement]
  BY <1>1 DEF Edges
<1> QED BY <1>2 DEF FreedWith, BranchFreed

LEMMA CleanExists ==
  ASSUME NEW g, EdgesLeadOn(g), NEW table
  PROVE  \E c : CleansFrom(g, table, 1, c)
<1> DEFINE N == Len(g.stat)
           Missing == {k \in 0 .. N : ~ \E c : CleansFrom(g, table, N + 1 - k, c)}
<1>0. N \in Nat BY DEF EdgesLeadOn
<1>1. SUFFICES ASSUME Missing # {} PROVE FALSE
  <2>1. N \in 0 .. N /\ N + 1 - N = 1 BY <1>0
  <2> QED BY <2>1
<1>2. PICK k \in Missing : \A m \in Missing : k <= m
  <2>1. Missing \in SUBSET Nat OBVIOUS
  <2> QED BY <1>1, <2>1, LeastNumber
<1>3. k \in 0 .. N /\ ~ \E c : CleansFrom(g, table, N + 1 - k, c) OBVIOUS
<1>4. CASE k = 0
  <2> DEFINE zero == [s \in {NULL} \union N + 1 .. N |-> << >>]
  <2>1. N + 1 - k = N + 1 /\ N + 1 .. N = {} BY <1>0, <1>4
  <2>2. \A s \in {NULL} \union N + 1 .. N : FreedWith(g, table, zero, s) = << >>
    BY <2>1 DEF FreedWith
  <2>3. CleansFrom(g, table, N + 1, zero) BY <2>2 DEF CleansFrom
  <2> QED BY <1>3, <2>1, <2>3
<1>5. CASE k # 0
  <2> DEFINE low == N + 1 - k
  <2>1. k - 1 \in 0 .. N /\ k - 1 \notin Missing /\ N + 1 - (k - 1) = low + 1 /\ low \in 1 .. N
    BY <1>0, <1>2, <1>3, <1>5
  <2>2. PICK c : CleansFrom(g, table, low + 1, c) BY <2>1
  <2> DEFINE longer == [s \in {NULL} \union low .. N |->
                          IF s = low THEN FreedWith(g, table, c, low) ELSE c[s]]
  <2>3. \A s \in {NULL} \union low + 1 .. N : c[s] = FreedWith(g, table, c, s)
    BY <2>2 DEF CleansFrom
  <2> HIDE DEF low, Missing
  <2>4. ASSUME NEW s \in {NULL} \union low .. N PROVE longer[s] = FreedWith(g, table, longer, s)
    <3>1. longer[NULL] = c[NULL] BY <2>1 DEF NULL
    <3>2. \A t \in low + 1 .. N : longer[t] = c[t] BY <1>0, <2>1
    <3>3. longer[low] = FreedWith(g, table, c, low) BY <2>1
    <3> HIDE DEF longer
    <3>4. CASE s = NULL
      <4>1. c[NULL] = << >> BY <2>3 DEF FreedWith
      <4> QED BY <3>1, <3>4, <4>1 DEF FreedWith
    <3>5. CASE s # NULL
      <4>1. s \in Statements(g) /\ s \in low .. N BY <2>1, <3>5 DEF Statements
      <4>2. \A t \in Statements(g) : s < t => longer[t] = c[t]
        <5>1. \A t \in Statements(g) : s < t => t \in low + 1 .. N BY <1>0, <2>1, <4>1 DEF Statements
        <5> QED BY <3>2, <5>1
      <4>3. FreedWith(g, table, longer, s) = FreedWith(g, table, c, s)
        BY <3>1, <4>1, <4>2, FreedAgrees
      <4>4. s # low => s \in low + 1 .. N BY <1>0, <2>1, <4>1
      <4> QED BY <2>3, <3>2, <3>3, <4>3, <4>4
    <3> QED BY <3>4, <3>5
  <2>5. longer = [s \in {NULL} \union low .. N |-> longer[s]] OBVIOUS
  <2> HIDE DEF longer
  <2>6. longer = [s \in {NULL} \union low .. N |-> FreedWith(g, table, longer, s)] BY <2>4, <2>5
  <2>7. CleansFrom(g, table, low, longer) BY <2>6 DEF CleansFrom
  <2> QED BY <1>3, <2>7 DEF low
<1> QED BY <1>4, <1>5

LEMMA CleanUnfolds ==
  ASSUME NEW g, EdgesLeadOn(g), NEW table
  PROVE  /\ clean_stat(g, table)[NULL] = << >>
         /\ \A s \in Statements(g) :
              clean_stat(g, table)[s] = FreedWith(g, table, clean_stat(g, table), s)
<1> DEFINE body(f) == [s \in {NULL} \union Statements(g) |-> FreedWith(g, table, f, s)]
           d == clean_stat(g, table)
<1>1. PICK c : CleansFrom(g, table, 1, c) BY CleanExists
<1>2. c = body(c) BY <1>1 DEF CleansFrom, Statements
<1>3. d = CHOOSE f : f = body(f)
  BY DEF clean_stat, FreedWith, BranchFreed, TableOf
<1>4. d = body(d) BY <1>2, <1>3
<1> HIDE DEF d
<1>5. d[NULL] = FreedWith(g, table, d, NULL) BY <1>4
<1>6. \A s \in Statements(g) : d[s] = FreedWith(g, table, d, s) BY <1>4
<1> QED BY <1>5, <1>6 DEF FreedWith, d

-----------------------------------------------------------------------------
(* How often clean_stat frees an object. *)

Objects == {"stat", "table"} \X Nat

One(p) == IF p THEN 1 ELSE 0

(* A statement of its own, without the calls inside, frees the tables of   *)
(* its branches, that of a header, and itself.                             *)
FreesThen(g, table, s, x) ==
  /\ g.stat[s].thenStatement # NULL
  /\ ThenOwnsTable(g, s, table)
  /\ <<"table", g.stat[g.stat[s].thenStatement].localSymbolTable>> = x

FreesElse(g, s, x) ==
  /\ g.stat[s].elseStatement # NULL
  /\ ElseOwnsTable(g, s)
  /\ <<"table", g.stat[g.stat[s].elseStatement].localSymbolTable>> = x

FreesBody(g, s, x) ==
  /\ g.stat[s].bodyStatement # NULL
  /\ <<"table", g.stat[g.stat[s].bodyStatement].localSymbolTable>> = x

FreesHeader(g, s, x) ==
  /\ g.stat[s].statementType = "CF_FOR"
  /\ <<"table", g.stat[s].localSymbolTable>> = x

OwnFrees(g, table, s, x) ==
  One(FreesThen(g, table, s, x)) + One(FreesElse(g, s, x)) + One(FreesBody(g, s, x))
    + One(FreesHeader(g, s, x)) + One(<<"stat", s>> = x)

Cnt(g, table, s, x) == Count(clean_stat(g, table)[s], x)

LEMMA InvLeadsOn ==
  ASSUME NEW g, NEW tables, GraphInv(g, tables)
  PROVE  EdgesLeadOn(g)
<1>1. Len(g.stat) \in Nat BY GraphParts DEF GraphInv
<1>2. ASSUME NEW s \in Statements(g), NEW field \in Edges, g.stat[s][field] # NULL
      PROVE  g.stat[s][field] \in Statements(g) /\ s < g.stat[s][field]
  BY <1>2, EdgeLeadsOn
<1> QED BY <1>1, <1>2 DEF EdgesLeadOn

(* What counting needs of a graph: tables are numbers. *)
Countable(g) ==
  EdgesLeadOn(g) /\ \A s \in Statements(g) : g.stat[s].localSymbolTable \in Nat

LEMMA InvIsCountable ==
  ASSUME NEW g, NEW tables, GraphInv(g, tables)
  PROVE  Countable(g)
<1>1. EdgesLeadOn(g) BY InvLeadsOn
<1>2. \A s \in Statements(g) : g.stat[s] \in StatementRecords BY GraphParts DEF GraphInv
<1> QED BY <1>1, <1>2 DEF Countable, StatementRecords

LEMMA TableIsSeq ==
  ASSUME NEW t \in Nat, NEW x
  PROVE  /\ TableOf(t) \in Seq(Objects)
         /\ Count(TableOf(t), x) = One(<<"table", t>> = x)
<1>1. <<"table", t>> \in Objects BY DEF Objects
<1> QED BY <1>1, CountOfOne DEF TableOf, One

(* A part of what clean_stat frees: a sequence, and its count.             *)
LEMMA BranchCount ==
  ASSUME NEW c, NEW b, c[b] \in Seq(Objects), NEW g, g.stat[b].localSymbolTable \in Nat,
         NEW owned \in BOOLEAN, NEW x
  PROVE  /\ BranchFreed(g, c, b, owned) \in Seq(Objects)
         /\ Count(BranchFreed(g, c, b, owned), x)
              = Count(c[b], x) + One(owned /\ <<"table", g.stat[b].localSymbolTable>> = x)
<1> DEFINE t == g.stat[b].localSymbolTable
           tail == IF owned THEN TableOf(t) ELSE << >>
<1>1. << >> \in Seq(Objects) OBVIOUS
<1>2. tail \in Seq(Objects) /\ Count(tail, x) = One(owned /\ <<"table", t>> = x)
  BY <1>1, TableIsSeq, CountOfNone DEF One
<1>3. BranchFreed(g, c, b, owned) = c[b] \o tail BY DEF BranchFreed
<1> HIDE DEF tail
<1> QED BY <1>2, <1>3, CountAdds

LEMMA Regrouped ==
  ASSUME NEW a1 \in Nat, NEW a2 \in Nat, NEW a3 \in Nat, NEW a4 \in Nat,
         NEW o1 \in Nat, NEW o2 \in Nat, NEW o3 \in Nat, NEW o4 \in Nat, NEW o5 \in Nat
  PROVE  (((((a1 + o1) + (a2 + o2)) + (a3 + o3)) + o4) + a4) + o5
           = a1 + a2 + a3 + a4 + (o1 + o2 + o3 + o4 + o5)
OBVIOUS

(* The count of a statement's clean-up is the sum of those of its parts.   *)
LEMMA FreedCount ==
  ASSUME NEW g, Countable(g), NEW table, NEW s \in Statements(g), NEW c,
         c[NULL] = << >>, \A t \in Statements(g) : s < t => c[t] \in Seq(Objects), NEW x
  PROVE  /\ FreedWith(g, table, c, s) \in Seq(Objects)
         /\ Count(FreedWith(g, table, c, s), x)
              = Count(c[g.stat[s].thenStatement], x) + Count(c[g.stat[s].elseStatement], x)
                + Count(c[g.stat[s].bodyStatement], x) + Count(c[g.stat[s].followingStatement], x)
                + OwnFrees(g, table, s, x)
<1> DEFINE st == g.stat[s]
           part(b, owned) == IF b = NULL THEN << >> ELSE BranchFreed(g, c, b, owned)
           thens == part(st.thenStatement, ThenOwnsTable(g, s, table))
           elses == part(st.elseStatement, ElseOwnsTable(g, s))
           bodies == part(st.bodyStatement, TRUE)
           header == IF st.statementType = "CF_FOR" THEN TableOf(st.localSymbolTable) ELSE << >>
           rest == c[st.followingStatement]
           itself == << <<"stat", s>> >>
<1>1. << >> \in Seq(Objects) /\ Count(<< >>, x) = 0 BY CountOfNone
<1>2. /\ EdgesLeadOn(g) /\ s # NULL /\ s \in Nat
      /\ \A t \in Statements(g) : g.stat[t].localSymbolTable \in Nat
  <2>1. EdgesLeadOn(g) BY DEF Countable
  <2>2. s # NULL /\ s \in Nat BY <2>1 DEF EdgesLeadOn, Statements, NULL
  <2> QED BY <2>1, <2>2 DEF Countable
<1>3. ASSUME NEW field \in Edges
      PROVE  /\ c[st[field]] \in Seq(Objects)
             /\ st[field] # NULL => g.stat[st[field]].localSymbolTable \in Nat
  BY <1>1, <1>2, <1>3 DEF EdgesLeadOn
<1>4. ASSUME NEW field \in Edges, NEW owned \in BOOLEAN
      PROVE  /\ part(st[field], owned) \in Seq(Objects)
             /\ Count(part(st[field], owned), x) = Count(c[st[field]], x)
                  + One(st[field] # NULL /\ owned
                          /\ <<"table", g.stat[st[field]].localSymbolTable>> = x)
  <2>1. CASE st[field] = NULL BY <1>1, <2>1 DEF One
  <2>2. CASE st[field] # NULL
    <3> HIDE DEF st
    <3> DEFINE b == st[field]
    <3> HIDE DEF b
    <3>1. c[b] \in Seq(Objects) /\ g.stat[b].localSymbolTable \in Nat BY <1>3, <2>2 DEF b
    <3>2. part(b, owned) = BranchFreed(g, c, b, owned) BY <2>2 DEF b
    <3> HIDE DEF part
    <3>3. /\ part(b, owned) \in Seq(Objects)
          /\ Count(part(b, owned), x)
               = Count(c[b], x) + One(owned /\ <<"table", g.stat[b].localSymbolTable>> = x)
      BY <3>1, <3>2, BranchCount
    <3>4. b # NULL BY <2>2 DEF b
    <3> QED BY <3>3, <3>4 DEF b
  <2> QED BY <2>1, <2>2
<1>5. "thenStatement" \in Edges /\ "elseStatement" \in Edges /\ "bodyStatement" \in Edges
      /\ "followingStatement" \in Edges
  BY DEF Edges
<1>6. ThenOwnsTable(g, s, table) \in BOOLEAN /\ ElseOwnsTable(g, s) \in BOOLEAN
  BY DEF ThenOwnsTable, ElseOwnsTable
<1>7. /\ thens \in Seq(Objects)
      /\ Count(thens, x) = Count(c[st.thenStatement], x) + One(FreesThen(g, table, s, x))
  BY <1>4, <1>5, <1>6 DEF FreesThen
<1>8. /\ elses \in Seq(Objects)
      /\ Count(elses, x) = Count(c[st.elseStatement], x) + One(FreesElse(g, s, x))
  BY <1>4, <1>5, <1>6 DEF FreesElse
<1>9. /\ bodies \in Seq(Objects)
      /\ Count(bodies, x) = Count(c[st.bodyStatement], x) + One(FreesBody(g, s, x))
  BY <1>4, <1>5 DEF FreesBody
<1>10. header \in Seq(Objects) /\ Count(header, x) = One(FreesHeader(g, s, x))
  BY <1>1, <1>2, TableIsSeq DEF FreesHeader, One
<1>11. rest \in Seq(Objects) BY <1>3, <1>5
<1>12. itself \in Seq(Objects) /\ Count(itself, x) = One(<<"stat", s>> = x)
  <2>1. <<"stat", s>> \in Objects BY <1>2 DEF Objects
  <2> QED BY <2>1, CountOfOne DEF One
<1>13. FreedWith(g, table, c, s) = thens \o elses \o bodies \o header \o rest \o itself
  BY <1>2 DEF FreedWith
<1>14. /\ Count(c[st.thenStatement], x) \in Nat /\ Count(c[st.elseStatement], x) \in Nat
       /\ Count(c[st.bodyStatement], x) \in Nat /\ Count(rest, x) \in Nat
  BY <1>3, <1>5, CountIsNat
<1> HIDE DEF thens, elses, bodies, header, rest, itself, part, st
<1>15. thens \o elses \in Seq(Objects) /\ Count(thens \o elses, x) = Count(thens, x) + Count(elses, x)
  BY <1>7, <1>8, CountAdds
<1> DEFINE two == thens \o elses
           three == two \o bodies
           four == three \o header
           five == four \o rest
<1> HIDE DEF two, three, four, five
<1>16. two \in Seq(Objects) /\ Count(two, x) = Count(thens, x) + Count(elses, x) BY <1>15 DEF two
<1>17. three \in Seq(Objects) /\ Count(three, x) = Count(two, x) + Count(bodies, x)
  BY <1>9, <1>16, CountAdds DEF three
<1>18. four \in Seq(Objects) /\ Count(four, x) = Count(three, x) + Count(header, x)
  BY <1>10, <1>17, CountAdds DEF four
<1>19. five \in Seq(Objects) /\ Count(five, x) = Count(four, x) + Count(rest, x)
  BY <1>11, <1>18, CountAdds DEF five
<1>20. five \o itself \in Seq(Objects) /\ Count(five \o itself, x) = Count(five, x) + Count(itself, x)
  BY <1>12, <1>19, CountAdds
<1>21. FreedWith(g, table, c, s) = five \o itself BY <1>13 DEF two, three, four, five
<1>22. /\ One(FreesThen(g, table, s, x)) \in Nat /\ One(FreesElse(g, s, x)) \in Nat
       /\ One(FreesBody(g, s, x)) \in Nat /\ One(FreesHeader(g, s, x)) \in Nat
       /\ One(<<"stat", s>> = x) \in Nat
  BY DEF One
<1>23. Count(FreedWith(g, table, c, s), x)
         = Count(c[st.thenStatement], x) + Count(c[st.elseStatement], x)
           + Count(c[st.bodyStatement], x) + Count(rest, x) + OwnFrees(g, table, s, x)
  <2> DEFINE a1 == Count(c[st.thenStatement], x)
             a2 == Count(c[st.elseStatement], x)
             a3 == Count(c[st.bodyStatement], x)
             a4 == Count(rest, x)
             o1 == One(FreesThen(g, table, s, x))
             o2 == One(FreesElse(g, s, x))
             o3 == One(FreesBody(g, s, x))
             o4 == One(FreesHeader(g, s, x))
             o5 == One(<<"stat", s>> = x)
  <2>1. /\ a1 \in Nat /\ a2 \in Nat /\ a3 \in Nat /\ a4 \in Nat
        /\ o1 \in Nat /\ o2 \in Nat /\ o3 \in Nat /\ o4 \in Nat /\ o5 \in Nat
    BY <1>14, <1>22
  <2>2. Count(FreedWith(g, table, c, s), x) = (((((a1 + o1) + (a2 + o2)) + (a3 + o3)) + o4) + a4) + o5
    <3>1. Count(two, x) = (a1 + o1) + (a2 + o2) BY <1>7, <1>8, <1>16
    <3>2. Count(three, x) = Count(two, x) + (a3 + o3) BY <1>9, <1>17
    <3>3. Count(four, x) = Count(three, x) + o4 BY <1>10, <1>18
    <3>4. Count(five, x) = Count(four, x) + a4 BY <1>19
    <3>5. Count(FreedWith(g, table, c, s), x) = Count(five, x) + o5 BY <1>12, <1>20, <1>21
    <3> HIDE DEF a1, a2, a3, a4, o1, o2, o3, o4, o5
    <3> QED BY <3>1, <3>2, <3>3, <3>4, <3>5
  <2>3. OwnFrees(g, table, s, x) = o1 + o2 + o3 + o4 + o5 BY DEF OwnFrees
  <2> HIDE DEF a1, a2, a3, a4, o1, o2, o3, o4, o5
  <2>4. Count(FreedWith(g, table, c, s), x) = a1 + a2 + a3 + a4 + OwnFrees(g, table, s, x)
    BY <2>1, <2>2, <2>3, Regrouped
  <2> QED BY <2>4 DEF a1, a2, a3, a4
<1> QED BY <1>20, <1>21, <1>23 DEF rest, st

LEMMA CleanIsSeq ==
  ASSUME NEW g, Countable(g), NEW table
  PROVE  \A s \in {NULL} \union Statements(g) : clean_stat(g, table)[s] \in Seq(Objects)
<1> DEFINE c == clean_stat(g, table)
           T == {s \in Statements(g) : c[s] \in Seq(Objects)}
           N == Len(g.stat)
<1>0. EdgesLeadOn(g) BY DEF Countable
<1>1. c[NULL] = << >> /\ \A s \in Statements(g) : c[s] = FreedWith(g, table, c, s)
  BY <1>0, CleanUnfolds
<1>2. << >> \in Seq(Objects) OBVIOUS
<1>3. ASSUME NEW s \in 1 .. N, \A t \in 1 .. N : s < t => t \in T PROVE s \in T
  <2>1. s \in Statements(g) BY DEF Statements
  <2>2. \A t \in Statements(g) : s < t => c[t] \in Seq(Objects) BY <1>3 DEF Statements
  <2> HIDE DEF c
  <2>3. FreedWith(g, table, c, s) \in Seq(Objects) BY <1>1, <2>1, <2>2, FreedCount
  <2> QED BY <1>1, <2>1, <2>3
<1>4. N \in Nat BY <1>0 DEF EdgesLeadOn
<1>5. \A s \in 1 .. N : s \in T
  <2> HIDE DEF T, N
  <2> QED BY <1>3, <1>4, FromTheEnd
<1> QED BY <1>1, <1>2, <1>5 DEF Statements

(* The counts of a graph's clean-up, as sums along the edges.              *)
LEMMA CountsAddUp ==
  ASSUME NEW g, Countable(g), NEW table, NEW x
  PROVE  /\ Cnt(g, table, NULL, x) = 0
         /\ \A s \in {NULL} \union Statements(g) : Cnt(g, table, s, x) \in Nat
         /\ \A s \in Statements(g) :
              Cnt(g, table, s, x)
                = Cnt(g, table, g.stat[s].thenStatement, x) + Cnt(g, table, g.stat[s].elseStatement, x)
                  + Cnt(g, table, g.stat[s].bodyStatement, x)
                  + Cnt(g, table, g.stat[s].followingStatement, x) + OwnFrees(g, table, s, x)
<1> DEFINE c == clean_stat(g, table)
<1>1. c[NULL] = << >> /\ \A s \in Statements(g) : c[s] = FreedWith(g, table, c, s)
  BY CleanUnfolds DEF Countable
<1>2. \A s \in {NULL} \union Statements(g) : c[s] \in Seq(Objects) BY CleanIsSeq
<1>3. \A s : Cnt(g, table, s, x) = Count(c[s], x) BY DEF Cnt
<1> HIDE DEF c
<1>4. ASSUME NEW s \in {NULL} \union Statements(g) PROVE Count(c[s], x) \in Nat
  BY <1>2, CountIsNat
<1>5. ASSUME NEW s \in Statements(g)
      PROVE  Count(c[s], x)
               = Count(c[g.stat[s].thenStatement], x) + Count(c[g.stat[s].elseStatement], x)
                 + Count(c[g.stat[s].bodyStatement], x) + Count(c[g.stat[s].followingStatement], x)
                 + OwnFrees(g, table, s, x)
  BY <1>1, <1>2, FreedCount
<1>6. Count(c[NULL], x) = 0 BY <1>1, CountOfNone
<1> QED BY <1>3, <1>4, <1>5, <1>6

-----------------------------------------------------------------------------
(* An object with one home is freed in the clean-up of one root.           *)

(* cf_clean_all cleans a root with the table of its function.              *)
RightTable(g, s, table) ==
  \A f \in 1 .. Len(g.funcs) : g.funcs[f].rootStatement = s => g.funcs[f].symbolTable = table

LEMMA ChildFacts ==
  ASSUME NEW g, NEW tables, GraphInv(g, tables), NEW s \in Statements(g), NEW field \in Edges,
         g.stat[s][field] # NULL
  PROVE  /\ g.stat[s][field] \in Statements(g) /\ s < g.stat[s][field]
         /\ g.stat[g.stat[s][field]].parentStatement = s
         /\ \A table : RightTable(g, g.stat[s][field], table)
         /\ \A other \in Edges : g.stat[s][other] = g.stat[s][field] => other = field
<1> DEFINE t == g.stat[s][field]
<1>1. /\ t \in Statements(g) /\ s < t
      /\ \A f \in 1 .. Len(g.funcs) : g.funcs[f].rootStatement # t
      /\ \A r \in Statements(g) : \A other \in Edges : g.stat[r][other] = t => r = s /\ other = field
  BY EdgeLeadsOn
<1>2. LinkedOnce(g, t) BY <1>1 DEF GraphInv
<1>3. <<s, field>> \in PredecessorsIn(g, t) BY DEF PredecessorsIn
<1>4. g.stat[t].parentStatement = s BY <1>2, <1>3 DEF LinkedOnce
<1>5. \A table : RightTable(g, t, table) BY <1>1 DEF RightTable
<1> QED BY <1>1, <1>4, <1>5

LEMMA ZeroAbove ==
  ASSUME NEW g, NEW tables, GraphInv(g, tables), NEW x, NEW table, NEW k \in Nat,
         \A s \in Statements(g) : k <= s /\ RightTable(g, s, table) => OwnFrees(g, table, s, x) = 0
  PROVE  \A s \in Statements(g) : k <= s /\ RightTable(g, s, table) => Cnt(g, table, s, x) = 0
<1> DEFINE N == Len(g.stat)
           T == {s \in 1 .. N : k <= s /\ RightTable(g, s, table) => Cnt(g, table, s, x) = 0}
<1>0. N \in Nat BY InvLeadsOn DEF EdgesLeadOn
<1>1. ASSUME NEW s \in 1 .. N, \A t \in 1 .. N : s < t => t \in T PROVE s \in T
  <2>1. SUFFICES ASSUME k <= s, RightTable(g, s, table) PROVE Cnt(g, table, s, x) = 0 OBVIOUS
  <2>2. s \in Statements(g) BY DEF Statements
  <2>3. OwnFrees(g, table, s, x) = 0 BY <2>1, <2>2
  <2>4. ASSUME NEW field \in Edges PROVE Cnt(g, table, g.stat[s][field], x) = 0
    <3>1. CASE g.stat[s][field] = NULL BY <3>1, InvIsCountable, CountsAddUp
    <3>2. CASE g.stat[s][field] # NULL
      <4> DEFINE t == g.stat[s][field]
      <4>1. t \in Statements(g) /\ s < t /\ RightTable(g, t, table) BY <2>2, <3>2, ChildFacts
      <4>2. t \in T /\ k <= t /\ t \in 1 .. N BY <1>0, <1>1, <2>1, <4>1 DEF Statements
      <4> QED BY <4>1, <4>2
    <3> QED BY <3>1, <3>2
  <2>5. /\ Cnt(g, table, g.stat[s].thenStatement, x) = 0
        /\ Cnt(g, table, g.stat[s].elseStatement, x) = 0
        /\ Cnt(g, table, g.stat[s].bodyStatement, x) = 0
        /\ Cnt(g, table, g.stat[s].followingStatement, x) = 0
    BY <2>4 DEF Edges
  <2>6. Cnt(g, table, s, x)
          = Cnt(g, table, g.stat[s].thenStatement, x) + Cnt(g, table, g.stat[s].elseStatement, x)
            + Cnt(g, table, g.stat[s].bodyStatement, x)
            + Cnt(g, table, g.stat[s].followingStatement, x) + OwnFrees(g, table, s, x)
    BY <2>2, InvIsCountable, CountsAddUp
  <2> QED BY <2>3, <2>5, <2>6
<1>2. \A s \in 1 .. N : s \in T
  <2> HIDE DEF T, N
  <2> QED BY <1>0, <1>1, FromTheEnd
<1> QED BY <1>2 DEF Statements

(* Of the statements from k on that hang on an older one or on nothing,    *)
(* only the clean-up of e frees x, and once.                               *)
OthersFreeNothing(g, x, k, e) ==
  \A s \in Statements(g) : \A table :
    k <= s /\ s # e /\ g.stat[s].parentStatement < k /\ RightTable(g, s, table)
      => Cnt(g, table, s, x) = 0

PathAt(g, x, k, e) ==
  /\ e \in Statements(g) /\ k <= e /\ g.stat[e].parentStatement < k
  /\ \A table : RightTable(g, e, table) => Cnt(g, table, e, x) = 1
  /\ OthersFreeNothing(g, x, k, e)

(* The statement p alone frees x, not counting the calls inside.           *)
FreedAt(g, x, p) ==
  \A s \in Statements(g) : \A table :
    RightTable(g, s, table) => OwnFrees(g, table, s, x) = One(s = p)

LEMMA ParentIsBefore ==
  ASSUME NEW g, NEW tables, GraphInv(g, tables), NEW s \in Statements(g)
  PROVE  s \in Nat /\ s # 0 /\ g.stat[s].parentStatement \in Nat /\ g.stat[s].parentStatement < s
<1>1. Len(g.stat) \in Nat /\ g.stat[s] \in StatementRecords BY GraphParts DEF GraphInv
<1>2. s \in Nat /\ s # 0 BY <1>1 DEF Statements
<1>3. g.stat[s].parentStatement \in Nat BY <1>1 DEF StatementRecords
<1>4. g.stat[s].parentStatement < s BY DEF GraphInv, GraphOK, ParentsBefore
<1> QED BY <1>2, <1>3, <1>4

LEMMA PathStarts ==
  ASSUME NEW g, NEW tables, GraphInv(g, tables), NEW x, NEW p \in Statements(g), FreedAt(g, x, p)
  PROVE  PathAt(g, x, p, p)
<1>0. p \in Nat /\ p # 0 /\ g.stat[p].parentStatement < p BY ParentIsBefore
<1>1. ASSUME NEW s \in Statements(g), p < s, NEW table, RightTable(g, s, table)
      PROVE  Cnt(g, table, s, x) = 0
  <2>1. \A t \in Statements(g) : p + 1 <= t => t # p BY <1>0
  <2>2. \A t \in Statements(g) : p + 1 <= t /\ RightTable(g, t, table) => OwnFrees(g, table, t, x) = 0
    BY <2>1 DEF FreedAt, One
  <2>3. p + 1 \in Nat /\ p + 1 <= s
    <3>1. s \in Nat BY ParentIsBefore
    <3> QED BY <1>0, <1>1, <3>1
  <2> QED BY <1>1, <2>2, <2>3, ZeroAbove
<1>2. ASSUME NEW table, RightTable(g, p, table) PROVE Cnt(g, table, p, x) = 1
  <2>1. ASSUME NEW field \in Edges PROVE Cnt(g, table, g.stat[p][field], x) = 0
    <3>1. CASE g.stat[p][field] = NULL BY <3>1, InvIsCountable, CountsAddUp
    <3>2. CASE g.stat[p][field] # NULL BY <1>1, <3>2, ChildFacts
    <3> QED BY <3>1, <3>2
  <2>2. /\ Cnt(g, table, g.stat[p].thenStatement, x) = 0
        /\ Cnt(g, table, g.stat[p].elseStatement, x) = 0
        /\ Cnt(g, table, g.stat[p].bodyStatement, x) = 0
        /\ Cnt(g, table, g.stat[p].followingStatement, x) = 0
    BY <2>1 DEF Edges
  <2>3. Cnt(g, table, p, x)
          = Cnt(g, table, g.stat[p].thenStatement, x) + Cnt(g, table, g.stat[p].elseStatement, x)
            + Cnt(g, table, g.stat[p].bodyStatement, x)
            + Cnt(g, table, g.stat[p].followingStatement, x) + OwnFrees(g, table, p, x)
    BY InvIsCountable, CountsAddUp
  <2>4. OwnFrees(g, table, p, x) = 1 BY <1>2 DEF FreedAt, One
  <2> QED BY <2>2, <2>3, <2>4
<1>3. OthersFreeNothing(g, x, p, p)
  <2>1. ASSUME NEW s \in Statements(g), p <= s, s # p PROVE p < s
    <3>1. s \in Nat BY ParentIsBefore
    <3> QED BY <1>0, <2>1, <3>1
  <2> QED BY <1>1, <2>1 DEF OthersFreeNothing
<1> QED BY <1>0, <1>2, <1>3 DEF PathAt

(* One statement further up: k frees x if the path comes from one of its   *)
(* children, and nothing otherwise.                                        *)
LEMMA PathGoesUp ==
  ASSUME NEW g, NEW tables, GraphInv(g, tables), NEW x, NEW p \in Statements(g), FreedAt(g, x, p),
         NEW k \in 1 .. Len(g.stat), k < p, NEW e, PathAt(g, x, k + 1, e)
  PROVE  PathAt(g, x, k, IF g.stat[e].parentStatement = k THEN k ELSE e)
<1>0. k \in Statements(g) /\ k \in Nat /\ k # p /\ g.stat[k].parentStatement \in Nat
      /\ g.stat[k].parentStatement < k
  <2>1. k \in Statements(g) BY DEF Statements
  <2>2. p \in Nat BY ParentIsBefore
  <2> QED BY <2>1, <2>2, ParentIsBefore
<1>1. /\ e \in Statements(g) /\ k + 1 <= e /\ g.stat[e].parentStatement < k + 1
      /\ \A table : RightTable(g, e, table) => Cnt(g, table, e, x) = 1
      /\ OthersFreeNothing(g, x, k + 1, e)
  BY DEF PathAt
<1>2. e \in Nat /\ k < e /\ g.stat[e].parentStatement \in Nat BY <1>0, <1>1, ParentIsBefore
<1>3. ASSUME NEW field \in Edges, g.stat[k][field] # e, NEW table
      PROVE  Cnt(g, table, g.stat[k][field], x) = 0
  <2>1. CASE g.stat[k][field] = NULL BY <2>1, InvIsCountable, CountsAddUp
  <2>2. CASE g.stat[k][field] # NULL
    <3> DEFINE t == g.stat[k][field]
    <3>1. t \in Statements(g) /\ k < t /\ g.stat[t].parentStatement = k /\ RightTable(g, t, table)
      BY <1>0, <2>2, ChildFacts
    <3>2. t \in Nat BY <3>1, ParentIsBefore
    <3>3. k + 1 <= t /\ k < k + 1 BY <1>0, <3>1, <3>2
    <3> QED BY <1>1, <1>3, <3>1, <3>3 DEF OthersFreeNothing
  <2> QED BY <2>1, <2>2
<1>4. ASSUME NEW table
      PROVE  Cnt(g, table, k, x)
               = Cnt(g, table, g.stat[k].thenStatement, x) + Cnt(g, table, g.stat[k].elseStatement, x)
                 + Cnt(g, table, g.stat[k].bodyStatement, x)
                 + Cnt(g, table, g.stat[k].followingStatement, x) + OwnFrees(g, table, k, x)
  BY <1>0, InvIsCountable, CountsAddUp
<1>5. ASSUME NEW table, RightTable(g, k, table) PROVE OwnFrees(g, table, k, x) = 0
  BY <1>0, <1>5 DEF FreedAt, One
<1>6. ASSUME NEW s \in Statements(g), k <= s, s # k PROVE k + 1 <= s /\ s \in Nat
  <2>1. s \in Nat BY ParentIsBefore
  <2> QED BY <1>0, <1>6, <2>1
<1>7. CASE g.stat[e].parentStatement = k
  <2>1. PICK field \in Edges : g.stat[k][field] = e
    <3>1. LinkedOnce(g, e) BY <1>1 DEF GraphInv
    <3>2. k # NULL BY DEF NULL
    <3>3. PICK field \in Edges : PredecessorsIn(g, e) = {<<k, field>>} BY <1>7, <3>1, <3>2 DEF LinkedOnce
    <3>4. <<k, field>> \in PredecessorsIn(g, e) BY <3>3
    <3>5. g.stat[k][field] = e BY <3>4 DEF PredecessorsIn
    <3> QED BY <3>5
  <2>2. \A table : RightTable(g, e, table) /\ Cnt(g, table, e, x) = 1
    <3>1. e # NULL BY <1>2 DEF NULL
    <3>2. \A table : RightTable(g, e, table) BY <1>0, <2>1, <3>1, ChildFacts
    <3> QED BY <1>1, <3>2
  <2>3. \A other \in Edges : other # field => g.stat[k][other] # e
    <3>1. e # NULL BY <1>2 DEF NULL
    <3> QED BY <1>0, <2>1, <3>1, ChildFacts
  <2>4. ASSUME NEW table, RightTable(g, k, table) PROVE Cnt(g, table, k, x) = 1
    <3>1. Cnt(g, table, g.stat[k][field], x) = 1 BY <2>1, <2>2
    <3>2. \A other \in Edges : other # field => Cnt(g, table, g.stat[k][other], x) = 0
      BY <1>3, <2>3
    <3>3. CASE field = "thenStatement"
      <4>1. /\ Cnt(g, table, g.stat[k].thenStatement, x) = 1
            /\ Cnt(g, table, g.stat[k].elseStatement, x) = 0
            /\ Cnt(g, table, g.stat[k].bodyStatement, x) = 0
            /\ Cnt(g, table, g.stat[k].followingStatement, x) = 0
        BY <3>1, <3>2, <3>3 DEF Edges
      <4> QED BY <1>4, <1>5, <2>4, <4>1
    <3>4. CASE field = "elseStatement"
      <4>1. /\ Cnt(g, table, g.stat[k].thenStatement, x) = 0
            /\ Cnt(g, table, g.stat[k].elseStatement, x) = 1
            /\ Cnt(g, table, g.stat[k].bodyStatement, x) = 0
            /\ Cnt(g, table, g.stat[k].followingStatement, x) = 0
        BY <3>1, <3>2, <3>4 DEF Edges
      <4> QED BY <1>4, <1>5, <2>4, <4>1
    <3>5. CASE field = "bodyStatement"
      <4>1. /\ Cnt(g, table, g.stat[k].thenStatement, x) = 0
            /\ Cnt(g, table, g.stat[k].elseStatement, x) = 0
            /\ Cnt(g, table, g.stat[k].bodyStatement, x) = 1
            /\ Cnt(g, table, g.stat[k].followingStatement, x) = 0
        BY <3>1, <3>2, <3>5 DEF Edges
      <4> QED BY <1>4, <1>5, <2>4, <4>1
    <3>6. CASE field = "followingStatement"
      <4>1. /\ Cnt(g, table, g.stat[k].thenStatement, x) = 0
            /\ Cnt(g, table, g.stat[k].elseStatement, x) = 0
            /\ Cnt(g, table, g.stat[k].bodyStatement, x) = 0
            /\ Cnt(g, table, g.stat[k].followingStatement, x) = 1
        BY <3>1, <3>2, <3>6 DEF Edges
      <4> QED BY <1>4, <1>5, <2>4, <4>1
    <3> QED BY <3>3, <3>4, <3>5, <3>6 DEF Edges
  <2>5. ASSUME NEW s \in Statements(g), NEW table, k <= s, s # k,
               g.stat[s].parentStatement < k, RightTable(g, s, table)
        PROVE  Cnt(g, table, s, x) = 0
    <3>1. k + 1 <= s BY <1>6, <2>5
    <3>2. s # e BY <1>0, <1>7, <2>5
    <3>3. g.stat[s].parentStatement < k + 1
      <4>1. g.stat[s].parentStatement \in Nat BY ParentIsBefore
      <4> QED BY <1>0, <2>5, <4>1
    <3> QED BY <1>1, <2>5, <3>1, <3>2, <3>3 DEF OthersFreeNothing
  <2>6. PathAt(g, x, k, k) BY <1>0, <2>4, <2>5 DEF PathAt, OthersFreeNothing
  <2> QED BY <1>7, <2>6
<1>8. CASE g.stat[e].parentStatement # k
  <2>1. g.stat[e].parentStatement < k /\ k <= e BY <1>0, <1>1, <1>2, <1>8
  <2>2. \A field \in Edges : g.stat[k][field] # e
    <3> SUFFICES ASSUME NEW field \in Edges, g.stat[k][field] = e PROVE FALSE OBVIOUS
    <3>1. e # NULL BY <1>2 DEF NULL
    <3>2. g.stat[e].parentStatement = k BY <1>0, <3>1, ChildFacts
    <3> QED BY <1>8, <3>2
  <2>3. ASSUME NEW table, RightTable(g, k, table) PROVE Cnt(g, table, k, x) = 0
    <3>1. /\ Cnt(g, table, g.stat[k].thenStatement, x) = 0
          /\ Cnt(g, table, g.stat[k].elseStatement, x) = 0
          /\ Cnt(g, table, g.stat[k].bodyStatement, x) = 0
          /\ Cnt(g, table, g.stat[k].followingStatement, x) = 0
      BY <1>3, <2>2 DEF Edges
    <3> QED BY <1>4, <1>5, <2>3, <3>1
  <2>4. ASSUME NEW s \in Statements(g), NEW table, k <= s, s # e,
               g.stat[s].parentStatement < k, RightTable(g, s, table)
        PROVE  Cnt(g, table, s, x) = 0
    <3>1. CASE s = k BY <2>3, <2>4, <3>1
    <3>2. CASE s # k
      <4>1. k + 1 <= s BY <1>6, <2>4, <3>2
      <4>2. g.stat[s].parentStatement \in Nat BY ParentIsBefore
      <4>3. g.stat[s].parentStatement < k + 1 BY <1>0, <2>4, <4>2
      <4> QED BY <1>1, <2>4, <4>1, <4>3 DEF OthersFreeNothing
    <3> QED BY <3>1, <3>2
  <2>5. PathAt(g, x, k, e) BY <1>1, <2>1, <2>4 DEF PathAt, OthersFreeNothing
  <2> QED BY <1>8, <2>5
<1> QED BY <1>7, <1>8

LEMMA PathToRoot ==
  ASSUME NEW g, NEW tables, GraphInv(g, tables), NEW x, NEW p \in Statements(g), FreedAt(g, x, p)
  PROVE  \E e : PathAt(g, x, 1, e)
<1> DEFINE K == {k \in Nat : 1 <= k /\ k <= p /\ \E e : PathAt(g, x, k, e)}
<1>0. p \in Nat /\ p # 0 /\ Len(g.stat) \in Nat /\ p <= Len(g.stat)
  <2>1. Len(g.stat) \in Nat BY InvLeadsOn DEF EdgesLeadOn
  <2> QED BY <2>1, ParentIsBefore DEF Statements
<1>1. p \in K BY <1>0, PathStarts
<1>2. PICK k \in K : \A m \in K : k <= m
  <2>1. K \in SUBSET Nat /\ K # {} BY <1>1
  <2> HIDE DEF K
  <2> QED BY <2>1, LeastNumber
<1>3. CASE k = 1 BY <1>3
<1>4. CASE k # 1
  <2>1. k - 1 \in 1 .. Len(g.stat) /\ k - 1 < p /\ (k - 1) + 1 = k /\ k - 1 \in Nat BY <1>0, <1>4
  <2>2. PICK e : PathAt(g, x, (k - 1) + 1, e) BY <2>1
  <2> DEFINE j == k - 1
  <2> HIDE DEF j
  <2>3. j \in 1 .. Len(g.stat) /\ j < p /\ PathAt(g, x, j + 1, e) BY <2>1, <2>2 DEF j
  <2>4. \E d : PathAt(g, x, j, d) BY <2>3, PathGoesUp
  <2>5. j \in K
    <3>1. j \in Nat /\ 1 <= j /\ j <= p BY <1>0, <2>1, <2>3 DEF j
    <3> QED BY <2>4, <3>1
  <2>6. k <= j BY <1>2, <2>5
  <2> QED BY <2>1, <2>6 DEF j
<1> QED BY <1>3, <1>4

-----------------------------------------------------------------------------
(* cf_clean_all, function by function.                                     *)

FuncFreed(g, f) ==
  clean_stat(g, g.funcs[f].symbolTable)[g.funcs[f].rootStatement]
    \o (IF g.funcs[f].symbolTable = NULL THEN << >> ELSE TableOf(g.funcs[f].symbolTable))

AllFreed(g, m, c) ==
  c = [f \in 0 .. m |-> IF f = 0 THEN << >> ELSE FuncFreed(g, f) \o c[f - 1]]

LEMMA AllFreedExists ==
  ASSUME NEW g, NEW n \in Nat
  PROVE  \E c : AllFreed(g, n, c)
<1> DEFINE Missing == {m \in Nat : ~ \E c : AllFreed(g, m, c)}
<1>1. SUFFICES ASSUME Missing # {} PROVE FALSE OBVIOUS
<1>2. PICK m \in Missing : \A k \in Missing : m <= k
  <2>1. Missing \in SUBSET Nat OBVIOUS
  <2> QED BY <1>1, <2>1, LeastNumber
<1>3. m \in Nat /\ ~ \E c : AllFreed(g, m, c) OBVIOUS
<1>4. CASE m = 0
  <2> DEFINE none == [f \in 0 .. m |-> << >>]
  <2>1. \A f \in 0 .. m : f = 0 BY <1>4
  <2>2. none = [f \in 0 .. m |-> IF f = 0 THEN << >> ELSE FuncFreed(g, f) \o none[f - 1]] BY <2>1
  <2> HIDE DEF none
  <2> QED BY <1>3, <2>2 DEF AllFreed
<1>5. CASE m # 0
  <2> DEFINE k == m - 1
  <2>1. k \in Nat /\ ~ (m <= k) BY <1>3, <1>5
  <2>2. PICK c : AllFreed(g, k, c) BY <1>2, <2>1
  <2> DEFINE more == [f \in 0 .. m |-> IF f = m THEN FuncFreed(g, m) \o c[k] ELSE c[f]]
  <2>3. \A f \in 0 .. k : c[f] = IF f = 0 THEN << >> ELSE FuncFreed(g, f) \o c[f - 1]
    BY <2>2 DEF AllFreed
  <2>4. ASSUME NEW f \in 0 .. m
        PROVE  more[f] = IF f = 0 THEN << >> ELSE FuncFreed(g, f) \o more[f - 1]
    <3>1. CASE f = m
      <4>1. more[m] = FuncFreed(g, m) \o c[k] /\ more[k] = c[k] /\ m # 0
        BY <1>3, <1>5, <2>1
      <4> HIDE DEF more
      <4> QED BY <3>1, <4>1 DEF k
    <3>2. CASE f # m
      <4>1. f \in 0 .. k /\ (f # 0 => f - 1 \in 0 .. m /\ f - 1 # m) BY <1>3, <3>2
      <4>2. more[f] = c[f] /\ (f # 0 => more[f - 1] = c[f - 1]) BY <3>2, <4>1
      <4> HIDE DEF more, k
      <4> QED BY <2>3, <4>1, <4>2
    <3> QED BY <3>1, <3>2
  <2>5. more = [f \in 0 .. m |-> more[f]] OBVIOUS
  <2> HIDE DEF more
  <2>6. more = [f \in 0 .. m |-> IF f = 0 THEN << >> ELSE FuncFreed(g, f) \o more[f - 1]]
    BY <2>4, <2>5
  <2> QED BY <1>3, <2>6 DEF AllFreed
<1> QED BY <1>4, <1>5

LEMMA AllUnfolds ==
  ASSUME NEW g, Len(g.funcs) \in Nat
  PROVE  \E c : /\ c[0] = << >>
                /\ \A f \in 1 .. Len(g.funcs) : c[f] = FuncFreed(g, f) \o c[f - 1]
                /\ cf_clean_all(g) = c[Len(g.funcs)]
<1> DEFINE n == Len(g.funcs)
           body(c) == [f \in 0 .. n |-> IF f = 0 THEN << >> ELSE FuncFreed(g, f) \o c[f - 1]]
           freed == CHOOSE c : c = body(c)
<1>1. PICK c : AllFreed(g, n, c) BY AllFreedExists
<1>2. freed = body(freed) BY <1>1 DEF AllFreed
<1>3. cf_clean_all(g) = freed[n] BY DEF cf_clean_all, FuncFreed, TableOf
<1> HIDE DEF freed
<1>4. freed[0] = << >> BY <1>2
<1>5. ASSUME NEW f \in 1 .. n PROVE freed[f] = FuncFreed(g, f) \o freed[f - 1]
  <2>1. f \in 0 .. n /\ f # 0 OBVIOUS
  <2>2. body(freed)[f] = FuncFreed(g, f) \o freed[f - 1] BY <2>1
  <2> HIDE DEF body
  <2> QED BY <1>2, <2>2
<1> QED BY <1>3, <1>4, <1>5

(* If one function's clean-up frees x once, or none does, and no other one *)
(* frees it, it is freed once or not at all.                               *)
LEMMA FunctionsFree ==
  ASSUME NEW g, Len(g.funcs) \in Nat, NEW x, NEW one \in 0 .. Len(g.funcs),
         \A f \in 1 .. Len(g.funcs) :
           FuncFreed(g, f) \in Seq(Objects) /\ Count(FuncFreed(g, f), x) = One(f = one)
  PROVE  /\ cf_clean_all(g) \in Seq(Objects)
         /\ Count(cf_clean_all(g), x) = One(one # 0)
<1> DEFINE n == Len(g.funcs)
<1>1. PICK c : /\ c[0] = << >>
               /\ \A f \in 1 .. n : c[f] = FuncFreed(g, f) \o c[f - 1]
               /\ cf_clean_all(g) = c[n]
  BY AllUnfolds
<1> DEFINE Right(f) == c[f] \in Seq(Objects) /\ Count(c[f], x) = One(one # 0 /\ one <= f)
           Wrong == {f \in 0 .. n : ~ Right(f)}
<1> HIDE DEF n
<1>2. n \in Nat /\ one \in 0 .. n /\ one \in Nat BY DEF n
<1>3. Wrong = {}
  <2> SUFFICES ASSUME Wrong # {} PROVE FALSE OBVIOUS
  <2>1. PICK f \in Wrong : \A k \in Wrong : f <= k
    <3>1. Wrong \in SUBSET Nat BY <1>2
    <3> HIDE DEF Wrong
    <3> QED BY <3>1, LeastNumber
  <2>2. f \in 0 .. n /\ ~ Right(f) OBVIOUS
  <2>3. CASE f = 0
    <3>1. << >> \in Seq(Objects) /\ Count(<< >>, x) = 0 BY CountOfNone
    <3>2. ~ (one # 0 /\ one <= 0) BY <1>2
    <3> QED BY <1>1, <2>2, <2>3, <3>1, <3>2 DEF One
  <2>4. CASE f # 0
    <3> DEFINE k == f - 1
    <3>1. f \in 1 .. n /\ k \in 0 .. n /\ ~ (f <= k) BY <1>2, <2>2, <2>4
    <3>2. Right(k) BY <2>1, <3>1
    <3>3. FuncFreed(g, f) \in Seq(Objects) /\ Count(FuncFreed(g, f), x) = One(f = one)
      BY <3>1 DEF n
    <3>4. c[f] = FuncFreed(g, f) \o c[k] BY <1>1, <3>1
    <3>5. c[f] \in Seq(Objects) /\ Count(c[f], x) = One(f = one) + One(one # 0 /\ one <= k)
      BY <3>2, <3>3, <3>4, CountAdds
    <3>6. One(f = one) + One(one # 0 /\ one <= k) = One(one # 0 /\ one <= f)
      <4>1. CASE f = one
        <5>1. one # 0 /\ one <= f /\ ~ (one <= k) BY <1>2, <3>1, <4>1
        <5> QED BY <4>1, <5>1 DEF One
      <4>2. CASE f # one
        <5>1. (one <= f) <=> (one <= k) BY <1>2, <3>1, <4>2
        <5> QED BY <4>2, <5>1 DEF One
      <4> QED BY <4>1, <4>2
    <3> QED BY <2>2, <3>5, <3>6
  <2> QED BY <2>3, <2>4
<1>4. Right(n) BY <1>2, <1>3
<1>5. one <= n BY <1>2
<1> QED BY <1>1, <1>4, <1>5 DEF n

LEMMA OneFunctionFrees ==
  ASSUME NEW g, Len(g.funcs) \in Nat, NEW x, NEW one \in 1 .. Len(g.funcs),
         \A f \in 1 .. Len(g.funcs) :
           FuncFreed(g, f) \in Seq(Objects) /\ Count(FuncFreed(g, f), x) = One(f = one)
  PROVE  Count(cf_clean_all(g), x) = 1
<1>1. one \in 0 .. Len(g.funcs) /\ one # 0 OBVIOUS
<1> QED BY <1>1, FunctionsFree DEF One

LEMMA InvFunctions ==
  ASSUME NEW g, NEW tables, GraphInv(g, tables), NEW f \in 1 .. Len(g.funcs)
  PROVE  g.funcs[f].rootStatement \in PointersIn(g) /\ g.funcs[f].symbolTable \in Nat
<1>1. g.funcs[f].rootStatement \in PointersIn(g) BY DEF GraphInv, PointersOK
<1>2. g.funcs[f] \in FunctionRecords(FuncNames) BY GraphParts DEF GraphInv
<1> QED BY <1>1, <1>2 DEF FunctionRecords

LEMMA FunctionCount ==
  ASSUME NEW g, Countable(g), NEW f \in 1 .. Len(g.funcs), NEW x,
         g.funcs[f].rootStatement \in PointersIn(g), g.funcs[f].symbolTable \in Nat
  PROVE  LET table == g.funcs[f].symbolTable
         IN  /\ FuncFreed(g, f) \in Seq(Objects)
             /\ Count(FuncFreed(g, f), x) = Cnt(g, table, g.funcs[f].rootStatement, x)
                  + One(table # NULL /\ <<"table", table>> = x)
             /\ Cnt(g, table, g.funcs[f].rootStatement, x) \in Nat
<1> DEFINE table == g.funcs[f].symbolTable
           root == g.funcs[f].rootStatement
           tail == IF table = NULL THEN << >> ELSE TableOf(table)
<1>1. root \in {NULL} \union Statements(g) BY DEF PointersIn
<1>2. table \in Nat OBVIOUS
<1>3. << >> \in Seq(Objects) OBVIOUS
<1>4. tail \in Seq(Objects) /\ Count(tail, x) = One(table # NULL /\ <<"table", table>> = x)
  BY <1>2, <1>3, TableIsSeq, CountOfNone DEF One
<1>5. FuncFreed(g, f) = clean_stat(g, table)[root] \o tail BY DEF FuncFreed
<1>6. clean_stat(g, table)[root] \in Seq(Objects) BY <1>1, CleanIsSeq
<1>7. Cnt(g, table, root, x) = Count(clean_stat(g, table)[root], x) BY DEF Cnt
<1>8. Cnt(g, table, root, x) \in Nat BY <1>1, CountsAddUp
<1> HIDE DEF tail, root, table
<1>9. /\ clean_stat(g, table)[root] \o tail \in Seq(Objects)
      /\ Count(clean_stat(g, table)[root] \o tail, x)
           = Count(clean_stat(g, table)[root], x) + Count(tail, x)
  BY <1>4, <1>6, CountAdds
<1> QED BY <1>4, <1>5, <1>7, <1>8, <1>9 DEF root, table

-----------------------------------------------------------------------------
(* The homes of a table. *)

(* Where a table can be: with a function, with a branch of a statement, or *)
(* with the header of a for.                                               *)
HomesIn(g) ==
  ((1 .. Len(g.funcs)) \X {"func"}) \union (Statements(g) \X (DOMAIN ArmField \union {"for"}))

ChildOn(g, p) == g.stat[p[1]][ArmField[p[2]]]

(* The else arm of an else if has the table of the block around it.        *)
OwnsTable(g, p) ==
  \/ p[2] = "func"
  \/ p[2] = "for" /\ g.stat[p[1]].statementType = "CF_FOR"
  \/ /\ p[2] \in DOMAIN ArmField
     /\ ChildOn(g, p) # NULL
     /\ p[2] = "else" => g.stat[ChildOn(g, p)].statementType # "CF_IF"

TableAt(g, p) ==
  IF p[2] = "func" THEN g.funcs[p[1]].symbolTable
  ELSE IF p[2] = "for" THEN g.stat[p[1]].localSymbolTable
  ELSE g.stat[ChildOn(g, p)].localSymbolTable

Homes(g, t) == {p \in HomesIn(g) : OwnsTable(g, p) /\ TableAt(g, p) = t}

OneHome(g, tables) == \A t \in 1 .. tables : \E p \in HomesIn(g) : Homes(g, t) = {p}

(* A then branch has another table than the statement above its owner, or  *)
(* than the function if there is none: clean_stat always frees it.         *)
ThenIsNew(g) ==
  \A s \in Statements(g) :
    g.stat[s].thenStatement # NULL =>
      LET t == g.stat[g.stat[s].thenStatement].localSymbolTable
      IN  IF g.stat[s].parentStatement = NULL
          THEN \A f \in 1 .. Len(g.funcs) :
                 g.funcs[f].rootStatement = s => g.funcs[f].symbolTable # t
          ELSE g.stat[g.stat[s].parentStatement].localSymbolTable # t

HomesOK(g, tables) == OneHome(g, tables) /\ ThenIsNew(g)

LEMMA ThenIsOwned ==
  ASSUME NEW g, NEW tables, GraphInv(g, tables), ThenIsNew(g), NEW s \in Statements(g), NEW table,
         RightTable(g, s, table), g.stat[s].thenStatement # NULL
  PROVE  ThenOwnsTable(g, s, table)
<1>1. CASE g.stat[s].parentStatement = NULL
  <2>1. LinkedOnce(g, s) BY DEF GraphInv
  <2>2. NULL \notin Statements(g) BY DEF NULL, Statements
  <2>3. \E f \in 1 .. Len(g.funcs) : RootsAt(g, s) = {f}
    <3> SUFFICES ASSUME NEW field \in Edges, PredecessorsIn(g, s) = {<<NULL, field>>} PROVE FALSE
      BY <1>1, <2>1 DEF LinkedOnce
    <3>1. <<NULL, field>> \in Statements(g) \X Edges BY DEF PredecessorsIn
    <3> QED BY <2>2, <3>1
  <2>4. PICK f \in 1 .. Len(g.funcs) : g.funcs[f].rootStatement = s
    BY <2>3 DEF RootsAt
  <2>5. g.funcs[f].symbolTable = table BY <2>4 DEF RightTable
  <2>6. table # g.stat[g.stat[s].thenStatement].localSymbolTable BY <1>1, <2>4, <2>5 DEF ThenIsNew
  <2> QED BY <1>1, <2>6 DEF ThenOwnsTable
<1>2. CASE g.stat[s].parentStatement # NULL BY <1>2 DEF ThenIsNew, ThenOwnsTable
<1> QED BY <1>1, <1>2

(* What a statement frees of its own are the tables whose homes it has.    *)
LEMMA FreesItsHomes ==
  ASSUME NEW g, NEW tables, GraphInv(g, tables), ThenIsNew(g), NEW s \in Statements(g), NEW table,
         RightTable(g, s, table), NEW t
  PROVE  OwnFrees(g, table, s, <<"table", t>>)
           = One(<<s, "then">> \in Homes(g, t)) + One(<<s, "else">> \in Homes(g, t))
             + One(<<s, "body">> \in Homes(g, t)) + One(<<s, "for">> \in Homes(g, t))
<1> DEFINE x == <<"table", t>>
<1>1. /\ <<s, "then">> \in HomesIn(g) /\ <<s, "else">> \in HomesIn(g)
      /\ <<s, "body">> \in HomesIn(g) /\ <<s, "for">> \in HomesIn(g)
  BY DEF HomesIn, ArmField
<1>2. \A u : <<"table", u>> = x <=> u = t OBVIOUS
<1> HIDE DEF x
<1>3. FreesThen(g, table, s, x) <=> <<s, "then">> \in Homes(g, t)
  <2>1. OwnsTable(g, <<s, "then">>) <=> g.stat[s].thenStatement # NULL
    BY DEF OwnsTable, ChildOn, ArmField
  <2>2. TableAt(g, <<s, "then">>) = g.stat[g.stat[s].thenStatement].localSymbolTable
    BY DEF TableAt, ChildOn, ArmField
  <2> QED BY <1>1, <1>2, <2>1, <2>2, ThenIsOwned DEF FreesThen, Homes
<1>4. FreesElse(g, s, x) <=> <<s, "else">> \in Homes(g, t)
  <2>1. OwnsTable(g, <<s, "else">>)
          <=> g.stat[s].elseStatement # NULL /\ g.stat[g.stat[s].elseStatement].statementType # "CF_IF"
    BY DEF OwnsTable, ChildOn, ArmField
  <2>2. TableAt(g, <<s, "else">>) = g.stat[g.stat[s].elseStatement].localSymbolTable
    BY DEF TableAt, ChildOn, ArmField
  <2> QED BY <1>1, <1>2, <2>1, <2>2 DEF FreesElse, ElseOwnsTable, Homes
<1>5. FreesBody(g, s, x) <=> <<s, "body">> \in Homes(g, t)
  <2>1. OwnsTable(g, <<s, "body">>) <=> g.stat[s].bodyStatement # NULL
    BY DEF OwnsTable, ChildOn, ArmField
  <2>2. TableAt(g, <<s, "body">>) = g.stat[g.stat[s].bodyStatement].localSymbolTable
    BY DEF TableAt, ChildOn, ArmField
  <2> QED BY <1>1, <1>2, <2>1, <2>2 DEF FreesBody, Homes
<1>6. FreesHeader(g, s, x) <=> <<s, "for">> \in Homes(g, t)
  <2>1. OwnsTable(g, <<s, "for">>) <=> g.stat[s].statementType = "CF_FOR"
    BY DEF OwnsTable, ArmField
  <2>2. TableAt(g, <<s, "for">>) = g.stat[s].localSymbolTable BY DEF TableAt
  <2> QED BY <1>1, <1>2, <2>1, <2>2 DEF FreesHeader, Homes
<1>7. <<"stat", s>> # x BY DEF x
<1>8. OwnFrees(g, table, s, x)
        = One(FreesThen(g, table, s, x)) + One(FreesElse(g, s, x)) + One(FreesBody(g, s, x))
          + One(FreesHeader(g, s, x)) + 0
  BY <1>7 DEF OwnFrees, One
<1>9. OwnFrees(g, table, s, x)
        = One(FreesThen(g, table, s, x)) + One(FreesElse(g, s, x)) + One(FreesBody(g, s, x))
          + One(FreesHeader(g, s, x))
  BY <1>8 DEF One
<1>10. /\ One(FreesThen(g, table, s, x)) = One(<<s, "then">> \in Homes(g, t))
       /\ One(FreesElse(g, s, x)) = One(<<s, "else">> \in Homes(g, t))
       /\ One(FreesBody(g, s, x)) = One(<<s, "body">> \in Homes(g, t))
       /\ One(FreesHeader(g, s, x)) = One(<<s, "for">> \in Homes(g, t))
  BY <1>3, <1>4, <1>5, <1>6 DEF One
<1> QED BY <1>9, <1>10 DEF x

(* The root on the path to the object, and its function.                   *)
LEMMA RootFrees ==
  ASSUME NEW g, NEW tables, GraphInv(g, tables), NEW x, NEW p \in Statements(g), FreedAt(g, x, p),
         \A f \in 1 .. Len(g.funcs) :
           g.funcs[f].symbolTable # NULL => <<"table", g.funcs[f].symbolTable>> # x
  PROVE  Count(cf_clean_all(g), x) = 1
<1>1. PICK e : PathAt(g, x, 1, e) BY PathToRoot
<1>2. /\ e \in Statements(g) /\ g.stat[e].parentStatement < 1
      /\ \A table : RightTable(g, e, table) => Cnt(g, table, e, x) = 1
      /\ OthersFreeNothing(g, x, 1, e)
  BY <1>1 DEF PathAt
<1>3. PICK one \in 1 .. Len(g.funcs) : RootsAt(g, e) = {one}
  <2>1. LinkedOnce(g, e) BY <1>2 DEF GraphInv
  <2>2. g.stat[e].parentStatement = NULL BY <1>2, ParentIsBefore DEF NULL
  <2>3. NULL \notin Statements(g) BY DEF NULL, Statements
  <2> SUFFICES ASSUME NEW field \in Edges, PredecessorsIn(g, e) = {<<NULL, field>>} PROVE FALSE
    BY <2>1, <2>2 DEF LinkedOnce
  <2>4. <<NULL, field>> \in Statements(g) \X Edges BY DEF PredecessorsIn
  <2> QED BY <2>3, <2>4
<1>4. ASSUME NEW f \in 1 .. Len(g.funcs)
      PROVE  Cnt(g, g.funcs[f].symbolTable, g.funcs[f].rootStatement, x) = One(f = one)
  <2> DEFINE r == g.funcs[f].rootStatement
             table == g.funcs[f].symbolTable
  <2>1. CASE f = one
    <3>1. r = e BY <1>3, <2>1 DEF RootsAt
    <3>2. RightTable(g, e, table) BY <1>3, <2>1 DEF RightTable, RootsAt
    <3> QED BY <1>2, <2>1, <3>1, <3>2 DEF One
  <2>2. CASE f # one /\ r = NULL
    <3>1. Cnt(g, table, NULL, x) = 0 BY InvIsCountable, CountsAddUp
    <3> QED BY <2>2, <3>1 DEF One
  <2>3. CASE f # one /\ r # NULL
    <3>1. r \in Statements(g) BY <2>3 DEF GraphInv, PointersOK, PointersIn
    <3>2. f \in RootsAt(g, r) BY DEF RootsAt
    <3>3. LinkedOnce(g, r) BY <3>1 DEF GraphInv
    <3>4. g.stat[r].parentStatement = NULL /\ RootsAt(g, r) = {f} BY <3>2, <3>3 DEF LinkedOnce
    <3>5. r # e BY <1>3, <2>3, <3>2
    <3>6. RightTable(g, r, table) BY <3>4 DEF RightTable, RootsAt
    <3>7. 1 <= r /\ g.stat[r].parentStatement < 1
      <4>1. r \in Nat /\ r # 0 BY <3>1, ParentIsBefore
      <4> HIDE DEF r
      <4> QED BY <3>4, <4>1 DEF NULL
    <3>8. Cnt(g, table, r, x) = 0 BY <1>2, <3>1, <3>5, <3>6, <3>7 DEF OthersFreeNothing
    <3> QED BY <2>3, <3>8 DEF One
  <2> QED BY <2>1, <2>2, <2>3
<1>5. ASSUME NEW f \in 1 .. Len(g.funcs)
      PROVE  FuncFreed(g, f) \in Seq(Objects) /\ Count(FuncFreed(g, f), x) = One(f = one)
  <2> DEFINE table == g.funcs[f].symbolTable
             own == One(table # NULL /\ <<"table", table>> = x)
             inner == Cnt(g, table, g.funcs[f].rootStatement, x)
  <2>1. FuncFreed(g, f) \in Seq(Objects) /\ Count(FuncFreed(g, f), x) = inner + own /\ inner \in Nat
    BY InvIsCountable, InvFunctions, FunctionCount
  <2>2. own = 0 BY DEF One
  <2>3. inner = One(f = one) BY <1>4
  <2> HIDE DEF own, inner
  <2> QED BY <2>1, <2>2, <2>3
<1>6. Len(g.funcs) \in Nat BY GraphParts DEF GraphInv
<1> QED BY <1>5, <1>6, OneFunctionFrees

LEMMA StatementIsFreed ==
  ASSUME NEW g, NEW tables, GraphInv(g, tables), NEW p \in Statements(g)
  PROVE  Count(cf_clean_all(g), <<"stat", p>>) = 1
<1> DEFINE x == <<"stat", p>>
<1>1. \A t : <<"table", t>> # x OBVIOUS
<1>2. \A s : <<"stat", s>> = x <=> s = p OBVIOUS
<1> HIDE DEF x
<1>3. ASSUME NEW s \in Statements(g), NEW table PROVE OwnFrees(g, table, s, x) = One(s = p)
  <2>1. ~ FreesThen(g, table, s, x) /\ ~ FreesElse(g, s, x) /\ ~ FreesBody(g, s, x)
        /\ ~ FreesHeader(g, s, x)
    BY <1>1 DEF FreesThen, FreesElse, FreesBody, FreesHeader
  <2> QED BY <1>2, <2>1 DEF OwnFrees, One
<1>4. FreedAt(g, x, p) BY <1>3 DEF FreedAt
<1>5. Count(cf_clean_all(g), x) = 1 BY <1>1, <1>4, RootFrees
<1> QED BY <1>5 DEF x

LEMMA TableIsFreed ==
  ASSUME NEW g, NEW tables, GraphInv(g, tables), HomesOK(g, tables), NEW t \in 1 .. tables
  PROVE  Count(cf_clean_all(g), <<"table", t>>) = 1
<1> DEFINE x == <<"table", t>>
<1>1. PICK p \in HomesIn(g) : Homes(g, t) = {p} BY DEF HomesOK, OneHome
<1>2. t # NULL /\ \A u : <<"table", u>> = x <=> u = t
  <2>1. t # NULL BY DEF NULL, GraphInv
  <2>2. \A u : <<"table", u>> = x <=> u = t OBVIOUS
  <2> QED BY <2>1, <2>2
<1>3. ASSUME NEW s \in Statements(g), NEW table, RightTable(g, s, table)
      PROVE  OwnFrees(g, table, s, x)
               = One(<<s, "then">> = p) + One(<<s, "else">> = p) + One(<<s, "body">> = p)
                 + One(<<s, "for">> = p)
  <2>1. OwnFrees(g, table, s, x)
          = One(<<s, "then">> \in Homes(g, t)) + One(<<s, "else">> \in Homes(g, t))
            + One(<<s, "body">> \in Homes(g, t)) + One(<<s, "for">> \in Homes(g, t))
    BY <1>3, FreesItsHomes DEF HomesOK
  <2>2. \A y : One(y \in Homes(g, t)) = One(y = p) BY <1>1 DEF One
  <2> QED BY <2>1, <2>2
<1>4. ASSUME NEW f \in 1 .. Len(g.funcs)
      PROVE  g.funcs[f].symbolTable = t <=> <<f, "func">> = p
  <2>1. <<f, "func">> \in HomesIn(g) BY DEF HomesIn
  <2>2. OwnsTable(g, <<f, "func">>) /\ TableAt(g, <<f, "func">>) = g.funcs[f].symbolTable
    BY DEF OwnsTable, TableAt
  <2>3. <<f, "func">> \in Homes(g, t) <=> g.funcs[f].symbolTable = t BY <2>1, <2>2 DEF Homes
  <2> QED BY <1>1, <2>3
<1> HIDE DEF x
<1>5. CASE p \in (1 .. Len(g.funcs)) \X {"func"}
  <2>1. PICK one \in 1 .. Len(g.funcs) : p = <<one, "func">> BY <1>5
  <2>2. \A s, table : s \in Statements(g) /\ RightTable(g, s, table) => OwnFrees(g, table, s, x) = 0
    BY <1>3, <2>1 DEF One
  <2>3. ASSUME NEW f \in 1 .. Len(g.funcs)
        PROVE  Cnt(g, g.funcs[f].symbolTable, g.funcs[f].rootStatement, x) = 0
    <3> DEFINE r == g.funcs[f].rootStatement
               table == g.funcs[f].symbolTable
    <3>1. CASE r = NULL BY <3>1, InvIsCountable, CountsAddUp
    <3>2. CASE r # NULL
      <4>1. r \in Statements(g) BY <3>2 DEF GraphInv, PointersOK, PointersIn
      <4>2. f \in RootsAt(g, r) BY DEF RootsAt
      <4>3. LinkedOnce(g, r) BY <4>1 DEF GraphInv
      <4>4. RootsAt(g, r) = {f} BY <4>2, <4>3 DEF LinkedOnce
      <4>5. RightTable(g, r, table) BY <4>4 DEF RightTable, RootsAt
      <4>6. 0 \in Nat /\ r \in Nat /\ 0 <= r
        <5>1. r \in Nat BY <4>1, ParentIsBefore
        <5> HIDE DEF r
        <5> QED BY <5>1
      <4> HIDE DEF r, table
      <4>7. \A s \in Statements(g) : 0 <= s /\ RightTable(g, s, table) => OwnFrees(g, table, s, x) = 0
        BY <2>2
      <4>8. Cnt(g, table, r, x) = 0 BY <4>1, <4>5, <4>6, <4>7, ZeroAbove
      <4> QED BY <4>8 DEF r, table
    <3> QED BY <3>1, <3>2
  <2>4. ASSUME NEW f \in 1 .. Len(g.funcs)
        PROVE  FuncFreed(g, f) \in Seq(Objects) /\ Count(FuncFreed(g, f), x) = One(f = one)
    <3> DEFINE table == g.funcs[f].symbolTable
               own == One(table # NULL /\ <<"table", table>> = x)
               inner == Cnt(g, table, g.funcs[f].rootStatement, x)
    <3>1. FuncFreed(g, f) \in Seq(Objects) /\ Count(FuncFreed(g, f), x) = inner + own
      BY InvIsCountable, InvFunctions, FunctionCount
    <3>2. table = t <=> f = one BY <1>4, <2>1
    <3>3. own = One(f = one) BY <1>2, <3>2 DEF One
    <3>4. inner = 0 BY <2>3
    <3>5. One(f = one) \in Nat BY DEF One
    <3> HIDE DEF own, inner
    <3> QED BY <3>1, <3>3, <3>4, <3>5
  <2>5. Len(g.funcs) \in Nat BY GraphParts DEF GraphInv
  <2>6. Count(cf_clean_all(g), x) = 1 BY <2>4, <2>5, OneFunctionFrees
  <2> QED BY <2>6 DEF x
<1>6. CASE p \in Statements(g) \X (DOMAIN ArmField \union {"for"})
  <2>1. PICK q \in Statements(g), arm \in DOMAIN ArmField \union {"for"} : p = <<q, arm>> BY <1>6
  <2>2. arm \in {"then", "else", "body", "for"} BY DEF ArmField
  <2>3. ASSUME NEW s \in Statements(g), NEW table, RightTable(g, s, table)
        PROVE  OwnFrees(g, table, s, x) = One(s = q)
    <3>1. OwnFrees(g, table, s, x)
            = One(s = q /\ arm = "then") + One(s = q /\ arm = "else") + One(s = q /\ arm = "body")
              + One(s = q /\ arm = "for")
      BY <1>3, <2>1, <2>3
    <3> QED BY <2>2, <3>1 DEF One
  <2>4. FreedAt(g, x, q) BY <2>3 DEF FreedAt
  <2>5. ASSUME NEW f \in 1 .. Len(g.funcs) PROVE <<"table", g.funcs[f].symbolTable>> # x
    <3>1. <<f, "func">> # p BY <2>1, <2>2
    <3> QED BY <1>2, <1>4, <3>1
  <2>6. Count(cf_clean_all(g), x) = 1 BY <2>4, <2>5, RootFrees
  <2> QED BY <2>6 DEF x
<1> QED BY <1>5, <1>6 DEF HomesIn

-----------------------------------------------------------------------------
(* Every table keeps its one home, and a new table gets one.               *)

LEMMA HomesKept ==
  ASSUME NEW g, NEW h, NEW tables, OneHome(g, tables), HomesIn(g) \subseteq HomesIn(h),
         \A p \in HomesIn(h) : \A t \in 1 .. tables : p \in Homes(h, t) <=> p \in Homes(g, t)
  PROVE  OneHome(h, tables)
<1> SUFFICES ASSUME NEW t \in 1 .. tables PROVE \E p \in HomesIn(h) : Homes(h, t) = {p}
  BY DEF OneHome
<1>1. PICK p \in HomesIn(g) : Homes(g, t) = {p} BY DEF OneHome
<1>2. Homes(h, t) \subseteq HomesIn(h) BY DEF Homes
<1>3. Homes(h, t) = {p} BY <1>1, <1>2
<1> QED BY <1>1, <1>3

LEMMA HomesAdded ==
  ASSUME NEW g, NEW h, NEW tables \in Nat, OneHome(g, tables), HomesIn(g) \subseteq HomesIn(h),
         Homes(g, tables + 1) = {},
         NEW q \in HomesIn(h), OwnsTable(h, q), TableAt(h, q) = tables + 1,
         \A t \in 1 .. tables : q \notin Homes(g, t),
         \A p \in HomesIn(h) : \A t \in 1 .. tables + 1 :
           p # q => (p \in Homes(h, t) <=> p \in Homes(g, t))
  PROVE  OneHome(h, tables + 1)
<1> SUFFICES ASSUME NEW t \in 1 .. tables + 1 PROVE \E p \in HomesIn(h) : Homes(h, t) = {p}
  BY DEF OneHome
<1>1. Homes(h, t) \subseteq HomesIn(h) BY DEF Homes
<1>2. CASE t = tables + 1
  <2>1. q \in Homes(h, t) BY <1>2 DEF Homes
  <2>2. Homes(h, t) = {q} BY <1>1, <1>2, <2>1
  <2> QED BY <2>2
<1>3. CASE t # tables + 1
  <2>1. t \in 1 .. tables BY <1>3
  <2>2. PICK p \in HomesIn(g) : Homes(g, t) = {p} BY <2>1 DEF OneHome
  <2>3. q \notin Homes(h, t) BY <1>3 DEF Homes
  <2>4. p # q BY <2>1, <2>2
  <2>5. Homes(h, t) = {p} BY <1>1, <2>2, <2>3, <2>4
  <2> QED BY <2>2, <2>5
<1> QED BY <1>2, <1>3

(* No place has a table that was not yet made. *)
LEMMA NoHomeYet ==
  ASSUME NEW g, NEW tables, GraphInv(g, tables)
  PROVE  Homes(g, tables + 1) = {}
<1>1. /\ tables \in Nat
      /\ \A s \in Statements(g) : g.stat[s].localSymbolTable \in Nat /\ g.stat[s].localSymbolTable <= tables
      /\ \A f \in 1 .. Len(g.funcs) : g.funcs[f].symbolTable \in Nat /\ g.funcs[f].symbolTable <= tables
  <2>1. \A s \in Statements(g) : g.stat[s] \in StatementRecords BY GraphParts DEF GraphInv
  <2>2. \A f \in 1 .. Len(g.funcs) : g.funcs[f] \in FunctionRecords(FuncNames)
    BY GraphParts DEF GraphInv
  <2> QED BY <2>1, <2>2 DEF GraphInv, TablesOK, StatementRecords, FunctionRecords
<1> SUFFICES ASSUME NEW p \in HomesIn(g), OwnsTable(g, p), TableAt(g, p) = tables + 1 PROVE FALSE
  BY DEF Homes
<1>2. CASE p[2] = "func"
  <2>1. p[1] \in 1 .. Len(g.funcs) BY <1>2 DEF HomesIn, ArmField
  <2> QED BY <1>1, <1>2, <2>1 DEF TableAt
<1>3. CASE p[2] = "for"
  <2>1. p[1] \in Statements(g) BY <1>3 DEF HomesIn
  <2> QED BY <1>1, <1>3, <2>1 DEF TableAt
<1>4. CASE p[2] \in DOMAIN ArmField
  <2>1. p[1] \in Statements(g) /\ p[2] # "func" /\ p[2] # "for" BY <1>4 DEF HomesIn, ArmField
  <2>2. ArmField[p[2]] \in Edges BY <1>4 DEF ArmField, Edges
  <2>3. ChildOn(g, p) # NULL BY <2>1 DEF OwnsTable
  <2>4. ChildOn(g, p) \in Statements(g) BY <2>1, <2>2, <2>3 DEF ChildOn, GraphInv, PointersOK, PointersIn
  <2> QED BY <1>1, <2>1, <2>4 DEF TableAt
<1> QED BY <1>2, <1>3, <1>4 DEF HomesIn

(* A place whose owner and table are as before is the home it was.         *)
SameStatement(g, h, s) ==
  /\ s \in Statements(h)
  /\ h.stat[s].statementType = g.stat[s].statementType
  /\ h.stat[s].parentStatement = g.stat[s].parentStatement
  /\ h.stat[s].localSymbolTable = g.stat[s].localSymbolTable

LEMMA ArmIsKept ==
  ASSUME NEW g, NEW tables, GraphInv(g, tables), NEW h, NEW s \in Statements(g),
         NEW arm \in DOMAIN ArmField, \A r \in Statements(g) : SameStatement(g, h, r),
         h.stat[s][ArmField[arm]] = g.stat[s][ArmField[arm]], NEW t
  PROVE  <<s, arm>> \in Homes(h, t) <=> <<s, arm>> \in Homes(g, t)
<1>1. <<s, arm>> \in HomesIn(g) /\ <<s, arm>> \in HomesIn(h)
  <2>1. s \in Statements(h) BY DEF SameStatement
  <2> QED BY <2>1 DEF HomesIn
<1>2. arm # "func" /\ arm # "for" BY DEF ArmField
<1>3. ArmField[arm] \in Edges BY DEF ArmField, Edges
<1> DEFINE c == g.stat[s][ArmField[arm]]
<1>4. ChildOn(g, <<s, arm>>) = c /\ ChildOn(h, <<s, arm>>) = c BY DEF ChildOn
<1>5. CASE c = NULL
  <2>1. ~ OwnsTable(g, <<s, arm>>) /\ ~ OwnsTable(h, <<s, arm>>) BY <1>2, <1>4, <1>5 DEF OwnsTable
  <2> QED BY <2>1 DEF Homes
<1>6. CASE c # NULL
  <2>1. c \in Statements(g) BY <1>3, <1>6 DEF GraphInv, PointersOK, PointersIn
  <2>2. SameStatement(g, h, c) BY <2>1
  <2> HIDE DEF c
  <2>3. OwnsTable(h, <<s, arm>>) <=> OwnsTable(g, <<s, arm>>)
    BY <1>2, <1>4, <2>2 DEF OwnsTable, SameStatement
  <2>4. TableAt(h, <<s, arm>>) = TableAt(g, <<s, arm>>) BY <1>2, <1>4, <2>2 DEF TableAt, SameStatement
  <2> QED BY <1>1, <2>3, <2>4 DEF Homes
<1> QED BY <1>5, <1>6

LEMMA HeaderIsKept ==
  ASSUME NEW g, NEW h, NEW s \in Statements(g), SameStatement(g, h, s), NEW t
  PROVE  <<s, "for">> \in Homes(h, t) <=> <<s, "for">> \in Homes(g, t)
<1>1. <<s, "for">> \in HomesIn(g) /\ <<s, "for">> \in HomesIn(h) BY DEF HomesIn, SameStatement
<1>2. OwnsTable(h, <<s, "for">>) <=> OwnsTable(g, <<s, "for">>)
  BY DEF OwnsTable, SameStatement, ArmField
<1>3. TableAt(h, <<s, "for">>) = TableAt(g, <<s, "for">>) BY DEF TableAt, SameStatement
<1> QED BY <1>1, <1>2, <1>3 DEF Homes

LEMMA FunctionIsHome ==
  ASSUME NEW g, NEW f, NEW t
  PROVE  <<f, "func">> \in Homes(g, t) <=> f \in 1 .. Len(g.funcs) /\ g.funcs[f].symbolTable = t
<1>1. <<f, "func">> \in HomesIn(g) <=> f \in 1 .. Len(g.funcs) BY DEF HomesIn, ArmField
<1>2. OwnsTable(g, <<f, "func">>) /\ TableAt(g, <<f, "func">>) = g.funcs[f].symbolTable
  BY DEF OwnsTable, TableAt
<1> QED BY <1>1, <1>2 DEF Homes

(* A step that makes no statement, function or table.                      *)
SameOwners(g, h) ==
  /\ h.funcs = g.funcs /\ Len(h.stat) = Len(g.stat)
  /\ \A s \in Statements(g) :
       SameStatement(g, h, s) /\ \A field \in Edges : h.stat[s][field] = g.stat[s][field]

LEMMA OwnersKept ==
  ASSUME NEW g, NEW tables, GraphInv(g, tables), HomesOK(g, tables), NEW h, SameOwners(g, h)
  PROVE  HomesOK(h, tables)
<1>1. HomesIn(h) = HomesIn(g) BY DEF SameOwners, HomesIn, Statements
<1>2. ASSUME NEW p \in HomesIn(h), NEW t PROVE p \in Homes(h, t) <=> p \in Homes(g, t)
  <2>1. CASE p \in (1 .. Len(g.funcs)) \X {"func"}
    <3>1. PICK f \in 1 .. Len(g.funcs) : p = <<f, "func">> BY <2>1
    <3> QED BY <3>1, FunctionIsHome DEF SameOwners
  <2>2. CASE p \in Statements(g) \X {"for"}
    <3>1. PICK s \in Statements(g) : p = <<s, "for">> BY <2>2
    <3> QED BY <3>1, HeaderIsKept DEF SameOwners
  <2>3. CASE p \in Statements(g) \X DOMAIN ArmField
    <3>1. PICK s \in Statements(g), arm \in DOMAIN ArmField : p = <<s, arm>> BY <2>3
    <3>2. ArmField[arm] \in Edges BY DEF ArmField, Edges
    <3>3. h.stat[s][ArmField[arm]] = g.stat[s][ArmField[arm]] BY <3>2 DEF SameOwners
    <3>4. \A r \in Statements(g) : SameStatement(g, h, r) BY DEF SameOwners
    <3> QED BY <3>1, <3>3, <3>4, ArmIsKept
  <2> QED BY <1>1, <2>1, <2>2, <2>3 DEF HomesIn
<1>3. OneHome(h, tables)
  <2>1. OneHome(g, tables) BY DEF HomesOK
  <2> QED BY <1>1, <1>2, <2>1, HomesKept
<1>4. ThenIsNew(h)
  <2> SUFFICES ASSUME NEW s \in Statements(g), h.stat[s].thenStatement # NULL
               PROVE  LET t == h.stat[h.stat[s].thenStatement].localSymbolTable
                      IN  IF h.stat[s].parentStatement = NULL
                          THEN \A f \in 1 .. Len(h.funcs) :
                                 h.funcs[f].rootStatement = s => h.funcs[f].symbolTable # t
                          ELSE h.stat[h.stat[s].parentStatement].localSymbolTable # t
    BY DEF ThenIsNew, SameOwners, Statements
  <2>1. "thenStatement" \in Edges BY DEF Edges
  <2> DEFINE c == g.stat[s].thenStatement
             p == g.stat[s].parentStatement
  <2>2. h.stat[s].thenStatement = c /\ h.stat[s].parentStatement = p
    BY <2>1 DEF SameOwners, SameStatement
  <2>3. c \in Statements(g) /\ (p # NULL => p \in Statements(g))
    BY <2>1, <2>2 DEF GraphInv, PointersOK, PointersIn
  <2>4. h.stat[c].localSymbolTable = g.stat[c].localSymbolTable
    BY <2>3 DEF SameOwners, SameStatement
  <2>5. p # NULL => h.stat[p].localSymbolTable = g.stat[p].localSymbolTable
    BY <2>3 DEF SameOwners, SameStatement
  <2>6. h.funcs = g.funcs BY DEF SameOwners
  <2>7. IF p = NULL THEN \A f \in 1 .. Len(g.funcs) :
                           g.funcs[f].rootStatement = s => g.funcs[f].symbolTable # g.stat[c].localSymbolTable
        ELSE g.stat[p].localSymbolTable # g.stat[c].localSymbolTable
    BY <2>2 DEF HomesOK, ThenIsNew
  <2> HIDE DEF c, p
  <2> QED BY <2>2, <2>4, <2>5, <2>6, <2>7
<1> QED BY <1>3, <1>4 DEF HomesOK

-----------------------------------------------------------------------------
(* A statement that is added. *)

(* Whether it comes with a table: the header of a for and the first        *)
(* statement of a branch do, except for an else if.                        *)
BringsTable(edge, type) ==
  IF edge = "followingStatement" THEN type = "CF_FOR"
  ELSE ~ (edge = "elseStatement" /\ type = "CF_IF")

(* The place of that table. *)
ArmOfEdge == [thenStatement |-> "then", elseStatement |-> "else", bodyStatement |-> "body"]

NewPlace(g, edge) ==
  IF edge = "followingStatement" THEN <<NewId(g), "for">> ELSE <<g.activeStat, ArmOfEdge[edge]>>

AddsStatement(g, tables, h, edge, type) ==
  /\ GraphInv(g, tables)
  /\ edge \in Edges
  /\ edge # "followingStatement" => g.activeStat # NULL /\ type # "CF_FOR"
  /\ Grows(g, h, edge, type, FuncNames)
  /\ EdgeIsFree(g, edge)

LEMMA GrownStatements ==
  ASSUME NEW g, NEW tables, NEW h, NEW edge, NEW type, AddsStatement(g, tables, h, edge, type)
  PROVE  /\ \A s \in Statements(g) : SameStatement(g, h, s)
         /\ \A s \in Statements(g) : \A field \in Edges :
              h.stat[s][field] = IF s = g.activeStat /\ field = edge THEN NewId(g) ELSE g.stat[s][field]
         /\ Statements(h) = Statements(g) \union {NewId(g)} /\ NewId(g) \notin Statements(g)
         /\ NewId(g) # NULL
         /\ h.stat[NewId(g)].statementType = type
         /\ \A field \in Edges : h.stat[NewId(g)][field] = NULL
         /\ Len(h.funcs) = Len(g.funcs)
         /\ \A f \in 1 .. Len(g.funcs) : h.funcs[f].symbolTable = g.funcs[f].symbolTable
<1>1. edge \in Edges /\ GraphInv(g, tables) /\ Grows(g, h, edge, type, FuncNames) BY DEF AddsStatement
<1>2. \A s \in Statements(g) : OldKept(g, h, edge, s) BY <1>1, GrowsOld
<1>3. NewAdded(g, h, type) BY <1>1, GrowsNew
<1>4. Len(h.funcs) = Len(g.funcs)
      /\ \A f \in 1 .. Len(g.funcs) : h.funcs[f].symbolTable = g.funcs[f].symbolTable
  BY <1>1 DEF Grows, FunctionsKept
<1>5. h.stat[NewId(g)].statementType = type BY <1>3 DEF NewAdded, IsNew
<1> QED BY <1>2, <1>3, <1>4, <1>5 DEF OldKept, NewAdded, SameStatement

LEMMA PlacesAfter ==
  ASSUME NEW g, NEW tables, NEW h, NEW edge, NEW type, AddsStatement(g, tables, h, edge, type),
         NEW p \in HomesIn(h), BringsTable(edge, type) => p # NewPlace(g, edge), NEW t
  PROVE  p \in Homes(h, t) <=> p \in Homes(g, t)
<1>1. /\ \A s \in Statements(g) : SameStatement(g, h, s)
      /\ \A s \in Statements(g) : \A field \in Edges :
           h.stat[s][field] = IF s = g.activeStat /\ field = edge THEN NewId(g) ELSE g.stat[s][field]
      /\ Statements(h) = Statements(g) \union {NewId(g)} /\ NewId(g) \notin Statements(g)
      /\ NewId(g) # NULL
      /\ h.stat[NewId(g)].statementType = type
      /\ \A field \in Edges : h.stat[NewId(g)][field] = NULL
      /\ Len(h.funcs) = Len(g.funcs)
      /\ \A f \in 1 .. Len(g.funcs) : h.funcs[f].symbolTable = g.funcs[f].symbolTable
  BY GrownStatements
<1>2. GraphInv(g, tables) /\ edge \in Edges /\ EdgeIsFree(g, edge)
      /\ (edge # "followingStatement" => g.activeStat # NULL /\ type # "CF_FOR")
  BY DEF AddsStatement
<1>3. \A q \in HomesIn(g) : q[1] = NewId(g) => q[2] = "func"
  BY <1>1 DEF HomesIn
<1>4. CASE p \in (1 .. Len(h.funcs)) \X {"func"}
  <2>1. PICK f \in 1 .. Len(g.funcs) : p = <<f, "func">> BY <1>1, <1>4
  <2> QED BY <1>1, <2>1, FunctionIsHome
<1>5. CASE p \in Statements(h) \X {"for"}
  <2>1. PICK s \in Statements(h) : p = <<s, "for">> BY <1>5
  <2>2. CASE s = NewId(g)
    <3>1. type # "CF_FOR" BY <1>2, <2>1, <2>2 DEF BringsTable, NewPlace
    <3>2. p \notin Homes(g, t) BY <1>3, <2>1, <2>2 DEF Homes
    <3>3. ~ OwnsTable(h, p) BY <1>1, <2>1, <2>2, <3>1 DEF OwnsTable, ArmField
    <3> QED BY <3>2, <3>3 DEF Homes
  <2>3. CASE s \in Statements(g) BY <1>1, <2>1, <2>3, HeaderIsKept
  <2> QED BY <1>1, <2>2, <2>3
<1>6. CASE p \in Statements(h) \X DOMAIN ArmField
  <2>1. PICK s \in Statements(h), arm \in DOMAIN ArmField : p = <<s, arm>> BY <1>6
  <2>2. ArmField[arm] \in Edges /\ arm # "for" /\ arm # "func" /\ ArmField[arm] # "followingStatement"
        /\ ArmOfEdge[ArmField[arm]] = arm
    BY DEF ArmField, Edges, ArmOfEdge
  <2>3. CASE s = NewId(g)
    <3>1. ChildOn(h, p) = NULL BY <1>1, <2>1, <2>2, <2>3 DEF ChildOn
    <3>2. ~ OwnsTable(h, p) BY <2>1, <2>2, <3>1 DEF OwnsTable
    <3>3. p \notin Homes(g, t) BY <1>3, <2>1, <2>2, <2>3 DEF Homes
    <3> QED BY <3>2, <3>3 DEF Homes
  <2>4. CASE s \in Statements(g) /\ ~ (s = g.activeStat /\ ArmField[arm] = edge)
    <3>1. h.stat[s][ArmField[arm]] = g.stat[s][ArmField[arm]] BY <1>1, <2>2, <2>4
    <3> QED BY <1>1, <1>2, <2>1, <2>4, <3>1, ArmIsKept
  <2>5. CASE s \in Statements(g) /\ s = g.activeStat /\ ArmField[arm] = edge
    <3>1. ~ BringsTable(edge, type)
      <4>1. p = NewPlace(g, edge) BY <2>1, <2>2, <2>5 DEF NewPlace
      <4> QED BY <4>1
    <3>2. edge = "elseStatement" /\ type = "CF_IF" BY <2>2, <2>5, <3>1 DEF BringsTable
    <3>3. arm = "else" BY <2>5, <3>2 DEF ArmField
    <3>4. ChildOn(h, p) = NewId(g) BY <1>1, <1>2, <2>1, <2>5 DEF ChildOn
    <3>5. ~ OwnsTable(h, p) BY <1>1, <2>1, <2>2, <3>2, <3>3, <3>4 DEF OwnsTable
    <3>6. s # NULL BY <2>5 DEF Statements, NULL
    <3>7. ChildOn(g, p) = NULL BY <1>2, <2>1, <2>5, <3>6 DEF ChildOn, EdgeIsFree
    <3>8. ~ OwnsTable(g, p) BY <2>1, <2>2, <3>7 DEF OwnsTable
    <3> QED BY <3>5, <3>8 DEF Homes
  <2> QED BY <1>1, <2>3, <2>4, <2>5
<1> QED BY <1>4, <1>5, <1>6 DEF HomesIn

LEMMA TableNumbers ==
  ASSUME NEW g, NEW tables, GraphInv(g, tables)
  PROVE  /\ tables \in Nat
         /\ \A s \in Statements(g) : g.stat[s].localSymbolTable # tables + 1
         /\ \A f \in 1 .. Len(g.funcs) : g.funcs[f].symbolTable # tables + 1
<1>1. /\ \A s \in Statements(g) : g.stat[s] \in StatementRecords
      /\ \A f \in 1 .. Len(g.funcs) : g.funcs[f] \in FunctionRecords(FuncNames)
  BY GraphParts DEF GraphInv
<1>2. tables \in Nat BY DEF GraphInv
<1>3. ASSUME NEW s \in Statements(g) PROVE g.stat[s].localSymbolTable # tables + 1
  <2>1. g.stat[s].localSymbolTable \in Nat BY <1>1 DEF StatementRecords
  <2>2. g.stat[s].localSymbolTable <= tables BY DEF GraphInv, TablesOK
  <2> QED BY <1>2, <2>1, <2>2
<1>4. ASSUME NEW f \in 1 .. Len(g.funcs) PROVE g.funcs[f].symbolTable # tables + 1
  <2>1. g.funcs[f].symbolTable \in Nat BY <1>1 DEF FunctionRecords
  <2>2. g.funcs[f].symbolTable <= tables BY DEF GraphInv, TablesOK
  <2> QED BY <1>2, <2>1, <2>2
<1> QED BY <1>2, <1>3, <1>4

LEMMA ThenStaysNew ==
  ASSUME NEW g, NEW tables, NEW h, NEW edge, NEW type, AddsStatement(g, tables, h, edge, type),
         ThenIsNew(g),
         edge = "thenStatement" => h.stat[NewId(g)].localSymbolTable = tables + 1
  PROVE  ThenIsNew(h)
<1>1. /\ \A s \in Statements(g) : SameStatement(g, h, s)
      /\ \A s \in Statements(g) : \A field \in Edges :
           h.stat[s][field] = IF s = g.activeStat /\ field = edge THEN NewId(g) ELSE g.stat[s][field]
      /\ Statements(h) = Statements(g) \union {NewId(g)} /\ NewId(g) \notin Statements(g)
      /\ \A field \in Edges : h.stat[NewId(g)][field] = NULL
      /\ Len(h.funcs) = Len(g.funcs)
      /\ \A f \in 1 .. Len(g.funcs) : h.funcs[f].symbolTable = g.funcs[f].symbolTable
  BY GrownStatements
<1>2. GraphInv(g, tables) /\ Grows(g, h, edge, type, FuncNames) BY DEF AddsStatement
<1>3. "thenStatement" \in Edges BY DEF Edges
<1>4. /\ \A s \in Statements(g) : g.stat[s].localSymbolTable # tables + 1
      /\ \A f \in 1 .. Len(g.funcs) : g.funcs[f].symbolTable # tables + 1
  BY <1>2, TableNumbers
<1>5. \A f \in 1 .. Len(g.funcs) : \A s \in Statements(g) :
        h.funcs[f].rootStatement = s => g.funcs[f].rootStatement = s
  BY <1>1, <1>2 DEF Grows, FunctionsKept
<1> DEFINE Differs(k, s, t) ==
             IF k.stat[s].parentStatement = NULL
             THEN \A f \in 1 .. Len(k.funcs) :
                    k.funcs[f].rootStatement = s => k.funcs[f].symbolTable # t
             ELSE k.stat[k.stat[s].parentStatement].localSymbolTable # t
<1>6. SUFFICES ASSUME NEW s \in Statements(h), h.stat[s].thenStatement # NULL
               PROVE  Differs(h, s, h.stat[h.stat[s].thenStatement].localSymbolTable)
  BY DEF ThenIsNew
<1>7. s \in Statements(g) BY <1>1, <1>3, <1>6
<1> DEFINE p == g.stat[s].parentStatement
           c == g.stat[s].thenStatement
<1>8. h.stat[s].parentStatement = p BY <1>1, <1>7 DEF SameStatement
<1>9. p # NULL => p \in Statements(g) /\ h.stat[p].localSymbolTable = g.stat[p].localSymbolTable
  BY <1>1, <1>2, <1>7 DEF GraphInv, PointersOK, PointersIn, SameStatement
<1>10. CASE s = g.activeStat /\ edge = "thenStatement"
  <2>1. h.stat[s].thenStatement = NewId(g) BY <1>1, <1>3, <1>7, <1>10
  <2>2. h.stat[h.stat[s].thenStatement].localSymbolTable = tables + 1 BY <1>10, <2>1
  <2> HIDE DEF p, c
  <2>3. Differs(h, s, tables + 1) BY <1>1, <1>4, <1>8, <1>9
  <2> QED BY <2>2, <2>3
<1>11. CASE ~ (s = g.activeStat /\ edge = "thenStatement")
  <2>1. h.stat[s].thenStatement = c BY <1>1, <1>3, <1>7, <1>11
  <2>2. c # NULL /\ c \in Statements(g)
    BY <1>2, <1>3, <1>6, <1>7, <2>1 DEF GraphInv, PointersOK, PointersIn
  <2>3. h.stat[c].localSymbolTable = g.stat[c].localSymbolTable BY <1>1, <2>2 DEF SameStatement
  <2>4. Differs(g, s, g.stat[c].localSymbolTable) BY <1>7, <2>2 DEF ThenIsNew
  <2> HIDE DEF c
  <2>5. Differs(h, s, g.stat[c].localSymbolTable)
    <3> DEFINE t == g.stat[c].localSymbolTable
    <3> HIDE DEF t
    <3>1. IF p = NULL THEN \A f \in 1 .. Len(g.funcs) :
                             g.funcs[f].rootStatement = s => g.funcs[f].symbolTable # t
          ELSE g.stat[p].localSymbolTable # t
      BY <2>4 DEF t
    <3> HIDE DEF p
    <3>2. Differs(h, s, t) BY <1>1, <1>5, <1>7, <1>8, <1>9, <3>1
    <3> QED BY <3>2 DEF t
  <2> QED BY <2>1, <2>3, <2>5
<1> QED BY <1>10, <1>11

LEMMA GrownPlaces ==
  ASSUME NEW g, NEW tables, NEW h, NEW edge, NEW type, AddsStatement(g, tables, h, edge, type)
  PROVE  HomesIn(g) \subseteq HomesIn(h)
BY GrownStatements DEF HomesIn

LEMMA GrowsQuietly ==
  ASSUME NEW g, NEW tables, NEW h, NEW edge, NEW type, AddsStatement(g, tables, h, edge, type),
         HomesOK(g, tables), ~ BringsTable(edge, type)
  PROVE  HomesOK(h, tables)
<1>1. edge # "thenStatement" BY DEF BringsTable
<1>2. ThenIsNew(h) BY <1>1, ThenStaysNew DEF HomesOK
<1>3. \A p \in HomesIn(h) : \A t \in 1 .. tables : p \in Homes(h, t) <=> p \in Homes(g, t)
  BY PlacesAfter
<1>4. OneHome(h, tables) BY <1>3, GrownPlaces, HomesKept DEF HomesOK
<1> QED BY <1>2, <1>4 DEF HomesOK

LEMMA GrowsWithTable ==
  ASSUME NEW g, NEW tables, NEW h, NEW edge, NEW type, AddsStatement(g, tables, h, edge, type),
         HomesOK(g, tables), BringsTable(edge, type),
         h.stat[NewId(g)].localSymbolTable = tables + 1
  PROVE  HomesOK(h, tables + 1)
<1> DEFINE q == NewPlace(g, edge)
<1>1. ThenIsNew(h) BY ThenStaysNew DEF HomesOK
<1>2. GraphInv(g, tables) /\ edge \in Edges /\ EdgeIsFree(g, edge)
      /\ (edge # "followingStatement" => g.activeStat # NULL /\ type # "CF_FOR")
  BY DEF AddsStatement
<1>3. /\ \A s \in Statements(g) : \A field \in Edges :
           h.stat[s][field] = IF s = g.activeStat /\ field = edge THEN NewId(g) ELSE g.stat[s][field]
      /\ Statements(h) = Statements(g) \union {NewId(g)} /\ NewId(g) \notin Statements(g)
      /\ NewId(g) # NULL
      /\ h.stat[NewId(g)].statementType = type
  BY GrownStatements
<1>4. q \in HomesIn(h) /\ OwnsTable(h, q) /\ TableAt(h, q) = tables + 1
      /\ \A t \in 1 .. tables : q \notin Homes(g, t)
  <2>1. CASE edge = "followingStatement"
    <3>1. q = <<NewId(g), "for">> /\ type = "CF_FOR" BY <2>1 DEF NewPlace, BringsTable
    <3>2. q \in HomesIn(h) BY <1>3, <3>1 DEF HomesIn
    <3>3. OwnsTable(h, q) BY <1>3, <3>1 DEF OwnsTable
    <3>4. TableAt(h, q) = tables + 1 BY <3>1 DEF TableAt
    <3>5. q \notin HomesIn(g) BY <1>3, <3>1 DEF HomesIn
    <3> QED BY <3>2, <3>3, <3>4, <3>5 DEF Homes
  <2>2. CASE edge # "followingStatement"
    <3> DEFINE a == g.activeStat
               arm == ArmOfEdge[edge]
    <3>1. q = <<a, arm>> BY <2>2 DEF NewPlace
    <3>2. /\ arm \in DOMAIN ArmField /\ ArmField[arm] = edge /\ arm # "func" /\ arm # "for"
          /\ arm = "else" => edge = "elseStatement"
      BY <1>2, <2>2 DEF ArmOfEdge, ArmField, Edges
    <3>3. a \in Statements(g) /\ a # NULL BY <1>2, <2>2 DEF GraphInv, GraphOK
    <3> HIDE DEF arm, q
    <3>4. q \in HomesIn(h) BY <1>3, <3>1, <3>2, <3>3 DEF HomesIn
    <3>5. ChildOn(h, q) = NewId(g) BY <1>2, <1>3, <3>1, <3>2, <3>3 DEF ChildOn
    <3>6. arm = "else" => type # "CF_IF" BY <3>2 DEF BringsTable
    <3>7. OwnsTable(h, q) BY <1>3, <3>1, <3>2, <3>5, <3>6 DEF OwnsTable
    <3>8. TableAt(h, q) = tables + 1 BY <3>1, <3>2, <3>5 DEF TableAt
    <3>9. ChildOn(g, q) = NULL BY <1>2, <3>1, <3>2, <3>3 DEF ChildOn, EdgeIsFree
    <3>10. ~ OwnsTable(g, q) BY <3>1, <3>2, <3>9 DEF OwnsTable
    <3> QED BY <3>4, <3>7, <3>8, <3>10 DEF Homes
  <2> QED BY <2>1, <2>2
<1>5. \A p \in HomesIn(h) : \A t \in 1 .. tables + 1 :
        p # q => (p \in Homes(h, t) <=> p \in Homes(g, t))
  BY PlacesAfter
<1>6. tables \in Nat /\ Homes(g, tables + 1) = {} BY <1>2, NoHomeYet, TableNumbers
<1>7. OneHome(g, tables) /\ HomesIn(g) \subseteq HomesIn(h) BY GrownPlaces DEF HomesOK
<1> HIDE DEF q
<1>8. OneHome(h, tables + 1) BY <1>4, <1>5, <1>6, <1>7, HomesAdded
<1> QED BY <1>1, <1>8 DEF HomesOK

-----------------------------------------------------------------------------
(* A function that is added, and its table. *)

LEMMA FunctionWithoutTable ==
  ASSUME NEW g, NEW tables, GraphInv(g, tables), HomesOK(g, tables), NEW h,
         h.stat = g.stat, Len(h.funcs) = Len(g.funcs) + 1,
         h.funcs[Len(h.funcs)].symbolTable = NULL, h.funcs[Len(h.funcs)].rootStatement = NULL,
         \A i \in 1 .. Len(g.funcs) : h.funcs[i] = g.funcs[i]
  PROVE  HomesOK(h, tables)
<1>1. Len(g.funcs) \in Nat /\ tables \in Nat BY GraphParts DEF GraphInv
<1>2. 1 .. Len(h.funcs) = 1 .. Len(g.funcs) \union {Len(h.funcs)} /\ Len(h.funcs) \notin 1 .. Len(g.funcs)
  BY <1>1
<1>3. HomesIn(g) \subseteq HomesIn(h) BY <1>2 DEF HomesIn, Statements
<1>4. ASSUME NEW p \in HomesIn(h), NEW t \in 1 .. tables PROVE p \in Homes(h, t) <=> p \in Homes(g, t)
  <2>1. CASE p \in (1 .. Len(h.funcs)) \X {"func"}
    <3>1. PICK f \in 1 .. Len(h.funcs) : p = <<f, "func">> BY <2>1
    <3>2. t # NULL BY <1>1 DEF NULL
    <3> QED BY <1>2, <3>1, <3>2, FunctionIsHome
  <2>2. CASE p \notin (1 .. Len(h.funcs)) \X {"func"}
    <3>1. p \in HomesIn(g) BY <2>2 DEF HomesIn, Statements
    <3>2. p[2] # "func" BY <2>2 DEF HomesIn, ArmField
    <3>3. OwnsTable(h, p) <=> OwnsTable(g, p) BY <3>2 DEF OwnsTable, ChildOn
    <3>4. TableAt(h, p) = TableAt(g, p) BY <3>2 DEF TableAt, ChildOn
    <3> QED BY <3>1, <3>3, <3>4 DEF Homes
  <2> QED BY <2>1, <2>2
<1>5. OneHome(h, tables) BY <1>3, <1>4, HomesKept DEF HomesOK
<1>6. ThenIsNew(h)
  <2>1. ThenIsNew(g) BY DEF HomesOK
  <2>2. \A s \in Statements(g) : s # NULL BY DEF Statements, NULL
  <2> QED BY <1>2, <2>1, <2>2 DEF ThenIsNew, Statements
<1> QED BY <1>5, <1>6 DEF HomesOK

LEMMA FunctionGetsTable ==
  ASSUME NEW g, NEW tables, GraphInv(g, tables), HomesOK(g, tables), NEW h,
         NEW f \in 1 .. Len(g.funcs), g.funcs[f].symbolTable = NULL, g.funcs[f].rootStatement = NULL,
         h.stat = g.stat, Len(h.funcs) = Len(g.funcs), h.funcs[f].symbolTable = tables + 1,
         \A i \in 1 .. Len(g.funcs) : /\ h.funcs[i].rootStatement = g.funcs[i].rootStatement
                                      /\ i # f => h.funcs[i] = g.funcs[i]
  PROVE  HomesOK(h, tables + 1)
<1> DEFINE q == <<f, "func">>
<1>1. tables \in Nat BY DEF GraphInv
<1>2. HomesIn(h) = HomesIn(g) BY DEF HomesIn, Statements
<1>3. q \in HomesIn(h) BY DEF HomesIn
<1>4. OwnsTable(h, q) /\ TableAt(h, q) = tables + 1 BY DEF OwnsTable, TableAt
<1>5. \A t \in 1 .. tables : q \notin Homes(g, t)
  <2>1. \A t \in 1 .. tables : t # NULL BY <1>1 DEF NULL
  <2> QED BY <2>1, FunctionIsHome
<1>6. ASSUME NEW p \in HomesIn(h), NEW t \in 1 .. tables + 1, p # q
      PROVE  p \in Homes(h, t) <=> p \in Homes(g, t)
  <2>1. CASE p \in (1 .. Len(g.funcs)) \X {"func"}
    <3>1. PICK i \in 1 .. Len(g.funcs) : p = <<i, "func">> BY <2>1
    <3>2. h.funcs[i] = g.funcs[i] BY <1>6, <3>1
    <3> QED BY <3>1, <3>2, FunctionIsHome
  <2>2. CASE p \notin (1 .. Len(g.funcs)) \X {"func"}
    <3>1. p[2] # "func" BY <1>2, <2>2 DEF HomesIn, ArmField
    <3>2. OwnsTable(h, p) <=> OwnsTable(g, p) BY <3>1 DEF OwnsTable, ChildOn
    <3>3. TableAt(h, p) = TableAt(g, p) BY <3>1 DEF TableAt, ChildOn
    <3> QED BY <1>2, <3>2, <3>3 DEF Homes
  <2> QED BY <2>1, <2>2
<1>7. Homes(g, tables + 1) = {} BY NoHomeYet
<1> HIDE DEF q
<1>8. OneHome(h, tables + 1) BY <1>1, <1>2, <1>3, <1>4, <1>5, <1>6, <1>7, HomesAdded DEF HomesOK
<1>9. ThenIsNew(h)
  <2>1. ThenIsNew(g) BY DEF HomesOK
  <2>2. \A s \in Statements(g) : s # NULL BY DEF Statements, NULL
  <2>3. \A s \in Statements(g) : \A i \in 1 .. Len(h.funcs) :
          h.funcs[i].rootStatement = s => g.funcs[i].rootStatement = s /\ h.funcs[i] = g.funcs[i]
    BY <2>2
  <2>4. Statements(h) = Statements(g) BY DEF Statements
  <2> QED BY <2>1, <2>3, <2>4 DEF ThenIsNew
<1> QED BY <1>8, <1>9 DEF HomesOK

-----------------------------------------------------------------------------
(* Every step keeps the homes of the tables. *)

TInv == HomesOK(graph, allocated)

LEMMA InitHomes == Init => TInv
<1> SUFFICES ASSUME Init PROVE TInv OBVIOUS
<1>1. graph = cf_init /\ allocated = 0 BY DEF Init
<1>2. Statements(graph) = {} /\ 1 .. allocated = {} BY <1>1 DEF cf_init, Statements
<1> QED BY <1>2 DEF TInv, HomesOK, OneHome, ThenIsNew

LEMMA SameGraphHomes ==
  ASSUME TInv, graph' = graph, allocated' = allocated
  PROVE  TInv'
BY DEF TInv

(* The functions. *)
LEMMA FuncNameHomes ==
  ASSUME IInv, TInv, NEW name \in FuncNames, FuncName(name)
  PROVE  TInv'
<1> DEFINE h == graph'
<1>1. /\ GraphInv(graph, allocated) /\ HomesOK(graph, allocated)
      /\ h = cf_make_function(graph, name) /\ allocated' = allocated
  BY DEF IInv, TInv, FuncName
<1>2. ~ (name = Main /\ graph.mainFunc # NULL)
  <2>1. graph.mainFunc \in 0 .. Len(graph.funcs) /\ Len(graph.funcs) \in Nat
    BY <1>1, GraphParts DEF GraphInv, PointersOK
  <2>2. MainIsMain(graph) BY <1>1 DEF GraphInv
  <2>3. \A f \in 1 .. Len(graph.funcs) : graph.funcs[f].name # name BY DEF FuncName
  <2> QED BY <2>1, <2>2, <2>3 DEF MainIsMain, NULL
<1>3. /\ h.stat = graph.stat /\ Len(h.funcs) = Len(graph.funcs) + 1
      /\ h.funcs[Len(h.funcs)].symbolTable = NULL /\ h.funcs[Len(h.funcs)].rootStatement = NULL
      /\ \A i \in 1 .. Len(graph.funcs) : h.funcs[i] = graph.funcs[i]
  BY <1>1, <1>2, FunctionKeepsGraph
<1> HIDE DEF h
<1>4. HomesOK(h, allocated) BY <1>1, <1>3, FunctionWithoutTable
<1> QED BY <1>1, <1>4 DEF TInv, h

LEMMA FuncBodyHomes ==
  ASSUME IInv, TInv, FuncBody
  PROVE  TInv'
<1> DEFINE h == graph'
           f == graph.activeFunc
<1>1. /\ GraphInv(graph, allocated) /\ f # NULL /\ InnermostCall(graph, calls)
      /\ Top(calls).at = "func_name" /\ calls # << >>
  BY Innermost DEF FuncBody
<1>2. graph.activeStat = NULL /\ graph.funcs[f].symbolTable = NULL BY <1>1 DEF InnermostCall
<1>3. f \in 1 .. Len(graph.funcs) /\ graph.funcs[f].rootStatement = NULL
  BY <1>1, <1>2 DEF GraphInv, GraphOK, RootIsMade
<1>4. h = cf_assign_function_symtable(graph, allocated + 1) /\ allocated' = allocated + 1
  BY DEF FuncBody
<1>5. /\ h.stat = graph.stat /\ Len(h.funcs) = Len(graph.funcs)
      /\ h.funcs[f].symbolTable = allocated + 1
      /\ \A i \in 1 .. Len(graph.funcs) :
           /\ h.funcs[i].rootStatement = graph.funcs[i].rootStatement
           /\ i # f => h.funcs[i] = graph.funcs[i]
  BY <1>1, <1>2, <1>4, FunctionTableKeepsGraph
<1>6. HomesOK(graph, allocated) BY DEF TInv
<1> HIDE DEF h, f
<1>7. HomesOK(h, allocated + 1) BY <1>1, <1>2, <1>3, <1>5, <1>6, FunctionGetsTable
<1> QED BY <1>4, <1>7 DEF TInv, h

(* A statement that is added, with a table and without.                    *)
LEMMA AddedHomes ==
  ASSUME IInv, TInv, NEW edge \in Edges, NEW type,
         edge # "followingStatement" => graph.activeStat # NULL /\ type # "CF_FOR",
         Grows(graph, graph', edge, type, FuncNames), EdgeIsFree(graph, edge),
         IF BringsTable(edge, type)
         THEN allocated' = allocated + 1 /\ graph'.stat[NewId(graph)].localSymbolTable = allocated'
         ELSE allocated' = allocated
  PROVE  TInv'
<1> DEFINE h == graph'
<1>1. AddsStatement(graph, allocated, h, edge, type) BY DEF AddsStatement, IInv
<1>2. HomesOK(graph, allocated) BY DEF TInv
<1>3. CASE BringsTable(edge, type)
  <2>1. allocated' = allocated + 1 /\ h.stat[NewId(graph)].localSymbolTable = allocated + 1
    BY <1>3
  <2> HIDE DEF h
  <2>2. HomesOK(h, allocated + 1) BY <1>1, <1>2, <1>3, <2>1, GrowsWithTable
  <2> QED BY <2>1, <2>2 DEF TInv, h
<1>4. CASE ~ BringsTable(edge, type)
  <2>1. allocated' = allocated BY <1>4
  <2> HIDE DEF h
  <2>2. HomesOK(h, allocated) BY <1>1, <1>2, <1>4, GrowsQuietly
  <2> QED BY <2>1, <2>2 DEF TInv, h
<1> QED BY <1>3, <1>4

(* The edge that a statement of the block takes.                           *)
LEMMA FollowingIsFree ==
  ASSUME IInv
  PROVE  EdgeIsFree(graph, "followingStatement") /\ "followingStatement" \in Edges
BY DEF IInv, GraphInv, ActiveIsLast, EdgeIsFree, Edges

LEMMA ExpressionHomes ==
  ASSUME IInv, TInv, Expression
  PROVE  TInv'
<1>1. Grows(graph, graph', "followingStatement", "CF_BASIC", FuncNames) BY ExpressionGrows
<1>2. ~ BringsTable("followingStatement", "CF_BASIC") BY DEF BringsTable
<1>3. allocated' = allocated BY DEF Expression
<1> QED BY <1>1, <1>2, <1>3, FollowingIsFree, AddedHomes

LEMMA ReturnKeywordHomes ==
  ASSUME IInv, TInv, ReturnKeyword
  PROVE  TInv'
<1>1. Grows(graph, graph', "followingStatement", "CF_RETURN", FuncNames) BY ReturnKeywordGrows
<1>2. ~ BringsTable("followingStatement", "CF_RETURN") BY DEF BringsTable
<1>3. allocated' = allocated BY DEF ReturnKeyword
<1> QED BY <1>1, <1>2, <1>3, FollowingIsFree, AddedHomes

LEMMA IfHomes ==
  ASSUME IInv, TInv, If
  PROVE  TInv'
<1>1. Grows(graph, graph', "followingStatement", "CF_IF", FuncNames) BY IfGrows
<1>2. ~ BringsTable("followingStatement", "CF_IF") BY DEF BringsTable
<1>3. allocated' = allocated BY DEF If
<1> QED BY <1>1, <1>2, <1>3, FollowingIsFree, AddedHomes

LEMMA ForHomes ==
  ASSUME IInv, TInv, For
  PROVE  TInv'
<1>1. /\ Grows(graph, graph', "followingStatement", "CF_FOR", FuncNames)
      /\ graph'.stat[NewId(graph)].localSymbolTable = allocated'
      /\ allocated' = allocated + 1
  BY ForGrows
<1>2. BringsTable("followingStatement", "CF_FOR") BY DEF BringsTable
<1> QED BY <1>1, <1>2, FollowingIsFree, AddedHomes

LEMMA ThenHomes ==
  ASSUME IInv, TInv, Then
  PROVE  TInv'
<1>1. /\ graph.activeStat # NULL /\ OwnerState("if_cond", graph.stat[graph.activeStat])
      /\ Grows(graph, graph', "thenStatement", "CF_BASIC", FuncNames)
      /\ graph'.stat[NewId(graph)].localSymbolTable = allocated'
      /\ allocated' = allocated + 1
  BY ThenGrows
<1>2. BringsTable("thenStatement", "CF_BASIC") /\ "thenStatement" \in Edges
  BY DEF BringsTable, Edges
<1>3. EdgeIsFree(graph, "thenStatement") BY <1>1 DEF OwnerState, EdgeIsFree
<1> QED BY <1>1, <1>2, <1>3, AddedHomes

LEMMA ForBodyHomes ==
  ASSUME IInv, TInv, ForBody
  PROVE  TInv'
<1>1. /\ graph.activeStat # NULL /\ OwnerState("for_header", graph.stat[graph.activeStat])
      /\ Grows(graph, graph', "bodyStatement", "CF_BASIC", FuncNames)
      /\ graph'.stat[NewId(graph)].localSymbolTable = allocated'
      /\ allocated' = allocated + 1
  BY ForBlockGrows
<1>2. BringsTable("bodyStatement", "CF_BASIC") /\ "bodyStatement" \in Edges
  BY DEF BringsTable, Edges
<1>3. EdgeIsFree(graph, "bodyStatement") BY <1>1 DEF OwnerState, EdgeIsFree
<1> QED BY <1>1, <1>2, <1>3, AddedHomes

LEMMA ElseHomes ==
  ASSUME IInv, TInv, Else
  PROVE  TInv'
<1>1. /\ Reading /\ At("else_") /\ "else_" \in Headers /\ "elseStatement" \in Edges
      /\ Grows(graph, graph', "elseStatement", "CF_BASIC", FuncNames)
      /\ EdgeIsFree(graph, "elseStatement")
      /\ graph'.stat[NewId(graph)].localSymbolTable = allocated'
      /\ allocated' = allocated + 1
  BY ElseGrows
<1>2. BringsTable("elseStatement", "CF_BASIC") BY DEF BringsTable
<1>3. graph.activeStat # NULL BY <1>1, AtHeader
<1> QED BY <1>1, <1>2, <1>3, AddedHomes

(* The else arm of an else if is its if, which has the table around it.    *)
LEMMA ElseIfHomes ==
  ASSUME IInv, TInv, ElseIf
  PROVE  TInv'
<1>1. /\ Reading /\ At("else_") /\ "else_" \in Headers /\ "elseStatement" \in Edges
      /\ "CF_IF" \in StatementTypes /\ allocated' = allocated
  BY DEF ElseIf, Headers, Edges, StatementTypes
<1>2. /\ Grows(graph, graph', "elseStatement", "CF_IF", FuncNames)
      /\ EdgeIsFree(graph, "elseStatement")
  BY <1>1, ElseStep DEF ElseIf
<1>3. graph.activeStat # NULL BY <1>1, AtHeader
<1>4. ~ BringsTable("elseStatement", "CF_IF") BY DEF BringsTable
<1> QED BY <1>1, <1>2, <1>3, <1>4, AddedHomes

(* After an error: a statement where the parser happens to be, or, before  *)
(* the first function, nothing but an error code.                          *)
LEMMA RecoveredExpressionHomes ==
  ASSUME IInv, TInv, RecoveredExpression
  PROVE  TInv'
<1>1. graph' = cf_make_next_statement(graph, "CF_BASIC") /\ allocated' = allocated
  BY DEF RecoveredExpression
<1>2. GraphInv(graph, allocated) BY DEF IInv
<1>3. CASE graph.activeFunc = NULL
  <2>1. graph' = Raise(graph, "CF_ERROR_NO_ACTIVE_FUNCTION")
    BY <1>1, <1>3 DEF cf_make_next_statement
  <2>2. graph'.stat = graph.stat /\ graph'.funcs = graph.funcs
    BY <1>2, <2>1 DEF Raise, GraphInv, GraphOK, Graphs
  <2>3. SameOwners(graph, graph')
    BY <2>2 DEF SameOwners, SameStatement, Statements
  <2>4. HomesOK(graph', allocated) BY <1>2, <2>3, OwnersKept DEF TInv
  <2> QED BY <1>1, <2>4 DEF TInv
<1>4. CASE graph.activeFunc # NULL
  <2>1. "CF_BASIC" \in StatementTypes BY DEF StatementTypes
  <2>2. Grows(graph, graph', "followingStatement", "CF_BASIC", FuncNames)
    BY <1>1, <1>2, <1>4, <2>1, NextStep
  <2>3. ~ BringsTable("followingStatement", "CF_BASIC") BY DEF BringsTable
  <2> QED BY <1>1, <2>2, <2>3, FollowingIsFree, AddedHomes
<1> QED BY <1>3, <1>4

(* An AST that is attached, and an arm that is left.                       *)
LEMMA ReturnListHomes ==
  ASSUME IInv, TInv, ReturnList
  PROVE  TInv'
<1> DEFINE h == graph'
<1>1. h = cf_use_ast_explicit(graph) /\ allocated' = allocated BY DEF ReturnList
<1>2. Reading /\ At("return") /\ "return" \in Headers BY DEF ReturnList, Headers
<1>3. GraphInv(graph, allocated) /\ GraphOK(graph, FuncNames) /\ graph.activeStat # NULL
  BY <1>2, AtHeader
<1>4. SameButAst(graph, h, FuncNames) BY <1>1, <1>3, UseAstKeepsTheRest DEF GraphOK
<1> HIDE DEF h
<1>5. SameOwners(graph, h)
  BY <1>4 DEF SameButAst, SameOwners, SameStatement, Statements, Edges
<1>6. HomesOK(h, allocated) BY <1>3, <1>5, OwnersKept DEF TInv
<1> QED BY <1>1, <1>6 DEF TInv, h

LEMMA ArmLeftHomes ==
  ASSUME IInv, TInv, Reading, NEW at \in Arms, At(at), allocated' = allocated,
         graph' = cf_pop_previous_branched_statement(graph)
  PROVE  TInv'
<1> DEFINE h == graph'
           n == Top(calls).owner
<1>1. LeavesArm(graph, allocated, h, calls) BY AtArm
<1>2. GraphInv(graph, allocated) BY DEF IInv
<1> HIDE DEF h
<1>3. PopsTo(graph, h, n, FuncNames) BY <1>1, LeavingReturns
<1>4. SameOwners(graph, h)
  BY <1>3 DEF PopsTo, SameOwners, SameStatement, Statements, Edges
<1>5. HomesOK(h, allocated) BY <1>2, <1>4, OwnersKept DEF TInv
<1> QED BY <1>5 DEF TInv, h

LEMMA NextHomes == IInv /\ TInv /\ [Next]_vars => TInv'
<1> SUFFICES ASSUME IInv, TInv, [Next]_vars PROVE TInv' OBVIOUS
<1>1. ASSUME NEW name \in FuncNames, FuncName(name) PROVE TInv' BY <1>1, FuncNameHomes
<1>2. CASE FuncBody BY <1>2, FuncBodyHomes
<1>3. CASE CloseFunc BY <1>3, SameGraphHomes DEF CloseFunc
<1>4. CASE Expression BY <1>4, ExpressionHomes
<1>5. CASE ReturnKeyword BY <1>5, ReturnKeywordHomes
<1>6. CASE ReturnList BY <1>6, ReturnListHomes
<1>7. CASE ReturnNothing BY <1>7, SameGraphHomes DEF ReturnNothing
<1>8. CASE If BY <1>8, IfHomes
<1>9. CASE Then BY <1>9, ThenHomes
<1>10. CASE CloseBranch
  <2>1. \E at \in Arms : At(at) BY <1>10 DEF CloseBranch, Arms
  <2> QED BY <1>10, <2>1, ArmLeftHomes DEF CloseBranch
<1>11. CASE NoElse BY <1>11, SameGraphHomes DEF NoElse
<1>12. CASE Else BY <1>12, ElseHomes
<1>13. CASE ElseIf BY <1>13, ElseIfHomes
<1>14. CASE ElseIfReturn
  <2>1. "elif" \in Arms BY DEF Arms
  <2> QED BY <1>14, <2>1, ArmLeftHomes DEF ElseIfReturn
<1>15. CASE For BY <1>15, ForHomes
<1>16. CASE ForBody BY <1>16, ForBodyHomes
<1>17. CASE CloseFor
  <2>1. "for" \in Arms BY DEF Arms
  <2> QED BY <1>17, <2>1, ArmLeftHomes DEF CloseFor
<1>18. CASE Fail BY <1>18, SameGraphHomes DEF Fail
<1>19. CASE RecoveredExpression BY <1>19, RecoveredExpressionHomes
<1>20. CASE EndOfFile BY <1>20, SameGraphHomes DEF EndOfFile
<1>21. CASE UNCHANGED vars BY <1>21, SameGraphHomes DEF vars
<1> QED
  BY <1>1, <1>2, <1>3, <1>4, <1>5, <1>6, <1>7, <1>8, <1>9, <1>10, <1>11, <1>12, <1>13, <1>14,
     <1>15, <1>16, <1>17, <1>18, <1>19, <1>20, <1>21 DEF Next

LEMMA InvIsCleaned == IInv /\ TInv => CleanedOnce
<1> SUFFICES ASSUME IInv, TInv,
                    NEW x \in {<<"stat", s>> : s \in Statements(graph)}
                                \union {<<"table", t>> : t \in 1 .. allocated}
             PROVE  Count(cf_clean_all(graph), x) = 1
  BY DEF CleanedOnce
<1>1. GraphInv(graph, allocated) /\ HomesOK(graph, allocated) BY DEF IInv, TInv
<1>2. CASE \E s \in Statements(graph) : x = <<"stat", s>>
  <2>1. PICK s \in Statements(graph) : x = <<"stat", s>> BY <1>2
  <2> QED BY <1>1, <2>1, StatementIsFreed
<1>3. CASE \E t \in 1 .. allocated : x = <<"table", t>>
  <2>1. PICK t \in 1 .. allocated : x = <<"table", t>> BY <1>3
  <2> QED BY <1>1, <2>1, TableIsFreed
<1> QED BY <1>2, <1>3

(* At the end of the parse, whether it succeeded or met an error anywhere, *)
(* cf_clean_all and clean_stat (control_flow.c) free every statement and   *)
(* every local symbol table, each exactly once: nothing leaks and nothing  *)
(* is freed twice.                                                         *)
THEOREM EverythingIsFreedOnce == Spec => []CleanedOnce
<1>1. Init => TInv BY InitHomes
<1>2. IInv /\ TInv /\ [Next]_vars => TInv' BY NextHomes
<1>3. IInv /\ TInv => CleanedOnce BY InvIsCleaned
<1> QED BY <1>1, <1>2, <1>3, BuilderInvariant, PTL DEF Spec
=============================================================================
