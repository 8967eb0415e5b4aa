----------------------------- MODULE DeadCode_kept -----------------------------
(***************************************************************************)
(* What remove_dead_code keeps, frees and leaves, in a program without a   *)
(* dead `else if': a statement is freed exactly when the graph no longer   *)
(* leads to it and no pending call looks at a freed one, the live code     *)
(* stays what it was, and no dead branch is left.                          *)
(*                                                                         *)
(* The invariant: what is kept hangs together, its branches can be         *)
(* visited, and the pending calls look at kept statements, each at one     *)
(* that stands before those that the calls above it look at.               *)
(***************************************************************************)
EXTENDS DeadCode_proofs

-----------------------------------------------------------------------------
(* The removal keeps all this.                                             *)

Kept == {s \in Statements(graph) : ~ HasStat(freed, s)}

KInv ==
  /\ Linked(graph, Kept)
  /\ ArmsOK(graph, cond, Kept)
  /\ PendingOK(graph, Kept, pending)

LEMMA InRemoval ==
  ASSUME AInv, KInv, pending # << >>
  PROVE  LET cs == Pop(pending)
         IN  /\ EdgesLeadOn(graph) /\ Placed(graph) /\ Kept \subseteq Statements(graph)
             /\ Removable(graph, allocated)
             /\ cs \in Seq(PendingCalls(graph)) /\ PendingOK(graph, Kept, cs)
             /\ CallOK(graph, Kept, Current)
             /\ Current.at \in PointersIn(graph) /\ Current.fun \in 1 .. Len(graph.funcs)
             /\ Current.at # NULL => Current.at \in Kept
             /\ \A i \in 1 .. Len(cs) : Under(graph, cs[i], Current)
             /\ Current.op = "function" => \A i \in 1 .. Len(cs) : cs[i].op = "function"
<1>1. pending \in Seq(PendingCalls(graph)) /\ Removable(graph, allocated) BY DEF AInv
<1>2. EdgesLeadOn(graph) BY <1>1 DEF Removable
<1>3. Placed(graph) BY <1>1, RemovableIsPlaced
<1>4. PendingOK(graph, Kept, pending) BY DEF KInv
<1>5. /\ PendingOK(graph, Kept, Pop(pending)) /\ CallOK(graph, Kept, Top(pending))
      /\ \A i \in 1 .. Len(Pop(pending)) : Under(graph, Pop(pending)[i], Top(pending))
      /\ Top(pending).op = "function" =>
           \A i \in 1 .. Len(Pop(pending)) : Pop(pending)[i].op = "function"
  BY <1>1, <1>4, CallIsPopped
<1>6. /\ Current.at \in PointersIn(graph) /\ Current.fun \in 1 .. Len(graph.funcs)
      /\ Pop(pending) \in Seq(PendingCalls(graph))
  BY AtCurrent
<1>7. Current.at # NULL => Current.at \in Kept BY <1>5 DEF CallOK, Current
<1>8. Kept \subseteq Statements(graph) BY DEF Kept
<1> QED BY <1>1, <1>2, <1>3, <1>5, <1>6, <1>7, <1>8 DEF Current

LEMMA InVisit ==
  ASSUME AInv, KInv, pending # << >>, Current.op = "visit", Current.at # NULL
  PROVE  LET cs == Pop(pending)
             s  == Current.at
         IN  /\ s \in Kept /\ AllBefore(graph, cs, s)
             /\ \A p \in Statements(graph) :
                  graph.stat[s].parentStatement = p /\ graph.stat[p].followingStatement = s =>
                    AllBefore(graph, cs, p)
             /\ graph.stat[s].parentStatement = NULL => AllBefore(graph, cs, NULL)
<1> DEFINE cs == Pop(pending)
           s  == Current.at
<1>1. /\ Placed(graph) /\ Kept \subseteq Statements(graph) /\ PendingOK(graph, Kept, cs)
      /\ s \in Kept /\ \A i \in 1 .. Len(cs) : Under(graph, cs[i], Current)
  BY InRemoval
<1>2. s \in Statements(graph) BY <1>1
<1> HIDE DEF cs
<1>3. /\ AllBefore(graph, cs, s)
      /\ \A p \in Statements(graph) :
           graph.stat[s].parentStatement = p /\ graph.stat[p].followingStatement = s =>
             AllBefore(graph, cs, p)
      /\ graph.stat[s].parentStatement = NULL => \A i \in 1 .. Len(cs) : cs[i].at = NULL
  BY <1>1, <1>2, BelowAVisit
<1>4. (\A i \in 1 .. Len(cs) : cs[i].at = NULL) => AllBefore(graph, cs, NULL)
  BY DEF AllBefore, Before
<1> QED BY <1>1, <1>3, <1>4 DEF cs

LEMMA QuietKInv ==
  ASSUME KInv, graph' = graph, freed' = freed, cond' = cond, PendingOK(graph, Kept, pending')
  PROVE  KInv' /\ Kept' = Kept
<1>1. Kept' = Kept BY DEF Kept
<1> QED BY <1>1 DEF KInv

LEMMA VisitFunctionKeeps ==
  ASSUME AInv, KInv, VisitFunction
  PROVE  KInv' /\ Kept' = Kept
<1> DEFINE cs == Pop(pending)
           f == Current.fun
           r == graph.funcs[f].rootStatement
<1>1. pending # << >> /\ Current.op = "function" /\ pending' = cs \o Do("visit", r, f)
      /\ graph' = graph /\ freed' = freed /\ cond' = cond
  BY DEF VisitFunction, Removing, vars
<1>2. /\ cs \in Seq(PendingCalls(graph)) /\ PendingOK(graph, Kept, cs)
      /\ f \in 1 .. Len(graph.funcs) /\ Removable(graph, allocated)
      /\ \A i \in 1 .. Len(cs) : cs[i].op = "function"
  BY <1>1, InRemoval
<1>3. r \in PointersIn(graph) BY <1>2, PointersOfRemovable
<1>4. r # NULL => r \in Kept /\ IsRootOf(graph, r, f)
  BY <1>2 DEF KInv, Linked, RootIsLinked, IsRootOf
<1>5. \A i \in 1 .. Len(cs) : cs[i].at = NULL
  <2> SUFFICES ASSUME NEW i \in 1 .. Len(cs) PROVE cs[i].at = NULL OBVIOUS
  <2>1. CallOK(graph, Kept, cs[i]) BY <1>2 DEF PendingOK
  <2> QED BY <1>2, <2>1 DEF CallOK
<1> HIDE DEF cs, r, f
<1>6. \A i \in 1 .. Len(cs) : BeforeVisit(graph, cs[i], r) BY <1>5 DEF BeforeVisit
<1>7. PendingOK(graph, Kept, cs \o Do("visit", r, f)) BY <1>2, <1>3, <1>4, <1>6, VisitIsPushed
<1> QED BY <1>1, <1>7, QuietKInv

LEMMA FollowKeeps ==
  ASSUME AInv, KInv, Follow
  PROVE  KInv' /\ Kept' = Kept
<1> DEFINE cs == Pop(pending)
           f == Current.fun
           s == Current.at
           n == graph.stat[s].followingStatement
<1>1. /\ pending # << >> /\ Current.op = "follow"
      /\ pending' = IF s = NULL \/ n = NULL THEN cs ELSE cs \o Do("visit", n, f)
      /\ graph' = graph /\ freed' = freed /\ cond' = cond
  BY DEF Follow, Removing, vars
<1>2. /\ cs \in Seq(PendingCalls(graph)) /\ PendingOK(graph, Kept, cs)
      /\ f \in 1 .. Len(graph.funcs) /\ Kept \subseteq Statements(graph)
      /\ \A i \in 1 .. Len(cs) : Under(graph, cs[i], Current)
      /\ s # NULL => s \in Kept
      /\ Placed(graph)
  BY <1>1, InRemoval
<1>3. CASE s = NULL \/ n = NULL
  <2>1. pending' = cs BY <1>1, <1>3
  <2> QED BY <1>1, <1>2, <2>1, QuietKInv
<1>4. CASE ~ (s = NULL \/ n = NULL)
  <2>1. "followingStatement" \in Edges BY FieldNames
  <2>2. EdgeIsLinked(graph, Kept, s, "followingStatement") BY <1>2, <1>4, <2>1 DEF KInv, Linked
  <2>3. n \in Kept /\ graph.stat[n].parentStatement = s BY <1>4, <2>2 DEF EdgeIsLinked
  <2>4. n \in PointersIn(graph) BY <1>2, <2>3 DEF PointersIn
  <2>5. ASSUME NEW i \in 1 .. Len(cs) PROVE BeforeVisit(graph, cs[i], n)
    <3>1. Under(graph, cs[i], Current) BY <1>2
    <3>2. Before(graph, cs[i], s) BY <1>1, <1>4, <3>1 DEF Under
    <3>3. CallOK(graph, Kept, cs[i]) BY <1>2 DEF PendingOK
    <3> SUFFICES ASSUME cs[i].at # NULL PROVE BeforeVisit(graph, cs[i], n) BY DEF BeforeVisit
    <3> DEFINE a == Anchor(graph, cs[i])
    <3>4. cs[i].at \in Statements(graph) BY <1>2, <3>3 DEF CallOK
    <3>5. a \in Nat /\ s \in Nat BY <1>2, <1>4, <3>4 DEF Anchor, Placed
    <3>6. a # NULL /\ a < s BY <3>2 DEF Before
    <3> HIDE DEF a
    <3>7. a <= s /\ a # s BY <3>5, <3>6
    <3> QED BY <2>3, <3>6, <3>7 DEF BeforeVisit, a
  <2> HIDE DEF cs, n, s, f
  <2>6. PendingOK(graph, Kept, cs \o Do("visit", n, f))
    <3>1. n # NULL /\ graph.stat[n].parentStatement # NULL BY <1>4, <2>3
    <3> QED BY <1>2, <2>3, <2>4, <2>5, <3>1, VisitIsPushed
  <2>7. pending' = cs \o Do("visit", n, f) BY <1>1, <1>4
  <2> QED BY <1>1, <2>6, <2>7, QuietKInv
<1> QED BY <1>3, <1>4

LEMMA VisitOtherKeeps ==
  ASSUME AInv, KInv, VisitOther
  PROVE  KInv' /\ Kept' = Kept
<1> DEFINE cs == Pop(pending)
           f == Current.fun
           s == Current.at
<1>1. /\ pending # << >> /\ Current.op = "visit" /\ pending' = cs \o Do("follow", s, f)
      /\ graph' = graph /\ freed' = freed /\ cond' = cond
  BY DEF VisitOther, Removing, vars
<1>2. /\ cs \in Seq(PendingCalls(graph)) /\ PendingOK(graph, Kept, cs)
      /\ f \in 1 .. Len(graph.funcs) /\ s \in PointersIn(graph)
  BY <1>1, InRemoval
<1>3. s # NULL => s \in Kept /\ AllBefore(graph, cs, s) BY <1>1, InVisit
<1> HIDE DEF cs, s, f
<1>4. PendingOK(graph, Kept, cs \o Do("follow", s, f)) BY <1>2, <1>3, FollowIsPushed
<1> QED BY <1>1, <1>4, QuietKInv

LEMMA VisitBodyKeeps ==
  ASSUME AInv, KInv, VisitBody
  PROVE  KInv' /\ Kept' = Kept
<1> DEFINE cs == Pop(pending)
           f == Current.fun
           s == Current.at
           t == graph.stat[s]["bodyStatement"]
           low == cs \o Do("follow", s, f)
<1>1. /\ pending # << >> /\ Current.op = "visit" /\ s # NULL
      /\ pending' = low \o Do("visit", t, f)
      /\ graph' = graph /\ freed' = freed /\ cond' = cond
  BY DEF VisitBody, Visiting, Removing, vars
<1>2. /\ cs \in Seq(PendingCalls(graph)) /\ PendingOK(graph, Kept, cs) /\ Placed(graph)
      /\ f \in 1 .. Len(graph.funcs) /\ Removable(graph, allocated)
      /\ Kept \subseteq Statements(graph)
  BY <1>1, InRemoval
<1>3. s \in Kept /\ AllBefore(graph, cs, s) /\ Linked(graph, Kept) BY <1>1, InVisit DEF KInv
<1>4. t \in PointersIn(graph) /\ "bodyStatement" \in ArmLinks
  BY <1>2, <1>3, PointersOfRemovable, FieldNames
<1> HIDE DEF cs, s, f
<1>5. low \in Seq(PendingCalls(graph)) /\ PendingOK(graph, Kept, low) /\ AtMost(graph, low, s)
  BY <1>2, <1>3, VisitEndIsPushed
<1> HIDE DEF low
<1>6. PendingOK(graph, Kept, low \o Do("visit", graph.stat[s]["bodyStatement"], f))
  BY <1>2, <1>3, <1>4, <1>5, ArmIsPushed
<1> QED BY <1>1, <1>6, QuietKInv

LEMMA VisitBranchesKeeps ==
  ASSUME AInv, KInv, VisitBranches
  PROVE  KInv' /\ Kept' = Kept
<1> DEFINE cs == Pop(pending)
           f == Current.fun
           s == Current.at
           e == graph.stat[s]["elseStatement"]
           t == graph.stat[s]["thenStatement"]
           low == cs \o Do("follow", s, f)
           mid == low \o Do("visit", e, f)
<1>1. /\ pending # << >> /\ Current.op = "visit" /\ s # NULL
      /\ pending' = mid \o Do("visit", t, f)
      /\ graph' = graph /\ freed' = freed /\ cond' = cond
  BY DEF VisitBranches, Visiting, Removing, vars
<1>2. /\ cs \in Seq(PendingCalls(graph)) /\ PendingOK(graph, Kept, cs) /\ Placed(graph)
      /\ f \in 1 .. Len(graph.funcs) /\ Removable(graph, allocated)
      /\ Kept \subseteq Statements(graph)
  BY <1>1, InRemoval
<1>3. s \in Kept /\ AllBefore(graph, cs, s) /\ Linked(graph, Kept) BY <1>1, InVisit DEF KInv
<1>4. /\ t \in PointersIn(graph) /\ "thenStatement" \in ArmLinks
      /\ e \in PointersIn(graph) /\ "elseStatement" \in ArmLinks
  BY <1>2, <1>3, PointersOfRemovable, FieldNames
<1> HIDE DEF cs, s, f
<1>5. low \in Seq(PendingCalls(graph)) /\ PendingOK(graph, Kept, low) /\ AtMost(graph, low, s)
  BY <1>2, <1>3, VisitEndIsPushed
<1> HIDE DEF low
<1>6. mid \in Seq(PendingCalls(graph)) /\ PendingOK(graph, Kept, mid) /\ AtMost(graph, mid, s)
  BY <1>2, <1>3, <1>4, <1>5, ArmIsPushed
<1> HIDE DEF mid
<1>7. PendingOK(graph, Kept, mid \o Do("visit", graph.stat[s]["thenStatement"], f))
  BY <1>2, <1>3, <1>4, <1>6, ArmIsPushed
<1> QED BY <1>1, <1>7, QuietKInv

(* What is left after something is freed.                                  *)
LEMMA KeptAfter ==
  ASSUME NEW D, NowFreed(D), SameSize(graph, graph')
  PROVE  Kept' = Kept \ D
<1>1. Statements(graph') = Statements(graph) BY DEF SameSize
<1>2. \A x : HasStat(freed', x) <=> HasStat(freed, x) \/ x \in D BY DEF NowFreed
<1> QED BY <1>1, <1>2 DEF Kept

LEMMA UnlinkedArms ==
  ASSUME NEW g, NEW c, NEW K, K \subseteq Statements(g), Linked(g, K), ArmsOK(g, c, K),
         NEW h, NEW s, NEW f, Unlinks(g, h, s, f), NEW L, L \subseteq K
  PROVE  ArmsOK(h, c, L)
<1> SUFFICES ASSUME NEW y \in L, NEW field \in ArmLinks PROVE ArmFits(h, c, h.stat[y][field])
  BY DEF ArmsOK
<1>1. h.stat[y][field] = g.stat[y][field] BY DEF Unlinks
<1> DEFINE t == g.stat[y][field]
<1>2. ArmFits(g, c, t) BY DEF ArmsOK
<1>3. t # NULL => t \in K
  <2>1. field \in Edges BY FieldNames
  <2>2. EdgeIsLinked(g, K, y, field) BY <2>1 DEF Linked
  <2> QED BY <2>2 DEF EdgeIsLinked
<1> HIDE DEF t
<1>4. t # NULL => h.stat[t].statementType = g.stat[t].statementType
                  /\ h.stat[t].elseStatement = g.stat[t].elseStatement
  <2>1. t # NULL => h.stat[t]["elseStatement"] = g.stat[t]["elseStatement"]
    BY <1>3, FieldNames DEF Unlinks
  <2>2. t # NULL => h.stat[t].statementType = g.stat[t].statementType
    BY <1>3 DEF Unlinks, SameSize, SameNode
  <2> QED BY <2>1, <2>2
<1>5. ArmFits(h, c, t) BY <1>2, <1>4 DEF ArmFits
<1> QED BY <1>1, <1>5 DEF t

LEMMA RearmedArms ==
  ASSUME NEW g, NEW c, NEW K, K \subseteq Statements(g), Linked(g, K), ArmsOK(g, c, K),
         NEW h, NEW s \in K, NEW arm, Rearms(g, h, s, arm), NEW L, L \subseteq K,
         NEW b, b[s] = "true", \A t \in K : t # s => b[t] = c[t]
  PROVE  ArmsOK(h, b, L)
<1>1. /\ SameSize(g, h)
      /\ \A y \in Statements(g) : y # s => \A field \in ArmLinks : h.stat[y][field] = g.stat[y][field]
      /\ \A field \in ArmLinks : h.stat[s][field] = NULL
           \/ \E from \in ArmLinks : h.stat[s][field] = g.stat[s][from]
  <2>1. s \in Statements(g) BY K \subseteq Statements(g)
  <2>2. CASE TakesElse(g, h, s)
    <3>1. /\ SameSize(g, h)
          /\ \A y \in Statements(g) : y # s =>
               \A field \in ArmLinks : h.stat[y][field] = g.stat[y][field]
      BY <2>2, FieldNames DEF TakesElse
    <3>2. ASSUME NEW field \in ArmLinks
          PROVE  \/ h.stat[s][field] = NULL
                 \/ \E from \in ArmLinks : h.stat[s][field] = g.stat[s][from]
      <4>1. field \in Links BY FieldNames
      <4>2. h.stat[s][field] = IF field = "thenStatement" THEN g.stat[s]["elseStatement"]
                               ELSE IF field = "elseStatement" THEN NULL ELSE g.stat[s][field]
        BY <2>1, <2>2, <4>1 DEF TakesElse
      <4> QED BY <4>2, FieldNames
    <3> QED BY <3>1, <3>2
  <2>3. CASE Relinks(g, h, s, "elseStatement", NULL)
    <3>1. /\ SameSize(g, h)
          /\ \A y \in Statements(g) : y # s =>
               \A field \in ArmLinks : h.stat[y][field] = g.stat[y][field]
      BY <2>3, FieldNames DEF Relinks
    <3>2. ASSUME NEW field \in ArmLinks
          PROVE  \/ h.stat[s][field] = NULL
                 \/ \E from \in ArmLinks : h.stat[s][field] = g.stat[s][from]
      <4>1. field \in Links BY FieldNames
      <4>2. h.stat[s][field] = IF field = "elseStatement" THEN NULL ELSE g.stat[s][field]
        BY <2>1, <2>3, <4>1 DEF Relinks
      <4> QED BY <4>2
    <3> QED BY <3>1, <3>2
  <2> QED BY <2>2, <2>3 DEF Rearms
<1> SUFFICES ASSUME NEW y \in L, NEW field \in ArmLinks, h.stat[y][field] # NULL
             PROVE  ArmFits(h, b, h.stat[y][field])
  BY DEF ArmsOK, ArmFits
<1> DEFINE t == h.stat[y][field]
<1>2. \E from \in ArmLinks : t = g.stat[y][from]
  <2>1. CASE y = s BY <1>1, <2>1
  <2>2. CASE y # s BY <1>1, <2>2
  <2> QED BY <2>1, <2>2
<1>3. PICK from \in ArmLinks : t = g.stat[y][from] BY <1>2
<1>4. ArmFits(g, c, t) BY <1>3 DEF ArmsOK
<1>5. t # NULL /\ t \in K
  <2>1. from \in Edges BY FieldNames
  <2>2. EdgeIsLinked(g, K, y, from) BY <2>1 DEF Linked
  <2> QED BY <1>3, <2>2 DEF EdgeIsLinked
<1> HIDE DEF t
<1>6. h.stat[t].statementType = g.stat[t].statementType BY <1>1, <1>5 DEF SameSize, SameNode
<1>7. ASSUME t = s PROVE ArmFits(h, b, t) BY <1>4, <1>6, <1>7 DEF ArmFits
<1>8. ASSUME t # s PROVE ArmFits(h, b, t)
  <2>1. h.stat[t]["elseStatement"] = g.stat[t]["elseStatement"] BY <1>1, <1>5, <1>8, FieldNames
  <2>2. b[t] = c[t] BY <1>5, <1>8
  <2> QED BY <1>4, <1>6, <2>1, <2>2 DEF ArmFits
<1>9. ArmFits(h, b, t) BY <1>7, <1>8
<1> QED BY <1>9 DEF t

LEMMA RemoveStatementKeeps ==
  ASSUME AInv, AInv', KInv, RemoveStatement
  PROVE  KInv'
<1> DEFINE g == graph
           h == graph'
           cs == Pop(pending)
           f == Current.fun
           s == Current.at
           p == g.stat[s].parentStatement
           D == Reach(h)[s]
           K == Kept
           L == K \ D
<1>1. /\ phase = "remove" /\ pending # << >> /\ s \in Statements(g)
      /\ g.stat[s].statementType \in {"CF_IF", "CF_FOR"}
      /\ cond[s] = "false" /\ g.stat[s].elseStatement = NULL
      /\ Unlinks(g, h, s, f) /\ Removable(h, allocated)
      /\ NowFreed(D)
      /\ pending' = cs \o Do("follow", p, f)
  BY RemovesStatement
<1>2. Current.op = "visit" /\ s # NULL /\ cond' = cond BY DEF RemoveStatement, Visiting, Removing
<1>3. /\ cs \in Seq(PendingCalls(g)) /\ PendingOK(g, K, cs) /\ Placed(g) /\ EdgesLeadOn(g)
      /\ f \in 1 .. Len(g.funcs) /\ Removable(g, allocated) /\ CallOK(g, K, Current)
      /\ K \subseteq Statements(g)
  BY <1>1, InRemoval
<1>4. /\ s \in K /\ AllBefore(g, cs, s)
      /\ \A q \in Statements(g) :
           p = q /\ g.stat[q].followingStatement = s => AllBefore(g, cs, q)
      /\ p = NULL => AllBefore(g, cs, NULL)
  BY <1>1, <1>2, InVisit
<1>5. Linked(g, K) /\ ArmsOK(g, cond, K) BY DEF KInv
<1>6. EdgesLeadOn(h) /\ Placed(h) BY <1>1, RemovableIsPlaced DEF Removable
<1>7. SameSize(g, h) BY <1>1 DEF Unlinks
<1> DEFINE cur == Current
<1>8. cur.op = "visit" /\ cur.at = s /\ cur.fun = f /\ CallOK(g, K, cur) BY <1>2, <1>3
<1> HIDE DEF h, cs, f, s, cur, K
<1>9. /\ FollowsOrRoot(g, K, s, f)
      /\ p # NULL => p \in K /\ g.stat[p].followingStatement = s
  BY <1>1, <1>3, <1>4, <1>5, <1>8, RemovedFollows
<1>10. AllBefore(g, cs, p)
  <2>1. CASE p = NULL BY <1>4, <2>1
  <2>2. CASE p # NULL BY <1>3, <1>4, <1>9, <2>2
  <2> QED BY <2>1, <2>2
<1> HIDE DEF p, D, g
<1>11. Untouched(g, h, K, L, p) /\ h.stat[s].parentStatement = p /\ p \notin D
  BY <1>1, <1>3, <1>4, <1>5, <1>6, <1>9, UnlinkedUntouched DEF p, D
<1>12. PendingOK(h, L, cs) /\ AllBefore(h, cs, p) BY <1>3, <1>10, <1>11, CallsStay
<1>13. Linked(h, L) BY <1>1, <1>3, <1>4, <1>5, <1>6, <1>9, UnlinkedIsLinked DEF D
<1>14. ArmsOK(h, cond, L) BY <1>1, <1>3, <1>5, UnlinkedArms
<1>15. Len(h.funcs) = Len(g.funcs) /\ Statements(h) = Statements(g) BY <1>7 DEF SameSize
<1>16. p \in PointersIn(h)
  <2>1. p # NULL => p \in Statements(g) BY <1>3, <1>9
  <2> QED BY <1>15, <2>1 DEF PointersIn
<1>17. cs \in Seq(PendingCalls(h)) BY <1>3, <1>15 DEF PendingCalls, PointersIn
<1>18. p # NULL => p \in L BY <1>9, <1>11
<1>19. f \in 1 .. Len(h.funcs) BY <1>3, <1>15
<1> HIDE DEF L
<1>20. PendingOK(h, L, cs \o Do("follow", p, f))
  BY <1>12, <1>16, <1>17, <1>18, <1>19, FollowIsPushed
<1>21. Kept' = L
  <2>1. NowFreed(D) /\ SameSize(graph, graph') BY <1>1, <1>7 DEF g, h
  <2>2. Kept' = Kept \ D BY <2>1, KeptAfter
  <2> QED BY <2>2 DEF L, K
<1>22. PendingOK(h, L, pending') BY <1>1, <1>20
<1> QED BY <1>2, <1>13, <1>14, <1>21, <1>22 DEF KInv, h

LEMMA RearmKeeps ==
  ASSUME AInv, KInv, pending # << >>, Current.op = "visit", Current.at # NULL,
         NEW arm, Rearms(graph, graph', Current.at, arm), graph.stat[Current.at][arm] # NULL,
         NowFreed(Reach(graph)[graph.stat[Current.at][arm]]), Removable(graph', allocated),
         cond'[Current.at] = "true", \A t \in Kept : t # Current.at => cond'[t] = cond[t],
         NEW field \in ArmLinks,
         pending' = Pop(pending) \o Do("follow", Current.at, Current.fun)
                      \o Do("visit", graph'.stat[Current.at][field], Current.fun)
  PROVE  KInv' /\ Kept' = Kept \ Reach(graph)[graph.stat[Current.at][arm]]
<1> DEFINE g == graph
           h == graph'
           cs == Pop(pending)
           f == Current.fun
           s == Current.at
           D == Reach(g)[g.stat[s][arm]]
           K == Kept
           L == K \ D
           low == cs \o Do("follow", s, f)
<1>1. /\ cs \in Seq(PendingCalls(g)) /\ PendingOK(g, K, cs) /\ Placed(g) /\ EdgesLeadOn(g)
      /\ f \in 1 .. Len(g.funcs) /\ K \subseteq Statements(g)
  BY InRemoval
<1>2. s \in K /\ AllBefore(g, cs, s) BY InVisit
<1>3. Linked(g, K) /\ ArmsOK(g, cond, K) BY DEF KInv
<1>4. EdgesLeadOn(h) /\ Placed(h) BY RemovableIsPlaced DEF Removable
<1>5. Rearms(g, h, s, arm) /\ g.stat[s][arm] # NULL /\ NowFreed(D) OBVIOUS
<1>6. SameSize(g, h) /\ s \in Statements(g)
  <2>1. s \in Statements(g) BY <1>1, <1>2
  <2> QED BY <1>5, <2>1 DEF Rearms, TakesElse, Relinks
<1>7. cond'[s] = "true" /\ \A t \in K : t # s => cond'[t] = cond[t] OBVIOUS
<1>8. pending' = low \o Do("visit", h.stat[s][field], f) OBVIOUS
<1>9. h.stat[s][field] \in PointersIn(h)
  <2>1. s \in Statements(h) BY <1>6 DEF SameSize
  <2> QED BY <2>1, PointersOfRemovable, FieldNames
<1> DEFINE c == cond'
<1>22. D = Reach(g)[g.stat[s][arm]] OBVIOUS
<1> HIDE DEF g, h, cs, f, s, D, K, low, c
<1>10. Untouched(g, h, K, L, s) /\ s \notin D
  <2>1. /\ EdgesLeadOn(g) /\ Placed(g) /\ Linked(g, K) /\ s \in K
        /\ Rearms(g, h, s, arm) /\ g.stat[s][arm] # NULL
    BY <1>1, <1>2, <1>3, <1>5
  <2> HIDE DEF L
  <2>2. Untouched(g, h, K, K \ D, s) BY <2>1, <1>22, RearmedUntouched
  <2>3. s \notin D BY <2>1, <1>22, RearmedUntouched
  <2> QED BY <2>2, <2>3 DEF L
<1>11. PendingOK(h, L, cs) /\ AllBefore(h, cs, s) BY <1>1, <1>2, <1>10, CallsStay
<1>12. Linked(h, L) BY <1>1, <1>2, <1>3, <1>5, <1>22, RearmedIsLinked
<1>13. ArmsOK(h, c, L)
  <2>1. c[s] = "true" /\ \A t \in K : t # s => c[t] = cond[t] BY <1>7 DEF c
  <2>2. L \subseteq K OBVIOUS
  <2>3. K \subseteq Statements(g) /\ Linked(g, K) /\ ArmsOK(g, cond, K) /\ s \in K /\ Rearms(g, h, s, arm)
    BY <1>1, <1>2, <1>3, <1>5
  <2> HIDE DEF L
  <2> QED BY <2>1, <2>2, <2>3, RearmedArms
<1>14. Len(h.funcs) = Len(g.funcs) /\ Statements(h) = Statements(g) BY <1>6 DEF SameSize
<1>15. cs \in Seq(PendingCalls(h)) BY <1>1, <1>14 DEF PendingCalls, PointersIn
<1>16. f \in 1 .. Len(h.funcs) /\ s \in L BY <1>1, <1>2, <1>10, <1>14
<1>17. Kept' = L
  <2>1. NowFreed(D) /\ SameSize(graph, graph') BY <1>5, <1>6 DEF g, h
  <2>2. Kept' = Kept \ D BY <2>1, KeptAfter
  <2> QED BY <2>2 DEF K
<1> HIDE DEF L
<1>18. low \in Seq(PendingCalls(h)) /\ PendingOK(h, L, low) /\ AtMost(h, low, s)
  BY <1>4, <1>11, <1>12, <1>15, <1>16, VisitEndIsPushed DEF low
<1>19. PendingOK(h, L, low \o Do("visit", h.stat[s][field], f))
  BY <1>4, <1>9, <1>12, <1>16, <1>18, ArmIsPushed
<1>20. PendingOK(h, L, pending') BY <1>8, <1>19
<1>21. KInv' BY <1>12, <1>13, <1>17, <1>20 DEF KInv, h, c
<1> QED BY <1>17, <1>21 DEF L, K, D, s, g

LEMMA RemoveThenKeeps ==
  ASSUME AInv, KInv, RemoveThen
  PROVE  KInv'
<1> DEFINE s == Current.at
           e == graph.stat[s].elseStatement
           t == "thenStatement"
<1>1. /\ phase = "remove" /\ pending # << >> /\ s \in Statements(graph)
      /\ e # NULL /\ graph.stat[s].thenStatement # NULL
      /\ TakesElse(graph, graph', s) /\ Removable(graph', allocated)
      /\ cond' = [cond EXCEPT ![s] = "true"]
      /\ NowFreed(Reach(graph)[graph.stat[s].thenStatement])
      /\ pending' = Pop(pending) \o Do("follow", s, Current.fun)
                                 \o Do("visit", e, Current.fun)
  BY RemovesThen
<1>2. Current.op = "visit" /\ s # NULL BY DEF RemoveThen, Visiting, Removing
<1>3. Rearms(graph, graph', s, t) /\ t \in ArmLinks BY <1>1, FieldNames DEF Rearms
<1>4. graph.stat[s][t] # NULL /\ NowFreed(Reach(graph)[graph.stat[s][t]]) BY <1>1
<1>5. s \in DOMAIN cond
  <2>1. cond \in [Conditional -> Conditions] BY <1>1 DEF AInv
  <2>2. graph.stat[s].statementType = "CF_IF" BY <1>2 DEF RemoveThen, Visiting
  <2>3. s \in Conditional BY <1>1, <2>2 DEF Conditional
  <2> QED BY <2>1, <2>3
<1>6. cond'[s] = "true" /\ \A y \in Kept : y # s => cond'[y] = cond[y] BY <1>1, <1>5
<1>7. graph'.stat[s][t] = e BY <1>1, FieldNames DEF TakesElse
<1>8. pending' = Pop(pending) \o Do("follow", s, Current.fun)
                   \o Do("visit", graph'.stat[s][t], Current.fun)
  BY <1>1, <1>7
<1> HIDE DEF e, t
<1> QED BY <1>1, <1>2, <1>3, <1>4, <1>6, <1>8, RearmKeeps

LEMMA RemoveElseKeeps ==
  ASSUME AInv, KInv, RemoveElse
  PROVE  KInv'
<1> DEFINE s == Current.at
           e == graph.stat[s].elseStatement
           t == "thenStatement"
           arm == "elseStatement"
<1>1. /\ phase = "remove" /\ pending # << >> /\ s \in Statements(graph)
      /\ graph.stat[s].statementType = "CF_IF" /\ cond[s] = "true"
      /\ e = NULL => graph' = graph /\ freed' = freed
      /\ e # NULL => /\ Relinks(graph, graph', s, "elseStatement", NULL)
                     /\ Removable(graph', allocated)
                     /\ NowFreed(Reach(graph)[e])
      /\ pending' = Pop(pending) \o Do("follow", s, Current.fun)
                      \o Do("visit", graph.stat[s].thenStatement, Current.fun)
  BY RemovesElse
<1>2. Current.op = "visit" /\ s # NULL /\ cond' = cond BY DEF RemoveElse, Visiting, Removing
<1>3. CASE e # NULL
  <2>1. Rearms(graph, graph', s, arm) BY <1>1, <1>3 DEF Rearms
  <2>2. graph.stat[s][arm] # NULL /\ NowFreed(Reach(graph)[graph.stat[s][arm]]) BY <1>1, <1>3
  <2>3. cond'[s] = "true" /\ \A y \in Kept : y # s => cond'[y] = cond[y] BY <1>1, <1>2
  <2>4. graph'.stat[s][t] = graph.stat[s][t] /\ t \in ArmLinks
    BY <1>1, <1>3, FieldNames DEF Relinks
  <2>5. pending' = Pop(pending) \o Do("follow", s, Current.fun)
                     \o Do("visit", graph'.stat[s][t], Current.fun)
    BY <1>1, <2>4
  <2>6. Removable(graph', allocated) BY <1>1, <1>3
  <2> HIDE DEF e, t, arm
  <2> QED BY <1>1, <1>2, <2>1, <2>2, <2>3, <2>4, <2>5, <2>6, RearmKeeps
<1>4. CASE e = NULL
  <2> DEFINE cs == Pop(pending)
             f == Current.fun
             low == cs \o Do("follow", s, f)
  <2>1. /\ cs \in Seq(PendingCalls(graph)) /\ PendingOK(graph, Kept, cs) /\ Placed(graph)
        /\ f \in 1 .. Len(graph.funcs) /\ Removable(graph, allocated)
        /\ Kept \subseteq Statements(graph)
    BY <1>1, InRemoval
  <2>2. s \in Kept /\ AllBefore(graph, cs, s) /\ Linked(graph, Kept)
    BY <1>1, <1>2, InVisit DEF KInv
  <2>3. graph.stat[s][t] \in PointersIn(graph) /\ t \in ArmLinks
    BY <2>1, <2>2, PointersOfRemovable, FieldNames
  <2>4. pending' = low \o Do("visit", graph.stat[s][t], f) BY <1>1
  <2> HIDE DEF cs, s, f, t
  <2>5. low \in Seq(PendingCalls(graph)) /\ PendingOK(graph, Kept, low) /\ AtMost(graph, low, s)
    BY <2>1, <2>2, VisitEndIsPushed
  <2> HIDE DEF low
  <2>6. PendingOK(graph, Kept, low \o Do("visit", graph.stat[s][t], f))
    BY <2>1, <2>2, <2>3, <2>5, ArmIsPushed
  <2> QED BY <1>1, <1>2, <1>4, <2>4, <2>6, QuietKInv
<1> QED BY <1>3, <1>4

-----------------------------------------------------------------------------
(* It holds of the parser's graph when the removal begins, of a program    *)
(* without a dead `else if'.                                               *)

LEMMA ParserGraphIsLinked ==
  ASSUME NEW g, NEW tables, GraphInv(g, tables)
  PROVE  Linked(g, Statements(g))
<1> DEFINE K == Statements(g)
<1>1. \A s \in K : LinkedOnce(g, s) BY DEF GraphInv
<1>2. /\ \A s \in K : \A field \in Edges : g.stat[s][field] \in PointersIn(g)
      /\ \A f \in 1 .. Len(g.funcs) : g.funcs[f].rootStatement \in PointersIn(g)
  BY DEF GraphInv, PointersOK
<1>3. ASSUME NEW s \in K, NEW field \in Edges, g.stat[s][field] # NULL
      PROVE  EdgeIsLinked(g, K, s, field)
  <2> DEFINE t == g.stat[s][field]
  <2>1. t \in K BY <1>2, <1>3 DEF PointersIn
  <2>2. \A other \in Edges : g.stat[s][other] = t => <<s, other>> \in PredecessorsIn(g, t)
    BY DEF PredecessorsIn
  <2>3. LinkedOnce(g, t) BY <1>1, <2>1
  <2>4. PredecessorsIn(g, t) # {} BY <2>2
  <2>5. PICK edge \in Edges : PredecessorsIn(g, t) = {<<g.stat[t].parentStatement, edge>>}
    BY <2>3, <2>4 DEF LinkedOnce
  <2>6. \A other \in Edges : g.stat[s][other] = t => s = g.stat[t].parentStatement /\ other = edge
    BY <2>2, <2>5
  <2>7. g.stat[s][field] = t OBVIOUS
  <2> HIDE DEF t
  <2>8. s = g.stat[t].parentStatement /\ field = edge BY <2>6, <2>7
  <2> QED BY <2>1, <2>6, <2>7, <2>8 DEF EdgeIsLinked
<1>4. ASSUME NEW f \in 1 .. Len(g.funcs) PROVE RootIsLinked(g, K, f)
  <2> DEFINE r == g.funcs[f].rootStatement
  <2> SUFFICES ASSUME r # NULL PROVE RootIsLinked(g, K, f) BY DEF RootIsLinked
  <2>1. r \in K BY <1>2 DEF PointersIn
  <2>2. \A k \in 1 .. Len(g.funcs) : g.funcs[k].rootStatement = r => k \in RootsAt(g, r)
    BY DEF RootsAt
  <2>3. LinkedOnce(g, r) BY <1>1, <2>1
  <2>4. RootsAt(g, r) # {} BY <2>2
  <2>5. g.stat[r].parentStatement = NULL /\ \E k \in 1 .. Len(g.funcs) : RootsAt(g, r) = {k}
    BY <2>3, <2>4 DEF LinkedOnce
  <2>6. PICK j \in 1 .. Len(g.funcs) : RootsAt(g, r) = {j} BY <2>5
  <2>7. \A k \in 1 .. Len(g.funcs) : g.funcs[k].rootStatement = r => k = j BY <2>2, <2>6
  <2>8. f = j BY <2>7
  <2> QED BY <2>1, <2>5, <2>7, <2>8 DEF RootIsLinked
<1>5. ASSUME NEW s \in K PROVE Hangs(g, K, s)
  <2>1. LinkedOnce(g, s) BY <1>1
  <2>2. CASE \E f \in 1 .. Len(g.funcs) : RootsAt(g, s) = {f}
    <3>1. PICK f \in 1 .. Len(g.funcs) : RootsAt(g, s) = {f} BY <2>2
    <3>2. f \in RootsAt(g, s) BY <3>1
    <3> QED BY <3>2 DEF RootsAt, Hangs
  <2>3. CASE \E field \in Edges : PredecessorsIn(g, s) = {<<g.stat[s].parentStatement, field>>}
    <3>1. PICK field \in Edges : PredecessorsIn(g, s) = {<<g.stat[s].parentStatement, field>>}
      BY <2>3
    <3>2. <<g.stat[s].parentStatement, field>> \in PredecessorsIn(g, s) BY <3>1
    <3>3. g.stat[s].parentStatement \in K /\ g.stat[g.stat[s].parentStatement][field] = s
      BY <3>2 DEF PredecessorsIn
    <3> QED BY <3>3 DEF Hangs
  <2> QED BY <2>1, <2>2, <2>3 DEF LinkedOnce
<1>6. \A s \in K : \A field \in Edges : EdgeIsLinked(g, K, s, field)
  BY <1>3 DEF EdgeIsLinked
<1> QED BY <1>4, <1>5, <1>6 DEF Linked

LEMMA ParserArms ==
  ASSUME NEW c, ShapeOK(graph), EdgesLeadOn(graph), DeadElseIfs(c) = {}
  PROVE  ArmsOK(graph, c, Statements(graph))
<1> SUFFICES ASSUME NEW s \in Statements(graph), NEW field \in ArmLinks, graph.stat[s][field] # NULL
             PROVE  ArmFits(graph, c, graph.stat[s][field])
  BY DEF ArmsOK, ArmFits
<1> DEFINE t == graph.stat[s][field]
<1>1. t \in Statements(graph)
  <2>1. field \in Edges BY FieldNames
  <2> QED BY <2>1 DEF EdgesLeadOn
<1>2. graph.stat[t].statementType \in ArmTypes(field) /\ ArmsFit(graph.stat[s]) BY DEF ShapeOK, ArmStarts
<1>3. ASSUME graph.stat[t].statementType = "CF_IF", c[t] = "false", graph.stat[t].elseStatement = NULL
      PROVE  FALSE
  <2>1. field = "elseStatement" BY <1>2, <1>3 DEF ArmTypes
  <2>2. graph.stat[s].elseStatement = t /\ t # NULL BY <2>1
  <2>3. graph.stat[s].statementType = "CF_IF" BY <1>2, <2>2 DEF ArmsFit
  <2>4. s \in Conditional /\ t \in Conditional BY <1>1, <1>3, <2>3 DEF Conditional
  <2> HIDE DEF t
  <2>5. t \in DeadElseIfs(c) BY <1>3, <2>2, <2>4 DEF DeadElseIfs
  <2> QED BY <2>5
<1>4. graph.stat[t].statementType \in {"CF_BASIC", "CF_IF"} BY <1>2 DEF ArmTypes
<1> QED BY <1>3, <1>4 DEF ArmFits

LEMMA FirstCalls ==
  ASSUME NEW K, Len(graph.funcs) \in Nat
  PROVE  PendingOK(graph, K, EveryFunction)
<1> DEFINE cs == [f \in 1 .. Len(graph.funcs) |-> [op |-> "function", at |-> NULL, fun |-> f]]
<1>1. cs = EveryFunction BY DEF EveryFunction
<1>2. \A i \in 1 .. Len(graph.funcs) : cs[i].op = "function" /\ cs[i].at = NULL OBVIOUS
<1>3. Len(cs) = Len(graph.funcs) OBVIOUS
<1> HIDE DEF cs
<1>4. \A i \in 1 .. Len(cs) : CallOK(graph, K, cs[i]) BY <1>2, <1>3 DEF CallOK
<1>5. FunctionsBelow(cs)
  <2> SUFFICES ASSUME NEW i \in 1 .. Len(cs), NEW j \in 1 .. i PROVE cs[j].op = "function"
    BY DEF FunctionsBelow
  <2>1. j \in 1 .. Len(graph.funcs) BY <1>3
  <2> QED BY <1>2, <2>1
<1>6. \A i, j \in 1 .. Len(cs) : Under(graph, cs[i], cs[j]) BY <1>2, <1>3 DEF Under
<1> QED BY <1>1, <1>4, <1>5, <1>6 DEF PendingOK

LEMMA NothingFreed ==
  ASSUME freed = << >>
  PROVE  Kept = Statements(graph)
BY DEF Kept, HasStat

(* Where the removal is to be right. *)
Watching == phase \in {"remove", "clean"} /\ promised # << >> /\ ~ promised.elseIf

LEMMA RemovalBegins ==
  ASSUME OptInv, FoldConditions, Watching'
  PROVE  /\ KInv' /\ Kept' = Statements(graph) /\ graph' = graph /\ pending' = EveryFunction
         /\ Removable(graph, allocated) /\ IInv /\ BInv /\ phase' = "remove"
<1>1. /\ IInv /\ BInv /\ freed = << >> /\ graph' = graph /\ freed' = freed
  BY DEF OptInv, FoldConditions, vars
<1>2. phase' = "remove" /\ pending' = EveryFunction
  BY DEF FoldConditions, Watching
<1>3. DeadElseIfs(cond') = {}
  <2>1. promised'.elseIf = (DeadElseIfs(cond') # {}) BY DEF FoldConditions
  <2>2. ~ promised'.elseIf BY DEF Watching
  <2> QED BY <2>1, <2>2
<1>4. GraphInv(graph, allocated) /\ ShapeOK(graph) BY <1>1 DEF IInv, BInv
<1>5. Removable(graph, allocated) BY <1>1, ParserGraphIsRemovable
<1>6. EdgesLeadOn(graph) BY <1>5 DEF Removable
<1>7. Linked(graph, Statements(graph)) BY <1>4, ParserGraphIsLinked
<1> DEFINE c == cond'
<1> HIDE DEF c
<1>8. ArmsOK(graph, c, Statements(graph)) BY <1>3, <1>4, <1>6, ParserArms DEF c
<1>9. Len(graph.funcs) \in Nat
  <2>1. graph.funcs \in Seq(FunctionRecords(FuncNames)) BY <1>5 DEF Removable, Graphs
  <2> QED BY <2>1
<1>10. PendingOK(graph, Statements(graph), EveryFunction) BY <1>9, FirstCalls
<1>11. Kept' = Statements(graph)
  <2>1. Kept = Statements(graph) BY <1>1, NothingFreed
  <2> QED BY <1>1, <2>1 DEF Kept
<1>12. KInv' BY <1>1, <1>2, <1>7, <1>8, <1>10, <1>11 DEF KInv, c
<1> QED BY <1>1, <1>2, <1>5, <1>11, <1>12

(* Every step of main() keeps it while it matters.                         *)
LEMMA StepKeepsKept ==
  ASSUME OptInv, Watching => KInv, OptInv', [OptNext]_<<vars, optVars>>, Watching'
  PROVE  KInv'
<1>1. CASE Parse
  <2>1. promised = << >> /\ promised' = promised BY <1>1 DEF Parse, OptInv, optVars
  <2> QED BY <2>1 DEF Watching
<1>2. CASE FoldConditions BY <1>2, RemovalBegins
<1>3. CASE SkipOptimiser
  <2>1. promised = << >> /\ promised' = promised BY <1>3 DEF SkipOptimiser, OptInv
  <2> QED BY <2>1 DEF Watching
<1>4. ASSUME phase = "remove", promised' = promised PROVE AInv /\ KInv
  BY <1>4 DEF Watching, OptInv
<1>5. AInv' BY DEF OptInv, Watching
<1>6. CASE VisitFunction
  BY <1>4, <1>6, VisitFunctionKeeps DEF VisitFunction, Removing
<1>7. CASE RemoveStatement
  BY <1>4, <1>5, <1>7, RemoveStatementKeeps DEF RemoveStatement, Visiting, Removing
<1>8. CASE RemoveThen
  BY <1>4, <1>8, RemoveThenKeeps DEF RemoveThen, Visiting, Removing
<1>9. CASE RemoveElse
  BY <1>4, <1>9, RemoveElseKeeps DEF RemoveElse, Visiting, Removing
<1>10. CASE VisitBranches
  BY <1>4, <1>10, VisitBranchesKeeps DEF VisitBranches, Visiting, Removing
<1>11. CASE VisitBody
  BY <1>4, <1>11, VisitBodyKeeps DEF VisitBody, Visiting, Removing
<1>12. CASE VisitOther
  BY <1>4, <1>12, VisitOtherKeeps DEF VisitOther, Removing
<1>13. CASE Follow
  BY <1>4, <1>13, FollowKeeps DEF Follow, Removing
<1>14. CASE EndOfRemoval
  <2>1. KInv BY <1>4, <1>14 DEF EndOfRemoval
  <2> QED BY <1>14, <2>1 DEF EndOfRemoval, vars, KInv, Kept
<1>15. CASE CleanAll BY <1>15 DEF CleanAll, Watching
<1>16. CASE UNCHANGED <<vars, optVars>>
  <2>1. KInv BY <1>16 DEF Watching, optVars
  <2> QED BY <1>16, <2>1 DEF vars, optVars, KInv, Kept
<1> QED BY <1>1, <1>2, <1>3, <1>6, <1>7, <1>8, <1>9, <1>10, <1>11, <1>12, <1>13, <1>14, <1>15,
           <1>16 DEF OptNext

LEMMA KeptIsReachable ==
  ASSUME AInv, KInv
  PROVE  /\ Kept = Reachable
         /\ \A s \in Statements(graph) : IsFreed(s) <=> s \notin Kept
         /\ ~ IsFreed(NULL)
<1>1. Removable(graph, allocated) /\ freed \in Seq(ObjectsOf(Len(graph.stat), allocated))
  BY DEF AInv
<1>2. EdgesLeadOn(graph) BY <1>1 DEF Removable
<1>3. Kept = UNION {Reach(graph)[graph.funcs[f].rootStatement] : f \in 1 .. Len(graph.funcs)}
  BY <1>2, KeptIsReached DEF KInv
<1>4. Kept = Reachable BY <1>3, ReachableIs
<1>5. \A s : IsFreed(s) <=> HasStat(freed, s) BY DEF IsFreed, HasStat
<1>6. ~ HasStat(freed, NULL)
  <2> SUFFICES ASSUME NEW i \in DOMAIN freed, freed[i] = <<"stat", NULL>> PROVE FALSE
    BY DEF HasStat
  <2>1. <<"stat", NULL>> \in ObjectsOf(Len(graph.stat), allocated) BY <1>1
  <2> QED BY <2>1 DEF ObjectsOf, NULL
<1> QED BY <1>4, <1>5, <1>6 DEF Kept

LEMMA KeptRight ==
  ASSUME OptInv, Watching => KInv
  PROVE  FreedIffUnlinked
<1> SUFFICES ASSUME Watching
             PROVE  /\ \A s \in Statements(graph) : IsFreed(s) <=> s \notin Reachable
                    /\ \A i \in DOMAIN pending : ~ IsFreed(pending[i].at)
  BY DEF FreedIffUnlinked, Watching
<1>1. AInv /\ KInv BY DEF OptInv, Watching
<1>2. /\ Kept = Reachable /\ ~ IsFreed(NULL)
      /\ \A s \in Statements(graph) : IsFreed(s) <=> s \notin Kept
  BY <1>1, KeptIsReachable
<1>3. ASSUME NEW i \in DOMAIN pending PROVE ~ IsFreed(pending[i].at)
  <2>1. i \in 1 .. Len(pending)
    <3>1. pending \in Seq(PendingCalls(graph)) BY <1>1 DEF AInv
    <3> QED BY <3>1
  <2>2. CallOK(graph, Kept, pending[i]) BY <1>1, <2>1 DEF KInv, PendingOK
  <2>3. Kept \subseteq Statements(graph) BY DEF Kept
  <2> QED BY <1>2, <2>2, <2>3 DEF CallOK
<1> QED BY <1>2, <1>3

(* In a program without a dead `else if', at each point of                 *)
(* remove_function_dead_code a statement has been freed by clean_stat if   *)
(* and only if the graph no longer leads to it, and no pending call looks  *)
(* at a freed statement.                                                   *)
THEOREM NothingFreedIsUsed == OptSpec => []FreedIffUnlinked
<1> DEFINE Inv == OptInv /\ (Watching => KInv)
<1>1. OptInit => Inv
  <2>1. OptInit => OptInv BY OptInitHolds
  <2>2. OptInit => ~ Watching BY DEF OptInit, Watching
  <2> QED BY <2>1, <2>2
<1>2. Inv /\ [OptNext]_<<vars, optVars>> => Inv' BY OptNextHolds, StepKeepsKept
<1>3. Inv => FreedIffUnlinked BY KeptRight
<1> QED BY <1>1, <1>2, <1>3, PTL DEF OptSpec

-----------------------------------------------------------------------------
(* The live code.                                                          *)

Run(s, first, second) == << [statement |-> s, first |-> first, second |-> second] >>

(* What s itself contributes, and what runs from s on, if l is what runs   *)
(* from the statements after it.                                           *)
RunsHere(g, c, l, s) ==
  LET st == g.stat[s]
  IN  IF st.statementType = "CF_IF" THEN
        IF c[s] = "true" THEN l[st.thenStatement]
        ELSE IF c[s] = "false" THEN l[st.elseStatement]
        ELSE Run(s, l[st.thenStatement], l[st.elseStatement])
      ELSE IF st.statementType = "CF_FOR" THEN
        IF c[s] = "false" THEN << >> ELSE Run(s, l[st.bodyStatement], << >>)
      ELSE IF st.ast THEN Run(s, << >>, << >>)
      ELSE << >>

LiveWith(g, c, l, s) ==
  IF s = NULL THEN << >> ELSE RunsHere(g, c, l, s) \o l[g.stat[s].followingStatement]

Live(g, c) == CHOOSE l : l = [s \in {NULL} \union Statements(g) |-> LiveWith(g, c, l, s)]

LEMMA LiveCodeIs ==
  ASSUME NEW g, NEW c
  PROVE  LiveCode(g, c) = [f \in 1 .. Len(g.funcs) |-> Live(g, c)[g.funcs[f].rootStatement]]
BY DEF LiveCode, Live, LiveWith, RunsHere, Run

LivesFrom(g, c, low, l) == l = [s \in {NULL} \union low .. Len(g.stat) |-> LiveWith(g, c, l, s)]

(* It depends on what the edges of s lead to. *)
LEMMA LiveAgrees ==
  ASSUME NEW g, EdgesLeadOn(g), NEW c, NEW s \in Statements(g), NEW l, NEW m,
         l[NULL] = m[NULL], \A t \in Statements(g) : s < t => l[t] = m[t]
  PROVE  LiveWith(g, c, l, s) = LiveWith(g, c, m, s)
<1>1. \A field \in Edges : l[g.stat[s][field]] = m[g.stat[s][field]] BY DEF EdgesLeadOn
<1>2. /\ l[g.stat[s].thenStatement] = m[g.stat[s].thenStatement]
      /\ l[g.stat[s].elseStatement] = m[g.stat[s].elseStatement]
      /\ l[g.stat[s].bodyStatement] = m[g.stat[s].bodyStatement]
      /\ l[g.stat[s].followingStatement] = m[g.stat[s].followingStatement]
  BY <1>1 DEF Edges
<1>3. RunsHere(g, c, l, s) = RunsHere(g, c, m, s) BY <1>2 DEF RunsHere
<1> QED BY <1>2, <1>3 DEF LiveWith

LEMMA LiveExists ==
  ASSUME NEW g, EdgesLeadOn(g), NEW c
  PROVE  \E l : LivesFrom(g, c, 1, l)
<1> DEFINE N == Len(g.stat)
           Missing == {k \in 0 .. N : ~ \E l : LivesFrom(g, c, N + 1 - k, l)}
<1>0. N \in Nat BY DEF EdgesLeadOn
<1>1. SUFFICES ASSUME Missing # {} PROVE FALSE
  <2>1. N \in 0 .. N /\ N + 1 - N = 1 BY <1>0
  <2> QED BY <2>1
<1>2. PICK k \in Missing : \A m \in Missing : k <= m
  <2>1. Missing \in SUBSET Nat OBVIOUS
  <2> QED BY <1>1, <2>1, LeastNumber
<1>3. k \in 0 .. N /\ ~ \E l : LivesFrom(g, c, N + 1 - k, l) OBVIOUS
<1>4. CASE k = 0
  <2> DEFINE zero == [s \in {NULL} \union N + 1 .. N |-> << >>]
  <2>1. N + 1 - k = N + 1 /\ N + 1 .. N = {} BY <1>0, <1>4
  <2>2. \A s \in {NULL} \union N + 1 .. N : LiveWith(g, c, zero, s) = << >>
    BY <2>1 DEF LiveWith
  <2>3. LivesFrom(g, c, N + 1, zero) BY <2>2 DEF LivesFrom
  <2> QED BY <1>3, <2>1, <2>3
<1>5. CASE k # 0
  <2> DEFINE low == N + 1 - k
  <2>1. k - 1 \in 0 .. N /\ k - 1 \notin Missing /\ N + 1 - (k - 1) = low + 1 /\ low \in 1 .. N
    BY <1>0, <1>2, <1>3, <1>5
  <2>2. PICK l : LivesFrom(g, c, low + 1, l) BY <2>1
  <2> DEFINE longer == [s \in {NULL} \union low .. N |->
                          IF s = low THEN LiveWith(g, c, l, low) ELSE l[s]]
  <2>3. \A s \in {NULL} \union low + 1 .. N : l[s] = LiveWith(g, c, l, s)
    BY <2>2 DEF LivesFrom
  <2> HIDE DEF low, Missing
  <2>4. ASSUME NEW s \in {NULL} \union low .. N PROVE longer[s] = LiveWith(g, c, longer, s)
    <3>1. longer[NULL] = l[NULL] BY <2>1 DEF NULL
    <3>2. \A t \in low + 1 .. N : longer[t] = l[t] BY <1>0, <2>1
    <3>3. longer[low] = LiveWith(g, c, l, low) BY <2>1
    <3> HIDE DEF longer
    <3>4. CASE s = NULL
      <4>1. l[NULL] = << >> BY <2>3 DEF LiveWith
      <4> QED BY <3>1, <3>4, <4>1 DEF LiveWith
    <3>5. CASE s # NULL
      <4>1. s \in Statements(g) /\ s \in low .. N BY <2>1, <3>5 DEF Statements
      <4>2. \A t \in Statements(g) : s < t => longer[t] = l[t]
        <5>1. \A t \in Statements(g) : s < t => t \in low + 1 .. N BY <1>0, <2>1, <4>1 DEF Statements
        <5> QED BY <3>2, <5>1
      <4>3. LiveWith(g, c, longer, s) = LiveWith(g, c, l, s)
        BY <3>1, <4>1, <4>2, LiveAgrees
      <4>4. s # low => s \in low + 1 .. N BY <1>0, <2>1, <4>1
      <4> QED BY <2>3, <3>2, <3>3, <4>3, <4>4
    <3> QED BY <3>4, <3>5
  <2>5. longer = [s \in {NULL} \union low .. N |-> longer[s]] OBVIOUS
  <2> HIDE DEF longer
  <2>6. longer = [s \in {NULL} \union low .. N |-> LiveWith(g, c, longer, s)] BY <2>4, <2>5
  <2>7. LivesFrom(g, c, low, longer) BY <2>6 DEF LivesFrom
  <2> QED BY <1>3, <2>7 DEF low
<1> QED BY <1>4, <1>5

LEMMA LiveUnfolds ==
  ASSUME NEW g, EdgesLeadOn(g), NEW c
  PROVE  /\ Live(g, c)[NULL] = << >>
         /\ \A s \in Statements(g) : Live(g, c)[s] = LiveWith(g, c, Live(g, c), s)
<1> DEFINE body(f) == [s \in {NULL} \union Statements(g) |-> LiveWith(g, c, f, s)]
           d == Live(g, c)
<1>1. PICK l : LivesFrom(g, c, 1, l) BY LiveExists
<1>2. l = body(l) BY <1>1 DEF LivesFrom, Statements
<1>3. d = CHOOSE f : f = body(f) BY DEF Live
<1>4. d = body(d) BY <1>2, <1>3
<1> HIDE DEF d
<1>5. d[NULL] = LiveWith(g, c, d, NULL) BY <1>4
<1>6. \A s \in Statements(g) : d[s] = LiveWith(g, c, d, s) BY <1>4
<1> QED BY <1>5, <1>6 DEF LiveWith, d

(* What runs is a sequence. *)
IsSeq(q) == \E S : q \in Seq(S)

LEMMA SeqsJoin ==
  ASSUME NEW p, NEW q, IsSeq(p), IsSeq(q)
  PROVE  IsSeq(p \o q)
<1>1. PICK S : p \in Seq(S) BY DEF IsSeq
<1>2. PICK T : q \in Seq(T) BY DEF IsSeq
<1> DEFINE U == S \union T
<1>3. p \in Seq(U)
  <2>1. S \subseteq U OBVIOUS
  <2> HIDE DEF U
  <2> QED BY <1>1, <2>1
<1>4. q \in Seq(U)
  <2>1. T \subseteq U OBVIOUS
  <2> HIDE DEF U
  <2> QED BY <1>2, <2>1
<1> HIDE DEF U
<1>5. p \o q \in Seq(U) BY <1>3, <1>4
<1> QED BY <1>5 DEF IsSeq

LEMMA OneRun ==
  ASSUME NEW x
  PROVE  IsSeq(<< x >>) /\ IsSeq(<< >>)
<1>1. << x >> \in Seq({x}) OBVIOUS
<1>2. << >> \in Seq({x}) OBVIOUS
<1> QED BY <1>1, <1>2 DEF IsSeq

LEMMA NothingRunsFirst ==
  ASSUME NEW q, IsSeq(q)
  PROVE  << >> \o q = q
<1>1. PICK S : q \in Seq(S) BY DEF IsSeq
<1> QED BY <1>1

LEMMA LiveIsSeq ==
  ASSUME NEW g, EdgesLeadOn(g), NEW c
  PROVE  \A s \in {NULL} \union Statements(g) : IsSeq(Live(g, c)[s])
<1> DEFINE l == Live(g, c)
           N == Len(g.stat)
           T == {s \in Statements(g) : IsSeq(l[s])}
<1>0. N \in Nat /\ Statements(g) = 1 .. N BY DEF EdgesLeadOn, Statements
<1>1. l[NULL] = << >> /\ \A s \in Statements(g) : l[s] = LiveWith(g, c, l, s) BY LiveUnfolds
<1> HIDE DEF l
<1>2. IsSeq(l[NULL]) BY <1>1, OneRun
<1>3. ASSUME NEW s \in 1 .. N, \A t \in 1 .. N : s < t => t \in T PROVE s \in T
  <2>1. s \in Statements(g) /\ s # NULL BY <1>0 DEF NULL
  <2>2. ASSUME NEW field \in Edges PROVE IsSeq(l[g.stat[s][field]])
    <3>1. CASE g.stat[s][field] = NULL BY <1>2, <3>1
    <3>2. CASE g.stat[s][field] # NULL
      <4>1. g.stat[s][field] \in Statements(g) /\ s < g.stat[s][field]
        BY <2>1, <3>2 DEF EdgesLeadOn
      <4> QED BY <1>0, <1>3, <4>1
    <3> QED BY <3>1, <3>2
  <2>3. /\ IsSeq(l[g.stat[s].thenStatement]) /\ IsSeq(l[g.stat[s].elseStatement])
        /\ IsSeq(l[g.stat[s].bodyStatement]) /\ IsSeq(l[g.stat[s].followingStatement])
    BY <2>2 DEF Edges
  <2>4. \A x : IsSeq(<< x >>) /\ IsSeq(<< >>) BY OneRun
  <2>5. IsSeq(RunsHere(g, c, l, s)) BY <2>3, <2>4 DEF RunsHere, Run
  <2>6. l[s] = RunsHere(g, c, l, s) \o l[g.stat[s].followingStatement]
    BY <1>1, <2>1 DEF LiveWith
  <2>7. IsSeq(l[s]) BY <2>3, <2>5, <2>6, SeqsJoin
  <2> QED BY <2>1, <2>7
<1>4. \A s \in 1 .. N : s \in T
  <2>1. N \in Nat BY <1>0
  <2> HIDE DEF T, N
  <2> QED BY <1>3, <2>1, FromTheEnd
<1> QED BY <1>0, <1>2, <1>4 DEF l

(* What runs from a statement does not change if what runs from the ends   *)
(* of its edges does not.                                                  *)
LEMMA SameRuns ==
  ASSUME NEW g, NEW h, NEW c, NEW b, NEW l, NEW m, NEW x, SameNode(g, h, x), x # NULL,
         b[x] = c[x], \A field \in Edges : m[h.stat[x][field]] = l[g.stat[x][field]]
  PROVE  LiveWith(h, b, m, x) = LiveWith(g, c, l, x)
<1>1. /\ m[h.stat[x].thenStatement] = l[g.stat[x].thenStatement]
      /\ m[h.stat[x].elseStatement] = l[g.stat[x].elseStatement]
      /\ m[h.stat[x].bodyStatement] = l[g.stat[x].bodyStatement]
      /\ m[h.stat[x].followingStatement] = l[g.stat[x].followingStatement]
  BY DEF Edges
<1>2. RunsHere(h, b, m, x) = RunsHere(g, c, l, x) BY <1>1 DEF RunsHere, SameNode
<1> QED BY <1>1, <1>2 DEF LiveWith

(* A branch that never runs is cut off. *)
ArmIsDead(c, b, s, arm) ==
  /\ b[s] = "true"
  /\ IF arm = "thenStatement" THEN c[s] = "false" ELSE c[s] = "true"

LEMMA RearmedLive ==
  ASSUME NEW g, EdgesLeadOn(g), NEW h, EdgesLeadOn(h), NEW K, K \subseteq Statements(g),
         NEW L, L \subseteq K, Linked(h, L), NEW s \in L, g.stat[s].statementType = "CF_IF",
         NEW arm, Rearms(g, h, s, arm), NEW c, NEW b, ArmIsDead(c, b, s, arm),
         \A t \in K : t # s => b[t] = c[t]
  PROVE  \A x \in {NULL} \union L : Live(h, b)[x] = Live(g, c)[x]
<1> DEFINE l == Live(g, c)
           m == Live(h, b)
           N == Len(g.stat)
           T == {x \in Statements(g) : x \in L => m[x] = l[x]}
<1>0. N \in Nat /\ Statements(g) = 1 .. N BY DEF EdgesLeadOn, Statements
<1>1. l[NULL] = << >> /\ \A x \in Statements(g) : l[x] = LiveWith(g, c, l, x) BY LiveUnfolds
<1>2. m[NULL] = << >> /\ \A x \in Statements(h) : m[x] = LiveWith(h, b, m, x) BY LiveUnfolds
<1>3. SameSize(g, h) /\ Statements(h) = Statements(g) BY DEF Rearms, TakesElse, Relinks, SameSize
<1> HIDE DEF l, m
<1>4. ASSUME NEW x \in 1 .. N, \A t \in 1 .. N : x < t => t \in T PROVE x \in T
  <2> SUFFICES ASSUME x \in L PROVE m[x] = l[x] BY <1>0
  <2>1. x \in Statements(g) /\ x # NULL /\ SameNode(g, h, x) BY <1>0, <1>3 DEF NULL, SameSize
  <2>2. ASSUME NEW field \in Edges PROVE m[h.stat[x][field]] = l[h.stat[x][field]]
    <3>1. CASE h.stat[x][field] = NULL BY <1>1, <1>2, <3>1
    <3>2. CASE h.stat[x][field] # NULL
      <4>1. EdgeIsLinked(h, L, x, field) BY DEF Linked
      <4>2. h.stat[x][field] \in L BY <3>2, <4>1 DEF EdgeIsLinked
      <4>3. h.stat[x][field] \in 1 .. N /\ x < h.stat[x][field]
        BY <1>0, <1>3, <2>1, <3>2 DEF EdgesLeadOn
      <4> QED BY <1>4, <4>2, <4>3
    <3> QED BY <3>1, <3>2
  <2>3. CASE x # s
    <3>1. \A field \in Edges : h.stat[x][field] = g.stat[x][field]
      BY <2>1, <2>3, FieldNames DEF Rearms, TakesElse, Relinks
    <3>2. b[x] = c[x] BY <2>3
    <3>3. \A field \in Edges : m[h.stat[x][field]] = l[g.stat[x][field]] BY <2>2, <3>1
    <3>4. LiveWith(h, b, m, x) = LiveWith(g, c, l, x) BY <2>1, <3>2, <3>3, SameRuns
    <3> QED BY <1>1, <1>2, <1>3, <2>1, <3>4
  <2>4. CASE x = s
    <3>1. h.stat[s].statementType = "CF_IF" /\ b[s] = "true" BY <2>1, <2>4 DEF SameNode, ArmIsDead
    <3>2. RunsHere(h, b, m, s) = m[h.stat[s].thenStatement] BY <3>1 DEF RunsHere
    <3>3. "thenStatement" \in Edges /\ "followingStatement" \in Edges /\ "elseStatement" \in Edges
      BY DEF Edges
    <3>4. m[h.stat[s]["thenStatement"]] = l[h.stat[s]["thenStatement"]] BY <2>2, <2>4, <3>3
    <3>5. CASE arm = "thenStatement" /\ TakesElse(g, h, s)
      <4>1. h.stat[s]["thenStatement"] = g.stat[s].elseStatement
        BY <2>1, <2>4, <3>3, <3>5, FieldNames DEF TakesElse
      <4>2. c[s] = "false" BY <3>5 DEF ArmIsDead
      <4>3. RunsHere(g, c, l, s) = l[g.stat[s].elseStatement] BY <4>2 DEF RunsHere
      <4>4. RunsHere(h, b, m, s) = RunsHere(g, c, l, s) BY <3>2, <3>4, <4>1, <4>3
      <4>5. h.stat[s]["followingStatement"] = g.stat[s]["followingStatement"]
        BY <2>1, <2>4, <3>3, <3>5, FieldNames DEF TakesElse
      <4>6. m[h.stat[s].followingStatement] = l[g.stat[s].followingStatement]
        BY <2>2, <2>4, <3>3, <4>5
      <4>7. LiveWith(h, b, m, s) = LiveWith(g, c, l, s) BY <4>4, <4>6 DEF LiveWith
      <4> QED BY <1>1, <1>2, <1>3, <2>1, <2>4, <4>7
    <3>6. CASE arm = "elseStatement" /\ Relinks(g, h, s, "elseStatement", NULL)
      <4>1. h.stat[s]["thenStatement"] = g.stat[s].thenStatement
        BY <2>1, <2>4, <3>3, <3>6, FieldNames DEF Relinks
      <4>2. c[s] = "true" BY <3>6 DEF ArmIsDead
      <4>3. RunsHere(g, c, l, s) = l[g.stat[s].thenStatement] BY <4>2 DEF RunsHere
      <4>4. RunsHere(h, b, m, s) = RunsHere(g, c, l, s) BY <3>2, <3>4, <4>1, <4>3
      <4>5. h.stat[s]["followingStatement"] = g.stat[s]["followingStatement"]
        BY <2>1, <2>4, <3>3, <3>6, FieldNames DEF Relinks
      <4>6. m[h.stat[s].followingStatement] = l[g.stat[s].followingStatement]
        BY <2>2, <2>4, <3>3, <4>5
      <4>7. LiveWith(h, b, m, s) = LiveWith(g, c, l, s) BY <4>4, <4>6 DEF LiveWith
      <4> QED BY <1>1, <1>2, <1>3, <2>1, <2>4, <4>7
    <3> QED BY <3>5, <3>6 DEF Rearms
  <2> QED BY <2>3, <2>4
<1>5. \A x \in 1 .. N : x \in T
  <2>1. N \in Nat BY <1>0
  <2> HIDE DEF T, N
  <2> QED BY <1>4, <2>1, FromTheEnd
<1> QED BY <1>0, <1>1, <1>2, <1>5 DEF l, m

LEMMA RearmedLiveCode ==
  ASSUME NEW g, EdgesLeadOn(g), NEW h, EdgesLeadOn(h), NEW K, K \subseteq Statements(g),
         NEW L, L \subseteq K, Linked(h, L), NEW s \in L, g.stat[s].statementType = "CF_IF",
         NEW arm, Rearms(g, h, s, arm), NEW c, NEW b, ArmIsDead(c, b, s, arm),
         \A t \in K : t # s => b[t] = c[t]
  PROVE  LiveCode(h, b) = LiveCode(g, c)
<1>1. \A x \in {NULL} \union L : Live(h, b)[x] = Live(g, c)[x] BY RearmedLive
<1>2. h.funcs = g.funcs BY DEF Rearms, TakesElse, Relinks
<1>3. \A f \in 1 .. Len(h.funcs) : h.funcs[f].rootStatement \in {NULL} \union L
  BY DEF Linked, RootIsLinked
<1> QED BY <1>1, <1>2, <1>3, LiveCodeIs

(* A statement that never runs is unlinked. *)
LEMMA UnlinkedLive ==
  ASSUME NEW g, EdgesLeadOn(g), NEW h, EdgesLeadOn(h), NEW K, K \subseteq Statements(g),
         Linked(g, K), NEW L, L \subseteq K, Linked(h, L), NEW s \in K, s \notin L,
         NEW f, Unlinks(g, h, s, f), FollowsOrRoot(g, K, s, f), NEW c,
         g.stat[s].statementType \in {"CF_IF", "CF_FOR"}, c[s] = "false",
         g.stat[s].elseStatement = NULL
  PROVE  /\ \A x \in {NULL} \union L : Live(h, c)[x] = Live(g, c)[x]
         /\ Live(g, c)[s] = Live(g, c)[g.stat[s].followingStatement]
<1> DEFINE l == Live(g, c)
           m == Live(h, c)
           n == g.stat[s].followingStatement
           N == Len(g.stat)
           T == {x \in Statements(g) : x \in L => m[x] = l[x]}
<1>0. N \in Nat /\ Statements(g) = 1 .. N BY DEF EdgesLeadOn, Statements
<1>1. l[NULL] = << >> /\ \A x \in Statements(g) : l[x] = LiveWith(g, c, l, x) BY LiveUnfolds
<1>2. m[NULL] = << >> /\ \A x \in Statements(h) : m[x] = LiveWith(h, c, m, x) BY LiveUnfolds
<1>3. SameSize(g, h) /\ Statements(h) = Statements(g) BY DEF Unlinks, SameSize
<1>4. \A x \in {NULL} \union Statements(g) : IsSeq(l[x]) BY LiveIsSeq
<1> HIDE DEF l, m
<1>5. l[s] = l[n]
  <2>1. s \in Statements(g) /\ s # NULL BY <1>0 DEF NULL
  <2>2. RunsHere(g, c, l, s) = << >> BY <1>1 DEF RunsHere
  <2>3. l[s] = << >> \o l[n] BY <1>1, <2>1, <2>2 DEF LiveWith
  <2>4. n \in {NULL} \union Statements(g)
    <3>1. "followingStatement" \in Edges /\ n = g.stat[s]["followingStatement"] BY DEF Edges
    <3> QED BY <2>1, <3>1 DEF EdgesLeadOn
  <2>5. IsSeq(l[n]) BY <1>4, <2>4
  <2> DEFINE q == l[n]
  <2> HIDE DEF q
  <2>6. << >> \o q = q BY <2>5, NothingRunsFirst DEF q
  <2> QED BY <2>3, <2>6 DEF q
<1>6. \A x \in K : \A field \in Edges : EdgeAfter(g, h, s, f, x, field) BY UnlinkedEdges
<1>7. \A x \in L : \A field \in Edges : KeptEdge(g, h, s, f, x, field)
  BY <1>6 DEF EdgeAfter, KeptEdge
<1>8. ASSUME NEW x \in 1 .. N, \A t \in 1 .. N : x < t => t \in T PROVE x \in T
  <2> SUFFICES ASSUME x \in L PROVE m[x] = l[x] BY <1>0
  <2>1. x \in Statements(g) /\ x # NULL /\ SameNode(g, h, x) BY <1>0, <1>3 DEF NULL, SameSize
  <2>2. ASSUME NEW field \in Edges PROVE m[h.stat[x][field]] = l[h.stat[x][field]]
    <3>1. CASE h.stat[x][field] = NULL BY <1>1, <1>2, <3>1
    <3>2. CASE h.stat[x][field] # NULL
      <4>1. EdgeIsLinked(h, L, x, field) BY DEF Linked
      <4>2. h.stat[x][field] \in L BY <3>2, <4>1 DEF EdgeIsLinked
      <4>3. h.stat[x][field] \in 1 .. N /\ x < h.stat[x][field]
        BY <1>0, <1>3, <2>1, <3>2 DEF EdgesLeadOn
      <4> QED BY <1>8, <4>2, <4>3
    <3> QED BY <3>1, <3>2
  <2>3. ASSUME NEW field \in Edges PROVE m[h.stat[x][field]] = l[g.stat[x][field]]
    <3>1. KeptEdge(g, h, s, f, x, field) BY <1>7
    <3>2. CASE h.stat[x][field] = g.stat[x][field] /\ ~ Redirected(g, s, f, x, field)
      BY <2>2, <3>2
    <3>3. CASE h.stat[x][field] = n /\ Redirected(g, s, f, x, field)
      <4>1. g.stat[x][field] = s BY <3>3 DEF Redirected, FollowsOrRoot
      <4> QED BY <1>5, <2>2, <3>3, <4>1
    <3> QED BY <3>1, <3>2, <3>3 DEF KeptEdge
  <2>4. c[x] = c[x] OBVIOUS
  <2>5. LiveWith(h, c, m, x) = LiveWith(g, c, l, x) BY <2>1, <2>3, <2>4, SameRuns
  <2> QED BY <1>1, <1>2, <1>3, <2>1, <2>5
<1>9. \A x \in 1 .. N : x \in T
  <2>1. N \in Nat BY <1>0
  <2> HIDE DEF T, N
  <2> QED BY <1>8, <2>1, FromTheEnd
<1> QED BY <1>0, <1>1, <1>2, <1>5, <1>9 DEF l, m

LEMMA UnlinkedLiveCode ==
  ASSUME NEW g, EdgesLeadOn(g), NEW h, EdgesLeadOn(h), NEW K, K \subseteq Statements(g),
         Linked(g, K), NEW L, L \subseteq K, Linked(h, L), NEW s \in K, s \notin L,
         NEW f, Unlinks(g, h, s, f), FollowsOrRoot(g, K, s, f), NEW c,
         g.stat[s].statementType \in {"CF_IF", "CF_FOR"}, c[s] = "false",
         g.stat[s].elseStatement = NULL
  PROVE  LiveCode(h, c) = LiveCode(g, c)
<1> DEFINE n == g.stat[s].followingStatement
<1>1. /\ \A x \in {NULL} \union L : Live(h, c)[x] = Live(g, c)[x]
      /\ Live(g, c)[s] = Live(g, c)[n]
  BY UnlinkedLive
<1>2. Len(h.funcs) = Len(g.funcs) BY DEF Unlinks, SameSize
<1>3. \A k \in 1 .. Len(h.funcs) : h.funcs[k].rootStatement \in {NULL} \union L
  BY DEF Linked, RootIsLinked
<1>4. ASSUME NEW k \in 1 .. Len(g.funcs)
      PROVE  Live(h, c)[h.funcs[k].rootStatement] = Live(g, c)[g.funcs[k].rootStatement]
  <2>1. h.funcs[k].rootStatement = IF IsRootOf(g, s, f) /\ k = f THEN n ELSE g.funcs[k].rootStatement
    BY DEF Unlinks
  <2>2. Live(h, c)[h.funcs[k].rootStatement] = Live(g, c)[h.funcs[k].rootStatement]
    BY <1>1, <1>2, <1>3
  <2>3. CASE IsRootOf(g, s, f) /\ k = f BY <1>1, <2>1, <2>2, <2>3 DEF IsRootOf
  <2>4. CASE ~ (IsRootOf(g, s, f) /\ k = f) BY <2>1, <2>2, <2>4
  <2> QED BY <2>3, <2>4
<1> QED BY <1>2, <1>4, LiveCodeIs

(* The removals, with what is kept after them.                             *)
LEMMA StatementRemoved ==
  ASSUME AInv, AInv', KInv, RemoveStatement
  PROVE  LET s == Current.at
             f == Current.fun
             p == graph.stat[s].parentStatement
         IN  /\ s \in Kept /\ f \in 1 .. Len(graph.funcs)
             /\ graph.stat[s].statementType \in {"CF_IF", "CF_FOR"}
             /\ cond[s] = "false" /\ graph.stat[s].elseStatement = NULL /\ cond' = cond
             /\ Unlinks(graph, graph', s, f) /\ FollowsOrRoot(graph, Kept, s, f)
             /\ p = NULL <=> IsRootOf(graph, s, f)
             /\ p # NULL => p \in Kept /\ graph.stat[p].followingStatement = s
                            /\ AllBefore(graph, Pop(pending), p)
             /\ Kept' = Kept \ Reach(graph')[s] /\ s \notin Kept' /\ NowFreed(Reach(graph')[s])
             /\ pending' = Pop(pending) \o Do("follow", p, f)
             /\ EdgesLeadOn(graph) /\ EdgesLeadOn(graph') /\ Linked(graph, Kept)
             /\ Linked(graph', Kept') /\ Kept \subseteq Statements(graph)
<1> DEFINE g == graph
           h == graph'
           f == Current.fun
           s == Current.at
           p == g.stat[s].parentStatement
           K == Kept
           cs == Pop(pending)
<1>1. /\ phase = "remove" /\ pending # << >> /\ s \in Statements(g)
      /\ g.stat[s].statementType \in {"CF_IF", "CF_FOR"}
      /\ cond[s] = "false" /\ g.stat[s].elseStatement = NULL
      /\ Unlinks(g, h, s, f) /\ Removable(h, allocated) /\ NowFreed(Reach(h)[s])
      /\ pending' = cs \o Do("follow", p, f)
  BY RemovesStatement
<1>2. Current.op = "visit" /\ s # NULL /\ cond' = cond BY DEF RemoveStatement, Visiting, Removing
<1>3. /\ EdgesLeadOn(g) /\ f \in 1 .. Len(g.funcs) /\ CallOK(g, K, Current)
      /\ K \subseteq Statements(g)
  BY <1>1, InRemoval
<1>4. /\ s \in K
      /\ \A q \in Statements(g) :
           p = q /\ g.stat[q].followingStatement = s => AllBefore(g, cs, q)
  BY <1>1, <1>2, InVisit
<1>5. Linked(g, K) /\ ArmsOK(g, cond, K) BY DEF KInv
<1>6. EdgesLeadOn(h) BY <1>1 DEF Removable
<1>7. KInv' BY RemoveStatementKeeps
<1>8. Linked(h, Kept') BY <1>7 DEF KInv
<1>9. Kept' = K \ Reach(h)[s]
  <2>1. SameSize(graph, graph') BY <1>1 DEF Unlinks
  <2> QED BY <1>1, <2>1, KeptAfter
<1>10. s \in Reach(h)[s]
  <2>1. s \in Statements(h) BY <1>1 DEF Unlinks, SameSize
  <2> QED BY <1>6, <2>1, ReachHas
<1> DEFINE cur == Current
<1>11. cur.op = "visit" /\ cur.at = s /\ cur.fun = f /\ CallOK(g, K, cur) BY <1>2, <1>3
<1> HIDE DEF h, f, s, cur, K, cs
<1>12. /\ FollowsOrRoot(g, K, s, f)
       /\ p # NULL => p \in K /\ g.stat[p].followingStatement = s
       /\ p = NULL <=> IsRootOf(g, s, f)
  BY <1>1, <1>3, <1>4, <1>5, <1>11, RemovedFollows
<1>13. p # NULL => AllBefore(g, cs, p) BY <1>3, <1>4, <1>12
<1> QED BY <1>1, <1>2, <1>3, <1>4, <1>5, <1>6, <1>8, <1>9, <1>10, <1>12, <1>13
     DEF h, f, s, K, cs

LEMMA StatementRemovedLive ==
  ASSUME AInv, AInv', KInv, RemoveStatement
  PROVE  LiveCode(graph', cond') = LiveCode(graph, cond)
<1> DEFINE g == graph
           h == graph'
           f == Current.fun
           s == Current.at
           K == Kept
           L == Kept'
<1>1. /\ s \in K /\ g.stat[s].statementType \in {"CF_IF", "CF_FOR"}
      /\ cond[s] = "false" /\ g.stat[s].elseStatement = NULL /\ cond' = cond
      /\ Unlinks(g, h, s, f) /\ FollowsOrRoot(g, K, s, f)
      /\ L = K \ Reach(h)[s] /\ s \notin L
      /\ EdgesLeadOn(g) /\ EdgesLeadOn(h) /\ Linked(g, K) /\ Linked(h, L)
      /\ K \subseteq Statements(g)
  BY StatementRemoved
<1>2. L \subseteq K BY <1>1
<1> HIDE DEF g, h, f, s, K, L
<1>3. LiveCode(h, cond) = LiveCode(g, cond) BY <1>1, <1>2, UnlinkedLiveCode
<1> QED BY <1>1, <1>3 DEF g, h

LEMMA ArmRemoved ==
  ASSUME AInv, KInv, RemoveThen \/ (RemoveElse /\ graph.stat[Current.at].elseStatement # NULL)
  PROVE  \E arm \in ArmLinks :
           LET s == Current.at
               D == Reach(graph)[graph.stat[s][arm]]
           IN  /\ s \in Kept' /\ graph.stat[s].statementType = "CF_IF"
               /\ Rearms(graph, graph', s, arm) /\ graph.stat[s][arm] # NULL
               /\ ArmIsDead(cond, cond', s, arm)
               /\ \A t \in Kept : t # s => cond'[t] = cond[t]
               /\ Kept' = Kept \ D /\ NowFreed(D)
               /\ pending' = Pop(pending) \o Do("follow", s, Current.fun)
                               \o Do("visit", graph'.stat[s].thenStatement, Current.fun)
               /\ graph'.stat[s].elseStatement = NULL
               /\ AllBefore(graph, Pop(pending), s)
               /\ EdgesLeadOn(graph) /\ EdgesLeadOn(graph') /\ Linked(graph, Kept)
               /\ Linked(graph', Kept') /\ Kept \subseteq Statements(graph)
<1> DEFINE g == graph
           h == graph'
           s == Current.at
           K == Kept
<1>1. /\ phase = "remove" /\ pending # << >> /\ Current.op = "visit" /\ s # NULL
      /\ g.stat[s].statementType = "CF_IF"
  BY DEF RemoveThen, RemoveElse, Visiting, Removing
<1>2. KInv' BY RemoveThenKeeps, RemoveElseKeeps
<1>3. /\ EdgesLeadOn(g) /\ K \subseteq Statements(g) /\ Linked(g, K)
  BY <1>1, InRemoval DEF KInv
<1>4. s \in K /\ s \in Statements(g) /\ AllBefore(g, Pop(pending), s) BY <1>1, <1>3, InVisit
<1>5. s \in Conditional /\ cond \in [Conditional -> Conditions]
  BY <1>1, <1>4 DEF Conditional, AInv
<1>6. Linked(h, Kept') BY <1>2 DEF KInv
<1>7. Placed(g) BY <1>1, InRemoval
<1>8. CASE RemoveThen
  <2> DEFINE arm == "thenStatement"
  <2>1. /\ cond[s] = "false" /\ TakesElse(g, h, s) /\ Removable(h, allocated)
        /\ cond' = [cond EXCEPT ![s] = "true"] /\ g.stat[s].thenStatement # NULL
        /\ NowFreed(Reach(g)[g.stat[s].thenStatement])
        /\ pending' = Pop(pending) \o Do("follow", s, Current.fun)
                        \o Do("visit", g.stat[s].elseStatement, Current.fun)
    BY <1>8, RemovesThen
  <2>2. h.stat[s]["thenStatement"] = g.stat[s].elseStatement /\ h.stat[s]["elseStatement"] = NULL
    BY <1>4, <2>1, FieldNames DEF TakesElse
  <2>3. Rearms(g, h, s, arm) /\ arm \in ArmLinks BY <2>1, FieldNames DEF Rearms
  <2>4. ArmIsDead(cond, cond', s, arm) /\ \A t \in K : t # s => cond'[t] = cond[t]
    BY <1>5, <2>1 DEF ArmIsDead
  <2>5. EdgesLeadOn(h) BY <2>1 DEF Removable
  <2>6. SameSize(graph, graph') BY <2>1 DEF TakesElse
  <2> DEFINE D == Reach(g)[g.stat[s][arm]]
  <2>7. NowFreed(D) BY <2>1
  <2>8. Kept' = K \ D BY <2>6, <2>7, KeptAfter
  <2>9. s \notin D
    <3>1. g.stat[s][arm] # NULL BY <2>1
    <3> QED BY <1>3, <1>4, <1>7, <2>3, <3>1, RearmedUntouched
  <2>10. s \in Kept' BY <1>4, <2>8, <2>9
  <2>11. g.stat[s][arm] # NULL BY <2>1
  <2>12. pending' = Pop(pending) \o Do("follow", s, Current.fun)
                      \o Do("visit", h.stat[s].thenStatement, Current.fun)
    BY <2>1, <2>2
  <2>13. h.stat[s].elseStatement = NULL BY <2>2
  <2> QED BY <1>1, <1>3, <1>4, <1>6, <2>3, <2>4, <2>5, <2>7, <2>8, <2>10, <2>11, <2>12, <2>13
<1>9. CASE RemoveElse /\ g.stat[s].elseStatement # NULL
  <2> DEFINE arm == "elseStatement"
  <2>1. /\ cond[s] = "true" /\ Relinks(g, h, s, "elseStatement", NULL) /\ Removable(h, allocated)
        /\ NowFreed(Reach(g)[g.stat[s].elseStatement])
        /\ pending' = Pop(pending) \o Do("follow", s, Current.fun)
                        \o Do("visit", g.stat[s].thenStatement, Current.fun)
    BY <1>9, RemovesElse
  <2>2. h.stat[s]["thenStatement"] = g.stat[s].thenStatement /\ h.stat[s]["elseStatement"] = NULL
    BY <1>4, <2>1, FieldNames DEF Relinks
  <2>3. Rearms(g, h, s, arm) /\ arm \in ArmLinks BY <2>1, FieldNames DEF Rearms
  <2>4. ArmIsDead(cond, cond', s, arm) /\ \A t \in K : t # s => cond'[t] = cond[t]
    BY <1>9, <2>1 DEF ArmIsDead, RemoveElse
  <2>5. EdgesLeadOn(h) BY <2>1 DEF Removable
  <2>6. SameSize(graph, graph') BY <2>1 DEF Relinks
  <2> DEFINE D == Reach(g)[g.stat[s][arm]]
  <2>7. NowFreed(D) BY <2>1
  <2>8. Kept' = K \ D BY <2>6, <2>7, KeptAfter
  <2>9. s \notin D
    <3>1. g.stat[s][arm] # NULL BY <1>9
    <3> QED BY <1>3, <1>4, <1>7, <2>3, <3>1, RearmedUntouched
  <2>10. s \in Kept' BY <1>4, <2>8, <2>9
  <2>11. g.stat[s][arm] # NULL BY <1>9
  <2>12. pending' = Pop(pending) \o Do("follow", s, Current.fun)
                      \o Do("visit", h.stat[s].thenStatement, Current.fun)
    BY <2>1, <2>2
  <2>13. h.stat[s].elseStatement = NULL BY <2>2
  <2> QED BY <1>1, <1>3, <1>4, <1>6, <2>3, <2>4, <2>5, <2>7, <2>8, <2>10, <2>11, <2>12, <2>13
<1> QED BY <1>8, <1>9

(* What RearmedLiveCode asks of the graphs, the statements and the conditions. *)
RearmedFrom(g, h, K, L, s, arm, c, b) ==
  /\ EdgesLeadOn(g) /\ EdgesLeadOn(h) /\ K \subseteq Statements(g) /\ L \subseteq K
  /\ Linked(h, L) /\ s \in L /\ g.stat[s].statementType = "CF_IF"
  /\ Rearms(g, h, s, arm) /\ ArmIsDead(c, b, s, arm)
  /\ \A t \in K : t # s => b[t] = c[t]

LEMMA RearmedFromLive ==
  ASSUME NEW g, NEW h, NEW K, NEW L, NEW s, NEW arm, NEW c, NEW b,
         RearmedFrom(g, h, K, L, s, arm, c, b)
  PROVE  LiveCode(h, b) = LiveCode(g, c)
BY RearmedLiveCode DEF RearmedFrom

LEMMA ArmRemovedLive ==
  ASSUME AInv, KInv, RemoveThen \/ (RemoveElse /\ graph.stat[Current.at].elseStatement # NULL)
  PROVE  LiveCode(graph', cond') = LiveCode(graph, cond)
<1> DEFINE g == graph
           h == graph'
           s == Current.at
           K == Kept
           L == Kept'
           b == cond'
<1>1. PICK arm \in ArmLinks :
        /\ s \in L /\ g.stat[s].statementType = "CF_IF"
        /\ Rearms(g, h, s, arm) /\ ArmIsDead(cond, b, s, arm)
        /\ \A t \in K : t # s => b[t] = cond[t]
        /\ L = K \ Reach(g)[g.stat[s][arm]]
        /\ EdgesLeadOn(g) /\ EdgesLeadOn(h) /\ Linked(h, L) /\ K \subseteq Statements(g)
  BY ArmRemoved
<1>2. L \subseteq K BY <1>1
<1> DEFINE c == cond
<1>3. RearmedFrom(g, h, K, L, s, arm, c, b) BY <1>1, <1>2 DEF RearmedFrom
<1> HIDE DEF g, h, s, K, L, b, c
<1>4. LiveCode(h, b) = LiveCode(g, c) BY <1>3, RearmedFromLive
<1> QED BY <1>4 DEF g, h, b, c

(* Where the code that runs is to be what the removal began with.          *)
Caring == phase \in {"remove", "clean", "exit"} /\ promised # << >> /\ ~ promised.elseIf

LiveKept == LiveCode(graph, cond) = promised.live

LEMMA StepKeepsLive ==
  ASSUME OptInv, OptInv', Watching => KInv, Caring => LiveKept, [OptNext]_<<vars, optVars>>,
         Caring'
  PROVE  LiveKept'
<1>1. ASSUME phase = "parse", promised' = promised PROVE FALSE
  <2>1. promised = << >> BY <1>1 DEF OptInv
  <2> QED BY <1>1, <2>1 DEF Caring
<1>2. CASE Parse BY <1>1, <1>2 DEF Parse, optVars
<1>3. CASE FoldConditions
  <2>1. graph' = graph /\ promised'.live = LiveCode(graph, cond') BY <1>3 DEF FoldConditions, vars
  <2> DEFINE h == graph'
  <2>2. h = graph BY <2>1
  <2> HIDE DEF h
  <2>3. LiveCode(h, cond') = LiveCode(graph, cond') BY <2>2
  <2> QED BY <2>1, <2>3 DEF LiveKept, h
<1>4. CASE SkipOptimiser BY <1>1, <1>4 DEF SkipOptimiser
<1>5. ASSUME phase \in {"remove", "clean", "exit"}, promised' = promised
      PROVE  Caring /\ LiveKept /\ AInv
  BY <1>5 DEF Caring, OptInv
<1>6. ASSUME phase = "remove", promised' = promised PROVE KInv
  BY <1>5, <1>6 DEF Watching, Caring
<1>7. ASSUME phase \in {"remove", "clean", "exit"}, promised' = promised,
             LiveCode(graph', cond') = LiveCode(graph, cond)
      PROVE  LiveKept'
  BY <1>5, <1>7 DEF LiveKept
<1>8. ASSUME phase \in {"remove", "clean", "exit"}, promised' = promised,
             graph' = graph, cond' = cond
      PROVE  LiveKept'
  BY <1>5, <1>8 DEF LiveKept
<1>9. AInv' BY DEF OptInv, Caring
<1>10. CASE RemoveStatement
  <2>1. phase = "remove" /\ promised' = promised
    BY <1>10 DEF RemoveStatement, Visiting, Removing
  <2>2. LiveCode(graph', cond') = LiveCode(graph, cond)
    BY <1>5, <1>6, <1>9, <1>10, <2>1, StatementRemovedLive
  <2> QED BY <1>7, <2>1, <2>2
<1>11. CASE RemoveThen \/ (RemoveElse /\ graph.stat[Current.at].elseStatement # NULL)
  <2>1. phase = "remove" /\ promised' = promised
    BY <1>11 DEF RemoveThen, RemoveElse, Visiting, Removing
  <2>2. LiveCode(graph', cond') = LiveCode(graph, cond)
    BY <1>5, <1>6, <1>11, <2>1, ArmRemovedLive
  <2> QED BY <1>7, <2>1, <2>2
<1>12. CASE RemoveElse /\ graph.stat[Current.at].elseStatement = NULL
  BY <1>8, <1>12 DEF RemoveElse, Visiting, Removing
<1>13. CASE VisitFunction BY <1>8, <1>13 DEF VisitFunction, Removing, vars
<1>14. CASE VisitBranches BY <1>8, <1>14 DEF VisitBranches, Visiting, Removing, vars
<1>15. CASE VisitBody BY <1>8, <1>15 DEF VisitBody, Visiting, Removing, vars
<1>16. CASE VisitOther BY <1>8, <1>16 DEF VisitOther, Removing, vars
<1>17. CASE Follow BY <1>8, <1>17 DEF Follow, Removing, vars
<1>18. CASE EndOfRemoval BY <1>8, <1>18 DEF EndOfRemoval, vars
<1>19. CASE CleanAll BY <1>8, <1>19 DEF CleanAll, vars
<1>20. CASE UNCHANGED <<vars, optVars>>
  <2>1. graph' = graph /\ cond' = cond /\ promised' = promised /\ phase' = phase
    BY <1>20 DEF vars, optVars
  <2> QED BY <1>8, <2>1 DEF Caring
<1> QED BY <1>2, <1>3, <1>4, <1>10, <1>11, <1>12, <1>13, <1>14, <1>15, <1>16, <1>17, <1>18, <1>19,
           <1>20 DEF OptNext

(* In a program without a dead `else if', what is left after               *)
(* remove_dead_code runs exactly the statements, in the branches and loops *)
(* of the remaining conditions, that the parsed program would run under    *)
(* the folded conditions: "completely remove the statement" (optimiser.c)  *)
(* removes nothing else.                                                   *)
THEOREM LiveCodeIsKept == OptSpec => []LiveCodeKeptWithoutDeadElseIf
<1> DEFINE Inv == OptInv /\ (Watching => KInv) /\ (Caring => LiveKept)
<1>1. OptInit => Inv
  <2>1. OptInit => OptInv BY OptInitHolds
  <2>2. OptInit => ~ Watching /\ ~ Caring BY DEF OptInit, Watching, Caring
  <2> QED BY <2>1, <2>2
<1>2. Inv /\ [OptNext]_<<vars, optVars>> => Inv'
  BY OptNextHolds, StepKeepsKept, StepKeepsLive
<1>3. Inv => LiveCodeKeptWithoutDeadElseIf
  BY DEF LiveCodeKeptWithoutDeadElseIf, Removed, Caring, LiveKept
<1> QED BY <1>1, <1>2, <1>3, PTL DEF OptSpec

-----------------------------------------------------------------------------
(* What the pending calls have still to visit.                             *)

Ahead(g, call) ==
  IF call.op = "function" THEN Reach(g)[g.funcs[call.fun].rootStatement]
  ELSE IF call.op = "visit" THEN Reach(g)[call.at]
  ELSE IF call.at = NULL THEN {}
  ELSE Reach(g)[g.stat[call.at].followingStatement]

Due(g, cs, x) == \E i \in 1 .. Len(cs) : x \in Ahead(g, cs[i])

LEMMA DuePopped ==
  ASSUME NEW S, NEW cs \in Seq(S), cs # << >>, NEW g, NEW x
  PROVE  Due(g, cs, x) <=> Due(g, Pop(cs), x) \/ x \in Ahead(g, Top(cs))
<1>3. /\ Len(Pop(cs)) = Len(cs) - 1 /\ Len(cs) - 1 \in Nat
      /\ \A i \in 1 .. Len(cs) - 1 : Pop(cs)[i] = cs[i]
  BY PopCalls
<1>4. Top(cs) = cs[Len(cs)] BY DEF Top
<1> DEFINE p == Pop(cs)
           n == Len(cs)
<1>5. n - 1 \in Nat /\ n \in Nat /\ Len(p) = n - 1 /\ (\A i \in 1 .. n - 1 : p[i] = cs[i])
  BY <1>3
<1>6. \A i : i \in 1 .. n <=> i \in 1 .. n - 1 \/ i = n BY <1>5
<1> HIDE DEF p, n
<1>7. (\E i \in 1 .. n : x \in Ahead(g, cs[i])) <=>
        (\E i \in 1 .. Len(p) : x \in Ahead(g, p[i])) \/ x \in Ahead(g, cs[n])
  BY <1>5, <1>6
<1> QED BY <1>4, <1>7 DEF Due, p, n

LEMMA DuePushed ==
  ASSUME NEW S, NEW cs \in Seq(S), NEW c \in S, NEW g, NEW x
  PROVE  Due(g, cs \o <<c>>, x) <=> Due(g, cs, x) \/ x \in Ahead(g, c)
<1> DEFINE q == cs \o <<c>>
           n == Len(cs)
<1>1. Len(q) = n + 1 /\ n \in Nat /\ q[n + 1] = c /\ \A i \in 1 .. n : q[i] = cs[i] BY Pushes
<1>2. \A i : i \in 1 .. n + 1 <=> i \in 1 .. n \/ i = n + 1 BY <1>1
<1> HIDE DEF q, n
<1>3. (\E i \in 1 .. Len(q) : x \in Ahead(g, q[i])) <=>
        (\E i \in 1 .. n : x \in Ahead(g, cs[i])) \/ x \in Ahead(g, c)
  BY <1>1, <1>2
<1> QED BY <1>3 DEF Due, q, n

(* The calls that a step makes. *)
LEMMA VisitIsDue ==
  ASSUME NEW g, NEW cs \in Seq(PendingCalls(g)), NEW t \in PointersIn(g),
         NEW f \in 1 .. Len(g.funcs)
  PROVE  /\ cs \o Do("visit", t, f) \in Seq(PendingCalls(g))
         /\ \A x : Due(g, cs \o Do("visit", t, f), x) <=> Due(g, cs, x) \/ x \in Reach(g)[t]
<1> DEFINE c == [op |-> "visit", at |-> t, fun |-> f]
<1>1. c \in PendingCalls(g) BY DEF PendingCalls
<1>2. Do("visit", t, f) = <<c>> BY DEF Do
<1>3. Ahead(g, c) = Reach(g)[t] BY DEF Ahead
<1>4. cs \o Do("visit", t, f) \in Seq(PendingCalls(g)) BY Calling
<1> HIDE DEF c
<1>5. \A x : Due(g, cs \o <<c>>, x) <=> Due(g, cs, x) \/ x \in Ahead(g, c) BY <1>1, DuePushed
<1> QED BY <1>2, <1>3, <1>4, <1>5

LEMMA FollowIsDue ==
  ASSUME NEW g, NEW cs \in Seq(PendingCalls(g)), NEW s \in PointersIn(g),
         NEW f \in 1 .. Len(g.funcs)
  PROVE  /\ cs \o Do("follow", s, f) \in Seq(PendingCalls(g))
         /\ \A x : Due(g, cs \o Do("follow", s, f), x) <=>
                     \/ Due(g, cs, x)
                     \/ s # NULL /\ x \in Reach(g)[g.stat[s].followingStatement]
<1> DEFINE c == [op |-> "follow", at |-> s, fun |-> f]
<1>1. c \in PendingCalls(g) BY DEF PendingCalls
<1>2. Do("follow", s, f) = <<c>> BY DEF Do
<1>3. Ahead(g, c) = IF s = NULL THEN {} ELSE Reach(g)[g.stat[s].followingStatement] BY DEF Ahead
<1>4. cs \o Do("follow", s, f) \in Seq(PendingCalls(g)) BY Calling
<1> HIDE DEF c
<1>5. \A x : Due(g, cs \o <<c>>, x) <=> Due(g, cs, x) \/ x \in Ahead(g, c) BY <1>1, DuePushed
<1> QED BY <1>2, <1>3, <1>4, <1>5

(* What has not been cut off is still reached after a change, from what    *)
(* is kept.                                                                *)
StillReaches(g, h, L, D) ==
  \A x \in L :
    /\ \A t \in Reach(g)[x] \ D : t \in Reach(h)[x]
    /\ \A t \in Reach(g)[g.stat[x].followingStatement] \ D :
         t \in Reach(h)[h.stat[x].followingStatement]

(* Each edge has been kept, or leads past what has been cut off. *)
LeadsOnAs(g, h, D, x, field, to) ==
  \A t \in Reach(g)[g.stat[x][field]] \ D : t \in Reach(g)[h.stat[x][to]]

LEMMA StillReached ==
  ASSUME NEW g, EdgesLeadOn(g), NEW h, EdgesLeadOn(h), SameSize(g, h), NEW L, Linked(h, L), NEW D,
         \A x \in L : \A field \in Edges :
           \/ Reach(g)[g.stat[x][field]] \subseteq D
           \/ \E to \in Edges : LeadsOnAs(g, h, D, x, field, to),
         \A x \in L : LeadsOnAs(g, h, D, x, "followingStatement", "followingStatement")
  PROVE  StillReaches(g, h, L, D)
<1> DEFINE c == Reach(g)
           d == Reach(h)
           N == Len(g.stat)
           T == {x \in Statements(g) : x \in L => \A t \in c[x] \ D : t \in d[x]}
<1>0. N \in Nat /\ Statements(g) = 1 .. N BY DEF EdgesLeadOn, Statements
<1>1. c[NULL] = {} /\ d[NULL] = {} BY ReachUnfolds
<1>2. Statements(h) = Statements(g) /\ L \subseteq Statements(g) BY DEF SameSize, Linked
<1>3. \A x \in L : \A t : t \in c[x] <=> t = x \/ \E field \in Edges : t \in c[g.stat[x][field]]
  BY <1>2, ReachHas
<1>4. \A x \in L : \A t : t \in d[x] <=> t = x \/ \E field \in Edges : t \in d[h.stat[x][field]]
  BY <1>2, ReachHas
<1>5. ASSUME NEW x \in L, NEW to \in Edges, NEW t \in c[h.stat[x][to]]
      PROVE  h.stat[x][to] \in L /\ h.stat[x][to] \in 1 .. N /\ x < h.stat[x][to]
  <2>1. h.stat[x][to] # NULL BY <1>1, <1>5
  <2>2. EdgeIsLinked(h, L, x, to) BY DEF Linked
  <2>3. x \in Statements(h) BY <1>2
  <2> QED BY <1>0, <1>2, <2>1, <2>2, <2>3 DEF EdgeIsLinked, EdgesLeadOn
<1>6. ASSUME NEW x \in 1 .. N, \A t \in 1 .. N : x < t => t \in T PROVE x \in T
  <2> SUFFICES ASSUME x \in L, NEW t \in c[x] \ D PROVE t \in d[x] BY <1>0
  <2>1. CASE t = x BY <1>4, <2>1
  <2>2. CASE t # x
    <3>1. PICK field \in Edges : t \in c[g.stat[x][field]] BY <1>3, <2>2
    <3>2. PICK to \in Edges : LeadsOnAs(g, h, D, x, field, to) BY <3>1
    <3>3. t \in c[h.stat[x][to]] BY <3>1, <3>2 DEF LeadsOnAs
    <3>4. h.stat[x][to] \in L /\ h.stat[x][to] \in 1 .. N /\ x < h.stat[x][to] BY <1>5, <3>3
    <3>5. t \in d[h.stat[x][to]] BY <1>6, <3>3, <3>4
    <3> QED BY <1>4, <3>5
  <2> QED BY <2>1, <2>2
<1>7. \A x \in 1 .. N : x \in T
  <2>1. N \in Nat BY <1>0
  <2> HIDE DEF T, N
  <2> QED BY <1>6, <2>1, FromTheEnd
<1>8. \A x \in L : \A t \in c[x] \ D : t \in d[x] BY <1>0, <1>2, <1>7
<1>9. ASSUME NEW x \in L, NEW t \in c[g.stat[x].followingStatement] \ D
      PROVE  t \in d[h.stat[x].followingStatement]
  <2>1. "followingStatement" \in Edges BY DEF Edges
  <2>2. t \in c[h.stat[x]["followingStatement"]] BY <1>9 DEF LeadsOnAs
  <2>3. h.stat[x]["followingStatement"] \in L BY <1>5, <2>1, <2>2
  <2> QED BY <1>8, <2>2, <2>3
<1> QED BY <1>8, <1>9 DEF StillReaches

LEMMA RearmedReaches ==
  ASSUME NEW g, EdgesLeadOn(g), NEW h, EdgesLeadOn(h), NEW L, Linked(h, L),
         NEW s \in L, NEW arm, Rearms(g, h, s, arm), NEW D, D = Reach(g)[g.stat[s][arm]]
  PROVE  StillReaches(g, h, L, D)
<1>1. SameSize(g, h) BY DEF Rearms, TakesElse, Relinks
<1>2. L \subseteq Statements(g) BY <1>1 DEF SameSize, Linked
<1>3. s \in Statements(g) BY <1>2
<1>4. \A field \in Edges \ {arm} : \E to \in Edges : h.stat[s][to] = g.stat[s][field]
  BY <1>3, RearmedEdges
<1>5. \A y \in Statements(g) : y # s => \A field \in Edges : h.stat[y][field] = g.stat[y][field]
  BY <1>3, FieldNames DEF Rearms, TakesElse, Relinks
<1>6. \A y \in Statements(g) :
        h.stat[y]["followingStatement"] = g.stat[y]["followingStatement"]
  BY <1>3, FieldNames DEF Rearms, TakesElse, Relinks
<1>7. ASSUME NEW x \in L, NEW field \in Edges
      PROVE  \/ Reach(g)[g.stat[x][field]] \subseteq D
             \/ \E to \in Edges : LeadsOnAs(g, h, D, x, field, to)
  <2>1. CASE x = s /\ field = arm BY <2>1
  <2>2. CASE x = s /\ field # arm
    <3>1. PICK to \in Edges : h.stat[s][to] = g.stat[s][field] BY <1>4, <2>2
    <3> QED BY <2>2, <3>1 DEF LeadsOnAs
  <2>3. CASE x # s
    <3>1. h.stat[x][field] = g.stat[x][field] BY <1>2, <1>5, <2>3
    <3> QED BY <3>1 DEF LeadsOnAs
  <2> QED BY <2>1, <2>2, <2>3
<1>8. \A x \in L : LeadsOnAs(g, h, D, x, "followingStatement", "followingStatement")
  BY <1>2, <1>6 DEF LeadsOnAs
<1> QED BY <1>1, <1>7, <1>8, StillReached

LEMMA UnlinkedReaches ==
  ASSUME NEW g, EdgesLeadOn(g), NEW h, EdgesLeadOn(h), NEW K, Linked(g, K), NEW s \in K, NEW f,
         Unlinks(g, h, s, f), FollowsOrRoot(g, K, s, f), NEW D, D = Reach(h)[s],
         NEW L, L = K \ D, Linked(h, L)
  PROVE  /\ StillReaches(g, h, L, D)
         /\ \A t \in Reach(g)[s] \ D : t \in Reach(g)[g.stat[s].followingStatement]
<1> DEFINE n == g.stat[s].followingStatement
           I == D \ {s}
           c == Reach(g)
<1>1. SameSize(g, h) BY DEF Unlinks
<1>2. K \subseteq Statements(g) /\ s \in Statements(g) /\ Statements(h) = Statements(g)
  BY <1>1 DEF SameSize, Linked
<1>3. /\ D \subseteq K /\ s \in D /\ \A x \in D : s <= x
      /\ ClosedIn(h, D)
  BY UnlinkedIsInner
<1>4. \A x \in K : \A field \in Edges : EdgeAfter(g, h, s, f, x, field) BY <1>2, UnlinkedEdges
<1>5. ASSUME NEW x \in D, NEW field \in Edges, g.stat[x][field] # NULL,
             x # s \/ field # "followingStatement"
      PROVE  g.stat[x][field] \in I
  <2>1. EdgeAfter(g, h, s, f, x, field) BY <1>3, <1>4
  <2>2. s <= x BY <1>3
  <2>3. x \in Statements(g) /\ x \in Nat /\ s \in Nat BY <1>2, <1>3 DEF Statements, EdgesLeadOn
  <2>4. ~ Redirected(g, s, f, x, field)
    <3> SUFFICES ASSUME Redirected(g, s, f, x, field) PROVE FALSE OBVIOUS
    <3>1. g.stat[x]["followingStatement"] = s BY DEF Redirected, FollowsOrRoot
    <3>2. "followingStatement" \in Edges /\ s # NULL BY <1>2 DEF Edges, Statements, NULL
    <3>3. x < s BY <2>3, <3>1, <3>2 DEF EdgesLeadOn
    <3> QED BY <2>2, <2>3, <3>3
  <2>5. h.stat[x][field] = g.stat[x][field] BY <1>5, <2>1, <2>4 DEF EdgeAfter
  <2>6. g.stat[x][field] \in D BY <1>3, <1>5, <2>5 DEF ClosedIn
  <2>7. x < g.stat[x][field] BY <1>5, <2>3 DEF EdgesLeadOn
  <2>8. g.stat[x][field] \in Nat BY <1>2, <1>3, <2>6 DEF Statements
  <2>9. g.stat[x][field] # s BY <2>2, <2>3, <2>7, <2>8
  <2> QED BY <2>6, <2>9
<1>6. ClosedIn(g, I) BY <1>5 DEF ClosedIn
<1>7. \A d \in Statements(g) : d \in I => c[d] \subseteq I BY <1>6, ReachStays
<1>8. c[NULL] = {} BY ReachUnfolds
<1>9. ASSUME NEW t \in c[s] \ D PROVE t \in c[n]
  <2>1. t # s BY <1>3
  <2>2. PICK field \in Edges : t \in c[g.stat[s][field]] BY <1>2, <2>1, ReachHas
  <2>3. g.stat[s][field] # NULL BY <1>8, <2>2
  <2>4. field = "followingStatement"
    <3> SUFFICES ASSUME field # "followingStatement" PROVE FALSE OBVIOUS
    <3>1. g.stat[s][field] \in I BY <1>3, <1>5, <2>3
    <3>2. g.stat[s][field] \in Statements(g) BY <1>2, <1>3, <3>1
    <3>3. t \in I BY <1>7, <2>2, <3>1, <3>2
    <3> QED BY <3>3
  <2> QED BY <2>2, <2>4
<1>10. ASSUME NEW x \in L, NEW field \in Edges
       PROVE  LeadsOnAs(g, h, D, x, field, field)
  <2>1. x \in K /\ x # s BY <1>3
  <2>2. EdgeAfter(g, h, s, f, x, field) BY <1>4, <2>1
  <2>3. CASE Redirected(g, s, f, x, field)
    <3>1. h.stat[x][field] = n BY <2>1, <2>2, <2>3 DEF EdgeAfter
    <3>2. g.stat[x][field] = s BY <2>3 DEF Redirected, FollowsOrRoot
    <3> QED BY <1>9, <3>1, <3>2 DEF LeadsOnAs
  <2>4. CASE ~ Redirected(g, s, f, x, field)
    <3>1. h.stat[x][field] = g.stat[x][field] BY <2>1, <2>2, <2>4 DEF EdgeAfter
    <3> QED BY <3>1 DEF LeadsOnAs
  <2> QED BY <2>3, <2>4
<1>11. \A x \in L : LeadsOnAs(g, h, D, x, "followingStatement", "followingStatement")
  BY <1>10 DEF Edges
<1>12. StillReaches(g, h, L, D) BY <1>1, <1>10, <1>11, StillReached
<1> QED BY <1>9, <1>12

(* What waits for a pending call still does after a change.                *)
LEMMA StillDue ==
  ASSUME NEW g, EdgesLeadOn(g), NEW h, EdgesLeadOn(h), NEW L, Linked(h, L), NEW D,
         StillReaches(g, h, L, D),
         \A k \in 1 .. Len(g.funcs) : h.funcs[k].rootStatement = g.funcs[k].rootStatement,
         Len(h.funcs) = Len(g.funcs),
         NEW cs \in Seq(PendingCalls(g)), \A i \in 1 .. Len(cs) : CallOK(h, L, cs[i]),
         NEW x, x \notin D, Due(g, cs, x)
  PROVE  Due(h, cs, x)
<1>1. PICK i \in 1 .. Len(cs) : x \in Ahead(g, cs[i]) BY DEF Due
<1> DEFINE call == cs[i]
<1> SUFFICES x \in Ahead(h, call) BY DEF Due
<1>2. call \in PendingCalls(g) /\ CallOK(h, L, call) OBVIOUS
<1>3. call.fun \in 1 .. Len(g.funcs) /\ (call.at # NULL => call.at \in L)
  BY <1>2 DEF PendingCalls, CallOK
<1>4. Reach(g)[NULL] = {} BY ReachUnfolds
<1>5. x \in Ahead(g, call) BY <1>1
<1> HIDE DEF call
<1>6. CASE call.op = "function"
  <2> DEFINE r == g.funcs[call.fun].rootStatement
  <2>1. x \in Reach(g)[r] /\ h.funcs[call.fun].rootStatement = r BY <1>3, <1>5, <1>6 DEF Ahead
  <2>2. r # NULL BY <1>4, <2>1
  <2>3. RootIsLinked(h, L, call.fun) BY <1>3 DEF Linked
  <2>4. r \in L BY <2>1, <2>2, <2>3 DEF RootIsLinked
  <2> HIDE DEF r
  <2>5. x \in Reach(h)[r] BY <2>1, <2>4 DEF StillReaches
  <2> QED BY <1>6, <2>1, <2>5 DEF Ahead
<1>7. CASE call.op = "visit"
  <2>1. x \in Reach(g)[call.at] BY <1>5, <1>7 DEF Ahead
  <2>2. call.at \in L BY <1>3, <1>4, <2>1
  <2>3. x \in Reach(h)[call.at] BY <2>1, <2>2 DEF StillReaches
  <2> QED BY <1>7, <2>3 DEF Ahead
<1>8. CASE call.op # "function" /\ call.op # "visit"
  <2>1. call.at # NULL /\ x \in Reach(g)[g.stat[call.at].followingStatement]
    BY <1>5, <1>8 DEF Ahead
  <2>2. x \in Reach(h)[h.stat[call.at].followingStatement] BY <1>3, <2>1 DEF StillReaches
  <2> QED BY <1>8, <2>1, <2>2 DEF Ahead
<1> QED BY <1>6, <1>7, <1>8

-----------------------------------------------------------------------------
(* No dead branch is left, of what no pending call has still to visit.     *)

Branches(g, x) == g.stat[x].statementType \in {"CF_IF", "CF_FOR"}

Clean(g, c, x) == c[x] # "false" /\ (c[x] = "true" => g.stat[x].elseStatement = NULL)

AllDone(g, c, K, cs) == \A x \in K : Branches(g, x) => Clean(g, c, x) \/ Due(g, cs, x)

NoRootFreed == \A s \in promised.roots : ~ IsFreed(s)

RootsPromised ==
  \A f \in 1 .. Len(graph.funcs) : graph.funcs[f].rootStatement \in promised.roots

DoneOK == RootsPromised /\ AllDone(graph, cond, Kept, pending)

(* What is reached from s, by its edges. *)
LEMMA ReachParts ==
  ASSUME NEW g, EdgesLeadOn(g), NEW s \in Statements(g), NEW x
  PROVE  x \in Reach(g)[s] <=> \/ x = s
                               \/ x \in Reach(g)[g.stat[s].thenStatement]
                               \/ x \in Reach(g)[g.stat[s].elseStatement]
                               \/ x \in Reach(g)[g.stat[s].bodyStatement]
                               \/ x \in Reach(g)[g.stat[s].followingStatement]
<1>1. x \in Reach(g)[s] <=> x = s \/ \E field \in Edges : x \in Reach(g)[g.stat[s][field]]
  BY ReachHas
<1> QED BY <1>1 DEF Edges

(* A step that changes the pending calls only. *)
LEMMA QuietDone ==
  ASSUME AInv, pending # << >>, DoneOK, UNCHANGED <<graph, cond, freed, promised>>,
         \A x : Due(graph, Pop(pending), x) => Due(graph, pending', x),
         \A x \in Kept : Branches(graph, x) /\ x \in Ahead(graph, Current) =>
                           Clean(graph, cond, x) \/ Due(graph, pending', x)
  PROVE  DoneOK'
<1>1. pending \in Seq(PendingCalls(graph)) BY DEF AInv
<1>2. \A x : Due(graph, pending, x) <=> Due(graph, Pop(pending), x) \/ x \in Ahead(graph, Current)
  BY <1>1, DuePopped DEF Current
<1>3. graph' = graph /\ cond' = cond /\ freed' = freed /\ promised' = promised OBVIOUS
<1>4. Kept' = Kept BY <1>3 DEF Kept
<1>5. AllDone(graph, cond, Kept, pending') BY <1>2 DEF DoneOK, AllDone
<1>6. RootsPromised' BY <1>3 DEF DoneOK, RootsPromised
<1>7. AllDone(graph, cond, Kept, pending)' BY <1>3, <1>4, <1>5
<1> QED BY <1>6, <1>7 DEF DoneOK

LEMMA VisitFunctionDone ==
  ASSUME AInv, DoneOK, VisitFunction
  PROVE  DoneOK'
<1> DEFINE cs == Pop(pending)
           f == Current.fun
           r == graph.funcs[f].rootStatement
<1>1. /\ pending # << >> /\ Current.op = "function" /\ pending' = cs \o Do("visit", r, f)
      /\ UNCHANGED <<graph, cond, freed, promised>>
  BY DEF VisitFunction, Removing, vars
<1>2. cs \in Seq(PendingCalls(graph)) /\ f \in 1 .. Len(graph.funcs) BY <1>1, AtCurrent
<1>3. r \in PointersIn(graph) BY <1>2 DEF AInv, Removable, RootsThere
<1>4. Ahead(graph, Current) = Reach(graph)[r] BY <1>1 DEF Ahead
<1> HIDE DEF cs, f, r
<1>5. \A x : Due(graph, cs \o Do("visit", r, f), x) <=> Due(graph, cs, x) \/ x \in Reach(graph)[r]
  BY <1>2, <1>3, VisitIsDue
<1>6. \A x : Due(graph, Pop(pending), x) => Due(graph, pending', x) BY <1>1, <1>5 DEF cs
<1>7. \A x \in Ahead(graph, Current) : Due(graph, pending', x) BY <1>1, <1>4, <1>5
<1> QED BY <1>1, <1>6, <1>7, QuietDone

LEMMA FollowDone ==
  ASSUME AInv, DoneOK, Follow
  PROVE  DoneOK'
<1> DEFINE cs == Pop(pending)
           f == Current.fun
           s == Current.at
           n == graph.stat[s].followingStatement
<1>1. /\ pending # << >> /\ Current.op = "follow"
      /\ pending' = IF s = NULL \/ n = NULL THEN cs ELSE cs \o Do("visit", n, f)
      /\ UNCHANGED <<graph, cond, freed, promised>>
  BY DEF Follow, Removing, vars
<1>2. /\ cs \in Seq(PendingCalls(graph)) /\ f \in 1 .. Len(graph.funcs)
      /\ s # NULL => s \in Statements(graph)
  BY <1>1, AtCurrent
<1>3. EdgesLeadOn(graph) /\ Removable(graph, allocated) BY DEF AInv, Removable
<1>4. Ahead(graph, Current) = IF s = NULL THEN {} ELSE Reach(graph)[n] BY <1>1 DEF Ahead
<1>5. Reach(graph)[NULL] = {} BY <1>3, ReachUnfolds
<1>6. CASE s = NULL \/ n = NULL
  <2>1. pending' = cs /\ Ahead(graph, Current) = {} BY <1>1, <1>4, <1>5, <1>6
  <2> QED BY <1>1, <2>1, QuietDone
<1>7. CASE ~ (s = NULL \/ n = NULL)
  <2>1. n \in PointersIn(graph)
    <3>1. s \in Statements(graph) BY <1>2, <1>7
    <3>2. "followingStatement" \in Edges /\ n = graph.stat[s]["followingStatement"] BY DEF Edges
    <3> QED BY <1>3, <3>1, <3>2 DEF EdgesLeadOn, PointersIn
  <2> HIDE DEF cs, f, n
  <2>2. \A x : Due(graph, cs \o Do("visit", n, f), x) <=> Due(graph, cs, x) \/ x \in Reach(graph)[n]
    BY <1>2, <2>1, VisitIsDue
  <2>3. pending' = cs \o Do("visit", n, f) BY <1>1, <1>7
  <2>4. \A x : Due(graph, Pop(pending), x) => Due(graph, pending', x) BY <2>2, <2>3 DEF cs
  <2>5. \A x \in Ahead(graph, Current) : Due(graph, pending', x) BY <1>4, <2>2, <2>3
  <2> QED BY <1>1, <2>4, <2>5, QuietDone
<1> QED BY <1>6, <1>7

(* In a visit. *)
LEMMA VisitsFrom ==
  ASSUME AInv, pending # << >>, Current.op = "visit"
  PROVE  /\ Pop(pending) \in Seq(PendingCalls(graph)) /\ Current.fun \in 1 .. Len(graph.funcs)
         /\ Ahead(graph, Current) = Reach(graph)[Current.at] /\ Reach(graph)[NULL] = {}
         /\ Current.at \in PointersIn(graph)
         /\ Current.at # NULL =>
              /\ Current.at \in Statements(graph) /\ ArmsFit(graph.stat[Current.at])
              /\ graph.stat[Current.at].thenStatement \in PointersIn(graph)
              /\ graph.stat[Current.at].elseStatement \in PointersIn(graph)
              /\ graph.stat[Current.at].bodyStatement \in PointersIn(graph)
         /\ EdgesLeadOn(graph)
<1>1. Removable(graph, allocated) BY DEF AInv
<1>2. EdgesLeadOn(graph) BY <1>1 DEF Removable
<1>3. /\ Pop(pending) \in Seq(PendingCalls(graph)) /\ Current.fun \in 1 .. Len(graph.funcs)
      /\ Current.at \in PointersIn(graph)
      /\ Current.at # NULL => Current.at \in Statements(graph)
  BY AtCurrent
<1>4. Ahead(graph, Current) = Reach(graph)[Current.at] BY DEF Ahead
<1>5. Reach(graph)[NULL] = {} BY <1>2, ReachUnfolds
<1>6. ASSUME Current.at # NULL
      PROVE  /\ ArmsFit(graph.stat[Current.at])
             /\ graph.stat[Current.at].thenStatement \in PointersIn(graph)
             /\ graph.stat[Current.at].elseStatement \in PointersIn(graph)
             /\ graph.stat[Current.at].bodyStatement \in PointersIn(graph)
  <2> DEFINE s == Current.at
  <2>1. s \in Statements(graph) BY <1>3, <1>6
  <2>2. ArmsFit(graph.stat[s]) BY <1>1, <2>1 DEF Removable
  <2>3. \A field \in Edges : graph.stat[s][field] \in PointersIn(graph)
    BY <1>2, <2>1 DEF EdgesLeadOn, PointersIn
  <2> QED BY <2>2, <2>3 DEF Edges
<1> QED BY <1>2, <1>3, <1>4, <1>5, <1>6

LEMMA VisitOtherDone ==
  ASSUME AInv, DoneOK, VisitOther
  PROVE  DoneOK'
<1> DEFINE cs == Pop(pending)
           f == Current.fun
           s == Current.at
<1>1. /\ pending # << >> /\ Current.op = "visit" /\ pending' = cs \o Do("follow", s, f)
      /\ s # NULL => graph.stat[s].statementType \in {"CF_BASIC", "CF_RETURN"}
      /\ UNCHANGED <<graph, cond, freed, promised>>
  BY DEF VisitOther, Visiting, Removing, vars
<1>2. /\ cs \in Seq(PendingCalls(graph)) /\ f \in 1 .. Len(graph.funcs)
      /\ Ahead(graph, Current) = Reach(graph)[s] /\ Reach(graph)[NULL] = {}
      /\ s \in PointersIn(graph) /\ EdgesLeadOn(graph)
      /\ s # NULL => s \in Statements(graph) /\ ArmsFit(graph.stat[s])
  BY <1>1, VisitsFrom
<1> HIDE DEF cs, f, s
<1>3. \A x : Due(graph, cs \o Do("follow", s, f), x) <=>
               Due(graph, cs, x) \/ (s # NULL /\ x \in Reach(graph)[graph.stat[s].followingStatement])
  BY <1>2, FollowIsDue
<1>4. \A x : Due(graph, Pop(pending), x) => Due(graph, pending', x) BY <1>1, <1>3 DEF cs
<1>5. ASSUME NEW x \in Ahead(graph, Current), Branches(graph, x) PROVE Due(graph, pending', x)
  <2>1. s # NULL /\ s \in Statements(graph) /\ x \in Reach(graph)[s] BY <1>2, <1>5
  <2>2. /\ graph.stat[s].thenStatement = NULL /\ graph.stat[s].elseStatement = NULL
        /\ graph.stat[s].bodyStatement = NULL /\ x # s
    BY <1>1, <1>2, <1>5, <2>1 DEF ArmsFit, Branches
  <2>3. x \in Reach(graph)[graph.stat[s].followingStatement] BY <1>2, <2>1, <2>2, ReachParts
  <2> QED BY <1>1, <1>3, <2>1, <2>3
<1> QED BY <1>1, <1>4, <1>5, QuietDone

(* A visit that goes on with some arms of s and then with what follows it. *)
Visits(cs, s, f, t) == cs \o Do("follow", s, f) \o Do("visit", t, f)

LEMMA VisitsDue ==
  ASSUME NEW g, NEW cs \in Seq(PendingCalls(g)), NEW s \in PointersIn(g), s # NULL,
         NEW f \in 1 .. Len(g.funcs), NEW t \in PointersIn(g)
  PROVE  /\ Visits(cs, s, f, t) \in Seq(PendingCalls(g))
         /\ \A x : Due(g, Visits(cs, s, f, t), x) <=>
                     \/ Due(g, cs, x) \/ x \in Reach(g)[t]
                     \/ x \in Reach(g)[g.stat[s].followingStatement]
<1> DEFINE low == cs \o Do("follow", s, f)
<1>1. /\ low \in Seq(PendingCalls(g))
      /\ \A x : Due(g, low, x) <=> \/ Due(g, cs, x)
                                   \/ s # NULL /\ x \in Reach(g)[g.stat[s].followingStatement]
  BY FollowIsDue
<1>2. Visits(cs, s, f, t) = low \o Do("visit", t, f) BY DEF Visits
<1> HIDE DEF low
<1>3. /\ low \o Do("visit", t, f) \in Seq(PendingCalls(g))
      /\ \A x : Due(g, low \o Do("visit", t, f), x) <=> Due(g, low, x) \/ x \in Reach(g)[t]
  BY <1>1, VisitIsDue
<1> QED BY <1>1, <1>2, <1>3

LEMMA VisitBranchesDone ==
  ASSUME AInv, DoneOK, VisitBranches
  PROVE  DoneOK'
<1> DEFINE cs == Pop(pending)
           f == Current.fun
           s == Current.at
           e == graph.stat[s].elseStatement
           t == graph.stat[s].thenStatement
           low == Visits(cs, s, f, e)
<1>1. /\ pending # << >> /\ Current.op = "visit" /\ s # NULL /\ cond[s] = "dynamic"
      /\ graph.stat[s].statementType = "CF_IF" /\ pending' = low \o Do("visit", t, f)
      /\ UNCHANGED <<graph, cond, freed, promised>>
  BY DEF VisitBranches, Visiting, Removing, vars, Visits
<1>2. /\ cs \in Seq(PendingCalls(graph)) /\ f \in 1 .. Len(graph.funcs)
      /\ Ahead(graph, Current) = Reach(graph)[s] /\ Reach(graph)[NULL] = {}
      /\ s \in PointersIn(graph) /\ EdgesLeadOn(graph)
      /\ s \in Statements(graph) /\ ArmsFit(graph.stat[s])
      /\ t \in PointersIn(graph) /\ e \in PointersIn(graph)
  BY <1>1, VisitsFrom
<1>3. graph.stat[s].bodyStatement = NULL BY <1>1, <1>2 DEF ArmsFit
<1>4. \A x : x \in Reach(graph)[s] => \/ x = s \/ x \in Reach(graph)[t] \/ x \in Reach(graph)[e]
                                      \/ x \in Reach(graph)[graph.stat[s].followingStatement]
  BY <1>2, <1>3, ReachParts
<1> HIDE DEF cs, f, s, e, t
<1>5. /\ low \in Seq(PendingCalls(graph))
      /\ \A x : Due(graph, low, x) <=>
                  \/ Due(graph, cs, x) \/ x \in Reach(graph)[e]
                  \/ x \in Reach(graph)[graph.stat[s].followingStatement]
  BY <1>1, <1>2, VisitsDue
<1> HIDE DEF low
<1>6. \A x : Due(graph, low \o Do("visit", t, f), x) <=> Due(graph, low, x) \/ x \in Reach(graph)[t]
  BY <1>2, <1>5, VisitIsDue
<1>7. \A x : Due(graph, Pop(pending), x) => Due(graph, pending', x) BY <1>1, <1>5, <1>6 DEF cs
<1>8. ASSUME NEW x \in Ahead(graph, Current) PROVE Clean(graph, cond, x) \/ Due(graph, pending', x)
  <2>1. CASE x = s BY <1>1, <2>1 DEF Clean
  <2>2. CASE x # s BY <1>1, <1>2, <1>4, <1>5, <1>6, <1>8, <2>2
  <2> QED BY <2>1, <2>2
<1> QED BY <1>1, <1>7, <1>8, QuietDone

(* One arm is visited; no other leads anywhere, and s is clean. *)
LEMMA OneArmDone ==
  ASSUME AInv, DoneOK, pending # << >>, Current.op = "visit", Current.at # NULL,
         UNCHANGED <<graph, cond, freed, promised>>,
         Clean(graph, cond, Current.at), NEW t \in PointersIn(graph),
         pending' = Visits(Pop(pending), Current.at, Current.fun, t),
         graph.stat[Current.at].elseStatement = NULL,
         \/ t = graph.stat[Current.at].thenStatement /\ graph.stat[Current.at].bodyStatement = NULL
         \/ t = graph.stat[Current.at].bodyStatement /\ graph.stat[Current.at].thenStatement = NULL
  PROVE  DoneOK'
<1> DEFINE cs == Pop(pending)
           f == Current.fun
           s == Current.at
<1>1. /\ cs \in Seq(PendingCalls(graph)) /\ f \in 1 .. Len(graph.funcs)
      /\ Ahead(graph, Current) = Reach(graph)[s] /\ Reach(graph)[NULL] = {}
      /\ s \in PointersIn(graph) /\ EdgesLeadOn(graph) /\ s \in Statements(graph)
  BY VisitsFrom
<1>2. \A x : x \in Reach(graph)[s] => \/ x = s \/ x \in Reach(graph)[t]
                                      \/ x \in Reach(graph)[graph.stat[s].followingStatement]
  BY <1>1, ReachParts
<1>3. s # NULL /\ Clean(graph, cond, s) /\ pending' = Visits(cs, s, f, t) OBVIOUS
<1> HIDE DEF cs, f, s
<1>4. \A x : Due(graph, Visits(cs, s, f, t), x) <=>
               \/ Due(graph, cs, x) \/ x \in Reach(graph)[t]
               \/ x \in Reach(graph)[graph.stat[s].followingStatement]
  BY <1>1, <1>3, VisitsDue
<1>5. \A x : Due(graph, Pop(pending), x) => Due(graph, pending', x) BY <1>3, <1>4 DEF cs
<1>6. ASSUME NEW x \in Ahead(graph, Current) PROVE Clean(graph, cond, x) \/ Due(graph, pending', x)
  <2>1. CASE x = s BY <1>3, <2>1
  <2>2. CASE x # s BY <1>1, <1>2, <1>3, <1>4, <1>6, <2>2
  <2> QED BY <2>1, <2>2
<1> QED BY <1>5, <1>6, QuietDone

LEMMA VisitBodyDone ==
  ASSUME AInv, DoneOK, VisitBody
  PROVE  DoneOK'
<1> DEFINE s == Current.at
           t == graph.stat[s].bodyStatement
<1>1. /\ pending # << >> /\ Current.op = "visit" /\ s # NULL /\ cond[s] # "false"
      /\ graph.stat[s].statementType = "CF_FOR"
      /\ pending' = Visits(Pop(pending), s, Current.fun, t)
      /\ UNCHANGED <<graph, cond, freed, promised>>
  BY DEF VisitBody, Visiting, Removing, vars, Visits
<1>2. ArmsFit(graph.stat[s]) /\ t \in PointersIn(graph) BY <1>1, VisitsFrom
<1>3. graph.stat[s].elseStatement = NULL /\ graph.stat[s].thenStatement = NULL
  BY <1>1, <1>2 DEF ArmsFit
<1>4. Clean(graph, cond, s) BY <1>1, <1>3 DEF Clean
<1> QED BY <1>1, <1>2, <1>3, <1>4, OneArmDone

LEMMA NoElseDone ==
  ASSUME AInv, DoneOK, RemoveElse, graph.stat[Current.at].elseStatement = NULL
  PROVE  DoneOK'
<1> DEFINE s == Current.at
           t == graph.stat[s].thenStatement
<1>1. /\ pending # << >> /\ Current.op = "visit" /\ s # NULL /\ cond[s] = "true"
      /\ graph.stat[s].statementType = "CF_IF"
      /\ pending' = Visits(Pop(pending), s, Current.fun, t)
      /\ UNCHANGED <<graph, cond, freed, promised>>
  BY DEF RemoveElse, Visiting, Removing, Visits
<1>2. ArmsFit(graph.stat[s]) /\ t \in PointersIn(graph) BY <1>1, VisitsFrom
<1>3. graph.stat[s].elseStatement = NULL /\ graph.stat[s].bodyStatement = NULL
  BY <1>1, <1>2 DEF ArmsFit
<1>4. Clean(graph, cond, s) BY <1>1, <1>3 DEF Clean
<1> QED BY <1>1, <1>2, <1>3, <1>4, OneArmDone

(* The calls that a removal leaves pending look at what is kept. *)
LEMMA CallsBelow ==
  ASSUME NEW S, NEW cs \in Seq(S), NEW c \in S, NEW g, NEW K,
         \A i \in 1 .. Len(cs \o <<c>>) : CallOK(g, K, (cs \o <<c>>)[i])
  PROVE  \A i \in 1 .. Len(cs) : CallOK(g, K, cs[i])
<1> DEFINE q == cs \o <<c>>
           n == Len(cs)
<1>1. Len(q) = n + 1 /\ n \in Nat /\ \A i \in 1 .. n : q[i] = cs[i] BY Pushes
<1>2. \A i \in 1 .. n : i \in 1 .. n + 1 BY <1>1
<1>3. \A i \in 1 .. Len(q) : CallOK(g, K, q[i]) OBVIOUS
<1> HIDE DEF q, n
<1> QED BY <1>1, <1>2, <1>3 DEF n

LEMMA FollowBelow ==
  ASSUME NEW g, NEW cs \in Seq(PendingCalls(g)), NEW op \in {"function", "visit", "follow"},
         NEW s \in PointersIn(g), NEW f \in 1 .. Len(g.funcs), NEW h, NEW K,
         \A i \in 1 .. Len(cs \o Do(op, s, f)) : CallOK(h, K, (cs \o Do(op, s, f))[i])
  PROVE  \A i \in 1 .. Len(cs) : CallOK(h, K, cs[i])
<1> DEFINE c == [op |-> op, at |-> s, fun |-> f]
<1>1. c \in PendingCalls(g) BY DEF PendingCalls
<1>2. Do(op, s, f) = <<c>> BY DEF Do
<1> HIDE DEF c
<1>3. \A i \in 1 .. Len(cs \o <<c>>) : CallOK(h, K, (cs \o <<c>>)[i]) BY <1>2
<1> QED BY <1>1, <1>3, CallsBelow

(* What StillDue asks of the calls that a change leaves pending.           *)
Carried(g, h, L, D, cs) ==
  /\ EdgesLeadOn(g) /\ EdgesLeadOn(h) /\ Linked(h, L) /\ StillReaches(g, h, L, D)
  /\ Len(h.funcs) = Len(g.funcs)
  /\ \A k \in 1 .. Len(g.funcs) : h.funcs[k].rootStatement = g.funcs[k].rootStatement
  /\ cs \in Seq(PendingCalls(g)) /\ \A i \in 1 .. Len(cs) : CallOK(h, L, cs[i])

LEMMA CarriedIsDue ==
  ASSUME NEW g, NEW h, NEW L, NEW D, NEW cs, Carried(g, h, L, D, cs)
  PROVE  \A x : x \notin D /\ Due(g, cs, x) => Due(h, cs, x)
BY StillDue DEF Carried

(* A branch is cut off: what was still to be visited is, but for it.       *)
LEMMA RearmedDone ==
  ASSUME NEW g, EdgesLeadOn(g), NEW h, EdgesLeadOn(h), NEW K, K \subseteq Statements(g),
         NEW D, NEW L, L = K \ D, Linked(h, L), NEW s \in L, s # NULL,
         NEW arm, Rearms(g, h, s, arm), D = Reach(g)[g.stat[s][arm]],
         NEW c, NEW b, b[s] = "true", \A t \in K : t # s => b[t] = c[t],
         NEW cs \in Seq(PendingCalls(g)), NEW f \in 1 .. Len(g.funcs),
         NEW t \in PointersIn(h), t = h.stat[s].thenStatement,
         h.stat[s].elseStatement = NULL, h.stat[s].bodyStatement = NULL,
         \A i \in 1 .. Len(cs) : CallOK(h, L, cs[i]),
         \A x \in K : Branches(g, x) => Clean(g, c, x) \/ Due(g, cs, x) \/ x \in Reach(g)[s]
  PROVE  AllDone(h, b, L, Visits(cs, s, f, t))
<1>1. SameSize(g, h) /\ h.funcs = g.funcs BY DEF Rearms, TakesElse, Relinks
<1>2. /\ Statements(h) = Statements(g) /\ PendingCalls(h) = PendingCalls(g)
      /\ s \in Statements(g) /\ s \in PointersIn(h)
  BY <1>1 DEF SameSize, PendingCalls, PointersIn
<1>3. StillReaches(g, h, L, D) BY RearmedReaches
<1>4. \A x : x \notin D /\ Due(g, cs, x) => Due(h, cs, x)
  <2>1. /\ Len(h.funcs) = Len(g.funcs)
        /\ \A k \in 1 .. Len(g.funcs) : h.funcs[k].rootStatement = g.funcs[k].rootStatement
    BY <1>1
  <2>2. Carried(g, h, L, D, cs) BY <1>3, <2>1 DEF Carried
  <2> QED BY <2>2, CarriedIsDue
<1>5. Reach(h)[NULL] = {} BY ReachUnfolds
<1>6. \A x : x \in Reach(h)[s] => \/ x = s \/ x \in Reach(h)[t]
                                  \/ x \in Reach(h)[h.stat[s].followingStatement]
  BY <1>2, <1>5, ReachParts
<1>7. cs \in Seq(PendingCalls(h)) /\ f \in 1 .. Len(h.funcs) BY <1>1, <1>2
<1>8. \A x : Due(h, Visits(cs, s, f, t), x) <=>
               \/ Due(h, cs, x) \/ x \in Reach(h)[t]
               \/ x \in Reach(h)[h.stat[s].followingStatement]
  BY <1>2, <1>7, VisitsDue
<1>9. \A y \in Statements(g) : y # s => h.stat[y]["elseStatement"] = g.stat[y]["elseStatement"]
  BY FieldNames DEF Rearms, TakesElse, Relinks
<1>10. ASSUME NEW x \in L, Branches(h, x)
       PROVE  Clean(h, b, x) \/ Due(h, Visits(cs, s, f, t), x)
  <2>1. x \in K /\ x \notin D /\ x \in Statements(g) OBVIOUS
  <2>2. CASE x = s BY <2>2 DEF Clean
  <2>3. CASE x # s
    <3>1. Branches(g, x) BY <1>1, <1>10, <2>1 DEF Branches, SameSize, SameNode
    <3>2. CASE Clean(g, c, x)
      <4>1. b[x] = c[x] /\ h.stat[x].elseStatement = g.stat[x].elseStatement
        BY <1>9, <2>1, <2>3
      <4> QED BY <3>2, <4>1 DEF Clean
    <3>3. CASE Due(g, cs, x) BY <1>4, <1>8, <2>1, <3>3
    <3>4. CASE x \in Reach(g)[s]
      <4>1. x \in Reach(h)[s] BY <1>3, <2>1, <3>4 DEF StillReaches
      <4> QED BY <1>6, <1>8, <2>3, <4>1
    <3> QED BY <2>1, <3>1, <3>2, <3>3, <3>4
  <2> QED BY <2>2, <2>3
<1> QED BY <1>10 DEF AllDone

(* A statement is unlinked that follows another. *)
LEMMA UnlinkedDone ==
  ASSUME NEW g, EdgesLeadOn(g), NEW h, EdgesLeadOn(h), NEW K, Linked(g, K), NEW s \in K,
         NEW f \in 1 .. Len(g.funcs), Unlinks(g, h, s, f), FollowsOrRoot(g, K, s, f),
         NEW D, D = Reach(h)[s], NEW L, L = K \ D, Linked(h, L), ~ IsRootOf(g, s, f),
         NEW p \in L, p # NULL, g.stat[p].followingStatement = s, NEW c,
         NEW cs \in Seq(PendingCalls(g)), \A i \in 1 .. Len(cs) : CallOK(h, L, cs[i]),
         \A x \in K : Branches(g, x) => Clean(g, c, x) \/ Due(g, cs, x) \/ x \in Reach(g)[s]
  PROVE  AllDone(h, c, L, cs \o Do("follow", p, f))
<1>1. SameSize(g, h) BY DEF Unlinks
<1>2. /\ Statements(h) = Statements(g) /\ PendingCalls(h) = PendingCalls(g)
      /\ K \subseteq Statements(g) /\ p \in PointersIn(h)
      /\ Len(h.funcs) = Len(g.funcs)
  BY <1>1 DEF SameSize, PendingCalls, PointersIn, Linked
<1>3. \A k \in 1 .. Len(g.funcs) : h.funcs[k].rootStatement = g.funcs[k].rootStatement
  BY DEF Unlinks
<1>4. StillReaches(g, h, L, D) BY UnlinkedReaches
<1>5. \A x : x \notin D /\ Due(g, cs, x) => Due(h, cs, x) BY <1>2, <1>3, <1>4, StillDue
<1>6. cs \in Seq(PendingCalls(h)) /\ f \in 1 .. Len(h.funcs) BY <1>2
<1>7. \A x : Due(h, cs \o Do("follow", p, f), x) <=>
               \/ Due(h, cs, x)
               \/ p # NULL /\ x \in Reach(h)[h.stat[p].followingStatement]
  BY <1>2, <1>6, FollowIsDue
<1>8. \A y \in Statements(g) : h.stat[y]["elseStatement"] = g.stat[y]["elseStatement"]
  BY FieldNames DEF Unlinks
<1>9. ASSUME NEW x \in L, Branches(h, x)
      PROVE  Clean(h, c, x) \/ Due(h, cs \o Do("follow", p, f), x)
  <2>1. x \in K /\ x \notin D /\ x \in Statements(g) BY <1>2
  <2>2. Branches(g, x) BY <1>1, <1>9, <2>1 DEF Branches, SameSize, SameNode
  <2>3. CASE Clean(g, c, x)
    <3>1. h.stat[x].elseStatement = g.stat[x].elseStatement BY <1>8, <2>1
    <3> QED BY <2>3, <3>1 DEF Clean
  <2>4. CASE Due(g, cs, x) BY <1>5, <1>7, <2>1, <2>4
  <2>5. CASE x \in Reach(g)[s]
    <3>1. x \in Reach(g)[g.stat[p].followingStatement] \ D BY <2>1, <2>5
    <3>2. x \in Reach(h)[h.stat[p].followingStatement] BY <1>4, <3>1 DEF StillReaches
    <3> QED BY <1>7, <3>2
  <2> QED BY <2>1, <2>2, <2>3, <2>4, <2>5
<1> QED BY <1>9 DEF AllDone

(* The hypotheses about the present state. *)
LEMMA NowDone ==
  ASSUME AInv, DoneOK, pending # << >>, Current.op = "visit"
  PROVE  \A x \in Kept : Branches(graph, x) =>
           \/ Clean(graph, cond, x) \/ Due(graph, Pop(pending), x)
           \/ x \in Reach(graph)[Current.at]
<1>1. pending \in Seq(PendingCalls(graph)) BY DEF AInv
<1>2. \A x : Due(graph, pending, x) <=> Due(graph, Pop(pending), x) \/ x \in Ahead(graph, Current)
  BY <1>1, DuePopped DEF Current
<1>3. Ahead(graph, Current) = Reach(graph)[Current.at] BY VisitsFrom
<1> QED BY <1>2, <1>3 DEF DoneOK, AllDone

LEMMA ArmRemovedDone ==
  ASSUME AInv, AInv', KInv, KInv', DoneOK,
         RemoveThen \/ (RemoveElse /\ graph.stat[Current.at].elseStatement # NULL)
  PROVE  AllDone(graph', cond', Kept', pending')
<1> DEFINE g == graph
           h == graph'
           s == Current.at
           f == Current.fun
           K == Kept
           L == Kept'
           b == cond'
           c == cond
           cs == Pop(pending)
           t == h.stat[s].thenStatement
           D(arm) == Reach(g)[g.stat[s][arm]]
<1>1. /\ pending # << >> /\ Current.op = "visit" /\ s # NULL
  BY DEF RemoveThen, RemoveElse, Visiting, Removing
<1>2. PICK arm \in ArmLinks :
        /\ s \in L /\ g.stat[s].statementType = "CF_IF"
        /\ Rearms(g, h, s, arm) /\ ArmIsDead(c, b, s, arm)
        /\ \A y \in K : y # s => b[y] = c[y]
        /\ L = K \ D(arm)
        /\ pending' = Visits(cs, s, f, t)
        /\ h.stat[s].elseStatement = NULL
        /\ EdgesLeadOn(g) /\ EdgesLeadOn(h) /\ Linked(h, L) /\ K \subseteq Statements(g)
  BY ArmRemoved DEF Visits
<1>3. /\ cs \in Seq(PendingCalls(g)) /\ f \in 1 .. Len(g.funcs) /\ s \in Statements(g)
  BY <1>1, VisitsFrom
<1>4. \A x \in K : Branches(g, x) => Clean(g, c, x) \/ Due(g, cs, x) \/ x \in Reach(g)[s]
  BY <1>1, NowDone
<1>5. SameSize(g, h) BY <1>2 DEF Rearms, TakesElse, Relinks
<1>6. /\ Statements(h) = Statements(g) /\ PendingCalls(h) = PendingCalls(g)
      /\ PointersIn(h) = PointersIn(g) /\ s \in PointersIn(g) /\ Len(h.funcs) = Len(g.funcs)
  BY <1>3, <1>5 DEF SameSize, PendingCalls, PointersIn
<1>7. h.stat[s].bodyStatement = NULL /\ t \in PointersIn(h)
  <2>1. \A y \in Statements(h) : ArmsFit(h.stat[y]) BY DEF AInv, Removable
  <2>2. h.stat[s].statementType = "CF_IF" BY <1>2, <1>3, <1>5 DEF SameSize, SameNode
  <2>3. h.stat[s].bodyStatement = NULL BY <1>3, <1>6, <2>1, <2>2 DEF ArmsFit
  <2>4. "thenStatement" \in Edges BY DEF Edges
  <2>5. h.stat[s]["thenStatement"] \in PointersIn(h)
    BY <1>2, <1>3, <1>6, <2>4 DEF EdgesLeadOn, PointersIn
  <2> QED BY <2>3, <2>5
<1>8. \A i \in 1 .. Len(pending') : CallOK(h, L, pending'[i]) BY DEF KInv, PendingOK
<1> DEFINE low == cs \o Do("follow", s, f)
<1>9. Visits(cs, s, f, t) = low \o Do("visit", t, f) BY DEF Visits
<1>10. b[s] = "true" BY <1>2 DEF ArmIsDead
<1> HIDE DEF g, h, s, f, K, L, b, c, cs, t
<1>11. low \in Seq(PendingCalls(g)) BY <1>3, <1>6, FollowIsDue
<1>12. \A i \in 1 .. Len(low) : CallOK(h, L, low[i])
  <2> DEFINE all == low \o Do("visit", t, f)
  <2>1. \A i \in 1 .. Len(all) : CallOK(h, L, all[i]) BY <1>2, <1>8, <1>9
  <2> HIDE DEF low
  <2> QED BY <1>3, <1>6, <1>7, <1>11, <2>1, FollowBelow
<1>13. \A i \in 1 .. Len(cs) : CallOK(h, L, cs[i]) BY <1>3, <1>6, <1>12, FollowBelow
<1>14. t = h.stat[s].thenStatement BY DEF t
<1> HIDE DEF low
<1> DEFINE E == D(arm)
<1>15. E = Reach(g)[g.stat[s][arm]] /\ L = K \ E BY <1>2
<1> HIDE DEF E, D
<1>16. AllDone(h, b, L, Visits(cs, s, f, t))
  <2>1. /\ EdgesLeadOn(g) /\ EdgesLeadOn(h) /\ K \subseteq Statements(g) /\ L = K \ E
        /\ Linked(h, L) /\ s \in L /\ s # NULL /\ Rearms(g, h, s, arm)
        /\ E = Reach(g)[g.stat[s][arm]] /\ b[s] = "true"
        /\ cs \in Seq(PendingCalls(g)) /\ f \in 1 .. Len(g.funcs)
        /\ t \in PointersIn(h) /\ t = h.stat[s].thenStatement
        /\ h.stat[s].elseStatement = NULL /\ h.stat[s].bodyStatement = NULL
    BY <1>1, <1>2, <1>3, <1>7, <1>10, <1>14, <1>15
  <2>2. \A y \in K : y # s => b[y] = c[y] BY <1>2
  <2> QED BY <1>4, <1>13, <2>1, <2>2, RearmedDone
<1> QED BY <1>2, <1>16 DEF h, b, L

LEMMA StatementRemovedDone ==
  ASSUME AInv, AInv', KInv, KInv', DoneOK, RemoveStatement,
         ~ IsRootOf(graph, Current.at, Current.fun)
  PROVE  AllDone(graph', cond', Kept', pending')
<1> DEFINE g == graph
           h == graph'
           s == Current.at
           f == Current.fun
           p == g.stat[s].parentStatement
           K == Kept
           L == Kept'
           c == cond
           cs == Pop(pending)
           D == Reach(h)[s]
<1>1. pending # << >> /\ Current.op = "visit" /\ s # NULL
  BY DEF RemoveStatement, Visiting, Removing
<1>2. /\ s \in K /\ f \in 1 .. Len(g.funcs) /\ cond' = c
      /\ Unlinks(g, h, s, f) /\ FollowsOrRoot(g, K, s, f)
      /\ p = NULL <=> IsRootOf(g, s, f)
      /\ p # NULL => p \in K /\ g.stat[p].followingStatement = s
      /\ L = K \ D /\ pending' = cs \o Do("follow", p, f)
      /\ EdgesLeadOn(g) /\ EdgesLeadOn(h) /\ Linked(g, K) /\ Linked(h, L)
      /\ K \subseteq Statements(g)
  BY StatementRemoved
<1>3. cs \in Seq(PendingCalls(g)) BY <1>1, VisitsFrom
<1>4. \A x \in K : Branches(g, x) => Clean(g, c, x) \/ Due(g, cs, x) \/ x \in Reach(g)[s]
  BY <1>1, NowDone
<1>5. \A i \in 1 .. Len(pending') : CallOK(h, L, pending'[i]) BY DEF KInv, PendingOK
<1>6. p # NULL /\ ~ IsRootOf(g, s, f) /\ p \in K /\ g.stat[p].followingStatement = s
  <2>1. ~ IsRootOf(g, s, f) OBVIOUS
  <2> QED BY <1>2, <2>1
<1>7. p \in L
  <2>1. Placed(g) BY RemovableIsPlaced DEF AInv
  <2>2. D = Reach(h)[s] OBVIOUS
  <2> HIDE DEF g, h, s, f, K, L, D
  <2>3. p \notin D BY <1>2, <2>1, <2>2, UnlinkedUntouched
  <2> QED BY <1>2, <1>6, <2>3
<1>8. p \in PointersIn(g) BY <1>2, <1>6 DEF PointersIn
<1>9. D = Reach(h)[s] /\ p = g.stat[s].parentStatement OBVIOUS
<1> HIDE DEF g, h, s, f, p, K, L, c, cs, D
<1>10. \A i \in 1 .. Len(cs \o Do("follow", p, f)) : CallOK(h, L, (cs \o Do("follow", p, f))[i])
  BY <1>2, <1>5
<1>11. \A i \in 1 .. Len(cs) : CallOK(h, L, cs[i]) BY <1>2, <1>3, <1>8, <1>10, FollowBelow
<1>12. AllDone(h, c, L, cs \o Do("follow", p, f))
  <2>1. /\ EdgesLeadOn(g) /\ EdgesLeadOn(h) /\ Linked(g, K) /\ s \in K
        /\ f \in 1 .. Len(g.funcs) /\ Unlinks(g, h, s, f) /\ FollowsOrRoot(g, K, s, f)
        /\ D = Reach(h)[s] /\ L = K \ D /\ Linked(h, L) /\ ~ IsRootOf(g, s, f)
        /\ p \in L /\ p # NULL /\ g.stat[p].followingStatement = s
        /\ cs \in Seq(PendingCalls(g))
    BY <1>2, <1>3, <1>6, <1>7, <1>9
  <2> QED BY <1>4, <1>11, <2>1, UnlinkedDone
<1> QED BY <1>2, <1>12 DEF h, L, c

-----------------------------------------------------------------------------
(* The removal leaves no dead branch, unless it unlinks a root.            *)

DoneWhile == Watching /\ phase = "remove" /\ NoRootFreed => DoneOK

(* What is freed stays freed. *)
LEMMA RootsStayFreed ==
  ASSUME NEW D, NowFreed(D), promised' = promised, NoRootFreed'
  PROVE  NoRootFreed /\ \A s \in promised.roots : s \notin D
<1>1. \A s : IsFreed(s) <=> HasStat(freed, s) BY DEF IsFreed, HasStat
<1>2. \A s : IsFreed(s)' <=> HasStat(freed', s) BY DEF IsFreed, HasStat
<1>3. \A s : HasStat(freed', s) <=> HasStat(freed, s) \/ s \in D BY DEF NowFreed
<1>4. \A s \in promised.roots : ~ IsFreed(s)' BY DEF NoRootFreed
<1> QED BY <1>1, <1>2, <1>3, <1>4 DEF NoRootFreed

LEMMA StatementKeepsDone ==
  ASSUME AInv, AInv', KInv, KInv', NoRootFreed => DoneOK, NoRootFreed', RemoveStatement
  PROVE  DoneOK'
<1> DEFINE s == Current.at
           f == Current.fun
           D == Reach(graph')[s]
<1>1. promised' = promised BY DEF RemoveStatement
<1>2. /\ NowFreed(D) /\ Unlinks(graph, graph', s, f) /\ f \in 1 .. Len(graph.funcs)
      /\ s \in Kept /\ EdgesLeadOn(graph') /\ Kept \subseteq Statements(graph)
  BY StatementRemoved
<1>3. SameSize(graph, graph') BY <1>2 DEF Unlinks
<1>4. s \in D
  <2>1. s \in Statements(graph') BY <1>2, <1>3 DEF SameSize
  <2> QED BY <1>2, <2>1, ReachHas
<1> HIDE DEF D
<1>5. NoRootFreed /\ \A x \in promised.roots : x \notin D BY <1>1, <1>2, RootsStayFreed
<1>6. DoneOK BY <1>5
<1>7. RootsPromised BY <1>6 DEF DoneOK
<1>8. ~ IsRootOf(graph, s, f)
  <2>1. s \notin promised.roots BY <1>4, <1>5
  <2>2. graph.funcs[f].rootStatement \in promised.roots BY <1>2, <1>7 DEF RootsPromised
  <2> QED BY <2>1, <2>2 DEF IsRootOf
<1>9. AllDone(graph', cond', Kept', pending') BY <1>6, <1>8, StatementRemovedDone
<1>10. RootsPromised'
  <2>1. Len(graph'.funcs) = Len(graph.funcs) BY <1>3 DEF SameSize
  <2>2. \A k \in 1 .. Len(graph.funcs) :
          graph'.funcs[k].rootStatement = graph.funcs[k].rootStatement
    BY <1>2, <1>8 DEF Unlinks
  <2> QED BY <1>1, <1>7, <2>1, <2>2 DEF RootsPromised
<1> QED BY <1>9, <1>10 DEF DoneOK

LEMMA ArmKeepsDone ==
  ASSUME AInv, AInv', KInv, KInv', NoRootFreed => DoneOK, NoRootFreed',
         RemoveThen \/ (RemoveElse /\ graph.stat[Current.at].elseStatement # NULL)
  PROVE  DoneOK'
<1> DEFINE s == Current.at
<1>1. promised' = promised BY DEF RemoveThen, RemoveElse
<1>2. PICK arm \in ArmLinks :
        Rearms(graph, graph', s, arm) /\ NowFreed(Reach(graph)[graph.stat[s][arm]])
  BY ArmRemoved
<1>3. graph'.funcs = graph.funcs BY <1>2 DEF Rearms, TakesElse, Relinks
<1>4. NoRootFreed BY <1>1, <1>2, RootsStayFreed
<1>5. DoneOK BY <1>4
<1>6. AllDone(graph', cond', Kept', pending') BY <1>5, ArmRemovedDone
<1>7. RootsPromised' BY <1>1, <1>3, <1>5 DEF DoneOK, RootsPromised
<1> QED BY <1>6, <1>7 DEF DoneOK

(* When the removal begins, everything is still to be visited. *)
LEMMA RemovalBeginsDone ==
  ASSUME OptInv, FoldConditions, Watching'
  PROVE  DoneOK'
<1> DEFINE g == graph
           K == Statements(g)
           cs == EveryFunction
<1>1. /\ KInv' /\ Kept' = K /\ graph' = g /\ pending' = cs /\ Removable(g, allocated)
  BY RemovalBegins
<1>2. EdgesLeadOn(g) BY <1>1 DEF Removable
<1>3. Linked(graph', Kept') BY <1>1 DEF KInv
<1>4. Linked(g, K)
  <2> DEFINE h == graph'
             L == Kept'
  <2>1. h = g /\ L = K BY <1>1
  <2>2. Linked(h, L) BY <1>3
  <2> HIDE DEF h, L, g, K
  <2> QED BY <2>1, <2>2
<1>5. K = UNION {Reach(g)[g.funcs[f].rootStatement] : f \in 1 .. Len(g.funcs)}
  BY <1>2, <1>4, KeptIsReached
<1>6. /\ Len(cs) = Len(g.funcs)
      /\ \A i \in 1 .. Len(g.funcs) : cs[i].op = "function" /\ cs[i].fun = i
  <2>1. Len(g.funcs) \in Nat
    <3>1. g.funcs \in Seq(FunctionRecords(FuncNames)) BY <1>1 DEF Removable, Graphs
    <3> QED BY <3>1
  <2> QED BY <2>1 DEF EveryFunction
<1>7. \A f \in 1 .. Len(g.funcs) : Ahead(g, cs[f]) = Reach(g)[g.funcs[f].rootStatement]
  BY <1>6 DEF Ahead
<1>8. \A x \in K : Due(g, cs, x)
  <2> SUFFICES ASSUME NEW x \in K PROVE Due(g, cs, x) OBVIOUS
  <2>1. PICK f \in 1 .. Len(g.funcs) : x \in Reach(g)[g.funcs[f].rootStatement] BY <1>5
  <2>2. x \in Ahead(g, cs[f]) /\ f \in 1 .. Len(cs) BY <1>6, <1>7, <2>1
  <2> QED BY <2>2 DEF Due
<1> DEFINE b == cond'
<1> HIDE DEF b
<1>9. AllDone(g, b, K, cs) BY <1>8 DEF AllDone
<1>10. AllDone(graph, cond, Kept, pending)'
  <2>1. graph' = g /\ cond' = b /\ Kept' = K /\ pending' = cs BY <1>1 DEF b
  <2> QED BY <1>9, <2>1
<1>11. RootsPromised'
  <2>1. promised'.roots = {g.funcs[f].rootStatement : f \in 1 .. Len(g.funcs)}
    BY DEF FoldConditions
  <2> QED BY <1>1, <2>1 DEF RootsPromised
<1> QED BY <1>10, <1>11 DEF DoneOK

LEMMA StepKeepsDone ==
  ASSUME OptInv, OptInv', Watching => KInv, Watching' => KInv', DoneWhile,
         [OptNext]_<<vars, optVars>>
  PROVE  DoneWhile'
<1> SUFFICES ASSUME Watching', phase' = "remove", NoRootFreed' PROVE DoneOK' BY DEF DoneWhile
<1>1. KInv' OBVIOUS
<1>2. AInv' BY DEF OptInv
<1>3. ASSUME phase = "parse", promised' = promised PROVE FALSE
  <2>1. promised = << >> BY <1>3 DEF OptInv
  <2> QED BY <1>3, <2>1 DEF Watching
<1>4. CASE Parse BY <1>3, <1>4 DEF Parse, optVars
<1>5. CASE FoldConditions BY <1>5, RemovalBeginsDone
<1>6. CASE SkipOptimiser BY <1>3, <1>6 DEF SkipOptimiser
<1>7. ASSUME phase = "remove", promised' = promised
      PROVE  AInv /\ KInv /\ (NoRootFreed => DoneOK)
  BY <1>7 DEF Watching, OptInv, DoneWhile
<1>8. ASSUME freed' = freed, promised' = promised PROVE NoRootFreed
  BY <1>8 DEF NoRootFreed, IsFreed
<1>9. CASE VisitFunction
  <2>1. AInv /\ DoneOK BY <1>7, <1>8, <1>9 DEF VisitFunction, Removing
  <2> QED BY <1>9, <2>1, VisitFunctionDone
<1>10. CASE RemoveStatement
  <2>1. phase = "remove" /\ promised' = promised
    BY <1>10 DEF RemoveStatement, Visiting, Removing
  <2> QED BY <1>1, <1>2, <1>7, <1>10, <2>1, StatementKeepsDone
<1>11. CASE RemoveThen \/ (RemoveElse /\ graph.stat[Current.at].elseStatement # NULL)
  <2>1. phase = "remove" /\ promised' = promised
    BY <1>11 DEF RemoveThen, RemoveElse, Visiting, Removing
  <2> QED BY <1>1, <1>2, <1>7, <1>11, <2>1, ArmKeepsDone
<1>12. CASE RemoveElse /\ graph.stat[Current.at].elseStatement = NULL
  <2>1. AInv /\ DoneOK BY <1>7, <1>8, <1>12 DEF RemoveElse, Visiting, Removing
  <2> QED BY <1>12, <2>1, NoElseDone
<1>13. CASE VisitBranches
  <2>1. AInv /\ DoneOK BY <1>7, <1>8, <1>13 DEF VisitBranches, Visiting, Removing
  <2> QED BY <1>13, <2>1, VisitBranchesDone
<1>14. CASE VisitBody
  <2>1. AInv /\ DoneOK BY <1>7, <1>8, <1>14 DEF VisitBody, Visiting, Removing
  <2> QED BY <1>14, <2>1, VisitBodyDone
<1>15. CASE VisitOther
  <2>1. AInv /\ DoneOK BY <1>7, <1>8, <1>15 DEF VisitOther, Removing
  <2> QED BY <1>15, <2>1, VisitOtherDone
<1>16. CASE Follow
  <2>1. AInv /\ DoneOK BY <1>7, <1>8, <1>16 DEF Follow, Removing
  <2> QED BY <1>16, <2>1, FollowDone
<1>17. CASE EndOfRemoval BY <1>17 DEF EndOfRemoval
<1>18. CASE CleanAll BY <1>18 DEF CleanAll
<1>19. CASE UNCHANGED <<vars, optVars>>
  <2>1. /\ graph' = graph /\ cond' = cond /\ freed' = freed /\ pending' = pending
        /\ promised' = promised /\ phase' = phase
    BY <1>19 DEF vars, optVars
  <2>2. DoneOK BY <1>7, <1>8, <2>1
  <2>3. RootsPromised' BY <2>1, <2>2 DEF DoneOK, RootsPromised
  <2>4. Kept' = Kept BY <2>1 DEF Kept
  <2>5. AllDone(graph, cond, Kept, pending)' BY <2>1, <2>2, <2>4 DEF DoneOK
  <2> QED BY <2>3, <2>5 DEF DoneOK
<1> QED BY <1>4, <1>5, <1>6, <1>9, <1>10, <1>11, <1>12, <1>13, <1>14, <1>15, <1>16, <1>17, <1>18,
           <1>19 DEF OptNext

(* With no call pending, nothing is left to visit. *)
LEMMA NothingLeft ==
  ASSUME AInv, KInv, DoneOK, pending = << >>
  PROVE  \A s \in Reachable \intersect Conditional :
           cond[s] # "false" /\ (cond[s] = "true" => graph.stat[s].elseStatement = NULL)
<1>1. Kept = Reachable BY KeptIsReachable
<1>2. \A x : ~ Due(graph, pending, x) BY DEF Due
<1>3. \A x \in Kept : Branches(graph, x) => Clean(graph, cond, x) BY <1>2 DEF DoneOK, AllDone
<1> QED BY <1>1, <1>3 DEF Conditional, Branches, Clean

LEMMA FreedStaysFreed ==
  ASSUME AInv, CleanAll, NoRootFreed', promised' = promised
  PROVE  NoRootFreed
<1> DEFINE S == ObjectsOf(Len(graph.stat), allocated)
           q == cf_clean_all(graph)
<1>0. Removable(graph, allocated) BY DEF AInv
<1>1. q \in Seq(S)
  <2>1. graph.funcs \in Seq(FunctionRecords(FuncNames)) BY <1>0 DEF Removable, Graphs
  <2>2. Len(graph.funcs) \in Nat BY <2>1
  <2>3. EdgesLeadOn(graph) /\ TablesThere(graph, allocated) /\ RootsThere(graph, allocated)
    BY <1>0 DEF Removable
  <2>4. \A f \in 1 .. Len(graph.funcs) :
          /\ graph.funcs[f].rootStatement \in {NULL} \union Statements(graph)
          /\ graph.funcs[f].symbolTable # NULL => graph.funcs[f].symbolTable \in 1 .. allocated
    BY <2>3 DEF RootsThere, PointersIn
  <2> QED BY <2>2, <2>3, <2>4, AllIsInTheGraph
<1>2. freed \in Seq(S) /\ freed' = freed \o q BY DEF AInv, CleanAll
<1> HIDE DEF S, q
<1>3. \A i \in DOMAIN freed : i \in DOMAIN freed' /\ freed'[i] = freed[i] BY <1>1, <1>2
<1>4. \A s : IsFreed(s) => IsFreed(s)' BY <1>3 DEF IsFreed
<1> QED BY <1>4 DEF NoRootFreed

LEMMA StepKeepsGone ==
  ASSUME OptInv, OptInv', Watching => KInv, DoneWhile, DeadCodeGone, [OptNext]_<<vars, optVars>>
  PROVE  DeadCodeGone'
<1> DEFINE AllClean == \A s \in Reachable \intersect Conditional :
                         /\ cond[s] # "false"
                         /\ cond[s] = "true" => graph.stat[s].elseStatement = NULL
<1> SUFFICES ASSUME Removed', ~ promised'.elseIf, NoRootFreed' PROVE AllClean'
  BY DEF DeadCodeGone, NoRootFreed
<1>1. ASSUME phase = "parse", promised' = promised PROVE FALSE
  <2>1. promised = << >> BY <1>1 DEF OptInv
  <2> QED BY <1>1, <2>1 DEF Removed
<1>2. ASSUME AllClean, graph' = graph, cond' = cond PROVE AllClean'
  <2>1. Reachable' = Reachable /\ Conditional' = Conditional
    BY <1>2 DEF Reachable, Conditional, Pointers
  <2> QED BY <1>2, <2>1
<1>3. ASSUME Removed, promised' = promised, NoRootFreed PROVE AllClean
  BY <1>3 DEF DeadCodeGone, NoRootFreed
<1>4. ASSUME freed' = freed, promised' = promised PROVE NoRootFreed
  BY <1>4 DEF NoRootFreed, IsFreed
<1> HIDE DEF AllClean
<1>5. CASE Parse BY <1>1, <1>5 DEF Parse, optVars
<1>6. CASE FoldConditions BY <1>6 DEF FoldConditions, Removed
<1>7. CASE SkipOptimiser BY <1>1, <1>7 DEF SkipOptimiser
<1>8. ASSUME phase = "remove", phase' = phase PROVE FALSE BY <1>8 DEF Removed
<1>9. CASE VisitFunction BY <1>8, <1>9 DEF VisitFunction, Removing
<1>10. CASE RemoveStatement BY <1>8, <1>10 DEF RemoveStatement, Visiting, Removing
<1>11. CASE RemoveThen BY <1>8, <1>11 DEF RemoveThen, Visiting, Removing
<1>12. CASE RemoveElse BY <1>8, <1>12 DEF RemoveElse, Visiting, Removing
<1>13. CASE VisitBranches BY <1>8, <1>13 DEF VisitBranches, Visiting, Removing
<1>14. CASE VisitBody BY <1>8, <1>14 DEF VisitBody, Visiting, Removing
<1>15. CASE VisitOther BY <1>8, <1>15 DEF VisitOther, Removing
<1>16. CASE Follow BY <1>8, <1>16 DEF Follow, Removing
<1>17. CASE EndOfRemoval
  <2>1. /\ phase = "remove" /\ pending = << >> /\ graph' = graph /\ cond' = cond
        /\ freed' = freed /\ promised' = promised
    BY <1>17 DEF EndOfRemoval, vars
  <2>2. Watching /\ NoRootFreed BY <1>4, <2>1 DEF Watching, Removed
  <2>3. AInv /\ KInv /\ DoneOK BY <2>1, <2>2 DEF OptInv, DoneWhile
  <2>4. AllClean BY <2>1, <2>3, NothingLeft DEF AllClean
  <2> QED BY <1>2, <2>1, <2>4
<1>18. CASE CleanAll
  <2>1. phase = "clean" /\ graph' = graph /\ cond' = cond /\ promised' = promised
    BY <1>18 DEF CleanAll, vars
  <2>2. Removed BY <2>1 DEF Removed
  <2>3. AInv BY <2>1 DEF OptInv
  <2>4. NoRootFreed BY <1>18, <2>1, <2>3, FreedStaysFreed
  <2> QED BY <1>2, <1>3, <2>1, <2>2, <2>4
<1>19. CASE UNCHANGED <<vars, optVars>>
  <2>1. /\ graph' = graph /\ cond' = cond /\ freed' = freed /\ promised' = promised
        /\ phase' = phase
    BY <1>19 DEF vars, optVars
  <2>2. Removed /\ NoRootFreed BY <1>4, <2>1 DEF Removed
  <2> QED BY <1>2, <1>3, <2>1, <2>2
<1> QED BY <1>5, <1>6, <1>7, <1>9, <1>10, <1>11, <1>12, <1>13, <1>14, <1>15, <1>16, <1>17, <1>18,
           <1>19 DEF OptNext

(* In a program without a dead `else if' and of which no function loses    *)
(* its first statement, remove_function_dead_code leaves no condition that *)
(* is always false, and no else of one that is always true.                *)
THEOREM NoDeadCodeIsLeft == OptSpec => []DeadCodeGone
<1> DEFINE Inv == OptInv /\ (Watching => KInv) /\ DoneWhile /\ DeadCodeGone
<1>1. OptInit => Inv
  <2>1. OptInit => OptInv BY OptInitHolds
  <2>2. OptInit => ~ Watching /\ ~ Removed BY DEF OptInit, Watching, Removed
  <2> QED BY <2>1, <2>2 DEF DoneWhile, DeadCodeGone
<1>2. Inv /\ [OptNext]_<<vars, optVars>> => Inv'
  BY OptNextHolds, StepKeepsKept, StepKeepsDone, StepKeepsGone
<1>3. Inv => DeadCodeGone OBVIOUS
<1> QED BY <1>1, <1>2, <1>3, PTL DEF OptSpec
================================================================================
