----------------------- MODULE PrecedenceParser_proofs ------------------------
(***************************************************************************)
(* The stack of the precedence parser stays sound, for any calls, any      *)
(* source and whatever the type inference answers.                         *)
(***************************************************************************)
EXTENDS PrecedenceParser, FiniteSetTheorems, WellFoundedInduction, TLAPS

IsSeq(s) == \E S : s \in Seq(S)

PushedTypes ==
  Literals \cup Operators \cup SidesOps \cup {"(", ")", ",", "SYMB_ID", "SYMB_FUNCTION"}

Functions(s) == {i \in DOMAIN s : s[i].type = "SYMB_FUNCTION"}

Terminal(s, i) == i \in 1 .. Len(s) /\ IsTerminal(s[i])
Begin(s, i) == i \in 1 .. Len(s) /\ IsBegin(s[i])

\* What is on the stack between two turns of the loop: the end marker and nothing like it
\* above, ...
Bottom(s) ==
  /\ IsSeq(s) /\ Len(s) >= 1
  /\ s[1].type = "END"
  /\ \A i \in 2 .. Len(s) : s[i].type \in PushedTypes \cup {"NT", "BEGIN"}

\* ... a start of a handle below every other terminal, ...
Handles(s) == \A i \in 2 .. Len(s) : IsTerminal(s[i]) => \E j \in 2 .. i - 1 : IsBegin(s[j])

\* ... right above a terminal and below one, ...
Begins(s) == \A j \in 1 .. Len(s) : IsBegin(s[j]) =>
               Terminal(s, j - 1) /\ \E i \in j + 1 .. Len(s) : IsTerminal(s[i])

\* ... and no two trees next to each other.
Apart(s) == \A i \in 2 .. Len(s) : s[i].type = "NT" => s[i - 1].type # "NT"

Shape(s) == Bottom(s) /\ Handles(s) /\ Begins(s) /\ Apart(s)

-----------------------------------------------------------------------------
(* The places of the topmost terminal and of the start of the topmost      *)
(* handle.                                                                 *)

LEMMA LeastOne ==
  ASSUME NEW T \in SUBSET Nat, T # {}
  PROVE  \E x \in T : \A y \in T : x <= y
<1>1. PICK x \in T : \A y \in T : ~ (<<y, x>> \in OpToRel(<, Nat))
  BY NatLessThanWellFounded, WFMin
<1>2. \A y \in T : ~ (y < x) BY <1>1 DEF OpToRel
<1> QED BY <1>2

LEMMA LastOne ==
  ASSUME NEW n \in Nat, NEW I \in SUBSET (1 .. n), I # {}
  PROVE  Max(I) \in I /\ \A i \in I : i <= Max(I)
<1> DEFINE Below == {k \in 0 .. n : n - k \in I}
<1>1. PICK k \in Below : \A l \in Below : k <= l
  <2>1. PICK i \in I : TRUE OBVIOUS
  <2>2. n - i \in 0 .. n /\ n - (n - i) = i OBVIOUS
  <2>3. n - i \in Below BY <2>2
  <2>4. Below \in SUBSET Nat /\ Below # {}
    <3>1. Below \in SUBSET Nat OBVIOUS
    <3> QED BY <2>3, <3>1
  <2> HIDE DEF Below
  <2> QED BY <2>4, LeastOne
<1>2. n - k \in I /\ \A i \in I : i <= n - k
  <2>1. n - k \in I /\ k \in 0 .. n OBVIOUS
  <2>2. ASSUME NEW i \in I PROVE i <= n - k
    <3>1. n - i \in 0 .. n /\ n - (n - i) = i OBVIOUS
    <3>2. k <= n - i BY <1>1, <3>1
    <3> QED BY <2>1, <3>2
  <2> QED BY <2>1, <2>2
<1>3. \E m \in I : \A i \in I : m >= i BY <1>2
<1> QED BY <1>3 DEF Max

LEMMA TopIsLast ==
  ASSUME IsSeq(stack), NEW t, t = precedence_stack_top
  PROVE  \/ t = 0 /\ \A i \in 1 .. Len(stack) : ~IsTerminal(stack[i])
         \/ Terminal(stack, t) /\ \A i \in t + 1 .. Len(stack) : ~IsTerminal(stack[i])
<1> DEFINE I == {i \in 1 .. Len(stack) : IsTerminal(stack[i])}
<1>1. Len(stack) \in Nat BY DEF IsSeq
<1>2. t = IF I # {} THEN Max(I) ELSE 0 BY DEF precedence_stack_top, SelectLastInSeq
<1>3. CASE I = {} BY <1>2, <1>3
<1>4. CASE I # {}
  <2>1. I \in SUBSET (1 .. Len(stack)) OBVIOUS
  <2> HIDE DEF I
  <2>2. Max(I) \in I /\ \A i \in I : i <= Max(I) BY <1>1, <1>4, <2>1, LastOne
  <2>3. t \in I /\ \A i \in I : i <= t BY <1>2, <1>4, <2>2
  <2>4. t \in 1 .. Len(stack) /\ IsTerminal(stack[t]) BY <2>3 DEF I
  <2>5. ASSUME NEW i \in t + 1 .. Len(stack), IsTerminal(stack[i]) PROVE FALSE
    <3>1. i \in I /\ ~(i <= t) BY <1>1, <2>4, <2>5 DEF I
    <3> QED BY <2>3, <3>1
  <2> QED BY <2>4, <2>5 DEF Terminal
<1> QED BY <1>3, <1>4

LEMMA StartIsLast ==
  ASSUME IsSeq(stack), NEW t, t = precedence_stack_reduce_start
  PROVE  \/ t = 0 /\ \A i \in 1 .. Len(stack) : ~IsBegin(stack[i])
         \/ Begin(stack, t) /\ \A i \in t + 1 .. Len(stack) : ~IsBegin(stack[i])
<1> DEFINE I == {i \in 1 .. Len(stack) : IsBegin(stack[i])}
<1>1. Len(stack) \in Nat BY DEF IsSeq
<1>2. t = IF I # {} THEN Max(I) ELSE 0 BY DEF precedence_stack_reduce_start, SelectLastInSeq
<1>3. CASE I = {} BY <1>2, <1>3
<1>4. CASE I # {}
  <2>1. I \in SUBSET (1 .. Len(stack)) OBVIOUS
  <2> HIDE DEF I
  <2>2. Max(I) \in I /\ \A i \in I : i <= Max(I) BY <1>1, <1>4, <2>1, LastOne
  <2>3. t \in I /\ \A i \in I : i <= t BY <1>2, <1>4, <2>2
  <2>4. t \in 1 .. Len(stack) /\ IsBegin(stack[t]) BY <2>3 DEF I
  <2>5. ASSUME NEW i \in t + 1 .. Len(stack), IsBegin(stack[i]) PROVE FALSE
    <3>1. i \in I /\ ~(i <= t) BY <1>1, <2>4, <2>5 DEF I
    <3> QED BY <2>3, <3>1
  <2> QED BY <2>4, <2>5 DEF Begin
<1> QED BY <1>3, <1>4

-----------------------------------------------------------------------------
(* What the steps make of the stack.                                       *)

LEMMA SeqDomain ==
  ASSUME NEW s, IsSeq(s)
  PROVE  DOMAIN s = 1 .. Len(s) /\ Len(s) \in Nat
BY DEF IsSeq

AllAfter(s, t) == SubSeq(s, t + 1, Len(s))

LEMMA TailFrom ==
  ASSUME NEW s, IsSeq(s), NEW t \in 1 .. Len(s), NEW h, h = AllAfter(s, t)
  PROVE  /\ IsSeq(h) /\ Len(h) = Len(s) - t
         /\ \A i \in 1 .. Len(s) - t : h[i] = s[t + i]
<1>1. PICK S : s \in Seq(S) BY DEF IsSeq
<1>2. Len(s) \in Nat BY <1>1
<1> DEFINE b == SubSeq(s, t + 1, Len(s))
<1>3. b \in Seq(S) /\ Len(b) = Len(s) - t /\ \A i \in 1 .. Len(s) - t : b[i] = s[t + i] BY <1>1, <1>2
<1>4. h = b BY DEF AllAfter
<1> HIDE DEF b
<1> QED BY <1>3, <1>4 DEF IsSeq

LEMMA PushedAt ==
  ASSUME NEW s, IsSeq(s), NEW x
  PROVE  /\ IsSeq(Append(s, x)) /\ Len(Append(s, x)) = Len(s) + 1
         /\ Append(s, x)[Len(s) + 1] = x
         /\ \A i \in 1 .. Len(s) : Append(s, x)[i] = s[i]
<1>1. PICK S : s \in Seq(S) BY DEF IsSeq
<1>2. s \in Seq(S \cup {x}) BY <1>1
<1>3. Append(s, x) \in Seq(S \cup {x}) BY <1>2
<1> QED BY <1>2, <1>3 DEF IsSeq

LEMMA InsertIs ==
  ASSUME NEW s, NEW i, NEW j, j = i - 1, NEW x
  PROVE  InsertAt(s, i, x) = (SubSeq(s, 1, j) \o <<x>>) \o SubSeq(s, i, Len(s))
BY DEF InsertAt

LEMMA JoinedAt ==
  ASSUME NEW S, NEW a \in Seq(S), NEW b \in Seq(S)
  PROVE  /\ a \o b \in Seq(S) /\ Len(a \o b) = Len(a) + Len(b)
         /\ \A i \in 1 .. Len(a) : (a \o b)[i] = a[i]
         /\ \A i \in Len(a) + 1 .. Len(a) + Len(b) : (a \o b)[i] = b[i - Len(a)]
OBVIOUS

LEMMA InsertedAt ==
  ASSUME NEW s, IsSeq(s), NEW t \in 1 .. Len(s), NEW x, NEW r, r = InsertAt(s, t + 1, x)
  PROVE  /\ IsSeq(r) /\ Len(r) = Len(s) + 1
         /\ r[t + 1] = x
         /\ \A i \in 1 .. t : r[i] = s[i]
         /\ \A i \in t + 1 .. Len(s) : r[i + 1] = s[i]
<1>1. PICK S : s \in Seq(S) BY DEF IsSeq
<1> DEFINE T == S \cup {x}
           a == SubSeq(s, 1, t)
           b == SubSeq(s, t + 1, Len(s))
<1>2. s \in Seq(T) /\ <<x>> \in Seq(T) /\ Len(s) \in Nat BY <1>1
<1>3. a \in Seq(T) /\ Len(a) = t /\ \A i \in 1 .. t : a[i] = s[i] BY <1>2
<1>4. b \in Seq(T) /\ Len(b) = Len(s) - t /\ \A i \in 1 .. Len(s) - t : b[i] = s[t + i] BY <1>2
<1>5. r = a \o <<x>> \o b
  <2> DEFINE k == t + 1
  <2>1. t = k - 1 BY <1>2
  <2>2. r = InsertAt(s, k, x) OBVIOUS
  <2> HIDE DEF k
  <2>3. InsertAt(s, k, x) = (SubSeq(s, 1, t) \o <<x>>) \o SubSeq(s, k, Len(s)) BY <2>1, InsertIs
  <2> QED BY <2>2, <2>3 DEF k
<1> HIDE DEF a, b, T
<1>6. a \o <<x>> \in Seq(T) /\ Len(a \o <<x>>) = t + 1 /\ (a \o <<x>>)[t + 1] = x
      /\ \A i \in 1 .. t : (a \o <<x>>)[i] = s[i] BY <1>2, <1>3
<1>7. r \in Seq(T) /\ Len(r) = Len(s) + 1
  <2> DEFINE c == a \o <<x>>
  <2>1. c \in Seq(T) /\ Len(c) = t + 1 /\ r = c \o b BY <1>5, <1>6
  <2> HIDE DEF c
  <2>2. r \in Seq(T) /\ Len(r) = Len(c) + Len(b)
    <3>1. c \in Seq(T) /\ b \in Seq(T) BY <1>4, <2>1
    <3>2. c \o b \in Seq(T) /\ Len(c \o b) = Len(c) + Len(b) BY <3>1, JoinedAt
    <3> QED BY <2>1, <3>2
  <2>3. t + 1 + (Len(s) - t) = Len(s) + 1 BY <1>2
  <2> QED BY <1>4, <2>1, <2>2, <2>3
<1>8. \A i \in 1 .. t + 1 : r[i] = (a \o <<x>>)[i] BY <1>2, <1>4, <1>5, <1>6
<1>9. ASSUME NEW i \in t + 1 .. Len(s) PROVE r[i + 1] = s[i]
  <2>1. i + 1 - (t + 1) \in 1 .. Len(s) - t /\ t + (i + 1 - (t + 1)) = i BY <1>2
  <2>2. r[i + 1] = b[i + 1 - (t + 1)] BY <1>2, <1>4, <1>5, <1>6, <2>1
  <2> QED BY <1>4, <2>1, <2>2
<1> QED BY <1>6, <1>7, <1>8, <1>9, <1>2 DEF IsSeq

CutAt(s, t, x) == Append(SubSeq(s, 1, t - 1), x)

LEMMA ReplacedAt ==
  ASSUME NEW s, IsSeq(s), NEW t \in 1 .. Len(s), NEW x, NEW r, r = CutAt(s, t, x)
  PROVE  /\ IsSeq(r) /\ Len(r) = t /\ r[t] = x
         /\ \A i \in 1 .. t - 1 : r[i] = s[i]
<1>1. PICK S : s \in Seq(S) BY DEF IsSeq
<1>2. Len(s) \in Nat BY <1>1
<1> DEFINE a == SubSeq(s, 1, t - 1)
<1>3. a \in Seq(S) /\ Len(a) = t - 1 /\ \A i \in 1 .. t - 1 : a[i] = s[i] BY <1>1, <1>2
<1> HIDE DEF a
<1>4. IsSeq(a) BY <1>3 DEF IsSeq
<1>5. r = Append(a, x) BY DEF a, CutAt
<1>6. Len(a) + 1 = t BY <1>2, <1>3
<1>7. /\ IsSeq(r) /\ Len(r) = Len(a) + 1 /\ r[Len(a) + 1] = x
      /\ \A i \in 1 .. Len(a) : r[i] = a[i]
  <2>1. /\ IsSeq(Append(a, x)) /\ Len(Append(a, x)) = Len(a) + 1 /\ Append(a, x)[Len(a) + 1] = x
        /\ \A i \in 1 .. Len(a) : Append(a, x)[i] = a[i]
    BY <1>4, PushedAt
  <2> QED BY <1>5, <2>1
<1> QED BY <1>3, <1>6, <1>7
-----------------------------------------------------------------------------
(* The steps keep the shape of the stack.                                  *)

LEMMA PushedTypesAreTerminal ==
  /\ \A x : x.type \in PushedTypes => IsTerminal(x) /\ ~IsBegin(x) /\ x.type \notin {"NT", "END"}
  /\ \A x : x.type = "NT" => ~IsTerminal(x) /\ ~IsBegin(x)
  /\ \A x : IsBegin(x) => ~IsTerminal(x) /\ x.type # "NT"
  /\ \A x : x.type = "END" => IsTerminal(x) /\ ~IsBegin(x)
  /\ IsBegin(BEGIN) /\ BEGIN.type = "BEGIN" /\ END.type = "END"
BY DEF PushedTypes, IsTerminal, IsBegin, BEGIN, END, Symbol, Literals, Operators, BinaryOps, Unaries,
       SidesOps, AssignOps

LEMMA PushKeepsShape ==
  ASSUME NEW s, Shape(s), NEW x, x.type \in PushedTypes, NEW t \in 2 .. Len(s), IsTerminal(s[t]),
         NEW r, r = Append(s, x)
  PROVE  Shape(r)
<1>1. /\ IsSeq(r) /\ Len(r) = Len(s) + 1 /\ r[Len(s) + 1] = x
      /\ \A i \in 1 .. Len(s) : r[i] = s[i]
  BY PushedAt DEF Shape, Bottom
<1>2. Len(s) \in Nat BY DEF Shape, Bottom, IsSeq
<1>3. Bottom(r) BY <1>1, <1>2 DEF Shape, Bottom
<1>4. Handles(r)
  <2> SUFFICES ASSUME NEW i \in 2 .. Len(r), IsTerminal(r[i])
               PROVE  \E j \in 2 .. i - 1 : IsBegin(r[j])
    BY DEF Handles
  <2>1. CASE i <= Len(s)
    <3>1. PICK j \in 2 .. i - 1 : IsBegin(s[j]) BY <1>1, <1>2, <2>1 DEF Shape, Handles
    <3> QED BY <1>1, <1>2, <2>1, <3>1
  <2>2. CASE i = Len(s) + 1
    <3>1. PICK j \in 2 .. t - 1 : IsBegin(s[j]) BY DEF Shape, Handles
    <3> QED BY <1>1, <1>2, <2>2, <3>1
  <2> QED BY <1>1, <1>2, <2>1, <2>2
<1>5. Begins(r)
  <2> SUFFICES ASSUME NEW j \in 1 .. Len(r), IsBegin(r[j])
               PROVE  Terminal(r, j - 1) /\ \E i \in j + 1 .. Len(r) : IsTerminal(r[i])
    BY DEF Begins
  <2>1. j \in 1 .. Len(s) BY <1>1, <1>2, PushedTypesAreTerminal
  <2>2. Terminal(s, j - 1) /\ IsTerminal(r[Len(s) + 1])
    BY <1>1, <2>1, PushedTypesAreTerminal DEF Shape, Begins
  <2> QED BY <1>1, <1>2, <2>1, <2>2 DEF Terminal
<1>6. Apart(r)
  <2> SUFFICES ASSUME NEW i \in 2 .. Len(r), r[i].type = "NT" PROVE r[i - 1].type # "NT"
    BY DEF Apart
  <2>1. i # Len(s) + 1 BY <1>1, PushedTypesAreTerminal
  <2>2. i \in 2 .. Len(s) /\ i - 1 \in 1 .. Len(s) BY <1>1, <1>2, <2>1
  <2> QED BY <1>1, <2>2 DEF Shape, Apart
<1> QED BY <1>3, <1>4, <1>5, <1>6 DEF Shape

LEMMA NothingAboveTop ==
  ASSUME NEW s, Shape(s), NEW t \in 1 .. Len(s), \A i \in t + 1 .. Len(s) : ~IsTerminal(s[i])
  PROVE  \A i \in t + 1 .. Len(s) : s[i].type = "NT" /\ i = t + 1
<1>1. Len(s) \in Nat BY DEF Shape, Bottom, IsSeq
<1>2. ASSUME NEW i \in t + 1 .. Len(s) PROVE s[i].type = "NT"
  <2>1. ~IsBegin(s[i])
    <3>1. ASSUME NEW k \in i + 1 .. Len(s) PROVE ~IsTerminal(s[k]) BY <1>1, <1>2
    <3> QED BY <1>1, <1>2, <3>1 DEF Shape, Begins
  <2>2. s[i].type \in PushedTypes \cup {"NT", "BEGIN"} BY <1>1, <1>2 DEF Shape, Bottom
  <2> QED BY <1>2, <2>1, <2>2, PushedTypesAreTerminal DEF IsBegin
<1>3. ASSUME NEW i \in t + 1 .. Len(s) PROVE i = t + 1
  <2>1. SUFFICES ASSUME i # t + 1 PROVE FALSE OBVIOUS
  <2>2. i \in 2 .. Len(s) /\ i - 1 \in t + 1 .. Len(s) BY <1>1, <1>3, <2>1
  <2>3. s[i].type = "NT" /\ s[i - 1].type = "NT" BY <1>2, <2>2
  <2> QED BY <2>2, <2>3 DEF Shape, Apart
<1> QED BY <1>2, <1>3

LEMMA ShiftKeepsShape ==
  ASSUME NEW s, Shape(s), NEW x, x.type \in PushedTypes, NEW t \in 1 .. Len(s), IsTerminal(s[t]),
         \A i \in t + 1 .. Len(s) : ~IsTerminal(s[i]),
         NEW r, r = Append(InsertAt(s, t + 1, BEGIN), x)
  PROVE  /\ Shape(r) /\ Len(r) = Len(s) + 2 /\ r[Len(r)] = x
         /\ \A i \in 1 .. t : r[i] = s[i]
         /\ \A i \in t + 1 .. Len(r) - 1 : ~IsTerminal(r[i])
<1> DEFINE q == InsertAt(s, t + 1, BEGIN)
           n == Len(s)
<1>1. n \in Nat /\ t \in 1 .. n BY DEF Shape, Bottom, IsSeq
<1>2. /\ IsSeq(q) /\ Len(q) = n + 1 /\ q[t + 1] = BEGIN
      /\ \A i \in 1 .. t : q[i] = s[i]
      /\ \A i \in t + 1 .. n : q[i + 1] = s[i]
  BY InsertedAt DEF Shape, Bottom
<1>3. r = Append(q, x) OBVIOUS
<1> HIDE DEF q
<1>4. /\ IsSeq(r) /\ Len(r) = Len(q) + 1 /\ r[Len(q) + 1] = x
      /\ \A i \in 1 .. Len(q) : r[i] = q[i]
  <2>1. /\ IsSeq(Append(q, x)) /\ Len(Append(q, x)) = Len(q) + 1 /\ Append(q, x)[Len(q) + 1] = x
        /\ \A i \in 1 .. Len(q) : Append(q, x)[i] = q[i]
    <3>1. IsSeq(q) BY <1>2
    <3> QED BY <3>1, PushedAt
  <2> QED BY <1>3, <2>1
<1> HIDE DEF n
<1>5. \A i \in t + 1 .. n : s[i].type = "NT" /\ i = t + 1 BY NothingAboveTop DEF n
<1>6. /\ Len(r) = n + 2 /\ r[n + 2] = x /\ r[t + 1] = BEGIN
      /\ \A i \in 1 .. t : r[i] = s[i]
  BY <1>1, <1>2, <1>4
<1>7. ASSUME NEW i \in t + 2 .. n + 1 PROVE r[i].type = "NT" /\ i = t + 2
  <2>1. i - 1 \in t + 1 .. n /\ i - 1 + 1 = i /\ i \in 1 .. Len(q) BY <1>1, <1>2, <1>7
  <2>2. q[i] = s[i - 1] BY <1>2, <2>1
  <2>3. r[i] = s[i - 1] BY <1>4, <2>1, <2>2
  <2>4. s[i - 1].type = "NT" /\ i - 1 = t + 1 BY <1>5, <2>1
  <2>5. i = t + 2 BY <1>1, <1>7, <2>4
  <2> QED BY <2>3, <2>4, <2>5
<1>8. \A i \in 1 .. n + 2 : i \in 1 .. t \/ i = t + 1 \/ i \in t + 2 .. n + 1 \/ i = n + 2 BY <1>1
<1>9. \A i \in 1 .. n : s[i] = s[i] /\ (i \in 2 .. n => s[i].type \in PushedTypes \cup {"NT", "BEGIN"})
  BY DEF Shape, Bottom, n
<1>10. Bottom(r)
  <2>1. Len(r) >= 1 /\ r[1].type = "END" BY <1>1, <1>6 DEF Shape, Bottom
  <2>2. ASSUME NEW i \in 2 .. Len(r) PROVE r[i].type \in PushedTypes \cup {"NT", "BEGIN"}
    BY <1>1, <1>6, <1>7, <1>8, <1>9, <2>2, PushedTypesAreTerminal
  <2> QED BY <1>4, <2>1, <2>2 DEF Bottom
<1>11. Handles(r)
  <2> SUFFICES ASSUME NEW i \in 2 .. Len(r), IsTerminal(r[i])
               PROVE  \E j \in 2 .. i - 1 : IsBegin(r[j])
    BY DEF Handles
  <2>1. CASE i \in 1 .. t
    <3>1. i \in 2 .. Len(s) /\ IsTerminal(s[i]) BY <1>1, <1>6, <2>1 DEF n
    <3>2. PICK j \in 2 .. i - 1 : IsBegin(s[j]) BY <3>1 DEF Shape, Handles
    <3> QED BY <1>1, <1>6, <2>1, <3>2
  <2>2. CASE i = n + 2
    <3>1. t + 1 \in 2 .. i - 1 /\ IsBegin(r[t + 1]) BY <1>1, <1>6, <2>2, PushedTypesAreTerminal
    <3> QED BY <3>1
  <2> QED BY <1>6, <1>7, <1>8, <2>1, <2>2, PushedTypesAreTerminal
<1>12. Begins(r)
  <2> SUFFICES ASSUME NEW j \in 1 .. Len(r), IsBegin(r[j])
               PROVE  Terminal(r, j - 1) /\ \E i \in j + 1 .. Len(r) : IsTerminal(r[i])
    BY DEF Begins
  <2>1. IsTerminal(r[n + 2]) BY <1>6, PushedTypesAreTerminal
  <2>2. CASE j \in 1 .. t
    <3>1. Terminal(s, j - 1) BY <1>1, <1>6, <2>2 DEF Shape, Begins, n
    <3>2. j - 1 \in 1 .. t BY <1>1, <2>2, <3>1 DEF Terminal
    <3> QED BY <1>1, <1>6, <2>1, <2>2, <3>1, <3>2 DEF Terminal
  <2>3. CASE j = t + 1
    <3>1. j - 1 = t /\ n + 2 \in j + 1 .. Len(r) /\ t \in 1 .. Len(r) BY <1>1, <1>6, <2>3
    <3> QED BY <1>1, <1>6, <2>1, <3>1 DEF Terminal
  <2> QED BY <1>6, <1>7, <1>8, <2>2, <2>3, PushedTypesAreTerminal
<1>13. Apart(r)
  <2> SUFFICES ASSUME NEW i \in 2 .. Len(r), r[i].type = "NT" PROVE r[i - 1].type # "NT"
    BY DEF Apart
  <2>1. CASE i \in 1 .. t
    <3>1. i \in 2 .. Len(s) /\ i - 1 \in 1 .. t BY <1>1, <1>6, <2>1 DEF n
    <3> QED BY <1>6, <2>1, <3>1 DEF Shape, Apart
  <2>2. CASE i \in t + 2 .. n + 1
    <3>1. i - 1 = t + 1 BY <1>1, <1>7, <2>2
    <3> QED BY <1>6, <3>1, PushedTypesAreTerminal
  <2> QED BY <1>6, <1>8, <2>1, <2>2, PushedTypesAreTerminal
<1>14. \A i \in t + 1 .. Len(r) - 1 : ~IsTerminal(r[i])
  <2>1. \A i \in t + 1 .. n + 1 : i = t + 1 \/ i \in t + 2 .. n + 1 BY <1>1
  <2> QED BY <1>1, <1>6, <1>7, <2>1, PushedTypesAreTerminal
<1> QED BY <1>6, <1>10, <1>11, <1>12, <1>13, <1>14 DEF Shape, n

LEMMA ReduceKeepsShape ==
  ASSUME NEW s, Shape(s), NEW t, Begin(s, t), NEW x, x.type = "NT",
         NEW r, r = CutAt(s, t, x)
  PROVE  Shape(r) /\ Len(r) = t /\ r[t] = x /\ t >= 2 /\ \A i \in 1 .. t - 1 : r[i] = s[i]
<1>1. Len(s) \in Nat /\ t \in 1 .. Len(s) BY DEF Shape, Bottom, IsSeq, Begin
<1>2. IsSeq(r) /\ Len(r) = t /\ r[t] = x /\ \A i \in 1 .. t - 1 : r[i] = s[i]
  <2>1. IsSeq(s) BY DEF Shape, Bottom
  <2>2. t \in 1 .. Len(s) BY <1>1
  <2>3. r = CutAt(s, t, x) OBVIOUS
  <2> QED BY <2>1, <2>2, <2>3, ReplacedAt
<1>3. IsBegin(s[t]) /\ Terminal(s, t - 1) BY <1>1 DEF Begin, Shape, Begins
<1>4. t >= 2 /\ t - 1 \in 1 .. Len(s) BY <1>1, <1>3 DEF Terminal
<1>5. Bottom(r) BY <1>1, <1>2, <1>4 DEF Shape, Bottom
<1>6. Handles(r)
  <2> SUFFICES ASSUME NEW i \in 2 .. Len(r), IsTerminal(r[i])
               PROVE  \E j \in 2 .. i - 1 : IsBegin(r[j])
    BY DEF Handles
  <2>1. i \in 2 .. t - 1 /\ i \in 2 .. Len(s) /\ IsTerminal(s[i])
    BY <1>1, <1>2, PushedTypesAreTerminal
  <2>2. PICK j \in 2 .. i - 1 : IsBegin(s[j]) BY <2>1 DEF Shape, Handles
  <2> QED BY <1>1, <1>2, <2>1, <2>2
<1>7. Begins(r)
  <2> SUFFICES ASSUME NEW j \in 1 .. Len(r), IsBegin(r[j])
               PROVE  Terminal(r, j - 1) /\ \E i \in j + 1 .. Len(r) : IsTerminal(r[i])
    BY DEF Begins
  <2>1. j \in 1 .. t - 1 /\ IsBegin(s[j]) BY <1>1, <1>2, PushedTypesAreTerminal
  <2>2. Terminal(s, j - 1) BY <1>1, <2>1 DEF Shape, Begins
  <2>3. j # t - 1 BY <1>3, <2>1, PushedTypesAreTerminal DEF Terminal
  <2>4. t - 1 \in j + 1 .. Len(r) /\ IsTerminal(r[t - 1])
    BY <1>1, <1>2, <1>3, <1>4, <2>1, <2>3 DEF Terminal
  <2>5. Terminal(r, j - 1) BY <1>1, <1>2, <2>1, <2>2 DEF Terminal
  <2> QED BY <2>4, <2>5
<1>8. Apart(r)
  <2> SUFFICES ASSUME NEW i \in 2 .. Len(r), r[i].type = "NT" PROVE r[i - 1].type # "NT"
    BY DEF Apart
  <2>1. CASE i = t BY <1>2, <1>3, <1>4, <2>1, PushedTypesAreTerminal DEF Terminal
  <2>2. CASE i # t BY <1>1, <1>2, <2>2 DEF Shape, Apart
  <2> QED BY <2>1, <2>2
<1> QED BY <1>2, <1>4, <1>5, <1>6, <1>7, <1>8 DEF Shape
-----------------------------------------------------------------------------
(* How many functions are on the stack.                                    *)

LEMMA FunctionsFinite ==
  ASSUME NEW s, IsSeq(s)
  PROVE  IsFiniteSet(Functions(s)) /\ Functions(s) \in SUBSET (1 .. Len(s)) /\ Cardinality(Functions(s)) \in Nat
<1>1. Len(s) \in Nat /\ DOMAIN s = 1 .. Len(s) BY DEF IsSeq
<1>2. Functions(s) \in SUBSET (1 .. Len(s)) BY <1>1 DEF Functions
<1>3. IsFiniteSet(1 .. Len(s)) BY <1>1, FS_Interval
<1>4. IsFiniteSet(Functions(s)) BY <1>2, <1>3, FS_Subset
<1> QED BY <1>2, <1>4, FS_CardinalityType

LEMMA PushedFunction ==
  ASSUME NEW s, IsSeq(s), NEW r, IsSeq(r), NEW t \in 1 .. Len(s), Len(s) < Len(r),
         \A i \in 1 .. t : r[i] = s[i],
         \A i \in t + 1 .. Len(s) : ~IsTerminal(s[i]),
         \A i \in t + 1 .. Len(r) - 1 : ~IsTerminal(r[i])
  PROVE  Cardinality(Functions(r)) =
           IF r[Len(r)].type = "SYMB_FUNCTION" THEN Cardinality(Functions(s)) + 1
           ELSE Cardinality(Functions(s))
<1>1. /\ Len(s) \in Nat /\ DOMAIN s = 1 .. Len(s)
      /\ Len(r) \in Nat /\ DOMAIN r = 1 .. Len(r) BY DEF IsSeq
<1>2. \A x : x.type = "SYMB_FUNCTION" => IsTerminal(x) BY DEF IsTerminal
<1>3. \A i \in Functions(s) : i \in 1 .. t /\ i # Len(r) BY <1>1, <1>2 DEF Functions
<1>4. \A i \in Functions(r) : i \in 1 .. t \/ i = Len(r) BY <1>1, <1>2 DEF Functions
<1>5. \A i \in 1 .. t : i \in Functions(r) <=> i \in Functions(s) BY <1>1 DEF Functions
<1>6. Len(r) \in Functions(r) <=> r[Len(r)].type = "SYMB_FUNCTION" BY <1>1 DEF Functions
<1>7. CASE r[Len(r)].type = "SYMB_FUNCTION"
  <2>1. Functions(r) = Functions(s) \cup {Len(r)} BY <1>3, <1>4, <1>5, <1>6, <1>7
  <2> QED BY <1>3, <1>7, <2>1, FunctionsFinite, FS_AddElement
<1>8. CASE r[Len(r)].type # "SYMB_FUNCTION"
  <2>1. Functions(r) = Functions(s) BY <1>3, <1>4, <1>5, <1>6, <1>8
  <2> QED BY <1>8, <2>1
<1> QED BY <1>7, <1>8

LEMMA MinIsIn ==
  ASSUME NEW n \in Nat, NEW I \in SUBSET (1 .. n), I # {}
  PROVE  Min(I) \in I
<1>1. I \in SUBSET Nat OBVIOUS
<1>2. \E m \in I : \A i \in I : m <= i BY <1>1, LeastOne
<1> QED BY <1>2 DEF Min

\* What the handle of every rule is made of.
LEMMA RuleSays ==
  ASSUME NEW h, Rule(h) # "none"
  PROVE  \/ Rule(h) = "literal" /\ Len(h) = 1 /\ h[1].type \in Literals
         \/ Rule(h) = "id" /\ [i \in DOMAIN h |-> h[i].type] = <<"SYMB_ID">>
         \/ Rule(h) = "unary" /\ Len(h) = 2 /\ h[1].type \in Unaries /\ h[2].type = "NT"
         \/ /\ Rule(h) = "binary" /\ Len(h) = 3 /\ h[2].type \in BinaryOps
            /\ [i \in DOMAIN h |-> h[i].type] = <<"NT", h[2].type, "NT">>
         \/ Rule(h) = "brackets" /\ [i \in DOMAIN h |-> h[i].type] = <<"(", "NT", ")">>
         \/ Rule(h) = "call" /\ IsCall(h)
         \/ Rule(h) = "sides" /\ IsSides(h)
         \/ Rule(h) = "multi" /\ IsList(h)
BY DEF Rule

LEMMA NoFunctionInList ==
  ASSUME NEW h, IsSeq(h), IsList(h)
  PROVE  \A i \in 1 .. Len(h) : h[i].type # "SYMB_FUNCTION"
<1>1. DOMAIN h = 1 .. Len(h) BY DEF IsSeq
<1> QED BY <1>1 DEF IsList

LEMMA TypesOfThree ==
  ASSUME NEW h, IsSeq(h), NEW a, NEW b, NEW c, [i \in DOMAIN h |-> h[i].type] = <<a, b, c>>
  PROVE  Len(h) = 3 /\ h[1].type = a /\ h[2].type = b /\ h[3].type = c
<1>1. DOMAIN h = 1 .. Len(h) /\ Len(h) \in Nat BY SeqDomain
<1> DEFINE f == [i \in DOMAIN h |-> h[i].type]
<1>2. DOMAIN f = 1 .. 3 /\ f[1] = a /\ f[2] = b /\ f[3] = c OBVIOUS
<1>3. DOMAIN f = 1 .. Len(h) BY <1>1
<1>4. Len(h) = 3 BY <1>1, <1>2, <1>3
<1> QED BY <1>1, <1>2, <1>4

LEMMA FunctionInHandle ==
  ASSUME NEW h, IsSeq(h), Rule(h) # "none"
  PROVE  IF Rule(h) = "call"
         THEN /\ Len(h) >= 1 /\ h[1].type = "SYMB_FUNCTION"
              /\ \A i \in 2 .. Len(h) : h[i].type # "SYMB_FUNCTION"
         ELSE \A i \in 1 .. Len(h) : h[i].type # "SYMB_FUNCTION"
<1>1. DOMAIN h = 1 .. Len(h) /\ Len(h) \in Nat BY SeqDomain
<1>2. CASE Rule(h) = "literal" /\ Len(h) = 1 /\ h[1].type \in Literals
  BY <1>1, <1>2 DEF Literals
<1>3. CASE Rule(h) = "id" /\ [i \in DOMAIN h |-> h[i].type] = <<"SYMB_ID">>
  <2> DEFINE f == [i \in DOMAIN h |-> h[i].type]
  <2>1. DOMAIN f = 1 .. 1 /\ f[1] = "SYMB_ID" BY <1>3
  <2>2. ASSUME NEW i \in 1 .. Len(h) PROVE h[i].type = "SYMB_ID"
    <3>1. i \in DOMAIN f /\ f[i] = h[i].type BY <1>1
    <3>2. i = 1 BY <2>1, <3>1
    <3> QED BY <2>1, <3>1, <3>2
  <2> QED BY <1>3, <2>2
<1>4. CASE Rule(h) = "unary" /\ Len(h) = 2 /\ h[1].type \in Unaries /\ h[2].type = "NT"
  BY <1>1, <1>4 DEF Unaries
<1>5. CASE /\ Rule(h) = "binary" /\ Len(h) = 3 /\ h[2].type \in BinaryOps
           /\ [i \in DOMAIN h |-> h[i].type] = <<"NT", h[2].type, "NT">>
  <2>1. h[1].type = "NT" /\ h[3].type = "NT" BY <1>5, TypesOfThree
  <2> QED BY <1>1, <1>5, <2>1 DEF BinaryOps
<1>6. CASE Rule(h) = "brackets" /\ [i \in DOMAIN h |-> h[i].type] = <<"(", "NT", ")">>
  <2>1. Len(h) = 3 /\ h[1].type = "(" /\ h[2].type = "NT" /\ h[3].type = ")" BY <1>6, TypesOfThree
  <2> QED BY <1>1, <1>6, <2>1
<1>7. CASE Rule(h) = "call" /\ IsCall(h)
  <2>1. Len(h) >= 3 /\ h[1].type = "SYMB_FUNCTION" /\ h[2].type = "(" /\ h[Len(h)].type = ")"
    BY <1>7 DEF IsCall, Last
  <2>2. ASSUME NEW i \in 3 .. Len(h) - 1 PROVE h[i].type # "SYMB_FUNCTION"
    <3> DEFINE l == SubSeq(h, 3, Len(h) - 1)
    <3>1. IsList(l) BY <1>1, <1>7, <2>2 DEF IsCall
    <3>2. PICK S : h \in Seq(S) BY DEF IsSeq
    <3>3. l \in Seq(S) /\ Len(l) = Len(h) - 3 /\ i - 2 \in 1 .. Len(l) /\ l[i - 2] = h[i]
      BY <1>1, <2>1, <2>2, <3>2
    <3> HIDE DEF l
    <3>4. IsSeq(l) BY <3>3 DEF IsSeq
    <3>5. l[i - 2].type # "SYMB_FUNCTION" BY <3>1, <3>3, <3>4, NoFunctionInList
    <3> QED BY <3>3, <3>5
  <2>3. \A i \in 2 .. Len(h) : i = 2 \/ i = Len(h) \/ i \in 3 .. Len(h) - 1
    <3> DEFINE n == Len(h)
    <3>1. n \in Nat /\ n >= 3 BY <1>1, <2>1
    <3> HIDE DEF n
    <3>2. \A i \in 2 .. n : i = 2 \/ i = n \/ i \in 3 .. n - 1 BY <3>1
    <3> QED BY <3>2 DEF n
  <2> QED BY <1>7, <2>1, <2>2, <2>3
<1>8. CASE Rule(h) = "sides" /\ IsSides(h)
  <2> DEFINE m == Min(SidesAt(h))
             l == LeftSide(h)
             r == RightSide(h)
  <2>1. SidesAt(h) # {} /\ IsList(l) /\ IsList(r) BY <1>8, FS_EmptySet DEF IsSides
  <2>2. SidesAt(h) \in SUBSET (1 .. Len(h)) BY <1>1 DEF SidesAt
  <2>3. m \in SidesAt(h) BY <1>1, <2>1, <2>2, MinIsIn
  <2>4. m \in 1 .. Len(h) /\ h[m].type \in SidesOps BY <1>1, <2>3 DEF SidesAt
  <2>5. l = SubSeq(h, 1, m - 1) /\ r = SubSeq(h, m + 1, Len(h)) BY DEF LeftSide, RightSide
  <2> HIDE DEF m, l, r
  <2>6. PICK S : h \in Seq(S) BY DEF IsSeq
  <2>7. l \in Seq(S) /\ Len(l) = m - 1 /\ \A i \in 1 .. m - 1 : l[i] = h[i] BY <1>1, <2>4, <2>5, <2>6
  <2>8. IsSeq(r) /\ Len(r) = Len(h) - m /\ \A i \in 1 .. Len(h) - m : r[i] = h[m + i]
    <3>1. r = AllAfter(h, m) BY <2>5 DEF AllAfter
    <3> QED BY <2>4, <3>1, TailFrom
  <2>9. IsSeq(l) /\ IsSeq(r) BY <2>7, <2>8 DEF IsSeq
  <2>10. \A i \in 1 .. m - 1 : h[i].type # "SYMB_FUNCTION" BY <2>1, <2>7, <2>9, NoFunctionInList
  <2>11. ASSUME NEW i \in m + 1 .. Len(h) PROVE h[i].type # "SYMB_FUNCTION"
    <3>1. i - m \in 1 .. Len(h) - m /\ m + (i - m) = i BY <1>1, <2>4
    <3>2. r[i - m] = h[i] BY <2>8, <3>1
    <3>3. r[i - m].type # "SYMB_FUNCTION" BY <2>1, <2>8, <2>9, <3>1, NoFunctionInList
    <3> QED BY <3>2, <3>3
  <2>12. h[m].type # "SYMB_FUNCTION" BY <2>4 DEF SidesOps, AssignOps
  <2>13. \A i \in 1 .. Len(h) : i = m \/ i \in 1 .. m - 1 \/ i \in m + 1 .. Len(h) BY <1>1, <2>4
  <2> QED BY <1>8, <2>10, <2>11, <2>12, <2>13
<1>9. CASE Rule(h) = "multi" /\ IsList(h) BY <1>9, NoFunctionInList
<1> QED BY RuleSays, <1>2, <1>3, <1>4, <1>5, <1>6, <1>7, <1>8, <1>9

LEMMA ReducedFunction ==
  ASSUME NEW s, IsSeq(s), NEW r, IsSeq(r), NEW t \in 1 .. Len(s), Len(r) = t,
         s[t].type # "SYMB_FUNCTION", r[t].type # "SYMB_FUNCTION",
         \A i \in 1 .. t - 1 : r[i] = s[i],
         NEW h, h = AllAfter(s, t), Rule(h) # "none"
  PROVE  Cardinality(Functions(r)) =
           IF Rule(h) = "call" THEN Cardinality(Functions(s)) - 1 ELSE Cardinality(Functions(s))
<1>1. /\ Len(s) \in Nat /\ DOMAIN s = 1 .. Len(s)
      /\ Len(r) \in Nat /\ DOMAIN r = 1 .. Len(r) BY DEF IsSeq
<1>3. IsSeq(h) /\ Len(h) = Len(s) - t /\ \A i \in 1 .. Len(s) - t : h[i] = s[t + i]
  <2>1. IsSeq(s) /\ t \in 1 .. Len(s) /\ h = AllAfter(s, t) OBVIOUS
  <2> QED BY <2>1, TailFrom, Zenon
<1>4. IsSeq(h) BY <1>3
<1>5. \A i \in Functions(r) : i \in 1 .. t - 1 BY <1>1 DEF Functions
<1>6. \A i \in 1 .. t - 1 : i \in Functions(r) <=> i \in Functions(s) BY <1>1 DEF Functions
<1>7. \A i \in Functions(s) : i \in 1 .. t - 1 \/ i \in t + 1 .. Len(s) BY <1>1 DEF Functions
<1>8. ASSUME NEW i \in t + 1 .. Len(s)
      PROVE  i - t \in 1 .. Len(h) /\ h[i - t] = s[i] /\ (i # t + 1 => i - t \in 2 .. Len(h))
  <2>1. i - t \in 1 .. Len(s) - t /\ t + (i - t) = i /\ (i # t + 1 => i - t >= 2) BY <1>1
  <2>2. h[i - t] = s[t + (i - t)] BY <1>3, <2>1
  <2>3. i - t \in 1 .. Len(h) /\ (i # t + 1 => i - t \in 2 .. Len(h)) BY <1>1, <1>3, <2>1
  <2> QED BY <2>1, <2>2, <2>3
<1>9. CASE Rule(h) = "call"
  <2>1. /\ Len(h) >= 1 /\ h[1].type = "SYMB_FUNCTION"
        /\ \A i \in 2 .. Len(h) : h[i].type # "SYMB_FUNCTION" BY <1>4, <1>9, FunctionInHandle
  <2>2. t + 1 \in 1 .. Len(s) /\ h[1] = s[t + 1]
    <3>1. 1 \in 1 .. Len(s) - t /\ t + 1 \in 1 .. Len(s) BY <1>1, <1>3, <2>1
    <3> QED BY <1>3, <3>1
  <2>3. t + 1 \in Functions(s) /\ t + 1 \notin 1 .. t - 1 BY <1>1, <2>1, <2>2 DEF Functions
  <2>4. \A i \in Functions(s) : i \in 1 .. t - 1 \/ i = t + 1
    <3>1. ASSUME NEW i \in Functions(s), i \in t + 1 .. Len(s), i # t + 1 PROVE FALSE
      <4>1. s[i].type = "SYMB_FUNCTION" BY DEF Functions
      <4> QED BY <1>8, <2>1, <3>1, <4>1
    <3> QED BY <1>7, <3>1
  <2>5. Functions(r) = Functions(s) \ {t + 1} BY <1>5, <1>6, <2>3, <2>4
  <2> QED BY <1>9, <2>3, <2>5, FunctionsFinite, FS_RemoveElement
<1>10. CASE Rule(h) # "call"
  <2>1. \A i \in 1 .. Len(h) : h[i].type # "SYMB_FUNCTION" BY <1>4, <1>10, FunctionInHandle
  <2>2. ASSUME NEW i \in Functions(s), i \in t + 1 .. Len(s) PROVE FALSE
    <3>1. s[i].type = "SYMB_FUNCTION" BY DEF Functions
    <3> QED BY <1>8, <2>1, <2>2, <3>1
  <2>3. Functions(r) = Functions(s) BY <1>5, <1>6, <1>7, <2>2
  <2> QED BY <1>10, <2>3
<1> QED BY <1>9, <1>10
-----------------------------------------------------------------------------
(* The semantic actions put a tree on the stack, define no variable in a   *)
(* table that is not there and report no internal error.                   *)

Fine(a) == a.nt.type = "NT" /\ a.error # "INTERNAL" /\ DOMAIN a.types = DOMAIN types

LEMMA ActionFine ==
  ASSUME NEW nt, nt.type = "NT"
  PROVE  Fine(Action(nt))
BY DEF Fine, Action

LEMMA FailureFine ==
  ASSUME NEW error, error # "INTERNAL", NEW tree
  PROVE  Fine(Failure(error, tree))
BY DEF Fine, Failure, Action, NT, Symbol

LEMMA TreeFine == \A type, tree : NT(type, tree).type = "NT"
BY DEF NT, Symbol

LEMMA ExpectFine ==
  ASSUME NEW condition, NEW error, error # "INTERNAL", NEW nt, nt.type = "NT"
  PROVE  Fine(Expect(condition, error, nt))
BY ActionFine, FailureFine DEF Expect

LEMMA UnaryFine ==
  ASSUME NEW op, NEW operand, operand.type = "NT"
  PROVE  Fine(reduce_unary(op, operand))
BY ActionFine, FailureFine, TreeFine DEF reduce_unary

LEMMA BinaryFine ==
  ASSUME NEW op, NEW left, NEW right
  PROVE  Fine(reduce_binary(op, left, right))
BY FailureFine, ExpectFine, TreeFine DEF reduce_binary

LEMMA IdFine ==
  ASSUME NEW name
  PROVE  Fine(reduce_id(name))
<1>1. Symbol("NT", "UNKNOWN", IF name = "_" THEN <<"BLACK_HOLE">> ELSE <<"ID", "none", name>>, name).type = "NT"
  BY DEF Symbol
<1> QED BY <1>1, ActionFine, FailureFine, TreeFine DEF reduce_id

LEMMA SidesFine ==
  ASSUME NEW op, NEW targets, NEW values
  PROVE  Fine(reduce_sides(op, targets, values))
<1>1. Fine(reduce_assign(targets, values))
  BY ActionFine, FailureFine, TreeFine DEF reduce_assign
<1>2. Fine(reduce_define(targets, values))
  <2> DEFINE resolved == [i \in DOMAIN targets |-> Target(targets[i], "top")]
             tree == <<"DEFINE", <<"LIST", resolved>>, <<"LIST", values>>>>
             new == {targets[i].val : i \in DOMAIN targets} \ {"_"}
             added == {n \in new : types[<<"top", n>>] = "ABSENT"}
             defined == [v \in DOMAIN types |-> IF v[1] = "top" /\ v[2] \in added THEN "UNKNOWN" ELSE types[v]]
             action == [Action(NT("UNKNOWN", tree)) EXCEPT !.types = defined]
  <2>1. Fine(action)
    <3>1. DOMAIN defined = DOMAIN types OBVIOUS
    <3> HIDE DEF defined, tree
    <3>2. action.nt = NT("UNKNOWN", tree) /\ action.error = "NONE" /\ action.types = defined
      BY DEF Action
    <3> QED BY <3>1, <3>2, TreeFine DEF Fine
  <2>2. \/ reduce_define(targets, values) = Failure("garbage", tree)
        \/ reduce_define(targets, values) = Failure("UNDEFINED", tree)
        \/ reduce_define(targets, values) = action
    <3> HIDE DEF resolved, new, added
    <3>1. reduce_define(targets, values) =
            CASE FirstBad(targets, NoName) <= Len(targets) -> Failure("garbage", tree)
              [] FirstBad(targets, NoName) > Len(targets) /\ added = {} -> Failure("UNDEFINED", tree)
              [] OTHER -> action
      BY Zenon DEF reduce_define, resolved, new, added
    <3> DEFINE bad == FirstBad(targets, NoName) <= Len(targets)
               none == FirstBad(targets, NoName) > Len(targets) /\ added = {}
    <3> HIDE DEF tree, action, bad, none
    <3>2. reduce_define(targets, values) =
            CASE bad -> Failure("garbage", tree) [] none -> Failure("UNDEFINED", tree) [] OTHER -> action
      BY <3>1 DEF bad, none
    <3>3. CASE bad /\ ~none BY <3>2, <3>3
    <3>4. CASE ~bad /\ none BY <3>2, <3>4
    <3>5. CASE ~bad /\ ~none BY <3>2, <3>5
    <3>6. CASE bad /\ none BY <3>2, <3>6
    <3> QED BY <3>3, <3>4, <3>5, <3>6
  <2> HIDE DEF action, tree
  <2> QED BY <2>1, <2>2, FailureFine
<1>3. \A target, value : Fine(reduce_modify_assign(op, target, value))
  BY FailureFine, ExpectFine, TreeFine DEF reduce_modify_assign
<1> QED BY <1>1, <1>2, <1>3 DEF reduce_sides

LEMMA CallFine ==
  ASSUME NEW name, NEW args
  PROVE  Fine(reduce_function(name, args))
<1> DEFINE f == functions[name]
           trees == [i \in DOMAIN args |-> args[i].ast]
           tree == <<"CALL", name, trees>>
           declared == [f EXCEPT !.known = TRUE, !.params = [i \in DOMAIN args |-> args[i].data_type]]
           action == [Action(NT("UNKNOWN", tree)) EXCEPT !.functions[name] = declared]
           Fits(i) == /\ i <= Len(f.params)
                      /\ f.params[i] = "UNKNOWN" \/ args[i].data_type \in {"UNKNOWN", f.params[i]}
           checked == Expect(name = "print" \/ \A i \in DOMAIN args : Fits(i), "WRONG_PARAMETER", NT("UNKNOWN", tree))
<1>1. \/ reduce_function(name, args) = Failure("SEMANTIC_GENERAL", tree)
      \/ reduce_function(name, args) = action
      \/ reduce_function(name, args) = checked
  BY DEF reduce_function
<1>2. Fine(action)
  <2> HIDE DEF declared, tree
  <2>1. action.nt = NT("UNKNOWN", tree) /\ action.error = "NONE" /\ action.types = types BY DEF Action
  <2> QED BY <2>1, TreeFine DEF Fine
<1>3. Fine(checked) BY ExpectFine, TreeFine
<1> HIDE DEF action, tree, checked
<1> QED BY <1>1, <1>2, <1>3, FailureFine

LEMMA SemanticActionFine ==
  ASSUME NEW h, IsSeq(h), Rule(h) # "none"
  PROVE  Fine(semantic_action(h))
<1> DEFINE operands == Operands(h)
           Trees(symbols) == [i \in DOMAIN symbols |-> symbols[i].ast]
<1>1. CASE Rule(h) = "literal"
  <2>1. semantic_action(h) = Action(NT(h[1].type, <<"CONST", h[1].type, h[1].val>>)) BY <1>1 DEF semantic_action
  <2> QED BY <2>1, ActionFine, TreeFine
<1>2. CASE Rule(h) = "id"
  <2>1. semantic_action(h) = reduce_id(h[1].val) BY <1>2 DEF semantic_action
  <2> QED BY <2>1, IdFine
<1>3. CASE Rule(h) = "unary"
  <2>1. semantic_action(h) = reduce_unary(h[1].type, h[2]) BY <1>3 DEF semantic_action
  <2>2. h[2].type = "NT" BY <1>3, RuleSays
  <2> QED BY <2>1, <2>2, UnaryFine
<1>4. CASE Rule(h) = "binary"
  <2>1. semantic_action(h) = reduce_binary(h[2].type, h[1], h[3]) BY <1>4 DEF semantic_action
  <2> QED BY <2>1, BinaryFine
<1>5. CASE Rule(h) = "brackets"
  <2>1. semantic_action(h) = Action(h[2]) BY <1>5 DEF semantic_action
  <2>2. [i \in DOMAIN h |-> h[i].type] = <<"(", "NT", ")">> BY <1>5, RuleSays
  <2>3. h[2].type = "NT" BY <2>2, TypesOfThree
  <2> QED BY <2>1, <2>3, ActionFine
<1>6. CASE Rule(h) = "call"
  <2>1. semantic_action(h) = reduce_function(h[1].val, operands) BY <1>6 DEF semantic_action
  <2> QED BY <2>1, CallFine
<1>7. CASE Rule(h) = "sides"
  <2>1. semantic_action(h) = reduce_sides(h[Min(SidesAt(h))].type, Operands(LeftSide(h)), Trees(Operands(RightSide(h))))
    BY <1>7 DEF semantic_action
  <2> HIDE DEF Trees
  <2> QED BY <2>1, SidesFine
<1>8. CASE Rule(h) = "multi"
  <2>1. semantic_action(h) = Action(NT("UNKNOWN", <<"LIST", Trees(operands)>>)) BY <1>8 DEF semantic_action
  <2> HIDE DEF Trees
  <2> QED BY <2>1, ActionFine, TreeFine
<1> QED BY <1>1, <1>2, <1>3, <1>4, <1>5, <1>6, <1>7, <1>8, RuleSays

-----------------------------------------------------------------------------
(* The precedence table.                                                   *)

TableIndices == Operators \cup SidesOps \cup {"(", ")", "i", "f", ",", "$"}

LEMMA TableSays ==
  ASSUME NEW top \in TableIndices, NEW symbol \in TableIndices
  PROVE  LET relation_of == precedence_table(top, symbol)
         IN /\ relation_of \in {"<", "=", ">", " ", "o"}
            /\ top = "$" => relation_of \notin {">", "="}
            /\ symbol = "$" => relation_of \notin {"<", "="}
            /\ relation_of = "o" => top = "$" /\ symbol = "$"
<1>1. CASE symbol \in Operators
  <2>0. symbol \notin SidesOps \cup {"(", ")", "i", "f", ",", "$"}
    BY <1>1 DEF Operators, BinaryOps, Unaries, SidesOps, AssignOps
  <2>1. precedence_table(top, symbol) =
          CASE top \in {")", "i"} -> ">"
            [] top \in Operators -> IF LowerOrEqual(top, symbol) THEN ">" ELSE "<"
            [] top = "f" -> " "
            [] OTHER -> "<"
    BY <1>1, <2>0 DEF precedence_table
  <2>2. symbol # "$" BY <2>0
  <2>3. top = "$" => top \notin Operators \cup {")", "i"} BY DEF Operators, BinaryOps, Unaries
  <2> QED BY <2>1, <2>2, <2>3
<1>2. CASE symbol \in SidesOps
  BY <1>2 DEF precedence_table, TableIndices, Operators, BinaryOps, Unaries, SidesOps, AssignOps
<1>3. CASE symbol \in {"(", "i", "f"}
  BY <1>3 DEF precedence_table, TableIndices, Operators, BinaryOps, Unaries, SidesOps, AssignOps
<1>4. CASE symbol \in {")", ",", "$"}
  BY <1>4 DEF precedence_table, TableIndices, Operators, BinaryOps, Unaries, SidesOps, AssignOps
<1> QED BY <1>1, <1>2, <1>3, <1>4 DEF TableIndices

LEMMA SignIsOperator == SignIndex \in {"+", "-", "u+", "u-"}
BY DEF SignIndex

LEMMA IndexOfPushed ==
  ASSUME NEW type \in PushedTypes
  PROVE  get_table_index(type, TRUE, TRUE) \in TableIndices \ {"$"}
BY SignIsOperator DEF get_table_index, PushedTypes, TableIndices, Operators, BinaryOps, Unaries,
                      SidesOps, AssignOps, Literals

LEMMA IndexOfToken ==
  ASSUME NEW type \in TokenTypes \ {"INVALID"}, NEW may, NEW eol,
         NEW index, index = get_table_index(type, may, eol)
  PROVE  /\ index \in TableIndices \cup {"error"}
         /\ type = "OUTSIDE" => index = "$"
         /\ index = "$" => type = "OUTSIDE" \/ (~may /\ eol)
         /\ index \notin {"$", "error"} =>
              CASE type = "ID" -> index \in {"i", "f"}
                [] type \in {"+", "-"} -> index \in PushedTypes
                [] OTHER -> type \in PushedTypes
BY SignIsOperator DEF get_table_index, PushedTypes, TableIndices, Operators, BinaryOps, Unaries,
                      SidesOps, AssignOps, Literals, TokenTypes
-----------------------------------------------------------------------------
(* What the relation of the topmost terminal and the current token means.  *)

LEMMA TopFacts ==
  ASSUME Shape(stack), NEW t, t = precedence_stack_top
  PROVE  /\ Terminal(stack, t) /\ \A i \in t + 1 .. Len(stack) : ~IsTerminal(stack[i])
         /\ top_index \in TableIndices
         /\ t = 1 => top_index = "$"
         /\ t # 1 => t \in 2 .. Len(stack) /\ stack[t].type \in PushedTypes /\ top_index # "$"
<1>1. IsSeq(stack) /\ Len(stack) \in Nat /\ Len(stack) >= 1 /\ stack[1].type = "END"
  BY DEF Shape, Bottom, IsSeq
<1>2. IsTerminal(stack[1]) BY <1>1, PushedTypesAreTerminal
<1>3. Terminal(stack, t) /\ \A i \in t + 1 .. Len(stack) : ~IsTerminal(stack[i])
  BY <1>1, <1>2, TopIsLast
<1>4. t = 1 => top_index = "$" BY <1>1 DEF top_index, get_table_index, Literals
<1>5. ASSUME t # 1
      PROVE  t \in 2 .. Len(stack) /\ stack[t].type \in PushedTypes /\ top_index \in TableIndices \ {"$"}
  <2>1. t \in 2 .. Len(stack) /\ IsTerminal(stack[t]) BY <1>1, <1>3, <1>5 DEF Terminal
  <2>2. stack[t].type \in PushedTypes \cup {"NT", "BEGIN"} BY <2>1 DEF Shape, Bottom
  <2>3. stack[t].type \in PushedTypes BY <2>1, <2>2 DEF IsTerminal
  <2> QED BY <2>1, <2>3, IndexOfPushed DEF top_index
<1>6. "$" \in TableIndices BY DEF TableIndices
<1> QED BY <1>3, <1>4, <1>5, <1>6

LEMMA CurrentIsPushed ==
  ASSUME token.type \in TokenTypes \ {"INVALID"}, symbol_index \notin {"$", "error"}
  PROVE  current_symbol.type \in PushedTypes /\ token.type # "OUTSIDE"
<1>1. CurrentType \in PushedTypes
  <2>1. CASE token.type = "ID"
    <3>1. {"SYMB_ID", "SYMB_FUNCTION"} \subseteq PushedTypes BY DEF PushedTypes
    <3> QED BY <2>1, <3>1 DEF CurrentType
  <2>2. CASE token.type \in {"+", "-"}
    <3>1. symbol_index \in PushedTypes /\ CurrentType = symbol_index
      BY <2>2, IndexOfToken DEF symbol_index, CurrentType
    <3> QED BY <3>1
  <2>3. CASE token.type \notin {"ID", "+", "-"}
    <3>1. token.type \in PushedTypes /\ CurrentType = token.type
      BY <2>3, IndexOfToken DEF symbol_index, CurrentType
    <3> QED BY <3>1
  <2> QED BY <2>1, <2>2, <2>3
<1>2. current_symbol.type = CurrentType BY DEF current_symbol, Symbol
<1>3. token.type # "OUTSIDE" BY IndexOfToken DEF symbol_index
<1> QED BY <1>1, <1>2, <1>3

LEMMA RelationFacts ==
  ASSUME Shape(stack), token.type \in TokenTypes \ {"INVALID"},
         NEW rel, rel = relation, NEW t, t = precedence_stack_top
  PROVE  /\ rel \in {"=", "<"} => current_symbol.type \in PushedTypes /\ token.type # "OUTSIDE"
         /\ rel \in {"=", ">"} => t \in 2 .. Len(stack) /\ IsTerminal(stack[t])
         /\ rel = "o" => /\ t = 1
                         /\ token.type = "OUTSIDE" \/ ~eol_allowed
<1>1. symbol_index \in TableIndices \cup {"error"} BY IndexOfToken DEF symbol_index
<1>2. CASE symbol_index = "error"
  <2>1. rel = "error" BY <1>2 DEF relation
  <2> QED BY <2>1
<1>3. CASE symbol_index \in TableIndices /\ symbol_index # "error"
  <2>1. rel = precedence_table(top_index, symbol_index) BY <1>3 DEF relation
  <2>2. top_index \in TableIndices BY TopFacts
  <2>3. /\ top_index = "$" => rel \notin {">", "="}
        /\ symbol_index = "$" => rel \notin {"<", "="}
        /\ rel = "o" => top_index = "$" /\ symbol_index = "$"
    BY <1>3, <2>1, <2>2, TableSays
  <2>4. ASSUME rel \in {"=", "<"} PROVE current_symbol.type \in PushedTypes /\ token.type # "OUTSIDE"
    <3>1. symbol_index \notin {"$", "error"} BY <1>3, <2>3, <2>4
    <3> QED BY <3>1, CurrentIsPushed
  <2>5. ASSUME rel \in {"=", ">"} PROVE t \in 2 .. Len(stack) /\ IsTerminal(stack[t])
    <3>1. top_index # "$" BY <2>3, <2>5
    <3>2. t \in 2 .. Len(stack) /\ Terminal(stack, t) BY <3>1, TopFacts
    <3> QED BY <3>2 DEF Terminal
  <2>6. ASSUME rel = "o" PROVE t = 1 /\ (token.type = "OUTSIDE" \/ ~eol_allowed)
    <3>1. t = 1 BY <2>3, <2>6, TopFacts
    <3>2. symbol_index = "$" BY <2>3, <2>6
    <3>3. token.type = "OUTSIDE" \/ ~eol_allowed BY <3>2, IndexOfToken DEF symbol_index
    <3> QED BY <3>1, <3>3
  <2> QED BY <2>4, <2>5, <2>6
<1> QED BY <1>1, <1>2, <1>3
-----------------------------------------------------------------------------
(* The inductive invariant.                                                *)

InputOK(s) == IsSeq(s) /\ \A i \in 1 .. Len(s) : s[i].type \in TokenTypes

\* Nothing has been done yet.
Ready ==
  /\ pos = 1 /\ stack = <<>>
  /\ eol_allowed = TRUE
  /\ count.function_level = 0
  /\ input # <<>> => input[1].type # "INVALID"

\* The loop has come to a token of the source. The first one belongs to an expression.
Going ==
  /\ pos \in 1 .. Len(input) /\ token.type # "INVALID"
  /\ Shape(stack)
  /\ count.function_level = Cardinality(Functions(stack))
  /\ Len(stack) = 1 => eol_allowed = TRUE /\ token.type # "OUTSIDE"

TreeAlone(s) == IsSeq(s) /\ Len(s) = 2 /\ s[1].type = "END" /\ s[2].type = "NT"

PInv ==
  /\ TypeOK
  /\ InputOK(input)
  /\ compiler_result # "INTERNAL"
  /\ phase = "start" => Ready
  /\ phase = "running" => Going
  /\ phase = "accepted" => TreeAlone(stack)

LEMMA SoundIfInv == PInv => StackIsSound
<1> SUFFICES ASSUME PInv PROVE StackIsSound OBVIOUS
<1>1. ASSUME phase = "running"
      PROVE  precedence_stack_top # 0 /\ count.function_level = Cardinality({i \in DOMAIN stack : stack[i].type = "SYMB_FUNCTION"})
  <2>1. Going BY <1>1 DEF PInv
  <2>2. Terminal(stack, precedence_stack_top) BY <2>1, TopFacts DEF Going
  <2> QED BY <2>1, <2>2 DEF Going, Functions, Terminal
<1>2. ASSUME phase = "accepted"
      PROVE  [i \in DOMAIN stack |-> stack[i].type] = <<"END", "NT">>
  <2>1. TreeAlone(stack) BY <1>2 DEF PInv
  <2>2. DOMAIN stack = 1 .. 2 BY <2>1, SeqDomain DEF TreeAlone
  <2> QED BY <2>1, <2>2 DEF TreeAlone
<1> QED BY <1>1, <1>2 DEF PInv, StackIsSound

LEMMA InitInv == Init => PInv
<1> SUFFICES ASSUME Init PROVE PInv OBVIOUS
<1>1. TypeOK BY KindsAssumption DEF Init, TypeOK, kind
<1>2. InputOK(input)
  <2>1. input \in Seq({}) BY DEF Init
  <2> QED BY <2>1 DEF InputOK, IsSeq, Init
<1> QED BY <1>1, <1>2 DEF Init, PInv, Ready

LEMMA GiveUpInv ==
  ASSUME PInv, NEW error, error # "INTERNAL", GiveUp(error)
  PROVE  PInv'
<1>1. TypeOK' BY DEF PInv, TypeOK, GiveUp
<1>2. compiler_result' # "INTERNAL" BY DEF PInv, GiveUp, FirstError
<1> QED BY <1>1, <1>2 DEF PInv, GiveUp, InputOK

LEMMA JoinedInputOK ==
  ASSUME NEW a, InputOK(a), NEW b, InputOK(b), NEW r, r = a \o b
  PROVE  /\ InputOK(r) /\ Len(r) = Len(a) + Len(b)
         /\ \A i \in 1 .. Len(a) : r[i] = a[i]
         /\ a = <<>> => r = b
<1>1. PICK S : a \in Seq(S) BY DEF InputOK, IsSeq
<1>2. PICK T : b \in Seq(T) BY DEF InputOK, IsSeq
<1> DEFINE U == S \cup T
<1>3. a \in Seq(U) /\ b \in Seq(U) BY <1>1, <1>2
<1> HIDE DEF U
<1>4. /\ a \o b \in Seq(U) /\ Len(a \o b) = Len(a) + Len(b)
      /\ \A i \in 1 .. Len(a) : (a \o b)[i] = a[i]
      /\ \A i \in Len(a) + 1 .. Len(a) + Len(b) : (a \o b)[i] = b[i - Len(a)]
  BY <1>3, JoinedAt
<1>5. ASSUME NEW i \in 1 .. Len(r) PROVE r[i].type \in TokenTypes
  <2>1. Len(a) \in Nat /\ Len(b) \in Nat BY <1>3
  <2>2. CASE i \in 1 .. Len(a) BY <1>4, <2>2 DEF InputOK
  <2>3. CASE i \in Len(a) + 1 .. Len(a) + Len(b)
    <3>1. i - Len(a) \in 1 .. Len(b) BY <2>1, <2>3
    <3> QED BY <1>4, <2>3, <3>1 DEF InputOK
  <2> QED BY <1>4, <1>5, <2>1, <2>2, <2>3
<1>6. a = <<>> => r = b BY <1>3
<1> QED BY <1>4, <1>5, <1>6 DEF InputOK, IsSeq

LEMMA PhraseOK ==
  ASSUME called \in DOMAIN Kinds, NEW phrase \in kind.alphabet \cup {<<Outside>>}
  PROVE  InputOK(phrase) /\ phrase # <<>>
<1>1. CASE phrase = <<Outside>>
  <2>1. "OUTSIDE" \in TokenTypes BY DEF TokenTypes
  <2>2. Outside.type = "OUTSIDE" BY DEF Outside, AfterEol, Tok
  <2> HIDE DEF Outside
  <2>3. phrase \in Seq({Outside}) /\ Len(phrase) = 1 /\ phrase[1] = Outside BY <1>1
  <2>4. IsSeq(phrase) BY <2>3 DEF IsSeq
  <2>5. \A i \in 1 .. Len(phrase) : phrase[i].type \in TokenTypes BY <2>1, <2>2, <2>3
  <2>6. phrase # <<>> BY <2>3
  <2> QED BY <2>4, <2>5, <2>6 DEF InputOK
<1>2. CASE phrase \in kind.alphabet
  <2>1. phrase # <<>> /\ phrase \in Seq({tok \in ToSet(phrase) : tok.type \in TokenTypes})
    BY <1>2, KindsAssumption DEF kind
  <2> DEFINE S == {tok \in ToSet(phrase) : tok.type \in TokenTypes}
  <2>2. phrase \in Seq(S) BY <2>1
  <2>3. \A tok \in S : tok.type \in TokenTypes OBVIOUS
  <2> HIDE DEF S
  <2>4. \A i \in 1 .. Len(phrase) : phrase[i] \in S BY <2>2
  <2>5. IsSeq(phrase) BY <2>2 DEF IsSeq
  <2> QED BY <2>1, <2>3, <2>4, <2>5 DEF InputOK
<1> QED BY <1>1, <1>2

LEMMA WriteInv == PInv /\ Write => PInv'
<1> SUFFICES ASSUME PInv, Write PROVE PInv' OBVIOUS
<1>1. PICK phrase \in kind.alphabet \cup {<<Outside>>} :
        /\ input = <<>> => phrase[1].type # "INVALID"
        /\ input' = input \o phrase
  BY DEF Write
<1>2. UNCHANGED <<called, pos, stack, count, eol_allowed, phase, compiler_result, types>> BY DEF Write
<1>3. InputOK(phrase) /\ phrase # <<>> BY PhraseOK DEF PInv, TypeOK
<1>4. /\ InputOK(input') /\ Len(input') = Len(input) + Len(phrase)
      /\ \A i \in 1 .. Len(input) : input'[i] = input[i]
      /\ input = <<>> => input' = phrase
  <2>1. InputOK(input) /\ InputOK(phrase) /\ input' = input \o phrase BY <1>1, <1>3 DEF PInv
  <2>2. \A r : r = input \o phrase =>
          /\ InputOK(r) /\ Len(r) = Len(input) + Len(phrase)
          /\ \A i \in 1 .. Len(input) : r[i] = input[i]
          /\ input = <<>> => r = phrase
    BY <2>1, JoinedInputOK
  <2> QED BY <2>1, <2>2
<1>5. Len(input) \in Nat /\ Len(phrase) \in Nat BY <1>3 DEF PInv, InputOK, IsSeq
<1>6. TypeOK' BY <1>2, <1>4, <1>5 DEF PInv, TypeOK
<1>7. ASSUME phase' = "start" PROVE Ready'
  <2>1. Ready BY <1>2, <1>7 DEF PInv
  <2>2. input'[1].type # "INVALID"
    <3>1. CASE input = <<>> BY <1>1, <1>4, <3>1
    <3>2. CASE input # <<>>
      <4>1. Len(input) # 0 BY <3>2 DEF PInv, InputOK, IsSeq
      <4> QED BY <1>4, <1>5, <2>1, <3>2, <4>1 DEF Ready
    <3> QED BY <3>1, <3>2
  <2> QED BY <1>2, <2>1, <2>2 DEF Ready
<1>8. ASSUME phase' = "running" PROVE Going'
  <2>1. Going BY <1>2, <1>8 DEF PInv
  <2>2. pos' \in 1 .. Len(input') /\ token' = token
    BY <1>2, <1>4, <1>5, <2>1 DEF Going, token
  <2>3. stack' = stack BY <1>2
  <2> QED BY <1>2, <2>1, <2>2 DEF Going
<1>9. phase' = "accepted" => TreeAlone(stack') BY <1>2 DEF PInv
<1> QED BY <1>2, <1>4, <1>6, <1>7, <1>8, <1>9 DEF PInv

LEMMA StartInv == PInv /\ Start => PInv'
<1> SUFFICES ASSUME PInv, Start PROVE PInv' OBVIOUS
<1>1. CASE get_table_index(token.type, kind.eol_before_allowed, token.eol_read) = "$"
  BY <1>1, GiveUpInv DEF Start
<1>2. CASE get_table_index(token.type, kind.eol_before_allowed, token.eol_read) # "$"
  <2>1. /\ phase' = "running" /\ stack' = <<END>>
        /\ UNCHANGED <<called, input, pos, count, eol_allowed, compiler_result, types>>
    BY <1>2 DEF Start
  <2>2. Ready /\ LookedAt BY DEF Start, PInv
  <2>3. pos = 1 /\ input # <<>> /\ Len(input) \in Nat /\ Len(input) >= 1
    <3>1. Len(input) \in Nat /\ (Len(input) = 0 => input = <<>>) BY DEF PInv, InputOK, IsSeq
    <3>2. input # <<>> \/ Len(input) > 1 BY <2>2 DEF Ready, LookedAt, Written
    <3> QED BY <2>2, <3>1, <3>2 DEF Ready
  <2>4. token.type \in TokenTypes \ {"INVALID"} BY <2>2, <2>3 DEF PInv, InputOK, Ready, token
  <2>5. token.type # "OUTSIDE" BY <1>2, <2>4, IndexOfToken
  <2>6. token' = token BY <2>1 DEF token
  <2>7. Shape(stack') /\ Len(stack') = 1 /\ Functions(stack') = {} /\ stack'[1].type = "END"
    <3>1. END.type = "END" BY PushedTypesAreTerminal
    <3> HIDE DEF END
    <3>2. /\ stack' \in Seq({END}) /\ Len(stack') = 1 /\ stack'[1] = END /\ DOMAIN stack' = 1 .. 1
      BY <2>1
    <3>3. ~IsBegin(END) BY PushedTypesAreTerminal
    <3> QED BY <3>1, <3>2, <3>3 DEF Shape, Bottom, Handles, Begins, Apart, IsSeq, Functions
  <2>8. Going'
    <3>1. Cardinality(Functions(stack')) = 0 BY <2>7, FS_EmptySet
    <3> QED BY <2>1, <2>2, <2>3, <2>4, <2>5, <2>6, <2>7, <3>1 DEF Going, Ready
  <2>9. TypeOK'
    <3>1. DOMAIN stack' = 1 .. 1 BY <2>7, SeqDomain DEF Shape, Bottom
    <3> QED BY <2>1, <2>7, <3>1 DEF PInv, TypeOK
  <2> QED BY <2>1, <2>8, <2>9 DEF PInv
<1> QED BY <1>1, <1>2
LEMMA CountersAfter ==
  ASSUME TypeOK, NEW type, NEW c, c = update_token_counters(type)
  PROVE  /\ c \in [definitions : Nat, assignments : Nat, function_calls : Nat,
                   other_tokens : Nat, function_level : Int]
         /\ c.function_level = IF type = "SYMB_FUNCTION" THEN count.function_level + 1 ELSE count.function_level
<1>1. count \in [definitions : Nat, assignments : Nat, function_calls : Nat,
                 other_tokens : Nat, function_level : Int]
  BY DEF TypeOK
<1>2. CASE type = "SYMB_FUNCTION"
  <2>1. type # ":=" /\ type \notin AssignOps BY <1>2 DEF AssignOps
  <2> DEFINE calls == IF count.function_level = 0 THEN count.function_calls + 1 ELSE count.function_calls
  <2>2. c = [count EXCEPT !.function_calls = calls, !.function_level = count.function_level + 1]
    BY <1>2, <2>1 DEF update_token_counters
  <2>3. calls \in Nat /\ count.function_level + 1 \in Int BY <1>1
  <2> HIDE DEF calls
  <2> QED BY <1>1, <1>2, <2>2, <2>3
<1>3. CASE type # "SYMB_FUNCTION"
  <2>1. \/ c = [count EXCEPT !.definitions = @ + 1]
        \/ c = [count EXCEPT !.assignments = @ + 1]
        \/ c = [count EXCEPT !.other_tokens = @ + 1]
        \/ c = count
    <3> DEFINE assigns == type \in AssignOps
    <3> HIDE DEF assigns
    <3>1. c = CASE type = ":=" -> [count EXCEPT !.definitions = @ + 1]
                [] assigns -> [count EXCEPT !.assignments = @ + 1]
                [] type = "SYMB_FUNCTION" ->
                     [count EXCEPT !.function_calls = IF count.function_level = 0 THEN @ + 1 ELSE @,
                                   !.function_level = @ + 1]
                [] OTHER -> IF count.function_level = 0 THEN [count EXCEPT !.other_tokens = @ + 1] ELSE count
      BY DEF update_token_counters, assigns
    <3> QED BY <1>3, <3>1
  <2> QED BY <1>1, <1>3, <2>1
<1> QED BY <1>2, <1>3

StackTypes == TokenTypes \cup {"NT", "BEGIN", "END", "SYMB_ID", "SYMB_FUNCTION", "u+", "u-"}

LEMMA ShapeOfTypes ==
  ASSUME NEW s, Shape(s)
  PROVE  \A i \in DOMAIN s : s[i].type \in StackTypes
<1>1. DOMAIN s = 1 .. Len(s) /\ Len(s) \in Nat BY SeqDomain DEF Shape, Bottom
<1>2. \A i \in 1 .. Len(s) : i = 1 \/ i \in 2 .. Len(s) BY <1>1
<1>3. \A i \in 1 .. Len(s) : s[i].type \in PushedTypes \cup {"NT", "BEGIN", "END"}
  BY <1>2 DEF Shape, Bottom
<1>4. PushedTypes \subseteq StackTypes
  BY DEF PushedTypes, StackTypes, TokenTypes, Operators, Unaries
<1> QED BY <1>1, <1>3, <1>4 DEF StackTypes

LEMMA PushOntoInv ==
  ASSUME PInv, Running, NEW symbols, PushOnto(symbols), token.type # "OUTSIDE",
         NEW r, r = Append(symbols, current_symbol), Shape(r), Len(r) # 1,
         Cardinality(Functions(r)) = IF current_symbol.type = "SYMB_FUNCTION"
                                     THEN Cardinality(Functions(stack)) + 1
                                     ELSE Cardinality(Functions(stack))
  PROVE  PInv'
<1>1. Going /\ LookedAt /\ TypeOK /\ InputOK(input) BY DEF PInv, Running
<1>2. /\ stack' = r /\ pos' = pos + 1 /\ count' = update_token_counters(current_symbol.type)
      /\ UNCHANGED <<called, input, types>>
  BY DEF PushOnto
<1>3. IF input[pos + 1].type = "INVALID"
      THEN phase' = "rejected" /\ compiler_result' = FirstError("LEXICAL")
      ELSE phase' = "running" /\ compiler_result' = compiler_result
  BY DEF PushOnto, Running
<1>4. compiler_result' # "INTERNAL" BY <1>3 DEF PInv, FirstError
<1>5. pos \in 1 .. Len(input) /\ Len(input) \in Nat /\ pos + 1 \in 1 .. Len(input)
  <2>1. pos \in 1 .. Len(input) /\ Len(input) \in Nat BY <1>1 DEF Going, InputOK, IsSeq
  <2>2. ASSUME pos = Len(input) PROVE FALSE
    <3>1. Last(input) = Outside BY <1>1, <2>1, <2>2 DEF LookedAt, Written
    <3>2. token = Outside BY <2>2, <3>1 DEF token, Last
    <3> QED BY <3>2 DEF Outside, AfterEol, Tok
  <2> QED BY <2>1, <2>2
<1>6. /\ count' \in [definitions : Nat, assignments : Nat, function_calls : Nat,
                     other_tokens : Nat, function_level : Int]
      /\ count'.function_level = Cardinality(Functions(r))
  <2>1. \A type, c : c = update_token_counters(type) =>
          /\ c \in [definitions : Nat, assignments : Nat, function_calls : Nat,
                    other_tokens : Nat, function_level : Int]
          /\ c.function_level = IF type = "SYMB_FUNCTION" THEN count.function_level + 1 ELSE count.function_level
    BY <1>1, CountersAfter
  <2>2. count.function_level = Cardinality(Functions(stack)) BY <1>1 DEF Going
  <2> QED BY <1>2, <2>1, <2>2
<1>7. \A i \in DOMAIN r : r[i].type \in StackTypes BY ShapeOfTypes
<1>8. TypeOK'
  <2>1. phase' \in {"rejected", "running"} BY <1>3
  <2>2. \A i \in DOMAIN stack' : stack'[i].type \in StackTypes BY <1>2, <1>7
  <2> QED BY <1>1, <1>2, <1>5, <1>6, <2>1, <2>2 DEF TypeOK, StackTypes
<1>9. ASSUME phase' = "running" PROVE Going'
  <2>1. token' = input[pos + 1] BY <1>2 DEF token
  <2>2. token'.type # "INVALID" BY <1>3, <1>9, <2>1
  <2>3. Shape(stack') /\ Len(stack') # 1 /\ count'.function_level = Cardinality(Functions(stack'))
    BY <1>2, <1>6
  <2> QED BY <1>2, <1>5, <2>2, <2>3 DEF Going
<1>10. InputOK(input') BY <1>1, <1>2
<1>11. phase' # "start" /\ phase' # "accepted" BY <1>3
<1> QED BY <1>4, <1>8, <1>9, <1>10, <1>11 DEF PInv

LEMMA RunningFacts ==
  ASSUME PInv, Running
  PROVE  /\ Going /\ Shape(stack) /\ IsSeq(stack) /\ Len(stack) \in Nat /\ Len(stack) >= 1
         /\ token.type \in TokenTypes \ {"INVALID"}
<1>1. Going BY DEF PInv, Running
<1>2. Shape(stack) /\ IsSeq(stack) /\ Len(stack) \in Nat /\ Len(stack) >= 1
  BY <1>1 DEF Going, Shape, Bottom, IsSeq
<1>3. token.type \in TokenTypes \ {"INVALID"} BY <1>1 DEF Going, PInv, InputOK, token
<1> QED BY <1>1, <1>2, <1>3

LEMMA PushInv ==
  ASSUME PInv, Running, Push(relation)
  PROVE  PInv'
<1> DEFINE r == Append(stack, current_symbol)
           t == precedence_stack_top
<1>1. Shape(stack) /\ IsSeq(stack) /\ Len(stack) \in Nat /\ token.type \in TokenTypes \ {"INVALID"}
  BY RunningFacts
<1>2. /\ current_symbol.type \in PushedTypes /\ token.type # "OUTSIDE"
      /\ t \in 2 .. Len(stack) /\ IsTerminal(stack[t])
  BY <1>1, RelationFacts DEF Push
<1>3. /\ IsSeq(r) /\ Len(r) = Len(stack) + 1 /\ r[Len(stack) + 1] = current_symbol
      /\ \A i \in 1 .. Len(stack) : r[i] = stack[i]
  BY <1>1, PushedAt
<1>4. Shape(r) BY <1>1, <1>2, PushKeepsShape
<1>5. PushOnto(stack) BY DEF Push
<1> HIDE DEF r, t
<1>6. Cardinality(Functions(r)) = IF r[Len(r)].type = "SYMB_FUNCTION" THEN Cardinality(Functions(stack)) + 1
                                  ELSE Cardinality(Functions(stack))
  <2> DEFINE k == Len(stack)
  <2>1. /\ k \in 1 .. Len(stack) /\ Len(stack) < Len(r)
        /\ \A i \in 1 .. k : r[i] = stack[i]
        /\ \A i \in k + 1 .. Len(stack) : ~IsTerminal(stack[i])
        /\ \A i \in k + 1 .. Len(r) - 1 : ~IsTerminal(r[i])
    BY <1>1, <1>2, <1>3
  <2> HIDE DEF k
  <2> QED BY <1>1, <1>3, <2>1, PushedFunction
<1>7. r[Len(r)] = current_symbol /\ Len(r) # 1 BY <1>1, <1>2, <1>3
<1> QED BY <1>2, <1>4, <1>5, <1>6, <1>7, PushOntoInv DEF r

LEMMA ShiftInv ==
  ASSUME PInv, Running, Shift(relation)
  PROVE  PInv'
<1> DEFINE t == precedence_stack_top
           symbols == InsertAt(stack, t + 1, BEGIN)
           r == Append(symbols, current_symbol)
<1>1. /\ Shape(stack) /\ IsSeq(stack) /\ Len(stack) \in Nat /\ Len(stack) >= 1
      /\ token.type \in TokenTypes \ {"INVALID"}
  BY RunningFacts
<1>2. current_symbol.type \in PushedTypes /\ token.type # "OUTSIDE" BY <1>1, RelationFacts DEF Shift
<1>3. /\ t \in 1 .. Len(stack) /\ IsTerminal(stack[t])
      /\ \A i \in t + 1 .. Len(stack) : ~IsTerminal(stack[i])
  BY <1>1, TopFacts DEF Terminal
<1>4. PushOnto(symbols) BY DEF Shift
<1> HIDE DEF t
<1>5. /\ Shape(r) /\ Len(r) = Len(stack) + 2 /\ r[Len(r)] = current_symbol
      /\ \A i \in 1 .. t : r[i] = stack[i]
      /\ \A i \in t + 1 .. Len(r) - 1 : ~IsTerminal(r[i])
  BY <1>1, <1>2, <1>3, ShiftKeepsShape
<1> HIDE DEF r
<1>6. Cardinality(Functions(r)) = IF r[Len(r)].type = "SYMB_FUNCTION" THEN Cardinality(Functions(stack)) + 1
                                  ELSE Cardinality(Functions(stack))
  <2>1. IsSeq(r) /\ Len(stack) < Len(r) BY <1>1, <1>5 DEF Shape, Bottom
  <2> QED BY <1>1, <1>3, <1>5, <2>1, PushedFunction
<1>7. Len(r) # 1 BY <1>1, <1>5
<1> HIDE DEF symbols
<1> QED BY <1>2, <1>4, <1>5, <1>6, <1>7, PushOntoInv DEF r
\* A reduction replaces its handle by a tree or ends the call.
LEMMA ReductionResult ==
  ASSUME PInv, Running, NEW start, NEW h, reduce(start, h), Fine(semantic_action(h))
  PROVE  /\ compiler_result' # "INTERNAL" /\ DOMAIN types' = DOMAIN types
         /\ \/ stack' = stack /\ phase' \in {"rejected", "undefined"}
            \/ phase' = "running" /\ \E nt : nt.type = "NT" /\ stack' = CutAt(stack, start, nt)
<1> DEFINE action == semantic_action(h)
           tree == action.nt.ast
           inferred == IF tree[1] = "ID" THEN Good("UNKNOWN")
                       ELSE infer_node_type(tree, action.types, action.functions)
<1>1. phase = "running" /\ compiler_result # "INTERNAL" BY DEF Running, PInv
<1>2. action.nt.type = "NT" /\ action.error # "INTERNAL" /\ DOMAIN action.types = DOMAIN types
  BY DEF Fine
<1>3. CASE ~semantic_enabled
  <2>1. /\ stack' = CutAt(stack, start, NT("UNKNOWN", NoTree))
        /\ UNCHANGED <<phase, compiler_result, types>>
    BY <1>3 DEF reduce, CutAt
  <2> QED BY <1>1, <2>1, TreeFine
<1>4. CASE semantic_enabled /\ action.error = "NONE"
  <2>1. /\ stack' = CutAt(stack, start, action.nt)
        /\ types' = TypesAfter(action.types, inferred.given)
        /\ compiler_result' = IF inferred.said THEN "TYPE" ELSE "NONE"
        /\ UNCHANGED phase
    BY <1>4 DEF reduce, CutAt
  <2> HIDE DEF inferred, action
  <2>2. DOMAIN types' = DOMAIN types BY <1>2, <2>1 DEF TypesAfter
  <2>3. compiler_result' # "INTERNAL" BY <2>1
  <2>4. phase' = "running" BY <1>1, <2>1
  <2> QED BY <1>2, <2>1, <2>2, <2>3, <2>4
<1>5. CASE semantic_enabled /\ action.error = "garbage"
  <2>1. phase' = "undefined" /\ UNCHANGED <<stack, compiler_result, types>> BY <1>5 DEF reduce
  <2> QED BY <1>1, <2>1
<1>6. CASE semantic_enabled /\ action.error \notin {"NONE", "garbage"}
  <2>1. phase' = "rejected" /\ compiler_result' = action.error /\ UNCHANGED <<stack, types>>
    BY <1>6 DEF reduce
  <2> QED BY <1>2, <2>1
<1> QED BY <1>3, <1>4, <1>5, <1>6

LEMMA ReduceInv ==
  ASSUME PInv, Running, Reduce(relation)
  PROVE  PInv'
<1> DEFINE start == precedence_stack_reduce_start
           h == SubSeq(stack, start + 1, Len(stack))
<1>1. /\ Going /\ Shape(stack) /\ IsSeq(stack) /\ Len(stack) \in Nat
      /\ token.type \in TokenTypes \ {"INVALID"}
  BY RunningFacts
<1>2. /\ Begin(stack, start)
      /\ \A i \in start + 1 .. Len(stack) : ~IsBegin(stack[i])
  <2>1. PICK t \in 2 .. Len(stack) : IsTerminal(stack[t]) BY <1>1, RelationFacts DEF Reduce
  <2>2. PICK j \in 2 .. t - 1 : IsBegin(stack[j]) BY <1>1, <2>1 DEF Shape, Handles
  <2>3. j \in 1 .. Len(stack) BY <1>1, <2>1, <2>2
  <2> QED BY <1>1, <2>2, <2>3, StartIsLast
<1>3. start \in 1 .. Len(stack) /\ start # 0 BY <1>2 DEF Begin
<1>4. CASE Rule(h) = "none"
  <2>1. GiveUp("SYNTAX") BY <1>3, <1>4 DEF Reduce
  <2> QED BY <2>1, GiveUpInv
<1>5. CASE Rule(h) # "none"
  <2>1. /\ reduce(start, h)
        /\ count' = [count EXCEPT !.function_level = IF Rule(h) = "call" THEN @ - 1 ELSE @]
        /\ UNCHANGED <<called, input, pos, right_hand_side, eol_allowed>>
    BY <1>3, <1>5 DEF Reduce
  <2>2. h = AllAfter(stack, start) BY DEF AllAfter
  <2> HIDE DEF start, h
  <2>3. IsSeq(h)
    <3>1. IsSeq(stack) /\ start \in 1 .. Len(stack) BY <1>1, <1>3
    <3> QED BY <2>2, <3>1, TailFrom
  <2>4. Fine(semantic_action(h)) BY <1>5, <2>3, SemanticActionFine
  <2>5. /\ compiler_result' # "INTERNAL" /\ DOMAIN types' = DOMAIN types
        /\ \/ stack' = stack /\ phase' \in {"rejected", "undefined"}
           \/ phase' = "running" /\ \E nt : nt.type = "NT" /\ stack' = CutAt(stack, start, nt)
    BY <1>5, <2>1, <2>4, ReductionResult
  <2>6. /\ count' \in [definitions : Nat, assignments : Nat, function_calls : Nat,
                       other_tokens : Nat, function_level : Int]
        /\ count'.function_level = IF Rule(h) = "call" THEN count.function_level - 1 ELSE count.function_level
    <3> DEFINE level == IF Rule(h) = "call" THEN count.function_level - 1 ELSE count.function_level
    <3>1. count \in [definitions : Nat, assignments : Nat, function_calls : Nat,
                     other_tokens : Nat, function_level : Int]
      BY DEF PInv, TypeOK
    <3>2. level \in Int BY <3>1
    <3>3. count' = [count EXCEPT !.function_level = level] BY <2>1
    <3> HIDE DEF level
    <3>4. count'.function_level = level BY <3>1, <3>3
    <3>5. count' \in [definitions : Nat, assignments : Nat, function_calls : Nat,
                      other_tokens : Nat, function_level : Int]
      BY <3>1, <3>2, <3>3
    <3> QED BY <3>4, <3>5 DEF level
  <2>7. CASE stack' = stack /\ phase' \in {"rejected", "undefined"}
    <3>1. TypeOK' BY <2>1, <2>5, <2>6, <2>7 DEF PInv, TypeOK
    <3>2. InputOK(input') BY <2>1 DEF PInv
    <3>3. phase' \notin {"start", "running", "accepted"} BY <2>7
    <3> QED BY <2>5, <3>1, <3>2, <3>3 DEF PInv
  <2>8. CASE phase' = "running" /\ \E nt : nt.type = "NT" /\ stack' = CutAt(stack, start, nt)
    <3>1. PICK nt : nt.type = "NT" /\ stack' = CutAt(stack, start, nt) BY <2>8
    <3> DEFINE r == CutAt(stack, start, nt)
    <3>2. /\ Shape(r) /\ Len(r) = start /\ r[start] = nt /\ start >= 2
          /\ \A i \in 1 .. start - 1 : r[i] = stack[i]
      BY <1>1, <1>2, <3>1, ReduceKeepsShape
    <3>3. stack' = r BY <3>1
    <3> HIDE DEF r
    <3>4. Cardinality(Functions(r)) = IF Rule(h) = "call" THEN Cardinality(Functions(stack)) - 1
                                      ELSE Cardinality(Functions(stack))
      <4>1. stack[start].type # "SYMB_FUNCTION" BY <1>2 DEF Begin, IsBegin
      <4>2. r[start].type # "SYMB_FUNCTION" BY <3>1, <3>2
      <4>3. IsSeq(r) BY <3>2 DEF Shape, Bottom
      <4> QED BY <1>1, <1>3, <1>5, <2>2, <3>2, <4>1, <4>2, <4>3, ReducedFunction
    <3>5. Going'
      <4>1. token' = token BY <2>1 DEF token
      <4>2. count'.function_level = Cardinality(Functions(stack')) BY <1>1, <2>6, <3>3, <3>4 DEF Going
      <4>3. Shape(stack') /\ Len(stack') # 1 BY <1>1, <1>3, <3>2, <3>3
      <4> QED BY <1>1, <2>1, <4>1, <4>2, <4>3 DEF Going
    <3>6. TypeOK'
      <4>1. \A i \in DOMAIN stack' : stack'[i].type \in StackTypes BY <3>2, <3>3, ShapeOfTypes
      <4> QED BY <2>1, <2>5, <2>6, <2>8, <4>1 DEF PInv, TypeOK, StackTypes
    <3>7. InputOK(input') BY <2>1 DEF PInv
    <3>8. phase' = "running" BY <2>8
    <3> QED BY <2>5, <3>5, <3>6, <3>7, <3>8 DEF PInv
  <2> QED BY <2>5, <2>7, <2>8
<1> QED BY <1>4, <1>5

LEMMA FinishInv ==
  ASSUME PInv, Running, Finish(relation)
  PROVE  PInv'
<1>1. CASE ~matches_assign_rule
  <2>1. GiveUp("SYNTAX") BY <1>1 DEF Finish
  <2> QED BY <2>1, GiveUpInv
<1>2. CASE matches_assign_rule
  <2>1. /\ phase' = "accepted"
        /\ UNCHANGED <<called, input, pos, stack, count, eol_allowed, compiler_result, types>>
    BY <1>2 DEF Finish
  <2>2. /\ Going /\ Shape(stack) /\ IsSeq(stack) /\ Len(stack) \in Nat /\ Len(stack) >= 1
        /\ token.type \in TokenTypes \ {"INVALID"}
    BY RunningFacts
  <2>3. precedence_stack_top = 1 /\ (token.type = "OUTSIDE" \/ ~eol_allowed)
    BY <2>2, RelationFacts DEF Finish
  <2>4. Len(stack) # 1 BY <2>2, <2>3 DEF Going
  <2>5. \A i \in 2 .. Len(stack) : stack[i].type = "NT" /\ i = 2
    <3>1. \A i \in 1 + 1 .. Len(stack) : ~IsTerminal(stack[i]) BY <2>2, <2>3, TopFacts
    <3> DEFINE t == 1
    <3>2. t \in 1 .. Len(stack) /\ \A i \in t + 1 .. Len(stack) : ~IsTerminal(stack[i]) BY <2>2, <3>1
    <3>3. t + 1 = 2 OBVIOUS
    <3> HIDE DEF t
    <3>4. \A i \in t + 1 .. Len(stack) : stack[i].type = "NT" /\ i = t + 1 BY <2>2, <3>2, NothingAboveTop
    <3> QED BY <3>3, <3>4
  <2>6. Len(stack) = 2
    <3> DEFINE n == Len(stack)
    <3>1. n \in Nat /\ n >= 1 /\ n # 1 BY <2>2, <2>4
    <3> HIDE DEF n
    <3>2. n \in 2 .. n BY <3>1
    <3>3. \A i \in 2 .. n : i = 2 BY <2>5 DEF n
    <3> QED BY <3>2, <3>3 DEF n
  <2>7. TreeAlone(stack)
    <3>1. 2 \in 2 .. Len(stack) BY <2>6
    <3> QED BY <2>2, <2>5, <2>6, <3>1 DEF TreeAlone, Shape, Bottom
  <2>8. TypeOK' BY <2>1 DEF PInv, TypeOK
  <2>9. InputOK(input') /\ TreeAlone(stack') /\ compiler_result' # "INTERNAL" BY <2>1, <2>7 DEF PInv
  <2>10. phase' = "accepted" BY <2>1
  <2> QED BY <2>8, <2>9, <2>10 DEF PInv
<1> QED BY <1>1, <1>2

LEMMA NextInv == PInv /\ [Next]_vars => PInv'
<1> SUFFICES ASSUME PInv, [Next]_vars PROVE PInv' OBVIOUS
<1>1. CASE Write BY <1>1, WriteInv
<1>2. CASE Start BY <1>2, StartInv
<1>3. CASE RefuseImpure BY <1>3, GiveUpInv DEF RefuseImpure
<1>4. CASE Obey
  <2>1. Running BY <1>4 DEF Obey
  <2>2. CASE RefuseLookAhead(relation) BY <2>2, GiveUpInv DEF RefuseLookAhead
  <2>3. CASE Push(relation) BY <2>1, <2>3, PushInv
  <2>4. CASE Shift(relation) BY <2>1, <2>4, ShiftInv
  <2>5. CASE Reduce(relation) BY <2>1, <2>5, ReduceInv
  <2>6. CASE RefuseToken(relation) BY <2>6, GiveUpInv DEF RefuseToken
  <2>7. CASE Finish(relation) BY <2>1, <2>7, FinishInv
  <2> QED BY <1>4, <2>2, <2>3, <2>4, <2>5, <2>6, <2>7 DEF Obey
<1>5. CASE UNCHANGED vars
  <2>1. TypeOK' BY <1>5 DEF vars, PInv, TypeOK
  <2>2. UNCHANGED <<input, pos, stack, count, eol_allowed, phase, compiler_result>> BY <1>5 DEF vars
  <2>3. phase' = "running" => Going' BY <2>2 DEF PInv, Going, token
  <2>4. phase' = "start" => Ready' BY <2>2 DEF PInv, Ready
  <2>5. phase' = "accepted" => TreeAlone(stack') BY <2>2 DEF PInv
  <2> QED BY <2>1, <2>2, <2>3, <2>4, <2>5 DEF PInv
<1> QED BY <1>1, <1>2, <1>3, <1>4, <1>5 DEF Next

\* The table never runs out of what it needs on the stack, the level of nested calls is
\* the number of functions on the stack, and an accepted expression leaves its tree alone:
\* precedence_parser.c:1154, 1203 and 1233, for every source and every type inference.
THEOREM StackStaysSound == Spec => []StackIsSound
<1>1. Spec => []PInv BY InitInv, NextInv, PTL DEF Spec
<1> QED BY <1>1, SoundIfInv, PTL
=============================================================================
