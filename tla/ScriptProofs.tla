---------------------------- MODULE ScriptProofs ----------------------------
(***************************************************************************)
(* What the parser makes of a script is what Dialogue reads in its lines,  *)
(* for every script of the language: the statements of the main block and  *)
(* of every body (parse, parse_lines), the tokens that belong to an        *)
(* expression, and the value that they have (parse_RPN).                   *)
(*                                                                         *)
(* A recursive function of Syntax or Dialogue is known by one turn of its  *)
(* recursion (BlockAt, MainAt, AfterAt, WaitAt): that there is a function  *)
(* with this turn is proved by induction on the index, from its last value *)
(* down.                                                                   *)
(***************************************************************************)
EXTENDS Interp, SequenceTheorems, Induction, TLAPS
LOCAL INSTANCE FiniteSetsExt

-----------------------------------------------------------------------------
(* Sequences of anything. *)
Sequence(s) == \E S : s \in Seq(S)

LEMMA EmptySequence == Sequence(<<>>)
<1>1. <<>> \in Seq({})
  OBVIOUS
<1> QED
  BY <1>1 DEF Sequence

LEMMA OneSequence == ASSUME NEW x PROVE Sequence(<<x>>) /\ Len(<<x>>) = 1
<1>1. <<x>> \in Seq({x})
  OBVIOUS
<1> QED
  BY <1>1 DEF Sequence

LEMMA TwoSequences ==
    ASSUME NEW a, NEW b, Sequence(a), Sequence(b)
    PROVE  \E S : a \in Seq(S) /\ b \in Seq(S)
<1>1. PICK A : a \in Seq(A)
  BY DEF Sequence
<1>2. PICK B : b \in Seq(B)
  BY DEF Sequence
<1>3. a \in Seq(A \cup B) /\ b \in Seq(A \cup B)
  BY <1>1, <1>2
<1> QED
  BY <1>3

LEMMA Elems ==
    ASSUME NEW s, Sequence(s)
    PROVE  Len(s) \in Nat /\ DOMAIN s = 1..Len(s) /\ s = [i \in 1..Len(s) |-> s[i]]
<1>1. PICK S : s \in Seq(S)
  BY DEF Sequence
<1> QED
  BY <1>1

LEMMA CatSequence ==
    ASSUME NEW a, NEW b, Sequence(a), Sequence(b)
    PROVE  Sequence(a \o b) /\ Len(a \o b) = Len(a) + Len(b)
<1>1. PICK S : a \in Seq(S) /\ b \in Seq(S)
  BY TwoSequences
<1>2. a \o b \in Seq(S) /\ Len(a \o b) = Len(a) + Len(b)
  BY <1>1
<1> QED
  BY <1>2 DEF Sequence

LEMMA CatEmpty == ASSUME NEW s, Sequence(s) PROVE <<>> \o s = s /\ s \o <<>> = s
<1>1. PICK S : s \in Seq(S)
  BY DEF Sequence
<1> QED
  BY <1>1

Cat(a, b) == a \o b

LEMMA CatJoin ==
    ASSUME NEW a, NEW b, NEW c, Sequence(a), Sequence(b), Sequence(c)
    PROVE  Cat(Cat(a, b), c) = Cat(a, Cat(b, c))
<1>1. PICK S : a \in Seq(S) /\ b \in Seq(S)
  BY TwoSequences
<1>2. PICK C : c \in Seq(C)
  BY DEF Sequence
<1> DEFINE T == S \cup C
<1>3. a \in Seq(T) /\ b \in Seq(T) /\ c \in Seq(T)
  BY <1>1, <1>2
<1> HIDE DEF T
<1> QED
  BY <1>3 DEF Cat

LEMMA ConsParts ==
    ASSUME NEW x, NEW s, Sequence(s)
    PROVE  /\ Sequence(<<x>> \o s) /\ Len(<<x>> \o s) = Len(s) + 1
           /\ <<x>> \o s # <<>> /\ (<<x>> \o s)[1] = x
           /\ Head(<<x>> \o s) = x /\ Tail(<<x>> \o s) = s
           /\ s # <<>> => (<<x>> \o s)[2] = s[1]
<1>1. PICK S : s \in Seq(S)
  BY DEF Sequence
<1> DEFINE T == S \cup {x}
<1>2. s \in Seq(T) /\ x \in T
  BY <1>1
<1> HIDE DEF T
<1>3. <<x>> \o s \in Seq(T)
  BY <1>2
<1> QED
  BY <1>2, <1>3 DEF Sequence

LEMMA TailParts ==
    ASSUME NEW s, Sequence(s), s # <<>>
    PROVE  Sequence(Tail(s)) /\ Len(Tail(s)) = Len(s) - 1 /\ s = <<s[1]>> \o Tail(s)
           /\ \A i \in 1..Len(s) - 1 : Tail(s)[i] = s[i + 1]
<1>1. PICK S : s \in Seq(S)
  BY DEF Sequence
<1>2. Tail(s) \in Seq(S)
  BY <1>1
<1> QED
  BY <1>1, <1>2 DEF Sequence

-----------------------------------------------------------------------------
(* What is put together from an index on to the end. *)
Joins(f, g, a, n) ==
    /\ DOMAIN f = a..n + 1 /\ f[n + 1] = <<>>
    /\ \A i \in a..n : f[i] = g[i] \o f[i + 1]

Joined(f, g, a, n) ==
    f = [i \in a..n + 1 |-> IF i > n THEN <<>> ELSE g[i] \o f[i + 1]]

LEMMA JoinedExists ==
    ASSUME NEW a \in Int, NEW n \in Int, NEW g
    PROVE  \E f : Joined(f, g, a, n)
<1> DEFINE At(f, m, i) == IF i > n THEN <<>> ELSE IF i > n - m THEN g[i] \o f[i + 1] ELSE <<>>
           Up(f, m) == f = [i \in a..n + 1 |-> f[i]] /\ \A i \in a..n + 1 : f[i] = At(f, m, i)
           T == {m \in Nat : \E f : Up(f, m)}
<1>1. 0 \in T
  <2>1. Up([i \in a..n + 1 |-> <<>>], 0)
    OBVIOUS
  <2> QED
    BY <2>1
<1>2. ASSUME NEW m \in Nat, m \in T PROVE m + 1 \in T
  <2>1. PICK f : Up(f, m)
    BY <1>2
  <2> DEFINE h == [i \in a..n + 1 |-> IF i = n - m THEN g[i] \o f[i + 1] ELSE f[i]]
  <2>2. ASSUME NEW i \in a..n + 1 PROVE h[i] = At(h, m + 1, i)
    <3>1. CASE i > n
      <4>1. i # n - m
        BY <3>1
      <4>2. h[i] = f[i] /\ f[i] = <<>>
        BY <2>1, <3>1, <4>1
      <4> QED
        BY <3>1, <4>2
    <3>2. CASE i = n - m /\ i <= n
      <4>1. i + 1 \in a..n + 1 /\ i + 1 # n - m
        BY <3>2
      <4>2. h[i + 1] = f[i + 1] /\ h[i] = g[i] \o f[i + 1]
        BY <3>2, <4>1
      <4>3. ~(i > n) /\ i > n - (m + 1)
        BY <3>2
      <4> HIDE DEF h
      <4> QED
        BY <4>2, <4>3
    <3>3. CASE i > n - m /\ i <= n
      <4>1. i + 1 \in a..n + 1 /\ i + 1 # n - m
        BY <3>3
      <4>2. h[i + 1] = f[i + 1] /\ h[i] = f[i]
        BY <3>3, <4>1
      <4> HIDE DEF h
      <4>3. f[i] = g[i] \o f[i + 1]
        <5>1. f[i] = At(f, m, i)
          BY <2>1, Zenon
        <5>2. ~(i > n) /\ i > n - m
          BY <3>3
        <5> QED
          BY <5>1, <5>2, Zenon
      <4>4. ~(i > n) /\ i > n - (m + 1)
        BY <3>3
      <4> QED
        BY <4>2, <4>3, <4>4
    <3>4. CASE i < n - m /\ i <= n
      <4>1. h[i] = f[i] /\ f[i] = <<>>
        <5>1. f[i] = At(f, m, i)
          BY <2>1, Zenon
        <5>2. ~(i > n) /\ ~(i > n - m) /\ i # n - m
          BY <3>4
        <5>3. f[i] = <<>>
          BY <5>1, <5>2, Zenon
        <5>4. h[i] = f[i]
          BY <5>2, Zenon
        <5> QED
          BY <5>3, <5>4
      <4>2. ~(i > n) /\ ~(i > n - (m + 1))
        BY <3>4
      <4> HIDE DEF h
      <4> QED
        BY <4>1, <4>2
    <3> QED
      BY <3>1, <3>2, <3>3, <3>4
  <2>3. Up(h, m + 1)
    <3>1. h = [i \in a..n + 1 |-> h[i]]
      OBVIOUS
    <3> HIDE DEF h
    <3> QED
      BY <2>2, <3>1
  <2> HIDE DEF h, Up
  <2> QED
    BY <2>3
<1>3. Nat \subseteq T
  <2> HIDE DEF T
  <2> QED
    BY <1>1, <1>2, NatInd
<1>4. PICK m \in Nat : n - m < a
  <2>1. CASE a > n
    BY <2>1, n - 0 < a
  <2>2. CASE a <= n
    <3>1. n - a + 1 \in Nat /\ n - (n - a + 1) < a
      BY <2>2
    <3> QED
      BY <3>1
  <2> QED
    BY <2>1, <2>2
<1>5. PICK f : Up(f, m)
  BY <1>3
<1> DEFINE e(i) == IF i > n THEN <<>> ELSE g[i] \o f[i + 1]
<1>6. \A i \in a..n + 1 : f[i] = e(i)
  <2> TAKE i \in a..n + 1
  <2>1. f[i] = At(f, m, i)
    BY <1>5, Zenon
  <2>2. i > n - m
    BY <1>4
  <2> QED
    BY <2>1, <2>2, Zenon
<1>7. f = [i \in a..n + 1 |-> f[i]]
  BY <1>5
<1> HIDE DEF e
<1>8. f = [i \in a..n + 1 |-> e(i)]
  BY <1>6, <1>7
<1> QED
  BY <1>8 DEF e, Joined

LEMMA JoinsSequence ==
    ASSUME NEW a \in Int, NEW n \in Int, NEW g, NEW f, Joins(f, g, a, n),
           \A i \in a..n : Sequence(g[i])
    PROVE  \A i \in a..n + 1 : Sequence(f[i])
<1> DEFINE T == {m \in Nat : \A i \in a..n + 1 : i > n - m => Sequence(f[i])}
<1>1. 0 \in T
  <2>1. \A i \in a..n + 1 : i > n - 0 => i = n + 1
    OBVIOUS
  <2> QED
    BY <2>1, EmptySequence DEF Joins
<1>2. ASSUME NEW m \in Nat, m \in T PROVE m + 1 \in T
  <2> SUFFICES ASSUME NEW i \in a..n + 1, i > n - (m + 1) PROVE Sequence(f[i])
    OBVIOUS
  <2>1. CASE i > n - m
    BY <1>2, <2>1
  <2>2. CASE i = n - m
    <3>1. (i \in a..n /\ i + 1 \in a..n + 1 /\ i + 1 > n - m) \/ i = n + 1
      BY <2>2
    <3>2. CASE i = n + 1
      BY <3>2, EmptySequence DEF Joins
    <3>3. CASE i \in a..n /\ i + 1 \in a..n + 1 /\ i + 1 > n - m
      <4>1. Sequence(f[i + 1]) /\ Sequence(g[i]) /\ f[i] = g[i] \o f[i + 1]
        BY <1>2, <3>3 DEF Joins
      <4> QED
        BY <4>1, CatSequence
    <3> QED
      BY <3>1, <3>2, <3>3
  <2> QED
    BY <2>1, <2>2
<1> HIDE DEF T
<1>3. Nat \subseteq T
  BY <1>1, <1>2, NatInd
<1> SUFFICES ASSUME NEW i \in a..n + 1 PROVE Sequence(f[i])
  OBVIOUS
<1>4. n + 1 - i \in Nat /\ i > n - (n + 1 - i)
  OBVIOUS
<1> QED
  BY <1>3, <1>4 DEF T

(* The same from the same index on, wherever it begins and however it is numbered. *)
LEMMA JoinsSame ==
    ASSUME NEW a \in Int, NEW n \in Int, NEW g, NEW f, Joins(f, g, a, n),
           NEW b \in Int, NEW m \in Int, NEW k, NEW h, Joins(h, k, b, m),
           NEW d \in Int, m + d = n, b + d >= a, \A i \in b..m : k[i] = g[i + d]
    PROVE  \A i \in b..m + 1 : h[i] = f[i + d]
<1> DEFINE T == {c \in Nat : \A i \in b..m + 1 : i > m - c => h[i] = f[i + d]}
<1>1. 0 \in T
  <2>1. \A i \in b..m + 1 : i > m - 0 => i = m + 1 /\ i + d = n + 1
    OBVIOUS
  <2> QED
    BY <2>1 DEF Joins
<1>2. ASSUME NEW c \in Nat, c \in T PROVE c + 1 \in T
  <2> SUFFICES ASSUME NEW i \in b..m + 1, i > m - (c + 1) PROVE h[i] = f[i + d]
    OBVIOUS
  <2>1. CASE i > m - c
    BY <1>2, <2>1
  <2>2. CASE i = m + 1
    BY <2>2 DEF Joins
  <2>3. CASE i = m - c /\ i # m + 1
    <3>1. /\ i \in b..m /\ i + 1 \in b..m + 1 /\ i + 1 > m - c
          /\ i + d \in a..n /\ (i + d) + 1 = (i + 1) + d
      BY <2>3
    <3>2. h[i] = k[i] \o h[i + 1] /\ f[i + d] = g[i + d] \o f[(i + d) + 1]
      BY <3>1 DEF Joins
    <3>3. k[i] = g[i + d] /\ h[i + 1] = f[(i + 1) + d]
      BY <1>2, <3>1
    <3> QED
      BY <3>1, <3>2, <3>3
  <2> QED
    BY <2>1, <2>2, <2>3
<1> HIDE DEF T
<1>3. Nat \subseteq T
  BY <1>1, <1>2, NatInd
<1> SUFFICES ASSUME NEW i \in b..m + 1 PROVE h[i] = f[i + d]
  OBVIOUS
<1>4. m + 1 - i \in Nat /\ i > m - (m + 1 - i)
  OBVIOUS
<1> QED
  BY <1>3, <1>4 DEF T

LEMMA JoinsPointwise ==
    ASSUME NEW a \in Int, NEW n \in Int, NEW g, NEW f, a <= n + 1,
           Joined(f, g, a, n)
    PROVE  Joins(f, g, a, n)
<1> USE DEF Joined
<1>1. n + 1 \in a..n + 1 /\ n + 1 > n
  OBVIOUS
<1>2. \A i \in a..n : i \in a..n + 1 /\ ~(i > n)
  OBVIOUS
<1>3. DOMAIN f = a..n + 1 /\ f[n + 1] = <<>>
  BY <1>1
<1>4. \A i \in a..n : f[i] = g[i] \o f[i + 1]
  BY <1>2
<1> QED
  BY <1>3, <1>4 DEF Joins

(* The lines that a stack leaves to do. *)
EachLeft(s) == [i \in 1..Len(s) |-> LinesOf(s[i])]

LEMMA LeftIs ==
    ASSUME NEW s, Len(s) \in Nat
    PROVE  \E f : Joins(f, EachLeft(s), 1, Len(s)) /\ LinesLeft(s) = f[1]
<1> DEFINE n == Len(s)
           g == EachLeft(s)
           P(f) == f = [i \in 1..Len(s) + 1 |->
                            IF i > Len(s) THEN <<>> ELSE LinesOf(s[i]) \o f[i + 1]]
           h == CHOOSE f : P(f)
<1>1. PICK f : Joined(f, g, 1, n)
  <2>1. n \in Int /\ 1 \in Int
    OBVIOUS
  <2> HIDE DEF n, g
  <2> QED
    BY <2>1, JoinedExists
<1>2. \A i \in 1..n + 1 : i > n \/ g[i] = LinesOf(s[i])
  BY DEF EachLeft
<1>3. P(f)
  BY <1>1, <1>2 DEF Joined
<1>4. P(h)
  <2> HIDE DEF P
  <2> QED
    BY <1>3
<1>5. LinesLeft(s) = h[1]
  BY DEF LinesLeft
<1>6. Joined(h, g, 1, n)
  <2>1. PICK k : k = h
    OBVIOUS
  <2>2. P(k)
    BY <1>4, <2>1
  <2> HIDE DEF h, g
  <2>3. Joined(k, g, 1, n)
    BY <1>2, <2>2 DEF Joined
  <2> QED
    BY <2>1, <2>3
<1> HIDE DEF h, g
<1>7. Joins(h, g, 1, n)
  <2>1. n \in Int /\ 1 \in Int /\ 1 <= n + 1
    OBVIOUS
  <2> HIDE DEF n
  <2> QED
    BY <1>6, <2>1, JoinsPointwise
<1> QED
  BY <1>5, <1>7 DEF g

LEMMA LeftEmpty == LinesLeft(<<>>) = <<>>
<1>1. Len(<<>>) = 0
  OBVIOUS
<1>2. PICK f : Joins(f, EachLeft(<<>>), 1, 0) /\ LinesLeft(<<>>) = f[1]
  BY <1>1, LeftIs
<1> QED
  BY <1>2 DEF Joins

LEMMA LeftCons ==
    ASSUME NEW e, NEW s, Sequence(s)
    PROVE  LinesLeft(<<e>> \o s) = LinesOf(e) \o LinesLeft(s)
<1> DEFINE t == <<e>> \o s
           n == Len(s)
<1>1. n \in Nat /\ Sequence(t) /\ Len(t) = n + 1 /\ t[1] = e /\ Tail(t) = s /\ t # <<>>
  BY Elems, ConsParts
<1>2. \A i \in 1..n : s[i] = t[i + 1]
  BY <1>1, TailParts
<1> HIDE DEF t
<1>3. PICK f : Joins(f, EachLeft(t), 1, n + 1) /\ LinesLeft(t) = f[1]
  <2>1. Len(t) \in Nat
    BY <1>1
  <2> HIDE DEF n
  <2> QED
    BY <1>1, <2>1, LeftIs
<1>4. PICK h : Joins(h, EachLeft(s), 1, n) /\ LinesLeft(s) = h[1]
  BY <1>1, LeftIs
<1>5. \A i \in 1..n : EachLeft(s)[i] = EachLeft(t)[i + 1]
  BY <1>1, <1>2 DEF EachLeft
<1>6. h[1] = f[2]
  <2>1. n \in Int /\ n + 1 \in Int /\ 1 \in Int /\ 1 + 1 >= 1
    BY <1>1
  <2> DEFINE g == EachLeft(t)
             k == EachLeft(s)
  <2>2. /\ Joins(f, g, 1, n + 1) /\ Joins(h, k, 1, n)
        /\ \A i \in 1..n : k[i] = g[i + 1]
    BY <1>3, <1>4, <1>5
  <2> HIDE DEF g, k, n
  <2>3. \A i \in 1..n + 1 : h[i] = f[i + 1]
    BY <2>1, <2>2, JoinsSame
  <2>4. 1 \in 1..n + 1 /\ 1 + 1 = 2
    BY <1>1 DEF n
  <2> QED
    BY <2>3, <2>4
<1>7. f[1] = LinesOf(e) \o f[2]
  <2>1. 1 \in 1..n + 1 /\ EachLeft(t)[1] = LinesOf(e)
    BY <1>1 DEF EachLeft
  <2>2. f[1] = EachLeft(t)[1] \o f[1 + 1]
    BY <1>3, <2>1, Zenon DEF Joins
  <2>3. 1 + 1 = 2
    OBVIOUS
  <2> QED
    BY <2>1, <2>2, <2>3, Zenon
<1>8. LinesLeft(t) = LinesOf(e) \o LinesLeft(s)
  <2>1. LinesLeft(t) = f[1] /\ LinesLeft(s) = f[2]
    BY <1>3, <1>4, <1>6
  <2> QED
    BY <1>7, <2>1
<1> QED
  BY <1>8 DEF t

LEMMA LeftSequence ==
    ASSUME NEW s, Sequence(s), \A i \in 1..Len(s) : Sequence(LinesOf(s[i]))
    PROVE  Sequence(LinesLeft(s))
<1> DEFINE n == Len(s)
           g == EachLeft(s)
<1>1. n \in Nat
  BY Elems
<1>2. PICK f : Joins(f, g, 1, n) /\ LinesLeft(s) = f[1]
  BY <1>1, LeftIs
<1>3. \A i \in 1..n : Sequence(g[i])
  BY DEF EachLeft
<1>4. n \in Int /\ 1 \in Int /\ 1 \in 1..n + 1
  BY <1>1
<1> HIDE DEF n, g
<1> QED
  BY <1>2, <1>3, <1>4, JoinsSequence

(* The lines at a depth. *)
PlainLines(s, a, n, d) == [l \in a..n |-> IF D!Plain(s, l, d) THEN <<l>> ELSE <<>>]

LEMMA AtDepthIs ==
    ASSUME NEW s, NEW a \in Int, NEW n \in Int, a <= n + 1, NEW d
    PROVE  \E f : Joins(f, PlainLines(s, a, n, d), a, n) /\ D!AtDepth(s, a, n, d) = f[a]
<1> DEFINE g == PlainLines(s, a, n, d)
           P(f) == f = [l \in a..n + 1 |->
                            IF l > n THEN <<>>
                            ELSE (IF D!Plain(s, l, d) THEN <<l>> ELSE <<>>) \o f[l + 1]]
           h == CHOOSE f : P(f)
<1>1. PICK f : Joined(f, g, a, n)
  <2> HIDE DEF g
  <2> QED
    BY JoinedExists
<1>2. \A l \in a..n + 1 : l > n \/ g[l] = IF D!Plain(s, l, d) THEN <<l>> ELSE <<>>
  BY DEF PlainLines
<1>3. P(f)
  BY <1>1, <1>2 DEF Joined
<1>4. P(h)
  <2> HIDE DEF P
  <2> QED
    BY <1>3
<1>5. D!AtDepth(s, a, n, d) = h[a]
  BY DEF D!AtDepth
<1>6. Joined(h, g, a, n)
  <2>1. PICK k : k = h
    OBVIOUS
  <2>2. P(k)
    BY <1>4, <2>1
  <2> HIDE DEF h, g
  <2>3. Joined(k, g, a, n)
    BY <1>2, <2>2 DEF Joined
  <2> QED
    BY <2>1, <2>3
<1> HIDE DEF h, g
<1>7. Joins(h, g, a, n)
  BY <1>6, JoinsPointwise
<1> QED
  BY <1>5, <1>7 DEF g

(* A run of entries in front. *)
LEMMA LeftAppend ==
    ASSUME NEW s, Sequence(s), NEW a, Sequence(a),
           \A i \in 1..Len(a) : Sequence(LinesOf(a[i])),
           \A i \in 1..Len(s) : Sequence(LinesOf(s[i]))
    PROVE  LinesLeft(a \o s) = LinesLeft(a) \o LinesLeft(s)
<1> DEFINE Good(b) == Sequence(b) /\ \A i \in 1..Len(b) : Sequence(LinesOf(b[i]))
           T == {m \in Nat : \A b : Good(b) /\ Len(b) = m =>
                                LinesLeft(b \o s) = LinesLeft(b) \o LinesLeft(s)}
<1>1. Sequence(LinesLeft(s))
  BY LeftSequence
<1>2. 0 \in T
  <2> SUFFICES ASSUME NEW b, Good(b), Len(b) = 0
               PROVE  LinesLeft(b \o s) = LinesLeft(b) \o LinesLeft(s)
    OBVIOUS
  <2>1. b = <<>>
    <3>1. PICK S : b \in Seq(S)
      BY DEF Sequence
    <3> QED
      BY <3>1
  <2> QED
    BY <1>1, <2>1, LeftEmpty, CatEmpty
<1>3. ASSUME NEW m \in Nat, m \in T PROVE m + 1 \in T
  <2> SUFFICES ASSUME NEW b, Good(b), Len(b) = m + 1
               PROVE  LinesLeft(b \o s) = LinesLeft(b) \o LinesLeft(s)
    OBVIOUS
  <2> DEFINE c == Tail(b)
  <2>1. b # <<>>
    OBVIOUS
  <2>2. /\ Sequence(c) /\ Len(c) = m /\ b = <<b[1]>> \o c
        /\ \A i \in 1..m : c[i] = b[i + 1]
    BY <2>1, TailParts
  <2>3. 1 \in 1..Len(b) /\ \A i \in 1..m : i + 1 \in 1..Len(b)
    OBVIOUS
  <2>4. Good(c)
    BY <2>2, <2>3
  <2> HIDE DEF c
  <2>5. LinesLeft(c \o s) = LinesLeft(c) \o LinesLeft(s)
    BY <1>3, <2>2, <2>4
  <2>6. LinesLeft(b) = LinesOf(b[1]) \o LinesLeft(c)
    BY <2>2, LeftCons
  <2>7. b \o s = <<b[1]>> \o (c \o s)
    <3>1. PICK x : x = <<b[1]>>
      OBVIOUS
    <3>2. Sequence(x) /\ b = x \o c
      BY <2>2, <3>1, OneSequence
    <3>3. Cat(Cat(x, c), s) = Cat(x, Cat(c, s))
      BY <2>2, <3>2, CatJoin
    <3> QED
      BY <3>1, <3>2, <3>3 DEF Cat
  <2>8. LinesLeft(b \o s) = LinesOf(b[1]) \o LinesLeft(c \o s)
    BY <2>2, <2>7, CatSequence, LeftCons
  <2>9. Sequence(LinesLeft(c)) /\ Sequence(LinesOf(b[1]))
    BY <2>3, <2>4, LeftSequence
  <2>10. (LinesOf(b[1]) \o LinesLeft(c)) \o LinesLeft(s)
            = LinesOf(b[1]) \o (LinesLeft(c) \o LinesLeft(s))
    <3>1. PICK x : x = LinesOf(b[1])
      OBVIOUS
    <3>2. PICK y : y = LinesLeft(c)
      OBVIOUS
    <3>3. PICK z : z = LinesLeft(s)
      OBVIOUS
    <3>4. Sequence(x) /\ Sequence(y) /\ Sequence(z)
      BY <1>1, <2>9, <3>1, <3>2, <3>3
    <3>5. Cat(Cat(x, y), z) = Cat(x, Cat(y, z))
      BY <3>4, CatJoin
    <3> QED
      BY <3>1, <3>2, <3>3, <3>5 DEF Cat
  <2> QED
    BY <2>5, <2>6, <2>8, <2>10, Zenon
<1> HIDE DEF T
<1>4. Nat \subseteq T
  BY <1>2, <1>3, NatInd
<1>5. Len(a) \in Nat
  BY Elems
<1> QED
  BY <1>4, <1>5 DEF T

(* Entries of which each leaves one line to do, or none. *)
LEMMA LeftEach ==
    ASSUME NEW a, Sequence(a), NEW v, Sequence(v), Len(v) = Len(a),
           \A i \in 1..Len(a) : LinesOf(a[i]) = <<v[i]>>
    PROVE  LinesLeft(a) = v
<1> DEFINE Good(b, w) == /\ Sequence(b) /\ Sequence(w) /\ Len(w) = Len(b)
                         /\ \A i \in 1..Len(b) : LinesOf(b[i]) = <<w[i]>>
           T == {m \in Nat : \A b, w : Good(b, w) /\ Len(b) = m => LinesLeft(b) = w}
<1>1. 0 \in T
  <2> SUFFICES ASSUME NEW b, NEW w, Good(b, w), Len(b) = 0 PROVE LinesLeft(b) = w
    OBVIOUS
  <2>1. PICK S : b \in Seq(S) /\ w \in Seq(S)
    BY TwoSequences
  <2>2. b = <<>> /\ w = <<>>
    BY <2>1
  <2> QED
    BY <2>2, LeftEmpty
<1>2. ASSUME NEW m \in Nat, m \in T PROVE m + 1 \in T
  <2> SUFFICES ASSUME NEW b, NEW w, Good(b, w), Len(b) = m + 1 PROVE LinesLeft(b) = w
    OBVIOUS
  <2> DEFINE c == Tail(b)
             x == Tail(w)
  <2>1. b # <<>> /\ w # <<>>
    OBVIOUS
  <2>2. /\ Sequence(c) /\ Len(c) = m /\ b = <<b[1]>> \o c
        /\ \A i \in 1..m : c[i] = b[i + 1]
    BY <2>1, TailParts
  <2>3. /\ Sequence(x) /\ Len(x) = m /\ w = <<w[1]>> \o x
        /\ \A i \in 1..m : x[i] = w[i + 1]
    BY <2>1, TailParts
  <2>4. 1 \in 1..Len(b) /\ \A i \in 1..m : i + 1 \in 1..Len(b)
    OBVIOUS
  <2>5. Good(c, x)
    BY <2>2, <2>3, <2>4
  <2> HIDE DEF c, x
  <2>6. LinesLeft(c) = x
    BY <1>2, <2>2, <2>5
  <2>7. LinesLeft(b) = LinesOf(b[1]) \o LinesLeft(c)
    BY <2>2, LeftCons
  <2>8. LinesOf(b[1]) = <<w[1]>>
    BY <2>4
  <2> QED
    BY <2>3, <2>6, <2>7, <2>8
<1> HIDE DEF T
<1>3. Nat \subseteq T
  BY <1>1, <1>2, NatInd
<1>4. Len(a) \in Nat
  BY Elems
<1> QED
  BY <1>3, <1>4 DEF T

LEMMA LeftNone ==
    ASSUME NEW a, Sequence(a), \A i \in 1..Len(a) : LinesOf(a[i]) = <<>>
    PROVE  LinesLeft(a) = <<>>
<1> DEFINE Good(b) == Sequence(b) /\ \A i \in 1..Len(b) : LinesOf(b[i]) = <<>>
           T == {m \in Nat : \A b : Good(b) /\ Len(b) = m => LinesLeft(b) = <<>>}
<1>1. 0 \in T
  <2> SUFFICES ASSUME NEW b, Good(b), Len(b) = 0 PROVE LinesLeft(b) = <<>>
    OBVIOUS
  <2>1. PICK S : b \in Seq(S)
    BY DEF Sequence
  <2>2. b = <<>>
    BY <2>1
  <2> QED
    BY <2>2, LeftEmpty
<1>2. ASSUME NEW m \in Nat, m \in T PROVE m + 1 \in T
  <2> SUFFICES ASSUME NEW b, Good(b), Len(b) = m + 1 PROVE LinesLeft(b) = <<>>
    OBVIOUS
  <2> DEFINE c == Tail(b)
  <2>1. b # <<>>
    OBVIOUS
  <2>2. /\ Sequence(c) /\ Len(c) = m /\ b = <<b[1]>> \o c
        /\ \A i \in 1..m : c[i] = b[i + 1]
    BY <2>1, TailParts
  <2>4. 1 \in 1..Len(b) /\ \A i \in 1..m : i + 1 \in 1..Len(b)
    OBVIOUS
  <2>5. Good(c)
    BY <2>2, <2>4
  <2> HIDE DEF c
  <2>6. LinesLeft(c) = <<>>
    BY <1>2, <2>2, <2>5
  <2>7. LinesLeft(b) = LinesOf(b[1]) \o LinesLeft(c)
    BY <2>2, LeftCons
  <2>8. LinesOf(b[1]) = <<>>
    BY <2>4
  <2> QED
    BY <2>6, <2>7, <2>8, EmptySequence, CatEmpty
<1> HIDE DEF T
<1>3. Nat \subseteq T
  BY <1>1, <1>2, NatInd
<1>4. Len(a) \in Nat
  BY Elems
<1> QED
  BY <1>3, <1>4 DEF T

-----------------------------------------------------------------------------
(* The lines of a body, taken from the first. *)
LEMMA PlainSequence == \A s, a, n, d : \A l \in a..n : Sequence(PlainLines(s, a, n, d)[l])
BY EmptySequence, OneSequence DEF PlainLines

LEMMA AtDepthSequence ==
    ASSUME NEW s, NEW a \in Int, NEW n \in Int, a <= n + 1, NEW d
    PROVE  Sequence(D!AtDepth(s, a, n, d))
<1> DEFINE g == PlainLines(s, a, n, d)
<1>1. PICK f : Joins(f, g, a, n) /\ D!AtDepth(s, a, n, d) = f[a]
  BY AtDepthIs
<1>2. \A l \in a..n : Sequence(g[l])
  BY PlainSequence
<1>3. a \in a..n + 1
  OBVIOUS
<1> HIDE DEF g
<1>4. \A l \in a..n + 1 : Sequence(f[l])
  BY <1>1, <1>2, JoinsSequence
<1> QED
  BY <1>1, <1>3, <1>4

LEMMA AtDepthEnd ==
    ASSUME NEW s, NEW n \in Int, NEW d
    PROVE  D!AtDepth(s, n + 1, n, d) = <<>>
<1>1. n + 1 \in Int /\ n + 1 <= n + 1
  OBVIOUS
<1>2. PICK a \in Int : a = n + 1 /\ a <= n + 1
  BY <1>1
<1>3. PICK f : Joins(f, PlainLines(s, a, n, d), a, n) /\ D!AtDepth(s, a, n, d) = f[a]
  BY <1>2, AtDepthIs
<1> QED
  BY <1>2, <1>3 DEF Joins

LEMMA AtDepthStep ==
    ASSUME NEW s, NEW a \in Int, NEW n \in Int, a <= n, NEW d
    PROVE  /\ Sequence(D!AtDepth(s, a + 1, n, d))
           /\ D!Plain(s, a, d) =>
                D!AtDepth(s, a, n, d) = <<a>> \o D!AtDepth(s, a + 1, n, d)
           /\ ~D!Plain(s, a, d) =>
                D!AtDepth(s, a, n, d) = D!AtDepth(s, a + 1, n, d)
<1> DEFINE g == PlainLines(s, a, n, d)
<1>1. PICK f : Joins(f, g, a, n) /\ D!AtDepth(s, a, n, d) = f[a]
  BY AtDepthIs, a <= n + 1
<1>2. PICK b \in Int : b = a + 1 /\ b <= n + 1
  OBVIOUS
<1> DEFINE k == PlainLines(s, b, n, d)
<1>3. PICK h : Joins(h, k, b, n) /\ D!AtDepth(s, b, n, d) = h[b]
  BY <1>2, AtDepthIs
<1>4. \A i \in b..n : k[i] = g[i + 0]
  <2> TAKE i \in b..n
  <2>1. i + 0 = i /\ i \in a..n
    BY <1>2
  <2> QED
    BY <2>1 DEF PlainLines
<1>5. g[a] = IF D!Plain(s, a, d) THEN <<a>> ELSE <<>>
  <2>1. a \in a..n
    OBVIOUS
  <2> QED
    BY <2>1 DEF PlainLines
<1> HIDE DEF g, k
<1>6. \A i \in b..n + 1 : h[i] = f[i + 0]
  <2>1. 0 \in Int /\ n + 0 = n /\ b + 0 >= a
    BY <1>2
  <2> QED
    BY <1>1, <1>3, <1>4, <2>1, JoinsSame
<1>7. h[b] = f[b]
  <2>1. b \in b..n + 1 /\ b + 0 = b
    BY <1>2
  <2> QED
    BY <1>6, <2>1
<1>8. f[a] = g[a] \o f[b]
  <2>1. a \in a..n
    OBVIOUS
  <2> QED
    BY <1>1, <1>2, <2>1 DEF Joins
<1>9. Sequence(D!AtDepth(s, b, n, d))
  BY <1>2, AtDepthSequence
<1>10. D!AtDepth(s, a, n, d) = g[a] \o D!AtDepth(s, b, n, d)
  BY <1>1, <1>3, <1>7, <1>8
<1>11. CASE D!Plain(s, a, d)
  BY <1>2, <1>5, <1>9, <1>10, <1>11
<1>12. CASE ~D!Plain(s, a, d)
  <2>1. D!AtDepth(s, a, n, d) = <<>> \o D!AtDepth(s, b, n, d)
    BY <1>5, <1>10, <1>12
  <2> QED
    BY <1>2, <1>9, <1>12, <2>1, CatEmpty
<1> QED
  BY <1>11, <1>12

LEMMA AtDepthPass ==
    ASSUME NEW s, NEW a \in Int, NEW n \in Int, a <= n, NEW d, ~D!Plain(s, a, d)
    PROVE  D!AtDepth(s, a, n, d) = D!AtDepth(s, a + 1, n, d)
BY AtDepthStep

LEMMA AtDepthSkip ==
    ASSUME NEW s, NEW a \in Int, NEW n \in Int, NEW d, NEW m \in Int, a <= m, m <= n + 1,
           \A l \in a..m - 1 : ~D!Plain(s, l, d)
    PROVE  D!AtDepth(s, a, n, d) = D!AtDepth(s, m, n, d)
<1> DEFINE T == {c \in Nat : a <= m - c => D!AtDepth(s, m - c, n, d) = D!AtDepth(s, m, n, d)}
<1>1. 0 \in T
  <2>1. m - 0 = m
    OBVIOUS
  <2> QED
    BY <2>1
<1>2. ASSUME NEW c \in Nat, c \in T PROVE c + 1 \in T
  <2> SUFFICES ASSUME a <= m - (c + 1)
               PROVE  D!AtDepth(s, m - (c + 1), n, d) = D!AtDepth(s, m, n, d)
    OBVIOUS
  <2>1. PICK b \in Int : b = m - (c + 1)
    OBVIOUS
  <2>2. b <= n /\ b \in a..m - 1 /\ b + 1 = m - c /\ a <= m - c
    BY <2>1
  <2>3. ~D!Plain(s, b, d)
    BY <2>2
  <2>5. D!AtDepth(s, b, n, d) = D!AtDepth(s, b + 1, n, d)
    <3>1. b <= n
      BY <2>2
    <3> HIDE DEF T
    <3> QED
      BY <2>3, <3>1, AtDepthPass
  <2>6. D!AtDepth(s, m - c, n, d) = D!AtDepth(s, m, n, d)
    BY <1>2, <2>2
  <2> QED
    BY <2>1, <2>2, <2>5, <2>6
<1> HIDE DEF T
<1>3. Nat \subseteq T
  BY <1>1, <1>2, NatInd
<1>4. PICK c \in Nat : c = m - a
  OBVIOUS
<1>5. a = m - c /\ a <= m - c
  BY <1>4
<1>6. c \in T
  BY <1>3
<1> QED
  BY <1>5, <1>6 DEF T

-----------------------------------------------------------------------------
(* Depths. *)
Turn(s, l) == IF D!Opens(s, l) THEN 1 ELSE IF D!Closes(s, l) THEN -1 ELSE 0

LEMMA DepthsExist ==
    ASSUME NEW n \in Nat, NEW g, \A k \in 1..n : g[k] \in Int
    PROVE  \E f \in [1..n + 1 -> Int] :
                f = [k \in 1..n + 1 |-> IF k = 1 THEN 0 ELSE f[k - 1] + g[k - 1]]
<1> DEFINE At(f, k) == IF k = 1 THEN 0 ELSE f[k - 1] + g[k - 1]
           Up(f, m) == \A k \in 1..m + 1 : k <= n + 1 => f[k] = At(f, k)
           T == {m \in Nat : \E f \in [1..n + 1 -> Int] : Up(f, m)}
<1>1. 0 \in T
  <2> DEFINE f == [k \in 1..n + 1 |-> 0]
  <2>1. f \in [1..n + 1 -> Int]
    OBVIOUS
  <2>2. Up(f, 0)
    <3>1. \A k \in 1..0 + 1 : k = 1
      OBVIOUS
    <3>2. 1 \in 1..n + 1
      OBVIOUS
    <3> QED
      BY <3>1, <3>2
  <2> HIDE DEF f, Up
  <2> QED
    BY <2>1, <2>2
<1>2. ASSUME NEW m \in Nat, m \in T PROVE m + 1 \in T
  <2>1. PICK f \in [1..n + 1 -> Int] : Up(f, m)
    BY <1>2
  <2>2. CASE m + 2 > n + 1
    <3>1. \A k \in 1..(m + 1) + 1 : k <= n + 1 => k \in 1..m + 1
      BY <2>2
    <3>2. Up(f, m + 1)
      BY <2>1, <3>1
    <3> HIDE DEF Up
    <3> QED
      BY <3>2
  <2>3. CASE m + 2 <= n + 1
    <3>1. m + 1 \in 1..n /\ m + 1 \in 1..n + 1 /\ m + 2 \in 1..n + 1
      BY <2>3
    <3>2. PICK v \in Int : v = f[m + 1] + g[m + 1]
      BY <3>1
    <3> DEFINE h == [f EXCEPT ![m + 2] = v]
    <3>3. h \in [1..n + 1 -> Int]
      OBVIOUS
    <3>4. \A k \in 1..m + 1 : k <= n + 1 => h[k] = f[k]
      OBVIOUS
    <3>5. h[m + 2] = v
      BY <3>1
    <3> HIDE DEF h
    <3>6. Up(h, m + 1)
      <4> SUFFICES ASSUME NEW k \in 1..(m + 1) + 1, k <= n + 1 PROVE h[k] = At(h, k)
        OBVIOUS
      <4>1. CASE k = m + 2
        <5>1. k # 1 /\ k - 1 = m + 1 /\ m + 1 \in 1..m + 1 /\ m + 1 <= n + 1
          BY <3>1, <4>1
        <5> QED
          BY <3>2, <3>4, <3>5, <4>1, <5>1
      <4>2. CASE k = 1
        BY <2>1, <3>4, <4>2
      <4>3. CASE k # 1 /\ k # m + 2
        <5>1. k \in 1..m + 1 /\ k - 1 \in 1..m + 1 /\ k - 1 <= n + 1
          BY <4>3
        <5>2. f[k] = f[k - 1] + g[k - 1]
          BY <2>1, <4>3, <5>1
        <5> QED
          BY <3>4, <4>3, <5>1, <5>2
      <4> QED
        BY <4>1, <4>2, <4>3
    <3> HIDE DEF Up
    <3> QED
      BY <3>3, <3>6
  <2> QED
    BY <2>2, <2>3
<1>3. n \in T
  <2> HIDE DEF T
  <2> QED
    BY <1>1, <1>2, NatInd
<1>4. PICK f \in [1..n + 1 -> Int] : Up(f, n)
  BY <1>3
<1>5. \A k \in 1..n + 1 : f[k] = At(f, k)
  BY <1>4
<1>6. f = [k \in 1..n + 1 |-> f[k]]
  OBVIOUS
<1> HIDE DEF Up
<1>7. f = [k \in 1..n + 1 |-> At(f, k)]
  <2> HIDE DEF At
  <2> QED
    BY <1>5, <1>6
<1> QED
  BY <1>7

LEMMA DepthStep ==
    ASSUME NEW s, Len(s) \in Nat
    PROVE  /\ \A l \in 1..Len(s) + 1 : D!Depth(s, l) \in Int
           /\ D!Depth(s, 1) = 0
           /\ \A l \in 1..Len(s) : D!Depth(s, l + 1) = D!Depth(s, l) + Turn(s, l)
<1> DEFINE n == Len(s)
           P(f) == f = [k \in 1..Len(s) + 1 |->
                IF k = 1 THEN 0
                ELSE f[k - 1] + (IF D!Opens(s, k - 1) THEN 1 ELSE IF D!Closes(s, k - 1) THEN -1 ELSE 0)]
           h == CHOOSE f : P(f)
           g == [k \in 1..n |-> Turn(s, k)]
<1>1. \A k \in 1..n : g[k] = Turn(s, k) /\ g[k] \in Int
  BY DEF Turn
<1>2. PICK f \in [1..n + 1 -> Int] :
            f = [k \in 1..n + 1 |-> IF k = 1 THEN 0 ELSE f[k - 1] + g[k - 1]]
  <2> HIDE DEF g
  <2> QED
    BY <1>1, DepthsExist
<1>3. \A k \in 1..n + 1 : k # 1 => k - 1 \in 1..n
  OBVIOUS
<1>4. P(f)
  <2>1. \A k \in 1..n + 1 : k # 1 => g[k - 1] =
            IF D!Opens(s, k - 1) THEN 1 ELSE IF D!Closes(s, k - 1) THEN -1 ELSE 0
    BY <1>3 DEF Turn
  <2> HIDE DEF g
  <2> QED
    BY <1>2, <2>1
<1>5. P(h)
  <2> HIDE DEF P
  <2> QED
    BY <1>4
<1>6. \A l \in 1..n + 1 : D!Depth(s, l) = h[l]
  BY DEF D!Depth
<1>7. PICK k : k = h
  OBVIOUS
<1>8. P(k)
  BY <1>5, <1>7
<1> HIDE DEF h
<1>9. k[1] = 0 /\ \A l \in 1..n : k[l + 1] = k[l] + Turn(s, l)
  <2>1. 1 \in 1..n + 1
    OBVIOUS
  <2>2. k[1] = 0
    BY <1>8, <2>1
  <2>3. \A l \in 1..n : l + 1 \in 1..n + 1 /\ l + 1 # 1 /\ (l + 1) - 1 = l
    OBVIOUS
  <2>4. \A l \in 1..n : k[l + 1] = k[l] + Turn(s, l)
    BY <1>8, <2>3 DEF Turn
  <2> QED
    BY <2>2, <2>4
<1> HIDE DEF P
<1>10. \A l \in 1..n + 1 : k[l] \in Int
  <2> DEFINE T == {m \in Nat : m + 1 <= n + 1 => k[m + 1] \in Int}
  <2>1. 0 \in T
    BY <1>9
  <2>2. ASSUME NEW m \in Nat, m \in T PROVE m + 1 \in T
    <3> SUFFICES ASSUME (m + 1) + 1 <= n + 1 PROVE k[(m + 1) + 1] \in Int
      OBVIOUS
    <3>1. m + 1 \in 1..n /\ k[m + 1] \in Int
      BY <2>2
    <3>2. Turn(s, m + 1) \in Int
      BY DEF Turn
    <3> QED
      BY <1>9, <3>1, <3>2
  <2> HIDE DEF T
  <2>3. Nat \subseteq T
    BY <2>1, <2>2, NatInd
  <2> SUFFICES ASSUME NEW l \in 1..n + 1 PROVE k[l] \in Int
    OBVIOUS
  <2>4. PICK m \in Nat : m = l - 1
    OBVIOUS
  <2>5. m + 1 = l /\ m + 1 <= n + 1 /\ m \in T
    BY <2>3, <2>4
  <2>6. k[m + 1] \in Int
    BY <2>5 DEF T
  <2> QED
    BY <2>5, <2>6
<1>11. 1 \in 1..n + 1 /\ \A l \in 1..n : l \in 1..n + 1 /\ l + 1 \in 1..n + 1
  OBVIOUS
<1> QED
  BY <1>6, <1>7, <1>9, <1>10, <1>11

-----------------------------------------------------------------------------
(* Blocks.  A script whose last line is not blank. *)
Ended(s) ==
    /\ Len(s) \in Nat /\ DOMAIN s = 1..Len(s)
    /\ Len(s) > 0 => s[Len(s)] # <<>>

LEMMA LineFromIs ==
    ASSUME NEW s, Ended(s), NEW k \in 1..Len(s)
    PROVE  /\ LineFrom(s, k) \in k..Len(s) /\ s[LineFrom(s, k)] # <<>>
           /\ \A i \in k..LineFrom(s, k) - 1 : s[i] = <<>>
<1> DEFINE T == {j \in k..Len(s) : s[j] # <<>>}
<1>1. T \subseteq Nat /\ T # {}
  <2>1. Len(s) \in T
    BY DEF Ended
  <2> QED
    BY <2>1 DEF Ended
<1>2. \E x \in T : \A y \in T : x <= y
  <2> HIDE DEF T
  <2> QED
    BY <1>1, Least
<1>3. LineFrom(s, k) = CHOOSE x \in T : \A y \in T : x <= y
  BY DEF LineFrom, Min
<1>4. LineFrom(s, k) \in T /\ \A y \in T : LineFrom(s, k) <= y
  <2> HIDE DEF T
  <2> QED
    BY <1>2, <1>3
<1>5. \A i \in k..LineFrom(s, k) - 1 : s[i] = <<>>
  <2> SUFFICES ASSUME NEW i \in k..LineFrom(s, k) - 1, s[i] # <<>> PROVE FALSE
    OBVIOUS
  <2>1. LineFrom(s, k) \in k..Len(s) /\ Len(s) \in Nat
    BY <1>4 DEF Ended
  <2>2. i \in T /\ i < LineFrom(s, k)
    BY <2>1
  <2> QED
    BY <1>4, <2>1, <2>2
<1> QED
  BY <1>4, <1>5

(* One turn of the recursion. *)
BlockAt(s, f, k) ==
    IF k > Len(s) THEN [nodes |-> <<>>, next |-> k]
    ELSE LET j    == LineFrom(s, k)
             rest == f[IF s[j][1] = "IF" THEN f[j + 1].next ELSE j + 1]
         IN IF Ends(s[j]) THEN [nodes |-> <<>>, next |-> j + 1]
            ELSE IF s[j][1] = "FUNC" THEN [nodes |-> <<>>, next |-> f[j + 1].next]
            ELSE [nodes |-> <<j>> \o rest.nodes, next |-> rest.next]

(* What is known of f beyond k settles it at k. *)
Ahead(s, f, k) == \A i \in k + 1..Len(s) + 1 : f[i].next \in i..Len(s) + 1

LEMMA BlockAtSame ==
    ASSUME NEW s, Ended(s), NEW k \in 1..Len(s) + 1, NEW f, NEW h, Ahead(s, f, k),
           \A i \in k + 1..Len(s) + 1 : h[i] = f[i]
    PROVE  BlockAt(s, h, k) = BlockAt(s, f, k) /\ BlockAt(s, f, k).next \in k..Len(s) + 1
<1>1. Len(s) \in Nat
  BY DEF Ended
<1>2. CASE k > Len(s)
  <2>1. k \in k..Len(s) + 1
    BY <1>1
  <2> QED
    BY <1>2, <2>1 DEF BlockAt
<1>3. CASE k <= Len(s)
  <2> DEFINE j == LineFrom(s, k)
             a == IF s[j][1] = "IF" THEN f[j + 1].next ELSE j + 1
             b == IF s[j][1] = "IF" THEN h[j + 1].next ELSE j + 1
  <2>1. j \in k..Len(s)
    BY <1>1, <1>3, LineFromIs
  <2> HIDE DEF j
  <2>2. j + 1 \in k + 1..Len(s) + 1
    BY <1>1, <2>1
  <2>3. h[j + 1] = f[j + 1] /\ f[j + 1].next \in j + 1..Len(s) + 1
    BY <2>2 DEF Ahead
  <2>4. a = b /\ a \in j + 1..Len(s) + 1
    BY <1>1, <2>1, <2>3
  <2> HIDE DEF a, b
  <2>5. a \in k + 1..Len(s) + 1
    BY <1>1, <2>1, <2>4
  <2>6. h[a] = f[a] /\ f[a].next \in a..Len(s) + 1
    BY <2>5 DEF Ahead
  <2> DEFINE B(g, c) == IF Ends(s[j]) THEN [nodes |-> <<>>, next |-> j + 1]
                        ELSE IF s[j][1] = "FUNC" THEN [nodes |-> <<>>, next |-> g[j + 1].next]
                        ELSE [nodes |-> <<j>> \o g[c].nodes, next |-> g[c].next]
  <2>7. BlockAt(s, f, k) = B(f, a)
    BY <1>1, <1>3 DEF BlockAt, j, a
  <2>8. BlockAt(s, h, k) = B(h, b)
    BY <1>1, <1>3 DEF BlockAt, j, b
  <2>9. B(h, b) = B(f, a)
    BY <2>3, <2>4, <2>6
  <2>10. B(f, a).next \in {j + 1, f[j + 1].next, f[a].next}
    OBVIOUS
  <2>11. {j + 1, f[j + 1].next, f[a].next} \subseteq k..Len(s) + 1
    BY <1>1, <2>1, <2>2, <2>3, <2>5, <2>6
  <2> HIDE DEF B
  <2> QED
    BY <2>7, <2>8, <2>9, <2>10, <2>11
<1> QED
  BY <1>1, <1>2, <1>3

BlockEq(s, f) == f = [k \in 1..Len(s) + 1 |-> BlockAt(s, f, k)]

LEMMA BlocksExist ==
    ASSUME NEW s, Ended(s)
    PROVE  \E f : BlockEq(s, f) /\ \A k \in 1..Len(s) + 1 : f[k].next \in k..Len(s) + 1
<1> DEFINE n == Len(s)
           Up(f, m) == /\ f = [k \in 1..n + 1 |-> f[k]]
                       /\ \A k \in 1..n + 1 : k > n + 1 - m =>
                            f[k] = BlockAt(s, f, k) /\ f[k].next \in k..n + 1
           T == {m \in Nat : \E f : Up(f, m)}
<1>1. n \in Nat
  BY DEF Ended
<1>2. 0 \in T
  <2>1. Up([k \in 1..n + 1 |-> 0], 0)
    BY <1>1
  <2> HIDE DEF Up
  <2> QED
    BY <2>1
<1>3. ASSUME NEW m \in Nat, m \in T PROVE m + 1 \in T
  <2>1. PICK f : Up(f, m)
    BY <1>3
  <2>2. PICK c \in Int : c = n + 1 - m
    <3> HIDE DEF n, T, Up
    <3>1. n + 1 - m \in Int
      BY <1>1
    <3> QED
      BY <3>1
  <2>3. CASE c < 1
    <3>1. Up(f, m + 1)
      <4>1. \A k \in 1..n + 1 : k > n + 1 - m
        BY <1>1, <2>2, <2>3
      <4> QED
        BY <2>1, <4>1
    <3> HIDE DEF Up
    <3> QED
      BY <3>1
  <2>4. CASE c >= 1
    <3> DEFINE v == BlockAt(s, f, c)
               h == [k \in 1..n + 1 |-> IF k = c THEN v ELSE f[k]]
    <3>1. c \in 1..n + 1
      BY <1>1, <2>2, <2>4
    <3>2. \A k \in 1..n + 1 : k # c => h[k] = f[k]
      OBVIOUS
    <3>3. h[c] = v
      BY <3>1
    <3>4. h = [k \in 1..n + 1 |-> h[k]]
      OBVIOUS
    <3> HIDE DEF h
    <3>5. ASSUME NEW k \in 1..n + 1, k >= c
          PROVE  Ahead(s, f, k) /\ \A i \in k + 1..n + 1 : h[i] = f[i]
      <4>1. \A i \in k + 1..n + 1 : i \in 1..n + 1 /\ i > n + 1 - m /\ i # c
        BY <1>1, <2>2, <3>1, <3>5
      <4> QED
        BY <2>1, <3>2, <4>1 DEF Ahead
    <3>6. ASSUME NEW k \in 1..n + 1, k >= c
          PROVE  BlockAt(s, h, k) = BlockAt(s, f, k) /\ BlockAt(s, f, k).next \in k..n + 1
      BY <3>5, <3>6, BlockAtSame
    <3>7. Up(h, m + 1)
      <4> SUFFICES ASSUME NEW k \in 1..n + 1, k > n + 1 - (m + 1)
                   PROVE  h[k] = BlockAt(s, h, k) /\ h[k].next \in k..n + 1
        BY <3>4
      <4>1. k >= c
        BY <1>1, <2>2
      <4>2. h[k] = BlockAt(s, f, k)
        <5>1. CASE k = c
          BY <3>3, <5>1
        <5>2. CASE k # c
          <6>1. k > n + 1 - m
            BY <2>2, <4>1, <5>2
          <6> QED
            BY <2>1, <3>2, <5>2, <6>1
        <5> QED
          BY <5>1, <5>2
      <4> QED
        BY <3>6, <4>1, <4>2
    <3> HIDE DEF Up
    <3> QED
      BY <3>7
  <2> QED
    BY <2>2, <2>3, <2>4
<1>4. n + 1 \in T
  <2> HIDE DEF T
  <2> QED
    BY <1>1, <1>2, <1>3, NatInd
<1>5. PICK f : Up(f, n + 1)
  BY <1>4
<1>6. \A k \in 1..n + 1 : f[k] = BlockAt(s, f, k) /\ f[k].next \in k..n + 1
  BY <1>1, <1>5
<1>7. f = [k \in 1..n + 1 |-> f[k]]
  BY <1>5
<1> HIDE DEF Up
<1>8. f = [k \in 1..n + 1 |-> BlockAt(s, f, k)]
  BY <1>6, <1>7
<1> QED
  BY <1>6, <1>8 DEF BlockEq

LEMMA BlockFromIs ==
    ASSUME NEW s, Ended(s)
    PROVE  /\ \A k \in 1..Len(s) + 1 : BlockFrom(s)[k] = BlockAt(s, BlockFrom(s), k)
           /\ \A k \in 1..Len(s) + 1 : BlockFrom(s)[k].next \in k..Len(s) + 1
<1>1. PICK f : BlockEq(s, f)
  BY BlocksExist
<1>2. BlockFrom(s) = CHOOSE block : BlockEq(s, block)
  BY DEF BlockFrom, BlockEq, BlockAt
<1>3. BlockEq(s, BlockFrom(s))
  BY <1>1, <1>2
<1>4. \A k \in 1..Len(s) + 1 : BlockFrom(s)[k] = BlockAt(s, BlockFrom(s), k)
  <2>1. PICK g : g = BlockFrom(s)
    OBVIOUS
  <2>2. g = [k \in 1..Len(s) + 1 |-> BlockAt(s, g, k)]
    BY <1>3, <2>1 DEF BlockEq
  <2>3. \A k \in 1..Len(s) + 1 : g[k] = BlockAt(s, g, k)
    BY <2>2
  <2> QED
    BY <2>1, <2>3
<1> DEFINE n == Len(s)
           g == BlockFrom(s)
           T == {m \in Nat : \A k \in 1..n + 1 : k > n + 1 - m => g[k].next \in k..n + 1}
<1>5. n \in Nat
  BY DEF Ended
<1>6. 0 \in T
  BY <1>5
<1>7. ASSUME NEW m \in Nat, m \in T PROVE m + 1 \in T
  <2> SUFFICES ASSUME NEW k \in 1..n + 1, k > n + 1 - (m + 1) PROVE g[k].next \in k..n + 1
    OBVIOUS
  <2>1. \A i \in k + 1..n + 1 : i \in 1..n + 1 /\ i > n + 1 - m
    BY <1>5
  <2>2. Ahead(s, g, k)
    BY <1>7, <2>1 DEF Ahead
  <2>3. BlockAt(s, g, k).next \in k..n + 1
    <3> HIDE DEF g
    <3> QED
      BY <2>2, BlockAtSame
  <2> QED
    BY <1>4, <2>3
<1>8. n + 1 \in T
  <2> HIDE DEF T
  <2> QED
    BY <1>5, <1>6, <1>7, NatInd
<1>9. \A k \in 1..n + 1 : g[k].next \in k..n + 1
  BY <1>5, <1>8
<1> QED
  BY <1>4, <1>9

-----------------------------------------------------------------------------
(* A script that is closed everywhere. *)
Closed(s) ==
    /\ Ended(s)
    /\ \A l \in 1..Len(s) + 1 : D!Depth(s, l) \in Nat
    /\ D!Depth(s, Len(s) + 1) = 0
    /\ \A l \in 1..Len(s) : D!Depth(s, l + 1) = D!Depth(s, l) + Turn(s, l)
    /\ \A l \in 1..Len(s) : D!Is(s, l, {"FUNC"}) => D!Depth(s, l) = 0

LEMMA GrammarCloses ==
    ASSUME NEW s, Ended(s), D!Grammatical(s)
    PROVE  Closed(s) /\ D!Depth(s, 1) = 0
<1>1. Len(s) \in Nat /\ DOMAIN s = 1..Len(s)
  BY DEF Ended
<1>2. /\ \A l \in 1..Len(s) + 1 : D!Depth(s, l) \in Int
      /\ D!Depth(s, 1) = 0
      /\ \A l \in 1..Len(s) : D!Depth(s, l + 1) = D!Depth(s, l) + Turn(s, l)
  BY <1>1, DepthStep
<1>3. /\ \A l \in 1..Len(s) + 1 : D!Depth(s, l) >= 0
      /\ D!Depth(s, Len(s) + 1) = 0
      /\ \A l \in DOMAIN s : D!Is(s, l, {"FUNC"}) => D!Depth(s, l) = 0
  BY DEF D!Grammatical
<1>4. \A l \in 1..Len(s) + 1 : D!Depth(s, l) \in Nat
  BY <1>2, <1>3
<1> QED
  BY <1>1, <1>2, <1>3, <1>4 DEF Closed

(* What a line is, by the word that it begins with. *)
LEMMA TurnIs ==
    ASSUME NEW s, NEW l
    PROVE  /\ s[l] = <<>> => Turn(s, l) = 0 /\ ~D!Closes(s, l) /\ \A d : ~D!Plain(s, l, d)
           /\ s[l] # <<>> /\ Ends(s[l]) => Turn(s, l) = -1 /\ D!Closes(s, l)
           /\ s[l] # <<>> /\ s[l][1] = "IF" => Turn(s, l) = 1
           /\ s[l] # <<>> /\ s[l][1] = "FUNC" => Turn(s, l) = 1 /\ D!Is(s, l, {"FUNC"})
           /\ s[l] # <<>> /\ ~Ends(s[l]) => ~D!Closes(s, l)
           /\ s[l] # <<>> /\ ~Ends(s[l]) /\ s[l][1] \notin {"IF", "FUNC"} => Turn(s, l) = 0
           /\ s[l] # <<>> /\ ~Ends(s[l]) /\ s[l][1] # "FUNC" =>
                \A d : D!Plain(s, l, d) <=> D!Depth(s, l) = d
           /\ s[l] # <<>> /\ s[l][1] = "FUNC" => \A d : ~D!Plain(s, l, d)
BY DEF Turn, D!Closes, D!Opens, D!Is, D!Plain, Ends

LEMMA BlankDepth ==
    ASSUME NEW s, Closed(s), NEW k \in 1..Len(s) + 1, NEW j \in k..Len(s) + 1,
           \A i \in k..j - 1 : s[i] = <<>>
    PROVE  \A i \in k..j : D!Depth(s, i) = D!Depth(s, k)
<1> DEFINE T == {m \in Nat : k + m <= j => D!Depth(s, k + m) = D!Depth(s, k)}
<1>1. Len(s) \in Nat
  BY DEF Closed, Ended
<1>2. 0 \in T
  BY <1>1
<1>3. ASSUME NEW m \in Nat, m \in T PROVE m + 1 \in T
  <2> SUFFICES ASSUME k + (m + 1) <= j PROVE D!Depth(s, k + (m + 1)) = D!Depth(s, k)
    OBVIOUS
  <2>1. PICK i \in 1..Len(s) : i = k + m
    BY <1>1
  <2>2. i \in k..j - 1 /\ i + 1 = k + (m + 1) /\ k + m <= j
    BY <1>1, <2>1
  <2>3. s[i] = <<>> /\ D!Depth(s, i) = D!Depth(s, k)
    BY <1>3, <2>1, <2>2
  <2>4. D!Depth(s, i + 1) = D!Depth(s, i) + 0
    BY <2>3, TurnIs DEF Closed
  <2>5. D!Depth(s, i) \in Nat
    BY <2>1, <1>1 DEF Closed
  <2> QED
    BY <2>2, <2>3, <2>4, <2>5
<1> HIDE DEF T
<1>4. Nat \subseteq T
  BY <1>2, <1>3, NatInd
<1> SUFFICES ASSUME NEW i \in k..j PROVE D!Depth(s, i) = D!Depth(s, k)
  OBVIOUS
<1>5. PICK m \in Nat : m = i - k
  BY <1>1
<1>6. k + m = i /\ k + m <= j /\ m \in T
  BY <1>1, <1>4, <1>5
<1> QED
  BY <1>6 DEF T

(* e closes the body that has line k. *)
Encloses(s, k, e) ==
    /\ e \in k..Len(s) /\ D!Closes(s, e) /\ D!Depth(s, e) = D!Depth(s, k)
    /\ \A i \in k..e : D!Depth(s, i) >= D!Depth(s, k)
    /\ \A i \in k..e : D!Closes(s, i) /\ D!Depth(s, i) = D!Depth(s, k) => i = e

BlockIs(s, k) ==
    \E e : /\ Encloses(s, k, e)
           /\ BlockFrom(s)[k].next = e + 1
           /\ BlockFrom(s)[k].nodes = D!AtDepth(s, k, e - 1, D!Depth(s, k))

LEMMA AtDepthTake ==
    ASSUME NEW s, NEW a \in Int, NEW n \in Int, a <= n, NEW d, D!Plain(s, a, d)
    PROVE  D!AtDepth(s, a, n, d) = Cat(<<a>>, D!AtDepth(s, a + 1, n, d))
BY AtDepthStep DEF Cat

(* The lines of a body go on behind the body that one of them opens. *)
LEMMA BodyGoesOn ==
    ASSUME NEW s, Closed(s), NEW k \in 1..Len(s), NEW j \in k..Len(s),
           \A i \in k..j - 1 : s[i] = <<>>, D!Plain(s, j, D!Depth(s, k)),
           NEW r \in j + 1..Len(s) + 1, NEW n \in Int, r <= n + 1,
           \A i \in j + 1..r - 1 : D!Depth(s, i) > D!Depth(s, k)
    PROVE  D!AtDepth(s, k, n, D!Depth(s, k)) =
                <<j>> \o D!AtDepth(s, r, n, D!Depth(s, k))
<1> DEFINE d == D!Depth(s, k)
<1>1. Len(s) \in Nat /\ k \in Int /\ j \in Int /\ r \in Int /\ j <= n /\ j + 1 \in Int
  BY DEF Closed, Ended
<1>2. \A i \in k..j - 1 : ~D!Plain(s, i, d)
  BY TurnIs
<1>3. \A i \in j + 1..r - 1 : ~D!Plain(s, i, d)
  <2> TAKE i \in j + 1..r - 1
  <2>1. i \in 1..Len(s) + 1 /\ k \in 1..Len(s) + 1
    BY <1>1
  <2>2. D!Depth(s, i) # d
    BY <2>1 DEF Closed
  <2> QED
    BY <2>2 DEF D!Plain
<1> HIDE DEF d
<1>4. D!AtDepth(s, k, n, d) = D!AtDepth(s, j, n, d)
  BY <1>1, <1>2, AtDepthSkip
<1>5. D!AtDepth(s, j, n, d) = Cat(<<j>>, D!AtDepth(s, j + 1, n, d))
  <2>1. D!Plain(s, j, d)
    BY DEF d
  <2> QED
    BY <1>1, <2>1, AtDepthTake
<1>6. D!AtDepth(s, j + 1, n, d) = D!AtDepth(s, r, n, d)
  <2>1. PICK a \in Int : a = j + 1
    BY <1>1
  <2>2. D!AtDepth(s, a, n, d) = D!AtDepth(s, r, n, d)
    BY <1>1, <1>3, <2>1, AtDepthSkip
  <2> QED
    BY <2>1, <2>2
<1>7. D!AtDepth(s, k, n, d) = Cat(<<j>>, D!AtDepth(s, r, n, d))
  BY <1>4, <1>5, <1>6
<1> QED
  BY <1>7 DEF d, Cat

LEMMA BlockStep ==
    ASSUME NEW s, Closed(s), NEW k \in 1..Len(s), D!Depth(s, k) > 0,
           \A i \in k + 1..Len(s) : D!Depth(s, i) > 0 => BlockIs(s, i)
    PROVE  BlockIs(s, k)
<1> DEFINE d == D!Depth(s, k)
           j == LineFrom(s, k)
           B == BlockFrom(s)
<1>1. Ended(s) /\ Len(s) \in Nat
  BY DEF Closed, Ended
<1>2. j \in k..Len(s) /\ s[j] # <<>> /\ \A i \in k..j - 1 : s[i] = <<>>
  BY <1>1, LineFromIs
<1>3. B[k] = BlockAt(s, B, k)
  BY <1>1, BlockFromIs
<1> HIDE DEF j, B
<1>4. \A i \in k..j : D!Depth(s, i) = d
  BY <1>1, <1>2, BlankDepth
<1>5. D!Depth(s, j) = d /\ j \in 1..Len(s) /\ j + 1 \in 1..Len(s) + 1 /\ j + 1 \in k + 1..Len(s) + 1
  BY <1>1, <1>2, <1>4
<1>6. d \in Nat /\ \A i \in 1..Len(s) + 1 : D!Depth(s, i) \in Nat
  BY <1>1 DEF Closed
<1>7. D!Depth(s, j + 1) = d + Turn(s, j)
  BY <1>5 DEF Closed
<1>8. \A i \in k..j - 1 : ~D!Closes(s, i) /\ ~D!Plain(s, i, d)
  BY <1>2, TurnIs
<1> HIDE DEF d
<1>9. D!Depth(s, k) = d /\ d > 0
  BY DEF d
<1>10. CASE Ends(s[j])
  <2>1. D!Closes(s, j)
    BY <1>2, <1>10, TurnIs
  <2>2. Encloses(s, k, j)
    <3>1. \A i \in k..j : D!Closes(s, i) => i = j
      <4> SUFFICES ASSUME NEW i \in k..j, D!Closes(s, i), i # j PROVE FALSE
        OBVIOUS
      <4>1. i \in k..j - 1
        BY <1>1, <1>5
      <4> QED
        BY <1>8, <4>1
    <3> QED
      BY <1>2, <1>4, <1>6, <1>9, <2>1, <3>1 DEF Encloses
  <2>3. B[k] = [nodes |-> <<>>, next |-> j + 1]
    BY <1>1, <1>3, <1>10 DEF BlockAt, j
  <2>4. D!AtDepth(s, k, j - 1, d) = <<>>
    <3>1. PICK n \in Int : n = j - 1 /\ j = n + 1
      BY <1>1, <1>5
    <3>2. k \in Int /\ j \in Int /\ k <= j /\ j <= n + 1
      BY <1>1, <1>2, <3>1
    <3>3. D!AtDepth(s, k, n, d) = D!AtDepth(s, j, n, d)
      BY <1>8, <3>2, AtDepthSkip
    <3>4. D!AtDepth(s, n + 1, n, d) = <<>>
      BY AtDepthEnd
    <3> QED
      BY <3>1, <3>3, <3>4
  <2> QED
    BY <1>9, <2>2, <2>3, <2>4 DEF BlockIs, B
<1>11. CASE ~Ends(s[j]) /\ s[j][1] = "FUNC"
  <2>1. D!Is(s, j, {"FUNC"})
    BY <1>2, <1>11, TurnIs
  <2>2. D!Depth(s, j) = 0
    BY <1>5, <2>1 DEF Closed
  <2> QED
    BY <1>5, <1>9, <2>2
<1>12. CASE ~Ends(s[j]) /\ s[j][1] # "FUNC"
  <2> DEFINE r == IF s[j][1] = "IF" THEN B[j + 1].next ELSE j + 1
  <2>1. /\ r \in j + 1..Len(s) + 1 /\ D!Depth(s, r) = d
        /\ \A i \in j + 1..r - 1 : D!Depth(s, i) > d
    <3>1. CASE s[j][1] = "IF"
      <4>1. D!Depth(s, j + 1) = d + 1
        BY <1>2, <1>7, <3>1, TurnIs
      <4>2. j + 1 # Len(s) + 1
        BY <1>6, <4>1 DEF Closed
      <4>3. j + 1 \in k + 1..Len(s)
        BY <1>1, <1>5, <4>2
      <4>4. PICK e : Encloses(s, j + 1, e) /\ B[j + 1].next = e + 1
        BY <1>6, <4>1, <4>3 DEF BlockIs, B
      <4>5. /\ e \in j + 1..Len(s) /\ D!Closes(s, e) /\ D!Depth(s, e) = d + 1
            /\ \A i \in j + 1..e : D!Depth(s, i) >= d + 1
        BY <4>1, <4>4 DEF Encloses
      <4>6. Turn(s, e) = -1
        BY <4>5 DEF Turn, D!Closes, D!Opens, D!Is
      <4>7. D!Depth(s, e + 1) = d
        <5>1. e \in 1..Len(s)
          BY <1>1, <1>5, <4>5
        <5>2. D!Depth(s, e + 1) = (d + 1) + (-1)
          BY <4>5, <4>6, <5>1 DEF Closed
        <5> QED
          BY <1>6, <5>2
      <4>8. r = e + 1
        BY <3>1, <4>4
      <4> HIDE DEF r
      <4>9. \A i \in j + 1..r - 1 : D!Depth(s, i) > d
        <5> TAKE i \in j + 1..r - 1
        <5>1. i \in j + 1..e /\ i \in 1..Len(s) + 1
          BY <1>1, <1>5, <4>5, <4>8
        <5>2. D!Depth(s, i) >= d + 1 /\ D!Depth(s, i) \in Nat
          BY <1>6, <4>5, <5>1
        <5> QED
          BY <1>6, <5>2
      <4> QED
        BY <1>1, <1>5, <4>5, <4>7, <4>8, <4>9
    <3>2. CASE s[j][1] # "IF"
      <4>1. Turn(s, j) = 0
        BY <1>2, <1>12, <3>2, TurnIs
      <4>2. r = j + 1
        BY <3>2
      <4> HIDE DEF r
      <4> QED
        BY <1>1, <1>5, <1>6, <1>7, <4>1, <4>2
    <3> QED
      BY <3>1, <3>2
  <2>2. B[k] = [nodes |-> <<j>> \o B[r].nodes, next |-> B[r].next]
    BY <1>1, <1>3, <1>12 DEF BlockAt, j
  <2> HIDE DEF r
  <2>3. r # Len(s) + 1
    BY <1>9, <2>1 DEF Closed
  <2>4. r \in k + 1..Len(s)
    BY <1>1, <1>5, <2>1, <2>3
  <2>5. PICK e : /\ Encloses(s, r, e) /\ B[r].next = e + 1
                 /\ B[r].nodes = D!AtDepth(s, r, e - 1, d)
    BY <1>9, <2>1, <2>4 DEF BlockIs, B
  <2>6. e \in r..Len(s) /\ e \in Int
    BY <1>1, <2>4, <2>5 DEF Encloses
  <2>7. \A i \in k..e : i \in k..j - 1 \/ i = j \/ i \in j + 1..r - 1 \/ i \in r..e
    BY <1>1, <1>5, <2>1, <2>6
  <2>8. ~D!Closes(s, j) /\ D!Plain(s, j, d)
    BY <1>2, <1>5, <1>12, TurnIs
  <2>9. Encloses(s, k, e)
    <3>1. e \in k..Len(s) /\ D!Closes(s, e) /\ D!Depth(s, e) = d
      BY <1>1, <2>1, <2>4, <2>5, <2>6 DEF Encloses
    <3>2. ASSUME NEW i \in k..e PROVE D!Depth(s, i) >= d
      <4>1. CASE i \in k..j
        BY <1>4, <1>6, <4>1
      <4>2. CASE i \in j + 1..r - 1
        <5>1. i \in 1..Len(s) + 1
          BY <1>1, <1>5, <2>1, <4>2
        <5> QED
          BY <1>6, <2>1, <4>2, <5>1
      <4>3. CASE i \in r..e
        BY <2>1, <2>5, <4>3 DEF Encloses
      <4> QED
        BY <1>1, <1>5, <2>7, <4>1, <4>2, <4>3
    <3>3. ASSUME NEW i \in k..e, D!Closes(s, i), D!Depth(s, i) = d PROVE i = e
      <4>1. i \notin k..j - 1 /\ i # j
        BY <1>8, <2>8, <3>3
      <4>2. i \notin j + 1..r - 1
        BY <1>6, <2>1, <3>3
      <4>3. i \in r..e
        BY <2>7, <4>1, <4>2
      <4> QED
        BY <2>1, <2>5, <3>3, <4>3 DEF Encloses
    <3> QED
      BY <1>9, <3>1, <3>2, <3>3 DEF Encloses
  <2>10. D!AtDepth(s, k, e - 1, d) = <<j>> \o D!AtDepth(s, r, e - 1, d)
    <3>1. PICK n \in Int : n = e - 1 /\ r <= n + 1
      BY <1>1, <2>4, <2>6
    <3>2. D!AtDepth(s, k, n, d) = <<j>> \o D!AtDepth(s, r, n, d)
      BY <1>1, <1>2, <1>5, <1>9, <2>1, <2>8, <3>1, BodyGoesOn
    <3> QED
      BY <3>1, <3>2
  <2>11. B[k].next = e + 1 /\ B[k].nodes = D!AtDepth(s, k, e - 1, d)
    BY <2>2, <2>5, <2>10
  <2> QED
    BY <1>9, <2>9, <2>11 DEF BlockIs, B
<1> QED
  BY <1>10, <1>11, <1>12

LEMMA BlocksAre ==
    ASSUME NEW s, Closed(s)
    PROVE  \A k \in 1..Len(s) : D!Depth(s, k) > 0 => BlockIs(s, k)
<1> DEFINE n == Len(s)
           T == {m \in Nat : \A k \in 1..n : k > n - m => (D!Depth(s, k) > 0 => BlockIs(s, k))}
<1>1. n \in Nat
  BY DEF Closed, Ended
<1>2. 0 \in T
  BY <1>1
<1>3. ASSUME NEW m \in Nat, m \in T PROVE m + 1 \in T
  <2> SUFFICES ASSUME NEW k \in 1..n, k > n - (m + 1), D!Depth(s, k) > 0
               PROVE  BlockIs(s, k)
    OBVIOUS
  <2>1. \A i \in k + 1..n : i \in 1..n /\ i > n - m
    BY <1>1
  <2>2. \A i \in k + 1..n : D!Depth(s, i) > 0 => BlockIs(s, i)
    BY <1>3, <2>1
  <2> QED
    BY <2>2, BlockStep
<1>4. n \in T
  <2> HIDE DEF T
  <2> QED
    BY <1>1, <1>2, <1>3, NatInd
<1> QED
  BY <1>1, <1>4

(* What an opening line opens: the block that parse_lines reads behind it, to e. *)
BodyTo(s, l, e) ==
    /\ e \in l + 1..Len(s) /\ D!Closes(s, e) /\ D!Depth(s, e) = D!Depth(s, l) + 1
    /\ D!Depth(s, e + 1) = D!Depth(s, l)
    /\ \A i \in l + 1..e : D!Depth(s, i) > D!Depth(s, l)
    /\ \A i \in l + 1..e : D!Closes(s, i) /\ D!Depth(s, i) = D!Depth(s, l) + 1 => i = e
    /\ BlockFrom(s)[l + 1].next = e + 1
    /\ BlockFrom(s)[l + 1].nodes = D!AtDepth(s, l + 1, e - 1, D!Depth(s, l) + 1)

LEMMA BodyExists ==
    ASSUME NEW s, Closed(s), NEW l \in 1..Len(s), Turn(s, l) = 1
    PROVE  \E e : BodyTo(s, l, e)
<1> DEFINE d == D!Depth(s, l)
<1>1. Len(s) \in Nat /\ l + 1 \in 1..Len(s) + 1 /\ l + 1 \in Int
  BY DEF Closed, Ended
<1>2. d \in Nat /\ D!Depth(s, l + 1) = d + 1
  <2>1. l \in 1..Len(s) + 1
    BY <1>1
  <2> QED
    BY <2>1 DEF Closed
<1>3. l + 1 # Len(s) + 1
  BY <1>2 DEF Closed
<1>4. l + 1 \in 1..Len(s)
  BY <1>1, <1>3
<1>5. BlockIs(s, l + 1)
  BY <1>2, <1>4, BlocksAre
<1>6. PICK e : /\ Encloses(s, l + 1, e) /\ BlockFrom(s)[l + 1].next = e + 1
               /\ BlockFrom(s)[l + 1].nodes = D!AtDepth(s, l + 1, e - 1, d + 1)
  BY <1>2, <1>5 DEF BlockIs
<1> HIDE DEF d
<1>7. /\ e \in l + 1..Len(s) /\ D!Closes(s, e) /\ D!Depth(s, e) = d + 1
      /\ \A i \in l + 1..e : D!Depth(s, i) >= d + 1
      /\ \A i \in l + 1..e : D!Closes(s, i) /\ D!Depth(s, i) = d + 1 => i = e
  BY <1>2, <1>6 DEF Encloses
<1>8. Turn(s, e) = -1
  BY <1>7 DEF Turn, D!Closes, D!Opens, D!Is
<1>9. D!Depth(s, e + 1) = d
  <2>1. e \in 1..Len(s)
    BY <1>1, <1>7
  <2>2. D!Depth(s, e + 1) = (d + 1) + (-1)
    BY <1>7, <1>8, <2>1 DEF Closed
  <2> QED
    BY <1>2, <2>2
<1>10. \A i \in l + 1..e : D!Depth(s, i) > d
  <2> TAKE i \in l + 1..e
  <2>1. i \in 1..Len(s) + 1
    BY <1>1, <1>7
  <2>2. D!Depth(s, i) \in Nat
    BY <2>1 DEF Closed
  <2> QED
    BY <1>2, <1>7, <2>2
<1> QED
  BY <1>6, <1>7, <1>9, <1>10 DEF BodyTo, d

LEMMA BodyIs ==
    ASSUME NEW s, Closed(s), NEW l \in 1..Len(s), Turn(s, l) = 1
    PROVE  BlockFrom(s)[l + 1].nodes = D!Body(s, l)
<1> DEFINE P(e) == D!Ending(s, l, e) /\ \A k \in l + 1..e - 1 : ~D!Ending(s, l, k)
<1>1. PICK e : BodyTo(s, l, e)
  BY BodyExists
<1>2. Len(s) \in Nat
  BY DEF Closed, Ended
<1>3. e \in l + 1..Len(s) /\ D!Ending(s, l, e)
  BY <1>1 DEF BodyTo, D!Ending
<1>4. \A k \in l + 1..e : D!Ending(s, l, k) => k = e
  BY <1>1 DEF BodyTo, D!Ending
<1>5. P(e)
  <2>1. \A k \in l + 1..e - 1 : k \in l + 1..e /\ k # e
    BY <1>3
  <2> QED
    BY <1>3, <1>4, <2>1
<1>6. \A x \in l + 1..Len(s) : P(x) => x = e
  <2> SUFFICES ASSUME NEW x \in l + 1..Len(s), P(x), x # e PROVE FALSE
    OBVIOUS
  <2>1. x < e \/ e < x
    BY <1>3
  <2>2. CASE x < e
    <3>1. x \in l + 1..e
      BY <1>3, <2>2
    <3> QED
      BY <1>4, <3>1
  <2>3. CASE e < x
    <3>1. e \in l + 1..x - 1
      BY <1>3, <2>3
    <3> QED
      BY <1>3, <3>1
  <2> QED
    BY <2>1, <2>2, <2>3
<1>7. D!End(s, l) = CHOOSE x \in l + 1..Len(s) : P(x)
  BY DEF D!End
<1>8. D!End(s, l) = e
  <2> HIDE DEF P
  <2> QED
    BY <1>3, <1>5, <1>6, <1>7
<1>9. BlockFrom(s)[l + 1].nodes = D!AtDepth(s, l + 1, e - 1, D!Depth(s, l) + 1)
  BY <1>1 DEF BodyTo
<1> QED
  BY <1>8, <1>9 DEF D!Body

-----------------------------------------------------------------------------
(* The statements outside of functions. *)
MainAt(s, f, k) ==
    IF k > Len(s) THEN <<>>
    ELSE LET j == LineFrom(s, k) IN
         IF Ends(s[j]) THEN f[j + 1]
         ELSE IF s[j][1] = "FUNC" THEN f[BlockFrom(s)[j + 1].next]
         ELSE <<j>> \o f[IF s[j][1] = "IF" THEN BlockFrom(s)[j + 1].next ELSE j + 1]

MainEq(s, f) == f = [k \in 1..Len(s) + 1 |-> MainAt(s, f, k)]

LEMMA MainAtSame ==
    ASSUME NEW s, Ended(s), NEW k \in 1..Len(s) + 1, NEW f, NEW h,
           \A i \in k + 1..Len(s) + 1 : h[i] = f[i]
    PROVE  MainAt(s, h, k) = MainAt(s, f, k)
<1> DEFINE j == LineFrom(s, k)
           x == BlockFrom(s)[j + 1].next
<1>1. Len(s) \in Nat
  BY DEF Ended
<1>2. CASE k > Len(s)
  BY <1>2 DEF MainAt
<1>3. CASE k <= Len(s)
  <2>1. k \in 1..Len(s)
    BY <1>1, <1>3
  <2>2. j \in k..Len(s)
    BY <2>1, LineFromIs
  <2> HIDE DEF j
  <2>3. j + 1 \in 1..Len(s) + 1 /\ j + 1 \in k + 1..Len(s) + 1
    BY <1>1, <2>2
  <2>4. x \in j + 1..Len(s) + 1
    BY <2>3, BlockFromIs
  <2>5. x \in k + 1..Len(s) + 1
    BY <1>1, <2>2, <2>4
  <2> HIDE DEF x
  <2>6. h[j + 1] = f[j + 1] /\ h[x] = f[x]
    BY <2>3, <2>5
  <2> QED
    BY <2>6 DEF MainAt, j, x
<1> QED
  BY <1>1, <1>2, <1>3

LEMMA MainExists ==
    ASSUME NEW s, Ended(s)
    PROVE  \E f : MainEq(s, f)
<1> DEFINE n == Len(s)
           Up(f, m) == /\ f = [k \in 1..n + 1 |-> f[k]]
                       /\ \A k \in 1..n + 1 : k > n + 1 - m => f[k] = MainAt(s, f, k)
           T == {m \in Nat : \E f : Up(f, m)}
<1>1. n \in Nat
  BY DEF Ended
<1>2. 0 \in T
  <2>1. Up([k \in 1..n + 1 |-> 0], 0)
    BY <1>1
  <2> HIDE DEF Up
  <2> QED
    BY <2>1
<1>3. ASSUME NEW m \in Nat, m \in T PROVE m + 1 \in T
  <2>1. PICK f : Up(f, m)
    BY <1>3
  <2>2. PICK c \in Int : c = n + 1 - m
    <3> HIDE DEF n, T, Up
    <3>1. n + 1 - m \in Int
      BY <1>1
    <3> QED
      BY <3>1
  <2>3. CASE c < 1
    <3>1. Up(f, m + 1)
      <4>1. \A k \in 1..n + 1 : k > n + 1 - m
        BY <1>1, <2>2, <2>3
      <4> QED
        BY <2>1, <4>1
    <3> HIDE DEF Up
    <3> QED
      BY <3>1
  <2>4. CASE c >= 1
    <3> DEFINE v == MainAt(s, f, c)
               h == [k \in 1..n + 1 |-> IF k = c THEN v ELSE f[k]]
    <3>1. c \in 1..n + 1
      BY <1>1, <2>2, <2>4
    <3>2. \A k \in 1..n + 1 : k # c => h[k] = f[k]
      OBVIOUS
    <3>3. h[c] = v
      BY <3>1
    <3>4. h = [k \in 1..n + 1 |-> h[k]]
      OBVIOUS
    <3> HIDE DEF h
    <3>5. ASSUME NEW k \in 1..n + 1, k >= c
          PROVE  \A i \in k + 1..n + 1 : h[i] = f[i]
      <4>1. \A i \in k + 1..n + 1 : i \in 1..n + 1 /\ i # c
        BY <1>1, <2>2, <3>1, <3>5
      <4> QED
        BY <3>2, <4>1
    <3>6. ASSUME NEW k \in 1..n + 1, k >= c
          PROVE  MainAt(s, h, k) = MainAt(s, f, k)
      BY <3>5, <3>6, MainAtSame
    <3>7. Up(h, m + 1)
      <4> SUFFICES ASSUME NEW k \in 1..n + 1, k > n + 1 - (m + 1)
                   PROVE  h[k] = MainAt(s, h, k)
        BY <3>4
      <4>1. k >= c
        BY <1>1, <2>2
      <4>2. h[k] = MainAt(s, f, k)
        <5>1. CASE k = c
          BY <3>3, <5>1
        <5>2. CASE k # c
          <6>1. k > n + 1 - m
            BY <2>2, <4>1, <5>2
          <6> QED
            BY <2>1, <3>2, <5>2, <6>1
        <5> QED
          BY <5>1, <5>2
      <4> QED
        BY <3>6, <4>1, <4>2
    <3> HIDE DEF Up
    <3> QED
      BY <3>7
  <2> QED
    BY <2>2, <2>3, <2>4
<1>4. n + 1 \in T
  <2> HIDE DEF T
  <2> QED
    BY <1>1, <1>2, <1>3, NatInd
<1>5. PICK f : Up(f, n + 1)
  BY <1>4
<1>6. \A k \in 1..n + 1 : f[k] = MainAt(s, f, k)
  BY <1>1, <1>5
<1>7. f = [k \in 1..n + 1 |-> f[k]]
  BY <1>5
<1> HIDE DEF Up
<1>8. f = [k \in 1..n + 1 |-> MainAt(s, f, k)]
  BY <1>6, <1>7
<1> QED
  BY <1>8 DEF MainEq

LEMMA MainBlockIs ==
    ASSUME NEW s, Closed(s), D!Depth(s, 1) = 0
    PROVE  MainBlock(s) = D!Main(s)
<1> DEFINE n == Len(s)
           h == CHOOSE f : MainEq(s, f)
           T == {m \in Nat : \A k \in 1..n + 1 : k > n - m =>
                    (D!Depth(s, k) = 0 => h[k] = D!AtDepth(s, k, n, 0))}
<1>1. n \in Nat /\ Ended(s)
  BY DEF Closed, Ended
<1>2. MainBlock(s) = h[1]
  BY DEF MainBlock, MainEq, MainAt
<1>3. MainEq(s, h)
  BY <1>1, MainExists
<1> HIDE DEF h
<1>4. \A k \in 1..n + 1 : h[k] = MainAt(s, h, k)
  <2>1. h = [k \in 1..n + 1 |-> MainAt(s, h, k)]
    BY <1>3 DEF MainEq
  <2>2. PICK f : f = [k \in 1..n + 1 |-> MainAt(s, h, k)]
    OBVIOUS
  <2>3. \A k \in 1..n + 1 : f[k] = MainAt(s, h, k)
    BY <2>2
  <2> QED
    BY <2>1, <2>2, <2>3
<1>5. 0 \in T
  <2> SUFFICES ASSUME NEW k \in 1..n + 1, k > n - 0
               PROVE  h[k] = D!AtDepth(s, k, n, 0)
    OBVIOUS
  <2>1. k = n + 1 /\ k > Len(s)
    BY <1>1
  <2>2. h[k] = <<>>
    BY <1>4, <2>1 DEF MainAt
  <2>3. D!AtDepth(s, n + 1, n, 0) = <<>>
    BY <1>1, AtDepthEnd
  <2> QED
    BY <2>1, <2>2, <2>3
<1>6. ASSUME NEW m \in Nat, m \in T PROVE m + 1 \in T
  <2> SUFFICES ASSUME NEW k \in 1..n + 1, k > n - (m + 1), D!Depth(s, k) = 0
               PROVE  h[k] = D!AtDepth(s, k, n, 0)
    OBVIOUS
  <2>1. \A i \in k + 1..n + 1 : D!Depth(s, i) = 0 => h[i] = D!AtDepth(s, i, n, 0)
    <3>1. \A i \in k + 1..n + 1 : i \in 1..n + 1 /\ i > n - m
      BY <1>1
    <3> QED
      BY <1>6, <3>1
  <2>2. CASE k = n + 1
    <3>1. h[k] = <<>>
      <4>1. k > Len(s)
        BY <1>1, <2>2
      <4>2. MainAt(s, h, k) = <<>>
        BY <4>1 DEF MainAt
      <4> QED
        BY <1>4, <4>2
    <3>2. D!AtDepth(s, n + 1, n, 0) = <<>>
      BY <1>1, AtDepthEnd
    <3> QED
      BY <2>2, <3>1, <3>2
  <2>3. CASE k # n + 1
    <3> DEFINE j == LineFrom(s, k)
               x == BlockFrom(s)[j + 1].next
    <3>1. k \in 1..Len(s)
      BY <1>1, <2>3
    <3>2. j \in k..Len(s) /\ s[j] # <<>> /\ \A i \in k..j - 1 : s[i] = <<>>
      BY <1>1, <3>1, LineFromIs
    <3>3. h[k] = IF Ends(s[j]) THEN h[j + 1]
                 ELSE IF s[j][1] = "FUNC" THEN h[x]
                 ELSE <<j>> \o h[IF s[j][1] = "IF" THEN x ELSE j + 1]
      BY <1>1, <1>4, <3>1 DEF MainAt
    <3> HIDE DEF j
    <3>4. j \in 1..Len(s) /\ j \in 1..Len(s) + 1 /\ j + 1 \in 1..Len(s) + 1
          /\ j + 1 \in k + 1..n + 1 /\ j \in Int /\ k \in Int
      BY <1>1, <3>1, <3>2
    <3>5. D!Depth(s, j) = 0
      <4>1. \A i \in k..j : D!Depth(s, i) = 0
        BY <3>1, <3>2, <3>4, BlankDepth
      <4> QED
        BY <1>1, <3>2, <3>4, <4>1
    <3>6. D!Depth(s, j + 1) = 0 + Turn(s, j) /\ D!Depth(s, j + 1) \in Nat
      BY <3>4, <3>5 DEF Closed
    <3>7. ~Ends(s[j])
      <4> SUFFICES ASSUME Ends(s[j]) PROVE FALSE
        OBVIOUS
      <4>1. Turn(s, j) = -1
        BY <3>2, TurnIs
      <4> QED
        BY <3>6, <4>1
    <3>8. ASSUME Turn(s, j) = 1
          PROVE  /\ x \in j + 1..n + 1 /\ x \in k + 1..n + 1 /\ D!Depth(s, x) = 0
                 /\ \A i \in j + 1..x - 1 : D!Depth(s, i) > 0
      <4>1. PICK e : BodyTo(s, j, e)
        BY <3>4, <3>8, BodyExists
      <4>2. /\ e \in j + 1..n /\ x = e + 1 /\ D!Depth(s, e + 1) = 0
            /\ \A i \in j + 1..e : D!Depth(s, i) > 0
        BY <3>5, <4>1 DEF BodyTo
      <4> HIDE DEF x
      <4> QED
        BY <1>1, <3>4, <4>2
    <3> HIDE DEF x
    <3>9. CASE s[j][1] = "FUNC"
      <4>1. /\ x \in j + 1..n + 1 /\ x \in k + 1..n + 1 /\ D!Depth(s, x) = 0
            /\ \A i \in j + 1..x - 1 : D!Depth(s, i) > 0
        BY <3>2, <3>8, <3>9, TurnIs
      <4>2. h[k] = D!AtDepth(s, x, n, 0)
        BY <2>1, <3>3, <3>7, <3>9, <4>1
      <4>3. \A i \in k..x - 1 : ~D!Plain(s, i, 0)
        <5> TAKE i \in k..x - 1
        <5>1. i \in k..j - 1 \/ i = j \/ i \in j + 1..x - 1
          BY <3>4, <4>1
        <5>2. ASSUME i \in j + 1..x - 1 PROVE ~D!Plain(s, i, 0)
          BY <4>1, <5>2 DEF D!Plain
        <5> QED
          BY <3>2, <3>9, <5>1, <5>2, TurnIs
      <4>4. k <= x /\ x <= n + 1 /\ x \in Int /\ n \in Int
        BY <1>1, <4>1, <3>4
      <4> HIDE DEF n
      <4>5. D!AtDepth(s, k, n, 0) = D!AtDepth(s, x, n, 0)
        BY <3>4, <4>3, <4>4, AtDepthSkip
      <4> QED
        BY <4>2, <4>5
    <3>10. CASE s[j][1] # "FUNC"
      <4> DEFINE r == IF s[j][1] = "IF" THEN x ELSE j + 1
      <4>1. /\ r \in j + 1..n + 1 /\ r \in k + 1..n + 1 /\ D!Depth(s, r) = 0
            /\ \A i \in j + 1..r - 1 : D!Depth(s, i) > 0
        <5>1. CASE s[j][1] = "IF"
          BY <3>2, <3>8, <5>1, TurnIs
        <5>2. CASE s[j][1] # "IF"
          <6>1. Turn(s, j) = 0
            BY <3>2, <3>7, <3>10, <5>2, TurnIs
          <6>2. r = j + 1
            BY <5>2
          <6> HIDE DEF r
          <6> QED
            BY <1>1, <3>4, <3>6, <6>1, <6>2
        <5> QED
          BY <5>1, <5>2
      <4>2. h[k] = <<j>> \o h[r]
        BY <3>3, <3>7, <3>10
      <4> HIDE DEF r
      <4>3. h[r] = D!AtDepth(s, r, n, 0)
        BY <2>1, <4>1
      <4>4. D!Plain(s, j, D!Depth(s, k))
        BY <3>2, <3>5, <3>7, <3>10, TurnIs
      <4>5. r <= n + 1 /\ n \in Int
        BY <1>1, <4>1
      <4>6. \A i \in j + 1..r - 1 : D!Depth(s, i) > D!Depth(s, k)
        BY <4>1
      <4>7. r \in j + 1..Len(s) + 1
        BY <4>1
      <4> HIDE DEF n
      <4>8. D!AtDepth(s, k, n, D!Depth(s, k)) = <<j>> \o D!AtDepth(s, r, n, D!Depth(s, k))
        BY <3>1, <3>2, <4>4, <4>5, <4>6, <4>7, BodyGoesOn
      <4> QED
        BY <4>2, <4>3, <4>8
    <3> QED
      BY <3>9, <3>10
  <2> QED
    BY <2>2, <2>3
<1>7. n \in T
  <2> HIDE DEF T
  <2> QED
    BY <1>1, <1>5, <1>6, NatInd
<1>8. h[1] = D!AtDepth(s, 1, n, 0)
  <2>1. 1 \in 1..n + 1 /\ 1 > n - n
    BY <1>1
  <2> QED
    BY <1>7, <2>1
<1> QED
  BY <1>2, <1>8 DEF D!Main

-----------------------------------------------------------------------------
(* Expressions.  A line whose literals have an end. *)
Quoted(line) ==
    /\ Sequence(line)
    /\ \A p \in 1..Len(line) : line[p] \in Opening =>
            \E q \in p..Len(line) : line[q] \in Closing

LEMMA LiteralEndIs ==
    ASSUME NEW line, Quoted(line), NEW p \in 1..Len(line), line[p] \in Opening
    PROVE  /\ LiteralEnd(line, p) \in p..Len(line)
           /\ line[LiteralEnd(line, p)] \in Closing
           /\ \A r \in p..LiteralEnd(line, p) - 1 : line[r] \notin Closing
<1> DEFINE T == {q \in p..Len(line) : line[q] \in Closing}
           e == LiteralEnd(line, p)
<1>1. Len(line) \in Nat
  BY Elems DEF Quoted
<1>2. T \subseteq Nat /\ T # {}
  BY <1>1 DEF Quoted
<1>3. \E x \in T : \A y \in T : x <= y
  <2> HIDE DEF T
  <2> QED
    BY <1>2, Least
<1>4. e = CHOOSE x \in T : \A y \in T : x <= y
  BY DEF LiteralEnd, Min
<1>5. e \in T /\ \A y \in T : e <= y
  <2> HIDE DEF T, e
  <2> QED
    BY <1>3, <1>4
<1> HIDE DEF e
<1>6. \A r \in p..e - 1 : line[r] \notin Closing
  <2> SUFFICES ASSUME NEW r \in p..e - 1, line[r] \in Closing PROVE FALSE
    OBVIOUS
  <2>1. r \in T /\ r < e
    BY <1>1, <1>5
  <2> QED
    BY <1>1, <1>5, <2>1
<1> QED
  BY <1>5, <1>6 DEF e

(* The token behind the last one is no operator and opens no literal. *)
LEMMA TokenIs ==
    ASSUME NEW line, Sequence(line)
    PROVE  /\ \A p \in 1..Len(line) : Token(line, p) = line[p]
           /\ Token(line, Len(line) + 1) \notin Operators
           /\ Token(line, Len(line) + 1) \notin Opening
           /\ \A p \in 1..Len(line) : line[p] \in Operators => line[p] \notin Opening
<1>1. Len(line) \in Nat
  BY Elems
<1>2. "" \notin Operators /\ "" \notin Opening
  BY OpeningAssumption DEF Operators
<1>3. Token(line, Len(line) + 1) = ""
  <2>1. ~(Len(line) + 1 <= Len(line))
    BY <1>1
  <2> QED
    BY <2>1, Zenon DEF Token
<1>4. \A p \in 1..Len(line) : Token(line, p) = line[p]
  <2>1. \A p \in 1..Len(line) : p <= Len(line)
    BY <1>1
  <2> QED
    BY <2>1 DEF Token
<1> QED
  BY <1>2, <1>3, <1>4, OpeningAssumption

(* Where expressions end. *)
AfterAt(line, f, p) ==
    IF Token(line, p) \in Operators THEN f[f[p + 1]]
    ELSE IF Token(line, p) \in Opening THEN LiteralEnd(line, p) + 1
    ELSE IF p > Len(line) THEN p ELSE p + 1

AfterEq(line, f) == f = [p \in 1..Len(line) + 1 |-> AfterAt(line, f, p)]

Beyond(line, f, p) == f[p] \in p..Len(line) + 1 /\ (p <= Len(line) => f[p] > p)

LEMMA AfterAtSame ==
    ASSUME NEW line, Quoted(line), NEW p \in 1..Len(line) + 1, NEW f, NEW h,
           \A i \in p + 1..Len(line) + 1 : Beyond(line, f, i) /\ h[i] = f[i]
    PROVE  /\ AfterAt(line, h, p) = AfterAt(line, f, p)
           /\ AfterAt(line, f, p) \in p..Len(line) + 1
           /\ p <= Len(line) => AfterAt(line, f, p) > p
<1> DEFINE n == Len(line)
<1>1. n \in Nat /\ Sequence(line)
  BY Elems DEF Quoted
<1>2. CASE Token(line, p) \in Operators
  <2>1. p # n + 1
    BY <1>1, <1>2, TokenIs
  <2>2. p + 1 \in p + 1..n + 1
    BY <1>1, <2>1
  <2>3. PICK a : a = f[p + 1] /\ a = h[p + 1] /\ Beyond(line, f, p + 1)
    BY <2>2
  <2>4. a \in p + 1..n + 1
    BY <2>3 DEF Beyond
  <2>5. PICK b : b = f[a] /\ b = h[a] /\ Beyond(line, f, a)
    BY <2>4
  <2>6. b \in a..n + 1
    BY <2>5 DEF Beyond
  <2>7. AfterAt(line, h, p) = b /\ AfterAt(line, f, p) = b
    BY <1>2, <2>3, <2>5 DEF AfterAt
  <2> QED
    BY <1>1, <2>4, <2>6, <2>7
<1>3. CASE Token(line, p) \notin Operators /\ Token(line, p) \in Opening
  <2>1. p # n + 1
    BY <1>1, <1>3, TokenIs
  <2>2. p \in 1..n
    BY <1>1, <2>1
  <2>3. LiteralEnd(line, p) \in p..n
    BY <1>1, <1>3, <2>2, TokenIs, LiteralEndIs
  <2>4. AfterAt(line, h, p) = LiteralEnd(line, p) + 1 /\ AfterAt(line, f, p) = LiteralEnd(line, p) + 1
    BY <1>3 DEF AfterAt
  <2> QED
    BY <1>1, <2>2, <2>3, <2>4
<1>4. CASE Token(line, p) \notin Operators /\ Token(line, p) \notin Opening
  BY <1>1, <1>4 DEF AfterAt
<1> QED
  BY <1>2, <1>3, <1>4

LEMMA AftersExist ==
    ASSUME NEW line, Quoted(line)
    PROVE  \E f : AfterEq(line, f)
<1> DEFINE n == Len(line)
           Up(f, m) == /\ f = [k \in 1..n + 1 |-> f[k]]
                       /\ \A k \in 1..n + 1 : k > n + 1 - m =>
                            f[k] = AfterAt(line, f, k) /\ Beyond(line, f, k)
           T == {m \in Nat : \E f : Up(f, m)}
<1>1. n \in Nat
  BY Elems DEF Quoted
<1>2. 0 \in T
  <2>1. Up([k \in 1..n + 1 |-> 0], 0)
    BY <1>1
  <2> HIDE DEF Up
  <2> QED
    BY <2>1
<1>3. ASSUME NEW m \in Nat, m \in T PROVE m + 1 \in T
  <2>1. PICK f : Up(f, m)
    BY <1>3
  <2>2. PICK c \in Int : c = n + 1 - m
    <3> HIDE DEF n, T, Up
    <3>1. n + 1 - m \in Int
      BY <1>1
    <3> QED
      BY <3>1
  <2>3. CASE c < 1
    <3>1. Up(f, m + 1)
      <4>1. \A k \in 1..n + 1 : k > n + 1 - m
        BY <1>1, <2>2, <2>3
      <4> QED
        BY <2>1, <4>1
    <3> HIDE DEF Up
    <3> QED
      BY <3>1
  <2>4. CASE c >= 1
    <3> DEFINE v == AfterAt(line, f, c)
               h == [k \in 1..n + 1 |-> IF k = c THEN v ELSE f[k]]
    <3>1. c \in 1..n + 1
      BY <1>1, <2>2, <2>4
    <3>2. \A k \in 1..n + 1 : k # c => h[k] = f[k]
      OBVIOUS
    <3>3. h[c] = v
      BY <3>1
    <3>4. h = [k \in 1..n + 1 |-> h[k]]
      OBVIOUS
    <3> HIDE DEF h
    <3>5. ASSUME NEW k \in 1..n + 1, k >= c
          PROVE  \A i \in k + 1..n + 1 : Beyond(line, f, i) /\ h[i] = f[i]
      <4>1. \A i \in k + 1..n + 1 : i \in 1..n + 1 /\ i > n + 1 - m /\ i # c
        BY <1>1, <2>2, <3>1, <3>5
      <4> QED
        BY <2>1, <3>2, <4>1
    <3>6. ASSUME NEW k \in 1..n + 1, k >= c
          PROVE  /\ AfterAt(line, h, k) = AfterAt(line, f, k)
                 /\ AfterAt(line, f, k) \in k..n + 1
                 /\ k <= n => AfterAt(line, f, k) > k
      BY <3>5, <3>6, AfterAtSame
    <3>7. Up(h, m + 1)
      <4> SUFFICES ASSUME NEW k \in 1..n + 1, k > n + 1 - (m + 1)
                   PROVE  h[k] = AfterAt(line, h, k) /\ Beyond(line, h, k)
        BY <3>4
      <4>1. k >= c
        BY <1>1, <2>2
      <4>2. h[k] = AfterAt(line, f, k)
        <5>1. CASE k = c
          BY <3>3, <5>1
        <5>2. CASE k # c
          <6>1. k > n + 1 - m
            BY <2>2, <4>1, <5>2
          <6> QED
            BY <2>1, <3>2, <5>2, <6>1
        <5> QED
          BY <5>1, <5>2
      <4> QED
        BY <3>6, <4>1, <4>2 DEF Beyond
    <3> HIDE DEF Up
    <3> QED
      BY <3>7
  <2> QED
    BY <2>2, <2>3, <2>4
<1>4. n + 1 \in T
  <2> HIDE DEF T
  <2> QED
    BY <1>1, <1>2, <1>3, NatInd
<1>5. PICK f : Up(f, n + 1)
  BY <1>4
<1>6. \A k \in 1..n + 1 : f[k] = AfterAt(line, f, k)
  BY <1>1, <1>5
<1>7. f = [k \in 1..n + 1 |-> f[k]]
  BY <1>5
<1> HIDE DEF Up
<1>8. f = [k \in 1..n + 1 |-> AfterAt(line, f, k)]
  BY <1>6, <1>7
<1> QED
  BY <1>8 DEF AfterEq

LEMMA AfterIs ==
    ASSUME NEW line, Quoted(line)
    PROVE  /\ \A p \in 1..Len(line) + 1 : After(line)[p] = AfterAt(line, After(line), p)
           /\ \A p \in 1..Len(line) + 1 : Beyond(line, After(line), p)
<1> DEFINE n == Len(line)
           g == After(line)
           T == {m \in Nat : \A k \in 1..n + 1 : k > n + 1 - m => Beyond(line, g, k)}
<1>1. n \in Nat
  BY Elems DEF Quoted
<1>2. PICK f : AfterEq(line, f)
  BY AftersExist
<1>3. g = CHOOSE after : AfterEq(line, after)
  BY DEF After, AfterEq, AfterAt
<1>4. AfterEq(line, g)
  <2> HIDE DEF g
  <2> QED
    BY <1>2, <1>3
<1> HIDE DEF g
<1>5. \A k \in 1..n + 1 : g[k] = AfterAt(line, g, k)
  <2>1. g = [k \in 1..n + 1 |-> AfterAt(line, g, k)]
    BY <1>4 DEF AfterEq
  <2>2. PICK h : h = [k \in 1..n + 1 |-> AfterAt(line, g, k)]
    OBVIOUS
  <2>3. \A k \in 1..n + 1 : h[k] = AfterAt(line, g, k)
    BY <2>2
  <2> QED
    BY <2>1, <2>2, <2>3
<1>6. 0 \in T
  BY <1>1
<1>7. ASSUME NEW m \in Nat, m \in T PROVE m + 1 \in T
  <2> SUFFICES ASSUME NEW k \in 1..n + 1, k > n + 1 - (m + 1) PROVE Beyond(line, g, k)
    OBVIOUS
  <2>1. \A i \in k + 1..n + 1 : i \in 1..n + 1 /\ i > n + 1 - m
    BY <1>1
  <2>2. \A i \in k + 1..n + 1 : Beyond(line, g, i) /\ g[i] = g[i]
    BY <1>7, <2>1
  <2>3. AfterAt(line, g, k) \in k..n + 1 /\ (k <= n => AfterAt(line, g, k) > k)
    BY <2>2, AfterAtSame
  <2> QED
    BY <1>5, <2>3 DEF Beyond
<1>8. n + 1 \in T
  <2> HIDE DEF T
  <2> QED
    BY <1>1, <1>6, <1>7, NatInd
<1>9. \A k \in 1..n + 1 : Beyond(line, g, k)
  BY <1>1, <1>8
<1> QED
  BY <1>5, <1>9 DEF g

-----------------------------------------------------------------------------
(* Dialogue has the values of Values. *)
LEMMA SameValues ==
    /\ D!Error = Error /\ D!Operators = Operators
    /\ \A op, l, r : D!Apply(op, l, r) = Apply(op, l, r)
    /\ \A x : D!Number(x) = Number(x) /\ D!String(x) = String(x)
    /\ \A v : (D!Printable(v) <=> Printable(v)) /\ D!Printed(v) = Printed(v)
    /\ \A t : D!ReadValue(t) = ReadValue(t)
<1>1. D!Error = Error /\ D!Operators = Operators
  BY DEF D!Error, Error, D!Operators, Operators
<1>2. /\ \A x : D!Number(x) = Number(x) /\ D!String(x) = String(x) /\ D!Bool(x) = Bool(x)
      /\ \A v : (D!Printable(v) <=> Printable(v)) /\ D!Printed(v) = Printed(v)
  BY DEF D!Number, Number, D!String, String, D!Bool, Bool, D!Printable, Printable,
         D!Printed, Printed
<1>3. \A t : D!ReadValue(t) = ReadValue(t)
  BY <1>2 DEF D!ReadValue, ReadValue
<1>4. \A op, l, r : D!Apply(op, l, r) = Apply(op, l, r)
  BY DEF D!Apply, D!Sum, D!Difference, D!Product, D!Ratio, D!Equal, D!Less, D!Greater, D!AtMost,
         D!AtLeast, D!Differ, D!Numbers, D!Comparable, D!Before, D!Printable, D!Printed,
         D!Number, D!String, D!Bool, D!Error,
         Apply, Sum, Difference, Product, Ratio, Equal, Less, Greater, AtMost,
         AtLeast, Differ, Numbers, Comparable, Before, Printable, Printed,
         Number, String, Bool, Error
<1> QED
  BY <1>1, <1>2, <1>3, <1>4

(* The values that are waiting to the right of a token, by one turn. *)
WaitAt(line, f, p) ==
    IF p > Len(line) THEN <<>>
    ELSE LET later == f[p + 1] IN
         IF D!Within(line, p) THEN later
         ELSE IF line[p] \in Opening THEN <<D!Literal(line, p)>> \o later
         ELSE IF line[p] \in D!Operators
              THEN <<IF D!Error \in {later[1], later[2]} THEN D!Error
                     ELSE D!Apply(line[p], later[1], later[2])>> \o Tail(Tail(later))
         ELSE <<D!Word(line[p])>> \o later

WaitEq(line, f) == f = [p \in 1..Len(line) + 1 |-> WaitAt(line, f, p)]

LEMMA WaitAtSame ==
    ASSUME NEW line, Len(line) \in Nat, NEW p \in 1..Len(line) + 1, NEW f, NEW h,
           \A i \in p + 1..Len(line) + 1 : h[i] = f[i]
    PROVE  WaitAt(line, h, p) = WaitAt(line, f, p)
<1>1. CASE p > Len(line)
  BY <1>1 DEF WaitAt
<1>2. CASE p <= Len(line)
  <2>1. p + 1 \in p + 1..Len(line) + 1
    BY <1>2
  <2>2. h[p + 1] = f[p + 1]
    BY <2>1
  <2> QED
    BY <2>2, Zenon DEF WaitAt
<1> QED
  BY <1>1, <1>2

LEMMA WaitsExist ==
    ASSUME NEW line, Sequence(line)
    PROVE  \E f : WaitEq(line, f)
<1> DEFINE n == Len(line)
           Up(f, m) == /\ f = [k \in 1..n + 1 |-> f[k]]
                       /\ \A k \in 1..n + 1 : k > n + 1 - m => f[k] = WaitAt(line, f, k)
           T == {m \in Nat : \E f : Up(f, m)}
<1>1. n \in Nat
  BY Elems
<1>2. 0 \in T
  <2>1. Up([k \in 1..n + 1 |-> 0], 0)
    BY <1>1
  <2> HIDE DEF Up
  <2> QED
    BY <2>1
<1>3. ASSUME NEW m \in Nat, m \in T PROVE m + 1 \in T
  <2>1. PICK f : Up(f, m)
    BY <1>3
  <2>2. PICK c \in Int : c = n + 1 - m
    <3> HIDE DEF n, T, Up
    <3>1. n + 1 - m \in Int
      BY <1>1
    <3> QED
      BY <3>1
  <2>3. CASE c < 1
    <3>1. Up(f, m + 1)
      <4>1. \A k \in 1..n + 1 : k > n + 1 - m
        BY <1>1, <2>2, <2>3
      <4> QED
        BY <2>1, <4>1
    <3> HIDE DEF Up
    <3> QED
      BY <3>1
  <2>4. CASE c >= 1
    <3> DEFINE v == WaitAt(line, f, c)
               h == [k \in 1..n + 1 |-> IF k = c THEN v ELSE f[k]]
    <3>1. c \in 1..n + 1
      BY <1>1, <2>2, <2>4
    <3>2. \A k \in 1..n + 1 : k # c => h[k] = f[k]
      OBVIOUS
    <3>3. h[c] = v
      BY <3>1
    <3>4. h = [k \in 1..n + 1 |-> h[k]]
      OBVIOUS
    <3> HIDE DEF h
    <3>5. ASSUME NEW k \in 1..n + 1, k >= c
          PROVE  \A i \in k + 1..n + 1 : h[i] = f[i]
      <4>1. \A i \in k + 1..n + 1 : i \in 1..n + 1 /\ i # c
        BY <1>1, <2>2, <3>1, <3>5
      <4> QED
        BY <3>2, <4>1
    <3>6. ASSUME NEW k \in 1..n + 1, k >= c
          PROVE  WaitAt(line, h, k) = WaitAt(line, f, k)
      BY <3>5, <3>6, WaitAtSame
    <3>7. Up(h, m + 1)
      <4> SUFFICES ASSUME NEW k \in 1..n + 1, k > n + 1 - (m + 1)
                   PROVE  h[k] = WaitAt(line, h, k)
        BY <3>4
      <4>1. k >= c
        BY <1>1, <2>2
      <4>2. h[k] = WaitAt(line, f, k)
        <5>1. CASE k = c
          BY <3>3, <5>1
        <5>2. CASE k # c
          <6>1. k > n + 1 - m
            BY <2>2, <4>1, <5>2
          <6> QED
            BY <2>1, <3>2, <5>2, <6>1
        <5> QED
          BY <5>1, <5>2
      <4> QED
        BY <3>6, <4>1, <4>2
    <3> HIDE DEF Up
    <3> QED
      BY <3>7
  <2> QED
    BY <2>2, <2>3, <2>4
<1>4. n + 1 \in T
  <2> HIDE DEF T
  <2> QED
    BY <1>1, <1>2, <1>3, NatInd
<1>5. PICK f : Up(f, n + 1)
  BY <1>4
<1>6. \A k \in 1..n + 1 : f[k] = WaitAt(line, f, k)
  BY <1>1, <1>5
<1>7. f = [k \in 1..n + 1 |-> f[k]]
  BY <1>5
<1> HIDE DEF Up
<1>8. f = [k \in 1..n + 1 |-> WaitAt(line, f, k)]
  BY <1>6, <1>7
<1> QED
  BY <1>8 DEF WaitEq

LEMMA WaitingIs ==
    ASSUME NEW line, Sequence(line)
    PROVE  \A p \in 1..Len(line) + 1 : D!Waiting(line)[p] = WaitAt(line, D!Waiting(line), p)
<1> DEFINE n == Len(line)
           g == D!Waiting(line)
<1>1. PICK f : WaitEq(line, f)
  BY WaitsExist
<1>2. g = CHOOSE values : WaitEq(line, values)
  BY Zenon DEF D!Waiting, WaitEq, WaitAt
<1>3. WaitEq(line, g)
  <2> HIDE DEF g
  <2> QED
    BY <1>1, <1>2
<1> HIDE DEF g
<1>4. g = [k \in 1..n + 1 |-> WaitAt(line, g, k)]
  BY <1>3 DEF WaitEq
<1>5. PICK h : h = [k \in 1..n + 1 |-> WaitAt(line, g, k)]
  OBVIOUS
<1>6. \A k \in 1..n + 1 : h[k] = WaitAt(line, g, k)
  BY <1>5
<1> QED
  BY <1>4, <1>5, <1>6 DEF g

-----------------------------------------------------------------------------
(* Tokens inside of literals. *)
LEMMA WithinNext ==
    ASSUME NEW line, NEW p \in Nat \ {0}, ~D!Within(line, p), line[p] \notin Opening
    PROVE  ~D!Within(line, p + 1)
<1> SUFFICES ASSUME NEW b \in 1..(p + 1) - 1, line[b] \in Opening,
                    \A q \in b..(p + 1) - 1 : line[q] \notin Closing
             PROVE  FALSE
  BY DEF D!Within
<1>1. b \in 1..p - 1
  <2>1. b # p
    OBVIOUS
  <2> QED
    BY <2>1
<1>2. \A q \in b..p - 1 : line[q] \notin Closing
  OBVIOUS
<1> QED
  BY <1>1, <1>2 DEF D!Within

LEMMA WithinLiteral ==
    ASSUME NEW line, Quoted(line), NEW p \in 1..Len(line), line[p] \in Opening
    PROVE  /\ \A i \in p + 1..LiteralEnd(line, p) : D!Within(line, i)
           /\ ~D!Within(line, LiteralEnd(line, p) + 1)
<1> DEFINE e == LiteralEnd(line, p)
<1>1. /\ e \in p..Len(line) /\ line[e] \in Closing
      /\ \A r \in p..e - 1 : line[r] \notin Closing
  BY LiteralEndIs
<1>2. Len(line) \in Nat
  BY Elems DEF Quoted
<1> HIDE DEF e
<1>3. \A i \in p + 1..e : D!Within(line, i)
  <2> TAKE i \in p + 1..e
  <2>1. p \in 1..i - 1 /\ \A q \in p..i - 1 : q \in p..e - 1
    BY <1>1, <1>2
  <2> QED
    BY <1>1, <2>1 DEF D!Within
<1>4. ~D!Within(line, e + 1)
  <2> SUFFICES ASSUME NEW b \in 1..(e + 1) - 1, \A q \in b..(e + 1) - 1 : line[q] \notin Closing
               PROVE  FALSE
    BY DEF D!Within
  <2>1. e \in b..(e + 1) - 1
    BY <1>1, <1>2
  <2> QED
    BY <1>1, <2>1
<1> QED
  BY <1>3, <1>4 DEF e

LEMMA SameLiteral ==
    ASSUME NEW line, Quoted(line), NEW p \in 1..Len(line), line[p] \in Opening
    PROVE  D!Literal(line, p) = String(Literal(line, p))
<1> DEFINE e == LiteralEnd(line, p)
           P(q) == line[q] \in Closing /\ \A r \in p..q - 1 : line[r] \notin Closing
           x == CHOOSE q \in p..Len(line) : P(q)
<1>1. e \in p..Len(line) /\ P(e)
  BY LiteralEndIs
<1>2. Len(line) \in Nat
  BY Elems DEF Quoted
<1>3. \A q \in p..Len(line) : P(q) => q = e
  <2> SUFFICES ASSUME NEW q \in p..Len(line), P(q), q # e PROVE FALSE
    OBVIOUS
  <2> HIDE DEF e
  <2>1. q < e \/ e < q
    BY <1>1, <1>2
  <2>2. q < e => q \in p..e - 1
    BY <1>1, <1>2
  <2>3. e < q => e \in p..q - 1
    BY <1>1, <1>2
  <2> QED
    BY <1>1, <2>1, <2>2, <2>3
<1>4. x = e
  <2> HIDE DEF P, e
  <2> QED
    BY <1>1, <1>3
<1>5. D!Literal(line, p) = D!String([i \in 1..x - p + 1 |->
            LET t == line[p + i - 1] IN IF t \in DOMAIN Bare THEN Bare[t] ELSE t])
  BY DEF D!Literal
<1>6. Literal(line, p) = [i \in 1..e - p + 1 |->
            LET t == line[p + i - 1] IN IF t \in DOMAIN Bare THEN Bare[t] ELSE t]
  BY DEF Literal
<1> HIDE DEF x, e
<1> QED
  BY <1>4, <1>5, <1>6, SameValues

LEMMA WaitSkip ==
    ASSUME NEW line, Quoted(line), NEW p \in 1..Len(line), line[p] \in Opening
    PROVE  D!Waiting(line)[p + 1] = D!Waiting(line)[LiteralEnd(line, p) + 1]
<1> DEFINE W == D!Waiting(line)
           e == LiteralEnd(line, p)
           T == {c \in Nat : c <= e - p => W[(e + 1) - c] = W[e + 1]}
<1>1. e \in p..Len(line) /\ Len(line) \in Nat /\ Sequence(line)
  BY LiteralEndIs, Elems DEF Quoted
<1>2. \A i \in p + 1..e : D!Within(line, i)
  BY WithinLiteral
<1>3. \A i \in 1..Len(line) + 1 : W[i] = WaitAt(line, W, i)
  BY <1>1, WaitingIs
<1> HIDE DEF W, e
<1>4. \A i \in p + 1..e : W[i] = W[i + 1]
  <2> TAKE i \in p + 1..e
  <2>1. i \in 1..Len(line) + 1 /\ ~(i > Len(line))
    BY <1>1
  <2>2. WaitAt(line, W, i) = W[i + 1]
    BY <1>2, <2>1, Zenon DEF WaitAt
  <2> QED
    BY <1>3, <2>1, <2>2
<1>5. 0 \in T
  BY <1>1
<1>6. ASSUME NEW c \in Nat, c \in T PROVE c + 1 \in T
  <2> SUFFICES ASSUME c + 1 <= e - p PROVE W[(e + 1) - (c + 1)] = W[e + 1]
    OBVIOUS
  <2>1. PICK i \in p + 1..e : i = (e + 1) - (c + 1) /\ i + 1 = (e + 1) - c
    BY <1>1
  <2>2. W[i] = W[i + 1]
    BY <1>4
  <2>3. W[(e + 1) - c] = W[e + 1]
    BY <1>1, <1>6
  <2> QED
    BY <2>1, <2>2, <2>3
<1> HIDE DEF T
<1>7. Nat \subseteq T
  BY <1>5, <1>6, NatInd
<1>8. PICK c \in Nat : c = e - p
  BY <1>1
<1>9. (e + 1) - c = p + 1
  BY <1>1, <1>8
<1>10. c \in T
  BY <1>7
<1> QED
  BY <1>8, <1>9, <1>10 DEF T, W, e

-----------------------------------------------------------------------------
(* The expressions of a line, from the token that the first begins with. *)
Zone(line, first) ==
    /\ Quoted(line) /\ first \in 1..Len(line)
    /\ \A p \in 1..first - 1 : line[p] \notin Opening
    /\ \A p \in first..Len(line) : line[p] \in Operators =>
            p + 1 <= Len(line) /\ After(line)[p + 1] <= Len(line)

LEMMA WithinFirst ==
    ASSUME NEW line, NEW first, Zone(line, first)
    PROVE  ~D!Within(line, first)
BY DEF Zone, D!Within

LEMMA ConsOf ==
    ASSUME NEW x, NEW s, Sequence(s), NEW t, t = <<x>> \o s
    PROVE  /\ Sequence(t) /\ t # <<>> /\ t[1] = x /\ Tail(t) = s
           /\ s # <<>> => t[2] = s[1]
BY ConsParts

(* An expression stands for one value, and leaves those behind it. *)
Reads(line, p) ==
    LET a == After(line)[p]
        W == D!Waiting(line)
    IN /\ a \in p + 1..Len(line) + 1 /\ ~D!Within(line, a)
       /\ Sequence(W[a]) /\ W[p] = <<W[p][1]>> \o W[a]

Meaning(line, first, p) ==
    LET a == After(line)[p + 1]
        l == D!Value(line, p + 1)
        r == D!Value(line, a)
    IN /\ line[p] \in Operators =>
            /\ p + 1 \in first..Len(line) /\ ~D!Within(line, p + 1)
            /\ a \in first..Len(line) /\ ~D!Within(line, a)
            /\ D!Value(line, p) = IF Error \in {l, r} THEN Error ELSE Apply(line[p], l, r)
       /\ line[p] \notin Operators /\ line[p] \in Opening =>
            D!Value(line, p) = String(Literal(line, p))
       /\ line[p] \notin Operators /\ line[p] \notin Opening =>
            D!Value(line, p) = D!Word(line[p])

LEMMA ReadsStep ==
    ASSUME NEW line, NEW first, Zone(line, first), NEW p \in first..Len(line),
           ~D!Within(line, p),
           \A i \in p + 1..Len(line) : ~D!Within(line, i) => Reads(line, i)
    PROVE  Reads(line, p) /\ Meaning(line, first, p)
<1> DEFINE n == Len(line)
           W == D!Waiting(line)
           A == After(line)
<1>1. /\ Quoted(line) /\ Sequence(line) /\ n \in Nat /\ first \in 1..n
      /\ p \in 1..n /\ p \in 1..n + 1 /\ p \in Nat \ {0} /\ ~(p > Len(line))
  <2>1. Quoted(line) /\ Sequence(line) /\ first \in 1..n
    BY DEF Zone, Quoted
  <2>2. n \in Nat
    BY <2>1, Elems
  <2> QED
    BY <2>1, <2>2
<1>2. W[p] = WaitAt(line, W, p)
  BY <1>1, WaitingIs
<1>3. A[p] = AfterAt(line, A, p) /\ Token(line, p) = line[p]
  BY <1>1, AfterIs, TokenIs
<1>4. W[n + 1] = <<>>
  <2>1. n + 1 \in 1..n + 1 /\ n + 1 > Len(line)
    BY <1>1
  <2>2. W[n + 1] = WaitAt(line, W, n + 1)
    BY <1>1, <2>1, WaitingIs
  <2> HIDE DEF W
  <2> QED
    BY <2>1, <2>2, Zenon DEF WaitAt
<1>5. ASSUME NEW a \in p + 1..n + 1, ~D!Within(line, a)
      PROVE  Sequence(W[a])
  <2>1. CASE a = n + 1
    BY <1>4, <2>1, EmptySequence
  <2>2. CASE a # n + 1
    <3>1. a \in p + 1..n
      BY <1>1, <2>2
    <3>2. Sequence(W[A[a]]) /\ W[a] = <<W[a][1]>> \o W[A[a]]
      BY <1>5, <3>1 DEF Reads
    <3>3. PICK u, x, t : u = W[a] /\ x = W[a][1] /\ t = W[A[a]]
      OBVIOUS
    <3> HIDE DEF W, A
    <3>4. Sequence(t) /\ u = <<x>> \o t
      BY <3>2, <3>3
    <3>5. Sequence(u)
      BY <3>4, ConsOf
    <3> QED
      BY <3>3, <3>5
  <2> QED
    BY <2>1, <2>2
<1>6. CASE line[p] \in Operators
  <2> DEFINE a == A[p + 1]
             b == A[a]
  <2>1. line[p] \notin Opening
    BY <1>1, <1>6, TokenIs
  <2>2. p + 1 <= n /\ a <= n
    BY <1>6 DEF Zone
  <2>3. p + 1 \in p + 1..n /\ p + 1 \in first..n
    BY <1>1, <2>2
  <2>4. ~D!Within(line, p + 1)
    BY <1>1, <2>1, WithinNext
  <2>5. /\ a \in (p + 1) + 1..n + 1 /\ ~D!Within(line, a)
        /\ Sequence(W[a]) /\ W[p + 1] = <<W[p + 1][1]>> \o W[a]
    BY <2>3, <2>4 DEF Reads
  <2>6. a \in p + 1..n /\ a \in first..n
    BY <1>1, <2>2, <2>5
  <2>7. /\ b \in a + 1..n + 1 /\ ~D!Within(line, b)
        /\ Sequence(W[b]) /\ W[a] = <<W[a][1]>> \o W[b]
    BY <2>5, <2>6 DEF Reads
  <2>8. A[p] = b
    BY <1>3, <1>6 DEF AfterAt
  <2> DEFINE l == D!Value(line, p + 1)
             r == D!Value(line, a)
             x == IF Error \in {l, r} THEN Error ELSE Apply(line[p], l, r)
             later == W[p + 1]
  <2>9. l = W[p + 1][1] /\ r = W[a][1] /\ D!Value(line, p) = W[p][1]
    BY DEF D!Value
  <2>10. WaitAt(line, W, p) = <<IF D!Error \in {later[1], later[2]} THEN D!Error
                               ELSE D!Apply(line[p], later[1], later[2])>> \o Tail(Tail(later))
    <3>1. line[p] \in D!Operators
      BY <1>6, SameValues
    <3> QED
      BY <1>1, <2>1, <3>1, Zenon DEF WaitAt
  <2> HIDE DEF W, A, a, b, l, r, later, n
  <2>11. W[a] # <<>> /\ Tail(W[a]) = W[b]
    <3>1. PICK x0, s0, t0 : x0 = W[a][1] /\ s0 = W[b] /\ t0 = W[a]
      OBVIOUS
    <3>2. Sequence(s0) /\ t0 = <<x0>> \o s0
      BY <2>7, <3>1
    <3>3. t0 # <<>> /\ Tail(t0) = s0
      BY <3>2, ConsOf
    <3> QED
      BY <3>1, <3>3
  <2>12. later[1] = l /\ later[2] = r /\ Tail(later) = W[a]
    <3>1. /\ W[p + 1][1] = l /\ Tail(W[p + 1]) = W[a]
          /\ W[a] # <<>> => W[p + 1][2] = W[a][1]
      <4>1. PICK x0, s0, t0 : x0 = W[p + 1][1] /\ s0 = W[a] /\ t0 = W[p + 1]
        OBVIOUS
      <4>2. Sequence(s0) /\ t0 = <<x0>> \o s0
        BY <2>5, <4>1
      <4>3. /\ t0[1] = x0 /\ Tail(t0) = s0
            /\ s0 # <<>> => t0[2] = s0[1]
        BY <4>2, ConsOf
      <4> QED
        BY <2>9, <4>1, <4>3
    <3>2. W[p + 1][1] = l /\ Tail(W[p + 1]) = W[a] /\ W[p + 1][2] = r
      BY <2>9, <2>11, <3>1, Zenon
    <3> QED
      BY <3>2, Zenon DEF later
  <2>13. W[p] = <<x>> \o W[b]
    <3>1. PICK y : y = IF D!Error \in {later[1], later[2]} THEN D!Error
                               ELSE D!Apply(line[p], later[1], later[2])
      OBVIOUS
    <3>2. y = x
      BY <2>12, <3>1, SameValues
    <3>3. W[p] = <<y>> \o Tail(Tail(later))
      BY <1>2, <2>10, <3>1
    <3> HIDE DEF x
    <3> QED
      BY <2>11, <2>12, <3>2, <3>3
  <2> HIDE DEF x
  <2>14. W[p][1] = x
    BY <2>7, <2>13, ConsOf
  <2>15. b \in p + 1..n + 1
    BY <1>1, <2>6, <2>7 DEF n
  <2>16. W[p] = <<W[p][1]>> \o W[b]
    BY <2>13, <2>14
  <2>17. Reads(line, p)
    BY <2>7, <2>8, <2>15, <2>16 DEF Reads, W, A, n
  <2>18. Meaning(line, first, p)
    BY <1>6, <2>3, <2>4, <2>5, <2>6, <2>9, <2>14 DEF Meaning, W, A, n, x, l, r, a
  <2> QED
    BY <2>17, <2>18
<1>7. CASE line[p] \notin Operators /\ line[p] \in Opening
  <2> DEFINE e == LiteralEnd(line, p)
             x == String(Literal(line, p))
  <2>1. e \in p..n /\ ~D!Within(line, e + 1)
    BY <1>1, <1>7, LiteralEndIs, WithinLiteral
  <2>2. A[p] = e + 1
    BY <1>3, <1>7 DEF AfterAt
  <2>3. W[p + 1] = W[e + 1]
    BY <1>1, <1>7, WaitSkip
  <2>4. x = D!Literal(line, p)
    BY <1>1, <1>7, SameLiteral
  <2>5. D!Value(line, p) = W[p][1]
    BY DEF D!Value
  <2> HIDE DEF W, A, e, x
  <2>6. WaitAt(line, W, p) = <<x>> \o W[p + 1]
    BY <1>1, <1>7, <2>4, Zenon DEF WaitAt
  <2>7. W[p] = <<x>> \o W[e + 1]
    BY <1>2, <2>3, <2>6
  <2>8. e + 1 \in p + 1..n + 1
    BY <1>1, <2>1
  <2>9. Sequence(W[e + 1])
    BY <1>5, <2>1, <2>8
  <2>10. W[p][1] = x
    BY <2>7, <2>9, ConsOf
  <2>11. W[p] = <<W[p][1]>> \o W[e + 1]
    BY <2>7, <2>10
  <2>12. Reads(line, p)
    BY <2>1, <2>2, <2>8, <2>9, <2>11 DEF Reads, W, A
  <2>13. Meaning(line, first, p)
    BY <1>7, <2>5, <2>10 DEF Meaning, x
  <2> QED
    BY <2>12, <2>13
<1>8. CASE line[p] \notin Operators /\ line[p] \notin Opening
  <2> DEFINE x == D!Word(line[p])
  <2>1. A[p] = p + 1
    BY <1>1, <1>3, <1>8 DEF AfterAt
  <2>2. ~D!Within(line, p + 1)
    BY <1>1, <1>8, WithinNext
  <2>3. D!Value(line, p) = W[p][1]
    BY DEF D!Value
  <2> HIDE DEF W, A, x
  <2>4. WaitAt(line, W, p) = <<x>> \o W[p + 1]
    <3>1. line[p] \notin D!Operators
      BY <1>8, SameValues
    <3> QED
      BY <1>1, <1>8, <3>1, Zenon DEF WaitAt, x
  <2>5. p + 1 \in p + 1..n + 1
    BY <1>1
  <2>6. Sequence(W[p + 1])
    BY <1>5, <2>2, <2>5
  <2>7. W[p] = <<x>> \o W[p + 1]
    BY <1>2, <2>4
  <2>8. W[p][1] = x
    BY <2>6, <2>7, ConsOf
  <2>9. W[p] = <<W[p][1]>> \o W[p + 1]
    BY <2>7, <2>8
  <2>10. Reads(line, p)
    BY <2>1, <2>2, <2>5, <2>6, <2>9 DEF Reads, W, A
  <2>11. Meaning(line, first, p)
    BY <1>8, <2>3, <2>8 DEF Meaning, x
  <2> QED
    BY <2>10, <2>11
<1> QED
  BY <1>6, <1>7, <1>8

LEMMA MeaningIs ==
    ASSUME NEW line, NEW first, Zone(line, first), NEW p \in first..Len(line),
           ~D!Within(line, p)
    PROVE  Meaning(line, first, p)
<1> DEFINE n == Len(line)
           T == {m \in Nat : \A i \in first..n : i > n - m /\ ~D!Within(line, i) => Reads(line, i)}
<1>1. n \in Nat /\ first \in 1..n
  BY Elems DEF Zone, Quoted
<1>2. 0 \in T
  BY <1>1
<1>3. ASSUME NEW m \in Nat, m \in T PROVE m + 1 \in T
  <2> SUFFICES ASSUME NEW k \in first..n, k > n - (m + 1), ~D!Within(line, k)
               PROVE  Reads(line, k)
    OBVIOUS
  <2>1. \A i \in k + 1..n : i \in first..n /\ i > n - m
    BY <1>1
  <2>2. \A i \in k + 1..n : ~D!Within(line, i) => Reads(line, i)
    BY <1>3, <2>1
  <2> QED
    BY <2>2, ReadsStep
<1>4. n \in T
  <2> HIDE DEF T
  <2> QED
    BY <1>1, <1>2, <1>3, NatInd
<1>5. \A i \in p + 1..n : ~D!Within(line, i) => Reads(line, i)
  <2>1. \A i \in p + 1..n : i \in first..n /\ i > n - n
    BY <1>1
  <2> QED
    BY <1>4, <2>1
<1> QED
  BY <1>5, ReadsStep
=============================================================================
