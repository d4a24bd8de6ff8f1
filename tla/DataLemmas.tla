----------------------------- MODULE DataLemmas -----------------------------
(***************************************************************************)
(* What the proofs of several modules need of natural numbers, finite sets *)
(* and sequences.                                                          *)
(***************************************************************************)
EXTENDS Integers, Sequences, FiniteSets,
        FiniteSetTheorems, SequenceTheorems, TLAPS

-----------------------------------------------------------------------------
(* Induction and recursion over the natural numbers, in a form without     *)
(* operator parameters: predicates are sets, and steps are functions.      *)

(* If there were a k that is not in T, adding 1 would map the elements of T *)
(* below k one to one into those that are not 0, which are fewer.           *)
LEMMA SetInduction ==
  ASSUME NEW T, 0 \in T, \A n \in Nat : n \in T => n + 1 \in T
  PROVE  Nat \subseteq T
<1> SUFFICES ASSUME NEW k \in Nat, k \notin T PROVE FALSE
  OBVIOUS
<1> DEFINE S == T \cap (0..k)
           f == [n \in S |-> n + 1]
<1>1. IsFiniteSet(S)
  <2>1. IsFiniteSet(0..k)
    BY FS_Interval
  <2> QED BY <2>1, FS_Subset
<1>2. 0 \in S
  OBVIOUS
<1>3. \A n \in S : n + 1 \in S \ {0}
  OBVIOUS
<1>4. IsFiniteSet(S \ {0}) /\ Cardinality(S \ {0}) = Cardinality(S) - 1
  BY <1>1, <1>2, FS_RemoveElement
<1>5. Cardinality(S) \in Nat
  BY <1>1, FS_CardinalityType
<1>6. f \in [S -> S \ {0}]
  BY <1>3
<1>7. \A x, y \in S : f[x] = f[y] => x = y
  OBVIOUS
<1>8. Cardinality(S \ {0}) < Cardinality(S)
  BY <1>4, <1>5
<1> HIDE DEF S, f
<1> QED
  BY <1>1, <1>4, <1>6, <1>7, <1>8, FS_PigeonHole

(* The same up to a bound.                                                 *)
LEMMA Upwards ==
  ASSUME NEW n \in Nat, NEW T, 0 \in T,
         \A i \in 0..n : i \in T /\ i < n => i + 1 \in T
  PROVE  0..n \subseteq T
<1> DEFINE U == {i \in Nat : i <= n => i \in T}
<1>1. 0 \in U
  OBVIOUS
<1>2. \A i \in Nat : i \in U => i + 1 \in U
  OBVIOUS
<1> HIDE DEF U
<1>3. Nat \subseteq U
  BY <1>1, <1>2, SetInduction
<1> QED
  BY <1>3 DEF U

(* F[i, x] is the i-th value of a recursion if x is the one before.        *)
StaysIn(F, n, S) == \A i \in 1..n, x \in S : F[<<i, x>>] \in S

Solves(f, F, n, e, S) ==
  /\ f \in [0..n -> S]
  /\ f[0] = e
  /\ \A i \in 1..n : f[i] = F[<<i, f[i - 1]>>]

(* A recursion has a solution.                                             *)
LEMMA Recursion ==
  ASSUME NEW S, NEW n \in Nat, NEW e \in S, NEW F, StaysIn(F, n, S)
  PROVE  \E f : Solves(f, F, n, e, S)
<1> DEFINE T == {k \in 0..n : \E f : Solves(f, F, k, e, S)}
<1>1. 0 \in T
  <2> DEFINE z == [j \in 0..0 |-> e]
  <2>1. Solves(z, F, 0, e, S)
    BY DEF Solves
  <2>2. 0 \in 0..n
    OBVIOUS
  <2> HIDE DEF z
  <2> QED
    BY <2>1, <2>2
<1>2. ASSUME NEW k \in 0..n, k \in T, k < n
      PROVE  k + 1 \in T
  <2>1. PICK f : Solves(f, F, k, e, S)
    BY <1>2
  <2> DEFINE v == F[<<k + 1, f[k]>>]
             g == [j \in 0..k + 1 |-> IF j = k + 1 THEN v ELSE f[j]]
  <2>2. v \in S
    BY <1>2, <2>1 DEF StaysIn, Solves
  <2>3. g \in [0..k + 1 -> S]
    BY <2>1, <2>2 DEF Solves
  <2>4. g[0] = e
    BY <2>1 DEF Solves
  <2>5. ASSUME NEW i \in 1..k + 1
        PROVE  g[i] = F[<<i, g[i - 1]>>]
    <3>1. CASE i = k + 1
      <4>1. g[i] = v /\ i - 1 = k /\ g[k] = f[k]
        BY <3>1
      <4> QED
        BY <3>1, <4>1
    <3>2. CASE i \in 1..k
      <4>1. g[i] = f[i] /\ g[i - 1] = f[i - 1]
        BY <3>2
      <4> QED
        BY <2>1, <3>2, <4>1 DEF Solves
    <3> QED
      BY <3>1, <3>2
  <2> HIDE DEF g
  <2>6. k + 1 \in 0..n
    BY <1>2
  <2> QED
    BY <2>3, <2>4, <2>5, <2>6 DEF Solves
<1> HIDE DEF T
<1>3. n \in T
  <2>1. 0..n \subseteq T
    BY <1>1, <1>2, Upwards
  <2> QED
    BY <2>1
<1> QED
  BY <1>3 DEF T

-----------------------------------------------------------------------------
(* Sizes of finite sets.                                                   *)

(* A union is no larger than its parts together.                           *)
LEMMA UnionSize ==
  ASSUME NEW S, NEW T, IsFiniteSet(S), IsFiniteSet(T)
  PROVE  /\ IsFiniteSet(S \cup T)
         /\ Cardinality(S \cup T) \in Nat
         /\ Cardinality(S \cup T) <= Cardinality(S) + Cardinality(T)
<1>1. /\ IsFiniteSet(S \cup T) /\ IsFiniteSet(S \cap T)
      /\ Cardinality(S \cup T) =
           Cardinality(S) + Cardinality(T) - Cardinality(S \cap T)
  BY FS_Union, FS_Intersection
<1>2. /\ Cardinality(S) \in Nat /\ Cardinality(T) \in Nat
      /\ Cardinality(S \cap T) \in Nat /\ Cardinality(S \cup T) \in Nat
  BY <1>1, FS_CardinalityType
<1> QED
  BY <1>1, <1>2

(* What is left of a set is no smaller than the difference of the sizes.   *)
LEMMA RestSize ==
  ASSUME NEW S, NEW T, IsFiniteSet(S), IsFiniteSet(T)
  PROVE  Cardinality(S) - Cardinality(T) <= Cardinality(S \ T)
<1>1. /\ Cardinality(S \ T) = Cardinality(S) - Cardinality(S \cap T)
      /\ IsFiniteSet(S \ T)
  BY FS_Difference
<1>2. IsFiniteSet(S \cap T) /\ Cardinality(S \cap T) <= Cardinality(T)
  BY FS_Subset
<1>3. /\ Cardinality(S) \in Nat /\ Cardinality(T) \in Nat
      /\ Cardinality(S \cap T) \in Nat
  BY <1>2, FS_CardinalityType
<1> QED
  BY <1>1, <1>2, <1>3

-----------------------------------------------------------------------------
(* What is in a queue after a put at its end and a get from its head.      *)

InQueue(x, q) == \E i \in 1..Len(q) : q[i] = x

LEMMA InEmpty == \A x : ~InQueue(x, <<>>)
BY DEF InQueue

LEMMA InSome ==
  ASSUME NEW S, NEW q \in Seq(S), NEW x, InQueue(x, q)
  PROVE  q # <<>> /\ x \in S
BY DEF InQueue

LEMMA InAppend ==
  ASSUME NEW S, NEW q \in Seq(S), NEW e \in S
  PROVE  /\ Append(q, e) \in Seq(S)
         /\ \A x : InQueue(x, Append(q, e)) <=> InQueue(x, q) \/ x = e
<1> DEFINE a == Append(q, e)
<1>1. /\ a \in Seq(S) /\ Len(a) = Len(q) + 1 /\ Len(q) \in Nat
      /\ a[Len(q) + 1] = e /\ \A i \in 1..Len(q) : a[i] = q[i]
  OBVIOUS
<1> HIDE DEF a
<1>2. 1..Len(a) = (1..Len(q)) \cup {Len(q) + 1}
  BY <1>1
<1>3. \A x : InQueue(x, a) <=> InQueue(x, q) \/ x = e
  BY <1>1, <1>2 DEF InQueue
<1> QED
  BY <1>1, <1>3 DEF a

LEMMA InTail ==
  ASSUME NEW S, NEW q \in Seq(S), q # <<>>
  PROVE  /\ Head(q) \in S /\ Tail(q) \in Seq(S)
         /\ \A x : InQueue(x, q) <=> x = Head(q) \/ InQueue(x, Tail(q))
<1> DEFINE t == Tail(q)
           h == Head(q)
<1>1. /\ h \in S /\ t \in Seq(S) /\ Len(t) = Len(q) - 1
      /\ \A i \in 1..Len(t) : t[i] = q[i + 1]
      /\ q[1] = h /\ Len(q) \in Nat \ {0}
  BY HeadTailProperties
<1> HIDE DEF t, h
<1>2. ASSUME NEW i \in 1..Len(q)
      PROVE  i = 1 \/ (i - 1 \in 1..Len(t) /\ t[i - 1] = q[i])
  <2>1. CASE i # 1
    <3>1. i - 1 \in 1..Len(t) /\ (i - 1) + 1 = i
      BY <1>1, <2>1
    <3> QED
      BY <1>1, <3>1
  <2> QED
    BY <2>1
<1>3. ASSUME NEW i \in 1..Len(t)
      PROVE  i + 1 \in 1..Len(q)
  BY <1>1
<1>4. ASSUME NEW x, InQueue(x, q)
      PROVE  x = h \/ InQueue(x, t)
  <2>1. PICK i \in 1..Len(q) : q[i] = x
    BY <1>4 DEF InQueue
  <2> QED
    BY <1>1, <1>2, <2>1 DEF InQueue
<1>5. ASSUME NEW x, x = h \/ InQueue(x, t)
      PROVE  InQueue(x, q)
  <2>1. CASE x = h
    <3>1. 1 \in 1..Len(q)
      BY <1>1
    <3> QED
      BY <1>1, <2>1, <3>1 DEF InQueue
  <2>2. CASE InQueue(x, t)
    BY <1>1, <1>3, <2>2 DEF InQueue
  <2> QED
    BY <1>5, <2>1, <2>2
<1> QED
  BY <1>1, <1>4, <1>5 DEF t, h

LEMMA InConcat ==
  ASSUME NEW S, NEW q \in Seq(S), NEW r \in Seq(S)
  PROVE  /\ q \o r \in Seq(S)
         /\ \A x : InQueue(x, q \o r) <=> InQueue(x, q) \/ InQueue(x, r)
<1> DEFINE c == q \o r
<1>1. /\ c \in Seq(S) /\ Len(c) = Len(q) + Len(r)
      /\ Len(q) \in Nat /\ Len(r) \in Nat
      /\ \A i \in 1..Len(q) + Len(r) :
           c[i] = IF i <= Len(q) THEN q[i] ELSE r[i - Len(q)]
  BY ConcatProperties
<1> HIDE DEF c
<1>2. ASSUME NEW i \in 1..Len(q)
      PROVE  i \in 1..Len(c) /\ c[i] = q[i]
  <2>1. i \in 1..Len(q) + Len(r) /\ i <= Len(q)
    BY <1>1
  <2> QED
    BY <1>1, <2>1
<1>3. ASSUME NEW i \in 1..Len(r)
      PROVE  Len(q) + i \in 1..Len(c) /\ c[Len(q) + i] = r[i]
  <2>1. /\ Len(q) + i \in 1..Len(q) + Len(r) /\ ~(Len(q) + i <= Len(q))
        /\ (Len(q) + i) - Len(q) = i
    BY <1>1
  <2> QED
    BY <1>1, <2>1
<1>4. ASSUME NEW i \in 1..Len(c)
      PROVE  i \in 1..Len(q) \/ i - Len(q) \in 1..Len(r)
  BY <1>1
<1>5. ASSUME NEW i \in 1..Len(c)
      PROVE  \/ i \in 1..Len(q) /\ c[i] = q[i]
             \/ i - Len(q) \in 1..Len(r) /\ c[i] = r[i - Len(q)]
  <2>1. CASE i \in 1..Len(q)
    BY <1>2, <2>1
  <2>2. CASE i - Len(q) \in 1..Len(r)
    <3>1. Len(q) + (i - Len(q)) = i
      BY <1>1
    <3> QED
      BY <1>3, <2>2, <3>1
  <2> QED
    BY <1>4, <2>1, <2>2
<1>6. ASSUME NEW x
      PROVE  InQueue(x, c) <=> InQueue(x, q) \/ InQueue(x, r)
  <2>1. InQueue(x, c) => InQueue(x, q) \/ InQueue(x, r)
    BY <1>5 DEF InQueue
  <2>2. InQueue(x, q) => InQueue(x, c)
    BY <1>2 DEF InQueue
  <2>3. InQueue(x, r) => InQueue(x, c)
    BY <1>3 DEF InQueue
  <2> QED
    BY <2>1, <2>2, <2>3
<1> QED
  BY <1>1, <1>6 DEF c

(* A call that is served leaves the head, and what its handler puts comes  *)
(* to the end.                                                             *)
LEMMA InServed ==
  ASSUME NEW S, NEW q \in Seq(S), q # <<>>, NEW more \in Seq(S)
  PROVE  /\ Tail(q) \o more \in Seq(S)
         /\ \A x : InQueue(x, Tail(q) \o more) <=>
                     InQueue(x, Tail(q)) \/ InQueue(x, more)
         /\ \A x : InQueue(x, q) <=> x = Head(q) \/ InQueue(x, Tail(q))
<1>1. Tail(q) \in Seq(S)
  BY InTail
<1> QED
  BY <1>1, InTail, InConcat
=============================================================================
