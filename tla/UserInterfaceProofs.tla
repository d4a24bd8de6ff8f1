------------------------ MODULE UserInterfaceProofs ------------------------
(***************************************************************************)
(* Proofs about UserInterface: the lines and commands of every client, for *)
(* any clients, any messages and any cutting of what they send.            *)
(***************************************************************************)
EXTENDS UserInterface, DataLemmas

-----------------------------------------------------------------------------
(* FlattenSeq.                                                             *)

(* f[i] is what the first i sequences of s are together.                   *)
Joins(f, s, S) ==
  /\ f \in [0..Len(s) -> Seq(S)]
  /\ f[0] = <<>>
  /\ \A i \in 1..Len(s) : f[i] = f[i - 1] \o s[i]

LEMMA FlattenJoins ==
  ASSUME NEW S, NEW s \in Seq(Seq(S))
  PROVE  \E f : Joins(f, s, S) /\ FlattenSeq(s) = f[Len(s)]
<1> DEFINE n == Len(s)
           F == [p \in (1..n) \X Seq(S) |-> p[2] \o s[p[1]]]
           Rec(g) == [i \in 1..n |-> IF i = 1 THEN s[i] ELSE g[i - 1] \o s[i]]
<1>1. n \in Nat /\ <<>> \in Seq(S) /\ \A i \in 1..n : s[i] \in Seq(S)
  BY ElementOfSeq
<1>2. \A i \in 1..n, x \in Seq(S) :
        F[<<i, x>>] = x \o s[i] /\ F[<<i, x>>] \in Seq(S)
  BY <1>1, ConcatProperties
<1> HIDE DEF F
<1>3. PICK f : Solves(f, F, n, <<>>, Seq(S))
  <2>1. StaysIn(F, n, Seq(S))
    BY <1>2 DEF StaysIn
  <2> QED
    BY <1>1, <2>1, Recursion
<1>4. \A i \in 1..n : f[i - 1] \in Seq(S) /\ f[i] = f[i - 1] \o s[i]
  <2> TAKE i \in 1..n
  <2>1. i - 1 \in 0..n
    BY <1>1
  <2>2. f[i - 1] \in Seq(S)
    BY <1>3, <2>1 DEF Solves
  <2> QED
    BY <1>2, <1>3, <2>2 DEF Solves
<1>5. CASE n = 0
  <2>1. s = <<>> /\ FlattenSeq(s) = <<>>
    BY <1>5 DEF FlattenSeq
  <2> QED
    BY <1>3, <1>4, <1>5, <2>1 DEF Joins, Solves
<1>6. CASE n # 0
  <2> DEFINE g == [i \in 1..n |-> f[i]]
  <2>1. g = Rec(g)
    <3>1. ASSUME NEW i \in 1..n
          PROVE  f[i] = IF i = 1 THEN s[i] ELSE g[i - 1] \o s[i]
      <4>1. CASE i = 1
        <5>1. i - 1 = 0
          BY <4>1
        <5>2. f[i] = f[i - 1] \o s[i]
          BY <1>4
        <5> QED
          BY <1>1, <1>3, <4>1, <5>1, <5>2, ConcatEmptySeq DEF Solves
      <4>2. CASE i # 1
        <5>1. i - 1 \in 1..n
          BY <1>1, <4>2
        <5> QED
          BY <1>4, <4>2, <5>1
      <4> QED
        BY <4>1, <4>2
    <3> QED
      BY <3>1
  <2> DEFINE h == CHOOSE g1 : g1 = Rec(g1)
  <2>2. h = Rec(h)
    <3> HIDE DEF Rec, g
    <3> QED
      BY <2>1
  <2>3. FlattenSeq(s) = h[n]
    BY <1>6 DEF FlattenSeq
  <2> HIDE DEF h
  <2> DEFINE T == {i \in 0..n : i > 0 => h[i] = f[i]}
  <2>4. 0 \in T
    BY <1>1
  <2>5. ASSUME NEW i \in 0..n, i \in T, i < n
        PROVE  i + 1 \in T
    <3>1. i + 1 \in 1..n
      BY <1>1, <2>5
    <3>2. h[i + 1] = IF i + 1 = 1 THEN s[i + 1] ELSE h[(i + 1) - 1] \o s[i + 1]
      BY <2>2, <3>1
    <3>3. g[i + 1] = IF i + 1 = 1 THEN s[i + 1] ELSE g[(i + 1) - 1] \o s[i + 1]
      <4> HIDE DEF g
      <4> QED
        BY <2>1, <3>1
    <3>4. i # 0 => h[(i + 1) - 1] = g[(i + 1) - 1]
      BY <2>5
    <3>5. h[i + 1] = g[i + 1]
      <4>1. CASE i = 0
        BY <3>2, <3>3, <4>1
      <4>2. CASE i # 0
        BY <3>2, <3>3, <3>4, <4>2
      <4> QED
        BY <4>1, <4>2
    <3> QED
      BY <3>1, <3>5
  <2>6. n \in T
    <3>1. 0..n \subseteq T
      <4> HIDE DEF T, n
      <4> QED
        BY <1>1, <2>4, <2>5, Upwards
    <3> QED
      BY <1>1, <3>1
  <2>7. FlattenSeq(s) = f[n]
    BY <1>1, <1>6, <2>3, <2>6
  <2> QED
    BY <1>3, <1>4, <2>7 DEF Joins, Solves
<1> QED
  BY <1>5, <1>6

Agree(s, t, m) == \A i \in 1..m : s[i] = t[i]

(* What the first sequences make does not depend on those that follow.     *)
LEMMA JoinsAgree ==
  ASSUME NEW S, NEW s \in Seq(Seq(S)), NEW t \in Seq(Seq(S)),
         NEW f, Joins(f, s, S), NEW g, Joins(g, t, S),
         NEW m \in Nat, m <= Len(s), m <= Len(t), Agree(s, t, m)
  PROVE  f[m] = g[m]
<1> USE DEF Agree
<1> DEFINE T == {i \in 0..m : f[i] = g[i]}
<1>1. 0 \in T
  BY DEF Joins
<1>2. ASSUME NEW i \in 0..m, i \in T, i < m
      PROVE  i + 1 \in T
  <2>1. i + 1 \in 1..m /\ i + 1 \in 1..Len(s) /\ i + 1 \in 1..Len(t)
        /\ (i + 1) - 1 = i
    BY <1>2
  <2>2. f[i + 1] = f[i] \o s[i + 1] /\ g[i + 1] = g[i] \o t[i + 1]
    BY <2>1 DEF Joins
  <2>3. f[i] = g[i]
    BY <1>2
  <2>4. s[i + 1] = t[i + 1]
    BY <2>1
  <2>5. f[i + 1] = g[i + 1]
    BY <2>2, <2>3, <2>4
  <2> QED
    BY <2>1, <2>5
<1> HIDE DEF T
<1>3. 0..m \subseteq T
  BY <1>1, <1>2, Upwards
<1> QED
  BY <1>3 DEF T

(* A use of ConcatAssociative that leaves its equation folded.             *)
Grouped(a, b, c) == (a \o b) \o c = a \o (b \o c)

LEMMA Assoc ==
  ASSUME NEW S, NEW a \in Seq(S), NEW b \in Seq(S), NEW c \in Seq(S)
  PROVE  Grouped(a, b, c)
BY ConcatAssociative DEF Grouped

LEMMA FlattenConcat ==
  ASSUME NEW S, NEW s \in Seq(Seq(S)), NEW t \in Seq(Seq(S))
  PROVE  /\ FlattenSeq(s) \in Seq(S)
         /\ FlattenSeq(s \o t) = FlattenSeq(s) \o FlattenSeq(t)
<1> DEFINE c == s \o t
           n == Len(s)
           m == Len(t)
<1>1. /\ c \in Seq(Seq(S)) /\ Len(c) = n + m /\ n \in Nat /\ m \in Nat
      /\ \A i \in 1..n + m : c[i] = IF i <= n THEN s[i] ELSE t[i - n]
  BY ConcatProperties
<1> HIDE DEF c, n, m
<1>2. PICK f : Joins(f, s, S) /\ FlattenSeq(s) = f[n]
  BY FlattenJoins DEF n
<1>3. PICK g : Joins(g, t, S) /\ FlattenSeq(t) = g[m]
  BY FlattenJoins DEF m
<1>4. PICK h : Joins(h, c, S) /\ FlattenSeq(c) = h[n + m]
  BY <1>1, FlattenJoins
<1>5. f[n] \in Seq(S)
  <2>1. n \in 0..Len(s)
    BY <1>1 DEF n
  <2>2. f \in [0..Len(s) -> Seq(S)]
    BY <1>2 DEF Joins
  <2> QED
    BY <2>1, <2>2
<1>6. h[n] = f[n]
  <2>1. n \in Nat /\ n <= Len(s) /\ n <= Len(c)
    BY <1>1 DEF n
  <2>2. Agree(s, c, n)
    BY <1>1 DEF Agree
  <2>3. Joins(f, s, S) /\ Joins(h, c, S) /\ c \in Seq(Seq(S))
    BY <1>1, <1>2, <1>4
  <2>4. f[n] = h[n]
    BY <2>1, <2>2, <2>3, JoinsAgree
  <2> QED
    BY <2>4
<1> DEFINE Good(i) == h[n + i] = f[n] \o g[i]
           T == {i \in 0..m : Good(i)}
<1>7. 0 \in T
  <2>1. n + 0 = n /\ 0 \in 0..m
    BY <1>1
  <2>2. g[0] = <<>>
    BY <1>3 DEF Joins
  <2>3. f[n] \o <<>> = f[n]
    BY <1>5, ConcatEmptySeq
  <2>4. h[n + 0] = f[n] \o g[0]
    BY <1>6, <2>1, <2>2, <2>3
  <2> QED
    BY <2>1, <2>4
<1>8. ASSUME NEW i \in 0..m, i \in T, i < m
      PROVE  i + 1 \in T
  <2>1. /\ i + 1 \in 1..m /\ n + (i + 1) \in 1..n + m
        /\ (n + (i + 1)) - 1 = n + i /\ (i + 1) - 1 = i
        /\ ~(n + (i + 1) <= n) /\ (n + (i + 1)) - n = i + 1
    BY <1>1, <1>8
  <2>2. c[n + (i + 1)] = t[i + 1]
    BY <1>1, <2>1
  <2>3. h[n + (i + 1)] = h[n + i] \o t[i + 1]
    BY <1>1, <1>4, <2>1, <2>2 DEF Joins
  <2>4. g[i + 1] = g[i] \o t[i + 1]
    BY <1>3, <2>1 DEF Joins, m
  <2>5. g[i] \in Seq(S) /\ t[i + 1] \in Seq(S)
    BY <1>3, <2>1, ElementOfSeq DEF Joins, m
  <2>6. (f[n] \o g[i]) \o t[i + 1] = f[n] \o (g[i] \o t[i + 1])
    <3> DEFINE a == f[n]
               b == g[i]
               d == t[i + 1]
    <3>1. a \in Seq(S) /\ b \in Seq(S) /\ d \in Seq(S)
      BY <1>5, <2>5
    <3> HIDE DEF a, b, d
    <3>2. Grouped(a, b, d)
      BY <3>1, Assoc
    <3> QED
      BY <3>2 DEF Grouped, a, b, d
  <2>7. h[n + i] = f[n] \o g[i]
    BY <1>8
  <2>8. h[n + (i + 1)] = f[n] \o g[i + 1]
    BY <2>3, <2>4, <2>6, <2>7
  <2>9. i + 1 \in 0..m /\ Good(i + 1)
    BY <2>1, <2>8
  <2> HIDE DEF Good
  <2> QED
    BY <2>9
<1> HIDE DEF T
<1>9. 0..m \subseteq T
  BY <1>1, <1>7, <1>8, Upwards
<1>10. h[n + m] = f[n] \o g[m]
  <2>1. m \in T
    BY <1>1, <1>9
  <2> QED
    BY <2>1 DEF T
<1> QED
  BY <1>2, <1>3, <1>4, <1>5, <1>10 DEF c

LEMMA FlattenOne ==
  ASSUME NEW S, NEW x \in Seq(S)
  PROVE  FlattenSeq(<<x>>) = x
<1>1. <<x>> \in Seq(Seq(S)) /\ Len(<<x>>) = 1 /\ <<x>>[1] = x
  OBVIOUS
<1>2. PICK f : Joins(f, <<x>>, S) /\ FlattenSeq(<<x>>) = f[1]
  BY <1>1, FlattenJoins
<1> DEFINE y == <<x>>
<1>3. f[0] = <<>> /\ f[1] = f[0] \o y[1]
  <2>1. 1 \in 1..Len(y) /\ 1 - 1 = 0
    BY <1>1
  <2> HIDE DEF y
  <2>2. f[0] = <<>> /\ \A i \in 1..Len(y) : f[i] = f[i - 1] \o y[i]
    BY <1>2 DEF Joins, y
  <2> QED
    BY <2>1, <2>2
<1>4. <<>> \o x = x
  BY ConcatEmptySeq
<1> QED
  BY <1>1, <1>2, <1>3, <1>4

-----------------------------------------------------------------------------
(* What is sent: lines and newlines.                                       *)

AllMessages == {"STATE", "SHUTDOWN", "STARTOBS", "BADARGS", "BADTOBS",
                "STOPOBS", "OTHER"}
Letters == AllMessages \X {1, 2}
Tokens  == Letters \cup {Newline}

Ended(lines) == [k \in DOMAIN lines |-> lines[k] \o <<Newline>>]
Text(lines) == FlattenSeq(Ended(lines))

LEMMA Typing ==
  /\ Newline \in Tokens /\ Newline \notin Letters
  /\ Seq(Letters) \subseteq Seq(Tokens)
  /\ \A m \in AllMessages : Pieces(m) \in Seq(Letters)
<1>1. Newline \in Tokens /\ Newline \notin Letters
  BY DEF Newline, Tokens, Letters, AllMessages
<1>2. Seq(Letters) \subseteq Seq(Tokens)
  BY SeqMonotonic DEF Tokens
<1>3. ASSUME NEW m \in AllMessages
      PROVE  Pieces(m) \in Seq(Letters)
  <2>1. <<m, 1>> \in Letters /\ <<m, 2>> \in Letters
    BY DEF Letters
  <2> QED
    BY <2>1 DEF Pieces
<1> QED
  BY <1>1, <1>2, <1>3

LEMMA EndedTyped ==
  ASSUME NEW L \in Seq(Seq(Letters))
  PROVE  /\ Ended(L) \in Seq(Seq(Tokens)) /\ Len(Ended(L)) = Len(L)
         /\ \A k \in 1..Len(L) : /\ Ended(L)[k] = L[k] \o <<Newline>>
                                 /\ L[k] \in Seq(Letters)
<1>1. /\ DOMAIN L = 1..Len(L) /\ Len(L) \in Nat
      /\ \A k \in 1..Len(L) : L[k] \in Seq(Letters)
  BY LenProperties, ElementOfSeq
<1>2. ASSUME NEW k \in 1..Len(L)
      PROVE  L[k] \o <<Newline>> \in Seq(Tokens)
  <2>1. L[k] \in Seq(Tokens) /\ <<Newline>> \in Seq(Tokens)
    BY <1>1, Typing
  <2> QED
    BY <2>1, ConcatProperties
<1> QED
  BY <1>1, <1>2 DEF Ended

LEMMA TextConcat ==
  ASSUME NEW L \in Seq(Seq(Letters)), NEW M \in Seq(Seq(Letters))
  PROVE  Text(L) \in Seq(Tokens) /\ Text(L \o M) = Text(L) \o Text(M)
<1> DEFINE c == L \o M
<1>1. /\ c \in Seq(Seq(Letters)) /\ Len(c) = Len(L) + Len(M)
      /\ Len(L) \in Nat /\ Len(M) \in Nat
      /\ \A k \in 1..Len(L) + Len(M) :
           c[k] = IF k <= Len(L) THEN L[k] ELSE M[k - Len(L)]
  BY ConcatProperties
<1> HIDE DEF c
<1> DEFINE d == Ended(L) \o Ended(M)
<1>2. /\ d \in Seq(Seq(Tokens)) /\ Len(d) = Len(L) + Len(M)
      /\ \A k \in 1..Len(L) + Len(M) :
           d[k] = IF k <= Len(L) THEN Ended(L)[k] ELSE Ended(M)[k - Len(L)]
  <2> DEFINE p == Ended(L)
             q == Ended(M)
  <2>1. /\ p \in Seq(Seq(Tokens)) /\ q \in Seq(Seq(Tokens))
        /\ Len(p) = Len(L) /\ Len(q) = Len(M)
    BY EndedTyped
  <2> HIDE DEF p, q
  <2>2. /\ p \o q \in Seq(Seq(Tokens)) /\ Len(p \o q) = Len(p) + Len(q)
        /\ \A k \in 1..Len(p) + Len(q) :
             (p \o q)[k] = IF k <= Len(p) THEN p[k] ELSE q[k - Len(p)]
    BY <2>1, ConcatProperties
  <2> QED
    BY <2>1, <2>2 DEF p, q
<1> HIDE DEF d
<1>3. ASSUME NEW k \in 1..Len(L) + Len(M)
      PROVE  Ended(c)[k] = d[k]
  <2>1. Ended(c)[k] = c[k] \o <<Newline>>
    BY <1>1, EndedTyped
  <2>2. CASE k <= Len(L)
    <3>1. k \in 1..Len(L)
      BY <1>1, <2>2
    <3> QED
      BY <1>1, <1>2, <2>1, <2>2, <3>1, EndedTyped
  <2>3. CASE ~(k <= Len(L))
    <3>1. k - Len(L) \in 1..Len(M)
      BY <1>1, <2>3
    <3> QED
      BY <1>1, <1>2, <2>1, <2>3, <3>1, EndedTyped
  <2> QED
    BY <2>2, <2>3
<1>4. Ended(c) = d
  <2>1. Ended(c) \in Seq(Seq(Tokens)) /\ Len(Ended(c)) = Len(L) + Len(M)
    BY <1>1, EndedTyped
  <2> QED
    BY <1>2, <1>3, <2>1, SeqEqual
<1> QED
  BY <1>4, EndedTyped, FlattenConcat DEF Text, c, d

LEMMA TextOne ==
  ASSUME NEW l \in Seq(Letters)
  PROVE  /\ Text(<<l>>) = l \o <<Newline>>
         /\ Text(<<l>>) \in Seq(Tokens)
<1>1. <<l>> \in Seq(Seq(Letters)) /\ Len(<<l>>) = 1 /\ <<l>>[1] = l
  OBVIOUS
<1>2. Ended(<<l>>) = <<l \o <<Newline>>>>
  BY <1>1 DEF Ended
<1>3. l \o <<Newline>> \in Seq(Tokens)
  <2>1. l \in Seq(Tokens) /\ <<Newline>> \in Seq(Tokens)
    BY Typing
  <2> QED
    BY <2>1, ConcatProperties
<1> QED
  BY <1>2, <1>3, FlattenOne DEF Text

LEMMA TextNone == Text(<<>>) = <<>> /\ <<>> \in Seq(Seq(Letters))
BY DEF Text, Ended, FlattenSeq

LEMMA TextAppend ==
  ASSUME NEW L \in Seq(Seq(Letters)), NEW l \in Seq(Letters)
  PROVE  /\ Append(L, l) \in Seq(Seq(Letters))
         /\ Text(Append(L, l)) = Text(L) \o (l \o <<Newline>>)
<1>1. <<l>> \in Seq(Seq(Letters))
  OBVIOUS
<1>2. Append(L, l) = L \o <<l>> /\ Append(L, l) \in Seq(Seq(Letters))
  BY AppendIsConcat, AppendProperties
<1> QED
  BY <1>1, <1>2, TextConcat, TextOne

Cuts == [lines : Seq(Seq(Letters)), rest : Seq(Letters)]

(* One more token of a text of which x has been cut off.                   *)
CutNext(x, a) ==
  IF a = Newline THEN [lines |-> Append(x.lines, x.rest), rest |-> <<>>]
                 ELSE [lines |-> x.lines, rest |-> Append(x.rest, a)]

LEMMA CutNextWhole ==
  ASSUME NEW x \in Cuts, NEW a \in Tokens
  PROVE  /\ CutNext(x, a) \in Cuts
         /\ Text(CutNext(x, a).lines) \o CutNext(x, a).rest
              = (Text(x.lines) \o x.rest) \o <<a>>
<1>1. x.lines \in Seq(Seq(Letters)) /\ x.rest \in Seq(Letters)
  BY DEF Cuts
<1>2. Text(x.lines) \in Seq(Tokens) /\ x.rest \in Seq(Tokens)
      /\ <<a>> \in Seq(Tokens)
  BY <1>1, TextConcat, Typing
<1>3. Text(x.lines) \o (x.rest \o <<a>>) = (Text(x.lines) \o x.rest) \o <<a>>
  <2> DEFINE t == Text(x.lines)
             r == x.rest
             e == <<a>>
  <2>1. t \in Seq(Tokens) /\ r \in Seq(Tokens) /\ e \in Seq(Tokens)
    BY <1>2
  <2> HIDE DEF t, r, e
  <2>2. Grouped(t, r, e)
    BY <2>1, Assoc
  <2> QED
    BY <2>2 DEF Grouped, t, r, e
<1>4. CASE a = Newline
  <2>1. CutNext(x, a) = [lines |-> Append(x.lines, x.rest), rest |-> <<>>]
    BY <1>4 DEF CutNext
  <2>2. /\ Append(x.lines, x.rest) \in Seq(Seq(Letters))
        /\ Text(Append(x.lines, x.rest)) = Text(x.lines) \o (x.rest \o <<a>>)
    BY <1>1, <1>4, TextAppend
  <2> DEFINE t == Text(Append(x.lines, x.rest))
  <2>3. t \o <<>> = t
    <3>1. t \in Seq(Tokens)
      BY <2>2, TextConcat
    <3> HIDE DEF t
    <3> QED
      BY <3>1, ConcatEmptySeq
  <2>4. CutNext(x, a) \in Cuts
    BY <2>1, <2>2 DEF Cuts
  <2>5. CutNext(x, a).lines = Append(x.lines, x.rest) /\ CutNext(x, a).rest = <<>>
    BY <2>1
  <2>6. Text(CutNext(x, a).lines) \o CutNext(x, a).rest = t
    BY <2>3, <2>5
  <2>7. t = (Text(x.lines) \o x.rest) \o <<a>>
    BY <1>3, <2>2
  <2> QED
    BY <2>4, <2>6, <2>7
<1>5. CASE a # Newline
  <2>1. CutNext(x, a) = [lines |-> x.lines, rest |-> Append(x.rest, a)]
    BY <1>5 DEF CutNext
  <2>2. a \in Letters
    BY <1>5 DEF Tokens
  <2>3. Append(x.rest, a) \in Seq(Letters) /\ Append(x.rest, a) = x.rest \o <<a>>
    BY <1>1, <2>2, AppendProperties, AppendIsConcat
  <2> QED
    BY <1>1, <1>3, <2>1, <2>3 DEF Cuts
<1> QED
  BY <1>4, <1>5

(* Nothing of a text is lost where it is cut, and no newline is left.      *)
LEMMA SplitWhole ==
  ASSUME NEW text \in Seq(Tokens)
  PROVE  /\ Lines(text) \in Seq(Seq(Letters))
         /\ LeftOver(text) \in Seq(Letters)
         /\ Text(Lines(text)) \o LeftOver(text) = text
<1> DEFINE n == Len(text)
           none == [lines |-> <<>>, rest |-> <<>>]
           F == [p \in (1..n) \X Cuts |-> CutNext(p[2], text[p[1]])]
           Rec(g) == [i \in 0..n |->
                        IF i = 0 THEN none
                        ELSE IF text[i] = Newline
                          THEN [lines |-> Append(g[i-1].lines, g[i-1].rest),
                                rest  |-> <<>>]
                          ELSE [lines |-> g[i-1].lines,
                                rest  |-> Append(g[i-1].rest, text[i])]]
           h == CHOOSE g : g = Rec(g)
<1>1. n \in Nat /\ none \in Cuts /\ \A i \in 1..n : text[i] \in Tokens
  BY ElementOfSeq, TextNone DEF Cuts
<1>2. \A g : \A i \in 0..n :
        Rec(g)[i] = IF i = 0 THEN none ELSE CutNext(g[i - 1], text[i])
  BY DEF CutNext
<1>3. \E g : g = Rec(g)
  <2>1. \A i \in 1..n, x \in Cuts :
          F[<<i, x>>] = CutNext(x, text[i]) /\ F[<<i, x>>] \in Cuts
    BY <1>1, CutNextWhole
  <2> HIDE DEF F, n, none
  <2>2. StaysIn(F, n, Cuts)
    BY <2>1 DEF StaysIn
  <2>3. PICK f : Solves(f, F, n, none, Cuts)
    BY <1>1, <2>2, Recursion
  <2>4. f \in [0..n -> Cuts] /\ f[0] = none
    BY <2>3 DEF Solves
  <2>5. ASSUME NEW i \in 1..n
        PROVE  f[i] = CutNext(f[i - 1], text[i])
    <3>1. i - 1 \in 0..n
      BY <1>1
    <3>2. f[i - 1] \in Cuts
      BY <2>4, <3>1
    <3>3. f[i] = F[<<i, f[i - 1]>>]
      BY <2>3 DEF Solves
    <3> QED
      BY <2>1, <3>2, <3>3
  <2>6. ASSUME NEW i \in 0..n
        PROVE  f[i] = Rec(f)[i]
    <3>1. CASE i = 0
      BY <1>2, <2>4, <3>1
    <3>2. CASE i # 0
      <4>1. i \in 1..n
        BY <1>1, <3>2
      <4> QED
        BY <1>2, <2>5, <3>2, <4>1
    <3> QED
      BY <3>1, <3>2
  <2>7. f = [i \in 0..n |-> Rec(f)[i]] /\ Rec(f) = [i \in 0..n |-> Rec(f)[i]]
    BY <2>4, <2>6
  <2> HIDE DEF Rec
  <2> QED
    BY <2>7
<1>4. h = Rec(h)
  <2> HIDE DEF Rec
  <2> QED
    BY <1>3
<1>5. Split(text) = h[n]
  BY DEF Split
<1>6. h[0] = none /\ \A i \in 1..n : h[i] = CutNext(h[i - 1], text[i])
  <2>1. \A i \in 0..n : h[i] = Rec(h)[i]
    <3> HIDE DEF h, Rec
    <3> QED
      BY <1>4
  <2> HIDE DEF h, Rec, none
  <2> QED
    BY <1>1, <1>2, <2>1
<1> HIDE DEF h, Rec, F
<1> DEFINE Whole(i) == /\ h[i] \in Cuts
                       /\ Text(h[i].lines) \o h[i].rest = SubSeq(text, 1, i)
           T == {i \in 0..n : Whole(i)}
<1>7. 0 \in T
  <2>1. SubSeq(text, 1, 0) = <<>>
    BY SubSeqEmpty
  <2>2. <<>> \o <<>> = <<>>
    BY ConcatEmptySeq, TextNone
  <2>3. h[0].lines = <<>> /\ h[0].rest = <<>> /\ h[0] \in Cuts
    BY <1>1, <1>6
  <2>4. Whole(0)
    BY <2>1, <2>2, <2>3, TextNone
  <2> HIDE DEF Whole
  <2> QED
    BY <1>1, <2>4
<1>8. ASSUME NEW i \in 0..n, i \in T, i < n
      PROVE  i + 1 \in T
  <2>1. i + 1 \in 1..n /\ i + 1 \in 0..n /\ (i + 1) - 1 = i
    BY <1>1, <1>8
  <2>2. h[i + 1] = CutNext(h[i], text[i + 1]) /\ text[i + 1] \in Tokens
    BY <1>1, <1>6, <2>1
  <2>3. Whole(i)
    BY <1>8
  <2>4. /\ h[i + 1] \in Cuts
        /\ Text(h[i + 1].lines) \o h[i + 1].rest
             = SubSeq(text, 1, i) \o <<text[i + 1]>>
    BY <2>2, <2>3, CutNextWhole
  <2>5. SubSeq(text, 1, i + 1) = SubSeq(text, 1, i) \o <<text[i + 1]>>
    <3>1. 1 \in 1..Len(text) /\ i + 1 \in 1..Len(text)
      BY <2>1
    <3> QED
      BY <2>1, <3>1, SubSeqRecursiveSecond
  <2>6. Whole(i + 1)
    BY <2>4, <2>5
  <2> HIDE DEF Whole
  <2> QED
    BY <2>1, <2>6
<1> HIDE DEF T
<1>9. n \in T
  <2>1. 0..n \subseteq T
    <3> HIDE DEF n
    <3> QED
      BY <1>1, <1>7, <1>8, Upwards
  <2> QED
    BY <1>1, <2>1
<1>10. SubSeq(text, 1, n) = text
  BY SubSeqFull
<1>11. Whole(n)
  BY <1>9 DEF T
<1> QED
  BY <1>5, <1>10, <1>11 DEF Lines, LeftOver, Cuts

(* s begins with the line a.                                               *)
Begins(s, a) ==
  /\ Len(a) \in Nat
  /\ \A i \in 1..Len(a) : s[i] = a[i] /\ a[i] \in Letters
  /\ s[Len(a) + 1] = Newline

(* The first line of a text ends at its first newline.                     *)
LEMMA FirstLine ==
  ASSUME NEW a \in Seq(Letters), NEW x \in Seq(Tokens)
  PROVE  LET s == (a \o <<Newline>>) \o x
         IN  s \in Seq(Tokens) /\ Begins(s, a)
<1> DEFINE n == <<Newline>>
           t == a \o n
           s == t \o x
<1>1. /\ a \in Seq(Tokens) /\ n \in Seq(Tokens) /\ Len(n) = 1
      /\ n[1] = Newline /\ Len(a) \in Nat
      /\ \A i \in 1..Len(a) : a[i] \in Letters
  BY Typing, ElementOfSeq
<1> HIDE DEF n
<1>2. /\ t \in Seq(Tokens) /\ Len(t) = Len(a) + 1
      /\ \A i \in 1..Len(a) + 1 : t[i] = IF i <= Len(a) THEN a[i] ELSE n[i - Len(a)]
  <2>1. /\ t \in Seq(Tokens) /\ Len(t) = Len(a) + Len(n)
        /\ \A i \in 1..Len(a) + Len(n) :
             t[i] = IF i <= Len(a) THEN a[i] ELSE n[i - Len(a)]
    BY <1>1, ConcatProperties
  <2> HIDE DEF t
  <2> QED
    BY <1>1, <2>1
<1> HIDE DEF t
<1>3. /\ s \in Seq(Tokens)
      /\ \A i \in 1..Len(t) + Len(x) : s[i] = IF i <= Len(t) THEN t[i] ELSE x[i - Len(t)]
      /\ Len(x) \in Nat
  BY <1>2, ConcatProperties
<1> HIDE DEF s
<1>4. ASSUME NEW i \in 1..Len(a)
      PROVE  s[i] = a[i]
  <2>1. i \in 1..Len(t) + Len(x) /\ i <= Len(t) /\ i \in 1..Len(a) + 1 /\ i <= Len(a)
    BY <1>1, <1>2, <1>3
  <2> QED
    BY <1>2, <1>3, <2>1
<1>5. s[Len(a) + 1] = Newline
  <2> DEFINE i == Len(a) + 1
  <2>1. /\ i \in 1..Len(t) + Len(x) /\ i <= Len(t)
        /\ i \in 1..Len(a) + 1 /\ ~(i <= Len(a)) /\ i - Len(a) = 1
    BY <1>1, <1>2, <1>3
  <2> HIDE DEF i
  <2>2. s[i] = t[i] /\ t[i] = n[1]
    BY <1>2, <1>3, <2>1
  <2> QED
    BY <1>1, <2>2 DEF i
<1>6. Begins(s, a)
  BY <1>1, <1>4, <1>5 DEF Begins
<1> QED
  BY <1>3, <1>6 DEF s, t, n

LEMMA SameFirstLine ==
  ASSUME NEW a \in Seq(Letters), NEW x \in Seq(Tokens),
         NEW b \in Seq(Letters), NEW y \in Seq(Tokens),
         (a \o <<Newline>>) \o x = (b \o <<Newline>>) \o y
  PROVE  a = b
<1> DEFINE s == (a \o <<Newline>>) \o x
<1> DEFINE r == (b \o <<Newline>>) \o y
<1>1. Begins(s, a) /\ Begins(r, b)
  BY FirstLine
<1>2. s = r
  OBVIOUS
<1> HIDE DEF s, r
<1>3. /\ Len(a) \in Nat /\ s[Len(a) + 1] = Newline
      /\ \A i \in 1..Len(a) : s[i] = a[i] /\ a[i] \in Letters
  BY <1>1 DEF Begins
<1>4. /\ Len(b) \in Nat /\ s[Len(b) + 1] = Newline
      /\ \A i \in 1..Len(b) : s[i] = b[i] /\ b[i] \in Letters
  BY <1>1, <1>2 DEF Begins
<1>5. ~(Len(a) < Len(b))
  <2>1. Len(a) < Len(b) => Len(a) + 1 \in 1..Len(b)
    BY <1>3, <1>4
  <2> QED
    BY <1>3, <1>4, <2>1, Typing
<1>6. ~(Len(b) < Len(a))
  <2>1. Len(b) < Len(a) => Len(b) + 1 \in 1..Len(a)
    BY <1>3, <1>4
  <2> QED
    BY <1>3, <1>4, <2>1, Typing
<1>7. Len(a) = Len(b)
  BY <1>3, <1>4, <1>5, <1>6
<1>8. \A i \in 1..Len(a) : a[i] = b[i]
  BY <1>3, <1>4, <1>7
<1> QED
  BY <1>7, <1>8, SeqEqual

(* The text of some lines begins with the text before one of them, and     *)
(* goes on with that line.                                                 *)
LEMMA TextAt ==
  ASSUME NEW L \in Seq(Seq(Letters)), NEW j \in 0..Len(L) - 1
  PROVE  LET P == SubSeq(L, 1, j)
             R == SubSeq(L, j + 2, Len(L))
         IN  /\ P \in Seq(Seq(Letters)) /\ R \in Seq(Seq(Letters))
             /\ L[j + 1] \in Seq(Letters)
             /\ Text(L) = Text(P) \o ((L[j + 1] \o <<Newline>>) \o Text(R))
<1> DEFINE P == SubSeq(L, 1, j)
           R == SubSeq(L, j + 2, Len(L))
           Q == SubSeq(L, j + 1, Len(L))
           l == L[j + 1]
<1>1. /\ Len(L) \in Nat /\ j + 1 \in 1..Len(L) /\ j \in 0..Len(L)
      /\ (j + 1) + 1 = j + 2
  BY LenProperties
<1>2. \A i \in 1..Len(L) : L[i] \in Seq(Letters)
  BY ElementOfSeq
<1>3. P \in Seq(Seq(Letters))
  <2>1. \A i \in 1..j : L[i] \in Seq(Letters)
    BY <1>1, <1>2
  <2>2. 1 \in Int /\ j \in Int
    BY <1>1
  <2> QED
    BY <2>1, <2>2, SubSeqProperties
<1>4. R \in Seq(Seq(Letters))
  <2>1. \A i \in j + 2..Len(L) : L[i] \in Seq(Letters)
    BY <1>1, <1>2
  <2>2. j + 2 \in Int /\ Len(L) \in Int
    BY <1>1
  <2> QED
    BY <2>1, <2>2, SubSeqProperties
<1>5. l \in Seq(Letters) /\ <<l>> \in Seq(Seq(Letters))
  BY <1>1, <1>2
<1>6. Q = <<l>> \o R
  <2>1. Len(L) \in j + 1..Len(L)
    BY <1>1
  <2> QED
    BY <1>1, <2>1, SubSeqRecursiveFirst
<1>7. L = P \o Q
  <2>1. /\ 1 \in 1..Len(L) + 1 /\ j \in 1 - 1..Len(L) /\ Len(L) \in j..Len(L)
    BY <1>1
  <2>2. SubSeq(L, 1, j) \o SubSeq(L, j + 1, Len(L)) = SubSeq(L, 1, Len(L))
    BY <2>1, ConcatAdjacentSubSeq
  <2> QED
    BY <2>2, SubSeqFull
<1> HIDE DEF P, Q, R, l
<1>8. Q \in Seq(Seq(Letters)) /\ Text(Q) = (l \o <<Newline>>) \o Text(R)
  <2>1. <<l>> \o R \in Seq(Seq(Letters))
    BY <1>4, <1>5, ConcatProperties
  <2>2. Text(<<l>> \o R) = Text(<<l>>) \o Text(R)
    BY <1>4, <1>5, TextConcat
  <2>3. Text(<<l>>) = l \o <<Newline>>
    BY <1>5, TextOne
  <2> QED
    BY <1>6, <2>1, <2>2, <2>3
<1>9. Text(L) = Text(P) \o Text(Q)
  BY <1>3, <1>7, <1>8, TextConcat
<1> QED
  BY <1>3, <1>4, <1>5, <1>8, <1>9 DEF P, R, l

GoesOn(w, p, e, r, x) == w \o x = p \o (e \o (r \o x))

LEMMA Regroup ==
  ASSUME NEW S, NEW p \in Seq(S), NEW e \in Seq(S), NEW r \in Seq(S),
         NEW x \in Seq(S), NEW w, w = p \o (e \o r)
  PROVE  GoesOn(w, p, e, r, x)
<1> DEFINE v == e \o r
<1>1. v \in Seq(S)
  BY ConcatProperties
<1>2. Grouped(e, r, x)
  BY Assoc
<1>3. w = p \o v
  OBVIOUS
<1>4. v \o x = e \o (r \o x)
  BY <1>2 DEF Grouped
<1> HIDE DEF v
<1>5. Grouped(p, v, x)
  BY <1>1, Assoc
<1> QED
  BY <1>3, <1>4, <1>5 DEF GoesOn, Grouped

LEMMA TextGoesOn ==
  ASSUME NEW L \in Seq(Seq(Letters)), NEW j \in 0..Len(L) - 1,
         NEW x \in Seq(Tokens)
  PROVE  Text(L) \o x
           = Text(SubSeq(L, 1, j))
               \o ((L[j + 1] \o <<Newline>>)
                     \o (Text(SubSeq(L, j + 2, Len(L))) \o x))
<1> DEFINE p == Text(SubSeq(L, 1, j))
           e == L[j + 1] \o <<Newline>>
           r == Text(SubSeq(L, j + 2, Len(L)))
           w == Text(L)
<1>1. p \in Seq(Tokens) /\ r \in Seq(Tokens)
  BY TextAt, TextConcat
<1>2. e \in Seq(Tokens)
  BY TextAt, TextOne
<1>3. w = p \o (e \o r)
  BY TextAt
<1> HIDE DEF p, e, r, w
<1>4. GoesOn(w, p, e, r, x)
  BY <1>1, <1>2, <1>3, Regroup
<1> QED
  BY <1>4 DEF p, e, r, w, GoesOn

(* A text can be cut into lines in one way only.                           *)
LEMMA SameLines ==
  ASSUME NEW L \in Seq(Seq(Letters)), NEW M \in Seq(Seq(Letters)),
         NEW x \in Seq(Tokens), Text(L) \o x = Text(M)
  PROVE  Len(L) <= Len(M) /\ \A k \in 1..Len(L) : L[k] = M[k]
<1> DEFINE Same(j) == j <= Len(M) /\ \A k \in 1..j : L[k] = M[k]
           T == {j \in 0..Len(L) : Same(j)}
<1>1. Len(L) \in Nat /\ Len(M) \in Nat
  BY LenProperties
<1>2. 0 \in T
  BY <1>1
<1>3. ASSUME NEW j \in 0..Len(L), j \in T, j < Len(L)
      PROVE  j + 1 \in T
  <2> DEFINE P == SubSeq(L, 1, j)
             R == SubSeq(L, j + 2, Len(L))
             l == L[j + 1]
             y == (l \o <<Newline>>) \o (Text(R) \o x)
  <2>1. j \in 0..Len(L) - 1 /\ j \in 0..Len(M) /\ Same(j)
    BY <1>1, <1>3
  <2>2. /\ P \in Seq(Seq(Letters)) /\ R \in Seq(Seq(Letters))
        /\ l \in Seq(Letters)
        /\ Text(L) = Text(P) \o ((l \o <<Newline>>) \o Text(R))
    BY <2>1, TextAt
  <2>3. SubSeq(M, 1, j) = P
    <3> DEFINE O == SubSeq(M, 1, j)
    <3>1. \A i \in 1..j : M[i] \in Seq(Letters) /\ L[i] \in Seq(Letters)
      BY <1>1, <2>1, ElementOfSeq
    <3>2. 1 \in Int /\ j \in Int
      BY <2>1
    <3>3. /\ O \in Seq(Seq(Letters)) /\ Len(O) = (IF 1 <= j THEN j - 1 + 1 ELSE 0)
          /\ \A i \in 1..j - 1 + 1 : O[i] = M[1 + i - 1]
      BY <3>1, <3>2, SubSeqProperties
    <3>4. /\ Len(P) = (IF 1 <= j THEN j - 1 + 1 ELSE 0)
          /\ \A i \in 1..j - 1 + 1 : P[i] = L[1 + i - 1]
      BY <3>1, <3>2, SubSeqProperties
    <3> HIDE DEF O, P
    <3>5. \A i \in 1..Len(O) : O[i] = P[i]
      BY <2>1, <3>3, <3>4
    <3>6. O = P
      BY <2>2, <3>3, <3>4, <3>5, SeqEqual
    <3> QED
      BY <3>6 DEF O
  <2> HIDE DEF P, R, l
  <2>4. /\ Text(P) \in Seq(Tokens) /\ Text(R) \in Seq(Tokens)
        /\ l \o <<Newline>> \in Seq(Tokens) /\ Text(R) \o x \in Seq(Tokens)
        /\ y \in Seq(Tokens)
    <3>1. l \o <<Newline>> \in Seq(Tokens)
      BY <2>2, TextOne
    <3>2. Text(P) \in Seq(Tokens) /\ Text(R) \in Seq(Tokens)
      BY <2>2, TextConcat
    <3>3. Text(R) \o x \in Seq(Tokens)
      BY <3>2, ConcatProperties
    <3> QED
      BY <3>1, <3>2, <3>3, ConcatProperties
  <2>5. Text(M) = Text(P) \o y
    <3>1. Text(L) \o x = Text(P) \o ((l \o <<Newline>>) \o (Text(R) \o x))
      BY <2>1, TextGoesOn DEF P, R, l
    <3> QED
      BY <3>1
  <2>6. /\ y # <<>> /\ y[Len(l) + 1] = Newline
    <3>1. y \in Seq(Tokens) /\ Len(l) \in Nat /\ y[Len(l) + 1] = Newline
      BY <2>2, <2>4, FirstLine DEF Begins
    <3>2. Len(y) > 0
      <4>1. /\ Len(l \o <<Newline>>) = Len(l) + 1
            /\ Len(y) = Len(l \o <<Newline>>) + Len(Text(R) \o x)
            /\ Len(Text(R) \o x) \in Nat
        <5>1. l \in Seq(Tokens) /\ <<Newline>> \in Seq(Tokens)
              /\ Len(<<Newline>>) = 1
          BY <2>2, Typing
        <5>2. Len(l \o <<Newline>>) = Len(l) + 1
          BY <5>1, ConcatProperties
        <5> QED
          BY <2>4, <5>2, ConcatProperties, LenProperties
      <4> QED
        BY <3>1, <4>1
    <3> QED
      BY <3>1, <3>2
  <2>7. j < Len(M)
    <3> SUFFICES ASSUME j = Len(M) PROVE FALSE
      BY <1>1, <2>1
    <3>1. Text(M) = Text(P)
      BY <2>3, SubSeqFull
    <3>2. y = <<>>
      BY <2>4, <2>5, <3>1, ConcatSimplifications
    <3> QED
      BY <2>6, <3>2
  <2> DEFINE N == SubSeq(M, j + 2, Len(M))
             m == M[j + 1]
             z == (m \o <<Newline>>) \o Text(N)
  <2>8. /\ N \in Seq(Seq(Letters)) /\ m \in Seq(Letters)
        /\ Text(M) = Text(P) \o z
    <3>1. j \in 0..Len(M) - 1
      BY <1>1, <2>1, <2>7
    <3> QED
      BY <2>3, <3>1, TextAt
  <2> HIDE DEF N, m
  <2>9. Text(N) \in Seq(Tokens) /\ z \in Seq(Tokens)
    <3>1. Text(N) \in Seq(Tokens)
      BY <2>8, TextConcat
    <3> QED
      BY <2>8, <3>1, FirstLine
  <2>10. y = z
    <3> DEFINE p == Text(P)
    <3>1. p \in Seq(Tokens) /\ y \in Seq(Tokens) /\ z \in Seq(Tokens)
      BY <2>4, <2>9
    <3>2. p \o y = p \o z
      BY <2>5, <2>8
    <3> HIDE DEF y, z, p
    <3> QED
      BY ONLY <3>1, <3>2, ConcatSimplifications
  <2>11. l = m
    BY <2>2, <2>4, <2>8, <2>9, <2>10, SameFirstLine
  <2>12. Same(j + 1)
    BY <1>1, <2>1, <2>7, <2>11 DEF l, m
  <2>13. j + 1 \in 0..Len(L)
    BY <1>1, <1>3
  <2> HIDE DEF Same
  <2> QED
    BY <2>12, <2>13
<1> HIDE DEF T
<1>4. 0..Len(L) \subseteq T
  BY <1>1, <1>2, <1>3, Upwards
<1>5. Len(L) \in T
  <2>1. Len(L) \in 0..Len(L)
    BY <1>1
  <2> QED
    BY <1>4, <2>1
<1> QED
  BY <1>5 DEF T

-----------------------------------------------------------------------------
(* What is sent comes out in lines.                                        *)

Said(ms) == [k \in DOMAIN ms |-> Pieces(ms[k])]

Streams ==
  /\ wire \in [Clients -> Seq(Tokens)]
  /\ buffer \in [Clients -> Seq(Letters)]
  /\ parsed \in [Clients -> Seq(Seq(Letters))]
  /\ DOMAIN sent = Clients
  /\ \A c \in Clients :
       /\ sent[c] \in Seq(Messages[c])
       /\ Text(parsed[c]) \o (buffer[c] \o wire[c]) = Text(Said(sent[c]))

LEMMA MessagesOf ==
  ASSUME NEW c \in Clients
  PROVE  Messages[c] \subseteq AllMessages
BY MessagesAssumption DEF AllMessages

LEMMA SaidTyped ==
  ASSUME NEW s \in Seq(AllMessages)
  PROVE  /\ Said(s) \in Seq(Seq(Letters)) /\ Len(Said(s)) = Len(s)
         /\ \A k \in 1..Len(s) : Said(s)[k] = Pieces(s[k])
         /\ Text(Said(s)) = FlattenSeq([k \in DOMAIN s |-> Pieces(s[k]) \o <<Newline>>])
<1>1. DOMAIN s = 1..Len(s) /\ Len(s) \in Nat
      /\ \A k \in 1..Len(s) : Pieces(s[k]) \in Seq(Letters)
  BY LenProperties, ElementOfSeq, Typing
<1>2. /\ Said(s) \in Seq(Seq(Letters)) /\ Len(Said(s)) = Len(s)
      /\ DOMAIN Said(s) = DOMAIN s
      /\ \A k \in 1..Len(s) : Said(s)[k] = Pieces(s[k])
  BY <1>1 DEF Said
<1>3. Ended(Said(s)) = [k \in DOMAIN s |-> Pieces(s[k]) \o <<Newline>>]
  BY <1>1, <1>2 DEF Ended
<1> QED
  BY <1>2, <1>3 DEF Text

LEMMA SaidAppend ==
  ASSUME NEW s \in Seq(AllMessages), NEW m \in AllMessages
  PROVE  /\ Append(s, m) \in Seq(AllMessages)
         /\ Text(Said(Append(s, m))) = Text(Said(s)) \o (Pieces(m) \o <<Newline>>)
<1> DEFINE a == Append(s, m)
           b == Append(Said(s), Pieces(m))
<1>1. /\ a \in Seq(AllMessages) /\ Len(a) = Len(s) + 1 /\ Len(s) \in Nat
      /\ \A k \in 1..Len(s) : a[k] = s[k]
      /\ a[Len(s) + 1] = m
  BY AppendProperties
<1> HIDE DEF a
<1>2. /\ Said(s) \in Seq(Seq(Letters)) /\ Len(Said(s)) = Len(s)
      /\ Pieces(m) \in Seq(Letters)
      /\ \A k \in 1..Len(s) : Said(s)[k] = Pieces(s[k])
  BY SaidTyped, Typing
<1>3. /\ b \in Seq(Seq(Letters)) /\ Len(b) = Len(s) + 1
      /\ \A k \in 1..Len(s) : b[k] = Said(s)[k]
      /\ b[Len(s) + 1] = Pieces(m)
  <2> DEFINE q == Said(s)
             e == Pieces(m)
  <2>1. q \in Seq(Seq(Letters)) /\ e \in Seq(Letters) /\ Len(q) = Len(s)
    BY <1>2
  <2> HIDE DEF q, e
  <2> DEFINE u == Append(q, e)
  <2>2. /\ u \in Seq(Seq(Letters)) /\ Len(u) = Len(q) + 1
        /\ \A k \in 1..Len(q) : u[k] = q[k]
        /\ u[Len(q) + 1] = e
    <3> DEFINE W == Seq(Letters)
    <3>1. q \in Seq(W) /\ e \in W
      BY <2>1
    <3> HIDE DEF W
    <3>2. /\ u \in Seq(W) /\ Len(u) = Len(q) + 1
          /\ \A k \in 1..Len(q) : u[k] = q[k]
          /\ u[Len(q) + 1] = e
      BY <3>1, AppendProperties
    <3> QED
      BY <3>2 DEF W
  <2> QED
    BY <2>1, <2>2 DEF q, e
<1> HIDE DEF b
<1>4. /\ Said(a) \in Seq(Seq(Letters)) /\ Len(Said(a)) = Len(a)
      /\ \A k \in 1..Len(a) : Said(a)[k] = Pieces(a[k])
  BY <1>1, SaidTyped
<1>5. ASSUME NEW k \in 1..Len(Said(a))
      PROVE  Said(a)[k] = b[k]
  <2>1. k \in 1..Len(s) \/ k = Len(s) + 1
    BY <1>1, <1>4
  <2> QED
    BY <1>1, <1>2, <1>3, <1>4, <2>1
<1>6. Said(a) = b
  BY <1>1, <1>3, <1>4, <1>5, SeqEqual
<1>7. Text(b) = Text(Said(s)) \o (Pieces(m) \o <<Newline>>)
  BY <1>2, TextAppend DEF b
<1> QED
  BY <1>1, <1>6, <1>7 DEF a

(* What is taken from the wire goes through the buffer to the lines.       *)
Moved(p, t, r, b, u, v) == (p \o t) \o (r \o v) = p \o (b \o (u \o v))

LEMMA MovesOn ==
  ASSUME NEW S, NEW p \in Seq(S), NEW t \in Seq(S), NEW r \in Seq(S),
         NEW b \in Seq(S), NEW u \in Seq(S), NEW v \in Seq(S),
         NEW w, w = t \o r, w = b \o u
  PROVE  Moved(p, t, r, b, u, v)
<1> DEFINE rv == r \o v
<1>1. rv \in Seq(S)
  BY ConcatProperties
<1>2. Grouped(t, r, v) /\ Grouped(b, u, v)
  BY Assoc
<1> HIDE DEF rv
<1>3. Grouped(p, t, rv)
  BY <1>1, Assoc
<1> QED
  BY <1>2, <1>3 DEF rv, Grouped, Moved

LEMMA InitStreams == Init => Streams
<1> SUFFICES ASSUME Init PROVE Streams
  OBVIOUS
<1>1. <<>> \in Seq(Tokens) /\ <<>> \in Seq(Letters) /\ <<>> \in Seq(Seq(Letters))
  OBVIOUS
<1>2. Said(<<>>) = <<>>
  BY DEF Said
<1>3. <<>> \o (<<>> \o <<>>) = <<>>
  BY <1>1, ConcatEmptySeq
<1> QED
  BY <1>1, <1>2, <1>3, TextNone DEF Init, Streams

LEMMA SendStreams ==
  ASSUME Streams, NEW c \in Clients, NEW m \in Messages[c], Send(c, m)
  PROVE  Streams'
<1> DEFINE w == Pieces(m) \o <<Newline>>
<1>1. m \in AllMessages /\ sent[c] \in Seq(AllMessages)
  BY MessagesOf, SeqMonotonic DEF Streams
<1>2. w \in Seq(Tokens)
  BY <1>1, Typing, TextOne
<1>3. /\ wire' = [wire EXCEPT ![c] = (wire[c] \o Pieces(m)) \o <<Newline>>]
      /\ sent' = [sent EXCEPT ![c] = Append(sent[c], m)]
      /\ UNCHANGED <<buffer, parsed>>
  BY DEF Send, Client, inputVars
<1>4. (wire[c] \o Pieces(m)) \o <<Newline>> = wire[c] \o w
  <2>1. /\ wire[c] \in Seq(Tokens) /\ Pieces(m) \in Seq(Tokens)
        /\ <<Newline>> \in Seq(Tokens)
    BY <1>1, Typing DEF Streams
  <2>2. Grouped(wire[c], Pieces(m), <<Newline>>)
    BY <2>1, Assoc
  <2> QED
    BY <2>2 DEF Grouped
<1> HIDE DEF w
<1>5. wire[c] \o w \in Seq(Tokens)
  BY <1>2, ConcatProperties DEF Streams
<1>6. wire' = [wire EXCEPT ![c] = wire[c] \o w]
  BY <1>3, <1>4
<1>7. Append(sent[c], m) \in Seq(Messages[c])
  BY AppendProperties DEF Streams
<1>8. Text(parsed[c]) \o (buffer[c] \o (wire[c] \o w))
        = Text(Said(Append(sent[c], m)))
  <2> DEFINE p == Text(parsed[c])
             b == buffer[c]
             v == wire[c]
             q == Text(Said(sent[c]))
  <2>1. p \in Seq(Tokens) /\ b \in Seq(Tokens) /\ v \in Seq(Tokens)
    BY TextConcat, Typing DEF Streams
  <2>2. q = p \o (b \o v)
    BY DEF Streams
  <2>3. Text(Said(Append(sent[c], m))) = q \o w
    BY <1>1, SaidAppend DEF w
  <2> HIDE DEF p, b, v, q
  <2>4. q \o w = p \o (b \o (v \o w))
    <3>1. GoesOn(q, p, b, v, w)
      BY <1>2, <2>1, <2>2, Regroup
    <3> QED
      BY <3>1 DEF GoesOn
  <2> QED
    BY <2>3, <2>4 DEF p, b, v
<1>9. ASSUME NEW d \in Clients
      PROVE  /\ sent'[d] \in Seq(Messages[d])
             /\ Text(parsed'[d]) \o (buffer'[d] \o wire'[d]) = Text(Said(sent'[d]))
  <2>1. CASE d = c
    <3>1. sent'[d] = Append(sent[c], m) /\ wire'[d] = wire[c] \o w
      BY <1>3, <1>6, <2>1 DEF Streams
    <3> QED
      BY <1>3, <1>7, <1>8, <2>1, <3>1
  <2>2. CASE d # c
    <3>1. sent'[d] = sent[d] /\ wire'[d] = wire[d]
      BY <1>3, <1>6, <2>2 DEF Streams
    <3> QED
      BY <1>3, <3>1 DEF Streams
  <2> QED
    BY <2>1, <2>2
<1> QED
  BY <1>3, <1>5, <1>6, <1>9 DEF Streams

LEMMA ProcessStreams ==
  ASSUME Streams, NEW c \in Clients, Process(c)
  PROVE  Streams'
<1> DEFINE Text1(n) == buffer[c] \o SubSeq(wire[c], 1, n)
<1>1. PICK n \in 1..Len(wire[c]) :
        Takes(c, n, Lines(Text1(n)), LeftOver(Text1(n)))
  BY DEF Process
<1> DEFINE u == SubSeq(wire[c], 1, n)
           v == SubSeq(wire[c], n + 1, Len(wire[c]))
           text == buffer[c] \o u
           ls == Lines(text)
           r == LeftOver(text)
<1>2. /\ wire' = [wire EXCEPT ![c] = v]
      /\ parsed' = [parsed EXCEPT ![c] = parsed[c] \o ls]
      /\ buffer' = [buffer EXCEPT ![c] = r]
      /\ sent' = sent
  BY <1>1 DEF Takes
<1>3. u \in Seq(Tokens) /\ v \in Seq(Tokens) /\ u \o v = wire[c]
  <2>1. wire[c] \in Seq(Tokens) /\ Len(wire[c]) \in Nat
    BY LenProperties DEF Streams
  <2>2. \A i \in 1..Len(wire[c]) : wire[c][i] \in Tokens
    BY <2>1, ElementOfSeq
  <2>3. u \in Seq(Tokens)
    <3>1. \A i \in 1..n : wire[c][i] \in Tokens
      BY <2>1, <2>2
    <3> QED
      BY <3>1, SubSeqProperties
  <2>4. v \in Seq(Tokens)
    <3>1. \A i \in n + 1..Len(wire[c]) : wire[c][i] \in Tokens
      BY <2>1, <2>2
    <3>2. n + 1 \in Int /\ Len(wire[c]) \in Int
      BY <2>1
    <3> QED
      BY <3>1, <3>2, SubSeqProperties
  <2>5. u \o v = SubSeq(wire[c], 1, Len(wire[c]))
    <3>1. /\ 1 \in 1..Len(wire[c]) + 1 /\ n \in 1 - 1..Len(wire[c])
          /\ Len(wire[c]) \in n..Len(wire[c])
      BY <2>1
    <3> QED
      BY <2>1, <3>1, ConcatAdjacentSubSeq
  <2> QED
    BY <2>1, <2>3, <2>4, <2>5, SubSeqFull
<1> HIDE DEF u, v
<1>4. buffer[c] \in Seq(Tokens) /\ text \in Seq(Tokens)
  <2>1. buffer[c] \in Seq(Tokens)
    BY Typing DEF Streams
  <2> QED
    BY <1>3, <2>1, ConcatProperties
<1>5. /\ ls \in Seq(Seq(Letters)) /\ r \in Seq(Letters)
      /\ Text(ls) \o r = buffer[c] \o u
  BY <1>4, SplitWhole
<1> HIDE DEF text, ls, r
<1>6. Text(parsed[c] \o ls) = Text(parsed[c]) \o Text(ls)
      /\ parsed[c] \o ls \in Seq(Seq(Letters))
  BY <1>5, TextConcat, ConcatProperties DEF Streams
<1>7. Text(parsed[c] \o ls) \o (r \o v) = Text(Said(sent[c]))
  <2> DEFINE p == Text(parsed[c])
             t == Text(ls)
             b == buffer[c]
  <2>1. /\ p \in Seq(Tokens) /\ t \in Seq(Tokens) /\ b \in Seq(Tokens)
        /\ r \in Seq(Tokens) /\ t \o r = b \o u
    BY <1>4, <1>5, TextConcat, Typing DEF Streams
  <2> HIDE DEF p, t, b
  <2>2. (p \o t) \o (r \o v) = p \o (b \o (u \o v))
    <3> DEFINE w == t \o r
    <3>1. w = t \o r /\ w = b \o u
      BY <2>1
    <3>2. /\ p \in Seq(Tokens) /\ t \in Seq(Tokens) /\ b \in Seq(Tokens)
          /\ r \in Seq(Tokens)
      BY <2>1
    <3> HIDE DEF w
    <3>3. Moved(p, t, r, b, u, v)
      BY <1>3, <3>1, <3>2, MovesOn
    <3> QED
      BY <3>3 DEF Moved
  <2>3. p \o (b \o wire[c]) = Text(Said(sent[c]))
    BY DEF Streams, p, b
  <2> QED
    BY <1>3, <1>6, <2>2, <2>3 DEF p, t
<1>8. ASSUME NEW d \in Clients
      PROVE  /\ sent'[d] \in Seq(Messages[d])
             /\ Text(parsed'[d]) \o (buffer'[d] \o wire'[d]) = Text(Said(sent'[d]))
  <2>1. CASE d = c
    <3>1. parsed'[d] = parsed[c] \o ls /\ buffer'[d] = r /\ wire'[d] = v
      BY <1>2, <2>1 DEF Streams
    <3> QED
      BY <1>2, <1>7, <2>1, <3>1 DEF Streams
  <2>2. CASE d # c
    <3>1. /\ parsed'[d] = parsed[d] /\ buffer'[d] = buffer[d]
          /\ wire'[d] = wire[d]
      BY <1>2, <2>2 DEF Streams
    <3> QED
      BY <1>2, <3>1 DEF Streams
  <2> QED
    BY <2>1, <2>2
<1> QED
  BY <1>2, <1>3, <1>5, <1>6, <1>8 DEF Streams

LEMMA SameStreams ==
  ASSUME Streams, UNCHANGED <<wire, sent, buffer, parsed>>
  PROVE  Streams'
BY DEF Streams

LEMMA NextStreams ==
  ASSUME Streams, [Next]_vars
  PROVE  Streams'
<1> DEFINE Same == UNCHANGED <<wire, sent, buffer, parsed>>
<1>1. CASE UNCHANGED vars
  BY <1>1, SameStreams DEF vars, clientVars, inputVars
<1>2. CASE Start
  BY <1>2, SameStreams DEF Start, clientVars, inputVars
<1>3. CASE StopBegins
  BY <1>3, SameStreams DEF StopBegins, Stopping, clientVars, inputVars
<1>4. CASE Stop
  <2>1. Same
    BY <1>4 DEF Stop, StopCopies, StopSelector, StopCloses, StopRaises,
                Stopping, clientVars, inputVars
  <2> QED
    BY <2>1, SameStreams
<1>5. ASSUME NEW c \in Clients, ClientStep(c)
      PROVE  Streams'
  <2>1. CASE Connect(c) \/ Turns(c)
    BY <2>1, SameStreams DEF Connect, Turns, Client, inputVars
  <2>2. CASE \E m \in Messages[c] : Send(c, m)
    BY <2>2, SendStreams
  <2> QED
    BY <1>5, <2>1, <2>2 DEF ClientStep
<1>6. CASE Thread
  <2>1. ASSUME NEW c \in Clients, Process(c)
        PROVE  Streams'
    BY <2>1, ProcessStreams
  <2>2. CASE ServeStop \/ LookForSelector \/ Select \/ EndLoop
    <3>1. Same
      BY <2>2 DEF ServeStop, LookForSelector, Select, EndLoop, Loop, Drops,
                  clientVars, inputVars
    <3> QED
      BY <3>1, SameStreams
  <2>3. CASE SelectFails \/ AcceptFails
    <3>1. Same
      BY <2>3 DEF SelectFails, AcceptFails, Dies, clientVars, inputVars
    <3> QED
      BY <3>1, SameStreams
  <2>4. ASSUME NEW c \in Clients,
               ParseMessage(c) \/ GetState(c) \/ HandlerFails(c)
        PROVE  Streams'
    <3>1. Same
      BY <2>4 DEF ParseMessage, GetState, HandlerFails, Dies, Drops,
                  clientVars, inputVars
    <3> QED
      BY <3>1, SameStreams
  <2>5. ASSUME NEW c \in Clients, Accept(c) \/ HangUp(c) \/ ProcessFails(c)
        PROVE  Streams'
    <3>1. Same
      BY <2>5 DEF Accept, HangUp, ProcessFails, Dies, clientVars, inputVars
    <3> QED
      BY <3>1, SameStreams
  <2> QED
    BY <1>6, <2>1, <2>2, <2>3, <2>4, <2>5 DEF Thread
<1> QED
  BY <1>1, <1>2, <1>3, <1>4, <1>5, <1>6 DEF Next

(* However what the clients send is cut into chunks, the lines that were   *)
(* read are its beginning, whole and in order, and what is in the buffer   *)
(* and under way is the rest of it (userinterface.py:123-146).             *)
THEOREM LinesSafety == Spec => []LinesWhole
<1>1. Streams => LinesWhole
  <2> SUFFICES ASSUME Streams, NEW c \in Clients
               PROVE  Text(parsed[c]) \o buffer[c] \o wire[c]
                        = FlattenSeq([k \in DOMAIN sent[c] |->
                                        Pieces(sent[c][k]) \o <<Newline>>])
    BY DEF LinesWhole, Text, Ended
  <2> DEFINE p == Text(parsed[c])
             b == buffer[c]
             w == wire[c]
  <2>1. p \in Seq(Tokens) /\ b \in Seq(Tokens) /\ w \in Seq(Tokens)
    BY TextConcat, Typing DEF Streams
  <2>2. p \o (b \o w) = Text(Said(sent[c]))
    BY DEF Streams
  <2>3. sent[c] \in Seq(AllMessages)
    BY MessagesOf, SeqMonotonic DEF Streams
  <2> HIDE DEF p, b, w
  <2>4. Grouped(p, b, w)
    BY <2>1, Assoc
  <2> QED
    BY <2>2, <2>3, <2>4, SaidTyped DEF Grouped, p, b, w
<1>2. Init => Streams
  BY InitStreams
<1>3. Streams /\ [Next]_vars => Streams'
  BY NextStreams
<1> QED
  BY <1>1, <1>2, <1>3, PTL DEF Spec

-----------------------------------------------------------------------------
(* What is called, and in which order.                                     *)

Calls ==
  {<<"stop">>} \cup {<<"get_state", c>> : c \in Clients}
    \cup {<<"parse", c, l>> : c \in Clients, l \in Seq(Letters)}

IsLine(x, c) == x[1] = "parse" /\ x[2] = c

(* The lines of c in the queue are those after the n-th, in order: at[k]   *)
(* is the place among lines of the k-th call of the queue.                 *)
HoldsAt(q, c, lines, n, at) ==
  /\ at \in [1..Len(q) -> 0..Len(lines)]
  /\ \A k \in 1..Len(q) :
       IsLine(q[k], c) => at[k] \in n + 1..Len(lines) /\ q[k][3] = lines[at[k]]
  /\ \A j, k \in 1..Len(q) :
       IsLine(q[j], c) /\ IsLine(q[k], c) /\ j < k => at[j] < at[k]
  /\ \A i \in n + 1..Len(lines) :
       \E k \in 1..Len(q) : IsLine(q[k], c) /\ at[k] = i

Holds(q, c, lines, n) == \E at : HoldsAt(q, c, lines, n, at)

(* Among the first i messages there are so many commands.                  *)
Count(s, i) == Cardinality({j \in 1..i : IsCommand(s[j])})

(* cs are the commands among the first n messages of s.                    *)
Called(cs, s, n) ==
  /\ Len(cs) = Count(s, n)
  /\ \A k \in 1..Len(cs) :
       \E i \in 1..n : IsCommand(s[i]) /\ cs[k] = s[i] /\ k = Count(s, i)

Ordered(c) ==
  \E n \in 0..Len(parsed[c]) :
    Holds(queue, c, parsed[c], n) /\ Called(commands[c], sent[c], n)

Orders ==
  /\ queue \in Seq(Calls)
  /\ commands \in [Clients -> Seq(AllMessages)]
  /\ \A c \in Clients : Ordered(c)

(* What is no line of c may leave the head, or come to the end.            *)
LEMMA HoldsTail ==
  ASSUME NEW q \in Seq(Calls), q # <<>>, NEW c, NEW lines, NEW n \in Nat,
         Len(lines) \in Nat, Holds(q, c, lines, n), ~IsLine(Head(q), c)
  PROVE  Holds(Tail(q), c, lines, n)
<1> DEFINE t == Tail(q)
           m == Len(lines)
<1>1. /\ t \in Seq(Calls) /\ Len(t) = Len(q) - 1 /\ Len(q) \in Nat \ {0}
      /\ \A k \in 1..Len(t) : t[k] = q[k + 1]
      /\ Head(q) = q[1]
  BY HeadTailProperties
<1>2. PICK at : HoldsAt(q, c, lines, n, at)
  BY DEF Holds
<1> HIDE DEF t
<1> DEFINE bt == [k \in 1..Len(t) |-> at[k + 1]]
<1>3. \A k \in 1..Len(t) : /\ k + 1 \in 1..Len(q) /\ t[k] = q[k + 1]
                           /\ bt[k] = at[k + 1]
  BY <1>1
<1>4. bt \in [1..Len(t) -> 0..m]
  <2>1. at \in [1..Len(q) -> 0..m]
    BY <1>2 DEF HoldsAt
  <2>2. \A k \in 1..Len(t) : k + 1 \in 1..Len(q)
    BY <1>3
  <2>3. \A k \in 1..Len(t) : at[k + 1] \in 0..m
    BY <2>1, <2>2
  <2> QED
    BY <2>3
<1> HIDE DEF bt
<1>5. \A k \in 1..Len(t) :
        IsLine(t[k], c) => bt[k] \in n + 1..m /\ t[k][3] = lines[bt[k]]
  <2> TAKE k \in 1..Len(t)
  <2>1. k + 1 \in 1..Len(q) /\ t[k] = q[k + 1] /\ bt[k] = at[k + 1]
    BY <1>3
  <2>2. IsLine(q[k + 1], c) =>
          at[k + 1] \in n + 1..m /\ q[k + 1][3] = lines[at[k + 1]]
    BY <1>2, <2>1 DEF HoldsAt
  <2> QED
    BY <2>1, <2>2
<1>6. ASSUME NEW j \in 1..Len(t), NEW k \in 1..Len(t),
             IsLine(t[j], c), IsLine(t[k], c), j < k
      PROVE  bt[j] < bt[k]
  <2>1. j + 1 < k + 1
    BY <1>6
  <2> QED
    BY <1>2, <1>3, <1>6, <2>1 DEF HoldsAt
<1>7. ASSUME NEW i \in n + 1..m
      PROVE  \E k \in 1..Len(t) : IsLine(t[k], c) /\ bt[k] = i
  <2>1. PICK k \in 1..Len(q) : IsLine(q[k], c) /\ at[k] = i
    BY <1>2 DEF HoldsAt
  <2>2. k # 1
    BY <1>1, <2>1
  <2>3. k - 1 \in 1..Len(t) /\ (k - 1) + 1 = k
    BY <1>1, <2>2
  <2>4. IsLine(t[k - 1], c) /\ bt[k - 1] = i
    BY <1>3, <2>1, <2>3
  <2> QED
    BY <2>3, <2>4
<1>8. HoldsAt(t, c, lines, n, bt)
  BY <1>4, <1>5, <1>6, <1>7 DEF HoldsAt
<1> QED
  BY <1>8 DEF Holds, t

(* A line of c that is at the head is the next one.                        *)
LEMMA HoldsServed ==
  ASSUME NEW q \in Seq(Calls), q # <<>>, NEW c, NEW lines, NEW n \in Nat,
         Len(lines) \in Nat, Holds(q, c, lines, n), IsLine(Head(q), c)
  PROVE  /\ n + 1 \in 1..Len(lines) /\ Head(q)[3] = lines[n + 1]
         /\ Holds(Tail(q), c, lines, n + 1)
<1> DEFINE t == Tail(q)
           m == Len(lines)
<1>1. /\ t \in Seq(Calls) /\ Len(t) = Len(q) - 1 /\ Len(q) \in Nat \ {0}
      /\ \A k \in 1..Len(t) : t[k] = q[k + 1]
      /\ Head(q) = q[1]
  BY HeadTailProperties
<1>2. PICK at : HoldsAt(q, c, lines, n, at)
  BY DEF Holds
<1>3. 1 \in 1..Len(q) /\ IsLine(q[1], c)
  BY <1>1
<1>4. at[1] \in n + 1..m /\ q[1][3] = lines[at[1]]
  BY <1>2, <1>3 DEF HoldsAt
<1>5. at[1] = n + 1
  <2>1. n + 1 \in n + 1..m
    BY <1>4
  <2>2. PICK k \in 1..Len(q) : IsLine(q[k], c) /\ at[k] = n + 1
    BY <1>2, <2>1 DEF HoldsAt
  <2>3. CASE k = 1
    BY <2>2, <2>3
  <2>4. CASE k # 1
    <3>1. 1 < k
      BY <2>4
    <3>2. at[1] < at[k]
      BY <1>2, <1>3, <2>2, <3>1 DEF HoldsAt
    <3> QED
      BY <1>4, <2>2, <3>2
  <2> QED
    BY <2>3, <2>4
<1> HIDE DEF t
<1> DEFINE bt == [k \in 1..Len(t) |-> at[k + 1]]
<1>6. \A k \in 1..Len(t) : /\ k + 1 \in 1..Len(q) /\ t[k] = q[k + 1]
                           /\ bt[k] = at[k + 1] /\ 1 < k + 1
  BY <1>1
<1>7. bt \in [1..Len(t) -> 0..m]
  <2>1. at \in [1..Len(q) -> 0..m]
    BY <1>2 DEF HoldsAt
  <2>2. \A k \in 1..Len(t) : k + 1 \in 1..Len(q)
    BY <1>6
  <2>3. \A k \in 1..Len(t) : at[k + 1] \in 0..m
    BY <2>1, <2>2
  <2> QED
    BY <2>3
<1> HIDE DEF bt
<1>8. ASSUME NEW k \in 1..Len(t), IsLine(t[k], c)
      PROVE  bt[k] \in (n + 1) + 1..m /\ t[k][3] = lines[bt[k]]
  <2>1. k + 1 \in 1..Len(q) /\ IsLine(q[k + 1], c) /\ bt[k] = at[k + 1]
    BY <1>6, <1>8
  <2>2. at[k + 1] \in n + 1..m /\ q[k + 1][3] = lines[at[k + 1]]
    BY <1>2, <2>1 DEF HoldsAt
  <2>3. at[1] < at[k + 1]
    <3>1. 1 < k + 1
      BY <1>6
    <3> QED
      BY <1>2, <1>3, <2>1, <3>1 DEF HoldsAt
  <2>4. at[k + 1] \in (n + 1) + 1..m
    BY <1>5, <2>2, <2>3
  <2>5. t[k][3] = lines[bt[k]]
    BY <1>6, <2>1, <2>2
  <2> QED
    BY <2>1, <2>4, <2>5
<1>9. ASSUME NEW j \in 1..Len(t), NEW k \in 1..Len(t),
             IsLine(t[j], c), IsLine(t[k], c), j < k
      PROVE  bt[j] < bt[k]
  <2>1. j + 1 < k + 1
    BY <1>9
  <2> QED
    BY <1>2, <1>6, <1>9, <2>1 DEF HoldsAt
<1>10. ASSUME NEW i \in (n + 1) + 1..m
       PROVE  \E k \in 1..Len(t) : IsLine(t[k], c) /\ bt[k] = i
  <2>1. i \in n + 1..m /\ i # n + 1
    OBVIOUS
  <2>2. PICK k \in 1..Len(q) : IsLine(q[k], c) /\ at[k] = i
    BY <1>2, <2>1 DEF HoldsAt
  <2>3. k # 1
    BY <1>5, <2>1, <2>2
  <2>4. k - 1 \in 1..Len(t) /\ (k - 1) + 1 = k
    BY <1>1, <2>3
  <2>5. IsLine(t[k - 1], c) /\ bt[k - 1] = i
    BY <1>6, <2>2, <2>4
  <2> QED
    BY <2>4, <2>5
<1>11. HoldsAt(t, c, lines, n + 1, bt)
  BY <1>7, <1>8, <1>9, <1>10 DEF HoldsAt
<1> QED
  BY <1>1, <1>4, <1>5, <1>11 DEF Holds, t

LEMMA HoldsOther ==
  ASSUME NEW q \in Seq(Calls), NEW r \in Seq(Calls), NEW c, NEW lines,
         NEW n \in Nat, Len(lines) \in Nat, Holds(q, c, lines, n),
         \A k \in 1..Len(r) : ~IsLine(r[k], c)
  PROVE  Holds(q \o r, c, lines, n)
<1> DEFINE b == q \o r
           m == Len(lines)
<1>1. /\ Len(b) = Len(q) + Len(r) /\ Len(q) \in Nat /\ Len(r) \in Nat
      /\ \A k \in 1..Len(q) + Len(r) :
           b[k] = IF k <= Len(q) THEN q[k] ELSE r[k - Len(q)]
  BY ConcatProperties, LenProperties
<1>2. PICK at : HoldsAt(q, c, lines, n, at)
  BY DEF Holds
<1> HIDE DEF b
<1> DEFINE bt == [k \in 1..Len(b) |-> IF k <= Len(q) THEN at[k] ELSE 0]
<1>3. \A k \in 1..Len(q) : k \in 1..Len(b) /\ b[k] = q[k] /\ bt[k] = at[k]
  BY <1>1
<1>4. ASSUME NEW k \in 1..Len(b), IsLine(b[k], c)
      PROVE  k \in 1..Len(q)
  <2> SUFFICES ASSUME ~(k <= Len(q)) PROVE FALSE
    BY <1>1
  <2>1. k - Len(q) \in 1..Len(r) /\ b[k] = r[k - Len(q)]
    BY <1>1
  <2> QED
    BY <1>4, <2>1
<1>5. bt \in [1..Len(b) -> 0..m]
  <2>1. \A k \in 1..Len(b) : k <= Len(q) => k \in 1..Len(q)
    BY <1>1
  <2>2. 0 \in 0..m
    OBVIOUS
  <2> QED
    BY <1>2, <2>1, <2>2 DEF HoldsAt
<1> HIDE DEF bt
<1>6. \A k \in 1..Len(b) :
        IsLine(b[k], c) => bt[k] \in n + 1..m /\ b[k][3] = lines[bt[k]]
  BY <1>2, <1>3, <1>4 DEF HoldsAt
<1>7. \A j, k \in 1..Len(b) :
        IsLine(b[j], c) /\ IsLine(b[k], c) /\ j < k => bt[j] < bt[k]
  BY <1>2, <1>3, <1>4 DEF HoldsAt
<1>8. \A i \in n + 1..m : \E k \in 1..Len(b) : IsLine(b[k], c) /\ bt[k] = i
  BY <1>2, <1>3 DEF HoldsAt
<1>9. HoldsAt(b, c, lines, n, bt)
  BY <1>5, <1>6, <1>7, <1>8 DEF HoldsAt
<1> QED
  BY <1>9 DEF Holds, b

(* The calls that process() makes of the lines it has cut.                 *)
Parse(c, more) == [k \in DOMAIN more |-> <<"parse", c, more[k]>>]

LEMMA ParseTyped ==
  ASSUME NEW c \in Clients, NEW more \in Seq(Seq(Letters))
  PROVE  /\ Parse(c, more) \in Seq(Calls) /\ Len(Parse(c, more)) = Len(more)
         /\ \A k \in 1..Len(more) : Parse(c, more)[k] = <<"parse", c, more[k]>>
<1>1. DOMAIN more = 1..Len(more) /\ Len(more) \in Nat
      /\ \A k \in 1..Len(more) : more[k] \in Seq(Letters)
  BY LenProperties, ElementOfSeq
<1>2. \A l \in Seq(Letters) : <<"parse", c, l>> \in Calls
  BY DEF Calls
<1> QED
  BY <1>1, <1>2 DEF Parse

(* Lines of c that are new are the last ones of its lines.                 *)
LEMMA HoldsMore ==
  ASSUME NEW q \in Seq(Calls), NEW c \in Clients,
         NEW lines \in Seq(Seq(Letters)), NEW more \in Seq(Seq(Letters)),
         NEW n \in 0..Len(lines), Holds(q, c, lines, n)
  PROVE  Holds(q \o Parse(c, more), c, lines \o more, n)
<1> DEFINE r == Parse(c, more)
           b == q \o r
           u == lines \o more
           m == Len(lines)
           l == Len(q)
<1>1. /\ r \in Seq(Calls) /\ Len(r) = Len(more)
      /\ \A k \in 1..Len(more) : r[k] = <<"parse", c, more[k]>>
  BY ParseTyped
<1> HIDE DEF r
<1>2. /\ Len(b) = l + Len(more) /\ l \in Nat /\ Len(more) \in Nat
      /\ \A k \in 1..l + Len(more) : b[k] = IF k <= l THEN q[k] ELSE r[k - l]
  <2>1. l \in Nat /\ Len(more) \in Nat
    BY LenProperties
  <2>2. /\ Len(b) = l + Len(r)
        /\ \A k \in 1..l + Len(r) : b[k] = IF k <= l THEN q[k] ELSE r[k - l]
    <3>1. q \in Seq(Calls) /\ r \in Seq(Calls)
      BY <1>1
    <3> QED
      BY ONLY <3>1, ConcatProperties
  <2>3. Len(r) = Len(more)
    BY <1>1
  <2> HIDE DEF b, l
  <2> QED
    BY <2>1, <2>2, <2>3
<1>3. /\ Len(u) = m + Len(more) /\ m \in Nat
      /\ \A i \in 1..m + Len(more) :
           u[i] = IF i <= m THEN lines[i] ELSE more[i - m]
  <2>1. m \in Nat
    BY LenProperties
  <2> QED
    BY <2>1, ConcatProperties
<1>4. PICK at : HoldsAt(q, c, lines, n, at)
  BY DEF Holds
<1> HIDE DEF b, u
<1> DEFINE bt == [k \in 1..Len(b) |-> IF k <= l THEN at[k] ELSE m + (k - l)]
<1>5. ASSUME NEW k \in 1..l
      PROVE  /\ k \in 1..Len(b) /\ b[k] = q[k] /\ bt[k] = at[k]
             /\ at[k] \in 0..m
  <2>1. k \in 1..Len(b) /\ k <= l
    BY <1>2
  <2>2. b[k] = q[k] /\ bt[k] = at[k]
    BY <1>2, <2>1
  <2>3. at \in [1..l -> 0..m]
    BY <1>4 DEF HoldsAt
  <2> QED
    BY <2>1, <2>2, <2>3
<1>6. ASSUME NEW k \in 1..Len(more)
      PROVE  /\ l + k \in 1..Len(b) /\ b[l + k] = <<"parse", c, more[k]>>
             /\ bt[l + k] = m + k
             /\ m + k \in 1..Len(u) /\ u[m + k] = more[k]
  <2>1. l + k \in 1..Len(b) /\ ~(l + k <= l) /\ (l + k) - l = k
    BY <1>2
  <2>2. m + k \in 1..Len(u) /\ ~(m + k <= m) /\ (m + k) - m = k
    BY <1>3
  <2>3. b[l + k] = r[k]
    BY <1>2, <2>1
  <2>4. u[m + k] = more[k]
    BY <1>3, <2>2
  <2>5. bt[l + k] = m + k
    BY <2>1
  <2> QED
    BY <1>1, <2>1, <2>2, <2>3, <2>4, <2>5
<1> HIDE DEF bt
<1>7. ASSUME NEW k \in 1..Len(b)
      PROVE  k \in 1..l \/ \E i \in 1..Len(more) : k = l + i
  <2>1. CASE k <= l
    BY <1>2, <2>1
  <2>2. CASE ~(k <= l)
    <3>1. k - l \in 1..Len(more) /\ k = l + (k - l)
      BY <1>2, <2>2
    <3> QED
      BY <3>1
  <2> QED
    BY <2>1, <2>2
<1>8. ASSUME NEW k \in 1..Len(b)
      PROVE  /\ bt[k] \in 0..Len(u)
             /\ IsLine(b[k], c) => bt[k] \in n + 1..Len(u) /\ b[k][3] = u[bt[k]]
  <2>1. CASE k \in 1..l
    <3>1. bt[k] = at[k] /\ b[k] = q[k] /\ at[k] \in 0..m
      BY <1>5, <2>1
    <3>2. IsLine(q[k], c) => at[k] \in n + 1..m /\ q[k][3] = lines[at[k]]
      <4>1. \A i \in 1..l :
              IsLine(q[i], c) => at[i] \in n + 1..m /\ q[i][3] = lines[at[i]]
        BY <1>4 DEF HoldsAt
      <4> QED
        BY <2>1, <4>1
    <3>3. \A i \in n + 1..m : i \in n + 1..Len(u) /\ u[i] = lines[i]
      BY <1>2, <1>3
    <3>4. 0..m \subseteq 0..Len(u)
      BY <1>2, <1>3
    <3> QED
      BY <3>1, <3>2, <3>3, <3>4
  <2>2. ASSUME NEW i \in 1..Len(more), k = l + i
        PROVE  /\ bt[k] \in n + 1..Len(u) /\ bt[k] \in 0..Len(u)
               /\ b[k][3] = u[bt[k]]
    <3>1. bt[k] = m + i /\ m + i \in 1..Len(u) /\ u[m + i] = more[i]
          /\ b[k] = <<"parse", c, more[i]>>
      <4>1. bt[l + i] = m + i /\ b[l + i] = <<"parse", c, more[i]>>
        BY <1>6
      <4>2. m + i \in 1..Len(u) /\ u[m + i] = more[i]
        BY <1>6
      <4>3. bt[k] = bt[l + i] /\ b[k] = b[l + i]
        BY <2>2
      <4> QED
        BY <4>1, <4>2, <4>3
    <3>2. m + i \in n + 1..Len(u) /\ m + i \in 0..Len(u)
      BY <1>3, <3>1
    <3> QED
      BY <3>1, <3>2
  <2> QED
    BY <1>7, <2>1, <2>2
<1>9. ASSUME NEW j \in 1..Len(b), NEW k \in 1..Len(b),
             IsLine(b[j], c), IsLine(b[k], c), j < k
      PROVE  bt[j] < bt[k]
  <2>1. CASE k \in 1..l
    <3>1. j \in 1..l
      BY <1>2, <1>9, <2>1
    <3>2. IsLine(q[j], c) /\ IsLine(q[k], c)
      BY <1>5, <1>9, <2>1, <3>1
    <3>3. at[j] < at[k]
      BY <1>4, <1>9, <2>1, <3>1, <3>2 DEF HoldsAt
    <3> QED
      BY <1>5, <2>1, <3>1, <3>3
  <2>2. ASSUME NEW i \in 1..Len(more), k = l + i
        PROVE  bt[j] < bt[k]
    <3>1. bt[k] = m + i
      <4>1. bt[l + i] = m + i
        BY <1>6
      <4>2. bt[k] = bt[l + i]
        BY <2>2
      <4> QED
        BY <4>1, <4>2
    <3>2. CASE j \in 1..l
      <4>1. bt[j] \in 0..m
        BY <1>5, <3>2
      <4> QED
        BY <1>3, <3>1, <4>1
    <3>3. ASSUME NEW h \in 1..Len(more), j = l + h
          PROVE  bt[j] < bt[k]
      <4>1. bt[j] = m + h
        <5>1. bt[l + h] = m + h
          BY <1>6
        <5>2. bt[j] = bt[l + h]
          BY <3>3
        <5> QED
          BY <5>1, <5>2
      <4>2. h < i
        BY <1>2, <1>9, <2>2, <3>3
      <4> QED
        BY <1>3, <3>1, <4>1, <4>2
    <3> QED
      BY <1>7, <3>2, <3>3
  <2> QED
    BY <1>7, <2>1, <2>2
<1>10. ASSUME NEW i \in n + 1..Len(u)
       PROVE  \E k \in 1..Len(b) : IsLine(b[k], c) /\ bt[k] = i
  <2>1. CASE i <= m
    <3>1. i \in n + 1..m
      BY <1>3, <2>1
    <3>2. PICK k \in 1..l : IsLine(q[k], c) /\ at[k] = i
      BY <1>4, <3>1 DEF HoldsAt
    <3> QED
      BY <1>5, <3>2
  <2>2. CASE ~(i <= m)
    <3>1. i - m \in 1..Len(more) /\ m + (i - m) = i
      BY <1>3, <2>2
    <3>2. /\ l + (i - m) \in 1..Len(b) /\ bt[l + (i - m)] = i
          /\ b[l + (i - m)] = <<"parse", c, more[i - m]>>
      BY <1>6, <3>1
    <3>3. IsLine(b[l + (i - m)], c)
      BY <3>2 DEF IsLine
    <3> QED
      BY <3>2, <3>3
  <2> QED
    BY <2>1, <2>2
<1>11. \A j, k \in 1..Len(b) :
         IsLine(b[j], c) /\ IsLine(b[k], c) /\ j < k => bt[j] < bt[k]
  BY <1>9
<1>12. bt \in [1..Len(b) -> 0..Len(u)]
  <2>1. \A k \in 1..Len(b) : bt[k] \in 0..Len(u)
    BY <1>8
  <2>2. bt = [k \in 1..Len(b) |-> bt[k]]
    BY DEF bt
  <2> QED
    BY <2>1, <2>2
<1>13. HoldsAt(b, c, u, n, bt)
  BY <1>8, <1>10, <1>11, <1>12 DEF HoldsAt
<1> QED
  BY <1>13 DEF Holds, b, u, r

LEMMA CountStep ==
  ASSUME NEW s, NEW n \in Nat
  PROVE  /\ Count(s, n) \in Nat /\ Count(s, 0) = 0
         /\ Count(s, n + 1) = Count(s, n) + (IF IsCommand(s[n + 1]) THEN 1 ELSE 0)
<1> DEFINE C(i) == {j \in 1..i : IsCommand(s[j])}
<1>1. IsFiniteSet(C(n))
  <2>1. IsFiniteSet(1..n)
    BY FS_Interval
  <2> QED
    BY <2>1, FS_Subset
<1>2. Cardinality(C(n)) \in Nat
  BY <1>1, FS_CardinalityType
<1>3. C(0) = {}
  OBVIOUS
<1>4. CASE IsCommand(s[n + 1])
  <2>1. C(n + 1) = C(n) \cup {n + 1} /\ n + 1 \notin C(n)
    BY <1>4
  <2> HIDE DEF C
  <2>2. Cardinality(C(n + 1)) = Cardinality(C(n)) + 1
    BY <1>1, <2>1, FS_AddElement
  <2> QED
    BY <1>2, <1>3, <1>4, <2>2, FS_EmptySet DEF Count, C
<1>5. CASE ~IsCommand(s[n + 1])
  <2>1. C(n + 1) = C(n)
    <3>1. \A j \in 1..n + 1 : j # n + 1 => j \in 1..n
      OBVIOUS
    <3>2. 1..n \subseteq 1..n + 1
      OBVIOUS
    <3> QED
      BY <1>5, <3>1, <3>2
  <2> HIDE DEF C
  <2>2. Cardinality(C(n + 1)) = Cardinality(C(n)) + 0
    BY <1>2, <2>1
  <2> QED
    BY <1>2, <1>3, <1>5, <2>2, FS_EmptySet DEF Count, C
<1> QED
  BY <1>4, <1>5

LEMMA CountSame ==
  ASSUME NEW s, NEW t, NEW n, \A j \in 1..n : s[j] = t[j]
  PROVE  Count(s, n) = Count(t, n)
<1>1. {j \in 1..n : IsCommand(s[j])} = {j \in 1..n : IsCommand(t[j])}
  OBVIOUS
<1> QED
  BY <1>1 DEF Count

LEMMA CalledNext ==
  ASSUME NEW cs \in Seq(AllMessages), NEW s, NEW n \in Nat,
         s[n + 1] \in AllMessages, Called(cs, s, n)
  PROVE  IF IsCommand(s[n + 1]) THEN Called(Append(cs, s[n + 1]), s, n + 1)
                                ELSE Called(cs, s, n + 1)
<1>1. Len(cs) \in Nat /\ Len(cs) = Count(s, n)
  BY LenProperties DEF Called
<1>2. /\ n + 1 \in 1..n + 1
      /\ \A k \in 1..Len(cs) :
           \E i \in 1..n + 1 : IsCommand(s[i]) /\ cs[k] = s[i] /\ k = Count(s, i)
  <2>1. 1..n \subseteq 1..n + 1 /\ n + 1 \in 1..n + 1
    OBVIOUS
  <2> QED
    BY <2>1 DEF Called
<1>3. CASE ~IsCommand(s[n + 1])
  <2>1. Count(s, n + 1) = Count(s, n)
    <3>1. Count(s, n + 1) = Count(s, n) + 0
      BY <1>3, CountStep
    <3> QED
      BY <1>1, <3>1
  <2> QED
    BY <1>1, <1>2, <1>3, <2>1 DEF Called
<1>4. CASE IsCommand(s[n + 1])
  <2> DEFINE a == Append(cs, s[n + 1])
  <2>1. /\ Len(a) = Len(cs) + 1
        /\ \A k \in 1..Len(cs) : a[k] = cs[k]
        /\ a[Len(cs) + 1] = s[n + 1]
    BY AppendProperties
  <2>2. Count(s, n + 1) = Count(s, n) + 1
    BY <1>4, CountStep
  <2> HIDE DEF a
  <2>3. ASSUME NEW k \in 1..Len(a)
        PROVE  \E i \in 1..n + 1 : /\ IsCommand(s[i]) /\ a[k] = s[i]
                                   /\ k = Count(s, i)
    <3>1. CASE k = Len(cs) + 1
      <4>1. a[k] = s[n + 1] /\ k = Count(s, n + 1)
        BY <1>1, <2>1, <2>2, <3>1
      <4> QED
        BY <1>2, <1>4, <4>1
    <3>2. CASE k # Len(cs) + 1
      <4>1. k \in 1..Len(cs)
        BY <1>1, <2>1, <3>2
      <4>2. a[k] = cs[k]
        BY <2>1, <4>1
      <4> QED
        BY <1>2, <4>1, <4>2
    <3> QED
      BY <3>1, <3>2
  <2>4. Called(a, s, n + 1)
    BY <1>1, <2>1, <2>2, <2>3 DEF Called
  <2> QED
    BY <1>4, <2>4 DEF a
<1> QED
  BY <1>3, <1>4

LEMMA CalledSame ==
  ASSUME NEW cs, NEW s, NEW t, NEW n \in Nat,
         \A j \in 1..n : s[j] = t[j], Called(cs, s, n)
  PROVE  Called(cs, t, n)
<1>1. ASSUME NEW i \in 0..n
      PROVE  Count(s, i) = Count(t, i)
  <2>1. \A j \in 1..i : s[j] = t[j]
    OBVIOUS
  <2> QED
    BY <2>1, CountSame
<1>2. n \in 0..n /\ 1..n \subseteq 0..n
  OBVIOUS
<1>3. Len(cs) = Count(t, n)
  BY <1>1, <1>2 DEF Called
<1>4. ASSUME NEW k \in 1..Len(cs)
      PROVE  \E i \in 1..n : IsCommand(t[i]) /\ cs[k] = t[i] /\ k = Count(t, i)
  <2>1. PICK i \in 1..n : IsCommand(s[i]) /\ cs[k] = s[i] /\ k = Count(s, i)
    BY DEF Called
  <2>2. s[i] = t[i] /\ Count(s, i) = Count(t, i)
    BY <1>1, <1>2
  <2> QED
    BY <2>1, <2>2
<1> QED
  BY <1>3, <1>4 DEF Called

-----------------------------------------------------------------------------
(* The lines that were read, and the messages they are.                    *)

LEMMA MessageOfPieces ==
  ASSUME NEW c \in Clients, NEW m \in Messages[c]
  PROVE  MessageOf(Pieces(m)) = m
<1>1. Pieces(m)[1][1] = m
  BY DEF Pieces
<1>2. m \in UNION {Messages[d] : d \in Clients}
  OBVIOUS
<1> QED
  BY <1>1, <1>2 DEF MessageOf

LEMMA ParsedSaid ==
  ASSUME Streams, NEW c \in Clients
  PROVE  /\ parsed[c] \in Seq(Seq(Letters))
         /\ Len(parsed[c]) \in Nat /\ Len(sent[c]) \in Nat
         /\ Len(parsed[c]) <= Len(sent[c])
         /\ \A k \in 1..Len(sent[c]) : sent[c][k] \in Messages[c] \cap AllMessages
         /\ \A k \in 1..Len(parsed[c]) : MessageOf(parsed[c][k]) = sent[c][k]
<1> DEFINE x == buffer[c] \o wire[c]
           M == Said(sent[c])
           L == parsed[c]
<1>1. sent[c] \in Seq(Messages[c]) /\ sent[c] \in Seq(AllMessages)
  BY MessagesOf, SeqMonotonic DEF Streams
<1>2. /\ M \in Seq(Seq(Letters)) /\ Len(M) = Len(sent[c])
      /\ \A k \in 1..Len(sent[c]) : M[k] = Pieces(sent[c][k])
  BY <1>1, SaidTyped
<1>3. L \in Seq(Seq(Letters)) /\ x \in Seq(Tokens) /\ Text(L) \o x = Text(M)
  <2>1. buffer[c] \in Seq(Tokens) /\ wire[c] \in Seq(Tokens)
    BY Typing DEF Streams
  <2> QED
    BY <2>1, ConcatProperties DEF Streams
<1>4. Len(L) \in Nat /\ Len(sent[c]) \in Nat
  BY <1>1, <1>3, LenProperties
<1>5. \A k \in 1..Len(sent[c]) : sent[c][k] \in Messages[c] \cap AllMessages
  BY <1>1, ElementOfSeq
<1> HIDE DEF x, M, L
<1>6. Len(L) <= Len(M) /\ \A k \in 1..Len(L) : L[k] = M[k]
  BY <1>2, <1>3, SameLines
<1>7. ASSUME NEW k \in 1..Len(L)
      PROVE  MessageOf(L[k]) = sent[c][k]
  <2>1. k \in 1..Len(sent[c])
    BY <1>2, <1>4, <1>6
  <2>2. L[k] = Pieces(sent[c][k])
    BY <1>2, <1>6, <2>1
  <2> QED
    BY <1>5, <2>1, <2>2, MessageOfPieces
<1> QED
  BY <1>2, <1>3, <1>4, <1>5, <1>6, <1>7 DEF L

-----------------------------------------------------------------------------
(* The calls stay in order.                                                *)

NoLine(r, c) == \A k \in 1..Len(r) : ~IsLine(r[k], c)

LEMMA QueueTail ==
  ASSUME NEW q \in Seq(Calls), q # <<>>
  PROVE  Tail(q) \in Seq(Calls) /\ Head(q) \in Calls
BY HeadTailProperties

(* The head is not a line of c, and is served.                             *)
LEMMA TailOrdered ==
  ASSUME Streams, Orders, NEW c \in Clients, queue # <<>>,
         ~IsLine(Head(queue), c), NEW r \in Seq(Calls), NoLine(r, c),
         queue' = Tail(queue) \o r, UNCHANGED <<parsed, sent>>,
         commands'[c] = commands[c]
  PROVE  Ordered(c)'
<1> DEFINE q == queue
           t == Tail(queue)
           L == parsed[c]
<1>1. PICK n \in 0..Len(L) : Holds(q, c, L, n) /\ Called(commands[c], sent[c], n)
  BY DEF Orders, Ordered
<1>2. q \in Seq(Calls) /\ q # <<>> /\ t \in Seq(Calls) /\ Len(L) \in Nat
  BY QueueTail, ParsedSaid DEF Orders
<1>3. Holds(t, c, L, n)
  <2>1. n \in Nat /\ ~IsLine(Head(q), c)
    OBVIOUS
  <2> HIDE DEF L
  <2> QED
    BY <1>1, <1>2, <2>1, HoldsTail
<1>4. Holds(t \o r, c, L, n)
  <2>1. n \in Nat /\ \A k \in 1..Len(r) : ~IsLine(r[k], c)
    BY DEF NoLine
  <2> HIDE DEF L, t
  <2> QED
    BY <1>2, <1>3, <2>1, HoldsOther
<1>5. /\ queue' = t \o r /\ parsed'[c] = L
      /\ sent'[c] = sent[c] /\ commands'[c] = commands[c]
  OBVIOUS
<1> HIDE DEF t, L
<1>6. \E i \in 0..Len(parsed'[c]) :
        Holds(queue', c, parsed'[c], i) /\ Called(commands'[c], sent'[c], i)
  BY <1>1, <1>4, <1>5
<1> QED
  BY <1>6 DEF Ordered

(* The head is a line of c, which is the next message of c.                *)
LEMMA ServedOrdered ==
  ASSUME Streams, Orders, NEW c \in Clients, queue # <<>>,
         IsLine(Head(queue), c), NEW r \in Seq(Calls), NoLine(r, c),
         queue' = Tail(queue) \o r, UNCHANGED <<parsed, sent>>,
         NEW m, m = MessageOf(Head(queue)[3]),
         commands'[c] = IF IsCommand(m) THEN Append(commands[c], m)
                                        ELSE commands[c]
  PROVE  Ordered(c)' /\ m \in AllMessages
<1> DEFINE q == queue
           t == Tail(queue)
           L == parsed[c]
           s == sent[c]
<1>1. PICK n \in 0..Len(L) : Holds(q, c, L, n) /\ Called(commands[c], s, n)
  BY DEF Orders, Ordered
<1>2. q \in Seq(Calls) /\ q # <<>> /\ t \in Seq(Calls) /\ Len(L) \in Nat
  BY QueueTail, ParsedSaid DEF Orders
<1>3. n + 1 \in 1..Len(L) /\ Head(q)[3] = L[n + 1] /\ Holds(t, c, L, n + 1)
  <2>1. n \in Nat /\ IsLine(Head(q), c)
    OBVIOUS
  <2> HIDE DEF L
  <2> QED
    BY <1>1, <1>2, <2>1, HoldsServed
<1>4. Holds(t \o r, c, L, n + 1)
  <2>1. n + 1 \in Nat /\ \A k \in 1..Len(r) : ~IsLine(r[k], c)
    BY DEF NoLine
  <2>2. t \in Seq(Calls) /\ Len(L) \in Nat /\ Holds(t, c, L, n + 1)
    BY <1>2, <1>3
  <2> HIDE DEF L, t
  <2> QED
    BY <2>1, <2>2, HoldsOther
<1>5. m = s[n + 1] /\ s[n + 1] \in AllMessages
  <2>1. /\ Len(L) <= Len(s) /\ Len(s) \in Nat
        /\ \A k \in 1..Len(s) : s[k] \in AllMessages
        /\ \A k \in 1..Len(L) : MessageOf(L[k]) = s[k]
    BY ParsedSaid
  <2>2. n + 1 \in 1..Len(s)
    BY <1>2, <1>3, <2>1
  <2> QED
    BY <1>3, <2>1, <2>2
<1>6. Called(commands'[c], s, n + 1)
  <2>1. commands[c] \in Seq(AllMessages) /\ n \in Nat
    BY DEF Orders
  <2>2. IF IsCommand(s[n + 1]) THEN Called(Append(commands[c], s[n + 1]), s, n + 1)
                               ELSE Called(commands[c], s, n + 1)
    BY <1>1, <1>5, <2>1, CalledNext
  <2> QED
    BY <1>5, <2>2
<1>7. queue' = t \o r /\ parsed'[c] = L /\ sent'[c] = s
  OBVIOUS
<1>8. n + 1 \in 0..Len(L)
  BY <1>3
<1> HIDE DEF t, L, s
<1>9. \E i \in 0..Len(parsed'[c]) :
        Holds(queue', c, parsed'[c], i) /\ Called(commands'[c], sent'[c], i)
  BY <1>4, <1>6, <1>7, <1>8
<1> QED
  BY <1>5, <1>9 DEF Ordered

(* What comes to the end of the queue is not a line of c.                  *)
LEMMA MoreOrdered ==
  ASSUME Streams, Orders, NEW c \in Clients, NEW r \in Seq(Calls),
         NoLine(r, c), queue' = queue \o r,
         parsed'[c] = parsed[c], sent'[c] = sent[c], commands'[c] = commands[c]
  PROVE  Ordered(c)'
<1> DEFINE L == parsed[c]
<1>1. PICK n \in 0..Len(L) :
        Holds(queue, c, L, n) /\ Called(commands[c], sent[c], n)
  BY DEF Orders, Ordered
<1>2. queue \in Seq(Calls) /\ Len(L) \in Nat
  BY ParsedSaid DEF Orders
<1> HIDE DEF L
<1>3. Holds(queue \o r, c, L, n)
  <2>1. n \in Nat /\ \A k \in 1..Len(r) : ~IsLine(r[k], c)
    BY DEF NoLine
  <2> QED
    BY <1>1, <1>2, <2>1, HoldsOther
<1>4. \E i \in 0..Len(parsed'[c]) :
        Holds(queue', c, parsed'[c], i) /\ Called(commands'[c], sent'[c], i)
  BY <1>1, <1>3 DEF L
<1> QED
  BY <1>4 DEF Ordered

(* The thread parses a line: the backend is called, or the answer queued.  *)
LEMMA ParseOrders ==
  ASSUME Streams, Orders, NEW c \in Clients, ParseMessage(c)
  PROVE  Orders'
<1> DEFINE m == MessageOf(Head(queue)[3])
<1>1. /\ queue # <<>> /\ IsLine(Head(queue), c)
      /\ \A d \in Clients \ {c} : ~IsLine(Head(queue), d)
      /\ UNCHANGED <<parsed, sent>>
  BY DEF ParseMessage, Head1, IsLine, Drops, clientVars, inputVars
<1>2. PICK r \in Seq(Calls) :
        /\ \A d \in Clients : NoLine(r, d)
        /\ queue' = Tail(queue) \o r
        /\ commands' = IF IsCommand(m)
                         THEN [commands EXCEPT ![c] = Append(@, m)] ELSE commands
  <2>1. m = MessageOf(Head1[3])
    BY DEF ParseMessage, Head1
  <2>2. Tail(queue) \in Seq(Calls)
    BY <1>1, QueueTail DEF Orders
  <2> HIDE DEF m
  <2>3. CASE m = "STATE" /\ ParseState(c)
    <3> DEFINE e == <<"get_state", c>>
    <3>1. e \in Calls
      BY DEF Calls
    <3>2. /\ <<e>> \in Seq(Calls) /\ Tail(queue) \o <<e>> = Append(Tail(queue), e)
          /\ Len(<<e>>) = 1 /\ <<e>>[1] = e
      BY <2>2, <3>1, AppendIsConcat
    <3>3. \A d \in Clients : ~IsLine(e, d)
      BY DEF IsLine
    <3>4. queue' = Append(Tail(queue), e) /\ commands' = commands
      BY <2>3 DEF ParseState, resultVars
    <3>5. ~IsCommand(m)
      BY <2>3 DEF IsCommand
    <3> HIDE DEF e
    <3>6. \A d \in Clients : NoLine(<<e>>, d)
      <4>1. \A k \in 1..Len(<<e>>) : k = 1
        BY <3>2
      <4> QED
        BY <3>2, <3>3, <4>1 DEF NoLine
    <3> QED
      BY <3>2, <3>4, <3>5, <3>6
  <2>4. CASE ParseAndAnswer(c, m)
    <3>1. <<>> \in Seq(Calls) /\ \A d \in Clients : NoLine(<<>>, d)
      BY DEF NoLine
    <3>2. Tail(queue) \o <<>> = Tail(queue)
      BY <2>2, ConcatEmptySeq
    <3> QED
      BY <2>4, <3>1, <3>2 DEF ParseAndAnswer
  <2> QED
    BY <2>1, <2>3, <2>4 DEF ParseMessage
<1>3. /\ Ordered(c)' /\ m \in AllMessages
  <2>1. commands'[c] = IF IsCommand(m) THEN Append(commands[c], m)
                                       ELSE commands[c]
    BY <1>2 DEF Orders
  <2> HIDE DEF m
  <2>2. m = MessageOf(Head(queue)[3]) /\ NoLine(r, c)
    BY <1>2 DEF m
  <2> QED
    BY <1>1, <1>2, <2>1, <2>2, ServedOrdered
<1> HIDE DEF m
<1>4. ASSUME NEW d \in Clients \ {c}
      PROVE  Ordered(d)'
  <2>1. commands'[d] = commands[d] /\ ~IsLine(Head(queue), d) /\ NoLine(r, d)
    BY <1>1, <1>2 DEF Orders
  <2> QED
    BY <1>1, <1>2, <2>1, TailOrdered
<1>5. queue' \in Seq(Calls)
  <2>1. Tail(queue) \in Seq(Calls)
    BY <1>1, QueueTail DEF Orders
  <2> QED
    BY <1>2, <2>1, ConcatProperties
<1>6. commands' \in [Clients -> Seq(AllMessages)]
  <2>1. commands[c] \in Seq(AllMessages)
    BY DEF Orders
  <2>2. Append(commands[c], m) \in Seq(AllMessages)
    BY <1>3, <2>1, AppendProperties
  <2> QED
    BY <1>2, <2>2 DEF Orders
<1> QED
  BY <1>3, <1>4, <1>5, <1>6 DEF Orders

(* Something is served that is not a line.                                 *)
LEMMA ServeOrders ==
  ASSUME Streams, Orders, queue # <<>>, queue' = Tail(queue),
         \A c \in Clients : ~IsLine(Head(queue), c),
         UNCHANGED <<parsed, sent, commands>>
  PROVE  Orders'
<1>1. Tail(queue) \in Seq(Calls)
  BY QueueTail DEF Orders
<1>2. <<>> \in Seq(Calls) /\ Tail(queue) \o <<>> = Tail(queue)
  BY <1>1, ConcatEmptySeq
<1>3. \A c \in Clients : NoLine(<<>>, c)
  BY DEF NoLine
<1>4. ASSUME NEW c \in Clients
      PROVE  Ordered(c)'
  BY <1>2, <1>3, TailOrdered
<1> QED
  BY <1>1, <1>4 DEF Orders

LEMMA StopOrders ==
  ASSUME Streams, Orders, queue' = Append(queue, <<"stop">>),
         UNCHANGED <<parsed, sent, commands>>
  PROVE  Orders'
<1> DEFINE e == <<"stop">>
<1>1. e \in Calls /\ queue \in Seq(Calls)
  BY DEF Calls, Orders
<1>2. /\ <<e>> \in Seq(Calls) /\ queue \o <<e>> = Append(queue, e)
      /\ Len(<<e>>) = 1 /\ <<e>>[1] = e
  BY <1>1, AppendIsConcat
<1>3. \A c \in Clients : ~IsLine(e, c)
  BY DEF IsLine
<1>4. queue' = queue \o <<e>>
  BY <1>2
<1> HIDE DEF e
<1>5. \A c \in Clients : NoLine(<<e>>, c)
  <2>1. \A k \in 1..Len(<<e>>) : k = 1
    BY <1>2
  <2> QED
    BY <1>2, <1>3, <2>1 DEF NoLine
<1>6. ASSUME NEW c \in Clients
      PROVE  Ordered(c)'
  BY <1>2, <1>4, <1>5, MoreOrdered
<1>7. queue' \in Seq(Calls)
  BY <1>1, <1>2, <1>4, ConcatProperties
<1> QED
  BY <1>6, <1>7 DEF Orders

LEMMA SendOrders ==
  ASSUME Streams, Orders, NEW c \in Clients, NEW m \in Messages[c], Send(c, m)
  PROVE  Orders'
<1>1. /\ sent' = [sent EXCEPT ![c] = Append(sent[c], m)]
      /\ UNCHANGED <<queue, parsed, commands>>
  BY DEF Send, Client, threadVars, inputVars, resultVars
<1>2. ASSUME NEW d \in Clients
      PROVE  /\ Len(parsed[d]) \in Nat /\ Len(sent[d]) \in Nat
             /\ Len(parsed[d]) <= Len(sent[d])
             /\ \A j \in 1..Len(sent[d]) : sent'[d][j] = sent[d][j]
  <2>1. /\ Len(parsed[d]) \in Nat /\ Len(sent[d]) \in Nat
        /\ Len(parsed[d]) <= Len(sent[d])
    BY ParsedSaid
  <2>2. CASE d = c
    <3>1. sent'[d] = Append(sent[d], m)
      BY <1>1, <2>2 DEF Streams
    <3>2. sent[d] \in Seq(Messages[c])
      BY <2>2 DEF Streams
    <3> QED
      BY <2>1, <3>1, <3>2, AppendProperties
  <2>3. CASE d # c
    <3>1. sent'[d] = sent[d]
      BY <1>1, <2>3 DEF Streams
    <3> QED
      BY <2>1, <3>1
  <2> QED
    BY <2>2, <2>3
<1>3. ASSUME NEW d \in Clients
      PROVE  Ordered(d)'
  <2>1. PICK n \in 0..Len(parsed[d]) :
          Holds(queue, d, parsed[d], n) /\ Called(commands[d], sent[d], n)
    BY DEF Orders, Ordered
  <2>2. n \in Nat /\ \A j \in 1..n : sent[d][j] = sent'[d][j]
    BY <1>2
  <2>3. Called(commands[d], sent'[d], n)
    BY <2>1, <2>2, CalledSame
  <2>4. \E i \in 0..Len(parsed'[d]) :
          Holds(queue', d, parsed'[d], i) /\ Called(commands'[d], sent'[d], i)
    BY <1>1, <2>1, <2>3
  <2> QED
    BY <2>4 DEF Ordered
<1> QED
  BY <1>1, <1>3 DEF Orders

LEMMA ProcessOrders ==
  ASSUME Streams, Orders, NEW c \in Clients, Process(c)
  PROVE  Orders'
<1> DEFINE Text1(n) == buffer[c] \o SubSeq(wire[c], 1, n)
<1>1. PICK n \in 1..Len(wire[c]) :
        Takes(c, n, Lines(Text1(n)), LeftOver(Text1(n)))
  BY DEF Process
<1> DEFINE ls == Lines(Text1(n))
           r == Parse(c, ls)
<1>2. /\ parsed' = [parsed EXCEPT ![c] = parsed[c] \o ls]
      /\ queue' = queue \o r
      /\ UNCHANGED <<sent, commands>>
  BY <1>1 DEF Takes, resultVars, Parse
<1>3. ls \in Seq(Seq(Letters))
  <2>1. buffer[c] \in Seq(Tokens) /\ wire[c] \in Seq(Tokens)
    BY Typing DEF Streams
  <2>2. SubSeq(wire[c], 1, n) \in Seq(Tokens)
    <3>1. \A i \in 1..Len(wire[c]) : wire[c][i] \in Tokens
      BY <2>1, ElementOfSeq
    <3>2. \A i \in 1..n : wire[c][i] \in Tokens
      <4>1. Len(wire[c]) \in Nat
        BY <2>1, LenProperties
      <4> QED
        BY <3>1, <4>1
    <3> QED
      BY <3>2, SubSeqProperties
  <2>3. Text1(n) \in Seq(Tokens)
    BY <2>1, <2>2, ConcatProperties
  <2> HIDE DEF Text1
  <2> QED
    BY <2>3, SplitWhole
<1> HIDE DEF ls
<1>4. /\ r \in Seq(Calls) /\ Len(r) = Len(ls)
      /\ \A k \in 1..Len(ls) : r[k] = <<"parse", c, ls[k]>>
  BY <1>3, ParseTyped
<1>5. \A d \in Clients \ {c} : NoLine(r, d)
  <2> HIDE DEF r
  <2> QED
    BY <1>4 DEF NoLine, IsLine
<1>6. Ordered(c)'
  <2> DEFINE L == parsed[c]
  <2>1. PICK i \in 0..Len(L) :
          Holds(queue, c, L, i) /\ Called(commands[c], sent[c], i)
    BY DEF Orders, Ordered
  <2>2. L \in Seq(Seq(Letters)) /\ Len(L) \in Nat
    BY ParsedSaid
  <2>3. parsed'[c] = L \o ls
    BY <1>2 DEF Streams
  <2> HIDE DEF L
  <2>4. Len(L \o ls) = Len(L) + Len(ls) /\ Len(ls) \in Nat
    BY <1>3, <2>2, ConcatProperties, LenProperties
  <2>5. i \in 0..Len(L \o ls)
    BY <2>2, <2>4
  <2>6. Holds(queue \o r, c, L \o ls, i)
    BY <1>3, <2>1, <2>2, HoldsMore DEF Orders
  <2> HIDE DEF r
  <2>7. \E j \in 0..Len(parsed'[c]) :
          Holds(queue', c, parsed'[c], j) /\ Called(commands'[c], sent'[c], j)
    BY <1>2, <2>1, <2>3, <2>5, <2>6
  <2> QED
    BY <2>7 DEF Ordered
<1> HIDE DEF r
<1>7. ASSUME NEW d \in Clients \ {c}
      PROVE  Ordered(d)'
  <2>1. /\ parsed'[d] = parsed[d] /\ sent'[d] = sent[d]
        /\ commands'[d] = commands[d]
    BY <1>2 DEF Streams
  <2> QED
    BY <1>2, <1>4, <1>5, <2>1, MoreOrdered
<1>8. queue' \in Seq(Calls)
  BY <1>2, <1>4, ConcatProperties DEF Orders
<1> QED
  BY <1>2, <1>6, <1>7, <1>8 DEF Orders

LEMMA SameOrders ==
  ASSUME Orders, UNCHANGED <<queue, parsed, commands, sent>>
  PROVE  Orders'
BY DEF Orders, Ordered

LEMMA InitOrders == Init => Orders
<1> SUFFICES ASSUME Init PROVE Orders
  OBVIOUS
<1>1. queue = <<>> /\ <<>> \in Seq(Calls) /\ <<>> \in Seq(AllMessages)
  BY DEF Init
<1>2. ASSUME NEW c \in Clients
      PROVE  Ordered(c)
  <2>1. parsed[c] = <<>> /\ commands[c] = <<>> /\ Len(<<>>) = 0
    BY DEF Init
  <2> DEFINE at == [k \in 1..Len(<<>>) |-> 0]
  <2>2. HoldsAt(<<>>, c, <<>>, 0, at)
    BY <2>1 DEF HoldsAt
  <2>3. Called(<<>>, sent[c], 0)
    BY <2>1, CountStep DEF Called
  <2> HIDE DEF at
  <2>4. Holds(<<>>, c, <<>>, 0) /\ 0 \in 0..0
    BY <2>2 DEF Holds
  <2> QED
    BY <1>1, <2>1, <2>3, <2>4 DEF Ordered
<1> QED
  BY <1>1, <1>2 DEF Init, Orders

LEMMA NextOrders ==
  ASSUME Streams, Orders, [Next]_vars
  PROVE  Orders'
<1> DEFINE Same == UNCHANGED <<queue, parsed, commands, sent>>
<1>1. CASE UNCHANGED vars
  BY <1>1, SameOrders
     DEF vars, clientVars, threadVars, inputVars, resultVars
<1>2. CASE Start
  BY <1>2, SameOrders
     DEF Start, clientVars, threadVars, inputVars, resultVars
<1>3. CASE StopBegins
  BY <1>3, StopOrders
     DEF StopBegins, Stopping, clientVars, inputVars, resultVars
<1>4. CASE Stop
  <2>1. Same
    BY <1>4 DEF Stop, StopCopies, StopSelector, StopCloses, StopRaises,
                Stopping, clientVars, inputVars, resultVars
  <2> QED
    BY <2>1, SameOrders
<1>5. ASSUME NEW c \in Clients, ClientStep(c)
      PROVE  Orders'
  <2>1. CASE Connect(c) \/ Turns(c)
    <3>1. Same
      BY <2>1 DEF Connect, Turns, Client, threadVars, inputVars, resultVars
    <3> QED
      BY <3>1, SameOrders
  <2>2. CASE \E m \in Messages[c] : Send(c, m)
    BY <2>2, SendOrders
  <2> QED
    BY <1>5, <2>1, <2>2 DEF ClientStep
<1>6. CASE Thread
  <2>1. ASSUME NEW c \in Clients, Process(c)
        PROVE  Orders'
    BY <2>1, ProcessOrders
  <2>2. ASSUME NEW c \in Clients, ParseMessage(c)
        PROVE  Orders'
    BY <2>2, ParseOrders
  <2>3. ASSUME NEW c \in Clients, GetState(c)
        PROVE  Orders'
    <3>1. /\ queue # <<>> /\ queue' = Tail(queue)
          /\ Head(queue) = <<"get_state", c>>
          /\ UNCHANGED <<parsed, sent, commands>>
      BY <2>3 DEF GetState, Head1, Drops, clientVars, inputVars
    <3>2. \A d \in Clients : ~IsLine(Head(queue), d)
      BY <3>1 DEF IsLine
    <3> QED
      BY <3>1, <3>2, ServeOrders
  <2>4. CASE ServeStop
    <3>1. /\ queue # <<>> /\ queue' = Tail(queue) /\ Head(queue) = <<"stop">>
          /\ UNCHANGED <<parsed, sent, commands>>
      BY <2>4 DEF ServeStop, Head1, Drops, clientVars, inputVars, resultVars
    <3>2. \A d \in Clients : ~IsLine(Head(queue), d)
      BY <3>1 DEF IsLine
    <3> QED
      BY <3>1, <3>2, ServeOrders
  <2>5. CASE LookForSelector \/ Select \/ EndLoop
    <3>1. Same
      BY <2>5 DEF LookForSelector, Select, EndLoop, Loop, clientVars,
                  inputVars, resultVars
    <3> QED
      BY <3>1, SameOrders
  <2>6. CASE SelectFails \/ AcceptFails
    <3>1. Same
      BY <2>6 DEF SelectFails, AcceptFails, Dies, clientVars, inputVars,
                  resultVars
    <3> QED
      BY <3>1, SameOrders
  <2>7. ASSUME NEW c \in Clients,
               Accept(c) \/ HangUp(c) \/ ProcessFails(c) \/ HandlerFails(c)
        PROVE  Orders'
    <3>1. Same
      BY <2>7 DEF Accept, HangUp, ProcessFails, HandlerFails, Dies,
                  clientVars, inputVars, resultVars
    <3> QED
      BY <3>1, SameOrders
  <2> QED
    BY <1>6, <2>1, <2>2, <2>3, <2>4, <2>5, <2>6, <2>7 DEF Thread
<1> QED
  BY <1>1, <1>2, <1>3, <1>4, <1>5, <1>6 DEF Next

(* The k-th call that is made on the backend for a client is the k-th      *)
(* command the client sent, whatever the other clients do and however the  *)
(* bytes of either are cut (userinterface.py:75-106, 123-146).             *)
THEOREM CommandsSafety == Spec => []CommandsInOrder
<1>1. Streams /\ Orders => CommandsInOrder
  <2> SUFFICES ASSUME Streams, Orders, NEW c \in Clients,
                      NEW k \in DOMAIN commands[c]
               PROVE  \E i \in DOMAIN sent[c] :
                        /\ IsCommand(sent[c][i])
                        /\ commands[c][k] = sent[c][i]
                        /\ k = Count(sent[c], i)
    BY DEF CommandsInOrder, Count
  <2>1. PICK n \in 0..Len(parsed[c]) : Called(commands[c], sent[c], n)
    BY DEF Orders, Ordered
  <2>2. commands[c] \in Seq(AllMessages) /\ sent[c] \in Seq(Messages[c])
    BY DEF Orders, Streams
  <2>3. k \in 1..Len(commands[c]) /\ DOMAIN sent[c] = 1..Len(sent[c])
    BY <2>2, LenProperties
  <2>4. 1..n \subseteq 1..Len(sent[c])
    BY ParsedSaid
  <2> QED
    BY <2>1, <2>3, <2>4 DEF Called
<1>2. Init => Streams /\ Orders
  BY InitStreams, InitOrders
<1>3. (Streams /\ Orders) /\ [Next]_vars => (Streams /\ Orders)'
  BY NextStreams, NextOrders
<1> QED
  BY <1>1, <1>2, <1>3, PTL DEF Spec
=============================================================================
