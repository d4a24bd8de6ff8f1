---------------------------- MODULE LaunchProofs ----------------------------
(***************************************************************************)
(* Which core each thread gets: for any machine, any interfaces and any    *)
(* number of cores.                                                        *)
(***************************************************************************)
EXTENDS Launch, DataLemmas

-----------------------------------------------------------------------------
(* The rank of a core among the free ones.                                 *)

Rank(F, c) == Cardinality({d \in F : d <= c})

LEMMA Ranks ==
  ASSUME NEW F \in SUBSET Nat, IsFiniteSet(F)
  PROVE  /\ \A c \in F : Rank(F, c) \in 1..Cardinality(F)
         /\ \A c, d \in F : Rank(F, c) = Rank(F, d) => c = d
         /\ \A r \in 1..Cardinality(F) : \E c \in F : Rank(F, c) = r
<1> DEFINE B(c) == {d \in F : d <= c}
           n == Cardinality(F)
<1>1. \A c \in F : c \in B(c) /\ B(c) \in SUBSET F
  OBVIOUS
<1>2. ASSUME NEW c \in F
      PROVE  IsFiniteSet(B(c)) /\ Cardinality(B(c)) \in 1..n
  <2>1. IsFiniteSet(B(c)) /\ Cardinality(B(c)) <= n
    BY <1>1, FS_Subset
  <2>2. Cardinality(B(c)) \in Nat /\ n \in Nat
    BY <2>1, FS_CardinalityType
  <2>3. Cardinality(B(c)) # 0
    BY <1>1, <2>1, FS_EmptySet
  <2> QED
    BY <2>1, <2>2, <2>3
<1>3. ASSUME NEW c \in F, NEW d \in F, c < d
      PROVE  Cardinality(B(c)) # Cardinality(B(d))
  <2>1. d \in B(d) /\ d \notin B(c) /\ B(c) \in SUBSET B(d)
    <3>1. c \in Nat /\ d \in Nat /\ \A e \in F : e \in Nat
      OBVIOUS
    <3>2. \A e \in Nat : e <= c => e <= d
      BY <1>3, <3>1
    <3>3. d <= d /\ ~(d <= c)
      BY <1>3, <3>1
    <3> QED
      BY <3>1, <3>2, <3>3
  <2> HIDE DEF B
  <2>2. B(c) # B(d)
    BY <2>1
  <2> QED
    BY <1>2, <2>1, <2>2, FS_Subset
<1>4. \A c, d \in F : Cardinality(B(c)) = Cardinality(B(d)) => c = d
  <2>1. \A c, d \in F : c = d \/ c < d \/ d < c
    OBVIOUS
  <2> HIDE DEF B
  <2> QED
    BY <1>3, <2>1
<1> DEFINE f == [c \in F |-> Cardinality(B(c))]
<1>5. IsFiniteSet(1..n) /\ Cardinality(1..n) = n
  <2>1. n \in Nat
    BY FS_CardinalityType
  <2>2. 1 \in Int /\ n \in Int
    BY <2>1
  <2>3. /\ IsFiniteSet(1..n)
        /\ Cardinality(1..n) = IF 1 > n THEN 0 ELSE n - 1 + 1
    BY <2>2, FS_Interval
  <2> HIDE DEF n
  <2> QED
    BY <2>1, <2>3
<1>6. f \in Injection(F, 1..n)
  <2> HIDE DEF B, n
  <2> QED
    BY <1>2, <1>4 DEF Injection, IsInjective
<1>7. f \in Surjection(F, 1..n)
  <2> HIDE DEF f
  <2> QED
    BY <1>5, <1>6, FS_Injection
<1>8. \A r \in 1..n : \E c \in F : f[c] = r
  <2> HIDE DEF f, n
  <2> QED
    BY <1>7 DEF Surjection
<1>9. \A r \in 1..n : \E c \in F : Cardinality(B(c)) = r
  <2> HIDE DEF B, n
  <2> QED
    BY <1>8
<1> QED
  BY <1>2, <1>4, <1>9 DEF Rank

(* Of the free cores the first ones are given out, one for each name or    *)
(* all there are.                                                          *)
FirstOf(F, n) == {c \in F : Rank(F, c) <= n}
Least(m, n) == IF m <= n THEN m ELSE n

LEMMA FirstOfSize ==
  ASSUME NEW F \in SUBSET Nat, IsFiniteSet(F), NEW n \in Nat
  PROVE  /\ IsFiniteSet(FirstOf(F, n))
         /\ Cardinality(FirstOf(F, n)) = Least(Cardinality(F), n)
<1> DEFINE G == FirstOf(F, n)
           m == Least(Cardinality(F), n)
           f == [c \in G |-> Rank(F, c)]
<1>1. IsFiniteSet(G)
  BY FS_Subset DEF FirstOf
<1>2. /\ m \in Nat /\ m <= Cardinality(F) /\ m <= n
      /\ \A r \in Nat : r <= Cardinality(F) /\ r <= n => r <= m
  BY FS_CardinalityType DEF Least
<1>3. IsFiniteSet(1..m) /\ Cardinality(1..m) = m
  <2>1. 1 \in Int /\ m \in Int
    BY <1>2
  <2>2. /\ IsFiniteSet(1..m)
        /\ Cardinality(1..m) = IF 1 > m THEN 0 ELSE m - 1 + 1
    BY <2>1, FS_Interval
  <2> HIDE DEF m
  <2> QED
    BY <1>2, <2>2
<1>4. ASSUME NEW c \in G
      PROVE  c \in F /\ Rank(F, c) \in 1..m
  <2>1. c \in F /\ Rank(F, c) <= n
    BY DEF FirstOf
  <2>2. Rank(F, c) \in 1..Cardinality(F) /\ Cardinality(F) \in Nat
    BY <2>1, Ranks, FS_CardinalityType
  <2> HIDE DEF m
  <2> QED
    BY <1>2, <2>1, <2>2
<1>5. \A c, d \in G : Rank(F, c) = Rank(F, d) => c = d
  <2>1. \A c, d \in F : Rank(F, c) = Rank(F, d) => c = d
    BY Ranks
  <2> HIDE DEF G
  <2> QED
    BY <1>4, <2>1
<1>6. ASSUME NEW r \in 1..m
      PROVE  \E c \in G : Rank(F, c) = r
  <2>1. r \in 1..Cardinality(F) /\ r <= n
    <3>1. Cardinality(F) \in Nat
      BY FS_CardinalityType
    <3> HIDE DEF m
    <3> QED
      BY <1>2, <3>1
  <2>2. PICK c \in F : Rank(F, c) = r
    BY <2>1, Ranks
  <2> QED
    BY <2>1, <2>2 DEF FirstOf
<1> HIDE DEF G, m
<1>7. f \in [G -> 1..m]
  BY <1>4
<1>8. f \in Injection(G, 1..m)
  BY <1>5, <1>7 DEF Injection, IsInjective
<1>9. f \in Surjection(G, 1..m)
  BY <1>6, <1>7 DEF Surjection
<1> HIDE DEF f
<1>10. Cardinality(G) = Cardinality(1..m)
  BY <1>3, <1>8, <1>9, FS_Injection
<1> QED
  BY <1>1, <1>3, <1>10 DEF G, m

-----------------------------------------------------------------------------
(* Give.                                                                   *)

Free(map, mask) == (mask \cap Cores) \ DOMAIN map

(* g is map with the cores of G, as many of F as there are names in need,  *)
(* given to the last names of need, and what is left of need.              *)
Gave(g, map, need, F, G) ==
  /\ G \subseteq F /\ IsFiniteSet(F) /\ IsFiniteSet(G)
  /\ Cardinality(G) \in Nat /\ Cardinality(F) \in Nat
  /\ Cardinality(G) = Least(Cardinality(F), Len(need))
  /\ DOMAIN g.map = DOMAIN map \cup G
  /\ \A c \in DOMAIN map : g.map[c] = map[c]
  /\ Len(g.need) = Len(need) - Cardinality(G) /\ Len(g.need) \in Nat
  /\ \A j \in 1..Len(g.need) : g.need[j] = need[j]
  /\ \A c \in G : \E j \in Len(g.need) + 1..Len(need) : g.map[c] = need[j]
  /\ \A j \in Len(g.need) + 1..Len(need) : \E c \in G : g.map[c] = need[j]

LEMMA FreeFinite ==
  ASSUME NEW map, NEW mask
  PROVE  Free(map, mask) \in SUBSET Nat /\ IsFiniteSet(Free(map, mask))
<1>1. IsFiniteSet(Cores) /\ Cores \subseteq Nat
  <2>1. 0 \in Int /\ NCpu - 1 \in Int
    BY CpuAssumption
  <2> QED
    BY <2>1, FS_Interval DEF Cores
<1>2. Free(map, mask) \in SUBSET Cores
  BY DEF Free
<1> QED
  BY <1>1, <1>2, FS_Subset

LEMMA GiveGives ==
  ASSUME NEW map, NEW V, NEW need \in Seq(V), NEW mask
  PROVE  /\ Gave(Give(map, need, mask), map, need, Free(map, mask),
                 FirstOf(Free(map, mask), Len(need)))
         /\ Give(map, need, mask).need \in Seq(V)
<1> DEFINE F == Free(map, mask)
           n == Len(need)
           G == FirstOf(F, n)
           g == Give(map, need, mask)
           k == Cardinality(G)
<1>1. F \in SUBSET Nat /\ IsFiniteSet(F) /\ n \in Nat
  BY FreeFinite, LenProperties
<1>2. IsFiniteSet(G) /\ k = Least(Cardinality(F), n) /\ G \subseteq F
  BY <1>1, FirstOfSize DEF FirstOf
<1>3. k \in Nat /\ Cardinality(F) \in Nat /\ k <= n /\ k <= Cardinality(F)
      /\ \A r \in Nat : r <= Cardinality(F) /\ r <= n => r <= k
  BY <1>1, <1>2, FS_CardinalityType DEF Least
<1>4. /\ g.map = [c \in DOMAIN map \cup G |->
                    IF c \in DOMAIN map THEN map[c] ELSE need[n + 1 - Rank(F, c)]]
      /\ g.need = SubSeq(need, 1, n - k)
  BY DEF Give, Free, FirstOf, Rank
<1>5. \A c \in G : c \notin DOMAIN map
  BY <1>2 DEF Free
<1>6. ASSUME NEW c \in G
      PROVE  Rank(F, c) \in 1..k
  <2>1. Rank(F, c) <= n /\ c \in F
    BY DEF FirstOf
  <2>2. Rank(F, c) \in 1..Cardinality(F)
    BY <1>1, <2>1, Ranks
  <2> HIDE DEF F, G, n, k
  <2> QED
    BY <1>1, <1>3, <2>1, <2>2
<1>7. ASSUME NEW r \in 1..k
      PROVE  \E c \in G : Rank(F, c) = r
  <2>1. r \in 1..Cardinality(F) /\ r <= n
    <3> HIDE DEF F, n, k
    <3> QED
      BY <1>1, <1>3
  <2>2. PICK c \in F : Rank(F, c) = r
    BY <1>1, <2>1, Ranks
  <2> QED
    BY <2>1, <2>2 DEF FirstOf
<1>8. /\ g.need \in Seq(V) /\ Len(g.need) = n - k
      /\ \A j \in 1..n - k : g.need[j] = need[j]
  <2> DEFINE d == n - k
  <2>1. d \in Nat /\ d <= n
    <3> HIDE DEF n, k
    <3> QED
      BY <1>1, <1>3
  <2>2. \A j \in 1..n : need[j] \in V
    BY ElementOfSeq
  <2>3. \A j \in 1..d : need[j] \in V
    <3> HIDE DEF d
    <3> QED
      BY <1>1, <2>1, <2>2
  <2> HIDE DEF d
  <2>4. /\ SubSeq(need, 1, d) \in Seq(V)
        /\ Len(SubSeq(need, 1, d)) = IF 1 <= d THEN d - 1 + 1 ELSE 0
        /\ \A j \in 1..d - 1 + 1 : SubSeq(need, 1, d)[j] = need[1 + j - 1]
    BY <2>1, <2>3, SubSeqProperties
  <2>5. /\ Len(SubSeq(need, 1, d)) = d
        /\ \A j \in 1..d : SubSeq(need, 1, d)[j] = need[j]
    <3>1. d - 1 + 1 = d /\ \A j \in 1..d : 1 + j - 1 = j
      BY <2>1
    <3> QED
      BY <2>1, <2>4, <3>1
  <2> QED
    BY <1>4, <2>4, <2>5 DEF d
<1> HIDE DEF F, G, g
<1>9. \A c \in DOMAIN map : g.map[c] = map[c]
  BY <1>4
<1>10. \A c \in G : g.map[c] = need[n + 1 - Rank(F, c)]
  BY <1>4, <1>5
<1> HIDE DEF k, n
<1>11. ASSUME NEW c \in G
       PROVE  \E j \in n - k + 1..n : g.map[c] = need[j]
  <2>1. n + 1 - Rank(F, c) \in n - k + 1..n
    BY <1>1, <1>3, <1>6
  <2> QED
    BY <1>10, <2>1
<1>12. ASSUME NEW j \in n - k + 1..n
       PROVE  \E c \in G : g.map[c] = need[j]
  <2>1. n + 1 - j \in 1..k /\ n + 1 - (n + 1 - j) = j
    BY <1>1, <1>3
  <2>2. PICK c \in G : Rank(F, c) = n + 1 - j
    BY <1>7, <2>1
  <2>3. g.map[c] = need[j]
    BY <1>10, <2>1, <2>2
  <2> QED
    BY <2>3
<1>13. DOMAIN g.map = DOMAIN map \cup G
  BY <1>4
<1>14. Gave(g, map, need, F, G)
  <2>1. n - k \in Nat
    BY <1>1, <1>3
  <2>2. n = Len(need) /\ k = Cardinality(G)
    BY DEF n, k
  <2> QED
    BY <1>1, <1>2, <1>3, <1>8, <1>9, <1>11, <1>12, <1>13, <2>1, <2>2 DEF Gave
<1> QED
  BY <1>8, <1>14 DEF F, G, g, n

-----------------------------------------------------------------------------
(* Place.                                                                  *)

(* m2 is map with the names of need on further cores, local ones if there  *)
(* are any left.                                                           *)
Placed(m2, map, need, mask) ==
  /\ DOMAIN map \subseteq DOMAIN m2
  /\ \A c \in DOMAIN map : m2[c] = map[c]
  /\ \A c \in DOMAIN m2 \ DOMAIN map :
       /\ \E j \in 1..Len(need) : m2[c] = need[j]
       /\ c \in mask \/ mask \cap Cores \subseteq DOMAIN m2
  /\ IsFiniteSet(DOMAIN map) =>
       /\ IsFiniteSet(DOMAIN m2)
       /\ Cardinality(DOMAIN m2) <= Cardinality(DOMAIN map) + Len(need)
       /\ Cardinality(DOMAIN map) + Len(need) <= NCpu =>
            \A j \in 1..Len(need) : \E c \in DOMAIN m2 : m2[c] = need[j]

LEMMA CoresSize == IsFiniteSet(Cores) /\ Cardinality(Cores) = NCpu
<1>1. 0 \in Int /\ NCpu - 1 \in Int
  BY CpuAssumption
<1>2. /\ IsFiniteSet(0..NCpu-1)
      /\ Cardinality(0..NCpu-1) = IF 0 > NCpu - 1 THEN 0 ELSE NCpu - 1 - 0 + 1
  BY <1>1, FS_Interval
<1> QED
  BY <1>2, CpuAssumption DEF Cores

(* The local cores have all been given out when the others are.            *)
LEMMA PlacePlaces ==
  ASSUME NEW map, NEW V, NEW need \in Seq(V), NEW mask
  PROVE  Placed(Place(map, need, mask), map, need, mask)
<1> DEFINE near == Give(map, need, mask)
           F == Free(map, mask)
           G == FirstOf(F, Len(need))
           far == Give(near.map, near.need, Cores)
           E == Free(near.map, Cores)
           H == FirstOf(E, Len(near.need))
           n == Len(need)
           r == Len(near.need)
           m2 == far.map
<1>1. Place(map, need, mask) = m2
  BY DEF Place
<1>2. Gave(near, map, need, F, G) /\ near.need \in Seq(V)
  BY GiveGives
<1>3. Gave(far, near.map, near.need, E, H)
  BY <1>2, GiveGives
<1>4. n \in Nat /\ r \in Nat
  BY <1>2, LenProperties
<1>5. F = (mask \cap Cores) \ DOMAIN map /\ E = Cores \ DOMAIN near.map
  BY DEF Free
<1> HIDE DEF near, far, F, G, E, H
<1>6. /\ DOMAIN near.map = DOMAIN map \cup G
      /\ DOMAIN m2 = DOMAIN near.map \cup H
      /\ \A c \in DOMAIN map : near.map[c] = map[c]
      /\ \A c \in DOMAIN near.map : m2[c] = near.map[c]
  BY <1>2, <1>3 DEF Gave
<1>7. /\ Cardinality(G) \in Nat /\ Cardinality(F) \in Nat
      /\ Cardinality(H) \in Nat /\ Cardinality(E) \in Nat
      /\ Cardinality(G) = Least(Cardinality(F), n)
      /\ Cardinality(H) = Least(Cardinality(E), r)
      /\ r = n - Cardinality(G)
      /\ Len(far.need) = r - Cardinality(H)
      /\ G \subseteq F /\ IsFiniteSet(F) /\ IsFiniteSet(G)
      /\ H \subseteq E /\ IsFiniteSet(E) /\ IsFiniteSet(H)
  BY <1>2, <1>3 DEF Gave
<1>8. /\ \A j \in 1..r : near.need[j] = need[j]
      /\ \A c \in G : \E j \in r + 1..n : near.map[c] = need[j]
      /\ \A j \in r + 1..n : \E c \in G : near.map[c] = need[j]
  BY <1>2 DEF Gave
<1>9. /\ \A c \in H : \E j \in Len(far.need) + 1..r : m2[c] = near.need[j]
      /\ \A j \in Len(far.need) + 1..r : \E c \in H : m2[c] = near.need[j]
  BY <1>3 DEF Gave
<1> HIDE DEF n, r, m2
<1>10. DOMAIN map \subseteq DOMAIN m2 /\ \A c \in DOMAIN map : m2[c] = map[c]
  BY <1>6
<1>11. ASSUME NEW c \in DOMAIN m2 \ DOMAIN map
       PROVE  \E j \in 1..n : m2[c] = need[j]
  <2>1. CASE c \in G
    <3>1. PICK j \in r + 1..n : near.map[c] = need[j]
      BY <1>8, <2>1
    <3>2. j \in 1..n /\ m2[c] = need[j]
      BY <1>4, <1>6, <2>1, <3>1
    <3> QED
      BY <3>2
  <2>2. CASE c \in H
    <3>1. PICK j \in Len(far.need) + 1..r : m2[c] = near.need[j]
      BY <1>9, <2>2
    <3>2. j \in 1..r /\ j \in 1..n
      <4>1. Len(far.need) \in Nat
        BY <1>3 DEF Gave
      <4> QED
        BY <1>4, <1>7, <3>1, <4>1
    <3> QED
      BY <1>8, <3>1, <3>2
  <2> QED
    BY <1>6, <2>1, <2>2
<1>12. ASSUME NEW c \in DOMAIN m2 \ DOMAIN map
       PROVE  c \in mask \/ mask \cap Cores \subseteq DOMAIN m2
  <2>1. CASE c \in G
    BY <1>5, <1>7, <2>1
  <2>2. CASE c \in H
    <3>1. Cardinality(H) # 0
      BY <1>7, <2>2, FS_EmptySet
    <3>2. r # 0
      BY <1>4, <1>7, <3>1 DEF Least
    <3>3. Cardinality(G) = Cardinality(F)
      BY <1>4, <1>7, <3>2 DEF Least
    <3>4. G = F
      BY <1>7, <3>3, FS_Subset
    <3> QED
      BY <1>5, <1>6, <3>4
  <2> QED
    BY <1>6, <2>1, <2>2
<1>13. ASSUME IsFiniteSet(DOMAIN map)
       PROVE  /\ IsFiniteSet(DOMAIN m2)
              /\ Cardinality(DOMAIN m2) <= Cardinality(DOMAIN map) + n
              /\ Cardinality(DOMAIN map) + n <= NCpu =>
                   \A j \in 1..n : \E c \in DOMAIN m2 : m2[c] = need[j]
  <2>1. /\ IsFiniteSet(DOMAIN near.map) /\ Cardinality(DOMAIN near.map) \in Nat
        /\ Cardinality(DOMAIN near.map) <= Cardinality(DOMAIN map) + Cardinality(G)
    <3>1. /\ IsFiniteSet(DOMAIN map \cup G)
          /\ Cardinality(DOMAIN map \cup G) \in Nat
          /\ Cardinality(DOMAIN map \cup G) <=
               Cardinality(DOMAIN map) + Cardinality(G)
      BY <1>7, <1>13, UnionSize
    <3> QED
      BY <1>6, <3>1
  <2>2. /\ IsFiniteSet(DOMAIN m2) /\ Cardinality(DOMAIN m2) \in Nat
        /\ Cardinality(DOMAIN m2) <= Cardinality(DOMAIN near.map) + Cardinality(H)
    <3>1. /\ IsFiniteSet(DOMAIN near.map \cup H)
          /\ Cardinality(DOMAIN near.map \cup H) \in Nat
          /\ Cardinality(DOMAIN near.map \cup H) <=
               Cardinality(DOMAIN near.map) + Cardinality(H)
      BY <1>7, <2>1, UnionSize
    <3> QED
      BY <1>6, <3>1
  <2>3. Cardinality(G) + Cardinality(H) <= n /\ Cardinality(DOMAIN map) \in Nat
    BY <1>4, <1>7, <1>13, FS_CardinalityType DEF Least
  <2>4. Cardinality(DOMAIN m2) <= Cardinality(DOMAIN map) + n
    BY <1>4, <1>7, <2>1, <2>2, <2>3
  <2>5. ASSUME Cardinality(DOMAIN map) + n <= NCpu, NEW j \in 1..n
        PROVE  \E c \in DOMAIN m2 : m2[c] = need[j]
    <3>1. NCpu - Cardinality(DOMAIN near.map) <= Cardinality(E)
      BY <1>5, <2>1, CoresSize, RestSize
    <3>2. Len(far.need) = 0
      <4>1. r <= Cardinality(E)
        BY <1>4, <1>7, <2>1, <2>3, <2>5, <3>1, CpuAssumption
      <4> QED
        BY <1>4, <1>7, <4>1 DEF Least
    <3>3. CASE j \in r + 1..n
      <4>1. PICK c \in G : near.map[c] = need[j]
        BY <1>8, <3>3
      <4> QED
        BY <1>6, <4>1
    <3>4. CASE j \in 1..r
      <4>1. j \in Len(far.need) + 1..r
        BY <1>4, <3>2, <3>4
      <4>2. PICK c \in H : m2[c] = near.need[j]
        BY <1>9, <4>1
      <4> QED
        BY <1>6, <1>8, <3>4, <4>2
    <3> QED
      BY <1>4, <3>3, <3>4
  <2> QED
    BY <2>2, <2>4, <2>5
<1>14. Placed(m2, map, need, mask)
  BY <1>10, <1>11, <1>12, <1>13 DEF Placed, n
<1> QED
  BY <1>1, <1>14

-----------------------------------------------------------------------------
(* The maps after each interface and after each pipeline.                  *)

LEMMA InterfacesRecursion ==
  ASSUME NEW map, NEW interfaces, Len(interfaces) \in Nat, NEW busiest, NEW local
  PROVE  LET after == AfterInterfaces(map, interfaces, busiest, local)
         IN /\ after[0] = map
            /\ \A k \in 1..Len(interfaces) :
                 after[k] = PlaceInterface(after[k-1], interfaces[k], busiest, local)
<1> DEFINE n == Len(interfaces)
           After(m, k) == PlaceInterface(m, interfaces[k], busiest, local)
           Is(f, k) == f = [j \in 0..k |-> IF j = 0 THEN map ELSE After(f[j-1], j)]
           T == {k \in 0..n : \E f : Is(f, k)}
<1>1. 0 \in T
  <2> DEFINE f == [j \in 0..0 |-> map]
  <2>1. Is(f, 0)
    <3> HIDE DEF After
    <3> QED
      OBVIOUS
  <2> HIDE DEF Is, f
  <2> QED
    BY <2>1
<1>2. ASSUME NEW k \in 0..n, k \in T, k < n
      PROVE  k + 1 \in T
  <2>1. PICK f : Is(f, k)
    BY <1>2
  <2> HIDE DEF After
  <2> DEFINE v == After(f[k], k + 1)
             g == [j \in 0..k + 1 |-> IF j = k + 1 THEN v ELSE f[j]]
  <2>2. /\ f[0] = map
        /\ \A j \in 1..k : f[j] = After(f[j-1], j)
    BY <2>1
  <2>3. g[0] = map /\ DOMAIN g = 0..k + 1
    BY <2>2
  <2>4. ASSUME NEW j \in 1..k + 1
        PROVE  g[j] = After(g[j-1], j)
    <3>1. CASE j = k + 1
      <4>1. g[j] = v /\ j - 1 = k /\ g[k] = f[k]
        BY <3>1
      <4> QED
        BY <3>1, <4>1
    <3>2. CASE j \in 1..k
      <4>1. g[j] = f[j] /\ g[j-1] = f[j-1]
        BY <3>2
      <4> QED
        BY <2>2, <3>2, <4>1
    <3> QED
      BY <3>1, <3>2
  <2>5. g = [j \in 0..k + 1 |-> g[j]]
    OBVIOUS
  <2> HIDE DEF g
  <2>6. \A j \in 0..k + 1 :
          g[j] = IF j = 0 THEN map ELSE After(g[j-1], j)
    <3>1. \A j \in 0..k + 1 : j = 0 \/ j \in 1..k + 1
      OBVIOUS
    <3>2. \A j \in 1..k + 1 : j # 0
      OBVIOUS
    <3> QED
      BY <2>3, <2>4, <3>1, <3>2
  <2>7. Is(g, k + 1)
    BY <2>5, <2>6
  <2>8. k + 1 \in 0..n
    BY <1>2
  <2> HIDE DEF Is
  <2> QED
    BY <2>7, <2>8
<1>3. n \in T
  <2> HIDE DEF T
  <2>1. 0..n \subseteq T
    BY <1>1, <1>2, Upwards
  <2> QED
    BY <2>1
<1> DEFINE after == AfterInterfaces(map, interfaces, busiest, local)
<1>4. after = CHOOSE f : Is(f, n)
  BY DEF AfterInterfaces
<1> HIDE DEF after, After
<1>5. Is(after, n)
  <2>1. \E f : Is(f, n)
    BY <1>3
  <2> HIDE DEF Is
  <2> QED
    BY <1>4, <2>1
<1>6. after[0] = map /\ \A k \in 1..n : after[k] = After(after[k-1], k)
  BY <1>5
<1> QED
  BY <1>6 DEF after, After

LEMMA PipelinesRecursion ==
  ASSUME NEW map, NEW pipelines, Len(pipelines) \in Nat, NEW local
  PROVE  LET after == AfterPipelines(map, pipelines, local)
         IN /\ after[0] = map
            /\ \A k \in 1..Len(pipelines) :
                 after[k] = Place(after[k-1], Pipeline(pipelines[k]), local[pipelines[k]])
<1> DEFINE n == Len(pipelines)
           After(m, k) == Place(m, Pipeline(pipelines[k]), local[pipelines[k]])
           Is(f, k) == f = [j \in 0..k |-> IF j = 0 THEN map ELSE After(f[j-1], j)]
           T == {k \in 0..n : \E f : Is(f, k)}
<1>1. 0 \in T
  <2> DEFINE f == [j \in 0..0 |-> map]
  <2>1. Is(f, 0)
    <3> HIDE DEF After
    <3> QED
      OBVIOUS
  <2> HIDE DEF Is, f
  <2> QED
    BY <2>1
<1>2. ASSUME NEW k \in 0..n, k \in T, k < n
      PROVE  k + 1 \in T
  <2>1. PICK f : Is(f, k)
    BY <1>2
  <2> HIDE DEF After
  <2> DEFINE v == After(f[k], k + 1)
             g == [j \in 0..k + 1 |-> IF j = k + 1 THEN v ELSE f[j]]
  <2>2. /\ f[0] = map
        /\ \A j \in 1..k : f[j] = After(f[j-1], j)
    BY <2>1
  <2>3. g[0] = map /\ DOMAIN g = 0..k + 1
    BY <2>2
  <2>4. ASSUME NEW j \in 1..k + 1
        PROVE  g[j] = After(g[j-1], j)
    <3>1. CASE j = k + 1
      <4>1. g[j] = v /\ j - 1 = k /\ g[k] = f[k]
        BY <3>1
      <4> QED
        BY <3>1, <4>1
    <3>2. CASE j \in 1..k
      <4>1. g[j] = f[j] /\ g[j-1] = f[j-1]
        BY <3>2
      <4> QED
        BY <2>2, <3>2, <4>1
    <3> QED
      BY <3>1, <3>2
  <2>5. g = [j \in 0..k + 1 |-> g[j]]
    OBVIOUS
  <2> HIDE DEF g
  <2>6. \A j \in 0..k + 1 :
          g[j] = IF j = 0 THEN map ELSE After(g[j-1], j)
    <3>1. \A j \in 0..k + 1 : j = 0 \/ j \in 1..k + 1
      OBVIOUS
    <3>2. \A j \in 1..k + 1 : j # 0
      OBVIOUS
    <3> QED
      BY <2>3, <2>4, <3>1, <3>2
  <2>7. Is(g, k + 1)
    BY <2>5, <2>6
  <2>8. k + 1 \in 0..n
    BY <1>2
  <2> HIDE DEF Is
  <2> QED
    BY <2>7, <2>8
<1>3. n \in T
  <2> HIDE DEF T
  <2>1. 0..n \subseteq T
    BY <1>1, <1>2, Upwards
  <2> QED
    BY <2>1
<1> DEFINE after == AfterPipelines(map, pipelines, local)
<1>4. after = CHOOSE f : Is(f, n)
  BY DEF AfterPipelines
<1> HIDE DEF after, After
<1>5. Is(after, n)
  <2>1. \E f : Is(f, n)
    BY <1>3
  <2> HIDE DEF Is
  <2> QED
    BY <1>4, <2>1
<1>6. after[0] = map /\ \A k \in 1..n : after[k] = After(after[k-1], k)
  BY <1>5
<1> QED
  BY <1>6 DEF after, After

-----------------------------------------------------------------------------
(* One interface, one pipeline.                                            *)

LEMMA Named ==
  ASSUME NEW i
  PROVE  /\ Threads(i) \in Seq({<<"socket", i>>, <<"dada", i>>})
         /\ Len(Threads(i)) = 2
         /\ \A n \in 1..2 : /\ Threads(i)[n][1] \in {"socket", "dada"}
                            /\ Threads(i)[n][2] = i
         /\ Pipeline(i) \in Seq({<<"dspsr", i>>})
         /\ Len(Pipeline(i)) = 2
         /\ \A n \in 1..2 : /\ Pipeline(i)[n][1] = "dspsr"
                            /\ Pipeline(i)[n][2] = i
         /\ Kernel(i)[1] = "kernel"
BY DEF Threads, Pipeline, Kernel

LEMMA InterfacePlaced ==
  ASSUME NEW map, NEW i, NEW busiest, NEW local
  PROVE  Placed(PlaceInterface(map, i, busiest, local),
                TakeCore(map, i, busiest), Threads(i), local[i])
<1>1. Threads(i) \in Seq({<<"socket", i>>, <<"dada", i>>})
  BY Named
<1>2. Placed(Place(TakeCore(map, i, busiest), Threads(i), local[i]),
             TakeCore(map, i, busiest), Threads(i), local[i])
  BY <1>1, PlacePlaces
<1> QED
  BY <1>2 DEF PlaceInterface

LEMMA PipelinePlaced ==
  ASSUME NEW map, NEW p, NEW local
  PROVE  Placed(Place(map, Pipeline(p), local[p]), map, Pipeline(p), local[p])
<1>1. Pipeline(p) \in Seq({<<"dspsr", p>>})
  BY Named
<1> QED
  BY <1>1, PlacePlaces

LEMMA CoreTaken ==
  ASSUME NEW map, NEW i, NEW busiest
  PROVE  LET taken == TakeCore(map, i, busiest)
         IN /\ DOMAIN taken = DOMAIN map \cup {busiest[i]}
            /\ taken[busiest[i]] = Kernel(i)
            /\ \A c \in DOMAIN map \ {busiest[i]} : taken[c] = map[c]
BY DEF TakeCore

-----------------------------------------------------------------------------
(* Local cores first.                                                      *)

(* LocalFirst of any map.                                                  *)
IsLocal(map, local, gpu) ==
  \A c \in DOMAIN map :
    LET t == map[c]
        near(mask) == c \in mask \/ mask \cap Cores \subseteq DOMAIN map
    IN /\ t[1] \in {"socket", "dada"} => near(local[t[2]])
       /\ t[1] = "dspsr" => near(gpu[t[2]])

LEMMA LocalTaken ==
  ASSUME NEW map, NEW i, NEW busiest, NEW local, NEW gpu,
         IsLocal(map, local, gpu)
  PROVE  IsLocal(TakeCore(map, i, busiest), local, gpu)
<1> DEFINE taken == TakeCore(map, i, busiest)
<1>1. /\ DOMAIN taken = DOMAIN map \cup {busiest[i]}
      /\ taken[busiest[i]] = Kernel(i)
      /\ \A c \in DOMAIN map \ {busiest[i]} : taken[c] = map[c]
  BY CoreTaken
<1>2. Kernel(i)[1] = "kernel"
  BY Named
<1> HIDE DEF taken
<1>3. IsLocal(taken, local, gpu)
  BY <1>1, <1>2 DEF IsLocal
<1> QED
  BY <1>3 DEF taken

LEMMA LocalPlaced ==
  ASSUME NEW map, NEW m2, NEW V, NEW need \in Seq(V), NEW mask,
         NEW local, NEW gpu,
         IsLocal(map, local, gpu),
         Placed(m2, map, need, mask),
         \A j \in 1..Len(need) :
           /\ need[j][1] \in {"socket", "dada"} => mask = local[need[j][2]]
           /\ need[j][1] = "dspsr" => mask = gpu[need[j][2]]
  PROVE  IsLocal(m2, local, gpu)
<1>1. /\ DOMAIN map \subseteq DOMAIN m2
      /\ \A c \in DOMAIN map : m2[c] = map[c]
      /\ \A c \in DOMAIN m2 \ DOMAIN map :
           /\ \E j \in 1..Len(need) : m2[c] = need[j]
           /\ c \in mask \/ mask \cap Cores \subseteq DOMAIN m2
  BY DEF Placed
<1> DEFINE near(c, m) == c \in m \/ m \cap Cores \subseteq DOMAIN m2
<1>2. SUFFICES ASSUME NEW c \in DOMAIN m2
               PROVE  /\ m2[c][1] \in {"socket", "dada"} =>
                           near(c, local[m2[c][2]])
                      /\ m2[c][1] = "dspsr" => near(c, gpu[m2[c][2]])
  BY DEF IsLocal
<1>3. CASE c \in DOMAIN map
  BY <1>1, <1>3 DEF IsLocal
<1>4. CASE c \notin DOMAIN map
  <2>1. PICK j \in 1..Len(need) : m2[c] = need[j]
    BY <1>1, <1>4
  <2>2. near(c, mask)
    BY <1>1, <1>4
  <2> QED
    BY <2>1, <2>2
<1> QED
  BY <1>3, <1>4

LEMMA LocalMap ==
  ASSUME NEW busiest, NEW local, NEW gpu
  PROVE  IsLocal(DspsrMap(Roach2Map(NoCores, Interfaces, busiest, local),
                          Pipelines, gpu), local, gpu)
<1> DEFINE a == AfterInterfaces(NoCores, Interfaces, busiest, local)
           N == Len(Interfaces)
           b == AfterPipelines(a[N], Pipelines, gpu)
           P == Len(Pipelines)
<1>1. N \in Nat /\ P \in Nat
  BY DevicesAssumption, LenProperties
<1>2. /\ a[0] = NoCores
      /\ \A k \in 1..N : a[k] = PlaceInterface(a[k-1], Interfaces[k], busiest, local)
  BY <1>1, InterfacesRecursion
<1>3. /\ b[0] = a[N]
      /\ \A k \in 1..P : b[k] = Place(b[k-1], Pipeline(Pipelines[k]), gpu[Pipelines[k]])
  BY <1>1, PipelinesRecursion
<1> DEFINE S == {k \in 0..N : IsLocal(a[k], local, gpu)}
           T == {k \in 0..P : IsLocal(b[k], local, gpu)}
<1>4. DspsrMap(Roach2Map(NoCores, Interfaces, busiest, local), Pipelines, gpu) = b[P]
  BY DEF DspsrMap, Roach2Map
<1> HIDE DEF a, b, N, P
<1>5. 0 \in S
  <2>1. IsLocal(NoCores, local, gpu)
    BY DEF IsLocal, NoCores
  <2> QED
    BY <1>1, <1>2, <2>1
<1>6. ASSUME NEW k \in 0..N, k \in S, k < N
      PROVE  k + 1 \in S
  <2> DEFINE i == Interfaces[k + 1]
             taken == TakeCore(a[k], i, busiest)
  <2>1. k + 1 \in 1..N /\ (k + 1) - 1 = k
    BY <1>1, <1>6
  <2>2. a[k + 1] = PlaceInterface(a[k], i, busiest, local)
    BY <1>2, <2>1
  <2>3. Placed(a[k + 1], taken, Threads(i), local[i])
    BY <2>2, InterfacePlaced
  <2>4. IsLocal(taken, local, gpu)
    BY <1>6, LocalTaken
  <2> HIDE DEF i, taken
  <2>5. IsLocal(a[k + 1], local, gpu)
    <3>1. \A j \in 1..Len(Threads(i)) :
            /\ Threads(i)[j][1] \in {"socket", "dada"} =>
                 local[i] = local[Threads(i)[j][2]]
            /\ Threads(i)[j][1] = "dspsr" => local[i] = gpu[Threads(i)[j][2]]
      BY Named
    <3>2. Threads(i) \in Seq({<<"socket", i>>, <<"dada", i>>})
      BY Named
    <3> QED
      BY <2>3, <2>4, <3>1, <3>2, LocalPlaced
  <2> QED
    BY <2>1, <2>5
<1>7. IsLocal(a[N], local, gpu)
  <2> HIDE DEF S
  <2>1. 0..N \subseteq S
    BY <1>1, <1>5, <1>6, Upwards
  <2>2. N \in 0..N
    BY <1>1
  <2> QED
    BY <2>1, <2>2 DEF S
<1>8. 0 \in T
  BY <1>1, <1>3, <1>7
<1>9. ASSUME NEW k \in 0..P, k \in T, k < P
      PROVE  k + 1 \in T
  <2> DEFINE p == Pipelines[k + 1]
  <2>1. k + 1 \in 1..P /\ (k + 1) - 1 = k
    BY <1>1, <1>9
  <2>2. b[k + 1] = Place(b[k], Pipeline(p), gpu[p])
    BY <1>3, <2>1
  <2>3. Placed(b[k + 1], b[k], Pipeline(p), gpu[p])
    BY <2>2, PipelinePlaced
  <2> HIDE DEF p
  <2>4. IsLocal(b[k + 1], local, gpu)
    <3>1. \A j \in 1..Len(Pipeline(p)) :
            /\ Pipeline(p)[j][1] \in {"socket", "dada"} =>
                 gpu[p] = local[Pipeline(p)[j][2]]
            /\ Pipeline(p)[j][1] = "dspsr" => gpu[p] = gpu[Pipeline(p)[j][2]]
      BY Named
    <3>2. Pipeline(p) \in Seq({<<"dspsr", p>>})
      BY Named
    <3> QED
      BY <1>9, <2>3, <3>1, <3>2, LocalPlaced
  <2> QED
    BY <2>1, <2>4
<1>10. IsLocal(b[P], local, gpu)
  <2> HIDE DEF T
  <2>1. 0..P \subseteq T
    BY <1>1, <1>8, <1>9, Upwards
  <2>2. P \in 0..P
    BY <1>1
  <2> QED
    BY <2>1, <2>2 DEF T
<1> QED
  BY <1>4, <1>10

-----------------------------------------------------------------------------
(* A core for every thread.                                                *)

(* An interface takes three cores at most, and if there are three for each *)
(* of them both its threads get one.                                       *)
LEMMA InterfaceSize ==
  ASSUME NEW map, NEW i, NEW busiest, NEW local, IsFiniteSet(DOMAIN map)
  PROVE  LET next == PlaceInterface(map, i, busiest, local)
         IN /\ IsFiniteSet(DOMAIN next)
            /\ Cardinality(DOMAIN next) <= Cardinality(DOMAIN map) + 3
            /\ Cardinality(DOMAIN map) + 3 <= NCpu =>
                 \A n \in 1..2 : CoresOf(next, Threads(i)[n]) # {}
<1> DEFINE next == PlaceInterface(map, i, busiest, local)
           taken == TakeCore(map, i, busiest)
<1>1. Placed(next, taken, Threads(i), local[i])
  BY InterfacePlaced
<1>2. DOMAIN taken = DOMAIN map \cup {busiest[i]}
  BY DEF TakeCore
<1> HIDE DEF next, taken
<1>3. /\ IsFiniteSet(DOMAIN taken) /\ Cardinality(DOMAIN taken) \in Nat
      /\ Cardinality(DOMAIN taken) <= Cardinality(DOMAIN map) + 1
  <2>1. /\ IsFiniteSet({busiest[i]}) /\ Cardinality({busiest[i]}) = 1
    BY FS_Singleton
  <2>2. /\ IsFiniteSet(DOMAIN map \cup {busiest[i]})
        /\ Cardinality(DOMAIN map \cup {busiest[i]}) \in Nat
        /\ Cardinality(DOMAIN map \cup {busiest[i]}) <=
             Cardinality(DOMAIN map) + Cardinality({busiest[i]})
    BY <2>1, UnionSize
  <2> QED
    BY <1>2, <2>1, <2>2
<1>4. Len(Threads(i)) = 2
  BY Named
<1>5. /\ IsFiniteSet(DOMAIN next)
      /\ Cardinality(DOMAIN next) <= Cardinality(DOMAIN taken) + 2
      /\ Cardinality(DOMAIN taken) + 2 <= NCpu =>
           \A n \in 1..2 : \E c \in DOMAIN next : next[c] = Threads(i)[n]
  BY <1>1, <1>3, <1>4 DEF Placed
<1>6. Cardinality(DOMAIN map) \in Nat /\ Cardinality(DOMAIN next) \in Nat
  BY <1>5, FS_CardinalityType
<1>7. Cardinality(DOMAIN next) <= Cardinality(DOMAIN map) + 3
  BY <1>3, <1>5, <1>6
<1>8. ASSUME Cardinality(DOMAIN map) + 3 <= NCpu, NEW n \in 1..2
      PROVE  CoresOf(next, Threads(i)[n]) # {}
  <2>1. Cardinality(DOMAIN taken) + 2 <= NCpu
    BY <1>3, <1>6, <1>8, CpuAssumption
  <2>2. PICK c \in DOMAIN next : next[c] = Threads(i)[n]
    BY <1>5, <1>8, <2>1
  <2> QED
    BY <2>2 DEF CoresOf
<1> QED
  BY <1>5, <1>7, <1>8 DEF next

(* A core keeps what it was given to, unless it is the next interface's    *)
(* busiest.                                                                *)
LEMMA InterfaceKeeps ==
  ASSUME NEW map, NEW i, NEW busiest, NEW local,
         NEW c \in DOMAIN map, c # busiest[i]
  PROVE  LET next == PlaceInterface(map, i, busiest, local)
         IN c \in DOMAIN next /\ next[c] = map[c]
<1>1. Placed(PlaceInterface(map, i, busiest, local),
             TakeCore(map, i, busiest), Threads(i), local[i])
  BY InterfacePlaced
<1>2. c \in DOMAIN TakeCore(map, i, busiest) /\ TakeCore(map, i, busiest)[c] = map[c]
  BY DEF TakeCore
<1> QED
  BY <1>1, <1>2 DEF Placed

LEMMA ThreadsMap ==
  ASSUME NEW busiest, NEW local, NEW gpu, NCpu >= 3 * Len(Interfaces),
         NEW k \in 1..Len(Interfaces), NEW n \in 1..2
  PROVE  LET t == Threads(Interfaces[k])[n]
             map == DspsrMap(Roach2Map(NoCores, Interfaces, busiest, local),
                             Pipelines, gpu)
             given == CoresOf(AfterInterfaces(NoCores, Interfaces, busiest,
                                              local)[k], t)
         IN \/ CoresOf(map, t) # {}
            \/ \E m \in k+1..Len(Interfaces) : busiest[Interfaces[m]] \in given
<1> DEFINE a == AfterInterfaces(NoCores, Interfaces, busiest, local)
           N == Len(Interfaces)
           b == AfterPipelines(a[N], Pipelines, gpu)
           P == Len(Pipelines)
           t == Threads(Interfaces[k])[n]
<1>1. N \in Nat /\ P \in Nat
  BY DevicesAssumption, LenProperties
<1>2. /\ a[0] = NoCores
      /\ \A i \in 1..N : a[i] = PlaceInterface(a[i-1], Interfaces[i], busiest, local)
  BY <1>1, InterfacesRecursion
<1>3. /\ b[0] = a[N]
      /\ \A i \in 1..P : b[i] = Place(b[i-1], Pipeline(Pipelines[i]), gpu[Pipelines[i]])
  BY <1>1, PipelinesRecursion
<1>4. DspsrMap(Roach2Map(NoCores, Interfaces, busiest, local), Pipelines, gpu) = b[P]
  BY DEF DspsrMap, Roach2Map
<1>5. NCpu \in Nat /\ 3 * N <= NCpu /\ k \in 1..N
  BY CpuAssumption
<1> HIDE DEF a, b, N, P
<1> DEFINE S == {i \in 0..N : /\ IsFiniteSet(DOMAIN a[i])
                              /\ Cardinality(DOMAIN a[i]) <= 3 * i}
<1>6. 0 \in S
  <2>1. IsFiniteSet(DOMAIN NoCores) /\ Cardinality(DOMAIN NoCores) = 0
    BY FS_EmptySet DEF NoCores
  <2> QED
    BY <1>1, <1>2, <2>1
<1>7. ASSUME NEW i \in 0..N, i \in S, i < N
      PROVE  i + 1 \in S
  <2>1. i + 1 \in 1..N /\ (i + 1) - 1 = i
    BY <1>1, <1>7
  <2>2. a[i + 1] = PlaceInterface(a[i], Interfaces[i + 1], busiest, local)
    BY <1>2, <2>1
  <2>3. /\ IsFiniteSet(DOMAIN a[i + 1])
        /\ Cardinality(DOMAIN a[i + 1]) <= Cardinality(DOMAIN a[i]) + 3
    BY <1>7, <2>2, InterfaceSize
  <2>4. Cardinality(DOMAIN a[i]) \in Nat /\ Cardinality(DOMAIN a[i + 1]) \in Nat
    BY <1>7, <2>3, FS_CardinalityType
  <2>5. Cardinality(DOMAIN a[i + 1]) <= 3 * (i + 1)
    BY <1>7, <2>3, <2>4
  <2> QED
    BY <2>1, <2>3, <2>5
<1>8. \A i \in 0..N : /\ IsFiniteSet(DOMAIN a[i])
                      /\ Cardinality(DOMAIN a[i]) \in Nat
                      /\ Cardinality(DOMAIN a[i]) <= 3 * i
  <2> HIDE DEF S
  <2>1. 0..N \subseteq S
    BY <1>1, <1>6, <1>7, Upwards
  <2> QED
    BY <2>1, FS_CardinalityType DEF S
<1> HIDE DEF S
<1>9. CoresOf(a[k], t) # {}
  <2>1. k - 1 \in 0..N /\ 3 * (k - 1) + 3 <= NCpu
    BY <1>1, <1>5
  <2>2. Cardinality(DOMAIN a[k-1]) + 3 <= NCpu
    BY <1>1, <1>5, <1>8, <2>1
  <2>3. a[k] = PlaceInterface(a[k-1], Interfaces[k], busiest, local)
    BY <1>2, <1>5
  <2> QED
    BY <1>8, <2>1, <2>2, <2>3, InterfaceSize
<1>10. PICK c \in DOMAIN a[k] : a[k][c] = t
  BY <1>9 DEF CoresOf
<1>11. c \in CoresOf(a[k], t)
  BY <1>10 DEF CoresOf
<1> HIDE DEF t
<1>12. SUFFICES ASSUME \A m \in k+1..N : busiest[Interfaces[m]] # c
                PROVE  CoresOf(b[P], t) # {}
  BY <1>4, <1>11 DEF a, t, N
<1> DEFINE T == {i \in 0..N : i >= k => c \in DOMAIN a[i] /\ a[i][c] = t}
<1>13. 0 \in T
  BY <1>1, <1>5
<1>14. ASSUME NEW i \in 0..N, i \in T, i < N
       PROVE  i + 1 \in T
  <2>1. i + 1 \in 1..N /\ i + 1 \in 0..N /\ (i + 1) - 1 = i
    BY <1>1, <1>14
  <2>2. CASE i + 1 < k
    BY <1>5, <2>1, <2>2
  <2>3. CASE i + 1 = k
    BY <1>10, <2>1, <2>3
  <2>4. CASE i >= k
    <3>1. i + 1 \in k+1..N
      BY <1>1, <1>5, <2>1, <2>4
    <3>2. c # busiest[Interfaces[i + 1]]
      BY <1>12, <3>1
    <3>3. c \in DOMAIN a[i] /\ a[i][c] = t
      BY <1>14, <2>4
    <3>4. a[i + 1] = PlaceInterface(a[i], Interfaces[i + 1], busiest, local)
      BY <1>2, <2>1
    <3>5. c \in DOMAIN a[i + 1] /\ a[i + 1][c] = t
      BY <3>2, <3>3, <3>4, InterfaceKeeps
    <3> QED
      BY <2>1, <3>5
  <2> QED
    BY <1>1, <1>5, <2>2, <2>3, <2>4
<1>15. c \in DOMAIN a[N] /\ a[N][c] = t
  <2> HIDE DEF T
  <2>1. 0..N \subseteq T
    BY <1>1, <1>13, <1>14, Upwards
  <2>2. N \in 0..N /\ N >= k
    BY <1>1, <1>5
  <2> QED
    BY <2>1, <2>2 DEF T
<1> HIDE DEF T
<1> DEFINE U == {i \in 0..P : c \in DOMAIN b[i] /\ b[i][c] = t}
<1>16. 0 \in U
  BY <1>1, <1>3, <1>15
<1>17. ASSUME NEW i \in 0..P, i \in U, i < P
       PROVE  i + 1 \in U
  <2>1. i + 1 \in 1..P /\ i + 1 \in 0..P /\ (i + 1) - 1 = i
    BY <1>1, <1>17
  <2>2. b[i + 1] = Place(b[i], Pipeline(Pipelines[i + 1]), gpu[Pipelines[i + 1]])
    BY <1>3, <2>1
  <2>3. Placed(b[i + 1], b[i], Pipeline(Pipelines[i + 1]), gpu[Pipelines[i + 1]])
    BY <2>2, PipelinePlaced
  <2>4. c \in DOMAIN b[i + 1] /\ b[i + 1][c] = t
    BY <1>17, <2>3 DEF Placed
  <2> QED
    BY <2>1, <2>4
<1>18. c \in DOMAIN b[P] /\ b[P][c] = t
  <2> HIDE DEF U
  <2>1. 0..P \subseteq U
    BY <1>1, <1>16, <1>17, Upwards
  <2>2. P \in 0..P
    BY <1>1
  <2> QED
    BY <2>1, <2>2 DEF U
<1> QED
  BY <1>18 DEF CoresOf

-----------------------------------------------------------------------------
(* The launch.                                                             *)

(* The map is that of the machine, from the first observation on.          *)
MapOfMachine ==
  /\ launches \in Nat
  /\ launches = 0 => cpu_map = NoCores
  /\ launches > 0 =>
       cpu_map = DspsrMap(Roach2Map(NoCores, Interfaces, machine.busiest,
                                    machine.local), Pipelines, machine.gpu)

LEMMA MapInit == Init => MapOfMachine
BY DEF Init, MapOfMachine

LEMMA MapStep == MapOfMachine /\ [Next]_vars => MapOfMachine'
<1> SUFFICES ASSUME MapOfMachine, [Next]_vars PROVE MapOfMachine'
  OBVIOUS
<1>1. CASE Begin
  BY <1>1 DEF MapOfMachine, Begin, BeginWith
<1>2. ASSUME UNCHANGED <<launches, machine, cpu_map>>
      PROVE  MapOfMachine'
  BY <1>2 DEF MapOfMachine
<1>3. CASE UNCHANGED vars
  BY <1>2, <1>3 DEF vars, roachVars
<1>4. CASE Starting
  BY <1>2, <1>4 DEF Starting, Popen, OpenMonitor, OpenControl, Does
<1>5. CASE Looping
  BY <1>2, <1>5 DEF Looping, Loop, Poll, PollAll, Read, ReadFrom, Does
<1>6. CASE Cleanup
  BY <1>2, <1>6 DEF Cleanup
<1>7. ASSUME NEW h \in Bands,
             ProcSetsUp(h) \/ ProcCaptures(h) \/ ProcReports(h) \/ ProcEnds(h)
      PROVE  MapOfMachine'
  BY <1>2, <1>7 DEF ProcSetsUp, ProcOpensMonitor, ProcOpensControl, ProcConnects,
     ProcCaptures, ProcReports, ProcEnds, Proceeds, roachVars
<1> QED
  BY <1>1, <1>3, <1>4, <1>5, <1>6, <1>7 DEF Next

LEMMA MapAlways == Spec => []MapOfMachine
BY MapInit, MapStep, PTL DEF Spec

(* However many interfaces and cores, and whatever the machine says of     *)
(* them: with three cores for each interface both its threads get one that *)
(* start_observation finds, unless a later interface takes it away for its *)
(* interrupts (Roach2.get_cpu_map).                                        *)
THEOREM ThreadsSafety == Spec => []ThreadsPlaced
<1>1. MapOfMachine => ThreadsPlaced
  BY ThreadsMap DEF MapOfMachine, ThreadsPlaced
<1> QED
  BY <1>1, MapAlways, PTL

(* No thread is put on a core that is not local to its device as long as   *)
(* one that is local is free (Roach2.get_cpu_map, Dspsr.get_cpu_map).      *)
THEOREM LocalSafety == Spec => []LocalFirst
<1>1. MapOfMachine => LocalFirst
  <2> SUFFICES ASSUME MapOfMachine PROVE LocalFirst
    OBVIOUS
  <2>1. CASE launches = 0
    BY <2>1 DEF MapOfMachine, LocalFirst, NoCores
  <2>2. CASE launches > 0
    <3>1. IsLocal(cpu_map, machine.local, machine.gpu)
      BY <2>2, LocalMap DEF MapOfMachine
    <3> QED
      BY <3>1 DEF IsLocal, LocalFirst
  <2> QED
    BY <2>1, <2>2 DEF MapOfMachine
<1> QED
  BY <1>1, MapAlways, PTL
=============================================================================
