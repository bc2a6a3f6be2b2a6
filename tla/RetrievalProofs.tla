--------------------------- MODULE RetrievalProofs ---------------------------
(***************************************************************************)
(* Proofs about Retrieval: what a search returns passes its filter and is  *)
(* indexed, for every index, filter, query and vault.                      *)
(***************************************************************************)
EXTENDS Retrieval, FiniteSetTheorems, SequenceTheorems, WellFoundedInduction, TLAPS

-----------------------------------------------------------------------------
(* Recursive functions on 0 .. n. *)

\* A set of natural numbers that is not empty has a least one.
LEMMA LeastNumber ==
  ASSUME NEW S \in SUBSET Nat, S # {}
  PROVE  \E n \in S : \A m \in S : n <= m
<1> DEFINE R == OpToRel(<, Nat)
<1>1. IsWellFoundedOn(R, Nat)
  BY NatLessThanWellFounded
<1>2. \A x, y \in Nat : x < y => <<x, y>> \in R
  BY DEF OpToRel
<1> HIDE DEF R
<1>3. PICK n \in S : \A m \in S : ~ (<<m, n>> \in R)
  BY <1>1, WFMin
<1>4. ASSUME NEW m \in S PROVE ~(m < n)
  BY <1>2, <1>3
<1> QED
  BY <1>4

\* What holds of the first value and goes from each to the next holds of all.
LEMMA StepsStayIn ==
  ASSUME NEW N \in Nat, NEW D, NEW f, f[0] \in D, \A n \in 1 .. N : f[n - 1] \in D => f[n] \in D
  PROVE  \A n \in 0 .. N : f[n] \in D
<1> DEFINE bad == {n \in 0 .. N : f[n] \notin D}
<1> SUFFICES ASSUME bad # {} PROVE FALSE
  OBVIOUS
<1>1. bad \in SUBSET Nat
  OBVIOUS
<1>2. PICK n \in bad : \A m \in bad : n <= m
  BY <1>1, LeastNumber
<1>3. n \in 0 .. N /\ f[n] \notin D
  BY <1>2
<1>4. n \in 1 .. N /\ n - 1 \in 0 .. N /\ ~(n <= n - 1)
  BY <1>3
<1>5. n - 1 \notin bad
  BY <1>2, <1>4
<1>6. f[n - 1] \in D
  BY <1>4, <1>5
<1> QED
  BY <1>3, <1>4, <1>6

\* A first value and a step from each to the next define a function on 0 .. N.
Recurs(f, k, first, step) ==
  f[0] = first /\ \A n \in 1 .. k : f[n] = step[n][f[n - 1]]
RecursUpto(k, D, first, step) == \E f \in [0 .. k -> D] : Recurs(f, k, first, step)

LEMMA RecurrenceExists ==
  ASSUME NEW N \in Nat, NEW D, NEW first \in D, NEW step \in [1 .. N -> [D -> D]]
  PROVE  RecursUpto(N, D, first, step)
<1> DEFINE bad == {k \in 0 .. N : ~RecursUpto(k, D, first, step)}
<1> SUFFICES ASSUME bad # {} PROVE FALSE
  OBVIOUS
<1>1. bad \in SUBSET Nat
  OBVIOUS
<1>2. PICK k \in bad : \A m \in bad : k <= m
  BY <1>1, LeastNumber
<1>3. k \in 0 .. N /\ ~RecursUpto(k, D, first, step)
  BY <1>2
<1>4. k # 0
  <2> DEFINE one == [n \in 0 .. 0 |-> first]
  <2>1. one \in [0 .. 0 -> D] /\ Recurs(one, 0, first, step)
    BY DEF Recurs
  <2> QED
    BY <1>3, <2>1 DEF RecursUpto
<1>5. k \in 1 .. N /\ k - 1 \in 0 .. N /\ ~(k <= k - 1)
  BY <1>3, <1>4
<1>6. RecursUpto(k - 1, D, first, step)
  BY <1>2, <1>5
<1>7. PICK f \in [0 .. k - 1 -> D] : Recurs(f, k - 1, first, step)
  BY <1>6 DEF RecursUpto
<1> DEFINE g == [n \in 0 .. k |-> IF n = k THEN step[k][f[k - 1]] ELSE f[n]]
<1>8. f[k - 1] \in D /\ step[k][f[k - 1]] \in D
  BY <1>5, <1>7
<1>9. g \in [0 .. k -> D]
  BY <1>5, <1>7, <1>8
<1>10. g[0] = first
  BY <1>5, <1>7 DEF Recurs
<1>11. ASSUME NEW n \in 1 .. k PROVE g[n] = step[n][g[n - 1]]
  <2>1. n - 1 \in 0 .. k - 1 /\ n \in 0 .. k /\ g[n - 1] = f[n - 1]
    BY <1>5
  <2>2. CASE n = k
    BY <2>1, <2>2
  <2>3. CASE n # k
    BY <1>5, <1>7, <2>1, <2>3 DEF Recurs
  <2> QED
    BY <2>2, <2>3
<1> QED
  BY <1>3, <1>9, <1>10, <1>11 DEF RecursUpto, Recurs

-----------------------------------------------------------------------------
(* Sequences: what is among a set, a concatenation, an order. *)

IsAmong(f, s, S) ==
  f = [n \in 0 .. Len(s) |->
         IF n = 0 THEN <<>>
         ELSE IF s[n] \in S THEN Append(f[n - 1], s[n]) ELSE f[n - 1]]

LEMMA AmongExists ==
  ASSUME NEW T, NEW s \in Seq(T), NEW S
  PROVE  \E f : IsAmong(f, s, S)
<1> DEFINE N == Len(s)
           D == Seq(T)
           step == [n \in 1 .. N |-> [r \in D |-> IF s[n] \in S THEN Append(r, s[n]) ELSE r]]
<1>1. N \in Nat /\ \A n \in 1 .. N : s[n] \in T
  OBVIOUS
<1>2. <<>> \in D
  OBVIOUS
<1>3. step \in [1 .. N -> [D -> D]]
  BY <1>1
<1>4. \A n \in 1 .. N, r \in D : step[n][r] = IF s[n] \in S THEN Append(r, s[n]) ELSE r
  OBVIOUS
<1> HIDE DEF N, D, step
<1>5. PICK f \in [0 .. N -> D] : Recurs(f, N, <<>>, step)
  BY <1>1, <1>2, <1>3, RecurrenceExists DEF RecursUpto
<1>6. ASSUME NEW n \in 1 .. N
      PROVE  f[n] = IF s[n] \in S THEN Append(f[n - 1], s[n]) ELSE f[n - 1]
  <2>1. n - 1 \in 0 .. N
    BY <1>1
  <2> QED
    BY <1>4, <1>5, <2>1 DEF Recurs
<1>7. f[0] = <<>>
  BY <1>5 DEF Recurs
<1>8. ASSUME NEW n \in 0 .. N
      PROVE  f[n] = IF n = 0 THEN <<>>
                    ELSE IF s[n] \in S THEN Append(f[n - 1], s[n]) ELSE f[n - 1]
  <2>1. n = 0 \/ (n # 0 /\ n \in 1 .. N)
    BY <1>1
  <2> QED
    BY <1>6, <1>7, <2>1
<1>9. f = [n \in 0 .. N |-> f[n]]
  BY <1>5
<1>10. f = [n \in 0 .. N |->
              IF n = 0 THEN <<>>
              ELSE IF s[n] \in S THEN Append(f[n - 1], s[n]) ELSE f[n - 1]]
  BY <1>8, <1>9
<1> QED
  BY <1>10 DEF IsAmong, N

LEMMA AmongType ==
  ASSUME NEW T, NEW s \in Seq(T), NEW S
  PROVE  Among(s, S) \in Seq(T \cap S) /\ Len(Among(s, S)) <= Len(s)
<1> DEFINE N == Len(s)
           D == Seq(T \cap S)
           f == CHOOSE g : IsAmong(g, s, S)
<1>1. N \in Nat /\ \A n \in 1 .. N : s[n] \in T
  OBVIOUS
<1>2. IsAmong(f, s, S)
  BY AmongExists
<1>3. Among(s, S) = f[N]
  BY DEF Among, IsAmong
<1> HIDE DEF f
<1>4. f = [n \in 0 .. N |->
             IF n = 0 THEN <<>>
             ELSE IF s[n] \in S THEN Append(f[n - 1], s[n]) ELSE f[n - 1]]
  BY <1>2 DEF IsAmong
<1> HIDE DEF N
<1>5. f[0] = <<>>
  BY <1>1, <1>4
<1>6. ASSUME NEW n \in 1 .. N
      PROVE  f[n] = IF s[n] \in S THEN Append(f[n - 1], s[n]) ELSE f[n - 1]
  <2>1. n # 0 /\ n \in 0 .. N
    BY <1>1
  <2> HIDE DEF f
  <2> QED
    BY <1>4, <2>1
<1> HIDE DEF f
<1> DEFINE Fits(n) == f[n] \in D /\ Len(f[n]) <= n
           bad == {n \in 0 .. N : ~Fits(n)}
<1>7. Fits(0)
  BY <1>5
<1>8. ASSUME NEW n \in 1 .. N, Fits(n - 1) PROVE Fits(n)
  <2>1. CASE s[n] \in S
    <3>1. s[n] \in T \cap S /\ f[n] = Append(f[n - 1], s[n])
      BY <1>1, <1>6, <2>1
    <3> QED
      BY <1>8, <3>1
  <2>2. CASE s[n] \notin S
    BY <1>6, <1>8, <2>2
  <2> QED
    BY <2>1, <2>2
<1> HIDE DEF Fits
<1>9. bad = {}
  <2> SUFFICES ASSUME bad # {} PROVE FALSE
    OBVIOUS
  <2>1. bad \in SUBSET Nat
    BY <1>1
  <2>2. PICK n \in bad : \A m \in bad : n <= m
    BY <2>1, LeastNumber
  <2>3. n \in 0 .. N /\ ~Fits(n)
    BY <2>2
  <2>4. n \in 1 .. N /\ n - 1 \in 0 .. N /\ ~(n <= n - 1)
    BY <1>1, <1>7, <2>3
  <2>5. Fits(n - 1)
    BY <2>2, <2>4
  <2> QED
    BY <1>8, <2>3, <2>4, <2>5
<1>10. Fits(N)
  BY <1>1, <1>9
<1> QED
  BY <1>3, <1>10 DEF Fits, N

\* A finite set under a strict total order has a sequence in that order.
StrictOrder(S, R) ==
  /\ \A x, y \in S : x # y => <<x, y>> \in R \/ <<y, x>> \in R
  /\ \A x \in S : <<x, x>> \notin R
  /\ \A x, y, z \in S : <<x, y>> \in R /\ <<y, z>> \in R => <<x, z>> \in R

LEMMA OrderExists ==
  ASSUME NEW S, IsFiniteSet(S), NEW R, StrictOrder(S, R)
  PROVE  \E s \in [1 .. Cardinality(S) -> S] :
           \A i, j \in 1 .. Cardinality(S) : i < j => <<s[i], s[j]>> \in R
<1> DEFINE N == Cardinality(S)
           below(x) == {y \in S : <<y, x>> \in R}
           rank == [x \in S |-> Cardinality(below(x)) + 1]
<1>1. N \in Nat
  BY FS_CardinalityType
<1>2. ASSUME NEW x \in S
      PROVE  IsFiniteSet(below(x)) /\ Cardinality(below(x)) \in Nat /\ Cardinality(below(x)) + 1 <= N
  <2>1. x \notin below(x)
    BY DEF StrictOrder
  <2>2. below(x) \in SUBSET (S \ {x})
    BY <2>1
  <2>3. IsFiniteSet(S \ {x}) /\ Cardinality(S \ {x}) = N - 1
    BY FS_RemoveElement
  <2> HIDE DEF below
  <2>4. IsFiniteSet(below(x)) /\ Cardinality(below(x)) <= N - 1
    BY <2>2, <2>3, FS_Subset
  <2>5. Cardinality(below(x)) \in Nat
    BY <2>4, FS_CardinalityType
  <2> QED
    BY <1>1, <2>4, <2>5
<1>3. rank \in [S -> 1 .. N]
  <2> HIDE DEF below, N
  <2> QED
    BY <1>1, <1>2
<1>4. ASSUME NEW x \in S, NEW y \in S, <<x, y>> \in R
      PROVE  rank[x] < rank[y]
  <2>1. x \notin below(x) /\ below(x) \cup {x} \subseteq below(y)
    BY <1>4 DEF StrictOrder
  <2> HIDE DEF below
  <2>2. IsFiniteSet(below(x) \cup {x}) /\ Cardinality(below(x) \cup {x}) = Cardinality(below(x)) + 1
    BY <1>2, <2>1, FS_AddElement
  <2>3. below(x) \cup {x} \in SUBSET below(y)
    BY <2>1
  <2>4. Cardinality(below(x)) + 1 <= Cardinality(below(y))
    BY <1>2, <2>2, <2>3, FS_Subset
  <2> QED
    BY <1>2, <2>4
<1>5. \A x, y \in S : rank[x] = rank[y] => x = y
  <2> SUFFICES ASSUME NEW x \in S, NEW y \in S, rank[x] = rank[y], x # y PROVE FALSE
    OBVIOUS
  <2>1. rank[x] < rank[y] \/ rank[y] < rank[x]
    <3> HIDE DEF rank
    <3> QED
      BY <1>4 DEF StrictOrder
  <2>2. rank[x] \in 1 .. N /\ rank[y] \in 1 .. N
    BY <1>3
  <2> HIDE DEF rank, N
  <2> QED
    BY <1>1, <2>1, <2>2
<1> HIDE DEF rank
<1>6. \A i \in 1 .. N : \E x \in S : rank[x] = i
  <2>1. rank \in Injection(S, 1 .. N)
    BY <1>3, <1>5 DEF Injection, IsInjective
  <2>2. IsFiniteSet(1 .. N) /\ Cardinality(1 .. N) = N
    <3> HIDE DEF N
    <3> QED
      BY <1>1, FS_Interval
  <2>3. rank \in Surjection(S, 1 .. N)
    BY <2>1, <2>2, FS_Injection
  <2> QED
    BY <2>3 DEF Surjection
<1> DEFINE s == [i \in 1 .. N |-> CHOOSE x \in S : rank[x] = i]
<1>7. ASSUME NEW i \in 1 .. N PROVE s[i] \in S /\ rank[s[i]] = i
  BY <1>6
<1>8. s \in [1 .. N -> S]
  BY <1>7
<1>9. ASSUME NEW i \in 1 .. N, NEW j \in 1 .. N, i < j
      PROVE  <<s[i], s[j]>> \in R
  <2> HIDE DEF s, N
  <2>1. s[i] \in S /\ s[j] \in S /\ rank[s[i]] = i /\ rank[s[j]] = j
    BY <1>7
  <2>2. s[i] # s[j] /\ ~(rank[s[j]] < rank[s[i]])
    BY <1>1, <1>9, <2>1
  <2>3. <<s[j], s[i]>> \notin R
    BY <1>4, <2>1, <2>2
  <2> QED
    BY <2>1, <2>2, <2>3 DEF StrictOrder
<1> HIDE DEF s
<1> QED
  BY <1>8, <1>9

-----------------------------------------------------------------------------
(* Scores. *)

HitsIn(D) == [doc : D, score : Nat]

IsShare(f, hits, d) ==
  f = [n \in 0 .. Len(hits) |->
         IF n = 0 THEN 0
         ELSE f[n - 1] + (IF hits[n].doc = d THEN Scale \div (60 + n) ELSE 0)]

LEMMA PartType == \A n \in Nat : Scale \div (60 + n) \in Nat
BY DEF Scale

LEMMA ShareType ==
  ASSUME NEW D, NEW hits \in Seq(HitsIn(D)), NEW d
  PROVE  Share(hits, d) \in Nat
<1> DEFINE N == Len(hits)
           part == [n \in 1 .. N |-> IF hits[n].doc = d THEN Scale \div (60 + n) ELSE 0]
           step == [n \in 1 .. N |-> [x \in Nat |-> x + part[n]]]
<1>1. N \in Nat
  OBVIOUS
<1>2. \A n \in 1 .. N : part[n] \in Nat
  <2> HIDE DEF N
  <2>1. \A n \in 1 .. N : Scale \div (60 + n) \in Nat
    BY <1>1, PartType
  <2> QED
    BY <2>1
<1>3. \A n \in 1 .. N : part[n] = IF hits[n].doc = d THEN Scale \div (60 + n) ELSE 0
  OBVIOUS
<1> HIDE DEF part, N
<1>4. step \in [1 .. N -> [Nat -> Nat]]
  BY <1>2
<1>5. \A n \in 1 .. N, x \in Nat : step[n][x] = x + part[n]
  OBVIOUS
<1> HIDE DEF step
<1>6. PICK f \in [0 .. N -> Nat] : Recurs(f, N, 0, step)
  BY <1>1, <1>4, RecurrenceExists DEF RecursUpto
<1>7. ASSUME NEW n \in 0 .. N
      PROVE  f[n] = IF n = 0 THEN 0
                    ELSE f[n - 1] + (IF hits[n].doc = d THEN Scale \div (60 + n) ELSE 0)
  <2>1. CASE n = 0
    BY <1>6, <2>1 DEF Recurs
  <2>2. CASE n # 0
    <3>1. n \in 1 .. N /\ n - 1 \in 0 .. N
      BY <1>1, <2>2
    <3>2. f[n] = f[n - 1] + part[n]
      BY <1>5, <1>6, <3>1 DEF Recurs
    <3> QED
      BY <1>3, <2>2, <3>1, <3>2
  <2> QED
    BY <2>1, <2>2
<1>8. f = [n \in 0 .. N |-> f[n]]
  BY <1>6
<1>9. IsShare(f, hits, d)
  BY <1>7, <1>8 DEF IsShare, N
<1> DEFINE g == CHOOSE h : IsShare(h, hits, d)
<1>10. IsShare(g, hits, d)
  BY <1>9
<1>11. Share(hits, d) = g[N]
  BY DEF Share, IsShare, N
<1> HIDE DEF g
<1>12. g[0] = 0
  BY <1>1, <1>10 DEF IsShare, N
<1>13. ASSUME NEW n \in 1 .. N, g[n - 1] \in Nat PROVE g[n] \in Nat
  <2>1. n # 0 /\ n \in 0 .. N
    BY <1>1
  <2>2. g[n] = g[n - 1] + part[n]
    BY <1>3, <1>10, <2>1 DEF IsShare, N
  <2> QED
    BY <1>2, <1>13, <2>2
<1>14. \A n \in 0 .. N : g[n] \in Nat
  <2> DEFINE D2 == Nat
  <2>1. N \in Nat /\ g[0] \in D2 /\ \A n \in 1 .. N : g[n - 1] \in D2 => g[n] \in D2
    BY <1>1, <1>12, <1>13
  <2> HIDE DEF D2
  <2>2. \A n \in 0 .. N : g[n] \in D2
    BY <2>1, StepsStayIn
  <2> QED
    BY <2>2 DEF D2
<1> QED
  BY <1>1, <1>11, <1>14

IsFlatten(f, seqs) ==
  f = [i \in 1 .. Len(seqs) |-> IF i = 1 THEN seqs[i] ELSE f[i - 1] \o seqs[i]]

LEMMA FlattenType ==
  ASSUME NEW T, NEW seqs \in Seq(Seq(T))
  PROVE  FlattenSeq(seqs) \in Seq(T)
<1> DEFINE N == Len(seqs)
           D == Seq(T)
<1>1. N \in Nat /\ \A n \in 1 .. N : seqs[n] \in D
  OBVIOUS
<1>2. CASE N = 0
  <2>1. FlattenSeq(seqs) = seqs
    BY <1>2 DEF FlattenSeq
  <2>2. seqs = <<>>
    BY <1>2, EmptySeq
  <2> QED
    BY <2>1, <2>2
<1>3. CASE N # 0
  <2> DEFINE step == [n \in 1 .. N |-> [s \in D |-> IF n = 1 THEN seqs[n] ELSE s \o seqs[n]]]
  <2>1. step \in [1 .. N -> [D -> D]]
    <3>1. \A s, t \in D : s \o t \in D
      OBVIOUS
    <3> HIDE DEF D, N
    <3> QED
      BY <1>1, <3>1
  <2>2. <<>> \in D
    OBVIOUS
  <2>3. \A n \in 1 .. N, s \in D : step[n][s] = IF n = 1 THEN seqs[n] ELSE s \o seqs[n]
    OBVIOUS
  <2> HIDE DEF N, D, step
  <2>4. PICK f \in [0 .. N -> D] : Recurs(f, N, <<>>, step)
    BY <1>1, <2>1, <2>2, RecurrenceExists DEF RecursUpto
  <2> DEFINE e == [i \in 1 .. N |-> f[i]]
  <2>5. ASSUME NEW i \in 1 .. N
        PROVE  e[i] = IF i = 1 THEN seqs[i] ELSE e[i - 1] \o seqs[i]
    <3>1. i - 1 \in 0 .. N /\ (i = 1 \/ i - 1 \in 1 .. N)
      BY <1>1
    <3>2. f[i] = IF i = 1 THEN seqs[i] ELSE f[i - 1] \o seqs[i]
      BY <2>3, <2>4, <3>1 DEF Recurs
    <3> QED
      BY <3>1, <3>2
  <2>6. e = [i \in 1 .. N |-> e[i]]
    OBVIOUS
  <2> HIDE DEF e
  <2>7. IsFlatten(e, seqs)
    BY <2>5, <2>6 DEF IsFlatten, N
  <2> DEFINE g == CHOOSE h : IsFlatten(h, seqs)
  <2>8. IsFlatten(g, seqs)
    BY <2>7
  <2>9. FlattenSeq(seqs) = g[N]
    BY <1>3 DEF FlattenSeq, IsFlatten, N
  <2> HIDE DEF g
  <2>10. ASSUME NEW i \in 1 .. N PROVE g[i] = IF i = 1 THEN seqs[i] ELSE g[i - 1] \o seqs[i]
    BY <2>8 DEF IsFlatten, N
  <2> DEFINE h == [i \in 0 .. N |-> IF i = 0 THEN <<>> ELSE g[i]]
  <2>11. h[0] \in D
    BY <1>1, <2>2
  <2>12. ASSUME NEW i \in 1 .. N, h[i - 1] \in D PROVE h[i] \in D
    <3>1. i \in 0 .. N /\ i # 0 /\ i - 1 \in 0 .. N /\ h[i] = g[i]
      BY <1>1
    <3>2. CASE i = 1
      BY <1>1, <2>10, <3>1, <3>2
    <3>3. CASE i # 1
      <4>1. h[i - 1] = g[i - 1]
        BY <3>1, <3>3
      <4>2. g[i - 1] \in Seq(T) /\ seqs[i] \in Seq(T)
        BY <1>1, <2>12, <4>1 DEF D
      <4>3. g[i - 1] \o seqs[i] \in Seq(T)
        BY <4>2, ConcatProperties
      <4>4. g[i] = g[i - 1] \o seqs[i]
        BY <2>10, <3>3
      <4> QED
        BY <3>1, <4>3, <4>4 DEF D
    <3> QED
      BY <3>2, <3>3
  <2> HIDE DEF h
  <2>13. \A i \in 0 .. N : h[i] \in D
    BY <1>1, <2>11, <2>12, StepsStayIn
  <2> QED
    BY <1>1, <1>3, <2>9, <2>13 DEF D, h
<1> QED
  BY <1>2, <1>3

\* HitsIn in the order of their scores are those hits.
LEMMA ByScoreType ==
  ASSUME NEW D, NEW hits \in Seq(HitsIn(D))
  PROVE  ByScore(hits) \in Seq(HitsIn(D))
<1> DEFINE N == Len(hits)
           placed == {[hit |-> hits[i], at |-> i] : i \in DOMAIN hits}
           Before(a, b) == a.hit.score > b.hit.score \/ (a.hit.score = b.hit.score /\ a.at < b.at)
           R == {p \in placed \X placed : Before(p[1], p[2])}
           order == Ordered(placed, Before)
<1>1. N \in Nat /\ DOMAIN hits = 1 .. N /\ \A i \in 1 .. N : hits[i] \in HitsIn(D)
  OBVIOUS
<1>2. placed \subseteq [hit : HitsIn(D), at : 1 .. N] /\ \A a, b \in placed : a.at = b.at => a = b
  BY <1>1
<1>3. IsFiniteSet(placed)
  <2> DEFINE at == [a \in placed |-> a.at]
  <2>1. at \in Injection(placed, 1 .. N)
    BY <1>2 DEF Injection, IsInjective
  <2>2. IsFiniteSet(1 .. N)
    BY <1>1, FS_Interval
  <2> QED
    BY <2>1, <2>2, FS_Injection
<1> HIDE DEF N
<1>4. \A a \in placed : a.hit.score \in Nat /\ a.at \in Nat /\ a.hit \in HitsIn(D)
  BY <1>1, <1>2 DEF HitsIn
<1> HIDE DEF placed
<1>5. \A a, b \in placed : <<a, b>> \in R <=> Before(a, b)
  OBVIOUS
<1> HIDE DEF R
<1>6. StrictOrder(placed, R)
  <2>1. ASSUME NEW a \in placed, NEW b \in placed, a # b PROVE Before(a, b) \/ Before(b, a)
    BY <1>2, <1>4, <2>1
  <2>2. ASSUME NEW a \in placed PROVE ~Before(a, a)
    BY <1>4
  <2>3. ASSUME NEW a \in placed, NEW b \in placed, NEW c \in placed, Before(a, b), Before(b, c)
        PROVE  Before(a, c)
    BY <1>4, <2>3
  <2> HIDE DEF Before
  <2> QED
    BY <1>5, <2>1, <2>2, <2>3 DEF StrictOrder
<1>7. Cardinality(placed) \in Nat
  BY <1>3, FS_CardinalityType
<1>8. PICK s \in [1 .. Cardinality(placed) -> placed] :
        \A i, j \in DOMAIN s : i < j => Before(s[i], s[j])
  <2>1. PICK s \in [1 .. Cardinality(placed) -> placed] :
          \A i, j \in 1 .. Cardinality(placed) : i < j => <<s[i], s[j]>> \in R
    BY <1>3, <1>6, OrderExists
  <2> HIDE DEF Before
  <2>2. \A i, j \in DOMAIN s : i < j => Before(s[i], s[j])
    BY <1>5, <2>1
  <2> QED
    BY <2>2
<1>9. order \in [1 .. Cardinality(placed) -> placed]
  BY <1>8 DEF Ordered
<1>10. ByScore(hits) = [n \in DOMAIN order |-> order[n].hit]
  BY DEF ByScore, placed
<1> HIDE DEF order
<1>11. ByScore(hits) \in [1 .. Cardinality(placed) -> HitsIn(D)]
  BY <1>4, <1>9, <1>10
<1> QED
  BY <1>7, <1>11

\* The first k hits.
LEMMA TopType ==
  ASSUME NEW T, NEW s \in Seq(T), NEW k \in Nat
  PROVE  Top(s, k) \in Seq(T)
<1> DEFINE n == IF Len(s) < k THEN Len(s) ELSE k
<1>1. n \in Nat /\ n <= Len(s)
  OBVIOUS
<1>2. \A i \in 1 .. n : s[i] \in T
  BY <1>1
<1> HIDE DEF n
<1>3. SubSeq(s, 1, n) \in Seq(T)
  BY <1>1, <1>2, SubSeqProperties
<1> QED
  BY <1>3 DEF Top, n

-----------------------------------------------------------------------------
(* Searches. *)

Allowed(ids, stored) == {d \in stored : Passes(ids, d)}

LEMMA ScaleType == Scale \in Nat
BY DEF Scale

LEMMA VectorSearchType ==
  ASSUME NEW q \in Query, NEW v, NEW ids, NEW stored \in SUBSET Doc
  PROVE  VectorSearch(q, v, ids, stored) \in Seq(HitsIn(Allowed(ids, stored)))
<1> DEFINE found == {d \in stored : VaultOf[d] = v}
           Before(d, e) == \/ Similar[q][d] > Similar[q][e]
                           \/ Similar[q][d] = Similar[q][e] /\ Place[q][d] < Place[q][e]
           ranked == Ordered(found, Before)
           fetched == Top(ranked, IF ids.on THEN Overfetch * TopK ELSE TopK)
           kept == Top(Among(fetched, {d \in stored : Passes(ids, d)}), TopK)
           R == {p \in found \X found : Before(p[1], p[2])}
<1>1. found \in SUBSET Doc /\ found \in SUBSET stored /\ IsFiniteSet(found)
  BY FS_Subset, RetrievalAssumption
<1>2. /\ \A d \in Doc : Similar[q][d] \in Nat /\ Place[q][d] \in Nat
      /\ \A d, e \in Doc : Place[q][d] = Place[q][e] => d = e
  BY RetrievalAssumption, ScaleType DEF IsInjective
<1> HIDE DEF found
<1>3. \A d, e \in found : <<d, e>> \in R <=> Before(d, e)
  OBVIOUS
<1>4. StrictOrder(found, R)
  BY <1>1, <1>2 DEF StrictOrder
<1> HIDE DEF R
<1>5. Cardinality(found) \in Nat
  BY <1>1, FS_CardinalityType
<1>6. \E s \in [1 .. Cardinality(found) -> found] :
        \A i, j \in DOMAIN s : i < j => Before(s[i], s[j])
  <2>1. PICK s \in [1 .. Cardinality(found) -> found] :
          \A i, j \in 1 .. Cardinality(found) : i < j => <<s[i], s[j]>> \in R
    BY <1>1, <1>4, OrderExists
  <2> HIDE DEF Before
  <2>2. \A i, j \in DOMAIN s : i < j => Before(s[i], s[j])
    BY <1>3, <2>1
  <2> QED
    BY <2>2
<1>7. ranked \in [1 .. Cardinality(found) -> found]
  BY <1>6 DEF Ordered
<1>8. ranked \in Seq(stored)
  <2> HIDE DEF ranked
  <2> QED
    BY <1>1, <1>5, <1>7
<1>9. TopK \in Nat /\ Overfetch * TopK \in Nat
  BY RetrievalAssumption DEF Overfetch
<1>10. fetched \in Seq(stored)
  <2> HIDE DEF ranked
  <2> QED
    BY <1>8, <1>9, TopType
<1>11. kept \in Seq(Allowed(ids, stored))
  <2> HIDE DEF fetched
  <2>1. Among(fetched, Allowed(ids, stored)) \in Seq(stored \cap Allowed(ids, stored))
    BY <1>10, AmongType
  <2>2. stored \cap Allowed(ids, stored) = Allowed(ids, stored)
    BY DEF Allowed
  <2> QED
    BY <1>9, <2>1, <2>2, TopType DEF Allowed
<1>12. VectorSearch(q, v, ids, stored) = [i \in DOMAIN kept |-> Hit(kept[i], Similar[q][kept[i]])]
  BY DEF VectorSearch, found
<1>13. Allowed(ids, stored) \subseteq Doc
  BY DEF Allowed
<1> HIDE DEF kept
<1>14. \A i \in 1 .. Len(kept) :
         kept[i] \in Allowed(ids, stored) /\ Hit(kept[i], Similar[q][kept[i]]) \in HitsIn(Allowed(ids, stored))
  BY <1>2, <1>11, <1>13 DEF Hit, HitsIn
<1> QED
  BY <1>11, <1>12, <1>14

LEMMA TextSearchType ==
  ASSUME NEW q \in Query, NEW v, NEW ids, NEW stored \in SUBSET Doc
  PROVE  TextSearch(q, v, ids, stored) \in Seq(HitsIn(Allowed(ids, stored)))
<1> DEFINE inVault == {d \in stored : VaultOf[d] = v}
           found == Top(Among(Mentions[q], inVault), TopK)
           kept == Among(found, {d \in stored : Passes(ids, d)})
<1>1. Mentions[q] \in Seq(Doc) /\ TopK \in Nat
  BY RetrievalAssumption
<1>2. Among(Mentions[q], inVault) \in Seq(Doc \cap inVault)
  BY <1>1, AmongType
<1>3. found \in Seq(Doc \cap inVault)
  BY <1>1, <1>2, TopType
<1>4. kept \in Seq(Allowed(ids, stored))
  <2> HIDE DEF found
  <2>1. Among(found, Allowed(ids, stored)) \in Seq((Doc \cap inVault) \cap Allowed(ids, stored))
    BY <1>3, AmongType
  <2>2. (Doc \cap inVault) \cap Allowed(ids, stored) \subseteq Allowed(ids, stored)
    OBVIOUS
  <2>3. Among(found, Allowed(ids, stored)) \in Seq(Allowed(ids, stored))
    BY <2>1, <2>2, SeqMonotonic
  <2> QED
    BY <2>3 DEF Allowed
<1>5. TextSearch(q, v, ids, stored) = [i \in DOMAIN kept |-> Hit(kept[i], Scale)]
  BY DEF TextSearch
<1> HIDE DEF kept
<1>6. \A i \in 1 .. Len(kept) : Hit(kept[i], Scale) \in HitsIn(Allowed(ids, stored))
  BY <1>4, ScaleType DEF Hit, HitsIn
<1> QED
  BY <1>4, <1>5, <1>6

LEMMA RrfMergeType ==
  ASSUME NEW D, NEW vector \in Seq(HitsIn(D)), NEW text \in Seq(HitsIn(D)), NEW k \in Nat
  PROVE  RrfMerge(vector, text, k) \in Seq(HitsIn(D))
<1> DEFINE new == {h \in Range(text) : h.doc \notin DocsOf(vector)}
           all == vector \o Among(text, new)
           scored == [i \in DOMAIN all |->
                        Hit(all[i].doc, Share(vector, all[i].doc) + Share(text, all[i].doc))]
<1>1. Among(text, new) \in Seq(HitsIn(D) \cap new)
  BY AmongType
<1>2. Among(text, new) \in Seq(HitsIn(D))
  BY <1>1, SeqMonotonic
<1>3. all \in Seq(HitsIn(D))
  BY <1>2, ConcatProperties
<1> HIDE DEF all
<1>4. \A d : Share(vector, d) \in Nat /\ Share(text, d) \in Nat
  BY ShareType
<1>5. \A i \in 1 .. Len(all) :
        Hit(all[i].doc, Share(vector, all[i].doc) + Share(text, all[i].doc)) \in HitsIn(D)
  <2> SUFFICES ASSUME NEW i \in 1 .. Len(all)
               PROVE  Hit(all[i].doc, Share(vector, all[i].doc) + Share(text, all[i].doc)) \in HitsIn(D)
    OBVIOUS
  <2>1. all[i].doc \in D
    <3>1. all[i] \in HitsIn(D)
      BY <1>3, ElementOfSeq
    <3> QED
      BY <3>1 DEF HitsIn
  <2>2. Share(vector, all[i].doc) + Share(text, all[i].doc) \in Nat
    BY <1>4
  <2> QED
    BY <2>1, <2>2 DEF Hit, HitsIn
<1>6. scored \in Seq(HitsIn(D))
  BY <1>3, <1>5
<1> HIDE DEF scored
<1>7. Top(ByScore(scored), k) \in Seq(HitsIn(D))
  BY <1>6, ByScoreType, TopType
<1> QED
  BY <1>7 DEF RrfMerge, scored, all

LEMMA RetrieveType ==
  ASSUME NEW q \in Query, NEW v, NEW ids, NEW stored \in SUBSET Doc, NEW textUp \in BOOLEAN
  PROVE  Retrieve(q, v, ids, stored, textUp) \in Seq(HitsIn(Allowed(ids, stored)))
<1> DEFINE vector == VectorSearch(q, v, ids, stored)
           text == IF textUp THEN TextSearch(q, v, ids, stored) ELSE <<>>
           T == HitsIn(Allowed(ids, stored))
<1>1. vector \in Seq(T) /\ text \in Seq(T) /\ <<>> \in Seq(T)
  BY VectorSearchType, TextSearchType
<1>2. TopK \in Nat
  BY RetrievalAssumption
<1>3. Retrieve(q, v, ids, stored, textUp) =
        IF ids.on /\ ids.docs = {} THEN <<>>
        ELSE IF text = <<>> THEN vector ELSE RrfMerge(vector, text, TopK)
  BY DEF Retrieve
<1> HIDE DEF vector, text
<1>4. RrfMerge(vector, text, TopK) \in Seq(T)
  BY <1>1, <1>2, RrfMergeType
<1> QED
  BY <1>1, <1>3, <1>4

LEMMA RetrieveMultiVaultType ==
  ASSUME NEW q \in Query, NEW ids, NEW stored \in SUBSET Doc, NEW textUp \in BOOLEAN
  PROVE  RetrieveMultiVault(q, Vault, ids, stored, textUp) \in Seq(HitsIn(Allowed(ids, stored)))
<1> DEFINE each == [i \in DOMAIN Vault |-> Retrieve(q, Vault[i], ids, stored, textUp)]
           T == HitsIn(Allowed(ids, stored))
<1>1. DOMAIN Vault = 1 .. Len(Vault) /\ Len(Vault) \in Nat /\ TopK \in Nat
  BY RetrievalAssumption
<1>2. \A i \in 1 .. Len(Vault) : Retrieve(q, Vault[i], ids, stored, textUp) \in Seq(T)
  BY RetrieveType
<1>3. each \in Seq(Seq(T))
  <2> HIDE DEF T
  <2> QED
    BY <1>1, <1>2
<1> HIDE DEF each
<1>4. Top(ByScore(FlattenSeq(each)), TopK) \in Seq(T)
  <2>1. FlattenSeq(each) \in Seq(T)
    BY <1>3, FlattenType
  <2>2. ByScore(FlattenSeq(each)) \in Seq(T)
    BY <2>1, ByScoreType
  <2> QED
    BY <1>1, <2>2, TopType
<1> QED
  BY <1>4 DEF RetrieveMultiVault, each

\* A finite set has a sequence of its elements.
LEMMA SetToSeqType ==
  ASSUME NEW S, IsFiniteSet(S)
  PROVE  SetToSeq(S) \in Seq(S)
<1>1. Cardinality(S) \in Nat /\ ExistsBijection(1 .. Cardinality(S), S)
  BY FS_CardinalityType
<1>2. PICK f \in Bijection(1 .. Cardinality(S), S) : TRUE
  BY <1>1 DEF ExistsBijection
<1>3. f \in [1 .. Cardinality(S) -> S] /\ IsInjective(f)
  BY <1>2 DEF Bijection, Injection
<1>4. SetToSeq(S) \in [1 .. Cardinality(S) -> S]
  BY <1>3 DEF SetToSeq
<1> QED
  BY <1>1, <1>4

\* Whatever is indexed and whatever fails, the hits of a set of queries are documents
\* that are indexed and pass the filter (search_knowledge_service.merge_queries over
\* retrieval.retrieve_multi_vault).
THEOREM HitsPassTheFilter ==
  ASSUME NEW queries \in SUBSET Query, NEW ids, NEW stored \in SUBSET Doc, NEW textUp \in BOOLEAN
  PROVE  MergeQueries(queries, Vault, ids, stored, textUp) \in Seq(HitsIn(Allowed(ids, stored)))
<1> DEFINE hits == UNION {Range(RetrieveMultiVault(q, Vault, ids, stored, textUp)) : q \in queries}
           best == {h \in hits : \A g \in hits : g.doc = h.doc => g.score <= h.score}
           T == HitsIn(Allowed(ids, stored))
<1>1. hits \subseteq T
  <2> SUFFICES ASSUME NEW q \in queries
               PROVE  Range(RetrieveMultiVault(q, Vault, ids, stored, textUp)) \subseteq T
    OBVIOUS
  <2>1. RetrieveMultiVault(q, Vault, ids, stored, textUp) \in Seq(T)
    BY RetrieveMultiVaultType
  <2> QED
    BY <2>1 DEF Range
<1>2. best \subseteq T /\ \A g, h \in best : g.doc = h.doc => g.score <= h.score
  BY <1>1
<1> HIDE DEF best
<1>3. IsFiniteSet(best)
  <2> DEFINE doc == [h \in best |-> h.doc]
  <2>1. \A h \in best : h = [doc |-> h.doc, score |-> h.score] /\ h.score \in Nat /\ h.doc \in Doc
    BY <1>2 DEF HitsIn, Allowed
  <2>2. \A g, h \in best : g.doc = h.doc => g.score = h.score
    BY <1>2, <2>1
  <2>3. doc \in Injection(best, Doc)
    BY <2>1, <2>2 DEF Injection, IsInjective
  <2> QED
    BY <2>3, FS_Injection, RetrievalAssumption
<1>4. SetToSeq(best) \in Seq(T)
  <2>1. SetToSeq(best) \in Seq(best)
    BY <1>3, SetToSeqType
  <2> QED
    BY <1>2, <2>1, SeqMonotonic
<1>5. ByScore(SetToSeq(best)) \in Seq(T)
  BY <1>4, ByScoreType
<1> QED
  BY <1>5 DEF MergeQueries, best

LEMMA NoTokens == Tokens(<<>>) = 0
<1>1. DOMAIN <<>> = {}
  OBVIOUS
<1> QED
  BY <1>1 DEF Tokens, FoldSeq, FoldFunction, FoldFunctionOnSet, MapThenFoldSet

\* A cut is a part of the hits.
LEMMA TruncateType ==
  ASSUME NEW T, NEW hits \in Seq(T), NEW budget \in Nat
  PROVE  TruncateToBudget(hits, budget) \in Seq(T)
<1> DEFINE N == Len(hits)
           fits == {n \in 0 .. N : n = 1 \/ Tokens(SubSeq(hits, 1, n)) <= budget}
           kept == CHOOSE n \in fits : \A m \in fits : m <= n
<1>1. N \in Nat /\ \A i \in 1 .. N : hits[i] \in T
  OBVIOUS
<1>2. fits # {}
  <2>1. CASE N = 0
    <3>1. hits = <<>> /\ SubSeq(hits, 1, 0) = <<>>
      BY <2>1, EmptySeq
    <3>2. Tokens(SubSeq(hits, 1, 0)) = 0
      BY <3>1, NoTokens
    <3>3. Tokens(SubSeq(hits, 1, 0)) <= budget
      BY <3>2
    <3>4. 0 \in fits
      BY <1>1, <3>3
    <3> QED
      BY <3>4
  <2>2. CASE N # 0
    <3>1. 1 \in fits
      BY <1>1, <2>2
    <3> QED
      BY <3>1
  <2> QED
    BY <2>1, <2>2
<1>3. fits \subseteq 0 .. N
  OBVIOUS
<1> HIDE DEF fits, N
<1>4. \E n \in fits : \A m \in fits : m <= n
  <2> DEFINE left == {N - n : n \in fits}
  <2>1. left \in SUBSET Nat /\ left # {}
    <3>1. \A m \in fits : N - m \in Nat
      BY <1>1, <1>3
    <3> QED
      BY <1>2, <3>1
  <2>2. PICK l \in left : \A m \in left : l <= m
    BY <2>1, LeastNumber
  <2>3. PICK n \in fits : l = N - n
    BY <2>2
  <2>4. \A m \in fits : N - n <= N - m
    BY <2>2, <2>3
  <2>5. \A m \in fits : m <= n
    BY <1>1, <1>3, <2>4
  <2> QED
    BY <2>5
<1>5. kept \in 0 .. N
  BY <1>3, <1>4
<1> HIDE DEF kept
<1>6. SubSeq(hits, 1, kept) \in Seq(T)
  <2>1. kept \in Int /\ \A i \in 1 .. kept : hits[i] \in T
    BY <1>1, <1>5
  <2> QED
    BY <2>1, SubSeqProperties
<1> QED
  BY <1>6 DEF TruncateToBudget, fits, kept, N

\* The documents of hits.
LEMMA DocsOfHits ==
  ASSUME NEW D, NEW hits \in Seq(HitsIn(D))
  PROVE  DocsOf(hits) \subseteq D
<1>1. \A i \in DOMAIN hits : hits[i] \in HitsIn(D)
  BY ElementOfSeq
<1> QED
  BY <1>1 DEF DocsOf, HitsIn
=============================================================================
