-------------------------- MODULE RouteLoopProofs --------------------------
(***************************************************************************)
(* Proofs about the routing decision: for every situation, with any number *)
(* of endpoints, the two passes over the buckets and the affinity move     *)
(* give the one order RoutePlan states, and what that order promises of    *)
(* last resorts.                                                           *)
(***************************************************************************)
EXTENDS RouteLoop, FoldFacts, SequenceTheorems

-----------------------------------------------------------------------------
(* One bucket in order                                                     *)

(* "order:" and place in the list order the endpoints of a situation.      *)
LEMMA BeforeOrders ==
    ASSUME NEW s \in Situations
    PROVE  /\ \A a \in s.usable : ~Before(s, a, a)
           /\ \A a, b \in s.usable : a # b => Before(s, a, b) \/ Before(s, b, a)
           /\ \A a, b, c \in s.usable : Before(s, a, b) /\ Before(s, b, c) => Before(s, a, c)
<1>1. /\ \A e \in s.usable : s.order[e] \in Int /\ s.pos[e] \in Nat
      /\ \A a, b \in s.usable : s.pos[a] = s.pos[b] => a = b
  BY SituationsAssumption
<1> QED
  BY <1>1 DEF Before

(* A bucket's list holds its endpoints, each once, and in that order.      *)
LEMMA ListedIsRight ==
    ASSUME NEW s \in Situations, NEW S \in SUBSET s.usable
    PROVE  LET L == Listed(S, s)
           IN  /\ L \in Seq(S) /\ DOMAIN L = 1..Len(L)
               /\ ToSet(L) = S
               /\ \A k, l \in DOMAIN L : k < l => Before(s, L[k], L[l])
<1> DEFINE n == Cardinality(S)
           before(e) == {a \in S : Before(s, a, e)}
           p == [e \in S |-> Cardinality(before(e)) + 1]
           at(k) == CHOOSE e \in S : Cardinality(before(e)) = k - 1
           L == Listed(S, s)
<1>1. IsFiniteSet(S) /\ n \in Nat
  <2>1. IsFiniteSet(s.usable)
    BY SituationsAssumption
  <2> QED
    BY <2>1, FS_Subset, FS_CardinalityType
<1>2. /\ \A a \in S : ~Before(s, a, a)
      /\ \A a, b \in S : a # b => Before(s, a, b) \/ Before(s, b, a)
      /\ \A a, b, c \in S : Before(s, a, b) /\ Before(s, b, c) => Before(s, a, c)
  BY BeforeOrders
<1>3. ASSUME NEW e \in S
      PROVE  IsFiniteSet(before(e)) /\ Cardinality(before(e)) \in Nat /\ p[e] \in 1..n
  <2> DEFINE B == before(e)
  <2>1. B \in SUBSET S /\ e \notin B
    BY <1>2
  <2> HIDE DEF B
  <2>2. IsFiniteSet(B) /\ Cardinality(B) \in Nat /\ Cardinality(B) <= n /\ (n = Cardinality(B) => S = B)
    BY <1>1, <2>1, FS_Subset, FS_CardinalityType
  <2>3. Cardinality(B) + 1 \in 1..n
    BY <1>1, <2>1, <2>2
  <2> QED
    BY <2>2, <2>3 DEF B
<1>4. ASSUME NEW a \in S, NEW b \in S, Before(s, a, b) PROVE p[a] < p[b]
  <2> DEFINE B == before(a)
             C == before(b)
  <2>1. B \in SUBSET C /\ a \notin B /\ a \in C
    BY <1>2, <1>4
  <2>2. IsFiniteSet(C) /\ Cardinality(B) \in Nat /\ Cardinality(C) \in Nat
    BY <1>3
  <2>3. p[a] = Cardinality(B) + 1 /\ p[b] = Cardinality(C) + 1
    OBVIOUS
  <2> HIDE DEF B, C, p
  <2>4. Cardinality(B) <= Cardinality(C) /\ (Cardinality(C) = Cardinality(B) => C = B)
    BY <2>1, <2>2, FS_Subset
  <2> QED
    BY <2>1, <2>2, <2>3, <2>4
<1>5. \A a, b \in S : p[a] = p[b] => a = b
  <2> SUFFICES ASSUME NEW a \in S, NEW b \in S, p[a] = p[b], a # b PROVE FALSE
    OBVIOUS
  <2>1. p[a] < p[b] \/ p[b] < p[a]
    <3> HIDE DEF p
    <3> QED
      BY <1>2, <1>4
  <2>2. p[a] \in 1..n
    BY <1>3
  <2> HIDE DEF p
  <2> QED
    BY <1>1, <2>1, <2>2
<1>6. ASSUME NEW k \in 1..n PROVE \E e \in S : p[e] = k
  <2>1. p \in [S -> 1..n]
    BY <1>3
  <2> HIDE DEF p
  <2>2. p \in Injection(S, 1..n)
    BY <1>5, <2>1 DEF Injection, IsInjective
  <2>3. IsFiniteSet(1..n) /\ Cardinality(1..n) = n
    BY <1>1, FS_Interval
  <2>4. p \in Surjection(S, 1..n)
    BY <1>1, <2>2, <2>3, FS_Injection
  <2> QED
    BY <2>4 DEF Surjection
<1>7. ASSUME NEW k \in 1..n PROVE at(k) \in S /\ p[at(k)] = k
  <2>1. PICK e \in S : p[e] = k
    BY <1>6
  <2>2. Cardinality(before(e)) = k - 1
    <3>1. Cardinality(before(e)) \in Nat /\ Cardinality(before(e)) + 1 = k
      BY <1>3, <2>1
    <3> QED
      BY <3>1
  <2>3. at(k) \in S /\ Cardinality(before(at(k))) = k - 1
    BY <2>2
  <2> QED
    BY <2>3
<1>8. L = [k \in 1..n |-> at(k)]
  BY DEF Listed
<1>9. \A k \in 1..n : L[k] = at(k)
  BY <1>8
<1> HIDE DEF at, p, L
<1>10. L \in Seq(S) /\ Len(L) = n /\ DOMAIN L = 1..n
  <2>1. L \in [1..n -> S]
    BY <1>7, <1>8
  <2> QED
    BY <1>1, <2>1
<1>11. ToSet(L) = S
  <2>1. ASSUME NEW e \in S PROVE e \in ToSet(L)
    <3>1. p[e] \in 1..n
      BY <1>3 DEF p
    <3>2. at(p[e]) = e
      BY <1>5, <1>7, <3>1
    <3> QED
      BY <1>9, <1>10, <3>1, <3>2 DEF ToSet
  <2> QED
    BY <1>7, <1>9, <1>10, <2>1 DEF ToSet
<1>12. ASSUME NEW k \in 1..n, NEW l \in 1..n, k < l PROVE Before(s, L[k], L[l])
  <2>1. L[k] \in S /\ L[l] \in S /\ p[L[k]] = k /\ p[L[l]] = l
    BY <1>7, <1>9
  <2>2. ~Before(s, L[l], L[k]) /\ L[k] # L[l]
    BY <1>4, <1>12, <2>1
  <2> QED
    BY <1>2, <2>1, <2>2
<1> QED
  BY <1>10, <1>11, <1>12 DEF L

-----------------------------------------------------------------------------
(* The two passes                                                          *)

Rounds(s) ==
    LET pass(n) == [i \in DOMAIN Buckets(s) |-> BucketAccounts(Buckets(s)[i], n, s)]
    IN  pass(0) \o pass(1)

(* What FoldLeft makes of any such rounds; TwoPasses(s) of Rounds(s).      *)
AddAll(q, s) == FoldLeft(LAMBDA list, found : AddOnce(list, found, s), <<>>, q)

(* The list grows round by round by what it does not hold yet.             *)
LEMMA AddedRoundByRound ==
    ASSUME NEW s \in Situations, NEW q \in Seq(SUBSET s.usable)
    PROVE  \E h \in [0..Len(q) -> Seq(s.usable)] :
              /\ h[0] = <<>>
              /\ \A k \in 1..Len(q) : h[k] = AddOnce(h[k-1], q[k], s)
              /\ AddAll(q, s) = h[Len(q)]
<1> DEFINE n == Len(q)
           D == 1..n
           V == Seq(s.usable)
           F == [x \in D \X V |-> AddOnce(x[2], q[x[1]], s)]
           c == [t \in SUBSET D |-> Max(t)]
           Solves(g) == g = [t \in SUBSET D |->
                                IF t = {} THEN <<>> ELSE AddOnce(g[t \ {Max(t)}], q[Max(t)], s)]
           g == CHOOSE g : Solves(g)
           h == [k \in 0..n |-> g[1..k]]
<1>1. n \in Nat /\ IsFiniteSet(D) /\ DOMAIN q = D /\ \A k \in D : q[k] \in SUBSET s.usable
  <2>1. n \in Nat /\ D = DOMAIN q /\ \A k \in D : q[k] \in SUBSET s.usable
    OBVIOUS
  <2>2. IsFiniteSet(1..n)
    BY <2>1, FS_Interval
  <2> QED
    BY <2>1, <2>2
<1>2. ASSUME NEW list \in V, NEW k \in D PROVE AddOnce(list, q[k], s) \in V
  <2>1. q[k] \ ToSet(list) \in SUBSET s.usable
    BY <1>1
  <2>2. Listed(q[k] \ ToSet(list), s) \in Seq(q[k] \ ToSet(list))
    BY <2>1, ListedIsRight
  <2>3. Listed(q[k] \ ToSet(list), s) \in V
    BY <2>1, <2>2
  <2> QED
    BY <2>3 DEF AddOnce
<1>3. \A t \in SUBSET D : t # {} => Max(t) \in t /\ c[t] = Max(t)
  BY <1>1, LastPlace
<1>4. PICK g0 : Folds(g0, F, c, <<>>, D)
  <2> HIDE DEF F, c, D
  <2> QED
    BY <1>1, <1>3, FoldExists
<1>5. g0 \in [SUBSET D -> V]
  <2>1. F \in [D \X V -> V]
    BY <1>2
  <2>2. <<>> \in V
    OBVIOUS
  <2>3. \A t \in SUBSET D : t # {} => c[t] \in t
    BY <1>3
  <2> DEFINE base == <<>>
  <2> HIDE DEF F, c, D, V, base
  <2>4. base \in V /\ Folds(g0, F, c, base, D)
    BY <1>4, <2>2 DEF base
  <2> QED
    BY <1>1, <2>1, <2>3, <2>4, FoldStays
<1>6. Solves(g0)
  <2>1. ASSUME NEW t \in SUBSET D, t # {}
        PROVE  F[<<c[t], g0[t \ {c[t]}]>>] = AddOnce(g0[t \ {Max(t)}], q[Max(t)], s)
    <3>1. Max(t) \in D /\ g0[t \ {Max(t)}] \in V
      BY <1>3, <1>5, <2>1
    <3>2. <<Max(t), g0[t \ {Max(t)}]>> \in D \X V
      BY <3>1
    <3> QED
      BY <1>3, <2>1, <3>2
  <2>2. ASSUME NEW t \in SUBSET D
        PROVE  g0[t] = IF t = {} THEN <<>> ELSE AddOnce(g0[t \ {Max(t)}], q[Max(t)], s)
    <3> HIDE DEF F, c, D, V
    <3> QED
      BY <1>4, <2>1 DEF Folds
  <2>3. g0 = [t \in SUBSET D |-> g0[t]]
    BY <1>5
  <2> HIDE DEF D, V
  <2> QED
    BY <2>2, <2>3
<1>7. Solves(g)
  <2> HIDE DEF Solves
  <2> QED
    BY <1>6
<1>8. AddAll(q, s) = g[D]
  BY <1>1 DEF AddAll, FoldLeft, MapThenFoldSet
<1>9. \A t \in SUBSET D : g[t] = IF t = {} THEN <<>>
                                 ELSE AddOnce(g[t \ {Max(t)}], q[Max(t)], s)
  <2> HIDE DEF g, D
  <2> QED
    BY <1>7
<1> HIDE DEF g
<1>10. h[0] = <<>>
  <2>1. 1..0 = {} /\ {} \in SUBSET D /\ 0 \in 0..n
    BY <1>1
  <2> QED
    BY <1>9, <2>1
<1>11. ASSUME NEW k \in D PROVE h[k] = AddOnce(h[k-1], q[k], s)
  <2>1. k \in 0..n /\ k - 1 \in 0..n /\ 1..k \in SUBSET D /\ 1..k # {}
    BY <1>1
  <2>2. Max(1..k) = k /\ (1..k) \ {k} = 1..(k-1)
    BY <1>1, LastPlace
  <2>3. g[1..k] = AddOnce(g[1..(k-1)], q[k], s)
    BY <1>9, <2>1, <2>2
  <2> QED
    BY <2>1, <2>3
<1>12. h \in [0..n -> V]
  <2> DEFINE Good == {k \in 0..n : h[k] \in V}
  <2>1. 0 \in Good
    <3>1. 0 \in 0..n /\ <<>> \in V
      BY <1>1
    <3> HIDE DEF h, V
    <3> QED
      BY <1>10, <3>1
  <2>2. ASSUME NEW k \in 1..n, k - 1 \in Good PROVE k \in Good
    <3> HIDE DEF h, V
    <3> QED
      BY <1>1, <1>2, <1>11, <2>2
  <2>3. \A k \in 0..n : k \in Good
    <3> HIDE DEF Good
    <3> QED
      BY <1>1, <2>1, <2>2, InductionUpTo
  <2> QED
    BY <2>3
<1>13. AddAll(q, s) = h[n]
  BY <1>1, <1>8
<1> HIDE DEF h
<1> WITNESS h \in [0..n -> V]
<1> QED
  BY <1>10, <1>11, <1>13

(* One sequence after another.                                             *)
LEMMA Joined ==
    ASSUME NEW U, NEW a \in Seq(U), NEW b \in Seq(U)
    PROVE  /\ Len(a) \in Nat /\ Len(b) \in Nat /\ DOMAIN a = 1..Len(a)
           /\ a \o b \in Seq(U) /\ Len(a \o b) = Len(a) + Len(b)
           /\ DOMAIN (a \o b) = 1..(Len(a) + Len(b))
           /\ \A i \in DOMAIN (a \o b) :
                 (a \o b)[i] = IF i <= Len(a) THEN a[i] ELSE b[i - Len(a)]
           /\ \A i \in DOMAIN (a \o b) : i > Len(a) => i - Len(a) \in DOMAIN b
OBVIOUS

(* a is met in a round before b is, or in the same one and listed first.   *)
MetBefore(s, q, a, b) ==
    \E r \in DOMAIN q :
        /\ a \in q[r]
        /\ \A l \in 1..(r-1) : a \notin q[l] /\ b \notin q[l]
        /\ b \in q[r] => Before(s, a, b)

(* The rounds together list what any of them holds, each once, in the      *)
(* order it is met.                                                        *)
LEMMA AddedAsMet ==
    ASSUME NEW s \in Situations, NEW q \in Seq(SUBSET s.usable)
    PROVE  LET L == AddAll(q, s)
           IN  /\ L \in Seq(s.usable) /\ DOMAIN L = 1..Len(L)
               /\ ToSet(L) = UNION {q[k] : k \in DOMAIN q}
               /\ \A i, j \in DOMAIN L : i < j => MetBefore(s, q, L[i], L[j])
<1> DEFINE n == Len(q)
           V == Seq(s.usable)
           All(k) == UNION {q[l] : l \in 1..k}
<1>1. n \in Nat /\ DOMAIN q = 1..n /\ \A k \in 1..n : q[k] \in SUBSET s.usable
  OBVIOUS
<1>2. PICK h \in [0..n -> V] :
         /\ h[0] = <<>>
         /\ \A k \in 1..n : h[k] = AddOnce(h[k-1], q[k], s)
         /\ AddAll(q, s) = h[n]
  BY AddedRoundByRound
<1> DEFINE Right(k) == /\ ToSet(h[k]) = All(k)
                       /\ \A i, j \in DOMAIN h[k] :
                             i < j => MetBefore(s, q, h[k][i], h[k][j])
           Good == {k \in 0..n : Right(k)}
<1>3. 0 \in Good
  <2>1. All(0) = {} /\ DOMAIN h[0] = {} /\ ToSet(h[0]) = {}
    BY <1>2 DEF ToSet
  <2>2. 0 \in 0..n
    BY <1>1
  <2> HIDE DEF All
  <2> QED
    BY <2>1, <2>2
<1>4. ASSUME NEW k \in 1..n, k - 1 \in Good PROVE k \in Good
  <2> DEFINE a == h[k-1]
             D == q[k] \ ToSet(a)
             b == Listed(D, s)
             c == a \o b
  <2>1. h[k] = c
    BY <1>2 DEF AddOnce
  <2>2. k - 1 \in 0..n /\ k \in 0..n /\ k \in Int /\ a \in V
    BY <1>1, <1>2
  <2>3. /\ ToSet(a) = All(k-1)
        /\ \A i, j \in DOMAIN a : i < j => MetBefore(s, q, a[i], a[j])
    BY <1>4
  <2>4. /\ b \in Seq(D) /\ DOMAIN b = 1..Len(b) /\ ToSet(b) = D
        /\ \A i, j \in DOMAIN b : i < j => Before(s, b[i], b[j])
    <3>1. D \in SUBSET s.usable
      BY <1>1
    <3> QED
      BY <3>1, ListedIsRight
  <2>5. /\ Len(a) \in Nat /\ Len(b) \in Nat /\ DOMAIN a = 1..Len(a)
        /\ DOMAIN c = 1..(Len(a) + Len(b))
        /\ \A i \in DOMAIN c : c[i] = IF i <= Len(a) THEN a[i] ELSE b[i - Len(a)]
        /\ \A i \in DOMAIN c : i > Len(a) => i - Len(a) \in DOMAIN b
    <3>1. D \subseteq s.usable
      BY <1>1
    <3> HIDE DEF a, b, D
    <3>2. b \in V
      BY <2>4, <3>1
    <3> QED
      BY <2>2, <3>2, Joined
  <2> HIDE DEF a, b, c, V
  <2>6. ToSet(c) = All(k)
    <3>1. ToSet(c) = ToSet(a) \cup ToSet(b)
      <4>1. \A i \in DOMAIN a : i \in DOMAIN c /\ c[i] = a[i]
        BY <2>5
      <4>2. \A i \in DOMAIN b : i + Len(a) \in DOMAIN c /\ c[i + Len(a)] = b[i]
        BY <2>4, <2>5
      <4>3. \A i \in DOMAIN c : \/ i \in DOMAIN a /\ c[i] = a[i]
                                \/ i - Len(a) \in DOMAIN b /\ c[i] = b[i - Len(a)]
        BY <2>5
      <4> QED
        BY <4>1, <4>2, <4>3 DEF ToSet
    <3>2. All(k) = All(k-1) \cup q[k]
      <4>1. \A l \in Int : l \in 1..k <=> l \in 1..(k-1) \/ l = k
        BY <2>2
      <4>2. 1..k \subseteq Int /\ 1..(k-1) \subseteq Int
        OBVIOUS
      <4> QED
        BY <2>2, <4>1, <4>2
    <3> HIDE DEF All
    <3> QED
      BY <2>3, <2>4, <3>1, <3>2
  <2>7. ASSUME NEW i \in DOMAIN c, NEW j \in DOMAIN c, i < j
        PROVE  MetBefore(s, q, c[i], c[j])
    <3>1. CASE j <= Len(a)
      BY <2>3, <2>5, <2>7, <3>1
    <3>2. CASE i <= Len(a) /\ ~(j <= Len(a))
      <4>1. c[i] \in ToSet(a) /\ c[j] \in q[k] /\ c[j] \notin ToSet(a)
        BY <2>4, <2>5, <3>2 DEF ToSet
      <4> DEFINE x == c[i]
                 y == c[j]
                 R == {r \in 1..(k-1) : x \in q[r]}
      <4>2. R \in SUBSET Nat /\ R # {}
        BY <2>3, <4>1
      <4>3. PICK r \in R : \A l \in R : r <= l
        <5> HIDE DEF R
        <5> QED
          BY <4>2, LeastMember
      <4>4. r \in DOMAIN q /\ x \in q[r] /\ r \in 1..(k-1)
        BY <1>1
      <4>5. \A l \in 1..(r-1) : l \in 1..(k-1) /\ ~(r <= l)
        BY <4>4
      <4>6. \A l \in 1..(k-1) : y \notin q[l]
        BY <2>3, <4>1
      <4> HIDE DEF x, y
      <4>7. MetBefore(s, q, x, y)
        BY <4>3, <4>4, <4>5, <4>6 DEF MetBefore
      <4> QED
        BY <4>7 DEF x, y
    <3>3. CASE ~(i <= Len(a))
      <4> DEFINE x == c[i]
                 y == c[j]
      <4>1. /\ i - Len(a) \in DOMAIN b /\ j - Len(a) \in DOMAIN b
            /\ i - Len(a) < j - Len(a)
            /\ x = b[i - Len(a)] /\ y = b[j - Len(a)]
        BY <2>5, <2>7, <3>3
      <4>2. Before(s, x, y)
        BY <2>4, <4>1
      <4>3. x \in D /\ y \in D
        BY <2>4, <4>1 DEF ToSet
      <4>4. \A l \in 1..(k-1) : x \notin q[l] /\ y \notin q[l]
        BY <2>3, <4>3
      <4> HIDE DEF x, y
      <4>5. MetBefore(s, q, x, y)
        BY <1>1, <4>2, <4>3, <4>4 DEF MetBefore
      <4> QED
        BY <4>5 DEF x, y
    <3> QED
      BY <2>5, <3>1, <3>2, <3>3
  <2> HIDE DEF All
  <2> QED
    BY <2>1, <2>2, <2>6, <2>7
<1>5. n \in Good
  <2>1. \A k \in 0..n : k \in Good
    <3> HIDE DEF Good
    <3> QED
      BY <1>1, <1>3, <1>4, InductionUpTo
  <2> QED
    BY <1>1, <2>1
<1>6. AddAll(q, s) = h[n] /\ h[n] \in V
  BY <1>1, <1>2
<1>7. All(n) = UNION {q[k] : k \in DOMAIN q}
  BY <1>1
<1> HIDE DEF All
<1> QED
  BY <1>5, <1>6, <1>7

-----------------------------------------------------------------------------
(* The rounds and the standing of a candidate                              *)

(* The buckets are two or three, and BucketIndex is the first that holds   *)
(* the endpoint.                                                           *)
LEMMA FirstBucket ==
    ASSUME NEW s \in Situations
    PROVE  LET B == Buckets(s)
           IN  /\ Len(B) \in {2, 3} /\ DOMAIN B = 1..Len(B)
               /\ \A e : Bucketed(s, e) =>
                    /\ BucketIndex(s, e) \in DOMAIN B
                    /\ BucketHolds(B[BucketIndex(s, e)], s, e)
                    /\ \A l \in 1..(BucketIndex(s, e) - 1) : ~BucketHolds(B[l], s, e)
<1> DEFINE B == Buckets(s)
<1>1. B \in {<<"plans", "cash">>, <<"cash", "plans">>, <<"plans-surplus", "cash", "plans-tight">>}
  BY DEF Buckets
<1> HIDE DEF B
<1>2. Len(B) \in {2, 3} /\ DOMAIN B = 1..Len(B)
  <2>1. CASE B = <<"plans", "cash">>
    BY <2>1
  <2>2. CASE B = <<"cash", "plans">>
    BY <2>2
  <2>3. CASE B = <<"plans-surplus", "cash", "plans-tight">>
    BY <2>3
  <2> QED
    BY <1>1, <2>1, <2>2, <2>3
<1>3. ASSUME NEW e, \E i \in DOMAIN B : BucketHolds(B[i], s, e)
      PROVE  LET x == IF BucketHolds(B[1], s, e) THEN 1
                      ELSE IF BucketHolds(B[2], s, e) THEN 2 ELSE 3
             IN  /\ x \in DOMAIN B /\ BucketHolds(B[x], s, e)
                 /\ \A l \in 1..(x - 1) : ~BucketHolds(B[l], s, e)
  <2>1. PICK i \in DOMAIN B : BucketHolds(B[i], s, e)
    BY <1>3
  <2>2. DOMAIN B \in {1..2, 1..3}
    BY <1>2
  <2>3. i \in {1, 2, 3} /\ 1 \in DOMAIN B /\ 2 \in DOMAIN B
    BY <2>2
  <2>4. CASE BucketHolds(B[1], s, e)
    BY <2>3, <2>4
  <2>5. CASE ~BucketHolds(B[1], s, e) /\ BucketHolds(B[2], s, e)
    BY <2>3, <2>5
  <2>6. CASE ~BucketHolds(B[1], s, e) /\ ~BucketHolds(B[2], s, e)
    <3>1. i = 3
      BY <2>1, <2>3, <2>6
    <3>2. \A l \in 1..(3-1) : l = 1 \/ l = 2
      OBVIOUS
    <3> QED
      BY <2>1, <2>6, <3>1, <3>2
  <2> QED
    BY <2>4, <2>5, <2>6
<1> QED
  BY <1>2, <1>3 DEF B, Bucketed, BucketIndex

(* What each round holds.                                                  *)
LEMMA RoundsHold ==
    ASSUME NEW s \in Situations
    PROVE  LET B == Buckets(s)
               n == Len(B)
               q == Rounds(s)
           IN  /\ q \in Seq(SUBSET s.usable) /\ n \in Nat /\ DOMAIN q = 1..(n + n)
               /\ \A r \in 1..n : q[r] = BucketAccounts(B[r], 0, s)
               /\ \A r \in 1..n : q[n + r] = BucketAccounts(B[r], 1, s)
<1> DEFINE B == Buckets(s)
           n == Len(B)
           pass(m) == [i \in DOMAIN B |-> BucketAccounts(B[i], m, s)]
           U == SUBSET s.usable
<1>1. n \in Nat /\ DOMAIN B = 1..n
  BY FirstBucket
<1>2. \A m : pass(m) \in Seq(U) /\ Len(pass(m)) = n
  <2> TAKE m
  <2>1. \A i \in DOMAIN B : BucketAccounts(B[i], m, s) \in U
    BY DEF BucketAccounts
  <2> HIDE DEF U, n, B
  <2> QED
    BY <1>1, <2>1
<1>3. \A m : \A r \in 1..n : pass(m)[r] = BucketAccounts(B[r], m, s)
  BY <1>1
<1>4. Rounds(s) = pass(0) \o pass(1)
  BY DEF Rounds
<1> DEFINE x == pass(0)
           y == pass(1)
<1>5. x \in Seq(U) /\ Len(x) = n /\ y \in Seq(U) /\ Len(y) = n
  BY <1>2
<1> HIDE DEF pass, U, n, B
<1>6. \A r \in 1..n : x[r] = BucketAccounts(B[r], 0, s) /\ y[r] = BucketAccounts(B[r], 1, s)
  BY <1>3
<1>7. Rounds(s) = x \o y
  BY <1>4
<1> HIDE DEF x, y
<1>8. /\ x \o y \in Seq(U) /\ Len(x \o y) = n + n /\ DOMAIN (x \o y) = 1..(n + n)
      /\ \A r \in 1..n : (x \o y)[r] = x[r] /\ (x \o y)[n + r] = y[r]
  BY <1>1, <1>5
<1> QED
  BY <1>1, <1>6, <1>7, <1>8 DEF U, n, B

(* Standing, place by place.                                               *)
LEMMA StandingIs ==
    ASSUME NEW s \in Situations, NEW e \in s.usable
    PROVE  LET S == Standing(s, e)
           IN  /\ S[1] = IF Promoted(s, e) THEN 0 ELSE 1
               /\ S[2] = IF Kept(0, s, e) THEN 0 ELSE 1
               /\ S[3] = BucketIndex(s, e) /\ S[4] = s.order[e] /\ S[5] = s.pos[e]
               /\ \A i \in 1..5 : S[i] \in Int
<1> DEFINE S == Standing(s, e)
<1>1. /\ S[1] = IF Promoted(s, e) THEN 0 ELSE 1
      /\ S[2] = IF Kept(0, s, e) THEN 0 ELSE 1
      /\ S[3] = BucketIndex(s, e) /\ S[4] = s.order[e] /\ S[5] = s.pos[e]
  BY DEF Standing
<1>2. BucketIndex(s, e) \in Int
  BY DEF BucketIndex
<1>3. s.order[e] \in Int /\ s.pos[e] \in Nat
  BY SituationsAssumption
<1> HIDE DEF S
<1>4. S[1] \in Int /\ S[2] \in Int /\ S[3] \in Int /\ S[4] \in Int /\ S[5] \in Int
  BY <1>1, <1>2, <1>3
<1>5. ASSUME NEW i \in 1..5 PROVE S[i] \in Int
  <2>1. i = 1 \/ i = 2 \/ i = 3 \/ i = 4 \/ i = 5
    OBVIOUS
  <2> QED
    BY <1>4, <2>1
<1> QED
  BY <1>1, <1>5 DEF S

(* Of two candidates neither or one precedes the other.                    *)
LEMMA PrecedesIsStrict ==
    ASSUME NEW s \in Situations, NEW a \in s.usable, NEW b \in s.usable, Precedes(s, a, b)
    PROVE  a # b /\ ~Precedes(s, b, a)
<1> DEFINE A == Standing(s, a)
           B == Standing(s, b)
<1>1. \A i \in 1..5 : A[i] \in Int /\ B[i] \in Int
  BY StandingIs
<1>2. PICK i \in 1..5 : A[i] < B[i] /\ \A j \in 1..(i-1) : A[j] = B[j]
  BY DEF Precedes
<1>3. a # b
  BY <1>1, <1>2
<1>4. ASSUME NEW k \in 1..5, B[k] < A[k], \A j \in 1..(k-1) : B[j] = A[j] PROVE FALSE
  <2> HIDE DEF A, B
  <2>1. i < k => i \in 1..(k-1)
    OBVIOUS
  <2>2. k < i => k \in 1..(i-1)
    OBVIOUS
  <2>3. i < k \/ k < i \/ i = k
    OBVIOUS
  <2> QED
    BY <1>1, <1>2, <1>4, <2>1, <2>2, <2>3
<1> QED
  BY <1>3, <1>4 DEF Precedes

(* The rounds hold the candidates.                                         *)
LEMMA RoundsHoldAll ==
    ASSUME NEW s \in Situations
    PROVE  UNION {Rounds(s)[r] : r \in DOMAIN Rounds(s)} = Candidates(s)
<1> DEFINE B == Buckets(s)
           n == Len(B)
           q == Rounds(s)
<1>1. /\ n \in Nat /\ DOMAIN q = 1..(n + n) /\ DOMAIN B = 1..n
      /\ \A r \in 1..n : q[r] = BucketAccounts(B[r], 0, s)
      /\ \A r \in 1..n : q[n + r] = BucketAccounts(B[r], 1, s)
  BY FirstBucket, RoundsHold
<1> HIDE DEF B, n, q
<1>2. ASSUME NEW e, NEW r \in DOMAIN q, e \in q[r] PROVE e \in Candidates(s)
  <2>1. CASE r <= n
    <3>1. r \in 1..n
      BY <1>1, <2>1
    <3>2. e \in BucketAccounts(B[r], 0, s) /\ r \in DOMAIN B
      BY <1>1, <1>2, <3>1
    <3> QED
      BY <3>2 DEF BucketAccounts, Candidates, Bucketed, B
  <2>2. CASE ~(r <= n)
    <3> DEFINE m == r - n
    <3>1. m \in 1..n /\ r = n + m
      BY <1>1, <2>2
    <3> HIDE DEF m
    <3>2. e \in BucketAccounts(B[m], 1, s) /\ m \in DOMAIN B
      BY <1>1, <1>2, <3>1
    <3> QED
      BY <3>2 DEF BucketAccounts, Candidates, Bucketed, B
  <2> QED
    BY <2>1, <2>2
<1>3. ASSUME NEW e \in Candidates(s) PROVE \E r \in DOMAIN q : e \in q[r]
  <2>1. e \in s.usable /\ (Kept(0, s, e) \/ Kept(1, s, e))
    BY DEF Candidates
  <2>2. PICK i \in 1..n : BucketHolds(B[i], s, e)
    BY <1>1 DEF Candidates, Bucketed, B
  <2>3. e \in BucketAccounts(B[i], 0, s) \/ e \in BucketAccounts(B[i], 1, s)
    BY <2>1, <2>2 DEF BucketAccounts
  <2>4. i \in DOMAIN q /\ n + i \in DOMAIN q
    BY <1>1
  <2> QED
    BY <1>1, <2>3, <2>4
<1> QED
  BY <1>2, <1>3 DEF q

(* Within one pass, what is met before stands before.                      *)
LEMMA MetInAPass ==
    ASSUME NEW s \in Situations, NEW pass \in {0, 1}, NEW o \in Nat, NEW q,
           \A i \in 1..Len(Buckets(s)) :
              q[o + i] = BucketAccounts(Buckets(s)[i], pass, s),
           NEW a \in Candidates(s), NEW b \in Candidates(s),
           NEW m \in 1..Len(Buckets(s)),
           a \in q[o + m], Kept(pass, s, b),
           \A l \in 1..((o + m) - 1) : a \notin q[l] /\ b \notin q[l],
           b \in q[o + m] => Before(s, a, b)
    PROVE  /\ Kept(pass, s, a) /\ BucketIndex(s, a) = m
           /\ \/ BucketIndex(s, b) > m
              \/ BucketIndex(s, b) = m /\ Before(s, a, b)
<1> DEFINE B == Buckets(s)
           n == Len(B)
           x == BucketIndex(s, a)
           y == BucketIndex(s, b)
<1>1. n \in Nat /\ DOMAIN B = 1..n
  BY FirstBucket
<1>2. a \in s.usable /\ b \in s.usable /\ Bucketed(s, a) /\ Bucketed(s, b)
  BY DEF Candidates
<1>3. /\ x \in 1..n /\ BucketHolds(B[x], s, a)
      /\ \A l \in 1..(x-1) : ~BucketHolds(B[l], s, a)
      /\ y \in 1..n /\ BucketHolds(B[y], s, b)
  BY <1>1, <1>2, FirstBucket
<1>4. Kept(pass, s, a) /\ BucketHolds(B[m], s, a)
  BY DEF BucketAccounts
<1>5. a \in q[o + x] /\ b \in q[o + y]
  BY <1>2, <1>3, <1>4 DEF BucketAccounts
<1> HIDE DEF B, n, x, y
<1>6. m \in 1..n
  BY DEF B, n
<1>7. x = m
  <2>1. x < m => o + x \in 1..((o + m) - 1)
    BY <1>1, <1>3, <1>6
  <2>2. m < x => m \in 1..(x-1)
    BY <1>1, <1>3, <1>6
  <2>3. ~(x < m) /\ ~(m < x)
    BY <1>3, <1>4, <1>5, <2>1, <2>2
  <2> QED
    BY <1>1, <1>3, <1>6, <2>3
<1>8. y > m \/ y = m
  <2>1. y < m => o + y \in 1..((o + m) - 1)
    BY <1>1, <1>3, <1>6
  <2>2. ~(y < m)
    BY <1>5, <2>1
  <2> QED
    BY <1>1, <1>3, <1>6, <2>2
<1> QED
  BY <1>4, <1>5, <1>7, <1>8 DEF x, y

(* What is met before stands before, if affinity does not part them.       *)
LEMMA MetIsPrecedes ==
    ASSUME NEW s \in Situations, NEW a \in Candidates(s), NEW b \in Candidates(s),
           Promoted(s, a) <=> Promoted(s, b), MetBefore(s, Rounds(s), a, b)
    PROVE  Precedes(s, a, b)
<1> DEFINE B == Buckets(s)
           n == Len(B)
           q == Rounds(s)
           x == BucketIndex(s, a)
           y == BucketIndex(s, b)
           A == Standing(s, a)
           C == Standing(s, b)
<1>1. /\ n \in Nat /\ DOMAIN q = 1..(n + n) /\ DOMAIN B = 1..n
      /\ \A r \in 1..n : q[r] = BucketAccounts(B[r], 0, s)
      /\ \A r \in 1..n : q[n + r] = BucketAccounts(B[r], 1, s)
  BY FirstBucket, RoundsHold
<1>2. PICK r \in DOMAIN q :
         /\ a \in q[r]
         /\ \A l \in 1..(r-1) : a \notin q[l] /\ b \notin q[l]
         /\ b \in q[r] => Before(s, a, b)
  BY DEF MetBefore
<1>3. /\ A[1] = C[1]
      /\ A[2] = IF Kept(0, s, a) THEN 0 ELSE 1
      /\ C[2] = IF Kept(0, s, b) THEN 0 ELSE 1
      /\ A[3] = x /\ A[4] = s.order[a] /\ A[5] = s.pos[a]
      /\ C[3] = y /\ C[4] = s.order[b] /\ C[5] = s.pos[b]
  <2>1. a \in s.usable /\ b \in s.usable
    BY DEF Candidates
  <2> QED
    BY <2>1, StandingIs
<1>4. ASSUME NEW e \in Candidates(s), Kept(0, s, e)
      PROVE  \E i \in 1..n : e \in q[i]
  <2>1. e \in s.usable /\ \E i \in 1..n : BucketHolds(B[i], s, e)
    BY <1>1 DEF Candidates, Bucketed
  <2> QED
    BY <1>1, <1>4, <2>1 DEF BucketAccounts
<1> HIDE DEF A, C, q, B, n, x, y
<1>5. SUFFICES \/ A[2] < C[2]
               \/ A[2] = C[2] /\ (x < y \/ (x = y /\ Before(s, a, b)))
  <2>1. CASE A[2] < C[2]
    <3>1. 2 \in 1..5 /\ 1..(2-1) = {1}
      OBVIOUS
    <3> QED
      BY <1>3, <2>1, <3>1 DEF Precedes, A, C
  <2>2. CASE A[2] = C[2] /\ x < y
    <3>1. 3 \in 1..5 /\ 1..(3-1) = {1, 2}
      OBVIOUS
    <3> QED
      BY <1>3, <2>2, <3>1 DEF Precedes, A, C
  <2>3. CASE A[2] = C[2] /\ x = y /\ Before(s, a, b)
    <3>1. 4 \in 1..5 /\ 5 \in 1..5 /\ 1..(4-1) = {1, 2, 3} /\ 1..(5-1) = {1, 2, 3, 4}
      OBVIOUS
    <3>2. A[4] < C[4] \/ (A[4] = C[4] /\ A[5] < C[5])
      BY <1>3, <2>3 DEF Before
    <3> QED
      BY <1>3, <2>3, <3>1, <3>2 DEF Precedes, A, C
  <2> QED
    BY <2>1, <2>2, <2>3
<1>6. x \in Int /\ y \in Int
  BY DEF x, y, BucketIndex
<1>7. CASE r <= n
  <2>1. r \in 1..n /\ 0 + r = r /\ \A i \in 1..n : 0 + i = i
    BY <1>1, <1>7
  <2>2. Kept(0, s, a)
    BY <1>1, <1>2, <2>1 DEF BucketAccounts
  <2>3. CASE Kept(0, s, b)
    <3>1. x = r /\ (y > r \/ (y = r /\ Before(s, a, b)))
      <4>1. \A i \in 1..n : q[0 + i] = BucketAccounts(B[i], 0, s)
        BY <1>1, <2>1
      <4>2. /\ a \in q[0 + r] /\ (b \in q[0 + r] => Before(s, a, b))
            /\ \A l \in 1..((0 + r) - 1) : a \notin q[l] /\ b \notin q[l]
        BY <1>2, <2>1
      <4> HIDE DEF B
      <4> QED
        BY <2>1, <2>3, <4>1, <4>2, MetInAPass DEF B, n, x, y
    <3> QED
      BY <1>1, <1>3, <1>6, <2>2, <2>3, <3>1
  <2>4. CASE ~Kept(0, s, b)
    BY <1>3, <2>2, <2>4
  <2> QED
    BY <2>3, <2>4
<1>8. CASE ~(r <= n)
  <2> DEFINE m == r - n
  <2>1. m \in 1..n /\ r = n + m /\ \A i \in 1..n : i \in 1..(r-1)
    BY <1>1, <1>8
  <2>2. ~Kept(0, s, a) /\ ~Kept(0, s, b)
    BY <1>2, <1>4, <2>1
  <2>3. Kept(1, s, b)
    BY <2>2 DEF Candidates
  <2> HIDE DEF m
  <2>4. x = m /\ (y > m \/ (y = m /\ Before(s, a, b)))
    <3>1. /\ a \in q[n + m] /\ (b \in q[n + m] => Before(s, a, b))
          /\ \A l \in 1..((n + m) - 1) : a \notin q[l] /\ b \notin q[l]
      BY <1>2, <2>1
    <3> QED
      BY <1>1, <2>1, <2>3, <3>1, MetInAPass DEF B, n, x, y
  <2> QED
    BY <1>3, <1>6, <2>2, <2>4
<1> QED
  BY <1>7, <1>8

-----------------------------------------------------------------------------
(* The answer                                                              *)

(* The two passes list the candidates, each once, in the order they are    *)
(* met.                                                                    *)
LEMMA TwoPassesAreRight ==
    ASSUME NEW s \in Situations
    PROVE  LET L == TwoPasses(s)
               n == Cardinality(Candidates(s))
           IN  /\ n \in Nat /\ L \in Seq(s.usable) /\ Len(L) = n /\ DOMAIN L = 1..n
               /\ ToSet(L) = Candidates(s)
               /\ \A i, j \in 1..n : i < j => MetBefore(s, Rounds(s), L[i], L[j])
               /\ \A i, j \in 1..n : L[i] = L[j] => i = j
<1> DEFINE L == TwoPasses(s)
           n == Cardinality(Candidates(s))
<1>1. L = AddAll(Rounds(s), s)
  BY DEF TwoPasses, AddAll, Rounds
<1>2. Rounds(s) \in Seq(SUBSET s.usable)
  BY RoundsHold
<1> HIDE DEF L, n
<1>3. /\ L \in Seq(s.usable) /\ DOMAIN L = 1..Len(L)
      /\ ToSet(L) = Candidates(s)
      /\ \A i, j \in DOMAIN L : i < j => MetBefore(s, Rounds(s), L[i], L[j])
  BY <1>1, <1>2, AddedAsMet, RoundsHoldAll
<1>4. \A i \in DOMAIN L : L[i] \in Candidates(s) /\ L[i] \in s.usable
  BY <1>3 DEF ToSet
<1>5. ASSUME NEW i \in DOMAIN L, NEW j \in DOMAIN L, i < j PROVE L[i] # L[j]
  <2>1. Precedes(s, L[i], L[j]) \/ ~(Promoted(s, L[i]) <=> Promoted(s, L[j]))
    BY <1>3, <1>4, <1>5, MetIsPrecedes
  <2> QED
    BY <1>4, <2>1, PrecedesIsStrict
<1>6. \A i, j \in DOMAIN L : L[i] = L[j] => i = j
  <2> SUFFICES ASSUME NEW i \in DOMAIN L, NEW j \in DOMAIN L, L[i] = L[j], i # j PROVE FALSE
    OBVIOUS
  <2>1. i < j \/ j < i
    BY <1>3
  <2> QED
    BY <1>5, <2>1
<1>7. IsFiniteSet(Candidates(s)) /\ n \in Nat
  <2>1. Candidates(s) \in SUBSET s.usable /\ IsFiniteSet(s.usable)
    BY SituationsAssumption DEF Candidates
  <2> QED
    BY <2>1, FS_Subset, FS_CardinalityType DEF n
<1>8. Len(L) = n
  <2>1. Len(L) \in Nat /\ L \in [1..Len(L) -> Candidates(s)]
    BY <1>3, <1>4
  <2>2. L \in Bijection(1..Len(L), Candidates(s))
    BY <1>3, <1>6, <2>1 DEF Bijection, Injection, IsInjective, Surjection, ToSet
  <2>3. IsFiniteSet(1..Len(L)) /\ Cardinality(1..Len(L)) = Len(L)
    BY <2>1, FS_Interval
  <2> QED
    BY <2>2, <2>3, FS_Bijection DEF n, ExistsBijection
<1> QED
  BY <1>3, <1>6, <1>7, <1>8 DEF L, n

(* A member of a list taken to its front.                                  *)
LEMMA Fronted ==
    ASSUME NEW U, NEW L \in Seq(U), NEW i \in 1..Len(L)
    PROVE  LET P == <<L[i]>> \o RemoveAt(L, i)
           IN  /\ P \in Seq(U) /\ Len(P) = Len(L)
               /\ \A k \in 1..Len(L) :
                    P[k] = L[IF k = 1 THEN i ELSE IF k <= i THEN k - 1 ELSE k]
<1> DEFINE n == Len(L)
           a == SubSeq(L, 1, i-1)
           b == SubSeq(L, i+1, n)
           R == a \o b
           P == <<L[i]>> \o R
<1>1. n \in Nat /\ i \in 1..n /\ DOMAIN L = 1..n
  OBVIOUS
<1>2. /\ a \in Seq(U) /\ Len(a) = i - 1
      /\ \A k \in 1..(i-1) : a[k] = L[k]
  BY <1>1
<1>3. /\ b \in Seq(U) /\ Len(b) = n - i
      /\ \A k \in 1..(n-i) : b[k] = L[k + i]
  <2>1. i + 1 \in Int /\ n \in Int /\ \A k \in (i+1)..n : L[k] \in U
    BY <1>1
  <2>2. /\ b \in Seq(U) /\ Len(b) = IF i + 1 <= n THEN n - (i + 1) + 1 ELSE 0
        /\ \A k \in 1..(n - (i + 1) + 1) : b[k] = L[(i + 1) + k - 1]
    <3> HIDE DEF n
    <3> QED
      BY <2>1, SubSeqProperties
  <2>3. n - (i + 1) + 1 = n - i /\ \A k \in 1..(n-i) : (i + 1) + k - 1 = k + i
    BY <1>1
  <2> HIDE DEF b
  <2>4. Len(b) = n - i
    <3> HIDE DEF n
    <3>1. CASE i + 1 <= n
      BY <1>1, <2>2, <2>3, <3>1
    <3>2. CASE ~(i + 1 <= n)
      <4>1. n - i = 0
        BY <1>1, <3>2
      <4> QED
        BY <2>2, <3>2, <4>1
    <3> QED
      BY <3>1, <3>2
  <2>5. ASSUME NEW k \in 1..(n-i) PROVE b[k] = L[k + i]
    <3>1. k \in 1..(n - (i + 1) + 1) /\ (i + 1) + k - 1 = k + i
      BY <2>3
    <3> QED
      BY <2>2, <3>1
  <2> QED
    BY <2>2, <2>4, <2>5
<1> HIDE DEF a, b
<1>4. /\ R \in Seq(U) /\ Len(R) = n - 1
      /\ \A k \in 1..(n-1) : R[k] = IF k < i THEN L[k] ELSE L[k + 1]
  <2>1. R \in Seq(U) /\ Len(R) = n - 1 /\ DOMAIN R = 1..(n-1)
    <3>1. (i - 1) + (n - i) = n - 1
      BY <1>1
    <3> QED
      BY <1>2, <1>3, <3>1, Joined
  <2>2. \A k \in DOMAIN R : R[k] = IF k <= Len(a) THEN a[k] ELSE b[k - Len(a)]
    BY <1>2, <1>3, Joined
  <2>3. ASSUME NEW k \in 1..(n-1) PROVE R[k] = IF k < i THEN L[k] ELSE L[k + 1]
    <3>1. CASE k < i
      <4>1. k <= Len(a) /\ k \in 1..(i-1)
        BY <1>1, <1>2, <3>1
      <4> QED
        BY <1>2, <2>1, <2>2, <3>1, <4>1
    <3>2. CASE ~(k < i)
      <4>1. k - (i - 1) \in 1..(n-i) /\ (k - (i - 1)) + i = k + 1 /\ ~(k <= Len(a))
        BY <1>1, <1>2, <3>2
      <4> QED
        BY <1>2, <1>3, <2>1, <2>2, <3>2, <4>1
    <3> QED
      BY <3>1, <3>2
  <2> QED
    BY <2>1, <2>3
<1>5. RemoveAt(L, i) = R
  BY DEF RemoveAt, a, b
<1> HIDE DEF R
<1>6. L[i] \in U
  BY <1>1
<1> DEFINE f == <<L[i]>>
<1>7. /\ P \in Seq(U) /\ Len(P) = n /\ DOMAIN P = 1..n
      /\ \A k \in 1..n : P[k] = IF k <= 1 THEN L[i] ELSE R[k - 1]
  <2>1. f \in Seq(U) /\ Len(f) = 1 /\ f[1] = L[i]
    BY <1>6
  <2> HIDE DEF f
  <2>2. 1 + (n - 1) = n
    BY <1>1
  <2>3. \A k \in 1..n : k <= 1 => k = 1
    BY <1>1
  <2> QED
    BY <1>4, <2>1, <2>2, <2>3, Joined DEF f
<1>8. ASSUME NEW k \in 1..n
      PROVE  P[k] = L[IF k = 1 THEN i ELSE IF k <= i THEN k - 1 ELSE k]
  <2>1. CASE k = 1
    BY <1>7, <2>1
  <2>2. CASE k # 1
    <3>1. k - 1 \in 1..(n-1) /\ (k - 1) + 1 = k /\ (k - 1 < i <=> k <= i)
      BY <1>1, <2>2
    <3>2. P[k] = R[k - 1]
      BY <1>7, <2>2, <3>1
    <3> QED
      BY <1>4, <2>2, <3>1, <3>2
  <2> QED
    BY <2>1, <2>2
<1> QED
  BY <1>5, <1>7, <1>8

(* The answer lists the candidates in order of Precedes.                   *)
LEMMA PlanIsOrdered ==
    ASSUME NEW s \in Situations
    PROVE  Plan(s) \in Orderings(s)
<1> DEFINE L == TwoPasses(s)
           C == Candidates(s)
           n == Cardinality(C)
           P == Plan(s)
           kept == {i \in DOMAIN L : L[i] \in s.bound \ s.skipped}
<1>1. /\ n \in Nat /\ L \in Seq(s.usable) /\ Len(L) = n /\ DOMAIN L = 1..n
      /\ ToSet(L) = C
      /\ \A i, j \in 1..n : i < j => MetBefore(s, Rounds(s), L[i], L[j])
      /\ \A i, j \in 1..n : L[i] = L[j] => i = j
  BY TwoPassesAreRight
<1>2. P = IF s.forced \/ kept = {} THEN L
          ELSE LET i == CHOOSE i \in kept : TRUE IN <<L[i]>> \o RemoveAt(L, i)
  BY DEF Plan, WithAffinity
<1>3. \A i \in 1..n : L[i] \in C
  BY <1>1 DEF ToSet
<1> HIDE DEF L, P, n, C
<1>4. SUFFICES P \in [1..n -> C] /\ \A k, l \in 1..n : k < l => Precedes(s, P[k], P[l])
  <2>1. P \in [1..n -> C] => DOMAIN P = 1..n
    OBVIOUS
  <2> QED
    BY <1>4, <2>1 DEF Orderings, P, n, C
<1>5. CASE s.forced \/ kept = {}
  <2>1. P = L /\ P \in [1..n -> C]
    BY <1>1, <1>2, <1>3, <1>5
  <2>2. \A k \in 1..n : ~Promoted(s, L[k])
    BY <1>1, <1>5 DEF Promoted
  <2>3. ASSUME NEW k \in 1..n, NEW l \in 1..n, k < l PROVE Precedes(s, P[k], P[l])
    BY <1>1, <1>3, <2>1, <2>2, <2>3, MetIsPrecedes DEF C
  <2> QED
    BY <2>1, <2>3
<1>6. CASE ~(s.forced \/ kept = {})
  <2>1. PICK i \in kept : P = <<L[i]>> \o RemoveAt(L, i)
    BY <1>2, <1>6
  <2>2. i \in 1..n /\ Promoted(s, L[i])
    BY <1>1, <1>6 DEF Promoted
  <2>3. \A k \in 1..n : k # i => ~Promoted(s, L[k])
    <3>1. \A a, b \in s.bound : a = b
      BY SituationsAssumption
    <3> QED
      BY <1>1, <2>2, <3>1 DEF Promoted
  <2> DEFINE at(k) == IF k = 1 THEN i ELSE IF k <= i THEN k - 1 ELSE k
  <2>4. /\ P \in Seq(s.usable) /\ Len(P) = n
        /\ \A k \in 1..n : P[k] = L[at(k)]
    <3>1. i \in 1..Len(L)
      BY <1>1, <2>2
    <3>2. /\ P \in Seq(s.usable) /\ Len(P) = Len(L)
          /\ \A k \in 1..Len(L) :
                P[k] = L[IF k = 1 THEN i ELSE IF k <= i THEN k - 1 ELSE k]
      <4> DEFINE U == s.usable
      <4>1. L \in Seq(U)
        BY <1>1
      <4> HIDE DEF U
      <4> QED
        BY <2>1, <3>1, <4>1, Fronted DEF U
    <3> QED
      BY <1>1, <3>2
  <2>5. /\ \A k \in 1..n : at(k) \in 1..n /\ (k # 1 => at(k) # i)
        /\ \A k, l \in 1..n : k < l /\ k # 1 => at(k) < at(l)
        /\ at(1) = i
    BY <1>1, <2>2
  <2> HIDE DEF at
  <2>6. P \in [1..n -> C]
    <3>1. \A k \in 1..n : P[k] \in C
      BY <1>3, <2>4, <2>5
    <3>2. DOMAIN P = 1..n /\ P = [k \in 1..n |-> P[k]]
      BY <1>1, <2>4
    <3> QED
      BY <3>1, <3>2
  <2>7. ASSUME NEW k \in 1..n, NEW l \in 1..n, k < l PROVE Precedes(s, P[k], P[l])
    <3>1. l # 1 /\ P[k] \in C /\ P[l] \in C /\ P[k] = L[at(k)] /\ P[l] = L[at(l)]
      BY <1>1, <2>4, <2>6, <2>7
    <3>2. ~Promoted(s, P[l])
      BY <2>3, <2>5, <3>1
    <3>3. CASE k = 1
      <4>1. Promoted(s, P[k])
        BY <2>2, <2>5, <3>1, <3>3
      <4>2. P[k] \in s.usable /\ P[l] \in s.usable
        BY <3>1 DEF C, Candidates
      <4>3. Standing(s, P[k])[1] = 0 /\ Standing(s, P[l])[1] = 1
        BY <3>2, <4>1, <4>2, StandingIs
      <4>4. 1 \in 1..5 /\ 1..(1-1) = {}
        OBVIOUS
      <4> QED
        BY <4>3, <4>4 DEF Precedes
    <3>4. CASE k # 1
      <4>1. ~Promoted(s, P[k])
        BY <2>3, <2>5, <3>1, <3>4
      <4>2. MetBefore(s, Rounds(s), P[k], P[l])
        BY <1>1, <2>5, <2>7, <3>1, <3>4
      <4> QED
        BY <3>1, <3>2, <4>1, <4>2, MetIsPrecedes DEF C
    <3> QED
      BY <3>3, <3>4
  <2> QED
    BY <2>6, <2>7
<1> QED
  BY <1>5, <1>6

(* Such a list holds every candidate.                                      *)
LEMMA OrderingListsAll ==
    ASSUME NEW s \in Situations, NEW f \in Orderings(s)
    PROVE  ToSet(f) = Candidates(s)
<1> DEFINE C == Candidates(s)
           n == Cardinality(C)
<1>1. C \in SUBSET s.usable /\ IsFiniteSet(C) /\ n \in Nat
  <2>1. IsFiniteSet(s.usable) /\ C \in SUBSET s.usable
    BY SituationsAssumption DEF Candidates
  <2> QED
    BY <2>1, FS_Subset, FS_CardinalityType
<1>2. f \in [1..n -> C] /\ \A i, j \in 1..n : i < j => Precedes(s, f[i], f[j])
  BY DEF Orderings
<1> HIDE DEF C, n
<1>3. ASSUME NEW i \in 1..n, NEW j \in 1..n, f[i] = f[j], i # j PROVE FALSE
  <2>1. i < j \/ j < i
    BY <1>1, <1>3
  <2>2. f[i] \in s.usable /\ f[j] \in s.usable
    BY <1>1, <1>2
  <2> QED
    BY <1>2, <1>3, <2>1, <2>2, PrecedesIsStrict
<1>4. f \in Injection(1..n, C)
  BY <1>2, <1>3 DEF Injection, IsInjective
<1>5. IsFiniteSet(1..n) /\ Cardinality(1..n) = n
  BY <1>1, FS_Interval
<1>6. f \in Surjection(1..n, C)
  BY <1>1, <1>4, <1>5, FS_Injection DEF n
<1> QED
  BY <1>2, <1>6 DEF Surjection, ToSet, C

(* There is no other such list.                                            *)
LEMMA OrderingIsUnique ==
    ASSUME NEW s \in Situations, NEW p \in Orderings(s), NEW q \in Orderings(s)
    PROVE  p = q
<1> DEFINE C == Candidates(s)
           n == Cardinality(C)
<1>1. n \in Nat
  BY TwoPassesAreRight
<1>2. /\ p \in [1..n -> C] /\ q \in [1..n -> C]
      /\ \A i, j \in 1..n : i < j => Precedes(s, p[i], p[j]) /\ Precedes(s, q[i], q[j])
  BY DEF Orderings
<1> HIDE DEF C, n
<1>3. /\ \A e \in C : (\E i \in 1..n : p[i] = e) /\ (\E i \in 1..n : q[i] = e)
      /\ C \in SUBSET s.usable
  <2>1. ToSet(p) = C /\ ToSet(q) = C
    BY OrderingListsAll DEF C
  <2>2. DOMAIN p = 1..n /\ DOMAIN q = 1..n
    BY <1>2
  <2>3. C \in SUBSET s.usable
    BY DEF C, Candidates
  <2> QED
    BY <2>1, <2>2, <2>3 DEF ToSet
<1> DEFINE Bad == {i \in 1..n : p[i] # q[i]}
<1>4. Bad = {}
  <2> SUFFICES ASSUME Bad # {} PROVE FALSE
    OBVIOUS
  <2>1. Bad \in SUBSET Nat
    BY <1>1
  <2>2. PICK k \in Bad : \A i \in Bad : k <= i
    <3> HIDE DEF Bad
    <3> QED
      BY <2>1, LeastMember
  <2>3. k \in 1..n /\ p[k] # q[k] /\ \A i \in 1..n : i < k => p[i] = q[i]
    <3>1. \A i \in 1..n : i < k => i \notin Bad
      <4> HIDE DEF Bad
      <4> QED
        BY <1>1, <2>1, <2>2
    <3> QED
      BY <3>1
  <2> HIDE DEF Bad
  <2>4. PICK i \in 1..n : p[i] = q[k]
    BY <1>2, <1>3, <2>3
  <2>5. PICK j \in 1..n : q[j] = p[k]
    BY <1>2, <1>3, <2>3
  <2>6. p[k] \in s.usable /\ q[k] \in s.usable
    BY <1>2, <1>3, <2>3
  <2>7. k < i
    <3>1. i < k => q[i] = q[k] /\ Precedes(s, q[i], q[k])
      BY <1>2, <2>3, <2>4
    <3> QED
      BY <2>3, <2>4, <2>6, <3>1, PrecedesIsStrict
  <2>8. k < j
    <3>1. j < k => p[j] = p[k] /\ Precedes(s, p[j], p[k])
      BY <1>2, <2>3, <2>5
    <3> QED
      BY <2>3, <2>5, <2>6, <3>1, PrecedesIsStrict
  <2>9. Precedes(s, p[k], q[k]) /\ Precedes(s, q[k], p[k])
    BY <1>2, <2>3, <2>4, <2>5, <2>7, <2>8
  <2> QED
    BY <2>6, <2>9, PrecedesIsStrict
<1>5. p = [i \in 1..n |-> p[i]] /\ q = [i \in 1..n |-> q[i]]
  BY <1>2
<1>6. \A i \in 1..n : p[i] = q[i]
  BY <1>4
<1> QED
  BY <1>5, <1>6

-----------------------------------------------------------------------------
(* The properties                                                          *)

(* An answer is what Plan makes of the situation asked about.              *)
AnswerInv ==
    /\ situation \in Situations
    /\ phase \in {"asked", "answered"}
    /\ Answered => candidates = Plan(situation)

(* The answer is that of Router::plan for the situation asked about.       *)
LEMMA PlanIsAnswered == Spec => []AnswerInv
<1>1. Init => AnswerInv
  BY DEF Init, AnswerInv, Answered
<1>2. AnswerInv /\ [Next]_vars => AnswerInv'
  BY DEF AnswerInv, Next, Decide, vars, Answered
<1> QED
  BY <1>1, <1>2, PTL DEF Spec

(* LoopIsOrdering: whatever the endpoints, their number, rules, orders,    *)
(* quotas and cooldowns, the two passes, the names already added and the   *)
(* affinity move of Router::plan give the one order RoutePlan states.      *)
THEOREM PlanIsTheOrdering == Spec => []LoopIsOrdering
<1>1. AnswerInv => LoopIsOrdering
  BY PlanIsOrdered, OrderingIsUnique DEF AnswerInv, LoopIsOrdering
<1> QED
  BY <1>1, PlanIsAnswered, PTL

(* LastResortComesLast: nothing that cools down, breaks its rules or has   *)
(* run dry comes before a healthy eligible endpoint, the session's own     *)
(* excepted.                                                               *)
THEOREM LastResortsComeLast == Spec => []LastResortComesLast
<1>1. AnswerInv => LastResortComesLast
  <2> SUFFICES ASSUME AnswerInv, Answered,
                      NEW i \in DOMAIN candidates, NEW j \in DOMAIN candidates, i < j,
                      candidates[i] \notin situation.bound,
                      \/ candidates[i] \in situation.cooling
                      \/ ~PreferEligible(situation, candidates[i])
               PROVE  \/ candidates[j] \in situation.cooling
                      \/ ~PreferEligible(situation, candidates[j])
    BY DEF LastResortComesLast
  <2> DEFINE s == situation
             a == candidates[i]
             b == candidates[j]
  <2>1. s \in Situations /\ candidates \in Orderings(s)
    BY PlanIsOrdered DEF AnswerInv
  <2>2. a \in Candidates(s) /\ b \in Candidates(s) /\ Precedes(s, a, b)
    BY <2>1 DEF Orderings
  <2>3. a \in s.usable /\ b \in s.usable /\ (s.enabled[b] \/ s.forced)
    BY <2>2 DEF Candidates, Kept
  <2> HIDE DEF s, a, b
  <2>4. ~Kept(0, s, a) /\ ~Promoted(s, a)
    BY DEF Kept, Promoted, s, a
  <2>5. /\ Standing(s, a)[1] = 1 /\ Standing(s, b)[1] \in {0, 1}
        /\ Standing(s, a)[2] = 1
        /\ Standing(s, b)[2] = IF Kept(0, s, b) THEN 0 ELSE 1
    BY <2>1, <2>3, <2>4, StandingIs
  <2>6. PICK k \in 1..5 : /\ Standing(s, a)[k] < Standing(s, b)[k]
                          /\ \A l \in 1..(k-1) : Standing(s, a)[l] = Standing(s, b)[l]
    BY <2>2 DEF Precedes
  <2>7. ~Kept(0, s, b)
    <3>1. k # 1
      BY <2>5, <2>6
    <3>2. k = 2 \/ 2 \in 1..(k-1)
      BY <3>1
    <3> QED
      BY <2>5, <2>6, <3>2
  <2> QED
    BY <2>3, <2>7 DEF Kept, s, b
<1> QED
  BY <1>1, PlanIsAnswered, PTL

(* OnlySurplusFirstLoses: no enabled endpoint that did not opt out is lost *)
(* to a request, but for an exhausted plan under surplus_first off-peak.   *)
THEOREM NothingElseIsLost == Spec => []OnlySurplusFirstLoses
<1>1. AnswerInv => OnlySurplusFirstLoses
  <2> SUFFICES ASSUME AnswerInv, Answered, NEW e \in situation.usable,
                      situation.enabled[e], ~situation.optOut[e], ~Contains(candidates, e)
               PROVE  /\ situation.mode = "auto" /\ ~situation.peak
                      /\ situation.idle = "surplus_first"
                      /\ situation.kind[e] = "plans" /\ situation.class[e] = "exhausted"
    BY DEF OnlySurplusFirstLoses
  <2> DEFINE s == situation
             B == Buckets(s)
  <2>1. s \in Situations /\ candidates = Plan(s)
    BY DEF AnswerInv
  <2>2. e \notin Candidates(s)
    <3> SUFFICES ASSUME e \in Candidates(s) PROVE FALSE
      OBVIOUS
    <3>1. e \in ToSet(candidates) /\ candidates \in Seq(ToSet(candidates))
      <4> DEFINE n == Cardinality(Candidates(s))
                 p == candidates
      <4>1. p \in [1..n -> Candidates(s)] /\ n \in Nat
        BY <2>1, PlanIsOrdered, TwoPassesAreRight DEF Orderings
      <4>2. e \in ToSet(p)
        BY <2>1, PlanIsOrdered, OrderingListsAll
      <4>3. p \in [1..n -> ToSet(p)]
        BY <4>1 DEF ToSet
      <4> HIDE DEF p, n
      <4>4. p \in Seq(ToSet(p))
        BY <4>1, <4>3
      <4> QED
        BY <4>2, <4>4 DEF p
    <3> QED
      BY <3>1 DEF Contains, ToSet
  <2>3. Kept(1, s, e)
    BY DEF Kept
  <2>4. \A i \in DOMAIN B : ~BucketHolds(B[i], s, e)
    BY <2>2, <2>3 DEF Candidates, Bucketed
  <2>5. /\ s.mode \in Modes /\ s.idle \in Idles /\ s.peak \in BOOLEAN
        /\ s.kind[e] \in Kinds /\ s.class[e] \in Classes
    BY <2>1, SituationsAssumption
  <2> HIDE DEF s
  <2>6. B = <<"plans-surplus", "cash", "plans-tight">>
    <3>1. B \notin {<<"plans", "cash">>, <<"cash", "plans">>}
      <4> SUFFICES ASSUME B \in {<<"plans", "cash">>, <<"cash", "plans">>} PROVE FALSE
        OBVIOUS
      <4>1. {1, 2} \subseteq DOMAIN B /\ {B[1], B[2]} = Kinds
        BY DEF Kinds
      <4> QED
        BY <2>4, <2>5, <4>1 DEF BucketHolds
    <3> QED
      BY <3>1 DEF Buckets
  <2>7. s.mode = "auto" /\ ~s.peak /\ s.idle = "surplus_first"
    <3>1. B # <<"plans", "cash">> /\ B # <<"cash", "plans">>
      BY <2>6
    <3> QED
      BY <2>5, <3>1 DEF Buckets, Modes, Idles
  <2>8. s.kind[e] # "cash" /\ (s.kind[e] = "plans" => s.class[e] \notin {"surplus", "tight"})
    <3>1. {1, 2, 3} \subseteq DOMAIN B
          /\ B[1] = "plans-surplus" /\ B[2] = "cash" /\ B[3] = "plans-tight"
      BY <2>6
    <3> QED
      BY <2>4, <3>1 DEF BucketHolds
  <2> QED
    BY <2>5, <2>7, <2>8 DEF s, Kinds, Classes
<1> QED
  BY <1>1, PlanIsAnswered, PTL
=============================================================================
