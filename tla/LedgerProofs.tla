----------------------------- MODULE LedgerProofs -----------------------------
(***************************************************************************)
(* Theorems about Ledger, for any number of deliveries, any windows and    *)
(* lengths of them, any caps, and any number of flushes and restarts.      *)
(***************************************************************************)
EXTENDS Ledger, FoldFacts, FunctionTheorems, SequenceTheorems

Sample == [ts : Nat, cost : Costs, size : Sizes, by : Requests]

Shaped ==
    /\ clock \in Nat \ {0}
    /\ req \in [Requests -> [pc : {"idle", "stream", "done"}, head : Nat]]
    /\ \A r \in Requests : /\ req[r].head <= clock
                           /\ req[r].pc = "stream" => req[r].head >= 1
    /\ samples \in Seq(Sample)
    /\ recorded \subseteq Sample /\ IsFiniteSet(recorded)
    /\ windows \in [Windows -> Nat]
    /\ flush \in [copied : BOOLEAN, samples : Seq(Sample)]
    /\ file \in [samples : Seq(Sample), windows : [Windows -> Nat]]

(* Whatever is written down was recorded, once and not in the future.      *)
Past(S) == \A x \in S : x.ts <= clock /\ req[x.by].pc = "done"

OfThePast == Past(recorded) /\ Past(ToSet(flush.samples)) /\ Past(ToSet(file.samples))

(* What windows that are open allow, and what they allow before.           *)
Fits(S, ws) ==
    \A x \in S, w \in Windows :
        IF ws[w] > 0 THEN x.ts < ws[w] + Period[w] ELSE x.ts <= 1

(* The copy of the flusher is older than the windows that go with it.      *)
WindowsFit ==
    /\ Fits(ToSet(samples), windows)
    /\ Fits(ToSet(flush.samples), windows)
    /\ Fits(ToSet(file.samples), file.windows)

EachOnce(s) == \A i, j \in DOMAIN s : s[i] = s[j] => i = j

YoungAreThere ==
    /\ Len(samples) <= Cap
    /\ ToSet(samples) \subseteq recorded
    /\ EachOnce(samples)
    /\ Cardinality(recorded) <= Cap =>
        \A x \in recorded :
            x.ts >= clock - Keep => \E i \in DOMAIN samples : SameKey(samples[i], x)

-----------------------------------------------------------------------------
(* The operators                                                           *)

(* A set of naturals that is not empty has a least member.                 *)
LEMMA MinIsLeast ==
    ASSUME NEW S \in SUBSET Nat, S # {}
    PROVE  Min(S) \in S /\ \A y \in S : Min(S) <= y
<1>1. \E x \in S : \A y \in S : x <= y
  BY LeastMember
<1> QED
  BY <1>1 DEF Min

(* What is left of a sequence when its first m - 1 members are dropped.    *)
LEMMA DropFromFront ==
    ASSUME NEW S, NEW s \in Seq(S), NEW m \in 1..Len(s)
    PROVE  LET q == SubSeq(s, m, Len(s))
           IN  /\ q \in Seq(S) /\ Len(q) = Len(s) - m + 1
               /\ \A i \in 1..Len(q) : q[i] = s[m + i - 1] /\ m + i - 1 \in DOMAIN s
               /\ ToSet(q) \subseteq ToSet(s)
               /\ \A i \in m..Len(s) : i - m + 1 \in DOMAIN q /\ q[i - m + 1] = s[i]
               /\ EachOnce(s) => EachOnce(q)
<1> DEFINE q == SubSeq(s, m, Len(s))
<1>1. Len(s) \in Nat /\ DOMAIN s = 1..Len(s) /\ m \in Int /\ m <= Len(s) /\ m >= 1
  BY LenProperties
<1>2. \A i \in m..Len(s) : s[i] \in S
  BY <1>1, ElementOfSeq
<1>3. /\ q \in Seq(S) /\ Len(q) = Len(s) - m + 1
      /\ \A i \in 1..Len(s) - m + 1 : q[i] = s[m + i - 1]
  BY <1>1, <1>2, SubSeqProperties
<1>4. DOMAIN q = 1..Len(q)
  BY <1>3, LenProperties
<1> HIDE DEF q
<1>5. \A i \in 1..Len(q) : q[i] = s[m + i - 1] /\ m + i - 1 \in DOMAIN s
  BY <1>1, <1>3
<1>6. ToSet(q) \subseteq ToSet(s)
  BY <1>4, <1>5 DEF ToSet
<1>7. \A i \in m..Len(s) : i - m + 1 \in DOMAIN q /\ q[i - m + 1] = s[i]
  <2> SUFFICES ASSUME NEW i \in m..Len(s)
               PROVE  i - m + 1 \in DOMAIN q /\ q[i - m + 1] = s[i]
    OBVIOUS
  <2>1. i - m + 1 \in 1..Len(q) /\ m + (i - m + 1) - 1 = i
    BY <1>1, <1>3
  <2> QED
    BY <1>4, <1>5, <2>1
<1>8. EachOnce(s) => EachOnce(q)
  <2> SUFFICES ASSUME EachOnce(s), NEW i \in DOMAIN q, NEW j \in DOMAIN q, q[i] = q[j]
               PROVE  i = j
    BY DEF EachOnce
  <2>1. m + i - 1 \in DOMAIN s /\ m + j - 1 \in DOMAIN s /\ s[m + i - 1] = s[m + j - 1]
    BY <1>4, <1>5
  <2>2. m + i - 1 = m + j - 1
    BY <2>1 DEF EachOnce
  <2> QED
    BY <1>1, <1>3, <1>4, <2>2
<1> QED
  BY <1>3, <1>5, <1>6, <1>7, <1>8 DEF q

(* The cap keeps the newest records, and all of them if they are few.      *)
LEMMA CapKeepsTheNewest ==
    ASSUME NEW S, NEW s \in Seq(S)
    PROVE  /\ Capped(s) \in Seq(S) /\ Len(Capped(s)) <= Cap
           /\ ToSet(Capped(s)) \subseteq ToSet(s)
           /\ EachOnce(s) => EachOnce(Capped(s))
           /\ Len(s) <= Cap => Capped(s) = s
           /\ Len(s) > 0 => /\ Len(Capped(s)) > 0
                            /\ Capped(s)[Len(Capped(s))] = s[Len(s)]
<1>1. Len(s) \in Nat /\ Cap \in Nat \ {0}
  BY LenProperties, LedgerAssumption
<1>2. CASE Len(s) > Cap
  <2> DEFINE m == Len(s) - Cap + 1
             q == SubSeq(s, m, Len(s))
  <2>1. m \in 1..Len(s)
    BY <1>1, <1>2
  <2>2. Len(s) - m + 1 = Cap /\ m + Cap - 1 = Len(s)
    BY <1>1
  <2> HIDE DEF m
  <2>3. /\ q \in Seq(S) /\ Len(q) = Len(s) - m + 1
        /\ \A i \in 1..Len(q) : q[i] = s[m + i - 1]
        /\ ToSet(q) \subseteq ToSet(s)
        /\ EachOnce(s) => EachOnce(q)
    BY <2>1, DropFromFront
  <2>4. Capped(s) = q
    BY <1>2 DEF Capped, m
  <2> HIDE DEF q
  <2>5. q[Cap] = s[Len(s)]
    BY <1>1, <2>2, <2>3
  <2> QED
    BY <1>1, <1>2, <2>2, <2>3, <2>4, <2>5
<1>3. CASE ~(Len(s) > Cap)
  BY <1>1, <1>3 DEF Capped
<1> QED
  BY <1>2, <1>3

(* Pruning drops from the front, and nothing that the last one may keep.   *)
LEMMA PruneKeepsTheYoung ==
    ASSUME NEW s \in Seq(Sample), Len(s) > 0
    PROVE  /\ Pruned(s) \in Seq(Sample) /\ Len(Pruned(s)) <= Len(s)
           /\ ToSet(Pruned(s)) \subseteq ToSet(s)
           /\ EachOnce(s) => EachOnce(Pruned(s))
           /\ \A i \in DOMAIN s : s[i].ts >= s[Len(s)].ts - Keep =>
                \E k \in DOMAIN Pruned(s) : Pruned(s)[k] = s[i]
<1> DEFINE cutoff == s[Len(s)].ts - Keep
           kept == {i \in DOMAIN s : s[i].ts >= cutoff}
           m == Min(kept)
           q == SubSeq(s, m, Len(s))
<1>1. Len(s) \in Nat /\ DOMAIN s = 1..Len(s) /\ Keep \in Nat
  BY LenProperties, LedgerAssumption
<1>2. \A i \in DOMAIN s : s[i].ts \in Nat
  <2>1. \A i \in DOMAIN s : s[i] \in Sample
    BY <1>1, ElementOfSeq
  <2>2. \A x \in Sample : x.ts \in Nat
    BY DEF Sample
  <2> QED
    BY <2>1, <2>2
<1>3. Len(s) \in kept
  BY <1>1, <1>2
<1>4. kept \subseteq DOMAIN s /\ kept \subseteq Nat
  BY <1>1
<1>5. \A i \in DOMAIN s : s[i].ts >= cutoff => i \in kept
  OBVIOUS
<1>6. Pruned(s) = q
  BY DEF Pruned
<1> HIDE DEF kept
<1>7. m \in kept /\ \A i \in kept : m <= i
  BY <1>3, <1>4, MinIsLeast
<1>8. m \in 1..Len(s)
  BY <1>1, <1>4, <1>7
<1> HIDE DEF m, cutoff
<1>9. /\ q \in Seq(Sample) /\ Len(q) = Len(s) - m + 1
      /\ ToSet(q) \subseteq ToSet(s)
      /\ \A i \in m..Len(s) : i - m + 1 \in DOMAIN q /\ q[i - m + 1] = s[i]
      /\ EachOnce(s) => EachOnce(q)
  BY <1>8, DropFromFront
<1> HIDE DEF q
<1>10. ASSUME NEW i \in DOMAIN s, s[i].ts >= cutoff
       PROVE  \E k \in DOMAIN q : q[k] = s[i]
  <2>1. i \in m..Len(s)
    BY <1>1, <1>5, <1>7, <1>8, <1>10
  <2> QED
    BY <1>9, <2>1
<1> QED
  BY <1>1, <1>6, <1>8, <1>9, <1>10 DEF cutoff

(* A sequence has finitely many members, and as many as it is long when    *)
(* it has each of them once.                                               *)
LEMMA MembersAreFinite ==
    ASSUME NEW S, NEW s \in Seq(S)
    PROVE  IsFiniteSet(ToSet(s))
<1> DEFINE A == 1..Len(s)
           T == ToSet(s)
<1>1. Len(s) \in Nat /\ DOMAIN s = A /\ s \in [A -> S]
  BY LenProperties
<1>2. IsFiniteSet(A)
  BY <1>1, FS_Interval
<1>3. T = {s[i] : i \in A}
  BY <1>1 DEF ToSet
<1> HIDE DEF A, T
<1>4. s \in [A -> T] /\ \A t \in T : \E i \in A : s[i] = t
  BY <1>1, <1>3
<1>5. s \in Surjection(A, T)
  BY <1>4 DEF Surjection
<1>6. IsFiniteSet(T)
  BY <1>2, <1>5, FS_Surjection
<1> QED
  BY <1>6 DEF T

(* A sequence that holds every key once is no longer than the set of its   *)
(* members is large.                                                       *)
LEMMA FewWhenEachOnce ==
    ASSUME NEW S, NEW s \in Seq(S), EachOnce(s),
           NEW T, IsFiniteSet(T), ToSet(s) \subseteq T
    PROVE  Len(s) <= Cardinality(T)
<1> DEFINE A == 1..Len(s)
<1>1. Len(s) \in Nat /\ DOMAIN s = A /\ s \in [A -> S]
  BY LenProperties
<1>2. Cardinality(A) = Len(s)
  BY <1>1, FS_Interval
<1>3. \A i \in A : s[i] \in T
  BY <1>1 DEF ToSet
<1>4. \A i, j \in A : s[i] = s[j] => i = j
  BY <1>1 DEF EachOnce
<1> HIDE DEF A
<1>5. s \in Injection(A, T)
  BY <1>1, <1>3, <1>4 DEF Injection, IsInjective
<1>6. Cardinality(A) <= Cardinality(T)
  BY <1>5, FS_Injection
<1> QED
  BY <1>2, <1>6

(* Of samples with the same stamp and counts merge takes the first.        *)
LEMMA FirstsDiffer ==
    ASSUME NEW all \in Seq(Sample)
    PROVE  /\ Firsts(all) \subseteq DOMAIN all /\ IsFiniteSet(Firsts(all))
           /\ \A i \in Firsts(all) : all[i] \in Sample
           /\ \A i, j \in Firsts(all) : SameKey(all[i], all[j]) => i = j
           /\ \A i \in DOMAIN all : \E f \in Firsts(all) : SameKey(all[f], all[i])
<1>1. Len(all) \in Nat /\ DOMAIN all = 1..Len(all) /\ \A i \in DOMAIN all : all[i] \in Sample
  BY LenProperties, ElementOfSeq
<1>2. Firsts(all) \subseteq DOMAIN all
  BY DEF Firsts
<1>3. IsFiniteSet(Firsts(all))
  <2>1. IsFiniteSet(1..Len(all))
    BY <1>1, FS_Interval
  <2> QED
    BY <1>1, <1>2, <2>1, FS_Subset
<1>4. ASSUME NEW i \in Firsts(all), NEW j \in Firsts(all), SameKey(all[i], all[j])
      PROVE  i = j
  <2>1. SameKey(all[j], all[i])
    BY <1>4 DEF SameKey
  <2>2. i \in Nat /\ j \in Nat /\ i >= 1 /\ j >= 1
    BY <1>1, <1>2
  <2>3. ~(j < i)
    <3>1. \A k \in 1..(i-1) : ~SameKey(all[i], all[k])
      BY DEF Firsts
    <3> QED
      BY <1>4, <2>2, <3>1
  <2>4. ~(i < j)
    <3>1. \A k \in 1..(j-1) : ~SameKey(all[j], all[k])
      BY DEF Firsts
    <3> QED
      BY <2>1, <2>2, <3>1
  <2> QED
    BY <2>2, <2>3, <2>4
<1>5. ASSUME NEW i \in DOMAIN all
      PROVE  \E f \in Firsts(all) : SameKey(all[f], all[i])
  <2> DEFINE like == {j \in DOMAIN all : SameKey(all[j], all[i])}
             f == Min(like)
  <2>1. i \in like
    BY DEF SameKey
  <2>2. like \subseteq Nat /\ like \subseteq DOMAIN all
    BY <1>1
  <2>3. \A j \in like : SameKey(all[j], all[i])
    OBVIOUS
  <2>4. \A j \in DOMAIN all : SameKey(all[j], all[i]) => j \in like
    OBVIOUS
  <2> HIDE DEF like
  <2>5. f \in like /\ \A j \in like : f <= j
    BY <2>1, <2>2, MinIsLeast
  <2> HIDE DEF f
  <2>6. f \in 1..Len(all) /\ SameKey(all[f], all[i])
    BY <1>1, <2>2, <2>3, <2>5
  <2>7. ASSUME NEW j \in 1..(f-1) PROVE ~SameKey(all[f], all[j])
    <3>1. j \in DOMAIN all /\ ~(f <= j)
      BY <1>1, <2>6
    <3>2. ~SameKey(all[j], all[i])
      BY <2>4, <2>5, <3>1
    <3> QED
      BY <2>6, <3>2 DEF SameKey
  <2>8. f \in Firsts(all)
    BY <1>1, <2>6, <2>7 DEF Firsts
  <2> QED
    BY <2>6, <2>8
<1> QED
  BY <1>1, <1>2, <1>3, <1>4, <1>5

(* Their places in time order are all taken, each by one of them.          *)
LEMMA PlacesAreTaken ==
    ASSUME NEW all \in Seq(Sample)
    PROVE  LET F == Firsts(all)
               n == Cardinality(F)
           IN  /\ n \in Nat
               /\ \A i \in F : Place(all, i) \in 1..n
               /\ \A i, j \in F : KeyBefore(all[i], all[j]) => Place(all, i) < Place(all, j)
               /\ \A i, j \in F : Place(all, i) = Place(all, j) => i = j
               /\ \A k \in 1..n : \E i \in F : Place(all, i) = k
<1> DEFINE F == Firsts(all)
           n == Cardinality(F)
           before(i) == {j \in F : KeyBefore(all[j], all[i])}
           p == [i \in F |-> Place(all, i)]
<1>1. /\ IsFiniteSet(F) /\ \A i \in F : all[i] \in Sample
      /\ \A i, j \in F : SameKey(all[i], all[j]) => i = j
  BY FirstsDiffer
<1>2. n \in Nat
  BY <1>1, FS_CardinalityType
<1>3. \A i \in F : all[i].ts \in Nat /\ all[i].size \in Nat
  <2>1. \A x \in Sample : x.ts \in Nat /\ x.size \in Nat
    BY LedgerAssumption DEF Sample
  <2> QED
    BY <1>1, <2>1
<1>4. \A i \in F : IsFiniteSet(before(i)) /\ Cardinality(before(i)) \in Nat
  <2> TAKE i \in F
  <2>1. before(i) \in SUBSET F
    OBVIOUS
  <2> HIDE DEF before
  <2>2. IsFiniteSet(before(i))
    BY <1>1, <2>1, FS_Subset
  <2> QED
    BY <2>2, FS_CardinalityType
<1>5. \A i \in F : Place(all, i) = Cardinality(before(i)) + 1
  BY DEF Place
<1>6. ASSUME NEW i \in F PROVE Place(all, i) \in 1..n
  <2> DEFINE B == before(i)
  <2>1. i \notin B
    BY <1>3 DEF KeyBefore
  <2>2. B \in SUBSET F
    OBVIOUS
  <2>3. Place(all, i) = Cardinality(B) + 1 /\ Cardinality(B) \in Nat
    BY <1>4, <1>5
  <2> HIDE DEF B
  <2>4. Cardinality(B) <= n /\ (n = Cardinality(B) => F = B)
    BY <1>1, <2>2, FS_Subset
  <2>5. Cardinality(B) < n
    BY <1>2, <2>1, <2>3, <2>4
  <2> HIDE DEF n
  <2> QED
    BY <1>2, <2>3, <2>5
<1>7. ASSUME NEW i \in F, NEW j \in F, KeyBefore(all[i], all[j])
      PROVE  Place(all, i) < Place(all, j)
  <2> DEFINE B == before(i)
             C == before(j)
  <2>1. i \notin B /\ i \in C
    BY <1>3, <1>7 DEF KeyBefore
  <2>2. B \in SUBSET C
    BY <1>3, <1>7 DEF KeyBefore
  <2>3. /\ IsFiniteSet(C) /\ Cardinality(B) \in Nat /\ Cardinality(C) \in Nat
        /\ Place(all, i) = Cardinality(B) + 1 /\ Place(all, j) = Cardinality(C) + 1
    BY <1>4, <1>5
  <2> HIDE DEF B, C
  <2>4. Cardinality(B) <= Cardinality(C) /\ (Cardinality(C) = Cardinality(B) => C = B)
    BY <2>2, <2>3, FS_Subset
  <2>5. Cardinality(B) < Cardinality(C)
    BY <2>1, <2>3, <2>4
  <2> QED
    BY <2>3, <2>5
<1>8. ASSUME NEW i \in F, NEW j \in F, Place(all, i) = Place(all, j)
      PROVE  i = j
  <2>1. Place(all, i) \in Nat /\ Place(all, j) \in Nat
    BY <1>2, <1>6
  <2>2. ~KeyBefore(all[i], all[j]) /\ ~KeyBefore(all[j], all[i])
    BY <1>7, <1>8, <2>1
  <2>3. SameKey(all[i], all[j])
    BY <1>3, <2>2 DEF KeyBefore, SameKey
  <2> QED
    BY <1>1, <2>3
<1>9. \A k \in 1..n : \E i \in F : Place(all, i) = k
  <2> DEFINE A == 1..n
  <2>1. IsFiniteSet(A) /\ Cardinality(A) = n
    BY <1>2, FS_Interval
  <2>2. p \in [F -> A]
    BY <1>6
  <2>3. \A i, j \in F : p[i] = p[j] => i = j
    BY <1>8
  <2> HIDE DEF A, F, p
  <2>4. p \in Injection(F, A)
    BY <2>2, <2>3 DEF Injection, IsInjective
  <2>5. p \in Surjection(F, A)
    BY <2>1, <2>4, FS_Injection
  <2>6. \A k \in A : \E i \in F : p[i] = k
    BY <2>5 DEF Surjection
  <2> QED
    BY <2>6 DEF A, p
<1> QED
  BY <1>2, <1>6, <1>7, <1>8, <1>9

(* Merge invents nothing, counts nothing twice, loses nothing but its      *)
(* likes, and leaves the samples in the order of time.                     *)
LEMMA MergeIsRight ==
    ASSUME NEW all \in Seq(Sample)
    PROVE  LET M == Merge(all)
           IN  /\ M \in Seq(Sample) /\ DOMAIN M = 1..Len(M)
               /\ ToSet(M) \subseteq ToSet(all)
               /\ EachOnce(M)
               /\ \A i \in DOMAIN all : \E k \in DOMAIN M : SameKey(M[k], all[i])
               /\ \A k, l \in DOMAIN M : k < l => KeyBefore(M[k], M[l])
<1> DEFINE F == Firsts(all)
           n == Cardinality(F)
           A == 1..n
           at(k) == CHOOSE i \in F : Place(all, i) = k
           M == Merge(all)
<1>1. /\ F \subseteq DOMAIN all
      /\ \A i \in F : all[i] \in Sample
      /\ \A i, j \in F : SameKey(all[i], all[j]) => i = j
      /\ \A i \in DOMAIN all : \E f \in F : SameKey(all[f], all[i])
  BY FirstsDiffer
<1>2. /\ n \in Nat
      /\ \A i \in F : Place(all, i) \in A
      /\ \A i, j \in F : KeyBefore(all[i], all[j]) => Place(all, i) < Place(all, j)
      /\ \A i, j \in F : Place(all, i) = Place(all, j) => i = j
      /\ \A k \in A : \E i \in F : Place(all, i) = k
  BY PlacesAreTaken
<1>3. M = [k \in A |-> all[at(k)]]
  BY DEF Merge
<1>4. \A k \in A : at(k) \in F /\ Place(all, at(k)) = k
  BY <1>2
<1>5. \A k \in A : M[k] = all[at(k)]
  BY <1>3
<1>6. DOMAIN M = A
  BY <1>3
<1>7. \A k \in A : k \in Int
  BY <1>2
<1> HIDE DEF at, M, A, F
<1>8. \A k \in A : M[k] \in Sample
  BY <1>1, <1>4, <1>5
<1>9. M = [k \in 1..n |-> M[k]]
  BY <1>3, <1>5 DEF A
<1>10. M \in Seq(Sample) /\ Len(M) = n
  BY <1>2, <1>8, <1>9 DEF A
<1>11. ToSet(M) \subseteq ToSet(all)
  BY <1>1, <1>4, <1>5, <1>6 DEF ToSet
<1>12. EachOnce(M)
  <2> SUFFICES ASSUME NEW k \in A, NEW l \in A, M[k] = M[l]
               PROVE  k = l
    BY <1>6 DEF EachOnce
  <2>1. SameKey(all[at(k)], all[at(l)])
    BY <1>5 DEF SameKey
  <2>2. at(k) = at(l)
    BY <1>1, <1>4, <2>1
  <2> QED
    BY <1>4, <2>2
<1>13. ASSUME NEW i \in DOMAIN all
       PROVE  \E k \in DOMAIN M : SameKey(M[k], all[i])
  <2>1. PICK f \in F : SameKey(all[f], all[i])
    BY <1>1
  <2> DEFINE k == Place(all, f)
  <2>2. k \in A /\ at(k) = f
    BY <1>2, <1>4
  <2>3. M[k] = all[f]
    BY <1>5, <2>2
  <2> QED
    BY <1>6, <2>1, <2>2, <2>3
<1>14. ASSUME NEW k \in DOMAIN M, NEW l \in DOMAIN M, k < l
       PROVE  KeyBefore(M[k], M[l])
  <2>1. k \in A /\ l \in A /\ k \in Int /\ l \in Int
    BY <1>6, <1>7
  <2>2. /\ at(k) \in F /\ at(l) \in F
        /\ Place(all, at(k)) = k /\ Place(all, at(l)) = l
        /\ M[k] = all[at(k)] /\ M[l] = all[at(l)]
    BY <1>4, <1>5, <2>1
  <2>3. ~KeyBefore(M[l], M[k])
    BY <1>2, <1>14, <2>1, <2>2
  <2>4. ~SameKey(M[k], M[l])
    BY <1>1, <1>14, <2>1, <2>2
  <2>5. M[k] \in Sample /\ M[l] \in Sample
    BY <1>8, <2>1
  <2>6. \A x \in Sample : x.ts \in Nat /\ x.size \in Nat
    BY LedgerAssumption DEF Sample
  <2>7. M[k].ts \in Nat /\ M[k].size \in Nat /\ M[l].ts \in Nat /\ M[l].size \in Nat
    BY <2>5, <2>6
  <2> QED
    BY <2>3, <2>4, <2>7 DEF KeyBefore, SameKey
<1>15. DOMAIN M = 1..Len(M)
  BY <1>6, <1>10 DEF A
<1> QED
  BY <1>10, <1>11, <1>12, <1>13, <1>14, <1>15 DEF M

(* What startup makes of a record: few samples are all kept.               *)
LEMMA StartsFromARecord ==
    ASSUME NEW all \in Seq(Sample)
    PROVE  LET s == Capped(Merge(all))
           IN  /\ s \in Seq(Sample) /\ Len(s) <= Cap
               /\ ToSet(s) \subseteq ToSet(all)
               /\ EachOnce(s)
               /\ Cardinality(ToSet(all)) <= Cap =>
                    \A x \in ToSet(all) : \E k \in DOMAIN s : SameKey(s[k], x)
<1> DEFINE M == Merge(all)
           s == Capped(M)
<1>1. /\ M \in Seq(Sample) /\ ToSet(M) \subseteq ToSet(all) /\ EachOnce(M)
      /\ \A i \in DOMAIN all : \E k \in DOMAIN M : SameKey(M[k], all[i])
  BY MergeIsRight
<1> HIDE DEF M
<1>2. /\ s \in Seq(Sample) /\ Len(s) <= Cap
      /\ ToSet(s) \subseteq ToSet(M) /\ EachOnce(s)
      /\ Len(M) <= Cap => s = M
  BY <1>1, CapKeepsTheNewest
<1>3. IsFiniteSet(ToSet(all))
  BY MembersAreFinite
<1>4. Len(M) <= Cardinality(ToSet(all))
  BY <1>1, <1>3, FewWhenEachOnce
<1>5. Len(M) \in Nat /\ Cardinality(ToSet(all)) \in Nat /\ Cap \in Nat
  BY <1>1, <1>3, LenProperties, FS_CardinalityType, LedgerAssumption
<1> HIDE DEF s
<1>6. ASSUME Cardinality(ToSet(all)) <= Cap, NEW x \in ToSet(all)
      PROVE  \E k \in DOMAIN s : SameKey(s[k], x)
  <2>1. s = M
    BY <1>2, <1>4, <1>5, <1>6
  <2>2. PICK i \in DOMAIN all : x = all[i]
    BY <1>6 DEF ToSet
  <2> QED
    BY <1>1, <2>1, <2>2
<1> QED
  BY <1>1, <1>2, <1>6 DEF s, M

(* A new sample is there, with all it may keep, and none is there twice.   *)
LEMMA AddingKeepsTheYoung ==
    ASSUME NEW s \in Seq(Sample), NEW x \in Sample
    PROVE  LET a == AddSample(s, x)
           IN  /\ a \in Seq(Sample) /\ Len(a) <= Cap
               /\ ToSet(a) \subseteq ToSet(s) \cup {x}
               /\ EachOnce(s) /\ x \notin ToSet(s) => EachOnce(a)
               /\ Len(s) + 1 <= Cap =>
                    \A y \in ToSet(s) \cup {x} :
                        y.ts >= x.ts - Keep => \E k \in DOMAIN a : a[k] = y
<1> DEFINE b == Append(s, x)
           c == Capped(b)
           a == Pruned(c)
<1>1. Len(s) \in Nat /\ DOMAIN s = 1..Len(s) /\ Cap \in Nat
  BY LenProperties, LedgerAssumption
<1>2. /\ b \in Seq(Sample) /\ Len(b) = Len(s) + 1
      /\ \A i \in 1..Len(s) : b[i] = s[i]
      /\ b[Len(s) + 1] = x
  BY AppendProperties
<1> HIDE DEF b
<1>3. DOMAIN b = 1..Len(s) + 1
  BY <1>2, LenProperties
<1>4. \A i \in DOMAIN b : (i \in DOMAIN s /\ b[i] = s[i]) \/ (i = Len(s) + 1 /\ b[i] = x)
  BY <1>1, <1>2, <1>3
<1>5. ToSet(b) = ToSet(s) \cup {x}
  <2>1. ToSet(b) \subseteq ToSet(s) \cup {x}
    BY <1>4 DEF ToSet
  <2>2. ToSet(s) \subseteq ToSet(b)
    BY <1>1, <1>2, <1>3 DEF ToSet
  <2>3. Len(s) + 1 \in DOMAIN b
    BY <1>1, <1>3
  <2>4. x \in ToSet(b)
    BY <1>2, <2>3 DEF ToSet
  <2> QED
    BY <2>1, <2>2, <2>4
<1>6. ASSUME EachOnce(s), x \notin ToSet(s)
      PROVE  EachOnce(b)
  <2> SUFFICES ASSUME NEW i \in DOMAIN b, NEW j \in DOMAIN b, b[i] = b[j]
               PROVE  i = j
    BY DEF EachOnce
  <2>1. \A k \in DOMAIN s : s[k] # x
    BY <1>6 DEF ToSet
  <2>2. CASE i \in DOMAIN s /\ b[i] = s[i]
    BY <1>4, <1>6, <2>1, <2>2 DEF EachOnce
  <2>3. CASE i = Len(s) + 1 /\ b[i] = x
    BY <1>4, <2>1, <2>3
  <2> QED
    BY <1>4, <2>2, <2>3
<1>7. Len(b) > 0
  BY <1>1, <1>2
<1>8. /\ c \in Seq(Sample) /\ Len(c) <= Cap
      /\ ToSet(c) \subseteq ToSet(b)
      /\ EachOnce(b) => EachOnce(c)
      /\ Len(b) <= Cap => c = b
      /\ Len(c) > 0 /\ c[Len(c)] = b[Len(b)]
  BY <1>2, <1>7, CapKeepsTheNewest
<1>9. c[Len(c)] = x
  BY <1>2, <1>8
<1> HIDE DEF c
<1>10. /\ a \in Seq(Sample) /\ Len(a) <= Len(c)
       /\ ToSet(a) \subseteq ToSet(c)
       /\ EachOnce(c) => EachOnce(a)
       /\ \A i \in DOMAIN c : c[i].ts >= c[Len(c)].ts - Keep =>
             \E k \in DOMAIN a : a[k] = c[i]
  BY <1>8, PruneKeepsTheYoung
<1>11. AddSample(s, x) = a
  BY DEF AddSample, b, c
<1> HIDE DEF a
<1>12. Len(a) <= Cap
  <2>1. Len(a) \in Nat /\ Len(c) \in Nat
    BY <1>8, <1>10, LenProperties
  <2> QED
    BY <1>1, <1>8, <1>10, <2>1
<1>13. ASSUME Len(s) + 1 <= Cap, NEW y \in ToSet(s) \cup {x}, y.ts >= x.ts - Keep
       PROVE  \E k \in DOMAIN a : a[k] = y
  <2>1. c = b
    BY <1>2, <1>8, <1>13
  <2>2. PICK i \in DOMAIN c : c[i] = y
    BY <1>5, <1>13, <2>1 DEF ToSet
  <2> QED
    BY <1>9, <1>10, <1>13, <2>2
<1> QED
  BY <1>5, <1>6, <1>8, <1>10, <1>11, <1>12, <1>13

(* The windows roll forward, ahead of all that is written down.            *)
LEMMA RollingKeepsAhead ==
    ASSUME NEW S, S \subseteq Sample, NEW ws \in [Windows -> Nat], Fits(S, ws),
           NEW now \in Nat \ {0}
    PROVE  /\ Roll(ws, now) \in [Windows -> Nat]
           /\ Fits(S, Roll(ws, now))
           /\ \A x \in Sample : x.ts = now => Fits({x}, Roll(ws, now))
<1> DEFINE new == Roll(ws, now)
<1>1. new = [w \in Windows |-> IF ws[w] <= 0 \/ now >= ws[w] + Period[w] THEN now ELSE ws[w]]
  BY DEF Roll
<1>2. \A w \in Windows : ws[w] \in Nat /\ Period[w] \in Nat \ {0}
  BY LedgerAssumption
<1>3. \A x \in Sample : x.ts \in Nat
  BY DEF Sample
<1>4. \A w \in Windows :
        \/ ws[w] = 0 /\ new[w] = now
        \/ ws[w] > 0 /\ now >= ws[w] + Period[w] /\ new[w] = now
        \/ ws[w] > 0 /\ now < ws[w] + Period[w] /\ new[w] = ws[w]
  BY <1>1, <1>2
<1>5. new \in [Windows -> Nat]
  BY <1>1, <1>2
<1> HIDE DEF new
<1>6. \A w \in Windows : new[w] > 0 /\ now < new[w] + Period[w]
  BY <1>2, <1>4
<1>7. \A x \in Sample : x.ts = now => Fits({x}, new)
  BY <1>6 DEF Fits
<1>8. ASSUME NEW x \in S, NEW w \in Windows
      PROVE  x.ts < new[w] + Period[w]
  <2>1. IF ws[w] > 0 THEN x.ts < ws[w] + Period[w] ELSE x.ts <= 1
    BY DEF Fits
  <2>2. x.ts \in Nat
    BY <1>3
  <2> QED
    BY <1>2, <1>4, <2>1, <2>2
<1>9. Fits(S, new)
  BY <1>6, <1>8 DEF Fits
<1> QED
  BY <1>5, <1>7, <1>9 DEF new

-----------------------------------------------------------------------------
(* The steps                                                               *)

IndInv == Shaped /\ OfThePast /\ WindowsFit /\ YoungAreThere

(* The members of a sequence over S are in S.                              *)
LEMMA MembersAreSamples ==
    ASSUME NEW S, NEW s \in Seq(S)
    PROVE  ToSet(s) \subseteq S
<1>1. DOMAIN s = 1..Len(s)
  BY LenProperties
<1> QED
  BY <1>1, ElementOfSeq DEF ToSet

(* IndInv holds at the start, whatever an earlier version left.            *)
LEMMA InitHolds ==
    ASSUME Init
    PROVE  IndInv
<1>1. PICK parts \in OldFiles :
        /\ clock = 1
        /\ recorded = ToSet(FlattenSeq(parts))
        /\ req = [r \in Requests |-> [pc   |-> IF \E x \in recorded : x.by = r
                                               THEN "done" ELSE "idle",
                                      head |-> 0]]
        /\ samples = Capped(Merge(FlattenSeq(parts)))
        /\ windows = NoWindow
        /\ flush = NotFlushing
        /\ file = [samples |-> samples, windows |-> windows]
  BY DEF Init
<1> DEFINE Old == [ts : 0..1, cost : Costs, size : Sizes, by : Requests]
           all == FlattenSeq(parts)
<1>2. all \in Seq(Old)
  BY OldFileAssumption
<1>3. Old \subseteq Sample /\ \A x \in Old : x.ts <= 1 /\ x.by \in Requests
  BY DEF Sample
<1> HIDE DEF Old, all
<1>4. ToSet(all) \subseteq Old
  BY <1>2, MembersAreSamples
<1>5. all \in Seq(Sample)
  BY <1>2, <1>3
<1>6. IsFiniteSet(ToSet(all))
  BY <1>5, MembersAreFinite
<1>7. /\ samples \in Seq(Sample) /\ Len(samples) <= Cap
      /\ ToSet(samples) \subseteq ToSet(all)
      /\ EachOnce(samples)
      /\ Cardinality(ToSet(all)) <= Cap =>
           \A x \in ToSet(all) : \E k \in DOMAIN samples : SameKey(samples[k], x)
  BY <1>1, <1>5, StartsFromARecord DEF all
<1>8. recorded = ToSet(all)
  BY <1>1 DEF all
<1>9. windows \in [Windows -> Nat] /\ \A w \in Windows : windows[w] = 0
  BY <1>1 DEF NoWindow
<1>10. /\ req \in [Requests -> [pc : {"idle", "stream", "done"}, head : Nat]]
       /\ \A r \in Requests : req[r].head = 0 /\ req[r].pc # "stream"
       /\ \A x \in recorded : x.by \in Requests => req[x.by].pc = "done"
  BY <1>1
<1>11. flush.samples = <<>> /\ flush \in [copied : BOOLEAN, samples : Seq(Sample)]
  <2>1. <<>> \in Seq(Sample)
    BY EmptySeq
  <2> QED
    BY <1>1, <2>1 DEF NotFlushing
<1>12. ToSet(flush.samples) = {}
  BY <1>11 DEF ToSet
<1>13. file \in [samples : Seq(Sample), windows : [Windows -> Nat]]
       /\ file.samples = samples /\ file.windows = windows
  BY <1>1, <1>7, <1>9
<1>14. Shaped
  BY <1>1, <1>3, <1>4, <1>6, <1>7, <1>8, <1>9, <1>10, <1>11, <1>13 DEF Shaped
<1>15. OfThePast
  <2>1. \A x \in recorded : x.ts <= clock /\ req[x.by].pc = "done"
    BY <1>1, <1>3, <1>4, <1>8, <1>10
  <2> QED
    BY <1>7, <1>8, <1>12, <1>13, <2>1 DEF OfThePast, Past
<1>16. WindowsFit
  <2>1. Fits(ToSet(samples), windows)
    BY <1>3, <1>4, <1>7, <1>9 DEF Fits
  <2> QED
    BY <1>12, <1>13, <2>1 DEF WindowsFit, Fits
<1>17. YoungAreThere
  BY <1>7, <1>8 DEF YoungAreThere
<1> QED
  BY <1>14, <1>15, <1>16, <1>17 DEF IndInv

(* A head that arrives, and one that does not change what is recorded.     *)
LEMMA StampHolds ==
    ASSUME IndInv, NEW r \in Requests, Stamp(r)
    PROVE  IndInv'
<1>1. /\ req[r].pc = "idle"
      /\ req' = [req EXCEPT ![r] = [pc |-> "stream", head |-> clock]]
      /\ clock' = clock /\ samples' = samples /\ windows' = windows
      /\ flush' = flush /\ file' = file /\ recorded' = recorded
  BY DEF Stamp
<1>2. Shaped
  BY DEF IndInv
<1>3. Shaped'
  <2>1. req' \in [Requests -> [pc : {"idle", "stream", "done"}, head : Nat]]
    BY <1>1, <1>2 DEF Shaped
  <2>2. \A u \in Requests : /\ req'[u].head <= clock
                            /\ req'[u].pc = "stream" => req'[u].head >= 1
    BY <1>1, <1>2 DEF Shaped
  <2> QED
    BY <1>1, <1>2, <2>1, <2>2 DEF Shaped
<1>4. ASSUME NEW S, S \subseteq Sample, Past(S)
      PROVE  \A x \in S : x.ts <= clock' /\ req'[x.by].pc = "done"
  <2>1. \A x \in Sample : x.by \in Requests
    BY DEF Sample
  <2> QED
    BY <1>1, <1>2, <1>4, <2>1 DEF Past, Shaped
<1>5. recorded \subseteq Sample /\ ToSet(flush.samples) \subseteq Sample /\ ToSet(file.samples) \subseteq Sample
  BY <1>2, MembersAreSamples DEF Shaped
<1>6. OfThePast'
  BY <1>1, <1>4, <1>5 DEF IndInv, OfThePast, Past
<1>7. WindowsFit'
  BY <1>1 DEF IndInv, WindowsFit
<1>8. YoungAreThere'
  BY <1>1 DEF IndInv, YoungAreThere
<1> QED
  BY <1>3, <1>6, <1>7, <1>8 DEF IndInv

(* A delivery that ends records nothing, or one sample with the time its   *)
(* head came.                                                              *)
LEMMA RecordStep ==
    ASSUME Shaped, NEW r \in Requests, Record(r)
    PROVE  /\ req[r].pc = "stream"
           /\ req' = [req EXCEPT ![r].pc = "done"]
           /\ clock' = clock /\ flush' = flush /\ file' = file
           /\ \/ /\ samples' = samples /\ recorded' = recorded
                 /\ windows' = windows /\ fresh' = fresh
              \/ \E x \in Sample :
                    /\ x.by = r /\ x.ts = req[r].head
                    /\ windows' = Roll(windows, x.ts)
                    /\ samples' = AddSample(samples, x)
                    /\ recorded' = recorded \cup {x}
                    /\ fresh' = Append(fresh, x)
<1>1. PICK cost \in Costs, size \in Sizes :
          LET x == [ts |-> req[r].head, cost |-> cost, size |-> size, by |-> r]
          IN  IF size = 0
              THEN UNCHANGED <<samples, total, recorded, fresh, windows>>
              ELSE /\ windows' = Roll(windows, x.ts)
                   /\ samples' = AddSample(samples, x)
                   /\ total' = total + cost
                   /\ recorded' = recorded \cup {x}
                   /\ fresh' = Append(fresh, x)
  BY DEF Record
<1> DEFINE x == [ts |-> req[r].head, cost |-> cost, size |-> size, by |-> r]
<1>2. x \in Sample /\ x.by = r /\ x.ts = req[r].head
  BY DEF Shaped, Sample
<1>3. \/ samples' = samples /\ recorded' = recorded /\ windows' = windows /\ fresh' = fresh
      \/ /\ windows' = Roll(windows, x.ts)
         /\ samples' = AddSample(samples, x)
         /\ recorded' = recorded \cup {x}
         /\ fresh' = Append(fresh, x)
  BY <1>1
<1> HIDE DEF x
<1>4. /\ req[r].pc = "stream" /\ req' = [req EXCEPT ![r].pc = "done"]
      /\ clock' = clock /\ flush' = flush /\ file' = file
  BY DEF Record
<1> QED
  BY <1>2, <1>3, <1>4

(* IndInv is kept by Record.                                               *)
LEMMA RecordHolds ==
    ASSUME IndInv, NEW r \in Requests, Record(r)
    PROVE  IndInv'
<1>1. Shaped /\ OfThePast /\ WindowsFit /\ YoungAreThere
  BY DEF IndInv
<1>2. /\ req[r].pc = "stream" /\ req' = [req EXCEPT ![r].pc = "done"]
      /\ clock' = clock /\ flush' = flush /\ file' = file
  BY <1>1, RecordStep
<1>3. /\ clock \in Nat \ {0} /\ req[r].head \in Nat \ {0} /\ req[r].head <= clock
      /\ samples \in Seq(Sample) /\ recorded \subseteq Sample /\ IsFiniteSet(recorded)
      /\ windows \in [Windows -> Nat]
      /\ flush \in [copied : BOOLEAN, samples : Seq(Sample)]
      /\ file \in [samples : Seq(Sample), windows : [Windows -> Nat]]
  BY <1>1, <1>2 DEF Shaped
<1>4. /\ req' \in [Requests -> [pc : {"idle", "stream", "done"}, head : Nat]]
      /\ \A u \in Requests : /\ req'[u].head <= clock
                             /\ req'[u].pc = "stream" => req'[u].head >= 1
      /\ \A u \in Requests : req[u].pc = "done" => req'[u].pc = "done"
      /\ req'[r].pc = "done"
  BY <1>1, <1>2 DEF Shaped
<1>5. \A x \in Sample : x.by \in Requests
  BY DEF Sample
<1>6. ToSet(samples) \subseteq Sample /\ ToSet(flush.samples) \subseteq Sample /\ ToSet(file.samples) \subseteq Sample
  BY <1>3, MembersAreSamples
<1>7. /\ \A x \in ToSet(flush.samples) : x.ts <= clock' /\ req'[x.by].pc = "done"
      /\ \A x \in ToSet(file.samples) : x.ts <= clock' /\ req'[x.by].pc = "done"
      /\ \A x \in recorded : x.ts <= clock' /\ req'[x.by].pc = "done"
  BY <1>1, <1>2, <1>3, <1>4, <1>5, <1>6 DEF OfThePast, Past
<1>8. CASE samples' = samples /\ recorded' = recorded /\ windows' = windows
  <2>1. Shaped'
    BY <1>2, <1>3, <1>4, <1>8 DEF Shaped
  <2>2. OfThePast'
    BY <1>2, <1>7, <1>8 DEF OfThePast, Past
  <2>3. WindowsFit'
    BY <1>1, <1>2, <1>8 DEF WindowsFit
  <2>4. YoungAreThere'
    BY <1>1, <1>2, <1>8 DEF YoungAreThere
  <2> QED
    BY <2>1, <2>2, <2>3, <2>4 DEF IndInv
<1>9. ASSUME NEW x \in Sample, x.by = r, x.ts = req[r].head,
             windows' = Roll(windows, x.ts), samples' = AddSample(samples, x),
             recorded' = recorded \cup {x}
      PROVE  IndInv'
  <2>1. x \notin recorded
    BY <1>1, <1>2, <1>9 DEF OfThePast, Past
  <2>2. ToSet(samples) \subseteq recorded /\ EachOnce(samples) /\ x \notin ToSet(samples)
    BY <1>1, <2>1 DEF YoungAreThere
  <2>3. /\ samples' \in Seq(Sample) /\ Len(samples') <= Cap
        /\ ToSet(samples') \subseteq ToSet(samples) \cup {x}
        /\ EachOnce(samples')
        /\ Len(samples) + 1 <= Cap =>
             \A y \in ToSet(samples) \cup {x} :
                 y.ts >= x.ts - Keep => \E k \in DOMAIN samples' : samples'[k] = y
    <3> DEFINE a == AddSample(samples, x)
    <3>1. /\ a \in Seq(Sample) /\ Len(a) <= Cap
          /\ ToSet(a) \subseteq ToSet(samples) \cup {x}
          /\ EachOnce(samples) /\ x \notin ToSet(samples) => EachOnce(a)
          /\ Len(samples) + 1 <= Cap =>
               \A y \in ToSet(samples) \cup {x} :
                   y.ts >= x.ts - Keep => \E k \in DOMAIN a : a[k] = y
      BY <1>3, AddingKeepsTheYoung
    <3>2. samples' = a
      BY <1>9
    <3> HIDE DEF a
    <3> QED
      BY <2>2, <3>1, <3>2
  <2>4. IsFiniteSet(recorded') /\ Cardinality(recorded') = Cardinality(recorded) + 1
    <3> DEFINE B == recorded \cup {x}
    <3>1. IsFiniteSet(B) /\ Cardinality(B) = Cardinality(recorded) + 1
      BY <1>3, <2>1, FS_AddElement
    <3>2. recorded' = B
      BY <1>9
    <3> HIDE DEF B
    <3> QED
      BY <3>1, <3>2
  <2>5. /\ windows' \in [Windows -> Nat]
        /\ Fits(ToSet(samples), windows') /\ Fits({x}, windows')
        /\ Fits(ToSet(flush.samples), windows')
    <3>1. x.ts \in Nat \ {0}
      BY <1>3, <1>9
    <3>2. Fits(ToSet(samples), windows) /\ Fits(ToSet(flush.samples), windows)
      BY <1>1 DEF WindowsFit
    <3> QED
      BY <1>3, <1>6, <1>9, <3>1, <3>2, RollingKeepsAhead
  <2>6. Shaped'
    BY <1>2, <1>3, <1>4, <1>9, <2>3, <2>4, <2>5 DEF Shaped
  <2>7. OfThePast'
    BY <1>2, <1>3, <1>4, <1>7, <1>9 DEF OfThePast, Past
  <2>8. WindowsFit'
    BY <1>1, <1>2, <2>3, <2>5 DEF WindowsFit, Fits
  <2>9. ASSUME Cardinality(recorded') <= Cap, NEW y \in recorded', y.ts >= clock' - Keep
        PROVE  \E k \in DOMAIN samples' : SameKey(samples'[k], y)
    <3>1. Len(samples) <= Cardinality(recorded)
      BY <1>3, <2>2, FewWhenEachOnce
    <3>2. Len(samples) \in Nat /\ Cardinality(recorded) \in Nat /\ Cap \in Nat /\ Keep \in Nat
      BY <1>3, LenProperties, FS_CardinalityType, LedgerAssumption
    <3>3. Len(samples) + 1 <= Cap /\ Cardinality(recorded) <= Cap
      BY <2>4, <2>9, <3>1, <3>2
    <3>4. \A z \in Sample : z.ts \in Nat
      BY DEF Sample
    <3>5. y \in Sample /\ y.ts \in Nat
      BY <1>3, <1>9, <3>4
    <3>6. y.ts >= x.ts - Keep
      BY <1>2, <1>3, <1>9, <2>9, <3>2, <3>5
    <3>7. CASE y = x
      BY <2>3, <3>3, <3>6, <3>7 DEF SameKey
    <3>8. CASE y \in recorded
      <4>1. PICK i \in DOMAIN samples : SameKey(samples[i], y)
        BY <1>1, <1>2, <2>9, <3>3, <3>8 DEF YoungAreThere
      <4> DEFINE z == samples[i]
      <4>2. z \in ToSet(samples) /\ z.ts = y.ts /\ z.size = y.size
        BY <4>1 DEF ToSet, SameKey
      <4> HIDE DEF z
      <4>3. z.ts >= x.ts - Keep
        BY <3>6, <4>2
      <4>4. PICK k \in DOMAIN samples' : samples'[k] = z
        BY <2>3, <3>3, <4>2, <4>3
      <4> QED
        BY <4>2, <4>4 DEF SameKey
    <3> QED
      BY <1>9, <3>7, <3>8
  <2>10. YoungAreThere'
    BY <1>9, <2>2, <2>3, <2>9 DEF YoungAreThere
  <2> QED
    BY <2>6, <2>7, <2>8, <2>10 DEF IndInv
<1> QED
  BY <1>1, <1>8, <1>9, RecordStep

(* IndInv is kept by CopyLedger.                                           *)
LEMMA CopyHolds ==
    ASSUME IndInv, CopyLedger
    PROVE  IndInv'
<1>1. /\ flush' = [copied |-> TRUE, samples |-> samples]
      /\ clock' = clock /\ req' = req /\ samples' = samples /\ windows' = windows
      /\ file' = file /\ recorded' = recorded
  BY DEF CopyLedger
<1>2. Shaped /\ OfThePast /\ WindowsFit /\ YoungAreThere
  BY DEF IndInv
<1>3. flush' \in [copied : BOOLEAN, samples : Seq(Sample)] /\ flush'.samples = samples
  BY <1>1, <1>2 DEF Shaped
<1>4. Shaped'
  BY <1>1, <1>2, <1>3 DEF Shaped
<1>5. OfThePast'
  BY <1>1, <1>2, <1>3 DEF OfThePast, Past, YoungAreThere
<1>6. WindowsFit'
  BY <1>1, <1>2, <1>3 DEF WindowsFit
<1>7. YoungAreThere'
  BY <1>1, <1>2 DEF YoungAreThere
<1> QED
  BY <1>4, <1>5, <1>6, <1>7 DEF IndInv

(* A flusher at rest holds no samples.                                     *)
LEMMA NothingCopied ==
    /\ NotFlushing \in [copied : BOOLEAN, samples : Seq(Sample)]
    /\ ToSet(NotFlushing.samples) = {}
<1>1. <<>> \in Seq(Sample)
  BY EmptySeq
<1>2. NotFlushing \in [copied : BOOLEAN, samples : Seq(Sample)] /\ NotFlushing.samples = <<>>
  BY <1>1 DEF NotFlushing
<1>3. ToSet(<<>>) = {}
  BY DEF ToSet
<1> QED
  BY <1>2, <1>3

(* IndInv is kept by CopyWindowsAndSave: the windows are newer than the    *)
(* samples beside them.                                                    *)
LEMMA SaveHolds ==
    ASSUME IndInv, CopyWindowsAndSave
    PROVE  IndInv'
<1>1. /\ file' = [samples |-> flush.samples, windows |-> windows]
      /\ flush' = NotFlushing
      /\ clock' = clock /\ req' = req /\ samples' = samples /\ windows' = windows
      /\ recorded' = recorded
  BY DEF CopyWindowsAndSave
<1>2. Shaped /\ OfThePast /\ WindowsFit /\ YoungAreThere
  BY DEF IndInv
<1>3. flush' \in [copied : BOOLEAN, samples : Seq(Sample)] /\ ToSet(flush'.samples) = {}
  BY <1>1, NothingCopied
<1>4. flush.samples \in Seq(Sample)
  BY <1>2 DEF Shaped
<1>5. /\ file' \in [samples : Seq(Sample), windows : [Windows -> Nat]]
      /\ file'.samples = flush.samples /\ file'.windows = windows
  BY <1>1, <1>2, <1>4 DEF Shaped
<1>6. Shaped'
  BY <1>1, <1>2, <1>3, <1>5 DEF Shaped
<1>7. OfThePast'
  BY <1>1, <1>2, <1>3, <1>5 DEF OfThePast, Past
<1>8. WindowsFit'
  BY <1>1, <1>2, <1>3, <1>5 DEF WindowsFit, Fits
<1>9. YoungAreThere'
  BY <1>1, <1>2 DEF YoungAreThere
<1> QED
  BY <1>6, <1>7, <1>8, <1>9 DEF IndInv

(* IndInv is kept by Restart: what the file holds fits the windows it      *)
(* holds.                                                                  *)
LEMMA RestartHolds ==
    ASSUME IndInv, Restart
    PROVE  IndInv'
<1> DEFINE all == file.samples
<1>1. /\ samples' = Capped(Merge(all))
      /\ windows' = file.windows
      /\ recorded' = ToSet(all)
      /\ req' = [r \in Requests |-> IF req[r].pc = "stream"
                                    THEN [req[r] EXCEPT !.pc = "done"] ELSE req[r]]
      /\ flush' = NotFlushing
      /\ file' = [file EXCEPT !.samples = samples']
      /\ clock' = clock
  BY DEF Restart
<1>2. Shaped /\ OfThePast /\ WindowsFit
  BY DEF IndInv
<1>3. /\ all \in Seq(Sample) /\ file.windows \in [Windows -> Nat]
      /\ file \in [samples : Seq(Sample), windows : [Windows -> Nat]]
  BY <1>2 DEF Shaped
<1>4. /\ \A x \in ToSet(all) : x.ts <= clock /\ req[x.by].pc = "done"
      /\ Fits(ToSet(all), file.windows)
  BY <1>2 DEF OfThePast, Past, WindowsFit
<1> HIDE DEF all
<1>5. IsFiniteSet(ToSet(all)) /\ ToSet(all) \subseteq Sample
  BY <1>3, MembersAreFinite, MembersAreSamples
<1>6. /\ samples' \in Seq(Sample) /\ Len(samples') <= Cap
      /\ ToSet(samples') \subseteq ToSet(all)
      /\ EachOnce(samples')
      /\ Cardinality(ToSet(all)) <= Cap =>
           \A x \in ToSet(all) : \E k \in DOMAIN samples' : SameKey(samples'[k], x)
  <2> DEFINE s == Capped(Merge(all))
  <2>1. /\ s \in Seq(Sample) /\ Len(s) <= Cap
        /\ ToSet(s) \subseteq ToSet(all)
        /\ EachOnce(s)
        /\ Cardinality(ToSet(all)) <= Cap =>
             \A x \in ToSet(all) : \E k \in DOMAIN s : SameKey(s[k], x)
    BY <1>3, StartsFromARecord
  <2>2. samples' = s
    BY <1>1
  <2> HIDE DEF s
  <2> QED
    BY <2>1, <2>2
<1>7. /\ req' \in [Requests -> [pc : {"idle", "stream", "done"}, head : Nat]]
      /\ \A u \in Requests : /\ req'[u].head <= clock
                             /\ req'[u].pc = "stream" => req'[u].head >= 1
      /\ \A u \in Requests : req[u].pc = "done" => req'[u].pc = "done"
  BY <1>1, <1>2 DEF Shaped
<1>8. flush' \in [copied : BOOLEAN, samples : Seq(Sample)] /\ ToSet(flush'.samples) = {}
  BY <1>1, NothingCopied
<1>9. /\ file' \in [samples : Seq(Sample), windows : [Windows -> Nat]]
      /\ file'.samples = samples' /\ file'.windows = file.windows
  BY <1>1, <1>3, <1>6
<1>10. Shaped'
  <2> DEFINE T == ToSet(all)
  <2>1. recorded' = T /\ IsFiniteSet(T) /\ T \subseteq Sample
    BY <1>1, <1>5
  <2> HIDE DEF T
  <2>2. recorded' \subseteq Sample /\ IsFiniteSet(recorded')
    BY <2>1
  <2>3. clock' \in Nat \ {0} /\ windows' \in [Windows -> Nat]
    BY <1>1, <1>2, <1>3 DEF Shaped
  <2>4. \A u \in Requests : /\ req'[u].head <= clock'
                            /\ req'[u].pc = "stream" => req'[u].head >= 1
    BY <1>1, <1>7
  <2> QED
    BY <1>6, <1>7, <1>8, <1>9, <2>2, <2>3, <2>4 DEF Shaped
<1>11. OfThePast'
  <2>1. \A x \in Sample : x.by \in Requests
    BY DEF Sample
  <2>2. \A x \in ToSet(all) : x.ts <= clock' /\ req'[x.by].pc = "done"
    BY <1>1, <1>4, <1>5, <1>7, <2>1
  <2> QED
    BY <1>1, <1>6, <1>8, <1>9, <2>2 DEF OfThePast, Past
<1>12. WindowsFit'
  BY <1>1, <1>4, <1>6, <1>8, <1>9 DEF WindowsFit, Fits
<1>13. YoungAreThere'
  BY <1>1, <1>6 DEF YoungAreThere
<1> QED
  BY <1>10, <1>11, <1>12, <1>13 DEF IndInv

(* IndInv is kept by Tick: fewer samples are young as time goes by.        *)
LEMMA TickHolds ==
    ASSUME IndInv, Tick
    PROVE  IndInv'
<1>1. /\ clock' = clock + 1
      /\ req' = req /\ samples' = samples /\ windows' = windows
      /\ flush' = flush /\ file' = file /\ recorded' = recorded
  BY DEF Tick
<1>2. Shaped /\ OfThePast /\ WindowsFit /\ YoungAreThere
  BY DEF IndInv
<1>3. \A x \in Sample : x.ts \in Nat
  BY DEF Sample
<1>4. clock \in Nat \ {0} /\ Keep \in Nat /\ recorded \subseteq Sample
  BY <1>2, LedgerAssumption DEF Shaped
<1>5. Shaped'
  <2>1. \A r \in Requests : req[r].head \in Nat
    BY <1>2 DEF Shaped
  <2>2. \A r \in Requests : req[r].head <= clock + 1
    BY <1>2, <1>4, <2>1 DEF Shaped
  <2> QED
    BY <1>1, <1>2, <1>4, <2>2 DEF Shaped
<1>6. ASSUME NEW S, S \subseteq Sample, Past(S)
      PROVE  \A x \in S : x.ts <= clock' /\ req'[x.by].pc = "done"
  BY <1>1, <1>3, <1>4, <1>6 DEF Past
<1>7. ToSet(flush.samples) \subseteq Sample /\ ToSet(file.samples) \subseteq Sample
  BY <1>2, MembersAreSamples DEF Shaped
<1>8. OfThePast'
  BY <1>1, <1>2, <1>4, <1>6, <1>7 DEF OfThePast, Past
<1>9. WindowsFit'
  BY <1>1, <1>2 DEF WindowsFit
<1>10. YoungAreThere'
  <2>1. Len(samples') <= Cap /\ ToSet(samples') \subseteq recorded' /\ EachOnce(samples')
    BY <1>1, <1>2 DEF YoungAreThere
  <2>2. ASSUME Cardinality(recorded') <= Cap, NEW x \in recorded', x.ts >= clock' - Keep
        PROVE  \E i \in DOMAIN samples' : SameKey(samples'[i], x)
    <3>1. x \in recorded /\ x.ts \in Nat
      BY <1>1, <1>3, <1>4, <2>2
    <3>2. x.ts >= clock - Keep
      BY <1>1, <1>4, <2>2, <3>1
    <3>3. Cardinality(recorded) <= Cap
      BY <1>1, <2>2
    <3>4. \E i \in DOMAIN samples : SameKey(samples[i], x)
      BY <1>2, <3>1, <3>2, <3>3 DEF YoungAreThere
    <3> QED
      BY <1>1, <3>4
  <2> QED
    BY <2>1, <2>2 DEF YoungAreThere
<1> QED
  BY <1>5, <1>8, <1>9, <1>10 DEF IndInv

(* For any requests, windows, cap and old files, the ledger, its copy at   *)
(* the flusher and its record in the file are of the past and fit their    *)
(* windows, and what is young is there.                                    *)
THEOREM LedgerInvariant == Spec => []IndInv
<1>1. Init => IndInv
  BY InitHolds
<1>2. IndInv /\ [Next]_vars => IndInv'
  <2> SUFFICES ASSUME IndInv, [Next]_vars
               PROVE  IndInv'
    OBVIOUS
  <2>1. CASE UNCHANGED vars
    BY <2>1 DEF IndInv, Shaped, OfThePast, Past, WindowsFit, Fits, YoungAreThere, vars
  <2> QED
    BY <2>1, StampHolds, RecordHolds, CopyHolds, SaveHolds, RestartHolds, TickHolds DEF Next
<1> QED
  BY <1>1, <1>2, PTL DEF Spec

(* No sample is younger than the window that is open, after any restart    *)
(* from a file whose two parts were copied at different moments:           *)
(* record_success and QuotaWindows::roll (state.rs).                       *)
THEOREM SamplesFitTheWindows == Spec => []NoSampleOutrunsTheWindow
<1>1. IndInv => NoSampleOutrunsTheWindow
  <2> SUFFICES ASSUME IndInv, NEW i \in DOMAIN samples, NEW w \in Windows, windows[w] > 0
               PROVE  samples[i].ts < windows[w] + Period[w]
    BY DEF NoSampleOutrunsTheWindow
  <2>1. samples[i] \in ToSet(samples)
    BY DEF ToSet
  <2> QED
    BY <2>1 DEF IndInv, WindowsFit, Fits
<1> QED
  BY <1>1, LedgerInvariant, PTL

(* The cap holds, and below it only samples older than 31 days are given   *)
(* up: LocalLedger::add_sample and merge, with every flush and restart.    *)
THEOREM OnlyTheOldIsForgotten == Spec => []OnlyOldForgotten
<1>1. IndInv => OnlyOldForgotten
  BY DEF IndInv, YoungAreThere, OnlyOldForgotten
<1> QED
  BY <1>1, LedgerInvariant, PTL

-----------------------------------------------------------------------------
(* The order of the records                                                *)

(* One sequence is the end of another.                                     *)
IsTail(q, s) ==
    \A k \in DOMAIN q : LET l == k + Len(s) - Len(q) IN l \in DOMAIN s /\ q[k] = s[l]

Before(s, y, z) == \E a, b \in DOMAIN s : a < b /\ s[a] = y /\ s[b] = z

(* What stands in the ledger against the order of the stamps has been      *)
(* recorded in that turn since startup; and whatever the ledger held at    *)
(* startup is older than the head of every delivery under way.             *)
TurnsKept ==
    /\ fresh \in Seq(Sample)
    /\ \A i, j \in DOMAIN samples :
          i < j /\ samples[i].ts > samples[j].ts => Before(fresh, samples[i], samples[j])
    /\ \A y \in ToSet(samples), r \in Requests :
          y \in ToSet(fresh) \/ (req[r].pc = "stream" => y.ts <= req[r].head)

(* The end of an end is an end, and dropping from the front leaves one.    *)
LEMMA TailOfTail ==
    ASSUME NEW S, NEW p \in Seq(S), NEW q \in Seq(S), NEW s \in Seq(S),
           IsTail(p, q), IsTail(q, s)
    PROVE  IsTail(p, s)
<1>1. /\ Len(p) \in Nat /\ Len(q) \in Nat /\ Len(s) \in Nat
      /\ DOMAIN p = 1..Len(p)
  BY LenProperties
<1> SUFFICES ASSUME NEW k \in DOMAIN p
             PROVE  k + Len(s) - Len(p) \in DOMAIN s /\ p[k] = s[k + Len(s) - Len(p)]
  BY DEF IsTail
<1> DEFINE l == k + Len(q) - Len(p)
<1>2. l \in DOMAIN q /\ p[k] = q[l]
  BY DEF IsTail
<1>3. k \in Int /\ l + Len(s) - Len(q) = k + Len(s) - Len(p)
  BY <1>1
<1> HIDE DEF l
<1>4. l + Len(s) - Len(q) \in DOMAIN s /\ q[l] = s[l + Len(s) - Len(q)]
  BY <1>2 DEF IsTail
<1> QED
  BY <1>2, <1>3, <1>4

LEMMA DroppedIsTail ==
    ASSUME NEW S, NEW s \in Seq(S), NEW m \in 1..Len(s)
    PROVE  IsTail(SubSeq(s, m, Len(s)), s)
<1> DEFINE q == SubSeq(s, m, Len(s))
<1>1. /\ q \in Seq(S) /\ Len(q) = Len(s) - m + 1
      /\ \A i \in 1..Len(q) : q[i] = s[m + i - 1] /\ m + i - 1 \in DOMAIN s
  BY DropFromFront
<1> HIDE DEF q
<1>2. DOMAIN q = 1..Len(q) /\ Len(s) \in Nat /\ Len(q) \in Nat /\ m \in Int
  BY <1>1, LenProperties
<1>3. ASSUME NEW k \in 1..Len(q)
      PROVE  k + Len(s) - Len(q) \in DOMAIN s /\ q[k] = s[k + Len(s) - Len(q)]
  <2>1. k + Len(s) - Len(q) = m + k - 1
    BY <1>1, <1>2
  <2> QED
    BY <1>1, <2>1
<1>4. IsTail(q, s)
  BY <1>2, <1>3 DEF IsTail
<1> QED
  BY <1>4 DEF q

LEMMA CappedIsTail ==
    ASSUME NEW S, NEW s \in Seq(S)
    PROVE  Capped(s) \in Seq(S) /\ IsTail(Capped(s), s)
<1>1. Len(s) \in Nat /\ DOMAIN s = 1..Len(s) /\ Cap \in Nat \ {0}
  BY LenProperties, LedgerAssumption
<1>2. CASE Len(s) > Cap
  <2> DEFINE m == Len(s) - Cap + 1
  <2>1. m \in 1..Len(s)
    BY <1>1, <1>2
  <2>2. Capped(s) = SubSeq(s, m, Len(s))
    BY <1>2 DEF Capped
  <2> HIDE DEF m
  <2> QED
    BY <2>1, <2>2, DroppedIsTail, CapKeepsTheNewest
<1>3. CASE ~(Len(s) > Cap)
  <2>1. Capped(s) = s
    BY <1>3 DEF Capped
  <2>2. \A k \in 1..Len(s) : k + Len(s) - Len(s) = k
    BY <1>1
  <2> QED
    BY <1>1, <2>1, <2>2 DEF IsTail
<1> QED
  BY <1>2, <1>3

LEMMA PrunedIsTail ==
    ASSUME NEW s \in Seq(Sample), Len(s) > 0
    PROVE  IsTail(Pruned(s), s)
<1> DEFINE kept == {i \in DOMAIN s : s[i].ts >= s[Len(s)].ts - Keep}
           m == Min(kept)
<1>1. Len(s) \in Nat /\ DOMAIN s = 1..Len(s) /\ Keep \in Nat
  BY LenProperties, LedgerAssumption
<1>2. s[Len(s)].ts \in Nat
  <2>1. s[Len(s)] \in Sample
    BY <1>1, ElementOfSeq
  <2> QED
    BY <2>1 DEF Sample
<1>3. Len(s) \in kept /\ kept \subseteq 1..Len(s) /\ kept \subseteq Nat
  BY <1>1, <1>2
<1>4. Pruned(s) = SubSeq(s, m, Len(s))
  BY DEF Pruned
<1> HIDE DEF kept
<1>5. m \in 1..Len(s)
  BY <1>3, MinIsLeast
<1> HIDE DEF m
<1> QED
  BY <1>4, <1>5, DroppedIsTail

(* The ledger with a sample added is the end of the ledger and the sample. *)
LEMMA AddedIsTail ==
    ASSUME NEW s \in Seq(Sample), NEW x \in Sample
    PROVE  /\ AddSample(s, x) \in Seq(Sample)
           /\ IsTail(AddSample(s, x), Append(s, x))
<1> DEFINE b == Append(s, x)
           c == Capped(b)
<1>1. b \in Seq(Sample) /\ Len(b) > 0
  <2>1. b \in Seq(Sample) /\ Len(b) = Len(s) + 1 /\ Len(s) \in Nat
    BY AppendProperties, LenProperties
  <2> QED
    BY <2>1
<1>2. AddSample(s, x) = Pruned(c)
  BY DEF AddSample
<1> HIDE DEF b
<1>3. c \in Seq(Sample) /\ IsTail(c, b) /\ Len(c) > 0
  BY <1>1, CappedIsTail, CapKeepsTheNewest
<1> HIDE DEF c
<1>4. Pruned(c) \in Seq(Sample) /\ IsTail(Pruned(c), c)
  BY <1>3, PrunedIsTail, PruneKeepsTheYoung
<1> QED
  BY <1>1, <1>2, <1>3, <1>4, TailOfTail DEF b

(* What comes after the end is behind all that was there.                  *)
LEMMA AppendKeepsTurns ==
    ASSUME NEW f \in Seq(Sample), NEW x \in Sample
    PROVE  /\ Append(f, x) \in Seq(Sample)
           /\ ToSet(f) \subseteq ToSet(Append(f, x)) /\ x \in ToSet(Append(f, x))
           /\ \A y, z : Before(f, y, z) => Before(Append(f, x), y, z)
           /\ \A y \in ToSet(f) : Before(Append(f, x), y, x)
<1> DEFINE g == Append(f, x)
           n == Len(f)
<1>1. /\ n \in Nat /\ DOMAIN f = 1..n /\ g \in Seq(Sample) /\ Len(g) = n + 1
      /\ \A i \in 1..n : g[i] = f[i]
      /\ g[n + 1] = x
  BY AppendProperties, LenProperties
<1> HIDE DEF g
<1>2. DOMAIN g = 1..n + 1
  BY <1>1, LenProperties
<1> HIDE DEF n
<1>3. \A i \in DOMAIN f : i \in DOMAIN g /\ g[i] = f[i] /\ i < n + 1
  BY <1>1, <1>2
<1>4. n + 1 \in DOMAIN g
  BY <1>1, <1>2
<1>5. ToSet(f) \subseteq ToSet(g) /\ x \in ToSet(g)
  BY <1>1, <1>3, <1>4 DEF ToSet
<1>6. \A y, z : Before(f, y, z) => Before(g, y, z)
  BY <1>3 DEF Before
<1>7. \A y \in ToSet(f) : Before(g, y, x)
  BY <1>1, <1>3, <1>4 DEF Before, ToSet
<1> QED
  BY <1>1, <1>5, <1>6, <1>7 DEF g

(* What startup makes of a record is in the order of the stamps.           *)
LEMMA StartsInOrder ==
    ASSUME NEW all \in Seq(Sample),
           NEW i \in DOMAIN Capped(Merge(all)), NEW j \in DOMAIN Capped(Merge(all)), i < j
    PROVE  ~(Capped(Merge(all))[i].ts > Capped(Merge(all))[j].ts)
<1> DEFINE M == Merge(all)
           s == Capped(M)
           d == Len(M) - Len(s)
<1>1. M \in Seq(Sample) /\ \A k, l \in DOMAIN M : k < l => KeyBefore(M[k], M[l])
  BY MergeIsRight
<1> HIDE DEF M
<1>2. s \in Seq(Sample) /\ IsTail(s, M)
  BY <1>1, CappedIsTail
<1>3. i \in DOMAIN s /\ j \in DOMAIN s
  BY DEF M
<1> HIDE DEF s
<1>4. /\ Len(M) \in Nat /\ Len(s) \in Nat /\ DOMAIN s = 1..Len(s) /\ DOMAIN M = 1..Len(M)
  BY <1>1, <1>2, LenProperties
<1> DEFINE k == i + Len(M) - Len(s)
           l == j + Len(M) - Len(s)
<1>5. k \in DOMAIN M /\ l \in DOMAIN M /\ s[i] = M[k] /\ s[j] = M[l]
  BY <1>2, <1>3 DEF IsTail
<1>6. k < l
  BY <1>3, <1>4
<1> HIDE DEF k, l
<1>7. KeyBefore(s[i], s[j])
  BY <1>1, <1>5, <1>6
<1>8. s[i] \in Sample /\ s[j] \in Sample
  BY <1>2, <1>3, <1>4, ElementOfSeq
<1>9. s[i].ts \in Nat /\ s[j].ts \in Nat
  BY <1>8 DEF Sample
<1>10. ~(s[i].ts > s[j].ts)
  BY <1>7, <1>9 DEF KeyBefore
<1> QED
  BY <1>10 DEF s, M

(* Whatever a process starts from is in the order of the stamps.           *)
LEMMA StartedInOrder ==
    ASSUME fresh' = <<>>, samples' \in Seq(Sample),
           \A i, j \in DOMAIN samples' : i < j => ~(samples'[i].ts > samples'[j].ts),
           \A r \in Requests : req'[r].pc # "stream"
    PROVE  TurnsKept'
<1>1. <<>> \in Seq(Sample)
  BY EmptySeq
<1> QED
  BY <1>1 DEF TurnsKept

LEMMA TurnsInit ==
    ASSUME Init
    PROVE  TurnsKept
<1>1. PICK parts \in OldFiles :
        /\ samples = Capped(Merge(FlattenSeq(parts))) /\ fresh = <<>>
        /\ req = [r \in Requests |-> [pc   |-> IF \E x \in recorded : x.by = r
                                               THEN "done" ELSE "idle",
                                      head |-> 0]]
  BY DEF Init
<1> DEFINE all == FlattenSeq(parts)
           Old == [ts : 0..1, cost : Costs, size : Sizes, by : Requests]
<1>2. all \in Seq(Sample)
  <2>1. all \in Seq(Old)
    BY OldFileAssumption
  <2>2. Old \subseteq Sample
    BY DEF Sample
  <2> HIDE DEF Old, all
  <2> QED
    BY <2>1, <2>2
<1>3. samples = Capped(Merge(all)) /\ fresh = <<>>
  BY <1>1
<1> HIDE DEF all
<1>4. \A i, j \in DOMAIN samples : i < j => ~(samples[i].ts > samples[j].ts)
  BY <1>2, <1>3, StartsInOrder
<1>5. \A r \in Requests : req[r].pc # "stream"
  BY <1>1
<1>6. <<>> \in Seq(Sample)
  BY EmptySeq
<1> QED
  BY <1>3, <1>4, <1>5, <1>6 DEF TurnsKept

LEMMA TurnsStamp ==
    ASSUME IndInv, TurnsKept, NEW r \in Requests, Stamp(r)
    PROVE  TurnsKept'
<1>1. /\ req' = [req EXCEPT ![r] = [pc |-> "stream", head |-> clock]]
      /\ samples' = samples /\ fresh' = fresh
  BY DEF Stamp
<1>2. /\ ToSet(samples) \subseteq recorded
      /\ \A x \in recorded : x.ts <= clock
  BY DEF IndInv, YoungAreThere, OfThePast, Past
<1>3. DOMAIN req = Requests
  BY DEF IndInv, Shaped
<1>4. ASSUME NEW y \in ToSet(samples), NEW u \in Requests
      PROVE  y \in ToSet(fresh) \/ (req'[u].pc = "stream" => y.ts <= req'[u].head)
  BY <1>1, <1>2, <1>3 DEF TurnsKept
<1> QED
  BY <1>1, <1>4 DEF TurnsKept

LEMMA TurnsRecord ==
    ASSUME IndInv, TurnsKept, NEW r \in Requests, Record(r)
    PROVE  TurnsKept'
<1>1. /\ req[r].pc = "stream" /\ req' = [req EXCEPT ![r].pc = "done"]
      /\ \/ samples' = samples /\ fresh' = fresh
         \/ \E x \in Sample :
               /\ x.ts = req[r].head
               /\ samples' = AddSample(samples, x)
               /\ fresh' = Append(fresh, x)
  BY RecordStep DEF IndInv
<1>2. /\ req \in [Requests -> [pc : {"idle", "stream", "done"}, head : Nat]]
      /\ samples \in Seq(Sample) /\ fresh \in Seq(Sample)
  BY DEF IndInv, Shaped, TurnsKept
<1>3. \A u \in Requests : req'[u].pc = "stream" =>
          req[u].pc = "stream" /\ req'[u].head = req[u].head
  BY <1>1, <1>2
<1>4. CASE samples' = samples /\ fresh' = fresh
  BY <1>3, <1>4 DEF TurnsKept
<1>5. ASSUME NEW x \in Sample, x.ts = req[r].head,
             samples' = AddSample(samples, x), fresh' = Append(fresh, x)
      PROVE  TurnsKept'
  <2> DEFINE a == AddSample(samples, x)
             b == Append(samples, x)
             g == Append(fresh, x)
             n == Len(samples)
  <2>1. a \in Seq(Sample) /\ IsTail(a, b)
    BY <1>2, AddedIsTail
  <2>2. /\ g \in Seq(Sample) /\ ToSet(fresh) \subseteq ToSet(g) /\ x \in ToSet(g)
        /\ \A y, z : Before(fresh, y, z) => Before(g, y, z)
        /\ \A y \in ToSet(fresh) : Before(g, y, x)
    BY <1>2, AppendKeepsTurns
  <2>3. /\ n \in Nat /\ DOMAIN samples = 1..n /\ b \in Seq(Sample) /\ Len(b) = n + 1
        /\ \A i \in 1..n : b[i] = samples[i]
        /\ b[n + 1] = x
    BY <1>2, AppendProperties, LenProperties
  <2>4. samples' = a /\ fresh' = g
    BY <1>5
  <2> HIDE DEF a, b, g, n
  <2>5. /\ DOMAIN b = 1..n + 1 /\ DOMAIN a = 1..Len(a)
        /\ Len(a) \in Nat /\ Len(b) \in Nat
    BY <2>1, <2>3, LenProperties
  <2>6. ASSUME NEW k \in DOMAIN b, NEW l \in DOMAIN b, k < l, b[k].ts > b[l].ts
        PROVE  Before(g, b[k], b[l])
    <3>1. k \in DOMAIN samples /\ b[k] = samples[k] /\ b[k] \in ToSet(samples)
      <4>1. k \in 1..n
        BY <2>3, <2>5, <2>6
      <4> QED
        BY <2>3, <4>1 DEF ToSet
    <3>2. CASE l = n + 1
      <4>1. b[l] = x /\ b[k].ts > req[r].head
        BY <1>5, <2>3, <2>6, <3>2
      <4>2. b[k] \in Sample /\ req[r].head \in Nat
        BY <1>2, <2>3, <3>1, ElementOfSeq
      <4>3. ~(b[k].ts <= req[r].head)
        BY <4>1, <4>2 DEF Sample
      <4>4. b[k] \in ToSet(fresh)
        BY <1>1, <3>1, <4>3 DEF TurnsKept
      <4> QED
        BY <2>2, <4>1, <4>4
    <3>3. CASE l # n + 1
      <4>1. l \in DOMAIN samples /\ b[l] = samples[l]
        <5>1. l \in 1..n
          BY <2>3, <2>5, <3>3
        <5> QED
          BY <2>3, <5>1
      <4>2. Before(fresh, b[k], b[l])
        BY <2>6, <3>1, <4>1 DEF TurnsKept
      <4> QED
        BY <2>2, <4>2
    <3> QED
      BY <3>2, <3>3
  <2>7. ASSUME NEW i \in DOMAIN a, NEW j \in DOMAIN a, i < j, a[i].ts > a[j].ts
        PROVE  Before(g, a[i], a[j])
    <3> DEFINE k == i + Len(b) - Len(a)
               l == j + Len(b) - Len(a)
    <3>1. k \in DOMAIN b /\ l \in DOMAIN b /\ a[i] = b[k] /\ a[j] = b[l]
      BY <2>1 DEF IsTail
    <3>2. k < l
      BY <2>5, <2>7
    <3> HIDE DEF k, l
    <3> QED
      BY <2>6, <2>7, <3>1, <3>2
  <2>8. ASSUME NEW y \in ToSet(a), NEW u \in Requests, req'[u].pc = "stream"
        PROVE  y \in ToSet(g) \/ y.ts <= req'[u].head
    <3>1. PICK i \in DOMAIN a : y = a[i]
      BY DEF ToSet
    <3>2. \E k \in DOMAIN b : y = b[k]
      BY <2>1, <3>1 DEF IsTail
    <3>3. y = x \/ y \in ToSet(samples)
      BY <2>3, <2>5, <3>2 DEF ToSet
    <3> QED
      BY <1>3, <2>2, <2>8, <3>3 DEF TurnsKept
  <2> QED
    BY <2>2, <2>4, <2>7, <2>8 DEF TurnsKept
<1> QED
  BY <1>1, <1>4, <1>5

LEMMA TurnsRestart ==
    ASSUME IndInv, Restart
    PROVE  TurnsKept'
<1> DEFINE all == file.samples
<1>1. all \in Seq(Sample) /\ DOMAIN req = Requests
  BY DEF IndInv, Shaped
<1>2. /\ samples' = Capped(Merge(all)) /\ fresh' = <<>>
      /\ \A r \in Requests : req'[r].pc # "stream"
  BY <1>1 DEF Restart, IndInv, Shaped
<1> HIDE DEF all
<1>3. samples' \in Seq(Sample)
  BY <1>1, <1>2, StartsFromARecord
<1>4. \A i, j \in DOMAIN samples' : i < j => ~(samples'[i].ts > samples'[j].ts)
  BY <1>1, <1>2, StartsInOrder
<1> QED
  BY <1>2, <1>3, <1>4, StartedInOrder

(* The ledger answers backwards and stops at the first sample that is too  *)
(* old (cost_since, src/state.rs): all that it misses has been overtaken   *)
(* since startup by a delivery stamped before the time asked for, however  *)
(* many deliveries end in whatever order, and whatever was merged at       *)
(* startup, capped or pruned.                                              *)
THEOREM OnlyTheOvertakenAreMissed == Spec => []MissedOnlyWhenOvertaken
<1>1. Init => TurnsKept
  BY TurnsInit
<1>2. IndInv /\ TurnsKept /\ [Next]_vars => TurnsKept'
  <2> SUFFICES ASSUME IndInv, TurnsKept, [Next]_vars
               PROVE  TurnsKept'
    OBVIOUS
  <2>1. CASE samples' = samples /\ fresh' = fresh /\ req' = req
    BY <2>1 DEF TurnsKept
  <2> QED
    BY <2>1, TurnsStamp, TurnsRecord, TurnsRestart
       DEF Next, CopyLedger, CopyWindowsAndSave, Tick, vars
<1>3. IndInv /\ TurnsKept => MissedOnlyWhenOvertaken
  <2> SUFFICES ASSUME IndInv, TurnsKept, NEW since \in 0..clock, NEW i \in DOMAIN samples,
                      samples[i].ts >= since, i \notin TailSince(samples, since)
               PROVE  \E a, b \in DOMAIN fresh :
                         a < b /\ fresh[a] = samples[i] /\ fresh[b].ts < since
    BY DEF MissedOnlyWhenOvertaken
  <2>1. PICK j \in DOMAIN samples : samples[j].ts < since /\ ~(j < i)
    BY DEF TailSince
  <2>2. samples \in Seq(Sample) /\ clock \in Nat
    BY DEF IndInv, Shaped
  <2>3. i \in Nat /\ j \in Nat /\ samples[i] \in Sample /\ samples[j] \in Sample
    BY <2>2, LenProperties, ElementOfSeq
  <2>4. samples[i].ts \in Nat /\ samples[j].ts \in Nat /\ since \in Int
    BY <2>2, <2>3 DEF Sample
  <2>5. samples[i].ts > samples[j].ts /\ i # j
    BY <2>1, <2>4
  <2>6. i < j
    BY <2>1, <2>3, <2>5
  <2>7. Before(fresh, samples[i], samples[j])
    BY <2>5, <2>6 DEF TurnsKept
  <2> QED
    BY <2>1, <2>7 DEF Before
<1> QED
  BY <1>1, <1>2, <1>3, LedgerInvariant, PTL DEF Spec

-----------------------------------------------------------------------------
(* Money: the sums of the model against one another                        *)

(* The cost of a set of samples is the sum of their costs, in any order.   *)
LEMMA CostOfIsSum ==
    ASSUME NEW S, IsFiniteSet(S)
    PROVE  CostOf(S) = SumFunctionOnSet([x \in S |-> x.cost], S)
<1> DEFINE f == [x \in S |-> x.cost]
           Solves(g) == g = [s \in SUBSET S |-> IF s = {} THEN 0
                                                ELSE Some(s).cost + g[s \ {Some(s)}]]
           g == CHOOSE g : Solves(g)
<1>1. CostOf(S) = g[S]
  BY DEF CostOf, MapThenSumSet, MapThenFoldSet, Some
<1>2. \A k : Recurs(k, f, S) <=> Solves(k)
  <2> SUFFICES ASSUME NEW k
               PROVE  [s \in SUBSET S |-> IF s = {} THEN 0
                                          ELSE f[Some(s)] + k[s \ {Some(s)}]]
                    = [s \in SUBSET S |-> IF s = {} THEN 0
                                          ELSE Some(s).cost + k[s \ {Some(s)}]]
    BY DEF Recurs
  <2>1. \A s \in SUBSET S : s # {} => f[Some(s)] = Some(s).cost
    BY DEF Some
  <2> HIDE DEF f
  <2> QED
    BY <2>1
<1> HIDE DEF f, Solves
<1>3. Solves(g)
  BY <1>2, SolutionExists
<1> HIDE DEF g
<1>4. SumFunctionOnSet(f, S) = g[S]
  BY <1>2, <1>3, SolutionIsSum
<1> QED
  BY <1>1, <1>4 DEF f

(* So is the cost of the samples at some places of a sequence.             *)
LEMMA CostAtIsSum ==
    ASSUME NEW q, NEW I, IsFiniteSet(I)
    PROVE  CostAt(q, I) = SumFunctionOnSet([i \in I |-> q[i].cost], I)
<1> DEFINE f == [i \in I |-> q[i].cost]
           Solves(g) == g = [s \in SUBSET I |-> IF s = {} THEN 0
                                                ELSE q[Some(s)].cost + g[s \ {Some(s)}]]
           g == CHOOSE g : Solves(g)
<1>1. CostAt(q, I) = g[I]
  BY DEF CostAt, MapThenSumSet, MapThenFoldSet, Some
<1>2. \A k : Recurs(k, f, I) <=> Solves(k)
  <2> SUFFICES ASSUME NEW k
               PROVE  [s \in SUBSET I |-> IF s = {} THEN 0
                                          ELSE f[Some(s)] + k[s \ {Some(s)}]]
                    = [s \in SUBSET I |-> IF s = {} THEN 0
                                          ELSE q[Some(s)].cost + k[s \ {Some(s)}]]
    BY DEF Recurs
  <2>1. \A s \in SUBSET I : s # {} => f[Some(s)] = q[Some(s)].cost
    BY DEF Some
  <2> HIDE DEF f
  <2> QED
    BY <2>1
<1> HIDE DEF f, Solves
<1>3. Solves(g)
  BY <1>2, SolutionExists
<1> HIDE DEF g
<1>4. SumFunctionOnSet(f, I) = g[I]
  BY <1>2, <1>3, SolutionIsSum
<1> QED
  BY <1>1, <1>4 DEF f

(* A sample costs something or nothing.                                    *)
LEMMA CostType == \A x \in Sample : x.cost \in Nat
BY LedgerAssumption DEF Sample

(* Fewer samples cost no more, and one more costs its cost more.           *)
LEMMA CostOfSets ==
    ASSUME NEW S, IsFiniteSet(S), S \subseteq Sample
    PROVE  /\ CostOf(S) \in Nat
           /\ \A T \in SUBSET S : CostOf(T) <= CostOf(S)
           /\ \A x \in Sample \ S : CostOf(S \cup {x}) = CostOf(S) + x.cost
<1> DEFINE f == [x \in Sample |-> x.cost]
<1>1. \A x \in Sample : f[x] = x.cost /\ f[x] \in Nat
  BY CostType
<1>2. ASSUME NEW T, IsFiniteSet(T), T \subseteq Sample
      PROVE  CostOf(T) = SumFunctionOnSet(f, T)
  <2> DEFINE h == [x \in T |-> x.cost]
  <2>1. CostOf(T) = SumFunctionOnSet(h, T)
    BY <1>2, CostOfIsSum
  <2>2. \A x \in T : h[x] = f[x]
    BY <1>2
  <2> HIDE DEF h, f
  <2> QED
    BY <1>2, <2>1, <2>2, SumSame
<1> HIDE DEF f
<1>3. CostOf(S) = SumFunctionOnSet(f, S) /\ CostOf(S) \in Nat
  <2>1. S \in SUBSET S /\ \A x \in S : f[x] \in Nat
    BY <1>1
  <2> QED
    BY <1>2, <2>1, SumPart
<1>4. ASSUME NEW T \in SUBSET S PROVE CostOf(T) <= CostOf(S)
  <2>1. IsFiniteSet(T) /\ T \subseteq Sample /\ \A x \in S : f[x] \in Nat
    BY <1>1, FS_Subset
  <2>2. SumFunctionOnSet(f, T) <= SumFunctionOnSet(f, S)
    BY <2>1, SumPart
  <2> QED
    BY <1>2, <1>3, <2>1, <2>2
<1>5. ASSUME NEW x \in Sample \ S PROVE CostOf(S \cup {x}) = CostOf(S) + x.cost
  <2>1. IsFiniteSet(S \cup {x}) /\ S \cup {x} \subseteq Sample
    BY FS_AddElement
  <2>2. \A y \in S \cup {x} : f[y] \in Int
    BY <1>1, <2>1
  <2>3. SumFunctionOnSet(f, S \cup {x}) = f[x] + SumFunctionOnSet(f, S)
    BY <2>2, SumAdd
  <2> QED
    BY <1>1, <1>2, <1>3, <2>1, <2>3
<1> QED
  BY <1>3, <1>4, <1>5

(* Samples that are there once cost no more than a set they are in.        *)
LEMMA PlacesCostTheirSet ==
    ASSUME NEW q \in Seq(Sample), EachOnce(q), NEW I \in SUBSET DOMAIN q,
           NEW T, IsFiniteSet(T), T \subseteq Sample, \A i \in I : q[i] \in T
    PROVE  CostAt(q, I) \in Nat /\ CostAt(q, I) <= CostOf(T)
<1> DEFINE k == [i \in I |-> q[i].cost]
           f == [x \in T |-> x.cost]
           h == [i \in I |-> q[i]]
<1>1. IsFiniteSet(I) /\ \A i \in I : q[i] \in Sample
  <2>1. DOMAIN q = 1..Len(q) /\ Len(q) \in Nat /\ \A i \in 1..Len(q) : q[i] \in Sample
    BY LenProperties, ElementOfSeq
  <2>2. IsFiniteSet(DOMAIN q)
    BY <2>1, FS_Interval
  <2> QED
    BY <2>1, <2>2, FS_Subset
<1>2. /\ CostAt(q, I) = SumFunctionOnSet(k, I)
      /\ CostOf(T) = SumFunctionOnSet(f, T)
  BY <1>1, CostAtIsSum, CostOfIsSum
<1>3. /\ \A i \in I : h[i] \in T /\ k[i] = f[h[i]] /\ k[i] \in Nat
      /\ \A x \in T : f[x] \in Nat
  BY <1>1, CostType
<1>4. \A i, j \in I : h[i] = h[j] => i = j
  BY DEF EachOnce
<1> HIDE DEF k, f, h
<1>5. SumFunctionOnSet(k, I) <= SumFunctionOnSet(f, T)
  BY <1>1, <1>3, <1>4, SumRenamed
<1>6. I \in SUBSET I
  OBVIOUS
<1>7. SumFunctionOnSet(k, I) \in Nat
  BY <1>1, <1>3, <1>6, SumPart
<1> QED
  BY <1>2, <1>5, <1>7

(* And their set costs no more than they do.                               *)
LEMMA SetCostsItsPlaces ==
    ASSUME NEW q \in Seq(Sample)
    PROVE  CostOf(ToSet(q)) <= CostAt(q, DOMAIN q)
<1> DEFINE I == DOMAIN q
           T == ToSet(q)
           k == [i \in I |-> q[i].cost]
           f == [x \in T |-> x.cost]
           h == [x \in T |-> CHOOSE i \in I : q[i] = x]
<1>1. IsFiniteSet(I) /\ IsFiniteSet(T) /\ \A i \in I : q[i] \in Sample
  <2>1. I = 1..Len(q) /\ Len(q) \in Nat /\ \A i \in 1..Len(q) : q[i] \in Sample
    BY LenProperties, ElementOfSeq
  <2>2. IsFiniteSet(I)
    BY <2>1, FS_Interval
  <2> QED
    BY <2>1, <2>2, MembersAreFinite
<1>2. /\ CostAt(q, I) = SumFunctionOnSet(k, I)
      /\ CostOf(T) = SumFunctionOnSet(f, T)
  BY <1>1, CostAtIsSum, CostOfIsSum
<1>3. \A x \in T : h[x] \in I /\ q[h[x]] = x
  BY DEF ToSet
<1>4. \A i \in I : k[i] \in Nat
  BY <1>1, CostType
<1>5. \A x \in T : f[x] = k[h[x]]
  BY <1>3
<1> HIDE DEF k, f, h, T, I
<1>6. \A x, y \in T : h[x] = h[y] => x = y
  BY <1>3
<1>7. \A x \in T : h[x] \in I
  BY <1>3
<1>8. SumFunctionOnSet(f, T) <= SumFunctionOnSet(k, I)
  BY <1>1, <1>4, <1>5, <1>6, <1>7, SumRenamed
<1> QED
  BY <1>2, <1>8 DEF I, T

(* The total lies between what the ledger holds and what was recorded.     *)
TotalTrue ==
    /\ total \in Nat
    /\ CostAt(samples, DOMAIN samples) <= total
    /\ total <= CostOf(recorded)

(* What startup counts of a record is no more than the record.             *)
LEMMA StartsWithoutInventing ==
    ASSUME NEW all \in Seq(Sample)
    PROVE  LET M == Merge(all)
               s == Capped(M)
               R == ToSet(all)
           IN  /\ CostAt(s, DOMAIN s) \in Nat /\ CostAt(M, DOMAIN M) \in Nat
               /\ CostAt(s, DOMAIN s) <= CostAt(M, DOMAIN M)
               /\ CostAt(M, DOMAIN M) <= CostOf(R)
               /\ CostAt(s, DOMAIN s) <= CostOf(R)
<1> DEFINE M == Merge(all)
           s == Capped(M)
           R == ToSet(all)
<1>1. M \in Seq(Sample) /\ ToSet(M) \subseteq R /\ EachOnce(M)
  BY MergeIsRight
<1> HIDE DEF M
<1>2. s \in Seq(Sample) /\ ToSet(s) \subseteq ToSet(M) /\ EachOnce(s)
  BY <1>1, CapKeepsTheNewest
<1> HIDE DEF s
<1>3. /\ IsFiniteSet(R) /\ R \subseteq Sample
      /\ IsFiniteSet(ToSet(M)) /\ ToSet(M) \subseteq Sample
  BY <1>1, MembersAreFinite, MembersAreSamples
<1>4. /\ \A i \in DOMAIN M : M[i] \in ToSet(M) /\ M[i] \in R
      /\ \A i \in DOMAIN s : s[i] \in ToSet(M) /\ s[i] \in R
  BY <1>1, <1>2 DEF ToSet
<1> HIDE DEF R
<1>5. CostAt(M, DOMAIN M) \in Nat /\ CostAt(M, DOMAIN M) <= CostOf(R)
  BY <1>1, <1>3, <1>4, PlacesCostTheirSet
<1>6. /\ CostAt(s, DOMAIN s) \in Nat /\ CostAt(s, DOMAIN s) <= CostOf(R)
      /\ CostAt(s, DOMAIN s) <= CostOf(ToSet(M))
  BY <1>2, <1>3, <1>4, PlacesCostTheirSet
<1>7. CostOf(ToSet(M)) <= CostAt(M, DOMAIN M) /\ CostOf(ToSet(M)) \in Nat
  BY <1>1, <1>3, SetCostsItsPlaces, CostOfSets
<1>8. CostAt(s, DOMAIN s) <= CostAt(M, DOMAIN M)
  BY <1>5, <1>6, <1>7
<1> QED
  BY <1>5, <1>6, <1>8 DEF M, s, R

(* TotalTrue holds at the start.                                           *)
LEMMA TotalInit == Init => TotalTrue
<1> SUFFICES ASSUME Init PROVE TotalTrue
  OBVIOUS
<1>1. PICK parts \in OldFiles :
        LET all == FlattenSeq(parts)
        IN  /\ recorded = ToSet(all)
            /\ samples = Capped(Merge(all))
            /\ total = CostAt(Merge(all), DOMAIN Merge(all))
  BY DEF Init
<1> DEFINE all == FlattenSeq(parts)
           Old == [ts : 0..1, cost : Costs, size : Sizes, by : Requests]
<1>2. all \in Seq(Sample)
  <2>1. all \in Seq(Old)
    BY OldFileAssumption
  <2>2. Old \subseteq Sample
    BY DEF Sample
  <2> HIDE DEF Old, all
  <2> QED
    BY <2>1, <2>2
<1>3. /\ recorded = ToSet(all) /\ samples = Capped(Merge(all))
      /\ total = CostAt(Merge(all), DOMAIN Merge(all))
  BY <1>1
<1> HIDE DEF all
<1> QED
  BY <1>2, <1>3, StartsWithoutInventing DEF TotalTrue

(* A delivery adds its cost to the total, and no more to what is held.     *)
LEMMA TotalRecord ==
    ASSUME IndInv, TotalTrue, NEW r \in Requests, Record(r)
    PROVE  TotalTrue'
<1>1. PICK cost \in Costs, size \in Sizes :
          LET x == [ts |-> req[r].head, cost |-> cost, size |-> size, by |-> r]
          IN  IF size = 0
              THEN UNCHANGED <<samples, total, recorded, fresh, windows>>
              ELSE /\ windows' = Roll(windows, x.ts)
                   /\ samples' = AddSample(samples, x)
                   /\ total' = total + cost
                   /\ recorded' = recorded \cup {x}
                   /\ fresh' = Append(fresh, x)
  BY DEF Record
<1> DEFINE x == [ts |-> req[r].head, cost |-> cost, size |-> size, by |-> r]
<1>2. x \in Sample /\ x.by = r /\ x.cost = cost /\ cost \in Nat
  BY LedgerAssumption DEF IndInv, Shaped, Sample
<1>3. \/ samples' = samples /\ recorded' = recorded /\ total' = total
      \/ /\ samples' = AddSample(samples, x)
         /\ total' = total + cost
         /\ recorded' = recorded \cup {x}
  BY <1>1
<1> HIDE DEF x
<1>4. CASE samples' = samples /\ recorded' = recorded /\ total' = total
  BY <1>4 DEF TotalTrue
<1>5. CASE /\ samples' = AddSample(samples, x)
           /\ total' = total + cost
           /\ recorded' = recorded \cup {x}
  <2>1. /\ recorded \subseteq Sample /\ IsFiniteSet(recorded)
        /\ samples \in Seq(Sample) /\ EachOnce(samples) /\ ToSet(samples) \subseteq recorded
    BY DEF IndInv, Shaped, YoungAreThere
  <2>2. x \notin recorded /\ x \notin ToSet(samples)
    BY <1>2, <2>1 DEF IndInv, OfThePast, Past, Record
  <2> DEFINE a == AddSample(samples, x)
             T == ToSet(samples)
  <2>3. a \in Seq(Sample) /\ ToSet(a) \subseteq T \cup {x} /\ EachOnce(a)
    BY <1>2, <2>1, <2>2, AddingKeepsTheYoung
  <2> HIDE DEF a
  <2>4. IsFiniteSet(T) /\ T \subseteq Sample
    BY <2>1, MembersAreFinite
  <2>5. IsFiniteSet(T \cup {x}) /\ T \cup {x} \subseteq Sample
    BY <1>2, <2>4, FS_AddElement
  <2>6. CostOf(T) <= CostAt(samples, DOMAIN samples)
    BY <2>1, SetCostsItsPlaces
  <2>7. x \in Sample \ T /\ x \in Sample \ recorded
    BY <1>2, <2>2
  <2> HIDE DEF T
  <2>8. /\ CostOf(T) \in Nat /\ CostOf(recorded) \in Nat
        /\ CostOf(T \cup {x}) = CostOf(T) + cost
        /\ CostOf(recorded \cup {x}) = CostOf(recorded) + cost
    BY <1>2, <2>1, <2>4, <2>7, CostOfSets
  <2>9. \A i \in DOMAIN a : a[i] \in T \cup {x}
    BY <2>3 DEF ToSet
  <2>10. CostAt(a, DOMAIN a) \in Nat /\ CostAt(a, DOMAIN a) <= CostOf(T \cup {x})
    BY <2>3, <2>5, <2>9, PlacesCostTheirSet
  <2>11. CostAt(samples, DOMAIN samples) \in Nat
    <3>1. \A i \in DOMAIN samples : samples[i] \in T
      BY DEF T, ToSet
    <3> QED
      BY <2>1, <2>4, <3>1, PlacesCostTheirSet
  <2>12. samples' = a
    BY <1>5 DEF a
  <2>13. /\ total + cost \in Nat /\ CostAt(a, DOMAIN a) <= total + cost
         /\ total + cost <= CostOf(recorded \cup {x})
    BY <1>2, <2>6, <2>8, <2>10, <2>11 DEF TotalTrue
  <2> QED
    BY <1>5, <2>12, <2>13 DEF TotalTrue
<1> QED
  BY <1>3, <1>4, <1>5

(* TotalTrue is kept by every step.                                        *)
LEMMA TotalStep == IndInv /\ TotalTrue /\ [Next]_vars => TotalTrue'
<1> SUFFICES ASSUME IndInv, TotalTrue, [Next]_vars PROVE TotalTrue'
  OBVIOUS
<1>1. ASSUME NEW r \in Requests, Record(r) PROVE TotalTrue'
  BY <1>1, TotalRecord
<1>2. CASE Restart
  <2> DEFINE all == file.samples
             s == Capped(Merge(all))
  <2>1. all \in Seq(Sample)
    BY DEF IndInv, Shaped
  <2>2. CostAt(s, DOMAIN s) \in Nat /\ CostAt(s, DOMAIN s) <= CostOf(ToSet(all))
    BY <2>1, StartsWithoutInventing
  <2>3. samples' = s /\ total' = CostAt(samples', DOMAIN samples') /\ recorded' = ToSet(all)
    BY <1>2 DEF Restart
  <2> HIDE DEF s, all
  <2>4. total' = CostAt(s, DOMAIN s)
    BY <2>3
  <2> QED
    BY <2>2, <2>3, <2>4 DEF TotalTrue
<1>3. CASE samples' = samples /\ total' = total /\ recorded' = recorded
  BY <1>3 DEF TotalTrue
<1> QED
  BY <1>1, <1>2, <1>3 DEF Next, Stamp, CopyLedger, CopyWindowsAndSave, Tick, vars

(* "Counting it twice would inflate the plan by real, spendable money":    *)
(* for every start the ledger answers with no more than was recorded since *)
(* then, and its total is no more than all that was, whatever was merged,  *)
(* flushed, pruned or lost (record_success, LocalLedger::merge and         *)
(* cost_since, src/state.rs).                                              *)
THEOREM NothingIsInvented == Spec => []NothingInvented
<1>1. IndInv /\ TotalTrue => NothingInvented
  <2> SUFFICES ASSUME IndInv, TotalTrue, NEW since \in 0..clock
               PROVE  CostSince(samples, since) <= CostOf({x \in recorded : x.ts >= since})
    BY DEF NothingInvented, TotalTrue
  <2> DEFINE I == TailSince(samples, since)
             T == {x \in recorded : x.ts >= since}
  <2>1. /\ samples \in Seq(Sample) /\ EachOnce(samples) /\ ToSet(samples) \subseteq recorded
        /\ recorded \subseteq Sample /\ IsFiniteSet(recorded) /\ clock \in Nat
    BY DEF IndInv, Shaped, YoungAreThere
  <2>2. IsFiniteSet(T) /\ T \subseteq Sample
    BY <2>1, FS_Subset
  <2>3. I \subseteq DOMAIN samples /\ \A i \in I : samples[i] \in T
    <3>1. DOMAIN samples \subseteq Nat /\ \A x \in Sample : x.ts \in Nat
      BY <2>1, LenProperties DEF Sample
    <3>2. \A i \in DOMAIN samples : samples[i] \in recorded
      BY <2>1 DEF ToSet
    <3>3. \A i \in I : ~(samples[i].ts < since)
      BY <3>1 DEF TailSince
    <3> QED
      BY <2>1, <3>1, <3>2, <3>3 DEF TailSince
  <2> HIDE DEF I, T
  <2> QED
    BY <2>1, <2>2, <2>3, PlacesCostTheirSet DEF CostSince, I, T
<1>2. Init => TotalTrue
  BY TotalInit
<1>3. IndInv /\ TotalTrue /\ [Next]_vars => TotalTrue'
  BY TotalStep
<1> QED
  BY <1>1, <1>2, <1>3, LedgerInvariant, PTL DEF Spec
=============================================================================
