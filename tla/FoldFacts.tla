------------------------------- MODULE FoldFacts ------------------------------
(***************************************************************************)
(* Facts about the folds of the community modules: what a sum over a       *)
(* finite set is made of, whatever order it is taken in, and that a        *)
(* recursion over a finite set, which FoldLeft is, has a solution.         *)
(***************************************************************************)
EXTENDS Integers, FiniteSetsExt, Functions, FiniteSetTheorems, WellFoundedInduction, TLAPS

(* A set of naturals that is not empty has a least member.                 *)
LEMMA LeastMember ==
    ASSUME NEW S \in SUBSET Nat, S # {}
    PROVE  \E x \in S : \A y \in S : x <= y
<1> DEFINE R == OpToRel(<, Nat)
<1>1. IsWellFoundedOn(R, Nat)
  BY NatLessThanWellFounded
<1>2. R = {ss \in Nat \X Nat : ss[1] < ss[2]}
  BY DEF OpToRel
<1> HIDE DEF R
<1>3. PICK x \in S : \A y \in S : <<y, x>> \notin R
  BY <1>1, WFMin
<1>4. ASSUME NEW y \in S PROVE x <= y
  <2>1. x \in Nat /\ y \in Nat /\ <<y, x>> \in Nat \X Nat
    OBVIOUS
  <2>2. ~(<<y, x>>[1] < <<y, x>>[2])
    BY <1>2, <1>3, <2>1
  <2> QED
    BY <2>1, <2>2
<1> QED
  BY <1>4

(* A set without one of its members has one less.                          *)
LEMMA OneLess ==
    ASSUME NEW S, IsFiniteSet(S), NEW x \in S
    PROVE  /\ IsFiniteSet(S \ {x}) /\ Cardinality(S \ {x}) \in Nat
           /\ Cardinality(S) = Cardinality(S \ {x}) + 1
<1>1. IsFiniteSet(S \ {x}) /\ Cardinality(S \ {x}) = Cardinality(S) - 1
  BY FS_RemoveElement
<1>2. Cardinality(S) \in Nat /\ Cardinality(S \ {x}) \in Nat
  BY <1>1, FS_CardinalityType
<1> QED
  BY <1>1, <1>2

(* Induction over a finite set, with the sets it holds for as a set.       *)
LEMMA InductionOnSets ==
    ASSUME NEW S, IsFiniteSet(S), NEW Good, {} \in Good,
           \A T \in SUBSET S, x \in S : T \in Good /\ x \notin T => T \cup {x} \in Good
    PROVE  S \in Good
<1> DEFINE Bad == {n \in Nat : \E T \in SUBSET S : T \notin Good /\ Cardinality(T) = n}
<1> SUFFICES ASSUME S \notin Good PROVE FALSE
  OBVIOUS
<1>1. Cardinality(S) \in Bad
  BY FS_CardinalityType
<1>2. PICK n \in Bad : \A m \in Bad : n <= m
  <2> HIDE DEF Bad
  <2>1. Bad \subseteq Nat
    BY DEF Bad
  <2> QED
    BY <1>1, <2>1, LeastMember
<1>3. PICK T \in SUBSET S : T \notin Good /\ Cardinality(T) = n /\ n \in Nat
  BY <1>2
<1>4. PICK x \in T : TRUE
  BY <1>3
<1>5. IsFiniteSet(T)
  BY FS_Subset
<1>6. T \ {x} \in Good
  <2>1. Cardinality(T \ {x}) \in Nat /\ n = Cardinality(T \ {x}) + 1
    BY <1>3, <1>4, <1>5, OneLess
  <2>2. Cardinality(T \ {x}) \notin Bad
    <3> SUFFICES ASSUME Cardinality(T \ {x}) \in Bad PROVE FALSE
      OBVIOUS
    <3>1. n <= Cardinality(T \ {x})
      <4> HIDE DEF Bad
      <4> QED
        BY <1>2
    <3> QED
      BY <1>3, <2>1, <3>1
  <2>3. T \ {x} \in SUBSET S
    OBVIOUS
  <2> QED
    BY <2>1, <2>2, <2>3
<1>7. (T \ {x}) \cup {x} = T /\ T \ {x} \in SUBSET S /\ x \in S /\ x \notin T \ {x}
  BY <1>4
<1>8. T \in Good
  BY <1>6, <1>7
<1> QED
  BY <1>3, <1>8

-----------------------------------------------------------------------------
(* The recursion that defines a sum                                        *)

Some(s) == CHOOSE x \in s : TRUE

Recurs(g, f, S) ==
    g = [s \in SUBSET S |-> IF s = {} THEN 0 ELSE f[Some(s)] + g[s \ {Some(s)}]]

(* Two solutions agree wherever both are defined.                          *)
LEMMA SolutionsAgree ==
    ASSUME NEW f, NEW h, NEW S, IsFiniteSet(S), NEW T \in SUBSET S,
           \A x \in T : f[x] = h[x],
           NEW g, Recurs(g, f, S), NEW k, Recurs(k, h, T)
    PROVE  g[T] = k[T]
<1> DEFINE Bad == {n \in Nat : \E s \in SUBSET T : g[s] # k[s] /\ Cardinality(s) = n}
<1> SUFFICES ASSUME g[T] # k[T] PROVE FALSE
  OBVIOUS
<1>1. IsFiniteSet(T)
  BY FS_Subset
<1>2. Cardinality(T) \in Bad
  BY <1>1, FS_CardinalityType
<1>3. PICK n \in Bad : \A m \in Bad : n <= m
  <2> HIDE DEF Bad
  <2>1. Bad \subseteq Nat
    BY DEF Bad
  <2> QED
    BY <1>2, <2>1, LeastMember
<1>4. PICK s \in SUBSET T : g[s] # k[s] /\ Cardinality(s) = n /\ n \in Nat
  BY <1>3
<1>5. CASE s = {}
  BY <1>4, <1>5 DEF Recurs
<1>6. CASE s # {}
  <2> DEFINE x == Some(s)
  <2>1. x \in s
    BY <1>6 DEF Some
  <2>2. g[s] = f[x] + g[s \ {x}] /\ k[s] = h[x] + k[s \ {x}]
    BY <1>6 DEF Recurs
  <2>3. IsFiniteSet(s)
    BY <1>1, FS_Subset
  <2> HIDE DEF x
  <2>4. Cardinality(s \ {x}) \in Nat /\ n = Cardinality(s \ {x}) + 1
    BY <1>4, <2>1, <2>3, OneLess
  <2>5. g[s \ {x}] = k[s \ {x}]
    <3>1. Cardinality(s \ {x}) \notin Bad
      <4> HIDE DEF Bad
      <4> QED
        BY <1>3, <1>4, <2>4
    <3>2. s \ {x} \in SUBSET T
      OBVIOUS
    <3> QED
      BY <2>4, <3>1, <3>2
  <2> QED
    BY <1>4, <2>1, <2>2, <2>5
<1> QED
  BY <1>5, <1>6

(* The recursion has a solution: level by level of the cardinality.        *)
LEMMA SolutionExists ==
    ASSUME NEW f, NEW S, IsFiniteSet(S)
    PROVE  \E g : Recurs(g, f, S)
<1> DEFINE Upto(n) == {s \in SUBSET S : Cardinality(s) <= n}
           Solves(g, n) == g = [s \in Upto(n) |-> IF s = {} THEN 0
                                                  ELSE f[Some(s)] + g[s \ {Some(s)}]]
           Bad == {n \in Nat : ~ \E g : Solves(g, n)}
<1>1. \A s \in SUBSET S : Cardinality(s) \in Nat /\ Cardinality(s) <= Cardinality(S)
  BY FS_Subset, FS_CardinalityType
<1>2. Bad = {}
  <2> SUFFICES ASSUME Bad # {} PROVE FALSE
    OBVIOUS
  <2>1. PICK n \in Bad : \A m \in Bad : n <= m
    <3> HIDE DEF Bad
    <3>1. Bad \subseteq Nat
      BY DEF Bad
    <3> QED
      BY <3>1, LeastMember
  <2>2. CASE n = 0
    <3>1. Upto(0) = {{}}
      BY <1>1, FS_EmptySet, FS_Subset
    <3> DEFINE g == [s \in {{}} |-> 0]
    <3>2. g = [s \in Upto(0) |-> IF s = {} THEN 0 ELSE f[Some(s)] + g[s \ {Some(s)}]]
      <4> HIDE DEF Upto
      <4> QED
        BY <3>1
    <3>3. Solves(g, 0)
      BY <3>2
    <3> QED
      BY <2>1, <2>2, <3>3
  <2>3. CASE n # 0
    <3>1. n - 1 \in Nat /\ n - 1 \notin Bad
      <4> HIDE DEF Solves
      <4>1. n \in Nat /\ n - 1 \in Nat
        BY <2>1, <2>3
      <4> QED
        BY <2>1, <4>1
    <3>2. PICK g : Solves(g, n - 1)
      BY <3>1
    <3> DEFINE h == [s \in Upto(n) |-> IF s \in Upto(n - 1) THEN g[s]
                                       ELSE f[Some(s)] + g[s \ {Some(s)}]]
    <3>3. ASSUME NEW s \in Upto(n), s # {}
          PROVE  s \ {Some(s)} \in Upto(n - 1) /\ s \ {Some(s)} \in Upto(n)
      <4>1. Some(s) \in s
        BY <3>3 DEF Some
      <4>2. IsFiniteSet(s)
        BY FS_Subset
      <4>3. Cardinality(s \ {Some(s)}) = Cardinality(s) - 1 /\ Cardinality(s) \in Nat
        BY <4>1, <4>2, FS_RemoveElement, FS_CardinalityType
      <4> QED
        BY <2>1, <4>3
    <3>4. {} \in Upto(n - 1) /\ {} \in Upto(n)
      BY <2>1, <3>1, FS_EmptySet
    <3>5. \A s \in Upto(n) : h[s] = IF s = {} THEN 0 ELSE f[Some(s)] + h[s \ {Some(s)}]
      <4> SUFFICES ASSUME NEW s \in Upto(n)
                   PROVE  h[s] = IF s = {} THEN 0 ELSE f[Some(s)] + h[s \ {Some(s)}]
        OBVIOUS
      <4> HIDE DEF Upto
      <4>1. CASE s = {}
        BY <3>2, <3>4, <4>1
      <4>2. CASE s # {}
        <5>1. h[s \ {Some(s)}] = g[s \ {Some(s)}]
          BY <3>3, <4>2
        <5>2. h[s] = f[Some(s)] + g[s \ {Some(s)}]
          BY <3>2, <4>2
        <5> QED
          BY <4>2, <5>1, <5>2
      <4> QED
        BY <4>1, <4>2
    <3>6. h = [s \in Upto(n) |-> h[s]]
      OBVIOUS
    <3>7. Solves(h, n)
      <4> HIDE DEF Upto, h
      <4> QED
        BY <3>5, <3>6
    <3> QED
      BY <2>1, <3>7
  <2> QED
    BY <2>2, <2>3
<1>3. Cardinality(S) \in Nat
  BY FS_CardinalityType
<1>4. PICK g : Solves(g, Cardinality(S))
  BY <1>2, <1>3
<1>5. Upto(Cardinality(S)) = SUBSET S
  BY <1>1
<1>6. Recurs(g, f, S)
  <2> HIDE DEF Upto
  <2> QED
    BY <1>4, <1>5 DEF Recurs
<1> QED
  BY <1>6

(* A sum is what the recursion says.                                       *)
LEMMA SumIsSolution ==
    ASSUME NEW f, NEW S, IsFiniteSet(S)
    PROVE  \E g : Recurs(g, f, S) /\ SumFunctionOnSet(f, S) = g[S]
<1> DEFINE g == CHOOSE g : Recurs(g, f, S)
<1>1. Recurs(g, f, S)
  BY SolutionExists
<1>2. SumFunctionOnSet(f, S) = g[S]
  BY DEF SumFunctionOnSet, FoldFunctionOnSet, MapThenFoldSet, Recurs, Some
<1> QED
  BY <1>1, <1>2

-----------------------------------------------------------------------------
(* What a sum is made of                                                   *)

(* The sum over nothing is 0.                                              *)
LEMMA SumEmpty == ASSUME NEW f PROVE SumFunctionOnSet(f, {}) = 0
<1>1. PICK g : Recurs(g, f, {}) /\ SumFunctionOnSet(f, {}) = g[{}]
  BY FS_EmptySet, SumIsSolution
<1> QED
  BY <1>1 DEF Recurs

(* Functions that agree on a set have the same sum over it.                *)
LEMMA SumSame ==
    ASSUME NEW S, IsFiniteSet(S), NEW f, NEW h, \A x \in S : f[x] = h[x]
    PROVE  SumFunctionOnSet(f, S) = SumFunctionOnSet(h, S)
<1>1. PICK g : Recurs(g, f, S) /\ SumFunctionOnSet(f, S) = g[S]
  BY SumIsSolution
<1>2. PICK k : Recurs(k, h, S) /\ SumFunctionOnSet(h, S) = k[S]
  BY SumIsSolution
<1> QED
  BY <1>1, <1>2, SolutionsAgree

(* A solution on a set is the sum over every subset.                       *)
LEMMA SolutionIsSum ==
    ASSUME NEW f, NEW S, IsFiniteSet(S), NEW g, Recurs(g, f, S), NEW T \in SUBSET S
    PROVE  SumFunctionOnSet(f, T) = g[T]
<1>1. IsFiniteSet(T)
  BY FS_Subset
<1>2. PICK k : Recurs(k, f, T) /\ SumFunctionOnSet(f, T) = k[T]
  BY <1>1, SumIsSolution
<1>3. \A h : (\A x \in T : f[x] = h[x]) /\ Recurs(k, h, T) => g[T] = k[T]
  BY SolutionsAgree
<1>4. g[T] = k[T]
  BY <1>2, <1>3
<1> QED
  BY <1>2, <1>4

(* The sum is that of the chosen member and of the rest.                   *)
LEMMA SumChosen ==
    ASSUME NEW f, NEW S, IsFiniteSet(S), S # {}
    PROVE  SumFunctionOnSet(f, S) = f[Some(S)] + SumFunctionOnSet(f, S \ {Some(S)})
<1>1. PICK g : Recurs(g, f, S) /\ SumFunctionOnSet(f, S) = g[S]
  BY SumIsSolution
<1>2. g[S] = f[Some(S)] + g[S \ {Some(S)}]
  BY <1>1 DEF Recurs
<1>3. SumFunctionOnSet(f, S \ {Some(S)}) = g[S \ {Some(S)}]
  BY <1>1, SolutionIsSum
<1> QED
  BY <1>1, <1>2, <1>3

(* A sum of integers is an integer, and may be taken in any order.         *)
LEMMA SumRemove ==
    ASSUME NEW S, IsFiniteSet(S), NEW f, \A x \in S : f[x] \in Int
    PROVE  /\ SumFunctionOnSet(f, S) \in Int
           /\ \A x \in S : SumFunctionOnSet(f, S) = f[x] + SumFunctionOnSet(f, S \ {x})
<1> DEFINE Sum(T) == SumFunctionOnSet(f, T)
           Good(T) == Sum(T) \in Int /\ \A x \in T : Sum(T) = f[x] + Sum(T \ {x})
           Bad == {n \in Nat : \E T \in SUBSET S : ~Good(T) /\ Cardinality(T) = n}
<1> SUFFICES ASSUME ~Good(S) PROVE FALSE
  OBVIOUS
<1>1. Cardinality(S) \in Bad
  BY FS_CardinalityType
<1>2. PICK n \in Bad : \A m \in Bad : n <= m
  <2> HIDE DEF Bad
  <2>1. Bad \subseteq Nat
    BY DEF Bad
  <2> QED
    BY <1>1, <2>1, LeastMember
<1>3. PICK T \in SUBSET S : ~Good(T) /\ Cardinality(T) = n /\ n \in Nat
  BY <1>2
<1>4. IsFiniteSet(T)
  BY FS_Subset
<1>5. ASSUME NEW x \in T PROVE Good(T \ {x})
  <2>1. Cardinality(T \ {x}) \in Nat /\ n = Cardinality(T \ {x}) + 1
    BY <1>3, <1>4, OneLess
  <2>2. Cardinality(T \ {x}) \notin Bad
    <3> SUFFICES ASSUME Cardinality(T \ {x}) \in Bad PROVE FALSE
      OBVIOUS
    <3>1. n <= Cardinality(T \ {x})
      <4> HIDE DEF Bad
      <4> QED
        BY <1>2
    <3> QED
      BY <1>3, <2>1, <3>1
  <2>3. T \ {x} \in SUBSET S
    OBVIOUS
  <2> HIDE DEF Good
  <2> QED
    BY <2>1, <2>2, <2>3
<1>6. CASE T = {}
  BY <1>3, <1>6, SumEmpty
<1>7. CASE T # {}
  <2> DEFINE c == Some(T)
  <2>1. c \in T /\ Sum(T) = f[c] + Sum(T \ {c})
    BY <1>4, <1>7, SumChosen DEF Some
  <2> HIDE DEF c
  <2>2. f[c] \in Int /\ Sum(T \ {c}) \in Int
    BY <1>5, <2>1
  <2> SUFFICES ASSUME NEW x \in T PROVE Sum(T) = f[x] + Sum(T \ {x})
    BY <1>3, <2>1, <2>2
  <2>3. CASE x = c
    BY <2>1, <2>3
  <2>4. CASE x # c
    <3>1. Sum(T \ {c}) = f[x] + Sum((T \ {c}) \ {x})
      BY <1>5, <2>1, <2>4
    <3>2. Sum(T \ {x}) = f[c] + Sum((T \ {x}) \ {c})
      BY <1>5, <2>1, <2>4
    <3>3. (T \ {x}) \ {c} = (T \ {c}) \ {x} /\ x \in T \ {c}
      BY <2>4
    <3>4. Sum((T \ {c}) \ {x}) \in Int
      <4>1. Sum(T \ {x}) \in Int
        BY <1>5
      <4>2. (T \ {x}) \ {c} \in SUBSET S /\ IsFiniteSet((T \ {x}) \ {c})
        BY <1>4, FS_Subset
      <4>3. Cardinality((T \ {x}) \ {c}) \in Nat /\ n = Cardinality((T \ {x}) \ {c}) + 2
        <5>1. IsFiniteSet(T \ {x}) /\ n = Cardinality(T \ {x}) + 1
          BY <1>3, <1>4, OneLess
        <5>2. c \in T \ {x}
          BY <2>1, <2>4
        <5> QED
          BY <5>1, <5>2, OneLess
      <4>4. Cardinality((T \ {x}) \ {c}) \notin Bad
        <5> HIDE DEF Bad
        <5> QED
          BY <1>2, <1>3, <4>3
      <4>5. Good((T \ {x}) \ {c})
        <5> HIDE DEF Good
        <5> QED
          BY <4>2, <4>3, <4>4
      <4> QED
        BY <3>3, <4>5
    <3>5. f[x] \in Int
      OBVIOUS
    <3>6. /\ Sum(T) = f[c] + (f[x] + Sum((T \ {c}) \ {x}))
          /\ Sum(T \ {x}) = f[c] + Sum((T \ {c}) \ {x})
      <4> HIDE DEF Sum
      <4> QED
        BY <2>1, <3>1, <3>2, <3>3
    <3> HIDE DEF Sum
    <3> QED
      BY <2>2, <3>4, <3>5, <3>6
  <2> QED
    BY <2>3, <2>4
<1> QED
  BY <1>6, <1>7

(* The sum grows by what is added.                                         *)
LEMMA SumAdd ==
    ASSUME NEW S, IsFiniteSet(S), NEW x, x \notin S, NEW f,
           \A y \in S \cup {x} : f[y] \in Int
    PROVE  SumFunctionOnSet(f, S \cup {x}) = f[x] + SumFunctionOnSet(f, S)
<1>1. IsFiniteSet(S \cup {x}) /\ (S \cup {x}) \ {x} = S
  BY FS_AddElement
<1> QED
  BY <1>1, SumRemove

(* A change at one point changes the sum by as much.                       *)
LEMMA SumChange ==
    ASSUME NEW S, IsFiniteSet(S), NEW f, NEW h, NEW x \in S,
           \A y \in S : f[y] \in Int, h[x] \in Int,
           \A y \in S \ {x} : h[y] = f[y]
    PROVE  SumFunctionOnSet(h, S) = SumFunctionOnSet(f, S) + (h[x] - f[x])
<1>1. IsFiniteSet(S \ {x})
  BY FS_Subset
<1>2. SumFunctionOnSet(h, S \ {x}) = SumFunctionOnSet(f, S \ {x})
  BY <1>1, SumSame
<1>3. /\ SumFunctionOnSet(f, S) = f[x] + SumFunctionOnSet(f, S \ {x})
      /\ SumFunctionOnSet(h, S) = h[x] + SumFunctionOnSet(h, S \ {x})
      /\ SumFunctionOnSet(f, S \ {x}) \in Int
  BY <1>1, SumRemove
<1> QED
  BY <1>2, <1>3

(* A sum of zeros is 0.                                                    *)
LEMMA SumOfZeros ==
    ASSUME NEW S, IsFiniteSet(S), NEW f, \A x \in S : f[x] = 0
    PROVE  SumFunctionOnSet(f, S) = 0
<1> DEFINE Good == {T \in SUBSET S : SumFunctionOnSet(f, T) = 0}
<1>1. {} \in Good
  BY SumEmpty
<1>2. ASSUME NEW T \in SUBSET S, NEW x \in S, T \in Good, x \notin T
      PROVE  T \cup {x} \in Good
  <2>1. IsFiniteSet(T)
    BY FS_Subset
  <2>2. SumFunctionOnSet(f, T \cup {x}) = f[x] + SumFunctionOnSet(f, T)
    <3>1. \A y \in T \cup {x} : f[y] \in Int
      OBVIOUS
    <3> HIDE DEF Good
    <3> QED
      BY <1>2, <2>1, <3>1, SumAdd
  <2> QED
    BY <1>2, <2>2
<1>3. S \in Good
  <2> HIDE DEF Good
  <2> QED
    BY <1>1, <1>2, InductionOnSets
<1> QED
  BY <1>3

(* What is larger everywhere has the larger sum.                           *)
LEMMA SumAtMost ==
    ASSUME NEW S, IsFiniteSet(S), NEW f, NEW h,
           \A x \in S : f[x] \in Int /\ h[x] \in Int /\ f[x] <= h[x]
    PROVE  SumFunctionOnSet(f, S) <= SumFunctionOnSet(h, S)
<1> DEFINE Good == {T \in SUBSET S : SumFunctionOnSet(f, T) <= SumFunctionOnSet(h, T)}
<1>1. {} \in Good
  BY SumEmpty
<1>2. ASSUME NEW T \in SUBSET S, NEW x \in S, T \in Good, x \notin T
      PROVE  T \cup {x} \in Good
  <2>1. IsFiniteSet(T)
    BY FS_Subset
  <2>2. /\ SumFunctionOnSet(f, T \cup {x}) = f[x] + SumFunctionOnSet(f, T)
        /\ SumFunctionOnSet(h, T \cup {x}) = h[x] + SumFunctionOnSet(h, T)
    BY <1>2, <2>1, SumAdd
  <2>3. SumFunctionOnSet(f, T) \in Int /\ SumFunctionOnSet(h, T) \in Int
    BY <2>1, SumRemove
  <2> QED
    BY <1>2, <2>2, <2>3
<1>3. S \in Good
  <2> HIDE DEF Good
  <2> QED
    BY <1>1, <1>2, InductionOnSets
<1> QED
  BY <1>3

(* The sum over a subset is no larger, where nothing is below 0.           *)
LEMMA SumPart ==
    ASSUME NEW S, IsFiniteSet(S), NEW f, \A x \in S : f[x] \in Nat, NEW T \in SUBSET S
    PROVE  /\ SumFunctionOnSet(f, S) \in Nat /\ SumFunctionOnSet(f, T) \in Nat
           /\ SumFunctionOnSet(f, T) <= SumFunctionOnSet(f, S)
<1> DEFINE Good == {U \in SUBSET S :
                       /\ SumFunctionOnSet(f, U) \in Nat
                       /\ SumFunctionOnSet(f, T \cap U) \in Nat
                       /\ SumFunctionOnSet(f, T \cap U) <= SumFunctionOnSet(f, U)}
<1>1. {} \in Good
  <2>1. T \cap {} = {}
    OBVIOUS
  <2> QED
    BY <2>1, SumEmpty
<1>2. ASSUME NEW U \in SUBSET S, NEW x \in S, U \in Good, x \notin U
      PROVE  U \cup {x} \in Good
  <2>1. IsFiniteSet(U) /\ IsFiniteSet(T \cap U)
    BY FS_Subset
  <2>2. SumFunctionOnSet(f, U \cup {x}) = f[x] + SumFunctionOnSet(f, U)
    <3>1. \A y \in U \cup {x} : f[y] \in Int
      OBVIOUS
    <3> HIDE DEF Good
    <3> QED
      BY <1>2, <2>1, <3>1, SumAdd
  <2>3. \/ T \cap (U \cup {x}) = T \cap U
        \/ /\ T \cap (U \cup {x}) = (T \cap U) \cup {x}
           /\ SumFunctionOnSet(f, (T \cap U) \cup {x}) = f[x] + SumFunctionOnSet(f, T \cap U)
    <3>1. CASE x \in T
      <4>1. T \cap (U \cup {x}) = (T \cap U) \cup {x} /\ x \notin T \cap U
        BY <1>2, <3>1
      <4> QED
        BY <2>1, <4>1, SumAdd
    <3>2. CASE x \notin T
      BY <3>2
    <3> QED
      BY <3>1, <3>2
  <2>4. f[x] \in Nat
    OBVIOUS
  <2>5. /\ SumFunctionOnSet(f, U) \in Nat /\ SumFunctionOnSet(f, T \cap U) \in Nat
        /\ SumFunctionOnSet(f, T \cap U) <= SumFunctionOnSet(f, U)
    BY <1>2
  <2>6. /\ SumFunctionOnSet(f, U \cup {x}) \in Nat
        /\ SumFunctionOnSet(f, T \cap (U \cup {x})) \in Nat
        /\ SumFunctionOnSet(f, T \cap (U \cup {x})) <= SumFunctionOnSet(f, U \cup {x})
    <3>1. CASE T \cap (U \cup {x}) = T \cap U
      BY <2>2, <2>4, <2>5, <3>1
    <3>2. CASE SumFunctionOnSet(f, T \cap (U \cup {x})) = f[x] + SumFunctionOnSet(f, T \cap U)
      BY <2>2, <2>4, <2>5, <3>2
    <3> QED
      BY <2>3, <3>1, <3>2
  <2> QED
    BY <2>6
<1>3. S \in Good
  <2> HIDE DEF Good
  <2> QED
    BY <1>1, <1>2, InductionOnSets
<1>4. T \cap S = T
  OBVIOUS
<1> QED
  BY <1>3, <1>4

(* Two sets that share nothing are summed apart.                           *)
LEMMA SumUnion ==
    ASSUME NEW S, IsFiniteSet(S), NEW T, IsFiniteSet(T), S \cap T = {},
           NEW f, \A x \in S \cup T : f[x] \in Int
    PROVE  SumFunctionOnSet(f, S \cup T) = SumFunctionOnSet(f, S) + SumFunctionOnSet(f, T)
<1> DEFINE Good == {U \in SUBSET T : SumFunctionOnSet(f, S \cup U)
                        = SumFunctionOnSet(f, S) + SumFunctionOnSet(f, U)}
<1>0. SumFunctionOnSet(f, S) \in Int
  BY SumRemove
<1>1. {} \in Good
  <2>1. S \cup {} = S
    OBVIOUS
  <2> QED
    BY <1>0, <2>1, SumEmpty
<1>2. ASSUME NEW U \in SUBSET T, NEW x \in T, U \in Good, x \notin U
      PROVE  U \cup {x} \in Good
  <2>1. IsFiniteSet(U) /\ IsFiniteSet(S \cup U)
    BY FS_Subset, FS_Union
  <2>2. SumFunctionOnSet(f, U \cup {x}) = f[x] + SumFunctionOnSet(f, U)
    BY <1>2, <2>1, SumAdd
  <2>3. (S \cup U) \cup {x} = S \cup (U \cup {x}) /\ x \notin S \cup U
    BY <1>2
  <2>4. SumFunctionOnSet(f, S \cup (U \cup {x})) = f[x] + SumFunctionOnSet(f, S \cup U)
    BY <2>1, <2>3, SumAdd
  <2>5. SumFunctionOnSet(f, U) \in Int /\ f[x] \in Int
    BY <2>1, SumRemove
  <2> QED
    BY <1>0, <1>2, <2>2, <2>4, <2>5
<1>3. T \in Good
  <2> HIDE DEF Good
  <2> QED
    BY <1>1, <1>2, InductionOnSets
<1> QED
  BY <1>3

(* Terms that are other names for different terms of a set add up to no    *)
(* more than the sum over that set.                                        *)
LEMMA SumRenamed ==
    ASSUME NEW I, IsFiniteSet(I), NEW S, IsFiniteSet(S),
           NEW f, \A x \in S : f[x] \in Nat,
           NEW h, \A i \in I : h[i] \in S, \A i, j \in I : h[i] = h[j] => i = j,
           NEW k, \A i \in I : k[i] = f[h[i]]
    PROVE  SumFunctionOnSet(k, I) <= SumFunctionOnSet(f, S)
<1> DEFINE img(J) == {h[i] : i \in J}
           Good == {J \in SUBSET I : SumFunctionOnSet(k, J) = SumFunctionOnSet(f, img(J))}
<1>0. ASSUME NEW J \in SUBSET I PROVE IsFiniteSet(J) /\ IsFiniteSet(img(J)) /\ img(J) \in SUBSET S
  <2>1. img(J) \in SUBSET S
    OBVIOUS
  <2> QED
    BY <2>1, FS_Subset
<1>1. {} \in Good
  <2>1. img({}) = {}
    OBVIOUS
  <2> QED
    BY <2>1, SumEmpty
<1>2. ASSUME NEW J \in SUBSET I, NEW i \in I, J \in Good, i \notin J
      PROVE  J \cup {i} \in Good
  <2>1. img(J \cup {i}) = img(J) \cup {h[i]} /\ h[i] \notin img(J)
    BY <1>2
  <2>2. SumFunctionOnSet(k, J \cup {i}) = k[i] + SumFunctionOnSet(k, J)
    <3>1. \A j \in J \cup {i} : k[j] \in Int
      OBVIOUS
    <3> QED
      BY <1>0, <1>2, <3>1, SumAdd
  <2>3. SumFunctionOnSet(f, img(J) \cup {h[i]}) = f[h[i]] + SumFunctionOnSet(f, img(J))
    <3>1. \A x \in img(J) \cup {h[i]} : f[x] \in Int
      OBVIOUS
    <3> HIDE DEF img
    <3> QED
      BY <1>0, <2>1, <3>1, SumAdd
  <2> QED
    BY <1>2, <2>1, <2>2, <2>3
<1>3. I \in Good
  <2> HIDE DEF Good
  <2> QED
    BY <1>1, <1>2, InductionOnSets
<1> QED
  BY <1>0, <1>3, SumPart

-----------------------------------------------------------------------------
(* Folds from the left                                                     *)

(* Induction over an interval from 0, with the set it holds for.           *)
LEMMA InductionUpTo ==
    ASSUME NEW n \in Nat, NEW Good, 0 \in Good,
           \A k \in 1..n : k - 1 \in Good => k \in Good
    PROVE  \A k \in 0..n : k \in Good
<1> DEFINE Bad == {k \in 0..n : k \notin Good}
<1> SUFFICES ASSUME Bad # {} PROVE FALSE
  OBVIOUS
<1>1. PICK k \in Bad : \A j \in Bad : k <= j
  <2>1. Bad \in SUBSET Nat
    OBVIOUS
  <2> HIDE DEF Bad
  <2> QED
    BY <2>1, LeastMember
<1>2. k \in 1..n /\ k - 1 \in 0..n /\ k - 1 \notin Bad
  <2>1. k # 0 /\ k \in 0..n
    OBVIOUS
  <2>2. k \in 1..n /\ k - 1 \in 0..n /\ ~(k <= k - 1)
    BY <2>1
  <2> HIDE DEF Bad
  <2> QED
    BY <1>1, <2>2
<1> QED
  BY <1>2

(* Taking the members of a finite set one by one, F says what each makes   *)
(* of the value so far: such a recursion has a solution.                   *)
Folds(g, F, c, base, S) ==
    g = [s \in SUBSET S |-> IF s = {} THEN base ELSE F[<<c[s], g[s \ {c[s]}]>>]]

LEMMA FoldExists ==
    ASSUME NEW F, NEW base, NEW S, IsFiniteSet(S),
           NEW c, \A s \in SUBSET S : s # {} => c[s] \in s
    PROVE  \E g : Folds(g, F, c, base, S)
<1> DEFINE Upto(n) == {s \in SUBSET S : Cardinality(s) <= n}
           Solves(g, n) == g = [s \in Upto(n) |-> IF s = {} THEN base
                                                  ELSE F[<<c[s], g[s \ {c[s]}]>>]]
           Good == {n \in Nat : \E g : Solves(g, n)}
<1>1. \A s \in SUBSET S : Cardinality(s) \in Nat /\ Cardinality(s) <= Cardinality(S)
  BY FS_Subset, FS_CardinalityType
<1>2. Cardinality(S) \in Nat
  BY FS_CardinalityType
<1>3. 0 \in Good
  <2>1. Upto(0) = {{}}
    BY <1>1, FS_EmptySet, FS_Subset
  <2> DEFINE g == [s \in {{}} |-> base]
  <2>2. g = [s \in Upto(0) |-> IF s = {} THEN base ELSE F[<<c[s], g[s \ {c[s]}]>>]]
    <3> HIDE DEF Upto
    <3> QED
      BY <2>1
  <2>3. Solves(g, 0)
    BY <2>2
  <2> QED
    BY <2>3
<1>4. ASSUME NEW n \in 1..Cardinality(S), n - 1 \in Good PROVE n \in Good
  <2>1. n \in Nat /\ n - 1 \in Nat
    BY <1>2
  <2>2. PICK g : Solves(g, n - 1)
    BY <1>4
  <2> DEFINE h == [s \in Upto(n) |-> IF s \in Upto(n - 1) THEN g[s]
                                     ELSE F[<<c[s], g[s \ {c[s]}]>>]]
  <2>3. ASSUME NEW s \in Upto(n), s # {}
        PROVE  s \ {c[s]} \in Upto(n - 1) /\ s \ {c[s]} \in Upto(n)
    <3>1. c[s] \in s
      BY <2>3
    <3>2. IsFiniteSet(s)
      BY FS_Subset
    <3>3. Cardinality(s \ {c[s]}) = Cardinality(s) - 1 /\ Cardinality(s) \in Nat
      BY <3>1, <3>2, FS_RemoveElement, FS_CardinalityType
    <3> QED
      BY <2>1, <3>3
  <2>4. {} \in Upto(n - 1) /\ {} \in Upto(n)
    BY <2>1, FS_EmptySet
  <2>5. \A s \in Upto(n) : h[s] = IF s = {} THEN base ELSE F[<<c[s], h[s \ {c[s]}]>>]
    <3> SUFFICES ASSUME NEW s \in Upto(n)
                 PROVE  h[s] = IF s = {} THEN base ELSE F[<<c[s], h[s \ {c[s]}]>>]
      OBVIOUS
    <3> HIDE DEF Upto
    <3>1. CASE s = {}
      BY <2>2, <2>4, <3>1
    <3>2. CASE s # {}
      <4>1. h[s \ {c[s]}] = g[s \ {c[s]}]
        BY <2>3, <3>2
      <4>2. h[s] = F[<<c[s], g[s \ {c[s]}]>>]
        BY <2>2, <3>2
      <4> QED
        BY <3>2, <4>1, <4>2
    <3> QED
      BY <3>1, <3>2
  <2>6. h = [s \in Upto(n) |-> h[s]]
    OBVIOUS
  <2>7. Solves(h, n)
    <3> HIDE DEF Upto, h
    <3> QED
      BY <2>5, <2>6
  <2> QED
    BY <2>1, <2>7
<1>5. Cardinality(S) \in Good
  <2> HIDE DEF Good
  <2>1. \A k \in 0..Cardinality(S) : k \in Good
    BY <1>2, <1>3, <1>4, InductionUpTo
  <2> QED
    BY <1>2, <2>1
<1>6. PICK g : Solves(g, Cardinality(S))
  BY <1>5
<1>7. Upto(Cardinality(S)) = SUBSET S
  BY <1>1
<1>8. Folds(g, F, c, base, S)
  <2> HIDE DEF Upto
  <2> QED
    BY <1>6, <1>7 DEF Folds
<1> QED
  BY <1>8

(* A step that stays among V makes a fold that does.                       *)
LEMMA FoldStays ==
    ASSUME NEW V, NEW base \in V, NEW S, IsFiniteSet(S), NEW F \in [S \X V -> V],
           NEW c, \A s \in SUBSET S : s # {} => c[s] \in s,
           NEW g, Folds(g, F, c, base, S)
    PROVE  g \in [SUBSET S -> V]
<1> DEFINE Good == {n \in Nat : \A s \in SUBSET S : Cardinality(s) = n => g[s] \in V}
<1>1. \A s \in SUBSET S : IsFiniteSet(s) /\ Cardinality(s) \in Nat
                           /\ Cardinality(s) <= Cardinality(S)
  BY FS_Subset, FS_CardinalityType
<1>2. Cardinality(S) \in Nat
  BY FS_CardinalityType
<1>3. 0 \in Good
  <2>1. \A s \in SUBSET S : Cardinality(s) = 0 => s = {}
    BY <1>1, FS_EmptySet
  <2>2. g[{}] = base
    BY DEF Folds
  <2> QED
    BY <2>1, <2>2
<1>4. ASSUME NEW n \in 1..Cardinality(S), n - 1 \in Good PROVE n \in Good
  <2>1. ASSUME NEW s \in SUBSET S, Cardinality(s) = n PROVE g[s] \in V
    <3>1. s # {}
      BY <1>2, <2>1, FS_EmptySet
    <3>2. c[s] \in s
      BY <3>1
    <3>3. s \ {c[s]} \in SUBSET S /\ Cardinality(s \ {c[s]}) = n - 1
      BY <1>1, <2>1, <3>2, FS_RemoveElement
    <3>4. g[s \ {c[s]}] \in V
      BY <1>4, <3>3
    <3>5. g[s] = F[<<c[s], g[s \ {c[s]}]>>]
      BY <3>1 DEF Folds
    <3>6. <<c[s], g[s \ {c[s]}]>> \in S \X V
      BY <3>2, <3>4
    <3> QED
      BY <3>5, <3>6
  <2> QED
    BY <1>2, <2>1
<1>5. \A k \in 0..Cardinality(S) : k \in Good
  <2> HIDE DEF Good
  <2> QED
    BY <1>2, <1>3, <1>4, InductionUpTo
<1>6. ASSUME NEW s \in SUBSET S PROVE g[s] \in V
  <2>1. Cardinality(s) \in 0..Cardinality(S)
    BY <1>1, <1>2
  <2> QED
    BY <1>5, <2>1
<1>7. g = [s \in SUBSET S |-> g[s]]
  BY DEF Folds
<1> QED
  BY <1>6, <1>7

(* A fold over the places of a sequence takes the last of them last.       *)
LEMMA LastPlace ==
    ASSUME NEW n \in Nat
    PROVE  /\ \A k \in 1..n : Max(1..k) = k /\ (1..k) \ {k} = 1..(k-1)
           /\ \A s \in SUBSET (1..n) : s # {} => Max(s) \in s
<1>1. ASSUME NEW k \in 1..n PROVE Max(1..k) = k
  <2>1. k \in 1..k /\ \A y \in 1..k : k >= y
    OBVIOUS
  <2>2. \A x \in 1..k : (\A y \in 1..k : x >= y) => x = k
    BY <2>1
  <2> QED
    BY <2>1, <2>2 DEF Max
<1>2. ASSUME NEW s \in SUBSET (1..n), s # {} PROVE Max(s) \in s
  <2> DEFINE N == {n - x : x \in s}
  <2>1. N \in SUBSET Nat /\ N # {}
    <3>1. \A x \in s : n - x \in Nat
      OBVIOUS
    <3> QED
      BY <1>2, <3>1
  <2>2. PICK m \in N : \A y \in N : m <= y
    <3> HIDE DEF N
    <3> QED
      BY <2>1, LeastMember
  <2>3. PICK x \in s : m = n - x
    OBVIOUS
  <2>4. ASSUME NEW y \in s PROVE x >= y
    <3>1. n - x <= n - y
      BY <2>2, <2>3
    <3> QED
      BY <3>1
  <2> QED
    BY <2>4 DEF Max
<1> QED
  BY <1>1, <1>2

(* Over the places of a sequence, the last one of a set last: there is     *)
(* such a fold ...                                                         *)
FoldsPlaces(g, F, base, V, n) ==
    /\ g \in [SUBSET (1..n) -> V]
    /\ g[{}] = base
    /\ \A t \in SUBSET (1..n) :
          t # {} => /\ Max(t) \in t /\ g[t \ {Max(t)}] \in V
                    /\ g[t] = F[<<Max(t), g[t \ {Max(t)}]>>]

LEMMA FoldOfPlaces ==
    ASSUME NEW n \in Nat, NEW V, NEW base \in V, NEW F \in [(1..n) \X V -> V]
    PROVE  \E g : FoldsPlaces(g, F, base, V, n)
<1> DEFINE D == 1..n
           c == [t \in SUBSET D |-> Max(t)]
<1>1. IsFiniteSet(D)
  BY FS_Interval
<1>2. \A t \in SUBSET D : t # {} => Max(t) \in t /\ c[t] = Max(t) /\ c[t] \in t
  BY LastPlace
<1> HIDE DEF c, D
<1>3. PICK g : Folds(g, F, c, base, D)
  BY <1>1, <1>2, FoldExists
<1>4. F \in [D \X V -> V]
  BY DEF D
<1>5. g \in [SUBSET D -> V]
  BY <1>1, <1>2, <1>3, <1>4, FoldStays
<1>6. g[{}] = base
  BY <1>3 DEF Folds
<1>7. ASSUME NEW t \in SUBSET D, t # {}
      PROVE  /\ Max(t) \in t /\ g[t \ {Max(t)}] \in V
             /\ g[t] = F[<<Max(t), g[t \ {Max(t)}]>>]
  <2>1. g[t] = F[<<c[t], g[t \ {c[t]}]>>]
    BY <1>3, <1>7 DEF Folds
  <2>2. t \ {Max(t)} \in SUBSET D
    OBVIOUS
  <2> QED
    BY <1>2, <1>5, <1>7, <2>1, <2>2
<1> QED
  BY <1>5, <1>6, <1>7 DEF D, FoldsPlaces

(* ... and it goes from place to place.                                    *)
StepsAmong(g, F, base, V, n) ==
    /\ g[{}] = base
    /\ \A t \in SUBSET (1..n) : t # {} /\ g[t \ {Max(t)}] \in V =>
          g[t] = F[<<Max(t), g[t \ {Max(t)}]>>]

FromPlaceToPlace(h, g, F, base, V, n) ==
    /\ h \in [0..n -> V] /\ h[0] = base /\ h[n] = g[1..n]
    /\ \A k \in 1..n : h[k] = F[<<k, h[k-1]>>]

LEMMA FoldSteps ==
    ASSUME NEW n \in Nat, NEW V, NEW base \in V, NEW F \in [(1..n) \X V -> V],
           NEW g, StepsAmong(g, F, base, V, n)
    PROVE  \E h : FromPlaceToPlace(h, g, F, base, V, n)
<1> DEFINE h == [k \in 0..n |-> g[1..k]]
           Good == {k \in 0..n : h[k] \in V /\ (k > 0 => h[k] = F[<<k, h[k-1]>>])}
<1>1. h[0] = base /\ 0 \in Good
  <2>1. 1..0 = {} /\ 0 \in 0..n
    OBVIOUS
  <2> QED
    BY <2>1 DEF StepsAmong
<1>2. ASSUME NEW k \in 1..n, k - 1 \in Good PROVE k \in Good
  <2>1. k \in 0..n /\ k - 1 \in 0..n /\ 1..k \in SUBSET (1..n) /\ 1..k # {}
    OBVIOUS
  <2>2. Max(1..k) = k /\ (1..k) \ {k} = 1..(k-1)
    BY LastPlace
  <2>3. g[1..(k-1)] \in V
    BY <1>2, <2>1
  <2>4. g[1..k] = F[<<k, g[1..(k-1)]>>]
    BY <2>1, <2>2, <2>3 DEF StepsAmong
  <2>5. F[<<k, g[1..(k-1)]>>] \in V
    BY <2>3
  <2> QED
    BY <2>1, <2>4, <2>5
<1>3. \A k \in 0..n : k \in Good
  <2> HIDE DEF Good
  <2> QED
    BY <1>1, <1>2, InductionUpTo
<1>4. h \in [0..n -> V] /\ \A k \in 1..n : h[k] = F[<<k, h[k-1]>>]
  <2>1. \A k \in 0..n : h[k] \in V
    BY <1>3
  <2>2. \A k \in 1..n : k \in 0..n /\ k > 0
    OBVIOUS
  <2>3. \A k \in 1..n : h[k] = F[<<k, h[k-1]>>]
    BY <1>3, <2>2
  <2>4. h = [k \in 0..n |-> h[k]]
    OBVIOUS
  <2> HIDE DEF h, Good
  <2> QED
    BY <2>1, <2>3, <2>4
<1>5. g[1..n] = h[n]
  OBVIOUS
<1> HIDE DEF h
<1> QED
  BY <1>1, <1>4, <1>5 DEF FromPlaceToPlace
=============================================================================
