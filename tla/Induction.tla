------------------------------ MODULE Induction ------------------------------
(***************************************************************************)
(* Induction over the natural numbers and over finite sets as statements    *)
(* about sets, which is how the proofs of the other modules use it, and     *)
(* sums over finite sets.                                                   *)
(***************************************************************************)
EXTENDS Integers, FiniteSets, FiniteSetTheorems, WellFoundedInduction, TLAPS

\* Every non-empty set of natural numbers has a least element: the rounds of
\* validateDAG and the entries of a batch are counted by natural numbers.
LEMMA LeastElement ==
    ASSUME NEW T, T \subseteq Nat, T # {}
    PROVE  \E x \in T : \A y \in T : x <= y
<1> DEFINE R == {p \in Nat \X Nat : p[1] < p[2]}
<1>1. IsWellFoundedOn(R, Nat)
  BY NatLessThanWellFounded, IsWellFoundedOnSubrelation, Zenon DEF OpToRel
<1>2. PICK x \in T : \A y \in T : ~(<<y, x>> \in R)
  BY <1>1, WFMin
<1>3. \A y \in T : x <= y
  <2> TAKE y \in T
  <2>1. x \in Nat /\ y \in Nat
    OBVIOUS
  <2>2. ~(y < x)
    BY <1>2, <2>1
  <2> QED BY <2>1, <2>2
<1> QED BY <1>2, <1>3

\* A set that holds 0 and with every number its successor holds all of them:
\* what every round, or every entry of a batch, preserves holds after all.
LEMMA SetInduction ==
    ASSUME NEW S, 0 \in S, \A n \in Nat : n \in S => n + 1 \in S
    PROVE  Nat \subseteq S
<1> SUFFICES ASSUME Nat \ S # {} PROVE FALSE
  OBVIOUS
<1>1. PICK x \in Nat \ S : \A y \in Nat \ S : x <= y
  BY LeastElement
<1>2. x # 0 /\ x - 1 \in Nat /\ x - 1 \notin Nat \ S
  BY <1>1
<1> QED BY <1>1, <1>2

\* What is left of a finite set without one of its elements.
LEMMA OneLess ==
    ASSUME NEW S, IsFiniteSet(S), NEW n \in Nat, NEW T \in SUBSET S, Cardinality(T) = n + 1
    PROVE  /\ IsFiniteSet(T) /\ T # {}
           /\ \A x \in T : T \ {x} \in SUBSET S /\ Cardinality(T \ {x}) = n
<1>1. IsFiniteSet(T)
  BY FS_Subset
<1>2. T # {}
  BY <1>1, FS_EmptySet
<1>3. ASSUME NEW x \in T PROVE Cardinality(T \ {x}) = n
  <2>1. Cardinality(T \ {x}) = Cardinality(T) - 1
    BY <1>1, FS_RemoveElement
  <2> QED BY <2>1
<1> QED BY <1>1, <1>2, <1>3

\* A collection that holds the empty set, and with every subset of S the subset
\* with one element more, holds S: the entries of a ledger and the legs that
\* are posted are finite sets.
LEMMA FiniteInduction ==
    ASSUME NEW S, IsFiniteSet(S), NEW C, {} \in C,
           \A T \in SUBSET S : \A x \in S \ T : T \in C => T \union {x} \in C
    PROVE  S \in C
<1> DEFINE N == {n \in Nat : \A T \in SUBSET S : Cardinality(T) = n => T \in C}
<1>1. 0 \in N
  BY FS_Subset, FS_EmptySet
<1>2. ASSUME NEW n \in Nat, n \in N PROVE n + 1 \in N
  <2> SUFFICES ASSUME NEW T \in SUBSET S, Cardinality(T) = n + 1 PROVE T \in C
    OBVIOUS
  <2>2. PICK x : x \in T
    BY OneLess
  <2>3. Cardinality(T \ {x}) = n /\ T \ {x} \in SUBSET S /\ x \in S \ (T \ {x})
    BY <2>2, OneLess
  <2>4. (T \ {x}) \union {x} = T
    BY <2>2
  <2> QED BY <1>2, <2>3, <2>4
<1> HIDE DEF N
<1>3. Nat \subseteq N
  BY <1>1, <1>2, SetInduction
<1>4. Cardinality(S) \in N /\ S \in SUBSET S
  BY <1>3, FS_CardinalityType
<1> QED BY <1>4 DEF N

-----------------------------------------------------------------------------
(* Sums over finite sets.                                                    *)

AnyOf(S) == CHOOSE x \in S : TRUE

\* f holds the sums of g over the subsets of S.
IsSum(f, g, S) ==
    f = [s \in SUBSET S |-> IF s = {} THEN 0 ELSE g[AnyOf(s)] + f[s \ {AnyOf(s)}]]

SumOver(g, S) ==
    LET sum[s \in SUBSET S] == IF s = {} THEN 0 ELSE g[AnyOf(s)] + sum[s \ {AnyOf(s)}]
    IN  sum[S]

LEMMA AnyOfIs == ASSUME NEW S, S # {} PROVE AnyOf(S) \in S
BY DEF AnyOf

\* The recursion of MapThenSumSet defines a function.
LEMMA SumsExist ==
    ASSUME NEW S, IsFiniteSet(S), NEW g
    PROVE  \E f : IsSum(f, g, S)
<1> DEFINE next(f, s) == IF s = {} THEN 0 ELSE g[AnyOf(s)] + f[s \ {AnyOf(s)}]
           Sums(f, n) == f = [s \in SUBSET S |-> f[s]] /\ \A s \in SUBSET S : Cardinality(s) <= n => f[s] = next(f, s)
           N == {n \in Nat : \E f : Sums(f, n)}
<1>1. 0 \in N
  <2> DEFINE f == [s \in SUBSET S |-> 0]
  <2>1. f = [s \in SUBSET S |-> f[s]]
    OBVIOUS
  <2>2. ASSUME NEW s \in SUBSET S, Cardinality(s) <= 0 PROVE f[s] = next(f, s)
    <3>1. s = {}
      BY <2>2, FS_Subset, FS_CardinalityType, FS_EmptySet
    <3> QED BY <3>1
  <2>3. Sums(f, 0)
    BY <2>1, <2>2
  <2> HIDE DEF Sums
  <2> QED BY <2>3
<1>2. ASSUME NEW n \in Nat, n \in N PROVE n + 1 \in N
  <2>1. PICK f : Sums(f, n)
    BY <1>2
  <2> DEFINE h == [s \in SUBSET S |-> next(f, s)]
  <2>2. ASSUME NEW s \in SUBSET S, Cardinality(s) <= n PROVE h[s] = f[s]
    BY <2>1, <2>2
  <2>3. ASSUME NEW s \in SUBSET S, Cardinality(s) <= n + 1 PROVE h[s] = next(h, s)
    <3>1. CASE s = {}
      BY <3>1
    <3>2. CASE s # {}
      <4> DEFINE r == s \ {AnyOf(s)}
      <4>1. AnyOf(s) \in s /\ IsFiniteSet(s) /\ r \in SUBSET S
        BY <3>2, AnyOfIs, FS_Subset
      <4>2. Cardinality(r) <= n
        <5>1. Cardinality(r) = Cardinality(s) - 1 /\ Cardinality(s) \in Nat
          BY <4>1, FS_RemoveElement, FS_CardinalityType
        <5> QED BY <2>3, <5>1
      <4>3. h[r] = f[r]
        BY <2>2, <4>1, <4>2
      <4>4. h[s] = g[AnyOf(s)] + f[r] /\ next(h, s) = g[AnyOf(s)] + h[r]
        BY <3>2
      <4> QED BY <4>3, <4>4
    <3> QED BY <3>1, <3>2
  <2>4. h = [s \in SUBSET S |-> h[s]]
    OBVIOUS
  <2>5. Sums(h, n + 1)
    <3> HIDE DEF h, next
    <3> QED BY <2>3, <2>4
  <2> HIDE DEF Sums
  <2> QED BY <2>5
<1> HIDE DEF N
<1>3. Cardinality(S) \in N
  BY <1>1, <1>2, SetInduction, FS_CardinalityType
<1>4. PICK f : Sums(f, Cardinality(S))
  BY <1>3 DEF N
<1>5. \A s \in SUBSET S : f[s] = next(f, s)
  BY <1>4, FS_Subset
<1>6. f = [s \in SUBSET S |-> next(f, s)]
  <2> HIDE DEF next
  <2> QED BY <1>4, <1>5
<1> QED BY <1>6 DEF IsSum

\* A sum takes one element after the other.
LEMMA SumStep ==
    ASSUME NEW f, NEW g, NEW S, IsSum(f, g, S), NEW s \in SUBSET S
    PROVE  /\ s = {} => f[s] = 0
           /\ s # {} => /\ f[s] = g[AnyOf(s)] + f[s \ {AnyOf(s)}]
                        /\ AnyOf(s) \in s /\ s \ {AnyOf(s)} \in SUBSET S
<1>1. f[s] = IF s = {} THEN 0 ELSE g[AnyOf(s)] + f[s \ {AnyOf(s)}]
  BY Zenon DEF IsSum
<1> QED BY <1>1, AnyOfIs

\* Sums of the same numbers are the same.
LEMMA SumsAreUnique ==
    ASSUME NEW S, IsFiniteSet(S), NEW P, S \subseteq P, NEW Q, S \subseteq Q,
           NEW g, NEW h, \A x \in S : g[x] = h[x],
           NEW e, IsSum(e, g, P), NEW f, IsSum(f, h, Q)
    PROVE  \A s \in SUBSET S : e[s] = f[s]
<1> DEFINE N == {n \in Nat : \A s \in SUBSET S : Cardinality(s) = n => e[s] = f[s]}
<1>1. 0 \in N
  <2> SUFFICES ASSUME NEW s \in SUBSET S, Cardinality(s) = 0 PROVE e[s] = f[s]
    OBVIOUS
  <2>1. s = {} /\ s \in SUBSET P /\ s \in SUBSET Q
    BY FS_Subset, FS_EmptySet
  <2> QED BY <2>1, SumStep
<1>2. ASSUME NEW n \in Nat, n \in N PROVE n + 1 \in N
  <2> SUFFICES ASSUME NEW s \in SUBSET S, Cardinality(s) = n + 1 PROVE e[s] = f[s]
    OBVIOUS
  <2>1. s # {} /\ IsFiniteSet(s) /\ s \in SUBSET P /\ s \in SUBSET Q
    BY OneLess
  <2> DEFINE x == AnyOf(s)
  <2>2. /\ e[s] = g[x] + e[s \ {x}] /\ f[s] = h[x] + f[s \ {x}] /\ x \in s
    <3>1. e[s] = g[x] + e[s \ {x}] /\ x \in s
      BY <2>1, SumStep
    <3>2. f[s] = h[x] + f[s \ {x}]
      BY <2>1, SumStep
    <3> QED BY <3>1, <3>2
  <2>3. Cardinality(s \ {x}) = n /\ s \ {x} \in SUBSET S
    BY <2>2, OneLess
  <2>4. e[s \ {x}] = f[s \ {x}] /\ g[x] = h[x]
    BY <1>2, <2>2, <2>3
  <2> QED BY <2>2, <2>4
<1> HIDE DEF N
<1>3. Nat \subseteq N
  BY <1>1, <1>2, SetInduction
<1> SUFFICES ASSUME NEW s \in SUBSET S PROVE e[s] = f[s]
  OBVIOUS
<1>4. Cardinality(s) \in N
  BY <1>3, FS_Subset, FS_CardinalityType
<1> QED BY <1>4 DEF N

\* SumOver is such a sum.
LEMMA SumOverIs ==
    ASSUME NEW S, IsFiniteSet(S), NEW g
    PROVE  \E f : IsSum(f, g, S) /\ SumOver(g, S) = f[S]
<1> DEFINE F == CHOOSE f : IsSum(f, g, S)
<1>1. IsSum(F, g, S)
  BY SumsExist, Zenon
<1>2. SumOver(g, S) = F[S]
  BY Zenon DEF SumOver, IsSum
<1> HIDE DEF F
<1> QED BY <1>1, <1>2

\* Any function that adds up g gives the sum.
LEMMA SumIsSumOver ==
    ASSUME NEW S, IsFiniteSet(S), NEW g, NEW f, IsSum(f, g, S), NEW s \in SUBSET S
    PROVE  f[s] = SumOver(g, s)
<1>1. IsFiniteSet(s)
  BY FS_Subset
<1>2. PICK e : IsSum(e, g, s) /\ SumOver(g, s) = e[s]
  BY <1>1, SumOverIs
<1>3. \A r \in SUBSET s : f[r] = e[r]
  BY <1>1, <1>2, SumsAreUnique
<1> QED BY <1>2, <1>3

\* Equal numbers have equal sums.
LEMMA EqualSums ==
    ASSUME NEW S, IsFiniteSet(S), NEW g, NEW h, \A x \in S : g[x] = h[x]
    PROVE  SumOver(g, S) = SumOver(h, S)
<1>1. PICK e : IsSum(e, g, S) /\ SumOver(g, S) = e[S]
  BY SumOverIs
<1>2. PICK f : IsSum(f, h, S) /\ SumOver(h, S) = f[S]
  BY SumOverIs
<1>3. \A s \in SUBSET S : e[s] = f[s]
  BY <1>1, <1>2, SumsAreUnique
<1> QED BY <1>1, <1>2, <1>3

\* A sum of integers is one, and a sum of natural numbers is one.
LEMMA SumIsInt ==
    ASSUME NEW S, IsFiniteSet(S), NEW g, NEW R \in {Int, Nat}, \A x \in S : g[x] \in R, NEW f, IsSum(f, g, S)
    PROVE  \A s \in SUBSET S : f[s] \in R
<1> DEFINE N == {n \in Nat : \A s \in SUBSET S : Cardinality(s) = n => f[s] \in R}
<1>1. 0 \in N
  <2> SUFFICES ASSUME NEW s \in SUBSET S, Cardinality(s) = 0 PROVE f[s] \in R
    OBVIOUS
  <2>1. s = {}
    BY FS_Subset, FS_EmptySet
  <2>2. f[s] = 0
    BY <2>1, SumStep
  <2> QED BY <2>2
<1>2. ASSUME NEW n \in Nat, n \in N PROVE n + 1 \in N
  <2> SUFFICES ASSUME NEW s \in SUBSET S, Cardinality(s) = n + 1 PROVE f[s] \in R
    OBVIOUS
  <2> DEFINE y == AnyOf(s)
  <2>1. s # {}
    BY OneLess
  <2>2. f[s] = g[y] + f[s \ {y}] /\ y \in s
    BY <2>1, SumStep
  <2>3. Cardinality(s \ {y}) = n /\ s \ {y} \in SUBSET S
    BY <2>2, OneLess
  <2>4. f[s \ {y}] \in R /\ g[y] \in R
    BY <1>2, <2>2, <2>3
  <2> QED BY <2>2, <2>4
<1> HIDE DEF N
<1>3. Nat \subseteq N
  BY <1>1, <1>2, SetInduction
<1> SUFFICES ASSUME NEW s \in SUBSET S PROVE f[s] \in R
  OBVIOUS
<1>4. Cardinality(s) \in N
  BY <1>3, FS_Subset, FS_CardinalityType
<1> QED BY <1>4 DEF N

\* x may be the element that is taken first.
TakenFirst(f, g, s, x) == f[s] = g[x] + f[s \ {x}]

\* The order in which the elements are taken does not matter.
LEMMA AnyOrder ==
    ASSUME NEW S, IsFiniteSet(S), NEW g, \A x \in S : g[x] \in Int, NEW f, IsSum(f, g, S), NEW c \in SUBSET S, NEW z \in c
    PROVE  TakenFirst(f, g, c, z)
<1> DEFINE Good(s) == \A x \in s : f[s] = g[x] + f[s \ {x}]
           N == {n \in Nat : \A s \in SUBSET S : Cardinality(s) = n => Good(s)}
<1>0. \A s \in SUBSET S : f[s] \in Int
  BY SumIsInt
<1>1. 0 \in N
  <2> SUFFICES ASSUME NEW s \in SUBSET S, Cardinality(s) = 0 PROVE Good(s)
    OBVIOUS
  <2>1. s = {}
    BY FS_Subset, FS_EmptySet
  <2> QED BY <2>1
<1>2. ASSUME NEW n \in Nat, n \in N PROVE n + 1 \in N
  <2> SUFFICES ASSUME NEW s \in SUBSET S, Cardinality(s) = n + 1, NEW x \in s PROVE f[s] = g[x] + f[s \ {x}]
    OBVIOUS
  <2> DEFINE y == AnyOf(s)
             r == (s \ {x}) \ {y}
  <2>1. s # {}
    BY OneLess
  <2>2. f[s] = g[y] + f[s \ {y}] /\ y \in s
    BY <2>1, SumStep
  <2>3. Good(s \ {x}) /\ Good(s \ {y})
    <3>1. \A v \in s : Cardinality(s \ {v}) = n /\ s \ {v} \in SUBSET S
      BY OneLess
    <3> HIDE DEF Good
    <3> QED BY <1>2, <2>2, <3>1
  <2>4. CASE x = y
    BY <2>2, <2>4
  <2>5. CASE x # y
    <3>1. (s \ {y}) \ {x} = r /\ x \in s \ {y} /\ y \in s \ {x} /\ r \in SUBSET S
      BY <2>2, <2>5
    <3>2. f[s \ {y}] = g[x] + f[r] /\ f[s \ {x}] = g[y] + f[r]
      BY <2>3, <3>1
    <3>3. f[r] \in Int /\ g[x] \in Int /\ g[y] \in Int
      BY <1>0, <2>2, <3>1
    <3> HIDE DEF r, y
    <3> QED BY <2>2, <3>2, <3>3
  <2> QED BY <2>4, <2>5
<1> HIDE DEF N
<1>3. Nat \subseteq N
  BY <1>1, <1>2, SetInduction
<1>4. Cardinality(c) \in N
  BY <1>3, FS_Subset, FS_CardinalityType
<1>5. Good(c)
  <2> HIDE DEF Good
  <2> QED BY <1>4 DEF N
<1> QED BY <1>5 DEF TakenFirst

\* Nothing adds up to zero.
LEMMA EmptySum == ASSUME NEW g PROVE SumOver(g, {}) = 0
<1>1. IsFiniteSet({})
  BY FS_EmptySet
<1>2. PICK f : IsSum(f, g, {}) /\ SumOver(g, {}) = f[{}]
  BY <1>1, SumOverIs
<1>3. {} \in SUBSET {}
  OBVIOUS
<1> QED BY <1>2, <1>3, SumStep

\* One number less.
LEMMA SumWithout ==
    ASSUME NEW S, IsFiniteSet(S), NEW g, \A x \in S : g[x] \in Int, NEW x \in S
    PROVE  SumOver(g, S) = g[x] + SumOver(g, S \ {x})
<1>1. PICK f : IsSum(f, g, S) /\ SumOver(g, S) = f[S]
  BY SumOverIs
<1>2. S \in SUBSET S /\ S \ {x} \in SUBSET S
  OBVIOUS
<1>3. f[S \ {x}] = SumOver(g, S \ {x})
  BY <1>1, <1>2, SumIsSumOver
<1>4. f[S] = g[x] + f[S \ {x}]
  <2>1. TakenFirst(f, g, S, x)
    BY <1>1, <1>2, AnyOrder
  <2> QED BY <2>1 DEF TakenFirst
<1> QED BY <1>1, <1>3, <1>4

\* One number more.
LEMMA SumWith ==
    ASSUME NEW S, IsFiniteSet(S), NEW g, \A y \in S : g[y] \in Int, NEW x, x \notin S, g[x] \in Int
    PROVE  SumOver(g, S \union {x}) = SumOver(g, S) + g[x]
<1> DEFINE T == S \union {x}
<1>1. IsFiniteSet(T) /\ T \ {x} = S /\ x \in T /\ \A y \in T : g[y] \in Int
  BY FS_AddElement
<1> HIDE DEF T
<1>2. SumOver(g, T) = g[x] + SumOver(g, S)
  BY <1>1, SumWithout
<1>3. SumOver(g, S) \in Int
  <2>1. PICK f : IsSum(f, g, S) /\ SumOver(g, S) = f[S]
    BY SumOverIs
  <2>2. S \in SUBSET S
    OBVIOUS
  <2> QED BY <2>1, <2>2, SumIsInt
<1> QED BY <1>2, <1>3 DEF T

\* What a sum of integers or of natural numbers is.
LEMMA SumType ==
    ASSUME NEW S, IsFiniteSet(S), NEW g, NEW R \in {Int, Nat}, \A x \in S : g[x] \in R
    PROVE  SumOver(g, S) \in R
<1>1. PICK f : IsSum(f, g, S) /\ SumOver(g, S) = f[S]
  BY SumOverIs
<1>2. S \in SUBSET S
  OBVIOUS
<1> QED BY <1>1, <1>2, SumIsInt

\* The sum of differences is the difference of the sums.
LEMMA SumOfDifferences ==
    ASSUME NEW S, IsFiniteSet(S), NEW d, NEW g, NEW h,
           \A x \in S : g[x] \in Int /\ h[x] \in Int /\ d[x] = g[x] - h[x]
    PROVE  SumOver(d, S) = SumOver(g, S) - SumOver(h, S)
<1> DEFINE Good(T) == SumOver(d, T) = SumOver(g, T) - SumOver(h, T)
           C == {T \in SUBSET S : Good(T)}
<1>1. {} \in C
  BY EmptySum
<1>2. ASSUME NEW T \in SUBSET S, NEW x \in S \ T, T \in C PROVE T \union {x} \in C
  <2>1. IsFiniteSet(T) /\ T \union {x} \in SUBSET S
    BY FS_Subset
  <2>2. d[x] = g[x] - h[x] /\ g[x] \in Int /\ h[x] \in Int /\ d[x] \in Int
    OBVIOUS
  <2>3. \A y \in T : g[y] \in Int /\ h[y] \in Int /\ d[y] \in Int
    OBVIOUS
  <2>4. SumOver(g, T) \in Int /\ SumOver(h, T) \in Int
    BY <2>1, <2>3, SumType
  <2>5. SumOver(g, T \union {x}) = SumOver(g, T) + g[x]
    BY <2>1, <2>2, <2>3, SumWith
  <2>6. SumOver(h, T \union {x}) = SumOver(h, T) + h[x]
    BY <2>1, <2>2, <2>3, SumWith
  <2>7. SumOver(d, T \union {x}) = SumOver(d, T) + d[x]
    BY <2>1, <2>2, <2>3, SumWith
  <2> QED BY <1>2, <2>1, <2>2, <2>4, <2>5, <2>6, <2>7
<1> HIDE DEF C
<1>3. S \in C
  BY <1>1, <1>2, FiniteInduction
<1> QED BY <1>3 DEF C

\* A sum over the images of different elements.
LEMMA SumRenamed ==
    ASSUME NEW S, IsFiniteSet(S), NEW r, \A x, y \in S : r[x] = r[y] => x = y,
           NEW g, NEW h, \A x \in S : h[x] = g[r[x]] /\ h[x] \in Int,
           NEW R, \A x \in S : r[x] \in R, \A y \in R : \E x \in S : r[x] = y
    PROVE  IsFiniteSet(R) /\ SumOver(g, R) = SumOver(h, S)
<1> DEFINE Image(T) == {r[x] : x \in T}
           Good(T) == IsFiniteSet(Image(T)) /\ SumOver(g, Image(T)) = SumOver(h, T)
           C == {T \in SUBSET S : Good(T)}
<1>1. {} \in C
  <2>1. Image({}) = {}
    OBVIOUS
  <2> QED BY <2>1, EmptySum, FS_EmptySet
<1>2. ASSUME NEW T \in SUBSET S, NEW x \in S \ T, T \in C PROVE T \union {x} \in C
  <2>1. IsFiniteSet(T) /\ T \union {x} \in SUBSET S
    BY FS_Subset
  <2>2. Image(T \union {x}) = Image(T) \union {r[x]} /\ r[x] \notin Image(T)
    OBVIOUS
  <2>3. g[r[x]] = h[x] /\ h[x] \in Int /\ (\A y \in T : h[y] \in Int) /\ \A z \in Image(T) : g[z] \in Int
    OBVIOUS
  <2> HIDE DEF Image
  <2>4. IsFiniteSet(Image(T)) /\ IsFiniteSet(Image(T) \union {r[x]})
    BY <1>2, FS_AddElement
  <2>5. PICK V, z : V = Image(T) /\ z = r[x]
    OBVIOUS
  <2>6. SumOver(g, V \union {z}) = SumOver(g, V) + g[z]
    BY <2>2, <2>3, <2>4, <2>5, SumWith
  <2>7. SumOver(h, T \union {x}) = SumOver(h, T) + h[x]
    BY <2>1, <2>3, SumWith
  <2>8. Good(T \union {x})
    BY <1>2, <2>2, <2>3, <2>4, <2>5, <2>6, <2>7
  <2> HIDE DEF Good
  <2> QED BY <2>1, <2>8
<1> HIDE DEF C
<1>3. S \in C
  BY <1>1, <1>2, FiniteInduction
<1>4. Image(S) = R
  OBVIOUS
<1> QED BY <1>3, <1>4 DEF C

\* A sum over a part and over the rest.
LEMMA SumSplits ==
    ASSUME NEW S, IsFiniteSet(S), NEW P, P \subseteq S, NEW g, \A x \in S : g[x] \in Int
    PROVE  SumOver(g, S) = SumOver(g, P) + SumOver(g, S \ P)
<1> DEFINE R == S \ P
           Good(T) == SumOver(g, P \union T) = SumOver(g, P) + SumOver(g, T)
           C == {T \in SUBSET R : Good(T)}
<1>0. /\ IsFiniteSet(P) /\ IsFiniteSet(R) /\ \A x \in P : g[x] \in Int
      /\ SumOver(g, P) \in Int
  BY FS_Subset, SumType
<1>1. {} \in C
  <2>1. P \union {} = P
    OBVIOUS
  <2> QED BY <1>0, <2>1, EmptySum
<1>2. ASSUME NEW T \in SUBSET R, NEW x \in R \ T, T \in C PROVE T \union {x} \in C
  <2>1. PICK V : V = P \union T
    OBVIOUS
  <2>2. IsFiniteSet(T) /\ IsFiniteSet(V) /\ T \union {x} \in SUBSET R
    <3>1. V \in SUBSET S /\ T \in SUBSET S
      BY <2>1
    <3> QED BY <3>1, FS_Subset
  <2>3. /\ (\A y \in T : g[y] \in Int) /\ (\A y \in V : g[y] \in Int) /\ g[x] \in Int /\ x \notin V /\ x \notin T
        /\ P \union (T \union {x}) = V \union {x}
    BY <2>1
  <2>4. SumOver(g, T \union {x}) = SumOver(g, T) + g[x]
    BY <2>2, <2>3, SumWith
  <2>5. SumOver(g, V \union {x}) = SumOver(g, V) + g[x]
    BY <2>2, <2>3, SumWith
  <2>6. SumOver(g, T) \in Int
    BY <2>2, <2>3, SumType
  <2>7. SumOver(g, V) = SumOver(g, P) + SumOver(g, T)
    BY <1>2, <2>1
  <2>8. SumOver(g, V \union {x}) = SumOver(g, P) + SumOver(g, T \union {x})
    BY ONLY <1>0, <2>3, <2>4, <2>5, <2>6, <2>7
  <2>9. Good(T \union {x})
    BY <2>3, <2>8
  <2> HIDE DEF Good
  <2> QED BY <2>2, <2>9
<1> HIDE DEF C
<1>3. R \in C
  BY <1>0, <1>1, <1>2, FiniteInduction
<1>4. P \union R = S
  OBVIOUS
<1> QED BY <1>3, <1>4 DEF C

\* Zeros add up to zero.
LEMMA SumOfZeros ==
    ASSUME NEW S, IsFiniteSet(S), NEW g, \A x \in S : g[x] = 0
    PROVE  SumOver(g, S) = 0
<1> DEFINE C == {T \in SUBSET S : SumOver(g, T) = 0}
<1>1. {} \in C
  BY EmptySum
<1>2. ASSUME NEW T \in SUBSET S, NEW x \in S \ T, T \in C PROVE T \union {x} \in C
  <2>1. IsFiniteSet(T) /\ T \union {x} \in SUBSET S /\ g[x] \in Int /\ g[x] = 0 /\ \A y \in T : g[y] \in Int
    BY FS_Subset
  <2>2. SumOver(g, T \union {x}) = SumOver(g, T) + g[x]
    BY <2>1, SumWith
  <2> QED BY <1>2, <2>1, <2>2
<1> HIDE DEF C
<1>3. S \in C
  BY <1>1, <1>2, FiniteInduction
<1> QED BY <1>3 DEF C

\* A part of a set of natural numbers adds up to no more than all of it.
LEMMA PartOfSum ==
    ASSUME NEW S, IsFiniteSet(S), NEW P, P \subseteq S, NEW g, \A x \in S : g[x] \in Nat
    PROVE  SumOver(g, P) <= SumOver(g, S)
<1> DEFINE R == S \ P
<1>1. IsFiniteSet(P) /\ IsFiniteSet(R) /\ (\A x \in P : g[x] \in Nat) /\ (\A x \in R : g[x] \in Nat) /\ \A x \in S : g[x] \in Int
  BY FS_Subset
<1>2. SumOver(g, S) = SumOver(g, P) + SumOver(g, R)
  BY <1>1, SumSplits
<1> HIDE DEF R
<1>3. SumOver(g, P) \in Nat
  BY <1>1, SumType
<1>4. SumOver(g, R) \in Nat
  BY <1>1, SumType
<1> QED BY <1>2, <1>3, <1>4
====
