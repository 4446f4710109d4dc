-------------------------- MODULE ConstraintProofs --------------------------
(***************************************************************************)
(* Theorems about Constraints, for timetables of any length: what the hard *)
(* constraints report, what the running count of sessions in a row adds up *)
(* to, and that the score does not depend on the order of the rows.  The   *)
(* inductions over data are made with least elements, since the theorems   *)
(* of the library that take a predicate cannot be instantiated.            *)
(***************************************************************************)
EXTENDS Constraints, FiniteSetTheorems, TLAPS

(***************************************************************************)
(* Natural numbers and finite sets                                         *)
(***************************************************************************)

LEMMA LeastNatural ==
  ASSUME NEW T \in SUBSET Nat, T # {}
  PROVE  \E n \in T : \A m \in T : n <= m
<1>1. PICK b \in T : b \in Nat
  OBVIOUS
<1> DEFINE F == {0 .. m : m \in {k \in T : k <= b}}
<1>2. F \subseteq FiniteSubsetsOf(0 .. b) /\ F # {}
  <2>1. \A m \in T : m <= b => IsFiniteSet(0 .. m) /\ 0 .. m \subseteq 0 .. b
    BY <1>1, FS_Interval
  <2>2. 0 .. b \in F
    BY <1>1
  <2> QED BY <2>1, <2>2 DEF FiniteSubsetsOf
<1>3. PICK I \in F : \A J \in F : <<J, I>> \notin StrictSubsetOrdering(0 .. b)
  <2> DEFINE R == StrictSubsetOrdering(0 .. b)
             D == FiniteSubsetsOf(0 .. b)
  <2>1. IsWellFoundedOn(R, D)
    BY FS_StrictSubsetOrderingWellFounded
  <2> HIDE DEF F, R, D
  <2>2. F \subseteq D /\ F # {}
    BY <1>2 DEF D
  <2>3. \E I \in F : \A J \in F : ~ (<<J, I>> \in R)
    BY <2>1, <2>2, WFMin
  <2> QED BY <2>3 DEF R
<1>4. PICK n \in T : n <= b /\ I = 0 .. n
  BY <1>3
<1>5. ASSUME NEW m \in T, m < n PROVE FALSE
  <2>1. 0 .. m \in F /\ 0 .. m \subseteq 0 .. n /\ n \in 0 .. n /\ n \notin 0 .. m
    BY <1>1, <1>4, <1>5
  <2>2. <<0 .. m, I>> \in (SUBSET (0 .. b)) \X (SUBSET (0 .. b))
    BY <1>1, <1>4, <2>1
  <2>3. <<0 .. m, I>> \in StrictSubsetOrdering(0 .. b)
    BY <1>4, <2>1, <2>2 DEF StrictSubsetOrdering
  <2> QED
    BY <1>3, <2>1, <2>3
<1> QED
  BY <1>4, <1>5

LEMMA OneLess ==
  ASSUME NEW S, IsFiniteSet(S), NEW x \in S
  PROVE  /\ IsFiniteSet(S \ {x}) /\ Cardinality(S) \in Nat /\ Cardinality(S \ {x}) \in Nat
         /\ Cardinality(S \ {x}) = Cardinality(S) - 1
<1>1. IsFiniteSet(S \ {x}) /\ Cardinality(S \ {x}) = Cardinality(S) - 1
  BY FS_RemoveElement
<1>2. Cardinality(S) \in Nat
  BY FS_CardinalityType
<1>3. Cardinality(S \ {x}) \in Nat
  BY <1>1, FS_CardinalityType
<1> QED BY <1>1, <1>2, <1>3

(* Of the subsets of a finite set that are in a family, one leaves the family
   with any of its members. *)
LEMMA SmallestMember ==
  ASSUME NEW S, IsFiniteSet(S), NEW F \in SUBSET SUBSET S, F # {}
  PROVE  \E T \in F : IsFiniteSet(T) /\ \A x \in T : T \ {x} \notin F
<1> DEFINE N == {Cardinality(T) : T \in F}
<1>1. \A T \in F : IsFiniteSet(T) /\ Cardinality(T) \in Nat
  BY FS_Subset, FS_CardinalityType
<1>2. N \in SUBSET Nat /\ N # {}
  BY <1>1
<1>3. PICK n \in N : \A m \in N : n <= m
  BY <1>2, LeastNatural
<1>4. PICK T \in F : n = Cardinality(T)
  BY <1>3
<1>5. ASSUME NEW x \in T, T \ {x} \in F PROVE FALSE
  <2>1. Cardinality(T \ {x}) = Cardinality(T) - 1 /\ Cardinality(T) \in Nat
    BY <1>1, OneLess
  <2>2. n <= Cardinality(T \ {x})
    BY <1>3, <1>5
  <2> QED BY <1>4, <2>1, <2>2
<1> QED BY <1>1, <1>5

(***************************************************************************)
(* Sums of finitely many integers                                          *)
(***************************************************************************)

(* The recursion behind SumFunctionOnSet. *)
Sums(f, S, g) ==
  g = [T \in SUBSET S |-> IF T = {} THEN 0
                          ELSE LET x == CHOOSE x \in T : TRUE IN f[x] + g[T \ {x}]]

LEMMA SumIsChosen ==
  ASSUME NEW f, NEW S
  PROVE  SumFunctionOnSet(f, S) = (CHOOSE g : Sums(f, S, g))[S]
BY DEF SumFunctionOnSet, FoldFunctionOnSet, MapThenFoldSet, Sums

(* The recursion has a solution for the subsets of at most n members. *)
SumsUpTo(f, S, n, g) ==
  \A T \in SUBSET S : Cardinality(T) <= n =>
    g[T] = IF T = {} THEN 0 ELSE LET x == CHOOSE x \in T : TRUE IN f[x] + g[T \ {x}]

LEMMA SumsExist ==
  ASSUME NEW f, NEW S, IsFiniteSet(S)
  PROVE  \E g : Sums(f, S, g)
<1> DEFINE Small(n) == {T \in SUBSET S : Cardinality(T) <= n}
           Bad == {n \in Nat : ~ \E g : SumsUpTo(f, S, n, g)}
<1>1. \A T \in SUBSET S : /\ IsFiniteSet(T) /\ Cardinality(T) \in Nat
                          /\ Cardinality(T) <= Cardinality(S)
                          /\ \A x \in T : Cardinality(T \ {x}) = Cardinality(T) - 1
                          /\ Cardinality(T) = 0 <=> T = {}
  BY FS_Subset, FS_CardinalityType, FS_RemoveElement, FS_EmptySet
<1>2. Bad = {}
  <2> SUFFICES ASSUME Bad # {} PROVE FALSE
    OBVIOUS
  <2>1. PICK n \in Bad : \A m \in Bad : n <= m
    BY LeastNatural
  <2>2. n # 0
    <3> DEFINE g == [T \in SUBSET S |-> 0]
    <3>1. SumsUpTo(f, S, 0, g)
      BY <1>1 DEF SumsUpTo
    <3> QED
      BY <3>1
  <2>3. n - 1 \in Nat /\ n - 1 \notin Bad
    BY <2>1, <2>2
  <2>4. PICK h : SumsUpTo(f, S, n - 1, h)
    BY <2>3
  <2> DEFINE g == [T \in SUBSET S |-> IF T = {} THEN 0
                     ELSE IF Cardinality(T) < n THEN h[T]
                     ELSE LET x == CHOOSE x \in T : TRUE IN f[x] + h[T \ {x}]]
  <2>5. ASSUME NEW T \in SUBSET S, Cardinality(T) <= n, T # {}
        PROVE  g[T] = LET x == CHOOSE x \in T : TRUE IN f[x] + g[T \ {x}]
    <3> DEFINE c == CHOOSE x \in T : TRUE
    <3>1. c \in T /\ T \ {c} \in SUBSET S /\ Cardinality(T \ {c}) < n /\ Cardinality(T) \in Nat
      BY <1>1, <2>5
    <3>2. g[T \ {c}] = h[T \ {c}]
      <4>1. CASE T \ {c} = {}
        <5>1. {} \in SUBSET S /\ Cardinality({}) = 0 /\ 0 <= n - 1
          BY FS_EmptySet, <2>3
        <5>2. h[{}] = 0
          BY <5>1, <2>4 DEF SumsUpTo
        <5> QED BY <3>1, <4>1, <5>2
      <4>2. CASE T \ {c} # {}
        BY <3>1, <4>2
      <4> QED BY <4>1, <4>2
    <3>3. g[T] = f[c] + h[T \ {c}]
      <4>1. CASE Cardinality(T) < n
        <5>1. Cardinality(T) <= n - 1
          BY <3>1, <4>1, <2>1
        <5>2. h[T] = f[c] + h[T \ {c}]
          BY <5>1, <2>4, <2>5 DEF SumsUpTo
        <5> QED BY <4>1, <5>2, <2>5
      <4>2. CASE ~ (Cardinality(T) < n)
        BY <4>2, <2>5
      <4> QED BY <4>1, <4>2
    <3> QED BY <3>2, <3>3
  <2>6. SumsUpTo(f, S, n, g)
    BY <2>5 DEF SumsUpTo
  <2> HIDE DEF g
  <2> QED BY <2>1, <2>6
<1>3. PICK h : SumsUpTo(f, S, Cardinality(S), h)
  BY <1>1, <1>2
<1> DEFINE g == [T \in SUBSET S |-> h[T]]
<1>4. Sums(f, S, g)
  <2>1. \A T \in SUBSET S : h[T] = IF T = {} THEN 0
                              ELSE LET x == CHOOSE x \in T : TRUE IN f[x] + h[T \ {x}]
    BY <1>1, <1>3 DEF SumsUpTo
  <2>2. \A T \in SUBSET S : T # {} => T \ {CHOOSE x \in T : TRUE} \in SUBSET S
    OBVIOUS
  <2> QED BY <2>1, <2>2 DEF Sums
<1> HIDE DEF g
<1> QED BY <1>4

(* What it says of a set depends only on the values on the set. *)
LEMMA SumsAgree ==
  ASSUME NEW f, NEW S, IsFiniteSet(S), NEW g, Sums(f, S, g),
         NEW e, NEW R, IsFiniteSet(R), NEW h, Sums(e, R, h),
         NEW U, U \subseteq S, U \subseteq R, \A x \in U : f[x] = e[x]
  PROVE  g[U] = h[U]
<1> DEFINE F == {T \in SUBSET U : g[T] # h[T]}
<1> SUFFICES ASSUME F # {} PROVE FALSE
  OBVIOUS
<1>1. IsFiniteSet(U)
  BY FS_Subset
<1>2. PICK T \in F : \A x \in T : T \ {x} \notin F
  BY <1>1, SmallestMember
<1> DEFINE c == CHOOSE x \in T : TRUE
<1>3. /\ g[T] = IF T = {} THEN 0 ELSE f[c] + g[T \ {c}]
      /\ h[T] = IF T = {} THEN 0 ELSE e[c] + h[T \ {c}]
  BY DEF Sums
<1>4. CASE T = {}
  BY <1>3, <1>4
<1>5. CASE T # {}
  <2>1. c \in T /\ T \ {c} \in SUBSET U
    BY <1>5
  <2>2. T \ {c} \notin F
    BY <1>2, <2>1
  <2>3. g[T \ {c}] = h[T \ {c}]
    BY <2>1, <2>2
  <2> HIDE DEF c
  <2> QED BY <1>3, <1>5, <2>1, <2>3
<1> QED BY <1>4, <1>5

LEMMA SumSolves ==
  ASSUME NEW f, NEW S, IsFiniteSet(S)
  PROVE  \E g : Sums(f, S, g) /\ SumFunctionOnSet(f, S) = g[S]
BY SumsExist, SumIsChosen

LEMMA SumOfSubset ==
  ASSUME NEW f, NEW S, IsFiniteSet(S), NEW g, Sums(f, S, g), NEW U, U \subseteq S
  PROVE  g[U] = SumFunctionOnSet(f, U)
<1>1. IsFiniteSet(U)
  BY FS_Subset
<1>2. PICK h : Sums(f, U, h) /\ SumFunctionOnSet(f, U) = h[U]
  BY <1>1, SumSolves
<1>3. PICK e : e = f
  OBVIOUS
<1>4. Sums(e, U, h) /\ \A x \in U : f[x] = e[x]
  BY <1>2, <1>3
<1> HIDE <1>3
<1>5. g[U] = h[U]
  BY ONLY <1>1, <1>4, SumsAgree, IsFiniteSet(S), Sums(f, S, g), U \subseteq S, U \subseteq U
<1> QED BY <1>2, <1>5

LEMMA SumAgrees ==
  ASSUME NEW f, NEW e, NEW S, IsFiniteSet(S), \A x \in S : f[x] = e[x]
  PROVE  SumFunctionOnSet(f, S) = SumFunctionOnSet(e, S)
<1>1. PICK g : Sums(f, S, g) /\ SumFunctionOnSet(f, S) = g[S]
  BY SumSolves
<1>2. PICK h : Sums(e, S, h) /\ SumFunctionOnSet(e, S) = h[S]
  BY SumSolves
<1> QED BY <1>1, <1>2, SumsAgree

LEMMA SumOfNone ==
  ASSUME NEW f
  PROVE  SumFunctionOnSet(f, {}) = 0
<1>1. PICK g : Sums(f, {}, g) /\ SumFunctionOnSet(f, {}) = g[{}]
  BY SumSolves, FS_EmptySet
<1> QED BY <1>1 DEF Sums

LEMMA SumTakesFirst ==
  ASSUME NEW f, NEW S, IsFiniteSet(S), S # {}
  PROVE  LET x == CHOOSE x \in S : TRUE
         IN  x \in S /\ SumFunctionOnSet(f, S) = f[x] + SumFunctionOnSet(f, S \ {x})
<1> DEFINE c == CHOOSE x \in S : TRUE
<1>1. c \in S /\ S \ {c} \subseteq S /\ IsFiniteSet(S \ {c})
  BY FS_RemoveElement
<1>2. PICK g : Sums(f, S, g) /\ SumFunctionOnSet(f, S) = g[S]
  BY SumSolves
<1>3. g[S] = f[c] + g[S \ {c}]
  BY <1>2 DEF Sums
<1> HIDE DEF c
<1>4. g[S \ {c}] = SumFunctionOnSet(f, S \ {c})
  BY <1>1, <1>2, SumOfSubset
<1> QED BY <1>1, <1>2, <1>3, <1>4 DEF c

LEMMA SumType ==
  ASSUME NEW f, NEW S, IsFiniteSet(S), \A x \in S : f[x] \in Int
  PROVE  SumFunctionOnSet(f, S) \in Int
<1> DEFINE F == {T \in SUBSET S : SumFunctionOnSet(f, T) \notin Int}
<1> SUFFICES ASSUME F # {} PROVE FALSE
  OBVIOUS
<1>1. PICK T \in F : IsFiniteSet(T) /\ \A x \in T : T \ {x} \notin F
  BY SmallestMember
<1>2. T # {} /\ IsFiniteSet(T) /\ T \subseteq S
  BY <1>1, SumOfNone
<1>3. PICK c \in T : SumFunctionOnSet(f, T) = f[c] + SumFunctionOnSet(f, T \ {c})
  BY <1>2, SumTakesFirst
<1>4. SumFunctionOnSet(f, T \ {c}) \in Int
  BY <1>1, <1>2
<1>5. f[c] \in Int
  BY <1>2
<1> QED BY <1>3, <1>4, <1>5

(* Any member may be added first. *)
LEMMA SumTakesAny ==
  ASSUME NEW f, NEW S, IsFiniteSet(S), \A x \in S : f[x] \in Int, NEW y \in S
  PROVE  SumFunctionOnSet(f, S) = f[y] + SumFunctionOnSet(f, S \ {y})
<1> DEFINE Sum(T) == SumFunctionOnSet(f, T)
           F == {T \in SUBSET S : \E x \in T : Sum(T) # f[x] + Sum(T \ {x})}
<1> SUFFICES ASSUME F # {} PROVE FALSE
  OBVIOUS
<1>1. PICK T \in F : IsFiniteSet(T) /\ \A x \in T : T \ {x} \notin F
  BY SmallestMember
<1>2. PICK x \in T : Sum(T) # f[x] + Sum(T \ {x})
  OBVIOUS
<1>3. IsFiniteSet(T) /\ T \subseteq S
  BY <1>1
<1>4. PICK c \in T : Sum(T) = f[c] + Sum(T \ {c})
  BY <1>2, <1>3, SumTakesFirst
<1>5. c # x
  BY <1>2, <1>4
<1>6. \A z \in T : IsFiniteSet(T \ {z}) /\ T \ {z} \subseteq S /\ T \ {z} \notin F
  BY <1>1, <1>3, OneLess
<1>8. Sum(T \ {c}) = f[x] + Sum((T \ {c}) \ {x})
  BY <1>5, <1>6
<1>9. Sum(T \ {x}) = f[c] + Sum((T \ {x}) \ {c})
  BY <1>5, <1>6
<1>10. (T \ {c}) \ {x} = (T \ {x}) \ {c} /\ IsFiniteSet((T \ {c}) \ {x})
  BY <1>6, FS_RemoveElement
<1>11. Sum((T \ {c}) \ {x}) \in Int /\ f[x] \in Int /\ f[c] \in Int
  BY <1>3, <1>10, SumType
<1>12. \E s \in Int : Sum(T \ {c}) = f[x] + s /\ Sum(T \ {x}) = f[c] + s
  BY <1>8, <1>9, <1>10, <1>11
<1> HIDE DEF Sum
<1> QED BY <1>2, <1>4, <1>11, <1>12

(* A renaming of what is summed leaves the sum. *)
Image(p, T) == {p[x] : x \in T}

LEMMA SumOfRenamed ==
  ASSUME NEW S, IsFiniteSet(S), NEW f, \A x \in S : f[x] \in Int,
         NEW p, \A x, y \in S : p[x] = p[y] => x = y,
         NEW e, \A x \in S : e[p[x]] = f[x]
  PROVE  IsFiniteSet(Image(p, S)) /\ SumFunctionOnSet(e, Image(p, S)) = SumFunctionOnSet(f, S)
<1> DEFINE Good(T) == /\ IsFiniteSet(Image(p, T))
                      /\ SumFunctionOnSet(e, Image(p, T)) = SumFunctionOnSet(f, T)
           F == {T \in SUBSET S : ~ Good(T)}
<1> SUFFICES ASSUME F # {} PROVE FALSE
  OBVIOUS
<1>1. PICK T \in F : IsFiniteSet(T) /\ \A x \in T : T \ {x} \notin F
  BY SmallestMember
<1>2. IsFiniteSet(T) /\ T \subseteq S
  BY <1>1
<1>3. T # {}
  <2>1. Image(p, {}) = {}
    BY DEF Image
  <2> QED BY <2>1, SumOfNone, FS_EmptySet
<1>4. PICK x : x \in T
  BY <1>3
<1>5. T \ {x} \in SUBSET S /\ T \ {x} \notin F
  BY <1>1, <1>4
<1>6. Good(T \ {x})
  BY <1>5
<1>7. Image(p, T) = Image(p, T \ {x}) \cup {p[x]} /\ p[x] \notin Image(p, T \ {x})
  BY <1>2, <1>4 DEF Image
<1>8. IsFiniteSet(Image(p, T))
  <2>1. IsFiniteSet(Image(p, T \ {x}) \cup {p[x]})
    BY <1>6, FS_AddElement
  <2> QED BY <1>7, <2>1
<1>9. \A z \in Image(p, T) : e[z] \in Int
  BY <1>2 DEF Image
<1>10. SumFunctionOnSet(e, Image(p, T)) = e[p[x]] + SumFunctionOnSet(e, Image(p, T) \ {p[x]})
  <2>1. p[x] \in Image(p, T)
    BY <1>7
  <2> QED BY <1>8, <1>9, <2>1, SumTakesAny
<1>11. Image(p, T) \ {p[x]} = Image(p, T \ {x})
  BY <1>7
<1>12. SumFunctionOnSet(f, T) = f[x] + SumFunctionOnSet(f, T \ {x})
  BY <1>2, <1>4, SumTakesAny
<1> QED BY <1>2, <1>4, <1>6, <1>8, <1>10, <1>11, <1>12

(* The members of disjoint sets are as many as the sum of their numbers. *)
LEMMA SizeOfDisjointUnion ==
  ASSUME NEW S, IsFiniteSet(S), NEW A, \A x \in S : IsFiniteSet(A[x]),
         \A x, y \in S : x # y => A[x] \cap A[y] = {},
         NEW f, \A x \in S : f[x] = Cardinality(A[x])
  PROVE  Cardinality(UNION Image(A, S)) = SumFunctionOnSet(f, S)
<1> DEFINE Good(T) == /\ IsFiniteSet(UNION Image(A, T))
                      /\ Cardinality(UNION Image(A, T)) = SumFunctionOnSet(f, T)
           F == {T \in SUBSET S : ~ Good(T)}
<1> SUFFICES ASSUME F # {} PROVE FALSE
  BY FS_Subset
<1>1. PICK T \in F : IsFiniteSet(T) /\ \A x \in T : T \ {x} \notin F
  BY SmallestMember
<1>2. IsFiniteSet(T) /\ T \subseteq S
  BY <1>1
<1>3. T # {}
  <2>1. UNION Image(A, {}) = {}
    BY DEF Image
  <2> QED BY <2>1, SumOfNone, FS_EmptySet
<1>4. PICK x : x \in T
  BY <1>3
<1>5. T \ {x} \in SUBSET S /\ T \ {x} \notin F
  BY <1>1, <1>4
<1>6. Good(T \ {x})
  BY <1>5
<1> DEFINE B == UNION Image(A, T \ {x})
<1>7. UNION Image(A, T) = B \cup A[x] /\ B \cap A[x] = {}
  <2>1. \A y \in T \ {x} : A[y] \cap A[x] = {}
    BY <1>2, <1>4
  <2>2. Image(A, T) = Image(A, T \ {x}) \cup {A[x]}
    BY <1>4 DEF Image
  <2>3. B \cap A[x] = {}
    BY <2>1 DEF Image
  <2> QED BY <2>2, <2>3
<1>8. IsFiniteSet(A[x]) /\ IsFiniteSet(B) /\ Cardinality(A[x]) \in Nat /\ Cardinality(B) \in Nat
  BY <1>2, <1>4, <1>6, FS_CardinalityType
<1> HIDE DEF B
<1>9. IsFiniteSet(B \cup A[x]) /\ Cardinality(B \cup A[x]) = Cardinality(B) + Cardinality(A[x])
  <2>1. Cardinality(B \cup A[x]) = Cardinality(B) + Cardinality(A[x]) - Cardinality(B \cap A[x])
    BY <1>8, FS_Union
  <2>2. Cardinality(B \cap A[x]) = 0
    BY <1>7, FS_EmptySet
  <2>3. IsFiniteSet(B \cup A[x])
    BY <1>8, FS_Union
  <2> QED BY <1>8, <2>1, <2>2, <2>3
<1>10. SumFunctionOnSet(f, T) = f[x] + SumFunctionOnSet(f, T \ {x})
  <2>1. \A y \in T : f[y] \in Int
    BY <1>2, FS_CardinalityType
  <2> QED BY <1>2, <1>4, <2>1, SumTakesAny
<1>11. Cardinality(B) = SumFunctionOnSet(f, T \ {x}) /\ f[x] = Cardinality(A[x])
  BY <1>2, <1>4, <1>6 DEF B
<1>12. Cardinality(B \cup A[x]) = SumFunctionOnSet(f, T)
  BY <1>8, <1>9, <1>10, <1>11
<1>13. Good(T)
  BY <1>7, <1>9, <1>12
<1> QED BY <1>13

(***************************************************************************)
(* Sorting: a finite set with a strict total order is in one order         *)
(***************************************************************************)

TotalOrder(D, R) ==
  /\ \A x \in D : <<x, x>> \notin R
  /\ \A x, y, z \in D : <<x, y>> \in R /\ <<y, z>> \in R => <<x, z>> \in R
  /\ \A x, y \in D : x = y \/ <<x, y>> \in R \/ <<y, x>> \in R

InOrder(D, R, n, day) ==
  /\ day \in [1 .. n -> D]
  /\ \A k, l \in 1 .. n : k < l => <<day[k], day[l]>> \in R

(* What is sorted holds every member, once. *)
LEMMA SortedIsOnto ==
  ASSUME NEW D, IsFiniteSet(D), NEW R, TotalOrder(D, R),
         NEW day, InOrder(D, R, Cardinality(D), day)
  PROVE  /\ \A x \in D : \E k \in 1 .. Cardinality(D) : day[k] = x
         /\ \A k, l \in 1 .. Cardinality(D) : day[k] = day[l] => k = l
<1> DEFINE n == Cardinality(D)
<1>1. n \in Nat
  BY FS_CardinalityType
<1> HIDE DEF n
<1>2. day \in [1 .. n -> D] /\ \A k, l \in 1 .. n : k < l => <<day[k], day[l]>> \in R
  BY DEF InOrder, n
<1>3. \A k, l \in 1 .. n : day[k] = day[l] => k = l
  <2> SUFFICES ASSUME NEW k \in 1 .. n, NEW l \in 1 .. n, day[k] = day[l], k # l PROVE FALSE
    OBVIOUS
  <2>1. k < l \/ l < k
    BY <1>1
  <2>2. <<day[k], day[k]>> \in R /\ day[k] \in D
    BY <1>2, <2>1
  <2> QED BY <2>2 DEF TotalOrder
<1>4. day \in Injection(1 .. n, D)
  BY <1>2, <1>3 DEF Injection, IsInjective
<1>5. Cardinality(1 .. n) = n
  BY <1>1, FS_Interval
<1>6. day \in Surjection(1 .. n, D)
  BY <1>4, <1>5, FS_Injection DEF n
<1> QED BY <1>3, <1>6 DEF Surjection, n

LEMMA SortedIsOne ==
  ASSUME NEW D, IsFiniteSet(D), NEW R, TotalOrder(D, R),
         NEW a, InOrder(D, R, Cardinality(D), a), NEW b, InOrder(D, R, Cardinality(D), b)
  PROVE  a = b
<1> DEFINE n == Cardinality(D)
           N == 1 .. n
<1>1. n \in Nat
  BY FS_CardinalityType
<1>2. /\ a \in [N -> D] /\ \A k, l \in N : k < l => <<a[k], a[l]>> \in R
      /\ b \in [N -> D] /\ \A k, l \in N : k < l => <<b[k], b[l]>> \in R
  BY DEF InOrder
<1>3. /\ \A x \in D : \E k \in N : a[k] = x
      /\ \A x \in D : \E k \in N : b[k] = x
      /\ \A k, l \in N : a[k] = a[l] => k = l
      /\ \A k, l \in N : b[k] = b[l] => k = l
  BY SortedIsOnto
<1> HIDE DEF n
<1> DEFINE T == {k \in N : a[k] # b[k]}
<1>4. SUFFICES ASSUME T # {} PROVE FALSE
  <2>1. T = {} => \A k \in N : a[k] = b[k]
    OBVIOUS
  <2>2. a = [k \in N |-> a[k]] /\ b = [k \in N |-> b[k]]
    BY <1>2
  <2>3. (\A k \in N : a[k] = b[k]) => a = b
    BY <2>2, Zenon
  <2> HIDE DEF T
  <2> QED BY <2>1, <2>3
<1>5. PICK k \in T : \A l \in T : k <= l
  <2>1. T \in SUBSET Nat
    BY <1>1
  <2> HIDE DEF T
  <2> QED BY <1>4, <2>1, LeastNatural
<1>6. PICK l \in N : b[l] = a[k]
  BY <1>2, <1>3
<1>7. PICK m \in N : a[m] = b[k]
  BY <1>2, <1>3
<1>8. k < l
  <2>1. l # k
    BY <1>6
  <2>2. l < k => FALSE
    <3>1. l < k => a[l] = b[l]
      BY <1>1, <1>5
    <3> QED BY <1>1, <1>3, <1>6, <3>1
  <2> QED BY <1>1, <2>1, <2>2
<1>9. k < m
  <2>1. m # k
    BY <1>7
  <2>2. m < k => FALSE
    <3>1. m < k => a[m] = b[m]
      BY <1>1, <1>5
    <3> QED BY <1>1, <1>3, <1>7, <3>1
  <2> QED BY <1>1, <2>1, <2>2
<1>10. <<b[k], a[k]>> \in R /\ <<a[k], b[k]>> \in R
  BY <1>2, <1>6, <1>7, <1>8, <1>9
<1>11. a[k] \in D /\ b[k] \in D
  BY <1>2
<1> QED BY <1>10, <1>11 DEF TotalOrder

LEMMA SortedExists ==
  ASSUME NEW D, IsFiniteSet(D), NEW R, TotalOrder(D, R)
  PROVE  \E day : InOrder(D, R, Cardinality(D), day)
<1> DEFINE n == Cardinality(D)
           Lower(x) == {y \in D : <<y, x>> \in R}
           rank == [x \in D |-> 1 + Cardinality(Lower(x))]
<1>1. n \in Nat
  BY FS_CardinalityType
<1>2. \A x \in D : /\ IsFiniteSet(Lower(x)) /\ Cardinality(Lower(x)) \in Nat
                   /\ rank[x] \in 1 .. n
  <2> TAKE x \in D
  <2>1. Lower(x) \in SUBSET D /\ x \notin Lower(x)
    BY DEF TotalOrder
  <2>2. IsFiniteSet(Lower(x)) /\ Cardinality(Lower(x)) <= n /\ Cardinality(Lower(x)) # n
    BY <2>1, FS_Subset
  <2>3. Cardinality(Lower(x)) \in Nat
    BY <2>2, FS_CardinalityType
  <2> QED BY <1>1, <2>2, <2>3
<1>3. \A x, y \in D : <<x, y>> \in R => rank[x] < rank[y]
  <2> SUFFICES ASSUME NEW x \in D, NEW y \in D, <<x, y>> \in R
               PROVE  rank[x] < rank[y]
    OBVIOUS
  <2>1. Lower(x) \in SUBSET Lower(y) /\ x \in Lower(y) /\ x \notin Lower(x)
    BY DEF TotalOrder
  <2>2. /\ Cardinality(Lower(x)) <= Cardinality(Lower(y))
        /\ Cardinality(Lower(x)) # Cardinality(Lower(y))
    BY <1>2, <2>1, FS_Subset
  <2> QED BY <1>2, <2>2
<1> HIDE DEF rank, n
<1>4. \A x, y \in D : rank[x] = rank[y] => x = y
  <2> SUFFICES ASSUME NEW x \in D, NEW y \in D, rank[x] = rank[y], x # y PROVE FALSE
    OBVIOUS
  <2>1. <<x, y>> \in R \/ <<y, x>> \in R
    BY DEF TotalOrder
  <2>2. rank[x] < rank[y] \/ rank[y] < rank[x]
    BY <1>3, <2>1
  <2>3. rank[x] \in 1 .. n /\ rank[y] \in 1 .. n
    BY <1>2
  <2> QED BY <1>1, <2>2, <2>3
<1>5. rank \in Injection(D, 1 .. n)
  <2>1. rank \in [D -> 1 .. n]
    BY <1>2 DEF rank
  <2> QED BY <2>1, <1>4 DEF Injection, IsInjective
<1>6. rank \in Surjection(D, 1 .. n)
  BY <1>1, <1>5, FS_Interval, FS_Injection DEF n
<1> DEFINE day == [k \in 1 .. n |-> CHOOSE x \in D : rank[x] = k]
<1>7. \A k \in 1 .. n : day[k] \in D /\ rank[day[k]] = k
  BY <1>6 DEF Surjection
<1>8. \A k, l \in 1 .. n : k < l => <<day[k], day[l]>> \in R
  <2> SUFFICES ASSUME NEW k \in 1 .. n, NEW l \in 1 .. n, k < l PROVE <<day[k], day[l]>> \in R
    OBVIOUS
  <2>1. day[k] \in D /\ day[l] \in D /\ rank[day[k]] = k /\ rank[day[l]] = l
    BY <1>7
  <2> HIDE DEF day
  <2>2. day[k] # day[l]
    BY <1>1, <2>1
  <2>3. <<day[l], day[k]>> \in R => l < k
    BY <2>1, <1>3
  <2> QED BY <1>1, <2>1, <2>2, <2>3 DEF TotalOrder
<1>9. day \in [1 .. n -> D]
  BY <1>7
<1> HIDE DEF day
<1> QED BY <1>8, <1>9 DEF InOrder, n

(***************************************************************************)
(* Counting what is the same in a row                                      *)
(***************************************************************************)

(* The recursion of RunAt, over the subjects or teachers of a day. *)
RunCount(s, n) ==
  n = [k \in DOMAIN s |-> IF k > 1 /\ s[k] = s[k - 1] THEN n[k - 1] + 1 ELSE 1]

SameIn(s, i, j) == \A k \in i .. j : s[k] = s[i]

(* The places from which all is the same up to k, and the first of them. *)
AlikeFrom(s, k) == {i \in 1 .. k : \A j \in i .. k : s[j] = s[k]}
IsStart(s, k, i) == i \in AlikeFrom(s, k) /\ \A j \in AlikeFrom(s, k) : i <= j

LEMMA StartExists ==
  ASSUME NEW s, NEW k \in Nat \ {0}
  PROVE  \E i : IsStart(s, k, i)
<1>1. AlikeFrom(s, k) \in SUBSET Nat /\ k \in AlikeFrom(s, k)
  BY DEF AlikeFrom
<1> QED BY <1>1, LeastNatural DEF IsStart

LEMMA StartStays ==
  ASSUME NEW s, NEW k \in Nat, k > 1, s[k] = s[k - 1], NEW i, IsStart(s, k - 1, i)
  PROVE  IsStart(s, k, i)
<1>1. AlikeFrom(s, k) = AlikeFrom(s, k - 1) \cup {k}
  <2>1. ASSUME NEW j \in 1 .. k, \A m \in j .. k : s[m] = s[k], j # k
        PROVE  j \in AlikeFrom(s, k - 1)
    <3>1. j \in 1 .. (k - 1) /\ \A m \in j .. (k - 1) : s[m] = s[k - 1]
      BY <2>1
    <3> QED BY <3>1 DEF AlikeFrom
  <2>2. ASSUME NEW j \in AlikeFrom(s, k - 1) PROVE j \in AlikeFrom(s, k)
    <3>1. j \in 1 .. k /\ \A m \in j .. (k - 1) : s[m] = s[k - 1]
      BY DEF AlikeFrom
    <3>2. \A m \in j .. k : m = k \/ m \in j .. (k - 1)
      BY <3>1
    <3>3. \A m \in j .. k : s[m] = s[k]
      BY <3>1, <3>2
    <3> QED BY <3>1, <3>3 DEF AlikeFrom
  <2>3. k \in AlikeFrom(s, k)
    BY DEF AlikeFrom
  <2> QED BY <2>1, <2>2, <2>3 DEF AlikeFrom
<1>2. i \in 1 .. (k - 1)
  BY DEF IsStart, AlikeFrom
<1> QED BY <1>1, <1>2 DEF IsStart

LEMMA StartAnew ==
  ASSUME NEW s, NEW k \in Nat \ {0}, ~ (k > 1 /\ s[k] = s[k - 1])
  PROVE  IsStart(s, k, k)
<1>1. AlikeFrom(s, k) = {k}
  <2>1. ASSUME NEW j \in AlikeFrom(s, k), j # k PROVE FALSE
    <3>1. j \in 1 .. (k - 1) /\ s[k - 1] = s[k]
      BY <2>1 DEF AlikeFrom
    <3> QED BY <3>1
  <2>2. k \in AlikeFrom(s, k)
    BY DEF AlikeFrom
  <2> QED BY <2>1, <2>2
<1> QED BY <1>1 DEF IsStart

LEMMA StartIsOne ==
  ASSUME NEW s, NEW k \in Nat, NEW i, IsStart(s, k, i), NEW j, IsStart(s, k, j)
  PROVE  i = j /\ i \in 1 .. k
<1>1. i \in 1 .. k /\ j \in 1 .. k /\ i <= j /\ j <= i
  BY DEF IsStart, AlikeFrom
<1> QED BY <1>1

(* There is a count, and it is the length so far of the run that it is in. *)
LEMMA CountsExist ==
  ASSUME NEW m \in Nat, NEW s, DOMAIN s = 1 .. m
  PROVE  \E n : RunCount(s, n)
<1> DEFINE start(k) == CHOOSE i : IsStart(s, k, i)
           n == [k \in DOMAIN s |-> k - start(k) + 1]
<1>1. \A k \in 1 .. m : IsStart(s, k, start(k)) /\ start(k) \in 1 .. k
  <2> TAKE k \in 1 .. m
  <2>1. IsStart(s, k, start(k))
    BY StartExists
  <2> HIDE DEF start
  <2> QED BY <2>1, StartIsOne
<1> HIDE DEF start
<1>2. ASSUME NEW k \in 1 .. m
      PROVE  n[k] = IF k > 1 /\ s[k] = s[k - 1] THEN n[k - 1] + 1 ELSE 1
  <2>1. CASE k > 1 /\ s[k] = s[k - 1]
    <3>1. k - 1 \in 1 .. m
      BY <2>1
    <3>2. IsStart(s, k, start(k - 1))
      BY <1>1, <2>1, <3>1, StartStays
    <3>3. start(k) = start(k - 1)
      BY <1>1, <3>2, StartIsOne
    <3>4. start(k - 1) \in 1 .. k
      BY <1>1, <3>3
    <3> QED BY <2>1, <3>1, <3>3, <3>4
  <2>2. CASE ~ (k > 1 /\ s[k] = s[k - 1])
    <3>1. IsStart(s, k, k)
      BY <2>2, StartAnew
    <3>2. start(k) = k
      BY <1>1, <3>1, StartIsOne
    <3> QED BY <2>2, <3>2
  <2> QED BY <2>1, <2>2
<1>3. RunCount(s, n)
  BY <1>2 DEF RunCount
<1> HIDE DEF n
<1> QED BY <1>3

LEMMA CountIsLength ==
  ASSUME NEW m \in Nat, NEW s, DOMAIN s = 1 .. m, NEW n, RunCount(s, n),
         NEW k \in 1 .. m, NEW i, IsStart(s, k, i)
  PROVE  n[k] = k - i + 1
<1> DEFINE T == {x \in 1 .. m : \E j : IsStart(s, x, j) /\ n[x] # x - j + 1}
<1> SUFFICES ASSUME T # {} PROVE FALSE
  OBVIOUS
<1>1. T \in SUBSET Nat
  OBVIOUS
<1>2. PICK x \in T : \A y \in T : x <= y
  <2> HIDE DEF T
  <2> QED BY <1>1, LeastNatural
<1>3. PICK j : IsStart(s, x, j) /\ n[x] # x - j + 1
  OBVIOUS
<1>4. x \in 1 .. m
  OBVIOUS
<1>5. n[x] = IF x > 1 /\ s[x] = s[x - 1] THEN n[x - 1] + 1 ELSE 1
  BY <1>4 DEF RunCount
<1>6. CASE x > 1 /\ s[x] = s[x - 1]
  <2>1. x - 1 \in 1 .. m /\ x - 1 \notin T
    BY <1>2, <1>4, <1>6
  <2>2. PICK a : IsStart(s, x - 1, a)
    <3>1. x - 1 \in Nat \ {0}
      BY <1>4, <1>6
    <3> QED BY <3>1, StartExists
  <2>3. n[x - 1] = x - 1 - a + 1
    BY <2>1, <2>2
  <2>4. IsStart(s, x, a)
    BY <1>4, <1>6, <2>2, StartStays
  <2>5. a = j /\ a \in 1 .. x
    BY <1>3, <1>4, <2>4, StartIsOne
  <2> QED BY <1>3, <1>4, <1>5, <1>6, <2>3, <2>5
<1>7. CASE ~ (x > 1 /\ s[x] = s[x - 1])
  <2>1. IsStart(s, x, x)
    BY <1>4, <1>7, StartAnew
  <2>2. j = x
    BY <1>3, <1>4, <2>1, StartIsOne
  <2> QED BY <1>3, <1>4, <1>5, <1>7, <2>2
<1> QED BY <1>6, <1>7

LEMMA CountIsOne ==
  ASSUME NEW m \in Nat, NEW s, DOMAIN s = 1 .. m, NEW a, RunCount(s, a), NEW b, RunCount(s, b)
  PROVE  a = b
<1>1. \A k \in 1 .. m : a[k] = b[k]
  <2> TAKE k \in 1 .. m
  <2>1. PICK i : IsStart(s, k, i)
    BY StartExists
  <2> QED BY <2>1, CountIsLength
<1>2. a = [k \in 1 .. m |-> a[k]] /\ b = [k \in 1 .. m |-> b[k]]
  BY DEF RunCount
<1> QED BY <1>1, <1>2, Zenon

(***************************************************************************)
(* The longest runs                                                        *)
(***************************************************************************)

RunsIn(s, m) ==
  {r \in (1 .. m) \X (1 .. m) :
     /\ r[1] <= r[2] /\ SameIn(s, r[1], r[2])
     /\ r[1] = 1 \/ ~ SameIn(s, r[1] - 1, r[1])
     /\ r[2] = m \/ ~ SameIn(s, r[2], r[2] + 1)}

(* A place of a run starts at the start of the run. *)
LEMMA RunStart ==
  ASSUME NEW m \in Nat, NEW s, NEW r \in RunsIn(s, m), NEW k \in r[1] .. r[2]
  PROVE  IsStart(s, k, r[1]) /\ k \in 1 .. m /\ r[1] \in 1 .. m /\ r[2] \in 1 .. m
<1>1. /\ r[1] \in 1 .. m /\ r[2] \in 1 .. m /\ SameIn(s, r[1], r[2])
      /\ r[1] = 1 \/ ~ SameIn(s, r[1] - 1, r[1])
  BY DEF RunsIn
<1>2. \A j \in r[1] .. r[2] : s[j] = s[r[1]]
  BY <1>1 DEF SameIn
<1>3. r[1] \in AlikeFrom(s, k)
  BY <1>1, <1>2 DEF AlikeFrom
<1>4. ASSUME NEW j \in AlikeFrom(s, k), j < r[1] PROVE FALSE
  <2>1. j \in 1 .. k /\ \A x \in j .. k : s[x] = s[k]
    BY DEF AlikeFrom
  <2>2. r[1] - 1 \in j .. k /\ r[1] \in j .. k
    BY <1>1, <1>4, <2>1
  <2>3. s[r[1] - 1] = s[r[1]]
    BY <2>1, <2>2
  <2>4. \A x \in (r[1] - 1) .. r[1] : x = r[1] - 1 \/ x = r[1]
    BY <1>1
  <2>5. SameIn(s, r[1] - 1, r[1])
    BY <2>3, <2>4 DEF SameIn
  <2> QED BY <1>1, <1>4, <2>1, <2>5
<1>5. \A j \in AlikeFrom(s, k) : j \in Int
  BY DEF AlikeFrom
<1> QED BY <1>1, <1>3, <1>4, <1>5 DEF IsStart

(* Two runs that share a place are one. *)
LEMMA RunEnd ==
  ASSUME NEW m \in Nat, NEW s, NEW r \in RunsIn(s, m), NEW q \in RunsIn(s, m),
         r[1] = q[1], r[2] < q[2]
  PROVE  FALSE
<1>1. /\ r[1] \in 1 .. m /\ r[2] \in 1 .. m /\ q[2] \in 1 .. m /\ r[1] <= r[2]
      /\ SameIn(s, q[1], q[2]) /\ ~ SameIn(s, r[2], r[2] + 1)
  BY DEF RunsIn
<1>2. r[2] \in q[1] .. q[2] /\ r[2] + 1 \in q[1] .. q[2]
  BY <1>1
<1>3. s[r[2] + 1] = s[r[2]]
  BY <1>1, <1>2 DEF SameIn
<1>4. \A x \in r[2] .. (r[2] + 1) : x = r[2] \/ x = r[2] + 1
  BY <1>1
<1> QED BY <1>1, <1>3, <1>4 DEF SameIn

LEMMA RunsAreApart ==
  ASSUME NEW m \in Nat, NEW s, NEW r \in RunsIn(s, m), NEW q \in RunsIn(s, m),
         NEW k \in r[1] .. r[2], k \in q[1] .. q[2]
  PROVE  r = q
<1>1. r[1] = q[1]
  BY RunStart, StartIsOne
<1>2. r[2] \in 1 .. m /\ q[2] \in 1 .. m
  BY RunStart
<1>3. r[2] = q[2]
  BY <1>1, <1>2, RunEnd
<1>4. r = <<r[1], r[2]>> /\ q = <<q[1], q[2]>>
  BY DEF RunsIn
<1> QED BY <1>1, <1>3, <1>4

(* A place is in a run, the one from its start to where the row ends. *)
LEMMA RunExists ==
  ASSUME NEW m \in Nat, NEW s, NEW k \in 1 .. m
  PROVE  \E r \in RunsIn(s, m) : k \in r[1] .. r[2]
<1>1. PICK i : IsStart(s, k, i)
  BY StartExists
<1>2. i \in 1 .. k /\ \A j \in i .. k : s[j] = s[k]
  BY <1>1 DEF IsStart, AlikeFrom
<1> DEFINE E == {d \in Nat : \E e \in k .. m : d = m - e /\ SameIn(s, i, e)}
<1>3. m - k \in E
  BY <1>2 DEF SameIn
<1>4. PICK d \in E : \A x \in E : d <= x
  <2>1. E \in SUBSET Nat /\ E # {}
    BY <1>3
  <2> HIDE DEF E
  <2> QED BY <2>1, LeastNatural
<1>5. PICK e \in k .. m : d = m - e /\ SameIn(s, i, e)
  BY <1>4
<1>6. i = 1 \/ ~ SameIn(s, i - 1, i)
  <2> SUFFICES ASSUME i # 1, SameIn(s, i - 1, i) PROVE FALSE
    OBVIOUS
  <2>1. i - 1 \in 1 .. k /\ i - 1 \in (i - 1) .. i /\ i \in (i - 1) .. i /\ i \in i .. k
    BY <1>2
  <2>2. s[i - 1] = s[i] /\ s[i] = s[k]
    BY <1>2, <2>1 DEF SameIn
  <2>3. \A j \in (i - 1) .. k : j = i - 1 \/ j \in i .. k
    BY <1>2
  <2>4. i - 1 \in AlikeFrom(s, k)
    BY <1>2, <2>1, <2>2, <2>3 DEF AlikeFrom
  <2> QED BY <1>1, <1>2, <2>4 DEF IsStart
<1>7. e = m \/ ~ SameIn(s, e, e + 1)
  <2> SUFFICES ASSUME e # m, SameIn(s, e, e + 1) PROVE FALSE
    OBVIOUS
  <2>1. e + 1 \in k .. m /\ e \in i .. e /\ e \in e .. (e + 1) /\ e + 1 \in e .. (e + 1)
    BY <1>2, <1>5
  <2>2. s[e + 1] = s[e] /\ s[e] = s[i]
    BY <1>5, <2>1 DEF SameIn
  <2>3. \A j \in i .. (e + 1) : j = e + 1 \/ j \in i .. e
    BY <1>2
  <2>4. SameIn(s, i, e + 1)
    BY <1>5, <2>2, <2>3 DEF SameIn
  <2>5. m - (e + 1) \in E
    BY <2>1, <2>4
  <2> QED BY <1>4, <1>5, <2>1, <2>5
<1>8. <<i, e>> \in RunsIn(s, m)
  <2>1. i \in 1 .. m /\ e \in 1 .. m /\ i <= e
    BY <1>2
  <2> QED BY <1>5, <1>6, <1>7, <2>1 DEF RunsIn
<1>9. k \in i .. e
  BY <1>2
<1> QED BY <1>8, <1>9

(* What is more than max in a row is what exceeds max in each run. *)
LEMMA OverIsExcess ==
  ASSUME NEW m \in Nat, NEW s, DOMAIN s = 1 .. m, NEW n, RunCount(s, n), NEW max \in Nat
  PROVE  Cardinality({k \in 1 .. m : n[k] > max})
           = SumFunction([r \in RunsIn(s, m) |-> Positive(r[2] - r[1] + 1 - max)])
<1> DEFINE R == RunsIn(s, m)
           A == [r \in R |-> (r[1] + max) .. r[2]]
           f == [r \in R |-> Positive(r[2] - r[1] + 1 - max)]
           over == {k \in 1 .. m : n[k] > max}
<1>1. IsFiniteSet(R)
  <2>1. IsFiniteSet((1 .. m) \X (1 .. m))
    <3>1. IsFiniteSet(1 .. m)
      BY FS_Interval
    <3> QED BY <3>1, FS_Product
  <2>2. R \in SUBSET ((1 .. m) \X (1 .. m))
    BY DEF RunsIn
  <2> QED BY <2>1, <2>2, FS_Subset
<1>2. \A r \in R : r[1] \in 1 .. m /\ r[2] \in 1 .. m /\ r[1] <= r[2]
  BY DEF RunsIn
<1>3. \A r \in R : IsFiniteSet(A[r]) /\ f[r] = Cardinality(A[r])
  <2> TAKE r \in R
  <2>1. r[1] + max \in Int /\ r[2] \in Int /\ r[1] \in Int
    BY <1>2
  <2>2. /\ IsFiniteSet((r[1] + max) .. r[2])
        /\ Cardinality((r[1] + max) .. r[2])
             = IF r[1] + max > r[2] THEN 0 ELSE r[2] - (r[1] + max) + 1
    BY <2>1, FS_Interval
  <2> QED BY <2>1, <2>2 DEF Positive
<1>4. \A r \in R : \A k : k \in A[r] => k \in r[1] .. r[2]
  BY <1>2
<1>5. \A r, q \in R : r # q => A[r] \cap A[q] = {}
  BY <1>4, RunsAreApart
<1>6. ASSUME NEW r \in R, NEW k \in r[1] .. r[2]
      PROVE  k \in 1 .. m /\ (n[k] > max <=> k \in A[r])
  <2>1. IsStart(s, k, r[1]) /\ k \in 1 .. m
    BY RunStart
  <2>2. n[k] = k - r[1] + 1
    BY <2>1, CountIsLength
  <2> QED BY <1>2, <2>1, <2>2
<1>7. over = UNION Image(A, R)
  <2>1. ASSUME NEW k \in over PROVE k \in UNION Image(A, R)
    <3>1. PICK r \in R : k \in r[1] .. r[2]
      BY RunExists
    <3>2. k \in A[r]
      BY <1>6, <3>1
    <3> HIDE DEF A
    <3> QED BY <3>2 DEF Image
  <2>2. ASSUME NEW k \in UNION Image(A, R) PROVE k \in over
    <3>1. PICK r \in R : k \in A[r]
      BY DEF Image
    <3>2. k \in r[1] .. r[2]
      BY <1>4, <3>1
    <3> QED BY <1>6, <3>1, <3>2
  <2> QED BY <2>1, <2>2
<1>8. SumFunction(f) = SumFunctionOnSet(f, R)
  BY DEF SumFunction, SumFunctionOnSet, FoldFunction
<1> HIDE DEF A, f, R, over
<1>9. Cardinality(UNION Image(A, R)) = SumFunctionOnSet(f, R)
  BY <1>1, <1>3, <1>5, SizeOfDisjointUnion
<1>10. Cardinality(over) = SumFunction(f)
  BY <1>7, <1>8, <1>9
<1> QED BY <1>10 DEF f, R, over

(***************************************************************************)
(* Constraints: what the hard constraints report                           *)
(***************************************************************************)

LEMMA ConInitType == ConInit => ConTypeOK
BY ConstraintAssumption DEF ConInit, ConTypeOK

LEMMA ConStepType == ConTypeOK /\ [ConNext]_conVars => ConTypeOK'
<1> SUFFICES ASSUME ConTypeOK, [ConNext]_conVars PROVE ConTypeOK'
  OBVIOUS
<1> USE ConstraintAssumption DEF ConTypeOK
<1>1. ASSUME NEW l \in Lessons, AddLesson(l) PROVE ConTypeOK'
  BY <1>1 DEF AddLesson
<1>2. ASSUME NEW i \in 1 .. (Len(timetable) - 1), Reorder(i) PROVE ConTypeOK'
  <2>1. i \in 1 .. Len(timetable) /\ i + 1 \in 1 .. Len(timetable)
    OBVIOUS
  <2>2. timetable[i] \in Lessons /\ timetable[i + 1] \in Lessons
    BY <2>1
  <2>3. timetable' = [[timetable EXCEPT ![i] = timetable[i + 1]] EXCEPT ![i + 1] = timetable[i]]
    BY <1>2 DEF Reorder
  <2> QED BY <1>2, <2>1, <2>2, <2>3 DEF Reorder
<1>3. CASE UNCHANGED conVars
  BY <1>3 DEF conVars
<1> QED BY <1>1, <1>2, <1>3 DEF ConNext

LEMMA ConTypeCorrect == ConSpec => []ConTypeOK
BY ConInitType, ConStepType, PTL DEF ConSpec

(* A group of sessions with two members is reported. *)
LEMMA PairsAreGroups ==
  ASSUME ConTypeOK, NEW i \in Places, NEW j \in Places, i # j, NEW who,
         timetable[i][who] = timetable[j][who],
         timetable[i].slot = timetable[j].slot, timetable[i].date = timetable[j].date
  PROVE  Together(i, who) \in Groups(who) /\ {i, j} \subseteq Together(i, who)
<1>1. {i, j} \subseteq Together(i, who)
  BY DEF Together
<1>2. IsFiniteSet(Places)
  <2>1. Places = 1 .. Len(timetable) /\ Len(timetable) \in Nat
    BY DEF Places, ConTypeOK
  <2> QED BY <2>1, FS_Interval
<1>3. IsFiniteSet(Together(i, who))
  BY <1>2, FS_Subset DEF Together
<1>4. Cardinality({i, j}) = 2
  <2>1. IsFiniteSet({i}) /\ Cardinality({i}) = 1
    BY FS_Singleton, FS_AddElement, FS_EmptySet
  <2>2. Cardinality({i} \cup {j}) = 2
    <3>1. j \notin {i}
      OBVIOUS
    <3>2. Cardinality({i} \cup {j}) = IF j \in {i} THEN Cardinality({i}) ELSE Cardinality({i}) + 1
      BY <2>1, FS_AddElement, Zenon
    <3>3. Cardinality({i} \cup {j}) = Cardinality({i}) + 1
      BY <3>1, <3>2, Zenon
    <3> QED BY <2>1, <3>3
  <2>3. {i, j} = {i} \cup {j}
    OBVIOUS
  <2> QED BY <2>2, <2>3
<1>5. Cardinality(Together(i, who)) > 1
  BY <1>1, <1>3, <1>4, FS_Subset, FS_CardinalityType
<1> QED BY <1>1, <1>5 DEF Groups

LEMMA ReportsAreViolations ==
  /\ Groups("teacher") \subseteq HardViolations
  /\ Groups("room") \subseteq HardViolations
  /\ Groups("class") \subseteq HardViolations
BY DEF HardViolations, TeacherConflict, RoomConflict, ClassConflict

(* A timetable in which the constraints "Teacher Conflict", "Room Conflict" and
   "Class Conflict" find nothing has no two lessons of one teacher, room or class
   at one time, and every such pair is inside a violation that is reported: for
   timetables of any length and in any order, since a group of lessons is finite
   and two of its members make it larger than one. *)
THEOREM HardIsFree == ConSpec => []HardMeansFree
<1>1. ConTypeOK => HardMeansFree
  <2> SUFFICES ASSUME ConTypeOK, NEW i \in Places, NEW j \in Places, i # j,
                      timetable[i].slot = timetable[j].slot,
                      timetable[i].date = timetable[j].date,
                      \/ timetable[i].teacher = timetable[j].teacher
                      \/ timetable[i].room = timetable[j].room
                      \/ timetable[i].class = timetable[j].class
               PROVE  \E v \in HardViolations : {i, j} \subseteq v
    BY DEF HardMeansFree
  <2>1. CASE timetable[i].teacher = timetable[j].teacher
    BY <2>1, PairsAreGroups, ReportsAreViolations
  <2>2. CASE timetable[i].room = timetable[j].room
    BY <2>2, PairsAreGroups, ReportsAreViolations
  <2>3. CASE timetable[i].class = timetable[j].class
    BY <2>3, PairsAreGroups, ReportsAreViolations
  <2> QED BY <2>1, <2>2, <2>3
<1> QED BY <1>1, ConTypeCorrect, PTL

(***************************************************************************)
(* The day in the order of its slots                                       *)
(***************************************************************************)

SoonerIn(date) == {p \in OnDay(date) \X OnDay(date) : Sooner(p[1], p[2])}

IsDay(date, day) == InOrder(OnDay(date), SoonerIn(date), Cardinality(OnDay(date)), day)

LEMMA DayIsFinite ==
  ASSUME ConTypeOK, NEW date
  PROVE  IsFiniteSet(OnDay(date)) /\ OnDay(date) \subseteq Places /\ Places \subseteq Nat
<1>1. Places = 1 .. Len(timetable) /\ Len(timetable) \in Nat
  BY DEF Places, ConTypeOK
<1>2. IsFiniteSet(Places)
  BY <1>1, FS_Interval
<1> QED BY <1>1, <1>2, FS_Subset DEF OnDay

LEMMA DayHasOrder ==
  ASSUME ConTypeOK, NEW date
  PROVE  TotalOrder(OnDay(date), SoonerIn(date))
<1>1. \A i \in OnDay(date) : i \in Nat /\ SlotOrder(i) \in Int
  <2>1. \A i \in OnDay(date) : i \in Nat
    BY DayIsFinite
  <2> QED BY <2>1, ConstraintAssumption DEF SlotOrder, Known
<1>2. \A i, j \in OnDay(date) : <<i, j>> \in SoonerIn(date) <=> Sooner(i, j)
  BY DEF SoonerIn
<1> QED BY <1>1, <1>2 DEF TotalOrder, Sooner

LEMMA DayIsSorted == ConTypeOK => \A date : IsDay(date, DayOf(date))
<1> SUFFICES ASSUME ConTypeOK, NEW date PROVE IsDay(date, DayOf(date))
  OBVIOUS
<1> DEFINE n == Cardinality(OnDay(date))
           P(day) == \A k, l \in DOMAIN day : k < l => Sooner(day[k], day[l])
<1>1. PICK day : IsDay(date, day)
  BY DayIsFinite, DayHasOrder, SortedExists DEF IsDay
<1>2. day \in [1 .. n -> OnDay(date)] /\ P(day)
  BY <1>1 DEF IsDay, InOrder, SoonerIn
<1>3. DayOf(date) \in [1 .. n -> OnDay(date)] /\ P(DayOf(date))
  BY <1>2 DEF DayOf
<1>4. \A k, l \in 1 .. n : k < l => <<DayOf(date)[k], DayOf(date)[l]>> \in SoonerIn(date)
  BY <1>3 DEF SoonerIn
<1> QED BY <1>3, <1>4 DEF IsDay, InOrder

SortsOneWay == \A date, day : IsDay(date, day) => day = DayOf(date)

LEMMA DayIsOne == ConTypeOK => SortsOneWay
BY DayIsFinite, DayHasOrder, DayIsSorted, SortedIsOne DEF IsDay, SortsOneWay

(* The running count of a day satisfies the recursion of the code. *)
CountsInRow ==
  \A n \in Nat : \A who, day :
    DOMAIN day = 1 .. n => RunCount([k \in 1 .. n |-> timetable[day[k]][who]], RunAt(day, who))

LEMMA RunAtCounts == CountsInRow
<1> SUFFICES ASSUME NEW n \in Nat, NEW who, NEW day, DOMAIN day = 1 .. n
             PROVE  RunCount([k \in 1 .. n |-> timetable[day[k]][who]], RunAt(day, who))
  BY DEF CountsInRow
<1> DEFINE s == [k \in 1 .. n |-> timetable[day[k]][who]]
<1>1. PICK c : RunCount(s, c)
  <2>1. DOMAIN s = 1 .. n
    OBVIOUS
  <2> HIDE DEF s
  <2> QED BY <2>1, CountsExist
<1>2. \A g : RunCount(s, g) <=>
        g = [k \in DOMAIN day |->
               IF k > 1 /\ timetable[day[k]][who] = timetable[day[k - 1]][who]
               THEN g[k - 1] + 1 ELSE 1]
  <2>1. \A k \in 1 .. n : s[k] = timetable[day[k]][who]
                          /\ (k > 1 => s[k - 1] = timetable[day[k - 1]][who])
    OBVIOUS
  <2>2. DOMAIN s = 1 .. n
    OBVIOUS
  <2> HIDE DEF s
  <2>3. TAKE g
  <2>4. [k \in DOMAIN s |-> IF k > 1 /\ s[k] = s[k - 1] THEN g[k - 1] + 1 ELSE 1]
        = [k \in DOMAIN day |->
               IF k > 1 /\ timetable[day[k]][who] = timetable[day[k - 1]][who]
               THEN g[k - 1] + 1 ELSE 1]
    BY <2>1, <2>2
  <2> QED BY <2>4 DEF RunCount
<1> HIDE DEF s
<1>3. RunCount(s, RunAt(day, who))
  BY <1>1, <1>2 DEF RunAt
<1> QED BY <1>3 DEF s

(* The sessions reported as too many in a row are what exceeds the limit in each
   longest run of one subject or teacher, for every timetable whose dates are texts,
   as the solver answers them: a running count is
   the length so far of the run it is in (CountIsLength), the longest runs share
   no place and cover the day (RunsAreApart, RunExists), and so the excess of the
   runs adds up to what is reported (SizeOfDisjointUnion). *)
THEOREM RunsAreCounted == ConSpec => []RunsCounted
<1>1. ConTypeOK => RunsCounted
  <2> SUFFICES ASSUME ConTypeOK, NEW d \in {timetable[i].date : i \in Places}, NEW who \in {"subject", "teacher"},
                      NEW max \in 1 .. 3
               PROVE  LET day == DayOf(d)
                          same(i, j) == \A k \in i .. j : timetable[day[k]][who] = timetable[day[i]][who]
                          runs == {r \in (DOMAIN day) \X (DOMAIN day) :
                                     /\ r[1] <= r[2] /\ same(r[1], r[2])
                                     /\ r[1] = 1 \/ ~ same(r[1] - 1, r[1])
                                     /\ r[2] = Len(day) \/ ~ same(r[2], r[2] + 1)}
                      IN  Cardinality(Over(d, who, max)) =
                            SumFunction([r \in runs |-> Positive(r[2] - r[1] + 1 - max)])
    BY DEF RunsCounted
  <2> DEFINE day == DayOf(d)
             n == Cardinality(OnDay(d))
             s == [k \in 1 .. n |-> timetable[day[k]][who]]
             same(i, j) == \A k \in i .. j : timetable[day[k]][who] = timetable[day[i]][who]
             runs == {r \in (DOMAIN day) \X (DOMAIN day) :
                        /\ r[1] <= r[2] /\ same(r[1], r[2])
                        /\ r[1] = 1 \/ ~ same(r[1] - 1, r[1])
                        /\ r[2] = Len(day) \/ ~ same(r[2], r[2] + 1)}
  <2>1. n \in Nat
    BY DayIsFinite, FS_CardinalityType
  <2>2. day \in [1 .. n -> OnDay(d)]
    BY DayIsSorted DEF IsDay, InOrder
  <2> HIDE DEF n
  <2>3. DOMAIN day = 1 .. n /\ Len(day) = n
    BY <2>1, <2>2
  <2>4. RunCount(s, RunAt(day, who)) /\ DOMAIN s = 1 .. n
    BY <2>1, <2>3, RunAtCounts DEF CountsInRow
  <2>5. Over(d, who, max) = {k \in 1 .. n : RunAt(day, who)[k] > max}
    BY <2>3 DEF Over
  <2>6. \A i, j \in 1 .. n : SameIn(s, i, j) <=> same(i, j)
    <3> TAKE i, j \in 1 .. n
    <3>1. \A k \in i .. j : k \in 1 .. n
      BY <2>1
    <3>2. \A k \in 1 .. n : s[k] = timetable[day[k]][who]
      OBVIOUS
    <3> HIDE DEF s, day
    <3>3. \A k \in i .. j : s[k] = s[i] <=> timetable[day[k]][who] = timetable[day[i]][who]
      BY <3>1, <3>2
    <3> QED BY <3>3 DEF SameIn
  <2>7. \A k \in 1 .. n : (k = 1 \/ k - 1 \in 1 .. n) /\ (k = n \/ k + 1 \in 1 .. n)
    BY <2>1
  <2> HIDE DEF s, same, day
  <2>8. runs = RunsIn(s, n)
    BY <2>3, <2>6, <2>7 DEF RunsIn
  <2> HIDE DEF runs
  <2>9. Cardinality({k \in 1 .. n : RunAt(day, who)[k] > max})
          = SumFunction([r \in runs |-> Positive(r[2] - r[1] + 1 - max)])
    BY <2>1, <2>4, <2>8, OverIsExcess
  <2>10. Cardinality(Over(d, who, max)) = SumFunction([r \in runs |-> Positive(r[2] - r[1] + 1 - max)])
    BY <2>5, <2>9
  <2> QED BY <2>10 DEF runs, same, day
<1> QED BY <1>1, ConTypeCorrect, PTL

(***************************************************************************)
(* The score of a timetable in another order                               *)
(***************************************************************************)

(* The same sessions, the one at place i now at place p[i]. *)
Moved(p) ==
  /\ p \in [Places -> Places] /\ Image(p, Places) = Places
  /\ \A i, j \in Places : p[i] = p[j] => i = j
  /\ \A i \in Places : timetable'[p[i]] = timetable[i]
  /\ Places' = Places /\ Len(timetable') = Len(timetable) /\ bare' = bare
  /\ fetched' = fetched

(* The sessions of which something holds have moved as the others have. *)
LEMMA PlacesMoved ==
  ASSUME NEW p, p \in [Places -> Places], Image(p, Places) = Places,
         NEW S \in SUBSET Places, NEW T \in SUBSET Places,
         \A i \in Places : i \in S <=> p[i] \in T
  PROVE  T = Image(p, S)
BY DEF Image

LEMMA SizeOfRenamed ==
  ASSUME NEW S, IsFiniteSet(S), NEW p, \A x, y \in S : p[x] = p[y] => x = y
  PROVE  Cardinality(Image(p, S)) = Cardinality(S)
<1> DEFINE b == [x \in S |-> p[x]]
<1>1. b \in Bijection(S, Image(p, S))
  <2>1. b \in [S -> Image(p, S)] /\ \A y \in Image(p, S) : \E x \in S : b[x] = y
    BY DEF Image
  <2>2. IsInjective(b)
    BY DEF IsInjective
  <2> QED BY <2>1, <2>2 DEF Bijection, Injection, Surjection
<1> HIDE DEF b
<1>2. ExistsBijection(S, Image(p, S))
  BY <1>1 DEF ExistsBijection
<1> QED BY <1>2, FS_Bijection

LEMMA SumOfMoved ==
  ASSUME NEW S, IsFiniteSet(S), NEW f, DOMAIN f = S, \A x \in S : f[x] \in Int,
         NEW p, \A x, y \in S : p[x] = p[y] => x = y,
         NEW e, DOMAIN e = Image(p, S), \A x \in S : e[p[x]] = f[x]
  PROVE  SumFunction(e) = SumFunction(f)
<1>1. SumFunctionOnSet(e, Image(p, S)) = SumFunctionOnSet(f, S)
  BY SumOfRenamed
<1> QED BY <1>1 DEF SumFunction

LEMMA PlacesFinite ==
  ASSUME ConTypeOK, NEW S \in SUBSET Places
  PROVE  IsFiniteSet(S)
<1>1. Places = 1 .. Len(timetable) /\ Len(timetable) \in Nat
  BY DEF Places, ConTypeOK
<1>2. IsFiniteSet(Places)
  BY <1>1, FS_Interval
<1> QED BY <1>2, FS_Subset

LEMMA MisplacedIsInt ==
  ASSUME NEW value, NEW q \in Preferences, NEW avoided \in Int, NEW others \in Int
  PROVE  Misplaced(value, q, avoided, others) \in Int
<1> DEFINE a == IF value \in q.avoid THEN avoided ELSE 0
           b == IF q.prefer # {} /\ value \notin q.prefer THEN others ELSE 0
<1>1. a + b \in Int /\ q.weight \in Int
  BY ConstraintAssumption
<1>2. Misplaced(value, q, avoided, others) = q.weight * (a + b)
  BY DEF Misplaced
<1> QED BY <1>1, <1>2

LEMMA TeacherPreferenceMoved ==
  ASSUME ConTypeOK, NEW p, Moved(p)
  PROVE  TeacherPreference' = TeacherPreference
<1> DEFINE mine(q) == {j \in Places : timetable[j].teacher = q.entity}
           now(q) == {j \in Places' : timetable'[j].teacher = q.entity}
           f(q) == [i \in mine(q) |-> Misplaced(timetable[i].slot, q, 10, 5)]
           e(q) == [i \in now(q) |-> Misplaced(timetable'[i].slot, q, 10, 5)]
<1>1. \A q \in Preferences : SumFunction(e(q)) = SumFunction(f(q))
  <2> TAKE q \in Preferences
  <2>1. now(q) = Image(p, mine(q))
    <3>1. /\ mine(q) \in SUBSET Places /\ now(q) \in SUBSET Places
          /\ \A i \in Places : i \in mine(q) <=> p[i] \in now(q)
      BY DEF Moved
    <3>2. PICK S, T : S = mine(q) /\ T = now(q)
      OBVIOUS
    <3> HIDE DEF mine, now
    <3>3. S \in SUBSET Places /\ T \in SUBSET Places /\ \A i \in Places : i \in S <=> p[i] \in T
      BY <3>1, <3>2
    <3>4. T = Image(p, S)
      BY <3>3, PlacesMoved DEF Moved
    <3> QED BY <3>2, <3>4
  <2>2. IsFiniteSet(mine(q)) /\ mine(q) \subseteq Places
    BY PlacesFinite
  <2>3. \A x \in mine(q) : f(q)[x] \in Int
    BY MisplacedIsInt
  <2>4. \A x \in mine(q) : p[x] \in now(q) /\ timetable'[p[x]] = timetable[x]
    BY DEF Moved
  <2>5. \A x \in mine(q) : e(q)[p[x]] = f(q)[x]
    BY <2>4
  <2>6. DOMAIN e(q) = Image(p, mine(q)) /\ DOMAIN f(q) = mine(q)
    BY <2>1
  <2>7. \A x, y \in mine(q) : p[x] = p[y] => x = y
    BY DEF Moved
  <2> HIDE DEF e, f, mine, now
  <2> QED BY <2>2, <2>3, <2>5, <2>6, <2>7, SumOfMoved
<1>2. Wanted("TEACHER_PREFERENCE")' = Wanted("TEACHER_PREFERENCE")
      /\ Wanted("TEACHER_PREFERENCE") \subseteq Preferences
  BY DEF Wanted, Moved
<1>3. TeacherPreference = SumFunction([q \in Wanted("TEACHER_PREFERENCE") |-> SumFunction(f(q))])
  BY DEF TeacherPreference
<1>4. TeacherPreference' = SumFunction([q \in Wanted("TEACHER_PREFERENCE")' |-> SumFunction(e(q))])
  BY DEF TeacherPreference
<1> HIDE DEF e, f
<1>5. [q \in Wanted("TEACHER_PREFERENCE")' |-> SumFunction(e(q))]
      = [q \in Wanted("TEACHER_PREFERENCE") |-> SumFunction(f(q))]
  BY <1>1, <1>2
<1> QED BY <1>3, <1>4, <1>5

LEMMA SubjectPreferenceMoved ==
  ASSUME ConTypeOK, NEW p, Moved(p)
  PROVE  SubjectPreference' = SubjectPreference
<1> DEFINE mine(q) == {j \in Places : timetable[j].subject = q.entity}
           now(q) == {j \in Places' : timetable'[j].subject = q.entity}
           f(q) == [i \in mine(q) |-> Misplaced(timetable[i].slot, q, 6, 3)]
           e(q) == [i \in now(q) |-> Misplaced(timetable'[i].slot, q, 6, 3)]
<1>1. \A q \in Preferences : SumFunction(e(q)) = SumFunction(f(q))
  <2> TAKE q \in Preferences
  <2>1. now(q) = Image(p, mine(q))
    <3>1. /\ mine(q) \in SUBSET Places /\ now(q) \in SUBSET Places
          /\ \A i \in Places : i \in mine(q) <=> p[i] \in now(q)
      BY DEF Moved
    <3>2. PICK S, T : S = mine(q) /\ T = now(q)
      OBVIOUS
    <3> HIDE DEF mine, now
    <3>3. S \in SUBSET Places /\ T \in SUBSET Places /\ \A i \in Places : i \in S <=> p[i] \in T
      BY <3>1, <3>2
    <3>4. T = Image(p, S)
      BY <3>3, PlacesMoved DEF Moved
    <3> QED BY <3>2, <3>4
  <2>2. IsFiniteSet(mine(q)) /\ mine(q) \subseteq Places
    BY PlacesFinite
  <2>3. \A x \in mine(q) : f(q)[x] \in Int
    BY MisplacedIsInt
  <2>4. \A x \in mine(q) : p[x] \in now(q) /\ timetable'[p[x]] = timetable[x]
    BY DEF Moved
  <2>5. \A x \in mine(q) : e(q)[p[x]] = f(q)[x]
    BY <2>4
  <2>6. DOMAIN e(q) = Image(p, mine(q)) /\ DOMAIN f(q) = mine(q)
    BY <2>1
  <2>7. \A x, y \in mine(q) : p[x] = p[y] => x = y
    BY DEF Moved
  <2> HIDE DEF e, f, mine, now
  <2> QED BY <2>2, <2>3, <2>5, <2>6, <2>7, SumOfMoved
<1>2. Wanted("SUBJECT_PREFERENCE")' = Wanted("SUBJECT_PREFERENCE")
      /\ Wanted("SUBJECT_PREFERENCE") \subseteq Preferences
  BY DEF Wanted, Moved
<1>3. SubjectPreference = SumFunction([q \in Wanted("SUBJECT_PREFERENCE") |-> SumFunction(f(q))])
  BY DEF SubjectPreference
<1>4. SubjectPreference' = SumFunction([q \in Wanted("SUBJECT_PREFERENCE")' |-> SumFunction(e(q))])
  BY DEF SubjectPreference
<1> HIDE DEF e, f
<1>5. [q \in Wanted("SUBJECT_PREFERENCE")' |-> SumFunction(e(q))]
      = [q \in Wanted("SUBJECT_PREFERENCE") |-> SumFunction(f(q))]
  BY <1>1, <1>2
<1> QED BY <1>3, <1>4, <1>5

LEMMA RoomPreferenceMoved ==
  ASSUME ConTypeOK, NEW p, Moved(p)
  PROVE  RoomPreference' = RoomPreference
<1> DEFINE mine(q) == {j \in Places : InRoom(j)}
           now(q) == {j \in Places' : InRoom(j)'}
           f(q) == [i \in mine(q) |-> Misplaced(RoomOf[timetable[i].room].type, q, 8, 4)]
           e(q) == [i \in now(q) |-> Misplaced(RoomOf[timetable'[i].room].type, q, 8, 4)]
<1>1. \A q \in Preferences : SumFunction(e(q)) = SumFunction(f(q))
  <2> TAKE q \in Preferences
  <2>1. now(q) = Image(p, mine(q))
    <3>1. /\ mine(q) \in SUBSET Places /\ now(q) \in SUBSET Places
          /\ \A i \in Places : i \in mine(q) <=> p[i] \in now(q)
      BY DEF Moved, InRoom
    <3>2. PICK S, T : S = mine(q) /\ T = now(q)
      OBVIOUS
    <3> HIDE DEF mine, now
    <3>3. S \in SUBSET Places /\ T \in SUBSET Places /\ \A i \in Places : i \in S <=> p[i] \in T
      BY <3>1, <3>2
    <3>4. T = Image(p, S)
      BY <3>3, PlacesMoved DEF Moved
    <3> QED BY <3>2, <3>4
  <2>2. IsFiniteSet(mine(q)) /\ mine(q) \subseteq Places
    BY PlacesFinite
  <2>3. \A x \in mine(q) : f(q)[x] \in Int
    BY MisplacedIsInt
  <2>4. \A x \in mine(q) : p[x] \in now(q) /\ timetable'[p[x]] = timetable[x]
    BY DEF Moved, InRoom
  <2>5. \A x \in mine(q) : e(q)[p[x]] = f(q)[x]
    BY <2>4
  <2>6. DOMAIN e(q) = Image(p, mine(q)) /\ DOMAIN f(q) = mine(q)
    BY <2>1
  <2>7. \A x, y \in mine(q) : p[x] = p[y] => x = y
    BY DEF Moved
  <2> HIDE DEF e, f, mine, now
  <2> QED BY <2>2, <2>3, <2>5, <2>6, <2>7, SumOfMoved
<1>2. Wanted("ROOM_PREFERENCE")' = Wanted("ROOM_PREFERENCE")
      /\ Wanted("ROOM_PREFERENCE") \subseteq Preferences
  BY DEF Wanted, Moved
<1>3. RoomPreference = SumFunction([q \in Wanted("ROOM_PREFERENCE") |-> SumFunction(f(q))])
  BY DEF RoomPreference
<1>4. RoomPreference' = SumFunction([q \in Wanted("ROOM_PREFERENCE")' |-> SumFunction(e(q))])
  BY DEF RoomPreference
<1> HIDE DEF e, f
<1>5. [q \in Wanted("ROOM_PREFERENCE")' |-> SumFunction(e(q))]
      = [q \in Wanted("ROOM_PREFERENCE") |-> SumFunction(f(q))]
  BY <1>1, <1>2
<1> QED BY <1>3, <1>4, <1>5

LEMMA TimePreferenceMoved ==
  ASSUME ConTypeOK, NEW p, Moved(p)
  PROVE  TimePreference' = TimePreference
<1> DEFINE late(q) == {i \in Places : Known(i) /\ \E h \in q.avoid : SlotOf[timetable[i].slot].hour >= h}
           now(q) == {i \in Places' : Known(i)' /\ \E h \in q.avoid : SlotOf[timetable'[i].slot].hour >= h}
<1>1. \A q \in Preferences : Cardinality(now(q)) = Cardinality(late(q))
  <2> TAKE q \in Preferences
  <2>1. /\ late(q) \in SUBSET Places /\ now(q) \in SUBSET Places
        /\ \A i \in Places : i \in late(q) <=> p[i] \in now(q)
    BY DEF Moved, Known
  <2>2. \A x, y \in late(q) : p[x] = p[y] => x = y
    BY DEF Moved
  <2>3. PICK S, T : S = late(q) /\ T = now(q)
    OBVIOUS
  <2> HIDE DEF late, now
  <2>4. /\ S \in SUBSET Places /\ T \in SUBSET Places
        /\ \A i \in Places : i \in S <=> p[i] \in T
    BY <2>1, <2>3
  <2>5. T = Image(p, S) /\ IsFiniteSet(S)
    BY <2>4, PlacesMoved, PlacesFinite DEF Moved
  <2>6. Cardinality(T) = Cardinality(S)
    BY <2>2, <2>3, <2>5, SizeOfRenamed
  <2> QED BY <2>3, <2>6
<1>2. Wanted("TIME_PREFERENCE")' = Wanted("TIME_PREFERENCE")
      /\ Wanted("TIME_PREFERENCE") \subseteq Preferences
  BY DEF Wanted, Moved
<1>3. TimePreference = SumFunction([q \in Wanted("TIME_PREFERENCE") |-> 8 * q.weight * Cardinality(late(q))])
  BY DEF TimePreference
<1>4. TimePreference' = SumFunction([q \in Wanted("TIME_PREFERENCE")' |-> 8 * q.weight * Cardinality(now(q))])
  BY DEF TimePreference
<1> HIDE DEF late, now
<1>5. [q \in Wanted("TIME_PREFERENCE")' |-> 8 * q.weight * Cardinality(now(q))]
      = [q \in Wanted("TIME_PREFERENCE") |-> 8 * q.weight * Cardinality(late(q))]
  BY <1>1, <1>2
<1> QED BY <1>3, <1>4, <1>5

LEMMA LoadMoved ==
  ASSUME ConTypeOK, NEW p, Moved(p)
  PROVE  /\ {<<timetable[i].teacher, DayKey(timetable[i])>> : i \in Places}'
              = {<<timetable[i].teacher, DayKey(timetable[i])>> : i \in Places}
         /\ \A key : Load(key)' = Load(key)
<1>1. \A i \in Places : \E j \in Places : p[j] = i /\ timetable'[i] = timetable[j]
  BY DEF Moved, Image
<1>2. /\ \A i \in Places : p[i] \in Places /\ timetable'[p[i]] = timetable[i]
      /\ Places' = Places /\ \A l : DayKey(l)' = DayKey(l)
  BY DEF Moved, DayKey
<1>3. {<<timetable[i].teacher, DayKey(timetable[i])>> : i \in Places}'
       = {<<timetable[i].teacher, DayKey(timetable[i])>> : i \in Places}
  BY <1>1, <1>2 DEF DayKey
<1>4. ASSUME NEW key PROVE Load(key)' = Load(key)
  <2> DEFINE mine == {i \in Places : <<timetable[i].teacher, DayKey(timetable[i])>> = key}
             now == {i \in Places' : <<timetable'[i].teacher, DayKey(timetable'[i])>> = key}
  <2>1. /\ mine \in SUBSET Places /\ now \in SUBSET Places
        /\ \A i \in Places : i \in mine <=> p[i] \in now
    BY <1>2
  <2>2. \A x, y \in mine : p[x] = p[y] => x = y
    BY DEF Moved
  <2>3. Load(key) = Cardinality(mine) /\ Load(key)' = Cardinality(now)
    BY <1>2 DEF Load, DayKey, Moved
  <2> HIDE DEF mine, now
  <2>4. now = Image(p, mine) /\ IsFiniteSet(mine)
    BY <2>1, PlacesMoved, PlacesFinite DEF Moved
  <2>5. Cardinality(now) = Cardinality(mine)
    BY <2>2, <2>4, SizeOfRenamed
  <2> QED BY <2>3, <2>5
<1> QED BY <1>3, <1>4

LEMMA WorkloadDistributionMoved ==
  ASSUME ConTypeOK, NEW p, Moved(p)
  PROVE  WorkloadDistribution' = WorkloadDistribution
<1> DEFINE keys == {<<timetable[i].teacher, DayKey(timetable[i])>> : i \in Places}
           now == {<<timetable'[i].teacher, DayKey(timetable'[i])>> : i \in Places'}
           cost(q, n) == q.weight * (10 * Positive(n - q.max) + 5 * Positive(q.min - n)
                                + 3 * (IF n - q.target \in -1 .. 1 THEN 0
                                       ELSE IF n > q.target THEN n - q.target ELSE q.target - n))
           W == Wanted("WORKLOAD_DISTRIBUTION")
<1>1. W' = W
  BY DEF Wanted, Moved
<1>2. now = keys /\ \A key : Load(key)' = Load(key)
  BY LoadMoved DEF DayKey, Moved
<1>3. WorkloadDistribution = SumFunction([q \in W |-> SumFunction([key \in keys |-> cost(q, Load(key))])])
  BY DEF WorkloadDistribution
<1>4. WorkloadDistribution'
        = SumFunction([q \in W' |-> SumFunction([key \in now |-> cost(q, Load(key)')])])
  BY DEF WorkloadDistribution, DayKey, Moved
<1> HIDE DEF keys, now, cost, W
<1>5. \A q : [key \in now |-> cost(q, Load(key)')] = [key \in keys |-> cost(q, Load(key))]
  BY <1>2
<1>6. [q \in W' |-> SumFunction([key \in now |-> cost(q, Load(key)')])]
      = [q \in W |-> SumFunction([key \in keys |-> cost(q, Load(key))])]
  BY <1>1, <1>5
<1> QED BY <1>3, <1>4, <1>6

(* No two sessions of a day are in slots of the same order. *)
Unlike ==
  \A i, j \in Places :
    i # j /\ DayKey(timetable[i]) = DayKey(timetable[j]) =>
      /\ Known(i) /\ Known(j)
      /\ SlotOf[timetable[i].slot].order # SlotOf[timetable[j].slot].order

(* The sorted day is the same one, its places renamed. *)
LEMMA DayMoved ==
  ASSUME ConTypeOK, ConTypeOK', NEW p, Moved(p), Unlike, NEW d
  PROVE  /\ Cardinality(OnDay(d))' = Cardinality(OnDay(d))
         /\ DayOf(d)' = [k \in 1 .. Cardinality(OnDay(d)) |-> p[DayOf(d)[k]]]
<1>0. PICK n, day : n = Cardinality(OnDay(d)) /\ day = DayOf(d)
  OBVIOUS
<1> DEFINE moved == [k \in 1 .. n |-> p[day[k]]]
<1>1. /\ \A i \in Places : p[i] \in Places /\ timetable'[p[i]] = timetable[i]
      /\ Places' = Places /\ bare' = bare
  BY DEF Moved
<1>2. OnDay(d)' = Image(p, OnDay(d)) /\ IsFiniteSet(OnDay(d)) /\ OnDay(d) \subseteq Places
  <2>1. /\ OnDay(d) \in SUBSET Places /\ OnDay(d)' \in SUBSET Places
        /\ \A i \in Places : i \in OnDay(d) <=> p[i] \in OnDay(d)'
    BY <1>1 DEF OnDay, DayKey, Moved
  <2>2. PICK S, T : S = OnDay(d) /\ T = OnDay(d)'
    OBVIOUS
  <2>3. S \in SUBSET Places /\ T \in SUBSET Places /\ \A i \in Places : i \in S <=> p[i] \in T
    BY <2>1, <2>2
  <2> HIDE <2>2
  <2>4. T = Image(p, S) /\ IsFiniteSet(S)
    BY <2>3, PlacesMoved, PlacesFinite DEF Moved
  <2> QED BY <2>1, <2>2, <2>4
<1>3. Cardinality(OnDay(d)') = n
  <2>1. \A x, y \in OnDay(d) : p[x] = p[y] => x = y
    BY <1>2 DEF Moved
  <2> QED BY <1>0, <1>2, <2>1, SizeOfRenamed
<1>4. day \in [1 .. n -> OnDay(d)] /\ \A k, l \in 1 .. n : k < l => Sooner(day[k], day[l])
  BY <1>0, DayIsSorted DEF IsDay, InOrder, SoonerIn
<1>5. \A i \in Places : SlotOrder(p[i])' = SlotOrder(i)
  BY <1>1 DEF SlotOrder, Known
<1>6. ASSUME NEW i \in OnDay(d), NEW j \in OnDay(d), Sooner(i, j)
      PROVE  Sooner(p[i], p[j])'
  <2>1. i \in Places /\ j \in Places /\ DayKey(timetable[i]) = DayKey(timetable[j])
    BY DEF OnDay
  <2>2. i # j => SlotOrder(i) # SlotOrder(j)
    BY <2>1 DEF Unlike, SlotOrder
  <2>3. SlotOrder(i) \in Int /\ i \in Nat
    BY <2>1, ConstraintAssumption, DayIsFinite DEF SlotOrder, Known
  <2>4. SlotOrder(i) < SlotOrder(j)
    BY <1>6, <2>2, <2>3 DEF Sooner
  <2> QED BY <1>5, <2>1, <2>4 DEF Sooner
<1>7. \A k \in 1 .. n : day[k] \in OnDay(d) /\ p[day[k]] \in OnDay(d)'
  <2>1. \A x \in OnDay(d) : p[x] \in OnDay(d)'
    BY <1>2 DEF Image
  <2>2. \A k \in 1 .. n : day[k] \in OnDay(d)
    BY <1>4
  <2> QED BY <2>1, <2>2
<1>8. \A k, l \in 1 .. n : k < l => Sooner(p[day[k]], p[day[l]])'
  BY <1>4, <1>6, <1>7
<1>9. /\ moved \in [1 .. n -> OnDay(d)']
      /\ \A k, l \in 1 .. n : k < l => <<moved[k], moved[l]>> \in SoonerIn(d)'
  BY <1>7, <1>8 DEF SoonerIn
<1>10. IsDay(d, moved)'
  <2> HIDE DEF moved
  <2>1. InOrder(OnDay(d)', SoonerIn(d)', Cardinality(OnDay(d)'), moved)
    BY <1>3, <1>9 DEF InOrder
  <2> QED BY <2>1 DEF IsDay
<1>11. SortsOneWay'
  <2>1. ConTypeOK' => SortsOneWay'
    BY DayIsOne, PTL
  <2> QED BY <2>1
<1>12. DayOf(d)' = moved
  BY <1>10, <1>11 DEF SortsOneWay
<1> QED BY <1>0, <1>3, <1>12

LEMMA OverMoved ==
  ASSUME ConTypeOK, ConTypeOK', NEW p, Moved(p), Unlike, NEW d, NEW who, NEW max
  PROVE  Over(d, who, max)' = Over(d, who, max)
<1> DEFINE n == Cardinality(OnDay(d))
           s == [k \in 1 .. n |-> timetable[DayOf(d)[k]][who]]
           t == [k \in 1 .. n |-> timetable'[DayOf(d)'[k]][who]]
<1>1. n \in Nat
  BY DayIsFinite, FS_CardinalityType
<1>2. DayOf(d) \in [1 .. n -> OnDay(d)]
  BY DayIsSorted DEF IsDay, InOrder
<1>3. DayOf(d)' = [k \in 1 .. n |-> p[DayOf(d)[k]]]
  BY DayMoved
<1> HIDE DEF n
<1>4. \A k \in 1 .. n : DayOf(d)[k] \in Places /\ timetable'[DayOf(d)'[k]] = timetable[DayOf(d)[k]]
  BY <1>2, <1>3 DEF OnDay, Moved
<1>5. s = t
  BY <1>4
<1>6. DOMAIN DayOf(d) = 1 .. n /\ DOMAIN DayOf(d)' = 1 .. n
  BY <1>2, <1>3
<1>7. RunCount(s, RunAt(DayOf(d), who))
  BY <1>1, <1>6, RunAtCounts DEF CountsInRow
<1>8. RunCount(t, RunAt(DayOf(d), who)')
  <2>1. CountsInRow'
    BY RunAtCounts, PTL
  <2> QED BY <1>1, <1>6, <2>1 DEF CountsInRow
<1>9. DOMAIN s = 1 .. n
  OBVIOUS
<1> HIDE DEF s, t
<1>10. RunAt(DayOf(d), who)' = RunAt(DayOf(d), who)
  BY <1>1, <1>5, <1>7, <1>8, <1>9, CountIsOne
<1>11. Over(d, who, max) = {k \in 1 .. n : RunAt(DayOf(d), who)[k] > max}
  BY <1>6 DEF Over
<1>12. Over(d, who, max)' = {k \in 1 .. n : RunAt(DayOf(d), who)'[k] > max}
  BY <1>6 DEF Over
<1> QED BY <1>10, <1>11, <1>12

LEMMA ConsecutivePeriodsMoved ==
  ASSUME ConTypeOK, ConTypeOK', NEW p, Moved(p), Unlike
  PROVE  ConsecutivePeriods' = ConsecutivePeriods
<1> DEFINE W == Wanted("CONSECUTIVE_PERIODS")
           cost(q, a, b) == q.weight * (10 * Cardinality(a) + 8 * Cardinality(b))
<1>1. W' = W
  BY DEF Wanted, Moved
<1>2. SchoolDays' = SchoolDays
  <2>1. \A i \in Places : \E j \in Places : p[j] = i /\ timetable'[i] = timetable[j]
    BY DEF Moved, Image
  <2>2. /\ \A i \in Places : p[i] \in Places /\ timetable'[p[i]] = timetable[i]
        /\ Places' = Places
    BY DEF Moved
  <2>3. fetched' = fetched
    BY DEF Moved
  <2> QED BY <2>1, <2>2, <2>3 DEF SchoolDays, DayKey
<1>3. ConsecutivePeriods
        = SumFunction([q \in W |-> SumFunction([d \in SchoolDays |->
            cost(q, Over(d, "subject", q.subject), Over(d, "teacher", q.teacher))])])
  BY DEF ConsecutivePeriods
<1>4. ConsecutivePeriods'
        = SumFunction([q \in W' |-> SumFunction([d \in SchoolDays' |->
            cost(q, Over(d, "subject", q.subject)', Over(d, "teacher", q.teacher)')])])
  BY DEF ConsecutivePeriods
<1>5. \A d, who, max : Over(d, who, max)' = Over(d, who, max)
  BY OverMoved
<1> HIDE DEF cost, W
<1>6. \A q : [d \in SchoolDays' |->
                 cost(q, Over(d, "subject", q.subject)', Over(d, "teacher", q.teacher)')]
            = [d \in SchoolDays |->
                 cost(q, Over(d, "subject", q.subject), Over(d, "teacher", q.teacher))]
  BY <1>2, <1>5
<1>7. [q \in W' |-> SumFunction([d \in SchoolDays' |->
            cost(q, Over(d, "subject", q.subject)', Over(d, "teacher", q.teacher)')])]
      = [q \in W |-> SumFunction([d \in SchoolDays |->
            cost(q, Over(d, "subject", q.subject), Over(d, "teacher", q.teacher))])]
  BY <1>1, <1>6
<1> QED BY <1>3, <1>4, <1>7

LEMMA ReorderMoves ==
  ASSUME ConTypeOK, NEW i \in 1 .. (Len(timetable) - 1), Reorder(i)
  PROVE  \E p : Moved(p)
<1> DEFINE p == [j \in Places |-> IF j = i THEN i + 1 ELSE IF j = i + 1 THEN i ELSE j]
<1>1. Places = 1 .. Len(timetable) /\ Len(timetable) \in Nat /\ timetable \in Seq(Lessons)
  BY DEF Places, ConTypeOK
<1>2. i \in Places /\ i + 1 \in Places /\ i # i + 1
  BY <1>1
<1>3. p \in [Places -> Places] /\ \A j \in Places : p[p[j]] = j
  BY <1>2
<1>4. timetable' = [[timetable EXCEPT ![i] = timetable[i + 1]] EXCEPT ![i + 1] = timetable[i]]
      /\ bare' = bare /\ fetched' = fetched
  BY DEF Reorder
<1>5. /\ DOMAIN timetable' = DOMAIN timetable
      /\ timetable'[i] = timetable[i + 1] /\ timetable'[i + 1] = timetable[i]
      /\ \A j \in Places : j # i /\ j # i + 1 => timetable'[j] = timetable[j]
  BY <1>2, <1>4 DEF Places
<1>6. \A j \in Places : timetable'[p[j]] = timetable[j]
  BY <1>2, <1>5
<1>7. Places' = Places
  BY <1>5 DEF Places
<1>8. Len(timetable') = Len(timetable)
  BY <1>1, <1>4
<1> HIDE DEF p
<1>9. \A j, k \in Places : p[j] = p[k] => j = k
  BY <1>3
<1>10. Image(p, Places) = Places
  BY <1>3 DEF Image
<1> QED BY <1>3, <1>4, <1>6, <1>7, <1>8, <1>9, <1>10 DEF Moved

(* The score does not depend on the order in which the sessions come, where no two sessions of a day are in slots of the same order, for
   timetables of any length: each penalty is a sum over sessions that are only
   renamed (SumOfMoved), and the sorted day, which is the only one (DayIsOne), is
   the old one renamed, so its runs are counted the same (CountIsOne). *)
THEOREM ScoreIsOfTimetable == ConSpec => ScoreOfTimetable
<1> DEFINE SameScore == (/\ timetable' # timetable /\ Len(timetable') = Len(timetable)
                    /\ \A i, j \in Places :
                         i # j /\ DayKey(timetable[i]) = DayKey(timetable[j]) =>
                           /\ Known(i) /\ Known(j)
                           /\ SlotOf[timetable[i].slot].order # SlotOf[timetable[j].slot].order)
                   => Score' = Score
<1>1. ConTypeOK /\ ConTypeOK' /\ [ConNext]_conVars => [SameScore]_conVars
  <2> SUFFICES ASSUME ConTypeOK, ConTypeOK', ConNext,
                      timetable' # timetable, Len(timetable') = Len(timetable), Unlike
               PROVE  Score' = Score
    BY DEF Unlike
  <2>1. PICK i \in 1 .. (Len(timetable) - 1) : Reorder(i)
    <3>1. ASSUME NEW l \in Lessons, AddLesson(l) PROVE FALSE
      <4>1. Len(timetable') = Len(timetable) + 1 /\ Len(timetable) \in Nat
        BY <3>1 DEF AddLesson, ConTypeOK
      <4> QED BY <4>1
    <3> QED BY <3>1 DEF ConNext
  <2>2. PICK p : Moved(p)
    BY <2>1, ReorderMoves
  <2>3. /\ TeacherPreference' = TeacherPreference /\ TimePreference' = TimePreference
        /\ WorkloadDistribution' = WorkloadDistribution /\ RoomPreference' = RoomPreference
        /\ SubjectPreference' = SubjectPreference /\ ConsecutivePeriods' = ConsecutivePeriods
    BY <2>2, TeacherPreferenceMoved, TimePreferenceMoved, WorkloadDistributionMoved,
       RoomPreferenceMoved, SubjectPreferenceMoved, ConsecutivePeriodsMoved
  <2>4. bare' = bare
    BY <2>2 DEF Moved
  <2> QED BY <2>3, <2>4 DEF Score
<1> QED BY <1>1, ConTypeCorrect, PTL DEF ConSpec, ScoreOfTimetable
=============================================================================
