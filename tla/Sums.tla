-------------------------------- MODULE Sums --------------------------------
(***************************************************************************)
(* What the proofs of the modules that count need to know: what the folds  *)
(* of the community modules compute when they add (that a sum over a       *)
(* finite set exists, is a number, and how it changes with one of its      *)
(* terms), the number of elements of a set that is cut into parts, and     *)
(* multiples and quotients.                                                *)
(*                                                                         *)
(* The folds are functions defined by recursion on the subsets of a set.   *)
(* The provers cannot instantiate the induction theorems, so each lemma    *)
(* looks at a smallest counterexample.                                     *)
(***************************************************************************)
EXTENDS Integers, FiniteSetsExt, FiniteSetTheorems, WellFoundedInduction, TLAPS

\* The element a fold takes next, and the sum as a function of the subsets of S.
Pick(s) == CHOOSE x \in s : TRUE
Step(e, s, g) == IF s = {} THEN 0 ELSE e[Pick(s)] + g[s \ {Pick(s)}]
Adds(e, S, g) == g = [s \in SUBSET S |-> Step(e, s, g)]
\* The same for the subsets of at most n elements.
Part(S, n) == {s \in SUBSET S : Cardinality(s) <= n}
AddsTo(e, S, n, g) == g = [s \in Part(S, n) |-> Step(e, s, g)]

\* What a fold takes next is an element.
LEMMA PickIsIn == ASSUME NEW s, s # {} PROVE Pick(s) \in s
BY DEF Pick

\* A smallest set of a family: none of it has one element less.
LEMMA SmallestSet ==
  ASSUME NEW S, IsFiniteSet(S), NEW T \in SUBSET SUBSET S, T # {}
  PROVE  \E s \in T : \A x \in s : s \ {x} \notin T
<1>1. \A s \in T : IsFiniteSet(s) /\ Cardinality(s) \in Nat
  BY FS_Subset, FS_CardinalityType
<1> DEFINE Sizes == {Cardinality(s) : s \in T}
<1>2. PICK n \in Sizes : \A m \in Sizes : ~ (<<m, n>> \in OpToRel(<, Nat))
  <2>1. Sizes # {} /\ Sizes \subseteq Nat
    BY <1>1
  <2> HIDE DEF Sizes
  <2> QED BY <2>1, WFMin, NatLessThanWellFounded
<1>3. \A m \in Sizes : ~ (m < n)
  BY <1>1, <1>2 DEF OpToRel
<1>4. PICK s \in T : Cardinality(s) = n
  OBVIOUS
<1>5. ASSUME NEW x \in s, s \ {x} \in T PROVE FALSE
  <2>1. Cardinality(s \ {x}) = Cardinality(s) - 1
    BY <1>1, FS_RemoveElement
  <2>2. Cardinality(s \ {x}) \in Sizes
    BY <1>5
  <2>3. n \in Nat /\ n - 1 < n
    BY <1>1, <1>4
  <2> QED BY <1>3, <1>4, <2>1, <2>2, <2>3
<1> QED BY <1>5

\* The recursion has a solution, whatever is added.
LEMMA PartialSumsExist ==
  ASSUME NEW S, IsFiniteSet(S), NEW e, NEW k \in Nat
  PROVE  \E g : AddsTo(e, S, k, g)
<1> DEFINE N == {n \in Nat : ~ \E g : AddsTo(e, S, n, g)}
<1> SUFFICES ASSUME N # {} PROVE FALSE
  OBVIOUS
<1>1. PICK n \in N : \A m \in N : ~ (<<m, n>> \in OpToRel(<, Nat))
  <2>1. N \subseteq Nat
    OBVIOUS
  <2> HIDE DEF N
  <2> QED BY <2>1, WFMin, NatLessThanWellFounded
<1>2. n \in Nat /\ \A m \in Nat : m < n => m \notin N
  BY <1>1 DEF OpToRel
<1>3. \A s \in SUBSET S : IsFiniteSet(s) /\ Cardinality(s) \in Nat
  BY FS_Subset, FS_CardinalityType
<1>4. ASSUME n = 0 PROVE FALSE
  <2>1. \A s \in Part(S, 0) : s = {}
    BY <1>3, FS_EmptySet DEF Part
  <2> DEFINE g == [s \in Part(S, 0) |-> 0]
  <2>2. AddsTo(e, S, 0, g)
    BY <2>1 DEF AddsTo, Step
  <2> QED BY <1>1, <1>4, <2>2
<1>5. ASSUME n # 0 PROVE FALSE
  <2>1. n - 1 \in Nat /\ n - 1 < n
    BY <1>2, <1>5
  <2>2. PICK g : AddsTo(e, S, n - 1, g)
    BY <1>2, <2>1
  <2>3. \A s \in Part(S, n - 1) : g[s] = Step(e, s, g) /\ s \in Part(S, n)
    <3>1. Part(S, n - 1) \subseteq Part(S, n)
      BY <1>2, <1>3 DEF Part
    <3>2. g = [s \in Part(S, n - 1) |-> Step(e, s, g)]
      BY <2>2 DEF AddsTo
    <3>3. \A s \in Part(S, n - 1) : [r \in Part(S, n - 1) |-> Step(e, r, g)][s] = Step(e, s, g)
      OBVIOUS
    <3> QED BY <3>1, <3>2, <3>3
  <2> DEFINE h == [s \in Part(S, n) |-> Step(e, s, g)]
  <2>4. \A s \in Part(S, n - 1) : h[s] = g[s]
    BY <2>3
  <2>5. ASSUME NEW s \in Part(S, n) PROVE Step(e, s, g) = Step(e, s, h)
    <3>1. CASE s = {}
      BY <3>1 DEF Step
    <3>2. CASE s # {}
      <4>1. Pick(s) \in s
        BY <3>2, PickIsIn
      <4>2. Cardinality(s \ {Pick(s)}) = Cardinality(s) - 1
        BY <4>1, <1>3, FS_RemoveElement DEF Part
      <4>3. s \ {Pick(s)} \in Part(S, n - 1)
        BY <1>2, <1>3, <4>2 DEF Part
      <4> HIDE DEF h
      <4> QED BY <2>4, <3>2, <4>3 DEF Step
    <3> QED BY <3>1, <3>2
  <2>6. AddsTo(e, S, n, h)
    <3>1. [s \in Part(S, n) |-> Step(e, s, g)] = [s \in Part(S, n) |-> Step(e, s, h)]
      <4> HIDE DEF h
      <4> QED BY <2>5
    <3> QED BY <3>1 DEF AddsTo
  <2> QED BY <1>1, <2>6
<1> QED BY <1>4, <1>5

\* So has the recursion over all subsets.
LEMMA SumsExist ==
  ASSUME NEW S, IsFiniteSet(S), NEW e
  PROVE  \E g : Adds(e, S, g)
<1>1. Cardinality(S) \in Nat /\ \A s \in SUBSET S : Cardinality(s) <= Cardinality(S)
  BY FS_Subset, FS_CardinalityType
<1>2. Part(S, Cardinality(S)) = SUBSET S
  BY <1>1 DEF Part
<1>3. PICK g : AddsTo(e, S, Cardinality(S), g)
  BY <1>1, PartialSumsExist
<1> QED BY <1>2, <1>3 DEF AddsTo, Adds

\* What a solution says of each subset.
LEMMA SumsUnfold ==
  ASSUME NEW S, NEW e, NEW g, Adds(e, S, g)
  PROVE  \A s \in SUBSET S :
           /\ s = {} => g[s] = 0
           /\ s # {} => /\ Pick(s) \in s /\ s \ {Pick(s)} \in SUBSET S
                        /\ g[s] = e[Pick(s)] + g[s \ {Pick(s)}]
<1> SUFFICES ASSUME NEW s \in SUBSET S
             PROVE  /\ s = {} => g[s] = 0
                    /\ s # {} => /\ Pick(s) \in s /\ s \ {Pick(s)} \in SUBSET S
                                 /\ g[s] = e[Pick(s)] + g[s \ {Pick(s)}]
  OBVIOUS
<1>1. g[s] = Step(e, s, g)
  <2>1. [r \in SUBSET S |-> Step(e, r, g)][s] = Step(e, s, g)
    OBVIOUS
  <2> QED BY <2>1 DEF Adds
<1> QED BY <1>1, PickIsIn DEF Step

\* The same, of a solution for any set.
Unfolds(e, S, g) ==
  \A s \in SUBSET S :
    /\ s = {} => g[s] = 0
    /\ s # {} => /\ Pick(s) \in s /\ s \ {Pick(s)} \in SUBSET S
                 /\ g[s] = e[Pick(s)] + g[s \ {Pick(s)}]

\* Every solution says so.
LEMMA SolutionsUnfold == \A S, e, g : Adds(e, S, g) => Unfolds(e, S, g)
<1> SUFFICES ASSUME NEW S, NEW e, NEW g, Adds(e, S, g) PROVE Unfolds(e, S, g)
  OBVIOUS
<1>1. \A s \in SUBSET S :
        /\ s = {} => g[s] = 0
        /\ s # {} => /\ Pick(s) \in s /\ s \ {Pick(s)} \in SUBSET S
                     /\ g[s] = e[Pick(s)] + g[s \ {Pick(s)}]
  BY SumsUnfold
<1> QED BY <1>1 DEF Unfolds

\* A sum of natural numbers is one.
LEMMA SumsAreNat ==
  ASSUME NEW S, IsFiniteSet(S), NEW e \in [S -> Nat], NEW g, Adds(e, S, g)
  PROVE  \A s \in SUBSET S : g[s] \in Nat
<1>u. \A s \in SUBSET S :
        /\ s = {} => g[s] = 0
        /\ s # {} => /\ Pick(s) \in s /\ s \ {Pick(s)} \in SUBSET S
                     /\ g[s] = e[Pick(s)] + g[s \ {Pick(s)}]
  BY SumsUnfold
<1> DEFINE T == {s \in SUBSET S : g[s] \notin Nat}
<1> SUFFICES ASSUME T # {} PROVE FALSE
  OBVIOUS
<1>1. PICK s \in T : \A x \in s : s \ {x} \notin T
  <2>1. T \in SUBSET SUBSET S
    OBVIOUS
  <2> HIDE DEF T
  <2> QED BY <2>1, SmallestSet
<1>0. s \in SUBSET S /\ g[s] \notin Nat
  OBVIOUS
<1> HIDE DEF T
<1>2. s # {}
  <2>1. s = {} => g[s] = 0
    BY <1>0, <1>u
  <2> QED BY <1>0, <2>1
<1>3. Pick(s) \in s /\ s \ {Pick(s)} \in SUBSET S /\ g[s] = e[Pick(s)] + g[s \ {Pick(s)}]
  <2>1. s # {} => /\ Pick(s) \in s /\ s \ {Pick(s)} \in SUBSET S
                  /\ g[s] = e[Pick(s)] + g[s \ {Pick(s)}]
    BY <1>0, <1>u
  <2> QED BY <1>2, <2>1
<1>4. g[s \ {Pick(s)}] \in Nat
  BY <1>1, <1>3 DEF T
<1> QED BY <1>0, <1>3, <1>4

\* When one term changes, so does every sum that has it.
LEMMA SumsChange ==
  ASSUME NEW S, IsFiniteSet(S), NEW e \in [S -> Nat], NEW f \in [S -> Nat], NEW x \in S,
         \A y \in S : y # x => f[y] = e[y],
         NEW g, Adds(e, S, g), NEW h, Adds(f, S, h)
  PROVE  \A s \in SUBSET S : h[s] = IF x \in s THEN g[s] + (f[x] - e[x]) ELSE g[s]
<1> DEFINE New(s) == IF x \in s THEN g[s] + (f[x] - e[x]) ELSE g[s]
           T == {s \in SUBSET S : h[s] # New(s)}
<1>u. \A s \in SUBSET S :
        /\ s = {} => g[s] = 0
        /\ s # {} => /\ Pick(s) \in s /\ s \ {Pick(s)} \in SUBSET S
                     /\ g[s] = e[Pick(s)] + g[s \ {Pick(s)}]
  BY SumsUnfold
<1>v. \A s \in SUBSET S :
        /\ s = {} => h[s] = 0
        /\ s # {} => h[s] = f[Pick(s)] + h[s \ {Pick(s)}]
  BY SumsUnfold
<1> SUFFICES ASSUME T # {} PROVE FALSE
  OBVIOUS
<1>1. PICK s \in T : \A y \in s : s \ {y} \notin T
  <2>1. T \in SUBSET SUBSET S
    OBVIOUS
  <2> HIDE DEF T
  <2> QED BY <2>1, SmallestSet
<1>0. s \in SUBSET S /\ h[s] # New(s)
  OBVIOUS
<1>2. s # {}
  <2>1. s = {} => g[s] = 0
    BY <1>0, <1>u, <1>v
  <2>2. s = {} => h[s] = 0
    BY <1>0, <1>u, <1>v
  <2> QED BY <1>0, <2>1, <2>2
<1> DEFINE p == Pick(s)
           r == s \ {p}
<1>3. /\ p \in s /\ r \in SUBSET S
      /\ g[s] = e[p] + g[r] /\ h[s] = f[p] + h[r]
  <2>1. /\ Pick(s) \in s /\ s \ {Pick(s)} \in SUBSET S
        /\ g[s] = e[Pick(s)] + g[s \ {Pick(s)}]
    BY <1>0, <1>2, <1>u, <1>v
  <2>2. h[s] = f[Pick(s)] + h[s \ {Pick(s)}]
    BY <1>0, <1>2, <1>u, <1>v
  <2> QED BY <2>1, <2>2
<1>4. g[r] \in Nat /\ h[r] = New(r)
  BY <1>1, <1>3, SumsAreNat
<1>5. e[p] \in Nat /\ f[p] \in Nat /\ e[x] \in Nat /\ f[x] \in Nat
  BY <1>3
<1>6. (p = x => x \in s /\ x \notin r) /\ (p # x => (x \in s <=> x \in r) /\ f[p] = e[p])
  BY <1>3
<1> HIDE DEF p, r
<1>7. h[s] = New(s)
  BY <1>3, <1>4, <1>5, <1>6
<1> QED BY <1>0, <1>7

\* It does not matter which term is taken first.
LEMMA SumsTakeAny ==
  ASSUME NEW S, IsFiniteSet(S), NEW e \in [S -> Nat], NEW g, Adds(e, S, g)
  PROVE  \A s \in SUBSET S : \A x \in s : g[s] = e[x] + g[s \ {x}]
<1>u. \A s \in SUBSET S :
        /\ s = {} => g[s] = 0
        /\ s # {} => /\ Pick(s) \in s /\ s \ {Pick(s)} \in SUBSET S
                     /\ g[s] = e[Pick(s)] + g[s \ {Pick(s)}]
  BY SumsUnfold
<1>n. \A s \in SUBSET S : g[s] \in Nat
  BY SumsAreNat
<1> DEFINE T == {s \in SUBSET S : \E x \in s : g[s] # e[x] + g[s \ {x}]}
<1> SUFFICES ASSUME T # {} PROVE FALSE
  OBVIOUS
<1>1. PICK s \in T : \A x \in s : s \ {x} \notin T
  <2>1. T \in SUBSET SUBSET S
    OBVIOUS
  <2> HIDE DEF T
  <2> QED BY <2>1, SmallestSet
<1>2. PICK x \in s : g[s] # e[x] + g[s \ {x}]
  OBVIOUS
<1>3. PICK p : p = Pick(s)
  OBVIOUS
<1>4. s \in SUBSET S /\ p \in s /\ g[s] = e[p] + g[s \ {p}]
  BY <1>u, <1>2, <1>3
<1>5. p # x
  BY <1>2, <1>4
<1>6. g[s \ {p}] = e[x] + g[(s \ {p}) \ {x}]
  BY <1>1, <1>2, <1>4, <1>5
<1>7. g[s \ {x}] = e[p] + g[(s \ {x}) \ {p}]
  BY <1>1, <1>2, <1>4, <1>5
<1>8. (s \ {p}) \ {x} = (s \ {x}) \ {p}
  OBVIOUS
<1>9. PICK a \in Nat : a = g[(s \ {x}) \ {p}]
  BY <1>n, <1>4
<1>10. e[x] \in Nat /\ e[p] \in Nat
  BY <1>2, <1>4
<1>11. g[s \ {p}] = e[x] + a /\ g[s \ {x}] = e[p] + a
  BY <1>6, <1>7, <1>8, <1>9
<1>12. e[p] + (e[x] + a) = e[x] + (e[p] + a)
  BY <1>9, <1>10
<1> QED BY <1>2, <1>4, <1>11, <1>12

\* A term more: the sums that do not have it are as they were.
LEMMA SumsGrow ==
  ASSUME NEW S, IsFiniteSet(S), NEW R \in SUBSET S, NEW e \in [S -> Nat],
         NEW f \in [R -> Nat], \A y \in R : f[y] = e[y], NEW g, Adds(f, R, g), NEW h, Adds(e, S, h)
  PROVE  \A s \in SUBSET R : h[s] = g[s]
<1>x. Unfolds(f, R, g) /\ Unfolds(e, S, h)
  BY SolutionsUnfold
<1>u. \A s \in SUBSET R :
        /\ s = {} => g[s] = 0
        /\ s # {} => /\ Pick(s) \in s /\ s \ {Pick(s)} \in SUBSET R
                     /\ g[s] = f[Pick(s)] + g[s \ {Pick(s)}]
  BY <1>x DEF Unfolds
<1>v. \A s \in SUBSET S :
        /\ s = {} => h[s] = 0
        /\ s # {} => h[s] = e[Pick(s)] + h[s \ {Pick(s)}]
  BY <1>x DEF Unfolds
<1> DEFINE T == {s \in SUBSET R : h[s] # g[s]}
<1> SUFFICES ASSUME T # {} PROVE FALSE
  OBVIOUS
<1>1. PICK s \in T : \A x \in s : s \ {x} \notin T
  <2>1. T \in SUBSET SUBSET S
    OBVIOUS
  <2> HIDE DEF T
  <2> QED BY <2>1, SmallestSet
<1>0. s \in SUBSET R /\ s \in SUBSET S /\ h[s] # g[s]
  OBVIOUS
<1>2. s # {}
  BY <1>0, <1>u, <1>v
<1>3. PICK p : p = Pick(s)
  OBVIOUS
<1>4. p \in s /\ s \ {p} \in SUBSET R /\ g[s] = f[p] + g[s \ {p}]
  BY <1>0, <1>2, <1>3, <1>u
<1>5. h[s] = e[p] + h[s \ {p}]
  BY <1>0, <1>2, <1>3, <1>v
<1>6. h[s \ {p}] = g[s \ {p}]
  BY <1>1, <1>4
<1> QED BY <1>0, <1>4, <1>5, <1>6
-----------------------------------------------------------------------------
(* SumFunctionOnSet.                                                       *)

\* It is a fold that adds its terms.
LEMMA SumFunctionAdds ==
  ASSUME NEW S, IsFiniteSet(S), NEW e
  PROVE  \E g : Adds(e, S, g) /\ SumFunctionOnSet(e, S) = g[S]
<1> DEFINE c == CHOOSE g : Adds(e, S, g)
<1>1. SumFunctionOnSet(e, S) = c[S]
  BY DEF SumFunctionOnSet, FoldFunctionOnSet, MapThenFoldSet, Adds, Step, Pick
<1>2. Adds(e, S, c)
  BY SumsExist
<1> QED BY <1>1, <1>2

\* It is a number.
LEMMA SumFunctionIsNat ==
  ASSUME NEW S, IsFiniteSet(S), NEW e \in [S -> Nat]
  PROVE  SumFunctionOnSet(e, S) \in Nat
<1>1. PICK g : Adds(e, S, g) /\ SumFunctionOnSet(e, S) = g[S]
  BY SumFunctionAdds
<1>2. \A s \in SUBSET S : g[s] \in Nat
  BY <1>1, SumsAreNat
<1> QED BY <1>1, <1>2

\* It changes with one of its terms.
LEMMA SumFunctionChanges ==
  ASSUME NEW S, IsFiniteSet(S), NEW e \in [S -> Nat], NEW f \in [S -> Nat], NEW t \in S,
         \A u \in S : u # t => f[u] = e[u]
  PROVE  /\ SumFunctionOnSet(e, S) \in Nat /\ SumFunctionOnSet(f, S) \in Nat
         /\ SumFunctionOnSet(f, S) = SumFunctionOnSet(e, S) + (f[t] - e[t])
<1>2. PICK g : Adds(e, S, g) /\ SumFunctionOnSet(e, S) = g[S]
  BY SumFunctionAdds
<1>3. PICK h : Adds(f, S, h) /\ SumFunctionOnSet(f, S) = h[S]
  BY SumFunctionAdds
<1>4. \A s \in SUBSET S : g[s] \in Nat
  BY <1>2, SumsAreNat
<1>5. \A s \in SUBSET S : h[s] \in Nat
  BY <1>3, SumsAreNat
<1>6. \A s \in SUBSET S : h[s] = IF t \in s THEN g[s] + (f[t] - e[t]) ELSE g[s]
  BY <1>2, <1>3, SumsChange
<1> QED BY <1>2, <1>3, <1>4, <1>5, <1>6

\* Nothing adds up to nothing.
LEMMA SumFunctionZero ==
  ASSUME NEW S, IsFiniteSet(S), NEW e, \A x \in S : e[x] = 0
  PROVE  SumFunctionOnSet(e, S) = 0
<1>1. PICK g : Adds(e, S, g) /\ SumFunctionOnSet(e, S) = g[S]
  BY SumFunctionAdds
<1> DEFINE T == {s \in SUBSET S : g[s] # 0}
<1> SUFFICES ASSUME T # {} PROVE FALSE
  BY <1>1
<1>2. PICK s \in T : \A x \in s : s \ {x} \notin T
  <2>1. T \in SUBSET SUBSET S
    OBVIOUS
  <2> HIDE DEF T
  <2> QED BY <2>1, SmallestSet
<1>3. /\ s = {} => g[s] = 0
      /\ s # {} => /\ Pick(s) \in s /\ s \ {Pick(s)} \in SUBSET S
                   /\ g[s] = e[Pick(s)] + g[s \ {Pick(s)}]
  BY <1>1, SumsUnfold
<1>4. s # {} /\ g[s \ {Pick(s)}] = 0 /\ e[Pick(s)] = 0
  BY <1>2, <1>3
<1> QED BY <1>2, <1>3, <1>4

\* It grows with a term more.
LEMMA SumFunctionGrows ==
  ASSUME NEW S, IsFiniteSet(S), NEW x, x \notin S, NEW R, R = S \cup {x},
         NEW e \in [R -> Nat], NEW f \in [S -> Nat], \A y \in S : f[y] = e[y]
  PROVE  SumFunctionOnSet(e, R) = SumFunctionOnSet(f, S) + e[x]
<1>1. IsFiniteSet(R) /\ S \in SUBSET R /\ R \in SUBSET R /\ R \ {x} = S /\ x \in R
  BY FS_AddElement
<1>2. PICK g : Adds(f, S, g) /\ SumFunctionOnSet(f, S) = g[S]
  BY SumFunctionAdds
<1>3. PICK h : Adds(e, R, h) /\ SumFunctionOnSet(e, R) = h[R]
  BY <1>1, SumFunctionAdds
<1>4. h[S] = g[S]
  <2>1. \A s \in SUBSET S : h[s] = g[s]
    BY <1>1, <1>2, <1>3, SumsGrow
  <2> QED BY <2>1
<1>5. h[R] = e[x] + h[S]
  BY <1>1, <1>3, SumsTakeAny
<1>6. g[S] \in Nat /\ e[x] \in Nat
  <2>1. \A s \in SUBSET S : g[s] \in Nat
    BY <1>2, SumsAreNat
  <2> QED BY <2>1, <1>1
<1> QED BY <1>2, <1>3, <1>4, <1>5, <1>6

\* Terms that are each the difference of two neighbours of a row of numbers,
\* where neighbours without a term are the same.
Telescopes(n, r, D, f, e) ==
  /\ n \in Nat /\ \A i \in 0 .. n : r[i] \in Nat
  /\ \A k \in D : f[k] \in 0 .. n - 1
  /\ \A k, l \in D : f[k] = f[l] => k = l
  /\ e \in [D -> Nat] /\ \A k \in D : e[k] = r[f[k] + 1] - r[f[k]]
  /\ \A i \in 0 .. n - 1 : (\A k \in D : f[k] # i) => r[i + 1] = r[i]

\* They add up to the difference of its ends.
LEMMA SumTelescopes ==
  ASSUME NEW D, IsFiniteSet(D), NEW n, NEW r, NEW f, NEW e, Telescopes(n, r, D, f, e)
  PROVE  SumFunctionOnSet(e, D) = r[n] - r[0]
<1>0. /\ n \in Nat /\ \A i \in 0 .. n : r[i] \in Nat
      /\ \A k \in D : f[k] \in 0 .. n - 1
      /\ \A k, l \in D : f[k] = f[l] => k = l
      /\ e \in [D -> Nat] /\ \A k \in D : e[k] = r[f[k] + 1] - r[f[k]]
      /\ \A i \in 0 .. n - 1 : (\A k \in D : f[k] # i) => r[i + 1] = r[i]
  BY DEF Telescopes
<1> USE <1>0
<1>1. PICK u : u = [i \in 0 .. n |-> {k \in D : f[k] < i}]
  OBVIOUS
<1>2. PICK a : a = [i \in 0 .. n |-> [k \in u[i] |-> e[k]]]
  OBVIOUS
<1>3. PICK v : v = [i \in 0 .. n |-> SumFunctionOnSet(a[i], u[i])]
  OBVIOUS
<1>4. \A i \in 0 .. n : /\ IsFiniteSet(u[i]) /\ u[i] \subseteq D
                        /\ a[i] \in [u[i] -> Nat] /\ \A k \in u[i] : a[i][k] = e[k]
  <2>1. \A i \in 0 .. n : u[i] \subseteq D
    BY <1>1
  <2> QED BY <1>2, <2>1, FS_Subset
<1>5. u[n] = D /\ a[n] = e
  <2>1. n \in 0 .. n /\ \A k \in D : f[k] < n
    OBVIOUS
  <2>2. u[n] = D
    BY <1>1, <2>1
  <2> QED BY <1>2, <2>1, <2>2
<1> DEFINE T == {i \in 0 .. n : v[i] # r[i] - r[0]}
<1> SUFFICES ASSUME T # {} PROVE FALSE
  <2>1. n \in 0 .. n
    OBVIOUS
  <2> QED BY <1>3, <1>5, <2>1
<1>6. PICK i \in T : \A j \in T : ~ (<<j, i>> \in OpToRel(<, Nat))
  <2>1. T \subseteq Nat
    OBVIOUS
  <2> HIDE DEF T
  <2> QED BY <2>1, WFMin, NatLessThanWellFounded
<1>7. \A j \in T : ~ (j < i)
  <2>1. T \subseteq Nat
    OBVIOUS
  <2> HIDE DEF T
  <2> QED BY <1>6, <2>1 DEF OpToRel
<1>8. i \in 0 .. n /\ v[i] # r[i] - r[0] /\ \A j \in 0 .. n : j < i => v[j] = r[j] - r[0]
  BY <1>7
<1> HIDE DEF T
<1>9. i # 0
  <2>1. ASSUME i = 0 PROVE FALSE
    <3>1. u[0] = {} /\ 0 \in 0 .. n
      BY <1>1
    <3>2. SumFunctionOnSet(a[0], u[0]) = 0
      BY <3>1, FS_EmptySet, SumFunctionZero
    <3>3. r[0] - r[0] = 0
      BY <3>1
    <3> QED BY <1>3, <1>8, <2>1, <3>1, <3>2, <3>3
  <2> QED BY <2>1
<1>10. PICK j \in 0 .. n - 1 : i = j + 1 /\ j \in 0 .. n /\ j < i
  <2>1. i - 1 \in 0 .. n - 1 /\ i = (i - 1) + 1 /\ i - 1 \in 0 .. n /\ i - 1 < i
    BY <1>8, <1>9
  <2> QED BY <2>1
<1>11. v[j] = r[j] - r[0] /\ r[i] \in Nat /\ r[j] \in Nat /\ r[0] \in Nat
  BY <1>8, <1>10
<1>12. CASE \E k \in D : f[k] = j
  <2>1. PICK k \in D : f[k] = j
    BY <1>12
  <2>2. k \notin u[j] /\ u[i] = u[j] \cup {k}
    BY <1>1, <1>8, <1>10, <2>1
  <2>3. \A l \in u[j] : a[j][l] = a[i][l]
    BY <1>4, <1>8, <1>10, <2>2
  <2>4. SumFunctionOnSet(a[i], u[i]) = SumFunctionOnSet(a[j], u[j]) + a[i][k]
    <3>1. /\ IsFiniteSet(u[j]) /\ a[j] \in [u[j] -> Nat] /\ a[i] \in [u[i] -> Nat]
          /\ \A y \in u[j] : a[j][y] = a[i][y]
      BY <1>4, <1>8, <1>10, <2>3
    <3>2. PICK S : S = u[j]
      OBVIOUS
    <3>3. PICK R : R = u[i]
      OBVIOUS
    <3>4. PICK g : g = a[j]
      OBVIOUS
    <3>5. PICK h : h = a[i]
      OBVIOUS
    <3>6. SumFunctionOnSet(h, R) = SumFunctionOnSet(g, S) + h[k]
      BY <2>2, <3>1, <3>2, <3>3, <3>4, <3>5, SumFunctionGrows
    <3> QED BY <3>2, <3>3, <3>4, <3>5, <3>6
  <2>5. a[i][k] = r[i] - r[j]
    BY <1>4, <1>8, <1>10, <2>1, <2>2
  <2>6. v[i] = v[j] + (r[i] - r[j])
    BY <1>3, <1>8, <1>10, <2>4, <2>5
  <2> QED BY <1>8, <1>11, <2>6
<1>13. CASE \A k \in D : f[k] # j
  <2>1. u[i] = u[j]
    BY <1>1, <1>8, <1>10, <1>13
  <2>2. a[i] = a[j]
    BY <1>2, <1>8, <1>10, <2>1
  <2>3. v[i] = v[j]
    BY <1>3, <1>8, <1>10, <2>1, <2>2
  <2> QED BY <1>8, <1>10, <1>11, <1>13, <2>3
<1> QED BY <1>12, <1>13
-----------------------------------------------------------------------------
(* Parts of a set.                                                         *)

\* What is in none of two sets at once is counted once.
LEMMA DisjointUnion ==
  ASSUME NEW S, IsFiniteSet(S), NEW T, IsFiniteSet(T), S \cap T = {}
  PROVE  IsFiniteSet(S \cup T) /\ Cardinality(S \cup T) = Cardinality(S) + Cardinality(T)
<1>1. Cardinality(S \cap T) = 0
  BY FS_EmptySet
<1>2. Cardinality(S) \in Nat /\ Cardinality(T) \in Nat
  BY FS_CardinalityType
<1>3. /\ IsFiniteSet(S \cup T)
      /\ Cardinality(S \cup T) = Cardinality(S) + Cardinality(T) - Cardinality(S \cap T)
  BY FS_Union
<1> QED BY <1>1, <1>2, <1>3

\* All that is in some of the parts, and parts that are finite and disjoint.
Whole(P, s) == UNION {P[x] : x \in s}
ArePartsOf(P, S) ==
  /\ \A x \in S : IsFiniteSet(P[x])
  /\ \A x, y \in S : x # y => P[x] \cap P[y] = {}

\* The sizes of the parts add up to that of the whole.
LEMMA PartsAddUp ==
  ASSUME NEW S, IsFiniteSet(S), NEW P, ArePartsOf(P, S),
         NEW e, \A x \in S : e[x] = Cardinality(P[x]), NEW g, Adds(e, S, g)
  PROVE  \A s \in SUBSET S : IsFiniteSet(Whole(P, s)) /\ g[s] = Cardinality(Whole(P, s))
<1> DEFINE Right(s) == IsFiniteSet(Whole(P, s)) /\ g[s] = Cardinality(Whole(P, s))
           T == {s \in SUBSET S : ~ Right(s)}
<1> SUFFICES ASSUME T # {} PROVE FALSE
  OBVIOUS
<1>1. PICK s \in T : \A x \in s : s \ {x} \notin T
  <2>1. T \in SUBSET SUBSET S
    OBVIOUS
  <2> HIDE DEF T
  <2> QED BY <2>1, SmallestSet
<1>2. s \in SUBSET S /\ ~ Right(s)
  OBVIOUS
<1>3. Unfolds(e, S, g)
  BY SolutionsUnfold
<1>4. CASE s = {}
  <2>1. Whole(P, s) = {} /\ g[s] = 0
    BY <1>2, <1>3, <1>4 DEF Unfolds, Whole
  <2> QED BY <1>2, <2>1, FS_EmptySet
<1>5. CASE s # {}
  <2>1. PICK p \in s : p = Pick(s) /\ s \ {p} \in SUBSET S /\ g[s] = e[p] + g[s \ {p}]
    BY <1>2, <1>3, <1>5 DEF Unfolds
  <2>2. Right(s \ {p})
    BY <1>1, <2>1
  <2>3. IsFiniteSet(P[p]) /\ e[p] = Cardinality(P[p])
    BY <1>2 DEF ArePartsOf
  <2>4. P[p] \cap Whole(P, s \ {p}) = {}
    BY <1>2 DEF ArePartsOf, Whole
  <2>5. Whole(P, s) = P[p] \cup Whole(P, s \ {p})
    BY DEF Whole
  <2>6. PICK rest : rest = Whole(P, s \ {p})
    OBVIOUS
  <2>7. IsFiniteSet(rest) /\ g[s \ {p}] = Cardinality(rest) /\ P[p] \cap rest = {}
    BY <2>2, <2>4, <2>6
  <2>8. IsFiniteSet(P[p] \cup rest)
        /\ Cardinality(P[p] \cup rest) = Cardinality(P[p]) + Cardinality(rest)
    BY <2>3, <2>7, DisjointUnion
  <2> QED BY <1>2, <2>1, <2>3, <2>5, <2>6, <2>7, <2>8
<1> QED BY <1>4, <1>5
-----------------------------------------------------------------------------
(* Sums of sums.                                                           *)

\* Only the terms matter.
LEMMA SumsAgree ==
  ASSUME NEW S, IsFiniteSet(S), NEW e, NEW f, \A x \in S : e[x] = f[x]
  PROVE  SumFunctionOnSet(e, S) = SumFunctionOnSet(f, S)
<1>1. PICK g : Adds(e, S, g) /\ SumFunctionOnSet(e, S) = g[S]
  BY SumFunctionAdds
<1>2. PICK h : Adds(f, S, h) /\ SumFunctionOnSet(f, S) = h[S]
  BY SumFunctionAdds
<1>3. Unfolds(e, S, g) /\ Unfolds(f, S, h)
  BY <1>1, <1>2, SolutionsUnfold
<1> DEFINE T == {s \in SUBSET S : g[s] # h[s]}
<1> SUFFICES ASSUME T # {} PROVE FALSE
  BY <1>1, <1>2
<1>4. PICK s \in T : \A x \in s : s \ {x} \notin T
  <2>1. T \in SUBSET SUBSET S
    OBVIOUS
  <2> HIDE DEF T
  <2> QED BY <2>1, SmallestSet
<1>5. s \in SUBSET S /\ g[s] # h[s]
  OBVIOUS
<1>6. s # {}
  BY <1>3, <1>5 DEF Unfolds
<1>7. PICK x \in s : /\ s \ {x} \in SUBSET S
                     /\ g[s] = e[x] + g[s \ {x}] /\ h[s] = f[x] + h[s \ {x}]
  BY <1>3, <1>5, <1>6 DEF Unfolds
<1>8. g[s \ {x}] = h[s \ {x}]
  BY <1>4, <1>7
<1> QED BY <1>5, <1>7, <1>8

\* The sum of a part of the terms is what the fold of all has for it.
LEMMA SumWithin ==
  ASSUME NEW R, IsFiniteSet(R), NEW e \in [R -> Nat], NEW h, Adds(e, R, h), NEW S \in SUBSET R
  PROVE  SumFunctionOnSet(e, S) = h[S] /\ h[S] \in Nat
<1>1. IsFiniteSet(S) /\ S \in SUBSET S
  BY FS_Subset
<1>2. PICK f : f = [x \in S |-> e[x]]
  OBVIOUS
<1>3. f \in [S -> Nat] /\ \A x \in S : e[x] = f[x]
  BY <1>2
<1>4. PICK g : Adds(f, S, g) /\ SumFunctionOnSet(f, S) = g[S]
  BY <1>1, SumFunctionAdds
<1>5. \A s \in SUBSET S : h[s] = g[s]
  BY <1>3, <1>4, SumsGrow
<1>6. SumFunctionOnSet(e, S) = SumFunctionOnSet(f, S)
  BY <1>1, <1>3, SumsAgree
<1>7. \A s \in SUBSET R : h[s] \in Nat
  BY SumsAreNat
<1> QED BY <1>1, <1>4, <1>5, <1>6, <1>7

\* What is added of two sets that have nothing in common.
LEMMA SumSplits ==
  ASSUME NEW R, IsFiniteSet(R), NEW e \in [R -> Nat],
         NEW S \in SUBSET R, NEW U \in SUBSET R, S \cap U = {}
  PROVE  /\ SumFunctionOnSet(e, S \cup U) = SumFunctionOnSet(e, S) + SumFunctionOnSet(e, U)
         /\ SumFunctionOnSet(e, S) \in Nat /\ SumFunctionOnSet(e, U) \in Nat
<1>1. PICK h : Adds(e, R, h)
  BY SumsExist
<1>2. \A s \in SUBSET R : SumFunctionOnSet(e, s) = h[s] /\ h[s] \in Nat
  BY <1>1, SumWithin
<1>3. \A s \in SUBSET R : \A x \in s : h[s] = e[x] + h[s \ {x}]
  <2> SUFFICES ASSUME NEW s \in SUBSET R, NEW x \in s
               PROVE  h[s] = e[x] + h[s \ {x}]
    OBVIOUS
  <2> QED BY <1>1, SumsTakeAny
<1>4. h[{}] = 0
  <2>1. Unfolds(e, R, h)
    BY <1>1, SolutionsUnfold
  <2> QED BY <2>1 DEF Unfolds
<1> DEFINE T == {u \in SUBSET U : h[S \cup u] # h[S] + h[u]}
<1>5. T = {}
  <2> SUFFICES ASSUME T # {} PROVE FALSE
    OBVIOUS
  <2>1. PICK u \in T : \A x \in u : u \ {x} \notin T
    <3>1. T \in SUBSET SUBSET U /\ IsFiniteSet(U)
      BY FS_Subset
    <3> HIDE DEF T
    <3> QED BY <3>1, SmallestSet
  <2>2. u \in SUBSET U /\ h[S \cup u] # h[S] + h[u]
    OBVIOUS
  <2>3. u # {}
    <3>1. S \cup {} = S /\ h[S] + 0 = h[S]
      BY <1>2
    <3> QED BY <1>4, <2>2, <3>1
  <2>4. PICK x \in u : TRUE
    BY <2>3
  <2>5. u \ {x} \in SUBSET U /\ h[S \cup (u \ {x})] = h[S] + h[u \ {x}]
    BY <2>1, <2>2, <2>4
  <2>6. (S \cup u) \ {x} = S \cup (u \ {x}) /\ x \in S \cup u /\ S \cup u \in SUBSET R
        /\ u \in SUBSET R /\ u \ {x} \in SUBSET R /\ x \in R
    BY <2>2
  <2>7. h[S \cup u] = e[x] + h[S \cup (u \ {x})] /\ h[u] = e[x] + h[u \ {x}]
    BY <1>3, <2>6
  <2>8. h[S] \in Nat /\ h[u \ {x}] \in Nat /\ e[x] \in Nat
    BY <1>2, <2>6
  <2> QED BY <2>2, <2>5, <2>7, <2>8
<1>6. h[S \cup U] = h[S] + h[U]
  <2>1. U \in SUBSET U
    OBVIOUS
  <2> QED BY <1>5, <2>1
<1>7. S \cup U \in SUBSET R
  OBVIOUS
<1> QED BY <1>2, <1>6, <1>7

\* The sums of the parts add up to that of the whole.
LEMMA SumOfParts ==
  ASSUME NEW R, IsFiniteSet(R), NEW e \in [R -> Nat],
         NEW S, IsFiniteSet(S), NEW P, ArePartsOf(P, S), Whole(P, S) = R,
         NEW f, \A x \in S : f[x] = SumFunctionOnSet(e, P[x])
  PROVE  SumFunctionOnSet(f, S) = SumFunctionOnSet(e, R)
<1>1. PICK h : Adds(e, R, h)
  BY SumsExist
<1>2. \A s \in SUBSET R : SumFunctionOnSet(e, s) = h[s] /\ h[s] \in Nat
  BY <1>1, SumWithin
<1>3. \A s \in SUBSET S : Whole(P, s) \in SUBSET R
  BY DEF Whole
<1>4. PICK g : Adds(f, S, g) /\ SumFunctionOnSet(f, S) = g[S]
  BY SumFunctionAdds
<1>5. Unfolds(f, S, g)
  BY <1>4, SolutionsUnfold
<1>6. h[{}] = 0
  <2>1. Unfolds(e, R, h)
    BY <1>1, SolutionsUnfold
  <2> QED BY <2>1 DEF Unfolds
<1> DEFINE T == {s \in SUBSET S : g[s] # h[Whole(P, s)]}
<1>7. T = {}
  <2> SUFFICES ASSUME T # {} PROVE FALSE
    OBVIOUS
  <2>1. PICK s \in T : \A x \in s : s \ {x} \notin T
    <3>1. T \in SUBSET SUBSET S
      OBVIOUS
    <3> HIDE DEF T
    <3> QED BY <3>1, SmallestSet
  <2>2. s \in SUBSET S /\ g[s] # h[Whole(P, s)]
    OBVIOUS
  <2>3. s # {}
    <3>1. Whole(P, {}) = {}
      BY DEF Whole
    <3> QED BY <1>5, <1>6, <2>2, <3>1 DEF Unfolds
  <2>4. PICK x \in s : s \ {x} \in SUBSET S /\ g[s] = f[x] + g[s \ {x}]
    BY <1>5, <2>2, <2>3 DEF Unfolds
  <2>5. g[s \ {x}] = h[Whole(P, s \ {x})]
    BY <2>1, <2>4
  <2>6. PICK rest : rest = Whole(P, s \ {x})
    OBVIOUS
  <2>7. P[x] \in SUBSET R /\ rest \in SUBSET R /\ P[x] \cap rest = {}
        /\ Whole(P, s) = P[x] \cup rest
    BY <2>2, <2>6 DEF Whole, ArePartsOf
  <2>8. SumFunctionOnSet(e, P[x] \cup rest)
          = SumFunctionOnSet(e, P[x]) + SumFunctionOnSet(e, rest)
    BY <2>7, SumSplits
  <2>9. h[P[x] \cup rest] = h[P[x]] + h[rest] /\ f[x] = h[P[x]]
    <3>1. P[x] \cup rest \in SUBSET R /\ x \in S
      BY <2>2, <2>7
    <3> QED BY <1>2, <2>7, <2>8, <3>1
  <2> QED BY <2>2, <2>4, <2>5, <2>6, <2>7, <2>9
<1>8. g[S] = h[Whole(P, S)]
  <2>1. S \in SUBSET S
    OBVIOUS
  <2> QED BY <1>7, <2>1
<1> QED BY <1>2, <1>4, <1>8

\* A sum of sums is the sum of both.
LEMMA SumsTogether ==
  ASSUME NEW S, IsFiniteSet(S), NEW e \in [S -> Nat], NEW f \in [S -> Nat],
         NEW d, \A x \in S : d[x] = e[x] + f[x]
  PROVE  SumFunctionOnSet(d, S) = SumFunctionOnSet(e, S) + SumFunctionOnSet(f, S)
<1>1. PICK g : Adds(e, S, g) /\ SumFunctionOnSet(e, S) = g[S]
  BY SumFunctionAdds
<1>2. PICK h : Adds(f, S, h) /\ SumFunctionOnSet(f, S) = h[S]
  BY SumFunctionAdds
<1>3. PICK k : Adds(d, S, k) /\ SumFunctionOnSet(d, S) = k[S]
  BY SumFunctionAdds
<1>4. Unfolds(d, S, k) /\ Unfolds(e, S, g) /\ Unfolds(f, S, h)
  BY <1>1, <1>2, <1>3, SolutionsUnfold
<1>5. \A s \in SUBSET S : g[s] \in Nat
  BY <1>1, SumsAreNat
<1>6. \A s \in SUBSET S : h[s] \in Nat
  BY <1>2, SumsAreNat
<1> DEFINE T == {s \in SUBSET S : k[s] # g[s] + h[s]}
<1> SUFFICES ASSUME T # {} PROVE FALSE
  BY <1>1, <1>2, <1>3
<1>7. PICK s \in T : \A x \in s : s \ {x} \notin T
  <2>1. T \in SUBSET SUBSET S
    OBVIOUS
  <2> HIDE DEF T
  <2> QED BY <2>1, SmallestSet
<1>8. s \in SUBSET S /\ k[s] # g[s] + h[s]
  OBVIOUS
<1>9. s # {}
  <2>1. ASSUME s = {} PROVE FALSE
    <3>1. k[s] = 0 /\ g[s] = 0 /\ h[s] = 0
      BY <1>4, <1>8, <2>1 DEF Unfolds
    <3> QED BY <1>8, <3>1
  <2> QED BY <2>1
<1>10. PICK x \in s : /\ s \ {x} \in SUBSET S /\ k[s] = d[x] + k[s \ {x}]
                      /\ g[s] = e[x] + g[s \ {x}] /\ h[s] = f[x] + h[s \ {x}]
  BY <1>4, <1>8, <1>9 DEF Unfolds
<1>11. k[s \ {x}] = g[s \ {x}] + h[s \ {x}]
  BY <1>7, <1>10
<1>12. /\ g[s \ {x}] \in Nat /\ h[s \ {x}] \in Nat /\ e[x] \in Nat /\ f[x] \in Nat
       /\ d[x] = e[x] + f[x]
  BY <1>5, <1>6, <1>8, <1>10
<1> QED BY <1>8, <1>10, <1>11, <1>12

\* A sum of one term.
LEMMA SumOfOne ==
  ASSUME NEW e, NEW x, e[x] \in Nat
  PROVE  SumFunctionOnSet(e, {x}) = e[x]
<1>1. PICK g : Adds(e, {x}, g) /\ SumFunctionOnSet(e, {x}) = g[{x}]
  BY FS_Singleton, SumFunctionAdds
<1>2. Unfolds(e, {x}, g)
  BY <1>1, SolutionsUnfold
<1>3. Pick({x}) = x /\ {x} \ {x} = {}
  BY DEF Pick
<1>4. g[{}] = 0 /\ g[{x}] = e[x] + g[{}]
  BY <1>2, <1>3 DEF Unfolds
<1> QED BY <1>1, <1>4
-----------------------------------------------------------------------------
(* Multiples and quotients.                                                *)

\* A multiple grows with its factor.
LEMMA FactorsOrder ==
  ASSUME NEW a \in Int, NEW b \in Int, NEW width \in Nat, a <= b
  PROVE  a * width \in Int /\ b * width \in Int /\ a * width <= b * width
<1>1. PICK d \in Nat : b = a + d
  <2>1. b - a \in Nat /\ b = a + (b - a)
    OBVIOUS
  <2> QED BY <2>1
<1>2. b * width = a * width + d * width /\ d * width \in Nat /\ a * width \in Int
  BY <1>1
<1> QED BY <1>2

\* How often a period fits into a stretch.
LEMMA RoundDown ==
  ASSUME NEW a \in Nat, NEW p \in Nat \ {0}, NEW k \in Nat
  PROVE  a \div p \in Nat /\ (k * p <= a <=> k <= a \div p)
<1>1. PICK q \in Nat : q = a \div p /\ q * p \in Int /\ q * p <= a /\ a < q * p + p
  <2>1. a \div p \in Nat /\ a % p \in 0 .. p - 1 /\ a = p * (a \div p) + (a % p)
    OBVIOUS
  <2>2. PICK q \in Nat : q = a \div p
    BY <2>1
  <2>3. p * q = q * p /\ q * p \in Int
    OBVIOUS
  <2> QED BY <2>1, <2>2, <2>3
<1>2. k <= q => k * p <= q * p
  BY FactorsOrder
<1>3. q + 1 <= k => (q + 1) * p <= k * p
  BY FactorsOrder
<1>4. (q + 1) * p = q * p + p /\ k * p \in Int
  OBVIOUS
<1> QED BY <1>1, <1>2, <1>3, <1>4

\* How many periods cover a stretch.
LEMMA RoundUp ==
  ASSUME NEW a \in Nat \ {0}, NEW p \in Nat \ {0}, NEW k \in Nat
  PROVE  (a + p - 1) \div p \in Nat /\ (a <= k * p <=> (a + p - 1) \div p <= k)
<1>1. PICK b \in Nat : b = a + p - 1
  OBVIOUS
<1>2. b \div p \in Nat /\ ((k + 1) * p <= b <=> k + 1 <= b \div p)
  BY RoundDown
<1>3. (k + 1) * p = k * p + p /\ k * p \in Int
  OBVIOUS
<1> QED BY <1>1, <1>2, <1>3

\* The last multiple of a width that is not after a moment.
Base(t, width) == t - (t % width)

\* The moment is less than a width after it.
LEMMA FloorIsMultiple ==
  ASSUME NEW t \in Int, NEW width \in Nat, width > 0
  PROVE  /\ Base(t, width) \in Int /\ Base(t, width) <= t /\ t < Base(t, width) + width
         /\ \E q \in Int : Base(t, width) = q * width
<1>1. t % width \in 0 .. width - 1 /\ t = width * (t \div width) + (t % width)
      /\ t \div width \in Int
  OBVIOUS
<1>2. PICK q \in Int : q = t \div width
  BY <1>1
<1>3. Base(t, width) = q * width
  <2>1. width * q = q * width /\ q * width \in Int
    OBVIOUS
  <2> QED BY <1>1, <1>2, <2>1 DEF Base
<1> QED BY <1>1, <1>3 DEF Base

\* It is the only one.
LEMMA FloorIsOne ==
  ASSUME NEW t \in Int, NEW width \in Nat, width > 0, NEW q \in Int,
         q * width <= t, t < q * width + width
  PROVE  Base(t, width) = q * width
<1>1. PICK b : b = Base(t, width)
  OBVIOUS
<1>2. b <= t /\ t < b + width /\ b \in Int
  BY <1>1, FloorIsMultiple
<1>3. PICK p \in Int : b = p * width
  BY <1>1, FloorIsMultiple
<1>4. (p + 1) * width = p * width + width /\ (q + 1) * width = q * width + width
      /\ q * width \in Int
  OBVIOUS
<1>5. ASSUME p + 1 <= q PROVE FALSE
  <2>1. (p + 1) * width <= q * width
    BY <1>5, FactorsOrder
  <2> QED BY <1>2, <1>3, <1>4, <2>1
<1>6. ASSUME q + 1 <= p PROVE FALSE
  <2>1. (q + 1) * width <= p * width
    BY <1>6, FactorsOrder
  <2> QED BY <1>2, <1>3, <1>4, <2>1
<1>7. p = q
  BY <1>5, <1>6
<1> QED BY <1>1, <1>3, <1>7

\* What is before a multiple is over before it.
LEMMA FloorsAreApart ==
  ASSUME NEW s \in Int, NEW t \in Int, NEW width \in Nat, width > 0, s < Base(t, width)
  PROVE  Base(s, width) + width <= Base(t, width)
<1>1. PICK a : a = Base(s, width)
  OBVIOUS
<1>2. PICK b : b = Base(t, width)
  OBVIOUS
<1>3. a \in Int /\ a <= s /\ b \in Int
  BY <1>1, <1>2, FloorIsMultiple
<1>4. PICK p \in Int : a = p * width
  BY <1>1, FloorIsMultiple
<1>5. PICK q \in Int : b = q * width
  BY <1>2, FloorIsMultiple
<1>6. (p + 1) * width = p * width + width
  OBVIOUS
<1>7. CASE q <= p
  <2>1. q * width <= p * width
    BY <1>7, FactorsOrder
  <2> QED BY <1>2, <1>3, <1>4, <1>5, <2>1
<1>8. CASE p + 1 <= q
  <2>1. (p + 1) * width <= q * width
    BY <1>8, FactorsOrder
  <2> QED BY <1>1, <1>2, <1>3, <1>4, <1>5, <1>6, <2>1
<1> QED BY <1>7, <1>8

\* A width that divides another one is contained so many times in it.
LEMMA WholeFactor ==
  ASSUME NEW small \in Nat, NEW large \in Nat, small > 0, large > 0, large % small = 0
  PROVE  \E n \in Nat : large = n * small /\ n > 0
<1>1. PICK n \in Int : n = large \div small
  OBVIOUS
<1>2. large = n * small
  <2>1. large = small * n + (large % small)
    BY <1>1
  <2>2. small * n = n * small /\ n * small \in Int
    OBVIOUS
  <2> QED BY <2>1, <2>2
<1>3. ASSUME n <= 0 PROVE FALSE
  <2>1. n * small <= 0 * small
    BY <1>3, FactorsOrder
  <2> QED BY <1>2, <2>1
<1> QED BY <1>2, <1>3

\* Rounding to the smaller one first does not matter.
LEMMA FloorsNest ==
  ASSUME NEW t \in Int, NEW small \in Nat, NEW large \in Nat, small > 0, large > 0,
         large % small = 0
  PROVE  Base(Base(t, small), large) = Base(t, large)
<1>1. PICK n \in Nat : large = n * small
  BY WholeFactor
<1>2. PICK a : a = Base(t, small)
  OBVIOUS
<1>3. PICK b : b = Base(t, large)
  OBVIOUS
<1>4. a \in Int /\ a <= t /\ t < a + small /\ b \in Int /\ b <= t /\ t < b + large
  BY <1>2, <1>3, FloorIsMultiple
<1>5. PICK p \in Int : a = p * small
  BY <1>2, FloorIsMultiple
<1>6. PICK q \in Int : b = q * large
  BY <1>3, FloorIsMultiple
<1>7. q * n \in Int /\ b = (q * n) * small
  BY <1>1, <1>6
<1>8. b <= a
  <2>1. CASE q * n <= p
    BY <1>5, <1>7, <2>1, FactorsOrder
  <2>2. CASE p + 1 <= q * n
    <3>1. (p + 1) * small <= (q * n) * small
      BY <1>7, <2>2, FactorsOrder
    <3>2. (p + 1) * small = p * small + small
      OBVIOUS
    <3>3. a + small <= b
      BY <1>5, <1>7, <3>1, <3>2
    <3> QED BY <1>4, <3>3
  <2> QED BY <1>7, <2>1, <2>2
<1>9. q * large <= a /\ a < q * large + large
  BY <1>4, <1>6, <1>8
<1>10. Base(a, large) = q * large
  BY <1>4, <1>9, FloorIsOne
<1> QED BY <1>2, <1>3, <1>6, <1>10
=============================================================================
