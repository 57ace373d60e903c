------------------------------ MODULE SumProofs ------------------------------
(***************************************************************************)
(* What the proofs need of sums over finite sets: SumFunctionOnSet of the  *)
(* community modules adds in an order it does not say, by a function that  *)
(* is defined by recursion on subsets.                                     *)
(*                                                                         *)
(* The library's induction theorems take an operator and cannot be cited,  *)
(* so each induction here is on the cardinality of a subset for which the  *)
(* claim fails: of these there would be a least one (Least).               *)
(***************************************************************************)
EXTENDS Integers, Sequences, FiniteSets, Functions, FiniteSetTheorems, WellFoundedInduction, TLAPS

\* A set of naturals that is not empty has a least element.
LEMMA Least ==
  ASSUME NEW N \in SUBSET Nat, N # {}
  PROVE  \E m \in N : \A n \in N : m <= n
<1>1. PICK m \in N : \A n \in N : <<n, m>> \notin OpToRel(<, Nat)
  BY NatLessThanWellFounded, WFMin
<1>2. \A n \in N : ~(n < m)
  BY <1>1 DEF OpToRel
<1> QED
  BY <1>2

\* Taking an element out of a finite set.
LEMMA OneLess ==
  ASSUME NEW s, IsFiniteSet(s), NEW x \in s
  PROVE  /\ IsFiniteSet(s \ {x}) /\ Cardinality(s \ {x}) = Cardinality(s) - 1
         /\ Cardinality(s) \in Nat /\ Cardinality(s) - 1 \in Nat
<1>1. IsFiniteSet(s \ {x}) /\ Cardinality(s \ {x}) = Cardinality(s) - 1
  BY FS_RemoveElement
<1>2. Cardinality(s) \in Nat /\ Cardinality(s \ {x}) \in Nat
  BY <1>1, FS_CardinalityType
<1> QED
  BY <1>1, <1>2

\* g adds up f over each subset of S, taking elements out one at a time.
Recursion(g, f, S) ==
  g = [s \in SUBSET S |-> IF s = {} THEN 0
                          ELSE LET x == CHOOSE x \in s : TRUE IN f[x] + g[s \ {x}]]

\* The library's sum is by that recursion.
LEMMA SumByRecursion ==
  ASSUME NEW f, NEW S
  PROVE  SumFunctionOnSet(f, S) = (CHOOSE g : Recursion(g, f, S))[S]
BY DEF SumFunctionOnSet, FoldFunctionOnSet, MapThenFoldSet, Recursion

\* The recursion has a solution: one that is right for subsets of size n can
\* be made right for subsets of size n + 1.
LEMMA RecursionSolved ==
  ASSUME NEW f, NEW S, IsFiniteSet(S)
  PROVE  \E g : Recursion(g, f, S)
<1> DEFINE Step(g, s) == IF s = {} THEN 0 ELSE LET x == CHOOSE x \in s : TRUE IN f[x] + g[s \ {x}]
           RightTo(g, n) == DOMAIN g = SUBSET S /\ \A s \in SUBSET S : Cardinality(s) <= n => g[s] = Step(g, s)
           bad == {n \in Nat : ~ \E g : RightTo(g, n)}
<1>1. \A s \in SUBSET S : IsFiniteSet(s) /\ Cardinality(s) \in Nat /\ Cardinality(s) <= Cardinality(S)
  BY FS_Subset, FS_CardinalityType
<1>2. \A s \in SUBSET S : Cardinality(s) = 0 => s = {}
  BY <1>1, FS_EmptySet
<1>3. ASSUME NEW s \in SUBSET S, s # {}
      PROVE  LET x == CHOOSE x \in s : TRUE
             IN  s \ {x} \in SUBSET S /\ Cardinality(s \ {x}) = Cardinality(s) - 1
  <2>1. (CHOOSE x \in s : TRUE) \in s
    BY <1>3
  <2> QED
    BY <1>1, <2>1, FS_RemoveElement
<1>4. \E g : RightTo(g, 0)
  <2> DEFINE g == [s \in SUBSET S |-> 0]
  <2>1. RightTo(g, 0)
    BY <1>1, <1>2
  <2> HIDE DEF RightTo, g
  <2> QED
    BY <2>1
<1>5. ASSUME NEW n \in Nat, NEW g, RightTo(g, n) PROVE \E h : RightTo(h, n + 1)
  <2> DEFINE h == [s \in SUBSET S |-> IF Cardinality(s) <= n THEN g[s] ELSE Step(g, s)]
  <2>1. ASSUME NEW s \in SUBSET S, Cardinality(s) <= n + 1 PROVE h[s] = Step(h, s)
    <3>1. h[s] = Step(g, s)
      BY <1>5
    <3>2. CASE s = {}
      BY <3>1, <3>2
    <3>3. CASE s # {}
      <4> DEFINE x == CHOOSE x \in s : TRUE
      <4>1. s \ {x} \in SUBSET S /\ Cardinality(s \ {x}) <= n
        BY <1>1, <1>3, <2>1, <3>3
      <4>2. h[s \ {x}] = g[s \ {x}]
        BY <4>1
      <4> QED
        BY <3>1, <3>3, <4>2
    <3> QED
      BY <3>2, <3>3
  <2>2. RightTo(h, n + 1)
    <3> HIDE DEF h
    <3>1. DOMAIN h = SUBSET S
      BY DEF h
    <3> QED
      BY <2>1, <3>1
  <2> HIDE DEF RightTo, h
  <2> QED
    BY <2>2
<1>6. bad = {}
  <2> HIDE DEF RightTo
  <2> SUFFICES ASSUME bad # {} PROVE FALSE
    OBVIOUS
  <2>1. PICK m \in bad : \A n \in bad : m <= n
    BY Least
  <2>2. m \in Nat /\ m # 0
    BY <1>4
  <2>3. m - 1 \in Nat /\ m - 1 \notin bad /\ (m - 1) + 1 = m
    BY <2>1, <2>2
  <2>4. PICK g : RightTo(g, m - 1)
    BY <2>3
  <2>5. \E h : RightTo(h, (m - 1) + 1)
    BY <1>5, <2>3, <2>4
  <2> QED
    BY <2>3, <2>5
<1>7. PICK g : RightTo(g, Cardinality(S))
  <2> HIDE DEF RightTo
  <2> QED
    BY <1>6, FS_CardinalityType
<1>8. PICK h : h = [s \in SUBSET S |-> Step(g, s)]
  <2> HIDE DEF Step
  <2> QED
    OBVIOUS
<1>9. \A s \in SUBSET S : h[s] = g[s]
  BY <1>1, <1>7, <1>8
<1>10. Recursion(h, f, S)
  <2>1. ASSUME NEW s \in SUBSET S PROVE Step(g, s) = Step(h, s)
    BY <1>3, <1>9
  <2>2. h = [s \in SUBSET S |-> Step(h, s)]
    <3> HIDE DEF Step
    <3> QED
      BY <1>8, <2>1
  <2> QED
    BY <2>2 DEF Recursion
<1> QED
  BY <1>10

\* Two solutions agree where both are defined.
LEMMA RecursionUnique ==
  ASSUME NEW f, NEW S, IsFiniteSet(S), NEW T \in SUBSET S, NEW g, NEW h,
         Recursion(g, f, S), Recursion(h, f, T)
  PROVE  \A s \in SUBSET T : g[s] = h[s]
<1> DEFINE bad == {n \in Nat : \E s \in SUBSET T : Cardinality(s) = n /\ g[s] # h[s]}
<1>1. \A s \in SUBSET T : IsFiniteSet(s) /\ Cardinality(s) \in Nat
  BY FS_Subset, FS_CardinalityType
<1>2. bad = {}
  <2> SUFFICES ASSUME bad # {} PROVE FALSE
    OBVIOUS
  <2>1. PICK m \in bad : \A n \in bad : m <= n
    BY Least
  <2>2. PICK s \in SUBSET T : Cardinality(s) = m /\ g[s] # h[s]
    BY <2>1
  <2> DEFINE x == CHOOSE x \in s : TRUE
  <2>3. g[s] = (IF s = {} THEN 0 ELSE f[x] + g[s \ {x}]) /\ h[s] = (IF s = {} THEN 0 ELSE f[x] + h[s \ {x}])
    BY DEF Recursion
  <2>4. s # {} /\ x \in s
    BY <2>2, <2>3
  <2>5. s \ {x} \in SUBSET T /\ Cardinality(s \ {x}) = m - 1 /\ m - 1 \in Nat
    <3> HIDE DEF x
    <3> QED
      BY <1>1, <2>2, <2>4, OneLess
  <2>6. m - 1 \notin bad
    BY <2>1, <2>5
  <2>7. g[s \ {x}] = h[s \ {x}]
    BY <2>5, <2>6
  <2> QED
    BY <2>2, <2>3, <2>7
<1> QED
  BY <1>1, <1>2

\* Nothing sums to 0.
LEMMA SumOfNone == ASSUME NEW f PROVE SumFunctionOnSet(f, {}) = 0
<1>1. Recursion(CHOOSE g : Recursion(g, f, {}), f, {})
  BY RecursionSolved, FS_EmptySet
<1> QED
  BY <1>1, SumByRecursion DEF Recursion

\* Some element is taken out of S first.
LEMMA SumOfFirst ==
  ASSUME NEW f, NEW S, IsFiniteSet(S), S # {}
  PROVE  \E x \in S : SumFunctionOnSet(f, S) = f[x] + SumFunctionOnSet(f, S \ {x})
<1> DEFINE x == CHOOSE y \in S : TRUE
           T == S \ {x}
           g == CHOOSE g : Recursion(g, f, S)
           h == CHOOSE h : Recursion(h, f, T)
<1>1. x \in S /\ T \in SUBSET S /\ IsFiniteSet(T)
  BY FS_RemoveElement
<1>2. Recursion(g, f, S) /\ Recursion(h, f, T)
  BY <1>1, RecursionSolved
<1>3. g[T] = h[T]
  <2> HIDE DEF g, h, T
  <2> QED
    BY <1>1, <1>2, RecursionUnique
<1>4. g[S] = f[x] + g[T]
  <2> HIDE DEF g
  <2> QED
    BY <1>2 DEF Recursion
<1> QED
  BY <1>1, <1>3, <1>4, SumByRecursion

\* A sum of integers is an integer, of naturals a natural.
LEMMA SumType ==
  ASSUME NEW f, NEW S, IsFiniteSet(S), NEW R, R = Int \/ R = Nat, \A x \in S : f[x] \in R
  PROVE  SumFunctionOnSet(f, S) \in R
<1> DEFINE bad == {n \in Nat : \E s \in SUBSET S : Cardinality(s) = n /\ SumFunctionOnSet(f, s) \notin R}
<1>1. \A s \in SUBSET S : IsFiniteSet(s) /\ Cardinality(s) \in Nat
  BY FS_Subset, FS_CardinalityType
<1>2. bad = {}
  <2> SUFFICES ASSUME bad # {} PROVE FALSE
    OBVIOUS
  <2>1. PICK m \in bad : \A n \in bad : m <= n
    BY Least
  <2>2. PICK s \in SUBSET S : Cardinality(s) = m /\ SumFunctionOnSet(f, s) \notin R
    BY <2>1
  <2>3. s # {}
    BY <2>2, SumOfNone
  <2>4. IsFiniteSet(s)
    BY <1>1
  <2>5. PICK x \in s : SumFunctionOnSet(f, s) = f[x] + SumFunctionOnSet(f, s \ {x})
    BY <2>3, <2>4, SumOfFirst
  <2>6. s \ {x} \in SUBSET S /\ Cardinality(s \ {x}) = m - 1 /\ m - 1 \in Nat
    BY <2>2, <2>4, <2>5, OneLess
  <2>7. m - 1 \notin bad
    BY <2>1, <2>6
  <2>8. SumFunctionOnSet(f, s \ {x}) \in R /\ f[x] \in R
    BY <2>5, <2>6, <2>7
  <2> QED
    BY <2>2, <2>5, <2>8
<1> QED
  BY <1>1, <1>2

\* Any element can be taken out first.
LEMMA SumOfOne ==
  ASSUME NEW f, NEW S, IsFiniteSet(S), \A x \in S : f[x] \in Int, NEW e \in S
  PROVE  SumFunctionOnSet(f, S) = f[e] + SumFunctionOnSet(f, S \ {e})
<1> DEFINE Fails(s) == \E x \in s : SumFunctionOnSet(f, s) # f[x] + SumFunctionOnSet(f, s \ {x})
           bad == {n \in Nat : \E s \in SUBSET S : Cardinality(s) = n /\ Fails(s)}
<1>1. \A s \in SUBSET S : IsFiniteSet(s) /\ Cardinality(s) \in Nat /\ SumFunctionOnSet(f, s) \in Int
  BY FS_Subset, FS_CardinalityType, SumType
<1>2. bad = {}
  <2> SUFFICES ASSUME bad # {} PROVE FALSE
    OBVIOUS
  <2>1. PICK m \in bad : \A n \in bad : m <= n
    BY Least
  <2>2. PICK s \in SUBSET S : Cardinality(s) = m /\ Fails(s)
    BY <2>1
  <2>3. PICK x \in s : SumFunctionOnSet(f, s) # f[x] + SumFunctionOnSet(f, s \ {x})
    BY <2>2
  <2>4. IsFiniteSet(s)
    BY <1>1
  <2>5. PICK c \in s : SumFunctionOnSet(f, s) = f[c] + SumFunctionOnSet(f, s \ {c})
    BY <2>3, <2>4, SumOfFirst
  <2>6. c # x /\ x \in s \ {c} /\ c \in s \ {x}
    BY <2>3, <2>5
  <2>7. /\ s \ {x} \in SUBSET S /\ Cardinality(s \ {x}) = m - 1 /\ m - 1 \in Nat
        /\ s \ {c} \in SUBSET S /\ Cardinality(s \ {c}) = m - 1
    BY <2>2, <2>3, <2>4, <2>5, OneLess
  <2>8. m - 1 \notin bad
    BY <2>1, <2>7
  <2>9. ~Fails(s \ {x}) /\ ~Fails(s \ {c})
    <3> HIDE DEF Fails
    <3> QED
      BY <2>7, <2>8
  <2>10. /\ SumFunctionOnSet(f, s \ {x}) = f[c] + SumFunctionOnSet(f, (s \ {x}) \ {c})
         /\ SumFunctionOnSet(f, s \ {c}) = f[x] + SumFunctionOnSet(f, (s \ {c}) \ {x})
    BY <2>6, <2>9
  <2>11. (s \ {x}) \ {c} = (s \ {c}) \ {x} /\ (s \ {c}) \ {x} \in SUBSET S
    OBVIOUS
  <2> DEFINE rest == SumFunctionOnSet(f, (s \ {c}) \ {x})
  <2>12. f[x] \in Int /\ f[c] \in Int /\ rest \in Int
    BY <1>1, <2>5, <2>11
  <2>13. /\ SumFunctionOnSet(f, s \ {x}) = f[c] + rest
         /\ SumFunctionOnSet(f, s) = f[c] + (f[x] + rest)
    BY <2>5, <2>10, <2>11
  <2> HIDE DEF rest
  <2>14. f[c] + (f[x] + rest) = f[x] + (f[c] + rest)
    BY <2>12
  <2> QED
    BY <2>3, <2>13, <2>14
<1>3. ~Fails(S)
  <2> HIDE DEF Fails
  <2> QED
    BY <1>1, <1>2
<1> QED
  BY <1>3

\* The same sum over functions that agree.
LEMMA SumSame ==
  ASSUME NEW f, NEW g, NEW S, IsFiniteSet(S), \A x \in S : f[x] \in Int /\ g[x] = f[x]
  PROVE  SumFunctionOnSet(g, S) = SumFunctionOnSet(f, S)
<1> DEFINE bad == {n \in Nat : \E s \in SUBSET S : /\ Cardinality(s) = n
                                               /\ SumFunctionOnSet(g, s) # SumFunctionOnSet(f, s)}
<1>1. \A s \in SUBSET S : IsFiniteSet(s) /\ Cardinality(s) \in Nat
  BY FS_Subset, FS_CardinalityType
<1>2. bad = {}
  <2> SUFFICES ASSUME bad # {} PROVE FALSE
    OBVIOUS
  <2>1. PICK m \in bad : \A n \in bad : m <= n
    BY Least
  <2>2. PICK s \in SUBSET S : Cardinality(s) = m /\ SumFunctionOnSet(g, s) # SumFunctionOnSet(f, s)
    BY <2>1
  <2>3. s # {} /\ IsFiniteSet(s)
    BY <1>1, <2>2, SumOfNone
  <2>4. PICK x \in s : TRUE
    BY <2>3
  <2>5. /\ SumFunctionOnSet(f, s) = f[x] + SumFunctionOnSet(f, s \ {x})
        /\ SumFunctionOnSet(g, s) = g[x] + SumFunctionOnSet(g, s \ {x})
    BY <2>3, SumOfOne
  <2>6. s \ {x} \in SUBSET S /\ Cardinality(s \ {x}) = m - 1 /\ m - 1 \in Nat
    BY <2>2, <2>3, OneLess
  <2>7. m - 1 \notin bad
    BY <2>1, <2>6
  <2>8. SumFunctionOnSet(g, s \ {x}) = SumFunctionOnSet(f, s \ {x})
    BY <2>6, <2>7
  <2> QED
    BY <2>2, <2>5, <2>8
<1> QED
  BY <1>1, <1>2

\* Larger terms make a larger sum.
LEMMA SumGrows ==
  ASSUME NEW f, NEW g, NEW S, IsFiniteSet(S),
         \A x \in S : f[x] \in Int /\ g[x] \in Int /\ f[x] <= g[x]
  PROVE  SumFunctionOnSet(f, S) <= SumFunctionOnSet(g, S)
<1> DEFINE bad == {n \in Nat : \E s \in SUBSET S : /\ Cardinality(s) = n
                                               /\ ~(SumFunctionOnSet(f, s) <= SumFunctionOnSet(g, s))}
<1>1. \A s \in SUBSET S : /\ IsFiniteSet(s) /\ Cardinality(s) \in Nat
                         /\ SumFunctionOnSet(f, s) \in Int /\ SumFunctionOnSet(g, s) \in Int
  BY FS_Subset, FS_CardinalityType, SumType
<1>2. bad = {}
  <2> SUFFICES ASSUME bad # {} PROVE FALSE
    OBVIOUS
  <2>1. PICK m \in bad : \A n \in bad : m <= n
    BY Least
  <2>2. PICK s \in SUBSET S : Cardinality(s) = m /\ ~(SumFunctionOnSet(f, s) <= SumFunctionOnSet(g, s))
    BY <2>1
  <2>3. s # {} /\ IsFiniteSet(s)
    BY <1>1, <2>2, SumOfNone
  <2>4. PICK x \in s : TRUE
    BY <2>3
  <2>5. /\ SumFunctionOnSet(f, s) = f[x] + SumFunctionOnSet(f, s \ {x})
        /\ SumFunctionOnSet(g, s) = g[x] + SumFunctionOnSet(g, s \ {x})
    BY <2>3, SumOfOne
  <2>6. s \ {x} \in SUBSET S /\ Cardinality(s \ {x}) = m - 1 /\ m - 1 \in Nat
    BY <2>2, <2>3, OneLess
  <2>7. m - 1 \notin bad
    BY <2>1, <2>6
  <2>8. /\ SumFunctionOnSet(f, s \ {x}) <= SumFunctionOnSet(g, s \ {x})
        /\ SumFunctionOnSet(f, s \ {x}) \in Int /\ SumFunctionOnSet(g, s \ {x}) \in Int
        /\ f[x] \in Int /\ g[x] \in Int /\ f[x] <= g[x]
    BY <1>1, <2>6, <2>7
  <2>9. f[x] + SumFunctionOnSet(f, s \ {x}) <= g[x] + SumFunctionOnSet(g, s \ {x})
    BY <2>8
  <2> QED
    BY <2>2, <2>5, <2>9
<1> QED
  BY <1>1, <1>2

\* One term more.
LEMMA SumOfMore ==
  ASSUME NEW f, NEW S, IsFiniteSet(S), NEW e, e \notin S, \A x \in S \cup {e} : f[x] \in Int
  PROVE  SumFunctionOnSet(f, S \cup {e}) = f[e] + SumFunctionOnSet(f, S)
<1>1. IsFiniteSet(S \cup {e}) /\ (S \cup {e}) \ {e} = S /\ e \in S \cup {e}
  BY FS_AddElement
<1>2. SumFunctionOnSet(f, S \cup {e}) = f[e] + SumFunctionOnSet(f, (S \cup {e}) \ {e})
  BY <1>1, SumOfOne
<1> QED
  BY <1>1, <1>2

\* Two functions that differ in one place: so do their sums.
LEMMA SumChanged ==
  ASSUME NEW f, NEW g, NEW S, IsFiniteSet(S), NEW e \in S,
         \A x \in S : f[x] \in Int /\ g[x] \in Int, \A x \in S \ {e} : g[x] = f[x]
  PROVE  SumFunctionOnSet(g, S) = SumFunctionOnSet(f, S) + g[e] - f[e]
<1>1. /\ SumFunctionOnSet(f, S) = f[e] + SumFunctionOnSet(f, S \ {e})
      /\ SumFunctionOnSet(g, S) = g[e] + SumFunctionOnSet(g, S \ {e})
  BY SumOfOne
<1>2. IsFiniteSet(S \ {e})
  BY FS_RemoveElement
<1>3. SumFunctionOnSet(g, S \ {e}) = SumFunctionOnSet(f, S \ {e})
  BY <1>2, SumSame
<1>4. SumFunctionOnSet(f, S \ {e}) \in Int /\ f[e] \in Int /\ g[e] \in Int
  BY <1>2, SumType
<1> QED
  BY <1>1, <1>3, <1>4

\* Terms that are not negative: a part sums to no more than the whole.
LEMMA SumOfPart ==
  ASSUME NEW f, NEW S, IsFiniteSet(S), \A x \in S : f[x] \in Nat, NEW T \in SUBSET S
  PROVE  SumFunctionOnSet(f, T) <= SumFunctionOnSet(f, S)
<1> DEFINE part(s) == SumFunctionOnSet(f, s \cap T)
           whole(s) == SumFunctionOnSet(f, s)
           bad == {n \in Nat : \E s \in SUBSET S : Cardinality(s) = n /\ ~(part(s) <= whole(s))}
<1>1. \A s \in SUBSET S : IsFiniteSet(s) /\ Cardinality(s) \in Nat /\ SumFunctionOnSet(f, s) \in Nat
  BY FS_Subset, FS_CardinalityType, SumType
<1>2. bad = {}
  <2> SUFFICES ASSUME bad # {} PROVE FALSE
    OBVIOUS
  <2>1. PICK m \in bad : \A n \in bad : m <= n
    BY Least
  <2>2. PICK s \in SUBSET S : Cardinality(s) = m /\ ~(part(s) <= whole(s))
    BY <2>1
  <2>3. s # {} /\ IsFiniteSet(s)
    <3>1. part({}) = 0 /\ whole({}) = 0
      <4>1. {} \cap T = {}
        OBVIOUS
      <4> QED
        BY <4>1, SumOfNone
    <3> QED
      BY <1>1, <2>2, <3>1
  <2>4. PICK x \in s : TRUE
    BY <2>3
  <2>5. whole(s) = f[x] + whole(s \ {x}) /\ f[x] \in Nat
    BY <2>3, SumOfOne
  <2>6. part(s) = part(s \ {x}) \/ part(s) = f[x] + part(s \ {x})
    <3>1. CASE x \in T
      <4>1. IsFiniteSet(s \cap T) /\ x \in s \cap T /\ \A y \in s \cap T : f[y] \in Int
        BY <1>1, <3>1
      <4>2. SumFunctionOnSet(f, s \cap T) = f[x] + SumFunctionOnSet(f, (s \cap T) \ {x})
        BY <4>1, SumOfOne
      <4>3. (s \cap T) \ {x} = (s \ {x}) \cap T
        OBVIOUS
      <4> QED
        BY <4>2, <4>3
    <3>2. CASE x \notin T
      <4>1. s \cap T = (s \ {x}) \cap T
        BY <3>2
      <4> QED
        BY <4>1
    <3> QED
      BY <3>1, <3>2
  <2>7. s \ {x} \in SUBSET S /\ Cardinality(s \ {x}) = m - 1 /\ m - 1 \in Nat
    BY <2>2, <2>3, OneLess
  <2>8. m - 1 \notin bad
    <3>1. m \in Nat
      BY <2>1
    <3> HIDE DEF bad
    <3> QED
      BY <2>1, <3>1
  <2>9. part(s \ {x}) <= whole(s \ {x}) /\ part(s \ {x}) \in Nat /\ whole(s \ {x}) \in Nat
    <3>1. (s \ {x}) \cap T \in SUBSET S
      OBVIOUS
    <3> QED
      BY <1>1, <2>7, <2>8, <3>1
  <2> HIDE DEF part, whole
  <2>10. part(s) <= whole(s)
    BY <2>5, <2>6, <2>9
  <2> QED
    BY <2>2, <2>10
<1>3. Cardinality(S) \in Nat /\ S \cap T = T
  BY <1>1
<1> QED
  BY <1>2, <1>3

\* The sum over two sets without a common element.
LEMMA SumOfTwo ==
  ASSUME NEW f, NEW S, IsFiniteSet(S), NEW T, IsFiniteSet(T), S \cap T = {},
         \A x \in S \cup T : f[x] \in Int
  PROVE  SumFunctionOnSet(f, S \cup T) = SumFunctionOnSet(f, S) + SumFunctionOnSet(f, T)
<1> DEFINE both(s) == SumFunctionOnSet(f, S \cup s)
           one(s) == SumFunctionOnSet(f, s)
           base == SumFunctionOnSet(f, S)
           bad == {n \in Nat : \E s \in SUBSET T : Cardinality(s) = n /\ both(s) # base + one(s)}
<1>1. \A s \in SUBSET T : IsFiniteSet(s) /\ Cardinality(s) \in Nat /\ IsFiniteSet(S \cup s)
  BY FS_Subset, FS_CardinalityType, FS_Union
<1>2. \A s \in SUBSET T : one(s) \in Int /\ both(s) \in Int
  <2> SUFFICES ASSUME NEW s \in SUBSET T PROVE one(s) \in Int /\ both(s) \in Int
    OBVIOUS
  <2>1. /\ IsFiniteSet(s) /\ IsFiniteSet(S \cup s)
        /\ \A x \in s : f[x] \in Int
        /\ \A x \in S \cup s : f[x] \in Int
    BY <1>1
  <2> QED
    BY <2>1, SumType
<1>3. base \in Int
  <2>1. \A x \in S : f[x] \in Int
    OBVIOUS
  <2> QED
    BY <2>1, SumType
<1>4. bad = {}
  <2> SUFFICES ASSUME bad # {} PROVE FALSE
    OBVIOUS
  <2>1. PICK m \in bad : \A n \in bad : m <= n
    BY Least
  <2>2. PICK s \in SUBSET T : Cardinality(s) = m /\ both(s) # base + one(s)
    BY <2>1
  <2>3. s # {} /\ IsFiniteSet(s)
    <3>1. one({}) = 0 /\ both({}) = base
      <4>1. S \cup {} = S
        OBVIOUS
      <4> QED
        BY <4>1, SumOfNone
    <3> QED
      BY <1>1, <1>3, <2>2, <3>1
  <2>4. PICK x \in s : TRUE
    BY <2>3
  <2>5. one(s) = f[x] + one(s \ {x}) /\ f[x] \in Int
    <3>1. \A y \in s : f[y] \in Int
      OBVIOUS
    <3> QED
      BY <2>3, <3>1, SumOfOne
  <2>6. both(s) = f[x] + both(s \ {x})
    <3>1. (S \cup s) \ {x} = S \cup (s \ {x}) /\ x \in S \cup s
      OBVIOUS
    <3>2. \A y \in S \cup s : f[y] \in Int
      OBVIOUS
    <3>3. IsFiniteSet(S \cup s)
      BY <1>1
    <3>4. SumFunctionOnSet(f, S \cup s) = f[x] + SumFunctionOnSet(f, (S \cup s) \ {x})
      BY <3>1, <3>2, <3>3, SumOfOne
    <3> QED
      BY <3>1, <3>4
  <2>7. s \ {x} \in SUBSET T /\ Cardinality(s \ {x}) = m - 1 /\ m - 1 \in Nat
    BY <2>2, <2>3, OneLess
  <2>8. m - 1 \notin bad
    <3>1. m \in Nat
      BY <2>1
    <3> HIDE DEF bad
    <3> QED
      BY <2>1, <3>1
  <2>9. both(s \ {x}) = base + one(s \ {x}) /\ one(s \ {x}) \in Int
    BY <1>2, <2>7, <2>8
  <2> HIDE DEF both, one, base
  <2>10. both(s) = base + one(s)
    BY <1>3, <2>5, <2>6, <2>9
  <2> QED
    BY <2>2, <2>10
<1>5. Cardinality(T) \in Nat
  BY <1>1
<1> QED
  BY <1>4, <1>5

\* The sum of a sequence and one number more.
LEMMA SumOfAppend ==
  ASSUME NEW R, R = Int \/ R = Nat, NEW s \in Seq(R), NEW n \in R
  PROVE  /\ SumFunction(s) \in R /\ SumFunction(Append(s, n)) = SumFunction(s) + n
<1> DEFINE l == Len(s)
           t == Append(s, n)
<1>1. /\ l \in Nat /\ DOMAIN s = 1 .. l /\ DOMAIN t = (1 .. l) \cup {l + 1} /\ l + 1 \notin 1 .. l
      /\ t[l + 1] = n /\ \A i \in 1 .. l : s[i] \in R /\ t[i] = s[i]
  <2>1. /\ l \in Nat /\ DOMAIN s = 1 .. l /\ \A i \in 1 .. l : s[i] \in R
        /\ DOMAIN t = 1 .. l + 1 /\ t[l + 1] = n /\ \A i \in 1 .. l : t[i] = s[i]
    OBVIOUS
  <2> HIDE DEF t, l
  <2> QED
    BY <2>1
<1> HIDE DEF t, l
<1>2. IsFiniteSet(1 .. l)
  BY <1>1, FS_Interval
<1>3. SumFunctionOnSet(t, (1 .. l) \cup {l + 1}) = t[l + 1] + SumFunctionOnSet(t, 1 .. l)
  <2>1. \A i \in (1 .. l) \cup {l + 1} : t[i] \in Int
    BY <1>1
  <2> QED
    BY <1>1, <1>2, <2>1, SumOfMore
<1>4. SumFunctionOnSet(t, 1 .. l) = SumFunctionOnSet(s, 1 .. l)
  BY <1>1, <1>2, SumSame
<1>5. SumFunctionOnSet(s, 1 .. l) \in R
  BY <1>1, <1>2, SumType
<1> QED
  BY <1>1, <1>3, <1>4, <1>5 DEF SumFunction, t

\* The sum of the steps of a sequence is where it ends.
LEMMA SumOfSteps ==
  ASSUME NEW n \in Nat, NEW f, NEW c, \A i \in 1 .. n : c[i] \in Int,
         n > 0 => f[1] = c[1], \A i \in 2 .. n : f[i] = c[i] - c[i - 1]
  PROVE  /\ n = 0 => SumFunctionOnSet(f, 1 .. n) = 0
         /\ n > 0 => SumFunctionOnSet(f, 1 .. n) = c[n]
<1> DEFINE end(m) == IF m = 0 THEN 0 ELSE c[m]
           sum(m) == SumFunctionOnSet(f, 1 .. m)
           bad == {m \in 0 .. n : sum(m) # end(m)}
<1>1. \A i \in 1 .. n : end(i - 1) \in Int /\ c[i] \in Int /\ f[i] = c[i] - end(i - 1) /\ f[i] \in Int
  <2> SUFFICES ASSUME NEW i \in 1 .. n
               PROVE  end(i - 1) \in Int /\ c[i] \in Int /\ f[i] = c[i] - end(i - 1) /\ f[i] \in Int
    OBVIOUS
  <2>1. i = 1 \/ (i - 1 \in 1 .. n /\ i \in 2 .. n)
    OBVIOUS
  <2>2. CASE i = 1
    BY <2>2
  <2>3. CASE i - 1 \in 1 .. n /\ i \in 2 .. n
    BY <2>3
  <2> QED
    BY <2>1, <2>2, <2>3
<1>2. bad = {}
  <2> SUFFICES ASSUME bad # {} PROVE FALSE
    OBVIOUS
  <2>1. PICK m \in bad : \A j \in bad : m <= j
    <3>1. bad \in SUBSET Nat
      OBVIOUS
    <3> HIDE DEF bad
    <3> QED
      BY <3>1, Least
  <2>2. m # 0
    <3>1. 1 .. 0 = {}
      OBVIOUS
    <3>2. sum(0) = 0 /\ end(0) = 0
      BY <3>1, SumOfNone
    <3> QED
      BY <2>1, <3>2
  <2>3. m \in 1 .. n /\ m - 1 \in 0 .. n /\ m - 1 \notin bad
    BY <2>1, <2>2
  <2>4. sum(m - 1) = end(m - 1)
    BY <2>3
  <2>5. sum(m) = f[m] + sum(m - 1)
    <3> DEFINE T == 1 .. m
    <3>1. IsFiniteSet(T) /\ m \in T /\ \A i \in T : f[i] \in Int
      BY <1>1, <2>3, FS_Interval
    <3>2. SumFunctionOnSet(f, T) = f[m] + SumFunctionOnSet(f, T \ {m})
      <4> HIDE DEF T, bad, sum, end
      <4>1. ASSUME NEW S, IsFiniteSet(S), \A i \in S : f[i] \in Int, NEW e \in S
            PROVE  SumFunctionOnSet(f, S) = f[e] + SumFunctionOnSet(f, S \ {e})
        BY <4>1, SumOfOne
      <4> QED
        BY <3>1, <4>1
    <3>3. T \ {m} = 1 .. m - 1
      BY <2>3
    <3> QED
      BY <3>2, <3>3
  <2>6. sum(m) = c[m]
    <3> HIDE DEF end, sum
    <3> QED
      BY <1>1, <2>3, <2>4, <2>5
  <2> QED
    BY <2>1, <2>2, <2>6
<1> QED
  BY <1>2

\* A finite set of integers that is not empty has a least element, and a
\* greatest.
LEMMA FiniteMin ==
  ASSUME NEW S \in SUBSET Int, IsFiniteSet(S), S # {}
  PROVE  \E m \in S : \A n \in S : m <= n
<1> DEFINE HasMin(s) == \E m \in s : \A n \in s : m <= n
           bad == {n \in Nat : \E s \in SUBSET S : Cardinality(s) = n /\ s # {} /\ ~HasMin(s)}
<1>1. \A s \in SUBSET S : IsFiniteSet(s) /\ Cardinality(s) \in Nat
  BY FS_Subset, FS_CardinalityType
<1>2. bad = {}
  <2> SUFFICES ASSUME bad # {} PROVE FALSE
    OBVIOUS
  <2>1. PICK m \in bad : \A n \in bad : m <= n
    BY Least
  <2>2. PICK s \in SUBSET S : Cardinality(s) = m /\ s # {} /\ ~HasMin(s)
    BY <2>1
  <2>3. PICK x \in s : TRUE
    BY <2>2
  <2>4. s \ {x} \in SUBSET S /\ Cardinality(s \ {x}) = m - 1 /\ m - 1 \in Nat
    BY <1>1, <2>2, OneLess
  <2>5. m - 1 \notin bad
    <3>1. m \in Nat
      BY <2>1
    <3> HIDE DEF bad
    <3> QED
      BY <2>1, <3>1
  <2>6. s \ {x} = {} \/ HasMin(s \ {x})
    BY <2>4, <2>5
  <2>7. CASE s \ {x} = {}
    <3>1. \A n \in s : x <= n
      BY <2>7
    <3> QED
      BY <2>2, <3>1
  <2>8. CASE HasMin(s \ {x})
    <3>1. PICK y \in s \ {x} : \A n \in s \ {x} : y <= n
      BY <2>8
    <3>2. CASE x <= y
      <4>1. \A n \in s : x <= n
        BY <3>1, <3>2
      <4> QED
        BY <2>2, <4>1
    <3>3. CASE y <= x
      <4>1. \A n \in s : y <= n
        BY <3>1, <3>3
      <4> QED
        BY <2>2, <4>1
    <3> QED
      BY <3>2, <3>3
  <2> QED
    BY <2>6, <2>7, <2>8
<1>3. Cardinality(S) \in Nat
  BY <1>1
<1> QED
  BY <1>2, <1>3

LEMMA FiniteMax ==
  ASSUME NEW S \in SUBSET Int, IsFiniteSet(S), S # {}
  PROVE  \E m \in S : \A n \in S : n <= m
<1> DEFINE N == {0 - x : x \in S}
           f == [x \in S |-> 0 - x]
<1>1. IsFiniteSet(N)
  <2>1. f \in [S -> N] /\ \A y \in N : \E x \in S : f[x] = y
    OBVIOUS
  <2>2. f \in Surjection(S, N)
    BY <2>1 DEF Surjection
  <2> QED
    BY <2>2, FS_Surjection
<1>2. N \in SUBSET Int /\ N # {}
  <2>1. \A x \in S : 0 - x \in Int
    OBVIOUS
  <2> QED
    BY <2>1
<1>3. PICK k \in N : \A n \in N : k <= n
  BY <1>1, <1>2, FiniteMin
<1>4. PICK m \in S : k = 0 - m
  OBVIOUS
<1>5. \A n \in S : 0 - m <= 0 - n
  BY <1>3, <1>4
<1> QED
  BY <1>5
=============================================================================
