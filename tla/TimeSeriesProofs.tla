--------------------------- MODULE TimeSeriesProofs ---------------------------
(***************************************************************************)
(* TimeSeries, for any points and any number of seals: every point that    *)
(* was taken is handed out once.  The property is inductive as it stands,  *)
(* given the types; what it takes are the laws of FlattenSeq, which joins  *)
(* the answers of the seals by a function defined by recursion.            *)
(***************************************************************************)
EXTENDS TimeSeries, SumProofs, SequenceTheorems

-----------------------------------------------------------------------------
(* Joined sequences *)

\* The i-th value of g joins the first i of n sequences.
Joins(g, s, n) == g = [i \in 1 .. n |-> IF i = 1 THEN s[i] ELSE g[i - 1] \o s[i]]

LEMMA FlattenByJoins ==
  ASSUME NEW s, Len(s) # 0
  PROVE  FlattenSeq(s) = (CHOOSE g : Joins(g, s, Len(s)))[Len(s)]
BY DEF FlattenSeq, Joins

\* One more sequence can be joined.
LEMMA JoinsSolved == ASSUME NEW s, NEW n \in Nat PROVE \E g : Joins(g, s, n)
<1> DEFINE bad == {m \in Nat : ~\E g : Joins(g, s, m)}
<1>1. \E g : Joins(g, s, 0)
  <2> DEFINE g == [i \in 1 .. 0 |-> s]
  <2>1. g = [i \in 1 .. 0 |-> IF i = 1 THEN s[i] ELSE g[i - 1] \o s[i]]
    OBVIOUS
  <2> HIDE DEF g
  <2> QED
    BY <2>1 DEF Joins
<1>2. ASSUME NEW m \in Nat, NEW g, Joins(g, s, m) PROVE \E h : Joins(h, s, m + 1)
  <2> DEFINE step(f, i) == IF i = 1 THEN s[i] ELSE f[i - 1] \o s[i]
             h == [i \in 1 .. m + 1 |-> IF i <= m THEN g[i] ELSE step(g, i)]
  <2>1. \A i \in 1 .. m : g[i] = step(g, i)
    BY <1>2 DEF Joins
  <2>2. \A i \in 1 .. m + 1 : i # 1 => h[i - 1] = g[i - 1]
    OBVIOUS
  <2>3. \A i \in 1 .. m + 1 : h[i] = step(g, i)
    BY <2>1
  <2>4. \A i \in 1 .. m + 1 : h[i] = step(h, i)
    BY <2>2, <2>3
  <2>5. h = [i \in 1 .. m + 1 |-> h[i]]
    OBVIOUS
  <2> HIDE DEF h
  <2>6. h = [i \in 1 .. m + 1 |-> step(h, i)]
    BY <2>4, <2>5
  <2> QED
    BY <2>6 DEF Joins
<1>3. bad = {}
  <2> SUFFICES ASSUME bad # {} PROVE FALSE
    OBVIOUS
  <2>1. PICK m \in bad : \A k \in bad : m <= k
    <3>1. bad \in SUBSET Nat
      OBVIOUS
    <3> HIDE DEF bad
    <3> QED
      BY <3>1, Least
  <2>2. m \in Nat /\ m # 0
    BY <1>1
  <2>3. m - 1 \in Nat /\ m - 1 \notin bad /\ (m - 1) + 1 = m
    BY <2>1, <2>2
  <2>4. \E h : Joins(h, s, (m - 1) + 1)
    BY <1>2, <2>3
  <2> QED
    BY <2>3, <2>4
<1> QED
  BY <1>3

\* The first sequences are joined in the same way whatever comes behind them.
LEMMA JoinsAgree ==
  ASSUME NEW s, NEW t, NEW m \in Nat, NEW n \in Nat, n <= m, \A i \in 1 .. n : s[i] = t[i],
         NEW g, NEW h, Joins(g, s, n), Joins(h, t, m)
  PROVE  \A i \in 1 .. n : g[i] = h[i]
<1> DEFINE bad == {i \in Nat : i \in 1 .. n /\ g[i] # h[i]}
<1> SUFFICES ASSUME bad # {} PROVE FALSE
  OBVIOUS
<1>1. PICK k \in bad : \A i \in bad : k <= i
  <2>1. bad \in SUBSET Nat
    OBVIOUS
  <2> HIDE DEF bad
  <2> QED
    BY <2>1, Least
<1>2. k \in 1 .. n /\ k \in 1 .. m /\ g[k] # h[k]
  OBVIOUS
<1>3. /\ g[k] = IF k = 1 THEN s[k] ELSE g[k - 1] \o s[k]
      /\ h[k] = IF k = 1 THEN t[k] ELSE h[k - 1] \o t[k]
  BY <1>2 DEF Joins
<1>4. CASE k = 1
  BY <1>2, <1>3, <1>4
<1>5. CASE k # 1
  <2>1. k - 1 \in Nat /\ k - 1 \in 1 .. n /\ ~(k <= k - 1)
    BY <1>2, <1>5
  <2>2. g[k - 1] = h[k - 1]
    BY <1>1, <2>1
  <2> QED
    BY <1>2, <1>3, <1>5, <2>2
<1> QED
  BY <1>4, <1>5

\* FlattenSeq of one sequence more.
LEMMA FlattenAppend ==
  ASSUME NEW S, NEW s \in Seq(Seq(S)), NEW x \in Seq(S)
  PROVE  FlattenSeq(Append(s, x)) = FlattenSeq(s) \o x
<1> DEFINE n == Len(s)
           t == Append(s, x)
           h == CHOOSE h : Joins(h, t, n + 1)
<1>1. n \in Nat /\ Len(t) = n + 1 /\ t[n + 1] = x /\ \A i \in 1 .. n : s[i] = t[i]
  <2>1. n \in Nat
    BY LenProperties
  <2> HIDE DEF n
  <2>2. Len(t) = n + 1 /\ t[n + 1] = x /\ \A i \in 1 .. n : t[i] = s[i]
    BY <2>1 DEF n
  <2> QED
    BY <2>1, <2>2
<1>2. Joins(h, t, n + 1)
  <2> DEFINE k == n + 1
  <2>1. k \in Nat
    BY <1>1
  <2> HIDE DEF k, t, n
  <2>2. \E g : Joins(g, t, k)
    BY <2>1, JoinsSolved
  <2> QED
    BY <2>2 DEF k
<1> HIDE DEF t
<1>3. FlattenSeq(t) = h[n + 1]
  <2>1. Len(t) # 0
    BY <1>1
  <2> QED
    BY <1>1, <2>1, FlattenByJoins
<1> HIDE DEF h
<1>4. h[n + 1] = IF n = 0 THEN x ELSE h[n] \o x
  <2>1. n + 1 \in 1 .. n + 1 /\ (n + 1) - 1 = n /\ (n + 1 = 1 <=> n = 0)
    BY <1>1
  <2> QED
    BY <1>1, <1>2, <2>1 DEF Joins
<1>5. CASE n = 0
  <2>1. s = <<>>
    BY <1>5, EmptySeq
  <2>2. FlattenSeq(s) = <<>>
    BY <1>5, <2>1 DEF FlattenSeq
  <2>3. <<>> \o x = x
    BY ConcatEmptySeq
  <2>4. FlattenSeq(t) = x
    BY <1>3, <1>4, <1>5
  <2> QED
    BY <2>2, <2>3, <2>4 DEF t
<1>6. CASE n # 0
  <2> DEFINE g == CHOOSE g : Joins(g, s, n)
  <2>1. Joins(g, s, n)
    <3>1. \E f : Joins(f, s, n)
      BY <1>1, JoinsSolved
    <3> QED
      BY <3>1
  <2>2. FlattenSeq(s) = g[n]
    BY <1>6, FlattenByJoins
  <2> HIDE DEF g
  <2>3. g[n] = h[n]
    <3> DEFINE k == n + 1
    <3>1. n \in Nat /\ k \in Nat /\ n <= k /\ n \in 1 .. n
      BY <1>1, <1>6
    <3>2. \A i \in 1 .. n : s[i] = t[i]
      BY <1>1
    <3>3. Joins(h, t, k)
      BY <1>2
    <3> HIDE DEF k, n
    <3>4. \A i \in 1 .. n : g[i] = h[i]
      BY <2>1, <3>1, <3>2, <3>3, JoinsAgree
    <3> QED
      BY <3>1, <3>4
  <2> QED
    BY <1>3, <1>4, <1>6, <2>2, <2>3 DEF t
<1> QED
  BY <1>5, <1>6

-----------------------------------------------------------------------------
(* The invariant *)

PointsOf(block) == IF block = Nil THEN <<>> ELSE block

\* The points that these answers hand out, one sequence for each.
PointsOfEach(blocks) == [i \in DOMAIN blocks |-> IF blocks[i] = Nil THEN <<>> ELSE blocks[i]]

SeriesTypeOK ==
  /\ current_block \in Seq(Points) \cup {Nil}
  /\ kept \in Seq(Points)
  /\ sealed \in Seq(Seq(Points) \cup {Nil})
  /\ Handed \in Seq(Points)

LEMMA PointsOfType ==
  ASSUME NEW block \in Seq(Points) \cup {Nil}
  PROVE  PointsOf(block) \in Seq(Points)
<1>1. <<>> \in Seq(Points)
  BY EmptySeq
<1> QED
  BY <1>1 DEF PointsOf

\* What an answer adds to the points that are handed out.
LEMMA HandedMore ==
  ASSUME NEW blocks \in Seq(Seq(Points) \cup {Nil}), NEW block \in Seq(Points) \cup {Nil}
  PROVE  FlattenSeq(PointsOfEach(Append(blocks, block)))
           = FlattenSeq(PointsOfEach(blocks)) \o PointsOf(block)
<1> DEFINE B == Seq(Points) \cup {Nil}
           n == Len(blocks)
           s == PointsOfEach(blocks)
           t == PointsOfEach(Append(blocks, block))
           x == PointsOf(block)
<1>1. n \in Nat /\ DOMAIN blocks = 1 .. n
  BY LenProperties
<1>2. \A i \in 1 .. n : blocks[i] \in B
  BY ElementOfSeq
<1>3. /\ Append(blocks, block) \in Seq(B) /\ Len(Append(blocks, block)) = n + 1
      /\ Append(blocks, block)[n + 1] = block
      /\ \A i \in 1 .. n : Append(blocks, block)[i] = blocks[i]
  BY AppendProperties
<1>4. DOMAIN Append(blocks, block) = 1 .. n + 1
  BY <1>3, LenProperties
<1>5. x \in Seq(Points)
  BY PointsOfType
<1> HIDE DEF n
<1>6. \A i \in 1 .. n : PointsOf(blocks[i]) \in Seq(Points)
  BY <1>2, PointsOfType
<1>7. s = [i \in 1 .. n |-> PointsOf(blocks[i])]
  BY <1>1 DEF PointsOfEach, PointsOf
<1>8. s \in Seq(Seq(Points)) /\ Len(s) = n
  BY <1>1, <1>6, <1>7
<1>9. t = [i \in 1 .. n + 1 |-> PointsOf(Append(blocks, block)[i])]
  BY <1>4 DEF PointsOfEach, PointsOf
<1>10. t = Append(s, x)
  <2> HIDE DEF s
  <2>1. \A i \in 1 .. n + 1 : PointsOf(Append(blocks, block)[i]) = IF i <= n THEN s[i] ELSE x
    <3>1. \A i \in 1 .. n : s[i] = PointsOf(blocks[i])
      BY <1>7
    <3>2. \A i \in 1 .. n + 1 : (i <= n => i \in 1 .. n) /\ (~(i <= n) => i = n + 1)
      BY <1>1
    <3> QED
      BY <1>3, <3>1, <3>2
  <2>2. t = [i \in 1 .. n + 1 |-> IF i <= n THEN s[i] ELSE x]
    <3> HIDE DEF x, t
    <3> QED
      BY <1>9, <2>1
  <2> DEFINE u == Append(s, x)
  <2>3. /\ u \in Seq(Seq(Points)) /\ Len(u) = n + 1 /\ u[n + 1] = x
        /\ \A i \in 1 .. n : u[i] = s[i]
    <3> HIDE DEF x
    <3> QED
      BY <1>5, <1>8, AppendProperties
  <2> HIDE DEF x, t, u
  <2>4. u = [i \in 1 .. n + 1 |-> u[i]]
    BY <2>3, LenProperties
  <2>5. \A i \in 1 .. n + 1 : u[i] = IF i <= n THEN s[i] ELSE x
    <3>1. \A i \in 1 .. n + 1 : (i <= n => i \in 1 .. n) /\ (~(i <= n) => i = n + 1)
      BY <1>1
    <3> QED
      BY <2>3, <3>1
  <2>6. t = u
    BY <2>2, <2>4, <2>5
  <2> QED
    BY <2>6 DEF u
<1> HIDE DEF s, t, x
<1>11. FlattenSeq(Append(s, x)) = FlattenSeq(s) \o x
  BY <1>5, <1>8, FlattenAppend
<1> QED
  BY <1>10, <1>11 DEF s, t, x

-----------------------------------------------------------------------------
(* The theorem *)

SeriesInv == SeriesTypeOK /\ PointsHandedOnce

LEMMA HandedForm == Handed = FlattenSeq(PointsOfEach(sealed)) /\ CurrentPoints = PointsOf(current_block)
BY DEF Handed, PointsOfEach, CurrentPoints, PointsOf

LEMMA SeriesInit == ASSUME Init PROVE SeriesInv
<1>1. <<>> \in Seq(Points) /\ \A p \in Points : <<p>> \in Seq(Points)
  BY EmptySeq
<1>2. current_block \in Seq(Points) \cup {Nil}
  BY <1>1 DEF Init, New, Copy
<1>3. CurrentPoints \in Seq(Points)
  BY <1>2, PointsOfType, HandedForm
<1>4. sealed = <<>> /\ kept = CurrentPoints
  BY DEF Init
<1>5. sealed \in Seq(Seq(Points) \cup {Nil}) /\ DOMAIN sealed = 1 .. 0
  BY <1>4, EmptySeq, LenProperties
<1>6. Handed = <<>>
  <2>1. PointsOfEach(sealed) = [i \in 1 .. 0 |-> Nil]
    BY <1>5 DEF PointsOfEach
  <2>2. PointsOfEach(sealed) = <<>> /\ Len(PointsOfEach(sealed)) = 0
    BY <2>1
  <2> QED
    BY <2>2, HandedForm DEF FlattenSeq
<1>7. <<>> \o CurrentPoints = CurrentPoints
  BY <1>3, ConcatEmptySeq
<1> QED
  BY <1>1, <1>2, <1>3, <1>4, <1>5, <1>6, <1>7 DEF SeriesInv, SeriesTypeOK, PointsHandedOnce

\* A point goes to the end of the open block, or is ignored.
LEMMA SeriesAdd == ASSUME SeriesInv, NEW p \in Points, add_point(p) PROVE SeriesInv'
<1>1. sealed' = sealed /\ Handed' = Handed
  BY DEF add_point, Handed
<1>2. CASE current_block = Nil
  <2>1. current_block' = current_block /\ kept' = kept
    BY <1>2 DEF add_point
  <2> QED
    BY <1>1, <2>1 DEF SeriesInv, SeriesTypeOK, PointsHandedOnce, CurrentPoints
<1>3. CASE current_block # Nil
  <2> DEFINE h == Handed
             c == current_block
  <2>1. c' = Append(c, p) /\ kept' = Append(kept, p)
    BY <1>3 DEF add_point
  <2>2. h \in Seq(Points) /\ c \in Seq(Points) /\ kept = h \o c /\ kept \in Seq(Points)
    BY <1>3 DEF SeriesInv, SeriesTypeOK, PointsHandedOnce, CurrentPoints
  <2>3. Append(c, p) \in Seq(Points) /\ Append(kept, p) \in Seq(Points)
    BY <2>2, AppendProperties
  <2>4. CurrentPoints' = Append(c, p)
    BY <2>1, <2>3, NilAssumption DEF CurrentPoints
  <2>5. Append(h \o c, p) = h \o Append(c, p)
    <3> HIDE DEF h, c
    <3>1. <<p>> \in Seq(Points) /\ h \o c \in Seq(Points)
      BY <2>2, ConcatProperties
    <3>2. Append(h \o c, p) = (h \o c) \o <<p>> /\ Append(c, p) = c \o <<p>>
      BY <2>2, <3>1, AppendIsConcat
    <3>3. (h \o c) \o <<p>> = h \o (c \o <<p>>)
      BY <2>2, <3>1, ConcatAssociative
    <3> QED
      BY <3>2, <3>3
  <2> HIDE DEF h
  <2>6. kept' = h \o CurrentPoints'
    BY <2>1, <2>2, <2>4, <2>5
  <2> QED
    BY <1>1, <2>1, <2>3, <2>6 DEF SeriesInv, SeriesTypeOK, PointsHandedOnce, h
<1> QED
  BY <1>2, <1>3

\* The open block is handed out, and the next one is empty or there is none.
LEMMA SeriesSeal == ASSUME SeriesInv, seal_current_block PROVE SeriesInv'
<1> DEFINE c == CurrentPoints
<1>1. /\ sealed' = Append(sealed, current_block) /\ kept' = kept
      /\ current_block' = IF c = <<>> THEN Nil ELSE <<>>
  BY DEF seal_current_block
<1>2. /\ current_block \in Seq(Points) \cup {Nil} /\ kept \in Seq(Points)
      /\ sealed \in Seq(Seq(Points) \cup {Nil}) /\ Handed \in Seq(Points)
      /\ kept = Handed \o c
  BY DEF SeriesInv, SeriesTypeOK, PointsHandedOnce
<1>3. c \in Seq(Points)
  BY <1>2, PointsOfType, HandedForm
<1>4. Handed' = Handed \o c
  <2>1. FlattenSeq(PointsOfEach(Append(sealed, current_block)))
          = FlattenSeq(PointsOfEach(sealed)) \o PointsOf(current_block)
    BY <1>2, HandedMore
  <2>2. Handed' = FlattenSeq(PointsOfEach(sealed'))
    BY DEF Handed, PointsOfEach
  <2> QED
    BY <1>1, <2>1, <2>2, HandedForm
<1>5. <<>> \in Seq(Points)
  BY EmptySeq
<1>6. current_block' \in Seq(Points) \cup {Nil} /\ CurrentPoints' = <<>>
  BY <1>1, <1>5 DEF CurrentPoints
<1>7. sealed' \in Seq(Seq(Points) \cup {Nil})
  BY <1>1, <1>2, AppendProperties
<1>8. kept \o <<>> = kept
  BY <1>2, ConcatEmptySeq
<1> HIDE DEF c
<1> QED
  BY <1>1, <1>2, <1>4, <1>6, <1>7, <1>8 DEF SeriesInv, SeriesTypeOK, PointsHandedOnce

\* TimeSeries: however add_point and seal_current_block alternate, each point
\* that was taken by the open block is in one answer or in the block still, in
\* the order of the calls.
THEOREM EachPointHandedOnce == Spec => []PointsHandedOnce
<1>1. Init => SeriesInv
  BY SeriesInit
<1>2. SeriesInv /\ [Next]_vars => SeriesInv'
  <2> SUFFICES ASSUME SeriesInv, [Next]_vars PROVE SeriesInv'
    OBVIOUS
  <2>1. CASE \E p \in Points : add_point(p)
    BY <2>1, SeriesAdd
  <2>2. CASE seal_current_block
    BY <2>2, SeriesSeal
  <2>3. CASE UNCHANGED vars
    BY <2>3 DEF vars, SeriesInv, SeriesTypeOK, PointsHandedOnce, Handed, CurrentPoints
  <2> QED
    BY <2>1, <2>2, <2>3 DEF Next
<1>3. SeriesInv => PointsHandedOnce
  BY DEF SeriesInv
<1> QED
  BY <1>1, <1>2, <1>3, PTL DEF Spec
=============================================================================
