--------------------------- MODULE Scoring_proofs ---------------------------
(* The proofs about the pure algorithms: the comparison of result sets, the    *)
(* scores and the harvest, for tables and stores of any length.  Induction is  *)
(* by the least number that fails, and over the subsets of a finite set: no    *)
(* theorem of the library that takes an operator is used.  The folds the       *)
(* algorithms are written with are shown to unfold as loops do.                *)
EXTENDS Metric, Harvest, FiniteSetTheorems, SequenceTheorems, WellFoundedInduction, TLAPS

\* A set of numbers has a least one.
LEMMA LeastNumber ==
  ASSUME NEW T, T \subseteq Nat, T # {}
  PROVE  \E n \in T : \A m \in T : n <= m
  <1> DEFINE below == {ss \in Nat \X Nat : ss[1] < ss[2]}
  <1>1. IsWellFoundedOn(below, Nat)
    BY NatLessThanWellFounded, Zenon DEF OpToRel
  <1>2. \E n \in T : \A m \in T : ~(<<m, n>> \in below)
    <2>. HIDE DEF below
    <2>. QED
      BY <1>1, WFMin, Zenon
  <1>3. \A m, n \in Nat : m < n => <<m, n>> \in below
    OBVIOUS
  <1>. HIDE DEF below
  <1>4. PICK n \in T : \A m \in T : ~(<<m, n>> \in below)
    BY <1>2
  <1>5. \A m \in T : n <= m
    <2> SUFFICES ASSUME NEW m \in T PROVE ~(m < n)
      OBVIOUS
    <2>. QED
      BY <1>3, <1>4
  <1>. QED
    BY <1>5

\* What a fold over subsets of S computes, one element at a time.
Folds(g, S, V, base, pick, step) ==
  /\ g \in [SUBSET S -> V]
  /\ \A s \in SUBSET S :
       g[s] = IF s = {} THEN base ELSE step[<<pick[s], g[s \ {pick[s]}]>>]

\* Such a computation exists over any finite set, whatever order it picks in.
LEMMA FoldExists ==
  ASSUME NEW S, IsFiniteSet(S), NEW V, NEW base \in V,
         NEW pick, \A s \in SUBSET S : s # {} => pick[s] \in s,
         NEW step \in [S \X V -> V]
  PROVE  \E g : Folds(g, S, V, base, pick, step)
  <1> DEFINE D(n) == {s \in SUBSET S : Cardinality(s) <= n}
             Upto(g, n) ==
               /\ g \in [D(n) -> V]
               /\ \A s \in D(n) :
                    g[s] = IF s = {} THEN base
                           ELSE step[<<pick[s], g[s \ {pick[s]}]>>]
             Missing == {n \in Nat : ~ \E g : Upto(g, n)}
  <1>1. \A s \in SUBSET S : IsFiniteSet(s) /\ Cardinality(s) \in Nat
    BY FS_Subset, FS_CardinalityType
  <1>2. \A n \in Nat : \A s \in D(n + 1) : s # {} =>
          pick[s] \in S /\ s \ {pick[s]} \in D(n)
    BY <1>1, FS_RemoveElement
  <1>3. \E g : Upto(g, 0)
    <2>1. D(0) = {{}}
      BY <1>1, FS_EmptySet
    <2>2. Upto([s \in D(0) |-> base], 0)
      BY <2>1
    <2>. QED
      BY <2>2
  <1>4. ASSUME NEW n \in Nat, NEW g, Upto(g, n)
        PROVE  \E h : Upto(h, n + 1)
    <2> DEFINE next(s) == IF s = {} THEN base ELSE step[<<pick[s], g[s \ {pick[s]}]>>]
               h == [s \in D(n + 1) |-> next(s)]
    <2>1. \A s \in D(n) : s \in D(n + 1) /\ next(s) = g[s]
      BY <1>1, <1>4
    <2>2. \A s \in D(n + 1) : next(s) \in V
      <3> SUFFICES ASSUME NEW s \in D(n + 1), s # {} PROVE next(s) \in V
        OBVIOUS
      <3>1. pick[s] \in S /\ g[s \ {pick[s]}] \in V
        BY <1>2, <1>4
      <3>. QED
        BY <3>1
    <2>3. \A s \in D(n + 1) : s # {} => h[s \ {pick[s]}] = g[s \ {pick[s]}]
      BY <1>2, <2>1
    <2>4. Upto(h, n + 1)
      BY <2>2, <2>3
    <2>. QED
      BY <2>4
  <1>5. Missing = {}
    <2> SUFFICES ASSUME Missing # {} PROVE FALSE
      OBVIOUS
    <2>. HIDE DEF Upto
    <2>1. PICK n \in Missing : \A m \in Missing : n <= m
      BY LeastNumber
    <2>2. n # 0
      BY <1>3
    <2>3. n - 1 \in Nat /\ n - 1 \notin Missing /\ (n - 1) + 1 = n
      BY <2>1, <2>2
    <2>4. \E g : Upto(g, n - 1)
      BY <2>3
    <2>5. \E h : Upto(h, (n - 1) + 1)
      BY <2>3, <2>4, <1>4
    <2>. QED
      BY <2>3, <2>5
  <1>6. PICK g : Upto(g, Cardinality(S))
    BY <1>5, <1>1
  <1>7. D(Cardinality(S)) = SUBSET S
    BY FS_Subset
  <1>. QED
    BY <1>6, <1>7, Zenon DEF Folds

\* Induction on a set of numbers, and on the subsets of a finite set.
LEMMA NumberInduction ==
  ASSUME NEW T, 0 \in T, \A n \in Nat : n \in T => n + 1 \in T
  PROVE  \A n \in Nat : n \in T
  <1> DEFINE out == {n \in Nat : n \notin T}
  <1> SUFFICES ASSUME out # {} PROVE FALSE
    OBVIOUS
  <1>1. PICK n \in out : \A m \in out : n <= m
    BY LeastNumber
  <1>2. n - 1 \in Nat /\ n - 1 \notin out /\ (n - 1) + 1 = n
    BY <1>1
  <1>. QED
    BY <1>1, <1>2

\* What holds of a set if it does of the set less any element holds of all.
LEMMA SubsetInduction ==
  ASSUME NEW S, IsFiniteSet(S), NEW Q,
         \A s \in SUBSET S : (\A x \in s : s \ {x} \in Q) => s \in Q
  PROVE  \A s \in SUBSET S : s \in Q
  <1> DEFINE size == {n \in Nat : \E s \in SUBSET S : s \notin Q /\ Cardinality(s) = n}
  <1>1. \A s \in SUBSET S : IsFiniteSet(s) /\ Cardinality(s) \in Nat
    BY FS_Subset, FS_CardinalityType
  <1> SUFFICES ASSUME size # {} PROVE FALSE
    BY <1>1
  <1>2. PICK n \in size : \A m \in size : n <= m
    BY LeastNumber
  <1>3. PICK s \in SUBSET S : s \notin Q /\ Cardinality(s) = n
    BY <1>2
  <1>4. ASSUME NEW x \in s PROVE s \ {x} \in Q
    <2>1. Cardinality(s \ {x}) = n - 1 /\ n \in Nat
      BY <1>1, <1>3, FS_RemoveElement
    <2>2. s \ {x} \in SUBSET S /\ n - 1 \in Nat
      BY <1>1, <2>1
    <2>. QED
      BY <1>2, <2>1, <2>2
  <1>. QED
    BY <1>3, <1>4

\* What SumFunction adds up, one element at a time.
LEMMA SumUnfolds ==
  ASSUME NEW f, IsFiniteSet(DOMAIN f), \A i \in DOMAIN f : f[i] \in Nat
  PROVE  \E g : /\ SumFunction(f) = g[DOMAIN f]
                /\ g[{}] = 0
                /\ \A s \in SUBSET DOMAIN f : s # {} =>
                     \E x \in s : g[s] = f[x] + g[s \ {x}]
  <1> DEFINE S == DOMAIN f
             Body(h) == [s \in SUBSET S |->
                           IF s = {} THEN 0
                           ELSE f[CHOOSE x \in s : TRUE]
                                  + h[s \ {CHOOSE x \in s : TRUE}]]
             pick == [s \in SUBSET S |-> CHOOSE x \in s : TRUE]
             step == [p \in S \X Nat |-> f[p[1]] + p[2]]
             g == CHOOSE h : h = Body(h)
  <1>1. \E h : h = Body(h)
    <2>1. \A s \in SUBSET S : s # {} => pick[s] \in s
      OBVIOUS
    <2>2. step \in [S \X Nat -> Nat]
      OBVIOUS
    <2>3. PICK h : Folds(h, S, Nat, 0, pick, step)
      <3>. HIDE DEF pick, step, S
      <3>. QED
        BY <2>1, <2>2, FoldExists DEF S
    <2>4. \A s \in SUBSET S : h[s] = Body(h)[s]
      <3> SUFFICES ASSUME NEW s \in SUBSET S, s # {} PROVE h[s] = Body(h)[s]
        BY <2>3 DEF Folds
      <3>1. pick[s] \in S /\ h[s \ {pick[s]}] \in Nat /\ h[s] = step[<<pick[s], h[s \ {pick[s]}]>>]
        BY <2>1, <2>3 DEF Folds
      <3>. QED
        BY <3>1
    <2>5. h = [s \in SUBSET S |-> h[s]]
      BY <2>3 DEF Folds
    <2>6. h = Body(h)
      BY <2>4, <2>5
    <2>. QED
      BY <2>6, Zenon
  <1>2. g = Body(g)
    <2>. HIDE DEF Body
    <2>. QED
      BY <1>1
  <1>3. SumFunction(f) = g[S]
    BY Zenon DEF SumFunction, SumFunctionOnSet, FoldFunctionOnSet, MapThenFoldSet
  <1>4. \A s \in SUBSET S : s # {} => \E x \in s : g[s] = f[x] + g[s \ {x}]
    <2> HIDE DEF g
    <2> SUFFICES ASSUME NEW s \in SUBSET S, s # {}
                 PROVE  \E x \in s : g[s] = f[x] + g[s \ {x}]
      OBVIOUS
    <2>1. (CHOOSE x \in s : TRUE) \in s
      OBVIOUS
    <2>. QED
      BY <1>2, <2>1
  <1>5. g[{}] = 0
    <2> HIDE DEF g
    <2>. QED
      BY <1>2
  <1>. QED
    BY <1>3, <1>4, <1>5, Zenon

\* A sum of numbers is a number, and of zeros it is zero.
LEMMA SumIsANumber ==
  ASSUME NEW f, IsFiniteSet(DOMAIN f), \A i \in DOMAIN f : f[i] \in Nat
  PROVE  /\ SumFunction(f) \in Nat
         /\ (\A i \in DOMAIN f : f[i] = 0) => SumFunction(f) = 0
  <1>1. PICK g : /\ SumFunction(f) = g[DOMAIN f]
                 /\ g[{}] = 0
                 /\ \A s \in SUBSET DOMAIN f : s # {} =>
                      \E x \in s : g[s] = f[x] + g[s \ {x}]
    BY SumUnfolds
  <1> DEFINE Q == {s \in SUBSET DOMAIN f :
                     /\ g[s] \in Nat
                     /\ (\A i \in DOMAIN f : f[i] = 0) => g[s] = 0}
  <1>2. ASSUME NEW s \in SUBSET DOMAIN f, \A x \in s : s \ {x} \in Q
        PROVE  s \in Q
    <2>1. CASE s = {}
      BY <1>1, <2>1
    <2>2. CASE s # {}
      <3>1. PICK x \in s : g[s] = f[x] + g[s \ {x}]
        BY <1>1, <2>2
      <3>2. s \ {x} \in Q /\ f[x] \in Nat
        BY <1>2
      <3>. QED
        BY <3>1, <3>2
    <2>. QED
      BY <2>1, <2>2
  <1>3. DOMAIN f \in Q
    <2>. HIDE DEF Q
    <2>1. \A s \in SUBSET DOMAIN f : s \in Q
      BY <1>2, SubsetInduction, Zenon
    <2>. QED
      BY <2>1
  <1>. QED
    BY <1>1, <1>3

\* How often the members of a set come in a list: at most its length.
LEMMA TimesIsANumber ==
  ASSUME NEW S, NEW rows \in Seq(S), NEW t
  PROVE  LET at == {i \in DOMAIN rows : rows[i] \in t}
         IN IsFiniteSet(at) /\ Cardinality(at) \in Nat /\ Cardinality(at) <= Len(rows)
  <1>1. DOMAIN rows = 1..Len(rows) /\ Len(rows) \in Nat
    OBVIOUS
  <1>2. IsFiniteSet(1..Len(rows)) /\ Cardinality(1..Len(rows)) = Len(rows)
    BY <1>1, FS_Interval
  <1>3. {i \in DOMAIN rows : rows[i] \in t} \in SUBSET (1..Len(rows))
    BY <1>1
  <1>. QED
    BY <1>2, <1>3, FS_Subset, FS_CardinalityType

\* Counts that are each at most what a list holds of one row add up to at most
\* its length.
LEMMA SumOfSharesIsBounded ==
  ASSUME NEW S, NEW rows \in Seq(S), NEW f, IsFiniteSet(DOMAIN f),
         \A x \in DOMAIN f : f[x] \in Nat /\ f[x] <= Times(rows, x)
  PROVE  SumFunction(f) <= Len(rows)
  <1> DEFINE At(t) == {i \in DOMAIN rows : rows[i] \in t}
  <1>1. PICK g : /\ SumFunction(f) = g[DOMAIN f]
                 /\ g[{}] = 0
                 /\ \A t \in SUBSET DOMAIN f : t # {} =>
                      \E x \in t : g[t] = f[x] + g[t \ {x}]
    BY SumUnfolds
  <1>2. \A t : IsFiniteSet(At(t)) /\ Cardinality(At(t)) \in Nat /\ Cardinality(At(t)) <= Len(rows)
    BY TimesIsANumber
  <1> DEFINE Q == {t \in SUBSET DOMAIN f : g[t] \in Nat /\ g[t] <= Cardinality(At(t))}
  <1>3. ASSUME NEW t \in SUBSET DOMAIN f, \A x \in t : t \ {x} \in Q
        PROVE  t \in Q
    <2>1. CASE t = {}
      <3>. HIDE DEF At
      <3>. QED
        BY <1>1, <1>2, <2>1
    <2>2. CASE t # {}
      <3>1. PICK x \in t : g[t] = f[x] + g[t \ {x}]
        BY <1>1, <2>2
      <3>2. g[t \ {x}] \in Nat /\ g[t \ {x}] <= Cardinality(At(t \ {x}))
        BY <1>3
      <3>3. f[x] \in Nat /\ f[x] <= Cardinality(At({x}))
        <4>1. At({x}) = {i \in DOMAIN rows : rows[i] = x}
          OBVIOUS
        <4>. QED
          BY <4>1 DEF Times
      <3>4. Cardinality(At(t)) = Cardinality(At(t \ {x})) + Cardinality(At({x}))
        <4>1. At(t) = At(t \ {x}) \union At({x})
              /\ At(t \ {x}) \intersect At({x}) = {}
          OBVIOUS
        <4>. HIDE DEF At
        <4>2. Cardinality(At(t)) = Cardinality(At(t \ {x})) + Cardinality(At({x})) - Cardinality({})
          BY <1>2, <4>1, FS_Union
        <4>. QED
          BY <1>2, <4>2, FS_EmptySet
      <3>. HIDE DEF At
      <3>. QED
        BY <1>2, <3>1, <3>2, <3>3, <3>4
    <2>. QED
      BY <2>1, <2>2
  <1>4. DOMAIN f \in Q
    <2>. HIDE DEF Q
    <2>1. \A t \in SUBSET DOMAIN f : t \in Q
      BY <1>3, SubsetInduction, Zenon
    <2>. QED
      BY <2>1
  <1>5. SumFunction(f) \in Nat /\ SumFunction(f) <= Cardinality(At(DOMAIN f))
    BY <1>1, <1>4
  <1>. HIDE DEF At
  <1>. QED
    BY <1>2, <1>5

\* Counts of all that a list holds of each row add up to its length.
LEMMA SumOfTimes ==
  ASSUME NEW S, NEW rows \in Seq(S), NEW f, IsFiniteSet(DOMAIN f),
         \A x \in DOMAIN f : f[x] \in Nat /\ f[x] = Times(rows, x),
         ToSet(rows) \subseteq DOMAIN f
  PROVE  SumFunction(f) = Len(rows)
  <1> DEFINE At(t) == {i \in DOMAIN rows : rows[i] \in t}
  <1>1. PICK g : /\ SumFunction(f) = g[DOMAIN f]
                 /\ g[{}] = 0
                 /\ \A t \in SUBSET DOMAIN f : t # {} =>
                      \E x \in t : g[t] = f[x] + g[t \ {x}]
    BY SumUnfolds
  <1>2. \A t : IsFiniteSet(At(t)) /\ Cardinality(At(t)) \in Nat /\ Cardinality(At(t)) <= Len(rows)
    BY TimesIsANumber
  <1> DEFINE Q == {t \in SUBSET DOMAIN f : g[t] \in Nat /\ g[t] = Cardinality(At(t))}
  <1>3. ASSUME NEW t \in SUBSET DOMAIN f, \A x \in t : t \ {x} \in Q
        PROVE  t \in Q
    <2>1. CASE t = {}
      <3>1. At({}) = {} /\ Cardinality(At({})) = 0
        BY FS_EmptySet
      <3>. HIDE DEF At
      <3>. QED
        BY <1>1, <2>1, <3>1
    <2>2. CASE t # {}
      <3>1. PICK x \in t : g[t] = f[x] + g[t \ {x}]
        BY <1>1, <2>2
      <3>2. g[t \ {x}] \in Nat /\ g[t \ {x}] = Cardinality(At(t \ {x}))
        BY <1>3
      <3>3. f[x] \in Nat /\ f[x] = Cardinality(At({x}))
        <4>1. At({x}) = {i \in DOMAIN rows : rows[i] = x}
          OBVIOUS
        <4>. QED
          BY <4>1 DEF Times
      <3>4. Cardinality(At(t)) = Cardinality(At(t \ {x})) + Cardinality(At({x}))
        <4>1. At(t) = At(t \ {x}) \union At({x})
              /\ At(t \ {x}) \intersect At({x}) = {}
          OBVIOUS
        <4>. HIDE DEF At
        <4>2. Cardinality(At(t)) = Cardinality(At(t \ {x})) + Cardinality(At({x})) - Cardinality({})
          BY <1>2, <4>1, FS_Union
        <4>. QED
          BY <1>2, <4>2, FS_EmptySet
      <3>. HIDE DEF At
      <3>. QED
        BY <1>2, <3>1, <3>2, <3>3, <3>4
    <2>. QED
      BY <2>1, <2>2
  <1>4. DOMAIN f \in Q
    <2>. HIDE DEF Q
    <2>1. \A t \in SUBSET DOMAIN f : t \in Q
      BY <1>3, SubsetInduction, Zenon
    <2>. QED
      BY <2>1
  <1>5. SumFunction(f) \in Nat /\ SumFunction(f) = Cardinality(At(DOMAIN f))
    BY <1>1, <1>4
  <1>6. Cardinality(At(DOMAIN f)) = Len(rows)
    <2>1. At(DOMAIN f) = 1..Len(rows)
      BY DEF ToSet
    <2>2. Cardinality(1..Len(rows)) = Len(rows)
      BY FS_Interval
    <2>. QED
      BY <2>1, <2>2, Zenon
  <1>. HIDE DEF At
  <1>. QED
    BY <1>5, <1>6

\* Min and Max of two numbers.
LEMMA LesserOf ==
  ASSUME NEW m \in Nat, NEW n \in Nat
  PROVE  /\ Min({m, n}) \in Nat /\ Min({m, n}) <= m /\ Min({m, n}) <= n
         /\ Min({m, n}) \in {m, n}
         /\ Max({m, n}) \in Nat /\ Max({m, n}) >= m /\ Max({m, n}) >= n
         /\ Max({m, n}) \in {m, n}
  BY DEF Min, Max

\* A list has finitely many elements.
LEMMA ElementsAreFinite ==
  ASSUME NEW S, NEW s \in Seq(S)
  PROVE  IsFiniteSet(ToSet(s))
  <1>1. IsFiniteSet(DOMAIN s)
    BY FS_Interval
  <1>2. s \in Surjection(DOMAIN s, ToSet(s))
    <2>1. s \in [DOMAIN s -> ToSet(s)]
      BY DEF ToSet
    <2>. QED
      BY <2>1 DEF Surjection, ToSet
  <1>. QED
    BY <1>1, <1>2, FS_Surjection

\* A row comes in a list at most as often as the list is long.
LEMMA TimesInRange ==
  ASSUME NEW S, NEW rows \in Seq(S), NEW row
  PROVE  Times(rows, row) \in Nat /\ Times(rows, row) <= Len(rows)
  <1>1. {i \in DOMAIN rows : rows[i] = row} = {i \in DOMAIN rows : rows[i] \in {row}}
    OBVIOUS
  <1>. QED
    BY <1>1, TimesIsANumber DEF Times

\* The rows two results share are no more than either has (resultset._match).
LEMMA OverlapIsBounded ==
  ASSUME NEW S, NEW left \in Seq(S), NEW right \in Seq(S)
  PROVE  Overlap(left, right) \in Nat /\ Overlap(left, right) <= Len(left)
  <1> DEFINE rows == ToSet(left) \union ToSet(right)
             f == [row \in rows |-> Min({Times(left, row), Times(right, row)})]
  <1>1. IsFiniteSet(rows)
    BY ElementsAreFinite, FS_Union
  <1>2. \A row \in rows : f[row] \in Nat /\ f[row] <= Times(left, row)
    BY TimesInRange, LesserOf
  <1>3. SumFunction(f) \in Nat
    <2>. HIDE DEF rows
    <2>1. DOMAIN f = rows
      OBVIOUS
    <2>. HIDE DEF f
    <2>. QED
      BY <1>1, <1>2, <2>1, SumIsANumber
  <1>4. SumFunction(f) <= Len(left)
    <2>. HIDE DEF rows
    <2>1. DOMAIN f = rows
      OBVIOUS
    <2>. HIDE DEF f
    <2>. QED
      BY <1>1, <1>2, <2>1, SumOfSharesIsBounded
  <1>. QED
    BY <1>3, <1>4 DEF Overlap

\* Two results with the same rows are equally long, and share all of them.
LEMMA SameRowsOverlap ==
  ASSUME NEW S, NEW left \in Seq(S), NEW right \in Seq(S), SameRows(left, right)
  PROVE  Overlap(left, right) = Len(left) /\ Len(left) = Len(right)
  <1> DEFINE rows == ToSet(left) \union ToSet(right)
             f == [row \in rows |-> Min({Times(left, row), Times(right, row)})]
  <1>1. IsFiniteSet(rows)
    BY ElementsAreFinite, FS_Union
  <1>2. \A row \in rows : /\ f[row] \in Nat
                          /\ f[row] = Times(left, row) /\ f[row] = Times(right, row)
    <2> SUFFICES ASSUME NEW row \in rows
                 PROVE  /\ f[row] \in Nat
                        /\ f[row] = Times(left, row) /\ f[row] = Times(right, row)
      OBVIOUS
    <2>1. Times(left, row) = Times(right, row) /\ Times(left, row) \in Nat
      BY TimesInRange DEF SameRows
    <2>. HIDE DEF rows
    <2>2. f[row] = Min({Times(left, row), Times(left, row)})
      BY <2>1
    <2>. QED
      BY <2>1, <2>2, LesserOf DEF Min
  <1>3. ToSet(left) \subseteq rows /\ ToSet(right) \subseteq rows
    OBVIOUS
  <1>4. Overlap(left, right) = SumFunction(f)
    BY DEF Overlap
  <1>. HIDE DEF rows
  <1>5. DOMAIN f = rows
    OBVIOUS
  <1>. HIDE DEF f
  <1>6. SumFunction(f) = Len(left) /\ SumFunction(f) = Len(right)
    BY <1>1, <1>2, <1>3, <1>5, SumOfTimes
  <1>. QED
    BY <1>4, <1>6

\* The right rows in another order are worth half (resultset.ORDER_CREDIT).
LEMMA OutOfOrderIsHalf ==
  ASSUME NEW S, NEW left \in Seq(S), NEW right \in Seq(S), SameRows(left, right),
         ~Match(left, right, TRUE).exact
  PROVE  Match(left, right, TRUE).similarity = 50
  <1> DEFINE total == Max({Len(left), Len(right)})
             share == IF total = 0 THEN 100 ELSE (100 * Overlap(left, right)) \div total
  <1>1. /\ Len(left) \in Nat /\ Len(right) = Len(left)
        /\ Overlap(left, right) = Len(left)
    <2>1. Overlap(left, right) = Len(left) /\ Len(left) = Len(right)
      BY SameRowsOverlap
    <2>. QED
      BY <2>1
  <1>2. total = Len(left)
    BY <1>1, LesserOf
  <1>. HIDE DEF total
  <1>3. share = 100
    BY <1>1, <1>2
  <1>4. /\ ~InOrder(left, right)
        /\ Match(left, right, TRUE).similarity = share \div 2
    <2>1. ~InOrder(left, right)
      BY DEF Match
    <2>. QED
      BY <2>1, Zenon DEF Match, share, total
  <1>5. 100 \div 2 = 50
    OBVIOUS
  <1>. HIDE DEF share
  <1>. QED
    BY <1>3, <1>4, <1>5, Zenon

\* A part of a whole is at most one hundred hundredths.
LEMMA PercentIsBounded ==
  ASSUME NEW part \in Nat, NEW whole \in Nat, part <= whole, whole # 0
  PROVE  (100 * part) \div whole \in 0..100
  OBVIOUS

\* A similarity is between none and all (resultset._match).
LEMMA MatchIsAShare ==
  ASSUME NEW S, NEW left \in Seq(S), NEW right \in Seq(S), NEW ordered \in BOOLEAN
  PROVE  Match(left, right, ordered).similarity \in 0..100
  <1> DEFINE total == Max({Len(left), Len(right)})
             share == IF total = 0 THEN 100 ELSE (100 * Overlap(left, right)) \div total
  <1>1. total \in Nat /\ Overlap(left, right) \in Nat /\ Overlap(left, right) <= total
    <2>1. Len(left) \in Nat /\ Len(right) \in Nat
      OBVIOUS
    <2>2. total \in Nat /\ Len(left) <= total
      BY <2>1, LesserOf
    <2>3. Overlap(left, right) \in Nat /\ Overlap(left, right) <= Len(left)
      BY OverlapIsBounded
    <2>. HIDE DEF total
    <2>. QED
      BY <2>1, <2>2, <2>3
  <1>2. share \in 0..100
    <2>. HIDE DEF total
    <2>1. CASE total # 0
      <3>1. (100 * Overlap(left, right)) \div total \in 0..100
        BY <1>1, <2>1, PercentIsBounded
      <3>. QED
        BY <2>1, <3>1
    <2>. QED
      BY <2>1
  <1>3. share \div 2 \in 0..100
    <2>. HIDE DEF share
    <2>. QED
      BY <1>2
  <1>. HIDE DEF share
  <1>. QED
    BY <1>2, <1>3 DEF Match, share

\* Also where a surplus column was dropped (resultset.compare).
LEMMA CompareIsAShare ==
  ASSUME NEW got \in Table, NEW want \in Table, NEW ordered \in BOOLEAN
  PROVE  Compare(got, want, ordered).similarity \in 0..100
  <1>1. Match(got, want, ordered).similarity \in 0..100
    BY MatchIsAShare DEF Table
  <1>. QED
    BY <1>1 DEF Compare

\* A quotient of numbers is one.
LEMMA QuotientIsANumber ==
  ASSUME NEW m \in Nat, NEW n \in Nat, n # 0
  PROVE  m \div n \in Nat
  OBVIOUS

\* Savings on a baseline earn a share of a term (metric_turn._one_sided).
LEMMA OneSidedIsAShare ==
  ASSUME NEW spent \in Nat, NEW base \in Nat
  PROVE  OneSided(spent, base) \in 0..100
  <1>1. CASE base = 0 \/ spent <= base
    BY <1>1 DEF OneSided
  <1>2. CASE ~(base = 0 \/ spent <= base)
    <2> DEFINE over == (100 * (spent - base)) \div base
    <2>1. over \in Nat
      <3>1. 100 * (spent - base) \in Nat
        BY <1>2
      <3>. QED
        BY <1>2, <3>1, QuotientIsANumber
    <2>2. OneSided(spent, base) = Max({0, 100 - over})
      BY <1>2 DEF OneSided
    <2>. HIDE DEF over
    <2>. QED
      BY <2>1, <2>2 DEF Max
  <1>. QED
    BY <1>1, <1>2

\* Whatever a turn did, its score is between 0 and 100 (metric_turn.score).
LEMMA TurnScoreIsAShare ==
  ASSUME NEW r \in Outcome, NEW reference \in Table, NEW ordered \in BOOLEAN,
         NEW base \in Cost
  PROVE  TurnScore(r, reference, ordered, base) \in 0..100
  <1> DEFINE match == Compare(r.rows, reference, ordered)
  <1>1. match.similarity \in 0..100
    BY CompareIsAShare DEF Outcome
  <1>2. /\ OneSided(r.tokens, base.tokens) \in 0..100
        /\ OneSided(r.calls, base.calls) \in 0..100
    BY OneSidedIsAShare DEF Outcome, Cost
  <1>3. Weight.correct = 60 /\ Weight.cost = 25 /\ Weight.calls = 15
    BY DEF Weight
  <1>4. (Weight.correct * match.similarity) \div 100 \in 0..100
    <2>. HIDE DEF match
    <2>. QED
      BY <1>1, <1>3
  <1>5. Weight.correct + (Weight.cost * OneSided(r.tokens, base.tokens)) \div 100
          + (Weight.calls * OneSided(r.calls, base.calls)) \div 100 \in 0..100
    BY <1>2, <1>3
  <1>. HIDE DEF match
  <1>. QED
    BY <1>4, <1>5 DEF TurnScore, match

\* And so is that of an extract call (metric_extract.score).
LEMMA ExtractScoreIsAShare ==
  ASSUME NEW S, NEW r, r.entries \in Seq(S)
  PROVE  ExtractScore(r) \in 0..100
  <1> DEFINE recipes == {i \in DOMAIN r.entries : r.entries[i].recipe}
             sound == {i \in recipes : r.entries[i].sound}
  <1>1. IsFiniteSet(DOMAIN r.entries)
    <2>1. Len(r.entries) \in Nat /\ DOMAIN r.entries = 1..Len(r.entries)
      OBVIOUS
    <2>. QED
      BY <2>1, FS_Interval
  <1>2. recipes \in SUBSET DOMAIN r.entries /\ sound \in SUBSET recipes
    OBVIOUS
  <1>3. IsFiniteSet(recipes) /\ (Cardinality(recipes) = 0 => recipes = {})
    BY <1>1, <1>2, FS_Subset, FS_EmptySet
  <1>4. /\ Cardinality(recipes) \in Nat /\ Cardinality(sound) \in Nat
        /\ Cardinality(sound) <= Cardinality(recipes)
    BY <1>2, <1>3, FS_Subset, FS_CardinalityType
  <1>5. recipes # {} => (100 * Cardinality(sound)) \div Cardinality(recipes) \in 0..100
    BY <1>3, <1>4, PercentIsBounded
  <1>6. \/ ExtractScore(r) = 0
        \/ /\ recipes # {}
           /\ ExtractScore(r) = (100 * Cardinality(sound)) \div Cardinality(recipes)
    BY Zenon DEF ExtractScore
  <1>. HIDE DEF recipes, sound
  <1>. QED
    BY <1>5, <1>6

\* A table of one width is as wide as any of its rows.
LEMMA ArityOfRectangular ==
  ASSUME NEW rows \in Table, Rectangular(rows)
  PROVE  /\ rows = <<>> => Arity(rows) = 0
         /\ \A i \in DOMAIN rows : Arity(rows) = Len(rows[i]) /\ Len(rows[i]) \in Nat
  <1> DEFINE lengths == {0} \union {Len(rows[i]) : i \in DOMAIN rows}
  <1>1. ASSUME rows = <<>> PROVE Arity(rows) = 0
    <2>1. lengths = {0}
      BY <1>1
    <2>. QED
      BY <2>1 DEF Arity, Max
  <1>2. ASSUME NEW i \in DOMAIN rows
        PROVE  Arity(rows) = Len(rows[i]) /\ Len(rows[i]) \in Nat
    <2>1. \A j \in DOMAIN rows : Len(rows[j]) = Len(rows[i])
      BY DEF Rectangular
    <2>2. Len(rows[i]) \in Nat
      BY DEF Table
    <2>3. lengths = {0, Len(rows[i])}
      BY <2>1
    <2>4. Max({0, Len(rows[i])}) = Len(rows[i])
      BY <2>2 DEF Max
    <2>. QED
      BY <2>2, <2>3, <2>4 DEF Arity
  <1>. QED
    BY <1>1, <1>2

\* Tables with the same rows are equally wide.
LEMMA SameRowsSameArity ==
  ASSUME NEW got \in Table, NEW want \in Table, Rectangular(got), Rectangular(want),
         SameRows(got, want)
  PROVE  Arity(got) = Arity(want)
  <1>1. ASSUME NEW left \in Table, NEW right \in Table, SameRows(left, right),
               NEW i \in DOMAIN left
        PROVE  \E j \in DOMAIN right : right[j] = left[i]
    <2>1. Times(left, left[i]) = Times(right, left[i])
      BY <1>1 DEF SameRows, ToSet
    <2>2. Times(left, left[i]) # 0
      <3>1. IsFiniteSet({k \in DOMAIN left : left[k] = left[i]})
        BY FS_Interval, FS_Subset DEF Table
      <3>. QED
        BY <3>1, FS_EmptySet DEF Times
    <2>3. {j \in DOMAIN right : right[j] = left[i]} # {}
      BY <2>1, <2>2, FS_EmptySet DEF Times
    <2>. QED
      BY <2>3
  <1>2. SameRows(want, got)
    BY DEF SameRows
  <1>3. CASE got = <<>>
    <2>1. want = <<>>
      <3> SUFFICES ASSUME want # <<>> PROVE FALSE
        OBVIOUS
      <3>1. 1 \in DOMAIN want
        BY DEF Table
      <3>. QED
        BY <1>1, <1>2, <1>3, <3>1
    <2>. QED
      BY <1>3, <2>1
  <1>4. CASE got # <<>>
    <2>1. 1 \in DOMAIN got
      BY <1>4 DEF Table
    <2>2. PICK j \in DOMAIN want : want[j] = got[1]
      BY <1>1, <2>1
    <2>. QED
      BY <2>1, <2>2, ArityOfRectangular
  <1>. QED
    BY <1>3, <1>4

\* What the corpus runner takes for the same rows in order, the metric matches
\* exactly.
LEMMA SameIsExact ==
  ASSUME NEW got, NEW want, NEW ordered \in BOOLEAN, Same(got, want, ordered)
  PROVE  SameRows(got, want) /\ Match(got, want, ordered).exact
  <1>1. SameRows(got, want)
    BY DEF Same, SameRows
  <1>2. ordered => InOrder(got, want)
    BY DEF Same, InOrder
  <1>. QED
    BY <1>1, <1>2 DEF Match

(* An answer the corpus runner certifies (corpus.py matches) is exact to the   *)
(* metric (resultset.compare), for any two tables of any cells whose rows have *)
(* one width, ordered or not.                                                 *)
THEOREM CertifiedIsExact ==
  ASSUME NEW got \in Table, NEW want \in Table, NEW ordered \in BOOLEAN,
         Rectangular(got), Rectangular(want), Matches(got, want, ordered)
  PROVE  Compare(got, want, ordered).exact
  <1>1. CASE Same(got, want, ordered)
    <2>1. Arity(got) = Arity(want) /\ Match(got, want, ordered).exact
      BY <1>1, SameIsExact, SameRowsSameArity
    <2>. QED
      BY <2>1 DEF Compare
  <1>2. CASE ~Same(got, want, ordered)
    <2>1. PICK column \in 1..Len(got[1]) : Same(Without(got, column), want, ordered)
      BY <1>2 DEF Matches
    <2>2. 1 \in DOMAIN got /\ 1 \in DOMAIN want
      BY <1>2 DEF Matches, Table
    <2>3. /\ Arity(got) = Len(got[1]) /\ Arity(want) = Len(want[1])
          /\ Arity(got) \in Nat /\ Arity(want) \in Nat
      BY <2>2, ArityOfRectangular
    <2>4. Arity(want) >= 2 /\ Arity(got) = Arity(want) + 1
      BY <1>2, <2>3 DEF Matches
    <2>5. Match(Without(got, column), want, ordered).exact
      BY <2>1, SameIsExact
    <2>. QED
      BY <2>1, <2>3, <2>4, <2>5 DEF Compare
  <1>. QED
    BY <1>1, <1>2

(* The runner certifies by the answer key's flag and a search scores by the   *)
(* one it reads off the query.  Whatever the two are, what is certified is     *)
(* exact, or the query alone orders the rows and the answer has them in        *)
(* another order: half a similarity, or none beside a surplus column.          *)
THEOREM CertificatesAreHeld ==
  ASSUME NEW got \in Table, NEW want \in Table, Rectangular(got), Rectangular(want),
         NEW key \in BOOLEAN, NEW ordered \in BOOLEAN
  PROVE  CertificateHolds(got, want, key, ordered)
  <1> SUFFICES ASSUME Matches(got, want, key), ~Compare(got, want, ordered).exact
               PROVE  /\ ordered /\ ~key
                      /\ ~Matches(got, want, TRUE)
                      /\ Compare(got, want, ordered).similarity
                           = IF Arity(got) = Arity(want) THEN 50 ELSE 0
    BY Zenon DEF CertificateHolds
  <1>1. Matches(got, want, FALSE)
    <2>1. \A left : Same(left, want, key) => Same(left, want, FALSE)
      BY DEF Same, SameRows
    <2>. QED
      BY <2>1 DEF Matches
  <1>2. ordered /\ ~Matches(got, want, TRUE) /\ ~key
    BY <1>1, CertifiedIsExact
  <1>3. CASE Same(got, want, FALSE)
    <2>1. SameRows(got, want)
      BY <1>3 DEF Same
    <2>2. Arity(got) = Arity(want)
      BY <2>1, SameRowsSameArity
    <2>3. Compare(got, want, ordered) = Match(got, want, ordered)
      <3>1. Arity(want) \in Nat
        <4>1. want = <<>> \/ 1 \in DOMAIN want
          BY DEF Table
        <4>. QED
          BY <4>1, ArityOfRectangular
      <3>. QED
        BY <2>2, <3>1 DEF Compare
    <2>4. ordered = TRUE
      BY <1>2
    <2>5. Match(got, want, TRUE).similarity = 50
      BY <2>1, <2>3, <2>4, OutOfOrderIsHalf DEF Table
    <2>. QED
      BY <1>2, <2>2, <2>3, <2>4, <2>5
  <1>4. CASE ~Same(got, want, FALSE)
    <2>1. got # <<>> /\ want # <<>> /\ Len(got[1]) = Len(want[1]) + 1
      BY <1>1, <1>4 DEF Matches
    <2>2. /\ Arity(got) = Len(got[1]) /\ Arity(want) = Len(want[1])
          /\ Arity(got) \in Nat /\ Arity(want) \in Nat
      <3>1. 1 \in DOMAIN got /\ 1 \in DOMAIN want
        BY <2>1 DEF Table
      <3>. QED
        BY <3>1, ArityOfRectangular
    <2>3. Arity(got) # Arity(want)
      BY <2>1, <2>2
    <2>4. Compare(got, want, ordered).similarity = 0
      BY <2>3 DEF Compare
    <2>. QED
      BY <1>2, <2>3, <2>4
  <1>. QED
    BY <1>3, <1>4

\* A set of places in a list has a last one, and Max is it.
LEMMA GreatestNumber ==
  ASSUME NEW n \in Nat, NEW T, T \subseteq 1..n, T # {}
  PROVE  Max(T) \in T /\ \A m \in T : m <= Max(T)
  <1> DEFINE below == {n - m : m \in T}
  <1>1. below \subseteq Nat /\ below # {}
    <2>1. \A m \in T : n - m \in Nat
      OBVIOUS
    <2>. QED
      BY <2>1
  <1>2. PICK k \in below : \A m \in below : k <= m
    <2>. HIDE DEF below
    <2>. QED
      BY <1>1, LeastNumber
  <1>3. PICK x \in T : k = n - x
    BY <1>2
  <1>4. \A m \in T : x >= m
    <2> SUFFICES ASSUME NEW m \in T PROVE x >= m
      OBVIOUS
    <2>1. n - x <= n - m
      BY <1>2, <1>3
    <2>. QED
      BY <2>1
  <1>5. \E y \in T : \A m \in T : y >= m
    BY <1>4
  <1>6. Max(T) \in T /\ \A m \in T : Max(T) >= m
    BY <1>5, Zenon DEF Max
  <1>. QED
    BY <1>6

\* A harvest keeps lists of cases.
LEMMA KeepNewKeeps ==
  ASSUME NEW S, NEW cases \in Seq(S), NEW case \in S
  PROVE  KeepNew(cases, case) \in Seq(S)
  BY DEF KeepNew

\* The loop over the offers, after k of them.
LEMMA CasesUnfold ==
  ASSUME NEW S, NEW offers \in Seq(S)
  PROVE  \E g : /\ FoldLeft(KeepNew, <<>>, offers) = g[Len(offers)]
                /\ g[0] = <<>>
                /\ \A k \in 1..Len(offers) : g[k] = KeepNew(g[k - 1], offers[k])
  <1> DEFINE n == Len(offers)
             D == DOMAIN offers
             Body(h) == [s \in SUBSET D |->
                           IF s = {} THEN <<>>
                           ELSE KeepNew(h[s \ {Max(s)}], offers[Max(s)])]
             pick == [s \in SUBSET D |-> Max(s)]
             step == [p \in D \X Seq(S) |-> KeepNew(p[2], offers[p[1]])]
             g == CHOOSE h : h = Body(h)
             f == [k \in 0..n |-> g[1..k]]
  <1>0. n \in Nat /\ D = 1..n /\ IsFiniteSet(D) /\ \A i \in D : offers[i] \in S
    BY FS_Interval
  <1>1. \E h : h = Body(h)
    <2>1. \A s \in SUBSET D : s # {} => pick[s] \in s
      BY <1>0, GreatestNumber
    <2>2. step \in [D \X Seq(S) -> Seq(S)]
      BY <1>0, KeepNewKeeps
    <2>3. PICK h : Folds(h, D, Seq(S), <<>>, pick, step)
      <3>1. <<>> \in Seq(S)
        OBVIOUS
      <3>. HIDE DEF pick, step, D
      <3>. QED
        BY <1>0, <2>1, <2>2, <3>1, FoldExists
    <2>4. \A s \in SUBSET D : h[s] = Body(h)[s]
      <3> SUFFICES ASSUME NEW s \in SUBSET D, s # {} PROVE h[s] = Body(h)[s]
        BY <2>3 DEF Folds
      <3>1. /\ pick[s] = Max(s) /\ pick[s] \in D
            /\ h[s \ {pick[s]}] \in Seq(S)
            /\ h[s] = step[<<pick[s], h[s \ {pick[s]}]>>]
        BY <2>1, <2>3 DEF Folds
      <3>. QED
        BY <3>1
    <2>5. h = [s \in SUBSET D |-> h[s]]
      BY <2>3 DEF Folds
    <2>6. h = Body(h)
      BY <2>4, <2>5
    <2>. QED
      BY <2>6, Zenon
  <1>2. g = Body(g)
    <2>. HIDE DEF Body
    <2>. QED
      BY <1>1
  <1>3. FoldLeft(KeepNew, <<>>, offers) = g[D]
    BY Zenon DEF FoldLeft, MapThenFoldSet
  <1>. HIDE DEF g
  <1>4. f[n] = g[D] /\ f[0] = <<>>
    <2>1. 1..0 = {}
      OBVIOUS
    <2>. QED
      BY <1>0, <1>2, <2>1
  <1>5. ASSUME NEW k \in 1..n PROVE f[k] = KeepNew(f[k - 1], offers[k])
    <2>1. Max(1..k) = k
      <3>1. k \in Nat /\ k \in 1..k /\ 1..k # {}
        <4>. HIDE DEF n
        <4>. QED
          BY <1>0
      <3>2. Max(1..k) \in 1..k /\ \A m \in 1..k : m <= Max(1..k)
        BY <3>1, GreatestNumber
      <3>. QED
        BY <3>1, <3>2
    <2>2. (1..k) \ {k} = 1..(k - 1) /\ 1..k # {} /\ 1..k \in SUBSET D
      BY <1>0
    <2>3. g[1..k] = KeepNew(g[1..(k - 1)], offers[k])
      BY <1>2, <2>1, <2>2
    <2>. QED
      BY <1>0, <2>3
  <1>. HIDE DEF f
  <1>. QED
    BY <1>3, <1>4, <1>5

\* One case a question, each the first offer of its question with a query,
\* and none missed.
Kept(cases, offers, S) ==
  /\ cases \in Seq(S)
  /\ \A i, j \in DOMAIN cases : cases[i].question = cases[j].question => i = j
  /\ \A i \in DOMAIN cases : \E j \in DOMAIN offers :
       /\ cases[i] = offers[j] /\ offers[j].sql # Nothing
       /\ \A m \in 1..(j - 1) :
            offers[m].sql # Nothing => offers[m].question # offers[j].question

AllKept(cases, offers, k) ==
  \A j \in 1..k :
    offers[j].sql # Nothing =>
      \E i \in DOMAIN cases : cases[i].question = offers[j].question

\* One more offer keeps both: the list of first offers, and all of them in it.
LEMMA KeepsOne ==
  ASSUME NEW S, NEW offers \in Seq(S), NEW k \in 1..Len(offers), NEW cases,
         Kept(cases, offers, S), AllKept(cases, offers, k - 1)
  PROVE  /\ Kept(KeepNew(cases, offers[k]), offers, S)
         /\ AllKept(KeepNew(cases, offers[k]), offers, k)
  <1> DEFINE case == offers[k]
             known == \E i \in DOMAIN cases : cases[i].question = case.question
  <1>1. known <=> \E kept \in ToSet(cases) : kept.question = case.question
    BY DEF ToSet
  <1>2. k \in Nat /\ k \in DOMAIN offers /\ \A j \in 1..k : j = k \/ j \in 1..(k - 1)
    OBVIOUS
  <1>3. CASE case.sql = Nothing \/ known
    <2>1. KeepNew(cases, case) = cases
      BY <1>1, <1>3 DEF KeepNew, ToSet
    <2>2. AllKept(cases, offers, k)
      BY <1>2, <1>3 DEF AllKept
    <2>. QED
      BY <2>1, <2>2
  <1>4. CASE case.sql # Nothing /\ ~known
    <2> DEFINE more == Append(cases, case)
    <2>1. KeepNew(cases, case) = more
      BY <1>4 DEF KeepNew, ToSet
    <2>2. /\ case \in S /\ cases \in Seq(S) /\ Len(cases) \in Nat
          /\ DOMAIN cases = 1..Len(cases)
      BY <1>2 DEF Kept
    <2>3. /\ more \in Seq(S) /\ DOMAIN more = 1..(Len(cases) + 1)
          /\ \A i \in DOMAIN cases : i \in DOMAIN more /\ more[i] = cases[i]
          /\ more[Len(cases) + 1] = case
          /\ \A i \in DOMAIN more : i \in DOMAIN cases \/ i = Len(cases) + 1
      BY <2>2
    <2>. HIDE DEF more
    <2>4. \A i, j \in DOMAIN more : more[i].question = more[j].question => i = j
      BY <1>4, <2>3 DEF Kept
    <2>5. \A m \in 1..(k - 1) : offers[m].sql # Nothing => offers[m].question # case.question
      BY <1>4 DEF AllKept
    <2>6. ASSUME NEW i \in DOMAIN more
          PROVE  \E j \in DOMAIN offers :
                   /\ more[i] = offers[j] /\ offers[j].sql # Nothing
                   /\ \A m \in 1..(j - 1) :
                        offers[m].sql # Nothing => offers[m].question # offers[j].question
      <3>1. CASE i \in DOMAIN cases
        BY <2>3, <3>1 DEF Kept
      <3>2. CASE i = Len(cases) + 1
        BY <1>2, <1>4, <2>3, <2>5, <3>2
      <3>. QED
        BY <2>3, <3>1, <3>2
    <2>7. Kept(more, offers, S)
      BY <2>3, <2>4, <2>6 DEF Kept
    <2>8. ASSUME NEW j \in 1..k, offers[j].sql # Nothing
          PROVE  \E i \in DOMAIN more : more[i].question = offers[j].question
      <3>1. CASE j = k
        BY <2>2, <2>3, <3>1
      <3>2. CASE j \in 1..(k - 1)
        BY <2>3, <2>8, <3>2 DEF AllKept
      <3>. QED
        BY <1>2, <3>1, <3>2
    <2>9. AllKept(more, offers, k)
      BY <2>8 DEF AllKept
    <2>. QED
      BY <2>1, <2>7, <2>9
  <1>. QED
    BY <1>3, <1>4

\* A harvest of any offers has one case a question, the first offer of it.
LEMMA CasesAreKept ==
  ASSUME NEW S, NEW offers \in Seq(S)
  PROVE  LET cases == FoldLeft(KeepNew, <<>>, offers)
         IN Kept(cases, offers, S) /\ AllKept(cases, offers, Len(offers))
  <1>1. PICK g : /\ FoldLeft(KeepNew, <<>>, offers) = g[Len(offers)]
                 /\ g[0] = <<>>
                 /\ \A k \in 1..Len(offers) : g[k] = KeepNew(g[k - 1], offers[k])
    BY CasesUnfold
  <1> DEFINE P(k) == Kept(g[k], offers, S) /\ AllKept(g[k], offers, k)
             T == {k \in Nat : k <= Len(offers) => P(k)}
  <1>2. 0 \in T
    <2>1. Kept(<<>>, offers, S) /\ AllKept(<<>>, offers, 0)
      BY DEF Kept, AllKept
    <2>. QED
      BY <1>1, <2>1
  <1>3. ASSUME NEW k \in Nat, k \in T PROVE k + 1 \in T
    <2> SUFFICES ASSUME k + 1 <= Len(offers) PROVE P(k + 1)
      OBVIOUS
    <2>1. k + 1 \in 1..Len(offers) /\ (k + 1) - 1 = k /\ k <= Len(offers)
      OBVIOUS
    <2>2. P(k) /\ g[k + 1] = KeepNew(g[k], offers[k + 1])
      BY <1>1, <1>3, <2>1
    <2>. QED
      BY <2>1, <2>2, KeepsOne
  <1>4. \A k \in Nat : k \in T
    <2>. HIDE DEF T
    <2>. QED
      BY <1>2, <1>3, NumberInduction
  <1>5. Len(offers) \in T
    BY <1>4
  <1>. QED
    BY <1>1, <1>5

\* What a span offers a pass, if anything.
LEMMA ReferenceOfIs ==
  ASSUME NEW Q, NEW span \in Span(Q)
  PROVE  /\ ReferenceOf(span) \in Queries \union {Nothing}
         /\ HasReference(span) =>
              (/\ ReferenceOf(span) # Nothing <=>
                    span.ran # Nothing /\ Last(span.references) # Nothing
               /\ ReferenceOf(span) # Nothing =>
                    ReferenceOf(span) = Last(span.references))
         /\ ~HasReference(span) =>
              (/\ ReferenceOf(span) # Nothing <=>
                    /\ span.ran # Nothing /\ span.verdicts # <<>>
                    /\ Last(span.verdicts)
               /\ ReferenceOf(span) # Nothing => ReferenceOf(span) = span.ran)
  <1>1. /\ span.ran \in Queries \union {Nothing}
        /\ span.references \in Seq(Queries \union {Nothing})
        /\ span.verdicts \in Seq(BOOLEAN)
    BY DEF Span
  <1>2. HasReference(span) => Last(span.references) \in Queries \union {Nothing}
    <2> SUFFICES ASSUME span.references # <<>>
                 PROVE  Last(span.references) \in Queries \union {Nothing}
      BY DEF HasReference
    <2>1. Len(span.references) \in DOMAIN span.references
      BY <1>1
    <2>. QED
      BY <1>1, <2>1 DEF Last
  <1>3. CASE span.ran = Nothing
    <2>1. ReferenceOf(span) = Nothing
      BY <1>3, Zenon DEF ReferenceOf
    <2>. QED
      BY <1>3, <2>1, Zenon
  <1>4. CASE span.ran # Nothing /\ HasReference(span)
    <2>1. ReferenceOf(span) = Last(span.references)
      BY <1>4, Zenon DEF ReferenceOf
    <2>. QED
      BY <1>2, <1>4, <2>1, Zenon
  <1>5. CASE span.ran # Nothing /\ ~HasReference(span)
    <2>1. CASE span.verdicts # <<>> /\ Last(span.verdicts)
      <3>1. ReferenceOf(span) = span.ran
        BY <1>5, <2>1, Zenon DEF ReferenceOf
      <3>. QED
        BY <1>1, <1>5, <2>1, <3>1, Zenon
    <2>2. CASE ~(span.verdicts # <<>> /\ Last(span.verdicts))
      <3>1. ReferenceOf(span) = Nothing
        BY <1>5, <2>2, Zenon DEF ReferenceOf
      <3>. QED
        BY <1>5, <2>2, <3>1, Zenon
    <2>. QED
      BY <2>1, <2>2
  <1>. QED
    BY <1>3, <1>4, <1>5

About(store, q) == {n \in DOMAIN store : store[n].question = q /\ store[n].ran # Nothing}

Referred(store, q) ==
  {n \in About(store, q) : /\ HasReference(store[n])
                           /\ Last(store[n].references) # Nothing}

Vouched(store, q) ==
  {n \in About(store, q) : /\ ~HasReference(store[n])
                           /\ store[n].verdicts # <<>>
                           /\ Last(store[n].verdicts)}

\* Two sequences of one length, end to end.
LEMMA Halves ==
  ASSUME NEW S, NEW n \in Nat, NEW a \in Seq(S), NEW b \in Seq(S),
         Len(a) = n, Len(b) = n, NEW k \in 1..n
  PROVE  /\ (a \o b)[n - k + 1] = a[n - k + 1]
         /\ (a \o b)[n + n - k + 1] = b[n - k + 1]
  <1>1. /\ n - k + 1 \in 1..(n + n) /\ n - k + 1 <= n
        /\ n + n - k + 1 \in 1..(n + n) /\ ~(n + n - k + 1 <= n)
        /\ (n + n - k + 1) - n = n - k + 1
    OBVIOUS
  <1>. QED
    BY <1>1, ConcatProperties

\* What the turns of some questions may offer: a query, with its own order.
Offers(Q) ==
  {[question |-> q, sql |-> sql, ordered |-> Orders(sql)] :
     q \in Q, sql \in Queries \union {Nothing}}

\* The two passes, newest turn first.
LEMMA OffersAre ==
  ASSUME NEW Q, NEW store \in Seq(Span(Q))
  PROVE  LET offers == InTurn(store)
             n == Len(store)
         IN /\ offers \in Seq(Offers(Q))
            /\ Len(offers) = n + n
            /\ \A k \in 1..n :
                 LET q == store[k].question
                 IN /\ offers[n - k + 1].question = q
                    /\ offers[n - k + 1].sql # Nothing <=> k \in Referred(store, q)
                    /\ k \in Referred(store, q) =>
                         offers[n - k + 1].sql = Last(store[k].references)
                    /\ offers[n + n - k + 1].question = q
                    /\ offers[n + n - k + 1].sql # Nothing <=> k \in Vouched(store, q)
                    /\ k \in Vouched(store, q) =>
                         offers[n + n - k + 1].sql = store[k].ran
  <1> DEFINE n == Len(store)
             S == Offers(Q)
             query(span, referred) ==
               IF HasReference(span) = referred THEN ReferenceOf(span) ELSE Nothing
             offer(span, referred) ==
               [question |-> span.question, sql |-> query(span, referred),
                ordered |-> Orders(query(span, referred))]
             pass(referred) == [i \in 1..n |-> offer(store[n - i + 1], referred)]
  <1>1. n \in Nat /\ DOMAIN store = 1..n
    OBVIOUS
  <1>2. \A i \in 1..n : n - i + 1 \in 1..n
    BY <1>1
  <1>3. \A span \in Span(Q), referred \in BOOLEAN : offer(span, referred) \in S
    <2> SUFFICES ASSUME NEW span \in Span(Q), NEW referred \in BOOLEAN
                 PROVE  offer(span, referred) \in S
      OBVIOUS
    <2>1. span.question \in Q /\ query(span, referred) \in Queries \union {Nothing}
      BY ReferenceOfIs DEF Span
    <2>. HIDE DEF query
    <2>. QED
      BY <2>1 DEF Offers
  <1>4. \A referred \in BOOLEAN :
          /\ pass(referred) \in Seq(S) /\ Len(pass(referred)) = n
          /\ \A k \in 1..n : pass(referred)[n - k + 1] = offer(store[k], referred)
    <2> SUFFICES ASSUME NEW referred \in BOOLEAN
                 PROVE  /\ pass(referred) \in Seq(S) /\ Len(pass(referred)) = n
                        /\ \A k \in 1..n :
                             pass(referred)[n - k + 1] = offer(store[k], referred)
      OBVIOUS
    <2>1. \A i \in 1..n : offer(store[n - i + 1], referred) \in S
      <3>. HIDE DEF S, offer
      <3>. QED
        BY <1>1, <1>2, <1>3
    <2>2. \A k \in 1..n : n - (n - k + 1) + 1 = k
      BY <1>1
    <2>. HIDE DEF S, offer, n
    <2>3. pass(referred) \in [1..n -> S]
      BY <2>1
    <2>. QED
      BY <1>1, <1>2, <2>2, <2>3
  <1>5. InTurn(store) = pass(TRUE) \o pass(FALSE)
    BY Zenon DEF InTurn
  <1> DEFINE offers == pass(TRUE) \o pass(FALSE)
  <1>6. /\ offers \in Seq(S) /\ Len(offers) = n + n
        /\ \A k \in 1..n : /\ offers[n - k + 1] = offer(store[k], TRUE)
                           /\ offers[n + n - k + 1] = offer(store[k], FALSE)
    <2> DEFINE a == pass(TRUE)
               b == pass(FALSE)
    <2>1. /\ a \in Seq(S) /\ Len(a) = n /\ b \in Seq(S) /\ Len(b) = n
          /\ \A k \in 1..n : /\ a[n - k + 1] = offer(store[k], TRUE)
                             /\ b[n - k + 1] = offer(store[k], FALSE)
      <3>. HIDE DEF S, offer, pass, n
      <3>. QED
        BY <1>4, Zenon
    <2>2. offers = a \o b
      OBVIOUS
    <2>. HIDE DEF a, b, offers, S, n, offer
    <2>3. a \o b \in Seq(S) /\ Len(a \o b) = n + n
      BY <1>1, <2>1, ConcatProperties
    <2>4. \A k \in 1..n : /\ (a \o b)[n - k + 1] = a[n - k + 1]
                          /\ (a \o b)[n + n - k + 1] = b[n - k + 1]
      BY <1>1, <2>1, Halves
    <2>. QED
      BY <2>1, <2>2, <2>3, <2>4
  <1>7. ASSUME NEW k \in 1..n
        PROVE  LET q == store[k].question
               IN /\ offers[n - k + 1].question = q
                  /\ offers[n - k + 1].sql # Nothing <=> k \in Referred(store, q)
                  /\ k \in Referred(store, q) =>
                       offers[n - k + 1].sql = Last(store[k].references)
                  /\ offers[n + n - k + 1].question = q
                  /\ offers[n + n - k + 1].sql # Nothing <=> k \in Vouched(store, q)
                  /\ k \in Vouched(store, q) =>
                       offers[n + n - k + 1].sql = store[k].ran
    <2> DEFINE q == store[k].question
    <2>1. store[k] \in Span(Q) /\ k \in DOMAIN store
      BY <1>1
    <2>2. /\ k \in Referred(store, q) <=> /\ store[k].ran # Nothing
                                          /\ HasReference(store[k])
                                          /\ Last(store[k].references) # Nothing
          /\ k \in Vouched(store, q) <=> /\ store[k].ran # Nothing
                                         /\ ~HasReference(store[k])
                                         /\ store[k].verdicts # <<>>
                                         /\ Last(store[k].verdicts)
      BY <2>1 DEF Referred, Vouched, About
    <2>3. /\ offers[n - k + 1].question = q
          /\ offers[n - k + 1].sql = IF HasReference(store[k]) = TRUE
                                     THEN ReferenceOf(store[k]) ELSE Nothing
          /\ offers[n + n - k + 1].question = q
          /\ offers[n + n - k + 1].sql = IF HasReference(store[k]) = FALSE
                                         THEN ReferenceOf(store[k]) ELSE Nothing
      <3>1. /\ offers[n - k + 1] = offer(store[k], TRUE)
            /\ offers[n + n - k + 1] = offer(store[k], FALSE)
        BY <1>6
      <3>. HIDE DEF offers, n
      <3>. QED
        BY <3>1
    <2>. HIDE DEF offers, n, q
    <2>4. HasReference(store[k]) \in BOOLEAN
      BY DEF HasReference
    <2>5. CASE HasReference(store[k])
      BY <2>1, <2>2, <2>3, <2>4, <2>5, ReferenceOfIs DEF q
    <2>6. CASE ~HasReference(store[k])
      BY <2>1, <2>2, <2>3, <2>4, <2>6, ReferenceOfIs DEF q
    <2>. QED
      BY <2>4, <2>5, <2>6
  <1>. QED
    BY <1>5, <1>6, <1>7

\* Max is the member no other exceeds.
LEMMA GreatestIs ==
  ASSUME NEW n \in Nat, NEW T, T \subseteq 1..n, NEW k \in T, \A m \in T : m <= k
  PROVE  Max(T) = k
  <1>1. Max(T) \in T /\ k <= Max(T) /\ Max(T) <= k
    BY GreatestNumber
  <1>2. \A m \in T : m \in Nat
    OBVIOUS
  <1>3. Max(T) \in Nat /\ k \in Nat
    BY <1>1, <1>2, Zenon
  <1>. QED
    BY <1>1, <1>3

(* A harvest of the turns, of any length, is one case for every question      *)
(* somebody vouched for, on its latest reference, or else on the latest query *)
(* judged right (harvest.turn_cases).                                         *)
THEOREM CasesFollowVerdicts ==
  ASSUME NEW Q, NEW store \in Seq(Span(Q))
  PROVE  FollowsVerdicts(store)
  <1> DEFINE n == Len(store)
             S == Offers(Q)
             offers == InTurn(store)
             cases == TurnCases(store)
             R(q) == Referred(store, q)
             V(q) == Vouched(store, q)
  <1>1. /\ offers \in Seq(S) /\ Len(offers) = n + n
        /\ n \in Nat /\ DOMAIN store = 1..n /\ DOMAIN offers = 1..(n + n)
    <2>1. offers \in Seq(S) /\ Len(offers) = n + n
      BY OffersAre, Zenon
    <2>2. n \in Nat /\ DOMAIN store = 1..n
      OBVIOUS
    <2>. HIDE DEF offers, S, n
    <2>. QED
      BY <2>1, <2>2
  <1>2. Kept(cases, offers, S) /\ AllKept(cases, offers, n + n)
    <2>1. cases = FoldLeft(KeepNew, <<>>, offers)
      BY Zenon DEF TurnCases
    <2>. HIDE DEF cases, offers, S, n
    <2>. QED
      BY <1>1, <2>1, CasesAreKept, Zenon
  <1>3. \A q : /\ R(q) \subseteq 1..n /\ V(q) \subseteq 1..n
               /\ \A k \in R(q) \union V(q) : store[k].question = q
    BY <1>1 DEF Referred, Vouched, About
  <1>4. \A k \in 1..n :
          LET q == store[k].question
          IN /\ offers[n - k + 1].question = q
             /\ offers[n - k + 1].sql # Nothing <=> k \in R(q)
             /\ k \in R(q) => offers[n - k + 1].sql = Last(store[k].references)
             /\ offers[n + n - k + 1].question = q
             /\ offers[n + n - k + 1].sql # Nothing <=> k \in V(q)
             /\ k \in V(q) => offers[n + n - k + 1].sql = store[k].ran
    <2>. QED
      BY OffersAre
  <1>. HIDE DEF n, S, offers, cases, R, V
  <1>5. \A q : /\ \A m \in R(q) : /\ n - m + 1 \in 1..n
                                  /\ offers[n - m + 1].question = q
                                  /\ offers[n - m + 1].sql # Nothing
               /\ \A m \in V(q) : /\ n + n - m + 1 \in (n + 1)..(n + n)
                                  /\ offers[n + n - m + 1].question = q
                                  /\ offers[n + n - m + 1].sql # Nothing
    <2> SUFFICES ASSUME NEW q, NEW m
                 PROVE  /\ m \in R(q) => /\ n - m + 1 \in 1..n
                                         /\ offers[n - m + 1].question = q
                                         /\ offers[n - m + 1].sql # Nothing
                        /\ m \in V(q) => /\ n + n - m + 1 \in (n + 1)..(n + n)
                                         /\ offers[n + n - m + 1].question = q
                                         /\ offers[n + n - m + 1].sql # Nothing
      OBVIOUS
    <2>1. m \in R(q) \union V(q) => m \in 1..n /\ store[m].question = q
      BY <1>3
    <2>2. m \in 1..n => /\ n - m + 1 \in 1..n
                        /\ n + n - m + 1 \in (n + 1)..(n + n)
      BY <1>1
    <2>. QED
      BY <1>4, <2>1, <2>2
  <1>6. \A i, j \in DOMAIN cases : cases[i].question = cases[j].question => i = j
    BY <1>2 DEF Kept
  <1>7. ASSUME NEW q, R(q) \union V(q) # {}
        PROVE  \E i \in DOMAIN cases : cases[i].question = q
    <2>1. PICK j \in 1..(n + n) : offers[j].question = q /\ offers[j].sql # Nothing
      <3>1. CASE R(q) # {}
        BY <1>1, <1>5, <3>1
      <3>2. CASE V(q) # {}
        BY <1>1, <1>5, <3>2
      <3>. QED
        BY <1>7, <3>1, <3>2
    <2>. QED
      BY <1>2, <2>1 DEF AllKept
  <1>8. ASSUME NEW i \in DOMAIN cases
        PROVE  LET q == cases[i].question
               IN /\ R(q) \union V(q) # {}
                  /\ R(q) # {} => cases[i].sql = Last(store[Max(R(q))].references)
                  /\ R(q) = {} => cases[i].sql = store[Max(V(q))].ran
    <2> DEFINE q == cases[i].question
    <2>1. PICK j \in 1..(n + n) :
            /\ cases[i] = offers[j] /\ offers[j].sql # Nothing
            /\ \A m \in 1..(j - 1) : offers[m].sql # Nothing => offers[m].question # q
      BY <1>1, <1>2 DEF Kept
    <2>2. CASE j <= n
      <3> DEFINE k == n - j + 1
      <3>1. k \in 1..n /\ j = n - k + 1
        BY <1>1, <2>2
      <3>. HIDE DEF k
      <3>2. k \in R(q) /\ cases[i].sql = Last(store[k].references)
        BY <1>4, <2>1, <3>1
      <3>3. \A m \in R(q) : m <= k
        <4> SUFFICES ASSUME NEW m \in R(q), m > k PROVE FALSE
          BY <1>1, <1>3, <3>1
        <4>1. m \in 1..n /\ n - m + 1 \in 1..(j - 1)
          BY <1>1, <1>3, <2>1, <3>1
        <4>. QED
          BY <1>5, <2>1, <4>1
      <3>4. Max(R(q)) = k
        BY <1>1, <1>3, <3>2, <3>3, GreatestIs
      <3>. QED
        BY <3>2, <3>4
    <2>3. CASE n < j
      <3> DEFINE k == n + n - j + 1
      <3>1. k \in 1..n /\ j = n + n - k + 1
        BY <1>1, <2>3
      <3>. HIDE DEF k
      <3>2. k \in V(q) /\ cases[i].sql = store[k].ran
        BY <1>4, <2>1, <3>1
      <3>3. R(q) = {}
        <4> SUFFICES ASSUME NEW m \in R(q) PROVE FALSE
          OBVIOUS
        <4>1. n - m + 1 \in 1..n
          BY <1>5
        <4>2. n - m + 1 \in 1..(j - 1)
          BY <1>1, <2>1, <2>3, <4>1
        <4>. QED
          BY <1>5, <2>1, <4>2
      <3>4. \A m \in V(q) : m <= k
        <4> SUFFICES ASSUME NEW m \in V(q), m > k PROVE FALSE
          BY <1>1, <1>3, <3>1
        <4>1. m \in 1..n /\ n + n - m + 1 \in 1..(j - 1)
          BY <1>1, <1>3, <2>1, <3>1
        <4>. QED
          BY <1>5, <2>1, <4>1
      <3>5. Max(V(q)) = k
        BY <1>1, <1>3, <3>2, <3>4, GreatestIs
      <3>. QED
        BY <3>2, <3>3, <3>5
    <2>. QED
      BY <1>1, <2>1, <2>2, <2>3
  <1>9. ASSUME NEW i \in DOMAIN cases
        PROVE  cases[i] = [question |-> cases[i].question, sql |-> cases[i].sql,
                           ordered |-> Orders(cases[i].sql)]
    <2>1. cases[i] \in S
      BY <1>2 DEF Kept
    <2>. QED
      BY <2>1 DEF S, Offers
  <1>. QED
    BY <1>6, <1>7, <1>8, <1>9, Zenon DEF FollowsVerdicts, cases, R, V, Referred, Vouched, About

=============================================================================
