---------------------------- MODULE DecisionProofs ----------------------------
(***************************************************************************)
(* Proofs about the decisions: how one is made (Evidence,                  *)
(* DecisionEvaluate) and what the server keeps of it (DecisionLedger).     *)
(***************************************************************************)
EXTENDS DecisionLedger, DecisionEvaluate, FiniteSetTheorems, WellFoundedInduction, TLAPS

-----------------------------------------------------------------------------
(* Induction.  A least counterexample exists because the strict subset     *)
(* order on finite sets is well founded (WFMin); a property is given as    *)
(* the set of the values that have it.                                     *)

\* A non-empty set of natural numbers has a least element.
LEMMA LeastElement ==
  ASSUME NEW T \in SUBSET Nat, T # {}
  PROVE  \E m \in T : \A n \in T : m <= n
<1> DEFINE U == {0..k : k \in T}
<1>1. U \subseteq FiniteSubsetsOf(Nat)
  <2>1. \A k \in T : IsFiniteSet(0..k) BY FS_Interval
  <2> QED BY <2>1 DEF FiniteSubsetsOf
<1>2. U # {} OBVIOUS
<1>3. IsWellFoundedOn(StrictSubsetOrdering(Nat), FiniteSubsetsOf(Nat))
  BY FS_StrictSubsetOrderingWellFounded
<1> HIDE DEF U
<1>4. PICK x \in U : \A y \in U : ~(<<y, x>> \in StrictSubsetOrdering(Nat))
  BY <1>1, <1>2, <1>3, WFMin
<1>5. PICK m \in T : x = 0..m BY DEF U
<1>6. ASSUME NEW n \in T, n < m PROVE FALSE
  <2>1. 0..n \in U BY DEF U
  <2>2. 0..n \in SUBSET Nat /\ 0..m \in SUBSET Nat OBVIOUS
  <2>3. (0..n) \subseteq (0..m) BY <1>6
  <2>4. m \in 0..m /\ m \notin 0..n BY <1>6
  <2>5. 0..n # 0..m BY <2>4
  <2>6. <<0..n, 0..m>> \in StrictSubsetOrdering(Nat)
    BY <2>2, <2>3, <2>5 DEF StrictSubsetOrdering
  <2> QED BY <2>1, <2>6, <1>4, <1>5
<1> QED BY <1>6

\* Induction over the natural numbers up to a bound.
LEMMA Induction ==
  ASSUME NEW n \in Nat, NEW G, 0 \in G, \A k \in 0..n - 1 : k \in G => k + 1 \in G
  PROVE  0..n \subseteq G
<1> SUFFICES ASSUME (0..n) \ G # {} PROVE FALSE OBVIOUS
<1>1. PICK m \in (0..n) \ G : \A k \in (0..n) \ G : m <= k
  <2>1. (0..n) \ G \in SUBSET Nat OBVIOUS
  <2> QED BY <2>1, LeastElement
<1>2. m # 0 /\ m - 1 \in 0..n - 1 /\ m - 1 < m OBVIOUS
<1>3. m - 1 \in 0..n /\ m - 1 \in G BY <1>1, <1>2
<1>4. (m - 1) + 1 \in G BY <1>2, <1>3
<1> QED BY <1>4

\* Induction over a finite set, one element after the other.
LEMMA SetInduction ==
  ASSUME NEW S, IsFiniteSet(S), NEW G, {} \in G,
         \A T \in SUBSET S : \A x \in S \ T : T \in G => T \cup {x} \in G
  PROVE  \A T \in SUBSET S : T \in G
<1> SUFFICES ASSUME (SUBSET S) \ G # {} PROVE FALSE OBVIOUS
<1>1. SUBSET S = FiniteSubsetsOf(S) BY FS_FiniteSubsetsOfFinite
<1>2. IsWellFoundedOn(StrictSubsetOrdering(S), FiniteSubsetsOf(S))
  BY FS_StrictSubsetOrderingWellFounded
<1>3. PICK T \in (SUBSET S) \ G :
        \A U \in (SUBSET S) \ G : ~(<<U, T>> \in StrictSubsetOrdering(S))
  <2>1. (SUBSET S) \ G \subseteq FiniteSubsetsOf(S) BY <1>1
  <2> QED BY <1>2, <2>1, WFMin
<1>4. PICK x \in T : TRUE OBVIOUS
<1>5. T \ {x} \in SUBSET S /\ T \ {x} # T /\ (T \ {x}) \subseteq T /\ x \in S \ (T \ {x})
  BY <1>4
<1>6. <<T \ {x}, T>> \in StrictSubsetOrdering(S)
  BY <1>5 DEF StrictSubsetOrdering
<1>7. T \ {x} \in G BY <1>3, <1>5, <1>6
<1>8. (T \ {x}) \cup {x} = T BY <1>4
<1> QED BY <1>5, <1>7, <1>8

-----------------------------------------------------------------------------
(* Sums.  A recursive function is what its definition says because some    *)
(* function satisfies the equation, on ever larger arguments.              *)

SumStep(T, f, g) ==
  IF T = {} THEN 0 ELSE f[CHOOSE x \in T : TRUE] + g[T \ {CHOOSE x \in T : TRUE}]

IsSum(g, S, f) == g = [T \in SUBSET S |-> SumStep(T, f, g)]

\* The recursion of SumOver has a solution.
LEMMA SumExists ==
  ASSUME NEW S, IsFiniteSet(S), NEW f
  PROVE  \E g : IsSum(g, S, f)
<1> DEFINE small(n) == {T \in SUBSET S : Cardinality(T) <= n}
           G == {n \in Nat : \E g : g = [T \in small(n) |-> SumStep(T, f, g)]}
           N == Cardinality(S)
<1>1. N \in Nat /\ \A T \in SUBSET S : IsFiniteSet(T) /\ Cardinality(T) \in Nat /\ Cardinality(T) <= N
  BY FS_CardinalityType, FS_Subset
<1>2. 0 \in G
  <2>1. small(0) = {{}}
    BY <1>1, FS_EmptySet
  <2> DEFINE g == [T \in {{}} |-> 0]
  <2>2. g = [T \in small(0) |-> SumStep(T, f, g)]
    BY <2>1 DEF SumStep
  <2> QED BY <2>2
<1>3. ASSUME NEW k \in 0..N - 1, k \in G PROVE k + 1 \in G
  <2>1. PICK g : g = [T \in small(k) |-> SumStep(T, f, g)]
    BY <1>3
  <2> DEFINE h == [T \in small(k + 1) |-> SumStep(T, f, g)]
  <2>2. \A T \in small(k) : T \in small(k + 1) /\ h[T] = g[T]
    BY <1>1, <2>1
  <2>3. ASSUME NEW T \in small(k + 1) PROVE SumStep(T, f, g) = SumStep(T, f, h)
    <3>1. CASE T = {}
      BY <3>1 DEF SumStep
    <3>2. CASE T # {}
      <4> DEFINE x == CHOOSE x \in T : TRUE
      <4>1. x \in T BY <3>2
      <4>2. Cardinality(T \ {x}) = Cardinality(T) - 1
        BY <4>1, <1>1, FS_RemoveElement
      <4>3. T \ {x} \in small(k)
        BY <4>2, <1>1, <1>3
      <4>4. g[T \ {x}] = h[T \ {x}]
        BY <2>2, <4>3
      <4> QED BY <4>4, <3>2 DEF SumStep
    <3> QED BY <3>1, <3>2
  <2>4. h = [T \in small(k + 1) |-> SumStep(T, f, h)]
    BY <2>3
  <2>5. k + 1 \in Nat BY <1>3
  <2> QED BY <2>4, <2>5
<1>4. N \in 0..N /\ 0..N \subseteq G
  <2> HIDE DEF G
  <2>1. \A k \in 0..N - 1 : k \in G => k + 1 \in G
    BY <1>3
  <2>2. 0..N \subseteq G
    BY <1>1, <1>2, <2>1, Induction
  <2> QED BY <2>2, <1>1
<1>5. small(N) = SUBSET S
  BY <1>1
<1> QED BY <1>4, <1>5 DEF IsSum

\* SumOver satisfies it.
LEMMA SumOverIs ==
  ASSUME NEW S, IsFiniteSet(S), NEW f
  PROVE  \E g : SumOver(S, f) = g[S] /\ IsSum(g, S, f)
<1> DEFINE g == CHOOSE g : IsSum(g, S, f)
<1>1. IsSum(g, S, f)
  BY SumExists
<1>2. SumOver(S, f) = g[S]
  BY DEF SumOver, IsSum, SumStep
<1> QED BY <1>1, <1>2

LEMMA TimesSuccessor == \A b, n \in Nat : b * n \in Nat /\ b * (n + 1) = b * n + b
BY Z3

\* A sum of n numbers up to b is at most b times n.
LEMMA SumBound ==
  ASSUME NEW S, IsFiniteSet(S), NEW f, NEW b \in Nat, \A x \in S : f[x] \in Nat /\ f[x] <= b
  PROVE  SumOver(S, f) \in Nat /\ SumOver(S, f) <= b * Cardinality(S)
<1>0. PICK g : SumOver(S, f) = g[S] /\ IsSum(g, S, f)
  BY SumOverIs
<1>1. SumOver(S, f) = g[S] /\ g = [T \in SUBSET S |-> SumStep(T, f, g)]
  BY <1>0 DEF IsSum
<1> DEFINE N == Cardinality(S)
           bounded(n) == \A T \in SUBSET S : Cardinality(T) = n => g[T] \in Nat /\ g[T] <= b * n
           G == {n \in Nat : bounded(n)}
<1>2. N \in Nat /\ \A T \in SUBSET S : IsFiniteSet(T) /\ Cardinality(T) \in Nat
  BY FS_CardinalityType, FS_Subset
<1>3. 0 \in G
  <2> SUFFICES ASSUME NEW T \in SUBSET S, Cardinality(T) = 0 PROVE g[T] \in Nat /\ g[T] <= b * 0
    OBVIOUS
  <2>1. T = {} BY <1>2, FS_EmptySet
  <2>2. g[T] = 0 BY <1>1, <2>1 DEF SumStep
  <2>3. b * 0 = 0 OBVIOUS
  <2> QED BY <2>2, <2>3
<1>4. ASSUME NEW k \in 0..N - 1, k \in G PROVE k + 1 \in G
  <2> SUFFICES ASSUME NEW T \in SUBSET S, Cardinality(T) = k + 1
               PROVE  g[T] \in Nat /\ g[T] <= b * (k + 1)
    BY <1>4
  <2> DEFINE x == CHOOSE x \in T : TRUE
             U == T \ {x}
  <2>0. Cardinality(T) # 0 BY <1>4
  <2>1. T # {} BY <2>0, FS_EmptySet
  <2>2. x \in T BY <2>1
  <2>3. g[T] = f[x] + g[U]
    BY <1>1, <2>1 DEF SumStep
  <2> HIDE DEF x
  <2>8. Cardinality(U) = Cardinality(T) - 1
    BY <1>2, <2>2, FS_RemoveElement
  <2>4. Cardinality(U) = k /\ U \in SUBSET S
    BY <1>4, <2>8
  <2>5. g[U] \in Nat /\ g[U] <= b * k
    BY <1>4, <2>4
  <2>6. f[x] \in Nat /\ f[x] <= b
    BY <2>2
  <2>7. k \in Nat /\ b * k \in Nat /\ b * (k + 1) = b * k + b
    BY <1>4, TimesSuccessor
  <2> HIDE DEF U
  <2> QED BY <2>3, <2>5, <2>6, <2>7
<1>5. N \in G
  <2> HIDE DEF G
  <2>1. \A k \in 0..N - 1 : k \in G => k + 1 \in G
    BY <1>4
  <2>2. 0..N \subseteq G
    BY <1>2, <1>3, <2>1, Induction
  <2> QED BY <2>2, <1>2
<1> QED BY <1>1, <1>5

-----------------------------------------------------------------------------
(* Flakiness scores. *)

LEMMA Quotient ==
  \A x \in Nat, n \in Nat \ {0} : x \div n \in Nat /\ n * (x \div n) <= x
BY Z3

LEMMA ProductOrder == \A n \in Nat \ {0}, q, k \in Nat : n * q <= n * k => q <= k
BY Z3

LEMMA QuotientBound ==
  ASSUME NEW x \in Nat, NEW n \in Nat \ {0}, NEW k \in Nat, x <= n * k
  PROVE  x \div n \in Nat /\ x \div n <= k
<1> DEFINE q == x \div n
<1>1. q \in Nat /\ n * q <= x
  BY Quotient
<1> HIDE DEF q
<1>2. n * q \in Int /\ n * k \in Int BY <1>1
<1>3. n * q <= n * k
  BY <1>1, <1>2
<1>4. q <= k
  BY <1>1, <1>3, ProductOrder
<1> QED BY <1>1, <1>4 DEF q

\* score_flakiness_history: a score is at most 1, and at most 0.15 where no
\* verdict was noisy.
LEMMA ScoreBound ==
  ASSUME NEW D, IsFiniteSet(D), D # {}, NEW cvs \in [D -> Nat]
  PROVE  /\ Score(cvs) \in Nat /\ Score(cvs) <= 1000
         /\ (\A x \in D : cvs[x] <= HighCv) => Score(cvs) <= 150
<1> DEFINE n == Cardinality(D)
           loud == {x \in D : cvs[x] > HighCv}
           noisy == Cardinality(loud)
           severity == [x \in D |-> IF cvs[x] < 2 * HighCv THEN cvs[x] ELSE 2 * HighCv]
           total == SumOver(D, severity)
<1>0. HighCv = 30 /\ 2 * HighCv = 60
  BY DEF HighCv
<1>1. n \in Nat \ {0}
  BY FS_CardinalityType, FS_EmptySet
<1>2. noisy \in Nat /\ noisy <= n
  <2>1. loud \in SUBSET D /\ IsFiniteSet(loud)
    BY FS_Subset
  <2> QED BY <2>1, FS_Subset, FS_CardinalityType
<1>3. total \in Nat /\ total <= 60 * n
  <2>1. \A x \in D : severity[x] \in Nat /\ severity[x] <= 60
    BY <1>0
  <2> HIDE DEF severity
  <2> QED BY <2>1, SumBound
<1>4. Score(cvs) = (700 * noisy + (300 * total) \div 60) \div n
  <2>1. DOMAIN cvs = D OBVIOUS
  <2> QED BY <2>1, <1>0 DEF Score
<1>5. ASSUME \A x \in D : cvs[x] <= HighCv
      PROVE  noisy = 0 /\ total <= 30 * n
  <2>1. loud = {} /\ \A x \in D : severity[x] \in Nat /\ severity[x] <= 30
    BY <1>0, <1>5
  <2> HIDE DEF severity
  <2> QED BY <2>1, SumBound, FS_EmptySet
<1> HIDE DEF n, noisy, total
<1> DEFINE x == 700 * noisy + (300 * total) \div 60
<1>6. (300 * total) \div 60 = 5 * total /\ x \in Nat /\ x = 700 * noisy + 5 * total
  BY <1>2, <1>3
<1>7. x <= n * 1000
  BY <1>1, <1>2, <1>3, <1>6
<1>8. ASSUME noisy = 0, total <= 30 * n PROVE x <= n * 150
  BY <1>1, <1>3, <1>6, <1>8
<1> HIDE DEF x
<1>9. Score(cvs) = x \div n
  BY <1>4 DEF x
<1>10. Score(cvs) \in Nat /\ Score(cvs) <= 1000
  BY <1>1, <1>6, <1>7, <1>9, QuotientBound
<1>11. ASSUME \A y \in D : cvs[y] <= HighCv PROVE Score(cvs) <= 150
  <2>1. x <= n * 150 BY <1>5, <1>8, <1>11
  <2> QED BY <1>1, <1>6, <1>9, <2>1, QuotientBound
<1> QED BY <1>10, <1>11

-----------------------------------------------------------------------------
(* Pages of a table. *)

\* A table: finitely many records, stamped, each with an id of its own.
Keyed(rows) ==
  /\ IsFiniteSet(rows)
  /\ \A r \in rows : r.id \in Nat /\ r.created_at \in Nat
  /\ \A r, s \in rows : r.id = s.id => r = s

Before(rows, r) == {s \in rows : NewestFirst(s, r)}
Rank(rows, r) == Cardinality(Before(rows, r))

\* Newer records have smaller ranks.
LEMMA RankOrder ==
  ASSUME NEW rows, Keyed(rows), NEW r \in rows, NEW s \in rows, r # s
  PROVE  /\ NewestFirst(r, s) => Rank(rows, r) < Rank(rows, s)
         /\ NewestFirst(r, s) \/ NewestFirst(s, r)
<1>1. NewestFirst(r, s) \/ NewestFirst(s, r)
  BY DEF Keyed, NewestFirst
<1>2. ASSUME NewestFirst(r, s) PROVE Rank(rows, r) < Rank(rows, s)
  <2>1. r.id # s.id
    BY DEF Keyed
  <2>2. s \in Before(rows, s) /\ s \notin Before(rows, r)
    BY <1>2, <2>1 DEF Before, NewestFirst, Keyed
  <2>3. Before(rows, r) \subseteq Before(rows, s)
    <3> SUFFICES ASSUME NEW t \in rows, NewestFirst(t, r) PROVE NewestFirst(t, s)
      BY DEF Before
    <3> QED BY <1>2 DEF NewestFirst, Keyed
  <2>4. IsFiniteSet(Before(rows, s)) /\ IsFiniteSet(Before(rows, r))
    BY FS_Subset DEF Before, Keyed
  <2>5. Rank(rows, r) \in Nat /\ Rank(rows, s) \in Nat
    BY <2>4, FS_CardinalityType DEF Rank
  <2>6. Rank(rows, r) <= Rank(rows, s) /\ Rank(rows, r) # Rank(rows, s)
    <3>1. Before(rows, r) \in SUBSET Before(rows, s) /\ Before(rows, s) # Before(rows, r)
      BY <2>2, <2>3
    <3> QED BY <2>4, <3>1, FS_Subset DEF Rank
  <2> QED BY <2>5, <2>6
<1> QED BY <1>1, <1>2

LEMMA RankRange ==
  ASSUME NEW rows, Keyed(rows), NEW r \in rows
  PROVE  Rank(rows, r) \in 1..Cardinality(rows)
<1>1. Before(rows, r) \in SUBSET rows /\ r \in Before(rows, r)
  BY DEF Before, NewestFirst, Keyed
<1>2. IsFiniteSet(rows)
  BY DEF Keyed
<1>3. IsFiniteSet(Before(rows, r)) /\ Rank(rows, r) <= Cardinality(rows)
  BY <1>1, <1>2, FS_Subset DEF Rank
<1>4. Rank(rows, r) \in Nat /\ Cardinality(rows) \in Nat
  BY <1>2, <1>3, FS_CardinalityType DEF Rank
<1>5. Rank(rows, r) # 0
  BY <1>1, <1>3, FS_EmptySet DEF Rank
<1> QED BY <1>3, <1>4, <1>5

\* The ranks number the records from 1 on.
LEMMA RankBijective ==
  ASSUME NEW rows, Keyed(rows)
  PROVE  /\ \A r, s \in rows : Rank(rows, r) = Rank(rows, s) => r = s
         /\ \A k \in 1..Cardinality(rows) : \E r \in rows : Rank(rows, r) = k
<1> DEFINE n == Cardinality(rows)
           rk == [r \in rows |-> Rank(rows, r)]
<1>0. IsFiniteSet(rows) /\ n \in Nat
  BY FS_CardinalityType DEF Keyed
<1>1. ASSUME NEW r \in rows, NEW s \in rows, Rank(rows, r) = Rank(rows, s) PROVE r = s
  <2>0. Rank(rows, r) \in Int /\ Rank(rows, s) \in Int
    BY RankRange, <1>0
  <2> QED BY <2>0, <1>1, RankOrder
<1>2. rk \in Injection(rows, 1..n)
  BY <1>1, RankRange DEF Injection, IsInjective
<1>3. IsFiniteSet(1..n) /\ Cardinality(1..n) = n
  BY <1>0, FS_Interval
<1>4. rk \in Surjection(rows, 1..n)
  BY <1>0, <1>2, <1>3, FS_Injection
<1>5. \A k \in 1..n : \E r \in rows : rk[r] = k
  BY <1>4 DEF Surjection
<1> QED BY <1>1, <1>5

\* A page has as many records as it may, if there are that many.
LEMMA PageSize ==
  ASSUME NEW rows, Keyed(rows), NEW limit \in Nat, NEW offset \in Nat
  PROVE  LET page == PageOf(rows, limit, offset) IN
         /\ IsFiniteSet(page) /\ Cardinality(page) \in Nat /\ Cardinality(page) <= limit
         /\ offset + limit <= Cardinality(rows) => Cardinality(page) = limit
<1> DEFINE page == PageOf(rows, limit, offset)
           places == offset + 1 .. offset + limit
           rk == [r \in page |-> Rank(rows, r)]
<1>1. \A r : r \in page <=> r \in rows /\ Rank(rows, r) \in places
  BY DEF PageOf, Rank, Before
<1>2. page \in SUBSET rows /\ IsFiniteSet(page) /\ Cardinality(page) \in Nat
  <2>1. IsFiniteSet(rows) /\ page \in SUBSET rows BY <1>1 DEF Keyed
  <2>2. IsFiniteSet(page) BY <2>1, FS_Subset
  <2> QED BY <2>1, <2>2, FS_CardinalityType
<1>3. IsFiniteSet(places) /\ Cardinality(places) = limit
  BY FS_Interval
<1> HIDE DEF page, places
<1>4. rk \in Injection(page, places)
  <2>1. rk \in [page -> places] BY <1>1
  <2>2. \A r, s \in page : rk[r] = rk[s] => r = s
    BY <1>2, RankBijective
  <2> QED BY <2>1, <2>2 DEF Injection, IsInjective
<1>5. Cardinality(page) <= limit /\ (Cardinality(page) = limit <=> rk \in Surjection(page, places))
  BY <1>3, <1>4, FS_Injection
<1>6. ASSUME offset + limit <= Cardinality(rows) PROVE Cardinality(page) = limit
  <2>0. Cardinality(rows) \in Nat BY FS_CardinalityType DEF Keyed
  <2>1. ASSUME NEW k \in places PROVE \E r \in page : rk[r] = k
    <3>1. k \in 1..Cardinality(rows) BY <1>6, <2>0, <2>1 DEF places
    <3>2. PICK r \in rows : Rank(rows, r) = k BY <3>1, RankBijective
    <3> QED BY <3>2, <1>1
  <2>2. rk \in [page -> places] BY <1>1
  <2>3. rk \in Surjection(page, places)
    BY <2>1, <2>2 DEF Surjection
  <2> QED BY <2>3, <1>5
<1> QED BY <1>2, <1>5, <1>6 DEF page

LEMMA PageOfPlace ==
  ASSUME NEW limit \in Nat \ {0}, NEW place \in Nat \ {0}
  PROVE  \E k \in 0..place - 1 : k * limit < place /\ place <= k * limit + limit
<1> DEFINE T == {k \in Nat : place <= k * limit + limit}
<1>1. place \in T
  <2>1. \A a, b \in Nat \ {0} : a <= a * b + b BY Z3
  <2> QED BY <2>1
<1>2. PICK k \in T : \A j \in T : k <= j
  <2>1. T \in SUBSET Nat OBVIOUS
  <2> HIDE DEF T
  <2> QED BY <1>1, <2>1, LeastElement
<1>3. k * limit < place
  <2>1. CASE k = 0
    BY <2>1
  <2>2. CASE k # 0
    <3>1. k - 1 \in Nat /\ k - 1 \notin T BY <1>2, <2>2
    <3>2. ~(place <= (k - 1) * limit + limit) BY <3>1
    <3>3. \A a, b \in Nat : (a - 1) * b + b = a * b /\ a * b \in Nat BY Z3
    <3> QED BY <3>2, <3>3
  <2> QED BY <2>1, <2>2
<1>4. k <= k * limit
  <2>1. \A a \in Nat, b \in Nat \ {0} : a <= a * b /\ a * b \in Nat BY Z3
  <2> QED BY <2>1
<1>5. k * limit \in Nat
  OBVIOUS
<1>6. k \in 0..place - 1
  BY <1>3, <1>4, <1>5
<1> QED BY <1>2, <1>3, <1>6

LEMMA EarlierPage ==
  ASSUME NEW k \in Nat, NEW j \in 0..k - 1, NEW limit \in Nat
  PROVE  j * limit + limit <= k * limit /\ j * limit \in Nat /\ k * limit \in Nat
<1>1. \A a, b \in Nat : (a + 1) * b = a * b + b /\ a * b \in Nat BY Z3
<1>2. \A a, b, c \in Nat : a <= b => a * c <= b * c BY Z3
<1>3. j + 1 \in Nat /\ j + 1 <= k OBVIOUS
<1>4. (j + 1) * limit <= k * limit BY <1>2, <1>3
<1> QED BY <1>1, <1>4

\* Pages that say there is more whenever a record lies behind them, asked for
\* one after the other, show every record.
LEMMA WalkIsComplete ==
  ASSUME NEW rows, Keyed(rows), NEW N \in Nat, Cardinality(rows) <= N,
         NEW limit \in Nat \ {0}, NEW page, DOMAIN page = 0..N,
         \A k \in 0..N :
           /\ page[k].items = PageOf(rows, limit, k * limit)
           /\ k * limit + limit < Cardinality(rows) => page[k].has_more
  PROVE  Walk(page) = rows
<1>0. Cardinality(rows) \in Nat
  BY FS_CardinalityType DEF Keyed
<1>1. Walk(page) \subseteq rows
  <2> SUFFICES ASSUME NEW r \in Walk(page) PROVE r \in rows
    OBVIOUS
  <2>1. PICK k \in 0..N : r \in page[k].items
    BY DEF Walk
  <2>2. r \in PageOf(rows, limit, k * limit)
    BY <2>1
  <2> QED BY <2>2 DEF PageOf
<1>2. ASSUME NEW r \in rows PROVE r \in Walk(page)
  <2> DEFINE place == Rank(rows, r)
  <2>1. place \in 1..Cardinality(rows)
    BY RankRange
  <2> HIDE DEF place
  <2>0. place \in Nat \ {0} BY <1>0, <2>1
  <2>2. PICK k \in 0..place - 1 : k * limit < place /\ place <= k * limit + limit
    BY <2>0, PageOfPlace
  <2>3. k \in 0..N /\ k \in Nat /\ k * limit \in Nat
    <3>1. \A a, b \in Nat : a * b \in Nat BY Z3
    <3> QED BY <1>0, <2>0, <2>1, <2>2, <3>1
  <2>4. \A j \in 0..k - 1 : page[j].has_more
    <3> SUFFICES ASSUME NEW j \in 0..k - 1 PROVE page[j].has_more
      OBVIOUS
    <3>1. j * limit + limit <= k * limit /\ j * limit \in Nat
      BY <2>3, EarlierPage
    <3>2. j * limit + limit < Cardinality(rows)
      <4>1. \A u, v, l, p, c \in Nat : u + l <= v /\ v < p /\ p <= c => u + l < c
        OBVIOUS
      <4>2. place \in Nat /\ place <= Cardinality(rows) /\ limit \in Nat
        BY <1>0, <2>1
      <4> QED BY <4>1, <4>2, <1>0, <2>2, <2>3, <3>1
    <3>3. j \in 0..N BY <2>3
    <3> QED BY <3>2, <3>3
  <2>5. place \in k * limit + 1 .. k * limit + limit
    BY <2>0, <2>2, <2>3
  <2>6. r \in page[k].items
    <3>1. r \in PageOf(rows, limit, k * limit)
      BY <2>5 DEF place, Rank, Before, PageOf
    <3> QED BY <2>3, <3>1
  <2> QED BY <2>3, <2>4, <2>6 DEF Walk
<1> QED BY <1>1, <1>2

FilteredPages(page, rows, q, limit, N) ==
  /\ DOMAIN page = 0..N
  /\ \A k \in 0..N : /\ page[k] = FilteredPage(rows, q[k])
                     /\ q[k].limit = limit /\ q[k].offset = k * limit

CountedPages(page, rows, counted, q, limit, N) ==
  /\ DOMAIN page = 0..N
  /\ \A k \in 0..N : /\ page[k] = CountedPage(rows, counted, q[k])
                     /\ q[k].limit = limit /\ q[k].offset = k * limit

\* So do both ways of answering: has_more told from the page itself, and from a
\* count of at least the records that match.
LEMMA FilteredWalk ==
  ASSUME NEW rows, Keyed(rows), NEW N \in Nat, Cardinality(rows) <= N,
         NEW limit \in Nat \ {0}, NEW page, NEW q, FilteredPages(page, rows, q, limit, N)
  PROVE  Walk(page) = rows
<1>0. \A k \in 0..N : /\ page[k] = FilteredPage(rows, q[k])
                      /\ q[k].limit = limit /\ q[k].offset = k * limit
  BY DEF FilteredPages
<1>9. DOMAIN page = 0..N
  BY DEF FilteredPages
<1> SUFFICES ASSUME NEW k \in 0..N
             PROVE  /\ page[k].items = PageOf(rows, limit, k * limit)
                    /\ k * limit + limit < Cardinality(rows) => page[k].has_more
  BY <1>9, WalkIsComplete
<1>1. page[k] = Response(PageOf(rows, limit, k * limit), Cardinality(rows),
                         k * limit + Cardinality(PageOf(rows, limit, k * limit)) < Cardinality(rows))
  BY <1>0 DEF FilteredPage
<1>2. k * limit \in Nat
  <2>1. \A a, b \in Nat : a * b \in Nat BY Z3
  <2> QED BY <2>1
<1>3. Cardinality(PageOf(rows, limit, k * limit)) \in Nat
      /\ Cardinality(PageOf(rows, limit, k * limit)) <= limit
  BY <1>2, PageSize
<1>4. Cardinality(rows) \in Nat
  BY FS_CardinalityType DEF Keyed
<1>5. page[k].items = PageOf(rows, limit, k * limit)
      /\ page[k].has_more =
           (k * limit + Cardinality(PageOf(rows, limit, k * limit)) < Cardinality(rows))
  BY <1>1 DEF Response
<1>6. \A u, l, p, c \in Nat : p <= l /\ u + l < c => u + p < c
  OBVIOUS
<1>7. k * limit + limit < Cardinality(rows)
      => k * limit + Cardinality(PageOf(rows, limit, k * limit)) < Cardinality(rows)
  BY <1>2, <1>3, <1>4, <1>6
<1> QED BY <1>5, <1>7, Zenon

LEMMA CountedWalk ==
  ASSUME NEW rows, Keyed(rows), NEW N \in Nat, Cardinality(rows) <= N,
         NEW limit \in Nat \ {0}, NEW page, NEW q, NEW counted, IsFiniteSet(counted),
         rows \subseteq counted, CountedPages(page, rows, counted, q, limit, N)
  PROVE  Walk(page) = rows
<1>0. \A k \in 0..N : /\ page[k] = CountedPage(rows, counted, q[k])
                      /\ q[k].limit = limit /\ q[k].offset = k * limit
  BY DEF CountedPages
<1>9. DOMAIN page = 0..N
  BY DEF CountedPages
<1> SUFFICES ASSUME NEW k \in 0..N
             PROVE  /\ page[k].items = PageOf(rows, limit, k * limit)
                    /\ k * limit + limit < Cardinality(rows) => page[k].has_more
  BY <1>9, WalkIsComplete
<1>1. page[k] = Response(PageOf(rows, limit, k * limit), Cardinality(counted),
                         k * limit + limit < Cardinality(counted))
  <2>1. page[k] = CountedPage(rows, counted, q[k]) /\ q[k].limit = limit /\ q[k].offset = k * limit
    BY <1>0
  <2> QED BY <2>1 DEF CountedPage
<1>2. k * limit \in Nat
  <2>1. \A a, b \in Nat : a * b \in Nat BY Z3
  <2> QED BY <2>1
<1>3. Cardinality(rows) \in Nat /\ Cardinality(counted) \in Nat
      /\ Cardinality(rows) <= Cardinality(counted)
  BY FS_CardinalityType, FS_Subset DEF Keyed
<1>5. page[k].items = PageOf(rows, limit, k * limit)
      /\ page[k].has_more = (k * limit + limit < Cardinality(counted))
  BY <1>1 DEF Response
<1>6. \A u, l, b, c \in Nat : b <= c /\ u + l < b => u + l < c
  OBVIOUS
<1>7. k * limit + limit < Cardinality(rows) => k * limit + limit < Cardinality(counted)
  BY <1>2, <1>3, <1>6
<1> QED BY <1>5, <1>7, Zenon

-----------------------------------------------------------------------------
(***************************************************************************)
(* DecisionLedger.  The invariant ties each handler to its step, each      *)
(* record to the request that made it, and what a handler has read before  *)
(* an await to the table as it is after it.                                *)
(***************************************************************************)

\* Requests whose record, if they make one, is in its table or never will be.
Past == {q \in Requests : pc[q] \in {"audit", "done", "lost"}}

\* Which request can be at which step, and what it holds there.
StepOf(r) ==
  /\ reply[r] # 0 <=> pc[r] = "done"
  /\ pc[r] \in {"idle", "lost"} => call[r] = Null
  /\ pc[r] \notin {"idle", "lost", "done"} => call[r] \in Call
  /\ pc[r] = "history" => call[r].op = "submit"
  /\ pc[r] = "create" =>
       /\ draft[r] # Null /\ draft[r].id = r
       /\ \/ call[r].op = "submit" /\ draft[r] \in VerdictRecord
          \/ call[r].op = "upload" /\ draft[r] \in DecisionRecord
  /\ pc[r] \in {"match", "remove"} => call[r].op = "prune"
  /\ pc[r] = "remove" => ~call[r].dry_run /\ Durable
  /\ pc[r] = "read" => call[r].op = "latest"
  /\ pc[r] = "audit" => (call[r].op = "prune" => ~call[r].dry_run)

Steps == \A r \in Requests : StepOf(r)

\* A request makes at most one record of each kind, and before it answers.
OwnRecords(table) ==
  /\ \A t \in table : t.id \in Past
  /\ \A t, u \in table : t.id = u.id => t = u

Tables ==
  /\ OwnRecords(verdicts) /\ OwnRecords(decisions) /\ OwnRecords(audit)
  /\ \A e \in audit : pc[e.id] = "done" /\ e.created_at <= clock

Gone == UNION {removed[q] : q \in Requests}

\* What a prune has selected and not yet deleted: of the decisions
\* acknowledged by then none is forgotten, and none of its own has vanished.
Selected(p) ==
  /\ \A d \in decisions :
       d.created_at < call[p].older_than /\ d.id \in settled[p] => d.id \in ids[p]
  /\ \A q \in ids[p] :
       q \in Gone \/ \E d \in decisions : d.id = q /\ d.created_at < call[p].older_than

Reported(p) ==
  IF call[p].dry_run THEN removed[p] = {}
  ELSE removed[p] \cap settled[p] \subseteq ids[p] /\ ids[p] \subseteq Gone

PruneOf(p) ==
  /\ settled[p] \subseteq {q \in Requests : pc[q] = "done"}
  /\ pc[p] \in {"idle", "match", "remove"} => removed[p] = {}
  /\ pc[p] = "remove" => Selected(p)
  /\ pc[p] \in {"audit", "done"} /\ call[p] # Null =>
       (call[p].op = "prune" => Reported(p))

PruneInv == \A p \in Requests : PruneOf(p)

\* The history and the score of a verdict are accounted for by the table.
Sourced(v, seen, table, past) ==
  /\ v.flakiness_score <= 1000
  /\ v.history \subseteq past
  /\ \A u \in table : (u.id \in seen \ v.history) =>
       /\ Cardinality(v.history) = HistoryLimit - 1
       /\ \A w \in table : w.id \in v.history => w.created_at >= u.created_at
  /\ v.flakiness_score > 150 =>
       \/ v.wall_ms_cv > HighCv
       \/ \E u \in table : u.id \in v.history /\ u.wall_ms_cv > HighCv

ScoreInv ==
  /\ \A v \in verdicts : Sourced(v, settled[v.id], verdicts, Past)
  /\ \A r \in Requests : (pc[r] = "create" /\ call[r].op = "submit")
       => Sourced(draft[r], settled[r], verdicts, Past)

LedgerInv == TypeOK /\ Steps /\ Tables /\ PruneInv /\ ScoreInv

LEMMA CallCases ==
  \A c \in Call : /\ c.op \in Ops
                  /\ c.op = "submit" => c.cv \in Variations
                  /\ c.op = "prune" => c.older_than \in Nat /\ c.dry_run \in BOOLEAN
<1> SUFFICES ASSUME NEW c \in Call
             PROVE  /\ c.op \in Ops
                    /\ c.op = "submit" => c.cv \in Variations
                    /\ c.op = "prune" => c.older_than \in Nat /\ c.dry_run \in BOOLEAN
  OBVIOUS
<1>1. CASE c \in [op : {"submit"}, cv : Variations]
  BY <1>1 DEF Ops
<1>2. CASE c \in [op : {"upload", "latest"}]
  BY <1>2 DEF Ops
<1>3. ASSUME NEW p \in Prunes,
             c = [op |-> "prune", older_than |-> p.older_than, dry_run |-> p.dry_run]
      PROVE  c.op = "prune" /\ c.older_than \in Nat /\ c.dry_run \in BOOLEAN
  BY <1>3, PrunesAssumption
<1> QED BY <1>1, <1>2, <1>3 DEF Call, Ops

LEMMA NullApart ==
  /\ \A c \in Call : c # Null
  /\ \A d \in VerdictRecord \cup DecisionRecord : d # Null
BY NullAssumption

\* What a handler's answer changes, and what moving on to its next await does.
LEMMA RespondFacts ==
  ASSUME TypeOK, NEW r \in Requests, NEW s \in Statuses, Respond(r, s)
  PROVE  /\ pc' \in [Requests -> PCs] /\ reply' \in [Requests -> Statuses]
         /\ draft' \in [Requests -> VerdictRecord \cup DecisionRecord \cup {Null}]
         /\ call' \in [Requests -> Call \cup {Null}]
         /\ \A x \in Requests \ {r} : /\ pc'[x] = pc[x] /\ reply'[x] = reply[x]
                                      /\ draft'[x] = draft[x] /\ call'[x] = call[x]
         /\ pc'[r] = "done" /\ reply'[r] = s /\ draft'[r] = Null
         /\ call'[r] = IF s = 200 THEN call[r] ELSE Null
<1>1. pc' \in [Requests -> PCs] /\ pc'[r] = "done"
      /\ \A x \in Requests \ {r} : pc'[x] = pc[x]
  BY DEF TypeOK, Respond, PCs
<1>2. reply' \in [Requests -> Statuses] /\ reply'[r] = s
      /\ \A x \in Requests \ {r} : reply'[x] = reply[x]
  BY DEF TypeOK, Respond
<1>3. draft' \in [Requests -> VerdictRecord \cup DecisionRecord \cup {Null}] /\ draft'[r] = Null
      /\ \A x \in Requests \ {r} : draft'[x] = draft[x]
  BY DEF TypeOK, Respond
<1>4. call' \in [Requests -> Call \cup {Null}] /\ call'[r] = (IF s = 200 THEN call[r] ELSE Null)
      /\ \A x \in Requests \ {r} : call'[x] = call[x]
  BY DEF TypeOK, Respond
<1> QED BY <1>1, <1>2, <1>3, <1>4

LEMMA GotoFacts ==
  ASSUME TypeOK, NEW r \in Requests, NEW step \in PCs, Goto(r, step)
  PROVE  /\ pc' \in [Requests -> PCs] /\ reply' = reply /\ pc'[r] = step
         /\ \A x \in Requests \ {r} : pc'[x] = pc[x]
BY DEF TypeOK, Goto

\* A handler that has finished stays finished, one that has made its record has.
Onward ==
  \A x \in Requests : /\ x \in Past => x \in Past'
                      /\ pc[x] = "done" => pc'[x] = "done"

LEMMA OnwardStep ==
  ASSUME NEW r \in Requests, \A x \in Requests \ {r} : pc'[x] = pc[x],
         pc'[r] = "done" \/ pc[r] \notin {"audit", "done", "lost"}
  PROVE  Onward
BY DEF Onward, Past

\* Tables that only lose records keep their ids apart.
LEMMA TablesShrink ==
  ASSUME TypeOK, Tables, Onward, verdicts' \subseteq verdicts, decisions' \subseteq decisions,
         audit' \subseteq audit, clock' \in Nat, clock' >= clock
  PROVE  Tables'
<1>1. OwnRecords(verdicts)' /\ OwnRecords(decisions)' /\ OwnRecords(audit)'
  <2>0. \A x \in Past : x \in Past' BY DEF Onward, Past
  <2> QED BY <2>0 DEF Tables, OwnRecords
<1>2. ASSUME NEW e \in audit' PROVE pc'[e.id] = "done" /\ e.created_at <= clock'
  <2>1. e \in audit /\ e.id \in Requests /\ e.created_at \in Nat /\ clock \in Nat
    BY DEF TypeOK, AuditEvent
  <2>2. pc[e.id] = "done" /\ e.created_at <= clock BY <2>1 DEF Tables
  <2> QED BY <2>1, <2>2 DEF Onward
<1> QED BY <1>1, <1>2 DEF Tables

\* Scores rest on verdicts that are there to stay.
LEMMA ScoresKept ==
  ASSUME TypeOK, Tables, ScoreInv, Onward, verdicts' = verdicts,
         \A x \in Past : settled'[x] = settled[x],
         \A x \in Requests : (pc'[x] = "create" /\ call'[x].op = "submit")
           => /\ pc[x] = "create" /\ call[x] = call'[x]
              /\ draft'[x] = draft[x] /\ settled'[x] = settled[x]
  PROVE  ScoreInv'
<1>0. Past \subseteq Past' BY DEF Onward, Past
<1>1. ASSUME NEW v, NEW seen, Sourced(v, seen, verdicts, Past)
      PROVE  Sourced(v, seen, verdicts', Past')
  BY <1>0, <1>1 DEF Sourced
<1>2. ASSUME NEW v \in verdicts' PROVE Sourced(v, settled'[v.id], verdicts', Past')
  <2>1. v \in verdicts /\ v.id \in Past BY DEF Tables, OwnRecords
  <2>2. Sourced(v, settled[v.id], verdicts, Past) /\ settled'[v.id] = settled[v.id]
    BY <2>1 DEF ScoreInv
  <2> QED BY <1>1, <2>2
<1>3. ASSUME NEW x \in Requests, pc'[x] = "create", call'[x].op = "submit"
      PROVE  Sourced(draft'[x], settled'[x], verdicts', Past')
  <2>0. pc[x] = "create" /\ call[x].op = "submit"
        /\ draft'[x] = draft[x] /\ settled'[x] = settled[x]
    BY <1>3
  <2>1. Sourced(draft[x], settled[x], verdicts, Past) BY <2>0 DEF ScoreInv
  <2> QED BY <1>1, <2>0, <2>1
<1> QED BY <1>2, <1>3 DEF ScoreInv

\* A step of one handler leaves the others where they are.
LEMMA StepsKept ==
  ASSUME Steps, NEW r \in Requests, backend' = backend, StepOf(r)',
         \A x \in Requests \ {r} : /\ pc'[x] = pc[x] /\ reply'[x] = reply[x]
                                   /\ draft'[x] = draft[x] /\ call'[x] = call[x]
  PROVE  Steps'
<1> SUFFICES ASSUME NEW x \in Requests PROVE StepOf(x)'
  BY DEF Steps
<1>1. CASE x = r
  BY <1>1
<1>2. CASE x # r
  <2>1. StepOf(x) /\ pc'[x] = pc[x] /\ reply'[x] = reply[x]
        /\ draft'[x] = draft[x] /\ call'[x] = call[x]
    BY <1>2 DEF Steps
  <2> QED BY <2>1 DEF StepOf, Durable
<1> QED BY <1>1, <1>2

\* What a prune has selected or reported stands while another handler inserts
\* its own record or deletes and says so.
LEMMA PrunesKept ==
  ASSUME TypeOK, PruneInv, Onward, NEW r \in Requests, PruneOf(r)',
         removed' \in [Requests -> SUBSET Requests], removed[r] \subseteq removed'[r],
         \A x \in Requests \ {r} : /\ pc'[x] = pc[x] /\ call'[x] = call[x] /\ ids'[x] = ids[x]
                                   /\ removed'[x] = removed[x] /\ settled'[x] = settled[x],
         \A d \in decisions : d \in decisions' \/ d.id \in removed'[r],
         \A d \in decisions' : d \in decisions \/ pc[d.id] # "done"
  PROVE  PruneInv'
<1>1. Gone \subseteq Gone'
  BY DEF Gone, TypeOK
<1> SUFFICES ASSUME NEW p \in Requests \ {r} PROVE PruneOf(p)'
  BY DEF PruneInv
<1>2. PruneOf(p) BY DEF PruneInv
<1>3. /\ pc'[p] = pc[p] /\ call'[p] = call[p] /\ ids'[p] = ids[p]
      /\ removed'[p] = removed[p] /\ settled'[p] = settled[p]
  OBVIOUS
<1>4. settled'[p] \subseteq {q \in Requests : pc'[q] = "done"}
  BY <1>2, <1>3 DEF PruneOf, Onward
<1>5. pc'[p] \in {"idle", "match", "remove"} => removed'[p] = {}
  BY <1>2, <1>3 DEF PruneOf
<1>6. ASSUME pc'[p] = "remove" PROVE Selected(p)'
  <2>1. Selected(p) BY <1>2, <1>3, <1>6 DEF PruneOf
  <2>2. \A d \in decisions' : (d.created_at < call'[p].older_than /\ d.id \in settled'[p])
          => d.id \in ids'[p]
    BY <1>2, <1>3, <2>1 DEF Selected, PruneOf
  <2>3. ASSUME NEW q \in ids'[p]
        PROVE  q \in Gone' \/ \E d \in decisions' : d.id = q /\ d.created_at < call'[p].older_than
    <3>1. CASE q \in Gone BY <3>1, <1>1
    <3>2. ASSUME NEW d \in decisions, d.id = q, d.created_at < call[p].older_than
          PROVE  q \in Gone' \/ \E e \in decisions' : e.id = q /\ e.created_at < call'[p].older_than
      <4>1. CASE d \in decisions' BY <4>1, <3>2, <1>3
      <4>2. CASE d.id \in removed'[r] BY <4>2, <3>2 DEF Gone
      <4> QED BY <4>1, <4>2
    <3> QED BY <3>1, <3>2, <2>1, <1>3 DEF Selected
  <2> QED BY <2>2, <2>3 DEF Selected
<1>7. ASSUME pc'[p] \in {"audit", "done"}, call'[p] # Null, call'[p].op = "prune"
      PROVE  Reported(p)'
  <2>1. Reported(p) BY <1>2, <1>3, <1>7 DEF PruneOf
  <2> QED BY <2>1, <1>1, <1>3 DEF Reported
<1> QED BY <1>4, <1>5, <1>6, <1>7 DEF PruneOf

LEMMA LedgerInitial == Init => LedgerInv
<1> SUFFICES ASSUME Init PROVE LedgerInv
  OBVIOUS
<1>1. TypeOK
  BY DEF Init, TypeOK, PCs, Statuses
<1>2. Steps
  BY DEF Init, Steps, StepOf
<1>3. Tables
  BY DEF Init, Tables, OwnRecords
<1>4. PruneInv
  BY DEF Init, PruneInv, PruneOf
<1>5. ScoreInv
  BY DEF Init, ScoreInv
<1> QED BY <1>1, <1>2, <1>3, <1>4, <1>5 DEF LedgerInv

\* A handler answers: it is enough to look at the tables and at what it reports.
LEMMA AnswerStep ==
  ASSUME LedgerInv, NEW r \in Requests, NEW s \in Statuses \ {0}, Respond(r, s),
         TypeOK', Tables', ScoreInv', UNCHANGED backend, removed[r] \subseteq removed'[r],
         \A x \in Requests \ {r} :
           ids'[x] = ids[x] /\ removed'[x] = removed[x] /\ settled'[x] = settled[x],
         \A d \in decisions : d \in decisions' \/ d.id \in removed'[r],
         \A d \in decisions' : d \in decisions \/ pc[d.id] # "done",
         settled'[r] \subseteq {q \in Requests : pc[q] = "done"},
         (s = 200 /\ call[r] # Null /\ call[r].op = "prune") => Reported(r)'
  PROVE  LedgerInv'
<1>2. /\ \A x \in Requests \ {r} : /\ pc'[x] = pc[x] /\ reply'[x] = reply[x]
                                   /\ draft'[x] = draft[x] /\ call'[x] = call[x]
      /\ pc'[r] = "done" /\ reply'[r] = s /\ draft'[r] = Null
      /\ call'[r] = IF s = 200 THEN call[r] ELSE Null
  BY RespondFacts DEF LedgerInv
<1>4. Onward
  BY <1>2, OnwardStep
<1>5. Steps'
  <2>1. StepOf(r)' BY <1>2 DEF StepOf
  <2> QED BY <1>2, <2>1, StepsKept DEF LedgerInv
<1>7. PruneInv'
  <2>1. PruneOf(r)'
    <3>1. settled'[r] \subseteq {q \in Requests : pc'[q] = "done"}
      BY <1>4 DEF Onward
    <3> QED BY <1>2, <3>1 DEF PruneOf
  <2>2. removed' \in [Requests -> SUBSET Requests] BY DEF TypeOK
  <2> QED BY <1>2, <1>4, <2>1, <2>2, PrunesKept DEF LedgerInv
<1> QED BY <1>5, <1>7 DEF LedgerInv

\* A handler goes on to its next await.
LEMMA MoveStep ==
  ASSUME LedgerInv, NEW r \in Requests, NEW step \in PCs \ {"idle", "done"}, Goto(r, step),
         pc[r] \notin {"audit", "done", "lost"},
         TypeOK', Tables', ScoreInv', UNCHANGED backend, removed[r] \subseteq removed'[r],
         StepOf(r)',
         \A x \in Requests \ {r} :
           /\ call'[x] = call[x] /\ draft'[x] = draft[x]
           /\ ids'[x] = ids[x] /\ removed'[x] = removed[x] /\ settled'[x] = settled[x],
         \A d \in decisions : d \in decisions' \/ d.id \in removed'[r],
         \A d \in decisions' : d \in decisions \/ pc[d.id] # "done",
         settled'[r] \subseteq {q \in Requests : pc[q] = "done"},
         step \in {"match", "remove"} => removed'[r] = {},
         step = "remove" => Selected(r)',
         (step = "audit" /\ call'[r].op = "prune") => Reported(r)'
  PROVE  LedgerInv'
<1>2. reply' = reply /\ pc'[r] = step /\ \A x \in Requests \ {r} : pc'[x] = pc[x]
  BY GotoFacts DEF LedgerInv
<1>4. Onward
  BY <1>2, OnwardStep
<1>5. Steps'
  BY <1>2, StepsKept DEF LedgerInv
<1>7. PruneInv'
  <2>1. PruneOf(r)'
    <3>1. settled'[r] \subseteq {q \in Requests : pc'[q] = "done"}
      BY <1>4 DEF Onward
    <3> QED BY <1>2, <3>1 DEF PruneOf
  <2>2. removed' \in [Requests -> SUBSET Requests] BY DEF TypeOK
  <2> QED BY <1>2, <1>4, <2>1, <2>2, PrunesKept DEF LedgerInv
<1> QED BY <1>5, <1>7 DEF LedgerInv

LEMMA StepReject ==
  ASSUME LedgerInv, NEW r \in Requests, Reject(r)
  PROVE  LedgerInv'
<1>0. /\ pc[r] = "idle" /\ Respond(r, 400) /\ 400 \in Statuses \ {0} /\ 400 # 200
      /\ UNCHANGED <<backend, verdicts, decisions, audit, clock, ids, removed, settled>>
  BY DEF Reject, Statuses
<1>1. /\ \A x \in Requests \ {r} : /\ pc'[x] = pc[x] /\ draft'[x] = draft[x] /\ call'[x] = call[x]
      /\ pc'[r] = "done"
  BY <1>0, RespondFacts DEF LedgerInv
<1>3. TypeOK'
  BY <1>0, RespondFacts DEF TypeOK, LedgerInv
<1>4. Onward
  BY <1>1, OnwardStep
<1>6. Tables'
  <2>1. clock' \in Nat /\ clock' >= clock BY <1>0 DEF TypeOK, LedgerInv
  <2> QED BY <1>0, <1>4, <2>1, TablesShrink DEF LedgerInv
<1>7. settled'[r] \subseteq {q \in Requests : pc[q] = "done"}
  BY <1>0 DEF LedgerInv, PruneInv, PruneOf
<1>8. ScoreInv'
  BY <1>0, <1>1, <1>4, ScoresKept DEF LedgerInv
<1> QED BY <1>0, <1>3, <1>6, <1>7, <1>8, AnswerStep

LEMMA StepAccept ==
  ASSUME LedgerInv, NEW r \in Requests, NEW c \in Call, Accept(r, c)
  PROVE  LedgerInv'
<1> DEFINE step == FirstStep[c.op]
           d0 == IF c.op = "upload" THEN NewDecision(r) ELSE Null
<1>0. /\ pc[r] = "idle" /\ Goto(r, step)
      /\ call' = [call EXCEPT ![r] = c] /\ draft' = [draft EXCEPT ![r] = d0]
      /\ UNCHANGED <<backend, verdicts, decisions, audit, clock, ids, removed, settled>>
  BY DEF Accept
<1>1. /\ c.op \in Ops
      /\ step \in PCs \ {"idle", "done"}
      /\ c.op = "submit" => step = "history"
      /\ c.op = "upload" => step = "create"
      /\ c.op = "prune" => step = "match"
      /\ c.op = "latest" => step = "read"
  BY CallCases DEF FirstStep, PCs, Ops
<1>2. d0 \in DecisionRecord \cup {Null} /\ (c.op = "upload" => d0 \in DecisionRecord /\ d0.id = r)
  <2>1. AcceptedRules[r] \in SUBSET Nat /\ clock \in Nat
    <3>1. AcceptedRules[r] \in SUBSET (1..Cardinality(Requests)) BY RulesAssumption
    <3> QED BY <3>1 DEF LedgerInv, TypeOK
  <2> QED BY <2>1 DEF NewDecision, DecisionRecord
<1> HIDE DEF step, d0
<1>3. call' \in [Requests -> Call \cup {Null}] /\ call'[r] = c
      /\ \A x \in Requests \ {r} : call'[x] = call[x]
  BY <1>0 DEF LedgerInv, TypeOK
<1>4. draft' \in [Requests -> VerdictRecord \cup DecisionRecord \cup {Null}] /\ draft'[r] = d0
      /\ \A x \in Requests \ {r} : draft'[x] = draft[x]
  BY <1>0, <1>2 DEF LedgerInv, TypeOK
<1>5. /\ pc' \in [Requests -> PCs] /\ reply' = reply /\ pc'[r] = step
      /\ \A x \in Requests \ {r} : pc'[x] = pc[x]
  BY <1>0, <1>1, GotoFacts DEF LedgerInv
<1>6. TypeOK'
  BY <1>0, <1>3, <1>4, <1>5 DEF LedgerInv, TypeOK
<1>7. Onward
  BY <1>0, <1>5, OnwardStep
<1>8. Tables'
  <2>1. clock' \in Nat /\ clock' >= clock BY <1>0 DEF TypeOK, LedgerInv
  <2> QED BY <1>0, <1>7, <2>1, TablesShrink DEF LedgerInv
<1>9. ScoreInv'
  <2>1. \A x \in Requests : (pc'[x] = "create" /\ call'[x].op = "submit") => x # r
    BY <1>1, <1>3, <1>5
  <2> QED BY <1>0, <1>3, <1>4, <1>5, <1>7, <2>1, ScoresKept DEF LedgerInv
<1>10. settled'[r] \subseteq {q \in Requests : pc[q] = "done"} /\ removed'[r] = {}
  BY <1>0 DEF LedgerInv, PruneInv, PruneOf
<1>11. StepOf(r)'
  <2>1. reply[r] = 0 BY <1>0 DEF LedgerInv, Steps, StepOf
  <2>2. c.op = "upload" => draft'[r] # Null BY <1>2, <1>4, NullApart
  <2> QED BY <1>1, <1>2, <1>3, <1>4, <1>5, <2>1, <2>2 DEF StepOf, Ops
<1>12. step \notin {"remove", "audit"} BY <1>1 DEF Ops
<1> QED BY <1>0, <1>1, <1>3, <1>4, <1>6, <1>8, <1>9, <1>10, <1>11, <1>12, MoveStep

LEMMA StepReadLatest ==
  ASSUME LedgerInv, NEW r \in Requests, ReadLatest(r)
  PROVE  LedgerInv'
<1> DEFINE s == IF LatestDecision(decisions) = {} THEN 404 ELSE 200
<1>0. /\ pc[r] = "read" /\ Respond(r, s) /\ s \in Statuses \ {0}
      /\ UNCHANGED <<backend, verdicts, decisions, audit, clock, ids, removed, settled>>
  BY DEF ReadLatest, Statuses
<1> HIDE DEF s
<1>1. /\ \A x \in Requests \ {r} : /\ pc'[x] = pc[x] /\ draft'[x] = draft[x] /\ call'[x] = call[x]
      /\ pc'[r] = "done"
  BY <1>0, RespondFacts DEF LedgerInv
<1>2. call[r].op = "latest"
  BY <1>0 DEF LedgerInv, Steps, StepOf
<1>3. TypeOK'
  BY <1>0, RespondFacts DEF TypeOK, LedgerInv
<1>4. Onward
  BY <1>1, OnwardStep
<1>6. Tables'
  <2>1. clock' \in Nat /\ clock' >= clock BY <1>0 DEF TypeOK, LedgerInv
  <2> QED BY <1>0, <1>4, <2>1, TablesShrink DEF LedgerInv
<1>7. settled'[r] \subseteq {q \in Requests : pc[q] = "done"}
  BY <1>0 DEF LedgerInv, PruneInv, PruneOf
<1>8. ScoreInv'
  BY <1>0, <1>1, <1>4, ScoresKept DEF LedgerInv
<1> QED BY <1>0, <1>2, <1>3, <1>6, <1>7, <1>8, AnswerStep

\* The answer of a finished write, logged or not.
LEMMA StepSuccess ==
  ASSUME LedgerInv, NEW r \in Requests, pc[r] = "audit", Respond(r, SuccessStatus(r)),
         audit' \in {audit, audit \cup {NewEvent(r)}},
         UNCHANGED <<backend, verdicts, decisions, clock, ids, removed, settled>>
  PROVE  LedgerInv'
<1> DEFINE s == SuccessStatus(r)
<1>0. s \in Statuses \ {0} /\ Respond(r, s)
  BY DEF SuccessStatus, Statuses
<1> HIDE DEF s
<1>1. /\ \A x \in Requests \ {r} : /\ pc'[x] = pc[x] /\ draft'[x] = draft[x] /\ call'[x] = call[x]
      /\ pc'[r] = "done" /\ (s = 200 => call'[r] = call[r])
  BY <1>0, RespondFacts DEF LedgerInv
<1>2. NewEvent(r) \in AuditEvent /\ NewEvent(r).id = r /\ NewEvent(r).created_at = clock
      /\ clock \in Nat
  BY DEF NewEvent, AuditEvent, LedgerInv, TypeOK
<1>3. TypeOK'
  <2>1. audit' \subseteq AuditEvent BY <1>2 DEF TypeOK, LedgerInv
  <2> QED BY <1>0, <2>1, RespondFacts DEF TypeOK, LedgerInv
<1>4. Onward
  BY <1>1, OnwardStep
<1>6. Tables'
  <2>0. Past \subseteq Past' /\ r \in Past' BY <1>1, <1>4 DEF Onward, Past
  <2>1. OwnRecords(verdicts)' /\ OwnRecords(decisions)'
    BY <2>0 DEF LedgerInv, Tables, OwnRecords
  <2>2. \A e \in audit : e.id \in Requests /\ pc[e.id] = "done" /\ e.id # r /\ e.created_at <= clock
    BY DEF LedgerInv, Tables, TypeOK, AuditEvent
  <2>3. \A e \in audit' : e \in audit \/ e = NewEvent(r)
    OBVIOUS
  <2>4. OwnRecords(audit)'
    BY <1>2, <2>0, <2>2, <2>3 DEF LedgerInv, Tables, OwnRecords
  <2>5. \A e \in audit' : pc'[e.id] = "done" /\ e.created_at <= clock'
    BY <1>1, <1>2, <2>2, <2>3
  <2> QED BY <2>1, <2>4, <2>5 DEF Tables
<1>7. settled'[r] \subseteq {q \in Requests : pc[q] = "done"}
  BY DEF LedgerInv, PruneInv, PruneOf
<1>8. ScoreInv'
  BY <1>0, <1>1, <1>4, ScoresKept DEF LedgerInv
<1>9. ASSUME s = 200, call[r] # Null, call[r].op = "prune" PROVE Reported(r)'
  <2>1. Reported(r) BY <1>9 DEF LedgerInv, PruneInv, PruneOf
  <2> QED BY <1>1, <1>9, <2>1 DEF Reported, Gone
<1> QED BY <1>0, <1>3, <1>6, <1>7, <1>8, <1>9, AnswerStep

\* The record a handler inserts carries its own id: nobody has counted on it yet.
LEMMA InsertFacts ==
  ASSUME LedgerInv, NEW r \in Requests, pc[r] = "create", InsertRecord(r), Onward, r \in Past',
         UNCHANGED <<audit, clock, settled>>, pc'[r] # "create",
         \A x \in Requests \ {r} : pc'[x] = pc[x] /\ draft'[x] = draft[x] /\ call'[x] = call[x]
  PROVE  /\ verdicts' \subseteq VerdictRecord /\ decisions' \subseteq DecisionRecord
         /\ \A d \in decisions : d \in decisions'
         /\ \A d \in decisions' : d \in decisions \/ pc[d.id] # "done"
         /\ Tables' /\ ScoreInv'
<1>1. /\ draft[r].id = r
      /\ \/ call[r].op = "submit" /\ draft[r] \in VerdictRecord
         \/ call[r].op = "upload" /\ draft[r] \in DecisionRecord
  BY DEF LedgerInv, Steps, StepOf
<1>2. /\ verdicts \subseteq verdicts' /\ decisions \subseteq decisions'
      /\ \A t \in verdicts' : t \in verdicts
                              \/ (t = draft[r] /\ call[r].op = "submit" /\ draft[r] \in VerdictRecord)
      /\ \A t \in decisions' : t \in decisions \/ (t = draft[r] /\ draft[r] \in DecisionRecord)
  BY <1>1 DEF InsertRecord
<1>3. verdicts' \subseteq VerdictRecord /\ decisions' \subseteq DecisionRecord
  BY <1>2 DEF LedgerInv, TypeOK
<1>4. r \notin Past /\ Past \subseteq Past'
  BY DEF Past, Onward
<1>5. Tables'
  <2>1. \A t \in verdicts \cup decisions \cup audit : t.id \in Past /\ t.id # r
    BY <1>4 DEF LedgerInv, Tables, OwnRecords
  <2>2. OwnRecords(verdicts)'
    <3>1. \A t \in verdicts' : t \in verdicts \/ t.id = r BY <1>1, <1>2
    <3>2. \A t, u \in verdicts' : t.id = u.id => t = u
      BY <1>1, <1>2, <2>1 DEF LedgerInv, Tables, OwnRecords
    <3> QED BY <1>4, <2>1, <3>1, <3>2 DEF OwnRecords
  <2>3. OwnRecords(decisions)'
    <3>1. \A t \in decisions' : t \in decisions \/ t.id = r BY <1>1, <1>2
    <3>2. \A t, u \in decisions' : t.id = u.id => t = u
      BY <1>1, <1>2, <2>1 DEF LedgerInv, Tables, OwnRecords
    <3> QED BY <1>4, <2>1, <3>1, <3>2 DEF OwnRecords
  <2>4. OwnRecords(audit)'
    BY <1>4 DEF LedgerInv, Tables, OwnRecords
  <2>5. \A e \in audit' : pc'[e.id] = "done" /\ e.created_at <= clock'
    BY DEF LedgerInv, Tables, Onward, TypeOK, AuditEvent
  <2> QED BY <2>2, <2>3, <2>4, <2>5 DEF Tables
<1>6. ASSUME NEW v, NEW seen, seen \subseteq {q \in Requests : pc[q] = "done"},
             Sourced(v, seen, verdicts, Past)
      PROVE  Sourced(v, seen, verdicts', Past')
  <2>1. r \notin seen /\ r \notin v.history
    BY <1>4, <1>6 DEF Sourced
  <2>2. \A u \in verdicts' : (u.id \in seen \/ u.id \in v.history) => u \in verdicts
    BY <1>1, <1>2, <2>1
  <2> QED BY <1>2, <1>4, <1>6, <2>2 DEF Sourced
<1>7. \A x \in Requests : settled[x] \subseteq {q \in Requests : pc[q] = "done"}
  BY DEF LedgerInv, PruneInv, PruneOf
<1>8. ASSUME NEW v \in verdicts' PROVE Sourced(v, settled'[v.id], verdicts', Past')
  <2>1. CASE v \in verdicts
    <3>1. v.id \in Requests BY <1>3 DEF VerdictRecord
    <3>2. Sourced(v, settled[v.id], verdicts, Past) BY <2>1 DEF LedgerInv, ScoreInv
    <3> QED BY <1>6, <1>7, <3>1, <3>2
  <2>2. CASE v = draft[r] /\ call[r].op = "submit"
    <3>1. Sourced(v, settled[r], verdicts, Past) BY <2>2 DEF LedgerInv, ScoreInv
    <3>2. v.id = r BY <1>1, <2>2
    <3> QED BY <1>6, <1>7, <3>1, <3>2
  <2> QED BY <1>2, <2>1, <2>2
<1>9. ASSUME NEW x \in Requests, pc'[x] = "create", call'[x].op = "submit"
      PROVE  Sourced(draft'[x], settled'[x], verdicts', Past')
  <2>1. x # r BY <1>9
  <2>2. draft'[x] = draft[x] /\ pc[x] = "create" /\ call[x].op = "submit" BY <2>1, <1>9
  <2>3. Sourced(draft[x], settled[x], verdicts, Past) BY <2>2 DEF LedgerInv, ScoreInv
  <2> QED BY <1>6, <1>7, <2>2, <2>3
<1>10. ScoreInv' BY <1>8, <1>9 DEF ScoreInv
<1>11. \A d \in decisions' : d \in decisions \/ pc[d.id] # "done"
  BY <1>1, <1>2
<1> QED BY <1>2, <1>3, <1>5, <1>10, <1>11

LEMMA StepCreate ==
  ASSUME LedgerInv, NEW r \in Requests, Create(r)
  PROVE  LedgerInv'
<1>0. /\ pc[r] = "create" /\ InsertRecord(r) /\ Goto(r, "audit")
      /\ UNCHANGED <<backend, audit, clock, call, draft, ids, removed, settled>>
      /\ "audit" \in PCs \ {"idle", "done"}
  BY DEF Create, PCs
<1>1. /\ pc' \in [Requests -> PCs] /\ reply' = reply /\ pc'[r] = "audit"
      /\ \A x \in Requests \ {r} : pc'[x] = pc[x]
  BY <1>0, GotoFacts DEF LedgerInv
<1>2. Onward /\ r \in Past'
  BY <1>0, <1>1, OnwardStep DEF Past
<1>3. /\ verdicts' \subseteq VerdictRecord /\ decisions' \subseteq DecisionRecord
      /\ \A d \in decisions : d \in decisions'
      /\ \A d \in decisions' : d \in decisions \/ pc[d.id] # "done"
      /\ Tables' /\ ScoreInv'
  BY <1>0, <1>1, <1>2, InsertFacts
<1>4. TypeOK'
  BY <1>0, <1>1, <1>3 DEF LedgerInv, TypeOK
<1>5. settled'[r] \subseteq {q \in Requests : pc[q] = "done"}
  BY <1>0 DEF LedgerInv, PruneInv, PruneOf
<1>6. StepOf(r) BY DEF LedgerInv, Steps
<1>7. call'[r].op # "prune" /\ StepOf(r)'
  BY <1>0, <1>1, <1>6 DEF StepOf
<1> QED BY <1>0, <1>3, <1>4, <1>5, <1>7, MoveStep

\* Expired decisions are removed, and what is removed is recorded.
LEMMA RemoveFacts ==
  ASSUME LedgerInv, NEW r \in Requests, RemoveExpired(r), removed[r] = {}
  PROVE  /\ decisions' \subseteq decisions
         /\ removed' \in [Requests -> SUBSET Requests]
         /\ removed'[r] = {d.id : d \in Expired(r)}
         /\ \A x \in Requests \ {r} : removed'[x] = removed[x]
         /\ \A d \in decisions : d \in decisions' \/ d.id \in removed'[r]
         /\ Gone \subseteq Gone' /\ removed'[r] \subseteq Gone'
<1>1. {d.id : d \in Expired(r)} \in SUBSET Requests
  BY DEF Expired, LedgerInv, TypeOK, DecisionRecord
<1>2. /\ removed' \in [Requests -> SUBSET Requests]
      /\ removed'[r] = {d.id : d \in Expired(r)}
      /\ \A x \in Requests \ {r} : removed'[x] = removed[x]
  BY <1>1 DEF RemoveExpired, LedgerInv, TypeOK
<1>3. decisions' = decisions \ Expired(r) BY DEF RemoveExpired
<1>4. Gone \subseteq Gone' /\ removed'[r] \subseteq Gone'
  BY <1>2 DEF Gone
<1> QED BY <1>2, <1>3, <1>4

LEMMA StepPruneRemove ==
  ASSUME LedgerInv, NEW r \in Requests, PruneRemove(r)
  PROVE  LedgerInv'
<1>0. /\ pc[r] = "remove" /\ RemoveExpired(r) /\ Goto(r, "audit")
      /\ UNCHANGED <<backend, verdicts, audit, clock, call, draft, ids, settled>>
      /\ "audit" \in PCs \ {"idle", "done"}
  BY DEF PruneRemove, PCs
<1>1. /\ pc' \in [Requests -> PCs] /\ reply' = reply /\ pc'[r] = "audit"
      /\ \A x \in Requests \ {r} : pc'[x] = pc[x]
  BY <1>0, GotoFacts DEF LedgerInv
<1>2. /\ removed[r] = {} /\ Selected(r) /\ settled[r] \subseteq {q \in Requests : pc[q] = "done"}
      /\ call[r].op = "prune" /\ ~call[r].dry_run /\ call[r] \in Call /\ reply[r] = 0
  BY <1>0 DEF LedgerInv, PruneInv, PruneOf, Steps, StepOf
<1>3. /\ decisions' \subseteq decisions
      /\ removed' \in [Requests -> SUBSET Requests]
      /\ removed'[r] = {d.id : d \in Expired(r)}
      /\ \A x \in Requests \ {r} : removed'[x] = removed[x]
      /\ \A d \in decisions : d \in decisions' \/ d.id \in removed'[r]
      /\ Gone \subseteq Gone' /\ removed'[r] \subseteq Gone'
  BY <1>0, <1>2, RemoveFacts
<1>4. Onward
  BY <1>0, <1>1, OnwardStep
<1>5. TypeOK'
  BY <1>0, <1>1, <1>3 DEF LedgerInv, TypeOK
<1>6. Tables'
  <2>1. clock' \in Nat /\ clock' >= clock BY <1>0 DEF TypeOK, LedgerInv
  <2> QED BY <1>0, <1>3, <1>4, <2>1, TablesShrink DEF LedgerInv
<1>7. ScoreInv'
  BY <1>0, <1>1, <1>4, ScoresKept DEF LedgerInv
<1>8. Reported(r)'
  <2>1. removed'[r] \cap settled'[r] \subseteq ids'[r]
    BY <1>0, <1>2, <1>3 DEF Selected, Expired
  <2>2. ids'[r] \subseteq Gone'
    BY <1>0, <1>2, <1>3 DEF Selected, Expired
  <2> QED BY <1>0, <1>2, <2>1, <2>2 DEF Reported
<1>9. StepOf(r)'
  BY <1>0, <1>1, <1>2 DEF StepOf
<1> QED BY <1>0, <1>2, <1>3, <1>5, <1>6, <1>7, <1>8, <1>9, MoveStep

LEMMA StepPruneMatch ==
  ASSUME LedgerInv, NEW r \in Requests, PruneMatch(r)
  PROVE  LedgerInv'
<1> DEFINE found == {d.id : d \in Expired(r)}
<1>0. /\ pc[r] = "match"
      /\ ids' = [ids EXCEPT ![r] = found] /\ settled' = [settled EXCEPT ![r] = Answered]
      /\ UNCHANGED <<backend, verdicts, audit, clock>>
  BY DEF PruneMatch
<1>1. /\ removed[r] = {} /\ call[r].op = "prune" /\ call[r] \in Call /\ reply[r] = 0
      /\ call[r].older_than \in Nat
  BY <1>0, CallCases DEF LedgerInv, PruneInv, PruneOf, Steps, StepOf
<1>2. Answered \subseteq {q \in Requests : pc[q] = "done"}
  <2>1. \A q \in Answered : reply[q] # 0 /\ q \in Requests BY DEF Answered
  <2> QED BY <2>1 DEF LedgerInv, Steps, StepOf
<1>3. found \in SUBSET Requests /\ Answered \in SUBSET Requests
  BY DEF Expired, LedgerInv, TypeOK, DecisionRecord, Answered
<1>4. /\ ids' \in [Requests -> SUBSET Requests] /\ ids'[r] = found
      /\ \A x \in Requests \ {r} : ids'[x] = ids[x]
  BY <1>0, <1>3 DEF LedgerInv, TypeOK
<1>5. /\ settled' \in [Requests -> SUBSET Requests] /\ settled'[r] = Answered
      /\ \A x \in Requests \ {r} : settled'[x] = settled[x]
  BY <1>0, <1>3 DEF LedgerInv, TypeOK
<1>6. \A x \in Past : settled'[x] = settled[x]
  BY <1>0, <1>5 DEF Past
<1>7. clock' \in Nat /\ clock' >= clock BY <1>0 DEF TypeOK, LedgerInv
<1> HIDE DEF found
<1>8. CASE call[r].dry_run /\ Respond(r, 200) /\ UNCHANGED <<decisions, removed>>
  <2>0. 200 \in Statuses \ {0} BY DEF Statuses
  <2>1. /\ \A x \in Requests \ {r} : /\ pc'[x] = pc[x] /\ draft'[x] = draft[x] /\ call'[x] = call[x]
        /\ pc'[r] = "done" /\ call'[r] = call[r]
    BY <1>8, <2>0, RespondFacts DEF LedgerInv
  <2>2. TypeOK'
    BY <1>0, <1>4, <1>5, <1>8, <2>0, RespondFacts DEF TypeOK, LedgerInv
  <2>3. Onward
    BY <2>1, OnwardStep
  <2>4. Tables'
    BY <1>0, <1>7, <1>8, <2>3, TablesShrink DEF LedgerInv
  <2>5. ScoreInv'
    BY <1>0, <1>5, <1>6, <2>1, <2>3, ScoresKept DEF LedgerInv
  <2>6. Reported(r)'
    BY <1>1, <1>8, <2>1 DEF Reported
  <2> QED BY <1>0, <1>2, <1>4, <1>5, <1>8, <2>0, <2>2, <2>4, <2>5, <2>6, AnswerStep
<1>9. CASE ~call[r].dry_run /\ backend = "postgres" /\ Goto(r, "remove")
           /\ UNCHANGED <<decisions, removed, draft, call>>
  <2>0. "remove" \in PCs \ {"idle", "done"} BY DEF PCs
  <2>1. /\ pc' \in [Requests -> PCs] /\ reply' = reply /\ pc'[r] = "remove"
        /\ \A x \in Requests \ {r} : pc'[x] = pc[x]
    BY <1>9, <2>0, GotoFacts DEF LedgerInv
  <2>2. TypeOK'
    BY <1>0, <1>4, <1>5, <1>9, <2>1 DEF TypeOK, LedgerInv
  <2>3. Onward
    BY <1>0, <2>1, OnwardStep
  <2>4. Tables'
    BY <1>0, <1>7, <1>9, <2>3, TablesShrink DEF LedgerInv
  <2>5. ScoreInv'
    BY <1>0, <1>5, <1>6, <1>9, <2>1, <2>3, ScoresKept DEF LedgerInv
  <2>6. Selected(r)'
    BY <1>4, <1>9 DEF Selected, Expired, found
  <2>7. StepOf(r)'
    BY <1>0, <1>1, <1>9, <2>1 DEF StepOf, Durable
  <2> QED BY <1>0, <1>1, <1>2, <1>4, <1>5, <1>9, <2>0, <2>2, <2>4, <2>5, <2>6, <2>7, MoveStep
<1>10. CASE ~call[r].dry_run /\ RemoveExpired(r) /\ Goto(r, "audit") /\ UNCHANGED <<draft, call>>
  <2>0. "audit" \in PCs \ {"idle", "done"} BY DEF PCs
  <2>1. /\ pc' \in [Requests -> PCs] /\ reply' = reply /\ pc'[r] = "audit"
        /\ \A x \in Requests \ {r} : pc'[x] = pc[x]
    BY <1>10, <2>0, GotoFacts DEF LedgerInv
  <2>8. /\ decisions' \subseteq decisions
        /\ removed' \in [Requests -> SUBSET Requests] /\ removed'[r] = found
        /\ \A x \in Requests \ {r} : removed'[x] = removed[x]
        /\ \A d \in decisions : d \in decisions' \/ d.id \in removed'[r]
        /\ removed'[r] \subseteq Gone'
    BY <1>1, <1>10, RemoveFacts DEF found
  <2>2. TypeOK'
    BY <1>0, <1>4, <1>5, <1>10, <2>1, <2>8 DEF TypeOK, LedgerInv
  <2>3. Onward
    BY <1>0, <2>1, OnwardStep
  <2>4. Tables'
    BY <1>0, <1>7, <2>3, <2>8, TablesShrink DEF LedgerInv
  <2>5. ScoreInv'
    BY <1>0, <1>5, <1>6, <1>10, <2>1, <2>3, ScoresKept DEF LedgerInv
  <2>6. Reported(r)'
    BY <1>4, <1>10, <2>8 DEF Reported
  <2>7. StepOf(r)'
    BY <1>0, <1>1, <1>10, <2>1 DEF StepOf
  <2> QED BY <1>0, <1>1, <1>2, <1>4, <1>5, <1>10, <2>0, <2>2, <2>4, <2>5, <2>6, <2>7, <2>8, MoveStep
<1> QED BY <1>8, <1>9, <1>10 DEF PruneMatch

LEMMA StepStorageFails ==
  ASSUME LedgerInv, NEW r \in Requests, StorageFails(r)
  PROVE  LedgerInv'
<1>0. /\ pc[r] \in {"create", "match", "remove", "read"} /\ Respond(r, 500)
      /\ 500 \in Statuses \ {0} /\ 500 # 200
      /\ ids' = [ids EXCEPT ![r] = {}] /\ UNCHANGED <<backend, audit, clock, settled>>
  BY DEF StorageFails, Statuses
<1>1. /\ pc' \in [Requests -> PCs] /\ reply' \in [Requests -> Statuses]
      /\ draft' \in [Requests -> VerdictRecord \cup DecisionRecord \cup {Null}]
      /\ call' \in [Requests -> Call \cup {Null}]
      /\ \A x \in Requests \ {r} : /\ pc'[x] = pc[x] /\ draft'[x] = draft[x] /\ call'[x] = call[x]
      /\ pc'[r] = "done"
  BY <1>0, RespondFacts DEF LedgerInv
<1>2. Onward /\ r \in Past'
  BY <1>1, OnwardStep DEF Past
<1>3. /\ ids' \in [Requests -> SUBSET Requests] /\ \A x \in Requests \ {r} : ids'[x] = ids[x]
  BY <1>0 DEF LedgerInv, TypeOK
<1>4. clock' \in Nat /\ clock' >= clock BY <1>0 DEF TypeOK, LedgerInv
<1>5. settled'[r] \subseteq {q \in Requests : pc[q] = "done"}
  BY <1>0 DEF LedgerInv, PruneInv, PruneOf
<1>6. CASE UNCHANGED <<verdicts, decisions, removed>>
  <2>1. TypeOK'
    BY <1>0, <1>1, <1>3, <1>6 DEF TypeOK, LedgerInv
  <2>2. Tables'
    BY <1>0, <1>2, <1>4, <1>6, TablesShrink DEF LedgerInv
  <2>3. ScoreInv'
    BY <1>0, <1>1, <1>2, <1>6, ScoresKept DEF LedgerInv
  <2> QED BY <1>0, <1>3, <1>5, <1>6, <2>1, <2>2, <2>3, AnswerStep
<1>7. CASE pc[r] = "create" /\ InsertRecord(r) /\ UNCHANGED removed
  <2>1. /\ verdicts' \subseteq VerdictRecord /\ decisions' \subseteq DecisionRecord
        /\ \A d \in decisions : d \in decisions'
        /\ \A d \in decisions' : d \in decisions \/ pc[d.id] # "done"
        /\ Tables' /\ ScoreInv'
    BY <1>0, <1>1, <1>2, <1>7, InsertFacts
  <2>2. TypeOK'
    BY <1>0, <1>1, <1>3, <1>7, <2>1 DEF TypeOK, LedgerInv
  <2> QED BY <1>0, <1>3, <1>5, <1>7, <2>1, <2>2, AnswerStep
<1>8. CASE /\ pc[r] = "remove" \/ (pc[r] = "match" /\ backend = "sqlite" /\ ~call[r].dry_run)
           /\ RemoveExpired(r) /\ UNCHANGED verdicts
  <2>0. removed[r] = {}
    BY <1>8 DEF LedgerInv, PruneInv, PruneOf
  <2>1. /\ decisions' \subseteq decisions
        /\ removed' \in [Requests -> SUBSET Requests]
        /\ \A x \in Requests \ {r} : removed'[x] = removed[x]
        /\ \A d \in decisions : d \in decisions' \/ d.id \in removed'[r]
    BY <1>8, <2>0, RemoveFacts
  <2>2. TypeOK'
    BY <1>0, <1>1, <1>3, <1>8, <2>1 DEF TypeOK, LedgerInv
  <2>3. Tables'
    BY <1>0, <1>2, <1>4, <1>8, <2>1, TablesShrink DEF LedgerInv
  <2>4. ScoreInv'
    BY <1>0, <1>1, <1>2, <1>8, ScoresKept DEF LedgerInv
  <2> QED BY <1>0, <1>3, <1>5, <1>8, <2>0, <2>1, <2>2, <2>3, <2>4, AnswerStep
<1> QED BY <1>6, <1>7, <1>8 DEF StorageFails

LEMMA StepTick ==
  ASSUME LedgerInv, Tick
  PROVE  LedgerInv'
<1>0. /\ clock' = clock + 1 /\ clock \in Nat
      /\ UNCHANGED <<backend, verdicts, decisions, audit,
                     pc, call, draft, ids, reply, removed, settled>>
  BY DEF Tick, local, LedgerInv, TypeOK
<1>1. TypeOK' BY <1>0 DEF LedgerInv, TypeOK
<1>2. Steps' BY <1>0 DEF LedgerInv, Steps, StepOf, Durable
<1>3. Onward BY <1>0 DEF Onward, Past
<1>4. Tables' BY <1>0, <1>3, TablesShrink DEF LedgerInv
<1>5. PruneInv' BY <1>0 DEF LedgerInv, PruneInv, PruneOf, Selected, Reported, Gone
<1>6. ScoreInv' BY <1>0, <1>3, ScoresKept DEF LedgerInv
<1> QED BY <1>1, <1>2, <1>4, <1>5, <1>6 DEF LedgerInv

LEMMA StepCrash ==
  ASSUME LedgerInv, Crash
  PROVE  LedgerInv'
<1>0. /\ \A x \in Requests :
           /\ pc'[x] = IF pc[x] \in {"idle", "done"} THEN pc[x] ELSE "lost"
           /\ draft'[x] = Null
           /\ call'[x] = IF pc[x] = "done" THEN call[x] ELSE Null
           /\ ids'[x] = IF pc[x] = "done" THEN ids[x] ELSE {}
      /\ UNCHANGED <<backend, clock, reply, removed, settled>>
  BY DEF Crash
<1>1. /\ verdicts' \subseteq verdicts /\ decisions' \subseteq decisions /\ audit' \subseteq audit
      /\ verdicts' = verdicts \/ verdicts' = {}
  BY DEF Crash
<1>2. TypeOK'
  <2>1. pc' \in [Requests -> PCs] BY DEF Crash, LedgerInv, TypeOK, PCs
  <2>2. call' \in [Requests -> Call \cup {Null}]
        /\ draft' \in [Requests -> VerdictRecord \cup DecisionRecord \cup {Null}]
    BY DEF Crash, LedgerInv, TypeOK
  <2>3. ids' \in [Requests -> SUBSET Requests] BY DEF Crash, LedgerInv, TypeOK
  <2> QED BY <1>0, <1>1, <2>1, <2>2, <2>3 DEF LedgerInv, TypeOK
<1>3. Steps'
  <2> SUFFICES ASSUME NEW x \in Requests PROVE StepOf(x)'
    BY DEF Steps
  <2>1. StepOf(x) BY DEF LedgerInv, Steps
  <2> QED BY <1>0, <2>1 DEF StepOf
<1>4. Onward
  BY <1>0 DEF Onward, Past
<1>5. Tables'
  <2>1. clock' \in Nat /\ clock' >= clock BY <1>0 DEF TypeOK, LedgerInv
  <2> QED BY <1>1, <1>4, <2>1, TablesShrink DEF LedgerInv
<1>6. PruneInv'
  <2> SUFFICES ASSUME NEW x \in Requests PROVE PruneOf(x)'
    BY DEF PruneInv
  <2>1. PruneOf(x) BY DEF LedgerInv, PruneInv
  <2>2. settled'[x] \subseteq {q \in Requests : pc'[q] = "done"}
    BY <1>0, <1>4, <2>1 DEF PruneOf, Onward
  <2>3. ASSUME pc'[x] = "done", call'[x] # Null, call'[x].op = "prune" PROVE Reported(x)'
    <3>1. pc[x] = "done" /\ call'[x] = call[x] /\ ids'[x] = ids[x] BY <1>0, <2>3
    <3>2. Reported(x) BY <2>1, <2>3, <3>1 DEF PruneOf
    <3> QED BY <1>0, <3>1, <3>2 DEF Reported, Gone
  <2> QED BY <1>0, <2>1, <2>2, <2>3 DEF PruneOf
<1>7. ScoreInv'
  <2>1. \A x \in Requests : pc'[x] # "create" BY <1>0
  <2>2. CASE verdicts' = {} BY <2>1, <2>2 DEF ScoreInv
  <2>3. CASE verdicts' = verdicts BY <1>0, <1>4, <2>1, <2>3, ScoresKept DEF LedgerInv
  <2> QED BY <1>1, <2>2, <2>3
<1> QED BY <1>2, <1>3, <1>5, <1>6, <1>7 DEF LedgerInv

LEMMA LedgerStutter ==
  ASSUME LedgerInv, UNCHANGED vars
  PROVE  LedgerInv'
<1>0. UNCHANGED <<backend, verdicts, decisions, audit, clock,
                  pc, call, draft, ids, reply, removed, settled>>
  BY DEF vars, local
<1>1. TypeOK' BY <1>0 DEF LedgerInv, TypeOK
<1>2. Steps' BY <1>0 DEF LedgerInv, Steps, StepOf, Durable
<1>3. Onward BY <1>0 DEF Onward, Past
<1>4. Tables'
  <2>1. clock' \in Nat /\ clock' >= clock BY <1>0 DEF TypeOK, LedgerInv
  <2> QED BY <1>0, <1>3, <2>1, TablesShrink DEF LedgerInv
<1>5. PruneInv' BY <1>0 DEF LedgerInv, PruneInv, PruneOf, Selected, Reported, Gone
<1>6. ScoreInv' BY <1>0, <1>3, ScoresKept DEF LedgerInv
<1> QED BY <1>1, <1>2, <1>4, <1>5, <1>6 DEF LedgerInv

\* A table whose records bear ids of their own has at most one per request.
LEMMA TableKeyed ==
  ASSUME NEW table, \A t \in table : t.id \in Requests /\ t.created_at \in Nat,
         \A t, u \in table : t.id = u.id => t = u
  PROVE  /\ Keyed(table) /\ Cardinality(table) <= Cardinality(Requests)
         /\ IsFiniteSet({t.id : t \in table})
         /\ Cardinality({t.id : t \in table}) = Cardinality(table)
<1> DEFINE key == [t \in table |-> t.id]
           keys == {t.id : t \in table}
<1>1. key \in Bijection(table, keys)
  BY DEF Bijection, Injection, Surjection, IsInjective
<1>2. keys \in SUBSET Requests /\ IsFiniteSet(Requests)
  BY RequestsAssumption
<1> HIDE DEF key, keys
<1>3. IsFiniteSet(keys) /\ Cardinality(keys) <= Cardinality(Requests)
  BY <1>2, FS_Subset
<1>4. IsFiniteSet(table) /\ Cardinality(table) = Cardinality(keys)
  <2>1. key \in Injection(table, keys) /\ key \in Surjection(table, keys)
    BY <1>1 DEF Bijection
  <2> QED BY <1>3, <2>1, FS_Injection
<1>5. \A t \in table : t.id \in Nat /\ t.created_at \in Nat
  BY RequestsAssumption
<1> QED BY <1>3, <1>4, <1>5 DEF Keyed, keys

\* compute_flakiness_score on the page it has read: what the page leaves out is
\* older than what it holds, and a high score has a noisy verdict behind it.
LEMMA ScoredFromHistory ==
  ASSUME LedgerInv, NEW r \in Requests, pc[r] = "history",
         NEW past \in SUBSET verdicts, past \in {History, {}},
         NEW seen, past = History \/ seen = {}
  PROVE  /\ NewVerdict(r, past) \in VerdictRecord /\ NewVerdict(r, past).id = r
         /\ Sourced(NewVerdict(r, past), seen, verdicts, Past)
<1> DEFINE names == {v.id : v \in past}
           D == names \cup {r}
           of(x) == CHOOSE v \in past : v.id = x
           cvs == [x \in D |-> IF x = r THEN call[r].cv ELSE of(x).wall_ms_cv]
<1>1. \A v \in verdicts : /\ v.id \in Requests /\ v.created_at \in Nat
                          /\ v.wall_ms_cv \in Variations /\ v.id \in Past
  BY DEF LedgerInv, TypeOK, VerdictRecord, Tables, OwnRecords
<1>2. \A v, u \in verdicts : v.id = u.id => v = u
  BY DEF LedgerInv, Tables, OwnRecords
<1>3. Keyed(verdicts) /\ Keyed(past)
      /\ IsFiniteSet(names) /\ Cardinality(names) = Cardinality(past)
  <2>1. Keyed(verdicts) BY <1>1, <1>2, TableKeyed
  <2>2. \A v \in past : v.id \in Requests /\ v.created_at \in Nat BY <1>1
  <2>3. \A v, u \in past : v.id = u.id => v = u BY <1>2
  <2> QED BY <2>1, <2>2, <2>3, TableKeyed
<1>4. call[r].cv \in Variations /\ call[r].cv \in Nat
  BY CallCases, VariationsAssumption DEF LedgerInv, Steps, StepOf
<1>5. IsFiniteSet(D) /\ D # {} /\ D \subseteq Requests
  <2>1. names \subseteq Requests BY <1>1
  <2> HIDE DEF names
  <2> QED BY <1>3, <2>1, FS_AddElement
<1>6. \A x \in D : x # r => of(x) \in past /\ of(x).id = x
  OBVIOUS
<1> HIDE DEF of
<1>7. cvs \in [D -> Nat]
  BY <1>1, <1>4, <1>6, VariationsAssumption
<1> HIDE DEF cvs, D
<1>8. /\ Score(cvs) \in Nat /\ Score(cvs) <= 1000
      /\ (\A x \in D : cvs[x] <= HighCv) => Score(cvs) <= 150
  BY <1>5, <1>7, ScoreBound
<1> DEFINE v0 == NewVerdict(r, past)
<1>9. v0 = [id |-> r, benchmark |-> "bench", status |-> "pass", wall_ms_cv |-> call[r].cv,
            flakiness_score |-> Score(cvs), created_at |-> clock, history |-> names]
  BY DEF NewVerdict, cvs, D, of
<1>10. names \in SUBSET Requests /\ names \subseteq Past /\ clock \in Nat
  BY <1>1 DEF LedgerInv, TypeOK
<1>11. v0 \in VerdictRecord /\ v0.id = r
  BY <1>4, <1>8, <1>9, <1>10 DEF VerdictRecord
<1>12. v0.history = names /\ v0.flakiness_score = Score(cvs) /\ v0.wall_ms_cv = call[r].cv
  BY <1>9
<1> HIDE DEF v0
<1>13. ASSUME Score(cvs) > 150
       PROVE  call[r].cv > HighCv \/ \E u \in verdicts : u.id \in names /\ u.wall_ms_cv > HighCv
  <2>0. HighCv \in Nat BY DEF HighCv
  <2>1. ~(Score(cvs) <= 150) BY <1>8, <1>13
  <2>2. PICK x \in D : ~(cvs[x] <= HighCv) BY <1>8, <2>1
  <2>3. cvs[x] > HighCv BY <1>7, <2>0, <2>2
  <2>4. CASE x = r BY <2>3, <2>4 DEF cvs
  <2>5. CASE x # r
    <3>1. of(x) \in past /\ of(x).id = x /\ cvs[x] = of(x).wall_ms_cv BY <1>6, <2>5 DEF cvs
    <3> QED BY <2>3, <3>1
  <2> QED BY <2>4, <2>5
<1>14. ASSUME NEW u \in verdicts, u.id \in seen \ names
       PROVE  /\ Cardinality(names) = HistoryLimit - 1
              /\ \A w \in verdicts : w.id \in names => w.created_at >= u.created_at
  <2> DEFINE limit == HistoryLimit - 1
  <2>0. limit \in Nat /\ past = PageOf(verdicts, limit, 0) BY <1>14, LimitAssumption DEF History
  <2>1. u \notin past BY <1>14
  <2> HIDE DEF limit
  <2>2. Cardinality(verdicts) \in Nat BY <1>3, FS_CardinalityType DEF Keyed
  <2>3. \A t \in verdicts : Rank(verdicts, t) \in 1..Cardinality(verdicts)
    BY <1>3, RankRange
  <2>4. \A t : t \in past <=> t \in verdicts /\ Rank(verdicts, t) \in 0 + 1 .. 0 + limit
    BY <2>0 DEF PageOf, Rank, Before
  <2>5. Rank(verdicts, u) > limit /\ limit < Cardinality(verdicts)
    BY <2>0, <2>1, <2>2, <2>3, <2>4
  <2>6. 0 + limit <= Cardinality(verdicts) /\ 0 \in Nat BY <2>0, <2>2, <2>5
  <2>7. Cardinality(past) = limit
    BY <1>3, <2>0, <2>6, PageSize
  <2>8. ASSUME NEW w \in verdicts, w.id \in names PROVE w.created_at >= u.created_at
    <3>1. w \in past BY <1>2, <2>8
    <3>2. Rank(verdicts, w) <= limit /\ w # u BY <2>0, <2>1, <2>4, <3>1
    <3>3. ~(Rank(verdicts, u) < Rank(verdicts, w)) BY <2>0, <2>2, <2>3, <2>5, <3>2
    <3>4. NewestFirst(w, u) BY <1>3, <3>2, <3>3, RankOrder
    <3> QED BY <1>1, <3>4 DEF NewestFirst
  <2> QED BY <1>3, <2>7, <2>8 DEF limit
<1>15. Sourced(v0, seen, verdicts, Past)
  <2> HIDE DEF names
  <2>1. v0.flakiness_score <= 1000 /\ v0.history \subseteq Past BY <1>8, <1>10, <1>12
  <2>2. \A u \in verdicts : (u.id \in seen \ v0.history) =>
          /\ Cardinality(v0.history) = HistoryLimit - 1
          /\ \A w \in verdicts : w.id \in v0.history => w.created_at >= u.created_at
    BY <1>12, <1>14
  <2>3. v0.flakiness_score > 150 =>
          \/ v0.wall_ms_cv > HighCv
          \/ \E u \in verdicts : u.id \in v0.history /\ u.wall_ms_cv > HighCv
    BY <1>12, <1>13
  <2> QED BY <2>1, <2>2, <2>3 DEF Sourced
<1> QED BY <1>11, <1>15 DEF v0

LEMMA StepReadHistory ==
  ASSUME LedgerInv, NEW r \in Requests, ReadHistory(r)
  PROVE  LedgerInv'
<1>0. /\ pc[r] = "history" /\ Goto(r, "create") /\ "create" \in PCs \ {"idle", "done"}
      /\ UNCHANGED <<backend, verdicts, decisions, audit, clock, call, ids, removed>>
  BY DEF ReadHistory, PCs
<1>1. PICK past \in {History, {}} :
        /\ draft' = [draft EXCEPT ![r] = NewVerdict(r, past)]
        /\ settled' = [settled EXCEPT ![r] = IF past = History THEN Answered ELSE {}]
  BY DEF ReadHistory
<1> DEFINE seen == IF past = History THEN Answered ELSE {}
           v0 == NewVerdict(r, past)
<1>2. past \in SUBSET verdicts
  BY <1>1 DEF History, PageOf
<1>3. v0 \in VerdictRecord /\ v0.id = r /\ Sourced(v0, seen, verdicts, Past)
  <2>1. past = History \/ seen = {} OBVIOUS
  <2> HIDE DEF seen
  <2> QED BY <1>0, <1>1, <1>2, <2>1, ScoredFromHistory
<1>4. seen \in SUBSET Requests /\ seen \subseteq {q \in Requests : pc[q] = "done"}
  <2>1. \A q \in Answered : reply[q] # 0 /\ q \in Requests BY DEF Answered
  <2> QED BY <2>1 DEF LedgerInv, Steps, StepOf
<1>5. draft' = [draft EXCEPT ![r] = v0] /\ settled' = [settled EXCEPT ![r] = seen]
  BY <1>1
<1> HIDE DEF v0, seen
<1>6. /\ draft' \in [Requests -> VerdictRecord \cup DecisionRecord \cup {Null}] /\ draft'[r] = v0
      /\ \A x \in Requests \ {r} : draft'[x] = draft[x]
  BY <1>3, <1>5 DEF LedgerInv, TypeOK
<1>7. /\ settled' \in [Requests -> SUBSET Requests] /\ settled'[r] = seen
      /\ \A x \in Requests \ {r} : settled'[x] = settled[x]
  BY <1>4, <1>5 DEF LedgerInv, TypeOK
<1>8. /\ pc' \in [Requests -> PCs] /\ reply' = reply /\ pc'[r] = "create"
      /\ \A x \in Requests \ {r} : pc'[x] = pc[x]
  BY <1>0, GotoFacts DEF LedgerInv
<1>9. TypeOK'
  BY <1>0, <1>6, <1>7, <1>8 DEF LedgerInv, TypeOK
<1>10. Onward
  BY <1>0, <1>8, OnwardStep
<1>11. Tables'
  <2>1. clock' \in Nat /\ clock' >= clock BY <1>0 DEF TypeOK, LedgerInv
  <2> QED BY <1>0, <1>10, <2>1, TablesShrink DEF LedgerInv
<1>12. ScoreInv'
  <2>0. Past' = Past BY <1>0, <1>8 DEF Past
  <2>1. \A v \in verdicts : v.id \in Past /\ v.id \in Requests /\ v.id # r
    BY <1>0 DEF LedgerInv, Tables, OwnRecords, Past
  <2>2. \A v \in verdicts' : Sourced(v, settled'[v.id], verdicts', Past')
    BY <1>0, <1>7, <2>0, <2>1 DEF LedgerInv, ScoreInv
  <2>3. ASSUME NEW x \in Requests, pc'[x] = "create", call'[x].op = "submit"
        PROVE  Sourced(draft'[x], settled'[x], verdicts', Past')
    <3>1. CASE x = r BY <1>0, <1>3, <1>6, <1>7, <2>0, <3>1
    <3>2. CASE x # r
      <4>1. Sourced(draft[x], settled[x], verdicts, Past)
        BY <1>0, <1>8, <2>3, <3>2 DEF LedgerInv, ScoreInv
      <4> QED BY <1>0, <1>6, <1>7, <2>0, <3>2, <4>1
    <3> QED BY <3>1, <3>2
  <2> QED BY <2>2, <2>3 DEF ScoreInv
<1>13. StepOf(r)'
  <2>1. reply[r] = 0 /\ call[r] \in Call /\ call[r].op = "submit"
    BY <1>0 DEF LedgerInv, Steps, StepOf
  <2>2. v0 # Null BY <1>3, NullApart
  <2> QED BY <1>0, <1>3, <1>6, <1>8, <2>1, <2>2 DEF StepOf
<1> QED BY <1>0, <1>4, <1>6, <1>7, <1>9, <1>11, <1>12, <1>13, MoveStep

\* The invariant is inductive.
THEOREM LedgerInvariance == Spec => []LedgerInv
<1>1. Init => LedgerInv
  BY LedgerInitial
<1>2. LedgerInv /\ [Next]_vars => LedgerInv'
  <2> SUFFICES ASSUME LedgerInv, [Next]_vars PROVE LedgerInv'
    OBVIOUS
  <2>1. ASSUME NEW r \in Requests, Receive(r) PROVE LedgerInv'
    BY <2>1, StepReject, StepAccept DEF Receive
  <2>2. ASSUME NEW r \in Requests, Handle(r) PROVE LedgerInv'
    <3>1. CASE LogEvent(r) BY <3>1, StepSuccess DEF LogEvent
    <3> QED BY <2>2, <3>1, StepReadHistory, StepCreate, StepPruneMatch, StepPruneRemove,
               StepReadLatest DEF Handle
  <2>3. ASSUME NEW r \in Requests, LogFails(r) PROVE LedgerInv'
    BY <2>3, StepSuccess DEF LogFails
  <2>4. ASSUME NEW r \in Requests, StorageFails(r) PROVE LedgerInv'
    BY <2>4, StepStorageFails
  <2> QED BY <2>1, <2>2, <2>3, <2>4, StepTick, StepCrash, LedgerStutter DEF Next
<1> QED BY <1>1, <1>2, PTL DEF Spec

\* Every request is at a step its handler has, and every record of the ledger
\* is one its schema allows, in each store and after any crash.
THEOREM LedgerTypeCorrect == Spec => []TypeOK
<1>1. LedgerInv => TypeOK
  BY DEF LedgerInv
<1> QED BY <1>1, LedgerInvariance, PTL

\* prune_decisions: nothing acknowledged is deleted without being reported, and
\* what is reported is gone, though PostgreSQL selects and deletes in two awaits.
THEOREM PruneReports == Spec => []PruneReportsRemoved
<1>1. LedgerInv => PruneReportsRemoved
  <2> SUFFICES ASSUME LedgerInv, NEW p \in Requests,
                      call[p] # Null, call[p].op = "prune", reply[p] = 200
               PROVE  Reported(p)
    BY DEF PruneReportsRemoved, Reported, Gone
  <2>1. pc[p] = "done" BY DEF LedgerInv, Steps, StepOf
  <2> QED BY <2>1 DEF LedgerInv, PruneInv, PruneOf
<1> QED BY <1>1, LedgerInvariance, PTL

\* compute_flakiness_score: the score of a stored verdict rests on all that was
\* acknowledged before it read, or on as many newer ones as a history holds.
THEOREM FlakinessCorrect == Spec => []FlakinessFromHistory
<1>1. LedgerInv => FlakinessFromHistory
  <2> SUFFICES ASSUME LedgerInv, NEW v \in verdicts
               PROVE  /\ \A u \in verdicts : (u.id \in settled[v.id] \ v.history) =>
                           /\ Cardinality(v.history) = HistoryLimit - 1
                           /\ \A w \in verdicts : w.id \in v.history => w.created_at >= u.created_at
                      /\ v.flakiness_score <= 1000
                      /\ v.flakiness_score > 150 =>
                           \E u \in verdicts : u.id \in v.history \cup {v.id} /\ u.wall_ms_cv > HighCv
    BY DEF FlakinessFromHistory
  <2>1. Sourced(v, settled[v.id], verdicts, Past) BY DEF LedgerInv, ScoreInv
  <2> QED BY <2>1 DEF Sourced
<1> QED BY <1>1, LedgerInvariance, PTL

-----------------------------------------------------------------------------
(* Lists: each store selects the records asked for, and its has_more leads  *)
(* to all of them.                                                         *)

LEMMA SubTable ==
  ASSUME NEW table, NEW rows \in SUBSET table, Keyed(table),
         Cardinality(table) <= Cardinality(Requests)
  PROVE  /\ Keyed(rows) /\ Cardinality(rows) <= Cardinality(Requests)
         /\ Cardinality(Requests) \in Nat /\ IsFiniteSet(table)
<1>1. IsFiniteSet(table) /\ IsFiniteSet(Requests)
  BY RequestsAssumption DEF Keyed
<1>2. IsFiniteSet(rows) /\ Cardinality(rows) <= Cardinality(table)
  BY <1>1, FS_Subset
<1>3. Cardinality(rows) \in Nat /\ Cardinality(table) \in Nat /\ Cardinality(Requests) \in Nat
  BY <1>1, <1>2, FS_CardinalityType
<1> QED BY <1>1, <1>2, <1>3 DEF Keyed

LEMMA LedgerKeyed ==
  ASSUME LedgerInv
  PROVE  /\ Keyed(verdicts) /\ Cardinality(verdicts) <= Cardinality(Requests)
         /\ Keyed(decisions) /\ Cardinality(decisions) <= Cardinality(Requests)
         /\ Keyed(audit) /\ Cardinality(audit) <= Cardinality(Requests)
<1>1. /\ \A t \in verdicts : t.id \in Requests /\ t.created_at \in Nat
      /\ \A t \in decisions : t.id \in Requests /\ t.created_at \in Nat
      /\ \A t \in audit : t.id \in Requests /\ t.created_at \in Nat
  BY DEF LedgerInv, TypeOK, VerdictRecord, DecisionRecord, AuditEvent
<1>2. /\ \A t, u \in verdicts : t.id = u.id => t = u
      /\ \A t, u \in decisions : t.id = u.id => t = u
      /\ \A t, u \in audit : t.id = u.id => t = u
  BY DEF LedgerInv, Tables, OwnRecords
<1> QED BY <1>1, <1>2, TableKeyed

LEMMA DecisionsComplete ==
  ASSUME LedgerInv, NEW limit \in Nat \ {0}, NEW rule \in Nat
  PROVE  Walk(DecisionPages(rule, limit)) = {d \in decisions : rule \in d.rules}
<1> DEFINE rows == {d \in decisions : rule \in d.rules}
           N == Cardinality(Requests)
           q == [k \in Pages |-> [limit |-> limit, offset |-> k * limit, status |-> Null,
                                  accepted |-> Null, rule |-> rule]]
           page == DecisionPages(rule, limit)
<1>1. Keyed(rows) /\ Cardinality(rows) <= N /\ N \in Nat /\ IsFiniteSet(decisions)
  BY LedgerKeyed, SubTable
<1>2a. IsFiniteSet(rows)
  BY <1>1 DEF Keyed
<1>2. rule # Null BY NullAssumption
<1>3. \A d \in decisions : d.rules \in SUBSET Nat
  BY DEF LedgerInv, TypeOK, DecisionRecord
<1>4. DOMAIN page = 0..N /\ DOMAIN q = 0..N BY DEF DecisionPages, Pages
<1>5. \A k \in 0..N : /\ q[k].limit = limit /\ q[k].offset = k * limit /\ q[k].status = Null
                      /\ q[k].accepted = Null /\ q[k].rule = rule /\ page[k] = ListDecisions(q[k])
  BY DEF DecisionPages, Pages
<1> HIDE DEF q, page
<1>6. CASE backend = "memory"
  <2>1. ASSUME NEW k \in 0..N PROVE page[k] = FilteredPage(rows, q[k])
    <3>1. page[k] = MemoryListDecisions(decisions, q[k]) BY <1>5, <1>6 DEF ListDecisions
    <3>2. {d \in decisions : /\ Matches(q[k].status, d.status) /\ Matches(q[k].accepted, d.rules # {})
                             /\ q[k].rule = Null \/ q[k].rule \in d.rules} = rows
      BY <1>2, <1>5 DEF Matches
    <3> HIDE DEF rows
    <3> QED BY <3>1, <3>2 DEF MemoryListDecisions
  <2>2. Walk(page) = rows
    <3> HIDE DEF rows, N
    <3>1. FilteredPages(page, rows, q, limit, N) BY <1>4, <1>5, <2>1 DEF FilteredPages
    <3> QED BY <1>1, <3>1, FilteredWalk
  <2> QED BY <2>2 DEF page
<1>7. CASE backend = "sqlite"
  <2>1. ASSUME NEW k \in 0..N PROVE page[k] = CountedPage(rows, rows, q[k])
    <3>1. page[k] = SqliteListDecisions(decisions, q[k]) BY <1>5, <1>7 DEF ListDecisions
    <3>2. ASSUME NEW d \in decisions PROVE InEncodedList(rule, d.rules) <=> rule \in d.rules
      BY <1>3 DEF InEncodedList, PartOf
    <3>3. {d \in decisions : /\ Matches(q[k].status, d.status)
                             /\ q[k].accepted = Null \/ (q[k].accepted <=> d.rules # {})
                             /\ q[k].rule = Null \/ InEncodedList(q[k].rule, d.rules)} = rows
      BY <1>2, <1>5, <3>2 DEF Matches
    <3> HIDE DEF rows
    <3> QED BY <3>1, <3>3 DEF SqliteListDecisions
  <2>2. Walk(page) = rows
    <3> HIDE DEF rows, N
    <3>1. CountedPages(page, rows, rows, q, limit, N) BY <1>4, <1>5, <2>1 DEF CountedPages
    <3> QED BY <1>1, <1>2a, <3>1, CountedWalk
  <2> QED BY <2>2 DEF page
<1>8. CASE backend = "postgres"
  <2>1. ASSUME NEW k \in 0..N PROVE page[k] = CountedPage(rows, rows, q[k])
    <3>1. page[k] = PostgresListDecisions(decisions, q[k]) BY <1>5, <1>8 DEF ListDecisions
    <3>3. {d \in decisions : /\ Matches(q[k].status, d.status)
                             /\ q[k].accepted = Null \/ (q[k].accepted <=> Cardinality(d.rules) > 0)
                             /\ q[k].rule = Null \/ {q[k].rule} \subseteq d.rules} = rows
      BY <1>2, <1>5 DEF Matches
    <3> HIDE DEF rows
    <3> QED BY <3>1, <3>3 DEF PostgresListDecisions
  <2>2. Walk(page) = rows
    <3> HIDE DEF rows, N
    <3>1. CountedPages(page, rows, rows, q, limit, N) BY <1>4, <1>5, <2>1 DEF CountedPages
    <3> QED BY <1>1, <1>2a, <3>1, CountedWalk
  <2> QED BY <2>2 DEF page
<1>9. backend \in {"memory", "sqlite", "postgres"}
  BY BackendsAssumption DEF LedgerInv, TypeOK
<1> QED BY <1>6, <1>7, <1>8, <1>9 DEF page

LEMMA EventsComplete ==
  ASSUME LedgerInv, NEW limit \in Nat \ {0}
  PROVE  Walk(EventPages(limit)) = {e \in audit : e.action = "create"}
<1> DEFINE rows == {e \in audit : e.action = "create"}
           N == Cardinality(Requests)
           q == [k \in Pages |-> [limit |-> limit, offset |-> k * limit, action |-> "create",
                                  since |-> Null, until |-> clock]]
           page == EventPages(limit)
<1>1. Keyed(rows) /\ Cardinality(rows) <= N /\ N \in Nat /\ IsFiniteSet(audit)
  BY LedgerKeyed, SubTable
<1>2a. IsFiniteSet(rows)
  BY <1>1 DEF Keyed
<1>2. "create" # Null BY NullAssumption
<1>3. \A e \in audit : e.created_at <= clock
  BY DEF LedgerInv, Tables
<1>4. DOMAIN page = 0..N /\ DOMAIN q = 0..N BY DEF EventPages, Pages
<1>5. \A k \in 0..N : /\ q[k].limit = limit /\ q[k].offset = k * limit /\ q[k].action = "create"
                      /\ q[k].since = Null /\ q[k].until = clock /\ page[k] = ListEvents(q[k])
  BY DEF EventPages, Pages
<1> HIDE DEF q, page
<1>5a. \A k \in 0..N : {e \in audit : EventMatches(q[k], e)} = rows
  BY <1>2, <1>3, <1>5 DEF EventMatches, Matches, Within
<1> HIDE DEF rows, N
<1>6. CASE backend = "memory"
  <2>1. \A k \in 0..N : page[k] = FilteredPage(rows, q[k])
    BY <1>5, <1>5a, <1>6 DEF ListEvents, MemoryListEvents
  <2>2. FilteredPages(page, rows, q, limit, N) BY <1>4, <1>5, <2>1 DEF FilteredPages
  <2>3. Walk(page) = rows BY <1>1, <2>2, FilteredWalk
  <2> QED BY <2>3 DEF rows, page
<1>7. CASE backend = "sqlite"
  <2>1. \A k \in 0..N : page[k] = CountedPage(rows, rows, q[k])
    BY <1>5, <1>5a, <1>7 DEF ListEvents, SqliteListEvents
  <2>2. CountedPages(page, rows, rows, q, limit, N) BY <1>4, <1>5, <2>1 DEF CountedPages
  <2>3. Walk(page) = rows BY <1>1, <1>2a, <2>2, CountedWalk
  <2> QED BY <2>3 DEF rows, page
<1>8. CASE backend = "postgres"
  <2>1. \A k \in 0..N : page[k] = CountedPage(rows, audit, q[k])
    BY <1>5, <1>5a, <1>8 DEF ListEvents, PostgresListEvents
  <2>2. CountedPages(page, rows, audit, q, limit, N) BY <1>4, <1>5, <2>1 DEF CountedPages
  <2>4. rows \subseteq audit BY DEF rows
  <2>3. Walk(page) = rows BY <1>1, <2>2, <2>4, CountedWalk
  <2> QED BY <2>3 DEF rows, page
<1>9. backend \in {"memory", "sqlite", "postgres"}
  BY BackendsAssumption DEF LedgerInv, TypeOK
<1> QED BY <1>6, <1>7, <1>8, <1>9 DEF page, rows

LEMMA VerdictsComplete ==
  ASSUME LedgerInv, NEW limit \in Nat \ {0}
  PROVE  Walk(VerdictPages(limit)) = {v \in verdicts : v.created_at >= clock}
<1> DEFINE rows == {v \in verdicts : v.created_at >= clock}
           N == Cardinality(Requests)
           q == [k \in Pages |-> [limit |-> limit, offset |-> k * limit, benchmark |-> Null,
                                  status |-> Null, since |-> clock, until |-> Null]]
           page == VerdictPages(limit)
<1>1. Keyed(rows) /\ Cardinality(rows) <= N /\ N \in Nat /\ IsFiniteSet(verdicts)
  BY LedgerKeyed, SubTable
<1>2. clock # Null BY NullAssumption DEF LedgerInv, TypeOK
<1>4. DOMAIN page = 0..N /\ DOMAIN q = 0..N BY DEF VerdictPages, Pages
<1>5. \A k \in 0..N : /\ q[k].limit = limit /\ q[k].offset = k * limit /\ q[k].benchmark = Null
                      /\ q[k].status = Null /\ q[k].since = clock /\ q[k].until = Null
                      /\ page[k] = ListVerdicts(q[k])
  BY DEF VerdictPages, Pages
<1> HIDE DEF q, page
<1>5a. \A k \in 0..N : {v \in verdicts : VerdictMatches(q[k], v)} = rows
  BY <1>2, <1>5 DEF VerdictMatches, Matches, Within
<1>5b. rows \subseteq verdicts OBVIOUS
<1> HIDE DEF rows, N
<1>6. CASE backend = "memory"
  <2>1. \A k \in 0..N : page[k] = FilteredPage(rows, q[k])
    BY <1>5, <1>5a, <1>6 DEF ListVerdicts, MemoryListVerdicts
  <2>2. FilteredPages(page, rows, q, limit, N) BY <1>4, <1>5, <2>1 DEF FilteredPages
  <2>3. Walk(page) = rows BY <1>1, <2>2, FilteredWalk
  <2> QED BY <2>3 DEF rows, page
<1>7. CASE backend \in {"sqlite", "postgres"}
  <2>1. \A k \in 0..N : page[k] = CountedPage(rows, verdicts, q[k])
    BY <1>5, <1>5a, <1>7 DEF ListVerdicts, SqliteListVerdicts, PostgresListVerdicts
  <2>2. CountedPages(page, rows, verdicts, q, limit, N) BY <1>4, <1>5, <2>1 DEF CountedPages
  <2>3. Walk(page) = rows BY <1>1, <1>5b, <2>2, CountedWalk
  <2> QED BY <2>3 DEF rows, page
<1>9. backend \in {"memory", "sqlite", "postgres"}
  BY BackendsAssumption DEF LedgerInv, TypeOK
<1> QED BY <1>6, <1>7, <1>9 DEF page, rows

\* list_verdicts, list_decisions and list_audit_events: whoever follows has_more
\* sees every matching record and no other, in each of the three stores, for
\* every page size and at any moment of a ledger nobody is writing to.
THEOREM ListsComplete ==
  /\ Spec => [](\A limit \in Nat \ {0} : CompleteFor(limit))
  /\ Spec => []ListsAreComplete
<1>1. LedgerInv => \A limit \in Nat \ {0} : CompleteFor(limit)
  <2> SUFFICES ASSUME LedgerInv, NEW limit \in Nat \ {0} PROVE CompleteFor(limit)
    OBVIOUS
  <2>1. \A rule \in UNION {AcceptedRules[r] : r \in Requests} : rule \in Nat
    <3> SUFFICES ASSUME NEW r \in Requests, NEW rule \in AcceptedRules[r] PROVE rule \in Nat
      OBVIOUS
    <3>1. AcceptedRules[r] \in SUBSET (1..Cardinality(Requests)) BY RulesAssumption
    <3> QED BY <3>1
  <2> QED BY <2>1, DecisionsComplete, EventsComplete, VerdictsComplete DEF CompleteFor
<1>2. (\A limit \in Nat \ {0} : CompleteFor(limit)) => ListsAreComplete
  <2>1. \A limit \in 1..2 : limit \in Nat \ {0} OBVIOUS
  <2> QED BY <2>1 DEF ListsAreComplete
<1>3. Spec => [](\A limit \in Nat \ {0} : CompleteFor(limit))
  BY <1>1, LedgerInvariance, PTL
<1> QED BY <1>2, <1>3, PTL

-----------------------------------------------------------------------------
(***************************************************************************)
(* Evidence.  Rules are applied one after the other, each to what the ones *)
(* before it left; what comes of it can be said without their order.       *)
(***************************************************************************)

Applied(i, after, rules, weighted, index, policy) ==
  IF i = 0 THEN [deltas |-> weighted, accepted |-> {}, review |-> {}]
  ELSE ApplyRule(after[i - 1], rules[i], index, policy)

IsApplied(after, n, rules, weighted, index, policy) ==
  after = [i \in 0..n |-> Applied(i, after, rules, weighted, index, policy)]

\* The recursion of ApplyRules has a solution, and ApplyRules is its last value.
LEMMA ApplyExists ==
  ASSUME NEW n \in Nat, NEW rules, NEW weighted, NEW index, NEW policy
  PROVE  \E after : IsApplied(after, n, rules, weighted, index, policy)
<1> DEFINE G == {k \in 0..n : \E f : IsApplied(f, k, rules, weighted, index, policy)}
<1>1. 0 \in G
  <2> DEFINE f == [i \in 0..0 |-> [deltas |-> weighted, accepted |-> {}, review |-> {}]]
  <2>1. IsApplied(f, 0, rules, weighted, index, policy)
    BY DEF IsApplied, Applied
  <2> QED BY <2>1
<1>2. ASSUME NEW k \in 0..n - 1, k \in G PROVE k + 1 \in G
  <2>1. PICK f : IsApplied(f, k, rules, weighted, index, policy)
    BY <1>2
  <2>2. f = [i \in 0..k |-> Applied(i, f, rules, weighted, index, policy)]
    BY <2>1 DEF IsApplied
  <2> DEFINE g == [i \in 0..k + 1 |-> Applied(i, f, rules, weighted, index, policy)]
  <2>3. \A i \in 0..k : g[i] = f[i]
    BY <2>2
  <2>4. \A i \in 0..k + 1 : Applied(i, f, rules, weighted, index, policy)
                            = Applied(i, g, rules, weighted, index, policy)
    <3> SUFFICES ASSUME NEW i \in 0..k + 1, i # 0
                 PROVE  f[i - 1] = g[i - 1]
      BY DEF Applied
    <3>1. i - 1 \in 0..k BY <1>2
    <3> HIDE DEF g
    <3> QED BY <2>3, <3>1
  <2>5. IsApplied(g, k + 1, rules, weighted, index, policy)
    BY <2>4 DEF IsApplied
  <2>6. k + 1 \in 0..n BY <1>2
  <2> QED BY <2>5, <2>6
<1> HIDE DEF G
<1>3. 0..n \subseteq G
  BY <1>1, <1>2, Induction
<1> QED BY <1>3 DEF G

LEMMA ApplyRulesIs ==
  ASSUME NEW rules, Len(rules) \in Nat, NEW weighted, NEW index, NEW policy
  PROVE  \E after : /\ IsApplied(after, Len(rules), rules, weighted, index, policy)
                    /\ ApplyRules(rules, weighted, index, policy) = after[Len(rules)]
<1> DEFINE f == CHOOSE after : IsApplied(after, Len(rules), rules, weighted, index, policy)
<1>1. IsApplied(f, Len(rules), rules, weighted, index, policy)
  BY ApplyExists
<1>2. ApplyRules(rules, weighted, index, policy) = f[Len(rules)]
  BY DEF ApplyRules, IsApplied, Applied
<1> QED BY <1>1, <1>2

\* Deltas that differ at most in their statuses.
Alike(v, w) ==
  /\ DOMAIN v = DOMAIN w
  /\ \A m \in DOMAIN w : /\ v[m].baseline = w[m].baseline /\ v[m].current = w[m].current
                         /\ v[m].cv = w[m].cv

Failing(w, m) == m \in DOMAIN w /\ w[m].status = "fail"

\* What is found for a requirement or an allowance is the same but for status.
LEMMA FoundAlike ==
  ASSUME NEW v, NEW w, Alike(v, w), NEW index, NEW e
  PROVE  /\ Found(e, v, index) = {} <=> Found(e, w, index) = {}
         /\ \A d \in Found(e, v, index) : \E c \in Found(e, w, index) :
              d.baseline = c.baseline /\ d.current = c.current /\ d.cv = c.cv
         /\ \A d \in Found(e, w, index) : \E c \in Found(e, v, index) :
              d.baseline = c.baseline /\ d.current = c.current /\ d.cv = c.cv
<1>1. CASE e.probe # ""
  BY <1>1 DEF Found
<1>2. CASE e.probe = "" /\ e.metric \in DOMAIN w
  <2>1. Found(e, v, index) = {v[e.metric]} /\ Found(e, w, index) = {w[e.metric]}
    BY <1>2 DEF Found, Alike
  <2>2. /\ v[e.metric].baseline = w[e.metric].baseline
        /\ v[e.metric].current = w[e.metric].current /\ v[e.metric].cv = w[e.metric].cv
    BY <1>2 DEF Alike
  <2>3. Found(e, v, index) # {} /\ Found(e, w, index) # {} BY <2>1
  <2>4. \A d \in Found(e, v, index) : d = v[e.metric] /\ w[e.metric] \in Found(e, w, index)
    BY <2>1
  <2>5. \A d \in Found(e, w, index) : d = w[e.metric] /\ v[e.metric] \in Found(e, v, index)
    BY <2>1
  <2> QED BY <2>2, <2>3, <2>4, <2>5
<1>3. CASE e.probe = "" /\ e.metric \notin DOMAIN w
  <2>1. Found(e, v, index) = {} /\ Found(e, w, index) = {}
    BY <1>3 DEF Found, Alike
  <2> QED BY <2>1
<1> QED BY <1>1, <1>2, <1>3

\* So a rule comes out the same, if its metric fails in both or in neither.
LEMMA OutcomeAlike ==
  ASSUME NEW v, NEW w, Alike(v, w), NEW index, NEW policy, NEW rule,
         Failing(v, rule.if_failed) <=> Failing(w, rule.if_failed)
  PROVE  EvaluateRule(rule, v, index, policy) = EvaluateRule(rule, w, index, policy)
<1>1. \A r : Satisfied(r, v, index) <=> Satisfied(r, w, index)
  <2> SUFFICES ASSUME NEW r PROVE Satisfied(r, v, index) <=> Satisfied(r, w, index)
    OBVIOUS
  <2> DEFINE fine(d) == Improved(r.metric, d, r.min)
  <2>1. \A c, d : (d.baseline = c.baseline /\ d.current = c.current) => (fine(c) <=> fine(d))
    BY DEF Improved
  <2>2. Satisfied(r, v, index) <=> \E d \in Found(r, v, index) : fine(d) BY DEF Satisfied
  <2>3. Satisfied(r, w, index) <=> \E d \in Found(r, w, index) : fine(d) BY DEF Satisfied
  <2> HIDE DEF fine
  <2> QED BY <2>1, <2>2, <2>3, FoundAlike
<1>2. \A a : WithinCap(a, v, index) <=> WithinCap(a, w, index)
  <2> SUFFICES ASSUME NEW a PROVE WithinCap(a, v, index) <=> WithinCap(a, w, index)
    OBVIOUS
  <2> DEFINE fine(d) == IF d.baseline = 0 THEN Worse(a.metric, d) = 0 \/ a.max >= 100
                        ELSE 100 * Worse(a.metric, d) <= a.max * d.baseline
  <2>1. \A c, d : (d.baseline = c.baseline /\ d.current = c.current)
                  => Worse(a.metric, c) = Worse(a.metric, d)
    BY DEF Worse
  <2>2. \A c, d : (d.baseline = c.baseline /\ d.current = c.current) => (fine(c) <=> fine(d))
    BY <2>1
  <2>3. WithinCap(a, v, index) <=> \E d \in Found(a, v, index) : fine(d) BY DEF WithinCap
  <2>4. WithinCap(a, w, index) <=> \E d \in Found(a, w, index) : fine(d) BY DEF WithinCap
  <2> HIDE DEF fine
  <2> QED BY <2>2, <2>3, <2>4, FoundAlike
<1>3. \A e : Missing(e, v, index) <=> Missing(e, w, index)
  BY FoundAlike DEF Missing
<1>4. \A e : {d.cv : d \in Found(e, v, index)} = {d.cv : d \in Found(e, w, index)}
  <2> SUFFICES ASSUME NEW e
               PROVE  {d.cv : d \in Found(e, v, index)} = {d.cv : d \in Found(e, w, index)}
    OBVIOUS
  <2>1. \A d \in Found(e, v, index) : \E c \in Found(e, w, index) : d.cv = c.cv BY FoundAlike
  <2>2. \A d \in Found(e, w, index) : \E c \in Found(e, v, index) : d.cv = c.cv BY FoundAlike
  <2> QED BY <2>1, <2>2
<1>5. IncompleteButSatisfied(rule, v, index) <=> IncompleteButSatisfied(rule, w, index)
  BY <1>1, <1>2, <1>3 DEF IncompleteButSatisfied
<1>6. TooNoisyToAccept(rule, v, index, policy) <=> TooNoisyToAccept(rule, w, index, policy)
  BY <1>4 DEF TooNoisyToAccept
<1>7. (rule.if_failed \notin DOMAIN v \/ v[rule.if_failed].status # "fail")
      <=> (rule.if_failed \notin DOMAIN w \/ w[rule.if_failed].status # "fail")
  BY DEF Failing
<1>8. (\A r \in rule.require : Satisfied(r, v, index)) <=> (\A r \in rule.require : Satisfied(r, w, index))
  BY <1>1
<1>9. (\A a \in rule.allow : WithinCap(a, v, index)) <=> (\A a \in rule.allow : WithinCap(a, w, index))
  BY <1>2
<1> QED BY <1>5, <1>6, <1>7, <1>8, <1>9, Zenon DEF EvaluateRule

Shaped(d) ==
  d = [baseline |-> d.baseline, current |-> d.current, cv |-> d.cv, status |-> d.status]

LEMMA WithStatusFacts ==
  ASSUME NEW deltas, \A m \in DOMAIN deltas : Shaped(deltas[m]), NEW ms, NEW s
  PROVE  LET v == WithStatus(deltas, ms, s) IN
         /\ Alike(v, deltas)
         /\ \A m \in DOMAIN deltas : /\ Shaped(v[m])
                                     /\ v[m].status = IF m \in ms THEN s ELSE deltas[m].status
<1> DEFINE v == WithStatus(deltas, ms, s)
<1>1. DOMAIN v = DOMAIN deltas BY DEF WithStatus
<1>2. ASSUME NEW m \in DOMAIN deltas
      PROVE  v[m] = [baseline |-> deltas[m].baseline, current |-> deltas[m].current,
                     cv |-> deltas[m].cv,
                     status |-> IF m \in ms THEN s ELSE deltas[m].status]
  <2>1. v[m] = IF m \in ms THEN [deltas[m] EXCEPT !.status = s] ELSE deltas[m]
    BY DEF WithStatus
  <2>2. deltas[m] = [baseline |-> deltas[m].baseline, current |-> deltas[m].current,
                     cv |-> deltas[m].cv, status |-> deltas[m].status]
    BY DEF Shaped
  <2> HIDE DEF v
  <2> QED BY <2>1, <2>2
<1> HIDE DEF v
<1>3. \A m \in DOMAIN deltas :
        /\ v[m].baseline = deltas[m].baseline /\ v[m].current = deltas[m].current
        /\ v[m].cv = deltas[m].cv /\ v[m].status = IF m \in ms THEN s ELSE deltas[m].status
  <2> TAKE m \in DOMAIN deltas
  <2> DEFINE st == IF m \in ms THEN s ELSE deltas[m].status
  <2>1. v[m] = [baseline |-> deltas[m].baseline, current |-> deltas[m].current,
                cv |-> deltas[m].cv, status |-> st]
    BY <1>2
  <2> HIDE DEF st
  <2>2. /\ v[m].baseline = deltas[m].baseline /\ v[m].current = deltas[m].current
        /\ v[m].cv = deltas[m].cv /\ v[m].status = st
    BY <2>1
  <2> QED BY <2>2 DEF st
<1>4. \A m \in DOMAIN deltas : Shaped(v[m])
  BY <1>2, <1>3 DEF Shaped
<1> QED BY <1>1, <1>3, <1>4 DEF Alike, v

\* The metrics of the first n rules that come out as o, judged by the scenario.
By(o, n, rules, w, index, policy) ==
  {rules[i].if_failed : i \in {i \in 1..n : EvaluateRule(rules[i], w, index, policy) = o}}

LEMMA ByNext ==
  ASSUME NEW o, NEW n \in Nat, NEW rules, NEW w, NEW index, NEW policy
  PROVE  By(o, n + 1, rules, w, index, policy) =
           By(o, n, rules, w, index, policy)
             \cup (IF EvaluateRule(rules[n + 1], w, index, policy) = o
                   THEN {rules[n + 1].if_failed} ELSE {})
<1>1. \A i : i \in 1..n + 1 <=> i \in 1..n \/ i = n + 1
  OBVIOUS
<1> QED BY <1>1 DEF By

\* A metric is downgraded by the first accepted rule for it, and by no other.
Downgraded(m, n, rules, w, index, policy, status) ==
  \E i \in 1..n : /\ rules[i].if_failed = m /\ status = rules[i].downgrade_to
                  /\ EvaluateRule(rules[i], w, index, policy) = "accepted"

StatusAfter(m, n, rules, w, index, policy, status) ==
  IF m \in By("accepted", n, rules, w, index, policy)
  THEN Downgraded(m, n, rules, w, index, policy, status)
  ELSE status = w[m].status

\* After n rules.
SoFar(x, n, rules, w, index, policy) ==
  /\ Alike(x.deltas, w)
  /\ \A m \in DOMAIN w : /\ Shaped(x.deltas[m])
                         /\ StatusAfter(m, n, rules, w, index, policy, x.deltas[m].status)
  /\ x.accepted = By("accepted", n, rules, w, index, policy)
  /\ x.review \subseteq By("needs_review", n, rules, w, index, policy)
  /\ By("needs_review", n, rules, w, index, policy) \ x.accepted \subseteq x.review

LEMMA SoFarStep ==
  ASSUME NEW n \in Nat, NEW rules, NEW w, NEW index, NEW policy, NEW x,
         \A i \in 1..n + 1 : rules[i].downgrade_to # "fail",
         SoFar(x, n, rules, w, index, policy)
  PROVE  SoFar(ApplyRule(x, rules[n + 1], index, policy), n + 1, rules, w, index, policy)
<1> DEFINE rule == rules[n + 1]
           m0 == rule.if_failed
           o == EvaluateRule(rule, w, index, policy)
           now == EvaluateRule(rule, x.deltas, index, policy)
           y == ApplyRule(x, rule, index, policy)
           acc == By("accepted", n, rules, w, index, policy)
           rev == By("needs_review", n, rules, w, index, policy)
           hit == IF now = "accepted" THEN {m0} ELSE {}
<1>1. /\ y.deltas = WithStatus(x.deltas, hit, rule.downgrade_to)
      /\ y.accepted = x.accepted \cup hit
      /\ y.review = x.review \cup (IF now = "needs_review" THEN {m0} ELSE {})
  BY DEF ApplyRule
<1>2. /\ By("accepted", n + 1, rules, w, index, policy) = acc \cup (IF o = "accepted" THEN {m0} ELSE {})
      /\ By("needs_review", n + 1, rules, w, index, policy)
           = rev \cup (IF o = "needs_review" THEN {m0} ELSE {})
  BY ByNext
<1>3. /\ Alike(x.deltas, w) /\ DOMAIN x.deltas = DOMAIN w
      /\ x.accepted = acc /\ x.review \subseteq rev /\ rev \ acc \subseteq x.review
      /\ \A m \in DOMAIN w : /\ Shaped(x.deltas[m])
                             /\ StatusAfter(m, n, rules, w, index, policy, x.deltas[m].status)
  BY DEF SoFar, Alike
<1>4. now = IF m0 \in acc THEN "not_evaluated" ELSE o
  <2>1. CASE m0 \in acc
    <3>1. ~Failing(x.deltas, m0)
      <4> SUFFICES ASSUME m0 \in DOMAIN w PROVE x.deltas[m0].status # "fail"
        BY <1>3 DEF Failing
      <4>1. Downgraded(m0, n, rules, w, index, policy, x.deltas[m0].status)
        BY <1>3, <2>1 DEF StatusAfter
      <4> QED BY <4>1 DEF Downgraded
    <3> QED BY <2>1, <3>1 DEF EvaluateRule, Failing
  <2>2. CASE m0 \notin acc
    <3>1. Failing(x.deltas, m0) <=> Failing(w, m0)
      BY <1>3, <2>2 DEF Failing, StatusAfter
    <3> HIDE DEF acc
    <3> QED BY <1>3, <2>2, <3>1, OutcomeAlike
  <2> QED BY <2>1, <2>2
<1>5. /\ Alike(y.deltas, x.deltas)
      /\ \A m \in DOMAIN w : /\ Shaped(y.deltas[m])
                             /\ y.deltas[m].status = IF m \in hit THEN rule.downgrade_to
                                                     ELSE x.deltas[m].status
  <2> HIDE DEF hit, y
  <2> QED BY <1>1, <1>3, WithStatusFacts
<1>6. Alike(y.deltas, w)
  BY <1>3, <1>5 DEF Alike
<1> HIDE DEF y, now, o, acc, rev
<1>7. y.accepted = By("accepted", n + 1, rules, w, index, policy)
  BY <1>1, <1>2, <1>3, <1>4
<1>8. /\ y.review \subseteq By("needs_review", n + 1, rules, w, index, policy)
      /\ By("needs_review", n + 1, rules, w, index, policy) \ y.accepted \subseteq y.review
  BY <1>1, <1>2, <1>3, <1>4
<1>9. ASSUME NEW m \in DOMAIN w
      PROVE  StatusAfter(m, n + 1, rules, w, index, policy, y.deltas[m].status)
  <2>1. CASE m \in acc
    <3>1. m \in By("accepted", n + 1, rules, w, index, policy) BY <1>2, <2>1
    <3>2. m \notin hit BY <1>4, <2>1
    <3>3. Downgraded(m, n, rules, w, index, policy, x.deltas[m].status)
      BY <1>3, <2>1 DEF StatusAfter, acc
    <3>4. \A i \in 1..n : i \in 1..n + 1 OBVIOUS
    <3>5. Downgraded(m, n + 1, rules, w, index, policy, x.deltas[m].status)
      BY <3>3, <3>4 DEF Downgraded
    <3> QED BY <1>5, <3>1, <3>2, <3>5 DEF StatusAfter
  <2>2. CASE m \notin acc /\ m \in hit
    <3>1. m = m0 /\ now = "accepted" /\ o = "accepted" BY <1>4, <2>2
    <3>2. m \in By("accepted", n + 1, rules, w, index, policy) BY <1>2, <3>1
    <3>3. n + 1 \in 1..n + 1 OBVIOUS
    <3>4. Downgraded(m, n + 1, rules, w, index, policy, rule.downgrade_to)
      BY <3>1, <3>3 DEF Downgraded, o
    <3> QED BY <1>5, <2>2, <3>2, <3>4 DEF StatusAfter
  <2>3. CASE m \notin acc /\ m \notin hit
    <3>1. ~(m = m0 /\ o = "accepted") BY <1>4, <2>3
    <3>2. m \notin By("accepted", n + 1, rules, w, index, policy) BY <1>2, <2>3, <3>1
    <3>3. y.deltas[m].status = x.deltas[m].status /\ x.deltas[m].status = w[m].status
      BY <1>3, <1>5, <2>3 DEF StatusAfter, acc
    <3> QED BY <3>2, <3>3 DEF StatusAfter
  <2> QED BY <2>1, <2>2, <2>3
<1>10. SoFar(y, n + 1, rules, w, index, policy)
  BY <1>5, <1>6, <1>7, <1>8, <1>9 DEF SoFar
<1> QED BY <1>10 DEF y

\* TradeoffUseCase::evaluate, for any number of rules.
LEMMA RulesApplied ==
  ASSUME NEW rules, Len(rules) \in Nat, NEW w, NEW index, NEW policy,
         \A m \in DOMAIN w : Shaped(w[m]),
         \A i \in 1..Len(rules) : rules[i].downgrade_to # "fail"
  PROVE  SoFar(ApplyRules(rules, w, index, policy), Len(rules), rules, w, index, policy)
<1> DEFINE n == Len(rules)
<1>1. PICK f : IsApplied(f, n, rules, w, index, policy) /\ ApplyRules(rules, w, index, policy) = f[n]
  BY ApplyRulesIs
<1>2. \A i \in 0..n : f[i] = Applied(i, f, rules, w, index, policy)
  BY <1>1 DEF IsApplied
<1> DEFINE G == {k \in 0..n : SoFar(f[k], k, rules, w, index, policy)}
<1> HIDE DEF n
<1>0. n \in Nat /\ \A i \in 1..n : rules[i].downgrade_to # "fail" BY DEF n
<1>3. 0 \in G
  <2>1. f[0] = [deltas |-> w, accepted |-> {}, review |-> {}]
    <3>1. 0 \in 0..n BY <1>0
    <3>2. f[0] = Applied(0, f, rules, w, index, policy) BY <1>2, <3>1
    <3> QED BY <3>2 DEF Applied
  <2>2. \A o : By(o, 0, rules, w, index, policy) = {} BY DEF By
  <2>3. Alike(w, w) BY DEF Alike
  <2>4. SoFar(f[0], 0, rules, w, index, policy)
    BY <2>1, <2>2, <2>3 DEF SoFar, StatusAfter
  <2> QED BY <1>0, <2>4
<1>4. ASSUME NEW k \in 0..n - 1, k \in G PROVE k + 1 \in G
  <2>1. k \in Nat /\ k + 1 \in 0..n /\ k + 1 # 0 /\ (k + 1) - 1 = k BY <1>0, <1>4
  <2>2. f[k + 1] = ApplyRule(f[k], rules[k + 1], index, policy) BY <1>2, <2>1 DEF Applied
  <2>3. \A i \in 1..k + 1 : rules[i].downgrade_to # "fail" BY <1>0, <2>1
  <2>4. SoFar(f[k], k, rules, w, index, policy) BY <1>4
  <2>5. SoFar(f[k + 1], k + 1, rules, w, index, policy) BY <2>1, <2>2, <2>3, <2>4, SoFarStep
  <2> QED BY <2>1, <2>5
<1>5. n \in G
  <2> HIDE DEF G
  <2>1. 0..n \subseteq G BY <1>0, <1>3, <1>4, Induction
  <2> QED BY <1>0, <2>1
<1> QED BY <1>1, <1>5 DEF n

\* The receipt, told from the scenario's deltas and the rules.
LEMMA Decided ==
  ASSUME NEW rules, Len(rules) \in Nat, NEW w, NEW index, NEW policy,
         \A m \in DOMAIN w : Shaped(w[m]),
         \A i \in 1..Len(rules) : rules[i].downgrade_to # "fail"
  PROVE  LET d == Decide(rules, w, index, policy)
             A == By("accepted", Len(rules), rules, w, index, policy)
             R == By("needs_review", Len(rules), rules, w, index, policy)
         IN /\ DOMAIN d.deltas = DOMAIN w
            /\ \A m \in DOMAIN w :
                 IF m \in R \ A THEN d.deltas[m].status = "warn"
                 ELSE StatusAfter(m, Len(rules), rules, w, index, policy, d.deltas[m].status)
            /\ d.accepted = (A # {}) /\ d.review_required = (R \ A # {})
<1> DEFINE n == Len(rules)
           d == Decide(rules, w, index, policy)
           A == By("accepted", n, rules, w, index, policy)
           R == By("needs_review", n, rules, w, index, policy)
           x == ApplyRules(rules, w, index, policy)
<1>1. SoFar(x, n, rules, w, index, policy)
  BY RulesApplied
<1> HIDE DEF x
<1>2. x.accepted = A /\ x.review \ x.accepted = R \ A
  BY <1>1 DEF SoFar
<1>3. /\ d.deltas = WithStatus(x.deltas, R \ A, "warn")
      /\ d.accepted = (A # {}) /\ d.review_required = (R \ A # {})
  <2>0. d = Decide(rules, w, index, policy) OBVIOUS
  <2> HIDE DEF d, A, R
  <2> QED BY <1>2, <2>0 DEF Decide, x
<1>4. DOMAIN x.deltas = DOMAIN w
      /\ \A m \in DOMAIN w : /\ Shaped(x.deltas[m])
                             /\ StatusAfter(m, n, rules, w, index, policy, x.deltas[m].status)
  BY <1>1 DEF SoFar, Alike
<1>5. /\ Alike(d.deltas, x.deltas)
      /\ \A m \in DOMAIN w : d.deltas[m].status = IF m \in R \ A THEN "warn" ELSE x.deltas[m].status
  <2> HIDE DEF d, A, R
  <2> QED BY <1>3, <1>4, WithStatusFacts
<1>6. DOMAIN d.deltas = DOMAIN w
  BY <1>4, <1>5 DEF Alike
<1> HIDE DEF d, A, R, n
<1>7. \A m \in DOMAIN w :
        IF m \in R \ A THEN d.deltas[m].status = "warn"
        ELSE StatusAfter(m, n, rules, w, index, policy, d.deltas[m].status)
  BY <1>4, <1>5
<1> QED BY <1>3, <1>6, <1>7 DEF d, A, R, n

Judgeable(rules, w) ==
  /\ Len(rules) \in Nat
  /\ \A m \in DOMAIN w : Shaped(w[m])
  /\ \A i \in 1..Len(rules) : rules[i].downgrade_to # "fail"

LEMMA DecidedFlags ==
  ASSUME NEW rules, NEW w, NEW index, NEW policy, Judgeable(rules, w)
  PROVE  /\ Decide(rules, w, index, policy).accepted
              = (By("accepted", Len(rules), rules, w, index, policy) # {})
         /\ Decide(rules, w, index, policy).review_required
              = (By("needs_review", Len(rules), rules, w, index, policy)
                   \ By("accepted", Len(rules), rules, w, index, policy) # {})
BY Decided DEF Judgeable

\* An accepted or reviewed metric was failing, and a downgrade is no failure.
LEMMA JudgedFailing ==
  ASSUME NEW rule, NEW w, NEW index, NEW policy,
         EvaluateRule(rule, w, index, policy) \in {"accepted", "needs_review"}
  PROVE  Failing(w, rule.if_failed)
BY DEF EvaluateRule, Failing

FailSet(w) == {m \in DOMAIN w : w[m].status = "fail"}

LEMMA StillFailing ==
  ASSUME NEW rules, NEW w, NEW index, NEW policy, Judgeable(rules, w)
  PROVE  FailSet(Decide(rules, w, index, policy).deltas)
           = FailSet(w) \ (By("accepted", Len(rules), rules, w, index, policy)
                             \cup By("needs_review", Len(rules), rules, w, index, policy))
<1> DEFINE n == Len(rules)
           d == Decide(rules, w, index, policy)
           A == By("accepted", n, rules, w, index, policy)
           R == By("needs_review", n, rules, w, index, policy)
<1>1. /\ DOMAIN d.deltas = DOMAIN w
      /\ \A m \in DOMAIN w :
           IF m \in R \ A THEN d.deltas[m].status = "warn"
           ELSE StatusAfter(m, n, rules, w, index, policy, d.deltas[m].status)
  BY Decided DEF Judgeable
<1>2. \A m, s : Downgraded(m, n, rules, w, index, policy, s) => s # "fail"
  BY DEF Downgraded, Judgeable
<1>3. \A m, s : StatusAfter(m, n, rules, w, index, policy, s)
                <=> IF m \in A THEN Downgraded(m, n, rules, w, index, policy, s) ELSE s = w[m].status
  BY DEF StatusAfter
<1> HIDE DEF d, A, R, n
<1>4. \A m \in DOMAIN w : d.deltas[m].status = "fail" <=> w[m].status = "fail" /\ m \notin A \cup R
  BY <1>1, <1>2, <1>3
<1>5. FailSet(d.deltas) = FailSet(w) \ (A \cup R)
  BY <1>1, <1>4 DEF FailSet
<1> QED BY <1>5 DEF d, A, R, n

\* The same rules in another order, each once.
LEMMA Reordered ==
  ASSUME NEW T, NEW rules \in Seq(T), NEW other \in SetToSeqs(Range(rules))
  PROVE  /\ Len(other) \in Nat /\ DOMAIN other = 1..Len(other) /\ DOMAIN rules = 1..Len(rules)
         /\ Len(rules) \in Nat
         /\ \A i \in 1..Len(other) : \E j \in 1..Len(rules) : other[i] = rules[j]
         /\ \A j \in 1..Len(rules) : \E i \in 1..Len(other) : other[i] = rules[j]
<1> DEFINE S == Range(rules)
           N == Cardinality(S)
<1>1. Len(rules) \in Nat /\ DOMAIN rules = 1..Len(rules)
  OBVIOUS
<1>2. \A r : r \in S <=> \E j \in 1..Len(rules) : r = rules[j]
  BY <1>1 DEF Range
<1>3. IsFiniteSet(S) /\ N \in Nat
  <2>1. rules \in Surjection(1..Len(rules), S)
    BY <1>1, <1>2 DEF Surjection
  <2>2. IsFiniteSet(1..Len(rules)) BY <1>1, FS_Interval
  <2> HIDE DEF S
  <2>3. IsFiniteSet(S) BY <2>1, <2>2, FS_Surjection
  <2> QED BY <2>3, FS_CardinalityType
<1>4. other \in [1..N -> S] /\ \A i, j \in 1..N : i # j => other[i] # other[j]
  BY DEF SetToSeqs
<1> HIDE DEF S, N
<1>5. other \in Seq(S) /\ Len(other) = N /\ DOMAIN other = 1..Len(other)
  BY <1>3, <1>4
<1>6. other \in Surjection(1..N, S)
  <2>1. other \in Injection(1..N, S) BY <1>4 DEF Injection, IsInjective
  <2>2. IsFiniteSet(1..N) /\ Cardinality(1..N) = N BY <1>3, FS_Interval
  <2> QED BY <1>3, <2>1, <2>2, FS_Injection DEF N
<1>7. \A r \in S : \E i \in 1..N : other[i] = r
  BY <1>6 DEF Surjection
<1>8. \A i \in 1..Len(other) : \E j \in 1..Len(rules) : other[i] = rules[j]
  BY <1>2, <1>4, <1>5
<1>9. \A j \in 1..Len(rules) : \E i \in 1..Len(other) : other[i] = rules[j]
  BY <1>2, <1>5, <1>7
<1> QED BY <1>1, <1>3, <1>5, <1>8, <1>9

\* The order of the rules decides neither what fails nor what is accepted or
\* has to be reviewed.
LEMMA OrderIrrelevant ==
  ASSUME NEW rules \in Seq(TradeoffRule), NEW other \in SetToSeqs(Range(rules)),
         NEW w, NEW index, NEW policy, \A m \in DOMAIN w : Shaped(w[m])
  PROVE  LET d == Decide(other, w, index, policy)
             e == Decide(rules, w, index, policy)
         IN /\ {m \in DOMAIN d.deltas : d.deltas[m].status = "fail"}
                 = {m \in DOMAIN e.deltas : e.deltas[m].status = "fail"}
            /\ d.accepted = e.accepted /\ d.review_required = e.review_required
<1>1. /\ Len(other) \in Nat /\ Len(rules) \in Nat /\ DOMAIN rules = 1..Len(rules)
      /\ \A i \in 1..Len(other) : \E j \in 1..Len(rules) : other[i] = rules[j]
      /\ \A j \in 1..Len(rules) : \E i \in 1..Len(other) : other[i] = rules[j]
  BY Reordered
<1>2. \A j \in 1..Len(rules) : rules[j].downgrade_to # "fail"
  <2> TAKE j \in 1..Len(rules)
  <2>1. rules[j] \in TradeoffRule BY <1>1
  <2> QED BY <2>1 DEF TradeoffRule
<1>3. \A i \in 1..Len(other) : other[i].downgrade_to # "fail"
  BY <1>1, <1>2
<1>4. \A o : By(o, Len(other), other, w, index, policy) = By(o, Len(rules), rules, w, index, policy)
  <2> TAKE o
  <2>1. By(o, Len(other), other, w, index, policy) \subseteq By(o, Len(rules), rules, w, index, policy)
    BY <1>1 DEF By
  <2>2. By(o, Len(rules), rules, w, index, policy) \subseteq By(o, Len(other), other, w, index, policy)
    BY <1>1 DEF By
  <2> QED BY <2>1, <2>2
<1>5. Judgeable(other, w) /\ Judgeable(rules, w)
  BY <1>1, <1>2, <1>3 DEF Judgeable
<1>6. /\ Decide(other, w, index, policy).accepted = Decide(rules, w, index, policy).accepted
      /\ Decide(other, w, index, policy).review_required
           = Decide(rules, w, index, policy).review_required
  <2> DEFINE A == By("accepted", Len(rules), rules, w, index, policy)
             R == By("needs_review", Len(rules), rules, w, index, policy)
             B == By("accepted", Len(other), other, w, index, policy)
             S == By("needs_review", Len(other), other, w, index, policy)
  <2>1. A = B /\ R = S BY <1>4
  <2>2. /\ Decide(other, w, index, policy).accepted = (B # {})
        /\ Decide(other, w, index, policy).review_required = (S \ B # {})
    BY <1>5, DecidedFlags
  <2>3. /\ Decide(rules, w, index, policy).accepted = (A # {})
        /\ Decide(rules, w, index, policy).review_required = (R \ A # {})
    BY <1>5, DecidedFlags
  <2> HIDE DEF A, B, R, S
  <2> QED BY <2>1, <2>2, <2>3, Zenon
<1>7. FailSet(Decide(other, w, index, policy).deltas) = FailSet(Decide(rules, w, index, policy).deltas)
  <2>1. FailSet(Decide(other, w, index, policy).deltas)
          = FailSet(w) \ (By("accepted", Len(other), other, w, index, policy)
                            \cup By("needs_review", Len(other), other, w, index, policy))
    BY <1>5, StillFailing
  <2>2. FailSet(Decide(rules, w, index, policy).deltas)
          = FailSet(w) \ (By("accepted", Len(rules), rules, w, index, policy)
                            \cup By("needs_review", Len(rules), rules, w, index, policy))
    BY <1>5, StillFailing
  <2>3. /\ By("accepted", Len(other), other, w, index, policy)
             = By("accepted", Len(rules), rules, w, index, policy)
        /\ By("needs_review", Len(other), other, w, index, policy)
             = By("needs_review", Len(rules), rules, w, index, policy)
    BY <1>4
  <2> QED BY <2>1, <2>2, <2>3, Zenon
<1> QED BY <1>6, <1>7 DEF FailSet

-----------------------------------------------------------------------------
(* Weighted sums: a total improves only if one of its parts does.          *)

IsSeqSum(g, n, terms) == g = [i \in 0..n |-> IF i = 0 THEN 0 ELSE g[i - 1] + terms[i]]

LEMMA SeqSumExists ==
  ASSUME NEW n \in Nat, NEW terms
  PROVE  \E g : IsSeqSum(g, n, terms)
<1> DEFINE G == {k \in 0..n : \E f : IsSeqSum(f, k, terms)}
<1>1. 0 \in G
  <2> DEFINE f == [i \in 0..0 |-> 0]
  <2>1. IsSeqSum(f, 0, terms) BY DEF IsSeqSum
  <2> QED BY <2>1
<1>2. ASSUME NEW k \in 0..n - 1, k \in G PROVE k + 1 \in G
  <2>1. PICK f : IsSeqSum(f, k, terms) BY <1>2
  <2>2. f = [i \in 0..k |-> IF i = 0 THEN 0 ELSE f[i - 1] + terms[i]] BY <2>1 DEF IsSeqSum
  <2> DEFINE g == [i \in 0..k + 1 |-> IF i = 0 THEN 0 ELSE f[i - 1] + terms[i]]
  <2>3. \A i \in 0..k : g[i] = f[i] BY <2>2
  <2>4. \A i \in 0..k + 1 : i # 0 => f[i - 1] = g[i - 1]
    <3> SUFFICES ASSUME NEW i \in 0..k + 1, i # 0 PROVE f[i - 1] = g[i - 1]
      OBVIOUS
    <3>1. i - 1 \in 0..k BY <1>2
    <3> HIDE DEF g
    <3> QED BY <2>3, <3>1
  <2>5. IsSeqSum(g, k + 1, terms) BY <2>4 DEF IsSeqSum
  <2>6. k + 1 \in 0..n BY <1>2
  <2> QED BY <2>5, <2>6
<1> HIDE DEF G
<1>3. 0..n \subseteq G BY <1>1, <1>2, Induction
<1> QED BY <1>3 DEF G

LEMMA SumSeqIs ==
  ASSUME NEW terms, NEW n \in Nat, Len(terms) = n
  PROVE  \E g : /\ SumSeq(terms) = g[n] /\ g[0] = 0
                /\ \A i \in 0..n - 1 : g[i + 1] = g[i] + terms[i + 1]
<1> DEFINE g == CHOOSE g : IsSeqSum(g, Len(terms), terms)
<1>1. IsSeqSum(g, n, terms) BY SeqSumExists
<1>2. SumSeq(terms) = g[n] BY DEF SumSeq, IsSeqSum
<1> HIDE DEF g
<1>3. g = [i \in 0..n |-> IF i = 0 THEN 0 ELSE g[i - 1] + terms[i]] BY <1>1 DEF IsSeqSum
<1>4. g[0] = 0 BY <1>3
<1>5. ASSUME NEW i \in 0..n - 1 PROVE g[i + 1] = g[i] + terms[i + 1]
  <2>1. i + 1 \in 0..n /\ i + 1 # 0 /\ (i + 1) - 1 = i BY <1>5
  <2> QED BY <1>3, <2>1
<1> QED BY <1>2, <1>4, <1>5

LEMMA Distribute == \A p, a, b \in Nat : p * (a + b) = p * a + p * b /\ p * a \in Nat
BY Z3

\* Term by term, with factors.
LEMMA SumsCompare ==
  ASSUME NEW n \in Nat, NEW f, NEW g, Len(f) = n, Len(g) = n, NEW p \in Nat, NEW q \in Nat,
         \A i \in 1..n : f[i] \in Nat /\ g[i] \in Nat /\ p * f[i] <= q * g[i]
  PROVE  /\ SumSeq(f) \in Nat /\ SumSeq(g) \in Nat
         /\ p * SumSeq(f) <= q * SumSeq(g)
         /\ (\E j \in 1..n : p * f[j] < q * g[j]) => p * SumSeq(f) < q * SumSeq(g)
<1>1. PICK F : /\ SumSeq(f) = F[n] /\ F[0] = 0
               /\ \A i \in 0..n - 1 : F[i + 1] = F[i] + f[i + 1]
  BY SumSeqIs
<1>2. PICK H : /\ SumSeq(g) = H[n] /\ H[0] = 0
               /\ \A i \in 0..n - 1 : H[i + 1] = H[i] + g[i + 1]
  BY SumSeqIs
<1> DEFINE strict(k) == \E j \in 1..k : p * f[j] < q * g[j]
           good(k) == /\ F[k] \in Nat /\ H[k] \in Nat /\ p * F[k] <= q * H[k]
                      /\ strict(k) => p * F[k] < q * H[k]
           G == {k \in 0..n : good(k)}
<1>3. 0 \in G
  <2>1. p * 0 = 0 /\ q * 0 = 0 OBVIOUS
  <2>2. ~strict(0) OBVIOUS
  <2> HIDE DEF strict
  <2> QED BY <1>1, <1>2, <2>1, <2>2
<1>4. ASSUME NEW k \in 0..n - 1, k \in G PROVE k + 1 \in G
  <2>1. k \in Nat /\ k + 1 \in 1..n /\ k + 1 \in 0..n BY <1>4
  <2>2. good(k) BY <1>4
  <2>3. F[k + 1] = F[k] + f[k + 1] /\ H[k + 1] = H[k] + g[k + 1] BY <1>1, <1>2, <1>4
  <2>4. f[k + 1] \in Nat /\ g[k + 1] \in Nat /\ p * f[k + 1] <= q * g[k + 1] BY <2>1
  <2>5. strict(k + 1) => strict(k) \/ p * f[k + 1] < q * g[k + 1]
    <3>1. \A j \in 1..k + 1 : j \in 1..k \/ j = k + 1 BY <2>1
    <3> QED BY <3>1
  <2> HIDE DEF strict
  <2> DEFINE a == F[k] b == f[k + 1] c == H[k] d == g[k + 1]
  <2>6. a \in Nat /\ b \in Nat /\ c \in Nat /\ d \in Nat BY <2>2, <2>4
  <2> HIDE DEF a, b, c, d
  <2>7. /\ p * (a + b) = p * a + p * b /\ q * (c + d) = q * c + q * d
        /\ p * a \in Nat /\ p * b \in Nat /\ q * c \in Nat /\ q * d \in Nat
    <3>1. p * (a + b) = p * a + p * b /\ p * a \in Nat BY <2>6, Distribute, Zenon
    <3>2. q * (c + d) = q * c + q * d /\ q * c \in Nat BY <2>6, Distribute, Zenon
    <3>3. p * b \in Nat /\ q * d \in Nat BY <2>6, Distribute, Zenon
    <3> QED BY <3>1, <3>2, <3>3
  <2>8. p * a <= q * c /\ (strict(k) => p * a < q * c) BY <2>2 DEF a, c
  <2>9. p * b <= q * d /\ (strict(k + 1) => strict(k) \/ p * b < q * d) BY <2>4, <2>5 DEF b, d
  <2>10. p * (a + b) <= q * (c + d) /\ (strict(k + 1) => p * (a + b) < q * (c + d))
    <3> DEFINE pa == p * a pb == p * b qc == q * c qd == q * d
    <3>1. pa \in Nat /\ pb \in Nat /\ qc \in Nat /\ qd \in Nat BY <2>7
    <3>2. p * (a + b) = pa + pb /\ q * (c + d) = qc + qd BY <2>7
    <3>3. pa <= qc /\ pb <= qd /\ (strict(k + 1) => pa < qc \/ pb < qd) BY <2>8, <2>9
    <3> HIDE DEF pa, pb, qc, qd
    <3> QED BY <3>1, <3>2, <3>3
  <2>11. F[k + 1] = a + b /\ H[k + 1] = c + d /\ a + b \in Nat /\ c + d \in Nat
    <3>1. F[k + 1] = a + b /\ H[k + 1] = c + d BY <2>3, Zenon DEF a, b, c, d
    <3>2. a + b \in Nat /\ c + d \in Nat BY <2>6
    <3> QED BY <3>1, <3>2
  <2> QED BY <2>1, <2>10, <2>11
<1>5. good(n)
  <2> HIDE DEF G
  <2>1. 0..n \subseteq G BY <1>3, <1>4, Induction
  <2>2. n \in G BY <2>1
  <2> QED BY <2>2 DEF G
<1> QED BY <1>1, <1>2, <1>5

LEMMA WeightOrder ==
  /\ \A w \in Nat \ {0}, p, q, x, y \in Nat : p * x < q * y => p * (w * x) < q * (w * y)
  /\ \A w, p, q, x, y \in Nat : p * x <= q * y => p * (w * x) <= q * (w * y)
<1>1. \A w, p, x \in Nat : p * (w * x) = w * (p * x) /\ p * x \in Nat BY Z3
<1>2. \A w \in Nat \ {0}, s, t \in Nat : s < t => w * s < w * t BY Z3
<1>3. \A w, s, t \in Nat : s <= t => w * s <= w * t BY Z3
<1>4. ASSUME NEW w \in Nat \ {0}, NEW p \in Nat, NEW q \in Nat, NEW x \in Nat, NEW y \in Nat,
             p * x < q * y
      PROVE  p * (w * x) < q * (w * y)
  <2> DEFINE s == p * x t == q * y
  <2>1. /\ p * (w * x) = w * s /\ s \in Nat /\ q * (w * y) = w * t /\ t \in Nat /\ s < t
    BY <1>1, <1>4
  <2> HIDE DEF s, t
  <2>2. w * s < w * t BY <1>2, <2>1
  <2> QED BY <2>1, <2>2
<1>5. ASSUME NEW w \in Nat, NEW p \in Nat, NEW q \in Nat, NEW x \in Nat, NEW y \in Nat,
             p * x <= q * y
      PROVE  p * (w * x) <= q * (w * y)
  <2> DEFINE s == p * x t == q * y
  <2>1. /\ p * (w * x) = w * s /\ s \in Nat /\ q * (w * y) = w * t /\ t \in Nat /\ s <= t
    BY <1>1, <1>5
  <2> HIDE DEF s, t
  <2>2. w * s <= w * t BY <1>3, <2>1
  <2> QED BY <2>1, <2>2
<1> QED BY <1>4, <1>5

\* Components of a scenario: positive weights, measured values.
Weighted(inputs, n) ==
  /\ inputs = [i \in 1..n |-> inputs[i]]
  /\ \A i \in 1..n : /\ inputs[i].weight \in Nat \ {0}
                     /\ \A m \in DOMAIN inputs[i].deltas :
                          /\ inputs[i].deltas[m].baseline \in Nat
                          /\ inputs[i].deltas[m].current \in Nat

\* The terms of a weighted baseline and of a weighted current value.
LEMMA WeightedTerms ==
  ASSUME NEW n \in Nat, NEW inputs, Weighted(inputs, n), NEW m
  PROVE  \E B, C :
           /\ Len(B) = n /\ Len(C) = n
           /\ WeightedBaseline(inputs, m) = SumSeq(B) /\ WeightedCurrent(inputs, m) = SumSeq(C)
           /\ \A i \in 1..n : IF m \in DOMAIN inputs[i].deltas
                THEN /\ B[i] = inputs[i].weight * inputs[i].deltas[m].baseline
                     /\ C[i] = inputs[i].weight * inputs[i].deltas[m].current
                ELSE B[i] = 0 /\ C[i] = 0
<1> DEFINE B == [i \in 1..n |-> IF m \in DOMAIN inputs[i].deltas
                                THEN inputs[i].weight * inputs[i].deltas[m].baseline ELSE 0]
           C == [i \in 1..n |-> IF m \in DOMAIN inputs[i].deltas
                                THEN inputs[i].weight * inputs[i].deltas[m].current ELSE 0]
<1>1. DOMAIN inputs = 1..n BY DEF Weighted
<1>2. WeightedBaseline(inputs, m) = SumSeq(B) /\ WeightedCurrent(inputs, m) = SumSeq(C)
  BY <1>1 DEF WeightedBaseline, WeightedCurrent
<1>3. Len(B) = n /\ Len(C) = n
  OBVIOUS
<1>4. \A i \in 1..n : IF m \in DOMAIN inputs[i].deltas
        THEN /\ B[i] = inputs[i].weight * inputs[i].deltas[m].baseline
             /\ C[i] = inputs[i].weight * inputs[i].deltas[m].current
        ELSE B[i] = 0 /\ C[i] = 0
  OBVIOUS
<1> HIDE DEF B, C
<1> QED BY <1>2, <1>3, <1>4

\* improvement_ratio on weighted means.
LEMMA SomeComponentImproved ==
  ASSUME NEW n \in Nat, NEW inputs, Weighted(inputs, n), NEW m,
         NEW j \in 1..n, m \in DOMAIN inputs[j].deltas, NEW min \in Nat \ {0}, NEW d,
         d.baseline = WeightedBaseline(inputs, m), d.current = WeightedCurrent(inputs, m),
         d.baseline > 0, Improved(m, d, min)
  PROVE  \E i \in 1..n :
           /\ m \in DOMAIN inputs[i].deltas
           /\ \/ Improved(m, inputs[i].deltas[m], min)
              \/ /\ m \in HigherIsBetter
                 /\ inputs[i].deltas[m].baseline = 0 /\ inputs[i].deltas[m].current > 0
<1> DEFINE has(i) == m \in DOMAIN inputs[i].deltas
           w(i) == inputs[i].weight
           b(i) == inputs[i].deltas[m].baseline
           c(i) == inputs[i].deltas[m].current
<1>1. SUFFICES ASSUME \A i \in 1..n : has(i) =>
                        /\ ~Improved(m, inputs[i].deltas[m], min)
                        /\ ~(m \in HigherIsBetter /\ b(i) = 0 /\ c(i) > 0)
               PROVE  FALSE
  OBVIOUS
<1>2. PICK B, C :
        /\ Len(B) = n /\ Len(C) = n
        /\ WeightedBaseline(inputs, m) = SumSeq(B) /\ WeightedCurrent(inputs, m) = SumSeq(C)
        /\ \A i \in 1..n : IF has(i) THEN B[i] = w(i) * b(i) /\ C[i] = w(i) * c(i)
                           ELSE B[i] = 0 /\ C[i] = 0
  BY WeightedTerms
<1>3. \A i \in 1..n : has(i) => w(i) \in Nat \ {0} /\ b(i) \in Nat /\ c(i) \in Nat
  BY DEF Weighted
<1>4. d.baseline = SumSeq(B) /\ d.current = SumSeq(C)
  BY <1>2
<1>5. has(j) OBVIOUS
<1>6. m \in HigherIsBetter =>
        \A i \in 1..n : has(i) =>
          /\ 100 * c(i) <= min * b(i)
          /\ b(i) > 0 => 100 * c(i) < min * b(i)
  <2> SUFFICES ASSUME m \in HigherIsBetter, NEW i \in 1..n, has(i)
               PROVE  100 * c(i) <= min * b(i) /\ (b(i) > 0 => 100 * c(i) < min * b(i))
    OBVIOUS
  <2>1. ~(b(i) > 0 /\ 100 * c(i) >= min * b(i)) /\ ~(b(i) = 0 /\ c(i) > 0)
    BY <1>1 DEF Improved
  <2>2. b(i) \in Nat /\ c(i) \in Nat BY <1>3
  <2> HIDE DEF b, c, has
  <2>3. \A x, y \in Nat : x * y \in Nat /\ x * 0 = 0 BY Z3
  <2>4. min * b(i) \in Nat /\ min * 0 = 0 BY <2>2, <2>3
  <2>5. CASE b(i) = 0 BY <2>1, <2>2, <2>4, <2>5
  <2>6. CASE b(i) > 0
    <3> DEFINE t == min * b(i)
    <3>1. t \in Nat /\ ~(100 * c(i) >= t) BY <2>1, <2>4, <2>6
    <3> HIDE DEF t
    <3>2. 100 * c(i) < t BY <2>2, <3>1
    <3> QED BY <2>2, <3>1, <3>2 DEF t
  <2> QED BY <2>2, <2>5, <2>6
<1>7. m \notin HigherIsBetter => \A i \in 1..n : has(i) => 100 * b(i) < min * c(i)
  <2> SUFFICES ASSUME m \notin HigherIsBetter, NEW i \in 1..n, has(i)
               PROVE  100 * b(i) < min * c(i)
    OBVIOUS
  <2>1. ~(100 * b(i) >= min * c(i)) BY <1>1 DEF Improved
  <2>2. b(i) \in Nat /\ c(i) \in Nat BY <1>3
  <2> HIDE DEF b, c, has
  <2>3. \A x, y \in Nat : x * y \in Nat BY Z3
  <2> DEFINE t == min * c(i)
  <2>4. t \in Nat /\ ~(100 * b(i) >= t) BY <2>1, <2>2, <2>3
  <2> HIDE DEF t
  <2>5. 100 * b(i) < t BY <2>2, <2>4
  <2> QED BY <2>5 DEF t
<1> HIDE DEF has, w, b, c
<1>8. \A i \in 1..n : B[i] \in Nat /\ C[i] \in Nat
  <2>1. \A x, y \in Nat : x * y \in Nat BY Z3
  <2> QED BY <1>2, <1>3, <2>1
<1>9. CASE m \notin HigherIsBetter
  <2>1. \A i \in 1..n : 100 * B[i] <= min * C[i] /\ (has(i) => 100 * B[i] < min * C[i])
    <3> TAKE i \in 1..n
    <3>1. CASE has(i)
      <4>1. 100 * (w(i) * b(i)) < min * (w(i) * c(i)) BY <1>3, <1>7, <1>9, <3>1, WeightOrder
      <4>2. B[i] = w(i) * b(i) /\ C[i] = w(i) * c(i) BY <1>2, <3>1
      <4>3. 100 * B[i] < min * C[i] BY <4>1, <4>2
      <4>4. \A s, t \in Int : s < t => s <= t OBVIOUS
      <4>5. 100 * B[i] \in Int /\ min * C[i] \in Int BY <1>8
      <4> QED BY <4>3, <4>4, <4>5
    <3>2. CASE ~has(i)
      <4>1. B[i] = 0 /\ C[i] = 0 BY <1>2, <3>2
      <4>2. 100 * 0 = 0 /\ min * 0 = 0 OBVIOUS
      <4> QED BY <3>2, <4>1, <4>2
    <3> QED BY <3>1, <3>2
  <2>2. 100 * SumSeq(B) < min * SumSeq(C) /\ SumSeq(B) \in Nat /\ SumSeq(C) \in Nat
    BY <1>2, <1>5, <1>8, <2>1, SumsCompare
  <2>3. 100 * SumSeq(B) >= min * SumSeq(C) BY <1>4, <1>9 DEF Improved
  <2>4. 100 * SumSeq(B) \in Int /\ min * SumSeq(C) \in Int BY <2>2
  <2>5. \A s, t \in Int : ~(s < t /\ s >= t) OBVIOUS
  <2> QED BY <2>2, <2>3, <2>4, <2>5
<1>10. CASE m \in HigherIsBetter
  <2>1. \A i \in 1..n : /\ 100 * C[i] <= min * B[i]
                        /\ (has(i) /\ b(i) > 0) => 100 * C[i] < min * B[i]
    <3> TAKE i \in 1..n
    <3>1. CASE has(i)
      <4>1. 100 * (w(i) * c(i)) <= min * (w(i) * b(i)) BY <1>3, <1>6, <1>10, <3>1, WeightOrder
      <4>3. b(i) > 0 => 100 * (w(i) * c(i)) < min * (w(i) * b(i))
        BY <1>3, <1>6, <1>10, <3>1, WeightOrder
      <4>2. B[i] = w(i) * b(i) /\ C[i] = w(i) * c(i) BY <1>2, <3>1
      <4> QED BY <4>1, <4>2, <4>3
    <3>2. CASE ~has(i)
      <4>1. B[i] = 0 /\ C[i] = 0 BY <1>2, <3>2
      <4>2. 100 * 0 = 0 /\ min * 0 = 0 OBVIOUS
      <4> QED BY <3>2, <4>1, <4>2
    <3> QED BY <3>1, <3>2
  <2>2. \E k \in 1..n : has(k) /\ b(k) > 0
    <3> SUFFICES ASSUME \A k \in 1..n : has(k) => ~(b(k) > 0) PROVE FALSE
      OBVIOUS
    <3>1. \A k \in 1..n : B[k] = 0
      <4> TAKE k \in 1..n
      <4>1. CASE has(k)
        <5>1. b(k) = 0 /\ w(k) \in Nat BY <1>3, <4>1
        <5>2. \A x \in Nat : x * 0 = 0 OBVIOUS
        <5> QED BY <1>2, <4>1, <5>1, <5>2
      <4>2. CASE ~has(k) BY <1>2, <4>2
      <4> QED BY <4>1, <4>2
    <3>2. \A k \in 1..n : 1 * B[k] <= 0 * C[k]
      <4>1. \A x \in Nat : 0 * x = 0 /\ 1 * 0 = 0 OBVIOUS
      <4> QED BY <1>8, <3>1, <4>1
    <3>3. 1 * SumSeq(B) <= 0 * SumSeq(C) /\ SumSeq(B) \in Nat /\ SumSeq(C) \in Nat
      BY <1>2, <1>8, <3>2, SumsCompare
    <3>4. SumSeq(B) <= 0 BY <3>3
    <3> QED BY <1>4, <3>3, <3>4
  <2>3. 100 * SumSeq(C) < min * SumSeq(B) /\ SumSeq(B) \in Nat /\ SumSeq(C) \in Nat
    BY <1>2, <1>8, <2>1, <2>2, SumsCompare
  <2>4. 100 * SumSeq(C) >= min * SumSeq(B)
    <3>1. d.baseline # 0 BY <1>4, <2>3
    <3> QED BY <1>4, <1>10, <3>1 DEF Improved
  <2>5. 100 * SumSeq(C) \in Int /\ min * SumSeq(B) \in Int BY <2>3
  <2>6. \A s, t \in Int : ~(s < t /\ s >= t) OBVIOUS
  <2> QED BY <2>3, <2>4, <2>5, <2>6
<1> QED BY <1>9, <1>10

-----------------------------------------------------------------------------
(* Probes: a median of measurements is a number, and the index holds what  *)
(* the last scenario measured.                                             *)

LEMMA UpperBound ==
  ASSUME NEW D, IsFiniteSet(D), NEW v \in [D -> Nat]
  PROVE  \E x \in Nat : \A i \in D : v[i] <= x
<1> DEFINE G == {T \in SUBSET D : \E x \in Nat : \A i \in T : v[i] <= x}
<1>1. {} \in G
  <2>1. \E x \in Nat : TRUE OBVIOUS
  <2> QED BY <2>1
<1>2. ASSUME NEW T \in SUBSET D, NEW y \in D \ T, T \in G PROVE T \cup {y} \in G
  <2>1. PICK x \in Nat : \A i \in T : v[i] <= x BY <1>2
  <2>2. x + v[y] \in Nat /\ \A i \in T \cup {y} : v[i] <= x + v[y] BY <2>1
  <2> QED BY <2>2
<1> HIDE DEF G
<1>3. \A T \in SUBSET D : T \in G BY <1>1, <1>2, SetInduction
<1>4. D \in G BY <1>3
<1> QED BY <1>4 DEF G

\* The k-th smallest value is one of them.
LEMMA RankedIn ==
  ASSUME NEW D, IsFiniteSet(D), NEW v \in [D -> Nat], NEW k \in 1..Cardinality(D)
  PROVE  Ranked(v, k) \in Nat
<1> DEFINE upTo(x) == {i \in D : v[i] <= x}
           below(x) == {i \in D : v[i] < x}
           W == {x \in Nat : Cardinality(upTo(x)) >= k}
<1>0. Cardinality(D) \in Nat BY FS_CardinalityType
<1>1. \A x : /\ IsFiniteSet(upTo(x)) /\ Cardinality(upTo(x)) \in Nat
             /\ IsFiniteSet(below(x)) /\ Cardinality(below(x)) \in Nat
  <2> TAKE x
  <2>1. upTo(x) \in SUBSET D /\ below(x) \in SUBSET D OBVIOUS
  <2> HIDE DEF upTo, below
  <2>2. IsFiniteSet(upTo(x)) /\ IsFiniteSet(below(x)) BY <2>1, FS_Subset
  <2> QED BY <2>2, FS_CardinalityType
<1>2. PICK x \in W : \A y \in W : x <= y
  <2>1. PICK u \in Nat : \A i \in D : v[i] <= u BY UpperBound
  <2>2. upTo(u) = D BY <2>1
  <2>3. u \in W BY <1>0, <2>2
  <2>4. W \in SUBSET Nat OBVIOUS
  <2> HIDE DEF W
  <2> QED BY <2>3, <2>4, LeastElement
<1>3. x \in Nat /\ Cardinality(upTo(x)) >= k BY <1>2
<1>4. below(x) = IF x = 0 THEN {} ELSE upTo(x - 1) BY <1>3
<1>5. Cardinality(below(x)) < k
  <2>1. CASE x = 0
    <3>1. below(x) = {} BY <1>4, <2>1
    <3> HIDE DEF below
    <3> QED BY <3>1, FS_EmptySet, <1>0
  <2>2. CASE x # 0
    <3>1. x - 1 \in Nat /\ x - 1 \notin W BY <1>2, <1>3, <2>2
    <3>2. ~(Cardinality(upTo(x - 1)) >= k) BY <3>1
    <3>3. below(x) = upTo(x - 1) BY <1>4, <2>2
    <3> HIDE DEF upTo, below
    <3> QED BY <1>0, <1>1, <3>2, <3>3
  <2> QED BY <2>1, <2>2
<1>6. x \in Range(v)
  <2> SUFFICES ASSUME \A i \in D : v[i] # x PROVE FALSE
    BY DEF Range
  <2>1. upTo(x) = below(x) BY <1>3
  <2> HIDE DEF upTo, below
  <2> QED BY <1>0, <1>1, <1>3, <1>5, <2>1
<1>7. \E y \in Range(v) : /\ Cardinality({i \in DOMAIN v : v[i] < y}) < k
                          /\ Cardinality({i \in DOMAIN v : v[i] <= y}) >= k
  BY <1>3, <1>5, <1>6
<1>8. Ranked(v, k) \in Range(v)
  BY <1>7 DEF Ranked
<1> QED BY <1>8 DEF Range

LEMMA MedianTyped ==
  ASSUME NEW D, IsFiniteSet(D), D # {}, NEW v \in [D -> Nat]
  PROVE  Median2(v) \in Nat
<1> DEFINE n == Cardinality(D)
<1>1. n \in Nat /\ n # 0 BY FS_CardinalityType, FS_EmptySet
<1>2. DOMAIN v = D OBVIOUS
<1>3. Median2(v) = IF n % 2 = 1 THEN 2 * Ranked(v, (n + 1) \div 2)
                   ELSE Ranked(v, n \div 2) + Ranked(v, n \div 2 + 1)
  BY <1>2 DEF Median2
<1>4. \A k \in 1..n : Ranked(v, k) \in Nat BY RankedIn
<1> HIDE DEF n
<1>5. CASE n % 2 = 1
  <2>1. (n + 1) \div 2 \in 1..n BY <1>1, <1>5
  <2> QED BY <1>3, <1>4, <1>5, <2>1
<1>6. CASE n % 2 # 1
  <2>1. n \div 2 \in 1..n /\ n \div 2 + 1 \in 1..n BY <1>1, <1>6
  <2> QED BY <1>3, <1>4, <1>6, <2>1
<1> QED BY <1>5, <1>6

LEMMA SummaryTyped ==
  ASSUME NEW T, NEW receiptOf \in Seq(T),
         \A o \in Range(receiptOf) : \A m \in DOMAIN o.metrics : o.metrics[m] \in Nat,
         NEW name \in DOMAIN Summary(receiptOf), NEW m \in DOMAIN Summary(receiptOf)[name]
  PROVE  Summary(receiptOf)[name][m] \in Nat
<1> DEFINE obs == {o \in Range(receiptOf) : o.name = name}
           D == {i \in DOMAIN receiptOf : /\ receiptOf[i].name = name
                                          /\ m \in DOMAIN receiptOf[i].metrics}
           v == Observed(receiptOf, name, m)
<1>1. /\ name \in {o.name : o \in Range(receiptOf)}
      /\ m \in UNION {DOMAIN o.metrics : o \in obs}
      /\ Summary(receiptOf)[name][m] = Median2(v)
  BY DEF Summary
<1>2. PICK o \in obs : m \in DOMAIN o.metrics BY <1>1
<1>3. PICK i \in DOMAIN receiptOf : o = receiptOf[i] BY <1>2 DEF Range
<1>4. D # {} BY <1>2, <1>3
<1>5. IsFiniteSet(D)
  <2>1. DOMAIN receiptOf = 1..Len(receiptOf) /\ Len(receiptOf) \in Nat OBVIOUS
  <2>2. IsFiniteSet(1..Len(receiptOf)) BY <2>1, FS_Interval
  <2>3. D \in SUBSET (1..Len(receiptOf)) BY <2>1
  <2> HIDE DEF D
  <2> QED BY <2>2, <2>3, FS_Subset
<1>6. v = [k \in D |-> receiptOf[k].metrics[m]] BY DEF Observed
<1>7. \A k \in D : receiptOf[k].metrics[m] \in Nat BY DEF Range
<1>8. v \in [D -> Nat] BY <1>6, <1>7
<1> HIDE DEF D, v
<1> QED BY <1>1, <1>4, <1>5, <1>8, MedianTyped

LEMMA CompareProbesTyped ==
  ASSUME NEW e \in Evidences, NEW s \in Names,
         NEW name \in DOMAIN CompareProbes(e.base[s], e.cur[s]),
         NEW m \in DOMAIN CompareProbes(e.base[s], e.cur[s])[name].deltas
  PROVE  /\ CompareProbes(e.base[s], e.cur[s])[name].deltas[m].baseline \in Nat
         /\ CompareProbes(e.base[s], e.cur[s])[name].deltas[m].current \in Nat
<1> DEFINE base == Summary(e.base[s])
           cur == Summary(e.cur[s])
           common == IF name \in DOMAIN base /\ name \in DOMAIN cur
                     THEN DOMAIN base[name] \cap DOMAIN cur[name] ELSE {}
           deltas == [k \in common |-> [baseline |-> base[name][k], current |-> cur[name][k], cv |-> -1]]
<1>1. CompareProbes(e.base[s], e.cur[s])[name] = CompareProbe(name, base, cur)
  BY DEF CompareProbes
<1>2. CompareProbe(name, base, cur).deltas = deltas
  BY DEF CompareProbe
<1>3. /\ \A o \in Range(e.base[s]) : \A k \in DOMAIN o.metrics : o.metrics[k] \in Nat
      /\ \A o \in Range(e.cur[s]) : \A k \in DOMAIN o.metrics : o.metrics[k] \in Nat
      /\ e.base[s] \in Seq(Range(e.base[s])) /\ e.cur[s] \in Seq(Range(e.cur[s]))
  BY EvidencesAssumption DEF ProbeReceipt
<1>4. m \in common BY <1>1, <1>2
<1>5. /\ name \in DOMAIN base /\ name \in DOMAIN cur
      /\ m \in DOMAIN base[name] /\ m \in DOMAIN cur[name]
  BY <1>4
<1>6. base[name][m] \in Nat /\ cur[name][m] \in Nat
  BY <1>3, <1>5, SummaryTyped
<1>7. deltas[m] = [baseline |-> base[name][m], current |-> cur[name][m], cv |-> -1]
  BY <1>4
<1> HIDE DEF base, cur, common, deltas
<1> QED BY <1>1, <1>2, <1>6, <1>7

LEMMA MaxIn ==
  ASSUME NEW n \in Nat, NEW T \in SUBSET (1..n), T # {}
  PROVE  Max(T) \in T
<1> DEFINE U == {k \in Nat : \A s \in T : s <= k}
<1>1. n \in U OBVIOUS
<1>2. U \in SUBSET Nat /\ U # {} BY <1>1
<1>3. PICK k \in U : \A j \in U : k <= j
  <2> HIDE DEF U
  <2> QED BY <1>2, LeastElement
<1>4. k \in T
  <2> SUFFICES ASSUME k \notin T PROVE FALSE
    OBVIOUS
  <2>1. PICK s \in T : TRUE OBVIOUS
  <2>2. k # 0 BY <1>3, <2>1
  <2>3. \A t \in T : t <= k - 1 BY <1>3
  <2>4. k - 1 \in U BY <1>3, <2>2, <2>3
  <2> QED BY <1>3, <2>4
<1>5. \E x \in T : \A y \in T : x >= y BY <1>3, <1>4
<1> QED BY <1>5 DEF Max

-----------------------------------------------------------------------------
(***************************************************************************)
(* DecisionEvaluate.  The invariant says of every step of the command      *)
(* which files are of this run and what they hold, and of a finished run   *)
(* that all of them are.                                                   *)
(***************************************************************************)

Stages == {"idle", "probes", "scenario", "tradeoff", "markdown", "index", "exit"}

Totals == WeightedDeltas(Inputs, config.defaults)
Index == ProbeIndex([s \in Probed |-> ProbeResult(s)])
Decision == Decide(config.rules, Totals, Index, config.policy)

TheScenario == [deltas |-> Totals, probes |-> Referenced, compares |-> Names]
TheIndex == [probes |-> Referenced, compares |-> Names]

ThisRun(a) == files[a] # None /\ files[a].gen = gen
Holds(a, content) == files[a] = [gen |-> gen, content |-> content]

FilesTyped ==
  /\ config \in Configs /\ evidence \in Evidences /\ stage \in Stages /\ gen \in Nat
  /\ files = [a \in Artifacts |-> files[a]]
  /\ \A a \in Artifacts : files[a] # None => files[a].gen \in 0..gen

\* Of the probe comparisons those of this run, of the evidence as it is.
ProbesInv ==
  /\ stage # "idle" => \A s \in Compared : ThisRun(ProbeFile(s)) =>
       files[ProbeFile(s)].content = ProbeResult(s)
  /\ stage \notin {"idle", "probes"} => \A s \in Compared : ThisRun(ProbeFile(s))

ReceiptInv ==
  /\ stage \in {"tradeoff", "markdown", "index", "exit"} =>
       Evaluable(Inputs) /\ Holds(File("scenario.json"), TheScenario)
  /\ stage = "tradeoff" => receipt = TheScenario
  /\ stage \in {"markdown", "index", "exit"} =>
       receipt = Decision /\ Holds(File("tradeoff.json"), Decision)

ReportInv ==
  /\ stage \in {"index", "exit"} =>
       Holds(File("decision.md"), [verdict |-> receipt.verdict])
  /\ stage = "exit" => Holds(File("decision.index.json"), TheIndex)

\* No file is older than one that was made from it, whatever was interrupted.
Follows(a, b) == files[a] # None /\ files[b] # None => files[b].gen >= files[a].gen

OrderInv ==
  /\ \A s \in Compared : Follows(File("scenario.json"), ProbeFile(s))
  /\ Follows(File("tradeoff.json"), File("scenario.json"))
  /\ Follows(File("decision.md"), File("tradeoff.json"))
  /\ Follows(File("decision.index.json"), File("decision.md"))

\* What a finished run leaves behind, as long as the benchmarks do not run again.
UpToDate ==
  /\ files[File("scenario.json")].content = TheScenario
  /\ files[File("tradeoff.json")].content = Decision
  /\ files[File("decision.md")].content.verdict = Decision.verdict
  /\ \A s \in Compared : files[ProbeFile(s)].content = ProbeResult(s)

FinishedInv ==
  stage = "idle" /\ exit \in {0, 2} =>
    /\ \A a \in Written \cup {ProbeFile(s) : s \in Compared} : files[a].gen = gen
    /\ files[File("decision.index.json")].content = TheIndex
    /\ exit = ExitCode(files[File("tradeoff.json")].content.verdict)
    /\ ~remeasured => UpToDate

EvaluateInv ==
  FilesTyped /\ ProbesInv /\ ReceiptInv /\ ReportInv /\ OrderInv /\ FinishedInv

\* The files of the command are different ones.
LEMMA FileNames ==
  /\ \A n \in {"scenario.json", "tradeoff.json", "decision.md", "decision.index.json"} :
       /\ File(n) \in Artifacts /\ File(n) \in Written
       /\ \A s \in Names : ProbeFile(s) # File(n)
       /\ \A k \in {"scenario.json", "tradeoff.json", "decision.md", "decision.index.json"} :
            n # k => File(n) # File(k)
  /\ \A s \in Names : ProbeFile(s) \in Artifacts /\ \A t \in Names : s # t => ProbeFile(s) # ProbeFile(t)
  /\ \A a \in Written : \E n \in {"scenario.json", "tradeoff.json", "decision.md", "decision.index.json"} :
       a = File(n)
BY DEF File, ProbeFile, Artifacts, Written

\* atomic_write replaces one file as a whole and leaves the others alone.
LEMMA PutFacts ==
  ASSUME FilesTyped, NEW a \in Artifacts, NEW content, Put(a, content)
  PROVE  /\ files'[a] = [gen |-> gen, content |-> content]
         /\ \A b \in Artifacts : b # a => files'[b] = files[b]
         /\ files' = [b \in Artifacts |-> files'[b]]
         /\ \A b \in Artifacts : files'[b] # None => files'[b].gen \in 0..gen
<1> DEFINE new == [gen |-> gen, content |-> content]
<1>1. files' = [b \in Artifacts |-> IF b = a THEN new ELSE files[b]]
  BY DEF FilesTyped, Put
<1>2. new.gen = gen /\ gen \in 0..gen
  BY DEF FilesTyped
<1>3. \A b \in Artifacts : files'[b] = IF b = a THEN new ELSE files[b]
  BY <1>1
<1>4. files' = [b \in Artifacts |-> files'[b]]
  BY <1>1
<1>5. \A b \in Artifacts : files'[b] # None => files'[b].gen \in 0..gen
  BY <1>2, <1>3 DEF FilesTyped
<1> QED BY <1>3, <1>4, <1>5

\* Writing a file when those it is made from are of this run keeps the order.
LEMMA PutOrder ==
  ASSUME FilesTyped, OrderInv, NEW a \in Artifacts, NEW content, Put(a, content), gen' = gen,
         a = File("scenario.json") => \A s \in Compared : files[ProbeFile(s)].gen = gen,
         a = File("tradeoff.json") => files[File("scenario.json")].gen = gen,
         a = File("decision.md") => files[File("tradeoff.json")].gen = gen,
         a = File("decision.index.json") => files[File("decision.md")].gen = gen
  PROVE  OrderInv'
<1>1. /\ \A b \in Artifacts : b # a => files'[b] = files[b]
      /\ files'[a].gen = gen
  <2>1. files'[a] = [gen |-> gen, content |-> content]
        /\ \A b \in Artifacts : b # a => files'[b] = files[b]
    BY PutFacts
  <2> QED BY <2>1
<1>2. gen \in Nat /\ \A b \in Artifacts : files[b] # None => files[b].gen \in 0..gen
  BY DEF FilesTyped
<1>3. ASSUME NEW b \in Artifacts, NEW c \in Artifacts, b # c, Follows(b, c),
             a = b => files[c].gen = gen
      PROVE  Follows(b, c)'
  <2>1. CASE a = b
    <3>1. files'[c] = files[c] /\ files[c].gen = gen BY <1>1, <1>3, <2>1
    <3> QED BY <1>1, <1>2, <2>1, <3>1 DEF Follows
  <2>2. CASE a = c
    <3>1. files'[b] = files[b] BY <1>1, <1>3, <2>2
    <3> QED BY <1>1, <1>2, <2>2, <3>1 DEF Follows
  <2>3. CASE a # b /\ a # c
    BY <1>1, <1>3, <2>3 DEF Follows
  <2> QED BY <2>1, <2>2, <2>3
<1>4. ASSUME NEW s \in Compared PROVE Follows(File("scenario.json"), ProbeFile(s))'
  BY <1>3, FileNames DEF OrderInv, Compared
<1>5. Follows(File("tradeoff.json"), File("scenario.json"))'
  BY <1>3, FileNames DEF OrderInv
<1>6. Follows(File("decision.md"), File("tradeoff.json"))'
  BY <1>3, FileNames DEF OrderInv
<1>7. Follows(File("decision.index.json"), File("decision.md"))'
  BY <1>3, FileNames DEF OrderInv
<1> QED BY <1>4, <1>5, <1>6, <1>7 DEF OrderInv, Compared

\* What the command computes depends on the configuration and the evidence.
LEMMA SameResults ==
  ASSUME config' = config, evidence' = evidence
  PROVE  /\ Totals' = Totals /\ Index' = Index /\ Decision' = Decision
         /\ TheScenario' = TheScenario
         /\ Evaluable(Inputs)' <=> Evaluable(Inputs)
         /\ \A s \in Names : ProbeResult(s)' = ProbeResult(s)
<1>1. \A s \in Names : ProbeResult(s)' = ProbeResult(s)
  BY DEF ProbeResult
<1>2. Inputs' = Inputs
  BY DEF Inputs
<1>3. Totals' = Totals /\ (Evaluable(Inputs)' <=> Evaluable(Inputs))
  BY <1>2 DEF Totals
<1>4. Probed' = Probed /\ Probed \subseteq Names
  BY DEF Probed, Compared, Referenced
<1>5. Index' = Index
  BY <1>1, <1>4 DEF Index
<1>6. Decision' = Decision
  BY <1>3, <1>5 DEF Decision
<1> QED BY <1>1, <1>3, <1>5, <1>6 DEF TheScenario

LEMMA EvaluateStarts == EvaluateInit => EvaluateInv
<1> SUFFICES ASSUME EvaluateInit PROVE EvaluateInv
  OBVIOUS
<1>1. FilesTyped
  BY DEF EvaluateInit, FilesTyped, Stages
<1>2. exit \notin {0, 2}
  BY ExitAssumption DEF EvaluateInit
<1>3. OrderInv
  BY FileNames DEF EvaluateInit, OrderInv, Follows
<1> QED BY <1>1, <1>2, <1>3
    DEF EvaluateInit, EvaluateInv, ProbesInv, ReceiptInv, ReportInv, FinishedInv

\* A step that writes no file, between two runs or into or out of one.
LEMMA OrderKept ==
  ASSUME OrderInv, files' = files PROVE OrderInv'
BY DEF OrderInv, Follows

LEMMA NewEvidenceInv ==
  ASSUME EvaluateInv, NewEvidence PROVE EvaluateInv'
<1>1. FilesTyped'
  BY DEF EvaluateInv, FilesTyped, NewEvidence, Stages
<1>2. FinishedInv'
  <2> SUFFICES ASSUME exit \in {0, 2}
               PROVE  /\ \A a \in Written \cup {ProbeFile(s) : s \in Compared} : files[a].gen = gen
                      /\ files[File("decision.index.json")].content = TheIndex
                      /\ exit = ExitCode(files[File("tradeoff.json")].content.verdict)
    BY DEF FinishedInv, NewEvidence, TheIndex
  <2> QED BY DEF EvaluateInv, FinishedInv, NewEvidence
<1>3. OrderInv'
  BY OrderKept DEF EvaluateInv, NewEvidence
<1> QED BY <1>1, <1>2, <1>3 DEF EvaluateInv, NewEvidence, ProbesInv, ReceiptInv, ReportInv

LEMMA StartInv ==
  ASSUME EvaluateInv, Start PROVE EvaluateInv'
<1>1. \A a \in Artifacts : files[a] # None => files[a].gen \in 0..gen
  BY DEF EvaluateInv, FilesTyped
<1>2. gen' = gen + 1 /\ gen \in Nat
  BY DEF EvaluateInv, FilesTyped, Start
<1>3. FilesTyped'
  <2>1. \A a \in Artifacts : files'[a] # None => files'[a].gen \in 0..gen'
    BY <1>1, <1>2 DEF Start
  <2> QED BY <2>1, <1>2 DEF EvaluateInv, FilesTyped, Start, Stages
<1>4. \A s \in Compared : ~ThisRun(ProbeFile(s))'
  <2> TAKE s \in Compared
  <2>1. ProbeFile(s) \in Artifacts BY FileNames DEF Compared
  <2> QED BY <1>1, <1>2, <2>1 DEF ThisRun, Start
<1>5. ProbesInv'
  BY <1>4 DEF ProbesInv, Start
<1>6. OrderInv'
  BY OrderKept DEF EvaluateInv, Start
<1> QED BY <1>3, <1>5, <1>6 DEF EvaluateInv, Start, ReceiptInv, ReportInv, FinishedInv

\* A run that stops before its end, at an error or killed, undoes nothing.
LEMMA StoppedInv ==
  ASSUME EvaluateInv, stage' = "idle", exit' \notin {0, 2}, files' = files, gen' = gen,
         config' = config, evidence' = evidence
  PROVE  EvaluateInv'
<1>1. FilesTyped'
  BY DEF EvaluateInv, FilesTyped, Stages
<1>2. OrderInv'
  BY OrderKept DEF EvaluateInv
<1> QED BY <1>1, <1>2 DEF EvaluateInv, ProbesInv, ReceiptInv, ReportInv, FinishedInv

LEMMA FailsInv ==
  ASSUME EvaluateInv, Fails PROVE EvaluateInv'
<1>1. stage' = "idle" /\ exit' \notin {0, 2}
  BY ExitAssumption DEF Fails, Stop
<1> QED BY <1>1, StoppedInv DEF Fails

\* A step that changes nothing the invariant speaks of.
LEMMA UnchangedInv ==
  ASSUME EvaluateInv, UNCHANGED <<config, evidence, files, stage, gen, receipt, exit, remeasured>>
  PROVE  EvaluateInv'
<1>1. FilesTyped' /\ OrderInv'
  BY OrderKept DEF EvaluateInv, FilesTyped
<1>2. ReportInv'
  BY DEF EvaluateInv, ReportInv, Holds, TheIndex
<1>3. ProbesInv'
  BY SameResults DEF EvaluateInv, ProbesInv, ThisRun, Compared
<1>4. ReceiptInv'
  BY SameResults DEF EvaluateInv, ReceiptInv, Holds
<1>5. UpToDate' <=> UpToDate
  BY SameResults DEF UpToDate, Compared
<1>6. FinishedInv'
  BY <1>5 DEF EvaluateInv, FinishedInv, TheIndex
<1> QED BY <1>1, <1>2, <1>3, <1>4, <1>6 DEF EvaluateInv

LEMMA BundleInv ==
  ASSUME EvaluateInv, Bundle PROVE EvaluateInv'
<1>1. UNCHANGED <<config, evidence, files, stage, gen, receipt, exit, remeasured>>
  BY DEF Bundle
<1> QED BY <1>1, UnchangedInv

LEMMA StutterInv ==
  ASSUME EvaluateInv, UNCHANGED evaluateVars PROVE EvaluateInv'
BY UnchangedInv DEF evaluateVars

\* A run that ends by itself has written all its files.
LEMMA ExitInv ==
  ASSUME EvaluateInv, Exit PROVE EvaluateInv'
<1>1. /\ stage = "exit" /\ stage' = "idle" /\ exit' = ExitCode(receipt.verdict)
      /\ files' = files /\ gen' = gen /\ config' = config /\ evidence' = evidence
  BY DEF Exit, Stop
<1>2. FilesTyped' /\ OrderInv'
  BY <1>1, OrderKept DEF EvaluateInv, FilesTyped, Stages
<1>3. /\ files[File("scenario.json")] = [gen |-> gen, content |-> TheScenario]
      /\ files[File("tradeoff.json")] = [gen |-> gen, content |-> Decision]
      /\ files[File("decision.index.json")] = [gen |-> gen, content |-> TheIndex]
      /\ files[File("decision.md")] = [gen |-> gen, content |-> [verdict |-> receipt.verdict]]
      /\ receipt = Decision
  BY <1>1 DEF EvaluateInv, ReceiptInv, ReportInv, Holds
<1>4. \A s \in Compared : files[ProbeFile(s)].gen = gen /\ files[ProbeFile(s)].content = ProbeResult(s)
  BY <1>1 DEF EvaluateInv, ProbesInv, ThisRun
<1>5. /\ files[File("scenario.json")].gen = gen /\ files[File("tradeoff.json")].gen = gen
      /\ files[File("decision.index.json")].gen = gen /\ files[File("decision.md")].gen = gen
      /\ files[File("decision.index.json")].content = TheIndex
      /\ files[File("scenario.json")].content = TheScenario
      /\ files[File("tradeoff.json")].content = Decision
  BY <1>3
<1>6. files[File("decision.md")].content.verdict = Decision.verdict
  <2> DEFINE v == receipt.verdict
             report == [verdict |-> v]
  <2>1. report.verdict = v OBVIOUS
  <2>2. files[File("decision.md")] = [gen |-> gen, content |-> report] BY <1>3
  <2> HIDE DEF v, report
  <2>3. files[File("decision.md")].content = report BY <2>2
  <2>4. v = Decision.verdict BY <1>3 DEF v
  <2> QED BY <2>1, <2>3, <2>4
<1>7. \A a \in Written \cup {ProbeFile(s) : s \in Compared} : files[a].gen = gen
  BY <1>4, <1>5 DEF Written
<1>8. UpToDate'
  <2>1. UpToDate BY <1>4, <1>5, <1>6 DEF UpToDate
  <2> QED BY <1>1, <2>1, SameResults DEF UpToDate, Compared
<1>9. FinishedInv'
  <2>1. exit' = ExitCode(files[File("tradeoff.json")].content.verdict)
    BY <1>1, <1>3, <1>5
  <2> QED BY <1>1, <1>5, <1>7, <1>8, <2>1 DEF FinishedInv, TheIndex
<1> QED BY <1>1, <1>2, <1>9 DEF EvaluateInv, ProbesInv, ReceiptInv, ReportInv

LEMMA MinIn ==
  ASSUME NEW n \in Nat, NEW T \in SUBSET (1..n), T # {}
  PROVE  Min(T) \in T
<1>1. T \in SUBSET Nat OBVIOUS
<1>2. PICK k \in T : \A j \in T : k <= j
  BY <1>1, LeastElement
<1> QED BY <1>2 DEF Min

\* One comparison after the other; when none is due all are of this run.
LEMMA ProbesStepInv ==
  ASSUME EvaluateInv, CompareConfiguredProbes PROVE EvaluateInv'
<1> DEFINE due == {s \in Compared : files[ProbeFile(s)] = None \/ files[ProbeFile(s)].gen # gen}
<1>1. /\ stage = "probes" /\ config' = config /\ evidence' = evidence /\ gen' = gen
      /\ receipt' = receipt
  BY DEF CompareConfiguredProbes
<1>2. CASE due = {}
  <2>1. stage' = "scenario" /\ files' = files
    BY <1>2 DEF CompareConfiguredProbes
  <2>2. FilesTyped' /\ OrderInv'
    BY <1>1, <2>1, OrderKept DEF EvaluateInv, FilesTyped, Stages
  <2>3. \A s \in Compared : ThisRun(ProbeFile(s))
    BY <1>2 DEF ThisRun
  <2>4. \A s \in Compared : ThisRun(ProbeFile(s))' /\ files'[ProbeFile(s)].content = ProbeResult(s)'
    BY <1>1, <2>1, <2>3, SameResults DEF EvaluateInv, ProbesInv, ThisRun, Compared
  <2>5. ProbesInv'
    BY <2>4 DEF ProbesInv
  <2> QED BY <2>1, <2>2, <2>5 DEF EvaluateInv, ReceiptInv, ReportInv, FinishedInv
<1>3. CASE due # {}
  <2> DEFINE s0 == Min(due)
  <2>1. s0 \in due /\ s0 \in Compared /\ s0 \in Names
    <3>1. Names = 1..Len(Scenarios) /\ Len(Scenarios) \in Nat
      BY ScenariosAssumption DEF Names
    <3>2. due \in SUBSET (1..Len(Scenarios)) /\ due \in SUBSET Compared BY <3>1 DEF Compared
    <3> HIDE DEF due
    <3>3. Min(due) \in due BY <1>3, <3>1, <3>2, MinIn
    <3> QED BY <3>1, <3>2, <3>3
  <2>2. CASE evidence.base[s0] # <<>> /\ evidence.cur[s0] # <<>>
    <3>1. /\ Put(ProbeFile(s0), ProbeResult(s0))
          /\ stage' = stage /\ exit' = exit
      BY <1>3, <2>2 DEF CompareConfiguredProbes
    <3> HIDE DEF s0, due
    <3>2. ProbeFile(s0) \in Artifacts BY <2>1, FileNames
    <3>3. FilesTyped /\ OrderInv BY DEF EvaluateInv
    <3>4. /\ files'[ProbeFile(s0)] = [gen |-> gen, content |-> ProbeResult(s0)]
          /\ \A b \in Artifacts : b # ProbeFile(s0) => files'[b] = files[b]
          /\ files' = [b \in Artifacts |-> files'[b]]
          /\ \A b \in Artifacts : files'[b] # None => files'[b].gen \in 0..gen
      BY <3>1, <3>2, <3>3, PutFacts
    <3>5. FilesTyped'
      BY <1>1, <3>1, <3>3, <3>4 DEF FilesTyped
    <3>6. OrderInv'
      BY <1>1, <2>1, <3>1, <3>2, <3>3, PutOrder, FileNames
    <3>7. \A s \in Compared : ThisRun(ProbeFile(s))' => files'[ProbeFile(s)].content = ProbeResult(s)'
      <4> SUFFICES ASSUME NEW s \in Compared, ThisRun(ProbeFile(s))'
                   PROVE  files'[ProbeFile(s)].content = ProbeResult(s)
        BY <1>1, SameResults DEF Compared
      <4>1. CASE s = s0
        BY <3>4, <4>1
      <4>2. CASE s # s0
        <5>1. files'[ProbeFile(s)] = files[ProbeFile(s)]
          BY <2>1, <3>4, <4>2, FileNames DEF Compared
        <5> QED BY <1>1, <5>1 DEF EvaluateInv, ProbesInv, ThisRun
      <4> QED BY <4>1, <4>2
    <3>8. ProbesInv'
      BY <1>1, <3>1, <3>7 DEF ProbesInv
    <3> QED BY <1>1, <3>1, <3>5, <3>6, <3>8 DEF EvaluateInv, ReceiptInv, ReportInv, FinishedInv
  <2>3. CASE ~(evidence.base[s0] # <<>> /\ evidence.cur[s0] # <<>>)
    <3>1. stage' = "idle" /\ exit' = 1 /\ files' = files
      BY <1>3, <2>3 DEF CompareConfiguredProbes, Stop
    <3> QED BY <1>1, <3>1, StoppedInv
  <2> QED BY <2>2, <2>3
<1> QED BY <1>2, <1>3

\* Writing another file leaves the probe comparisons of this run as they are.
LEMMA ProbesKept ==
  ASSUME EvaluateInv, config' = config, evidence' = evidence, gen' = gen,
         stage \notin {"idle", "probes"},
         NEW n \in {"scenario.json", "tradeoff.json", "decision.md", "decision.index.json"},
         \A b \in Artifacts : b # File(n) => files'[b] = files[b]
  PROVE  ProbesInv'
<1>1. \A s \in Compared : files'[ProbeFile(s)] = files[ProbeFile(s)]
  BY FileNames DEF Compared
<1> QED BY <1>1, SameResults DEF EvaluateInv, ProbesInv, ThisRun, Compared

LEMMA ScenariosStepInv ==
  ASSUME EvaluateInv, EvaluateScenarios PROVE EvaluateInv'
<1>1. stage = "scenario" /\ config' = config /\ evidence' = evidence /\ gen' = gen
  BY DEF EvaluateScenarios
<1>2. CASE Evaluable(Inputs)
  <2>1. /\ receipt' = TheScenario /\ Put(File("scenario.json"), TheScenario)
        /\ stage' = "tradeoff" /\ exit' = exit
    BY <1>2 DEF EvaluateScenarios, Totals, TheScenario
  <2>2. File("scenario.json") \in Artifacts BY FileNames
  <2>3. FilesTyped /\ OrderInv BY DEF EvaluateInv
  <2>4. /\ files'[File("scenario.json")] = [gen |-> gen, content |-> TheScenario]
        /\ \A b \in Artifacts : b # File("scenario.json") => files'[b] = files[b]
        /\ files' = [b \in Artifacts |-> files'[b]]
        /\ \A b \in Artifacts : files'[b] # None => files'[b].gen \in 0..gen
    BY <2>1, <2>2, <2>3, PutFacts
  <2>5. FilesTyped'
    BY <1>1, <2>1, <2>3, <2>4 DEF FilesTyped, Stages
  <2>6. ProbesInv'
    BY <1>1, <2>4, ProbesKept
  <2>7. ReceiptInv'
    BY <1>1, <1>2, <2>1, <2>4, SameResults DEF ReceiptInv, Holds
  <2>8. \A s \in Compared : files[ProbeFile(s)].gen = gen
    BY <1>1 DEF EvaluateInv, ProbesInv, ThisRun
  <2>9. OrderInv'
    BY <1>1, <2>1, <2>2, <2>3, <2>8, PutOrder, FileNames
  <2> QED BY <2>1, <2>5, <2>6, <2>7, <2>9 DEF EvaluateInv, ReportInv, FinishedInv
<1>3. CASE ~Evaluable(Inputs)
  <2>1. stage' = "idle" /\ exit' = 1 /\ files' = files
    BY <1>3 DEF EvaluateScenarios, Stop
  <2> QED BY <1>1, <2>1, StoppedInv
<1> QED BY <1>2, <1>3

\* The index read back from the files is that of the evidence.
LEMMA LoadedAreProbed ==
  ASSUME EvaluateInv, stage \in {"tradeoff", "markdown", "index", "exit"}
  PROVE  /\ files[File("scenario.json")].content = TheScenario
         /\ files[File("scenario.json")].content.deltas = Totals
         /\ ProbeIndex(LoadedProbes) = Index
<1>1. files[File("scenario.json")] = [gen |-> gen, content |-> TheScenario]
  BY DEF EvaluateInv, ReceiptInv, Holds
<1>2. files[File("scenario.json")].content = TheScenario
  BY <1>1
<1>3. /\ files[File("scenario.json")].content.probes = Referenced
      /\ files[File("scenario.json")].content.deltas = Totals
  BY <1>2 DEF TheScenario
<1>4. \A s \in Compared : files[ProbeFile(s)] # None /\ files[ProbeFile(s)].content = ProbeResult(s)
  BY DEF EvaluateInv, ProbesInv, ThisRun
<1>5. {s \in Referenced : ProbeExists(s)} = Probed
  <2>1. \A s \in Referenced : ProbeExists(s) <=> s \in Compared \/ evidence.probed[s]
    BY <1>4 DEF ProbeExists
  <2> QED BY <2>1 DEF Probed, Compared, Referenced
<1>6. \A s \in Probed : ProbeCompare(s) = ProbeResult(s)
  BY <1>4 DEF ProbeCompare
<1>7. LoadedProbes = [s \in Probed |-> ProbeResult(s)]
  BY <1>3, <1>5, <1>6 DEF LoadedProbes
<1> QED BY <1>2, <1>3, <1>7 DEF Index

LEMMA TradeoffsStepInv ==
  ASSUME EvaluateInv, EvaluateTradeoffs PROVE EvaluateInv'
<1>1. stage = "tradeoff" /\ config' = config /\ evidence' = evidence /\ gen' = gen
  BY DEF EvaluateTradeoffs
<1>2. CASE config.rules # <<>>
  <2>1. ProbeIndex(LoadedProbes) = Index /\ receipt = TheScenario
    BY <1>1, LoadedAreProbed DEF EvaluateInv, ReceiptInv
  <2>2. receipt.deltas = Totals BY <2>1 DEF TheScenario
  <2>3. Decide(config.rules, receipt.deltas, ProbeIndex(LoadedProbes), config.policy) = Decision
    BY <2>1, <2>2 DEF Decision
  <2>4. /\ receipt' = Decision /\ Put(File("tradeoff.json"), Decision)
        /\ stage' = "markdown" /\ exit' = exit
    BY <1>2, <2>3 DEF EvaluateTradeoffs
  <2>5. File("tradeoff.json") \in Artifacts /\ File("scenario.json") \in Artifacts
        /\ File("scenario.json") # File("tradeoff.json")
    BY FileNames
  <2>6. FilesTyped /\ OrderInv BY DEF EvaluateInv
  <2>7. /\ files'[File("tradeoff.json")] = [gen |-> gen, content |-> Decision]
        /\ \A b \in Artifacts : b # File("tradeoff.json") => files'[b] = files[b]
        /\ files' = [b \in Artifacts |-> files'[b]]
        /\ \A b \in Artifacts : files'[b] # None => files'[b].gen \in 0..gen
    BY <2>4, <2>5, <2>6, PutFacts
  <2>8. FilesTyped'
    BY <1>1, <2>4, <2>6, <2>7 DEF FilesTyped, Stages
  <2>9. ProbesInv'
    BY <1>1, <2>7, ProbesKept
  <2>10. files'[File("scenario.json")] = files[File("scenario.json")]
    BY <2>5, <2>7
  <2>11. ReceiptInv'
    BY <1>1, <2>4, <2>7, <2>10, SameResults DEF EvaluateInv, ReceiptInv, Holds
  <2>12. files[File("scenario.json")].gen = gen
    BY <1>1 DEF EvaluateInv, ReceiptInv, Holds
  <2>13. OrderInv'
    BY <1>1, <2>4, <2>5, <2>6, <2>12, PutOrder, FileNames
  <2> QED BY <2>4, <2>8, <2>9, <2>11, <2>13 DEF EvaluateInv, ReportInv, FinishedInv
<1>3. CASE config.rules = <<>>
  <2>1. stage' = "idle" /\ exit' = 1 /\ files' = files
    BY <1>3 DEF EvaluateTradeoffs, Stop
  <2> QED BY <1>1, <2>1, StoppedInv
<1> QED BY <1>2, <1>3

LEMMA WriteDecisionInv ==
  ASSUME EvaluateInv, WriteDecision PROVE EvaluateInv'
<1> DEFINE report == [verdict |-> receipt.verdict]
<1>1. /\ stage = "markdown" /\ stage' = "index" /\ config' = config /\ evidence' = evidence
      /\ gen' = gen /\ receipt' = receipt /\ Put(File("decision.md"), report)
  BY DEF WriteDecision
<1>2. /\ File("decision.md") \in Artifacts
      /\ File("scenario.json") \in Artifacts /\ File("scenario.json") # File("decision.md")
      /\ File("tradeoff.json") \in Artifacts /\ File("tradeoff.json") # File("decision.md")
  BY FileNames
<1>3. FilesTyped /\ OrderInv BY DEF EvaluateInv
<1>4. report' = report BY <1>1
<1> HIDE DEF report
<1>5. /\ files'[File("decision.md")] = [gen |-> gen, content |-> report]
      /\ \A b \in Artifacts : b # File("decision.md") => files'[b] = files[b]
      /\ files' = [b \in Artifacts |-> files'[b]]
      /\ \A b \in Artifacts : files'[b] # None => files'[b].gen \in 0..gen
  BY <1>1, <1>2, <1>3, PutFacts
<1>6. FilesTyped'
  BY <1>1, <1>3, <1>5 DEF FilesTyped, Stages
<1>7. ProbesInv'
  BY <1>1, <1>5, ProbesKept
<1>8. /\ files'[File("scenario.json")] = files[File("scenario.json")]
      /\ files'[File("tradeoff.json")] = files[File("tradeoff.json")]
  BY <1>2, <1>5
<1>9. ReceiptInv'
  BY <1>1, <1>8, SameResults DEF EvaluateInv, ReceiptInv, Holds
<1>10. ReportInv'
  BY <1>1, <1>4, <1>5 DEF ReportInv, Holds, report
<1>11. files[File("tradeoff.json")].gen = gen
  BY <1>1 DEF EvaluateInv, ReceiptInv, Holds
<1>12. OrderInv'
  BY <1>1, <1>2, <1>3, <1>11, PutOrder, FileNames
<1> QED BY <1>1, <1>6, <1>7, <1>9, <1>10, <1>12 DEF EvaluateInv, FinishedInv

LEMMA WriteIndexInv ==
  ASSUME EvaluateInv, WriteIndex PROVE EvaluateInv'
<1>1. /\ stage = "index" /\ stage' = "exit" /\ config' = config /\ evidence' = evidence
      /\ gen' = gen /\ receipt' = receipt
      /\ Put(File("decision.index.json"),
             [probes |-> files[File("scenario.json")].content.probes,
              compares |-> files[File("scenario.json")].content.compares])
  BY DEF WriteIndex
<1>2. Put(File("decision.index.json"), TheIndex)
  <2>1. files[File("scenario.json")].content = TheScenario
    BY <1>1, LoadedAreProbed
  <2>2. TheScenario.probes = Referenced /\ TheScenario.compares = Names BY DEF TheScenario
  <2> QED BY <1>1, <2>1, <2>2 DEF TheIndex
<1>3. /\ File("decision.index.json") \in Artifacts
      /\ File("scenario.json") \in Artifacts /\ File("scenario.json") # File("decision.index.json")
      /\ File("tradeoff.json") \in Artifacts /\ File("tradeoff.json") # File("decision.index.json")
      /\ File("decision.md") \in Artifacts /\ File("decision.md") # File("decision.index.json")
  BY FileNames
<1>4. FilesTyped /\ OrderInv BY DEF EvaluateInv
<1>5. /\ files'[File("decision.index.json")] = [gen |-> gen, content |-> TheIndex]
      /\ \A b \in Artifacts : b # File("decision.index.json") => files'[b] = files[b]
      /\ files' = [b \in Artifacts |-> files'[b]]
      /\ \A b \in Artifacts : files'[b] # None => files'[b].gen \in 0..gen
  BY <1>2, <1>3, <1>4, PutFacts
<1>6. FilesTyped'
  BY <1>1, <1>4, <1>5 DEF FilesTyped, Stages
<1>7. ProbesInv'
  BY <1>1, <1>5, ProbesKept
<1>8. /\ files'[File("scenario.json")] = files[File("scenario.json")]
      /\ files'[File("tradeoff.json")] = files[File("tradeoff.json")]
      /\ files'[File("decision.md")] = files[File("decision.md")]
  BY <1>3, <1>5
<1>9. ReceiptInv'
  BY <1>1, <1>8, SameResults DEF EvaluateInv, ReceiptInv, Holds
<1>10. ReportInv'
  BY <1>1, <1>5, <1>8 DEF EvaluateInv, ReportInv, Holds, TheIndex
<1>11. files[File("decision.md")].gen = gen
  BY <1>1 DEF EvaluateInv, ReportInv, Holds
<1>12. OrderInv'
  BY <1>1, <1>2, <1>3, <1>4, <1>11, PutOrder, FileNames
<1> QED BY <1>1, <1>6, <1>7, <1>9, <1>10, <1>12 DEF EvaluateInv, FinishedInv

(* The invariant of `decision evaluate` holds in every state: at every     *)
(* step the files the command has written are of this run and hold what    *)
(* the evidence implies, and no file is older than one made from it,       *)
(* whatever earlier runs left and wherever they stopped.                   *)
THEOREM EvaluateInvariance == EvaluateSpec => []EvaluateInv
<1>1. EvaluateInv /\ [EvaluateNext]_evaluateVars => EvaluateInv'
  BY NewEvidenceInv, StartInv, FailsInv, ProbesStepInv, ScenariosStepInv, TradeoffsStepInv,
     WriteDecisionInv, WriteIndexInv, ExitInv, BundleInv, StutterInv
  DEF EvaluateNext, Done
<1> QED BY <1>1, EvaluateStarts, PTL DEF EvaluateSpec

\* The evidence in a bundle that could be made is that of a finished run.
LEMMA BundledEvidence ==
  ASSUME EvaluateInv, Bundle, exit \in {0, 2}, ~remeasured
  PROVE  /\ \A s \in Names : bundle'.compares[s] = evidence.compares[s]
         /\ ProbeIndex(bundle'.probes) = Index
<1> DEFINE index == files[File("decision.index.json")].content
           w == [a \in Written |-> files[a].content]
           p == [s \in index.probes |-> ProbeCompare(s)]
           c == [s \in index.compares |-> evidence.compares[s]]
<1>1. /\ stage = "idle" /\ bundle' = [written |-> w, probes |-> p, compares |-> c]
      /\ \A s \in index.probes : ProbeExists(s)
  BY DEF Bundle
<1>2. /\ index = TheIndex
      /\ \A s \in Compared : files[ProbeFile(s)].content = ProbeResult(s)
  BY <1>1 DEF EvaluateInv, FinishedInv, UpToDate
<1>3. index.probes = Referenced /\ index.compares = Names
  BY <1>2 DEF TheIndex
<1>4. Probed = Referenced
  BY <1>1, <1>3 DEF Probed, Compared, Referenced, ProbeExists
<1>5. \A s \in Referenced : ProbeCompare(s) = ProbeResult(s)
  BY <1>2 DEF ProbeCompare
<1>6. p = [s \in Probed |-> ProbeResult(s)]
  BY <1>3, <1>4, <1>5
<1>7. c = [s \in Names |-> evidence.compares[s]]
  BY <1>3
<1> HIDE DEF w, p, c, index
<1>8. bundle'.probes = p /\ bundle'.compares = c
  BY <1>1
<1> QED BY <1>6, <1>7, <1>8 DEF Index

(* What a bundle holds together, for any scenarios, rules and evidence:    *)
(* nothing in it is older than what was made from it; after a run that     *)
(* ended by itself everything the command wrote is of that run and the     *)
(* exit code agrees with the tradeoff receipt; and unless the benchmarks   *)
(* ran again the receipts in it follow from the measurements in it.        *)
THEOREM BundleConsistent == EvaluateSpec => BundleHoldsTogether
<1> DEFINE compared == {ProbeFile(s) : s \in DOMAIN bundle'.probes \cap Compared}
           finished == exit \in {0, 2}
           Ordered == /\ \A a \in compared : NoOlder(a, File("scenario.json"))
                      /\ NoOlder(File("scenario.json"), File("tradeoff.json"))
                      /\ NoOlder(File("tradeoff.json"), File("decision.md"))
                      /\ NoOlder(File("decision.md"), File("decision.index.json"))
           OneRun == /\ \A a \in Written \cup compared : files[a].gen = gen
                     /\ exit = 2 <=> bundle'.written[File("tradeoff.json")].verdict = "fail"
           Whole == Bundle => /\ \A a \in compared : NoOlder(a, File("scenario.json"))
                              /\ NoOlder(File("scenario.json"), File("tradeoff.json"))
                              /\ NoOlder(File("tradeoff.json"), File("decision.md"))
                              /\ NoOlder(File("decision.md"), File("decision.index.json"))
                              /\ finished => OneRun
                              /\ finished /\ ~remeasured => Explained(bundle')
<1>1. EvaluateInv /\ [EvaluateNext]_evaluateVars => [Whole]_evaluateVars
  <2> SUFFICES ASSUME EvaluateInv, Bundle
               PROVE  Ordered /\ (finished => OneRun)
                      /\ (finished /\ ~remeasured => Explained(bundle'))
    BY DEF Whole
  <2> DEFINE index == files[File("decision.index.json")].content
             w == [a \in Written |-> files[a].content]
             p == [s \in index.probes |-> ProbeCompare(s)]
             c == [s \in index.compares |-> evidence.compares[s]]
  <2>1. /\ stage = "idle" /\ \A a \in Written : files[a] # None
        /\ bundle' = [written |-> w, probes |-> p, compares |-> c]
        /\ \A s \in index.probes : ProbeExists(s)
    BY DEF Bundle
  <2>2. DOMAIN p = index.probes /\ \A a \in Written : w[a] = files[a].content
    OBVIOUS
  <2> HIDE DEF w, p, c, index
  <2>3. bundle'.written = w /\ bundle'.probes = p
    BY <2>1
  <2>4. compared = {ProbeFile(s) : s \in index.probes \cap Compared}
    BY <2>2, <2>3
  <2>5. Ordered
    <3>1. ASSUME NEW s \in index.probes \cap Compared
          PROVE  NoOlder(ProbeFile(s), File("scenario.json"))
      <4>1. files[ProbeFile(s)] # None BY <2>1 DEF ProbeExists
      <4>2. Follows(File("scenario.json"), ProbeFile(s)) BY DEF EvaluateInv, OrderInv
      <4> QED BY <2>1, <4>1, <4>2, FileNames DEF Follows, NoOlder
    <3>2. \A a \in compared : NoOlder(a, File("scenario.json"))
      BY <2>4, <3>1
    <3>3. /\ NoOlder(File("scenario.json"), File("tradeoff.json"))
          /\ NoOlder(File("tradeoff.json"), File("decision.md"))
          /\ NoOlder(File("decision.md"), File("decision.index.json"))
      BY <2>1, FileNames DEF EvaluateInv, OrderInv, Follows, NoOlder
    <3> QED BY <3>2, <3>3
  <2>6. ASSUME finished PROVE OneRun
    <3>1. /\ \A a \in Written \cup {ProbeFile(s) : s \in Compared} : files[a].gen = gen
          /\ exit = ExitCode(files[File("tradeoff.json")].content.verdict)
      BY <2>1, <2>6 DEF EvaluateInv, FinishedInv
    <3>2. \A a \in Written \cup compared : files[a].gen = gen
      BY <2>4, <3>1
    <3>3. bundle'.written[File("tradeoff.json")] = files[File("tradeoff.json")].content
      BY <2>2, <2>3, FileNames
    <3> HIDE DEF compared
    <3> QED BY <3>1, <3>2, <3>3 DEF ExitCode
  <2>7. ASSUME finished, ~remeasured PROVE Explained(bundle')
    <3>1. /\ files[File("scenario.json")].content = TheScenario
          /\ files[File("tradeoff.json")].content = Decision
          /\ files[File("decision.md")].content.verdict = Decision.verdict
      BY <2>1, <2>7 DEF EvaluateInv, FinishedInv, UpToDate
    <3>2. /\ bundle'.written[File("scenario.json")] = TheScenario
          /\ bundle'.written[File("tradeoff.json")] = Decision
          /\ bundle'.written[File("decision.md")].verdict = Decision.verdict
      BY <2>2, <2>3, <3>1, FileNames
    <3>3. /\ \A s \in Names : bundle'.compares[s] = evidence.compares[s]
          /\ ProbeIndex(bundle'.probes) = Index
      BY <2>7, BundledEvidence
    <3>4. [s \in Names |-> [weight |-> Scenarios[s].weight, deltas |-> bundle'.compares[s]]] = Inputs
      BY <3>3 DEF Inputs
    <3>5. TheScenario.deltas = Totals BY DEF TheScenario
    <3> QED BY <3>2, <3>3, <3>4, <3>5 DEF Explained, Totals, Decision
  <2> QED BY <2>5, <2>6, <2>7
<1> QED BY <1>1, EvaluateInvariance, PTL DEF EvaluateSpec, BundleHoldsTogether, Whole

\* The scenario's totals are records with the four fields.
LEMMA TotalsShaped ==
  /\ \A m \in DOMAIN Totals :
       /\ Shaped(Totals[m])
       /\ Totals[m].baseline = WeightedBaseline(Inputs, m)
       /\ Totals[m].current = WeightedCurrent(Inputs, m)
  /\ DOMAIN Totals = Keys({i.deltas : i \in Range(Inputs)})
<1> DEFINE b(m) == WeightedBaseline(Inputs, m)
           c(m) == WeightedCurrent(Inputs, m)
           K == Keys({i.deltas : i \in Range(Inputs)})
           rec(m) == [baseline |-> b(m), current |-> c(m), cv |-> -1,
                      status |-> StatusOf(m, b(m), c(m), config.defaults)]
<1>1. Totals = [m \in K |-> rec(m)]
  BY DEF Totals, WeightedDeltas
<1>2. DOMAIN Totals = K BY <1>1
<1>3. ASSUME NEW m \in K PROVE Shaped(Totals[m]) /\ Totals[m].baseline = b(m) /\ Totals[m].current = c(m)
  <2>1. Totals[m] = rec(m) BY <1>1
  <2> HIDE DEF b, c
  <2> QED BY <2>1 DEF Shaped
<1> QED BY <1>2, <1>3

(* Which metrics fail, whether a tradeoff was accepted and whether a       *)
(* review is required do not depend on the order in which TradeoffUseCase  *)
(* meets the rules, for any rules and any evidence.                        *)
THEOREM RuleOrder == EvaluateSpec => []RuleOrderIrrelevant
<1>1. EvaluateInv => RuleOrderIrrelevant
  <2> SUFFICES ASSUME EvaluateInv, stage = "markdown", NEW other \in SetToSeqs(Range(config.rules))
               PROVE  LET index == ProbeIndex(LoadedProbes)
                          d == Decide(other, files[File("scenario.json")].content.deltas, index, config.policy)
                      IN /\ {m \in DOMAIN d.deltas : d.deltas[m].status = "fail"}
                              = {m \in DOMAIN receipt.deltas : receipt.deltas[m].status = "fail"}
                         /\ d.accepted = receipt.accepted
                         /\ d.review_required = receipt.review_required
    BY DEF RuleOrderIrrelevant, JustDecided
  <2>1. ProbeIndex(LoadedProbes) = Index
    BY LoadedAreProbed
  <2>2. files[File("scenario.json")].content.deltas = Totals
    BY LoadedAreProbed
  <2>3. receipt = Decide(config.rules, Totals, Index, config.policy)
    BY DEF EvaluateInv, ReceiptInv, Decision
  <2>4. config.rules \in Seq(TradeoffRule)
    BY ConfigsAssumption DEF EvaluateInv, FilesTyped
  <2>5. \A m \in DOMAIN Totals : Shaped(Totals[m])
    BY TotalsShaped
  <2> DEFINE rules == config.rules
             d == Decide(other, Totals, Index, config.policy)
             e == Decide(rules, Totals, Index, config.policy)
  <2>6. /\ {m \in DOMAIN d.deltas : d.deltas[m].status = "fail"}
             = {m \in DOMAIN e.deltas : e.deltas[m].status = "fail"}
        /\ d.accepted = e.accepted /\ d.review_required = e.review_required
    BY <2>4, <2>5, OrderIrrelevant
  <2> QED BY <2>1, <2>2, <2>3, <2>6
<1> QED BY <1>1, EvaluateInvariance, PTL

LEMMA NamesAre == Len(Scenarios) \in Nat /\ Names = 1..Len(Scenarios)
BY ScenariosAssumption DEF Names

\* What index_probe_compares keeps of a probe is what was measured of it: the
\* comparison of the last scenario that names it.
LEMMA MeasuredProbe ==
  ASSUME EvaluateInv, NEW e, e.probe # "", NEW w
  PROVE  /\ Found(e, w, Index) = Measured(e)
         /\ \A d \in Measured(e) : d.baseline \in Nat /\ d.current \in Nat
         /\ \A d, c \in Measured(e) : d = c
<1> DEFINE p == e.probe
           k == e.metric
           naming == {s \in Probed : p \in DOMAIN ProbeResult(s)}
           R == [s \in Probed |-> ProbeResult(s)]
           maps == {ProbeResult(s)[p].deltas : s \in {s \in naming : s = Max(naming)}}
<1>1. Measured(e) = {d[k] : d \in {d \in maps : k \in DOMAIN d}}
  BY DEF Measured
<1>2. Found(e, w, Index) = {Index[q][k] : q \in {q \in {p} \cap DOMAIN Index : k \in DOMAIN Index[q]}}
  BY DEF Found
<1>3. /\ DOMAIN Index = UNION {DOMAIN R[s] : s \in DOMAIN R}
      /\ p \in DOMAIN Index => Index[p] = R[Max({s \in DOMAIN R : p \in DOMAIN R[s]})][p].deltas
  BY DEF Index, ProbeIndex
<1>4. {s \in DOMAIN R : p \in DOMAIN R[s]} = naming
  OBVIOUS
<1>5. p \in DOMAIN Index <=> naming # {}
  BY <1>3, <1>4
<1>6. CASE naming = {}
  <2>1. maps = {} BY <1>6
  <2>2. Measured(e) = {} BY <1>1, <2>1
  <2>3. Found(e, w, Index) = {} BY <1>2, <1>5, <1>6
  <2> QED BY <2>2, <2>3
<1>7. CASE naming # {}
  <2> DEFINE top == Max(naming)
             D == ProbeResult(top)[p].deltas
  <2>1. top \in naming
    <3>1. Names = 1..Len(Scenarios) /\ Len(Scenarios) \in Nat
      BY NamesAre
    <3>2. naming \in SUBSET (1..Len(Scenarios)) BY <3>1 DEF Probed, Compared, Referenced
    <3> HIDE DEF naming
    <3> QED BY <1>7, <3>1, <3>2, MaxIn
  <2>2. top \in Probed /\ top \in Names /\ p \in DOMAIN ProbeResult(top)
    BY <2>1 DEF Probed, Compared, Referenced
  <2>3. Index[p] = D
    BY <1>3, <1>4, <1>5, <1>7, <2>2
  <2>4. maps = {D}
    BY <2>1
  <2> HIDE DEF maps, top, R, naming
  <2>5. Measured(e) = IF k \in DOMAIN D THEN {D[k]} ELSE {}
    BY <1>1, <2>4
  <2>6. Found(e, w, Index) = IF k \in DOMAIN D THEN {D[k]} ELSE {}
    BY <1>2, <1>5, <1>7, <2>3
  <2>7. k \in DOMAIN D => D[k].baseline \in Nat /\ D[k].current \in Nat
    <3>1. evidence \in Evidences BY DEF EvaluateInv, FilesTyped
    <3> QED BY <3>1, <2>2, CompareProbesTyped DEF ProbeResult
  <2> HIDE DEF D
  <2> QED BY <2>5, <2>6, <2>7
<1> QED BY <1>6, <1>7

\* A cap that the receipts respect is respected by what was measured.
LEMMA CapRespected ==
  ASSUME EvaluateInv, NEW a \in Allowance
  PROVE  /\ WithinCap(a, Totals, Index) => ~OverCap(a) /\ Measured(a) # {}
         /\ Missing(a, Totals, Index) => ~OverCap(a)
<1>1. a.probe # "" /\ a.max \in Nat BY DEF Allowance
<1>2. /\ Found(a, Totals, Index) = Measured(a)
      /\ \A d \in Measured(a) : d.baseline \in Nat /\ d.current \in Nat
      /\ \A d, c \in Measured(a) : d = c
  BY <1>1, MeasuredProbe
<1>3. ASSUME WithinCap(a, Totals, Index) PROVE ~OverCap(a) /\ Measured(a) # {}
  <2>1. PICK d \in Measured(a) :
          IF d.baseline = 0 THEN Worse(a.metric, d) = 0 \/ a.max >= 100
          ELSE 100 * Worse(a.metric, d) <= a.max * d.baseline
    BY <1>2, <1>3 DEF WithinCap
  <2> DEFINE loss == IF a.metric \in HigherIsBetter THEN d.baseline - d.current
                     ELSE d.current - d.baseline
  <2>2. d.baseline \in Nat /\ d.current \in Nat /\ loss \in Int BY <1>2
  <2>3. Worse(a.metric, d) = IF loss > 0 THEN loss ELSE 0 BY DEF Worse
  <2> DEFINE cap == a.max * d.baseline
  <2>4. cap \in Nat BY <1>1, <2>2, Distribute
  <2>5. IF d.baseline = 0 THEN ~(loss > 0 /\ a.max < 100) ELSE ~(100 * loss > cap)
    <3> HIDE DEF cap, loss
    <3>1. CASE d.baseline = 0
      <4>1. Worse(a.metric, d) = 0 \/ a.max >= 100 BY <2>1, <3>1
      <4>2. CASE Worse(a.metric, d) = 0
        <5>1. ~(loss > 0) BY <2>2, <2>3, <4>2
        <5> QED BY <3>1, <5>1
      <4>3. CASE a.max >= 100
        <5>1. \A x \in Nat : x >= 100 => ~(x < 100) OBVIOUS
        <5>2. ~(a.max < 100) BY <1>1, <4>3, <5>1, Zenon
        <5> QED BY <3>1, <5>2
      <4> QED BY <4>1, <4>2, <4>3
    <3>2. CASE d.baseline # 0
      <4>1. 100 * Worse(a.metric, d) <= cap BY <2>1, <3>2 DEF cap
      <4> QED BY <2>2, <2>3, <2>4, <3>2, <4>1
    <3> QED BY <3>1, <3>2
  <2>6. \A c \in Measured(a) : c = d BY <1>2
  <2> QED BY <2>5, <2>6 DEF OverCap
<1>4. ASSUME Missing(a, Totals, Index) PROVE ~OverCap(a)
  BY <1>2, <1>4 DEF Missing, OverCap
<1> QED BY <1>3, <1>4

LEMMA InputsWeighted ==
  ASSUME EvaluateInv
  PROVE  /\ Len(Scenarios) \in Nat /\ Names = 1..Len(Scenarios) /\ DOMAIN Inputs = Names
         /\ Weighted(Inputs, Len(Scenarios))
         /\ \A s \in Names : Inputs[s].deltas = evidence.compares[s]
<1>1. Len(Scenarios) \in Nat /\ Names = 1..Len(Scenarios)
  BY NamesAre
<1>2. \A s \in Names : Inputs[s] = [weight |-> Scenarios[s].weight, deltas |-> evidence.compares[s]]
  BY DEF Inputs
<1>3. DOMAIN Inputs = Names /\ Inputs = [s \in Names |-> Inputs[s]]
  BY DEF Inputs
<1>4. \A s \in Names : Scenarios[s].weight \in Nat \ {0}
  <2> TAKE s \in Names
  <2>1. Scenarios[s] \in Scenario
    BY ScenariosAssumption DEF Names
  <2> QED BY <2>1 DEF Scenario
<1>5. evidence \in Evidences
  BY DEF EvaluateInv, FilesTyped
<1>6. \A s \in Names : \A m \in DOMAIN evidence.compares[s] :
        evidence.compares[s][m].baseline \in Nat /\ evidence.compares[s][m].current \in Nat
  BY <1>5, EvidencesAssumption
<1>7. \A s \in Names : Inputs[s].weight \in Nat \ {0} /\ Inputs[s].deltas = evidence.compares[s]
  <2> TAKE s \in Names
  <2> DEFINE x == Scenarios[s].weight
             y == evidence.compares[s]
  <2>1. Inputs[s] = [weight |-> x, deltas |-> y] BY <1>2
  <2> HIDE DEF x, y
  <2>2. Inputs[s].weight = x /\ Inputs[s].deltas = y BY <2>1
  <2> QED BY <1>4, <2>2 DEF x, y
<1> QED BY <1>1, <1>3, <1>6, <1>7 DEF Weighted

\* A requirement that the receipts satisfy is met by what was measured of a
\* component: a weighted total improves only where one of its parts does.
LEMMA RequirementMet ==
  ASSUME EvaluateInv, Evaluable(Inputs), NEW r \in Requirement, Satisfied(r, Totals, Index)
  PROVE  Better(r) # {}
<1>1. PICK d \in Found(r, Totals, Index) : Improved(r.metric, d, r.min)
  BY DEF Satisfied
<1>2. CASE r.probe # ""
  <2>1. d \in Measured(r) BY <1>1, <1>2, MeasuredProbe
  <2> QED BY <1>1, <2>1 DEF Better
<1>3. CASE r.probe = ""
  <2> DEFINE m == r.metric
             n == Len(Scenarios)
  <2>1. m \in DOMAIN Totals /\ d = Totals[m]
    BY <1>1, <1>3 DEF Found
  <2>2. /\ n \in Nat /\ Names = 1..n /\ DOMAIN Inputs = Names /\ Weighted(Inputs, n)
        /\ \A s \in Names : Inputs[s].deltas = evidence.compares[s]
    BY InputsWeighted
  <2>3. /\ d.baseline = WeightedBaseline(Inputs, m) /\ d.current = WeightedCurrent(Inputs, m)
        /\ m \in Keys({i.deltas : i \in Range(Inputs)})
    BY <2>1, TotalsShaped
  <2>4. d.baseline > 0
    BY <2>3 DEF Evaluable
  <2>5. PICK j \in 1..n : m \in DOMAIN Inputs[j].deltas
    BY <2>2, <2>3 DEF Keys, Range
  <2>6. r.min \in Nat \ {0} BY DEF Requirement
  <2> HIDE DEF m, n
  <2>7. Improved(m, d, r.min) BY <1>1 DEF m
  <2>8. \E i \in 1..n :
          /\ m \in DOMAIN Inputs[i].deltas
          /\ \/ Improved(m, Inputs[i].deltas[m], r.min)
             \/ /\ m \in HigherIsBetter
                /\ Inputs[i].deltas[m].baseline = 0 /\ Inputs[i].deltas[m].current > 0
    BY <2>2, <2>3, <2>4, <2>5, <2>6, <2>7, SomeComponentImproved
  <2>9. PICK i \in Names :
          /\ m \in DOMAIN evidence.compares[i]
          /\ \/ Improved(m, evidence.compares[i][m], r.min)
             \/ /\ m \in HigherIsBetter
                /\ evidence.compares[i][m].baseline = 0 /\ evidence.compares[i][m].current > 0
    BY <2>2, <2>8
  <2>10. Measured(r) = {c[m] : c \in {c \in {evidence.compares[s] : s \in Names} : m \in DOMAIN c}}
    BY <1>3 DEF Measured, m
  <2>11. evidence.compares[i][m] \in Measured(r)
    BY <2>9, <2>10
  <2>12. evidence.compares[i][m] \in Better(r)
    BY <2>9, <2>11 DEF Better, m
  <2> QED BY <2>12
<1> QED BY <1>2, <1>3

\* What stands behind the two outcomes that take a failure back.
LEMMA OutcomeEvidence ==
  ASSUME NEW rule, NEW w, NEW index, NEW policy
  PROVE  /\ EvaluateRule(rule, w, index, policy) = "accepted" =>
              /\ \A r \in rule.require : Satisfied(r, w, index)
              /\ \A a \in rule.allow : WithinCap(a, w, index)
         /\ EvaluateRule(rule, w, index, policy) = "needs_review" =>
              /\ \A r \in rule.require : Satisfied(r, w, index) \/ (r.probe # "" /\ Missing(r, w, index))
              /\ \A a \in rule.allow : WithinCap(a, w, index) \/ Missing(a, w, index)
BY DEF EvaluateRule, IncompleteButSatisfied

(* A failure of the scenario that the tradeoff receipt no longer counts as *)
(* one is paid for by what was measured, for any scenarios, weights, rules *)
(* and measurements: the requirements of a rule for that metric are met by *)
(* a component, its caps are not exceeded, and what nobody measured makes  *)
(* the decision one to review.                                             *)
THEOREM FailuresPaid == EvaluateSpec => []FailuresArePaidFor
<1>1. ASSUME EvaluateInv PROVE FailuresArePaidFor
  <2> DEFINE rules == config.rules
             n == Len(rules)
             w == Totals
             A == By("accepted", n, rules, w, Index, config.policy)
             R == By("needs_review", n, rules, w, Index, config.policy)
             d == receipt
  <2> SUFFICES ASSUME stage = "markdown", NEW m \in DOMAIN receipt.deltas,
                      receipt.deltas[m].status # files[File("scenario.json")].content.deltas[m].status
               PROVE  LET before == files[File("scenario.json")].content.deltas[m].status
                          after == receipt.deltas[m].status
                          review == after = "warn" /\ receipt.review_required
                      IN /\ before = "fail"
                         /\ \E i \in DOMAIN config.rules :
                              LET rule == config.rules[i] IN
                              /\ rule.if_failed = m
                              /\ \A r \in rule.require :
                                   Better(r) # {} \/ (review /\ r.probe # "" /\ Measured(r) = {})
                              /\ \A a \in rule.allow : ~OverCap(a) /\ (Measured(a) # {} \/ review)
                              /\ after = rule.downgrade_to \/ review
    BY DEF FailuresArePaidFor, JustDecided
  <2>2. files[File("scenario.json")].content.deltas = w
    BY EvaluateInv, LoadedAreProbed
  <2>3. receipt = Decide(rules, w, Index, config.policy) /\ Evaluable(Inputs)
    BY EvaluateInv DEF EvaluateInv, ReceiptInv, Decision
  <2>4. rules \in Seq(TradeoffRule)
    BY EvaluateInv, ConfigsAssumption DEF EvaluateInv, FilesTyped
  <2>5. /\ n \in Nat /\ DOMAIN rules = 1..n
        /\ \A i \in 1..n : /\ rules[i] \in TradeoffRule /\ rules[i].downgrade_to # "fail"
                           /\ rules[i].require \subseteq Requirement
                           /\ rules[i].allow \subseteq Allowance
    <3>1. n \in Nat /\ DOMAIN rules = 1..n /\ \A i \in 1..n : rules[i] \in TradeoffRule
      BY <2>4
    <3>2. \A x \in TradeoffRule : /\ x.downgrade_to # "fail" /\ x.require \subseteq Requirement
                                  /\ x.allow \subseteq Allowance
      BY DEF TradeoffRule
    <3> QED BY <3>1, <3>2
  <2>6. \A x \in DOMAIN w : Shaped(w[x])
    BY TotalsShaped
  <2>7. /\ DOMAIN d.deltas = DOMAIN w
        /\ \A x \in DOMAIN w :
             IF x \in R \ A THEN d.deltas[x].status = "warn"
             ELSE StatusAfter(x, n, rules, w, Index, config.policy, d.deltas[x].status)
        /\ d.review_required = (R \ A # {})
    <3> HIDE DEF rules, w
    <3> QED BY <2>3, <2>5, <2>6, Decided
  <2> DEFINE before == w[m].status
             after == d.deltas[m].status
             review == after = "warn" /\ d.review_required
  <2>8. m \in DOMAIN w /\ after # before
    BY <2>2, <2>7
  <2> DEFINE paid(i) ==
               /\ rules[i].if_failed = m
               /\ \A r \in rules[i].require :
                    Better(r) # {} \/ (review /\ r.probe # "" /\ Measured(r) = {})
               /\ \A a \in rules[i].allow : ~OverCap(a) /\ (Measured(a) # {} \/ review)
               /\ after = rules[i].downgrade_to \/ review
  <2>9. before = "fail" /\ \E i \in 1..n : paid(i)
    <3> HIDE DEF rules, w, d
    <3>1. CASE m \in R \ A
      <4>1. review
        <5>1. after = "warn" BY <2>7, <2>8, <3>1
        <5>2. R \ A # {} BY <3>1
        <5> QED BY <2>7, <5>1, <5>2
      <4>2. PICK i \in 1..n : /\ rules[i].if_failed = m
                              /\ EvaluateRule(rules[i], w, Index, config.policy) = "needs_review"
        BY <3>1 DEF By
      <4>3. before = "fail" BY <4>2, JudgedFailing DEF Failing
      <4> HIDE DEF review, before, after
      <4>4. /\ \A r \in rules[i].require :
                 Satisfied(r, w, Index) \/ (r.probe # "" /\ Missing(r, w, Index))
            /\ \A a \in rules[i].allow : WithinCap(a, w, Index) \/ Missing(a, w, Index)
        BY <4>2, OutcomeEvidence
      <4>5. ASSUME NEW r \in rules[i].require
            PROVE  Better(r) # {} \/ (review /\ r.probe # "" /\ Measured(r) = {})
        <5>1. r \in Requirement BY <2>5
        <5>2. CASE Satisfied(r, w, Index)
          BY <1>1, <2>3, <5>1, <5>2, RequirementMet DEF w
        <5>3. CASE r.probe # "" /\ Missing(r, w, Index)
          BY <1>1, <4>1, <5>3, MeasuredProbe DEF Missing, w
        <5> QED BY <4>4, <5>2, <5>3
      <4>6. ASSUME NEW a \in rules[i].allow PROVE ~OverCap(a)
        <5>1. a \in Allowance BY <2>5
        <5> QED BY <1>1, <4>4, <5>1, CapRespected DEF w
      <4>7. paid(i) BY <4>1, <4>2, <4>5, <4>6
      <4> QED BY <4>3, <4>7
    <3>2. CASE m \notin R \ A
      <4>1. m \in A /\ Downgraded(m, n, rules, w, Index, config.policy, after)
        BY <2>7, <2>8, <3>2 DEF StatusAfter
      <4>2. PICK i \in 1..n : /\ rules[i].if_failed = m /\ after = rules[i].downgrade_to
                              /\ EvaluateRule(rules[i], w, Index, config.policy) = "accepted"
        BY <4>1 DEF Downgraded
      <4>3. before = "fail" BY <4>2, JudgedFailing DEF Failing
      <4> HIDE DEF review, before, after
      <4>4. /\ \A r \in rules[i].require : Satisfied(r, w, Index)
            /\ \A a \in rules[i].allow : WithinCap(a, w, Index)
        BY <4>2, OutcomeEvidence
      <4>5. ASSUME NEW r \in rules[i].require PROVE Better(r) # {}
        <5>1. r \in Requirement BY <2>5
        <5> QED BY <1>1, <2>3, <4>4, <5>1, RequirementMet DEF w
      <4>6. ASSUME NEW a \in rules[i].allow PROVE ~OverCap(a) /\ Measured(a) # {}
        <5>1. a \in Allowance BY <2>5
        <5> QED BY <1>1, <4>4, <5>1, CapRespected DEF w
      <4>7. paid(i) BY <4>2, <4>5, <4>6
      <4> QED BY <4>3, <4>7
    <3> QED BY <3>1, <3>2
  <2> QED BY <2>2, <2>5, <2>9
<1> QED BY <1>1, EvaluateInvariance, PTL

=============================================================================
