-------------------------- MODULE TrendBoardProofs --------------------------
(***************************************************************************)
(* Proofs about TrendBoard: a score is a function of the windows next to   *)
(* it, rescoring only forgets, the movers on the board are the largest,    *)
(* a window in the middle of its history is no anomaly, and a row that the *)
(* lookback has left behind shows nothing, for any counts, any windows and *)
(* any builds.                                                             *)
(***************************************************************************)
EXTENDS TrendBoard, FiniteSetTheorems, SequenceTheorems, WellFoundedInduction, TLAPS

-----------------------------------------------------------------------------
(* Cutting a series.                                                       *)

LEMMA LargerSmaller ==
  ASSUME NEW a \in Int, NEW b \in Int
  PROVE  /\ Larger(a, b) = IF a < b THEN b ELSE a
         /\ Smaller(a, b) = IF a < b THEN a ELSE b
         /\ Larger(a, b) \in Int /\ Smaller(a, b) \in Int
  BY DEF Larger, Smaller

\* A part of a part that starts behind the first d elements.
LEMMA PartOfPart ==
  ASSUME NEW S, NEW s \in Seq(S), NEW d \in Nat, NEW e \in Int, e <= Len(s),
         NEW a \in Nat \ {0}, NEW b \in Int, b <= e - d
  PROVE  SubSeq(SubSeq(s, d + 1, e), a, b) = SubSeq(s, d + a, d + b)
  <1> DEFINE t == SubSeq(s, d + 1, e)
  <1>1. /\ t \in Seq(S)
        /\ Len(t) = IF d + 1 <= e THEN e - d ELSE 0
        /\ \A i \in 1 .. e - d : t[i] = s[d + i]
    <2>1. \A i \in d + 1 .. e : s[i] \in S
      OBVIOUS
    <2>2. QED
      BY <2>1, SubSeqProperties
  <1> HIDE DEF t
  <1>2. /\ SubSeq(t, a, b) \in Seq(S)
        /\ Len(SubSeq(t, a, b)) = IF a <= b THEN b - a + 1 ELSE 0
        /\ \A i \in 1 .. b - a + 1 : SubSeq(t, a, b)[i] = t[a + i - 1]
    <2>1. \A i \in a .. b : t[i] \in S
      BY <1>1
    <2>2. QED
      BY <2>1, SubSeqProperties
  <1>3. /\ SubSeq(s, d + a, d + b) \in Seq(S)
        /\ Len(SubSeq(s, d + a, d + b)) = IF a <= b THEN b - a + 1 ELSE 0
        /\ \A i \in 1 .. b - a + 1 : SubSeq(s, d + a, d + b)[i] = s[d + a + i - 1]
    <2>1. \A i \in d + a .. d + b : s[i] \in S
      OBVIOUS
    <2>2. (d + b) - (d + a) + 1 = b - a + 1 /\ (d + a <= d + b <=> a <= b)
      OBVIOUS
    <2>3. QED
      BY <2>1, <2>2, SubSeqProperties
  <1>4. \A i \in 1 .. Len(SubSeq(t, a, b)) :
           SubSeq(t, a, b)[i] = SubSeq(s, d + a, d + b)[i]
    <2> SUFFICES ASSUME NEW i \in 1 .. b - a + 1
                 PROVE  SubSeq(t, a, b)[i] = SubSeq(s, d + a, d + b)[i]
      BY <1>2
    <2>1. t[a + i - 1] = s[d + a + i - 1]
      BY <1>1
    <2>2. QED
      BY <1>2, <1>3, <2>1
  <1>5. SubSeq(t, a, b) = SubSeq(s, d + a, d + b)
    BY <1>2, <1>3, <1>4, SeqEqual
  <1>6. QED
    BY <1>5 DEF t

\* The end of a beginning.
LEMMA PartOfStart ==
  ASSUME NEW S, NEW s \in Seq(S), NEW e \in Int, e <= Len(s), NEW a \in Nat \ {0}
  PROVE  SubSeq(SubSeq(s, 1, e), a, e) = SubSeq(s, a, e)
  <1>1. ASSUME NEW z \in Nat, z = 0
        PROVE  SubSeq(SubSeq(s, z + 1, e), a, e) = SubSeq(s, z + a, z + e)
    <2>1. e <= e - z
      BY <1>1
    <2>2. QED
      BY <2>1, PartOfPart
  <1>2. SubSeq(SubSeq(s, 0 + 1, e), a, e) = SubSeq(s, 0 + a, 0 + e)
    BY <1>1
  <1>3. QED
    BY <1>2

\* What growth, acceleration, baseline and change of the i-th window need not
\* to look further back than the baseline; the defaults are 8, 3 and 6.
LocalParameters ==
    /\ BaselineWindows >= 2
    /\ RecentWindows + ChangeWindows <= BaselineWindows + 1

LEMMA DefaultsAreLocal ==
  ASSUME BaselineWindows = 8, RecentWindows = 3, ChangeWindows = 6
  PROVE  LocalParameters
  BY DEF LocalParameters

\* The list cut off behind the i-th window, and BaselineWindows before it: the
\* k readings that follow the first d.
Near(s, i) == Latest(SubSeq(s, 1, i), BaselineWindows + 1)

LEMMA NearIs ==
  ASSUME NEW S, NEW s \in Seq(S), NEW i \in 1 .. Len(s)
  PROVE  LET k == Smaller(i, BaselineWindows + 1)
         IN  /\ Near(s, i) = SubSeq(s, i - k + 1, i)
             /\ Near(s, i) \in Seq(S)
             /\ Len(Near(s, i)) = k
             /\ \A j \in 1 .. k : Near(s, i)[j] = s[i - k + j]
  <1> DEFINE k == Smaller(i, BaselineWindows + 1)
             d == i - k
  <1>1. k \in 1 .. i /\ d \in Nat /\ Larger(1, i - BaselineWindows) = d + 1
    BY ScoringAssumption DEF Smaller, Larger
  <1> HIDE DEF k
  <1>2. SubSeq(s, 1, i) \in Seq(S) /\ Len(SubSeq(s, 1, i)) = i
    BY SubSeqProperties
  <1>3. Near(s, i) = SubSeq(SubSeq(s, 1, i), d + 1, i)
    <2>1. i - (BaselineWindows + 1) + 1 = i - BaselineWindows
      BY ScoringAssumption
    <2>2. QED
      BY <1>1, <1>2, <2>1 DEF Near, Latest
  <1>4. Near(s, i) = SubSeq(s, d + 1, i)
    BY <1>1, <1>3, PartOfPart
  <1>5. /\ SubSeq(s, d + 1, i) \in Seq(S)
        /\ Len(SubSeq(s, d + 1, i)) = k
        /\ \A j \in 1 .. k : SubSeq(s, d + 1, i)[j] = s[d + j]
    <2>1. i - (d + 1) + 1 = k /\ d + 1 <= i
      BY <1>1
    <2>2. \A j \in d + 1 .. i : s[j] \in S
      BY <1>1
    <2>3. QED
      BY <1>1, <2>1, <2>2, SubSeqProperties
  <1>6. QED
    BY <1>4, <1>5 DEF k

\* The baseline of a window is the one the cut list has.
LEMMA NearBaseline ==
  ASSUME NEW S, NEW s \in Seq(S), NEW i \in 1 .. Len(s)
  PROVE  LET k == Smaller(i, BaselineWindows + 1)
         IN  Baseline(Near(s, i), k) = Baseline(s, i)
  <1> DEFINE k == Smaller(i, BaselineWindows + 1)
             d == i - k
             near == Near(s, i)
  <1>1. k \in 1 .. i /\ d \in Nat /\ k <= BaselineWindows + 1
    BY ScoringAssumption DEF Smaller
  <1>2. Larger(1, i - BaselineWindows) = d + 1 /\ Larger(1, k - BaselineWindows) = 1
    BY ScoringAssumption DEF Smaller, Larger
  <1>3. near = SubSeq(s, d + 1, i) /\ near \in Seq(S) /\ Len(near) = k
    <2>1. i - k + 1 = d + 1
      OBVIOUS
    <2>2. QED
      BY <2>1, NearIs
  <1> HIDE DEF k, near
  <1>4. ASSUME NEW t \in Seq(S), NEW n \in 1 .. Len(t)
        PROVE  Baseline(t, n) = SubSeq(t, Larger(1, n - BaselineWindows), n - 1)
    <2>1. SubSeq(t, 1, n - 1) \in Seq(S) /\ Len(SubSeq(t, 1, n - 1)) = n - 1
      <3>1. (\A j \in 1 .. n - 1 : t[j] \in S) /\ (n - 1) - 1 + 1 = n - 1
        OBVIOUS
      <3>2. QED
        BY <3>1, SubSeqProperties
    <2>2. (n - 1) - BaselineWindows + 1 = n - BaselineWindows
      BY ScoringAssumption
    <2>3. Larger(1, n - BaselineWindows) \in Nat \ {0}
      BY ScoringAssumption DEF Larger
    <2> DEFINE before == SubSeq(t, 1, n - 1)
    <2>4. Baseline(t, n) = Latest(before, BaselineWindows)
      BY DEF Baseline
    <2>5. SubSeq(before, Larger(1, n - BaselineWindows), n - 1)
            = SubSeq(t, Larger(1, n - BaselineWindows), n - 1)
      <3>1. n - 1 \in Int /\ n - 1 <= Len(t)
        OBVIOUS
      <3>2. QED
        BY <2>3, <3>1, PartOfStart
    <2>6. Len(before) = n - 1
      BY <2>1
    <2> HIDE DEF before
    <2>7. Latest(before, BaselineWindows)
             = SubSeq(before, Larger(1, n - BaselineWindows), n - 1)
      BY <2>2, <2>6 DEF Latest
    <2>8. QED
      BY <2>4, <2>5, <2>7
  <1>5. Baseline(s, i) = SubSeq(s, d + 1, i - 1)
    BY <1>2, <1>4
  <1>6. Baseline(near, k) = SubSeq(near, 1, k - 1)
    <2>1. k \in 1 .. Len(near)
      BY <1>1, <1>3
    <2>2. Baseline(near, k) = SubSeq(near, Larger(1, k - BaselineWindows), k - 1)
      BY <1>3, <1>4, <2>1
    <2>3. QED
      BY <1>2, <2>2
  <1>7. SubSeq(SubSeq(s, d + 1, i), 1, k - 1) = SubSeq(s, d + 1, d + (k - 1))
    BY <1>1, PartOfPart
  <1>8. d + (k - 1) = i - 1
    BY <1>1
  <1>9. QED
    BY <1>3, <1>5, <1>6, <1>7, <1>8 DEF k, near

\* So is its growth, and that of the window before it.
LEMMA NearGrowth ==
  ASSUME LocalParameters, NEW S, NEW s \in Seq(S), NEW i \in 1 .. Len(s)
  PROVE  LET k == Smaller(i, BaselineWindows + 1)
         IN  /\ k \in Nat /\ (k = 1 <=> i = 1)
             /\ Near(s, i)[k] = s[i]
             /\ GrowthAt(Near(s, i), k) = GrowthAt(s, i)
             /\ i # 1 => GrowthAt(Near(s, i), k - 1) = GrowthAt(s, i - 1)
  <1> DEFINE k == Smaller(i, BaselineWindows + 1)
             near == Near(s, i)
  <1>1. /\ k \in 1 .. i /\ (k = 1 <=> i = 1) /\ (k = 2 <=> i = 2)
    BY ScoringAssumption DEF Smaller, LocalParameters
  <1>2. \A j \in 1 .. k : near[j] = s[i - k + j]
    BY NearIs
  <1> HIDE DEF k, near
  <1>3. near[k] = s[i]
    BY <1>1, <1>2
  <1>4. i # 1 => near[k - 1] = s[i - 1]
    <2> SUFFICES ASSUME i # 1 PROVE near[k - 1] = s[i - 1]
      OBVIOUS
    <2>1. k - 1 \in 1 .. k /\ i - k + (k - 1) = i - 1
      BY <1>1
    <2>2. QED
      BY <1>2, <2>1
  <1>5. i > 2 => near[k - 2] = s[i - 2]
    <2> SUFFICES ASSUME i > 2 PROVE near[k - 2] = s[i - 2]
      OBVIOUS
    <2>1. k - 2 \in 1 .. k /\ i - k + (k - 2) = i - 2
      BY <1>1
    <2>2. QED
      BY <1>2, <2>1
  <1>6. GrowthAt(near, k) = GrowthAt(s, i)
    BY <1>1, <1>3, <1>4 DEF GrowthAt
  <1>7. i # 1 => GrowthAt(near, k - 1) = GrowthAt(s, i - 1)
    <2> SUFFICES ASSUME i # 1 PROVE GrowthAt(near, k - 1) = GrowthAt(s, i - 1)
      OBVIOUS
    <2>1. k - 1 - 1 = k - 2 /\ i - 1 - 1 = i - 2 /\ (k - 1 = 1 <=> i - 1 = 1)
      BY <1>1
    <2>2. CASE i = 2
      BY <2>1, <2>2 DEF GrowthAt
    <2>3. CASE i # 2
      <3>1. i > 2 /\ i - 1 # 1 /\ k - 1 # 1
        BY <2>1, <2>3
      <3>2. QED
        BY <1>4, <1>5, <2>1, <3>1 DEF GrowthAt
    <2>4. QED
      BY <2>2, <2>3
  <1>8. QED
    BY <1>1, <1>3, <1>6, <1>7 DEF k, near

\* And the change of its mean, as long as both parts fit in the cut list.
LEMMA NearChange ==
  ASSUME LocalParameters, NEW S, NEW s \in Seq(S), NEW i \in 1 .. Len(s)
  PROVE  LET k == Smaller(i, BaselineWindows + 1)
         IN  ChangeAt(Near(s, i), k) = ChangeAt(s, i)
  <1> DEFINE k == Smaller(i, BaselineWindows + 1)
             d == i - k
             near == Near(s, i)
             recent == Smaller(RecentWindows, i)
             first == Larger(1, i - recent - ChangeWindows + 1)
  <1>1. /\ k \in 1 .. i /\ d \in Nat /\ recent \in 1 .. k
        /\ Smaller(RecentWindows, k) = recent
        /\ first \in Nat \ {0}
        /\ Larger(1, k - recent - ChangeWindows + 1) = first - d
        /\ first - d \in Nat \ {0}
    BY ScoringAssumption DEF Smaller, Larger, LocalParameters
  <1>2. near = SubSeq(s, d + 1, i) /\ near \in Seq(S)
    <2>1. i - k + 1 = d + 1
      OBVIOUS
    <2>2. QED
      BY <2>1, NearIs
  <1> HIDE DEF k, near, recent, first
  <1>3. ASSUME NEW a \in Nat \ {0}, NEW b \in Int, b <= k
        PROVE  SubSeq(near, a, b) = SubSeq(s, d + a, d + b)
    BY <1>1, <1>2, <1>3, PartOfPart
  <1>4. ChangeBaseline(near, k) = ChangeBaseline(s, i)
    <2>1. ChangeBaseline(s, i) = SubSeq(s, first, i - recent)
      BY DEF ChangeBaseline, recent, first
    <2>2. ChangeBaseline(near, k) = SubSeq(near, first - d, k - recent)
      BY <1>1 DEF ChangeBaseline
    <2>3. SubSeq(near, first - d, k - recent) = SubSeq(s, d + (first - d), d + (k - recent))
      <3>1. k - recent \in Int /\ k - recent <= k
        BY <1>1
      <3> DEFINE a == first - d
                 b == k - recent
      <3> HIDE DEF a, b
      <3>2. a \in Nat \ {0} /\ b \in Int /\ b <= k
        BY <1>1, <3>1 DEF a, b
      <3>3. SubSeq(near, a, b) = SubSeq(s, d + a, d + b)
        BY <1>3, <3>2
      <3>4. QED
        BY <3>3 DEF a, b
    <2>4. d + (first - d) = first /\ d + (k - recent) = i - recent
      BY <1>1
    <2>5. QED
      BY <2>1, <2>2, <2>3, <2>4
  <1>5. SubSeq(near, k - recent + 1, k) = SubSeq(s, i - recent + 1, i)
    <2>1. k - recent + 1 \in Nat \ {0}
      BY <1>1
    <2>2. d + (k - recent + 1) = i - recent + 1 /\ d + k = i
      BY <1>1
    <2>3. k \in Int /\ k <= k
      BY <1>1
    <2>4. SubSeq(near, k - recent + 1, k) = SubSeq(s, d + (k - recent + 1), d + k)
      <3> DEFINE a == k - recent + 1
      <3> HIDE DEF a
      <3>1. a \in Nat \ {0}
        BY <2>1 DEF a
      <3>2. SubSeq(near, a, k) = SubSeq(s, d + a, d + k)
        BY <1>3, <2>3, <3>1
      <3>3. QED
        BY <3>2 DEF a
    <2>5. QED
      BY <2>2, <2>4
  <1>6. ChangeAt(near, k) = ChangeAt(s, i)
    BY <1>1, <1>4, <1>5 DEF ChangeAt, recent
  <1>7. QED
    BY <1>6 DEF k, near

\* A score depends on the windows of its baseline alone.
LEMMA LocalScore ==
  ASSUME LocalParameters, NEW S,
         NEW posts \in Seq(S), NEW users \in Seq(S), NEW subs \in Seq(S),
         Len(users) = Len(posts), Len(subs) = Len(posts), NEW i \in 1 .. Len(posts)
  PROVE  Score(posts, users, subs, i) =
         Score(Near(posts, i), Near(users, i), Near(subs, i), Len(Near(posts, i)))
  <1> DEFINE k == Smaller(i, BaselineWindows + 1)
  <1>1. Len(Near(posts, i)) = k
    BY NearIs
  <1>2. Smaller(k - 1, BaselineWindows) = Smaller(i - 1, BaselineWindows)
    BY ScoringAssumption DEF Smaller
  <1>3. /\ k = 1 <=> i = 1
        /\ Near(posts, i)[k] = posts[i] /\ Near(users, i)[k] = users[i]
        /\ GrowthAt(Near(posts, i), k) = GrowthAt(posts, i)
        /\ GrowthAt(Near(users, i), k) = GrowthAt(users, i)
        /\ GrowthAt(Near(subs, i), k) = GrowthAt(subs, i)
        /\ i # 1 => GrowthAt(Near(posts, i), k - 1) = GrowthAt(posts, i - 1)
        /\ i # 1 => GrowthAt(Near(users, i), k - 1) = GrowthAt(users, i - 1)
        /\ i # 1 => GrowthAt(Near(subs, i), k - 1) = GrowthAt(subs, i - 1)
    BY NearGrowth
  <1>4. /\ Baseline(Near(posts, i), k) = Baseline(posts, i)
        /\ Baseline(Near(users, i), k) = Baseline(users, i)
    BY NearBaseline
  <1>5. ChangeAt(Near(posts, i), k) = ChangeAt(posts, i)
    BY NearChange
  <1> HIDE DEF k
  <1>6. Score(Near(posts, i), Near(users, i), Near(subs, i), k) = Score(posts, users, subs, i)
    BY <1>2, <1>3, <1>4, <1>5 DEF Score, Velocity
  <1>7. QED
    BY <1>1, <1>6

-----------------------------------------------------------------------------
(* Sorting.                                                                *)

\* below[w] is what comes before w: a strict order that ranks any two elements.
Ordering(S, below) ==
    /\ IsFiniteSet(S)
    /\ below \in [S -> SUBSET S]
    /\ \A w \in S : w \notin below[w]
    /\ \A v, w \in S : v \in below[w] => below[v] \subseteq below[w]
    /\ \A v, w \in S : v # w => v \in below[w] \/ w \in below[v]

\* The number of elements before an element.
Rank(below, w) == Cardinality(below[w])

\* An earlier element has a smaller rank.
LEMMA RanksGrow ==
  ASSUME NEW S, NEW below, Ordering(S, below), NEW v \in S, NEW w \in S, v \in below[w]
  PROVE  /\ Rank(below, v) \in Nat /\ Rank(below, w) \in Nat
         /\ Rank(below, v) < Rank(below, w)
  <1>1. IsFiniteSet(below[v]) /\ IsFiniteSet(below[w])
    BY FS_Subset DEF Ordering
  <1>2. Cardinality(below[v]) \in Nat /\ Cardinality(below[w]) \in Nat
    BY <1>1, FS_CardinalityType
  <1>3. below[v] \in SUBSET below[w] /\ below[v] # below[w]
    BY DEF Ordering
  <1>4. /\ Cardinality(below[v]) <= Cardinality(below[w])
        /\ Cardinality(below[v]) # Cardinality(below[w])
    BY <1>1, <1>3, FS_Subset
  <1>5. QED
    BY <1>2, <1>4 DEF Rank

\* The ranks of a set of n elements are 0, 1, .., n - 1, one each.
LEMMA RanksOf ==
  ASSUME NEW S, NEW below, Ordering(S, below)
  PROVE  /\ Cardinality(S) \in Nat
         /\ \A w \in S : Rank(below, w) \in 0 .. Cardinality(S) - 1
         /\ \A v, w \in S : Rank(below, v) = Rank(below, w) => v = w
         /\ \A n \in 0 .. Cardinality(S) - 1 : \E w \in S : Rank(below, w) = n
  <1> DEFINE n == Cardinality(S)
             rank == [w \in S |-> Rank(below, w)]
  <1>1. n \in Nat
    BY FS_CardinalityType DEF Ordering
  <1>2. ASSUME NEW w \in S PROVE Rank(below, w) \in 0 .. n - 1
    <2>1. IsFiniteSet(S) /\ below[w] \in SUBSET (S \ {w})
      BY DEF Ordering
    <2>2. IsFiniteSet(S \ {w}) /\ Cardinality(S \ {w}) = n - 1
      BY <2>1, FS_RemoveElement
    <2>3. IsFiniteSet(below[w]) /\ Cardinality(below[w]) <= n - 1
      BY <2>1, <2>2, FS_Subset
    <2>4. Cardinality(below[w]) \in Nat
      BY <2>3, FS_CardinalityType
    <2>5. QED
      BY <1>1, <2>3, <2>4 DEF Rank
  <1>3. ASSUME NEW v \in S, NEW w \in S, Rank(below, v) = Rank(below, w) PROVE v = w
    <2>1. v # w => v \in below[w] \/ w \in below[v]
      BY DEF Ordering
    <2>2. v \in below[w] => Rank(below, v) \in Nat /\ Rank(below, v) < Rank(below, w)
      BY RanksGrow
    <2>3. w \in below[v] => Rank(below, w) \in Nat /\ Rank(below, w) < Rank(below, v)
      BY RanksGrow
    <2>4. QED
      BY <1>3, <2>1, <2>2, <2>3
  <1>4. IsFiniteSet(0 .. n - 1) /\ Cardinality(0 .. n - 1) = n
    BY <1>1, FS_Interval
  <1>5. rank \in Injection(S, 0 .. n - 1)
    <2>1. rank \in [S -> 0 .. n - 1]
      BY <1>2
    <2>2. \A v, w \in S : rank[v] = rank[w] => v = w
      BY <1>3
    <2> HIDE DEF rank
    <2>3. QED
      BY <2>1, <2>2 DEF Injection, IsInjective
  <1>6. rank \in Surjection(S, 0 .. n - 1)
    BY <1>4, <1>5, FS_Injection
  <1>7. \A m \in 0 .. n - 1 : \E w \in S : rank[w] = m
    BY <1>6 DEF Surjection
  <1>8. QED
    BY <1>1, <1>2, <1>3, <1>7

\* A function on 1 .. n is a list of n elements.
LEMMA ListOf ==
  ASSUME NEW S, NEW n \in Nat, NEW list \in [1 .. n -> S]
  PROVE  list \in Seq(S) /\ Len(list) = n
  <1>1. list \in Seq(S)
    BY SeqDef
  <1>2. Len(list) \in Nat /\ DOMAIN list = 1 .. Len(list) /\ DOMAIN list = 1 .. n
    BY <1>1, LenProperties
  <1>3. 1 .. n = 1 .. Len(list)
    BY <1>2
  <1>4. ASSUME NEW k \in Nat PROVE Cardinality(1 .. k) = k
    BY FS_Interval
  <1>5. QED
    BY <1>1, <1>2, <1>3, <1>4

\* A sorted set is a list that has each element at the place of its rank.
LEMMA SortedList ==
  ASSUME NEW S, NEW below, Ordering(S, below), NEW list, list = Sorted(S, below)
  PROVE  /\ list \in Seq(S) /\ Len(list) = Cardinality(S)
         /\ \A i \in 1 .. Cardinality(S) : Rank(below, list[i]) = i - 1
         /\ \A w \in S : Rank(below, w) + 1 \in 1 .. Cardinality(S)
                      /\ list[Rank(below, w) + 1] = w
  <1>1. Cardinality(S) \in Nat
    BY RanksOf
  <1>2. ASSUME NEW i \in 1 .. Cardinality(S)
        PROVE  list[i] \in S /\ Rank(below, list[i]) = i - 1
    <2>1. i - 1 \in 0 .. Cardinality(S) - 1
      BY <1>1
    <2>2. \E w \in S : Rank(below, w) = i - 1
      BY <2>1, RanksOf
    <2>3. list[i] = CHOOSE w \in S : Rank(below, w) = i - 1
      BY DEF Sorted, Rank
    <2>4. QED
      BY <2>2, <2>3
  <1>3. list \in [1 .. Cardinality(S) -> S]
    BY <1>2 DEF Sorted
  <1>4. list \in Seq(S) /\ Len(list) = Cardinality(S)
    BY <1>1, <1>3, ListOf
  <1>5. ASSUME NEW w \in S
        PROVE  /\ Rank(below, w) + 1 \in 1 .. Cardinality(S)
               /\ list[Rank(below, w) + 1] = w
    <2>1. Rank(below, w) \in 0 .. Cardinality(S) - 1
      BY RanksOf
    <2>2. Rank(below, w) + 1 \in 1 .. Cardinality(S)
      BY <1>1, <2>1
    <2>3. /\ list[Rank(below, w) + 1] \in S
          /\ Rank(below, list[Rank(below, w) + 1]) = Rank(below, w)
      BY <1>2, <2>1, <2>2
    <2>4. QED
      BY <2>2, <2>3, RanksOf
  <1>6. QED
    BY <1>2, <1>4, <1>5

-----------------------------------------------------------------------------
(* Lists of windows.                                                       *)

LEMMA WindowsFinite == IsFiniteSet(Windows)
  <1> DEFINE start == [t \in Time |-> WindowStart(t)]
  <1>1. IsFiniteSet(Time)
    BY WindowingAssumption, FS_Interval DEF Time
  <1>2. start \in Surjection(Time, Windows)
    BY DEF Surjection, Windows
  <1>3. QED
    BY <1>1, <1>2, FS_Surjection

LEMMA WindowsAreIntegers == Windows \subseteq Int
  BY WindowingAssumption DEF Windows, WindowStart, Time

\* The place of a window in the list of S.
Place(S, w) == Cardinality({u \in S : u < w}) + 1

\* A set of windows in order is a list of them, each at its place.
LEMMA InOrderType ==
  ASSUME NEW S \in SUBSET Windows
  PROVE  /\ InOrder(S) \in Seq(S) /\ Len(InOrder(S)) = Cardinality(S)
         /\ \A i \in 1 .. Len(InOrder(S)) : Place(S, InOrder(S)[i]) = i
         /\ \A w \in S : /\ Place(S, w) \in 1 .. Len(InOrder(S))
                       /\ InOrder(S)[Place(S, w)] = w
         /\ \A v, w \in S : v < w => Place(S, v) < Place(S, w)
  <1> DEFINE below == [w \in S |-> {u \in S : u < w}]
             list == Sorted(S, below)
  <1>1. IsFiniteSet(S) /\ S \subseteq Int
    BY WindowsFinite, WindowsAreIntegers, FS_Subset
  <1>2. Ordering(S, below)
    <2>1. \A w \in S : below[w] = {u \in S : u < w}
      OBVIOUS
    <2>2. below \in [S -> SUBSET S]
      OBVIOUS
    <2> HIDE DEF below
    <2>3. \A w \in S : w \notin below[w]
      BY <1>1, <2>1
    <2>4. ASSUME NEW v \in S, NEW w \in S, v \in below[w]
          PROVE  below[v] \subseteq below[w]
      <3>1. v < w /\ v \in Int /\ w \in Int
        BY <1>1, <2>1, <2>4
      <3>2. \A u \in S : u < v => u < w
        BY <1>1, <3>1
      <3>3. QED
        BY <2>1, <3>2
    <2>5. \A v, w \in S : v # w => v \in below[w] \/ w \in below[v]
      BY <1>1, <2>1
    <2>6. QED
      BY <1>1, <2>2, <2>3, <2>4, <2>5 DEF Ordering
  <1>3. \A w \in S : Rank(below, w) = Cardinality({u \in S : u < w})
    BY DEF Rank
  <1>4. InOrder(S) = list
    BY DEF InOrder
  <1>5. \A v, w \in S : v \in below[w] <=> v < w
    OBVIOUS
  <1> HIDE DEF below, list
  <1>6. /\ list \in Seq(S) /\ Len(list) = Cardinality(S)
        /\ \A i \in 1 .. Cardinality(S) : Rank(below, list[i]) = i - 1
        /\ \A w \in S : Rank(below, w) + 1 \in 1 .. Cardinality(S)
                     /\ list[Rank(below, w) + 1] = w
    BY <1>2, SortedList DEF list
  <1>7. \A w \in S : Place(S, w) = Rank(below, w) + 1
    BY <1>3 DEF Place
  <1>8. ASSUME NEW i \in 1 .. Len(list) PROVE Place(S, list[i]) = i
    <2>1. list[i] \in S
      BY <1>6, ElementOfSeq
    <2>2. Rank(below, list[i]) = i - 1
      BY <1>6
    <2>3. QED
      BY <1>7, <2>1, <2>2
  <1>9. ASSUME NEW v \in S, NEW w \in S, v < w PROVE Place(S, v) < Place(S, w)
    <2>1. v \in below[w]
      BY <1>5, <1>9
    <2>2. Rank(below, v) \in Nat /\ Rank(below, w) \in Nat /\ Rank(below, v) < Rank(below, w)
      BY <1>2, <2>1, RanksGrow
    <2>3. QED
      BY <1>7, <2>2
  <1>10. QED
    BY <1>4, <1>6, <1>7, <1>8, <1>9

\* The readings of a list.
LEMMA SeriesType ==
  ASSUME NEW m, NEW list \in Seq(Windows), NEW metric, NEW S,
         \A w \in Windows : Reading(m[w][metric]) \in S
  PROVE  Series(m, list, metric) \in Seq(S) /\ Len(Series(m, list, metric)) = Len(list)
  <1>1. DOMAIN list = 1 .. Len(list) /\ Len(list) \in Nat
    BY LenProperties
  <1>2. Series(m, list, metric) = [i \in 1 .. Len(list) |-> Reading(m[list[i]][metric])]
    BY <1>1 DEF Series
  <1>3. \A i \in 1 .. Len(list) : Reading(m[list[i]][metric]) \in S
    BY ElementOfSeq
  <1>4. Series(m, list, metric) \in [1 .. Len(list) -> S]
    BY <1>2, <1>3
  <1>5. QED
    BY <1>1, <1>4, ListOf

\* In a list of any length, the score of a window is that of the list cut off
\* behind it and BaselineWindows before it: for every choice of the parameters in
\* which growth and change fit in the baseline, as they do by default.
THEOREM ScoresAreLocal ==
  ASSUME LocalParameters
  PROVE  Spec => []ScoreIsLocal
  <1>1. ScoreIsLocal
    <2> DEFINE listed == {w \in Windows : HasSnapshot(metrics[w])}
               list == InOrder(listed)
               posts == Series(metrics, list, "posts")
               users == Series(metrics, list, "users")
               subs == Series(metrics, list, "subs")
               S == {Reading(metrics[w].posts) : w \in Windows}
                       \cup {Reading(metrics[w].users) : w \in Windows}
                       \cup {Reading(metrics[w].subs) : w \in Windows}
    <2>1. list \in Seq(Windows)
      <3>1. listed \in SUBSET Windows
        OBVIOUS
      <3> HIDE DEF listed
      <3>2. list \in Seq(listed)
        BY <3>1, InOrderType
      <3>3. QED
        BY <3>1, <3>2, SeqMonotonic
    <2> HIDE DEF list
    <2>2. \A w \in Windows : /\ Reading(metrics[w]["posts"]) \in S
                             /\ Reading(metrics[w]["users"]) \in S
                             /\ Reading(metrics[w]["subs"]) \in S
      OBVIOUS
    <2> HIDE DEF S
    <2>3. /\ posts \in Seq(S) /\ Len(posts) = Len(list)
          /\ users \in Seq(S) /\ Len(users) = Len(list)
          /\ subs \in Seq(S) /\ Len(subs) = Len(list)
      BY <2>1, <2>2, SeriesType
    <2>4. DOMAIN list = 1 .. Len(list)
      BY <2>1, LenProperties
    <2> HIDE DEF posts, users, subs
    <2>5. \A i \in DOMAIN list :
             Score(posts, users, subs, i) =
             Score(Near(posts, i), Near(users, i), Near(subs, i), Len(Near(posts, i)))
      BY <2>3, <2>4, LocalScore
    <2>6. QED
      BY <2>5 DEF ScoreIsLocal, Near, posts, users, subs, list
  <1>2. QED
    BY <1>1, PTL

-----------------------------------------------------------------------------
(* The movers on the board.                                                *)

\* What the table of rows holds: rows of windows, with whole deltas.
RowsTyped ==
    /\ DOMAIN rows \subseteq Windows
    /\ \A w \in DOMAIN rows : rows[w].delta \in Int

\* The invariant: the clock and the snapshots that a build reads are in their
\* ranges, and so are the rows it has written.
BoardInv ==
    /\ clock \in Time
    /\ metrics \in [Windows -> Readings]
    /\ RowsTyped

\* The comparison of the movers is an order.
LEMMA MovesOrder ==
  ASSUME RowsTyped
  PROVE  Ordering(DOMAIN rows, [w \in DOMAIN rows |-> {u \in DOMAIN rows : MovesMore(u, w)}])
  <1> DEFINE S == DOMAIN rows
             size == [w \in S |-> Abs(rows[w].delta)]
             below == [w \in S |-> {u \in S : MovesMore(u, w)}]
  <1>1. IsFiniteSet(S) /\ S \subseteq Int
    BY WindowsFinite, WindowsAreIntegers, FS_Subset DEF RowsTyped
  <1>2. size \in [S -> Nat]
    <2>1. \A d \in Int : Abs(d) \in Nat
      BY DEF Abs
    <2>2. QED
      BY <2>1 DEF RowsTyped
  <1>3. \A u, w \in S : MovesMore(u, w) <=> size[u] > size[w] \/ (size[u] = size[w] /\ u > w)
    BY DEF MovesMore
  <1>4. \A w \in S : below[w] = {u \in S : size[u] > size[w] \/ (size[u] = size[w] /\ u > w)}
    BY <1>3
  <1>5. below \in [S -> SUBSET S]
    OBVIOUS
  <1> HIDE DEF S, size, below
  <1>6. \A w \in S : w \notin below[w]
    BY <1>1, <1>2, <1>4
  <1>7. ASSUME NEW v \in S, NEW w \in S, v \in below[w]
        PROVE  below[v] \subseteq below[w]
    <2> SUFFICES ASSUME NEW u \in below[v] PROVE u \in below[w]
      OBVIOUS
    <2>1. u \in S /\ (size[u] > size[v] \/ (size[u] = size[v] /\ u > v))
      BY <1>4
    <2>2. size[v] > size[w] \/ (size[v] = size[w] /\ v > w)
      BY <1>4, <1>7
    <2>3. u \in Int /\ v \in Int /\ w \in Int
      BY <1>1, <2>1
    <2>4. size[u] \in Nat /\ size[v] \in Nat /\ size[w] \in Nat
      BY <1>2, <2>1
    <2>5. size[u] > size[w] \/ (size[u] = size[w] /\ u > w)
      BY <2>1, <2>2, <2>3, <2>4
    <2>6. QED
      BY <1>4, <2>1, <2>5
  <1>8. ASSUME NEW v \in S, NEW w \in S, v # w
        PROVE  v \in below[w] \/ w \in below[v]
    <2>1. v \in Int /\ w \in Int /\ size[v] \in Nat /\ size[w] \in Nat
      BY <1>1, <1>2
    <2>2. \/ size[v] > size[w] \/ (size[v] = size[w] /\ v > w)
          \/ size[w] > size[v] \/ (size[w] = size[v] /\ w > v)
      BY <1>8, <2>1
    <2>3. QED
      BY <1>4, <2>2
  <1>9. Ordering(S, below)
    BY <1>1, <1>5, <1>6, <1>7, <1>8 DEF Ordering
  <1>10. QED
    BY <1>9 DEF S, below

\* So the first of a sorted table are those that no other outdoes.
LEMMA TypedMovers ==
  ASSUME RowsTyped
  PROVE  MoversAreTop
  <1> DEFINE S == DOMAIN rows
             below == [w \in S |-> {u \in S : MovesMore(u, w)}]
             n == Cardinality(S)
             k == Smaller(MoverLimit, n)
             list == Sorted(S, below)
             top == SubSeq(list, 1, k)
             shown == {top[i] : i \in DOMAIN top}
  <1>1. Ordering(S, below)
    BY MovesOrder
  <1>2. /\ list \in Seq(S) /\ Len(list) = n
        /\ \A i \in 1 .. n : Rank(below, list[i]) = i - 1
        /\ \A w \in S : Rank(below, w) + 1 \in 1 .. n /\ list[Rank(below, w) + 1] = w
    <2> HIDE DEF S, below
    <2>1. QED
      BY <1>1, SortedList
  <1>3. n \in Nat
    BY <1>1, RanksOf
  <1>4. TopMovers = top
    BY <1>2 DEF TopMovers
  <1>5. k \in Nat /\ k <= n
    BY <1>3, BoardAssumption DEF Smaller
  <1>6. \A v, w \in S : v \in below[w] <=> MovesMore(v, w)
    OBVIOUS
  <1> HIDE DEF S, below, n, k, list
  <1>7. /\ top \in Seq(S) /\ Len(top) = k
        /\ \A i \in 1 .. k : top[i] = list[i]
    <2>1. \A i \in 1 .. k : list[i] \in S
      BY <1>2, <1>3, <1>5, ElementOfSeq
    <2>2. QED
      BY <1>3, <1>5, <2>1, SubSeqProperties
  <1>8. DOMAIN top = 1 .. k
    BY <1>7, LenProperties
  <1> HIDE DEF top
  <1>9. shown = {list[i] : i \in 1 .. k}
    BY <1>7, <1>8
  <1>10. \A w \in S : w \in shown <=> Rank(below, w) < k
    <2> SUFFICES ASSUME NEW w \in S PROVE w \in shown <=> Rank(below, w) < k
      OBVIOUS
    <2>1. Rank(below, w) + 1 \in 1 .. n /\ list[Rank(below, w) + 1] = w
      BY <1>2
    <2>2. Rank(below, w) \in Nat
      <3>1. Rank(below, w) \in 0 .. Cardinality(S) - 1
        BY <1>1, RanksOf
      <3>2. QED
        BY <3>1
    <2>3. ASSUME w \in shown PROVE Rank(below, w) < k
      <3>1. PICK i \in 1 .. k : w = list[i]
        BY <1>9, <2>3
      <3>2. Rank(below, w) = i - 1
        BY <1>2, <1>3, <1>5, <3>1
      <3>3. QED
        BY <1>5, <3>2
    <2>4. ASSUME Rank(below, w) < k PROVE w \in shown
      <3>1. Rank(below, w) + 1 \in 1 .. k
        BY <1>5, <2>2, <2>4
      <3>2. QED
        BY <1>9, <2>1, <3>1
    <2>5. QED
      BY <2>3, <2>4
  <1>11. shown \subseteq S
    BY <1>2, <1>3, <1>5, <1>9, ElementOfSeq
  <1> HIDE DEF shown
  <1>12. Cardinality(shown) = k
    <2> DEFINE place == [i \in 1 .. k |-> list[i]]
    <2>1. \A i, j \in 1 .. k : list[i] = list[j] => i = j
      <3> SUFFICES ASSUME NEW i \in 1 .. k, NEW j \in 1 .. k, list[i] = list[j]
                   PROVE  i = j
        OBVIOUS
      <3>1. Rank(below, list[i]) = i - 1 /\ Rank(below, list[j]) = j - 1
        BY <1>2, <1>3, <1>5
      <3>2. QED
        BY <3>1
    <2>2. place \in Bijection(1 .. k, shown)
      <3>1. place \in [1 .. k -> shown]
        BY <1>9
      <3>2. \A i, j \in 1 .. k : place[i] = place[j] => i = j
        BY <2>1
      <3>3. \A w \in shown : \E i \in 1 .. k : place[i] = w
        BY <1>9
      <3> HIDE DEF place
      <3>4. QED
        BY <3>1, <3>2, <3>3 DEF Bijection, Injection, Surjection, IsInjective
    <2>3. IsFiniteSet(1 .. k) /\ Cardinality(1 .. k) = k
      BY <1>5, FS_Interval
    <2>4. ExistsBijection(1 .. k, shown)
      BY <2>2 DEF ExistsBijection
    <2>5. QED
      BY <2>3, <2>4, FS_Bijection
  <1>13. \A v \in shown, w \in S \ shown : Abs(rows[w].delta) <= Abs(rows[v].delta)
    <2> SUFFICES ASSUME NEW v \in shown, NEW w \in S \ shown
                 PROVE  Abs(rows[w].delta) <= Abs(rows[v].delta)
      OBVIOUS
    <2>1. v \in S /\ v # w
      BY <1>11
    <2>2. w \notin below[v]
      <3> SUFFICES ASSUME w \in below[v] PROVE FALSE
        OBVIOUS
      <3>1. Rank(below, w) \in Nat /\ Rank(below, v) \in Nat /\ Rank(below, w) < Rank(below, v)
        BY <1>1, <2>1, RanksGrow
      <3>2. Rank(below, v) < k /\ ~(Rank(below, w) < k)
        BY <1>10, <2>1
      <3>3. QED
        BY <1>5, <3>1, <3>2
    <2>3. v \in below[w]
      BY <1>1, <2>1, <2>2 DEF Ordering
    <2>4. MovesMore(v, w)
      BY <1>6, <2>1, <2>3
    <2>5. Abs(rows[v].delta) \in Int /\ Abs(rows[w].delta) \in Int
      BY <2>1 DEF RowsTyped, Abs, S
    <2>6. QED
      BY <2>4, <2>5 DEF MovesMore
  <1>14. QED
    BY <1>4, <1>12, <1>13 DEF MoversAreTop, S, shown, k, n

\* The rows of a build have whole deltas.
LEMMA RowsOfTyped ==
  ASSUME NEW m \in [Windows -> Readings], NEW list \in Seq(Windows)
  PROVE  /\ DOMAIN RowsOf(m, list) \subseteq Windows
         /\ \A w \in DOMAIN RowsOf(m, list) : RowsOf(m, list)[w].delta \in Int
  <1> DEFINE posts == Series(m, list, "posts")
             listed == {list[i] : i \in DOMAIN list}
             built == RowsOf(m, list)
  <1>1. posts \in Seq(Nat) /\ Len(posts) = Len(list)
    <2>1. \A w \in Windows : Reading(m[w]["posts"]) \in Nat
      BY DEF Readings, Optional, Reading
    <2>2. QED
      BY <2>1, SeriesType
  <1>2. DOMAIN list = 1 .. Len(list) /\ Len(list) \in Nat
    BY LenProperties
  <1>3. DOMAIN built = listed
    BY DEF RowsOf
  <1>4. listed \subseteq Windows
    BY <1>2, ElementOfSeq
  <1>5. ASSUME NEW w \in listed PROVE built[w].delta \in Int
    <2> DEFINE i == CHOOSE i \in DOMAIN list : list[i] = w
    <2>1. built[w].delta = posts[i] - (IF i = 1 THEN 0 ELSE posts[i - 1])
      BY DEF RowsOf
    <2>2. i \in 1 .. Len(posts)
      BY <1>1, <1>2
    <2> HIDE DEF i, posts
    <2>3. posts[i] \in Nat
      BY <1>1, <2>2, ElementOfSeq
    <2>4. i # 1 => posts[i - 1] \in Nat
      <3> SUFFICES ASSUME i # 1 PROVE posts[i - 1] \in Nat
        OBVIOUS
      <3>1. i - 1 \in 1 .. Len(posts)
        BY <1>1, <2>2
      <3>2. QED
        BY <1>1, <3>1, ElementOfSeq
    <2>5. QED
      BY <2>1, <2>3, <2>4
  <1>6. QED
    BY <1>3, <1>4, <1>5

\* Initially there are no rows.
LEMMA InitBoardInv == Init => BoardInv
  <1> SUFFICES ASSUME Init PROVE BoardInv
    OBVIOUS
  <1>1. clock \in Time
    BY WindowingAssumption DEF Init, Time
  <1>2. RowsTyped
    BY DEF Init, RowsTyped
  <1>3. Nothing \in Readings
    BY DEF Nothing, Readings, Optional
  <1>4. QED
    BY <1>1, <1>2, <1>3 DEF Init, BoardInv

\* The invariant holds initially, and every cycle keeps it.
THEOREM BoardInvariance == Spec => []BoardInv
  <1>1. Init => BoardInv
    BY InitBoardInv
  <1>2. BoardInv /\ [Next]_vars => BoardInv'
    <2> SUFFICES ASSUME BoardInv, [Next]_vars PROVE BoardInv'
      OBVIOUS
    <2>1. ASSUME NEW c \in Collectable PROVE Collected(c) \in [Windows -> Readings]
      <3>1. c \in Readings /\ metrics \in [Windows -> Readings]
        BY BoardAssumption DEF BoardInv
      <3>2. \A m \in Readings :
               [ posts |-> FirstValue(m.posts, c.posts),
                 users |-> FirstValue(m.users, c.users),
                 subs  |-> FirstValue(m.subs, c.subs) ] \in Readings
        BY <3>1 DEF Readings, FirstValue
      <3>3. QED
        BY <3>1, <3>2 DEF Collected
    <2>2. NextCycle => clock' \in Time
      BY WindowingAssumption DEF BoardInv, NextCycle, Time
    <2>3. ASSUME NEW c \in Collectable, CycleBuilds(c)
          PROVE  BoardInv'
      <3> DEFINE list == Listed(Collected(c), clock)
                 built == RowsOf(Collected(c), list)
      <3>1. list \in Seq(Windows)
        <4> DEFINE S == {w \in Windows : /\ clock - Lookback <= w /\ w <= clock
                                         /\ HasSnapshot(Collected(c)[w])}
        <4>1. S \in SUBSET Windows /\ list = InOrder(S)
          BY DEF Listed
        <4> HIDE DEF S, list
        <4>2. list \in Seq(S)
          BY <4>1, InOrderType
        <4>3. QED
          BY <4>1, <4>2, SeqMonotonic
      <3> HIDE DEF list
      <3>2. /\ DOMAIN built \subseteq Windows
            /\ \A w \in DOMAIN built : built[w].delta \in Int
        BY <2>1, <3>1, RowsOfTyped
      <3>3. rows' = Upsert(built)
        BY <2>3 DEF CycleBuilds, Built, list
      <3> HIDE DEF built
      <3>4. RowsTyped'
        BY <3>2, <3>3 DEF BoardInv, RowsTyped, Upsert
      <3>5. metrics' = Collected(c)
        BY <2>3 DEF CycleBuilds
      <3>6. QED
        BY <2>1, <2>2, <2>3, <3>4, <3>5 DEF BoardInv, CycleBuilds
    <2>4. ASSUME NEW c \in Collectable, CycleBreaks(c)
          PROVE  BoardInv'
      <3>1. RowsTyped'
        BY <2>4 DEF BoardInv, RowsTyped, CycleBreaks
      <3>2. QED
        BY <2>1, <2>2, <2>4, <3>1 DEF BoardInv, CycleBreaks
    <2>5. CASE UNCHANGED vars
      BY <2>5 DEF BoardInv, RowsTyped, vars
    <2>6. QED
      BY <2>3, <2>4, <2>5 DEF Next
  <1>3. QED
    BY <1>1, <1>2, PTL DEF Spec

\* Whatever builds and outages have left in the table, the board shows as many
\* rows as it has room for, and no row it leaves out has a larger delta.
THEOREM MoversAreLargest == Spec => []MoversAreTop
  <1>1. BoardInv => MoversAreTop
    BY TypedMovers DEF BoardInv
  <1>2. QED
    BY <1>1, BoardInvariance, PTL

-----------------------------------------------------------------------------
(* Rescoring.                                                              *)

\* A window that a build lists has its row from its place in the list.
LEMMA RowAtPlace ==
  ASSUME NEW m, NEW S \in SUBSET Windows, NEW w \in S
  PROVE  LET list  == InOrder(S)
             posts == Series(m, list, "posts")
             users == Series(m, list, "users")
             subs  == Series(m, list, "subs")
             i     == Place(S, w)
         IN  RowsOf(m, list)[w] =
             [ newPosts |-> posts[i],
               delta    |-> posts[i] - (IF i = 1 THEN 0 ELSE posts[i - 1]),
               complete |-> m[w].posts # Missing /\ m[w].users # Missing,
               score    |-> Score(posts, users, subs, i) ]
  <1> DEFINE list == InOrder(S)
             i == Place(S, w)
  <1>1. list \in Seq(S) /\ DOMAIN list = 1 .. Len(list)
    BY InOrderType, LenProperties
  <1>2. i \in DOMAIN list /\ list[i] = w
    BY <1>1, InOrderType
  <1>3. \A j \in DOMAIN list : list[j] = w => j = i
    BY <1>1, InOrderType
  <1> HIDE DEF list, i
  <1>4. (CHOOSE j \in DOMAIN list : list[j] = w) = i
    BY <1>2, <1>3
  <1>5. w \in {list[j] : j \in DOMAIN list}
    BY <1>2
  <1>6. QED
    BY <1>4, <1>5 DEF RowsOf, list, i

\* How many windows of S lie in front of cut.
Gone(S, cut) == Cardinality({u \in S : u < cut})

\* What a later build lists up to w is the end of what an earlier one listed up
\* to w: the windows in front of cut are gone, and all places are so much smaller.
LEMMA LaterList ==
  ASSUME NEW S1 \in SUBSET Windows, NEW S2 \in SUBSET Windows, NEW cut \in Int,
         NEW w \in S2,
         \A u \in Windows : u <= w => (u \in S2 <=> u \in S1 /\ cut <= u)
  PROVE  /\ Gone(S1, cut) \in Nat
         /\ \A u \in S2 : u <= w => u \in S1 /\ Place(S1, u) = Place(S2, u) + Gone(S1, cut)
  <1> DEFINE gone == {u \in S1 : u < cut}
  <1>1. /\ IsFiniteSet(S1) /\ IsFiniteSet(S2) /\ IsFiniteSet(gone)
        /\ S1 \subseteq Int /\ S2 \subseteq Int
    BY WindowsFinite, WindowsAreIntegers, FS_Subset
  <1>2. Cardinality(gone) \in Nat
    BY <1>1, FS_CardinalityType
  <1>3. ASSUME NEW u \in S2, u <= w
        PROVE  u \in S1 /\ Place(S1, u) = Place(S2, u) + Cardinality(gone)
    <2> DEFINE before1 == {v \in S1 : v < u}
               before2 == {v \in S2 : v < u}
    <2>1. u \in S1 /\ cut <= u
      BY <1>3
    <2>2. before1 = gone \cup before2 /\ gone \cap before2 = {}
      <3>1. \A v \in S1 : v < u => (v < cut \/ v \in S2)
        BY <1>1, <1>3
      <3>2. \A v \in S1 : v < cut => v < u
        BY <1>1, <2>1
      <3>3. \A v \in S2 : v < u => v \in S1 /\ ~(v < cut)
        BY <1>1, <1>3
      <3>4. QED
        BY <3>1, <3>2, <3>3
    <2>3. IsFiniteSet(before2)
      BY <1>1, FS_Subset
    <2>4. Cardinality(before2) \in Nat
      BY <2>3, FS_CardinalityType
    <2> HIDE DEF gone, before1, before2
    <2>5. Cardinality(gone \cup before2) = Cardinality(gone) + Cardinality(before2) - 0
      BY <1>1, <2>2, <2>3, FS_Union, FS_EmptySet
    <2>6. Place(S1, u) = Cardinality(before1) + 1 /\ Place(S2, u) = Cardinality(before2) + 1
      BY DEF Place, before1, before2
    <2>7. QED
      BY <1>2, <2>1, <2>2, <2>4, <2>5, <2>6
  <1>4. QED
    BY <1>2, <1>3 DEF Gone

\* Two lists that end alike have the same cut list, if nothing is missing or what
\* is missing lies further back than the baseline.
LEMMA NearOfEnd ==
  ASSUME NEW S, NEW s \in Seq(S), NEW t \in Seq(S), NEW d \in Nat,
         NEW i \in 1 .. Len(t), i + d \in 1 .. Len(s),
         \A j \in 1 .. i : s[j + d] = t[j],
         d = 0 \/ i > BaselineWindows
  PROVE  Near(s, i + d) = Near(t, i)
  <1> DEFINE k == Smaller(i, BaselineWindows + 1)
  <1>1. k \in 1 .. i /\ Smaller(i + d, BaselineWindows + 1) = k
    BY ScoringAssumption DEF Smaller
  <1>2. /\ Near(t, i) \in Seq(S) /\ Len(Near(t, i)) = k
        /\ \A j \in 1 .. k : Near(t, i)[j] = t[i - k + j]
    BY NearIs
  <1>3. /\ Near(s, i + d) \in Seq(S) /\ Len(Near(s, i + d)) = k
        /\ \A j \in 1 .. k : Near(s, i + d)[j] = s[i + d - k + j]
    <2> DEFINE e == i + d
    <2> HIDE DEF e
    <2>1. e \in 1 .. Len(s) /\ Smaller(e, BaselineWindows + 1) = k
      BY <1>1 DEF e
    <2> HIDE DEF k
    <2>2. /\ Near(s, e) \in Seq(S) /\ Len(Near(s, e)) = k
          /\ \A j \in 1 .. k : Near(s, e)[j] = s[e - k + j]
      BY <2>1, NearIs
    <2>3. QED
      BY <2>2 DEF e
  <1> HIDE DEF k
  <1>4. ASSUME NEW j \in 1 .. k PROVE s[i + d - k + j] = t[i - k + j]
    <2>1. i - k + j \in 1 .. i /\ (i - k + j) + d = i + d - k + j
      BY <1>1
    <2>2. QED
      BY <2>1
  <1>5. \A j \in 1 .. Len(Near(t, i)) : Near(s, i + d)[j] = Near(t, i)[j]
    BY <1>2, <1>3, <1>4
  <1>6. QED
    BY <1>2, <1>3, <1>5, SeqEqual

\* So a later build either has fewer samples for a window or makes the same row.
LEMMA RescoredRow ==
  ASSUME LocalParameters, NEW m, NEW t1 \in Int, NEW t2 \in Int, t1 <= t2,
         NEW w, w \in DOMAIN Built(m, t1), w \in DOMAIN Built(m, t2)
  PROVE  \/ Built(m, t2)[w] = Built(m, t1)[w]
         \/ Built(m, t2)[w].score.sampleCount < Built(m, t1)[w].score.sampleCount
  <1> DEFINE InRange(t) == {u \in Windows : t - Lookback <= u /\ u <= t /\ HasSnapshot(m[u])}
             S1 == InRange(t1)
             S2 == InRange(t2)
             list1 == InOrder(S1)
             list2 == InOrder(S2)
             posts1 == Series(m, list1, "posts")
             posts2 == Series(m, list2, "posts")
             users1 == Series(m, list1, "users")
             users2 == Series(m, list2, "users")
             subs1 == Series(m, list1, "subs")
             subs2 == Series(m, list2, "subs")
             i1 == Place(S1, w)
             i2 == Place(S2, w)
             cut == t2 - Lookback
             d == Gone(S1, cut)
             R == {Reading(m[u].posts) : u \in Windows}
                     \cup {Reading(m[u].users) : u \in Windows}
                     \cup {Reading(m[u].subs) : u \in Windows}
  <1>1. S1 \in SUBSET Windows /\ S2 \in SUBSET Windows /\ Windows \subseteq Int
    BY WindowsAreIntegers
  <1>2. Built(m, t1) = RowsOf(m, list1) /\ Built(m, t2) = RowsOf(m, list2)
    BY DEF Built, Listed
  <1>3. \A u \in Windows : u <= w => (u \in S2 <=> u \in S1 /\ cut <= u)
    <2> SUFFICES ASSUME NEW u \in Windows, u <= w, w \in S1
                 PROVE  u \in S2 <=> u \in S1 /\ cut <= u
      <3>1. w \in S1
        <4>1. w \in {list1[j] : j \in DOMAIN list1}
          BY <1>2 DEF RowsOf
        <4> HIDE DEF S1
        <4>2. list1 \in Seq(S1)
          BY <1>1, InOrderType
        <4>3. QED
          BY <4>1, <4>2, ElementOfSeq, LenProperties
      <3>2. QED
        BY <3>1
    <2>1. u \in Int /\ w \in Int /\ w <= t1 /\ Lookback \in Nat
      BY <1>1, BoardAssumption
    <2>2. QED
      BY <2>1
  <1>4. cut \in Int
    BY BoardAssumption
  <1> HIDE DEF S1, S2, cut
  <1>5. list1 \in Seq(S1) /\ list2 \in Seq(S2)
    BY <1>1, InOrderType
  <1>6. w \in S1 /\ w \in S2
    <2>1. w \in {list1[j] : j \in DOMAIN list1} /\ w \in {list2[j] : j \in DOMAIN list2}
      BY <1>2 DEF RowsOf
    <2>2. QED
      BY <1>5, <2>1, ElementOfSeq, LenProperties
  <1>7. d \in Nat /\ \A u \in S2 : u <= w => u \in S1 /\ Place(S1, u) = Place(S2, u) + d
    BY <1>1, <1>3, <1>4, <1>6, LaterList
  <1>8. /\ i1 \in 1 .. Len(list1) /\ i2 \in 1 .. Len(list2) /\ i1 = i2 + d
    <2>1. w <= w
      BY <1>1, <1>6
    <2>2. QED
      BY <1>1, <1>6, <1>7, <2>1, InOrderType
  <1>9. ASSUME NEW j \in 1 .. i2 PROVE j + d \in 1 .. Len(list1) /\ list1[j + d] = list2[j]
    <2> DEFINE u == list2[j]
    <2>1. j \in 1 .. Len(list2)
      BY <1>8
    <2>2. u \in S2 /\ Place(S2, u) = j
      BY <1>1, <1>5, <2>1, ElementOfSeq, InOrderType
    <2>3. u <= w
      <3>1. \A v, x \in S2 : v < x => Place(S2, v) < Place(S2, x)
        BY <1>1, InOrderType
      <3> HIDE DEF u
      <3>2. w < u => i2 < j
        BY <1>6, <2>2, <3>1
      <3>3. ~(w < u)
        BY <1>8, <3>2
      <3>4. u \in Int /\ w \in Int
        BY <1>1, <1>6, <2>2
      <3>5. QED
        BY <3>3, <3>4
    <2>4. u \in S1 /\ Place(S1, u) = j + d
      BY <1>7, <2>2, <2>3
    <2>5. QED
      BY <1>1, <2>4, InOrderType
  <1>10. list1 \in Seq(Windows) /\ list2 \in Seq(Windows)
    BY <1>1, <1>5, SeqMonotonic
  <1>11. /\ posts1 \in Seq(R) /\ Len(posts1) = Len(list1)
         /\ posts2 \in Seq(R) /\ Len(posts2) = Len(list2)
         /\ users1 \in Seq(R) /\ Len(users1) = Len(list1)
         /\ users2 \in Seq(R) /\ Len(users2) = Len(list2)
         /\ subs1 \in Seq(R) /\ Len(subs1) = Len(list1)
         /\ subs2 \in Seq(R) /\ Len(subs2) = Len(list2)
    <2> DEFINE Q == R
    <2> HIDE DEF list1, list2
    <2>1. \A u \in Windows : /\ Reading(m[u]["posts"]) \in Q
                             /\ Reading(m[u]["users"]) \in Q
                             /\ Reading(m[u]["subs"]) \in Q
      OBVIOUS
    <2> HIDE DEF Q
    <2>2. QED
      BY <1>10, <2>1, SeriesType
  <1>12. \A j \in 1 .. i2 : /\ posts1[j + d] = posts2[j]
                            /\ users1[j + d] = users2[j]
                            /\ subs1[j + d] = subs2[j]
    <2> SUFFICES ASSUME NEW j \in 1 .. i2
                 PROVE  /\ posts1[j + d] = posts2[j]
                        /\ users1[j + d] = users2[j]
                        /\ subs1[j + d] = subs2[j]
      OBVIOUS
    <2>1. j + d \in DOMAIN list1 /\ j \in DOMAIN list2 /\ list1[j + d] = list2[j]
      BY <1>8, <1>9, <1>10, LenProperties
    <2> HIDE DEF list1, list2
    <2>2. QED
      BY <2>1 DEF Series
  <1>13. /\ RowsOf(m, list1)[w] =
              [ newPosts |-> posts1[i1],
                delta    |-> posts1[i1] - (IF i1 = 1 THEN 0 ELSE posts1[i1 - 1]),
                complete |-> m[w].posts # Missing /\ m[w].users # Missing,
                score    |-> Score(posts1, users1, subs1, i1) ]
         /\ RowsOf(m, list2)[w] =
              [ newPosts |-> posts2[i2],
                delta    |-> posts2[i2] - (IF i2 = 1 THEN 0 ELSE posts2[i2 - 1]),
                complete |-> m[w].posts # Missing /\ m[w].users # Missing,
                score    |-> Score(posts2, users2, subs2, i2) ]
    BY <1>1, <1>6, RowAtPlace
  <1> HIDE DEF list1, list2, posts1, posts2, users1, users2, subs1, subs2, i1, i2, d, R
  <1>14. i1 \in Nat /\ i2 \in Nat /\ i1 = i2 + d /\ i1 >= 1 /\ i2 >= 1
    BY <1>7, <1>8
  <1>15. CASE d = 0 \/ i2 > BaselineWindows
    <2>1. /\ Near(posts1, i1) = Near(posts2, i2)
          /\ Near(users1, i1) = Near(users2, i2)
          /\ Near(subs1, i1) = Near(subs2, i2)
      <3>1. Near(posts1, i1) = Near(posts2, i2)
        BY <1>7, <1>8, <1>11, <1>12, <1>15, NearOfEnd
      <3>2. Near(users1, i1) = Near(users2, i2)
        BY <1>7, <1>8, <1>11, <1>12, <1>15, NearOfEnd
      <3>3. Near(subs1, i1) = Near(subs2, i2)
        BY <1>7, <1>8, <1>11, <1>12, <1>15, NearOfEnd
      <3>4. QED
        BY <3>1, <3>2, <3>3
    <2>2. /\ Score(posts1, users1, subs1, i1) =
             Score(Near(posts1, i1), Near(users1, i1), Near(subs1, i1), Len(Near(posts1, i1)))
          /\ Score(posts2, users2, subs2, i2) =
             Score(Near(posts2, i2), Near(users2, i2), Near(subs2, i2), Len(Near(posts2, i2)))
      BY <1>8, <1>11, LocalScore
    <2>3. posts1[i1] = posts2[i2]
      BY <1>12, <1>14
    <2>4. (i1 = 1 <=> i2 = 1) /\ (i2 # 1 => posts1[i1 - 1] = posts2[i2 - 1])
      <3>1. i1 = 1 <=> i2 = 1
        BY <1>7, <1>14, <1>15, ScoringAssumption
      <3>2. ASSUME i2 # 1 PROVE posts1[i1 - 1] = posts2[i2 - 1]
        <4>1. i2 - 1 \in 1 .. i2 /\ (i2 - 1) + d = i1 - 1
          BY <1>7, <1>14, <3>2
        <4>2. QED
          BY <1>12, <4>1
      <3>3. QED
        BY <3>1, <3>2
    <2>5. RowsOf(m, list2)[w] = RowsOf(m, list1)[w]
      BY <1>13, <2>1, <2>2, <2>3, <2>4
    <2>6. QED
      BY <1>2, <2>5
  <1>16. CASE d # 0 /\ i2 <= BaselineWindows
    <2>1. /\ RowsOf(m, list1)[w].score.sampleCount = Smaller(i1 - 1, BaselineWindows)
          /\ RowsOf(m, list2)[w].score.sampleCount = Smaller(i2 - 1, BaselineWindows)
      BY <1>13 DEF Score
    <2>2. Smaller(i2 - 1, BaselineWindows) < Smaller(i1 - 1, BaselineWindows)
      BY <1>7, <1>14, <1>16, ScoringAssumption DEF Smaller
    <2>3. QED
      BY <1>2, <2>1, <2>2
  <1>17. QED
    BY <1>14, <1>15, <1>16, ScoringAssumption

\* No build changes a row that the metrics explain but by forgetting, for every
\* choice of the parameters in which growth and change fit in the baseline.
THEOREM RescoringOnlyForgets ==
  ASSUME LocalParameters
  PROVE  Spec => RescoringForgets
  <1> DEFINE Forgets == \A w \in DOMAIN rows :
               \/ rows'[w] = rows[w]
               \/ rows'[w].score.sampleCount < rows[w].score.sampleCount
               \/ ~Explained(w, metrics')
  <1>1. BoardInv /\ [Next]_vars => [Forgets]_vars
    <2> SUFFICES ASSUME BoardInv, Next, NEW w \in DOMAIN rows, Explained(w, metrics')
                 PROVE  \/ rows'[w] = rows[w]
                        \/ rows'[w].score.sampleCount < rows[w].score.sampleCount
      OBVIOUS
    <2>1. PICK t \in 0 .. clock : w \in DOMAIN Built(metrics', t) /\ rows[w] = Built(metrics', t)[w]
      BY DEF Explained
    <2>2. clock \in Int
      BY WindowingAssumption DEF BoardInv, Time
    <2>3. ASSUME NEW c, CycleBuilds(c)
          PROVE  \/ rows'[w] = rows[w]
                 \/ rows'[w].score.sampleCount < rows[w].score.sampleCount
      <3> DEFINE built == Built(metrics', clock)
      <3>1. rows' = Upsert(built)
        BY <2>3 DEF CycleBuilds
      <3>2. CASE w \in DOMAIN built
        <4>1. rows'[w] = built[w]
          BY <3>1, <3>2 DEF Upsert
        <4>2. t \in Int /\ t <= clock
          BY <2>2
        <4>3. \/ built[w] = Built(metrics', t)[w]
              \/ built[w].score.sampleCount < Built(metrics', t)[w].score.sampleCount
          BY <2>1, <2>2, <3>2, <4>2, RescoredRow
        <4>4. QED
          BY <2>1, <4>1, <4>3
      <3>3. CASE w \notin DOMAIN built
        BY <3>1, <3>3 DEF Upsert
      <3>4. QED
        BY <3>2, <3>3
    <2>4. ASSUME NEW c, CycleBreaks(c) PROVE rows'[w] = rows[w]
      BY <2>4 DEF CycleBreaks
    <2>5. QED
      BY <2>3, <2>4 DEF Next
  <1>2. QED
    BY <1>1, BoardInvariance, PTL DEF Spec, RescoringForgets

-----------------------------------------------------------------------------
(* Medians.                                                                *)

\* A list in ascending order: a rearrangement that never falls.
Rearranges(order, n) ==
    /\ order \in [1 .. n -> 1 .. n]
    /\ \A j, k \in 1 .. n : order[j] = order[k] => j = k
    /\ \A i \in 1 .. n : \E k \in 1 .. n : order[k] = i

Rises(t) == \A j, k \in 1 .. Len(t) : j <= k => t[j] <= t[k]

\* The comparison of a stable sort is an order.
LEMMA StableOrder ==
  ASSUME NEW n \in Nat, NEW s \in [1 .. n -> Int]
  PROVE  Ordering(1 .. n, [i \in 1 .. n |-> Precede(s, i)])
  <1> DEFINE S == 1 .. n
             below == [i \in S |-> Precede(s, i)]
  <1>1. IsFiniteSet(S) /\ S \subseteq Int
    BY FS_Interval
  <1>2. DOMAIN s = S
    OBVIOUS
  <1>3. \A i \in S : below[i] = {j \in S : s[j] < s[i] \/ (s[j] = s[i] /\ j < i)}
    BY <1>2 DEF Precede
  <1>4. below \in [S -> SUBSET S]
    BY <1>2 DEF Precede
  <1>5. s \in [S -> Int]
    OBVIOUS
  <1> HIDE DEF S, below
  <1>6. \A i \in S : i \notin below[i]
    BY <1>1, <1>3, <1>5
  <1>7. ASSUME NEW v \in S, NEW w \in S, v \in below[w]
        PROVE  below[v] \subseteq below[w]
    <2> SUFFICES ASSUME NEW u \in below[v] PROVE u \in below[w]
      OBVIOUS
    <2>1. u \in S /\ (s[u] < s[v] \/ (s[u] = s[v] /\ u < v))
      BY <1>3
    <2>2. s[v] < s[w] \/ (s[v] = s[w] /\ v < w)
      BY <1>3, <1>7
    <2>3. u \in Int /\ v \in Int /\ w \in Int
      BY <1>1, <2>1
    <2>4. s[u] \in Int /\ s[v] \in Int /\ s[w] \in Int
      BY <1>5, <2>1
    <2>5. s[u] < s[w] \/ (s[u] = s[w] /\ u < w)
      BY <2>1, <2>2, <2>3, <2>4
    <2>6. QED
      BY <1>3, <2>1, <2>5
  <1>8. ASSUME NEW v \in S, NEW w \in S, v # w
        PROVE  v \in below[w] \/ w \in below[v]
    <2>1. v \in Int /\ w \in Int /\ s[v] \in Int /\ s[w] \in Int
      BY <1>1, <1>5
    <2>2. \/ s[v] < s[w] \/ (s[v] = s[w] /\ v < w)
          \/ s[w] < s[v] \/ (s[w] = s[v] /\ w < v)
      BY <1>8, <2>1
    <2>3. QED
      BY <1>3, <2>2
  <1>9. Ordering(S, below)
    BY <1>1, <1>4, <1>6, <1>7, <1>8 DEF Ordering
  <1>10. QED
    BY <1>9 DEF S, below

\* A sorted list rises and is a rearrangement of the list.
LEMMA AscendingRises ==
  ASSUME NEW s \in Seq(Int)
  PROVE  /\ Ascending(s) \in Seq(Int) /\ Len(Ascending(s)) = Len(s)
         /\ Rises(Ascending(s))
         /\ \E order : /\ Rearranges(order, Len(s))
                       /\ \A k \in 1 .. Len(s) : Ascending(s)[k] = s[order[k]]
  <1> DEFINE n == Len(s)
             below == [i \in 1 .. n |-> Precede(s, i)]
             order == Sorted(1 .. n, below)
  <1>1. n \in Nat /\ s \in [1 .. n -> Int] /\ DOMAIN s = 1 .. n
    BY LenProperties, ElementOfSeq
  <1>2. Ascending(s) = [k \in 1 .. n |-> s[order[k]]]
    BY <1>1 DEF Ascending
  <1> HIDE DEF n
  <1>3. Cardinality(1 .. n) = n
    BY <1>1, FS_Interval
  <1>4. Ordering(1 .. n, below)
    BY <1>1, StableOrder
  <1>5. \A v, w \in 1 .. n :
           v \in below[w] <=> s[v] < s[w] \/ (s[v] = s[w] /\ v < w)
    BY <1>1 DEF Precede
  <1> HIDE DEF below
  <1>6. /\ order \in Seq(1 .. n) /\ Len(order) = n
        /\ \A k \in 1 .. n : Rank(below, order[k]) = k - 1
        /\ \A i \in 1 .. n : Rank(below, i) + 1 \in 1 .. n /\ order[Rank(below, i) + 1] = i
    BY <1>3, <1>4, SortedList
  <1> HIDE DEF order
  <1>7. order \in [1 .. n -> 1 .. n]
    BY <1>6, LenProperties, ElementOfSeq
  <1>8. Rearranges(order, n)
    <2>1. ASSUME NEW j \in 1 .. n, NEW k \in 1 .. n, order[j] = order[k] PROVE j = k
      <3>1. Rank(below, order[j]) = j - 1 /\ Rank(below, order[k]) = k - 1
        BY <1>6
      <3>2. QED
        BY <2>1, <3>1
    <2>2. QED
      BY <1>6, <1>7, <2>1 DEF Rearranges
  <1> DEFINE t == Ascending(s)
  <1>9. t \in [1 .. n -> Int] /\ \A k \in 1 .. n : t[k] = s[order[k]]
    BY <1>1, <1>2, <1>7
  <1> HIDE DEF t
  <1>10. t \in Seq(Int) /\ Len(t) = n
    BY <1>1, <1>9, ListOf
  <1>11. ASSUME NEW j \in 1 .. n, NEW k \in 1 .. n, j <= k PROVE t[j] <= t[k]
    <2> DEFINE v == order[j]
               w == order[k]
    <2>1. v \in 1 .. n /\ w \in 1 .. n
      BY <1>7
    <2>2. Rank(below, v) = j - 1 /\ Rank(below, w) = k - 1
      BY <1>6
    <2> HIDE DEF v, w
    <2>3. w \in below[v] => Rank(below, w) < Rank(below, v)
      BY <1>4, <2>1, RanksGrow
    <2>4. w \notin below[v]
      BY <1>11, <2>2, <2>3
    <2>5. s[v] \in Int /\ s[w] \in Int
      BY <1>1, <2>1
    <2>6. s[v] <= s[w]
      BY <1>5, <2>1, <2>4, <2>5
    <2>7. QED
      BY <1>9, <2>6 DEF v, w
  <1>12. Rises(t)
    BY <1>10, <1>11 DEF Rises
  <1>13. QED
    BY <1>8, <1>9, <1>10, <1>12 DEF t, n

\* The two halves of a length, and the odd one in the middle.
LEMMA Halves ==
  ASSUME NEW n \in Nat
  PROVE  /\ n \div 2 \in Nat
         /\ n = IF n % 2 = 0 THEN 2 * (n \div 2) ELSE 2 * (n \div 2) + 1
  <1> DEFINE m == n \div 2
             r == n % 2
  <1>1. m \in Int
    OBVIOUS
  <1>2. r \in 0 .. 1
    OBVIOUS
  <1>3. n = 2 * m + r
    BY <1>1, <1>2
  <1> HIDE DEF m, r
  <1>4. m \in Nat /\ n = IF r = 0 THEN 2 * m ELSE 2 * m + 1
    BY <1>1, <1>2, <1>3
  <1>5. QED
    BY <1>4 DEF m, r

\* If the elements at the places a to b of a rearrangement are all in T, then T
\* has that many elements.
LEMMA ManyOf ==
  ASSUME NEW n \in Nat, NEW order, Rearranges(order, n), NEW T \in SUBSET (1 .. n),
         NEW a \in 1 .. n, NEW b \in 1 .. n, \A k \in a .. b : order[k] \in T
  PROVE  Cardinality(T) \in Nat /\ b - a + 1 <= Cardinality(T)
  <1> DEFINE f == [k \in a .. b |-> order[k]]
  <1>1. IsFiniteSet(T) /\ Cardinality(T) \in Nat
    <2>1. IsFiniteSet(1 .. n)
      BY FS_Interval
    <2>2. IsFiniteSet(T)
      BY <2>1, FS_Subset
    <2>3. QED
      BY <2>2, FS_CardinalityType
  <1>2. f \in [a .. b -> T]
    OBVIOUS
  <1>3. \A j, k \in a .. b : f[j] = f[k] => j = k
    <2>1. SUFFICES ASSUME NEW j \in a .. b, NEW k \in a .. b, order[j] = order[k]
                   PROVE  j = k
      OBVIOUS
    <2>2. j \in 1 .. n /\ k \in 1 .. n
      OBVIOUS
    <2>3. QED
      BY <2>1, <2>2 DEF Rearranges
  <1> HIDE DEF f
  <1>4. f \in Injection(a .. b, T)
    BY <1>2, <1>3 DEF Injection, IsInjective
  <1>5. Cardinality(a .. b) <= Cardinality(T)
    BY <1>1, <1>4, FS_Injection
  <1>6. Cardinality(a .. b) = IF a > b THEN 0 ELSE b - a + 1
    BY FS_Interval
  <1>7. QED
    BY <1>1, <1>5, <1>6

\* A typical value lies between the two middle elements, or is the middle one.
LEMMA TypicalIsMedian ==
  ASSUME NEW s \in Seq(Int), Len(s) > 0, NEW x \in Int, Typical(x, s)
  PROVE  LET t == Ascending(s)
             m == Len(s) \div 2
         IN  /\ t[m + 1] >= x
             /\ (IF Len(s) % 2 = 0 THEN t[m] ELSE t[m + 1]) <= x
  <1> DEFINE n == Len(s)
             t == Ascending(s)
             m == n \div 2
             below == {i \in 1 .. n : s[i] < x}
             above == {i \in 1 .. n : s[i] > x}
  <1>1. n \in Nat /\ DOMAIN s = 1 .. n /\ n > 0
    BY LenProperties
  <1>2. PICK order : Rearranges(order, n) /\ \A k \in 1 .. n : t[k] = s[order[k]]
    BY AscendingRises
  <1>3. t \in Seq(Int) /\ Len(t) = n /\ Rises(t)
    BY AscendingRises
  <1>4. 2 * Cardinality(below) <= n /\ 2 * Cardinality(above) <= n
    BY <1>1 DEF Typical
  <1>5. m \in Nat /\ n = (IF n % 2 = 0 THEN 2 * m ELSE 2 * m + 1)
    BY <1>1, Halves
  <1> HIDE DEF n, m, t
  <1>6. m + 1 \in 1 .. n
    BY <1>1, <1>5
  <1>7. \A k \in 1 .. n : order[k] \in 1 .. n /\ t[k] \in Int
    BY <1>2, <1>3, ElementOfSeq DEF Rearranges
  <1>8. t[m + 1] >= x
    <2> SUFFICES ASSUME t[m + 1] < x PROVE FALSE
      BY <1>6, <1>7
    <2>1. ASSUME NEW k \in 1 .. m + 1 PROVE order[k] \in below
      <3>1. k \in 1 .. n /\ k <= m + 1
        BY <1>1, <1>5, <1>6
      <3>2. t[k] <= t[m + 1]
        BY <1>3, <1>6, <3>1 DEF Rises
      <3>3. t[k] < x
        BY <1>6, <1>7, <3>1, <3>2
      <3>4. QED
        BY <1>2, <1>7, <3>1, <3>3
    <2> HIDE DEF below
    <2>2. below \in SUBSET (1 .. n)
      BY DEF below
    <2>3. 1 \in 1 .. n
      BY <1>1
    <2>4. Cardinality(below) \in Nat /\ (m + 1) - 1 + 1 <= Cardinality(below)
      BY <1>1, <1>2, <1>6, <2>1, <2>2, <2>3, ManyOf
    <2>5. QED
      BY <1>4, <1>5, <2>4
  <1>9. ASSUME NEW c \in 1 .. n, t[c] > x PROVE 2 * (n - c + 1) <= n
    <2>1. ASSUME NEW k \in c .. n PROVE order[k] \in above
      <3>1. k \in 1 .. n
        BY <1>1
      <3>2. t[c] <= t[k]
        BY <1>3, <3>1 DEF Rises
      <3>3. t[k] > x
        BY <1>7, <1>9, <3>1, <3>2
      <3>4. QED
        BY <1>2, <1>7, <3>1, <3>3
    <2> HIDE DEF above
    <2>2. above \in SUBSET (1 .. n)
      BY DEF above
    <2>3. n \in 1 .. n
      BY <1>1
    <2>4. Cardinality(above) \in Nat /\ n - c + 1 <= Cardinality(above)
      BY <1>1, <1>2, <2>1, <2>2, <2>3, ManyOf
    <2>5. QED
      BY <1>1, <1>4, <2>4
  <1>10. (IF n % 2 = 0 THEN t[m] ELSE t[m + 1]) <= x
    <2>1. CASE n % 2 = 0
      <3>1. m \in 1 .. n /\ n = 2 * m
        BY <1>1, <1>5, <2>1
      <3>2. ~ (t[m] > x)
        BY <1>9, <3>1
      <3>3. QED
        BY <1>7, <2>1, <3>1, <3>2
    <2>2. CASE n % 2 # 0
      <3>1. n = 2 * m + 1
        BY <1>5, <2>2
      <3>2. ~ (t[m + 1] > x)
        BY <1>5, <1>6, <1>9, <3>1
      <3>3. QED
        BY <1>6, <1>7, <2>2, <3>2
    <2>3. QED
      BY <2>1, <2>2
  <1>11. QED
    BY <1>8, <1>10 DEF n, m, t

\* The distances from the median.
Deviations(s) == [i \in DOMAIN s |-> Abs(2 * s[i] - Median2(s))]

\* An element outside the two middle ones, c and b, is at least as far from their
\* mean as they are apart.
LEMMA FarFromMiddle ==
  ASSUME NEW y \in Int, NEW x \in Int, NEW c \in Int, NEW b \in Int,
         c <= x, x <= b, y <= c \/ y >= b
  PROVE  Abs(2 * y - (c + b)) \in Nat /\ Abs(2 * y - (c + b)) >= b - c
  BY DEF Abs

\* The median of the distances is at least twice the distance of a typical value;
\* if it is 0, at least half of the elements are that value.
LEMMA TypicalDeviation ==
  ASSUME NEW s \in Seq(Int), Len(s) > 0, NEW x \in Int, Typical(x, s)
  PROVE  LET mad == Median2(Deviations(s))
         IN  /\ Median2(s) \in Int /\ mad \in Nat
             /\ 2 * Abs(2 * x - Median2(s)) <= mad
             /\ mad = 0 => 2 * Cardinality({i \in 1 .. Len(s) : s[i] # x}) <= Len(s)
  <1> DEFINE n == Len(s)
             m == n \div 2
             t == Ascending(s)
             c == IF n % 2 = 0 THEN t[m] ELSE t[m + 1]
             b == t[m + 1]
             d == Deviations(s)
             e == Ascending(d)
  <1>1. n \in Nat /\ DOMAIN s = 1 .. n /\ n > 0 /\ s \in [1 .. n -> Int]
    BY LenProperties, ElementOfSeq
  <1>2. m \in Nat /\ n = IF n % 2 = 0 THEN 2 * m ELSE 2 * m + 1
    BY <1>1, Halves
  <1>3. b >= x /\ c <= x
    BY TypicalIsMedian
  <1>4. t \in Seq(Int) /\ Len(t) = n /\ Rises(t)
    BY AscendingRises
  <1>5. PICK order : Rearranges(order, n) /\ \A k \in 1 .. n : t[k] = s[order[k]]
    BY AscendingRises
  <1>6. Median2(s) = c + b
    <2>1. n % 2 # 0 => 2 * t[m + 1] = t[m + 1] + t[m + 1]
      <3> HIDE DEF t, m, n
      <3>1. m + 1 \in 1 .. n
        BY <1>1, <1>2
      <3>2. t[m + 1] \in Int
        BY <1>4, <3>1, ElementOfSeq
      <3>3. QED
        BY <3>2
    <2>2. QED
      BY <2>1 DEF Median2
  <1> HIDE DEF n, m, t
  <1>7. m + 1 \in 1 .. n /\ (n % 2 = 0 => m \in 1 .. n)
    BY <1>1, <1>2
  <1>8. \A k \in 1 .. n : t[k] \in Int
    BY <1>4, ElementOfSeq
  <1>9. c \in Int /\ b \in Int
    BY <1>7, <1>8
  <1>10. ASSUME NEW i \in 1 .. n
         PROVE  s[i] \in Int /\ (s[i] <= c \/ s[i] >= b)
    <2>1. PICK k \in 1 .. n : order[k] = i
      BY <1>5 DEF Rearranges
    <2>2. s[i] = t[k]
      BY <1>5, <2>1
    <2>3. CASE k >= m + 1
      <3>1. t[m + 1] <= t[k]
        BY <1>4, <1>7, <2>3 DEF Rises
      <3>2. QED
        BY <1>7, <1>8, <2>2, <3>1
    <2>4. CASE k <= m
      <3>1. m \in 1 .. n /\ m <= m + 1
        BY <1>1, <1>2, <2>4
      <3>2. t[k] <= t[m] /\ t[k] <= t[m + 1]
        BY <1>4, <1>7, <2>4, <3>1 DEF Rises
      <3>3. QED
        BY <1>7, <1>8, <2>2, <3>1, <3>2
    <2>5. QED
      BY <1>2, <2>3, <2>4
  <1> HIDE DEF c, b
  <1>11. d \in [1 .. n -> Nat] /\ \A i \in 1 .. n : d[i] = Abs(2 * s[i] - (c + b)) /\ d[i] >= b - c
    <2>1. d = [i \in 1 .. n |-> Abs(2 * s[i] - (c + b))]
      BY <1>1, <1>6 DEF Deviations
    <2>2. \A i \in 1 .. n : Abs(2 * s[i] - (c + b)) \in Nat /\ Abs(2 * s[i] - (c + b)) >= b - c
      <3> SUFFICES ASSUME NEW i \in 1 .. n
                   PROVE  /\ Abs(2 * s[i] - (c + b)) \in Nat
                          /\ Abs(2 * s[i] - (c + b)) >= b - c
        OBVIOUS
      <3>1. s[i] \in Int /\ (s[i] <= c \/ s[i] >= b)
        BY <1>10
      <3>2. QED
        BY <1>3, <1>9, <3>1, FarFromMiddle
    <2> HIDE DEF d
    <2>3. QED
      BY <2>1, <2>2
  <1> HIDE DEF d, e
  <1>12. d \in Seq(Int) /\ Len(d) = n
    BY <1>1, <1>11, ListOf
  <1>13. e \in Seq(Int) /\ Len(e) = n /\ Rises(e)
    BY <1>12, AscendingRises DEF e
  <1>14. PICK perm : Rearranges(perm, n) /\ \A k \in 1 .. n : e[k] = d[perm[k]]
    <2>1. \E p : /\ Rearranges(p, Len(d))
                      /\ \A k \in 1 .. Len(d) : Ascending(d)[k] = d[p[k]]
      BY <1>12, AscendingRises
    <2>2. QED
      BY <1>12, <2>1 DEF e
  <1>15. Median2(d) = IF n % 2 = 0 THEN e[m] + e[m + 1] ELSE 2 * e[m + 1]
    BY <1>12 DEF Median2, m, e
  <1>16. \A k \in 1 .. n : perm[k] \in 1 .. n /\ e[k] \in Nat /\ e[k] >= b - c
    BY <1>11, <1>14 DEF Rearranges
  <1>17. Median2(d) \in Nat /\ Median2(d) >= 2 * (b - c)
    <2>1. e[m + 1] \in Nat /\ e[m + 1] >= b - c
      BY <1>7, <1>16
    <2>2. n % 2 = 0 => e[m] \in Nat /\ e[m] >= b - c
      BY <1>7, <1>16
    <2>3. QED
      BY <1>9, <1>15, <2>1, <2>2
  <1>18. 2 * Abs(2 * x - (c + b)) <= Median2(d)
    <2>1. Abs(2 * x - (c + b)) \in Nat /\ Abs(2 * x - (c + b)) <= b - c
      BY <1>3, <1>9 DEF Abs
    <2>2. QED
      BY <1>9, <1>17, <2>1
  <1>19. ASSUME Median2(d) = 0
         PROVE  2 * Cardinality({i \in 1 .. n : s[i] # x}) <= n
    <2> DEFINE T == {i \in 1 .. n : s[i] = x}
    <2>1. e[m + 1] = 0
      <3>1. e[m + 1] \in Nat
        BY <1>7, <1>16
      <3>2. n % 2 = 0 => e[m] \in Nat
        BY <1>7, <1>16
      <3>3. QED
        BY <1>15, <1>19, <3>1, <3>2
    <2>2. 2 * x = c + b
      BY <1>9, <1>18, <1>19 DEF Abs
    <2>3. ASSUME NEW k \in 1 .. m + 1 PROVE perm[k] \in T
      <3>1. k \in 1 .. n /\ k <= m + 1
        BY <1>1, <1>2, <1>7
      <3>2. e[k] <= e[m + 1]
        BY <1>7, <1>13, <3>1 DEF Rises
      <3>3. perm[k] \in 1 .. n /\ d[perm[k]] = 0
        BY <1>14, <1>16, <2>1, <3>1, <3>2
      <3>4. s[perm[k]] \in Int /\ Abs(2 * s[perm[k]] - (c + b)) = 0
        BY <1>10, <1>11, <3>3
      <3>5. 2 * s[perm[k]] - (c + b) \in Int
        BY <1>9, <3>4
      <3>6. 2 * s[perm[k]] - (c + b) = 0
        BY <3>4, <3>5 DEF Abs
      <3>7. s[perm[k]] = x
        BY <1>9, <2>2, <3>4, <3>6
      <3>8. QED
        BY <3>3, <3>7
    <2>4. T \in SUBSET (1 .. n) /\ {i \in 1 .. n : s[i] # x} = (1 .. n) \ T
      OBVIOUS
    <2>5. 1 \in 1 .. n
      BY <1>1
    <2> HIDE DEF T
    <2>6. Cardinality(T) \in Nat /\ (m + 1) - 1 + 1 <= Cardinality(T)
      BY <1>1, <1>7, <1>14, <2>3, <2>4, <2>5, ManyOf
    <2>7. Cardinality((1 .. n) \ T) = n - Cardinality(T)
      <3>1. IsFiniteSet(1 .. n) /\ Cardinality(1 .. n) = n
        BY <1>1, FS_Interval
      <3>2. (1 .. n) \cap T = T
        BY <2>4
      <3> DEFINE U == 1 .. n
      <3> HIDE DEF U
      <3>3. Cardinality(U \ T) = Cardinality(U) - Cardinality(U \cap T)
        BY <3>1, FS_Difference DEF U
      <3>4. QED
        BY <3>1, <3>2, <3>3 DEF U
    <2>8. 2 * (n - Cardinality(T)) <= n
      BY <1>1, <1>2, <2>6
    <2>9. QED
      BY <2>4, <2>7, <2>8
  <1>20. QED
    BY <1>6, <1>9, <1>17, <1>18, <1>19 DEF n, d

-----------------------------------------------------------------------------
(* Sums.                                                                   *)

\* A set of numbers has a first one: to show that a claim holds along a list, the
\* proofs below take the first place where it does not.
LEMMA FirstOf ==
  ASSUME NEW S \in SUBSET Nat, S # {}
  PROVE  \E k \in S : \A j \in S : k <= j
  <1>1. PICK k \in S : \A j \in S : ~ (<<j, k>> \in OpToRel(<, Nat))
    BY NatLessThanWellFounded, WFMin
  <1>2. \A j \in S : ~ (j < k)
    BY <1>1 DEF OpToRel
  <1>3. \A j \in S : j \in Nat /\ k \in Nat
    OBVIOUS
  <1>4. \A j \in S : k <= j
    BY <1>2, <1>3
  <1>5. QED
    BY <1>1, <1>4

\* f holds the sums of the first elements of s, up to the n-th.
SumsUpTo(f, s, n) == f = [i \in 0 .. n |-> IF i = 0 THEN 0 ELSE f[i - 1] + s[i]]

\* Sum is such a list of sums: it exists for every list.
LEMMA SumsExist ==
  ASSUME NEW s, NEW n \in Nat
  PROVE  \E f : SumsUpTo(f, s, n)
  <1> DEFINE without == {k \in Nat : ~ \E f : SumsUpTo(f, s, k)}
  <1> SUFFICES ASSUME without # {} PROVE FALSE
    OBVIOUS
  <1>1. PICK k \in without : \A j \in without : k <= j
    <2>1. without \in SUBSET Nat
      OBVIOUS
    <2> HIDE DEF without
    <2>2. QED
      BY <2>1, FirstOf
  <1>2. CASE k = 0
    <2> DEFINE f == [i \in 0 .. 0 |-> 0]
    <2>1. SumsUpTo(f, s, 0)
      BY DEF SumsUpTo
    <2>2. QED
      BY <1>2, <2>1
  <1>3. CASE k # 0
    <2>1. k \in Nat /\ k - 1 \in Nat /\ k - 1 \notin without
      BY <1>1, <1>3
    <2>2. PICK g : SumsUpTo(g, s, k - 1)
      BY <2>1
    <2> DEFINE f == [i \in 0 .. k |-> IF i = k THEN g[k - 1] + s[k] ELSE g[i]]
    <2>3. \A i \in 0 .. k - 1 : g[i] = IF i = 0 THEN 0 ELSE g[i - 1] + s[i]
      BY <2>2 DEF SumsUpTo
    <2>4. \A i \in 0 .. k : f[i] = IF i = 0 THEN 0 ELSE f[i - 1] + s[i]
      <3> SUFFICES ASSUME NEW i \in 0 .. k
                   PROVE  f[i] = IF i = 0 THEN 0 ELSE f[i - 1] + s[i]
        OBVIOUS
      <3>1. CASE i = k
        <4>1. i # 0 /\ i - 1 \in 0 .. k /\ i - 1 # k
          BY <1>3, <2>1, <3>1
        <4>2. QED
          BY <3>1, <4>1
      <3>2. CASE i # k
        <4>1. i \in 0 .. k - 1
          BY <2>1, <3>2
        <4>2. CASE i = 0
          BY <2>3, <3>2, <4>1, <4>2
        <4>3. CASE i # 0
          <5>1. i - 1 \in 0 .. k /\ i - 1 # k
            BY <2>1, <4>1, <4>3
          <5>2. QED
            BY <2>3, <3>2, <4>1, <4>3, <5>1
        <4>4. QED
          BY <4>2, <4>3
      <3>3. QED
        BY <3>1, <3>2
    <2>5. SumsUpTo(f, s, k)
      <3>1. f = [i \in 0 .. k |-> f[i]]
        OBVIOUS
      <3> HIDE DEF f
      <3>2. QED
        BY <2>4, <3>1 DEF SumsUpTo
    <2>6. QED
      BY <1>1, <2>5
  <1>4. QED
    BY <1>2, <1>3

\* The sums of a list of integers are integers.
LEMMA SumOf ==
  ASSUME NEW s \in Seq(Int)
  PROVE  \E f \in [0 .. Len(s) -> Int] :
            /\ f[0] = 0
            /\ \A i \in 1 .. Len(s) : f[i] = f[i - 1] + s[i]
            /\ Sum(s) = f[Len(s)]
  <1> DEFINE n == Len(s)
             f == CHOOSE f : SumsUpTo(f, s, n)
  <1>1. n \in Nat /\ \A i \in 1 .. n : s[i] \in Int
    BY LenProperties, ElementOfSeq
  <1>2. SumsUpTo(f, s, n)
    BY <1>1, SumsExist
  <1>3. Sum(s) = f[n]
    BY DEF Sum, SumsUpTo
  <1> HIDE DEF f, n
  <1>4. \A i \in 0 .. n : f[i] = IF i = 0 THEN 0 ELSE f[i - 1] + s[i]
    BY <1>2 DEF SumsUpTo
  <1>5. DOMAIN f = 0 .. n /\ f = [i \in 0 .. n |-> f[i]]
    <2>1. DOMAIN f = 0 .. n
      BY <1>2 DEF SumsUpTo
    <2>2. f = [i \in DOMAIN f |-> f[i]]
      BY <1>2 DEF SumsUpTo
    <2>3. QED
      BY <2>1, <2>2
  <1>6. \A i \in 0 .. n : f[i] \in Int
    <2> DEFINE bad == {i \in 0 .. n : f[i] \notin Int}
    <2> SUFFICES ASSUME bad # {} PROVE FALSE
      OBVIOUS
    <2>1. PICK k \in bad : \A j \in bad : k <= j
      <3>1. bad \in SUBSET Nat
        OBVIOUS
      <3> HIDE DEF bad
      <3>2. QED
        BY <3>1, FirstOf
    <2>2. k # 0
      BY <1>1, <1>4, <2>1
    <2>3. k - 1 \in 0 .. n /\ k \in 1 .. n
      BY <1>1, <2>1, <2>2
    <2>4. f[k - 1] \in Int
      BY <2>1, <2>3
    <2>5. f[k] = f[k - 1] + s[k]
      BY <1>4, <2>2, <2>3
    <2>6. QED
      BY <1>1, <2>1, <2>3, <2>4, <2>5
  <1>7. f \in [0 .. n -> Int]
    BY <1>5, <1>6
  <1>8. f[0] = 0 /\ \A i \in 1 .. n : f[i] = f[i - 1] + s[i]
    BY <1>1, <1>4
  <1>9. QED
    BY <1>3, <1>7, <1>8 DEF n

\* One more term keeps the square of a sum of z terms within z times the sum of
\* their squares.
LEMMA OneMoreTerm ==
  ASSUME NEW D \in Int, NEW Q \in Nat, NEW z \in Nat, NEW x \in Int, D * D <= z * Q
  PROVE  (D + x) * (D + x) <= (z + 1) * (Q + x * x)
  <1>1. (D + x) * (D + x) = D * D + 2 * (D * x) + x * x
    OBVIOUS
  <1>2. (z + 1) * (Q + x * x) = z * Q + z * (x * x) + Q + x * x
    OBVIOUS
  <1>3. 2 * (D * x) <= z * (x * x) + Q
    <2>1. CASE z = 0
      <3>1. D = 0
        <4>1. D * D <= 0
          BY <2>1
        <4>2. QED
          BY <4>1
      <3>2. D * x = 0 /\ z * (x * x) = 0
        BY <2>1, <3>1
      <3>3. QED
        BY <3>2
    <2>2. CASE z > 0
      <3> DEFINE w == z * (x * x) + Q - 2 * (D * x)
      <3>1. z * w = (z * x - D) * (z * x - D) + (z * Q - D * D)
        OBVIOUS
      <3>2. (z * x - D) * (z * x - D) >= 0
        <4> DEFINE y == z * x - D
        <4>1. y \in Int
          OBVIOUS
        <4> HIDE DEF y
        <4>2. y * y >= 0
          BY <4>1
        <4>3. QED
          BY <4>2 DEF y
      <3>3. z * w >= 0
        BY <3>1, <3>2
      <3>4. w \in Int
        OBVIOUS
      <3> HIDE DEF w
      <3>5. w >= 0
        BY <2>2, <3>3, <3>4
      <3>6. QED
        BY <3>5 DEF w
    <2>3. QED
      BY <2>1, <2>2
  <1>4. QED
    BY <1>1, <1>2, <1>3

\* A sum of squares less a square, when all but z of the first k elements are x.
\* The invariant of the proof is that of a loop over the list.
LEMMA MostlyTheSame ==
  ASSUME NEW s \in Seq(Int), NEW x \in Int,
         NEW f \in [0 .. Len(s) -> Int], f[0] = 0,
         \A i \in 1 .. Len(s) : f[i] = f[i - 1] + s[i],
         NEW g \in [0 .. Len(s) -> Int], g[0] = 0,
         \A i \in 1 .. Len(s) : g[i] = g[i - 1] + s[i] * s[i]
  PROVE  LET Dist(k) == k * x - f[k]
             Squared(k) == g[k] - 2 * (x * f[k]) + k * (x * x)
             Others(k) == Cardinality({i \in 1 .. k : s[i] # x})
         IN  \A k \in 0 .. Len(s) :
                /\ Squared(k) \in Nat /\ Others(k) \in Nat
                /\ Dist(k) * Dist(k) <= Others(k) * Squared(k)
  <1> DEFINE n == Len(s)
             Dist(k) == k * x - f[k]
             Squared(k) == g[k] - 2 * (x * f[k]) + k * (x * x)
             Set(k) == {i \in 1 .. k : s[i] # x}
             Others(k) == Cardinality(Set(k))
             Holds(k) == /\ Squared(k) \in Nat /\ Others(k) \in Nat
                         /\ Dist(k) * Dist(k) <= Others(k) * Squared(k)
             bad == {k \in 0 .. n : ~ Holds(k)}
  <1>1. n \in Nat /\ \A i \in 1 .. n : s[i] \in Int
    BY LenProperties, ElementOfSeq
  <1> SUFFICES ASSUME bad # {} PROVE FALSE
    OBVIOUS
  <1>2. PICK k \in bad : \A j \in bad : k <= j
    <2>1. bad \in SUBSET Nat
      BY <1>1
    <2> HIDE DEF bad
    <2>2. QED
      BY <2>1, FirstOf
  <1>3. k \in 0 .. n /\ ~ Holds(k)
    OBVIOUS
  <1>4. k # 0
    <2>1. Dist(0) = 0 /\ Squared(0) = 0
      OBVIOUS
    <2>2. Set(0) = {}
      OBVIOUS
    <2>3. Others(0) = 0
      BY <2>2, FS_EmptySet
    <2>4. Holds(0)
      BY <2>1, <2>3
    <2> HIDE DEF Holds
    <2>5. QED
      BY <1>3, <2>4
  <1> DEFINE h == k - 1
             y == s[k]
  <1>5. k \in 1 .. n /\ h \in 0 .. n /\ h \in Nat /\ h < k /\ k = h + 1
    BY <1>1, <1>3, <1>4
  <1>6. Holds(h)
    <2> HIDE DEF Holds, h
    <2>1. h \notin bad
      <3> HIDE DEF bad
      <3>1. h \in bad => k <= h
        BY <1>2
      <3>2. QED
        BY <1>5, <3>1
    <2>2. QED
      BY <1>5, <2>1
  <1>7. y \in Int /\ f[h] \in Int /\ g[h] \in Int
    BY <1>1, <1>5
  <1>8. f[k] = f[h] + y /\ g[k] = g[h] + y * y
    BY <1>5
  <1>9. IsFiniteSet(Set(h)) /\ k \notin Set(h)
    <2>1. IsFiniteSet(1 .. h) /\ Set(h) \subseteq 1 .. h
      BY <1>5, FS_Interval
    <2>2. QED
      BY <1>5, <2>1, FS_Subset
  <1>10. Dist(k) = Dist(h) + (x - y) /\ Squared(k) = Squared(h) + (x - y) * (x - y)
    <2> DEFINE F == f[h]
               G == g[h]
    <2>1. h \in Int /\ F \in Int /\ G \in Int /\ y \in Int
      BY <1>5, <1>7
    <2>2. k = h + 1 /\ f[k] = F + y /\ g[k] = G + y * y
      BY <1>5, <1>8
    <2> HIDE DEF F, G, h, y
    <2>3. (h + 1) * x - (F + y) = (h * x - F) + (x - y)
      BY <2>1
    <2>4. (G + y * y) - 2 * (x * (F + y)) + (h + 1) * (x * x)
            = (G - 2 * (x * F) + h * (x * x)) + (x - y) * (x - y)
      BY <2>1
    <2>5. QED
      BY <2>2, <2>3, <2>4 DEF F, G
  <1>11. Set(k) = IF y = x THEN Set(h) ELSE Set(h) \cup {k}
    BY <1>5
  <1> DEFINE D == Dist(h)
             Q == Squared(h)
             z == Others(h)
  <1>12. D \in Int /\ Q \in Nat /\ z \in Nat /\ D * D <= z * Q
    BY <1>5, <1>6, <1>7
  <1>13. Others(k) = IF y = x THEN z ELSE z + 1
    <2> DEFINE T == Set(h)
    <2>1. IsFiniteSet(T) /\ k \notin T /\ Set(k) = IF y = x THEN T ELSE T \cup {k}
      BY <1>9, <1>11
    <2> HIDE DEF T, Set
    <2>2. Cardinality(T \cup {k}) = Cardinality(T) + 1
      BY <2>1, FS_AddElement
    <2>3. QED
      BY <2>1, <2>2 DEF T
  <1> HIDE DEF Set
  <1> HIDE DEF Dist, Squared, Others, D, Q, z, y, h
  <1>14. CASE y = x
    <2>1. Dist(k) = D /\ Squared(k) = Q /\ Others(k) = z
      BY <1>7, <1>10, <1>12, <1>13, <1>14 DEF D, Q
    <2>2. QED
      BY <1>3, <1>12, <2>1
  <1>15. CASE y # x
    <2> DEFINE a == x - y
    <2>1. a \in Int
      BY <1>7
    <2>2. Dist(k) = D + a /\ Squared(k) = Q + a * a /\ Others(k) = z + 1
      BY <1>10, <1>13, <1>15 DEF D, Q
    <2> HIDE DEF a
    <2>3. (D + a) * (D + a) <= (z + 1) * (Q + a * a)
      BY <1>12, <2>1, OneMoreTerm
    <2>4. a * a \in Nat
      BY <2>1
    <2>5. z + 1 \in Nat /\ Q + a * a \in Nat
      BY <1>12, <2>4
    <2>6. QED
      BY <1>3, <2>2, <2>3, <2>5
  <1>16. QED
    BY <1>14, <1>15

\* If at least half of a list is x, the mean is within a standard deviation of x.
LEMMA Deviation ==
  ASSUME NEW s \in Seq(Int), NEW x \in Int,
         2 * Cardinality({i \in 1 .. Len(s) : s[i] # x}) <= Len(s)
  PROVE  LET D == Len(s) * x - Sum(s)
         IN  D \in Int /\ Variance(s) \in Int /\ D * D <= Variance(s)
  <1> DEFINE n == Len(s)
             q == Squares(s)
  <1>1. n \in Nat /\ DOMAIN s = 1 .. n /\ \A i \in 1 .. n : s[i] \in Int
    BY LenProperties, ElementOfSeq
  <1>2. q \in Seq(Int) /\ Len(q) = n /\ \A i \in 1 .. n : q[i] = s[i] * s[i]
    <2>1. q \in [1 .. n -> Int] /\ \A i \in 1 .. n : q[i] = s[i] * s[i]
      BY <1>1 DEF Squares
    <2>2. QED
      BY <1>1, <2>1, ListOf
  <1>3. PICK f \in [0 .. n -> Int] :
           f[0] = 0 /\ (\A i \in 1 .. n : f[i] = f[i - 1] + s[i]) /\ Sum(s) = f[n]
    BY SumOf
  <1> HIDE DEF q
  <1>4. \E g \in [0 .. Len(q) -> Int] :
           /\ g[0] = 0
           /\ \A i \in 1 .. Len(q) : g[i] = g[i - 1] + q[i]
           /\ Sum(q) = g[Len(q)]
    BY <1>2, SumOf
  <1>5. PICK g \in [0 .. n -> Int] :
           g[0] = 0 /\ (\A i \in 1 .. n : g[i] = g[i - 1] + q[i]) /\ Sum(q) = g[n]
    BY <1>2, <1>4
  <1>6. \A i \in 1 .. n : g[i] = g[i - 1] + s[i] * s[i]
    BY <1>2, <1>5
  <1> DEFINE D == n * x - f[n]
             Q == g[n] - 2 * (x * f[n]) + n * (x * x)
             z == Cardinality({i \in 1 .. n : s[i] # x})
             V == n * g[n] - f[n] * f[n]
  <1>7. \A k \in 0 .. n :
           /\ g[k] - 2 * (x * f[k]) + k * (x * x) \in Nat
           /\ Cardinality({i \in 1 .. k : s[i] # x}) \in Nat
           /\ (k * x - f[k]) * (k * x - f[k])
                <= Cardinality({i \in 1 .. k : s[i] # x})
                     * (g[k] - 2 * (x * f[k]) + k * (x * x))
    BY <1>3, <1>5, <1>6, MostlyTheSame
  <1>8. n \in 0 .. n
    BY <1>1
  <1>9. Q \in Nat /\ z \in Nat /\ D * D <= z * Q
    BY <1>7, <1>8
  <1>10. 2 * z <= n
    OBVIOUS
  <1>11. Variance(s) = V /\ Sum(s) = f[n]
    BY <1>3, <1>5 DEF Variance, q
  <1>12. f[n] \in Int /\ g[n] \in Int
    BY <1>3, <1>5, <1>8
  <1>13. D \in Int /\ V \in Int /\ n * Q = V + D * D
    <2> DEFINE S == f[n]
               R == g[n]
    <2>1. S \in Int /\ R \in Int /\ n \in Int
      BY <1>1, <1>12
    <2> HIDE DEF S, R, n
    <2>2. n * (R - 2 * (x * S) + n * (x * x)) = (n * R - S * S) + (n * x - S) * (n * x - S)
      BY <2>1
    <2>3. n * x - S \in Int /\ n * R - S * S \in Int
      BY <2>1
    <2>4. QED
      BY <2>2, <2>3 DEF S, R
  <1> HIDE DEF D, Q, z, V, n
  <1>14. 2 * (z * Q) <= n * Q
    <2> DEFINE a == n - 2 * z
    <2>1. a \in Nat
      BY <1>1, <1>9, <1>10
    <2>2. a * Q = n * Q - 2 * (z * Q)
      BY <1>1, <1>9
    <2> HIDE DEF a
    <2>3. a * Q \in Nat
      BY <1>9, <2>1
    <2>4. z * Q \in Int /\ n * Q \in Int
      BY <1>1, <1>9
    <2>5. QED
      BY <2>2, <2>3, <2>4
  <1>15. D * D <= V
    <2>1. D * D \in Int /\ z * Q \in Int /\ n * Q \in Int
      BY <1>1, <1>9, <1>13
    <2>2. QED
      BY <1>9, <1>13, <1>14, <2>1
  <1>16. QED
    BY <1>11, <1>13, <1>15 DEF D, n

-----------------------------------------------------------------------------
(* A typical window.                                                       *)

\* A reading is a whole number.
LEMMA ReadingType ==
  ASSUME NEW n \in Optional
  PROVE  Reading(n) \in Int
  BY DEF Optional, Reading

\* A baseline is a list of readings.
LEMMA BaselineType ==
  ASSUME NEW S, NEW s \in Seq(S), NEW i \in 1 .. Len(s)
  PROVE  Baseline(s, i) \in Seq(S)
  <1> DEFINE t == SubSeq(s, 1, i - 1)
  <1>1. t \in Seq(S) /\ Len(t) = i - 1
    <2>1. \A j \in 1 .. i - 1 : s[j] \in S
      OBVIOUS
    <2>2. (i - 1) - 1 + 1 = i - 1
      OBVIOUS
    <2>3. QED
      BY <2>1, <2>2, SubSeqProperties
  <1> DEFINE a == Larger(1, Len(t) - BaselineWindows + 1)
  <1>2. a \in Int /\ a >= 1
    BY <1>1, ScoringAssumption DEF Larger
  <1>3. Baseline(s, i) = SubSeq(t, a, Len(t))
    BY DEF Baseline, Latest
  <1> HIDE DEF t, a
  <1>4. \A j \in a .. Len(t) : t[j] \in S
    BY <1>1, <1>2
  <1>5. SubSeq(t, a, Len(t)) \in Seq(S)
    BY <1>1, <1>2, <1>4, SubSeqProperties
  <1>6. QED
    BY <1>3, <1>5

\* A typical value is beyond neither scale's threshold of its history.
LEMMA TypicalIsWithin ==
  ASSUME NEW h \in Seq(Int), NEW x \in Int, Typical(x, h)
  PROVE  ~ Beyond(RobustZ(x, h), 1, 1)
  <1> DEFINE n == Len(h)
             median == Median2(h)
             mad == Median2(Deviations(h))
             dev == n * x - Sum(h)
             V == Variance(h)
  <1>1. n \in Nat
    BY LenProperties
  <1>2. RobustZ(x, h) =
           IF n < 3 THEN NoZ
           ELSE IF mad > 0
           THEN [scale |-> "mad", dev |-> 2 * x - median, spread |-> mad]
           ELSE IF V = 0 THEN NoZ
           ELSE [scale |-> "std", dev |-> dev, spread |-> V]
    BY DEF RobustZ, Deviations
  <1>3. ~ Beyond(NoZ, 1, 1)
    BY DEF Beyond, NoZ
  <1>4. CASE n < 3
    BY <1>2, <1>3, <1>4
  <1>5. CASE n >= 3
    <2>1. /\ median \in Int /\ mad \in Nat /\ 2 * Abs(2 * x - median) <= mad
          /\ mad = 0 => 2 * Cardinality({i \in 1 .. n : h[i] # x}) <= n
      BY <1>1, <1>5, TypicalDeviation
    <2>2. 2 * x - median \in Int /\ Abs(2 * x - median) \in Nat
      BY <2>1 DEF Abs
    <2>3. CASE mad > 0
      <3> DEFINE z == [scale |-> "mad", dev |-> 2 * x - median, spread |-> mad]
      <3>1. RobustZ(x, h) = z
        BY <1>1, <1>2, <1>5, <2>3
      <3>2. z.scale = "mad" /\ z.dev = 2 * x - median /\ z.spread = mad
        OBVIOUS
      <3> HIDE DEF z, median, mad
      <3>3. ~ (20000 * Abs(2 * x - median) * 1 > 14826 * mad * 1)
        <4> DEFINE a == Abs(2 * x - median)
        <4>1. a \in Nat /\ 2 * a <= mad /\ mad \in Nat
          BY <2>1, <2>2
        <4> HIDE DEF a
        <4>2. ~ (20000 * a * 1 > 14826 * mad * 1)
          BY <4>1
        <4>3. QED
          BY <4>2 DEF a
      <3>4. "mad" # "std"
        OBVIOUS
      <3>5. ~ Beyond(z, 1, 1)
        BY <3>2, <3>3, <3>4 DEF Beyond
      <3>6. QED
        BY <3>1, <3>5
    <2>4. CASE mad = 0
      <3>1. CASE V = 0
        BY <1>1, <1>2, <1>3, <1>5, <2>4, <3>1
      <3>2. CASE V # 0
        <4> DEFINE z == [scale |-> "std", dev |-> dev, spread |-> V]
        <4>1. RobustZ(x, h) = z
          BY <1>1, <1>2, <1>5, <2>4, <3>2
        <4>2. z.scale = "std" /\ z.dev = dev /\ z.spread = V
          OBVIOUS
        <4>3. dev \in Int /\ V \in Int /\ dev * dev <= V
          BY <2>1, <2>4, Deviation
        <4> HIDE DEF z, dev, V
        <4>4. ~ (dev * dev * 1 * 1 > 1 * 1 * V)
          <5> DEFINE a == dev * dev
          <5>1. a \in Int /\ a <= V /\ V \in Int
            BY <4>3
          <5> HIDE DEF a
          <5>2. ~ (a * 1 * 1 > 1 * 1 * V)
            BY <5>1
          <5>3. QED
            BY <5>2 DEF a
        <4>5. "mad" # "std"
          OBVIOUS
        <4>6. ~ Beyond(z, 1, 1)
          BY <4>2, <4>4, <4>5 DEF Beyond
        <4>7. QED
          BY <4>1, <4>6
      <3>3. QED
        BY <3>1, <3>2
    <2>5. QED
      BY <2>1, <2>3, <2>4
  <1>6. QED
    BY <1>1, <1>4, <1>5

\* A window in the middle of its own history is no anomaly, whatever the counts,
\* the windows and the parameters of the scores.
THEOREM TypicalNeverAnomalous == Spec => []TypicalIsNoAnomaly
  <1>1. BoardInv => TypicalIsNoAnomaly
    <2> SUFFICES ASSUME BoardInv PROVE TypicalIsNoAnomaly
      OBVIOUS
    <2> DEFINE listed == {w \in Windows : HasSnapshot(metrics[w])}
               list == InOrder(listed)
               posts == Series(metrics, list, "posts")
               users == Series(metrics, list, "users")
               S == {Reading(metrics[w].posts) : w \in Windows}
                       \cup {Reading(metrics[w].users) : w \in Windows}
    <2>1. list \in Seq(Windows)
      <3>1. listed \in SUBSET Windows
        OBVIOUS
      <3> HIDE DEF listed
      <3>2. list \in Seq(listed)
        BY <3>1, InOrderType
      <3>3. QED
        BY <3>1, <3>2, SeqMonotonic
    <2>2. S \subseteq Int
      <3> SUFFICES ASSUME NEW w \in Windows
                   PROVE  Reading(metrics[w].posts) \in Int /\ Reading(metrics[w].users) \in Int
        OBVIOUS
      <3>1. metrics[w].posts \in Optional /\ metrics[w].users \in Optional
        BY DEF BoardInv, Readings
      <3>2. QED
        BY <3>1, ReadingType
    <2> HIDE DEF list
    <2>3. posts \in Seq(S) /\ Len(posts) = Len(list)
      BY <2>1, SeriesType
    <2>4. users \in Seq(S) /\ Len(users) = Len(list)
      BY <2>1, SeriesType
    <2>5. DOMAIN list = 1 .. Len(list)
      BY <2>1, LenProperties
    <2> HIDE DEF posts, users, S
    <2>6. /\ posts \in Seq(Int) /\ users \in Seq(Int)
      BY <2>2, <2>3, <2>4, SeqMonotonic
    <2>7. ASSUME NEW s \in Seq(Int), Len(s) = Len(list), NEW i \in DOMAIN list,
                 Typical(s[i], Baseline(s, i))
          PROVE  ~ Beyond(RobustZ(s[i], Baseline(s, i)), 1, 1)
      <3>1. s[i] \in Int
        BY <2>5, <2>7, ElementOfSeq
      <3>2. Baseline(s, i) \in Seq(Int)
        BY <2>5, <2>7, BaselineType
      <3>3. QED
        BY <2>7, <3>1, <3>2, TypicalIsWithin
    <2>8. QED
      BY <2>3, <2>4, <2>6, <2>7 DEF TypicalIsNoAnomaly, posts, users, list
  <1>2. QED
    BY <1>1, BoardInvariance, PTL

-----------------------------------------------------------------------------
(* Windows that the lookback has left behind.                              *)

\* Two windows start at least one window apart.
LEMMA WindowsApart ==
  ASSUME NEW u \in Windows, NEW w \in Windows, u < w
  PROVE  u <= w - WindowLen
  <1>1. WindowLen \in Nat \ {0} /\ Time \subseteq Int
    BY WindowingAssumption DEF Time
  <1>2. ASSUME NEW x \in Windows PROVE \E k \in Int : x = WindowLen * k
    <2>1. PICK t \in Time : x = t - (t % WindowLen)
      BY DEF Windows, WindowStart
    <2>2. /\ t \div WindowLen \in Int
          /\ t % WindowLen \in Int
          /\ t = WindowLen * (t \div WindowLen) + (t % WindowLen)
      BY <1>1
    <2> DEFINE k == t \div WindowLen
    <2>3. k \in Int /\ WindowLen * k \in Int /\ x = WindowLen * k
      <3> DEFINE r == t % WindowLen
      <3>1. k \in Int /\ r \in Int /\ t = WindowLen * k + r /\ x = t - r
        BY <2>1, <2>2
      <3> HIDE DEF k, r
      <3>2. WindowLen * k \in Int
        BY <1>1, <3>1
      <3>3. QED
        BY <3>1, <3>2
    <2>4. QED
      BY <2>3
  <1>3. PICK i \in Int : u = WindowLen * i
    BY <1>2
  <1>4. PICK j \in Int : w = WindowLen * j
    BY <1>2
  <1> DEFINE d == j - i
  <1>5. w - u = WindowLen * d /\ d \in Int /\ u \in Int /\ w \in Int
    BY <1>1, <1>3, <1>4
  <1> HIDE DEF d
  <1>6. d >= 1
    <2> SUFFICES ASSUME d <= 0 PROVE FALSE
      BY <1>5
    <2> DEFINE e == -d
    <2>1. e \in Nat /\ WindowLen * d = -(WindowLen * e)
      BY <1>1, <1>5
    <2> HIDE DEF e
    <2>2. WindowLen * e \in Nat
      BY <1>1, <2>1
    <2>3. QED
      BY <1>5, <2>1, <2>2
  <1>7. WindowLen * d >= WindowLen
    <2> DEFINE e == d - 1
    <2>1. e \in Nat /\ WindowLen * d = WindowLen * e + WindowLen
      BY <1>1, <1>5, <1>6
    <2> HIDE DEF e
    <2>2. WindowLen * e \in Nat
      BY <1>1, <2>1
    <2>3. QED
      BY <1>1, <2>1, <2>2
  <1>8. WindowLen * d \in Int
    BY <1>1, <1>5
  <1>9. QED
    BY <1>1, <1>5, <1>7, <1>8

\* The windows a build makes rows of.
LEMMA ListedByBuild ==
  ASSUME NEW m, NEW t \in Int
  PROVE  /\ DOMAIN Built(m, t) \subseteq Windows
         /\ \A w \in Windows :
               w \in DOMAIN Built(m, t) <=> /\ t - Lookback <= w /\ w <= t
                                            /\ HasSnapshot(m[w])
  <1> DEFINE S == {w \in Windows : t - Lookback <= w /\ w <= t /\ HasSnapshot(m[w])}
             list == InOrder(S)
  <1>1. DOMAIN Built(m, t) = {list[j] : j \in DOMAIN list}
    BY DEF Built, Listed, RowsOf
  <1>2. S \in SUBSET Windows
    OBVIOUS
  <1> HIDE DEF S
  <1>3. list \in Seq(S) /\ DOMAIN list = 1 .. Len(list)
    BY <1>2, InOrderType, LenProperties
  <1>4. \A w \in S : \E j \in DOMAIN list : list[j] = w
    BY <1>2, <1>3, InOrderType
  <1>5. \A j \in DOMAIN list : list[j] \in S
    BY <1>3, ElementOfSeq
  <1> HIDE DEF list
  <1>6. DOMAIN Built(m, t) = S
    BY <1>1, <1>4, <1>5
  <1>7. QED
    BY <1>2, <1>6 DEF S

\* Without a window before it, a window has no growth, no baseline, no anomaly.
LEMMA FirstScore ==
  ASSUME NEW posts \in Seq(Int), Len(posts) >= 1, NEW users \in Seq(Int), Len(users) >= 1,
         NEW subs
  PROVE  Score(posts, users, subs, 1) = Neutral
  <1>1. ASSUME NEW s \in Seq(Int), Len(s) >= 1
        PROVE  RobustZ(s[1], Baseline(s, 1)) = NoZ
    <2> DEFINE t == SubSeq(s, 1, 0)
               h == Baseline(s, 1)
    <2>1. t \in Seq(Int) /\ Len(t) = 0
      BY SubSeqProperties
    <2>2. h = SubSeq(t, Larger(1, Len(t) - BaselineWindows + 1), Len(t))
      BY DEF Baseline, Latest
    <2> HIDE DEF t, h
    <2>3. Larger(1, Len(t) - BaselineWindows + 1) = 1
      BY <2>1, ScoringAssumption DEF Larger
    <2>4. h = SubSeq(t, 1, 0)
      BY <2>1, <2>2, <2>3
    <2>5. Len(h) = 0
      BY <2>1, <2>4, SubSeqProperties
    <2>6. QED
      BY <2>5 DEF RobustZ, h
  <1>2. ChangeAt(posts, 1) = NoChange
    <2> DEFINE baseline == ChangeBaseline(posts, 1)
    <2>1. Smaller(RecentWindows, 1) = 1
      BY ScoringAssumption DEF Smaller
    <2>2. baseline = SubSeq(posts, Larger(1, 0 - ChangeWindows + 1), 0)
      <3>1. 1 - Smaller(RecentWindows, 1) = 0
        BY <2>1
      <3>2. QED
        BY <3>1 DEF ChangeBaseline
    <2>3. Larger(1, 0 - ChangeWindows + 1) = 1
      BY ScoringAssumption DEF Larger
    <2> HIDE DEF baseline
    <2>4. Len(baseline) = 0
      BY <2>2, <2>3, SubSeqProperties
    <2>5. QED
      BY <2>4 DEF ChangeAt, baseline
  <1>3. Velocity(posts, users, subs, 1) = NoVelocity
    BY DEF GrowthAt, Velocity, NoVelocity
  <1>4. Smaller(1 - 1, BaselineWindows) = 0
    BY ScoringAssumption DEF Smaller
  <1>5. RobustZ(posts[1], Baseline(posts, 1)) = NoZ /\ RobustZ(users[1], Baseline(users, 1)) = NoZ
    BY <1>1
  <1>6. QED
    BY <1>2, <1>3, <1>4, <1>5 DEF Score, Neutral

\* A build within one window of the end of its lookback lists no window before w.
LEMMA OldestRow ==
  ASSUME BoardInv', NEW t \in Int, NEW w \in DOMAIN Built(metrics', t),
         t > w + Lookback - WindowLen
  PROVE  Forgotten(Built(metrics', t)[w])
  <1> DEFINE m == metrics'
             S == {u \in Windows : t - Lookback <= u /\ u <= t /\ HasSnapshot(m[u])}
             list == InOrder(S)
             posts == Series(m, list, "posts")
             users == Series(m, list, "users")
             subs == Series(m, list, "subs")
  <1>1. S \in SUBSET Windows /\ Windows \subseteq Int
    BY WindowsAreIntegers
  <1>2. Built(m, t) = RowsOf(m, list)
    BY DEF Built, Listed
  <1>3. w \in S
    <2>1. w \in {list[j] : j \in DOMAIN list}
      BY <1>2 DEF RowsOf
    <2> HIDE DEF S
    <2>2. list \in Seq(S)
      BY <1>1, InOrderType
    <2>3. QED
      BY <2>1, <2>2, ElementOfSeq, LenProperties
  <1>4. {u \in S : u < w} = {}
    <2> SUFFICES ASSUME NEW u \in S, u < w PROVE FALSE
      OBVIOUS
    <2>1. u <= w - WindowLen
      BY <1>3, WindowsApart
    <2>2. u \in Int /\ w \in Int /\ t - Lookback <= u /\ WindowLen \in Int /\ Lookback \in Int
      BY <1>1, <1>3, WindowingAssumption, BoardAssumption
    <2>3. QED
      BY <2>1, <2>2
  <1>5. Place(S, w) = 1
    BY <1>4, FS_EmptySet DEF Place
  <1> HIDE DEF S
  <1>6. list \in Seq(Windows) /\ Len(list) >= 1
    <2>1. list \in Seq(S) /\ Place(S, w) \in 1 .. Len(list)
      BY <1>1, <1>3, InOrderType
    <2>2. list \in Seq(Windows)
      BY <1>1, <2>1, SeqMonotonic
    <2> HIDE DEF list
    <2>3. Len(list) \in Nat
      BY <2>2, LenProperties
    <2>4. QED
      BY <1>5, <2>1, <2>2, <2>3
  <1>7. \A u \in Windows : Reading(m[u]["posts"]) \in Int /\ Reading(m[u]["users"]) \in Int
    <2> SUFFICES ASSUME NEW u \in Windows
                 PROVE  Reading(m[u].posts) \in Int /\ Reading(m[u].users) \in Int
      OBVIOUS
    <2>1. m[u].posts \in Optional /\ m[u].users \in Optional
      BY DEF BoardInv, Readings
    <2>2. QED
      BY <2>1, ReadingType
  <1> HIDE DEF list, m
  <1>8. posts \in Seq(Int) /\ Len(posts) = Len(list)
    BY <1>6, <1>7, SeriesType
  <1>9. users \in Seq(Int) /\ Len(users) = Len(list)
    BY <1>6, <1>7, SeriesType
  <1>10. RowsOf(m, list)[w] =
            [ newPosts |-> posts[1],
              delta    |-> posts[1] - (IF 1 = 1 THEN 0 ELSE posts[1 - 1]),
              complete |-> m[w].posts # Missing /\ m[w].users # Missing,
              score    |-> Score(posts, users, subs, 1) ]
    BY <1>1, <1>3, <1>5, RowAtPlace DEF list
  <1> HIDE DEF posts, users, subs
  <1>11. Score(posts, users, subs, 1) = Neutral
    BY <1>6, <1>8, <1>9, FirstScore
  <1>12. posts[1] \in Int
    BY <1>6, <1>8, ElementOfSeq, LenProperties
  <1>13. QED
    BY <1>2, <1>10, <1>11, <1>12 DEF Forgotten, m

\* The invariant: a row is forgotten, or its window is still at least WindowLen
\* ticks from leaving the lookback but for the ticks without a build.
Fading(w) ==
    \/ Forgotten(rows[w])
    \/ breaks >= WindowLen
    \/ breaks + w + Lookback >= clock - 1 + WindowLen

ForgetInv ==
    /\ BoardInv
    /\ breaks \in Nat
    /\ \A w \in DOMAIN rows : HasSnapshot(metrics[w]) /\ w < clock /\ Fading(w)

\* A build makes rows of the windows in its range anew, and those out of it have
\* faded; a tick without a build costs one of the WindowLen.
LEMMA ForgetStep ==
  ASSUME ForgetInv, BoardInv', [Next]_vars
  PROVE  ForgetInv'
  <1>1. /\ clock \in Int /\ breaks \in Nat /\ Lookback \in Nat /\ WindowLen \in Nat \ {0}
        /\ DOMAIN rows \subseteq Windows /\ Windows \subseteq Int
    BY WindowingAssumption, BoardAssumption, WindowsAreIntegers
    DEF ForgetInv, BoardInv, RowsTyped, Time
  <1>2. \A w \in DOMAIN rows : HasSnapshot(metrics[w]) /\ w < clock /\ Fading(w)
    BY DEF ForgetInv
  <1>3. CASE UNCHANGED vars
    BY <1>1, <1>2, <1>3 DEF vars, ForgetInv, Fading
  <1>4. ASSUME NEW c \in Collectable, NEW w \in Windows, HasSnapshot(metrics[w])
        PROVE  HasSnapshot(Collected(c)[w])
    <2>1. metrics \in [Windows -> Readings] /\ c \in Readings
      BY BoardAssumption DEF ForgetInv, BoardInv
    <2>2. \A m \in Readings : HasSnapshot(m) =>
             HasSnapshot([ posts |-> FirstValue(m.posts, c.posts),
                           users |-> FirstValue(m.users, c.users),
                           subs  |-> FirstValue(m.subs, c.subs) ])
      BY <2>1 DEF HasSnapshot, FirstValue, Nothing, Readings, Optional, Missing
    <2>3. CASE w = WindowStart(clock)
      BY <1>4, <2>1, <2>2, <2>3 DEF Collected
    <2>4. CASE w # WindowStart(clock)
      BY <1>4, <2>1, <2>4 DEF Collected
    <2>5. QED
      BY <2>3, <2>4
  <1>5. ASSUME NEW c \in Collectable, CycleBreaks(c)
        PROVE  ForgetInv'
    <2>1. /\ clock' = clock + 1 /\ breaks' = breaks + 1 /\ rows' = rows
          /\ metrics' = Collected(c)
      BY <1>5 DEF CycleBreaks, NextCycle
    <2>2. \A w \in DOMAIN rows : HasSnapshot(metrics'[w]) /\ w < clock'
      <3>1. \A w \in DOMAIN rows : HasSnapshot(Collected(c)[w])
        BY <1>1, <1>2, <1>4
      <3>2. ASSUME NEW w \in DOMAIN rows PROVE w < clock + 1
        <4>1. w \in Int /\ w < clock
          BY <1>1, <1>2
        <4>2. QED
          BY <1>1, <4>1
      <3>3. QED
        BY <2>1, <3>1, <3>2
    <2>3. ASSUME NEW w \in DOMAIN rows PROVE Fading(w)'
      <3>1. w \in Int /\ Fading(w)
        BY <1>1, <1>2
      <3>2. QED
        BY <1>1, <2>1, <3>1 DEF Fading
    <2>4. QED
      BY <1>1, <2>1, <2>2, <2>3 DEF ForgetInv
  <1>6. ASSUME NEW c \in Collectable, CycleBuilds(c)
        PROVE  ForgetInv'
    <2> DEFINE built == Built(metrics', clock)
    <2>1. /\ clock' = clock + 1 /\ breaks' = breaks /\ rows' = Upsert(built)
          /\ metrics' = Collected(c)
      BY <1>6 DEF CycleBuilds, NextCycle
    <2>2. \A w \in Windows :
             w \in DOMAIN built <=> /\ clock - Lookback <= w /\ w <= clock
                                    /\ HasSnapshot(metrics'[w])
      BY <1>1, ListedByBuild
    <2>3. DOMAIN built \subseteq Windows
      BY <1>1, ListedByBuild
    <2>4. \A w \in DOMAIN built : clock > w + Lookback - WindowLen => Forgotten(built[w])
      BY <1>1, OldestRow
    <2> HIDE DEF built
    <2>5. /\ DOMAIN rows' = DOMAIN rows \cup DOMAIN built
          /\ \A w \in DOMAIN rows' : rows'[w] = IF w \in DOMAIN built THEN built[w] ELSE rows[w]
      BY <2>1 DEF Upsert
    <2>6. ASSUME NEW w \in DOMAIN rows'
          PROVE  HasSnapshot(metrics'[w]) /\ w < clock' /\ Fading(w)'
      <3>1. w \in Int /\ w \in Windows
        BY <1>1, <2>3, <2>5
      <3>2. HasSnapshot(metrics'[w]) /\ w < clock'
        BY <1>1, <1>2, <1>4, <2>1, <2>2, <2>5, <3>1
      <3>3. CASE w \in DOMAIN built
        <4>1. rows'[w] = built[w]
          BY <2>5, <3>3
        <4>2. CASE clock > w + Lookback - WindowLen
          BY <2>4, <3>2, <3>3, <4>1, <4>2 DEF Fading
        <4>3. CASE ~(clock > w + Lookback - WindowLen)
          BY <1>1, <2>1, <3>1, <3>2, <4>3 DEF Fading
        <4>4. QED
          BY <4>2, <4>3
      <3>4. CASE w \notin DOMAIN built
        <4>1. w \in DOMAIN rows /\ rows'[w] = rows[w]
          BY <2>5, <3>4
        <4>2. Fading(w) /\ w < clock
          BY <1>2, <4>1
        <4>3. w < clock - Lookback
          BY <1>1, <2>2, <3>1, <3>2, <3>4, <4>2
        <4>4. Fading(w)'
          BY <1>1, <2>1, <3>1, <4>1, <4>2, <4>3 DEF Fading
        <4>5. QED
          BY <3>2, <4>4
      <3>5. QED
        BY <3>3, <3>4
    <2>7. QED
      BY <1>1, <2>1, <2>6 DEF ForgetInv
  <1>7. QED
    BY <1>3, <1>5, <1>6 DEF Next

\* The timeline forgets what it has found: unless a whole window of ticks went by
\* without a build, a row that the lookback has left behind shows its own count as
\* delta, no growth, no anomaly and no change, whatever it showed before.
THEOREM OldRowsForget == Spec => []OldRowsForgotten
  <1>1. Init => ForgetInv
    <2>1. Init => BoardInv
      BY InitBoardInv
    <2>2. QED
      BY <2>1 DEF Init, ForgetInv
  <1>2. BoardInv /\ BoardInv' /\ ForgetInv /\ [Next]_vars => ForgetInv'
    BY ForgetStep
  <1>3. ForgetInv => OldRowsForgotten
    <2> SUFFICES ASSUME ForgetInv, breaks < WindowLen, NEW w \in DOMAIN rows, w + Lookback < clock
                 PROVE  Forgotten(rows[w])
      BY DEF OldRowsForgotten
    <2>1. clock \in Int /\ breaks \in Nat /\ Lookback \in Nat /\ WindowLen \in Nat \ {0}
      BY WindowingAssumption, BoardAssumption DEF ForgetInv, BoardInv, Time
    <2>2. w \in Int
      BY WindowsAreIntegers DEF ForgetInv, BoardInv, RowsTyped
    <2>3. Fading(w)
      BY DEF ForgetInv
    <2>4. QED
      BY <2>1, <2>2, <2>3 DEF Fading
  <1>4. QED
    BY BoardInvariance, <1>1, <1>2, <1>3, PTL DEF Spec
=============================================================================
