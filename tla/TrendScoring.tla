---------------------------- MODULE TrendScoring ----------------------------
(***************************************************************************)
(* scoreTrendWindows: the scores of a list of windows, in exact            *)
(* arithmetic.  A score of the code is tanh of a weighted sum of the       *)
(* components below, which it stores with the row; here the components are *)
(* the score.  Means, medians and variances are kept as integers over a    *)
(* common denominator, standard deviations as variances, so that equal     *)
(* components mean equal scores and thresholds are compared without        *)
(* rounding.                                                               *)
(***************************************************************************)
EXTENDS Integers, Sequences, FiniteSets

CONSTANTS
    BaselineWindows,    \* baselineLookbackWindows
    RecentWindows,      \* changeRecentWindows
    ChangeWindows,      \* changeBaselineWindows
    MinChangeWindows    \* changeMinBaselineWindows

ASSUME ScoringAssumption ==
    /\ BaselineWindows \in Nat \ {0}
    /\ RecentWindows \in Nat \ {0}
    /\ ChangeWindows \in Nat \ {0}
    /\ MinChangeWindows \in Nat

Abs(n)        == IF n < 0 THEN -n ELSE n
Larger(a, b)  == IF a < b THEN b ELSE a
Smaller(a, b) == IF a < b THEN a ELSE b
Sum(s) ==
    LET upTo[i \in 0 .. Len(s)] == IF i = 0 THEN 0 ELSE upTo[i - 1] + s[i]
    IN  upTo[Len(s)]
Squares(s)    == [i \in DOMAIN s |-> s[i] * s[i]]

\* The last n elements: slice(-n).
Latest(s, n) == SubSeq(s, Larger(1, Len(s) - n + 1), Len(s))

-----------------------------------------------------------------------------
\* A quotient as numerator and denominator.
GrowthRate(current, previous) == <<current - previous, Larger(previous, 1)>>
NoGrowth == <<0, 1>>

\* A set, sorted: before[w] is the set of those that come before w.
Sorted(S, before) ==
    [i \in 1 .. Cardinality(S) |-> CHOOSE w \in S : Cardinality(before[w]) = i - 1]

\* What comes before the i-th element of s when s is sorted: the sort is stable.
Precede(s, i) == {j \in DOMAIN s : s[j] < s[i] \/ (s[j] = s[i] /\ j < i)}

Ascending(s) ==
    LET order == Sorted(DOMAIN s, [i \in DOMAIN s |-> Precede(s, i)])
    IN  [k \in DOMAIN s |-> s[order[k]]]

\* Twice the median.
Median2(s) ==
    LET sorted == Ascending(s)
        middle == Len(s) \div 2
    IN  IF Len(s) % 2 = 0 THEN sorted[middle] + sorted[middle + 1]
                          ELSE 2 * sorted[middle + 1]

\* The square of Len(s) times the standard deviation.
Variance(s) == Len(s) * Sum(Squares(s)) - Sum(s) * Sum(s)

\* A robust z-score: the distance from the median in median absolute deviations
\* (2 * dev over 1.4826 * spread), or, where more than half of the history is
\* the same, from the mean in standard deviations (dev over the root of spread).
NoZ == [scale |-> "none", dev |-> 0, spread |-> 1]

\* Variant: the deviation from the mean, in median absolute deviations.
MeanOverMad(current, history) ==
    LET median == Median2(history)
        mad    == Median2([i \in DOMAIN history |-> Abs(2 * history[i] - median)])
    IN  IF Len(history) < 3 \/ mad = 0 THEN NoZ
        ELSE [ scale  |-> "mad",
               dev    |-> 2 * (Len(history) * current - Sum(history)),
               spread |-> Len(history) * mad ]

RobustZ(current, history) ==
    LET median     == Median2(history)
        deviations == [i \in DOMAIN history |-> Abs(2 * history[i] - median)]
        mad        == Median2(deviations)
    IN  IF Len(history) < 3 THEN NoZ
        ELSE IF mad > 0
        THEN [scale |-> "mad", dev |-> 2 * current - median, spread |-> mad]
        ELSE IF Variance(history) = 0 THEN NoZ
        ELSE [ scale  |-> "std",
               dev    |-> Len(history) * current - Sum(history),
               spread |-> Variance(history) ]

\* |z| > num / den.  anomalyScore is 0 unless one of the two z-scores is beyond 1.
Beyond(z, num, den) ==
    \/ z.scale = "mad" /\ 20000 * Abs(z.dev) * den > 14826 * z.spread * num
    \/ z.scale = "std" /\ z.dev * z.dev * den * den > num * num * z.spread

\* Variant: one window too many in the baseline.
ChangeBaselineWide(s, i) ==
    LET end == i - Smaller(RecentWindows, i)
    IN  SubSeq(s, Larger(1, end - ChangeWindows), end)

\* The windows the latest ones are compared with.
ChangeBaseline(s, i) ==
    LET end == i - Smaller(RecentWindows, i)
    IN  SubSeq(s, Larger(1, end - ChangeWindows + 1), end)

\* changePointProxy: the shift of the mean over the root of the variance.
NoChange == [shift |-> NoGrowth, variance |-> <<1, 1>>]

ChangeAt(s, i) ==
    LET baseline == ChangeBaseline(s, i)
        n        == Len(baseline)
        recent   == SubSeq(s, i - Smaller(RecentWindows, i) + 1, i)
    IN  IF n = 0 \/ n < MinChangeWindows THEN NoChange
        ELSE [ shift    |-> << n * Sum(recent) - Len(recent) * Sum(baseline),
                               n * Len(recent) >>,
               variance |-> <<Larger(Variance(baseline), n * n), n * n>> ]

-----------------------------------------------------------------------------
\* Variant: the whole history.
BaselineOfAll(s, i) == SubSeq(s, 1, i - 1)

\* The readings a window is measured against.
Baseline(s, i) == Latest(SubSeq(s, 1, i - 1), BaselineWindows)

GrowthAt(s, i) == IF i = 1 THEN NoGrowth ELSE GrowthRate(s[i], s[i - 1])

\* The growth of the three series, whose weighted sum is the velocity.
Velocity(posts, users, subs, i) ==
    <<GrowthAt(posts, i), GrowthAt(users, i), GrowthAt(subs, i)>>

NoVelocity == <<NoGrowth, NoGrowth, NoGrowth>>

\* The score of the i-th of a list of windows, given the three series of counts.
\* The acceleration is the difference of the two velocities; subscribers have no
\* other part in the score.
Score(posts, users, subs, i) ==
    [ velocity     |-> Velocity(posts, users, subs, i),
      lastVelocity |-> IF i = 1 THEN NoVelocity
                       ELSE Velocity(posts, users, subs, i - 1),
      newPostsZ    |-> RobustZ(posts[i], Baseline(posts, i)),
      usersZ       |-> RobustZ(users[i], Baseline(users, i)),
      change       |-> ChangeAt(posts, i),
      sampleCount  |-> Smaller(i - 1, BaselineWindows) ]
=============================================================================
