------------------------- MODULE RedditRequestProofs -------------------------
(***************************************************************************)
(* Proofs about RedditRequest, for every retry policy and every bound on   *)
(* the hints of the server.                                                *)
(***************************************************************************)
EXTENDS RedditRequest, FiniteSetTheorems, TLAPS

\* 2^n counts the subsets of 1..n.
LEMMA PowerIsNat ==
  ASSUME NEW n \in Nat
  PROVE  2^n \in Nat
  <1>1. IsFiniteSet(1..n) /\ Cardinality(1..n) = n
    BY FS_Interval
  <1>2. IsFiniteSet(SUBSET (1..n)) /\ Cardinality(SUBSET (1..n)) = 2^n
    BY <1>1, FS_SUBSET
  <1>3. QED
    BY <1>2, FS_CardinalityType

\* Without a hint computeDelayMs stays below the cap.
LEMMA BackoffType ==
  ASSUME NEW k \in Nat
  PROVE  Backoff(k) \in 0 .. BackoffCap
  <1>1. 2^k \in Nat
    BY PowerIsNat
  <1>2. BackoffBase * 2^k \in Nat
    BY <1>1, RequestAssumption
  <1>3. QED
    BY <1>2, RequestAssumption DEF Backoff

LEMMA LongestDelayType ==
  LongestDelay \in Nat /\ LongestHint <= LongestDelay /\ BackoffCap <= LongestDelay
  BY RequestAssumption DEF LongestDelay

\* A product with a natural number respects the order.
LEMMA ProductOrder ==
  ASSUME NEW a \in Nat, NEW b \in Nat, NEW c \in Nat, a <= b
  PROVE  a * c <= b * c
  <1>1. (b - a) * c \in Nat
    OBVIOUS
  <1>2. b * c = a * c + (b - a) * c
    OBVIOUS
  <1>3. QED
    BY <1>1, <1>2

\* Jitter adds its share and no more to a delay.
LEMMA JitterBound ==
  ASSUME NEW d \in 0 .. LongestDelay, NEW x \in Jittered(d)
  PROVE  x \in Nat /\ x <= LongestSleep
  <1>1. x \in Nat /\ 100 * x <= d * (100 + JitterPercent) + 50
    BY LongestDelayType DEF Jittered
  <1>2. d * (100 + JitterPercent) <= LongestDelay * (100 + JitterPercent)
    BY ProductOrder, LongestDelayType, RequestAssumption
  <1> DEFINE top == LongestDelay * (100 + JitterPercent) + 50
  <1>3. top \in Nat
    BY LongestDelayType, RequestAssumption
  <1>4. d * (100 + JitterPercent) \in Nat
    BY LongestDelayType, RequestAssumption
  <1>5. LongestDelay * (100 + JitterPercent) \in Nat
    BY LongestDelayType, RequestAssumption
  <1>6. 100 * x <= top
    BY <1>1, <1>2, <1>4, <1>5
  <1> HIDE DEF top
  <1>7. x <= top \div 100
    BY <1>1, <1>3, <1>6
  <1>8. QED
    BY <1>1, <1>7 DEF LongestSleep, top

LEMMA LongestSleepType == LongestSleep \in Nat
  <1> DEFINE top == LongestDelay * (100 + JitterPercent) + 50
  <1>1. top \in Nat
    BY LongestDelayType, RequestAssumption
  <1> HIDE DEF top
  <1>2. top \div 100 \in Nat
    BY <1>1
  <1>3. QED
    BY <1>2 DEF LongestSleep, top

\* One more attempt, one more slot of the budget.
LEMMA NextSlot ==
  ASSUME NEW k \in Nat, NEW slot \in Nat
  PROVE  k * slot \in Nat /\ (k + 1) * slot = k * slot + slot
  OBVIOUS

\* The delay of an attempt, with or without a hint.
LEMMA DelayType ==
  ASSUME BudgetInv
  PROVE  DelayOf(attempt) \in 0 .. LongestDelay
  <1> USE DEF BudgetInv, TypeOK
  <1>1. Backoff(attempt) \in 0 .. LongestDelay
    BY BackoffType, LongestDelayType, RequestAssumption
  <1>2. UntilReset \in 0 .. LongestHint
    BY RequestAssumption DEF UntilReset, NoHint
  <1>3. UntilReset \in 0 .. LongestDelay
    BY <1>2, LongestDelayType, RequestAssumption
  <1>4. retryAfter # NoHint => retryAfter \in 0 .. LongestDelay
    BY LongestDelayType, RequestAssumption
  <1>5. QED
    BY <1>1, <1>3, <1>4 DEF DelayOf

\* A sleep fits the slot of its attempt.
LEMMA SleepFits ==
  ASSUME BudgetInv, step \in Waiting, RetryLeft,
         NEW d \in Jittered(DelayOf(attempt)), SleepFor(d)
  PROVE  /\ wakeAt' \in Nat
         /\ elapsed <= wakeAt'
         /\ wakeAt' <= (attempt + 1) * (Timeout + LongestSleep)
  <1> USE DEF BudgetInv, TypeOK
  <1>1. d \in Nat /\ d <= LongestSleep
    BY DelayType, JitterBound
  <1> DEFINE slot == Timeout + LongestSleep
  <1>2. slot \in Nat
    BY LongestSleepType, RequestAssumption
  <1>3. attempt \in Nat
    BY RequestAssumption
  <1>4. attempt * slot \in Nat /\ (attempt + 1) * slot = attempt * slot + slot
    BY <1>2, <1>3, NextSlot
  <1>5. elapsed <= attempt * slot + Timeout
    BY <1>4, RequestAssumption
  <1>6. wakeAt' = elapsed + d
    BY DEF SleepFor
  <1>7. QED
    BY <1>1, <1>4, <1>5, <1>6, LongestSleepType, RequestAssumption

LEMMA InitBudgetInv == Init => BudgetInv
  <1> SUFFICES ASSUME Init PROVE BudgetInv
    OBVIOUS
  <1>1. 0 * (Timeout + LongestSleep) = 0
    BY LongestSleepType, RequestAssumption
  <1>2. QED
    BY <1>1, RequestAssumption DEF Init, BudgetInv, TypeOK, Steps, Waiting, NoHint

\* An attempt ends in a sleep or in a failure.
LEMMA AttemptEnds ==
  ASSUME BudgetInv, step \in Waiting,
         \/ RetryLeft /\ \E d \in Jittered(DelayOf(attempt)) : SleepFor(d)
         \/ GiveUp,
         answeredAt' \in Nat,
         asked' \in (0 .. LongestHint) \cup {NoHint},
         UNCHANGED <<attempt, elapsed, deadline, resetAt, retryAfter>>
  PROVE  BudgetInv'
  <1> USE DEF BudgetInv, TypeOK
  <1>1. CASE GiveUp
    BY <1>1 DEF GiveUp, Steps, Waiting
  <1>2. ASSUME RetryLeft, NEW d \in Jittered(DelayOf(attempt)), SleepFor(d)
        PROVE  BudgetInv'
    <2>1. /\ wakeAt' \in Nat
          /\ elapsed <= wakeAt'
          /\ wakeAt' <= (attempt + 1) * (Timeout + LongestSleep)
      BY <1>2, SleepFits
    <2>2. step' = "sleep" /\ attempt < Retries
      BY <1>2 DEF SleepFor, RetryLeft
    <2>3. TypeOK'
      BY <2>1, <2>2 DEF Steps
    <2>4. QED
      BY <2>1, <2>2, <2>3 DEF Waiting
  <1>3. QED
    BY <1>1, <1>2

LEMMA StepBudgetInv == BudgetInv /\ [Next]_vars => BudgetInv'
  <1> SUFFICES ASSUME BudgetInv, [Next]_vars PROVE BudgetInv'
    OBVIOUS
  <1> DEFINE slot == Timeout + LongestSleep
  <1> USE DEF BudgetInv, TypeOK
  <1>0. slot \in Nat /\ attempt \in Nat /\ attempt * slot \in Nat
    BY LongestSleepType, NextSlot, RequestAssumption
  <1>1. CASE Tick
    <2>1. elapsed' = elapsed + 1
      BY <1>1 DEF Tick
    <2>2. step \in Waiting => elapsed' <= deadline
      BY <1>1, <2>1 DEF Tick, Waiting
    <2>3. step = "sleep" => elapsed' <= wakeAt
      BY <1>1, <2>1 DEF Tick, Waiting
    <2>4. step \in Waiting \cup {"sleep"}
      BY <1>1 DEF Tick
    <2>5. UNCHANGED <<step, attempt, deadline, resetAt, retryAfter, wakeAt, answeredAt, asked>>
      BY <1>1 DEF Tick
    <2>6. TypeOK'
      BY <2>1, <2>5
    <2>7. resetAt' <= elapsed' + LongestHint
      BY <2>1, <2>5, RequestAssumption DEF NoHint
    <2>8. QED
      BY <2>2, <2>3, <2>4, <2>5, <2>6, <2>7 DEF Waiting
  <1>2. CASE Send
    <2>1. step' = "wait" /\ deadline' = elapsed + Timeout
      BY <1>2 DEF Send
    <2>2. deadline' <= attempt * slot + Timeout /\ elapsed <= deadline' /\ deadline' \in Nat
      BY <1>0, <1>2, <2>1, RequestAssumption DEF Send
    <2>3. UNCHANGED <<attempt, elapsed, resetAt, retryAfter, wakeAt, answeredAt, asked>>
      BY <1>2 DEF Send
    <2>4. TypeOK'
      BY <2>1, <2>2, <2>3 DEF Steps
    <2>5. QED
      BY <2>1, <2>2, <2>3, <2>4 DEF Waiting
  <1>3. CASE AnswerOk \/ BodyParsed \/ Malformed
    <2>1. /\ step \in Waiting
          /\ step' \in {"ok_body", "done", "failed"}
          /\ UNCHANGED <<attempt, elapsed, deadline, resetAt, retryAfter, wakeAt, answeredAt, asked>>
      BY <1>3 DEF AnswerOk, BodyParsed, Malformed, Waiting
    <2>2. QED
      BY <2>1 DEF Steps, Waiting
  <1>4. CASE AnswerNotOk
    <2>1. /\ step \in Waiting
          /\ step' \in {"retryable_body", "fatal_body"}
          /\ answeredAt' = elapsed
          /\ UNCHANGED <<attempt, elapsed, deadline, wakeAt>>
      BY <1>4 DEF AnswerNotOk, Waiting
    <2>2. PICK after \in Hints \cup {NoHint}, reset \in Hints \cup {NoHint} :
             /\ retryAfter' = after
             /\ resetAt' = IF reset = NoHint THEN NoHint ELSE elapsed + reset
             /\ asked' = IF after # NoHint THEN after ELSE reset
      BY <1>4 DEF AnswerNotOk
    <2>3. /\ retryAfter' \in (0 .. LongestHint) \cup {NoHint}
          /\ resetAt' \in Nat \cup {NoHint}
          /\ resetAt' <= elapsed + LongestHint
          /\ asked' \in (0 .. LongestHint) \cup {NoHint}
      BY <2>2, RequestAssumption DEF NoHint
    <2>4. TypeOK'
      BY <2>1, <2>3 DEF Steps
    <2>5. QED
      BY <2>1, <2>3, <2>4 DEF Waiting
  <1>5. CASE ConnectionFails \/ Aborted
    <2>1. step \in Waiting /\ FetchThrows
      BY <1>5 DEF ConnectionFails, Aborted, Waiting
    <2>2. QED
      BY <2>1, AttemptEnds DEF FetchThrows
  <1>6. CASE ErrorBodyRead
    <2>1. step \in Waiting
      BY <1>6 DEF ErrorBodyRead, Waiting
    <2>2. QED
      BY <1>6, <2>1, AttemptEnds DEF ErrorBodyRead
  <1>7. CASE Wake
    <2>1. /\ step = "sleep" /\ step' = "send"
          /\ elapsed = wakeAt
          /\ attempt' = attempt + 1
          /\ resetAt' = NoHint /\ retryAfter' = NoHint
          /\ UNCHANGED <<elapsed, deadline, wakeAt, answeredAt, asked>>
      BY <1>7 DEF Wake, ForgetAnswer
    <2>2. attempt' \in 0 .. Retries
      BY <2>1, RequestAssumption
    <2>3. TypeOK'
      BY <2>1, <2>2 DEF Steps
    <2>4. elapsed' <= attempt' * slot
      BY <2>1
    <2>5. resetAt' <= elapsed' + LongestHint
      BY <2>1, RequestAssumption DEF NoHint
    <2>6. QED
      BY <2>1, <2>3, <2>4, <2>5 DEF Waiting
  <1>8. CASE UNCHANGED vars
    BY <1>8 DEF vars, Waiting
  <1>9. QED
    BY <1>1, <1>2, <1>3, <1>4, <1>5, <1>6, <1>7, <1>8 DEF Next

\* The budget of each step is within the budget of the call.
LEMMA BudgetImplied == BudgetInv => TimeBudget
  <1> SUFFICES ASSUME BudgetInv PROVE TimeBudget
    OBVIOUS
  <1> DEFINE slot == Timeout + LongestSleep
  <1> USE DEF BudgetInv, TypeOK
  <1>1. slot \in Nat /\ attempt \in Nat /\ attempt + 1 \in Nat /\ Retries \in Nat
    BY LongestSleepType, RequestAssumption
  <1>2. attempt * slot <= Retries * slot
    BY <1>1, ProductOrder
  <1>3. attempt < Retries => (attempt + 1) * slot <= Retries * slot
    BY <1>1, ProductOrder
  <1>4. attempt * slot \in Nat /\ (attempt + 1) * slot \in Nat /\ Retries * slot \in Nat
    BY <1>1, NextSlot
  <1> HIDE DEF slot
  <1>5. CASE step = "send"
    BY <1>2, <1>4, <1>5, RequestAssumption DEF TimeBudget, slot
  <1>6. CASE step = "sleep"
    BY <1>3, <1>4, <1>6, RequestAssumption DEF TimeBudget, slot
  <1>7. CASE step \in Waiting \cup {"done", "failed"}
    BY <1>2, <1>4, <1>7, RequestAssumption DEF TimeBudget, slot
  <1>8. QED
    BY <1>5, <1>6, <1>7 DEF Steps, Waiting

\* What a call may have spent by each of its steps (BudgetInv is inductive).
THEOREM BudgetInvariance == Spec => []BudgetInv
  <1>1. QED
    BY InitBudgetInv, StepBudgetInv, PTL DEF Spec

\* requestJson holds its caller no longer than the timeouts and the jittered
\* sleeps of maxRetries + 1 attempts, for every policy and every server whose
\* hints are bounded.
THEOREM CallIsBounded == Spec => []TimeBudget
  <1>1. QED
    BY BudgetInvariance, BudgetImplied, PTL

\* The variables keep their types; in particular there are never more than
\* maxRetries + 1 attempts.
THEOREM RequestTyping == Spec => []TypeOK
  <1>1. BudgetInv => TypeOK
    BY DEF BudgetInv
  <1>2. QED
    BY <1>1, BudgetInvariance, PTL

-----------------------------------------------------------------------------
(* The waits between attempts.                                             *)

\* No attempt waits for its answer longer than its timer lets it.
TimerInv ==
    /\ step \in {"wait", "ok_body"} => elapsed <= deadline /\ deadline <= elapsed + Timeout
    /\ step \in {"retryable_body", "fatal_body"} =>
          /\ answeredAt <= elapsed
          /\ elapsed <= deadline
          /\ deadline <= answeredAt + Timeout

\* The hints in force are those of the last answer, and none before there is one.
HintsFit ==
    /\ step \in {"send", "wait", "ok_body"} => retryAfter = NoHint /\ resetAt = NoHint
    /\ step \in {"retryable_body", "fatal_body"} =>
          IF retryAfter # NoHint THEN asked = retryAfter
          ELSE IF resetAt # NoHint THEN asked # NoHint /\ resetAt = answeredAt + asked
          ELSE asked = NoHint

\* The inductive invariant behind AskedWaitKept and NoStaleHint.
WaitInv == TypeOK /\ TimerInv /\ HintsFit /\ AskedWaitKept /\ NoStaleHint

\* Jitter takes at most its share off a delay, and adds at most that.
LEMMA JitterShare ==
  ASSUME NEW d \in Nat, NEW x \in Jittered(d)
  PROVE  /\ x \in Nat
         /\ d * (100 - JitterPercent) <= 100 * x + 50
         /\ 100 * x <= d * (100 + JitterPercent) + 50
  BY DEF Jittered

\* What is left of a wait after some of it has passed, less its jitter, is no
\* less than the wait less its jitter, less what has passed.
LEMMA WaitCountedDown ==
  ASSUME NEW wait \in Nat, NEW passed \in Nat, passed <= wait
  PROVE  wait * (100 - JitterPercent)
           <= 100 * passed + (wait - passed) * (100 - JitterPercent)
  <1> DEFINE share == 100 - JitterPercent
  <1>1. share \in Nat /\ share <= 100
    BY RequestAssumption
  <1>2. wait * share = passed * share + (wait - passed) * share
    BY <1>1
  <1>3. share * passed <= 100 * passed
    BY <1>1, ProductOrder
  <1>4. share * passed = passed * share
    BY <1>1
  <1>5. passed * share \in Nat /\ (wait - passed) * share \in Nat
    BY <1>1
  <1> HIDE DEF share
  <1>6. wait * share <= 100 * passed + (wait - passed) * share
    BY <1>2, <1>3, <1>4, <1>5
  <1>7. QED
    BY <1>6 DEF share

\* A wait that has passed already is kept.
LEMMA WaitOver ==
  ASSUME NEW wait \in Nat, NEW passed \in Nat, wait <= passed
  PROVE  wait * (100 - JitterPercent) <= 100 * passed
  <1> DEFINE share == 100 - JitterPercent
  <1>1. share \in Nat /\ share <= 100
    BY RequestAssumption
  <1>2. share * wait <= 100 * wait
    BY <1>1, ProductOrder
  <1>3. share * wait = wait * share
    BY <1>1
  <1> HIDE DEF share
  <1>4. wait * share <= 100 * passed
    BY <1>1, <1>2, <1>3
  <1>5. QED
    BY <1>4 DEF share

\* A backoff, jitter included, stays below the cap, jitter included.
LEMMA BackoffShare ==
  ASSUME NEW k \in Nat, NEW d \in Jittered(Backoff(k))
  PROVE  d \in Nat /\ 100 * d <= BackoffCap * (100 + JitterPercent) + 50
  <1> DEFINE b == Backoff(k)
             share == 100 + JitterPercent
  <1>1. b \in Nat /\ b <= BackoffCap /\ BackoffCap \in Nat /\ share \in Nat
    BY BackoffType, RequestAssumption
  <1>2. d \in Nat /\ 100 * d <= b * share + 50
    BY <1>1, JitterShare
  <1>3. b * share <= BackoffCap * share
    BY <1>1, ProductOrder
  <1>4. b * share \in Nat /\ BackoffCap * share \in Nat
    BY <1>1
  <1> HIDE DEF b, share
  <1>5. 100 * d <= BackoffCap * share + 50
    BY <1>1, <1>2, <1>3, <1>4
  <1>6. QED
    BY <1>2, <1>5 DEF share

\* The sleep after an answer keeps what the answer asked for.
LEMMA SleepAfterAnswer ==
  ASSUME WaitInv, step = "retryable_body",
         NEW d \in Jittered(DelayOf(attempt)), SleepFor(d),
         UNCHANGED <<answeredAt, asked>>
  PROVE  AskedWaitKept' /\ NoStaleHint' /\ wakeAt' \in Nat
  <1> USE DEF WaitInv, TypeOK
  <1> DEFINE share == 100 - JitterPercent
             passed == elapsed - answeredAt
             jittered == BackoffCap * (100 + JitterPercent)
  <1>1. passed \in Nat /\ passed <= Timeout /\ elapsed = answeredAt + passed
    BY RequestAssumption DEF TimerInv
  <1>2. attempt \in Nat /\ share \in Nat /\ jittered \in Nat
    BY RequestAssumption
  <1>3. wakeAt' = elapsed + d
    BY DEF SleepFor
  <1>4. CASE retryAfter # NoHint
    <2>1. asked = retryAfter /\ DelayOf(attempt) = asked /\ asked \in Nat /\ asked # NoHint
      BY <1>4, RequestAssumption DEF HintsFit, DelayOf, NoHint
    <2>2. d \in Nat /\ asked * share <= 100 * d + 50
      BY <2>1, JitterShare
    <2>3. asked * share \in Nat
      BY <1>2, <2>1
    <2> HIDE DEF share, passed
    <2>4. 100 * (wakeAt' - answeredAt) + 50 >= asked * share
      BY <1>1, <1>3, <2>2, <2>3
    <2>5. QED
      BY <1>1, <1>3, <2>1, <2>2, <2>4 DEF AskedWaitKept, NoStaleHint, share
  <1>5. CASE retryAfter = NoHint /\ resetAt # NoHint
    <2>1. asked \in Nat /\ asked # NoHint /\ resetAt = answeredAt + asked
      BY <1>5, RequestAssumption DEF HintsFit, NoHint
    <2>2. DelayOf(attempt) = IF asked > passed THEN asked - passed ELSE 0
      BY <1>1, <1>5, <2>1 DEF DelayOf, UntilReset
    <2> HIDE DEF share, passed
    <2>3. d \in Nat /\ asked * share <= 100 * (passed + d) + 50
      <3>1. CASE asked > passed
        <4>1. asked - passed \in Nat /\ passed <= asked
          BY <1>1, <2>1, <3>1
        <4>2. d \in Nat /\ (asked - passed) * share <= 100 * d + 50
          BY <2>2, <3>1, <4>1, JitterShare DEF share
        <4>3. asked * share <= 100 * passed + (asked - passed) * share
          BY <1>1, <2>1, <4>1, WaitCountedDown DEF share
        <4>4. asked * share \in Nat /\ (asked - passed) * share \in Nat
          BY <1>2, <2>1, <4>1
        <4>5. QED
          BY <1>1, <4>2, <4>3, <4>4
      <3>2. CASE asked <= passed
        <4>1. d \in Nat
          BY <1>1, <2>1, <2>2, <3>2, JitterShare
        <4>2. asked * share <= 100 * passed
          BY <1>1, <2>1, <3>2, WaitOver DEF share
        <4>3. asked * share \in Nat
          BY <1>2, <2>1
        <4>4. QED
          BY <1>1, <4>1, <4>2, <4>3
      <3>3. QED
        BY <1>1, <2>1, <3>1, <3>2
    <2>4. 100 * (wakeAt' - answeredAt) + 50 >= asked * share
      <3>1. wakeAt' - answeredAt = passed + d
        BY <1>1, <1>3, <2>3
      <3>2. asked * share \in Nat
        BY <1>2, <2>1
      <3>3. QED
        BY <1>1, <2>3, <3>1, <3>2
    <2>5. QED
      BY <1>1, <1>3, <2>1, <2>3, <2>4 DEF AskedWaitKept, NoStaleHint, share
  <1>6. CASE retryAfter = NoHint /\ resetAt = NoHint
    <2>1. asked = NoHint /\ DelayOf(attempt) = Backoff(attempt)
      BY <1>6 DEF HintsFit, DelayOf
    <2>2. d \in Nat /\ 100 * d <= jittered + 50
      BY <1>2, <2>1, BackoffShare
    <2> HIDE DEF passed, jittered
    <2>3. 100 * (wakeAt' - answeredAt - Timeout) <= jittered + 50
      BY <1>1, <1>2, <1>3, <2>2, RequestAssumption
    <2>4. QED
      BY <1>3, <2>1, <2>2, <2>3 DEF AskedWaitKept, NoStaleHint, jittered
  <1>7. QED
    BY <1>4, <1>5, <1>6

\* The sleep after an attempt without an answer is a backoff.
LEMMA SleepAfterThrow ==
  ASSUME WaitInv, step \in {"wait", "ok_body"},
         NEW d \in Jittered(DelayOf(attempt)), SleepFor(d),
         answeredAt' = elapsed, asked' = NoHint
  PROVE  AskedWaitKept' /\ NoStaleHint' /\ wakeAt' \in Nat
  <1> USE DEF WaitInv, TypeOK
  <1> DEFINE jittered == BackoffCap * (100 + JitterPercent)
  <1>1. attempt \in Nat /\ jittered \in Nat
    BY RequestAssumption
  <1>2. wakeAt' = elapsed + d
    BY DEF SleepFor
  <1>3. DelayOf(attempt) = Backoff(attempt)
    BY DEF HintsFit, DelayOf
  <1>4. d \in Nat /\ 100 * d <= jittered + 50
    BY <1>1, <1>3, BackoffShare
  <1> HIDE DEF jittered
  <1>5. 100 * (wakeAt' - answeredAt' - Timeout) <= jittered + 50
    BY <1>1, <1>2, <1>4, RequestAssumption
  <1>6. QED
    BY <1>2, <1>4, <1>5 DEF AskedWaitKept, NoStaleHint, jittered

LEMMA InitWaitInv == Init => WaitInv
  <1> SUFFICES ASSUME Init PROVE WaitInv
    OBVIOUS
  <1>1. TypeOK
    BY InitBudgetInv DEF BudgetInv
  <1>2. QED
    BY <1>1 DEF Init, WaitInv, TimerInv, HintsFit, AskedWaitKept, NoStaleHint

\* The timers and hints of the next attempt, step by step.
LEMMA StepTimers ==
  ASSUME WaitInv, [Next]_vars
  PROVE  TimerInv' /\ HintsFit'
  <1> USE DEF WaitInv, TypeOK, TimerInv, HintsFit
  <1>1. CASE Tick
    BY <1>1, RequestAssumption DEF Tick, Waiting
  <1>2. CASE Send
    BY <1>2, RequestAssumption DEF Send
  <1>3. CASE AnswerOk \/ BodyParsed \/ Malformed
    BY <1>3 DEF AnswerOk, BodyParsed, Malformed
  <1>4. CASE AnswerNotOk
    <2>1. /\ step = "wait"
          /\ step' \in {"retryable_body", "fatal_body"}
          /\ answeredAt' = elapsed
          /\ UNCHANGED <<attempt, elapsed, deadline, wakeAt>>
      BY <1>4 DEF AnswerNotOk
    <2>2. PICK after \in Hints \cup {NoHint}, reset \in Hints \cup {NoHint} :
             /\ retryAfter' = after
             /\ resetAt' = IF reset = NoHint THEN NoHint ELSE elapsed + reset
             /\ asked' = IF after # NoHint THEN after ELSE reset
      BY <1>4 DEF AnswerNotOk
    <2>3. reset # NoHint => elapsed + reset \in Nat /\ elapsed + reset # NoHint
      BY RequestAssumption DEF NoHint
    <2>4. TimerInv'
      BY <2>1
    <2>5. HintsFit'
      BY <2>1, <2>2, <2>3
    <2>6. QED
      BY <2>4, <2>5
  <1>5. CASE ConnectionFails \/ Aborted \/ ErrorBodyRead
    <2>1. step' \in {"sleep", "failed"}
      BY <1>5 DEF ConnectionFails, Aborted, ErrorBodyRead, FetchThrows, SleepFor, GiveUp
    <2>2. QED
      BY <2>1
  <1>6. CASE Wake
    BY <1>6 DEF Wake, ForgetAnswer
  <1>7. CASE UNCHANGED vars
    BY <1>7 DEF vars
  <1>8. QED
    BY <1>1, <1>2, <1>3, <1>4, <1>5, <1>6, <1>7 DEF Next

\* A sleep begins as the wait it has to be, and then neither its end nor what
\* it answers to changes.
LEMMA StepWaits ==
  ASSUME WaitInv, [Next]_vars
  PROVE  AskedWaitKept' /\ NoStaleHint'
  <1>1. CASE ConnectionFails \/ Aborted
    <2>1. step \in {"wait", "ok_body"} /\ FetchThrows
      BY <1>1 DEF ConnectionFails, Aborted
    <2>2. CASE GiveUp
      BY <2>2 DEF GiveUp, AskedWaitKept, NoStaleHint
    <2>3. ASSUME NEW d \in Jittered(DelayOf(attempt)), SleepFor(d)
          PROVE  AskedWaitKept' /\ NoStaleHint'
      BY <2>1, <2>3, SleepAfterThrow DEF FetchThrows
    <2>4. QED
      BY <2>1, <2>2, <2>3 DEF FetchThrows
  <1>2. CASE ErrorBodyRead
    <2>1. CASE GiveUp
      BY <2>1 DEF GiveUp, AskedWaitKept, NoStaleHint
    <2>2. ASSUME step = "retryable_body",
                 NEW d \in Jittered(DelayOf(attempt)), SleepFor(d)
          PROVE  AskedWaitKept' /\ NoStaleHint'
      BY <1>2, <2>2, SleepAfterAnswer DEF ErrorBodyRead
    <2>3. QED
      BY <1>2, <2>1, <2>2 DEF ErrorBodyRead
  <1>3. CASE \/ Tick \/ UNCHANGED vars
             \/ Send \/ AnswerOk \/ AnswerNotOk \/ BodyParsed \/ Malformed \/ Wake
    <2>1. \/ step' # "sleep"
          \/ UNCHANGED <<step, wakeAt, answeredAt, asked>>
      BY <1>3 DEF Tick, Send, AnswerOk, AnswerNotOk, BodyParsed, Malformed, Wake, vars
    <2>2. QED
      BY <2>1 DEF WaitInv, AskedWaitKept, NoStaleHint
  <1>4. QED
    BY <1>1, <1>2, <1>3 DEF Next

\* The hints and timers that a wait is computed from belong to its own attempt
\* (WaitInv is inductive, beside the budget).
THEOREM WaitInvariance == Spec => []WaitInv
  <1>1. BudgetInv /\ WaitInv /\ [Next]_vars => BudgetInv' /\ WaitInv'
    BY StepBudgetInv, StepTimers, StepWaits DEF WaitInv, BudgetInv
  <1>2. QED
    BY <1>1, InitBudgetInv, InitWaitInv, PTL DEF Spec

\* A retry never comes sooner than the answer asked for, less the jitter, for
\* every policy: no cap and no slow body cuts a wait short.
THEOREM WaitsAreKept == Spec => []AskedWaitKept
  <1>1. WaitInv => AskedWaitKept
    BY DEF WaitInv
  <1>2. QED
    BY <1>1, WaitInvariance, PTL

\* A retry after an attempt without an answer waits for the backoff only.
THEOREM HintsAreNotReused == Spec => []NoStaleHint
  <1>1. WaitInv => NoStaleHint
    BY DEF WaitInv
  <1>2. QED
    BY <1>1, WaitInvariance, PTL
=============================================================================
