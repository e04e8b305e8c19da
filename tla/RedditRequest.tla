--------------------------- MODULE RedditRequest ---------------------------
(***************************************************************************)
(* One call of requestJson of RedditHttpConnector: the retry loop around   *)
(* fetch, its abort timer and its delays.  The Reddit server is outside    *)
(* the repository; it may answer anything, late or never.                  *)
(*                                                                         *)
(* elapsed is the time since the call began, in ticks.  It only passes     *)
(* while the call waits for the server or sleeps, which both end, so it    *)
(* needs no bound.                                                         *)
(***************************************************************************)
EXTENDS Integers

CONSTANTS
    Retries,        \* maxRetries
    Timeout,        \* timeoutMs
    BackoffBase,    \* backoffBaseMs
    BackoffCap,     \* backoffCapMs
    JitterPercent,  \* jitterRatio
    Hints,          \* what Retry-After and x-ratelimit-reset may ask for
    LongestHint     \* bound, below the limit of setTimeout; the code accepts any hint

ASSUME RequestAssumption ==
    /\ Retries \in Nat
    /\ Timeout \in Nat \ {0}
    /\ BackoffBase \in Nat
    /\ BackoffCap \in Nat
    /\ JitterPercent \in 0 .. 100
    /\ LongestHint \in Nat
    /\ Hints \subseteq 0 .. LongestHint

NoHint == -1

VARIABLES
    step,           \* where the call is
    attempt,        \* loop counter
    elapsed,
    deadline,       \* when the abort timer of the attempt fires
    resetAt,        \* the reset of an exhausted rate limit, if the answer has one
    retryAfter,     \* the Retry-After of the answer, if it has one
    wakeAt,         \* end of the sleep
    answeredAt,     \* history: when the last attempt was answered, or broke off
    asked           \* history: the wait its answer asked for, or NoHint

vars == <<step, attempt, elapsed, deadline, resetAt, retryAfter, wakeAt, answeredAt, asked>>

\* "retryable_body" and "fatal_body": the body of an answer that is not ok is
\* being read, for a status that is worth a retry and for any other.
Steps == {"send", "wait", "ok_body", "retryable_body", "fatal_body", "sleep",
          "done", "failed"}

\* The steps that the abort timer runs over.
Waiting == {"wait", "ok_body", "retryable_body", "fatal_body"}

Init ==
    /\ step = "send"
    /\ attempt = 0
    /\ elapsed = 0
    /\ deadline = 0
    /\ resetAt = NoHint
    /\ retryAfter = NoHint
    /\ wakeAt = 0
    /\ answeredAt = 0
    /\ asked = NoHint

-----------------------------------------------------------------------------
Backoff(k) ==
    LET raw == BackoffBase * 2^k IN IF raw < BackoffCap THEN raw ELSE BackoffCap

UntilReset == IF resetAt > elapsed THEN resetAt - elapsed ELSE 0

\* Variant: the cap holds for hints too.
CappedDelayOf(k) ==
    LET hint == IF retryAfter # NoHint THEN retryAfter ELSE UntilReset
    IN  IF retryAfter # NoHint \/ resetAt # NoHint
        THEN IF hint < BackoffCap THEN hint ELSE BackoffCap
        ELSE Backoff(k)

\* computeDelayMs before jitter: Retry-After, else the reset, else backoff.  (A
\* Retry-After that is a date is counted down like a reset.)
DelayOf(k) ==
    IF retryAfter # NoHint THEN retryAfter
    ELSE IF resetAt # NoHint THEN UntilReset
    ELSE Backoff(k)

\* Variant: the jitter is only ever added, and twice as large.
JitteredUp(d) ==
    {x \in 0 .. 3 * d : /\ 100 * d <= 100 * x + 50
                        /\ 100 * x <= d * (100 + 2 * JitterPercent) + 50}

\* Math.round of d, give or take JitterPercent.
Jittered(d) ==
    {x \in 0 .. 2 * d : /\ d * (100 - JitterPercent) <= 100 * x + 50
                        /\ 100 * x <= d * (100 + JitterPercent) + 50}

\* Variant: one attempt more.
RetryLeftAtLast == attempt <= Retries

RetryLeft == attempt < Retries

GiveUp ==
    /\ step' = "failed"
    /\ UNCHANGED wakeAt

SleepFor(d) ==
    /\ step' = "sleep"
    /\ wakeAt' = elapsed + d

\* Variant: the hints outlive the attempt that they came with.
KeepAnswer == UNCHANGED <<resetAt, retryAfter>>

\* rateLimit and the headers belong to one attempt.
ForgetAnswer == resetAt' = NoHint /\ retryAfter' = NoHint

-----------------------------------------------------------------------------
\* Time passes until the abort timer fires, or until the sleep is over.
Tick ==
    /\ \/ step \in Waiting /\ elapsed < deadline
       \/ step = "sleep" /\ elapsed < wakeAt
    /\ elapsed' = elapsed + 1
    /\ UNCHANGED <<step, attempt, deadline, resetAt, retryAfter, wakeAt, answeredAt, asked>>

\* A controller and its timer, and fetch.
Send ==
    /\ step = "send"
    /\ step' = "wait"
    /\ deadline' = elapsed + Timeout
    /\ UNCHANGED <<attempt, elapsed, resetAt, retryAfter, wakeAt, answeredAt, asked>>

AnswerOk ==
    /\ step = "wait"
    /\ step' = "ok_body"
    /\ UNCHANGED <<attempt, elapsed, deadline, resetAt, retryAfter, wakeAt, answeredAt, asked>>

\* A status that is not ok; the headers may carry hints.  A reset counts only
\* when the remaining requests are at the floor.
AnswerNotOk ==
    /\ step = "wait"
    /\ step' \in {"retryable_body", "fatal_body"}
    /\ \E after, reset \in Hints \cup {NoHint} :
          /\ retryAfter' = after
          /\ resetAt' = IF reset = NoHint THEN NoHint ELSE elapsed + reset
          /\ asked' = IF after # NoHint THEN after ELSE reset
    /\ answeredAt' = elapsed
    /\ UNCHANGED <<attempt, elapsed, deadline, wakeAt>>

\* response.json() succeeds.
BodyParsed ==
    /\ step = "ok_body"
    /\ step' = "done"
    /\ UNCHANGED <<attempt, elapsed, deadline, resetAt, retryAfter, wakeAt, answeredAt, asked>>

\* A header or the body is malformed: neither error is worth a retry.
Malformed ==
    /\ step \in {"wait", "ok_body"}
    /\ step' = "failed"
    /\ UNCHANGED <<attempt, elapsed, deadline, resetAt, retryAfter, wakeAt, answeredAt, asked>>

\* The catch branch, for an error that is worth a retry: no hint is passed on
\* to computeDelayMs.
FetchThrows ==
    /\ \/ RetryLeft /\ \E d \in Jittered(DelayOf(attempt)) : SleepFor(d)
       \/ ~RetryLeft /\ GiveUp
    /\ answeredAt' = elapsed
    /\ asked' = NoHint
    /\ UNCHANGED <<attempt, elapsed, deadline, resetAt, retryAfter>>

\* fetch, or the reading of its body, throws a TypeError.
ConnectionFails ==
    /\ step \in {"wait", "ok_body"}
    /\ FetchThrows

\* Variant: the timer is cleared once the headers are there.
AbortedBeforeAnswer ==
    /\ step = "wait"
    /\ elapsed = deadline
    /\ FetchThrows

\* The timer fires: fetch, or the reading of its body, throws an AbortError.
Aborted ==
    /\ step \in {"wait", "ok_body"}
    /\ elapsed = deadline
    /\ FetchThrows

\* The error body is read, or given up when it breaks off or the timer fires.
\* A retryable status is retried while retries are left, any other is thrown.
ErrorBodyRead ==
    /\ step \in {"retryable_body", "fatal_body"}
    /\ \/ /\ step = "retryable_body" /\ RetryLeft
          /\ \E d \in Jittered(DelayOf(attempt)) : SleepFor(d)
       \/ /\ step = "fatal_body" \/ ~RetryLeft
          /\ GiveUp
    /\ UNCHANGED <<attempt, elapsed, deadline, resetAt, retryAfter, answeredAt, asked>>

\* The sleep is over: the next attempt.
Wake ==
    /\ step = "sleep"
    /\ elapsed = wakeAt
    /\ step' = "send"
    /\ attempt' = attempt + 1
    /\ ForgetAnswer
    /\ UNCHANGED <<elapsed, deadline, wakeAt, answeredAt, asked>>

Next ==
    \/ Tick \/ Send \/ AnswerOk \/ AnswerNotOk \/ BodyParsed \/ Malformed
    \/ ConnectionFails \/ Aborted \/ ErrorBodyRead \/ Wake

Spec == Init /\ [][Next]_vars

\* Time passes, timers fire and the call goes on.  Nothing is asked of the
\* server: it may be silent at any point, and may never finish a body.
Fairness ==
    /\ WF_vars(Tick) /\ WF_vars(Send) /\ WF_vars(Wake)
    /\ WF_vars(Aborted)
    /\ WF_vars(ErrorBodyRead /\ elapsed = deadline)

FairSpec == Spec /\ Fairness

-----------------------------------------------------------------------------
(* Properties.                                                             *)

TypeOK ==
    /\ step \in Steps
    /\ attempt \in 0 .. Retries
    /\ elapsed \in Nat
    /\ deadline \in Nat
    /\ resetAt \in Nat \cup {NoHint}
    /\ retryAfter \in (0 .. LongestHint) \cup {NoHint}
    /\ wakeAt \in Nat
    /\ answeredAt \in Nat
    /\ asked \in (0 .. LongestHint) \cup {NoHint}

LongestDelay == IF LongestHint > BackoffCap THEN LongestHint ELSE BackoffCap

\* The longest sleep, jitter included.
LongestSleep == (LongestDelay * (100 + JitterPercent) + 50) \div 100

\* The whole call is over within the timeouts and sleeps of its attempts: a
\* slow body, a late abort or a lost timer never adds to them.  This is what
\* one page can cost the cycle that awaits it.
TimeBudget == elapsed <= Retries * (Timeout + LongestSleep) + Timeout

\* A retry after an answer that asked for a wait comes no sooner than that,
\* less the jitter: neither the backoff and its cap nor the time spent on the
\* body cut it short.
AskedWaitKept ==
    step = "sleep" /\ asked # NoHint
    => 100 * (wakeAt - answeredAt) + 50 >= asked * (100 - JitterPercent)

\* A retry after an attempt that broke off waits for the backoff only: the
\* hint of an earlier attempt is not used again.
NoStaleHint ==
    step = "sleep" /\ asked = NoHint
    => 100 * (wakeAt - answeredAt - Timeout) <= BackoffCap * (100 + JitterPercent) + 50

\* The call ends, whatever the server does.
Settles == <>(step \in {"done", "failed"})

\* The inductive invariant behind TimeBudget: what the call may have spent by
\* each of its steps.
BudgetInv ==
    /\ TypeOK
    /\ resetAt <= elapsed + LongestHint
    /\ step = "send" => elapsed <= attempt * (Timeout + LongestSleep)
    /\ step \in Waiting \cup {"done", "failed"} =>
          /\ elapsed <= deadline
          /\ deadline <= attempt * (Timeout + LongestSleep) + Timeout
    /\ step = "sleep" =>
          /\ attempt < Retries
          /\ elapsed <= wakeAt
          /\ wakeAt <= (attempt + 1) * (Timeout + LongestSleep)
=============================================================================
