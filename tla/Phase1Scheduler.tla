-------------------------- MODULE Phase1Scheduler --------------------------
(***************************************************************************)
(* The scheduler process: main registers the signal handlers, awaits a     *)
(* first cycle when PHASE1_SCHEDULER_RUN_ON_START says so and then starts  *)
(* an interval timer that calls runCycle.  JavaScript runs one callback at *)
(* a time, so an action is what one callback does up to its next await,    *)
(* with the promise continuations that follow without another event.       *)
(*                                                                         *)
(* A cycle upserts the configured subreddits one by one and then calls     *)
(* runRedditPhase1Cycle, which is a single await here: module              *)
(* CollectionCycle says what it does.                                      *)
(***************************************************************************)
EXTENDS Integers

CONSTANTS
    RunOnBoot,      \* PHASE1_SCHEDULER_RUN_ON_START
    NumSeeds,       \* subreddits configured
    Interval,       \* PHASE1_SCHEDULER_INTERVAL_MS, in ticks
    MaxSignals      \* bound: SIGINT and SIGTERM received

ASSUME SchedulerAssumption ==
    /\ RunOnBoot \in BOOLEAN
    /\ NumSeeds \in Nat \ {0}
    /\ Interval \in Nat \ {0}
    /\ MaxSignals \in Nat

VARIABLES
    cycles,         \* the runCycle calls under way: who called, and how far
    inFlight, stopped,
    timer,          \* the interval is set
    due,            \* ticks until it fires
    closer,         \* the closeGracefully call of the first signal
    pool,           \* the connection pool
    signals,        \* number of signals received
    exited          \* process.exit was called

vars == <<cycles, inFlight, stopped, timer, due, closer, pool, signals, exited>>

\* A call is at the upsert of its k-th subreddit, or in the collection.
Caller   == {"main", "timer"}
Cycle    == [caller : Caller, step : 1 .. NumSeeds + 1]
Started(caller) == [caller |-> caller, step |-> 1]

Init ==
    /\ cycles = IF RunOnBoot THEN {Started("main")} ELSE {}
    /\ inFlight = RunOnBoot
    /\ stopped = FALSE
    /\ timer = ~RunOnBoot
    /\ due = Interval
    /\ closer = "none"
    /\ pool = "open"
    /\ signals = 0
    /\ exited = FALSE

-----------------------------------------------------------------------------
\* Variants: a guard of runCycle is left out.
MayRunUnlessStopped == ~stopped
MayRunUnlessInFlight == ~inFlight

MayRun == ~(stopped \/ inFlight)

Tick ==
    /\ ~exited
    /\ timer
    /\ due > 0
    /\ due' = due - 1
    /\ UNCHANGED <<cycles, inFlight, stopped, timer, closer, pool, signals, exited>>

\* The interval fires and runCycle gets as far as its first await.
TimerStartsCycle ==
    /\ ~exited
    /\ timer
    /\ due = 0
    /\ MayRun
    /\ due' = Interval
    /\ inFlight' = TRUE
    /\ cycles' = cycles \cup {Started("timer")}
    /\ UNCHANGED <<stopped, timer, closer, pool, signals, exited>>

\* The interval fires and runCycle returns at once: the beat is lost.
TimerSkips ==
    /\ ~exited
    /\ timer
    /\ due = 0
    /\ ~MayRun
    /\ due' = Interval
    /\ UNCHANGED <<cycles, inFlight, stopped, timer, closer, pool, signals, exited>>

\* An await of the cycle succeeds; it needs the pool.
CycleContinues(c) ==
    /\ ~exited
    /\ pool = "open"
    /\ c.step <= NumSeeds
    /\ cycles' = (cycles \ {c}) \cup {[c EXCEPT !.step = @ + 1]}
    /\ UNCHANGED <<inFlight, stopped, timer, due, closer, pool, signals, exited>>

\* Variant: inFlight is reset after the try block, not in finally.
CycleEndsKeepsFlag(c) ==
    /\ ~exited
    /\ cycles' = cycles \ {c}
    /\ \/ c.step = NumSeeds + 1 /\ inFlight' = FALSE
       \/ UNCHANGED inFlight
    /\ timer' = (timer \/ c.caller = "main")
    /\ UNCHANGED <<stopped, due, closer, pool, signals, exited>>

\* The cycle returns, or throws at any await and the error is logged; finally
\* resets inFlight.  If main awaited it, main goes on to set the interval,
\* whether or not the process is stopping.
CycleEnds(c) ==
    /\ ~exited
    /\ cycles' = cycles \ {c}
    /\ inFlight' = FALSE
    /\ timer' = (timer \/ c.caller = "main")
    /\ UNCHANGED <<stopped, due, closer, pool, signals, exited>>

-----------------------------------------------------------------------------
(* closeGracefully, then process.exit.                                     *)

\* Variant: the pool is closed without waiting for the cycle.
FirstSignalClosesAtOnce ==
    /\ ~exited
    /\ ~stopped
    /\ signals < MaxSignals
    /\ signals' = signals + 1
    /\ stopped' = TRUE
    /\ timer' = FALSE
    /\ closer' = "closing" /\ pool' = "ending"
    /\ UNCHANGED <<cycles, inFlight, due, exited>>

\* The first signal: no further cycle is started, the one under way is waited
\* for.
FirstSignal ==
    /\ ~exited
    /\ ~stopped
    /\ signals < MaxSignals
    /\ signals' = signals + 1
    /\ stopped' = TRUE
    /\ timer' = FALSE
    /\ IF inFlight
         THEN closer' = "polling" /\ UNCHANGED pool
         ELSE closer' = "closing" /\ pool' = "ending"
    /\ UNCHANGED <<cycles, inFlight, due, exited>>

\* A further signal finds stopped set: closeGracefully returns at once and the
\* process exits, whatever the first call is still waiting for.
FurtherSignal ==
    /\ ~exited
    /\ stopped
    /\ signals < MaxSignals
    /\ signals' = signals + 1
    /\ exited' = TRUE
    /\ UNCHANGED <<cycles, inFlight, stopped, timer, due, closer, pool>>

\* Variant: the loop waits for the interval to be cleared.
PollWaitsForTimer ==
    /\ ~exited
    /\ closer = "polling"
    /\ ~inFlight
    /\ ~timer
    /\ closer' = "closing"
    /\ pool' = "ending"
    /\ UNCHANGED <<cycles, inFlight, stopped, timer, due, signals, exited>>

\* The 200 ms poll finds inFlight reset.
PollSucceeds ==
    /\ ~exited
    /\ closer = "polling"
    /\ ~inFlight
    /\ closer' = "closing"
    /\ pool' = "ending"
    /\ UNCHANGED <<cycles, inFlight, stopped, timer, due, signals, exited>>

\* pool.end settles and finally exits.
PoolEnds ==
    /\ ~exited
    /\ closer = "closing"
    /\ pool' = "ended"
    /\ exited' = TRUE
    /\ UNCHANGED <<cycles, inFlight, stopped, timer, due, closer, signals>>

-----------------------------------------------------------------------------
Next ==
    \/ Tick \/ TimerStartsCycle \/ TimerSkips
    \/ \E c \in cycles : CycleContinues(c) \/ CycleEnds(c)
    \/ FirstSignal \/ FurtherSignal
    \/ PollSucceeds \/ PoolEnds

Spec == Init /\ [][Next]_vars

\* The interval fires, every await of a cycle settles (the connector gives up
\* after its timeouts), the poll is repeated and pool.end settles.
Fairness ==
    /\ WF_vars(Tick) /\ WF_vars(TimerStartsCycle) /\ WF_vars(TimerSkips)
    /\ \A caller \in Caller : \A k \in 1 .. NumSeeds + 1 :
          LET c == [caller |-> caller, step |-> k]
          IN  WF_vars(c \in cycles /\ (CycleContinues(c) \/ CycleEnds(c)))
    /\ WF_vars(PollSucceeds)
    /\ WF_vars(PoolEnds)

FairSpec == Spec /\ Fairness

-----------------------------------------------------------------------------
(* Properties.                                                             *)

TypeOK ==
    /\ cycles \subseteq Cycle
    /\ inFlight \in BOOLEAN
    /\ stopped \in BOOLEAN
    /\ timer \in BOOLEAN
    /\ due \in 0 .. Interval
    /\ closer \in {"none", "polling", "closing"}
    /\ pool \in {"open", "ending", "ended"}
    /\ signals \in 0 .. MaxSignals
    /\ exited \in BOOLEAN

\* Two cycles of the process never overlap, however long a cycle takes and
\* whoever started it, and inFlight tells whether one is under way.
NoOverlap ==
    /\ \A c, d \in cycles : c = d
    /\ inFlight <=> cycles # {}

\* The pool is never closed under a cycle.
PoolOutlivesCycles == cycles # {} => pool = "open"

\* Only a second signal cuts a cycle short.
FirstSignalIsGraceful == exited /\ cycles # {} => signals > 1

\* No cycle starts once a signal has arrived, not even when main sets the
\* interval after it.
NoStartAfterStop ==
    [][ stopped => \A c \in cycles' : \E d \in cycles : d.caller = c.caller ]_vars

\* A process that is told to stop exits.
StopExits == stopped ~> exited

\* As long as no signal arrives there is always a next cycle.
KeepsCollecting == []<>(cycles # {} \/ stopped)

\* The inductive invariant: main waits in the first cycle as long as there is
\* no interval, and the pool is closed by the call that found inFlight reset.
SchedulerInv ==
    /\ TypeOK
    /\ NoOverlap
    /\ (\E c \in cycles : c.caller = "main") => ~timer
    /\ closer # "none" <=> stopped
    /\ closer = "closing" => ~inFlight
    /\ closer # "closing" => pool = "open"
    /\ stopped <=> signals > 0
    /\ exited => signals > 1 \/ closer = "closing"
=============================================================================
