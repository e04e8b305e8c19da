----------------------- MODULE Phase1SchedulerProofs -----------------------
(***************************************************************************)
(* Proofs about Phase1Scheduler, for any number of subreddits and signals  *)
(* and any interval.                                                       *)
(***************************************************************************)
EXTENDS Phase1Scheduler, TLAPS

\* A call starts, and goes on, as a call of its caller.
LEMMA StartedIsCycle ==
  ASSUME NEW caller \in Caller
  PROVE  Started(caller) \in Cycle /\ Started(caller).caller = caller
  BY SchedulerAssumption DEF Started, Cycle

LEMMA ContinuedIsCycle ==
  ASSUME NEW c \in Cycle, c.step <= NumSeeds
  PROVE  /\ [c EXCEPT !.step = @ + 1] \in Cycle
         /\ [c EXCEPT !.step = @ + 1].caller = c.caller
  BY SchedulerAssumption DEF Cycle

LEMMA InitSchedulerInv == Init => SchedulerInv
  <1> SUFFICES ASSUME Init PROVE SchedulerInv
    OBVIOUS
  <1> USE SchedulerAssumption
  <1>1. Started("main") \in Cycle /\ Started("main").caller = "main"
    BY StartedIsCycle DEF Caller
  <1>2. TypeOK
    <2>1. cycles \subseteq Cycle
      BY <1>1 DEF Init
    <2>2. inFlight \in BOOLEAN /\ timer \in BOOLEAN
      BY Zenon DEF Init
    <2>3. due \in 0 .. Interval /\ signals \in 0 .. MaxSignals
      BY DEF Init
    <2>4. /\ stopped \in BOOLEAN /\ exited \in BOOLEAN
          /\ closer \in {"none", "polling", "closing"}
          /\ pool \in {"open", "ending", "ended"}
      BY Zenon DEF Init
    <2>5. QED
      BY <2>1, <2>2, <2>3, <2>4, Zenon DEF TypeOK
  <1>3. NoOverlap
    BY Zenon DEF Init, NoOverlap
  <1>4. (\E c \in cycles : c.caller = "main") => ~timer
    BY Zenon DEF Init
  <1>5. /\ closer # "none" <=> stopped
        /\ closer = "closing" => ~inFlight
        /\ closer # "closing" => pool = "open"
        /\ stopped <=> signals > 0
        /\ exited => signals > 1 \/ closer = "closing"
    BY DEF Init
  <1>6. QED
    BY <1>2, <1>3, <1>4, <1>5, Zenon DEF SchedulerInv

LEMMA StepSchedulerInv == SchedulerInv /\ [Next]_vars => SchedulerInv'
  <1> SUFFICES ASSUME SchedulerInv, [Next]_vars PROVE SchedulerInv'
    OBVIOUS
  <1> USE DEF SchedulerInv, TypeOK, NoOverlap
  <1>1. CASE Tick
    BY <1>1, SchedulerAssumption DEF Tick
  <1>2. CASE TimerStartsCycle
    <2>1. cycles = {}
      BY <1>2 DEF TimerStartsCycle, MayRun
    <2>2. cycles' = {Started("timer")}
      BY <1>2, <2>1 DEF TimerStartsCycle
    <2>3. Started("timer") \in Cycle /\ Started("timer").caller = "timer"
      BY StartedIsCycle DEF Caller
    <2>4. ~stopped
      BY <1>2 DEF TimerStartsCycle, MayRun
    <2>5. QED
      BY <1>2, <2>2, <2>3, <2>4, SchedulerAssumption DEF TimerStartsCycle
  <1>3. CASE TimerSkips
    BY <1>3, SchedulerAssumption DEF TimerSkips
  <1>4. ASSUME NEW c \in cycles, CycleContinues(c) PROVE SchedulerInv'
    <2>1. cycles' = {[c EXCEPT !.step = @ + 1]}
      BY <1>4 DEF CycleContinues
    <2>2. /\ [c EXCEPT !.step = @ + 1] \in Cycle
          /\ [c EXCEPT !.step = @ + 1].caller = c.caller
      BY <1>4, ContinuedIsCycle DEF CycleContinues
    <2>3. QED
      BY <1>4, <2>1, <2>2 DEF CycleContinues
  <1>5. ASSUME NEW c \in cycles, CycleEnds(c) PROVE SchedulerInv'
    <2>1. cycles' = {}
      BY <1>5 DEF CycleEnds
    <2>2. QED
      BY <1>5, <2>1 DEF CycleEnds
  <1>6. CASE FirstSignal
    <2>1. signals' \in 0 .. MaxSignals /\ signals' > 0
      BY <1>6, SchedulerAssumption DEF FirstSignal
    <2>2. CASE inFlight
      BY <1>6, <2>1, <2>2 DEF FirstSignal
    <2>3. CASE ~inFlight
      BY <1>6, <2>1, <2>3 DEF FirstSignal
    <2>4. QED
      BY <2>2, <2>3
  <1>7. CASE FurtherSignal
    BY <1>7, SchedulerAssumption DEF FurtherSignal
  <1>8. CASE PollSucceeds
    BY <1>8 DEF PollSucceeds
  <1>9. CASE PoolEnds
    BY <1>9 DEF PoolEnds
  <1>10. CASE UNCHANGED vars
    BY <1>10 DEF vars
  <1>11. QED
    BY <1>1, <1>2, <1>3, <1>4, <1>5, <1>6, <1>7, <1>8, <1>9, <1>10 DEF Next

\* The invariant holds in every reachable state.
THEOREM SchedulerInvariance == Spec => []SchedulerInv
  BY InitSchedulerInv, StepSchedulerInv, PTL DEF Spec

\* The inFlight flag is a lock: cycles of one process never overlap.
THEOREM CyclesNeverOverlap == Spec => []NoOverlap
  <1>1. SchedulerInv => NoOverlap
    BY DEF SchedulerInv
  <1>2. QED
    BY SchedulerInvariance, <1>1, PTL

\* closeGracefully never closes the pool while a cycle is under way.
THEOREM PoolIsSafe == Spec => []PoolOutlivesCycles
  <1>1. SchedulerInv => PoolOutlivesCycles
    BY DEF SchedulerInv, NoOverlap, PoolOutlivesCycles
  <1>2. QED
    BY SchedulerInvariance, <1>1, PTL

\* One signal never cuts a cycle short.
THEOREM OneSignalIsGraceful == Spec => []FirstSignalIsGraceful
  <1>1. SchedulerInv => FirstSignalIsGraceful
    BY DEF SchedulerInv, NoOverlap, FirstSignalIsGraceful
  <1>2. QED
    BY SchedulerInvariance, <1>1, PTL

\* After the first signal there is no new cycle.
THEOREM NothingStartsAfterStop == Spec => NoStartAfterStop
  <1> DEFINE NoStart ==
        stopped => \A c \in cycles' : \E d \in cycles : d.caller = c.caller
  <1>1. SchedulerInv /\ [Next]_vars => [NoStart]_vars
    <2> SUFFICES ASSUME SchedulerInv, Next, stopped,
                        NEW c \in cycles'
                 PROVE  \E d \in cycles : d.caller = c.caller
      BY DEF vars
    <2>1. CASE c \in cycles
      BY <2>1
    <2>2. ASSUME NEW d \in cycles, CycleContinues(d), c \notin cycles
          PROVE  d.caller = c.caller
      BY <2>2, ContinuedIsCycle DEF CycleContinues, SchedulerInv, TypeOK
    <2>3. QED
      BY <2>1, <2>2
      DEF Next, Tick, TimerStartsCycle, MayRun, TimerSkips, CycleContinues, CycleEnds,
          FirstSignal, FurtherSignal, PollSucceeds, PoolEnds
  <1>2. QED
    BY SchedulerInvariance, <1>1, PTL DEF Spec, NoStartAfterStop
=============================================================================
