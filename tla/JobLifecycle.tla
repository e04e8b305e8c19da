---------------------------- MODULE JobLifecycle ----------------------------
(***************************************************************************)
(* What a collection job promises, whatever statements and processes stand *)
(* behind it: it is submitted once, run no earlier than it is due, and     *)
(* after each failure either waits out a backoff that its own count of     *)
(* failures determines or, when its retries are used up, is buried.        *)
(* Nothing happens to a job that has succeeded or is buried.               *)
(*                                                                         *)
(* Jobs are handled by cycles, and everything a cycle writes bears the     *)
(* time at which it started: a job is due from the cycle that submits it,  *)
(* and a backoff is measured from the start of the cycle that failed.      *)
(***************************************************************************)
EXTENDS Integers

CONSTANTS
    Jobs,
    MaxRetries,     \* failures a job survives
    Delay(_)        \* the backoff after the n-th failure

VARIABLES
    clock,
    cycle,          \* start of the latest cycle
    stage,          \* absent, waiting, running, succeeded or buried
    failures,       \* failures so far
    due             \* when a waiting job may run, Never for any other

vars == <<clock, cycle, stage, failures, due>>

Never == -1

Init ==
    /\ clock = 0
    /\ cycle = Never
    /\ stage = [j \in Jobs |-> "absent"]
    /\ failures = [j \in Jobs |-> 0]
    /\ due = [j \in Jobs |-> Never]

Move(j, from, to) ==
    /\ stage[j] = from
    /\ stage' = [stage EXCEPT ![j] = to]

Tick ==
    /\ clock' = clock + 1
    /\ UNCHANGED <<cycle, stage, failures, due>>

StartCycle ==
    /\ cycle' = clock
    /\ UNCHANGED <<clock, stage, failures, due>>

Submit(j) ==
    /\ Move(j, "absent", "waiting")
    /\ due' = [due EXCEPT ![j] = cycle]
    /\ UNCHANGED <<clock, cycle, failures>>

Begin(j) ==
    /\ due[j] <= cycle
    /\ Move(j, "waiting", "running")
    /\ due' = [due EXCEPT ![j] = Never]
    /\ UNCHANGED <<clock, cycle, failures>>

Succeed(j) ==
    /\ Move(j, "running", "succeeded")
    /\ UNCHANGED <<clock, cycle, failures, due>>

FailAndWait(j) ==
    /\ failures[j] < MaxRetries
    /\ Move(j, "running", "waiting")
    /\ failures' = [failures EXCEPT ![j] = @ + 1]
    /\ due' = [due EXCEPT ![j] = cycle + Delay(failures[j] + 1)]
    /\ UNCHANGED <<clock, cycle>>

Bury(j) ==
    /\ failures[j] = MaxRetries
    /\ Move(j, "running", "buried")
    /\ failures' = [failures EXCEPT ![j] = @ + 1]
    /\ UNCHANGED <<clock, cycle, due>>

Next ==
    \/ Tick \/ StartCycle
    \/ \E j \in Jobs :
          Submit(j) \/ Begin(j) \/ Succeed(j) \/ FailAndWait(j) \/ Bury(j)

Spec == Init /\ [][Next]_vars
=============================================================================
