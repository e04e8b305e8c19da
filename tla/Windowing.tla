----------------------------- MODULE Windowing -----------------------------
(***************************************************************************)
(* Discrete time and the windows (15 minutes) it is cut into.  A window is *)
(* named by its start.                                                     *)
(***************************************************************************)
EXTENDS Integers

CONSTANTS
    WindowLen,      \* ticks per window
    MaxClock        \* bound: the last tick

ASSUME WindowingAssumption ==
    /\ WindowLen \in Nat \ {0}
    /\ MaxClock \in Nat

Time == 0 .. MaxClock

WindowStart(t) == t - (t % WindowLen)       \* floorToWindow
Windows == {WindowStart(t) : t \in Time}
=============================================================================
