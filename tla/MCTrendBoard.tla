---------------------------- MODULE MCTrendBoard ----------------------------
(***************************************************************************)
(* An instance of TrendBoard for TLC.                                      *)
(***************************************************************************)
EXTENDS TrendBoard

\* Nothing, subscribers alone, two full pairs of pages, a failed about job and a
\* page about a subreddit without subscribers.
MCCollectable ==
    { Nothing,
      [posts |-> Missing, users |-> Missing, subs |-> 4],
      [posts |-> 1, users |-> 2, subs |-> 4],
      [posts |-> 9, users |-> 2, subs |-> 5],
      [posts |-> 9, users |-> Missing, subs |-> Missing],
      [posts |-> 1, users |-> 2, subs |-> Missing] }
=============================================================================
