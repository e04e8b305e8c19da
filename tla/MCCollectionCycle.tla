------------------------- MODULE MCCollectionCycle -------------------------
(***************************************************************************)
(* Instances of CollectionCycle for TLC.                                   *)
(***************************************************************************)
EXTENDS CollectionCycle, TLC

CONSTANTS r1, r2, p1, p2, alice

MCAuthorOf == [p \in Posts |-> alice]

RunnerSymmetry == Permutations(Runners)

\* No step looks at the page once its snapshots are written or the job has failed:
\* states that differ in nothing but such a page are one.
PageSteps == {"append_raw", "upsert_accounts", "upsert_contents", "append_snapshots"}

PageInUse == [r \in Runners |-> IF pc[r] \in PageSteps THEN page[r] ELSE NoPage]

CycleView == <<clock, tables, pc, now, target, kind, seenRetries, lastStart, PageInUse>>
=============================================================================
