-------------------------- MODULE MCInMemoryStores --------------------------
(***************************************************************************)
(* An instance of InMemoryStores, and with it of CollectionCycle and its   *)
(* refinement of JobLifecycle, for TLC.                                    *)
(***************************************************************************)
EXTENDS InMemoryStores

CONSTANTS r1, p1, alice

ASSUME MCFaults == StoresDoNotThrow

MCAuthorOf == [p \in Posts |-> alice]
=============================================================================
