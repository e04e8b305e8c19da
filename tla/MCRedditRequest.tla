-------------------------- MODULE MCRedditRequest --------------------------
(***************************************************************************)
(* Instances of RedditRequest for TLC.                                     *)
(***************************************************************************)
EXTENDS RedditRequest
=============================================================================
