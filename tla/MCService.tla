----------------------------- MODULE MCService -----------------------------
(***************************************************************************)
(* An instance of AwgService for TLC.                                      *)
(***************************************************************************)
EXTENDS AwgService

CONSTANTS r1, r2   \* request objects
CONSTANTS s1, s2   \* senders

TwoRequests == {r1, r2}
TwoSenders  == {s1, s2}
=============================================================================
