------------------------------ MODULE MCRunner ------------------------------
(***************************************************************************)
(* An instance of AwgRunner for TLC.                                       *)
(***************************************************************************)
EXTENDS AwgRunner

CONSTANT g1   \* a group number

OneGroup  == {g1}
AllOperations == {"up", "list", "other"}
=============================================================================
