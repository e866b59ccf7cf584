------------------------------- MODULE MCLinks -------------------------------
(* A small instance of AwgLinks: two interfaces, three names.               *)
EXTENDS AwgLinks, TLC

CONSTANTS mine, x, y, tok, no

OwnLink == [index |-> 1, name |-> mine, alias |-> tok]
Others  == Permutations({x, y})
=============================================================================
