------------------------------ MODULE MCTunnel ------------------------------
(***************************************************************************)
(* Instances of AwgTunnel for TLC.                                         *)
(***************************************************************************)
EXTENDS AwgTunnel, TLC

CONSTANTS a, b   \* names
CONSTANT nft     \* a firewall namespace

OneName  == {a}
TwoNames == {a, b}
OneScope == {nft}
Symmetry == Permutations(TwoNames)
=============================================================================
