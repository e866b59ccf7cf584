------------------------------ MODULE MCBackend ------------------------------
(* Small instances of AwgBackend.                                            *)
EXTENDS AwgBackend

CONSTANTS c1, c2
=============================================================================
