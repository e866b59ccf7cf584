-------------------------- MODULE MCRuntimeSource --------------------------
(* A small instance of AwgRuntimeSource: two profiles and room for one.     *)
EXTENDS AwgRuntimeSource

CONSTANTS a, b

TwoNames == {a, b}
=============================================================================
