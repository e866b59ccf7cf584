---------------------------- MODULE MCController ----------------------------
(* A small instance of AwgController.                                        *)
EXTENDS AwgController
=============================================================================
