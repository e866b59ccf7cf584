----------------------------- MODULE MCCommand -----------------------------
(* A small instance of the command socket: two sidebars that start up to     *)
(* three times, and a client.                                                *)
EXTENDS CommandServer

CONSTANTS s1, s2, c1

TwoSidebars == {s1, s2}
OneClient == {c1}
=============================================================================
