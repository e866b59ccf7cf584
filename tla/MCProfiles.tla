----------------------------- MODULE MCProfiles -----------------------------
(* Small instances of the profile store.                                     *)
EXTENDS AwgProfiles
=============================================================================
