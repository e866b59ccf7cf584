------------------------------- MODULE MCSave -------------------------------
(* A small instance of the profile editor: three settings, so that a change  *)
(* by others may be neither the snapshot nor the draft.                      *)
EXTENDS ProfileSave

CONSTANTS v1, v2, v3, p1, p2

ThreeValues == {v1, v2, v3}
TwoPasswords == {p1, p2}
=============================================================================
