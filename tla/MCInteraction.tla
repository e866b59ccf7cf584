--------------------------- MODULE MCInteraction ---------------------------
(* Small instances of the sidebar's visibility and its dialogs.              *)
EXTENDS SidebarInteraction
=============================================================================
