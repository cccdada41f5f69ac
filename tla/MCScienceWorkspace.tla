------------------------- MODULE MCScienceWorkspace -------------------------
(* A small instance of ScienceWorkspace for TLC: two jobs that may live at  *)
(* once, and two calls of the page under way at once.                       *)
EXTENDS ScienceWorkspace
=============================================================================
