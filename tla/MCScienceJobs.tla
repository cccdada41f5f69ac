--------------------------- MODULE MCScienceJobs ---------------------------
(* Small instances of ScienceJobs for TLC. *)
EXTENDS ScienceJobs
=============================================================================
