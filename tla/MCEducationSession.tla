------------------------ MODULE MCEducationSession ------------------------
(* A small instance of EducationSession for TLC. *)
EXTENDS EducationSession
=============================================================================
