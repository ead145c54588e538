------------------------------ MODULE MCTasks -------------------------------
(* A small instance of SpeakerTasks. *)
EXTENDS SpeakerTasks
=============================================================================
