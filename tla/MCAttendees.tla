---------------------------- MODULE MCAttendees ----------------------------
(* A small instance of Attendees. *)
EXTENDS Attendees
=============================================================================
