----------------------------- MODULE MCDecision -----------------------------
(* A small instance of Decision. *)
EXTENDS Decision
=============================================================================
