------------------------------- MODULE MCForm -------------------------------
(* A small instance of CfpForm. *)
EXTENDS CfpForm
=============================================================================
