------------------------------ MODULE MCOutbox ------------------------------
(***************************************************************************)
(* A small instance of Outbox: a communication request (src) whose handler *)
(* inserts one delivery row, d1.                                           *)
(***************************************************************************)
EXTENDS Outbox, TLC

CONSTANTS src, d1

SourceChildren == (src :> {d1}) @@ (d1 :> {})
=============================================================================
