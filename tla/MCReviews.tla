----------------------------- MODULE MCReviews ------------------------------
(* A small instance of Reviews. *)
EXTENDS Reviews, TLC

CONSTANTS ann, cap

OneReviewer == <<ann>>
OneCap == ann :> cap
=============================================================================
