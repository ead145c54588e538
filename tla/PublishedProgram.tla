-------------------------- MODULE PublishedProgram --------------------------
(***************************************************************************)
(* What Publishing promises the public: a program is shown only after an   *)
(* organizer made it go live, it is one of the acceptable programs, it     *)
(* stays as it is until another one goes live or it is taken down, and     *)
(* every program that went live has a public revision of its own.          *)
(***************************************************************************)
EXTENDS Naturals

CONSTANTS Programs, Nothing

VARIABLES shown, number

Init == shown = Nothing /\ number = 0

GoLive ==
  /\ shown' \in Programs
  /\ number' = number + 1

TakeDown ==
  /\ shown' = Nothing
  /\ UNCHANGED number

Next == GoLive \/ TakeDown

Spec == Init /\ [][Next]_<<shown, number>>
=============================================================================
