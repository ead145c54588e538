------------------------------ MODULE MCAgenda ------------------------------
(***************************************************************************)
(* The agenda and publication of the event, the attendees of what is       *)
(* published, and the requests that read it.  They share no variable; each *)
(* behaviour follows one of them, which `side' names.                      *)
(***************************************************************************)
EXTENDS Agenda, Attendees, ProgramFeed, TLC

CONSTANTS ann, bob

Hours == [s \in Sessions |-> 1]
SharedSpeaker == [s \in Sessions |-> {ann}]

\* Two rooms at nine and the first room at ten.
ThreeOffers ==
  {[room |-> 1, start |-> 0, end |-> 1], [room |-> 2, start |-> 0, end |-> 1],
   [room |-> 1, start |-> 1, end |-> 2]}

\* Three lectures of two speakers, at two times, the last one not in the second
\* schedule.
TwoHostsOf == (1 :> {1}) @@ (2 :> {1, 2}) @@ (3 :> {2})
TwoSchedules == <<(1 :> 1) @@ (2 :> 2) @@ (3 :> 2), (1 :> 2) @@ (2 :> 1) @@ (3 :> 0)>>

VARIABLE side

ProgramInit ==
  /\ side \in {"agenda", "attendees", "feed"}
  /\ Init /\ AttendeesInit /\ FeedInit /\ (side # "feed" => reader.of = Pages)

ProgramNext ==
  /\ UNCHANGED side
  /\ \/ side = "agenda" /\ Next /\ UNCHANGED <<attendeeVars, feedVars>>
     \/ side = "attendees" /\ AttendeesNext /\ UNCHANGED <<vars, feedVars>>
     \/ side = "feed" /\ FeedNext /\ UNCHANGED <<vars, attendeeVars>>

ProgramSpec == ProgramInit /\ [][ProgramNext]_<<vars, attendeeVars, feedVars, side>>

\* Each invariant is evaluated where its module moves.
AgendaHolds == side = "agenda" => AgendaSafe
AttendeesHold == side = "attendees" => AttendeesSafe
FeedHolds == side = "feed" => FeedSafe

\* One set of values serves the interchangeable actors of the modules.
Symmetry == Permutations(Organizers)
=============================================================================
