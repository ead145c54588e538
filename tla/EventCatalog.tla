---------------------------- MODULE EventCatalog ----------------------------
(***************************************************************************)
(* One catalog of an event - its tracks, formats or rooms, which           *)
(* updateEventConfiguration saves alike (event-configuration/service.ts) - *)
(* and the sessions that refer to its rows (program/acceptance.ts).        *)
(*                                                                         *)
(* A save first updates the row of the event, so saves exclude each other  *)
(* and are single steps; an acceptance reads the catalog before it inserts *)
(* its session.  Rows are database ids, numbered as they are allocated.    *)
(***************************************************************************)
EXTENDS Naturals, Sequences, FiniteSets, SequencesExt

CONSTANTS Names, MaxRows, MaxEntries, Accepted

ASSUME EventCatalogAssumption ==
  MaxRows \in Nat /\ MaxEntries \in 1..MaxRows

VARIABLES
  entry,   \* the rows: row id -> name and sort order
  track,   \* the row each session refers to, 0 for none
  picked   \* the row an acceptance found in the catalog, before its insert

catalogVars == <<entry, track, picked>>

TrackRows == 1..MaxRows
NoTrack == 0
Unread == MaxRows + 1

\* What EventConfigurationInputSchema admits: one entry at least, no name twice.
Lists == {l \in BoundedSeq(Names, MaxEntries) : l # <<>> /\ IsInjective(l)}

NamesOf(rows) == {rows[r].name : r \in DOMAIN rows}

CatalogInit ==
  /\ \E l \in Lists : entry = [r \in DOMAIN l |-> [name |-> l[r], order |-> r - 1]]
  /\ track = [s \in Accepted |-> NoTrack]
  /\ picked = [s \in Accepted |-> Unread]

-----------------------------------------------------------------------------
(* updateEventConfiguration                                                *)

\* A row not yet taken that has the name, or, when the number of entries does
\* not change, the place of entry i: the latter is a rename.
Matching(kept, list, i) ==
  LET free == DOMAIN entry \ kept
      named == {r \in free : entry[r].name = list[i]}
  IN  IF named # {} THEN named
      ELSE {r \in free : Len(list) = Cardinality(DOMAIN entry) /\ entry[r].order = i - 1}

\* The unique indexes on the name and on the order, which are checked at every
\* statement.
Fits(rows, row, e) ==
  \A q \in DOMAIN rows \ {row} : rows[q].name # e.name /\ rows[q].order # e.order

\* One turn of the loop: the matching row is updated, or a row is inserted.
SaveEntry(save, list, i) ==
  LET match == Matching(save.kept, list, i)
      fresh == {r \in TrackRows \ DOMAIN save.rows : \A s \in Accepted : picked[s] # r}
      row == CHOOSE r \in (IF match # {} THEN match ELSE fresh) : TRUE
      e == [name |-> list[i], order |-> i - 1]
  IN  IF save.failed \/ (match = {} /\ fresh = {}) \/ ~Fits(save.rows, row, e)
      THEN [rows |-> save.rows, kept |-> save.kept, failed |-> TRUE]
      ELSE [rows |-> [r \in DOMAIN save.rows \cup {row} |->
                        IF r = row THEN e ELSE save.rows[r]],
            kept |-> save.kept \cup {row}, failed |-> FALSE]

\* The turns for the whole list.
SaveEntries(list) ==
  LET turn[i \in 0..Len(list)] ==
        IF i = 0 THEN [rows |-> entry, kept |-> {}, failed |-> FALSE]
        ELSE SaveEntry(turn[i - 1], list, i)
  IN  turn[Len(list)]

\* Bug: a row is removed although sessions refer to it.
BugUnreferenced(rows) == TRUE

Unreferenced(rows) == \A s \in Accepted : track[s] \notin rows

\* Rows that matched nothing are removed at the end, unless one is referred to.
SaveCatalog(list) ==
  LET save == SaveEntries(list)
  IN  /\ ~save.failed
      /\ Unreferenced(DOMAIN save.rows \ save.kept)
      /\ entry' = [r \in save.kept |-> save.rows[r]]
      /\ UNCHANGED <<track, picked>>

-----------------------------------------------------------------------------
(* The acceptance of a proposal whose answers name a track.                *)

FindTrack(s, name) ==
  /\ track[s] = NoTrack /\ picked[s] = Unread
  /\ picked' = [picked EXCEPT ![s] =
       IF name \in NamesOf(entry)
       THEN CHOOSE r \in DOMAIN entry : entry[r].name = name ELSE NoTrack]
  /\ UNCHANGED <<entry, track>>

\* The foreign key refuses a row that is gone, and the acceptance with it.
InsertSession(s) ==
  /\ picked[s] # Unread
  /\ track' = [track EXCEPT ![s] =
       IF picked[s] \in DOMAIN entry THEN picked[s] ELSE NoTrack]
  /\ picked' = [picked EXCEPT ![s] = Unread]
  /\ UNCHANGED entry

CatalogNext ==
  \/ \E l \in Lists : SaveCatalog(l)
  \/ \E s \in Accepted : (\E n \in Names : FindTrack(s, n)) \/ InsertSession(s)

CatalogSpec == CatalogInit /\ [][CatalogNext]_catalogVars

-----------------------------------------------------------------------------
(* Properties.                                                             *)

CatalogTypeOK ==
  /\ DOMAIN entry \subseteq TrackRows
  /\ \A r \in DOMAIN entry : entry[r] \in [name : Names, order : 0..(MaxEntries - 1)]
  /\ track \in [Accepted -> TrackRows \cup {NoTrack}]
  /\ picked \in [Accepted -> TrackRows \cup {NoTrack, Unread}]

\* The orders are 0..n-1 and no name is listed twice, so the settings page
\* shows the list that was saved.
ReadsInOrder ==
  /\ {entry[r].order : r \in DOMAIN entry} = 0..(Cardinality(DOMAIN entry) - 1)
  /\ Cardinality(NamesOf(entry)) = Cardinality(DOMAIN entry)

NoDanglingTrack == \A s \in Accepted : track[s] \in DOMAIN entry \cup {NoTrack}

\* The catalog reads as the last list saved, and every session's track is in
\* it, whatever entries are renamed, added and removed around an acceptance.
CatalogSafe == CatalogTypeOK /\ ReadsInOrder /\ NoDanglingTrack

=============================================================================
