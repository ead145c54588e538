---------------------------- MODULE ProgramFeed ----------------------------
(***************************************************************************)
(* What the public reads of a published program: the program page, embeds  *)
(* and the versioned API with its cursors.  One request reads the          *)
(* publication, the sessions and the speakers in three statements, and     *)
(* between any two of them organizers publish, pause, withdraw or approve  *)
(* a session, rename a speaker, or move a session in a schedule revision   *)
(* that is not the selected one, a superseded one included.                *)
(***************************************************************************)
EXTENDS Integers, FiniteSets, SequencesExt

CONSTANTS Hosts,        \* speakers
          HostsOf,      \* the speakers of each lecture; lectures are their ids
          InMain,       \* the lectures of the main track
          StartsOf,     \* for each schedule revision, when it has each lecture at first
          Times,        \* the times a lecture may be moved to
          MaxPublic,    \* bound on publications
          MaxEdits      \* bound on approvals, withdrawals, new names and moves

Lectures == DOMAIN HostsOf

\* The start of a lecture that a schedule does not place.
NotPlaced == 0

\* No id is the one of a cursor that is not there.
ASSUME FeedAssumption ==
  /\ IsFiniteSet(Lectures) /\ Lectures \subseteq Nat \ {0}
  /\ IsFiniteSet(Hosts) /\ Hosts \subseteq Nat \ {0}
  /\ \A l \in Lectures : HostsOf[l] \subseteq Hosts
  /\ 1 \in DOMAIN StartsOf /\ StartsOf \in [DOMAIN StartsOf -> [Lectures -> Nat]]
  /\ Times \subseteq Nat
  /\ MaxPublic \in Nat \ {0} /\ MaxEdits \in Nat

VARIABLES onAir,     \* publications: whether live, public and schedule revision
          starts,     \* placements: for each schedule revision, when each lecture starts
          cleared,   \* the lectures whose content is approved
          surname,   \* the key of each speaker's name in the alphabet
          edits,     \* how many contents, names and placements were changed
          reader     \* one consumer: its request, its pages, its cached copy

feedVars == <<onAir, starts, cleared, surname, edits, reader>>

Collections == {"sessions", "speakers", "agenda"}
Pages == {"program", "widget"}
Queries(resources) == [resource : resources, mainOnly : BOOLEAN]
Fresh == 0
NotRead == {0}

NoQuery == [resource |-> "program", mainOnly |-> FALSE]
Reader ==
  [at |-> "idle", of |-> Pages, query |-> NoQuery,
   cursor |-> [query |-> NoQuery, revision |-> 0, id |-> Fresh],
   publication |-> [revision |-> 0, schedule |-> 1], filter |-> FALSE,
   lectures |-> NotRead, times |-> StartsOf[1], moved |-> FALSE,
   pairs |-> {}, names |-> [h \in Hosts |-> 1],
   seen |-> << >>, stayed |-> {}, renamed |-> FALSE, whole |-> FALSE,
   copy |-> [revision |-> 0, schedule |-> 1, lectures |-> {}, times |-> StartsOf[1]]]

FeedInit ==
  /\ onAir = [live |-> TRUE, revision |-> 1, schedule |-> 1] /\ starts = StartsOf
  /\ cleared = Lectures
  /\ surname = [h \in Hosts |-> 1] /\ edits = 0
  /\ reader \in {Reader, [Reader EXCEPT !.of = Collections]}

-----------------------------------------------------------------------------
(* What organizers do meanwhile.                                           *)

Edits == edits < MaxEdits /\ edits' = edits + 1

PutsOnAir ==
  /\ onAir.revision < MaxPublic
  /\ \E k \in DOMAIN StartsOf :
       onAir' = [live |-> TRUE, revision |-> onAir.revision + 1, schedule |-> k]
  /\ UNCHANGED <<starts, cleared, surname, edits, reader>>

TakesOffAir ==
  /\ onAir.live
  /\ onAir' = [onAir EXCEPT !.live = FALSE]
  /\ UNCHANGED <<starts, cleared, surname, edits, reader>>

\* A lecture withdrawn during a listing is no longer owed to the reader.
Unclears(l) ==
  /\ l \in cleared /\ Edits
  /\ cleared' = cleared \ {l}
  /\ reader' = [reader EXCEPT !.stayed = @ \ {l}]
  /\ UNCHANGED <<onAir, starts, surname>>

Clears(l) ==
  /\ l \notin cleared /\ Edits
  /\ cleared' = cleared \cup {l}
  /\ UNCHANGED <<onAir, starts, surname, reader>>

Renames(h) ==
  /\ Edits
  /\ surname' = [surname EXCEPT ![h] = 3 - @]
  /\ reader' = [reader EXCEPT !.renamed = TRUE]
  /\ UNCHANGED <<onAir, starts, cleared>>

\* Mutant: the revision that is selected may be edited as well.
BugEditable(k) == k \in DOMAIN starts

\* assertMutableRevision: every schedule revision but the one that the publication
\* selects, whether it is live or paused.
Editable(k) == k # onAir.schedule

\* placeSession, applyAutoPlacements and unplaceSession, as far as a reader can tell.
EditsPlacement(k, l, t) ==
  /\ Editable(k) /\ t # starts[k][l] /\ Edits
  /\ starts' = [starts EXCEPT ![k][l] = t]
  /\ UNCHANGED <<onAir, cleared, surname, reader>>

-----------------------------------------------------------------------------
(* One request.                                                            *)

\* What a consumer keeps when a request fails or a listing begins anew.
Refused(r) == [Reader EXCEPT !.of = r.of, !.copy = r.copy]

\* A listing starts without a cursor, or goes on with the one it was given,
\* under the same filters or, by mistake, under others.
RequestsPage(q, goesOn) ==
  /\ reader.at = "idle"
  /\ q.resource \in reader.of
  /\ goesOn => reader.cursor.id # Fresh
  /\ reader' =
       IF goesOn THEN [reader EXCEPT !.at = "publication", !.query = q]
       ELSE [Refused(reader) EXCEPT !.at = "publication", !.query = q]
  /\ UNCHANGED <<onAir, starts, cleared, surname, edits>>

\* loadPublishedProgram: the event, its live publication and the widget, which
\* may be saved at any time with any filter, are one statement.  What the
\* schedule has at that moment is noted, and is read by the next one only.
ReadsPublication(mainTrack) ==
  /\ reader.at = "publication"
  /\ mainTrack => reader.query.resource = "widget"
  /\ reader' =
       IF ~onAir.live THEN Refused(reader)
       ELSE [reader EXCEPT
               !.at = "rows", !.lectures = NotRead, !.pairs = {<<Fresh, Fresh>>},
               !.publication = [revision |-> onAir.revision, schedule |-> onAir.schedule],
               !.times = starts[onAir.schedule], !.moved = FALSE,
               !.filter = mainTrack \/ (reader.query.resource = "program" /\ reader.query.mainOnly),
               !.stayed = IF reader.cursor.id = Fresh THEN cleared ELSE @,
               !.renamed = IF reader.cursor.id = Fresh THEN FALSE ELSE @]
  /\ UNCHANGED <<onAir, starts, cleared, surname, edits>>

PlacedOn(times) == {l \in Lectures : times[l] # NotPlaced}

\* The placements of the schedule revision that the publication selected, as they
\* are now: once another is selected, its own may be edited.
TimesRead(r) == starts[r.publication.schedule]

ListedSessions(r) == cleared \cap PlacedOn(TimesRead(r))

\* The sessions and the speakers are read at the same time, in either order; what
\* the answer does not use is not kept.
ReadsSessions ==
  /\ reader.at = "rows" /\ reader.lectures = NotRead
  /\ reader' = [reader EXCEPT !.lectures = ListedSessions(reader), !.times = TimesRead(reader),
                              !.moved = TimesRead(reader) # reader.times]
  /\ UNCHANGED <<onAir, starts, cleared, surname, edits>>

ReadsSpeakers ==
  /\ reader.at = "rows" /\ reader.pairs = {<<Fresh, Fresh>>}
  /\ reader' = [reader EXCEPT
                  !.pairs = {pair \in cleared \X Hosts : pair[2] \in HostsOf[pair[1]]
                                /\ reader.query.resource \notin {"sessions", "agenda"}},
                  !.names = IF reader.query.resource = "speakers" THEN surname ELSE @]
  /\ UNCHANGED <<onAir, starts, cleared, surname, edits>>

\* A row of a speaker whose session was not read is passed over, and a filter
\* keeps the speakers of the sessions it keeps.
ShownLectures(r) == {l \in r.lectures : r.filter => l \in InMain}

SpeakersShown(r) == {pair[2] : pair \in {p \in r.pairs : p[1] \in ShownLectures(r)}}

-----------------------------------------------------------------------------
(* The pages of the versioned API.                                         *)

SessionCollection(r) == {l \in ShownLectures(r) : r.query.mainOnly => l \in InMain}

\* The filter of the speakers names a session; here it admits the main track's.
SpeakerCollection(r) ==
  {h \in SpeakersShown(r) :
     r.query.mainOnly => \E p \in r.pairs : p[2] = h /\ p[1] \in ShownLectures(r) \cap InMain}

Collection(r) ==
  IF r.query.resource = "speakers" THEN SpeakerCollection(r) ELSE SessionCollection(r)

\* compareSessions, compareSpeakers: a key and then the id.
Precedes(key, a, b) == key[a] < key[b] \/ (key[a] = key[b] /\ a < b)

SortKey(r) == IF r.query.resource = "speakers" THEN r.names ELSE r.times

Sorted(rows, key) ==
  CHOOSE s \in [1..Cardinality(rows) -> rows] :
    \A i, j \in DOMAIN s : i < j => Precedes(key, s[i], s[j])

\* Mutant: a cursor is taken for a position in whatever is listed now.
BugValidCursor(r) == r.cursor.id # Fresh => r.cursor.id \in Collection(r)

\* A cursor holds for its resource, its filters and its publication revision,
\* and only while the row it names is listed.
ValidCursor(r) ==
  r.cursor.id # Fresh =>
    /\ r.cursor.query = r.query
    /\ r.cursor.revision = r.publication.revision
    /\ r.cursor.id \in Collection(r)

StartOf(values, id) ==
  IF id = Fresh THEN 0 ELSE CHOOSE i \in DOMAIN values : values[i] = id

\* Pages of one row: the order between pages is what a cursor is about.
Paginate(r) ==
  LET values == Sorted(Collection(r), SortKey(r))
      start == StartOf(values, r.cursor.id)
      hasMore == start + 1 < Len(values)
  IN  [r EXCEPT
         !.at = "idle", !.whole = ~hasMore, !.lectures = NotRead, !.pairs = {},
         !.seen = IF start < Len(values) THEN Append(@, values[start + 1]) ELSE @,
         !.cursor = IF hasMore
                    THEN [query |-> r.query, revision |-> r.publication.revision,
                          id |-> values[start + 1]]
                    ELSE Reader.cursor]

AnswersPage ==
  /\ reader.at = "rows" /\ reader.lectures # NotRead /\ reader.pairs # {<<Fresh, Fresh>>}
  /\ reader.query.resource \in Collections
  /\ reader' = IF ValidCursor(reader) THEN Paginate(reader) ELSE Refused(reader)
  /\ UNCHANGED <<onAir, starts, cleared, surname, edits>>

\* cachedProgramResponse: the tag is the publication's revision, so a copy of
\* that revision is confirmed and kept, whatever was approved or withdrawn.
Confirmed(r) == r.copy.revision = r.publication.revision

AnswersProgram ==
  /\ reader.at = "rows" /\ reader.lectures # NotRead /\ reader.pairs # {<<Fresh, Fresh>>}
  /\ reader.query.resource \in Pages
  /\ reader' =
       [Refused(reader) EXCEPT
          !.copy = IF reader.query.resource = "program" /\ Confirmed(reader) THEN reader.copy
                   ELSE [revision |-> reader.publication.revision,
                         schedule |-> reader.publication.schedule,
                         lectures |-> ShownLectures(reader), times |-> reader.times]]
  /\ UNCHANGED <<onAir, starts, cleared, surname, edits>>

FeedNext ==
  \/ PutsOnAir \/ TakesOffAir
  \/ \E l \in Lectures : Unclears(l) \/ Clears(l)
  \/ \E h \in Hosts : Renames(h)
  \/ \E k \in DOMAIN StartsOf, l \in Lectures, t \in Times \cup {NotPlaced} : EditsPlacement(k, l, t)
  \/ \E q \in Queries(Collections \cup Pages), goesOn \in BOOLEAN : RequestsPage(q, goesOn)
  \/ \E mainTrack \in BOOLEAN : ReadsPublication(mainTrack)
  \/ ReadsSessions \/ ReadsSpeakers
  \/ AnswersPage \/ AnswersProgram

FeedSpec == FeedInit /\ [][FeedNext]_feedVars

-----------------------------------------------------------------------------
(* Properties.                                                             *)

\* The publication, the approved lectures and the reader are what the code
\* writes.
FeedTypeOK ==
  /\ onAir \in [live : BOOLEAN, revision : 1..MaxPublic, schedule : DOMAIN StartsOf]
  /\ starts \in [DOMAIN StartsOf -> [Lectures -> Nat]] /\ cleared \subseteq Lectures
  /\ surname \in [Hosts -> 1..2] /\ edits \in 0..MaxEdits
  /\ reader.at \in {"idle", "publication", "rows"}
  /\ reader.query \in Queries(Collections \cup Pages)
  /\ reader.copy.lectures \subseteq Lectures

\* What is read or kept as the program of the revision that is public has the
\* sessions and the times that its schedule has, however many statements it was
\* read in and whatever was published, paused or moved between them: no copy that
\* the tag of the revision confirms can differ from the agenda in a time.
FeedIsOfOneRevision ==
  /\ reader.at = "rows" /\ reader.lectures # NotRead =>
       /\ reader.lectures \subseteq PlacedOn(reader.times)
       /\ reader.publication.revision = onAir.revision => reader.times = starts[onAir.schedule]
  /\ reader.copy.lectures \subseteq PlacedOn(reader.copy.times)
  /\ reader.copy.revision = onAir.revision =>
       /\ reader.copy.schedule = onAir.schedule
       /\ reader.copy.times = starts[onAir.schedule]

\* The rows that a finished listing owed its reader.
Owed ==
  LET kept == {l \in reader.stayed \cap PlacedOn(reader.times) :
                 reader.query.mainOnly => l \in InMain}
  IN  IF reader.query.resource = "speakers" THEN UNION {HostsOf[l] : l \in kept} ELSE kept

\* Whoever follows the cursors to the end without a refusal has seen every
\* session that stayed public once and in the order of the agenda, whatever was
\* published, withdrawn or approved between the pages; and the same of the
\* speakers, unless one was renamed meanwhile.  A listing whose last page met a
\* revision that was superseded and edited during that very request is excepted.
PagesAreWhole ==
  reader.whole /\ ~reader.moved /\ (reader.query.resource = "speakers" => ~reader.renamed) =>
    /\ Owed \subseteq ToSet(reader.seen)
    /\ \A i, j \in DOMAIN reader.seen :
         i < j => Precedes(SortKey(reader), reader.seen[i], reader.seen[j])

FeedSafe == FeedTypeOK /\ FeedIsOfOneRevision /\ PagesAreWhole
=============================================================================
