------------------------------- MODULE Agenda -------------------------------
(***************************************************************************)
(* The agenda of one event: schedule revisions and their placements        *)
(* (modules/scheduling), and the publication that selects one of them      *)
(* (modules/publishing).  Organizers send requests at the same time; every *)
(* request is a sequence of steps with an await on the database between    *)
(* two of them.  A transaction that holds the row lock of a revision is a  *)
(* request at "check" or "write"; the other transactions are one step.     *)
(***************************************************************************)
EXTENDS Naturals, FiniteSets

CONSTANTS
  SessionCount,  \* sessions, numbered as auto-place orders them
  RoomCount,     \* rooms, numbered in their sort order
  Horizon,       \* the end of the grid of starting times
  Duration,      \* [Sessions -> Nat \ {0}]: the length of its format
  Speakers,      \* [Sessions -> set of people]
  Offers,        \* placements that organizers choose by hand
  Organizers,    \* concurrent requests
  PublishKeys,   \* idempotency keys of publish commands
  PauseKeys,     \* idempotency keys of pause commands
  MaxVersion     \* bound on schedule revisions

Sessions == 1..SessionCount
Rooms == 1..RoomCount
Versions == 1..MaxVersion
Placement == [room : Rooms, start : 0..Horizon, end : 0..Horizon]

NoKey == "no key"

ASSUME AgendaAssumption ==
  /\ SessionCount \in Nat /\ RoomCount \in Nat /\ Horizon \in Nat /\ MaxVersion \in Nat
  /\ Duration \in [Sessions -> Nat \ {0}]
  /\ DOMAIN Speakers = Sessions
  /\ Offers \subseteq {p \in Placement : p.start < p.end}
  /\ NoKey \notin PublishKeys

VARIABLES
  accepted,     \* sessions of the event
  latest,       \* the highest schedule_revisions.version, 0 without any
  status,       \* schedule_revisions.status
  board,        \* placements: version -> session -> placement
  publication,  \* the publications row
  receipts,     \* outbox rows of publish and pause commands
  req,          \* the request each organizer has in progress
  selected      \* history: versions that were ever selected

vars == <<accepted, latest, status, board, publication, receipts, req, selected>>

Idle == [at |-> "idle"]
Unplaced == [room |-> 0, start |-> 0, end |-> 0]
NoPlan == <<>>
Empty == [s \in Sessions |-> Unplaced]

Init ==
  /\ accepted = {}
  /\ latest = 0
  /\ status = [v \in Versions |-> "draft"]
  /\ board = [v \in Versions |-> Empty]
  /\ publication = [state |-> "draft", revision |-> 0, public |-> 0, key |-> NoKey]
  /\ receipts = {}
  /\ req = [o \in Organizers |-> Idle]
  /\ selected = {}

-----------------------------------------------------------------------------
(* Conflicts, readiness and automatic placement (rules.ts).                *)

\* Half-open intervals; nothing overlaps Unplaced.
Overlap(p, q) == p.start < q.end /\ p.end > q.start
RoomClash(p, q) == p.room = q.room /\ Overlap(p, q)
SpeakerClash(b, s, t) == Overlap(b[s], b[t]) /\ Speakers[s] \cap Speakers[t] # {}

\* Speakers are known for the sessions that were read, rooms for all rows.
ConflictFree(b, known) ==
  \A s, t \in Sessions : s # t =>
    /\ ~RoomClash(b[s], b[t])
    /\ {s, t} \subseteq known => ~SpeakerClash(b, s, t)

Ready(b, known) ==
  /\ known # {} /\ \A s \in known : b[s] # Unplaced
  /\ ConflictFree(b, known)

Earlier(p, q) == p.start < q.start \/ (p.start = q.start /\ p.room <= q.room)

\* The first slot of the grid without a conflict, or none.
Slots(b, known, s) ==
  {p \in Placement :
     /\ p.end = p.start + Duration[s]
     /\ \A t \in Sessions \ {s} :
          /\ ~RoomClash(p, b[t])
          /\ t \in known => ~SpeakerClash([b EXCEPT ![s] = p], s, t)}

PlaceNext(planned, known, s) ==
  LET slots == Slots(planned, known, s) IN
  IF s \notin known \/ planned[s] # Unplaced \/ slots = {} THEN planned
  ELSE [planned EXCEPT ![s] = CHOOSE p \in slots : \A q \in slots : Earlier(p, q)]

\* The sessions are placed one after the other.
PlanAutoPlacements(b, known) ==
  LET plan[n \in 0..SessionCount] == IF n = 0 THEN b ELSE PlaceNext(plan[n - 1], known, n)
  IN  plan[SessionCount]

-----------------------------------------------------------------------------
\* Program adds the session of an accepted submission.
AcceptSession(s) ==
  /\ s \notin accepted
  /\ accepted' = accepted \cup {s}
  /\ UNCHANGED <<latest, status, board, publication, receipts, req, selected>>

-----------------------------------------------------------------------------
Becomes(o, r) == req' = [req EXCEPT ![o] = r]
Reading(cmd, v) == [at |-> "load", cmd |-> cmd, rev |-> v]

\* Bug: the revision is read without FOR UPDATE.
BugReadsUnlocked(v) == FALSE

\* SELECT ... FOR UPDATE on the revision, held to the end of the edit.
RowLocked(v) == \E o \in Organizers : req[o].at \in {"check", "write"} /\ req[o].rev = v

(* getWorkspace, getConflictFreeRevision and autoPlace read the agenda.    *)

StartReading(o) ==
  /\ req[o] = Idle
  /\ \E cmd \in {"view", "auto", "publish"}, v \in 1..latest : Becomes(o, Reading(cmd, v))
  /\ UNCHANGED <<accepted, latest, status, board, publication, receipts, selected>>

\* loadSnapshot: revisions, sessions and the publication, then placements.
LoadSnapshot(o) ==
  /\ req[o].at = "load"
  /\ LET r == req[o] IN
       Becomes(o, [at |-> "board", cmd |-> r.cmd, rev |-> r.rev, known |-> accepted,
                   seen |-> IF publication.revision = r.rev THEN "in use" ELSE status[r.rev]])
  /\ UNCHANGED <<accepted, latest, status, board, publication, receipts, selected>>

\* Where a request goes once the readiness it computed is persisted.
AfterReadiness(cmd, v, ready, count) ==
  IF cmd = "publish" /\ ready THEN [at |-> "publish", rev |-> v, count |-> count] ELSE Idle

\* workspaceWithPersistedReadiness: nothing to write for a revision that is
\* in use or has the right status.
LoadPlacements(o) ==
  /\ req[o].at = "board" /\ req[o].cmd # "auto"
  /\ LET r == req[o]
         ready == Ready(board[r.rev], r.known)
         count == Cardinality(r.known)
     IN  Becomes(o,
           IF r.seen \in {"in use", IF ready THEN "ready" ELSE "draft"}
           THEN AfterReadiness(r.cmd, r.rev, ready, count)
           ELSE [at |-> "persist", cmd |-> r.cmd, rev |-> r.rev, ready |-> ready, count |-> count])
  /\ UNCHANGED <<accepted, latest, status, board, publication, receipts, selected>>

\* setRevisionStatus: an UPDATE that waits for the row lock and then writes
\* whatever the revision is by now.
SetRevisionStatus(o) ==
  /\ req[o].at = "persist" /\ ~RowLocked(req[o].rev)
  /\ LET r == req[o] IN
       /\ status' = [status EXCEPT ![r.rev] = IF r.ready THEN "ready" ELSE "draft"]
       /\ Becomes(o, AfterReadiness(r.cmd, r.rev, r.ready, r.count))
  /\ UNCHANGED <<accepted, latest, board, publication, receipts, selected>>

-----------------------------------------------------------------------------
(* placeSession, unplaceSession and applyAutoPlacements: one transaction   *)
(* that locks the revision, checks it and writes.                          *)

\* The plan is made from the snapshot; an empty one writes nothing.
AutoPlace(o) ==
  /\ req[o].at = "board" /\ req[o].cmd = "auto"
  /\ LET r == req[o]
         planned == PlanAutoPlacements(board[r.rev], r.known)
         new == {s \in Sessions : planned[s] # board[r.rev][s]}
     IN  Becomes(o, IF new = {} THEN Reading("view", r.rev)
                    ELSE [at |-> "lock", rev |-> r.rev, plan |-> [s \in new |-> planned[s]]])
  /\ UNCHANGED <<accepted, latest, status, board, publication, receipts, selected>>

\* What the organizer asks for is chosen when it is written.
StartEdit(o) ==
  /\ req[o] = Idle
  /\ \E v \in 1..latest :
       /\ ~RowLocked(v)
       /\ Becomes(o, [at |-> "check", rev |-> v, plan |-> NoPlan])
  /\ UNCHANGED <<accepted, latest, status, board, publication, receipts, selected>>

StartAutoEdit(o) ==
  /\ req[o].at = "lock" /\ ~RowLocked(req[o].rev)
  /\ Becomes(o, [req[o] EXCEPT !.at = "check"])
  /\ UNCHANGED <<accepted, latest, status, board, publication, receipts, selected>>

\* assertMutableRevision: a revision the publication selects is refused.
CheckMutable(o) ==
  /\ req[o].at = "check"
  /\ Becomes(o, IF publication.revision = req[o].rev THEN Idle ELSE [req[o] EXCEPT !.at = "write"])
  /\ UNCHANGED <<accepted, latest, status, board, publication, receipts, selected>>

RoomsFree(b, plan) ==
  \A s \in DOMAIN plan : \A t \in Sessions \ {s} : ~RoomClash(plan[s], b[t])

\* A board with the placements of a plan, and the plan of one placement.
Onto(plan, b) == [s \in Sessions |-> IF s \in DOMAIN plan THEN plan[s] ELSE b[s]]
Only(s, p) == [t \in {s} |-> p]

\* The whole plan or nothing, and the revision is a draft again.
Write(o, plan) ==
  /\ board' = [board EXCEPT ![req[o].rev] = Onto(plan, @)]
  /\ status' = [status EXCEPT ![req[o].rev] = "draft"]
  /\ Becomes(o, Reading("view", req[o].rev))
  /\ UNCHANGED <<accepted, latest, publication, receipts, selected>>

Refuse(o) ==
  /\ Becomes(o, Idle)
  /\ UNCHANGED <<accepted, latest, status, board, publication, receipts, selected>>

Writing(o) == req[o].at = "write" /\ req[o].plan = NoPlan

\* An upsert; refused when another session overlaps in the room.
PlaceSession(o) ==
  /\ Writing(o)
  /\ \E s \in accepted, p \in Offers :
       IF RoomsFree(board[req[o].rev], Only(s, p)) THEN Write(o, Only(s, p)) ELSE Refuse(o)

UnplaceSession(o) ==
  /\ Writing(o)
  /\ \E s \in accepted : Write(o, Only(s, Unplaced))

\* Bug: the plan is trusted as it was made from the snapshot.
BugTrustsPlan(o) ==
  /\ req[o].at = "write" /\ req[o].plan # NoPlan
  /\ LET b == board[req[o].rev]
         plan == req[o].plan
     IN  IF \A s \in DOMAIN plan : b[s] = Unplaced THEN Write(o, plan) ELSE Refuse(o)

\* An insert: a session placed meanwhile violates the unique index, and the
\* whole plan is rolled back.
ApplyAutoPlacements(o) ==
  /\ req[o].at = "write" /\ req[o].plan # NoPlan
  /\ LET b == board[req[o].rev]
         plan == req[o].plan
     IN  IF RoomsFree(b, plan) /\ \A s \in DOMAIN plan : b[s] = Unplaced
         THEN Write(o, plan) ELSE Refuse(o)

-----------------------------------------------------------------------------
(* createDraftRevision: the advisory lock of the event serialises creators *)
(* from the check to the commit; the publication is read without a lock.   *)

NeedsRevision(v) == v = 0 \/ publication.revision = v

CreateDraftRevision(o) ==
  /\ req[o] = Idle /\ \A c \in Organizers : req[c].at # "copy"
  /\ IF NeedsRevision(latest)
     THEN latest < MaxVersion /\ Becomes(o, [at |-> "copy"])
     ELSE Becomes(o, Reading("view", latest))
  /\ UNCHANGED <<accepted, latest, status, board, publication, receipts, selected>>

CopyRevision(o) ==
  /\ req[o].at = "copy"
  /\ latest' = latest + 1
  /\ board' = [board EXCEPT ![latest + 1] = IF latest = 0 THEN @ ELSE board[latest]]
  /\ Becomes(o, Reading("view", latest + 1))
  /\ UNCHANGED <<accepted, status, publication, receipts, selected>>

-----------------------------------------------------------------------------
(* publishProgram and pausePublication.  The advisory lock of the          *)
(* publication is held from the first read to the commit, so a publish     *)
(* takes effect when it obtains the row lock of the revision.              *)

\* Bug: the status that Scheduling persisted is taken as proof.
BugTrustsStatus(v, count, approved) == status[v] = "ready" /\ approved

\* assertPublishableRevision, under the row lock; approved: some session's
\* content is approved, which Program decides.
Publishable(v, count, approved) ==
  LET placed == {s \in Sessions : board[v][s] # Unplaced} IN
  /\ count = Cardinality(placed)
  /\ status[v] = "ready"
  /\ placed = accepted
  /\ approved
  /\ ConflictFree(board[v], accepted)

GoLive(v, k) ==
  /\ publication' = [state |-> "live", revision |-> v, public |-> publication.public + 1, key |-> k]
  /\ receipts' = receipts \cup {<<"publish", k>>}
  /\ selected' = selected \cup {v}

\* Bug: the outbox row is inserted ON CONFLICT DO NOTHING.
BugIgnoresReceipt(o) ==
  /\ req[o].at = "publish" /\ ~RowLocked(req[o].rev)
  /\ \E k \in PublishKeys, approved \in BOOLEAN :
       /\ publication.key # k
       /\ IF Publishable(req[o].rev, req[o].count, approved) THEN GoLive(req[o].rev, k)
          ELSE UNCHANGED <<publication, receipts, selected>>
  /\ Becomes(o, Idle)
  /\ UNCHANGED <<accepted, latest, status, board>>

\* An older key of the same client finds its outbox row taken: the unique
\* index rolls the transaction back.
PublishProgram(o) ==
  /\ req[o].at = "publish" /\ ~RowLocked(req[o].rev)
  /\ \E k \in PublishKeys, approved \in BOOLEAN :
       /\ publication.key # k
       /\ IF Publishable(req[o].rev, req[o].count, approved) /\ <<"publish", k>> \notin receipts
          THEN GoLive(req[o].rev, k)
          ELSE UNCHANGED <<publication, receipts, selected>>
  /\ Becomes(o, Idle)
  /\ UNCHANGED <<accepted, latest, status, board>>

\* The last key returns its receipt, or conflicts over another revision.
ReplayPublish(o) ==
  /\ req[o].at = "publish" /\ publication.key \in PublishKeys
  /\ Becomes(o, Idle)
  /\ UNCHANGED <<accepted, latest, status, board, publication, receipts, selected>>

\* A pause whose key has a receipt changes nothing.
PausePublication ==
  /\ publication.public > 0
  /\ \E k \in PauseKeys :
       /\ <<"pause", k>> \notin receipts
       /\ publication' = [publication EXCEPT !.state = "paused"]
       /\ receipts' = receipts \cup {<<"pause", k>>}
  /\ UNCHANGED <<accepted, latest, status, board, req, selected>>

-----------------------------------------------------------------------------
Request(o) ==
  \/ StartReading(o) \/ LoadSnapshot(o) \/ LoadPlacements(o) \/ SetRevisionStatus(o)
  \/ AutoPlace(o) \/ StartEdit(o) \/ StartAutoEdit(o) \/ CheckMutable(o)
  \/ PlaceSession(o) \/ UnplaceSession(o) \/ ApplyAutoPlacements(o)
  \/ CreateDraftRevision(o) \/ CopyRevision(o)
  \/ PublishProgram(o) \/ ReplayPublish(o)

Next ==
  \/ \E s \in Sessions : AcceptSession(s)
  \/ PausePublication
  \/ \E o \in Organizers : Request(o)

Spec == Init /\ [][Next]_vars

-----------------------------------------------------------------------------
(* Properties.                                                             *)

TypeOK ==
  /\ accepted \subseteq Sessions
  /\ latest \in 0..MaxVersion
  /\ status \in [Versions -> {"draft", "ready"}]
  /\ board \in [Versions -> [Sessions -> Placement \cup {Unplaced}]]
  /\ publication \in [state : {"draft", "live", "paused"}, revision : 0..latest,
                      public : Nat, key : PublishKeys \cup {NoKey}]
  /\ receipts \subseteq ({"publish"} \X PublishKeys) \cup ({"pause"} \X PauseKeys)
  /\ selected \subseteq 1..latest

\* No revision ever holds two overlapping sessions in one room, however
\* placements, automatic plans and copies of the revision interleave.
RoomsAreFree ==
  \A v \in Versions, s, t \in Sessions : s # t => ~RoomClash(board[v][s], board[v][t])

\* "The selected schedule revision remains canonical and immutable while
\* referenced here": no placement of it changes.
SelectedIsSealed ==
  [][publication.revision # 0 /\ publication'.revision = publication.revision =>
       board'[publication.revision] = board[publication.revision]]_vars

\* A command changes the publication at most once: together with its own
\* receipt, so a repeated publish never brings an older program back and a
\* repeated pause never takes a newer one down.
CommandsActOnce ==
  [][publication' # publication => receipts' # receipts]_vars

\* Organizers that start a revision at the same time get the same draft:
\* every revision but the newest was selected by the publication once.
NoAbandonedDraft == \A v \in 1..latest : v < latest => v \in selected

Placed(b) == {s \in Sessions : b[s] # Unplaced}

\* The selected revision is the program that was published: it has sessions,
\* and no two of them clash in a room or a speaker.
SelectedIsComplete ==
  publication.revision # 0 =>
    /\ Placed(board[publication.revision]) # {}
    /\ ConflictFree(board[publication.revision], Placed(board[publication.revision]))

\* Concurrent planning keeps these.
AgendaSafe == TypeOK /\ RoomsAreFree /\ NoAbandonedDraft /\ SelectedIsComplete

\* What the public sees changes only when a complete, conflict-free program
\* goes live under a new public revision, or is taken down.
Acceptable ==
  {b \in [Sessions -> Placement \cup {Unplaced}] :
     ConflictFree(b, Sessions) /\ \E s \in Sessions : b[s] # Unplaced}
Shown == IF publication.state = "live" THEN board[publication.revision] ELSE Empty
Promise == INSTANCE PublishedProgram
             WITH Programs <- Acceptable, Nothing <- Empty,
                  shown <- Shown, number <- publication.public
KeepsPromise == Promise!Spec
=============================================================================
