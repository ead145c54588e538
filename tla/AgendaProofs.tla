---------------------------- MODULE AgendaProofs ----------------------------
(***************************************************************************)
(* Proofs about the agenda and its publication (Agenda) and the attendees  *)
(* of what is published (Attendees), for every value of their constants,   *)
(* and about the program that is composed of them (MCAgenda). What         *)
(* automatic placement computes is followed by induction over numbers.     *)
(***************************************************************************)
EXTENDS MCAgenda, NumberInduction, FiniteSetTheorems, TLAPS

-----------------------------------------------------------------------------
(***************************************************************************)
(* Agenda: revisions of the agenda and the publication of one.             *)
(***************************************************************************)

(* The inductive invariant.                                                *)

Publication(n) ==
  [state : {"draft", "live", "paused"}, revision : 0..n, public : Nat,
   key : PublishKeys \cup {NoKey}]

\* What a request holds between two awaits is still true: a revision it names
\* exists, one it may write is not selected, and one it may copy is sealed.
StillHolds(r) ==
  /\ r.at \in {"load", "board", "persist", "lock", "check", "write", "publish"} =>
       r.rev \in 1..latest
  /\ r.at \in {"lock", "check", "write"} => r = [at |-> r.at, rev |-> r.rev, plan |-> r.plan]
  /\ r.at = "write" => publication.revision # r.rev
  /\ r.at = "copy" => latest < MaxVersion /\ (latest = 0 \/ latest \in selected)
  /\ r.at = "board" => r.known \subseteq accepted
  /\ r.at = "persist" /\ r.ready => accepted # {}
  /\ r.at = "publish" => accepted # {}

\* The advisory lock of the event: one creator at a time.
OneCreator == \A o, c \in Organizers : req[o].at = "copy" /\ req[c].at = "copy" => o = c

AgendaInductive ==
  /\ latest \in 0..MaxVersion
  /\ accepted \subseteq Sessions
  /\ publication \in Publication(latest)
  /\ publication.revision # 0 => publication.revision \in selected
  /\ board = [v \in Versions |-> board[v]]
  /\ req = [o \in Organizers |-> req[o]]
  /\ \A o \in Organizers : StillHolds(req[o])
  /\ OneCreator
  /\ NoAbandonedDraft
  /\ SelectedIsComplete

-----------------------------------------------------------------------------
(* Steps that change what one request holds.                               *)

\* A step that changes one request, and no row but statuses and receipts.
LEMMA RequestStep ==
  ASSUME AgendaInductive, NEW o \in Organizers, NEW j, StillHolds(j),
         j.at = "copy" => \A c \in Organizers : req[c].at # "copy",
         UNCHANGED <<accepted, latest, board, publication, selected>>,
         req' = [req EXCEPT ![o] = j]
  PROVE  AgendaInductive'
<1>1. req = [c \in Organizers |-> req[c]]
  BY DEF AgendaInductive
<1>2. \A c \in Organizers : req'[c] = IF c = o THEN j ELSE req[c]
  BY <1>1
<1>3. req' = [c \in Organizers |-> req'[c]]
  BY <1>1
<1>4. \A c \in Organizers : StillHolds(req[c])'
  <2>1. StillHolds(j)'
    BY DEF StillHolds
  <2> SUFFICES ASSUME NEW c \in Organizers PROVE StillHolds(req[c])'
    OBVIOUS
  <2>2. PICK r : r = req'[c]
    OBVIOUS
  <2>3. StillHolds(r)
    BY <1>2, <2>2 DEF AgendaInductive
  <2> QED BY <2>2, <2>3 DEF StillHolds
<1>5. OneCreator'
  BY <1>2 DEF AgendaInductive, OneCreator
<1>6. NoAbandonedDraft'
  BY DEF AgendaInductive, NoAbandonedDraft
<1>7. SelectedIsComplete'
  BY DEF AgendaInductive, SelectedIsComplete, Placed, ConflictFree, SpeakerClash
<1> QED BY <1>3, <1>4, <1>5, <1>6, <1>7 DEF AgendaInductive, Publication

\* What organizers read about exists, because revisions are never deleted.
LEMMA ReadingHolds ==
  ASSUME NEW cmd, NEW v \in 1..latest
  PROVE  StillHolds(Reading(cmd, v)) /\ Reading(cmd, v).at = "load"
  BY DEF Reading, StillHolds

\* A request that ends holds nothing.
LEMMA IdleHolds == StillHolds(Idle) /\ Idle.at = "idle"
  BY DEF Idle, StillHolds

\* A request goes on to publish only a revision that was found ready.
LEMMA PublishHolds ==
  ASSUME NEW j, j = Idle \/ (j.at = "publish" /\ j.rev \in 1..latest /\ accepted # {})
  PROVE  StillHolds(j) /\ j.at # "copy"
  BY DEF Idle, StillHolds

\* Reading a snapshot, its placements and the persisted readiness.
LEMMA ReadSteps ==
  ASSUME AgendaInductive, NEW o \in Organizers,
         StartReading(o) \/ LoadSnapshot(o) \/ LoadPlacements(o) \/ SetRevisionStatus(o)
  PROVE  AgendaInductive'
<1>0. StillHolds(req[o]) /\ latest \in Nat
  BY DEF AgendaInductive
<1>1. CASE StartReading(o)
  <2>1. PICK cmd \in {"view", "auto", "publish"}, v \in 1..latest : Becomes(o, Reading(cmd, v))
    BY <1>1 DEF StartReading
  <2>2. PICK j : j = Reading(cmd, v)
    OBVIOUS
  <2>3. StillHolds(j) /\ j.at = "load"
    BY <2>2, ReadingHolds
  <2> QED BY <1>1, <2>1, <2>2, <2>3, RequestStep DEF StartReading, Becomes
<1>2. CASE LoadSnapshot(o)
  <2>1. PICK j : j = [at |-> "board", cmd |-> req[o].cmd, rev |-> req[o].rev, known |-> accepted,
                      seen |-> IF publication.revision = req[o].rev THEN "in use"
                               ELSE status[req[o].rev]]
    OBVIOUS
  <2>2. j.at = "board" /\ j.rev = req[o].rev /\ j.known = accepted
    BY <2>1
  <2>3. StillHolds(j)
    BY <1>0, <1>2, <2>2 DEF LoadSnapshot, StillHolds
  <2>4. req' = [req EXCEPT ![o] = j]
    BY <1>2, <2>1 DEF LoadSnapshot, Becomes
  <2> QED BY <1>2, <2>2, <2>3, <2>4, RequestStep DEF LoadSnapshot
<1>3. CASE LoadPlacements(o)
  <2> DEFINE ready == Ready(board[req[o].rev], req[o].known)
             count == Cardinality(req[o].known)
             persist == [at |-> "persist", cmd |-> req[o].cmd, rev |-> req[o].rev,
                         ready |-> ready, count |-> count]
  <2>1. ready => req[o].known # {}
    BY DEF Ready
  <2>2. \/ Becomes(o, AfterReadiness(req[o].cmd, req[o].rev, ready, count))
        \/ Becomes(o, persist)
    BY <1>3 DEF LoadPlacements
  <2>3. req[o].rev \in 1..latest /\ (ready => accepted # {})
    BY <1>0, <1>3, <2>1 DEF LoadPlacements, StillHolds
  <2>4. CASE Becomes(o, AfterReadiness(req[o].cmd, req[o].rev, ready, count))
    <3>1. PICK j : j = AfterReadiness(req[o].cmd, req[o].rev, ready, count)
      OBVIOUS
    <3>2. j = Idle \/ (j.at = "publish" /\ j.rev \in 1..latest /\ accepted # {})
      <4> HIDE DEF ready, count
      <4> QED BY <2>3, <3>1 DEF AfterReadiness
    <3> QED BY <1>3, <2>4, <3>1, <3>2, PublishHolds, RequestStep DEF LoadPlacements, Becomes
  <2>5. CASE Becomes(o, persist)
    <3>1. PICK j : j = persist
      OBVIOUS
    <3>2. j.at = "persist" /\ j.rev = req[o].rev /\ (j.ready <=> ready)
      <4> HIDE DEF ready, count
      <4> QED BY <3>1
    <3>3. StillHolds(j)
      BY <2>3, <3>2 DEF StillHolds
    <3> QED BY <1>3, <2>5, <3>1, <3>2, <3>3, RequestStep DEF LoadPlacements, Becomes
  <2> QED BY <2>2, <2>4, <2>5
<1>4. CASE SetRevisionStatus(o)
  <2>1. req[o].rev \in 1..latest /\ (req[o].ready => accepted # {})
    BY <1>0, <1>4 DEF SetRevisionStatus, StillHolds
  <2>2. PICK j : j = AfterReadiness(req[o].cmd, req[o].rev, req[o].ready, req[o].count)
    OBVIOUS
  <2>3. j = Idle \/ (j.at = "publish" /\ j.rev \in 1..latest /\ accepted # {})
    BY <2>1, <2>2 DEF AfterReadiness
  <2> QED BY <1>4, <2>2, <2>3, PublishHolds, RequestStep DEF SetRevisionStatus, Becomes
<1> QED BY <1>1, <1>2, <1>3, <1>4

\* Automatic placement, the locks of an edit and its check.
LEMMA EditSteps ==
  ASSUME AgendaInductive, NEW o \in Organizers,
         AutoPlace(o) \/ StartEdit(o) \/ StartAutoEdit(o) \/ CheckMutable(o) \/ Refuse(o)
           \/ ReplayPublish(o)
  PROVE  AgendaInductive'
<1>0. StillHolds(req[o]) /\ latest \in Nat
  BY DEF AgendaInductive
<1>1. CASE AutoPlace(o)
  <2>1. req[o].rev \in 1..latest
    BY <1>0, <1>1 DEF AutoPlace, StillHolds
  <2>2. PICK plan : \/ Becomes(o, Reading("view", req[o].rev))
                    \/ Becomes(o, [at |-> "lock", rev |-> req[o].rev, plan |-> plan])
    BY <1>1 DEF AutoPlace
  <2>3. PICK j : /\ j = Reading("view", req[o].rev)
                      \/ j = [at |-> "lock", rev |-> req[o].rev, plan |-> plan]
                 /\ req' = [req EXCEPT ![o] = j]
    BY <2>2 DEF Becomes
  <2>4. StillHolds(j) /\ j.at # "copy"
    BY <2>1, <2>3 DEF Reading, StillHolds
  <2> QED BY <1>1, <2>3, <2>4, RequestStep DEF AutoPlace
<1>2. CASE StartEdit(o)
  <2>1. PICK v \in 1..latest : Becomes(o, [at |-> "check", rev |-> v, plan |-> NoPlan])
    BY <1>2 DEF StartEdit
  <2>2. PICK j : j = [at |-> "check", rev |-> v, plan |-> NoPlan]
    OBVIOUS
  <2>3. StillHolds(j) /\ j.at # "copy"
    BY <2>2 DEF StillHolds
  <2> QED BY <1>2, <2>1, <2>2, <2>3, RequestStep DEF StartEdit, Becomes
<1>3. CASE StartAutoEdit(o)
  <2>1. PICK j : j = [at |-> "check", rev |-> req[o].rev, plan |-> req[o].plan]
    OBVIOUS
  <2>2. req[o].rev \in 1..latest
        /\ req[o] = [at |-> req[o].at, rev |-> req[o].rev, plan |-> req[o].plan]
    BY <1>0, <1>3 DEF StartAutoEdit, StillHolds
  <2>3. j = [req[o] EXCEPT !.at = "check"]
    BY <2>1, <2>2
  <2>4. StillHolds(j) /\ j.at # "copy"
    BY <2>1, <2>2 DEF StillHolds
  <2> QED BY <1>3, <2>3, <2>4, RequestStep DEF StartAutoEdit, Becomes
<1>4. CASE CheckMutable(o)
  <2>1. CASE publication.revision = req[o].rev
    BY <1>4, <2>1, IdleHolds, RequestStep DEF CheckMutable, Becomes
  <2>2. CASE publication.revision # req[o].rev
    <3>1. PICK j : j = [at |-> "write", rev |-> req[o].rev, plan |-> req[o].plan]
      OBVIOUS
    <3>2. req[o].rev \in 1..latest
          /\ req[o] = [at |-> req[o].at, rev |-> req[o].rev, plan |-> req[o].plan]
      BY <1>0, <1>4 DEF CheckMutable, StillHolds
    <3>3. j = [req[o] EXCEPT !.at = "write"]
      BY <3>1, <3>2
    <3>4. StillHolds(j) /\ j.at # "copy"
      BY <2>2, <3>1, <3>2 DEF StillHolds
    <3> QED BY <1>4, <2>2, <3>3, <3>4, RequestStep DEF CheckMutable, Becomes
  <2> QED BY <2>1, <2>2
<1>5. CASE Refuse(o)
  BY <1>5, IdleHolds, RequestStep DEF Refuse, Becomes
<1>6. CASE ReplayPublish(o)
  BY <1>6, IdleHolds, RequestStep DEF ReplayPublish, Becomes
<1> QED BY <1>1, <1>2, <1>3, <1>4, <1>5, <1>6

\* What a request holds stays true as rows only grow, unless the revision that
\* it may write is selected or the one that it copies is not the last.
LEMMA HeldStays ==
  ASSUME AgendaInductive, NEW r, StillHolds(r),
         accepted \subseteq accepted', selected \subseteq selected',
         latest' \in Nat, latest <= latest',
         r.at = "write" => publication'.revision # r.rev,
         r.at = "copy" => latest' = latest
  PROVE  StillHolds(r)'
<1>1. latest \in Nat
  BY AgendaAssumption DEF AgendaInductive
<1>2. r.at \in {"load", "board", "persist", "lock", "check", "write", "publish"} =>
        r.rev \in 1..latest'
  BY <1>1 DEF StillHolds
<1>3. r.at = "copy" => latest' < MaxVersion /\ (latest' = 0 \/ latest' \in selected')
  BY DEF StillHolds
<1>4. /\ r.at = "board" => r.known \subseteq accepted'
      /\ r.at = "persist" /\ r.ready => accepted' # {}
      /\ r.at = "publish" => accepted' # {}
  BY DEF StillHolds
<1> QED BY <1>2, <1>3, <1>4 DEF StillHolds

-----------------------------------------------------------------------------
(* Steps that write rows.                                                  *)

\* An edit writes its whole plan into one revision, or nothing.
LEMMA EditsWrite ==
  ASSUME NEW o \in Organizers,
         PlaceSession(o) \/ UnplaceSession(o) \/ ApplyAutoPlacements(o)
  PROVE  /\ req[o].at = "write"
         /\ Refuse(o) \/ \E plan : Write(o, plan)
<1>1. CASE PlaceSession(o)
  BY <1>1 DEF PlaceSession, Writing
<1>2. CASE UnplaceSession(o)
  BY <1>2 DEF UnplaceSession, Writing
<1>3. CASE ApplyAutoPlacements(o)
  BY <1>3 DEF ApplyAutoPlacements
<1> QED BY <1>1, <1>2, <1>3

\* The other revisions, the selected one among them, keep their placements.
LEMMA WriteKeepsSelected ==
  ASSUME AgendaInductive, NEW o \in Organizers, NEW plan, req[o].at = "write", Write(o, plan)
  PROVE  publication.revision # 0 =>
           board'[publication.revision] = board[publication.revision]
<1>1. req[o].rev \in 1..latest /\ publication.revision # req[o].rev
  BY DEF AgendaInductive, StillHolds
<1>2. publication.revision \in 0..latest /\ latest \in 0..MaxVersion
  BY DEF AgendaInductive, Publication
<1>3. board = [v \in Versions |-> board[v]]
  BY DEF AgendaInductive
<1>4. ASSUME publication.revision # 0
      PROVE  board'[publication.revision] = board[publication.revision]
  <2>1. publication.revision \in Versions
    BY <1>2, <1>4, AgendaAssumption DEF Versions
  <2>2. PICK b : b = Onto(plan, board[req[o].rev])
    OBVIOUS
  <2>3. board' = [board EXCEPT ![req[o].rev] = b]
    BY <2>2 DEF Write
  <2> QED BY <1>1, <1>3, <2>1, <2>3
<1> QED BY <1>4

\* An edit keeps the invariant, because the revision it writes is not selected.
LEMMA WriteStep ==
  ASSUME AgendaInductive, NEW o \in Organizers, NEW plan, req[o].at = "write", Write(o, plan)
  PROVE  AgendaInductive'
<1>1. req[o].rev \in 1..latest
  BY DEF AgendaInductive, StillHolds
<1>2. PICK j : j = Reading("view", req[o].rev)
  OBVIOUS
<1>3. StillHolds(j) /\ j.at = "load"
  BY <1>1, <1>2 DEF Reading, StillHolds
<1>4. req' = [req EXCEPT ![o] = j]
  BY <1>2 DEF Write, Becomes
<1>5. UNCHANGED <<accepted, latest, publication, selected>>
  BY DEF Write
<1>6. req = [c \in Organizers |-> req[c]]
  BY DEF AgendaInductive
<1>7. \A c \in Organizers : req'[c] = IF c = o THEN j ELSE req[c]
  BY <1>4, <1>6
<1>8. \A c \in Organizers : StillHolds(req[c])'
  <2> SUFFICES ASSUME NEW c \in Organizers PROVE StillHolds(req[c])'
    OBVIOUS
  <2>1. PICK r : r = req'[c]
    OBVIOUS
  <2>2. StillHolds(r) /\ latest' \in Nat
    BY <1>3, <1>5, <1>7, <2>1, AgendaAssumption DEF AgendaInductive
  <2>3. StillHolds(r)'
    BY <1>5, <2>2, HeldStays DEF StillHolds
  <2> QED BY <2>1, <2>3
<1>9. board' = [v \in Versions |-> board'[v]]
  <2>1. board = [v \in Versions |-> board[v]]
    BY DEF AgendaInductive
  <2> QED BY <2>1 DEF Write
<1>10. OneCreator'
  BY <1>3, <1>7 DEF AgendaInductive, OneCreator
<1>11. SelectedIsComplete'
  BY <1>5, WriteKeepsSelected
     DEF AgendaInductive, SelectedIsComplete, Placed, ConflictFree, SpeakerClash
<1>12. NoAbandonedDraft'
  BY <1>5 DEF AgendaInductive, NoAbandonedDraft
<1>13. req' = [c \in Organizers |-> req'[c]]
  BY <1>4, <1>6
<1> QED BY <1>5, <1>8, <1>9, <1>10, <1>11, <1>12, <1>13 DEF AgendaInductive, Publication


\* A copy is a revision of its own.
LEMMA CopyKeepsSelected ==
  ASSUME AgendaInductive, NEW o \in Organizers, CopyRevision(o)
  PROVE  publication.revision # 0 =>
           board'[publication.revision] = board[publication.revision]
<1>1. /\ latest \in 0..MaxVersion /\ MaxVersion \in Nat
      /\ publication.revision \in 0..latest
      /\ board = [v \in Versions |-> board[v]]
  BY AgendaAssumption DEF AgendaInductive, Publication
<1>2. ASSUME publication.revision # 0
      PROVE  board'[publication.revision] = board[publication.revision]
  <2>1. publication.revision \in Versions /\ publication.revision # latest + 1
    BY <1>1, <1>2 DEF Versions
  <2>2. PICK b : board' = [board EXCEPT ![latest + 1] = b]
    BY DEF CopyRevision
  <2> QED BY <1>1, <2>1, <2>2
<1> QED BY <1>2

\* A creator copies the last revision, which is sealed: the copy is the only
\* one that was never selected.
LEMMA CreateSteps ==
  ASSUME AgendaInductive, NEW o \in Organizers, CreateDraftRevision(o) \/ CopyRevision(o)
  PROVE  AgendaInductive'
<1>0. /\ latest \in 0..MaxVersion /\ MaxVersion \in Nat
      /\ publication \in Publication(latest)
      /\ req = [c \in Organizers |-> req[c]]
      /\ board = [v \in Versions |-> board[v]]
  BY AgendaAssumption DEF AgendaInductive
<1>1. CASE CreateDraftRevision(o)
  <2>1. CASE NeedsRevision(latest)
    <3>1. PICK j : j = [at |-> "copy"]
      OBVIOUS
    <3>2. StillHolds(j)
      BY <1>0, <1>1, <2>1, <3>1 DEF CreateDraftRevision, NeedsRevision, StillHolds, AgendaInductive
    <3> QED BY <1>1, <2>1, <3>1, <3>2, RequestStep DEF CreateDraftRevision, Becomes
  <2>2. CASE ~NeedsRevision(latest)
    <3>1. PICK j : j = Reading("view", latest)
      OBVIOUS
    <3>2. latest \in 1..latest
      BY <1>0, <2>2 DEF NeedsRevision
    <3>3. StillHolds(j) /\ j.at = "load"
      BY <3>1, <3>2 DEF Reading, StillHolds
    <3> QED BY <1>1, <2>2, <3>1, <3>3, RequestStep DEF CreateDraftRevision, Becomes
  <2> QED BY <2>1, <2>2
<1>2. CASE CopyRevision(o)
  <2>1. /\ latest' = latest + 1 /\ latest' \in 0..MaxVersion /\ latest' \in Nat
        /\ latest = 0 \/ latest \in selected
    BY <1>0, <1>2 DEF CopyRevision, AgendaInductive, StillHolds
  <2>2. UNCHANGED <<accepted, publication, selected>>
    BY <1>2 DEF CopyRevision
  <2>3. PICK j : j = Reading("view", latest + 1)
    OBVIOUS
  <2>4. j.at = "load" /\ j.rev = latest + 1
    BY <2>3 DEF Reading
  <2>5. StillHolds(j)'
    BY <1>0, <2>1, <2>4 DEF StillHolds
  <2>6. \A c \in Organizers : req'[c] = IF c = o THEN j ELSE req[c]
    BY <1>0, <1>2, <2>3 DEF CopyRevision, Becomes
  <2>7. \A c \in Organizers : StillHolds(req[c])'
    <3> SUFFICES ASSUME NEW c \in Organizers PROVE StillHolds(req[c])'
      OBVIOUS
    <3>1. PICK r : r = req'[c]
      OBVIOUS
    <3>2. CASE c = o
      BY <2>5, <2>6, <3>1, <3>2 DEF StillHolds
    <3>3. CASE c # o
      <4>1. StillHolds(r) /\ r.at # "copy"
        BY <1>2, <2>6, <3>1, <3>3 DEF AgendaInductive, OneCreator, CopyRevision
      <4>2. StillHolds(r)'
        BY <1>0, <2>1, <2>2, <4>1, HeldStays DEF StillHolds
      <4> QED BY <3>1, <4>2
    <3> QED BY <3>2, <3>3
  <2>8. OneCreator'
    BY <2>4, <2>6 DEF AgendaInductive, OneCreator
  <2>9. NoAbandonedDraft'
    BY <1>0, <2>1, <2>2 DEF AgendaInductive, NoAbandonedDraft
  <2>10. publication.revision # 0 =>
           board'[publication.revision] = board[publication.revision]
    BY <1>2, CopyKeepsSelected
  <2>11. SelectedIsComplete'
    BY <2>2, <2>10
       DEF AgendaInductive, SelectedIsComplete, Placed, ConflictFree, SpeakerClash
  <2>12. board' = [v \in Versions |-> board'[v]] /\ req' = [c \in Organizers |-> req'[c]]
    BY <1>0, <1>2 DEF CopyRevision, Becomes
  <2>13. publication' \in Publication(latest')
    BY <1>0, <2>1, <2>2 DEF Publication
  <2> QED BY <2>1, <2>2, <2>7, <2>8, <2>9, <2>11, <2>12, <2>13 DEF AgendaInductive
<1> QED BY <1>1, <1>2

\* Steps of the publication and of Program, which leave the requests alone or
\* end one of them.
LEMMA PublicationStep ==
  ASSUME AgendaInductive,
         UNCHANGED <<latest, board>>, accepted \subseteq accepted', accepted' \subseteq Sessions,
         selected \subseteq selected', publication' \in Publication(latest),
         publication'.revision # 0 => publication'.revision \in selected',
         req' = req \/ \E o \in Organizers : req' = [req EXCEPT ![o] = Idle],
         publication'.revision # publication.revision =>
           \A c \in Organizers : req[c].at = "write" => publication'.revision # req[c].rev,
         SelectedIsComplete'
  PROVE  AgendaInductive'
<1>1. req = [c \in Organizers |-> req[c]]
  BY DEF AgendaInductive
<1>2. \A c \in Organizers : req'[c] = req[c] \/ req'[c] = Idle
  BY <1>1
<1>3. \A c \in Organizers : StillHolds(req[c])'
  <2> SUFFICES ASSUME NEW c \in Organizers PROVE StillHolds(req[c])'
    OBVIOUS
  <2>1. PICK r : r = req'[c]
    OBVIOUS
  <2>2. StillHolds(r) /\ latest \in Nat
    BY <1>2, <2>1, IdleHolds, AgendaAssumption DEF AgendaInductive
  <2>3. r.at = "write" => publication'.revision # r.rev
    BY <1>2, <2>1, <2>2, IdleHolds DEF StillHolds
  <2>4. StillHolds(r)'
    BY <2>2, <2>3, HeldStays
  <2> QED BY <2>1, <2>4
<1>4. OneCreator'
  BY <1>2, IdleHolds DEF AgendaInductive, OneCreator
<1>5. NoAbandonedDraft'
  BY DEF AgendaInductive, NoAbandonedDraft
<1>6. req' = [c \in Organizers |-> req'[c]]
  BY <1>1
<1> QED BY <1>3, <1>4, <1>5, <1>6 DEF AgendaInductive, Publication

\* Going live takes the revision while nobody holds its row lock, and finds it
\* complete and free of clashes under that lock.
LEMMA PublishStep ==
  ASSUME AgendaInductive, NEW o \in Organizers, PublishProgram(o)
  PROVE  AgendaInductive'
<1>1. /\ req[o].rev \in 1..latest /\ accepted # {} /\ accepted \subseteq Sessions
      /\ publication \in Publication(latest)
      /\ latest \in Nat
  BY AgendaAssumption DEF AgendaInductive, StillHolds, PublishProgram
<1>2. /\ UNCHANGED <<accepted, latest, board>>
      /\ req' = [req EXCEPT ![o] = Idle]
  BY DEF PublishProgram, Becomes
<1>3. PICK k \in PublishKeys, allowed \in BOOLEAN :
         IF Publishable(req[o].rev, req[o].count, allowed) /\ <<"publish", k>> \notin receipts
         THEN GoLive(req[o].rev, k)
         ELSE UNCHANGED <<publication, receipts, selected>>
  BY DEF PublishProgram
<1>4. CASE UNCHANGED <<publication, receipts, selected>>
  <2>1. SelectedIsComplete'
    BY <1>2, <1>4 DEF AgendaInductive, SelectedIsComplete, Placed, ConflictFree, SpeakerClash
  <2> QED BY <1>1, <1>2, <1>4, <2>1, PublicationStep DEF AgendaInductive
<1>5. CASE Publishable(req[o].rev, req[o].count, allowed) /\ GoLive(req[o].rev, k)
  <2>1. PICK v : v = req[o].rev
    OBVIOUS
  <2>2. /\ publication' = [state |-> "live", revision |-> v, public |-> publication.public + 1,
                           key |-> k]
        /\ selected' = selected \cup {v}
    BY <1>5, <2>1 DEF GoLive
  <2>3. publication' \in Publication(latest) /\ publication'.revision = v
    BY <1>1, <2>1, <2>2 DEF Publication
  <2>4. \A c \in Organizers : req[c].at = "write" => v # req[c].rev
    BY <2>1 DEF PublishProgram, RowLocked
  <2>5. Placed(board[v]) = accepted /\ ConflictFree(board[v], accepted)
    BY <1>5, <2>1 DEF Publishable, Placed
  <2>6. SelectedIsComplete'
    BY <1>1, <1>2, <2>3, <2>5 DEF SelectedIsComplete, Placed, ConflictFree, SpeakerClash
  <2> QED BY <1>1, <1>2, <2>2, <2>3, <2>4, <2>6, PublicationStep DEF AgendaInductive
<1> QED BY <1>3, <1>4, <1>5

\* Pausing changes the state of the publication and not what it selects.
LEMMA PauseStep ==
  ASSUME AgendaInductive, PausePublication
  PROVE  AgendaInductive'
<1>1. publication \in Publication(latest)
  BY DEF AgendaInductive
<1>2. publication' = [publication EXCEPT !.state = "paused"]
  BY DEF PausePublication
<1>3. publication' \in Publication(latest) /\ publication'.revision = publication.revision
  BY <1>1, <1>2 DEF Publication
<1>4. UNCHANGED <<accepted, latest, board, req, selected>>
  BY DEF PausePublication
<1>5. SelectedIsComplete'
  BY <1>3, <1>4 DEF AgendaInductive, SelectedIsComplete, Placed, ConflictFree, SpeakerClash
<1> QED BY <1>3, <1>4, <1>5, PublicationStep DEF AgendaInductive

\* A session that is accepted later is not in the program that is selected.
LEMMA AcceptStep ==
  ASSUME AgendaInductive, NEW s \in Sessions, AcceptSession(s)
  PROVE  AgendaInductive'
<1>1. UNCHANGED <<latest, board, publication, req, selected>> /\ accepted' = accepted \cup {s}
  BY DEF AcceptSession
<1>2. SelectedIsComplete'
  BY <1>1 DEF AgendaInductive, SelectedIsComplete, Placed, ConflictFree, SpeakerClash
<1> QED BY <1>1, <1>2, PublicationStep DEF AgendaInductive

-----------------------------------------------------------------------------
(* Theorems.                                                               *)

\* What requests hold is still true when they write it, for every agenda.
THEOREM AgendaInvariance == Spec => []AgendaInductive
<1>1. Init => AgendaInductive
  <2> SUFFICES ASSUME Init PROVE AgendaInductive
    OBVIOUS
  <2>1. /\ accepted = {} /\ latest = 0 /\ publication.revision = 0
        /\ publication \in Publication(latest)
    BY DEF Init, Publication
  <2>2. board = [v \in Versions |-> board[v]] /\ req = [o \in Organizers |-> req[o]]
    BY DEF Init
  <2>3. \A o \in Organizers : req[o] = Idle
    BY DEF Init
  <2>4. (\A o \in Organizers : StillHolds(req[o])) /\ OneCreator
    BY <2>3, IdleHolds DEF OneCreator
  <2>5. NoAbandonedDraft /\ SelectedIsComplete
    BY <2>1 DEF NoAbandonedDraft, SelectedIsComplete
  <2> QED BY <2>1, <2>2, <2>4, <2>5, AgendaAssumption DEF AgendaInductive
<1>2. AgendaInductive /\ [Next]_vars => AgendaInductive'
  <2> SUFFICES ASSUME AgendaInductive, [Next]_vars PROVE AgendaInductive'
    OBVIOUS
  <2>1. CASE UNCHANGED vars
    <3>1. SelectedIsComplete'
      BY <2>1 DEF vars, AgendaInductive, SelectedIsComplete, Placed, ConflictFree, SpeakerClash
    <3> QED BY <2>1, <3>1, PublicationStep DEF vars, AgendaInductive
  <2>2. ASSUME NEW s \in Sessions, AcceptSession(s) PROVE AgendaInductive'
    BY <2>2, AcceptStep
  <2>3. CASE PausePublication
    BY <2>3, PauseStep
  <2>4. ASSUME NEW o \in Organizers, Request(o) PROVE AgendaInductive'
    <3>1. CASE StartReading(o) \/ LoadSnapshot(o) \/ LoadPlacements(o) \/ SetRevisionStatus(o)
      BY <3>1, ReadSteps
    <3>2. CASE AutoPlace(o) \/ StartEdit(o) \/ StartAutoEdit(o) \/ CheckMutable(o)
                 \/ ReplayPublish(o)
      BY <3>2, EditSteps
    <3>3. CASE PlaceSession(o) \/ UnplaceSession(o) \/ ApplyAutoPlacements(o)
      BY <3>3, EditsWrite, WriteStep, EditSteps
    <3>4. CASE CreateDraftRevision(o) \/ CopyRevision(o)
      BY <3>4, CreateSteps
    <3>5. CASE PublishProgram(o)
      BY <3>5, PublishStep
    <3> QED BY <2>4, <3>1, <3>2, <3>3, <3>4, <3>5 DEF Request
  <2> QED BY <2>1, <2>2, <2>3, <2>4 DEF Next
<1> QED BY <1>1, <1>2, PTL DEF Spec

\* Organizers that start a revision at the same time get the same draft.
THEOREM NoDraftIsAbandoned == Spec => []NoAbandonedDraft
<1>1. AgendaInductive => NoAbandonedDraft
  BY DEF AgendaInductive
<1> QED BY <1>1, AgendaInvariance, PTL

\* The program that was published stays complete and free of clashes, however
\* many edits of the revision were under way.
THEOREM SelectedStaysComplete == Spec => []SelectedIsComplete
<1>1. AgendaInductive => SelectedIsComplete
  BY DEF AgendaInductive
<1> QED BY <1>1, AgendaInvariance, PTL

\* No placement of the selected revision changes.
THEOREM SelectedStaysSealed == Spec => SelectedIsSealed
<1>1. ASSUME AgendaInductive, [Next]_vars
      PROVE  [publication.revision # 0 /\ publication'.revision = publication.revision =>
                board'[publication.revision] = board[publication.revision]]_vars
  <2>1. CASE UNCHANGED board
    BY <2>1
  <2>2. ASSUME NEW o \in Organizers,
               PlaceSession(o) \/ UnplaceSession(o) \/ ApplyAutoPlacements(o)
        PROVE  publication.revision # 0 =>
                 board'[publication.revision] = board[publication.revision]
    <3>1. CASE Refuse(o)
      BY <3>1 DEF Refuse
    <3> QED BY <1>1, <2>2, <3>1, EditsWrite, WriteKeepsSelected
  <2>3. ASSUME NEW o \in Organizers, CopyRevision(o)
        PROVE  publication.revision # 0 =>
                 board'[publication.revision] = board[publication.revision]
    BY <1>1, <2>3, CopyKeepsSelected
  <2>4. \/ UNCHANGED board
        \/ \E o \in Organizers :
             PlaceSession(o) \/ UnplaceSession(o) \/ ApplyAutoPlacements(o) \/ CopyRevision(o)
    BY <1>1 DEF Next, vars, Request, AcceptSession, PausePublication, StartReading, LoadSnapshot,
       LoadPlacements, SetRevisionStatus, AutoPlace, StartEdit, StartAutoEdit, CheckMutable,
       CreateDraftRevision, PublishProgram, ReplayPublish
  <2> QED BY <2>1, <2>2, <2>3, <2>4
<1> QED BY <1>1, AgendaInvariance, PTL DEF Spec, SelectedIsSealed

\* A publish or a pause changes the publication only together with a receipt
\* of its own, so that no command acts twice.
THEOREM CommandsLeaveReceipts == Spec => CommandsActOnce
<1>1. ASSUME [Next]_vars PROVE [publication' # publication => receipts' # receipts]_vars
  <2>1. ASSUME NEW o \in Organizers, PublishProgram(o), publication' # publication
        PROVE  receipts' # receipts
    BY <2>1 DEF PublishProgram, GoLive
  <2>2. ASSUME PausePublication PROVE receipts' # receipts
    BY <2>2 DEF PausePublication
  <2>3. \/ UNCHANGED publication
        \/ PausePublication
        \/ \E o \in Organizers : PublishProgram(o)
    BY <1>1 DEF Next, vars, Request, AcceptSession, StartReading, LoadSnapshot, LoadPlacements,
       SetRevisionStatus, AutoPlace, StartEdit, StartAutoEdit, CheckMutable, PlaceSession,
       UnplaceSession, ApplyAutoPlacements, Write, Refuse, CreateDraftRevision, CopyRevision,
       ReplayPublish
  <2> QED BY <2>1, <2>2, <2>3
<1> QED BY <1>1, PTL DEF Spec, CommandsActOnce

-----------------------------------------------------------------------------
(* Automatic placement.                                                    *)

Boards == [Sessions -> Placement \cup {Unplaced}]

\* The earliest of some slots is one of them.
LEMMA EarliestSlot ==
  ASSUME NEW slots \in SUBSET Placement, slots # {}
  PROVE  (CHOOSE p \in slots : \A q \in slots : Earlier(p, q)) \in slots
<1>1. \A p \in slots : p.start \in Nat /\ p.room \in Nat
  BY AgendaAssumption DEF Placement, Rooms
<1>2. PICK m \in {p.start : p \in slots} : \A n \in {p.start : p \in slots} : m <= n
  <2> DEFINE starting == {p.start : p \in slots}
  <2>1. starting \in SUBSET Nat
    BY <1>1
  <2>2. starting # {}
    BY SMT
  <2> HIDE DEF starting
  <2>3. \E m \in starting : \A n \in starting : m <= n
    BY <2>1, <2>2, LeastNumber, Zenon
  <2> QED BY <2>3 DEF starting
<1> DEFINE first == {p \in slots : p.start = m}
<1>3. PICK r \in {p.room : p \in first} : \A n \in {p.room : p \in first} : r <= n
  <2>1. {p.room : p \in first} \in SUBSET Nat /\ {p.room : p \in first} # {}
    BY <1>1, <1>2
  <2> QED BY <2>1, LeastNumber
<1>4. PICK p \in slots : p.start = m /\ p.room = r
  BY <1>3
<1>5. ASSUME NEW q \in slots PROVE Earlier(p, q)
  <2>1. m <= q.start /\ (q.start = m => r <= q.room)
    BY <1>2, <1>3
  <2> QED BY <1>1, <1>4, <2>1 DEF Earlier
<1> QED BY <1>5

\* Clashes are mutual.
LEMMA ClashesAreMutual ==
  /\ \A p, q : RoomClash(p, q) <=> RoomClash(q, p)
  /\ \A b, s, t : SpeakerClash(b, s, t) <=> SpeakerClash(b, t, s)
<1>1. \A p, q : Overlap(p, q) <=> Overlap(q, p)
  BY DEF Overlap
<1> QED BY <1>1 DEF RoomClash, SpeakerClash

\* One step of automatic placement: the session has a slot that clashes with nothing that
\* is known, or the board stays as it is.
LEMMA PlaceNextKeeps ==
  ASSUME NEW b \in Boards, NEW known, NEW K \in SUBSET known, NEW s \in Sessions, ConflictFree(b, K)
  PROVE  /\ PlaceNext(b, known, s) \in Boards
         /\ ConflictFree(PlaceNext(b, known, s), K)
         /\ \A t \in Sessions : b[t] # Unplaced => PlaceNext(b, known, s)[t] = b[t]
<1>1. CASE s \notin known \/ b[s] # Unplaced \/ Slots(b, known, s) = {}
  BY <1>1 DEF PlaceNext
<1>2. CASE s \in known /\ b[s] = Unplaced /\ Slots(b, known, s) # {}
  <2>1. PICK p : p = CHOOSE o \in Slots(b, known, s) : \A q \in Slots(b, known, s) : Earlier(o, q)
    OBVIOUS
  <2>2. p \in Slots(b, known, s) /\ p \in Placement
    <3>1. Slots(b, known, s) \in SUBSET Placement
      BY DEF Slots
    <3> QED BY <1>2, <2>1, <3>1, EarliestSlot
  <2>3. PICK c : c = [b EXCEPT ![s] = p]
    OBVIOUS
  <2>4. c \in Boards /\ c[s] = p /\ (\A t \in Sessions : t # s => c[t] = b[t])
    BY <2>2, <2>3 DEF Boards
  <2>5. \A t \in Sessions \ {s} : ~RoomClash(p, b[t]) /\ (t \in known => ~SpeakerClash(c, s, t))
    BY <2>2, <2>3 DEF Slots
  <2>6. ConflictFree(c, K)
    <3> SUFFICES ASSUME NEW u \in Sessions, NEW t \in Sessions, u # t
                 PROVE  ~RoomClash(c[u], c[t]) /\ ({u, t} \subseteq K => ~SpeakerClash(c, u, t))
      BY DEF ConflictFree
    <3>1. CASE u = s
      BY <2>4, <2>5, <3>1
    <3>2. CASE t = s
      BY <2>4, <2>5, <3>2, ClashesAreMutual
    <3>3. CASE u # s /\ t # s
      BY <2>4, <3>3 DEF ConflictFree, SpeakerClash
    <3> QED BY <3>1, <3>2, <3>3
  <2>7. PlaceNext(b, known, s) = c
    BY <1>2, <2>1, <2>3 DEF PlaceNext
  <2> QED BY <1>2, <2>4, <2>6, <2>7
<1> QED BY <1>1, <1>2

\* The boards on the way to a plan, one session after the other.
Way(b, known, n, way) ==
  way = [i \in 0..n |-> IF i = 0 THEN b ELSE PlaceNext(way[i - 1], known, i)]

LEMMA WayIsThere ==
  ASSUME NEW b, NEW known
  PROVE  \A n \in Nat : \E way : Way(b, known, n, way)
<1> DEFINE Good == {n \in Nat : \E way : Way(b, known, n, way)}
<1>1. 0 \in Good
  <2>1. PICK way : way = [i \in 0..0 |-> b]
    OBVIOUS
  <2>2. Way(b, known, 0, way)
    BY <2>1 DEF Way
  <2> QED BY <2>2
<1>2. ASSUME NEW n \in Nat, n \in Good PROVE n + 1 \in Good
  <2>1. PICK way : Way(b, known, n, way)
    BY <1>2
  <2>2. PICK next : next = [i \in 0..(n + 1) |-> IF i = 0 THEN b ELSE PlaceNext(way[i - 1], known, i)]
    OBVIOUS
  <2>3. \A i \in 0..n : next[i] = way[i]
    BY <2>1, <2>2 DEF Way
  <2>4. \A i \in 0..(n + 1) : i # 0 => next[i - 1] = way[i - 1]
    BY <2>3
  <2>5. Way(b, known, n + 1, next)
    BY <2>2, <2>4 DEF Way
  <2> QED BY <2>5
<1> HIDE DEF Good
<1>3. Nat \subseteq Good
  BY <1>1, <1>2, Induction
<1> QED BY <1>3 DEF Good

\* Automatic placement leaves what is placed, and adds no clash to the sessions it knows or to
\* some of them; in particular no two sessions are in one room (planAutoPlacements).
THEOREM AutoPlacementAddsNoClash ==
  ASSUME NEW b \in Boards, NEW known, NEW K \in SUBSET known, ConflictFree(b, K)
  PROVE  /\ PlanAutoPlacements(b, known) \in Boards
         /\ ConflictFree(PlanAutoPlacements(b, known), K)
         /\ \A s \in Sessions : b[s] # Unplaced => PlanAutoPlacements(b, known)[s] = b[s]
<1>0. SessionCount \in Nat
  BY AgendaAssumption
<1>1. PICK way : /\ Way(b, known, SessionCount, way)
                 /\ PlanAutoPlacements(b, known) = way[SessionCount]
  <2>1. \E way : Way(b, known, SessionCount, way)
    BY <1>0, WayIsThere
  <2>2. PICK way : way = CHOOSE w : Way(b, known, SessionCount, w)
    OBVIOUS
  <2>3. Way(b, known, SessionCount, way)
    BY <2>1, <2>2
  <2>4. PlanAutoPlacements(b, known) = way[SessionCount]
    BY <2>2 DEF PlanAutoPlacements, Way
  <2> QED BY <2>3, <2>4
<1> DEFINE Fits(c) == /\ c \in Boards /\ ConflictFree(c, K)
                      /\ \A s \in Sessions : b[s] # Unplaced => c[s] = b[s]
           Good == {n \in Nat : n \in 0..SessionCount => Fits(way[n])}
<1>2. 0 \in Good
  BY <1>1 DEF Way
<1>3. ASSUME NEW n \in Nat, n \in Good PROVE n + 1 \in Good
  <2> SUFFICES ASSUME n + 1 \in 0..SessionCount PROVE Fits(way[n + 1])
    OBVIOUS
  <2>1. Fits(way[n]) /\ n + 1 \in Sessions
    BY <1>0, <1>3 DEF Sessions
  <2>2. way[n + 1] = PlaceNext(way[n], known, n + 1)
    BY <1>0, <1>1 DEF Way
  <2>3. PICK c, d : c = way[n] /\ d = way[n + 1]
    OBVIOUS
  <2>4. d = PlaceNext(c, known, n + 1) /\ Fits(c)
    BY <2>1, <2>2, <2>3
  <2>5. /\ d \in Boards /\ ConflictFree(d, K)
        /\ \A s \in Sessions : c[s] # Unplaced => d[s] = c[s]
    BY <2>1, <2>4, PlaceNextKeeps
  <2>6. \A s \in Sessions : b[s] # Unplaced => d[s] = b[s]
    BY <2>4, <2>5
  <2> QED BY <2>3, <2>5, <2>6
<1>4. Fits(way[SessionCount])
  <2>1. SessionCount \in Good
    <3> HIDE DEF Good
    <3> QED BY <1>0, <1>2, <1>3, Induction
  <2> QED BY <1>0, <2>1
<1> QED BY <1>1, <1>4

-----------------------------------------------------------------------------
(* What is on the boards.                                                  *)

\* What a request is about to write fits on a board, and does not clash with itself.
PlanFits(plan) ==
  /\ DOMAIN plan \subseteq Sessions
  /\ \A s \in DOMAIN plan : plan[s] \in Placement \cup {Unplaced}
  /\ \A s, t \in DOMAIN plan : s # t => ~RoomClash(plan[s], plan[t])

BoardsInductive ==
  /\ status \in [Versions -> {"draft", "ready"}]
  /\ board \in [Versions -> Boards] /\ RoomsAreFree
  /\ receipts \subseteq ({"publish"} \X PublishKeys) \cup ({"pause"} \X PauseKeys)
  /\ selected \subseteq 1..latest
  /\ publication.state = "live" => publication.revision # 0
  /\ \A o \in Organizers : req[o].at \in {"lock", "check", "write"} => PlanFits(req[o].plan)

\* A board with room for a plan.
LEMMA PlanGoesOnBoard ==
  ASSUME NEW b \in Boards, NEW plan, PlanFits(plan), RoomsFree(b, plan), ConflictFree(b, {})
  PROVE  Onto(plan, b) \in Boards /\ ConflictFree(Onto(plan, b), {})
<1>1. PICK c : c = Onto(plan, b)
  OBVIOUS
<1>2. \A s \in Sessions : c[s] = IF s \in DOMAIN plan THEN plan[s] ELSE b[s]
  BY <1>1 DEF Onto
<1>3. c \in Boards
  BY <1>1 DEF Onto, Boards, PlanFits
<1>4. ASSUME NEW s \in Sessions, NEW t \in Sessions, s # t PROVE ~RoomClash(c[s], c[t])
  <2>1. CASE s \in DOMAIN plan /\ t \in DOMAIN plan
    BY <1>2, <1>4, <2>1 DEF PlanFits
  <2>2. CASE s \in DOMAIN plan /\ t \notin DOMAIN plan
    BY <1>2, <1>4, <2>2 DEF RoomsFree
  <2>3. CASE s \notin DOMAIN plan /\ t \in DOMAIN plan
    <3>1. ~RoomClash(plan[t], b[s])
      BY <1>4, <2>3 DEF RoomsFree
    <3> QED BY <1>2, <2>3, <3>1, ClashesAreMutual
  <2>4. CASE s \notin DOMAIN plan /\ t \notin DOMAIN plan
    BY <1>2, <1>4, <2>4 DEF ConflictFree
  <2> QED BY <2>1, <2>2, <2>3, <2>4
<1> QED BY <1>1, <1>3, <1>4 DEF ConflictFree

\* What is taken off the board clashes with nothing.
LEMMA NothingClashesOff ==
  ASSUME NEW b \in Boards, NEW s \in Sessions
  PROVE  PlanFits(Only(s, Unplaced)) /\ RoomsFree(b, Only(s, Unplaced))
<1>1. \A t \in Sessions : b[t].start \in Nat
  BY AgendaAssumption DEF Boards, Placement, Unplaced
<1>2. \A t \in Sessions : ~RoomClash(Unplaced, b[t])
  BY <1>1 DEF RoomClash, Overlap, Unplaced
<1>3. DOMAIN Only(s, Unplaced) = {s} /\ Only(s, Unplaced)[s] = Unplaced
  BY DEF Only
<1> QED BY <1>2, <1>3 DEF PlanFits, RoomsFree

\* Edits write plans that fit.
LEMMA EditsFit ==
  ASSUME AgendaInductive, BoardsInductive, NEW o \in Organizers,
         PlaceSession(o) \/ UnplaceSession(o) \/ ApplyAutoPlacements(o)
  PROVE  \/ Refuse(o)
         \/ \E plan : /\ Write(o, plan) /\ PlanFits(plan)
                      /\ RoomsFree(board[req[o].rev], plan)
<1>1. CASE PlaceSession(o)
  <2>1. PICK s \in accepted, p \in Offers :
          IF RoomsFree(board[req[o].rev], Only(s, p)) THEN Write(o, Only(s, p)) ELSE Refuse(o)
    BY <1>1 DEF PlaceSession
  <2>2. s \in Sessions /\ p \in Placement
    BY AgendaAssumption DEF AgendaInductive
  <2>3. PlanFits(Only(s, p))
    <3>1. DOMAIN Only(s, p) = {s} /\ Only(s, p)[s] = p
      BY DEF Only
    <3> QED BY <2>2, <3>1 DEF PlanFits
  <2> QED BY <2>1, <2>3
<1>2. CASE UnplaceSession(o)
  <2>1. PICK s \in accepted : Write(o, Only(s, Unplaced))
    BY <1>2 DEF UnplaceSession
  <2>2. s \in Sessions /\ req[o].rev \in Versions
    BY <1>2, AgendaAssumption
       DEF AgendaInductive, UnplaceSession, Writing, StillHolds, Versions
  <2>3. board[req[o].rev] \in Boards
    BY <2>2 DEF BoardsInductive
  <2> QED BY <2>1, <2>2, <2>3, NothingClashesOff
<1>3. CASE ApplyAutoPlacements(o)
  BY <1>3 DEF ApplyAutoPlacements, BoardsInductive
<1> QED BY <1>1, <1>2, <1>3

\* A step of one request that leaves the rows alone, or changes the status of a revision.
LEMMA BoardsStay ==
  ASSUME BoardsInductive, AgendaInductive, NEW o \in Organizers, NEW j,
         UNCHANGED <<latest, board, publication, receipts, selected>>,
         status' \in [Versions -> {"draft", "ready"}],
         req' = [req EXCEPT ![o] = j],
         j.at \in {"lock", "check", "write"} => PlanFits(j.plan)
  PROVE  BoardsInductive'
<1>1. \A c \in Organizers : req'[c] = IF c = o THEN j ELSE req[c]
  BY DEF AgendaInductive
<1>2. ASSUME NEW c \in Organizers, req'[c].at \in {"lock", "check", "write"}
      PROVE  PlanFits(req'[c].plan)
  BY <1>1, <1>2 DEF BoardsInductive
<1>3. RoomsAreFree'
  BY DEF BoardsInductive, RoomsAreFree
<1> QED BY <1>2, <1>3 DEF BoardsInductive, PlanFits

\* Reading, automatic placement and the locks of an edit.
LEMMA RequestsKeepBoards ==
  ASSUME AgendaInductive, BoardsInductive, NEW o \in Organizers,
         \/ StartReading(o) \/ LoadSnapshot(o) \/ LoadPlacements(o) \/ SetRevisionStatus(o)
         \/ AutoPlace(o) \/ StartEdit(o) \/ StartAutoEdit(o) \/ CheckMutable(o) \/ Refuse(o)
         \/ CreateDraftRevision(o) \/ ReplayPublish(o)
  PROVE  BoardsInductive'
<1>0. /\ StillHolds(req[o]) /\ latest \in 0..MaxVersion /\ MaxVersion \in Nat
      /\ req[o].at \in {"lock", "check", "write"} => PlanFits(req[o].plan)
  BY AgendaAssumption DEF AgendaInductive, BoardsInductive
<1> DEFINE Fits(j) == j.at \in {"lock", "check", "write"} => PlanFits(j.plan)
<1>1. Fits(Idle) /\ \A cmd, v : Fits(Reading(cmd, v))
  BY DEF Idle, Reading
<1>2. \A cmd, v, ready, count : Fits(AfterReadiness(cmd, v, ready, count))
  BY <1>1 DEF AfterReadiness
<1>3. CASE StartReading(o)
  <2>1. PICK cmd, v : Becomes(o, Reading(cmd, v))
    BY <1>3 DEF StartReading
  <2>2. PICK j : j = Reading(cmd, v)
    OBVIOUS
  <2>3. Fits(j)
    BY <1>1, <2>2
  <2> QED BY <1>3, <2>1, <2>2, <2>3, BoardsStay DEF StartReading, Becomes, BoardsInductive
<1>4. CASE LoadSnapshot(o)
  <2>1. PICK cmd, v, known, seen :
          Becomes(o, [at |-> "board", cmd |-> cmd, rev |-> v, known |-> known, seen |-> seen])
    BY <1>4 DEF LoadSnapshot
  <2>2. PICK j : j = [at |-> "board", cmd |-> cmd, rev |-> v, known |-> known, seen |-> seen]
    OBVIOUS
  <2>3. Fits(j)
    BY <2>2
  <2> QED BY <1>4, <2>1, <2>2, <2>3, BoardsStay DEF LoadSnapshot, Becomes, BoardsInductive
<1>5. CASE LoadPlacements(o)
  <2>1. PICK cmd, v, ready, count :
          \/ Becomes(o, AfterReadiness(cmd, v, ready, count))
          \/ Becomes(o, [at |-> "persist", cmd |-> cmd, rev |-> v, ready |-> ready,
                         count |-> count])
    BY <1>5 DEF LoadPlacements
  <2>2. PICK j : /\ \/ j = AfterReadiness(cmd, v, ready, count)
                    \/ j = [at |-> "persist", cmd |-> cmd, rev |-> v, ready |-> ready,
                            count |-> count]
                 /\ Becomes(o, j)
    BY <2>1
  <2>3. Fits(j)
    BY <1>2, <2>2
  <2> QED BY <1>5, <2>2, <2>3, BoardsStay DEF LoadPlacements, Becomes, BoardsInductive
<1>6. CASE SetRevisionStatus(o)
  <2>1. PICK cmd, v, ready, count : Becomes(o, AfterReadiness(cmd, v, ready, count))
    BY <1>6 DEF SetRevisionStatus
  <2>2. status' \in [Versions -> {"draft", "ready"}]
    BY <1>6 DEF SetRevisionStatus, BoardsInductive
  <2>3. PICK j : j = AfterReadiness(cmd, v, ready, count)
    OBVIOUS
  <2>4. Fits(j)
    BY <1>2, <2>3
  <2> QED BY <1>6, <2>1, <2>2, <2>3, <2>4, BoardsStay DEF SetRevisionStatus, Becomes
<1>7. CASE AutoPlace(o)
  <2>1. PICK v, known : v = req[o].rev /\ known = req[o].known
    OBVIOUS
  <2>2. v \in Versions
    BY <1>0, <1>7, <2>1 DEF AutoPlace, StillHolds, Versions
  <2>3. PICK b : b = board[v] /\ b \in Boards /\ ConflictFree(b, {})
    BY <2>2 DEF BoardsInductive, RoomsAreFree, ConflictFree
  <2>4. PICK c : c = PlanAutoPlacements(b, known)
    OBVIOUS
  <2>5. c \in Boards /\ ConflictFree(c, {})
    BY <2>3, <2>4, AutoPlacementAddsNoClash
  <2>6. PICK plan : plan = [s \in {s \in Sessions : c[s] # b[s]} |-> c[s]]
    OBVIOUS
  <2>7. PlanFits(plan)
    BY <2>5, <2>6 DEF PlanFits, ConflictFree, Boards
  <2>8. \/ Becomes(o, Reading("view", v))
        \/ Becomes(o, [at |-> "lock", rev |-> v, plan |-> plan])
    BY <1>7, <2>1, <2>3, <2>4, <2>6 DEF AutoPlace
  <2>9. PICK j : /\ Becomes(o, j)
                 /\ j = Reading("view", v) \/ j = [at |-> "lock", rev |-> v, plan |-> plan]
    BY <2>8
  <2>10. Fits(j)
    BY <1>1, <2>7, <2>9
  <2> QED BY <1>7, <2>9, <2>10, BoardsStay DEF AutoPlace, Becomes, BoardsInductive
<1>8. CASE StartEdit(o)
  <2>1. PICK v : Becomes(o, [at |-> "check", rev |-> v, plan |-> NoPlan])
    BY <1>8 DEF StartEdit
  <2>2. PICK j : j = [at |-> "check", rev |-> v, plan |-> NoPlan]
    OBVIOUS
  <2>3. PlanFits(NoPlan)
    BY DEF PlanFits, NoPlan
  <2>4. Fits(j)
    BY <2>2, <2>3
  <2> QED BY <1>8, <2>1, <2>2, <2>4, BoardsStay DEF StartEdit, Becomes, BoardsInductive
<1>9. CASE StartAutoEdit(o) \/ CheckMutable(o)
  <2>1. /\ req[o].at \in {"lock", "check"}
        /\ req[o] = [at |-> req[o].at, rev |-> req[o].rev, plan |-> req[o].plan]
    BY <1>0, <1>9 DEF StartAutoEdit, CheckMutable, StillHolds
  <2>2. PICK at : at \in {"check", "write"} /\ (Becomes(o, Idle) \/ Becomes(o, [req[o] EXCEPT !.at = at]))
    BY <1>9 DEF StartAutoEdit, CheckMutable
  <2>3. PICK j : Becomes(o, j) /\ (j = Idle \/ j = [req[o] EXCEPT !.at = at])
    BY <2>2
  <2>4. j = Idle \/ j.plan = req[o].plan
    BY <2>1, <2>3
  <2>5. Fits(j)
    BY <1>0, <1>1, <2>1, <2>4
  <2> QED BY <1>9, <2>3, <2>5, BoardsStay DEF StartAutoEdit, CheckMutable, Becomes, BoardsInductive
<1>10. CASE Refuse(o) \/ ReplayPublish(o)
  BY <1>1, <1>10, BoardsStay DEF Refuse, ReplayPublish, Becomes, BoardsInductive
<1>11. CASE CreateDraftRevision(o)
  <2>1. Becomes(o, [at |-> "copy"]) \/ Becomes(o, Reading("view", latest))
    BY <1>11 DEF CreateDraftRevision
  <2>2. PICK j : Becomes(o, j) /\ (j = [at |-> "copy"] \/ j = Reading("view", latest))
    BY <2>1
  <2>3. Fits(j)
    BY <1>1, <2>2
  <2> QED BY <1>11, <2>2, <2>3, BoardsStay DEF CreateDraftRevision, Becomes, BoardsInductive
<1> QED BY <1>3, <1>4, <1>5, <1>6, <1>7, <1>8, <1>9, <1>10, <1>11

\* A step that changes one board.
LEMMA OneBoardChanges ==
  ASSUME AgendaInductive, BoardsInductive, NEW o \in Organizers, NEW v \in Versions, NEW b \in Boards,
         ConflictFree(b, {}), board' = [board EXCEPT ![v] = b],
         UNCHANGED <<publication, receipts, selected>>, latest <= latest', latest' \in Nat,
         status' \in [Versions -> {"draft", "ready"}],
         \E cmd, n : Becomes(o, Reading(cmd, n))
  PROVE  BoardsInductive'
<1>1. PICK cmd, n : req' = [req EXCEPT ![o] = Reading(cmd, n)]
  BY DEF Becomes
<1>2. \A c \in Organizers : req'[c] = IF c = o THEN Reading(cmd, n) ELSE req[c]
  BY <1>1 DEF AgendaInductive
<1>3. ASSUME NEW c \in Organizers, req'[c].at \in {"lock", "check", "write"}
      PROVE  PlanFits(req'[c].plan)
  BY <1>2, <1>3 DEF BoardsInductive, Reading
<1>4. board' \in [Versions -> Boards]
  BY DEF BoardsInductive
<1>5. \A u \in Versions : board'[u] = IF u = v THEN b ELSE board[u]
  BY DEF BoardsInductive
<1>6. RoomsAreFree'
  BY <1>5 DEF BoardsInductive, RoomsAreFree, ConflictFree
<1>7. selected' \subseteq 1..latest'
  BY DEF BoardsInductive, AgendaInductive
<1> QED BY <1>3, <1>4, <1>6, <1>7 DEF BoardsInductive, PlanFits

\* Edits and copies.
LEMMA WritesKeepBoards ==
  ASSUME AgendaInductive, BoardsInductive, NEW o \in Organizers,
         PlaceSession(o) \/ UnplaceSession(o) \/ ApplyAutoPlacements(o) \/ CopyRevision(o)
  PROVE  BoardsInductive'
<1>0. latest \in 0..MaxVersion /\ MaxVersion \in Nat /\ StillHolds(req[o]) /\ latest \in Nat
  BY AgendaAssumption DEF AgendaInductive
<1>1. ASSUME NEW plan, req[o].at = "write", Write(o, plan), PlanFits(plan),
             RoomsFree(board[req[o].rev], plan)
      PROVE  BoardsInductive'
  <2>1. PICK v : v = req[o].rev
    OBVIOUS
  <2>2. v \in Versions
    BY <1>0, <1>1, <2>1 DEF StillHolds, Versions
  <2>3. board[v] \in Boards /\ ConflictFree(board[v], {})
    BY <2>2 DEF BoardsInductive, RoomsAreFree, ConflictFree
  <2>4. PICK b : b = Onto(plan, board[v]) /\ b \in Boards /\ ConflictFree(b, {})
    BY <1>1, <2>1, <2>3, PlanGoesOnBoard
  <2>5. board' = [board EXCEPT ![v] = b]
    BY <1>1, <2>1, <2>4 DEF Write
  <2>6. status' \in [Versions -> {"draft", "ready"}]
    BY <1>1 DEF Write, BoardsInductive
  <2>7. UNCHANGED <<publication, receipts, selected, latest>> /\ \E cmd, n : Becomes(o, Reading(cmd, n))
    BY <1>1 DEF Write
  <2>8. latest <= latest' /\ latest' \in Nat
    BY <1>0, <2>7
  <2> QED BY <2>2, <2>4, <2>5, <2>6, <2>7, <2>8, OneBoardChanges
<1>2. CASE CopyRevision(o)
  <2>1. PICK v : v = latest + 1 /\ v = latest' /\ v \in Versions
    BY <1>0, <1>2 DEF CopyRevision, StillHolds, Versions
  <2>2. PICK b : b = IF latest = 0 THEN board[v] ELSE board[latest]
    OBVIOUS
  <2>3. b \in Boards /\ ConflictFree(b, {})
    <3>1. latest # 0 => latest \in Versions
      BY <1>0 DEF Versions
    <3> QED BY <2>1, <2>2, <3>1 DEF BoardsInductive, RoomsAreFree, ConflictFree
  <2>4. board' = [board EXCEPT ![v] = b]
    BY <1>2, <2>1, <2>2 DEF CopyRevision, BoardsInductive
  <2>5. UNCHANGED <<status, publication, receipts, selected>> /\ \E cmd, n : Becomes(o, Reading(cmd, n))
    BY <1>2 DEF CopyRevision
  <2>6. latest <= latest' /\ latest' \in Nat /\ status' \in [Versions -> {"draft", "ready"}]
    BY <1>0, <2>1, <2>5 DEF BoardsInductive
  <2> QED BY <2>1, <2>3, <2>4, <2>5, <2>6, OneBoardChanges
<1>3. CASE PlaceSession(o) \/ UnplaceSession(o) \/ ApplyAutoPlacements(o)
  <2>1. req[o].at = "write"
    BY <1>3, EditsWrite
  <2>2. CASE Refuse(o)
    BY <2>2, RequestsKeepBoards
  <2> QED BY <1>1, <1>3, <2>1, <2>2, EditsFit
<1> QED BY <1>2, <1>3

\* Steps of the publication and of Program.
LEMMA PublicationKeepsBoards ==
  ASSUME AgendaInductive, BoardsInductive,
         \/ \E s \in Sessions : AcceptSession(s)
         \/ PausePublication
         \/ \E o \in Organizers : PublishProgram(o)
  PROVE  BoardsInductive'
<1>0. publication \in Publication(latest) /\ latest \in 0..MaxVersion /\ MaxVersion \in Nat
  BY AgendaAssumption DEF AgendaInductive
<1>1. /\ UNCHANGED <<latest, status, board>>
      /\ req' = req \/ \E o \in Organizers : req' = [req EXCEPT ![o] = Idle]
  BY DEF AcceptSession, PausePublication, PublishProgram, Becomes
<1>2. \A c \in Organizers : req'[c] = req[c] \/ req'[c] = Idle
  BY <1>1 DEF AgendaInductive
<1>3. ASSUME NEW c \in Organizers, req'[c].at \in {"lock", "check", "write"}
      PROVE  PlanFits(req'[c].plan)
  BY <1>2, <1>3 DEF BoardsInductive, Idle
<1>4. RoomsAreFree'
  BY <1>1 DEF BoardsInductive, RoomsAreFree
<1>5. /\ receipts' \subseteq ({"publish"} \X PublishKeys) \cup ({"pause"} \X PauseKeys)
      /\ selected' \subseteq 1..latest
      /\ publication'.state = "live" => publication'.revision # 0
  <2>1. CASE UNCHANGED <<publication, receipts, selected>>
    BY <2>1 DEF BoardsInductive
  <2>2. CASE PausePublication
    <3>1. publication'.state = "paused"
      BY <1>0, <2>2 DEF PausePublication, Publication
    <3> QED BY <2>2, <3>1 DEF BoardsInductive, PausePublication
  <2>3. ASSUME NEW o \in Organizers, PublishProgram(o),
               ~UNCHANGED <<publication, receipts, selected>>
        PROVE  /\ receipts' \subseteq ({"publish"} \X PublishKeys) \cup ({"pause"} \X PauseKeys)
               /\ selected' \subseteq 1..latest
               /\ publication'.state = "live" => publication'.revision # 0
    <3>1. PICK v : v = req[o].rev
      OBVIOUS
    <3>2. PICK k \in PublishKeys : GoLive(v, k)
      BY <2>3, <3>1 DEF PublishProgram
    <3>3. StillHolds(req[o]) /\ req[o].at = "publish"
      BY <2>3 DEF AgendaInductive, PublishProgram
    <3>4. v \in 1..latest /\ v # 0
      BY <3>1, <3>3 DEF StillHolds
    <3>5. /\ publication'.revision = v
          /\ receipts' = receipts \cup {<<"publish", k>>} /\ selected' = selected \cup {v}
      BY <3>2 DEF GoLive
    <3> QED BY <3>4, <3>5 DEF BoardsInductive
  <2> QED BY <2>1, <2>2, <2>3 DEF AcceptSession
<1> QED BY <1>1, <1>3, <1>4, <1>5 DEF BoardsInductive, PlanFits

\* The boards of every revision, whatever is written into them.
THEOREM BoardsInvariance == Spec => []BoardsInductive
<1>1. Init => BoardsInductive
  <2> SUFFICES ASSUME Init PROVE BoardsInductive
    OBVIOUS
  <2>1. Empty \in Boards
    BY DEF Empty, Boards
  <2>2. board \in [Versions -> Boards] /\ status \in [Versions -> {"draft", "ready"}]
    BY <2>1 DEF Init
  <2>3. RoomsAreFree
    <3>1. ~RoomClash(Unplaced, Unplaced)
      BY DEF RoomClash, Overlap, Unplaced
    <3> QED BY <3>1 DEF Init, RoomsAreFree, Empty
  <2>4. \A o \in Organizers : req[o] = Idle
    BY DEF Init
  <2> QED BY <2>2, <2>3, <2>4 DEF Init, BoardsInductive, Idle
<1>2. AgendaInductive /\ BoardsInductive /\ [Next]_vars => BoardsInductive'
  <2> SUFFICES ASSUME AgendaInductive, BoardsInductive, [Next]_vars PROVE BoardsInductive'
    OBVIOUS
  <2>1. CASE UNCHANGED vars
    BY <2>1 DEF vars, BoardsInductive, RoomsAreFree, PlanFits
  <2>2. CASE (\E s \in Sessions : AcceptSession(s)) \/ PausePublication
    BY <2>2, PublicationKeepsBoards
  <2>3. ASSUME NEW o \in Organizers, Request(o) PROVE BoardsInductive'
    BY <2>3, PublicationKeepsBoards, RequestsKeepBoards, WritesKeepBoards DEF Request
  <2> QED BY <2>1, <2>2, <2>3 DEF Next
<1> QED BY <1>1, <1>2, AgendaInvariance, PTL DEF Spec

\* No revision ever holds two sessions in one room at one time, however manual placements,
\* automatic plans made from an older snapshot, and copies interleave (placeSession,
\* applyAutoPlacements, createDraftRevision).
THEOREM RoomsStayFree == Spec => []RoomsAreFree
BY BoardsInvariance, PTL DEF BoardsInductive

\* AgendaSafe in every state.
THEOREM AgendaIsSafe == Spec => []AgendaSafe
<1>1. AgendaInductive /\ BoardsInductive => AgendaSafe
  BY DEF AgendaInductive, BoardsInductive, AgendaSafe, TypeOK, Publication, Boards
<1> QED BY <1>1, AgendaInvariance, BoardsInvariance, PTL

\* AgendaSafe in every state of the program.
THEOREM ProgramKeepsAgenda == ProgramSpec => []AgendaHolds
<1>1. ProgramInit => Init
  BY DEF ProgramInit
<1>2. [ProgramNext]_<<vars, attendeeVars, feedVars, side>> => [Next]_vars
  BY DEF ProgramNext
<1>3. ProgramSpec => Spec
  BY <1>1, <1>2, PTL DEF ProgramSpec, Spec
<1>4. AgendaSafe => AgendaHolds
  BY DEF AgendaHolds
<1> QED BY <1>3, <1>4, AgendaIsSafe, PTL

-----------------------------------------------------------------------------
(* The agenda implements PublishedProgram.                                 *)

\* The program that goes live is acceptable.
LEMMA LiveIsAcceptable ==
  ASSUME AgendaInductive, BoardsInductive, NEW v \in 1..latest, NEW count, NEW agreed,
         accepted # {}, Publishable(v, count, agreed)
  PROVE  board[v] \in Acceptable
<1>1. v \in Versions
  BY AgendaAssumption DEF AgendaInductive, Versions
<1>2. PICK b : b = board[v] /\ b \in Boards
  BY <1>1 DEF BoardsInductive
<1>3. {s \in Sessions : b[s] # Unplaced} = accepted /\ ConflictFree(b, accepted)
  BY <1>2 DEF Publishable
<1>4. \A s \in Sessions : b[s].start \in Nat
  BY <1>2, AgendaAssumption DEF Boards, Placement, Unplaced
<1>5. ASSUME NEW s \in Sessions, NEW t \in Sessions, s # t
      PROVE  ~RoomClash(b[s], b[t]) /\ ~SpeakerClash(b, s, t)
  <2>1. CASE b[s] = Unplaced \/ b[t] = Unplaced
    BY <1>4, <2>1 DEF RoomClash, SpeakerClash, Overlap, Unplaced
  <2>2. CASE b[s] # Unplaced /\ b[t] # Unplaced
    BY <1>3, <1>5, <2>2 DEF ConflictFree
  <2> QED BY <2>1, <2>2
<1>6. ConflictFree(b, Sessions)
  BY <1>5 DEF ConflictFree
<1> QED BY <1>2, <1>3, <1>6 DEF Acceptable, Boards

\* What the public sees changes only when a complete program without clashes goes live under a
\* new public revision, or is taken down: Agenda implements PublishedProgram.
THEOREM AgendaKeepsPromise == Spec => KeepsPromise
<1>1. Init => Promise!Init
  BY DEF Init, Promise!Init, Shown
<1>2. ASSUME AgendaInductive, BoardsInductive, [Next]_vars,
             [publication.revision # 0 /\ publication'.revision = publication.revision =>
                board'[publication.revision] = board[publication.revision]]_vars
      PROVE  [Promise!Next]_<<Shown, publication.public>>
  <2>0. publication \in Publication(latest) /\ latest \in Nat
    BY <1>2, AgendaAssumption DEF AgendaInductive
  <2>1. CASE UNCHANGED publication
    <3>1. publication.state = "live" =>
            board'[publication.revision] = board[publication.revision]
      BY <1>2, <2>1 DEF BoardsInductive, vars
    <3> QED BY <2>1, <3>1 DEF Shown
  <2>2. CASE PausePublication
    <3>1. publication'.state = "paused" /\ publication'.public = publication.public
      BY <2>0, <2>2 DEF PausePublication, Publication
    <3> QED BY <3>1 DEF Promise!Next, Promise!TakeDown, Shown
  <2>3. ASSUME NEW o \in Organizers, PublishProgram(o), ~UNCHANGED publication
        PROVE  [Promise!Next]_<<Shown, publication.public>>
    <3>1. PICK k \in PublishKeys, allowed \in BOOLEAN :
            GoLive(req[o].rev, k) /\ Publishable(req[o].rev, req[o].count, allowed)
      BY <2>3 DEF PublishProgram
    <3>2. PICK v, count : v = req[o].rev /\ count = req[o].count
      OBVIOUS
    <3>3. v \in 1..latest /\ accepted # {}
      <4>1. StillHolds(req[o]) /\ req[o].at = "publish"
        BY <1>2, <2>3 DEF AgendaInductive, PublishProgram
      <4> QED BY <3>2, <4>1 DEF StillHolds
    <3>4. board[v] \in Acceptable
      BY <1>2, <3>1, <3>2, <3>3, LiveIsAcceptable
    <3>5. /\ publication'.state = "live" /\ publication'.revision = v
          /\ publication'.public = publication.public + 1 /\ board' = board
      BY <2>3, <3>1, <3>2 DEF GoLive, PublishProgram
    <3> QED BY <3>4, <3>5 DEF Promise!Next, Promise!GoLive, Shown
  <2>4. \/ UNCHANGED publication
        \/ PausePublication
        \/ \E o \in Organizers : PublishProgram(o)
    BY <1>2 DEF Next, vars, Request, AcceptSession, StartReading, LoadSnapshot, LoadPlacements,
       SetRevisionStatus, AutoPlace, StartEdit, StartAutoEdit, CheckMutable, PlaceSession,
       UnplaceSession, ApplyAutoPlacements, Write, Refuse, CreateDraftRevision, CopyRevision,
       ReplayPublish
  <2> QED BY <2>1, <2>2, <2>3, <2>4
<1> QED BY <1>1, <1>2, AgendaInvariance, BoardsInvariance, SelectedStaysSealed, PTL
    DEF Spec, KeepsPromise, Promise!Spec, SelectedIsSealed

-----------------------------------------------------------------------------
(***************************************************************************)
(* Attendees: the itinerary that an attendee keeps.                        *)
(***************************************************************************)

Changes == [star : Stars, selected : BOOLEAN]
Ids == 1..Len(itinerary)
Of(i, e) == i \in Ids /\ itinerary[i].event = e

\* A page of the event is open only when its recovery token is stored; what a tab asks for
\* or saves to is an itinerary of its event.
TabFits(t) ==
  \/ tab[t] = Closed
  \/ /\ tab[t] \in [at : {"asked"}, event : {Home, Away}, itinerary : Ids, created : BOOLEAN,
                    selected : SUBSET Stars]
     /\ Of(tab[t].itinerary, tab[t].event)
     /\ tab[t].event = Home /\ ~tab[t].created => token[Home] # 0
  \/ /\ tab[t] \in [at : {"ready"}, selected : SUBSET Stars, retry : Changes \cup {NoChange}]
     /\ token[Home] # 0
  \/ /\ \/ tab[t] \in [at : {"saving"}, selected : SUBSET Stars, change : Changes, itinerary : Ids]
        \/ tab[t] \in [at : {"saved"}, selected : SUBSET Stars, change : Changes, itinerary : Ids,
                       ok : BOOLEAN]
     /\ Of(tab[t].itinerary, Home) /\ token[Home] # 0

\* The itineraries of the event that somebody can still reach.
Names(t, i) == tab[t].at \in {"asked", "saving", "saved"} /\ tab[t].itinerary = i
Named(i) ==
  \/ i = cookie
  \/ i = token[Home]
  \/ \E t \in Tabs : Names(t, i)
  \/ \E m \in late : m.itinerary = i
Known == {i \in Ids : itinerary[i].event = Home /\ Named(i)}

NoForks == \A i \in Ids : itinerary[i].event = Home => ~itinerary[i].forks

\* Without a fork there is one of them, and it has what was starred.
OneKnown ==
  NoForks => /\ \A i, j \in Known : i = j
             /\ \A i \in Known : itinerary[i].items = starred

StoreTyped ==
  /\ itinerary \in Seq([event : {Home, Away}, items : SUBSET Stars, forks : BOOLEAN])
  /\ cookie \in 0..Len(itinerary) /\ token \in [{Home, Away} -> 0..Len(itinerary)]
  /\ \A e \in {Home, Away} : token[e] # 0 => Of(token[e], e)
  /\ Of(cookie, Home) => token[Home] # 0
  /\ starred \subseteq Stars /\ approved \subseteq Stars /\ broken \in 0..MaxBroken
  /\ live \in BOOLEAN /\ pending \in Changes \cup {NoChange}
  /\ tab = [t \in Tabs |-> tab[t]]
  /\ \A m \in late : m \in [itinerary : Ids, change : Changes] /\ Of(m.itinerary, Home)
  /\ token[Home] = 0 => starred = {} /\ late = {}

AttendeesInductive ==
  /\ StoreTyped /\ OneKnown
  /\ \A t \in Tabs : TabFits(t)

-----------------------------------------------------------------------------
(* What a step leaves as it was.                                           *)

\* Itineraries are added and their items change; their events do not.
Grown ==
  /\ Len(itinerary) <= Len(itinerary')
  /\ \A i \in Ids : /\ itinerary'[i].event = itinerary[i].event
                    /\ itinerary'[i].forks = itinerary[i].forks

\* The numbers of the itineraries.
LEMMA StoreFacts ==
  ASSUME AttendeesInductive
  PROVE  /\ StoreTyped /\ OneKnown /\ (\A t \in Tabs : TabFits(t))
         /\ Len(itinerary) \in Nat /\ DOMAIN itinerary = Ids
         /\ \A i, e : Belongs(i, e) <=> Of(i, e)
         /\ \A i \in Ids : /\ itinerary[i].event \in {Home, Away}
                           /\ itinerary[i].items \subseteq Stars /\ itinerary[i].forks \in BOOLEAN
         /\ cookie \in Nat /\ token[Home] \in Nat /\ token[Away] \in Nat
<1>1. StoreTyped /\ OneKnown /\ (\A t \in Tabs : TabFits(t))
  BY DEF AttendeesInductive
<1>2. Len(itinerary) \in Nat /\ DOMAIN itinerary = Ids
  BY <1>1 DEF StoreTyped, Ids
<1>3. \A i \in Ids : itinerary[i] \in [event : {Home, Away}, items : SUBSET Stars, forks : BOOLEAN]
  <2>1. PICK R : R = [event : {Home, Away}, items : SUBSET Stars, forks : BOOLEAN]
    OBVIOUS
  <2>2. itinerary \in Seq(R)
    BY <1>1, <2>1 DEF StoreTyped
  <2>3. \A i \in Ids : itinerary[i] \in R
    BY <2>2 DEF Ids
  <2> QED BY <2>1, <2>3
<1>4. cookie \in Nat /\ token[Home] \in Nat /\ token[Away] \in Nat
  BY <1>1, <1>2 DEF StoreTyped
<1> QED BY <1>1, <1>2, <1>3, <1>4 DEF Belongs, Of

\* A tab that does not move is as fit as it was.
LEMMA TabFitsStill ==
  ASSUME AttendeesInductive, NEW t \in Tabs, tab'[t] = tab[t], Grown,
         Len(itinerary') \in Nat, token[Home] # 0 => token'[Home] # 0
  PROVE  TabFits(t)'
<1>1. TabFits(t) /\ Len(itinerary) \in Nat
  BY StoreFacts
<1>2. PICK j : j = tab[t]
  OBVIOUS
<1>3. Ids \subseteq Ids' /\ \A i, e : Of(i, e) => Of(i, e)'
  BY <1>1 DEF Grown, Ids, Of
<1>4. CASE j = Closed
  BY <1>2, <1>4 DEF TabFits, Closed
<1>5. CASE /\ j \in [at : {"asked"}, event : {Home, Away}, itinerary : Ids, created : BOOLEAN,
                     selected : SUBSET Stars]
           /\ Of(j.itinerary, j.event)
           /\ j.event = Home /\ ~j.created => token[Home] # 0
  <2>1. /\ tab'[t] \in [at : {"asked"}, event : {Home, Away}, itinerary : Ids', created : BOOLEAN,
                        selected : SUBSET Stars]
        /\ tab'[t].event = Home /\ ~tab'[t].created => token'[Home] # 0
    BY <1>2, <1>3, <1>5
  <2>2. Of(tab[t].itinerary, tab[t].event)'
    BY <1>2, <1>3, <1>5 DEF Of
  <2> QED BY <2>1, <2>2 DEF TabFits
<1>6. CASE /\ j \in [at : {"ready"}, selected : SUBSET Stars, retry : Changes \cup {NoChange}]
           /\ token[Home] # 0
  BY <1>2, <1>6 DEF TabFits, Changes, NoChange
<1>7. CASE /\ \/ j \in [at : {"saving"}, selected : SUBSET Stars, change : Changes, itinerary : Ids]
              \/ j \in [at : {"saved"}, selected : SUBSET Stars, change : Changes, itinerary : Ids,
                        ok : BOOLEAN]
           /\ Of(j.itinerary, Home) /\ token[Home] # 0
  <2>1. /\ \/ tab'[t] \in [at : {"saving"}, selected : SUBSET Stars, change : Changes, itinerary : Ids']
           \/ tab'[t] \in [at : {"saved"}, selected : SUBSET Stars, change : Changes, itinerary : Ids',
                           ok : BOOLEAN]
        /\ token'[Home] # 0
    BY <1>2, <1>3, <1>7
  <2>2. Of(tab[t].itinerary, Home)'
    BY <1>2, <1>3, <1>7 DEF Of
  <2> QED BY <2>1, <2>2 DEF TabFits, Changes
<1> QED BY <1>1, <1>2, <1>4, <1>5, <1>6, <1>7 DEF TabFits

\* A step of one tab at most.
LEMMA AttendeesStep ==
  ASSUME AttendeesInductive, StoreTyped', Grown, token[Home] # 0 => token'[Home] # 0,
         \A t \in Tabs : tab'[t] = tab[t] \/ TabFits(t)',
         OneKnown'
  PROVE  AttendeesInductive'
<1>1. Len(itinerary') \in Nat
  BY DEF StoreTyped
<1> QED BY <1>1, TabFitsStill DEF AttendeesInductive

\* Nobody learns of another itinerary, and those that are known have what was starred.
LEMMA OneKnownStays ==
  ASSUME AttendeesInductive, StoreTyped', Grown, Known' \subseteq Known,
         (\A i, j \in Known : i = j) => \A i \in Known : itinerary[i].items = starred =>
                                          itinerary'[i].items = starred'
  PROVE  OneKnown'
<1> SUFFICES ASSUME NoForks'
             PROVE  /\ \A i, j \in Known' : i = j
                    /\ \A i \in Known' : itinerary'[i].items = starred'
  BY DEF OneKnown
<1>1. NoForks
  <2>1. Len(itinerary) \in Nat /\ Len(itinerary') \in Nat
    BY StoreFacts DEF StoreTyped
  <2> QED BY <2>1 DEF NoForks, Grown, Ids
<1>2. \A i, j \in Known : i = j
  BY <1>1, StoreFacts DEF OneKnown
<1>3. \A i \in Known : itinerary[i].items = starred
  BY <1>1, StoreFacts DEF OneKnown
<1> QED BY <1>2, <1>3

\* What has to be shown of a step of a tab: what it names afterwards was known.
LEMMA KnownStays ==
  ASSUME AttendeesInductive, NEW t \in Tabs, NEW v, tab' = [tab EXCEPT ![t] = v],
         Grown, Len(itinerary') = Len(itinerary),
         v.at \in {"asked", "saving", "saved"} /\ Of(v.itinerary, Home) => v.itinerary \in Known,
         Of(cookie', Home) => cookie' \in Known,
         Of(token'[Home], Home) => token'[Home] \in Known,
         \A m \in late' : m.itinerary \in Known
  PROVE  Known' \subseteq Known
<1> SUFFICES ASSUME NEW i \in Ids, itinerary[i].event = Home, Named(i)'
             PROVE  i \in Known
  BY DEF Known, Ids, Grown
<1>1. Of(i, Home)
  BY DEF Of
<1>2. CASE i = cookie' \/ i = token'[Home] \/ \E m \in late' : m.itinerary = i
  BY <1>1, <1>2
<1>3. ASSUME NEW q \in Tabs, tab'[q].at \in {"asked", "saving", "saved"}, tab'[q].itinerary = i
      PROVE  i \in Known
  <2>1. CASE q = t
    <3>1. tab'[q] = v
      BY <2>1, StoreFacts DEF StoreTyped
    <3> QED BY <1>1, <1>3, <3>1
  <2>2. CASE q # t
    <3>1. tab'[q] = tab[q]
      BY <2>2, StoreFacts DEF StoreTyped
    <3> QED BY <1>3, <3>1 DEF Known, Named, Names
  <2> QED BY <2>1, <2>2
<1> QED BY <1>2, <1>3 DEF Named, Names

\* What is known already.
LEMMA WhatIsKnown ==
  ASSUME AttendeesInductive
  PROVE  /\ Of(cookie, Home) => cookie \in Known
         /\ Of(token[Home], Home) => token[Home] \in Known
         /\ token[Home] # 0 => token[Home] \in Known
         /\ \A m \in late : m.itinerary \in Known
         /\ \A t \in Tabs : tab[t].at \in {"asked", "saving", "saved"} /\ Of(tab[t].itinerary, Home) =>
              tab[t].itinerary \in Known
         /\ \A i \in Known : Of(i, Home)
BY StoreFacts DEF Known, Named, Names, Of, StoreTyped

-----------------------------------------------------------------------------
(* The steps that write no itinerary.                                      *)

\* A step of one tab that leaves the itineraries alone.
LEMMA TabStep ==
  ASSUME AttendeesInductive, NEW t \in Tabs, NEW v, tab' = [tab EXCEPT ![t] = v],
         UNCHANGED <<itinerary, starred>>, StoreTyped',
         token[Home] # 0 => token'[Home] # 0, TabFits(t)',
         v.at \in {"asked", "saving", "saved"} /\ Of(v.itinerary, Home) => v.itinerary \in Known,
         Of(cookie', Home) => cookie' \in Known,
         Of(token'[Home], Home) => token'[Home] \in Known,
         \A m \in late' : m.itinerary \in Known
  PROVE  AttendeesInductive'
<1>1. Grown /\ Len(itinerary') = Len(itinerary)
  BY StoreFacts DEF Grown, Ids
<1>2. Known' \subseteq Known
  BY <1>1, KnownStays
<1>3. OneKnown'
  BY <1>1, <1>2, OneKnownStays
<1>4. \A q \in Tabs : q # t => tab'[q] = tab[q]
  BY StoreFacts DEF StoreTyped
<1> QED BY <1>1, <1>3, <1>4, AttendeesStep

\* A step outside the tabs that leaves the itineraries alone; the cookie may be lost.
LEMMA OutsideStep ==
  ASSUME AttendeesInductive, UNCHANGED <<itinerary, starred, tab, token, pending, late>>,
         cookie' = cookie \/ cookie' = 0,
         approved' \subseteq approved, live' \in BOOLEAN, broken' \in 0..MaxBroken
  PROVE  AttendeesInductive'
<1>1. StoreTyped'
  <2>1. StoreTyped /\ Len(itinerary) \in Nat
    BY StoreFacts
  <2>2. cookie' \in 0..Len(itinerary) /\ (Of(cookie', Home) => token[Home] # 0)
    BY <2>1 DEF StoreTyped, Of, Ids
  <2> QED BY <2>1, <2>2 DEF StoreTyped, Of, Ids, Changes, NoChange
<1>2. Grown /\ Len(itinerary') = Len(itinerary)
  BY StoreFacts DEF Grown, Ids
<1>3. Known' \subseteq Known
  BY StoreFacts DEF Known, Named, Names, Ids
<1>4. OneKnown'
  BY <1>1, <1>2, <1>3, OneKnownStays
<1> QED BY <1>1, <1>2, <1>4, AttendeesStep

\* The organizers' steps and the loss of the cookie.
LEMMA OrganizersKeep ==
  ASSUME AttendeesInductive,
         \/ Publishes \/ Pauses \/ LosesCookie \/ UNCHANGED attendeeVars
         \/ \E s \in Stars : Withdraws(s)
  PROVE  AttendeesInductive'
<1>1. /\ UNCHANGED <<itinerary, starred, tab, token, pending, late>>
      /\ cookie' = cookie \/ cookie' = 0
  BY DEF Publishes, Pauses, LosesCookie, Withdraws, attendeeVars, browser, program
<1>2. live \in BOOLEAN /\ broken \in 0..MaxBroken /\ MaxBroken \in Nat
  BY StoreFacts, AttendeesAssumption DEF StoreTyped
<1>3. approved' \subseteq approved /\ live' \in BOOLEAN
  BY <1>2 DEF Publishes, Pauses, LosesCookie, Withdraws, attendeeVars, browser, program
<1>4. broken' \in 0..MaxBroken
  BY <1>2 DEF Publishes, Pauses, LosesCookie, Withdraws, attendeeVars, browser, program
<1> QED BY <1>1, <1>3, <1>4, OutsideStep

\* A tab at work, as the invariant knows it.
LEMMA TabAt ==
  ASSUME AttendeesInductive, NEW t \in Tabs
  PROVE  /\ tab[t].at = "asked" =>
              /\ tab[t] \in [at : {"asked"}, event : {Home, Away}, itinerary : Ids,
                             created : BOOLEAN, selected : SUBSET Stars]
              /\ Of(tab[t].itinerary, tab[t].event)
              /\ tab[t].event = Home /\ ~tab[t].created => token[Home] # 0
         /\ tab[t].at = "ready" =>
              /\ tab[t] \in [at : {"ready"}, selected : SUBSET Stars, retry : Changes \cup {NoChange}]
              /\ token[Home] # 0
         /\ tab[t].at \in {"saving", "saved"} =>
              /\ tab[t].selected \in SUBSET Stars /\ tab[t].change \in Changes
              /\ tab[t].itinerary \in Ids /\ Of(tab[t].itinerary, Home) /\ token[Home] # 0
              /\ tab[t].itinerary \in Known
<1>1. TabFits(t)
  BY StoreFacts
<1>2. PICK j : j = tab[t]
  OBVIOUS
<1>3. j.at = "asked" =>
        /\ j \in [at : {"asked"}, event : {Home, Away}, itinerary : Ids,
                  created : BOOLEAN, selected : SUBSET Stars]
        /\ Of(j.itinerary, j.event)
        /\ j.event = Home /\ ~j.created => token[Home] # 0
  BY <1>1, <1>2 DEF TabFits, Closed
<1>4. j.at = "ready" =>
        /\ j \in [at : {"ready"}, selected : SUBSET Stars, retry : Changes \cup {NoChange}]
        /\ token[Home] # 0
  BY <1>1, <1>2 DEF TabFits, Closed
<1>5. j.at \in {"saving", "saved"} =>
        /\ j.selected \in SUBSET Stars /\ j.change \in Changes
        /\ j.itinerary \in Ids /\ Of(j.itinerary, Home) /\ token[Home] # 0
  BY <1>1, <1>2 DEF TabFits, Closed
<1> QED BY <1>2, <1>3, <1>4, <1>5, WhatIsKnown

\* A page of the event that shows and offers what it is told.
LEMMA PageKeeps ==
  ASSUME AttendeesInductive, NEW t \in Tabs, NEW S \in SUBSET Stars,
         NEW c \in Changes \cup {NoChange}, Page(t, S, c),
         token[Home] # 0, UNCHANGED <<itinerary, starred, program, token>>,
         cookie' = cookie \/ cookie' \in Known,
         pending' \in Changes \cup {NoChange}, broken' \in 0..MaxBroken,
         \A m \in late' : m \in [itinerary : Ids, change : Changes] /\ m.itinerary \in Known
  PROVE  AttendeesInductive'
<1>1. PICK v : v = [at |-> "ready", selected |-> S, retry |-> c]
  OBVIOUS
<1>2. tab' = [tab EXCEPT ![t] = v] /\ UNCHANGED <<live, approved>>
  BY <1>1 DEF Page, program
<1>3. StoreTyped /\ Len(itinerary) \in Nat
  BY StoreFacts
<1>4. cookie' \in 0..Len(itinerary) /\ (\A m \in late' : Of(m.itinerary, Home))
  BY <1>3, WhatIsKnown DEF StoreTyped, Of, Ids
<1>5. StoreTyped'
  BY <1>2, <1>3, <1>4 DEF StoreTyped, Of, Ids, Changes, NoChange
<1>6. TabFits(t)'
  <2>1. tab'[t] = v
    BY <1>2, <1>3 DEF StoreTyped
  <2>2. v \in [at : {"ready"}, selected : SUBSET Stars, retry : Changes \cup {NoChange}]
    BY <1>1
  <2> QED BY <2>1, <2>2 DEF TabFits, Changes, NoChange
<1>7. /\ Of(cookie', Home) => cookie' \in Known
      /\ Of(token'[Home], Home) => token'[Home] \in Known
      /\ token'[Home] # 0
  BY WhatIsKnown
<1>8. v.at \notin {"asked", "saving", "saved"}
  BY <1>1
<1> QED BY <1>2, <1>5, <1>6, <1>7, <1>8, TabStep

\* What an abandoned tab leaves to be written late.
LEMMA AbandonedFits ==
  ASSUME AttendeesInductive, NEW t \in Tabs, late' = Abandoned(t)
  PROVE  \A m \in late' : m \in [itinerary : Ids, change : Changes] /\ m.itinerary \in Known
<1>1. \A m \in late : m \in [itinerary : Ids, change : Changes] /\ m.itinerary \in Known
  BY StoreFacts, WhatIsKnown DEF StoreTyped
<1>2. CASE tab[t].at = "saving"
  BY <1>1, <1>2, TabAt DEF Abandoned
<1>3. CASE tab[t].at # "saving"
  BY <1>1, <1>3 DEF Abandoned
<1> QED BY <1>2, <1>3

\* The answer of a save, and its loss.
LEMMA AnswersKeep ==
  ASSUME AttendeesInductive, NEW t \in Tabs, LearnsSaved(t) \/ LosesAnswer(t)
  PROVE  AttendeesInductive'
<1>1. PICK i, S, c : i = tab[t].itinerary /\ S = tab[t].selected /\ c = tab[t].change
  OBVIOUS
<1>2. /\ S \in SUBSET Stars /\ c \in Changes /\ i \in Ids /\ Of(i, Home)
      /\ token[Home] # 0 /\ i \in Known
  BY <1>1, TabAt DEF LearnsSaved, LosesAnswer
<1>3. /\ pending \in Changes \cup {NoChange} /\ broken \in 0..MaxBroken /\ MaxBroken \in Nat
      /\ \A m \in late : m \in [itinerary : Ids, change : Changes] /\ m.itinerary \in Known
  BY StoreFacts, WhatIsKnown, AttendeesAssumption DEF StoreTyped
<1>4. CASE LearnsSaved(t)
  <2>1. /\ cookie' = i /\ UNCHANGED <<program, itinerary, token, late, broken, starred>>
        /\ \/ Page(t, Selected(i), NoChange) /\ pending' = NoChange
           \/ Page(t, S, c) /\ UNCHANGED pending
    BY <1>1, <1>4 DEF LearnsSaved
  <2>2. PICK Z \in SUBSET Stars : Z = Selected(i)
    BY <1>2, StoreFacts DEF Selected
  <2>3. CASE Page(t, Z, NoChange) /\ pending' = NoChange
    BY <1>2, <1>3, <2>1, <2>3, PageKeeps
  <2>4. CASE Page(t, S, c) /\ UNCHANGED pending
    BY <1>2, <1>3, <2>1, <2>4, PageKeeps
  <2> QED BY <2>1, <2>2, <2>3, <2>4
<1>5. CASE LosesAnswer(t)
  <2>1. /\ broken' = broken + 1 /\ broken < MaxBroken /\ late' = Abandoned(t) /\ Page(t, S, c)
        /\ UNCHANGED <<program, itinerary, cookie, token, pending, starred>>
    BY <1>1, <1>5 DEF LosesAnswer, browser
  <2>2. \A m \in late' : m \in [itinerary : Ids, change : Changes] /\ m.itinerary \in Known
    BY <2>1, AbandonedFits
  <2>3. broken' \in 0..MaxBroken
    BY <1>3, <2>1
  <2> QED BY <1>2, <1>3, <2>1, <2>2, <2>3, PageKeeps
<1> QED BY <1>4, <1>5

\* The answer to a page: the cookie, and the token of an itinerary that was created.
LEMMA LearnsKeeps ==
  ASSUME AttendeesInductive, NEW t \in Tabs, LearnsItinerary(t)
  PROVE  AttendeesInductive'
<1>1. PICK i, e, S, n : i = tab[t].itinerary /\ e = tab[t].event /\ S = tab[t].selected
                        /\ n = tab[t].created
  OBVIOUS
<1>2. /\ i \in Ids /\ e \in {Home, Away} /\ S \in SUBSET Stars /\ n \in BOOLEAN /\ Of(i, e)
      /\ e = Home /\ ~n => token[Home] # 0
  BY <1>1, TabAt DEF LearnsItinerary
<1>3. /\ cookie' = i /\ token' = IF n THEN [token EXCEPT ![e] = i] ELSE token
      /\ UNCHANGED <<live, approved, itinerary, late, broken, starred>>
  BY <1>1 DEF LearnsItinerary, program
<1>4. StoreTyped /\ Len(itinerary) \in Nat /\ token[Home] \in Nat
  BY StoreFacts
<1>5. pending \in Changes \cup {NoChange}
  BY <1>4 DEF StoreTyped
<1>6. /\ pending' \in Changes \cup {NoChange}
      /\ \/ e = Away /\ tab' = [tab EXCEPT ![t] = Closed]
         \/ e = Home /\ Page(t, S, pending')
  <2>1. CASE e = Away
    BY <1>1, <1>5, <2>1 DEF LearnsItinerary
  <2>2. CASE e # Away
    <3>1. PICK d : d = (pending # NoChange /\ MatchesSelection(pending, S))
      OBVIOUS
    <3>2. pending' = (IF d THEN NoChange ELSE pending) /\ Page(t, S, pending')
      BY <1>1, <2>2, <3>1 DEF LearnsItinerary
    <3> QED BY <1>2, <1>5, <2>2, <3>2
  <2> QED BY <2>1, <2>2
<1>7. PICK c : c = pending'
  OBVIOUS
<1>8. PICK v : /\ tab' = [tab EXCEPT ![t] = v]
               /\ \/ v = Closed
                  \/ e = Home /\ v = [at |-> "ready", selected |-> S, retry |-> c]
  BY <1>6, <1>7 DEF Page
<1>9. /\ token' \in [{Home, Away} -> 0..Len(itinerary)]
      /\ \A q \in {Home, Away} : token'[q] = token[q] \/ (q = e /\ token'[q] = i)
      /\ token[Home] # 0 => token'[Home] # 0
      /\ e = Home => token'[Home] # 0
  <2>1. token \in [{Home, Away} -> 0..Len(itinerary)] /\ i \in 0..Len(itinerary) /\ i # 0
    BY <1>2, <1>4 DEF StoreTyped, Ids
  <2>2. CASE n
    <3>1. token' = [token EXCEPT ![e] = i]
      BY <1>3, <2>2
    <3>2. /\ token' \in [{Home, Away} -> 0..Len(itinerary)]
          /\ token'[e] = i /\ \A q \in {Home, Away} : q # e => token'[q] = token[q]
      BY <1>2, <2>1, <3>1
    <3> QED BY <1>2, <2>1, <3>2
  <2>3. CASE ~n
    <3>1. token' = token
      BY <1>3, <2>3
    <3> QED BY <1>2, <2>1, <2>3, <3>1
  <2> QED BY <1>2, <2>2, <2>3
<1>10. StoreTyped'
  <2>1. /\ \A q \in {Home, Away} : token'[q] # 0 => Of(token'[q], q)
        /\ Of(i, Home) => token'[Home] # 0
        /\ token'[Home] = 0 => starred = {} /\ late = {}
    BY <1>2, <1>4, <1>9 DEF StoreTyped, Of
  <2>2. i \in 0..Len(itinerary)
    BY <1>2, <1>4 DEF Ids
  <2>3. tab' = [q \in Tabs |-> tab'[q]]
    BY <1>4, <1>8 DEF StoreTyped
  <2>4. \A m \in late : m \in [itinerary : Ids, change : Changes] /\ Of(m.itinerary, Home)
    BY <1>4 DEF StoreTyped
  <2> QED BY <1>3, <1>4, <1>6, <1>9, <2>1, <2>2, <2>3, <2>4
       DEF StoreTyped, Of, Ids, Changes, NoChange
<1>11. TabFits(t)'
  <2>1. tab'[t] = v
    BY <1>4, <1>8 DEF StoreTyped
  <2>2. CASE v = Closed
    BY <2>1, <2>2 DEF TabFits, Closed
  <2>3. CASE e = Home /\ v = [at |-> "ready", selected |-> S, retry |-> c]
    <3>1. v \in [at : {"ready"}, selected : SUBSET Stars, retry : Changes \cup {NoChange}]
      BY <1>2, <1>6, <1>7, <2>3
    <3> QED BY <1>9, <2>1, <2>3, <3>1 DEF TabFits, Changes, NoChange
  <2> QED BY <1>8, <2>2, <2>3
<1>12. Of(i, Home) => i \in Known
  BY <1>1, <1>2, WhatIsKnown DEF LearnsItinerary
<1>13. /\ Of(cookie', Home) => cookie' \in Known
       /\ Of(token'[Home], Home) => token'[Home] \in Known
       /\ \A m \in late' : m.itinerary \in Known
  BY <1>3, <1>9, <1>12, WhatIsKnown
<1>14. v.at \notin {"asked", "saving", "saved"}
  BY <1>8 DEF Closed
<1> QED BY <1>3, <1>8, <1>9, <1>10, <1>11, <1>13, <1>14, TabStep

\* A page of the event finds the itinerary that its requests name, which is known.
LEMMA FoundHome ==
  ASSUME AttendeesInductive, token[Home] # 0
  PROVE  /\ Found(Home, cookie, token[Home]) \in Known
         /\ Found(Home, cookie, token[Home]) # 0
         /\ Resolved(Home, cookie, token[Home]) \in Known
         /\ Resolves(Home, cookie, token[Home], FALSE) => UNCHANGED itinerary
<1>1. Of(token[Home], Home) /\ Len(itinerary) \in Nat
  BY StoreFacts DEF StoreTyped
<1>2. PICK f : f = Found(Home, cookie, token[Home])
  OBVIOUS
<1>3. f \in Known
  BY <1>1, <1>2, StoreFacts, WhatIsKnown DEF Found
<1>4. f # 0
  BY <1>1, <1>3 DEF Known, Ids
<1> QED BY <1>2, <1>3, <1>4 DEF Resolved, Resolves

\* A mutation is sent.
LEMMA SendsKeeps ==
  ASSUME AttendeesInductive, NEW t \in Tabs, NEW c \in Changes, tab[t].at = "ready", Sends(t, c)
  PROVE  AttendeesInductive'
<1>1. PICK S, i : S = tab[t].selected /\ i = Resolved(Home, cookie, token[Home])
  OBVIOUS
<1>2. S \in SUBSET Stars /\ token[Home] # 0
  BY <1>1, TabAt
<1>3. i \in Known /\ i \in Ids /\ Of(i, Home)
  BY <1>1, <1>2, FoundHome, WhatIsKnown DEF Known
<1>4. /\ UNCHANGED <<program, cookie, token, late, broken, starred>> /\ pending' = c
      /\ UNCHANGED itinerary
  BY <1>2, FoundHome DEF Sends
<1>5. StoreTyped /\ Len(itinerary) \in Nat
  BY StoreFacts
<1>6. \A m \in late : m \in [itinerary : Ids, change : Changes] /\ m.itinerary \in Known
  BY <1>5, WhatIsKnown DEF StoreTyped
<1>7. CASE live
  <2>1. PICK v : v = [at |-> "saving", selected |-> S, change |-> c, itinerary |-> i]
    OBVIOUS
  <2>2. tab' = [tab EXCEPT ![t] = v]
    BY <1>1, <1>7, <2>1 DEF Sends
  <2>3. StoreTyped'
    BY <1>4, <1>5, <2>2 DEF StoreTyped, program, Of, Ids, Changes, NoChange
  <2>4. TabFits(t)'
    <3>1. tab'[t] = v
      BY <1>5, <2>2 DEF StoreTyped
    <3>2. v \in [at : {"saving"}, selected : SUBSET Stars, change : Changes, itinerary : Ids]
      BY <1>2, <1>3, <2>1
    <3>3. v.itinerary = i
      BY <2>1
    <3> QED BY <1>2, <1>3, <1>4, <3>1, <3>2, <3>3 DEF TabFits, Changes, Of, Ids
  <2>5. v.itinerary = i
    BY <2>1
  <2> QED BY <1>2, <1>3, <1>4, <2>2, <2>3, <2>4, <2>5, TabStep, WhatIsKnown
<1>8. CASE ~live
  <2>1. Page(t, S, c)
    BY <1>1, <1>8 DEF Sends
  <2>2. broken \in 0..MaxBroken
    BY <1>5 DEF StoreTyped
  <2> QED BY <1>2, <1>4, <1>6, <2>1, <2>2, PageKeeps
<1> QED BY <1>7, <1>8

-----------------------------------------------------------------------------
(* The steps that write an itinerary.                                      *)

\* What a mutation does to the itineraries.
LEMMA WritesFit ==
  ASSUME AttendeesInductive, NEW i \in Known, NEW c \in Changes, WritesIfPermitted(i, c)
  PROVE  /\ itinerary' \in Seq([event : {Home, Away}, items : SUBSET Stars, forks : BOOLEAN])
         /\ Len(itinerary') = Len(itinerary) /\ Grown /\ starred' \subseteq Stars
         /\ (\A a, b \in Known : a = b) => \A a \in Known : itinerary[a].items = starred =>
              itinerary'[a].items = starred'
<1>1. /\ StoreTyped /\ Len(itinerary) \in Nat /\ DOMAIN itinerary = Ids /\ starred \subseteq Stars
      /\ i \in Ids /\ c.star \in Stars /\ itinerary[i].items \subseteq Stars
  BY StoreFacts DEF Known, Changes, StoreTyped
<1>2. PICK R : R = [event : {Home, Away}, items : SUBSET Stars, forks : BOOLEAN]
  OBVIOUS
<1>3. itinerary \in Seq(R)
  BY <1>1, <1>2 DEF StoreTyped
<1>4. CASE UNCHANGED <<itinerary, starred>>
  BY <1>1, <1>4 DEF Grown, Ids, StoreTyped
<1>5. ASSUME NEW J \in SUBSET Stars, itinerary' = [itinerary EXCEPT ![i].items = J],
             starred' \subseteq Stars, itinerary[i].items = starred => J = starred'
      PROVE  /\ itinerary' \in Seq(R) /\ Len(itinerary') = Len(itinerary) /\ Grown
             /\ (\A a, b \in Known : a = b) => \A a \in Known : itinerary[a].items = starred =>
                  itinerary'[a].items = starred'
  <2>1. PICK r : r = [itinerary[i] EXCEPT !.items = J]
    OBVIOUS
  <2>2. itinerary[i] \in R
    BY <1>1, <1>3 DEF Ids
  <2>3. r \in R /\ r.items = J /\ r.event = itinerary[i].event /\ r.forks = itinerary[i].forks
    BY <1>2, <2>1, <2>2
  <2>4. itinerary' = [itinerary EXCEPT ![i] = r]
    BY <1>5, <2>1
  <2>5. /\ itinerary' \in Seq(R) /\ Len(itinerary') = Len(itinerary)
        /\ \A q \in Ids : itinerary'[q] = IF q = i THEN r ELSE itinerary[q]
    BY <1>1, <1>3, <2>3, <2>4 DEF Ids
  <2>6. Grown
    BY <1>1, <2>3, <2>5 DEF Grown
  <2> QED BY <1>1, <1>5, <2>3, <2>5, <2>6
<1>6. CASE Writes(i, c)
  <2>1. PICK J : J = IF c.selected THEN itinerary[i].items \cup {c.star}
                     ELSE itinerary[i].items \ {c.star}
    OBVIOUS
  <2>2. J \in SUBSET Stars /\ itinerary' = [itinerary EXCEPT ![i].items = J]
    BY <1>1, <1>6, <2>1 DEF Writes
  <2>3. starred' \subseteq Stars /\ (itinerary[i].items = starred => J = starred')
    BY <1>1, <1>6, <2>1 DEF Writes
  <2> QED BY <1>2, <1>5, <2>2, <2>3
<1> QED BY <1>4, <1>6 DEF WritesIfPermitted

\* A mutation that a tab waits for is written or refused.
LEMMA SavesKeeps ==
  ASSUME AttendeesInductive, NEW t \in Tabs, Saves(t)
  PROVE  AttendeesInductive'
<1>1. PICK i, S, c, ok : /\ i = tab[t].itinerary /\ S = tab[t].selected /\ c = tab[t].change
                         /\ ok = (Permitted(c) /\ TRUE)
  OBVIOUS
<1>2. /\ S \in SUBSET Stars /\ c \in Changes /\ i \in Ids /\ Of(i, Home)
      /\ token[Home] # 0 /\ i \in Known
  BY <1>1, TabAt DEF Saves
<1>3. ok \in BOOLEAN
  BY <1>1
<1>4. PICK v : v = [at |-> "saved", selected |-> S, change |-> c, itinerary |-> i, ok |-> ok]
  OBVIOUS
<1>5. /\ WritesIfPermitted(i, c) /\ tab' = [tab EXCEPT ![t] = v]
      /\ UNCHANGED <<live, approved, cookie, token, pending, late, broken>>
  <2>1. tab' = [tab EXCEPT ![t] =
          [at |-> "saved", selected |-> S, change |-> c, itinerary |-> i, ok |-> Permitted(c)]]
    BY <1>1, Zenon DEF Saves
  <2>2. Permitted(c) = ok
    BY <1>1 DEF Permitted
  <2>3. tab' = [tab EXCEPT ![t] = v]
    BY <1>4, <2>1, <2>2, Zenon
  <2> QED BY <1>1, <2>3 DEF Saves, program, browser
<1>6. StoreTyped /\ Len(itinerary) \in Nat
  BY StoreFacts
<1>7. /\ itinerary' \in Seq([event : {Home, Away}, items : SUBSET Stars, forks : BOOLEAN])
      /\ Len(itinerary') = Len(itinerary) /\ Grown /\ starred' \subseteq Stars
      /\ (\A a, b \in Known : a = b) => \A a \in Known : itinerary[a].items = starred =>
           itinerary'[a].items = starred'
  BY <1>2, <1>5, WritesFit
<1>8. Ids' = Ids /\ \A a, e : Of(a, e) <=> Of(a, e)'
  BY <1>7 DEF Ids, Of, Grown
<1>9. StoreTyped'
  BY <1>2, <1>5, <1>6, <1>7, <1>8 DEF StoreTyped, Changes, NoChange
<1>10. TabFits(t)'
  <2>1. tab'[t] = v
    BY <1>5, <1>6 DEF StoreTyped
  <2>2. /\ v \in [at : {"saved"}, selected : SUBSET Stars, change : Changes, itinerary : Ids,
                  ok : BOOLEAN]
        /\ v.itinerary = i
    BY <1>2, <1>3, <1>4
  <2>3. Of(tab[t].itinerary, Home)'
    BY <1>2, <1>8, <2>1, <2>2 DEF Of
  <2> QED BY <1>2, <1>5, <1>8, <2>1, <2>2, <2>3 DEF TabFits, Changes
<1>11. Known' \subseteq Known
  <2>1. v.itinerary \in Known
    BY <1>2, <1>4
  <2> QED BY <1>5, <1>7, <2>1, KnownStays, WhatIsKnown
<1>12. OneKnown'
  BY <1>7, <1>9, <1>11, OneKnownStays
<1>13. \A q \in Tabs : q # t => tab'[q] = tab[q]
  BY <1>5, <1>6 DEF StoreTyped
<1> QED BY <1>5, <1>7, <1>9, <1>10, <1>12, <1>13, AttendeesStep

\* A mutation that nobody waits for any more is written or refused.
LEMMA SavesLateKeeps ==
  ASSUME AttendeesInductive, NEW m \in late, SavesLate(m)
  PROVE  AttendeesInductive'
<1>1. StoreTyped /\ Len(itinerary) \in Nat
  BY StoreFacts
<1>2. PICK i, c : i = m.itinerary /\ c = m.change
  OBVIOUS
<1>3. i \in Known /\ c \in Changes /\ token[Home] # 0
  <2>1. m \in [itinerary : Ids, change : Changes] /\ late # {}
    BY <1>1 DEF StoreTyped
  <2> QED BY <1>1, <1>2, <2>1, WhatIsKnown DEF StoreTyped
<1>4. /\ WritesIfPermitted(i, c) /\ late' = late \ {m}
      /\ UNCHANGED <<live, approved, cookie, token, pending, tab, broken>>
  BY <1>2 DEF SavesLate, program, browser
<1>5. /\ itinerary' \in Seq([event : {Home, Away}, items : SUBSET Stars, forks : BOOLEAN])
      /\ Len(itinerary') = Len(itinerary) /\ Grown /\ starred' \subseteq Stars
      /\ (\A a, b \in Known : a = b) => \A a \in Known : itinerary[a].items = starred =>
           itinerary'[a].items = starred'
  BY <1>3, <1>4, WritesFit
<1>6. Ids' = Ids /\ \A a, e : Of(a, e) <=> Of(a, e)'
  BY <1>5 DEF Ids, Of, Grown
<1>7. StoreTyped'
  BY <1>1, <1>3, <1>4, <1>5, <1>6 DEF StoreTyped, Changes, NoChange
<1>8. Known' \subseteq Known
  BY <1>4, <1>5, <1>6 DEF Known, Named, Names, Grown
<1>9. OneKnown'
  BY <1>5, <1>7, <1>8, OneKnownStays
<1> QED BY <1>4, <1>5, <1>7, <1>9, AttendeesStep

-----------------------------------------------------------------------------
(* The steps that may create an itinerary.                                 *)

\* An itinerary that is created is the last one, empty, and of the event it was asked for.
LEMMA CreatedFits ==
  ASSUME AttendeesInductive, NEW e \in {Home, Away}, NEW c, NEW k, NEW x \in BOOLEAN,
         Found(e, c, k) = 0, Resolves(e, c, k, x)
  PROVE  /\ itinerary' \in Seq([event : {Home, Away}, items : SUBSET Stars, forks : BOOLEAN])
         /\ Len(itinerary') = Len(itinerary) + 1 /\ Grown
         /\ \A i \in Ids : itinerary'[i] = itinerary[i]
         /\ itinerary'[Len(itinerary) + 1].event = e
         /\ itinerary'[Len(itinerary) + 1].items = {}
         /\ x => itinerary'[Len(itinerary) + 1].forks
         /\ (\E t \in Tabs : tab[t].at = "asked" /\ tab[t].created /\ tab[t].event = e) =>
              itinerary'[Len(itinerary) + 1].forks
<1>1. PICK R : R = [event : {Home, Away}, items : SUBSET Stars, forks : BOOLEAN]
  OBVIOUS
<1>2. itinerary \in Seq(R) /\ Len(itinerary) \in Nat
  BY <1>1, StoreFacts DEF StoreTyped
<1>3. PICK f \in BOOLEAN : f <=> (x \/ \E t \in Tabs : /\ tab[t].at = "asked" /\ tab[t].created
                                                       /\ tab[t].event = e)
  OBVIOUS
<1>4. PICK r : r = [event |-> e, items |-> {}, forks |-> f]
  OBVIOUS
<1>5. r \in R /\ r.event = e /\ r.items = {} /\ r.forks = f
  BY <1>1, <1>4
<1>6. itinerary' = Append(itinerary, r)
  <2>1. itinerary' = Append(itinerary, [event |-> e, items |-> {},
          forks |-> x \/ \E t \in Tabs : /\ tab[t].at = "asked" /\ tab[t].created
                                         /\ tab[t].event = e])
    BY Zenon DEF Resolves
  <2>2. (x \/ \E t \in Tabs : /\ tab[t].at = "asked" /\ tab[t].created
                              /\ tab[t].event = e) = f
    BY <1>3
  <2> QED BY <1>4, <2>1, <2>2, Zenon
<1>7. /\ itinerary' \in Seq(R) /\ Len(itinerary') = Len(itinerary) + 1
      /\ itinerary'[Len(itinerary) + 1] = r
      /\ \A i \in Ids : itinerary'[i] = itinerary[i]
  BY <1>2, <1>5, <1>6 DEF Ids
<1>8. Grown
  BY <1>2, <1>7 DEF Grown
<1>9. x => r.forks
  BY <1>3, <1>5
<1>10. (\E t \in Tabs : tab[t].at = "asked" /\ tab[t].created /\ tab[t].event = e) => r.forks
  BY <1>3, <1>5
<1> QED BY <1>1, <1>5, <1>7, <1>8, <1>9, <1>10

\* "Add to calendar".
LEMMA ExportsKeeps ==
  ASSUME AttendeesInductive, NEW t \in Tabs, Exports(t)
  PROVE  AttendeesInductive'
<1>1. PICK c : c = cookie
  OBVIOUS
<1>2. /\ Resolves(Home, c, 0, TRUE) /\ cookie' = Resolved(Home, c, 0) /\ token[Home] # 0
      /\ UNCHANGED <<live, approved, token, pending, tab, late, broken, starred>>
  BY <1>1, TabAt DEF Exports, program
<1>3. StoreTyped /\ Len(itinerary) \in Nat /\ ~Belongs(0, Home)
  BY StoreFacts DEF Of, Ids
<1>4. CASE Of(c, Home)
  <2>1. Found(Home, c, 0) = c /\ c # 0
    BY <1>3, <1>4, StoreFacts DEF Found, Of, Ids
  <2>2. UNCHANGED itinerary /\ cookie' = cookie
    BY <1>1, <1>2, <2>1 DEF Resolves, Resolved
  <2>3. live' \in BOOLEAN /\ broken' \in 0..MaxBroken /\ approved' \subseteq approved
    BY <1>2, <1>3 DEF StoreTyped
  <2> QED BY <1>2, <2>2, <2>3, OutsideStep
<1>5. CASE ~Of(c, Home)
  <2>1. Found(Home, c, 0) = 0
    BY <1>3, <1>5, StoreFacts DEF Found
  <2>2. /\ itinerary' \in Seq([event : {Home, Away}, items : SUBSET Stars, forks : BOOLEAN])
        /\ Len(itinerary') = Len(itinerary) + 1 /\ Grown
        /\ itinerary'[Len(itinerary) + 1].event = Home /\ itinerary'[Len(itinerary) + 1].forks
    BY <1>2, <2>1, CreatedFits
  <2>3. cookie' = Len(itinerary) + 1
    BY <1>2, <2>1 DEF Resolved
  <2>4. Ids \subseteq Ids' /\ \A a, e : Of(a, e) => Of(a, e)'
    BY <1>3, <2>2 DEF Ids, Of, Grown
  <2>5. StoreTyped'
    BY <1>2, <1>3, <2>2, <2>3, <2>4 DEF StoreTyped, Changes, NoChange
  <2>6. ~NoForks'
    BY <1>3, <2>2 DEF NoForks, Ids
  <2>7. OneKnown'
    BY <2>6 DEF OneKnown
  <2> QED BY <1>2, <2>2, <2>5, <2>7, AttendeesStep
<1> QED BY <1>4, <1>5

\* A page asks for an itinerary that is found.
LEMMA OpensFoundKeeps ==
  ASSUME AttendeesInductive, NEW t \in Tabs, NEW e \in {Home, Away}, Opens(t, e),
         NEW c, c = cookie, NEW k, k = token[e], Found(e, c, k) # 0
  PROVE  AttendeesInductive'
<1>1. PICK i, S : i = Found(e, c, k) /\ S = itinerary'[i].items \cap PublicSessions(e)
  OBVIOUS
<1>2. StoreTyped /\ Len(itinerary) \in Nat /\ i # 0
  BY <1>1, StoreFacts
<1>3. Of(i, e) /\ (e = Home => token[Home] # 0) /\ (e = Home => i \in Known)
  <2>1. Belongs(i, e) /\ (i = c \/ i = k)
    BY <1>1, <1>2 DEF Found
  <2>2. Of(i, e)
    BY <2>1, StoreFacts
  <2> QED BY <1>2, <2>1, <2>2, StoreFacts, WhatIsKnown DEF StoreTyped
<1>4. /\ UNCHANGED <<itinerary, live, approved, cookie, token, pending, starred>>
      /\ late' = Abandoned(t)
  BY <1>1, <1>2 DEF Opens, Resolves, program, browser
<1>5. /\ Resolved(e, c, k) = i /\ i \in Ids /\ ~(i > Len(itinerary)) /\ S \in SUBSET Stars
  <2>1. Resolved(e, c, k) = i
    BY <1>1, <1>2 DEF Resolved
  <2>2. i \in Ids
    BY <1>3 DEF Of
  <2>3. itinerary[i].items \subseteq Stars
    BY <2>2, StoreFacts
  <2> QED BY <1>1, <1>2, <1>4, <2>1, <2>2, <2>3 DEF Ids
<1>6. PICK v : v = [at |-> "asked", event |-> e, itinerary |-> i, created |-> FALSE, selected |-> S]
  OBVIOUS
<1>7. tab' = [tab EXCEPT ![t] = v]
  <2>1. tab' = [tab EXCEPT ![t] = [at |-> "asked", event |-> e, itinerary |-> i,
                  created |-> i > Len(itinerary), selected |-> S]]
    <3>1. tab' = [tab EXCEPT ![t] = [at |-> "asked", event |-> e,
                    itinerary |-> Resolved(e, c, k), created |-> Resolved(e, c, k) > Len(itinerary),
                    selected |-> itinerary'[Resolved(e, c, k)].items \cap PublicSessions(e)]]
      BY Zenon DEF Opens
    <3> QED BY <1>1, <1>5, <3>1, Zenon
  <2>2. (i > Len(itinerary)) = FALSE
    BY <1>5
  <2> QED BY <1>6, <2>1, <2>2, Zenon
<1>8. /\ \A m \in late' : m \in [itinerary : Ids, change : Changes] /\ m.itinerary \in Known
      /\ token[Home] = 0 => late' = {}
  <2>1. token[Home] = 0 => late' = {}
    BY <1>2, <1>4, TabAt DEF Abandoned, StoreTyped
  <2> QED BY <1>4, <2>1, AbandonedFits
<1>9. broken' \in 0..MaxBroken
  BY <1>2, AttendeesAssumption DEF Opens, StoreTyped
<1>10. StoreTyped'
  <2>1. \A m \in late' : m \in [itinerary : Ids, change : Changes] /\ Of(m.itinerary, Home)
    BY <1>8, WhatIsKnown
  <2>2. /\ cookie \in 0..Len(itinerary) /\ token \in [{Home, Away} -> 0..Len(itinerary)]
        /\ starred \subseteq Stars /\ approved \subseteq Stars
        /\ live \in BOOLEAN /\ pending \in Changes \cup {NoChange}
        /\ token[Home] = 0 => starred = {}
        /\ Of(cookie, Home) => token[Home] # 0
        /\ \A q \in {Home, Away} : token[q] # 0 => Of(token[q], q)
        /\ tab = [q \in Tabs |-> tab[q]]
        /\ itinerary \in Seq([event : {Home, Away}, items : SUBSET Stars, forks : BOOLEAN])
    BY <1>2 DEF StoreTyped
  <2>3. tab' = [q \in Tabs |-> tab'[q]]
    BY <1>7, <2>2
  <2> QED BY <1>4, <1>8, <1>9, <2>1, <2>2, <2>3 DEF StoreTyped, Of, Ids, Changes, NoChange
<1>11. TabFits(t)'
  <2>1. tab'[t] = v
    BY <1>2, <1>7 DEF StoreTyped
  <2>2. /\ v \in [at : {"asked"}, event : {Home, Away}, itinerary : Ids, created : BOOLEAN,
                  selected : SUBSET Stars]
        /\ v.itinerary = i /\ v.event = e
    BY <1>5, <1>6
  <2> QED BY <1>3, <1>4, <2>1, <2>2 DEF TabFits, Of, Ids
<1>12. Of(v.itinerary, Home) => v.itinerary \in Known
  <2>1. v.itinerary = i
    BY <1>6
  <2> QED BY <1>3, <2>1, AttendeesAssumption DEF Of
<1> QED BY <1>4, <1>7, <1>8, <1>10, <1>11, <1>12, TabStep, WhatIsKnown

\* A page asks for an itinerary that has to be created.
LEMMA OpensNewKeeps ==
  ASSUME AttendeesInductive, NEW t \in Tabs, NEW e \in {Home, Away}, Opens(t, e),
         NEW c, c = cookie, NEW k, k = token[e], Found(e, c, k) = 0
  PROVE  AttendeesInductive'
<1>1. PICK n, S : n = Len(itinerary) + 1 /\ S = itinerary'[n].items \cap PublicSessions(e)
  OBVIOUS
<1>2. StoreTyped /\ Len(itinerary) \in Nat
  BY StoreFacts
<1>3. ~Of(cookie, e) /\ token[e] = 0
  <2>1. ~Belongs(c, e) /\ ~Belongs(k, e)
    BY <1>2, StoreFacts DEF Found, Of, Ids
  <2> QED BY <1>2, <2>1, StoreFacts DEF StoreTyped
<1>4. /\ itinerary' \in Seq([event : {Home, Away}, items : SUBSET Stars, forks : BOOLEAN])
      /\ Len(itinerary') = Len(itinerary) + 1 /\ Grown
      /\ itinerary'[n].event = e /\ itinerary'[n].items = {}
      /\ \A i \in Ids : itinerary'[i] = itinerary[i]
      /\ (\E q \in Tabs : tab[q].at = "asked" /\ tab[q].created /\ tab[q].event = e) =>
           itinerary'[n].forks
  <2>1. Resolves(e, c, k, FALSE)
    BY DEF Opens
  <2> QED BY <1>1, <2>1, CreatedFits
<1>5. /\ UNCHANGED <<live, approved, cookie, token, pending, starred>> /\ late' = Abandoned(t)
  BY DEF Opens, program, browser
<1>6. Resolved(e, c, k) = n /\ n > Len(itinerary) /\ S \in SUBSET Stars
  BY <1>1, <1>2, <1>4 DEF Resolved
<1>7. PICK v : v = [at |-> "asked", event |-> e, itinerary |-> n, created |-> TRUE, selected |-> S]
  OBVIOUS
<1>8. tab' = [tab EXCEPT ![t] = v]
  <2>1. tab' = [tab EXCEPT ![t] = [at |-> "asked", event |-> e, itinerary |-> n,
                  created |-> n > Len(itinerary), selected |-> S]]
    <3>1. tab' = [tab EXCEPT ![t] = [at |-> "asked", event |-> e,
                    itinerary |-> Resolved(e, c, k), created |-> Resolved(e, c, k) > Len(itinerary),
                    selected |-> itinerary'[Resolved(e, c, k)].items \cap PublicSessions(e)]]
      BY Zenon DEF Opens
    <3> QED BY <1>1, <1>6, <3>1, Zenon
  <2>2. (n > Len(itinerary)) = TRUE
    BY <1>6
  <2> QED BY <1>7, <2>1, <2>2, Zenon
<1>9. /\ \A m \in late' : m \in [itinerary : Ids, change : Changes] /\ m.itinerary \in Known
      /\ token[Home] = 0 => late' = {}
  <2>1. token[Home] = 0 => late' = {}
    BY <1>2, <1>5, TabAt DEF Abandoned, StoreTyped
  <2> QED BY <1>5, <2>1, AbandonedFits
<1>10. broken' \in 0..MaxBroken
  BY <1>2, AttendeesAssumption DEF Opens, StoreTyped
<1>11. Ids \subseteq Ids' /\ n \in Ids' /\ (\A a, q : Of(a, q) => Of(a, q)')
       /\ (\A a \in Ids' : a \in Ids \/ a = n) /\ n \notin Ids
  BY <1>1, <1>2, <1>4 DEF Ids, Of, Grown
<1>12. StoreTyped'
  <2>1. \A m \in late' : m \in [itinerary : Ids, change : Changes] /\ Of(m.itinerary, Home)
    BY <1>9, WhatIsKnown
  <2>2. /\ cookie \in 0..Len(itinerary) /\ token \in [{Home, Away} -> 0..Len(itinerary)]
        /\ starred \subseteq Stars /\ approved \subseteq Stars
        /\ live \in BOOLEAN /\ pending \in Changes \cup {NoChange}
        /\ token[Home] = 0 => starred = {}
        /\ Of(cookie, Home) => token[Home] # 0
        /\ \A q \in {Home, Away} : token[q] # 0 => Of(token[q], q)
        /\ tab = [q \in Tabs |-> tab[q]]
    BY <1>2 DEF StoreTyped
  <2>3. tab' = [q \in Tabs |-> tab'[q]]
    BY <1>8, <2>2
  <2>4. \A m \in late' : m \in [itinerary : Ids', change : Changes] /\ Of(m.itinerary, Home)'
    BY <1>11, <2>1
  <2>5. /\ cookie' \in 0..Len(itinerary') /\ token' \in [{Home, Away} -> 0..Len(itinerary')]
        /\ \A q \in {Home, Away} : token'[q] # 0 => Of(token[q], q)'
    BY <1>2, <1>4, <1>5, <1>11, <2>2
  <2>6. Of(cookie, Home)' => token[Home] # 0
    <3>1. cookie' # n
      BY <1>1, <1>2, <1>5, <2>2
    <3>2. Of(cookie, Home)' => Of(cookie, Home)
      BY <1>4, <1>5, <1>11, <3>1 DEF Of, Grown
    <3> QED BY <2>2, <3>2
  <2> QED BY <1>4, <1>5, <1>9, <1>10, <2>2, <2>3, <2>4, <2>5, <2>6
       DEF StoreTyped, Of, Changes, NoChange
<1>13. tab'[t] = v /\ \A q \in Tabs : q # t => tab'[q] = tab[q]
  BY <1>2, <1>8 DEF StoreTyped
<1>14. TabFits(t)'
  <2>1. /\ v \in [at : {"asked"}, event : {Home, Away}, itinerary : Ids', created : BOOLEAN,
                  selected : SUBSET Stars]
        /\ v.itinerary = n /\ v.event = e /\ v.created
    BY <1>6, <1>7, <1>11
  <2> QED BY <1>4, <1>11, <1>13, <2>1 DEF TabFits, Of
<1>15. CASE e = Away
  <2>1. Known' \subseteq Known
    <3> SUFFICES ASSUME NEW i \in Ids', itinerary'[i].event = Home, Named(i)'
                 PROVE  i \in Known
      BY DEF Known
    <3>1. i \in Ids /\ itinerary[i].event = Home /\ i # n
      BY <1>4, <1>11, <1>15, AttendeesAssumption DEF Grown
    <3>2. ASSUME NEW q \in Tabs, Names(q, i)'
          PROVE  i \in Known
      <4>1. q # t
        BY <1>7, <1>13, <3>1, <3>2 DEF Names
      <4> QED BY <1>13, <3>1, <3>2, <4>1 DEF Names, Known, Named
    <3> QED BY <1>5, <1>9, <3>1, <3>2 DEF Named, Known
  <2>2. OneKnown'
    BY <1>4, <1>5, <1>12, <2>1, OneKnownStays DEF Known
  <2> QED BY <1>4, <1>5, <1>12, <1>13, <1>14, <2>2, AttendeesStep
<1>16. CASE e = Home
  <2>1. token[Home] = 0 /\ starred' = {} /\ late' = {}
    BY <1>2, <1>3, <1>5, <1>9, <1>16 DEF StoreTyped
  <2>2. ASSUME NoForks', NEW i \in Known'
        PROVE  i = n
    <3>1. i \in Ids' /\ itinerary'[i].event = Home /\ Named(i)'
      BY <2>2 DEF Known
    <3>2. ~itinerary'[n].forks
      BY <1>4, <1>11, <1>16, <2>2 DEF NoForks
    <3>3. ASSUME i \in Ids
          PROVE  FALSE
      <4>1. itinerary[i].event = Home
        BY <1>4, <3>1, <3>3 DEF Grown
      <4>2. i # cookie /\ i # 0
        BY <1>2, <1>3, <1>16, <3>3, <4>1 DEF Of, Ids
      <4>3. PICK q \in Tabs : Names(q, i)'
        BY <1>5, <2>1, <3>1, <4>2 DEF Named
      <4>4. q # t
        BY <1>7, <1>11, <1>13, <3>3, <4>3 DEF Names
      <4>5. tab[q].at \in {"asked", "saving", "saved"} /\ tab[q].itinerary = i
        BY <1>13, <4>3, <4>4 DEF Names
      <4>6. tab[q].at = "asked" /\ tab[q].event = Home /\ tab[q].created
        BY <2>1, <4>1, <4>5, TabAt DEF Of
      <4> QED BY <1>4, <1>16, <3>2, <4>6
    <3> QED BY <1>11, <3>1, <3>3
  <2>3. OneKnown'
    BY <1>4, <2>1, <2>2 DEF OneKnown
  <2> QED BY <1>4, <1>5, <1>12, <1>13, <1>14, <2>3, AttendeesStep
<1> QED BY <1>15, <1>16

-----------------------------------------------------------------------------
(* The theorems.                                                           *)

\* The inductive invariant of the attendees' itineraries: nobody can reach two
\* of them, and the one that can be reached has what was starred.
THEOREM AttendeesInvariance == AttendeesSpec => []AttendeesInductive
<1>1. AttendeesInit => AttendeesInductive
  <2> SUFFICES ASSUME AttendeesInit
               PROVE  AttendeesInductive
    OBVIOUS
  <2>1. /\ itinerary = <<>> /\ Len(itinerary) = 0 /\ cookie = 0 /\ live = FALSE /\ broken = 0
        /\ token[Home] = 0 /\ token[Away] = 0 /\ token \in [{Home, Away} -> 0..0]
        /\ starred = {} /\ late = {} /\ approved = Stars /\ pending = NoChange
        /\ tab = [t \in Tabs |-> Closed] /\ MaxBroken \in Nat
    BY AttendeesAssumption DEF AttendeesInit
  <2>2. Ids = {}
    BY <2>1 DEF Ids
  <2>3. itinerary \in Seq([event : {Home, Away}, items : SUBSET Stars, forks : BOOLEAN])
    BY <2>1
  <2>4. StoreTyped
    <3>1. /\ cookie \in 0..Len(itinerary) /\ token \in [{Home, Away} -> 0..Len(itinerary)]
          /\ \A e \in {Home, Away} : token[e] = 0
      BY <2>1
    <3>2. tab = [t \in Tabs |-> tab[t]] /\ ~Of(cookie, Home)
      BY <2>1, <2>2 DEF Of
    <3>3. /\ token[Home] = 0 => starred = {} /\ late = {}
          /\ \A e \in {Home, Away} : token[e] # 0 => Of(token[e], e)
          /\ \A m \in late : m \in [itinerary : Ids, change : Changes] /\ Of(m.itinerary, Home)
      BY <2>1, <3>1
    <3>4. starred \subseteq Stars /\ approved \subseteq Stars /\ broken \in 0..MaxBroken
      BY <2>1
    <3>5. live \in BOOLEAN /\ pending \in Changes \cup {NoChange}
      BY <2>1
    <3> QED BY <2>3, <3>1, <3>2, <3>3, <3>4, <3>5 DEF StoreTyped
  <2>5. Known = {}
    BY <2>2 DEF Known
  <2>6. \A t \in Tabs : TabFits(t)
    BY <2>1 DEF TabFits
  <2> QED BY <2>4, <2>5, <2>6 DEF AttendeesInductive, OneKnown
<1>2. AttendeesInductive /\ [AttendeesNext]_attendeeVars => AttendeesInductive'
  <2> SUFFICES ASSUME AttendeesInductive, [AttendeesNext]_attendeeVars
               PROVE  AttendeesInductive'
    OBVIOUS
  <2>1. CASE \/ Publishes \/ Pauses \/ LosesCookie \/ UNCHANGED attendeeVars
             \/ \E s \in Stars : Withdraws(s)
    BY <2>1, OrganizersKeep
  <2>2. ASSUME NEW t \in Tabs, Opens(t, Home) \/ Opens(t, Away)
        PROVE  AttendeesInductive'
    <3>1. PICK e \in {Home, Away} : Opens(t, e)
      BY <2>2
    <3>2. PICK c, k : c = cookie /\ k = token[e]
      OBVIOUS
    <3> QED BY <3>1, <3>2, OpensFoundKeeps, OpensNewKeeps
  <2>3. ASSUME NEW t \in Tabs, LearnsItinerary(t)
        PROVE  AttendeesInductive'
    BY <2>3, LearnsKeeps
  <2>4. ASSUME NEW t \in Tabs, (\E s \in Stars : Toggles(t, s)) \/ Retries(t)
        PROVE  AttendeesInductive'
    <3>1. PICK c : Sends(t, c) /\ tab[t].at = "ready" /\ c \in Changes
      <4>1. CASE Retries(t)
        <5>1. PICK c : c = tab[t].retry
          OBVIOUS
        <5>2. c \in Changes
          BY <4>1, <5>1, TabAt DEF Retries
        <5> QED BY <4>1, <5>1, <5>2 DEF Retries
      <4>2. ASSUME NEW s \in Stars, Toggles(t, s)
            PROVE  \E c : Sends(t, c) /\ tab[t].at = "ready" /\ c \in Changes
        <5>1. PICK b \in BOOLEAN : b <=> s \notin tab[t].selected
          OBVIOUS
        <5>2. PICK c : c = Change(s, b)
          OBVIOUS
        <5>3. Change(s, s \notin tab[t].selected) = c
          BY <5>1, <5>2 DEF Change
        <5>4. c \in Changes
          BY <5>1, <5>2 DEF Change, Changes
        <5>5. Sends(t, Change(s, s \notin tab[t].selected)) /\ tab[t].at = "ready"
          BY <4>2 DEF Toggles
        <5> QED BY <5>3, <5>4, <5>5, Zenon
      <4> QED BY <2>4, <4>1, <4>2
    <3> QED BY <3>1, SendsKeeps
  <2>5. ASSUME NEW t \in Tabs, Saves(t) \/ LearnsSaved(t) \/ LosesAnswer(t) \/ Exports(t)
        PROVE  AttendeesInductive'
    BY <2>5, SavesKeeps, AnswersKeep, ExportsKeeps
  <2>6. ASSUME NEW m \in late, SavesLate(m)
        PROVE  AttendeesInductive'
    BY <2>6, SavesLateKeeps
  <2> QED BY <2>1, <2>2, <2>3, <2>4, <2>5, <2>6 DEF AttendeesNext
<1> QED BY <1>1, <1>2, PTL DEF AttendeesSpec

\* StarredIsFound in every state: whatever answers are lost, written late or
\* refused, the next request finds what the attendee has starred.
THEOREM StarsAreKept == AttendeesSpec => []AttendeesSafe
<1>1. AttendeesInductive => AttendeesSafe
  <2> SUFFICES ASSUME AttendeesInductive
               PROVE  AttendeesSafe
    OBVIOUS
  <2>1. StoreTyped /\ OneKnown /\ Len(itinerary) \in Nat /\ DOMAIN itinerary = Ids
    BY StoreFacts
  <2>2. AttendeesTypeOK
    BY <2>1, StoreFacts DEF AttendeesTypeOK, StoreTyped
  <2>3. ASSUME \A i \in Ours : ~itinerary[i].forks
        PROVE  IF Current = 0 THEN starred = {} ELSE itinerary[Current].items = starred
    <3>1. NoForks
      BY <2>1, <2>3 DEF NoForks, Ours
    <3>2. CASE Current = 0
      <4>1. token[Home] = 0
        BY <3>2, FoundHome DEF Current
      <4> QED BY <2>1, <3>2, <4>1 DEF StoreTyped
    <3>3. CASE Current # 0
      <4>1. Current = cookie \/ Current = token[Home]
        BY <3>3 DEF Current, Found
      <4>2. Of(Current, Home)
        BY <3>3, StoreFacts DEF Current, Found
      <4>3. Current \in Known
        BY <4>1, <4>2, WhatIsKnown
      <4> QED BY <2>1, <3>1, <3>3, <4>3 DEF OneKnown
    <3> QED BY <3>2, <3>3
  <2> QED BY <2>2, <2>3 DEF AttendeesSafe, StarredIsFound
<1> QED BY <1>1, AttendeesInvariance, PTL

-----------------------------------------------------------------------------
(***************************************************************************)
(* MCAgenda: a behaviour of the program is one of each module.             *)
(***************************************************************************)

\* AttendeesSafe in every state of the program.
THEOREM ProgramKeepsStars == ProgramSpec => []AttendeesHold
<1>1. ProgramInit => AttendeesInit
  BY DEF ProgramInit
<1>2. [ProgramNext]_<<vars, attendeeVars, feedVars, side>> => [AttendeesNext]_attendeeVars
  BY DEF ProgramNext
<1>3. ProgramSpec => AttendeesSpec
  BY <1>1, <1>2, PTL DEF ProgramSpec, AttendeesSpec
<1>4. AttendeesSafe => AttendeesHold
  BY DEF AttendeesHold
<1> QED BY <1>3, <1>4, StarsAreKept, PTL
-----------------------------------------------------------------------------
(***************************************************************************)
(* ProgramFeed: what the public reads of a published program.              *)
(***************************************************************************)

(* The inductive invariant.                                                *)

RowIds == Lectures \cup Hosts
AllQueries == Queries(Collections \cup Pages)
NoPairs == {<<Fresh, Fresh>>}
Revisions == 0..MaxPublic

CopyType == [revision : Revisions, schedule : DOMAIN StartsOf, lectures : SUBSET Lectures,
             times : [Lectures -> Nat]]

ReaderType ==
  [at : {"idle", "publication", "rows"}, of : {Pages, Collections}, query : AllQueries,
   cursor : [query : AllQueries, revision : Revisions, id : RowIds \cup {Fresh}],
   publication : [revision : Revisions, schedule : DOMAIN StartsOf], filter : BOOLEAN,
   lectures : (SUBSET Lectures) \cup {NotRead}, times : [Lectures -> Nat], moved : BOOLEAN,
   pairs : (SUBSET (Lectures \X Hosts)) \cup {NoPairs},
   names : [Hosts -> 1..2], seen : Seq(RowIds), stayed : SUBSET Lectures,
   renamed : BOOLEAN, whole : BOOLEAN,
   copy : CopyType]

FeedTyped ==
  /\ onAir \in [live : BOOLEAN, revision : 1..MaxPublic, schedule : DOMAIN StartsOf]
  /\ starts \in [DOMAIN StartsOf -> [Lectures -> Nat]] /\ cleared \subseteq Lectures
  /\ surname \in [Hosts -> 1..2] /\ edits \in 0..MaxEdits
  /\ reader \in ReaderType

\* The revision that is public has one schedule, and what was read of it has the
\* times that this schedule has now: the selected schedule is not edited.
OfOneRevision ==
  /\ reader.publication.revision <= onAir.revision
  /\ reader.publication.revision = onAir.revision =>
       /\ reader.publication.schedule = onAir.schedule
       /\ reader.times = starts[onAir.schedule] /\ ~reader.moved
  /\ reader.copy.revision <= onAir.revision
  /\ reader.copy.revision = onAir.revision =>
       reader.copy.schedule = onAir.schedule /\ reader.copy.times = starts[onAir.schedule]
  /\ reader.copy.lectures \subseteq PlacedOn(reader.copy.times)
  /\ reader.at = "rows" /\ reader.lectures # NotRead =>
       reader.lectures \subseteq PlacedOn(reader.times)
  /\ reader.at = "rows" /\ reader.lectures = NotRead => ~reader.moved

\* The rows that were read have what stayed public since the listing began.
NothingMissed ==
  /\ reader.stayed \subseteq cleared
  /\ reader.at = "rows" =>
       /\ reader.query.resource \in Collections => ~reader.filter
       /\ reader.lectures # NotRead =>
            reader.stayed \cap PlacedOn(reader.times) \subseteq reader.lectures
       /\ reader.pairs # NoPairs /\ reader.query.resource = "speakers" =>
            /\ \A l \in reader.stayed : \A h \in HostsOf[l] : <<l, h>> \in reader.pairs
            /\ ~reader.renamed => reader.names = surname

\* What a listing for a query is sorted by, what it owes its reader, and whether it
\* owes anything.
KeyFor(r, q) == IF q.resource = "speakers" THEN r.names ELSE r.times
OwedFor(r, q) ==
  LET kept == {l \in r.stayed \cap PlacedOn(r.times) : q.mainOnly => l \in InMain}
  IN  IF q.resource = "speakers" THEN UNION {HostsOf[l] : l \in kept} ELSE kept
Counts(r, q) == ~r.moved /\ (q.resource = "speakers" => ~r.renamed)

\* What was seen is in order and has every row up to the cursor that was owed.
SeenUpTo(seen, owed, key, id) ==
  /\ \A i \in DOMAIN seen : seen[i] \in DOMAIN key
  /\ \A i, j \in DOMAIN seen : i < j => Precedes(key, seen[i], seen[j])
  /\ \A x \in owed : x = id \/ Precedes(key, x, id) => \E i \in DOMAIN seen : seen[i] = x

\* A cursor stands on the row that was seen last.
CursorHolds(r) ==
  /\ r.cursor.query.resource \in Collections
  /\ Len(r.seen) > 0 /\ r.seen[Len(r.seen)] = r.cursor.id
  /\ r.at # "rows" => r.cursor.revision = r.publication.revision
  /\ r.cursor.query.resource = "speakers" /\ ~r.renamed => r.names = surname
  /\ Counts(r, r.cursor.query) /\ r.cursor.revision = r.publication.revision =>
       SeenUpTo(r.seen, OwedFor(r, r.cursor.query), KeyFor(r, r.cursor.query), r.cursor.id)

ListingHolds ==
  /\ reader.whole => reader.at = "idle" /\ reader.cursor.id = Fresh
  /\ reader.at # "idle" /\ reader.cursor.id = Fresh => reader.seen = << >>
  /\ reader.cursor.id # Fresh => CursorHolds(reader)
  /\ PagesAreWhole

FeedInductive == FeedTyped /\ OfOneRevision /\ NothingMissed /\ ListingHolds

-----------------------------------------------------------------------------
(* Sorting and paging.                                                     *)

Ordered(s, key) == \A i, j \in DOMAIN s : i < j => Precedes(key, s[i], s[j])

\* Of some rows there is a first one.
LEMMA FirstRow ==
  ASSUME NEW rows \in SUBSET Nat, rows # {}, NEW D, rows \subseteq D, NEW key \in [D -> Nat]
  PROVE  \E m \in rows : \A x \in rows : x = m \/ Precedes(key, m, x)
<1>1. PICK k \in {key[x] : x \in rows} : \A n \in {key[x] : x \in rows} : k <= n
  <2>1. {key[x] : x \in rows} \in SUBSET Nat /\ {key[x] : x \in rows} # {}
    OBVIOUS
  <2> QED BY <2>1, LeastNumber
<1>2. PICK m \in {x \in rows : key[x] = k} : \A n \in {x \in rows : key[x] = k} : m <= n
  <2>1. {x \in rows : key[x] = k} \in SUBSET Nat /\ {x \in rows : key[x] = k} # {}
    BY <1>1
  <2> QED BY <2>1, LeastNumber
<1>3. ASSUME NEW x \in rows, x # m PROVE Precedes(key, m, x)
  <2>1. k <= key[x] /\ key[m] = k /\ key[x] \in Nat /\ k \in Nat /\ x \in Nat /\ m \in Nat
    BY <1>1, <1>2
  <2>2. key[x] = k => m <= x
    BY <1>2
  <2> QED BY <1>3, <2>1, <2>2 DEF Precedes
<1> QED BY <1>2, <1>3

\* Rows can be sorted, by induction over their number.
LEMMA SortedIsThere ==
  ASSUME NEW rows \in SUBSET Nat, IsFiniteSet(rows), NEW D, rows \subseteq D, NEW key \in [D -> Nat]
  PROVE  \E s \in [1..Cardinality(rows) -> rows] : Ordered(s, key)
<1> DEFINE Good == {n \in Nat : \A T \in SUBSET rows : Cardinality(T) = n =>
                                  \E s \in [1..n -> T] : Ordered(s, key)}
<1>1. 0 \in Good
  <2> SUFFICES ASSUME NEW T \in SUBSET rows, Cardinality(T) = 0
               PROVE  \E s \in [1..0 -> T] : Ordered(s, key)
    OBVIOUS
  <2>1. PICK s : s = [i \in {} |-> 0]
    OBVIOUS
  <2>2. s \in [{} -> T] /\ 1..0 = {} /\ DOMAIN s = {}
    BY <2>1
  <2> QED BY <2>2 DEF Ordered
<1>2. ASSUME NEW n \in Nat, n \in Good PROVE n + 1 \in Good
  <2> SUFFICES ASSUME NEW T \in SUBSET rows, Cardinality(T) = n + 1
               PROVE  \E s \in [1..(n + 1) -> T] : Ordered(s, key)
    OBVIOUS
  <2>1. IsFiniteSet(T)
    BY FS_Subset
  <2>2. T # {}
    BY <1>2, <2>1, FS_EmptySet
  <2>3. PICK m \in T : \A x \in T : x = m \/ Precedes(key, m, x)
    BY <2>2, FirstRow
  <2>4. T \ {m} \in SUBSET rows /\ Cardinality(T \ {m}) = n
    <3>1. Cardinality(T \ {m}) = Cardinality(T) - 1
      BY <2>1, <2>3, FS_RemoveElement
    <3> QED BY <1>2, <3>1
  <2>5. PICK t \in [1..n -> T \ {m}] : Ordered(t, key)
    BY <1>2, <2>4
  <2>6. PICK s : s = [i \in 1..(n + 1) |-> IF i = 1 THEN m ELSE t[i - 1]]
    OBVIOUS
  <2>7. \A i \in 1..(n + 1) : i # 1 => i - 1 \in 1..n /\ s[i] = t[i - 1] /\ s[i] \in T \ {m}
    BY <1>2, <2>5, <2>6
  <2>8. s[1] = m /\ s \in [1..(n + 1) -> T]
    BY <1>2, <2>3, <2>6, <2>7
  <2>9. ASSUME NEW i \in 1..(n + 1), NEW j \in 1..(n + 1), i < j PROVE Precedes(key, s[i], s[j])
    <3>1. j # 1 /\ s[j] \in T \ {m} /\ s[j] = t[j - 1] /\ j - 1 \in 1..n
      BY <1>2, <2>7, <2>9
    <3>2. CASE i = 1
      BY <2>3, <2>8, <3>1, <3>2
    <3>3. CASE i # 1
      <4>1. s[i] = t[i - 1] /\ i - 1 \in 1..n /\ i - 1 < j - 1
        BY <1>2, <2>7, <2>9, <3>3
      <4> QED BY <2>5, <3>1, <4>1 DEF Ordered
    <3> QED BY <3>2, <3>3
  <2> QED BY <2>8, <2>9 DEF Ordered
<1>3. Cardinality(rows) \in Nat
  BY FS_CardinalityType
<1>4. Cardinality(rows) \in Good
  BY <1>1, <1>2, <1>3, Induction
<1> QED BY <1>4

Enumerates(s, rows, key, n) ==
  /\ s \in [1..n -> rows] /\ Ordered(s, key)
  /\ \A x \in rows : \E i \in 1..n : s[i] = x

\* What is sorted has every row once.
LEMMA SortedHasAll ==
  ASSUME NEW rows \in SUBSET Nat, IsFiniteSet(rows), NEW D, rows \subseteq D, NEW key \in [D -> Nat],
         NEW values, values = Sorted(rows, key)
  PROVE  \E n \in Nat : Enumerates(values, rows, key, n)
<1>1. PICK n \in Nat : n = Cardinality(rows)
  BY FS_CardinalityType
<1>2. values \in [1..n -> rows] /\ Ordered(values, key)
  <2>1. \E s \in [1..n -> rows] : Ordered(s, key)
    BY <1>1, SortedIsThere
  <2>2. values = CHOOSE s \in [1..n -> rows] : Ordered(s, key)
    BY <1>1 DEF Sorted, Ordered
  <2> QED BY <2>1, <2>2
<1>3. values \in Injection(1..n, rows)
  <2>1. ASSUME NEW i \in 1..n, NEW j \in 1..n, i < j PROVE values[i] # values[j]
    <3>1. Precedes(key, values[i], values[j]) /\ values[i] \in rows
      BY <1>2, <2>1 DEF Ordered
    <3>2. values[i] \in Nat /\ key[values[i]] \in Nat
      BY <3>1
    <3>3. ~Precedes(key, values[i], values[i])
      BY <3>2 DEF Precedes
    <3> QED BY <3>1, <3>3
  <2>2. IsInjective(values)
    BY <1>2, <2>1 DEF IsInjective
  <2> QED BY <1>2, <2>2 DEF Injection
<1>4. IsFiniteSet(1..n) /\ Cardinality(1..n) = n
  <2>1. IsFiniteSet(1..n) /\ Cardinality(1..n) = IF 1 > n THEN 0 ELSE n - 1 + 1
    BY FS_Interval
  <2> QED BY <2>1
<1>5. values \in Surjection(1..n, rows)
  BY <1>1, <1>3, <1>4, FS_Injection
<1> QED BY <1>2, <1>5 DEF Surjection, Enumerates

\* What was seen before a page, and what is seen with it.
SeenBefore(seen, rows, owed, key, id) ==
  /\ id = Fresh => seen = << >>
  /\ id # Fresh => /\ id \in rows /\ Len(seen) > 0 /\ seen[Len(seen)] = id
                   /\ SeenUpTo(seen, owed, key, id)

SeenNow(next, owed, key, values, start) ==
  IF start + 1 < Len(values) THEN SeenUpTo(next, owed, key, values[start + 1])
  ELSE Ordered(next, key) /\ \A x \in owed : \E i \in DOMAIN next : next[i] = x

\* A page goes on where the last one ended: what was seen stays in order, and what
\* was owed is seen up to the row the page ends with.
LEMMA PageGoesOn ==
  ASSUME NEW D \in SUBSET (Nat \ {Fresh}), NEW key \in [D -> Nat],
         NEW rows \in SUBSET D, IsFiniteSet(rows), NEW owed \in SUBSET rows,
         NEW values, values = Sorted(rows, key),
         NEW X, NEW seen \in Seq(X), D \subseteq X, NEW id, SeenBefore(seen, rows, owed, key, id),
         NEW start, start = StartOf(values, id),
         NEW next, next = IF start < Len(values) THEN Append(seen, values[start + 1]) ELSE seen
  PROVE  SeenNow(next, owed, key, values, start)
<1> USE DEF SeenBefore
<1>0. PICK n \in Nat : Enumerates(values, rows, key, n)
  <2>1. rows \in SUBSET Nat /\ rows \subseteq D
    OBVIOUS
  <2> QED BY <2>1, SortedHasAll
<1>1. /\ values \in [1..n -> rows] /\ Ordered(values, key)
      /\ \A x \in rows : \E i \in 1..n : values[i] = x
  BY <1>0 DEF Enumerates
<1>2. Len(values) = n /\ DOMAIN values = 1..n
  BY <1>1
<1>3. /\ id = Fresh => start = 0
      /\ id # Fresh => start \in 1..n /\ values[start] = id
  <2>1. id # Fresh => \E i \in DOMAIN values : values[i] = id
    BY <1>1, <1>2
  <2> QED BY <1>2, <2>1 DEF StartOf
<1>4. start \in 0..n
  BY <1>1, <1>3
<1>5. \A a, b, c \in D : Precedes(key, a, b) /\ Precedes(key, b, c) => Precedes(key, a, c)
  BY DEF Precedes
<1>6. \A a, b \in D : Precedes(key, a, b) => ~Precedes(key, b, a) /\ a # b
  BY DEF Precedes
<1>7. \A k, m \in 1..n : k < m => Precedes(key, values[k], values[m])
  BY <1>1, <1>2 DEF Ordered
<1>8. ASSUME NEW k \in 1..n, k <= start, values[k] \in owed
      PROVE  \E i \in DOMAIN seen : seen[i] = values[k]
  <2>1. id # Fresh /\ values[start] = id /\ start \in 1..n
    BY <1>1, <1>3, <1>8
  <2>2. values[k] = id \/ Precedes(key, values[k], id)
    BY <1>1, <1>7, <1>8, <2>1
  <2> QED BY <1>8, <2>1, <2>2 DEF SeenUpTo
<1>9. \A i, j \in DOMAIN seen : i < j => Precedes(key, seen[i], seen[j])
  BY DEF SeenUpTo
<1>10. CASE start < n
  <2>0. start + 1 \in 1..n
    BY <1>4, <1>10
  <2>1. PICK new \in rows : new = values[start + 1]
    BY <1>1, <2>0
  <2>2. next = Append(seen, new) /\ new \in X
    BY <1>2, <1>10, <2>1
  <2>3. PICK m \in Nat : m = Len(seen) /\ DOMAIN seen = 1..m
    OBVIOUS
  <2>4. DOMAIN next = 1..(m + 1) /\ next[m + 1] = new /\ \A i \in 1..m : next[i] = seen[i]
    BY <2>2, <2>3
  <2>5. ASSUME NEW i \in 1..m PROVE seen[i] \in D /\ Precedes(key, seen[i], new)
    <3>1. id # Fresh /\ seen[m] = id
      BY <2>3, <2>5
    <3>2. id \in D /\ values[start] = id /\ start \in 1..n /\ start < start + 1
      <4>1. id \in D
        BY <3>1
      <4>2. values[start] = id /\ start \in 1..n
        BY <1>3, <3>1, Zenon
      <4>3. start < start + 1
        BY <4>2
      <4> QED BY <4>1, <4>2, <4>3
    <3>3. Precedes(key, id, new)
      BY <1>7, <2>0, <2>1, <3>2
    <3>4. seen[i] \in D
      BY <2>3, <3>1 DEF SeenUpTo
    <3>5. i = m \/ Precedes(key, seen[i], id)
      BY <1>9, <2>3, <3>1
    <3> QED BY <1>5, <2>1, <3>1, <3>2, <3>3, <3>4, <3>5
  <2>6. Ordered(next, key)
    <3> SUFFICES ASSUME NEW i \in 1..(m + 1), NEW j \in 1..(m + 1), i < j
                 PROVE  Precedes(key, next[i], next[j])
      BY <2>4 DEF Ordered
    <3>1. i \in 1..m /\ next[i] = seen[i]
      BY <2>3, <2>4
    <3>2. CASE j \in 1..m
      BY <1>9, <2>3, <2>4, <3>1, <3>2
    <3>3. CASE j = m + 1
      BY <2>4, <2>5, <3>1, <3>3
    <3> QED BY <2>3, <3>2, <3>3
  <2>7. \A i \in DOMAIN next : next[i] \in D
    BY <2>1, <2>3, <2>4, <2>5
  <2>8. ASSUME NEW k \in 1..n, k <= start + 1, values[k] \in owed
        PROVE  \E i \in DOMAIN next : next[i] = values[k]
    <3>1. CASE k = start + 1
      BY <2>1, <2>3, <2>4, <3>1
    <3>2. CASE k <= start
      <4>1. PICK i \in DOMAIN seen : seen[i] = values[k]
        BY <1>8, <2>8, <3>2
      <4> QED BY <2>3, <2>4, <4>1
    <3> QED BY <1>4, <2>8, <3>1, <3>2
  <2>9. CASE start + 1 < n
    <3>1. ASSUME NEW x \in owed, x = new \/ Precedes(key, x, new)
          PROVE  \E i \in DOMAIN next : next[i] = x
      <4>1. PICK k \in 1..n : values[k] = x
        BY <1>1
      <4>2. ~(start + 1 < k)
        <5> SUFFICES ASSUME start + 1 < k PROVE FALSE
          OBVIOUS
        <5>1. start + 1 \in 1..n
          BY <1>1, <1>4, <1>10
        <5>2. Precedes(key, new, x)
          BY <1>7, <2>1, <4>1, <5>1
        <5>3. x \in D /\ new \in D
          BY <2>1
        <5> QED BY <1>6, <3>1, <5>2, <5>3
      <4>3. k <= start + 1
        BY <1>1, <1>4, <4>2
      <4> QED BY <2>8, <4>1, <4>3
    <3>2. SeenUpTo(next, owed, key, new)
      BY <2>6, <2>7, <3>1 DEF SeenUpTo, Ordered
    <3> QED BY <1>2, <2>1, <2>9, <3>2 DEF SeenNow
  <2>10. CASE ~(start + 1 < n)
    <3>1. ASSUME NEW x \in owed PROVE \E i \in DOMAIN next : next[i] = x
      <4>1. PICK k \in 1..n : values[k] = x
        BY <1>1
      <4>2. k <= start + 1
        BY <1>1, <1>4, <2>10, <4>1
      <4> QED BY <2>8, <4>1, <4>2
    <3> QED BY <1>2, <2>6, <2>10, <3>1 DEF SeenNow
  <2> QED BY <2>9, <2>10
<1>11. CASE ~(start < n)
  <2>1. start = n /\ next = seen /\ ~(start + 1 < Len(values))
    BY <1>1, <1>2, <1>4, <1>11
  <2>2. ASSUME NEW x \in owed PROVE \E i \in DOMAIN next : next[i] = x
    <3>1. PICK k \in 1..n : values[k] = x
      BY <1>1
    <3>2. k <= start
      BY <1>1, <2>1, <3>1
    <3> QED BY <1>8, <2>1, <3>1, <3>2
  <2> QED BY <1>9, <2>1, <2>2 DEF Ordered, SeenNow
<1> QED BY <1>10, <1>11 DEF SeenNow

-----------------------------------------------------------------------------
(* The reader is left alone, or a listing goes on.                         *)

\* An owed row that is withdrawn is not owed any more.
LEMMA OwedShrinks ==
  ASSUME NEW r, NEW n, NEW q, n.times = r.times, n.stayed \subseteq r.stayed
  PROVE  OwedFor(n, q) \subseteq OwedFor(r, q)
  BY DEF OwedFor

\* A cursor still holds when what it is about stays, or a name it rests on is changed.
LEMMA CursorStays ==
  ASSUME NEW r, NEW n, r = reader, n = reader', CursorHolds(r),
         n.cursor = r.cursor, n.seen = r.seen, n.publication = r.publication,
         r.cursor.revision = r.publication.revision /\ ~n.moved => n.times = r.times /\ ~r.moved,
         n.stayed \subseteq r.stayed, r.renamed => n.renamed,
         n.at # "rows" => r.cursor.revision = r.publication.revision,
         r.cursor.query.resource = "speakers" /\ ~n.renamed => n.names = r.names /\ surname' = surname
  PROVE  CursorHolds(n)'
<1>1. PICK q, id : q = r.cursor.query /\ id = r.cursor.id
  OBVIOUS
<1>2. ASSUME Counts(n, q), r.cursor.revision = r.publication.revision
      PROVE  SeenUpTo(n.seen, OwedFor(n, q), KeyFor(n, q), id)
  <2>1. Counts(r, q)
    BY <1>2 DEF Counts
  <2>2. SeenUpTo(r.seen, OwedFor(r, q), KeyFor(r, q), id)
    BY <1>1, <1>2, <2>1 DEF CursorHolds
  <2>3. KeyFor(n, q) = KeyFor(r, q)
    BY <1>1, <1>2 DEF KeyFor, Counts
  <2>4. OwedFor(n, q) \subseteq OwedFor(r, q)
    BY <1>2, OwedShrinks DEF Counts
  <2> QED BY <2>2, <2>3, <2>4 DEF SeenUpTo
<1> QED BY <1>1, <1>2 DEF CursorHolds, Counts, KeyFor, OwedFor, SeenUpTo, PlacedOn, Precedes

\* Publishing, pausing, approving and moving a session leave the reader alone.
LEMMA ReaderStays ==
  ASSUME FeedInductive, UNCHANGED <<surname, edits, reader>> \/ (UNCHANGED <<surname, reader>> /\ Edits),
         onAir' \in [live : BOOLEAN, revision : 1..MaxPublic, schedule : DOMAIN StartsOf],
         starts' \in [DOMAIN StartsOf -> [Lectures -> Nat]],
         starts'[onAir.schedule] = starts[onAir.schedule],
         onAir' # onAir => \/ onAir'.revision > onAir.revision
                           \/ onAir'.revision = onAir.revision /\ onAir'.schedule = onAir.schedule,
         cleared \subseteq cleared', cleared' \subseteq Lectures
  PROVE  FeedInductive'
<1>1. reader' = reader /\ surname' = surname /\ edits' \in 0..MaxEdits
  BY FeedAssumption DEF FeedInductive, FeedTyped, Edits
<1>2. FeedTyped'
  BY <1>1 DEF FeedInductive, FeedTyped
<1>3. OfOneRevision'
  <2>1. onAir.revision \in Nat /\ onAir'.revision \in Nat /\ reader.publication.revision \in Nat
        /\ reader.copy.revision \in Nat
    BY FeedAssumption DEF FeedInductive, FeedTyped, ReaderType, CopyType, Revisions
  <2>2. CASE onAir' = onAir
    BY <1>1, <2>2 DEF FeedInductive, OfOneRevision, PlacedOn
  <2>3. CASE onAir'.revision > onAir.revision
    BY <1>1, <2>1, <2>3 DEF FeedInductive, OfOneRevision, PlacedOn
  <2>4. CASE onAir'.revision = onAir.revision /\ onAir'.schedule = onAir.schedule
    BY <1>1, <2>4 DEF FeedInductive, OfOneRevision, PlacedOn
  <2> QED BY <2>2, <2>3, <2>4
<1>4. NothingMissed'
  BY <1>1 DEF FeedInductive, NothingMissed, PlacedOn
<1>5. ListingHolds'
  BY SMTT(90), <1>1 DEF FeedInductive, ListingHolds, CursorHolds, PagesAreWhole, Owed, SortKey, KeyFor, OwedFor,
              Counts, SeenUpTo, PlacedOn, Precedes
<1> QED BY <1>2, <1>3, <1>4, <1>5 DEF FeedInductive

\* A publication gets a revision that no reader has read.
LEMMA PutsOnAirKeeps ==
  ASSUME FeedInductive, PutsOnAir
  PROVE  FeedInductive'
<1>1. PICK k \in DOMAIN StartsOf :
        onAir' = [live |-> TRUE, revision |-> onAir.revision + 1, schedule |-> k]
  BY DEF PutsOnAir
<1>2. onAir.revision \in 1..MaxPublic /\ onAir.revision < MaxPublic
  BY DEF FeedInductive, FeedTyped, PutsOnAir
<1>3. onAir' \in [live : BOOLEAN, revision : 1..MaxPublic, schedule : DOMAIN StartsOf]
      /\ onAir'.revision > onAir.revision
  BY <1>1, <1>2, FeedAssumption
<1> QED BY <1>3, ReaderStays DEF PutsOnAir, FeedInductive, FeedTyped

\* A pause keeps the revision.
LEMMA TakesOffAirKeeps ==
  ASSUME FeedInductive, TakesOffAir
  PROVE  FeedInductive'
<1>1. onAir' \in [live : BOOLEAN, revision : 1..MaxPublic, schedule : DOMAIN StartsOf]
      /\ onAir'.revision = onAir.revision /\ onAir'.schedule = onAir.schedule
  BY DEF FeedInductive, FeedTyped, TakesOffAir
<1> QED BY <1>1, ReaderStays DEF TakesOffAir, FeedInductive, FeedTyped

\* An approval adds to what may be read.
LEMMA ClearsKeeps ==
  ASSUME FeedInductive, NEW l \in Lectures, Clears(l)
  PROVE  FeedInductive'
<1>1. onAir' = onAir /\ cleared \subseteq cleared' /\ cleared' \subseteq Lectures
  BY DEF FeedInductive, FeedTyped, Clears
<1> QED BY <1>1, ReaderStays DEF Clears, FeedInductive, FeedTyped

\* A session is moved in a schedule that is not the one the public revision has.
LEMMA EditsPlacementKeeps ==
  ASSUME FeedInductive, NEW k \in DOMAIN StartsOf, NEW l \in Lectures, NEW t \in Times \cup {NotPlaced},
         EditsPlacement(k, l, t)
  PROVE  FeedInductive'
<1>1. starts \in [DOMAIN StartsOf -> [Lectures -> Nat]] /\ onAir.schedule \in DOMAIN StartsOf
  BY DEF FeedInductive, FeedTyped
<1>2. t \in Nat /\ k # onAir.schedule /\ starts' = [starts EXCEPT ![k][l] = t]
  BY FeedAssumption DEF EditsPlacement, Editable, NotPlaced
<1>3. starts' \in [DOMAIN StartsOf -> [Lectures -> Nat]] /\ starts'[onAir.schedule] = starts[onAir.schedule]
  BY <1>1, <1>2
<1> QED BY <1>3, ReaderStays DEF EditsPlacement, FeedInductive, FeedTyped

\* What the fields of a reader are.
LEMMA ReaderFields ==
  ASSUME NEW r \in ReaderType
  PROVE  /\ r.at \in {"idle", "publication", "rows"} /\ r.of \in {Pages, Collections}
         /\ r.query \in AllQueries /\ r.cursor \in [query : AllQueries, revision : Revisions, id : RowIds \cup {Fresh}]
         /\ r.publication \in [revision : Revisions, schedule : DOMAIN StartsOf] /\ r.filter \in BOOLEAN
         /\ r.lectures \in (SUBSET Lectures) \cup {NotRead}
         /\ r.times \in [Lectures -> Nat] /\ r.moved \in BOOLEAN
         /\ r.pairs \in (SUBSET (Lectures \X Hosts)) \cup {NoPairs}
         /\ r.names \in [Hosts -> 1..2] /\ r.seen \in Seq(RowIds) /\ r.stayed \in SUBSET Lectures
         /\ r.renamed \in BOOLEAN /\ r.whole \in BOOLEAN
         /\ r.copy \in CopyType
  BY DEF ReaderType

\* A lecture that is withdrawn is not owed any more.
LEMMA UnclearsKeeps ==
  ASSUME FeedInductive, NEW l \in Lectures, Unclears(l)
  PROVE  FeedInductive'
<1>1. PICK r \in ReaderType : r = reader
  BY DEF FeedInductive, FeedTyped
<1>2. PICK n : n = reader'
  OBVIOUS
<1>3. n = [r EXCEPT !.stayed = r.stayed \ {l}]
  BY <1>1, <1>2 DEF Unclears
<1>4. /\ n \in ReaderType /\ n.stayed = r.stayed \ {l}
      /\ n.at = r.at /\ n.query = r.query /\ n.cursor = r.cursor /\ n.publication = r.publication
      /\ n.filter = r.filter /\ n.lectures = r.lectures /\ n.pairs = r.pairs /\ n.names = r.names
      /\ n.seen = r.seen /\ n.renamed = r.renamed /\ n.whole = r.whole /\ n.copy = r.copy
      /\ n.times = r.times /\ n.moved = r.moved
  BY <1>1, <1>3 DEF ReaderType
<1>5. onAir' = onAir /\ starts' = starts /\ surname' = surname /\ edits' \in 0..MaxEdits /\ cleared' = cleared \ {l}
  BY FeedAssumption DEF Unclears, Edits, FeedInductive, FeedTyped
<1>6. FeedTyped'
  BY <1>2, <1>4, <1>5 DEF FeedInductive, FeedTyped
<1>7. OfOneRevision'
  BY <1>1, <1>2, <1>4, <1>5 DEF FeedInductive, OfOneRevision, PlacedOn
<1>8. NothingMissed'
  BY <1>1, <1>2, <1>4, <1>5 DEF FeedInductive, NothingMissed, PlacedOn
<1>9. ListingHolds'
  <2>1. r.cursor.id # Fresh => CursorHolds(n)'
    <3>1. SUFFICES ASSUME r.cursor.id # Fresh PROVE CursorHolds(n)'
      OBVIOUS
    <3>2. CursorHolds(r)
      BY <1>1, <3>1 DEF FeedInductive, ListingHolds
    <3>3. n.at # "rows" => r.cursor.revision = r.publication.revision
      BY <1>4, <3>2 DEF CursorHolds
    <3> QED BY <1>1, <1>2, <1>4, <1>5, <3>2, <3>3, CursorStays
  <2>2. PagesAreWhole'
    BY <1>1, <1>2, <1>4 DEF FeedInductive, ListingHolds, PagesAreWhole, Owed, SortKey, PlacedOn, Precedes
  <2> QED BY <1>1, <1>2, <1>4, <2>1, <2>2 DEF FeedInductive, ListingHolds
<1> QED BY <1>6, <1>7, <1>8, <1>9 DEF FeedInductive

\* A new name releases the listing of the speakers from its order.
LEMMA RenamesKeeps ==
  ASSUME FeedInductive, NEW h \in Hosts, Renames(h)
  PROVE  FeedInductive'
<1>1. PICK r \in ReaderType : r = reader
  BY DEF FeedInductive, FeedTyped
<1>2. PICK n : n = reader'
  OBVIOUS
<1>3. n = [r EXCEPT !.renamed = TRUE]
  BY <1>1, <1>2 DEF Renames
<1>4. /\ n \in ReaderType /\ n.renamed /\ n.stayed = r.stayed
      /\ n.at = r.at /\ n.query = r.query /\ n.cursor = r.cursor /\ n.publication = r.publication
      /\ n.filter = r.filter /\ n.lectures = r.lectures /\ n.pairs = r.pairs /\ n.names = r.names
      /\ n.seen = r.seen /\ n.whole = r.whole /\ n.copy = r.copy
      /\ n.times = r.times /\ n.moved = r.moved
  BY <1>1, <1>3 DEF ReaderType
<1>5. onAir' = onAir /\ starts' = starts /\ edits' \in 0..MaxEdits /\ cleared' = cleared /\ surname' \in [Hosts -> 1..2]
  BY FeedAssumption DEF Renames, Edits, FeedInductive, FeedTyped
<1>6. FeedTyped'
  BY <1>2, <1>4, <1>5 DEF FeedInductive, FeedTyped
<1>7. OfOneRevision'
  BY <1>1, <1>2, <1>4, <1>5 DEF FeedInductive, OfOneRevision, PlacedOn
<1>8. NothingMissed'
  BY <1>1, <1>2, <1>4, <1>5 DEF FeedInductive, NothingMissed, PlacedOn
<1>9. ListingHolds'
  <2>1. r.cursor.id # Fresh => CursorHolds(n)'
    <3>1. SUFFICES ASSUME r.cursor.id # Fresh PROVE CursorHolds(n)'
      OBVIOUS
    <3>2. CursorHolds(r)
      BY <1>1, <3>1 DEF FeedInductive, ListingHolds
    <3>3. n.at # "rows" => r.cursor.revision = r.publication.revision
      BY <1>4, <3>2 DEF CursorHolds
    <3> QED BY <1>1, <1>2, <1>4, <1>5, <3>2, <3>3, CursorStays
  <2>2. PagesAreWhole'
    BY <1>1, <1>2, <1>4 DEF FeedInductive, ListingHolds, PagesAreWhole, Owed, SortKey, PlacedOn, Precedes
  <2> QED BY <1>1, <1>2, <1>4, <2>1, <2>2 DEF FeedInductive, ListingHolds
<1> QED BY <1>6, <1>7, <1>8, <1>9 DEF FeedInductive

-----------------------------------------------------------------------------
(* One request.                                                            *)

\* A reader at the beginning, or at the end of a request that gave it nothing.
Blank(r) ==
  /\ r.at \in {"idle", "publication"} /\ r.cursor.id = Fresh /\ r.seen = << >>
  /\ r.stayed = {} /\ ~r.whole /\ r.publication.revision = 0

\* The reader that has read nothing is one.
LEMMA ReaderIsTyped == Reader \in ReaderType
<1>1. NoQuery \in AllQueries
  BY DEF NoQuery, AllQueries, Queries, Pages
<1>2. << >> \in Seq(RowIds) /\ 0 \in Revisions /\ [h \in Hosts |-> 1] \in [Hosts -> 1..2]
  BY FeedAssumption DEF Revisions
<1>3. {} \in SUBSET (Lectures \X Hosts) /\ StartsOf[1] \in [Lectures -> Nat]
  BY FeedAssumption
<1> QED BY <1>1, <1>2, <1>3, FeedAssumption DEF Reader, ReaderType, CopyType

\* What a reader is that keeps its copy only.
LEMMA RefusedIsBlank ==
  ASSUME NEW r \in ReaderType, NEW n, n = Refused(r)
  PROVE  /\ n \in ReaderType /\ Blank(n) /\ n.of = r.of /\ n.copy = r.copy /\ n.at = "idle"
         /\ n.query = NoQuery
<1>1. Reader \in ReaderType
  BY ReaderIsTyped
<1>2. r.of \in {Pages, Collections}
      /\ r.copy \in CopyType
  BY ReaderFields
<1>3. PICK b : b = Reader
  OBVIOUS
<1>4. b \in ReaderType /\ b.at = "idle" /\ b.cursor.id = Fresh /\ b.seen = << >> /\ b.stayed = {} /\ b.whole = FALSE
      /\ b.publication.revision = 0 /\ b.query = NoQuery
  BY <1>1, <1>3 DEF Reader
<1>5. n = [b EXCEPT !.of = r.of, !.copy = r.copy]
  BY <1>3 DEF Refused
<1>6. n \in ReaderType /\ n.of = r.of /\ n.copy = r.copy
      /\ n.at = b.at /\ n.cursor = b.cursor /\ n.seen = b.seen /\ n.stayed = b.stayed /\ n.whole = b.whole
      /\ n.publication = b.publication /\ n.query = b.query
  BY ZenonT(90), <1>2, <1>4, <1>5 DEF ReaderType
<1> QED BY <1>4, <1>6 DEF Blank

\* Nothing is owed to such a reader.
LEMMA BlankKeeps ==
  ASSUME FeedInductive, UNCHANGED <<onAir, starts, cleared, surname, edits>>,
         NEW n \in ReaderType, n = reader', Blank(n),
         n.copy = reader.copy
           \/ /\ n.copy.revision <= onAir.revision
              /\ n.copy.revision = onAir.revision =>
                   n.copy.schedule = onAir.schedule /\ n.copy.times = starts[onAir.schedule]
              /\ n.copy.lectures \subseteq PlacedOn(n.copy.times)
  PROVE  FeedInductive'
<1>1. FeedTyped'
  BY DEF FeedInductive, FeedTyped
<1>2. OfOneRevision'
  <2>1. onAir.revision \in 1..MaxPublic
    BY DEF FeedInductive, FeedTyped
  <2>2. n.publication.revision <= onAir.revision
        /\ n.publication.revision # onAir.revision
    BY <2>1, FeedAssumption DEF Blank
  <2>3. /\ n.copy.revision <= onAir.revision
        /\ n.copy.revision = onAir.revision =>
             n.copy.schedule = onAir.schedule /\ n.copy.times = starts[onAir.schedule]
        /\ n.copy.lectures \subseteq PlacedOn(n.copy.times)
    BY DEF FeedInductive, OfOneRevision
  <2> QED BY <2>2, <2>3 DEF OfOneRevision, Blank, PlacedOn
<1>3. NothingMissed'
  BY DEF NothingMissed, Blank
<1>4. ListingHolds'
  BY DEF ListingHolds, Blank, PagesAreWhole
<1> QED BY <1>1, <1>2, <1>3, <1>4 DEF FeedInductive

\* A request that goes on keeps the listing; another begins anew.
LEMMA RequestsPageKeeps ==
  ASSUME FeedInductive, NEW q \in AllQueries, NEW goesOn \in BOOLEAN, RequestsPage(q, goesOn)
  PROVE  FeedInductive'
<1>1. PICK r \in ReaderType : r = reader
  BY DEF FeedInductive, FeedTyped
<1>2. PICK n : n = reader'
  OBVIOUS
<1>3. r.at = "idle" /\ UNCHANGED <<onAir, starts, cleared, surname, edits>>
  BY <1>1 DEF RequestsPage
<1>4. CASE goesOn
  <2>1. n = [r EXCEPT !.at = "publication", !.query = q] /\ r.cursor.id # Fresh
    BY <1>1, <1>2, <1>4 DEF RequestsPage
  <2>2. /\ n \in ReaderType /\ n.at = "publication" /\ n.query = q /\ n.cursor = r.cursor
        /\ n.publication = r.publication /\ n.stayed = r.stayed /\ n.copy = r.copy
        /\ n.times = r.times /\ n.moved = r.moved
        /\ n.names = r.names /\ n.seen = r.seen /\ n.renamed = r.renamed /\ n.whole = r.whole
    BY <2>1 DEF ReaderType
  <2>3. ~r.whole /\ CursorHolds(r)
    BY <1>1, <2>1 DEF FeedInductive, ListingHolds
  <2>4. r.cursor.revision = r.publication.revision
    BY <1>3, <2>3 DEF CursorHolds
  <2>5. CursorHolds(n)'
    BY <1>1, <1>2, <1>3, <2>2, <2>3, <2>4, CursorStays
  <2>6. FeedTyped'
    BY <1>2, <1>3, <2>2 DEF FeedInductive, FeedTyped
  <2>7. OfOneRevision'
    BY <1>1, <1>2, <1>3, <2>2 DEF FeedInductive, OfOneRevision, PlacedOn
  <2>8. NothingMissed'
    BY <1>1, <1>2, <1>3, <2>2 DEF FeedInductive, NothingMissed
  <2>9. ListingHolds'
    BY <1>2, <2>1, <2>2, <2>3, <2>5 DEF ListingHolds, PagesAreWhole
  <2> QED BY <2>6, <2>7, <2>8, <2>9 DEF FeedInductive
<1>5. CASE ~goesOn
  <2>1. n = [Refused(r) EXCEPT !.at = "publication", !.query = q]
    BY <1>1, <1>2, <1>5 DEF RequestsPage
  <2>2. PICK b \in ReaderType : b = Refused(r) /\ Blank(b) /\ b.copy = r.copy
    BY RefusedIsBlank
  <2>3. n = [b EXCEPT !.at = "publication", !.query = q]
    BY <2>1, <2>2
  <2>4. /\ n \in ReaderType /\ n.at = "publication" /\ n.cursor = b.cursor /\ n.seen = b.seen
        /\ n.stayed = b.stayed /\ n.whole = b.whole /\ n.copy = b.copy /\ n.publication = b.publication
    BY <2>3 DEF ReaderType
  <2>5. Blank(n) /\ n.copy = reader.copy
    BY <1>1, <2>2, <2>4 DEF Blank
  <2> QED BY <1>2, <1>3, <2>4, <2>5, BlankKeeps
<1> QED BY <1>4, <1>5

\* The publication is read; without one the request is refused.
LEMMA ReadsPublicationKeeps ==
  ASSUME FeedInductive, NEW mainTrack \in BOOLEAN, ReadsPublication(mainTrack)
  PROVE  FeedInductive'
<1>1. PICK r \in ReaderType : r = reader
  BY DEF FeedInductive, FeedTyped
<1>2. PICK n : n = reader'
  OBVIOUS
<1>3. /\ r.at = "publication" /\ UNCHANGED <<onAir, starts, cleared, surname, edits>>
      /\ mainTrack => r.query.resource = "widget"
  BY <1>1 DEF ReadsPublication
<1>4. onAir.live \in BOOLEAN /\ onAir.revision \in Revisions /\ onAir.schedule \in DOMAIN StartsOf
      /\ onAir.revision \in Nat /\ starts[onAir.schedule] \in [Lectures -> Nat]
  BY FeedAssumption DEF FeedInductive, FeedTyped, Revisions
<1>5. CASE ~onAir.live
  <2>1. n = Refused(r)
    BY <1>1, <1>2, <1>5 DEF ReadsPublication
  <2>2. n \in ReaderType /\ Blank(n) /\ n.copy = r.copy
    BY <2>1, RefusedIsBlank
  <2> QED BY <1>1, <1>2, <1>3, <2>2, BlankKeeps
<1>6. CASE onAir.live
  <2>1. PICK filter \in BOOLEAN :
          filter <=> (mainTrack \/ (r.query.resource = "program" /\ r.query.mainOnly))
    OBVIOUS
  <2>2. PICK stayed : stayed = IF r.cursor.id = Fresh THEN cleared ELSE r.stayed
    OBVIOUS
  <2>3. PICK renamed : renamed = IF r.cursor.id = Fresh THEN FALSE ELSE r.renamed
    OBVIOUS
  <2>4. PICK read : read = [revision |-> onAir.revision, schedule |-> onAir.schedule]
    OBVIOUS
  <2>5. stayed \in SUBSET Lectures /\ renamed \in BOOLEAN /\ r.query \in AllQueries /\ filter \in BOOLEAN
    BY <2>2, <2>3, ReaderFields DEF FeedInductive, FeedTyped
  <2>6. (mainTrack \/ (r.query.resource = "program" /\ r.query.mainOnly)) \in BOOLEAN
    BY <2>5 DEF AllQueries, Queries
  <2>7. filter = (mainTrack \/ (r.query.resource = "program" /\ r.query.mainOnly))
    BY <2>1, <2>6, Zenon
  <2>8. n = [r EXCEPT !.at = "rows", !.lectures = NotRead, !.pairs = NoPairs, !.publication = read,
                      !.times = starts[onAir.schedule], !.moved = FALSE, !.filter = filter, !.stayed = stayed, !.renamed = renamed]
    BY <1>1, <1>2, <1>6, <2>2, <2>3, <2>4, <2>7, Zenon DEF ReadsPublication, NoPairs
  <2>9. read \in [revision : Revisions, schedule : DOMAIN StartsOf]
        /\ read.revision = onAir.revision /\ read.schedule = onAir.schedule
    BY <1>4, <2>4
  <2>10. /\ n \in ReaderType /\ n.at = "rows" /\ n.lectures = NotRead /\ n.pairs = NoPairs
         /\ n.publication = read /\ n.filter = filter /\ n.stayed = stayed /\ n.renamed = renamed
         /\ n.query = r.query /\ n.cursor = r.cursor /\ n.names = r.names /\ n.seen = r.seen
         /\ n.whole = r.whole /\ n.copy = r.copy /\ n.times = starts[onAir.schedule] /\ n.moved = FALSE
    BY <1>4, <2>5, <2>8, <2>9 DEF ReaderType
  <2>11. FeedTyped'
    BY <1>2, <1>3, <2>10 DEF FeedInductive, FeedTyped
  <2>12. OfOneRevision'
    BY <1>1, <1>2, <1>3, <1>4, <2>9, <2>10 DEF FeedInductive, OfOneRevision, PlacedOn
  <2>13. NothingMissed'
    <3>1. stayed \subseteq cleared
      BY <1>1, <2>2 DEF FeedInductive, NothingMissed
    <3>2. r.query.resource \in Collections => ~filter
      BY <1>3, <2>1 DEF Collections
    <3> QED BY <1>2, <1>3, <2>10, <3>1, <3>2 DEF NothingMissed
  <2>14. ListingHolds'
    <3>1. ~r.whole
      BY <1>1, <1>3 DEF FeedInductive, ListingHolds
    <3>2. r.cursor.id = Fresh => r.seen = << >>
      BY <1>1, <1>3 DEF FeedInductive, ListingHolds
    <3>3. r.cursor.id # Fresh => CursorHolds(n)'
      <4> SUFFICES ASSUME r.cursor.id # Fresh PROVE CursorHolds(n)'
        OBVIOUS
      <4>1. CursorHolds(r) /\ stayed = r.stayed /\ renamed = r.renamed
        BY <1>1, <2>2, <2>3 DEF FeedInductive, ListingHolds
      <4>2. r.cursor.revision = r.publication.revision
        BY <1>3, <4>1 DEF CursorHolds
      <4>3. PICK q, id : q = r.cursor.query /\ id = r.cursor.id
        OBVIOUS
      <4>4. ASSUME Counts(n, q), r.cursor.revision = read.revision
            PROVE  SeenUpTo(n.seen, OwedFor(n, q), KeyFor(n, q), id)
        <5>1. r.times = n.times /\ ~r.moved
          BY <1>1, <2>9, <2>10, <4>2, <4>4 DEF FeedInductive, OfOneRevision
        <5>2. SeenUpTo(r.seen, OwedFor(r, q), KeyFor(r, q), id)
          BY <2>10, <5>1, <4>1, <4>2, <4>3, <4>4 DEF CursorHolds, Counts
        <5>3. OwedFor(n, q) = OwedFor(r, q) /\ KeyFor(n, q) = KeyFor(r, q)
          BY <2>10, <4>1, <5>1 DEF OwedFor, KeyFor
        <5> QED BY <2>10, <5>2, <5>3
      <4> QED BY <1>1, <1>3, <2>10, <4>1, <4>3, <4>4 DEF CursorHolds, Counts, KeyFor, OwedFor, SeenUpTo, PlacedOn, Precedes
    <3> QED BY <1>2, <2>10, <3>1, <3>2, <3>3 DEF ListingHolds, PagesAreWhole
  <2> QED BY <2>11, <2>12, <2>13, <2>14 DEF FeedInductive
<1> QED BY <1>4, <1>5, <1>6

\* The sessions that are read have those that stayed.
LEMMA ReadsSessionsKeeps ==
  ASSUME FeedInductive, ReadsSessions
  PROVE  FeedInductive'
<1>1. PICK r \in ReaderType : r = reader
  BY DEF FeedInductive, FeedTyped
<1>2. PICK n : n = reader'
  OBVIOUS
<1>3. PICK listed : listed = ListedSessions(r)
  OBVIOUS
<1>4. PICK now : now = TimesRead(r)
  OBVIOUS
<1>5. PICK moved \in BOOLEAN : moved = (now # r.times)
  OBVIOUS
<1>6. /\ r.at = "rows" /\ r.lectures = NotRead /\ UNCHANGED <<onAir, starts, cleared, surname, edits>>
       /\ n = [r EXCEPT !.lectures = listed, !.times = now, !.moved = moved]
  BY <1>1, <1>2, <1>3, <1>4, <1>5 DEF ReadsSessions
<1>7. /\ listed \in SUBSET Lectures /\ listed = cleared \cap PlacedOn(now)
       /\ now = starts[r.publication.schedule] /\ now \in [Lectures -> Nat]
  BY <1>3, <1>4, ReaderFields DEF FeedInductive, FeedTyped, ListedSessions, TimesRead
<1>8. /\ n \in ReaderType /\ n.at = r.at /\ n.lectures = listed /\ n.pairs = r.pairs
      /\ n.publication = r.publication /\ n.filter = r.filter /\ n.stayed = r.stayed
      /\ n.renamed = r.renamed /\ n.query = r.query /\ n.cursor = r.cursor /\ n.names = r.names
      /\ n.seen = r.seen /\ n.whole = r.whole /\ n.copy = r.copy
      /\ n.times = now /\ n.moved = moved
  BY <1>6, <1>7 DEF ReaderType
<1>9. FeedTyped'
  BY <1>2, <1>6, <1>8 DEF FeedInductive, FeedTyped
<1>10. OfOneRevision'
  <2>1. r.publication.revision = onAir.revision =>
          /\ r.publication.schedule = onAir.schedule
          /\ now = r.times /\ moved = FALSE /\ now = starts[onAir.schedule]
    BY <1>1, <1>5, <1>7 DEF FeedInductive, OfOneRevision
  <2>2. listed # NotRead
    BY <1>7, FeedAssumption DEF NotRead
  <2>3. listed \subseteq PlacedOn(now)
    BY <1>7
  <2> QED BY <1>1, <1>2, <1>8, <1>6, <2>1, <2>2, <2>3 DEF FeedInductive, OfOneRevision, PlacedOn
<1>11. NothingMissed'
  BY <1>1, <1>2, <1>6, <1>7, <1>8 DEF FeedInductive, NothingMissed, PlacedOn
<1>12. ListingHolds'
  <2>1. r.cursor.id # Fresh => CursorHolds(n)'
    <3> SUFFICES ASSUME r.cursor.id # Fresh PROVE CursorHolds(n)'
      OBVIOUS
    <3>1. CursorHolds(r)
      BY <1>1 DEF FeedInductive, ListingHolds
    <3>2. r.cursor.revision = r.publication.revision /\ ~n.moved => n.times = r.times /\ ~r.moved
      BY <1>1, <1>5, <1>8, <1>6 DEF FeedInductive, OfOneRevision
    <3> QED BY <1>1, <1>2, <1>6, <1>8, <3>1, <3>2, CursorStays
  <2> QED BY <1>1, <1>2, <1>6, <1>8, <2>1 DEF FeedInductive, ListingHolds, PagesAreWhole
<1> QED BY <1>9, <1>10, <1>11, <1>12 DEF FeedInductive

\* The speakers that are read have those of the sessions that stayed, under their
\* names of now.
LEMMA ReadsSpeakersKeeps ==
  ASSUME FeedInductive, ReadsSpeakers
  PROVE  FeedInductive'
<1>1. PICK r \in ReaderType : r = reader
  BY DEF FeedInductive, FeedTyped
<1>2. PICK n : n = reader'
  OBVIOUS
<1>3. PICK pairs : pairs = {pair \in cleared \X Hosts : pair[2] \in HostsOf[pair[1]]
                              /\ r.query.resource \notin {"sessions", "agenda"}}
  OBVIOUS
<1>4. PICK names : names = IF r.query.resource = "speakers" THEN surname ELSE r.names
  OBVIOUS
<1>5. r.at = "rows" /\ UNCHANGED <<onAir, starts, cleared, surname, edits>>
      /\ n = [r EXCEPT !.pairs = pairs, !.names = names]
  BY <1>1, <1>2, <1>3, <1>4 DEF ReadsSpeakers
<1>6. pairs \in SUBSET (Lectures \X Hosts) /\ names \in [Hosts -> 1..2]
  BY <1>3, <1>4, ReaderFields DEF FeedInductive, FeedTyped
<1>7. /\ n \in ReaderType /\ n.at = r.at /\ n.lectures = r.lectures /\ n.pairs = pairs
      /\ n.publication = r.publication /\ n.filter = r.filter /\ n.stayed = r.stayed
      /\ n.renamed = r.renamed /\ n.query = r.query /\ n.cursor = r.cursor /\ n.names = names
      /\ n.seen = r.seen /\ n.whole = r.whole /\ n.copy = r.copy
      /\ n.times = r.times /\ n.moved = r.moved
  BY <1>5, <1>6 DEF ReaderType
<1>8. FeedTyped'
  BY <1>2, <1>5, <1>7 DEF FeedInductive, FeedTyped
<1>9. OfOneRevision'
  BY <1>1, <1>2, <1>5, <1>7 DEF FeedInductive, OfOneRevision, PlacedOn
<1>10. NothingMissed'
  <2>1. r.stayed \subseteq cleared
    BY <1>1 DEF FeedInductive, NothingMissed
  <2>2. ASSUME r.query.resource = "speakers", NEW l \in r.stayed, NEW h \in HostsOf[l]
        PROVE  <<l, h>> \in pairs
    <3>1. l \in cleared /\ l \in Lectures
      BY <2>1, <2>2 DEF FeedInductive, FeedTyped
    <3>2. h \in Hosts
      BY <3>1, <2>2, FeedAssumption
    <3> QED BY <1>3, <2>2, <3>1, <3>2
  <2>3. r.query.resource = "speakers" => names = surname
    BY <1>4
  <2> QED BY <1>1, <1>2, <1>5, <1>7, <2>1, <2>2, <2>3 DEF FeedInductive, NothingMissed, PlacedOn
<1>11. ListingHolds'
  <2>1. r.cursor.id # Fresh => CursorHolds(n)'
    <3> SUFFICES ASSUME r.cursor.id # Fresh PROVE CursorHolds(n)'
      OBVIOUS
    <3>1. CursorHolds(r)
      BY <1>1 DEF FeedInductive, ListingHolds
    <3>2. r.cursor.query.resource = "speakers" /\ ~r.renamed => names = r.names
      BY <1>4, <3>1 DEF CursorHolds
    <3> QED BY <1>1, <1>2, <1>5, <1>7, <3>1, <3>2, CursorStays
  <2>2. ~r.whole
    BY <1>1, <1>5 DEF FeedInductive, ListingHolds
  <2> QED BY <1>1, <1>2, <1>5, <1>7, <2>1, <2>2 DEF FeedInductive, ListingHolds, PagesAreWhole
<1> QED BY <1>8, <1>9, <1>10, <1>11 DEF FeedInductive

\* The row a page ends with is one of the rows that are listed.
LEMMA PageRow ==
  ASSUME NEW D \in SUBSET (Nat \ {Fresh}), NEW key \in [D -> Nat],
         NEW rows \in SUBSET D, IsFiniteSet(rows), NEW values, values = Sorted(rows, key),
         NEW id, id # Fresh => id \in rows, NEW start, start = StartOf(values, id)
  PROVE  /\ start \in Nat /\ Len(values) \in Nat
         /\ start < Len(values) => values[start + 1] \in rows
<1>0. PICK n \in Nat : Enumerates(values, rows, key, n)
  <2>1. rows \in SUBSET Nat /\ rows \subseteq D
    OBVIOUS
  <2> QED BY <2>1, SortedHasAll
<1>1. values \in [1..n -> rows] /\ \A x \in rows : \E i \in 1..n : values[i] = x
  BY <1>0 DEF Enumerates
<1>2. Len(values) = n /\ DOMAIN values = 1..n
  BY <1>1
<1>3. start \in 0..n
  <2>1. id # Fresh => \E i \in DOMAIN values : values[i] = id
    BY <1>1, <1>2
  <2> QED BY <1>2, <2>1 DEF StartOf
<1> QED BY <1>1, <1>2, <1>3

\* What a listing is sorted by, and that it has what it owes.
LEMMA ListedRows ==
  ASSUME FeedInductive, NEW r \in ReaderType, r = reader, r.at = "rows", r.lectures # NotRead,
         r.pairs # NoPairs, r.query.resource \in Collections
  PROVE  \E D \in SUBSET (Nat \ {Fresh}) :
           /\ D \subseteq RowIds /\ SortKey(r) \in [D -> Nat] /\ Collection(r) \in SUBSET D
           /\ IsFiniteSet(Collection(r)) /\ OwedFor(r, r.query) \subseteq Collection(r)
           /\ SortKey(r) = KeyFor(r, r.query)
<1>1. r.lectures \in SUBSET Lectures /\ r.pairs \in SUBSET (Lectures \X Hosts)
      /\ r.names \in [Hosts -> 1..2] /\ r.times \in [Lectures -> Nat]
      /\ r.stayed \in SUBSET Lectures
  BY ReaderFields
<1>2. /\ r.lectures \subseteq PlacedOn(r.times) /\ ~r.filter
      /\ r.stayed \cap PlacedOn(r.times) \subseteq r.lectures
      /\ r.query.resource = "speakers" =>
           \A l \in r.stayed : \A h \in HostsOf[l] : <<l, h>> \in r.pairs
  BY DEF FeedInductive, OfOneRevision, NothingMissed
<1>3. ShownLectures(r) = r.lectures
  BY <1>2 DEF ShownLectures
<1>4. CASE r.query.resource = "speakers"
  <2>1. Hosts \in SUBSET (Nat \ {Fresh}) /\ Hosts \subseteq RowIds
    BY FeedAssumption DEF Fresh, RowIds
  <2>2. SortKey(r) = r.names /\ r.names \in [Hosts -> Nat] /\ KeyFor(r, r.query) = r.names
    BY <1>1, <1>4 DEF SortKey, KeyFor
  <2>3. Collection(r) = SpeakerCollection(r) /\ SpeakerCollection(r) \in SUBSET Hosts
    BY <1>1, <1>4 DEF Collection, SpeakerCollection, SpeakersShown
  <2>4. IsFiniteSet(Collection(r))
    BY <2>3, FeedAssumption, FS_Subset
  <2>5. ASSUME NEW h \in OwedFor(r, r.query) PROVE h \in SpeakerCollection(r)
    <3>1. PICK l \in r.stayed \cap PlacedOn(r.times) :
            (r.query.mainOnly => l \in InMain) /\ h \in HostsOf[l]
      BY <1>4, <2>5 DEF OwedFor
    <3>2. PICK p \in r.pairs : p = <<l, h>>
      BY <1>2, <1>4, <3>1
    <3>3. l \in r.lectures /\ p[1] = l /\ p[2] = h
      BY <1>2, <3>1, <3>2
    <3> QED BY <1>3, <3>1, <3>2, <3>3 DEF SpeakerCollection, SpeakersShown
  <2> QED BY <2>1, <2>2, <2>3, <2>4, <2>5
<1>5. CASE r.query.resource # "speakers"
  <2>1. PICK D \in SUBSET Lectures : D = Lectures
    OBVIOUS
  <2>2. D \in SUBSET (Nat \ {Fresh}) /\ D \subseteq RowIds
    BY <2>1, FeedAssumption DEF Fresh, RowIds
  <2>3. SortKey(r) \in [D -> Nat] /\ KeyFor(r, r.query) = SortKey(r)
    BY <1>1, <1>5, <2>1 DEF SortKey, KeyFor
  <2>4. Collection(r) = SessionCollection(r) /\ SessionCollection(r) \in SUBSET D
    BY <1>1, <1>3, <1>5, <2>1 DEF Collection, SessionCollection
  <2>5. IsFiniteSet(Collection(r))
    BY <2>1, <2>4, FeedAssumption, FS_Subset
  <2>6. OwedFor(r, r.query) \subseteq SessionCollection(r)
    BY <1>2, <1>3, <1>5 DEF OwedFor, SessionCollection
  <2> QED BY <2>2, <2>3, <2>4, <2>5, <2>6
<1> QED BY <1>4, <1>5

\* A page that is answered keeps the listing, or ends it with everything seen; one
\* whose cursor holds no more is refused.
LEMMA AnswersPageKeeps ==
  ASSUME FeedInductive, AnswersPage
  PROVE  FeedInductive'
<1>1. PICK r \in ReaderType : r = reader
  BY DEF FeedInductive, FeedTyped
<1>2. PICK n : n = reader'
  OBVIOUS
<1>3. /\ r.at = "rows" /\ r.lectures # NotRead /\ r.pairs # NoPairs /\ r.query.resource \in Collections
      /\ UNCHANGED <<onAir, starts, cleared, surname, edits>>
      /\ n = IF ValidCursor(r) THEN Paginate(r) ELSE Refused(r)
  BY <1>1, <1>2 DEF AnswersPage, NoPairs
<1>4. CASE ~ValidCursor(r)
  <2>1. n = Refused(r)
    BY <1>3, <1>4
  <2>2. n \in ReaderType /\ Blank(n) /\ n.copy = r.copy
    BY <2>1, RefusedIsBlank
  <2> QED BY <1>1, <1>2, <1>3, <2>2, BlankKeeps
<1>5. CASE ValidCursor(r)
  <2>1. PICK key, rows, owed, id, q : key = SortKey(r) /\ rows = Collection(r) /\ owed = OwedFor(r, q)
                                        /\ id = r.cursor.id /\ q = r.query
    OBVIOUS
  <2>2. PICK D \in SUBSET (Nat \ {Fresh}) :
          /\ D \subseteq RowIds /\ key \in [D -> Nat] /\ rows \in SUBSET D /\ IsFiniteSet(rows)
          /\ owed \in SUBSET rows /\ key = KeyFor(r, q)
    BY <1>1, <1>3, <2>1, ListedRows
  <2>3. PICK values : values = Sorted(rows, key)
    OBVIOUS
  <2>4. PICK start : start = StartOf(values, id)
    OBVIOUS
  <2>5. PICK seen \in Seq(RowIds) : seen = r.seen
    BY ReaderFields
  <2>6. PICK next : next = IF start < Len(values) THEN Append(seen, values[start + 1]) ELSE seen
    OBVIOUS
  <2>7. PICK more \in BOOLEAN : more <=> start + 1 < Len(values)
    OBVIOUS
  <2>8. PICK cursor : cursor = IF more THEN [query |-> q, revision |-> r.publication.revision,
                                             id |-> values[start + 1]]
                               ELSE Reader.cursor
    OBVIOUS
  <2>9. n = [r EXCEPT !.at = "idle", !.whole = ~more, !.lectures = NotRead, !.pairs = {},
                      !.seen = next, !.cursor = cursor]
    <3>1. more = (start + 1 < Len(values))
      BY <2>7
    <3> QED BY <1>3, <1>5, <2>1, <2>3, <2>4, <2>5, <2>6, <2>8, <3>1 DEF Paginate
  <2>10. id # Fresh => /\ r.cursor.query = q /\ r.cursor.revision = r.publication.revision /\ id \in rows
                       /\ CursorHolds(r)
    BY <1>1, <1>5, <2>1 DEF ValidCursor, FeedInductive, ListingHolds
  <2>11. id = Fresh => seen = << >>
    BY <1>1, <1>3, <2>1, <2>5 DEF FeedInductive, ListingHolds
  <2>12. start \in Nat /\ Len(values) \in Nat /\ (start < Len(values) => values[start + 1] \in rows)
    BY <2>2, <2>3, <2>4, <2>10, PageRow
  <2>13. more => /\ next = Append(seen, values[start + 1]) /\ values[start + 1] \in rows
                 /\ Len(next) > 0 /\ next[Len(next)] = values[start + 1]
    <3> SUFFICES ASSUME more
                 PROVE  /\ next = Append(seen, values[start + 1]) /\ values[start + 1] \in rows
                        /\ Len(next) > 0 /\ next[Len(next)] = values[start + 1]
      OBVIOUS
    <3>1. start < Len(values)
      BY <2>7, <2>12
    <3>2. PICK new \in RowIds : new = values[start + 1] /\ new \in rows
      BY <2>2, <2>12, <3>1
    <3>3. next = Append(seen, new)
      BY <2>6, <3>1, <3>2
    <3> QED BY <3>2, <3>3
  <2>14. next \in Seq(RowIds)
    <3>1. CASE start < Len(values)
      <4>1. PICK new \in RowIds : new = values[start + 1]
        BY <2>2, <2>12, <3>1
      <4> QED BY <2>6, <3>1, <4>1
    <3>2. CASE ~(start < Len(values))
      BY <2>6, <3>2
    <3> QED BY <3>1, <3>2
  <2>15. cursor \in [query : AllQueries, revision : Revisions, id : RowIds \cup {Fresh}]
    <3>1. q \in AllQueries /\ r.publication.revision \in Revisions
      BY <2>1, ReaderFields
    <3>2. CASE more
      BY <2>2, <2>8, <2>13, <3>1, <3>2
    <3>3. CASE ~more
      BY <2>8, <3>3, FeedAssumption DEF Reader, NoQuery, AllQueries, Queries, Pages, Revisions
    <3> QED BY <3>2, <3>3
  <2>16. /\ n \in ReaderType /\ n.at = "idle" /\ n.whole = ~more /\ n.lectures = NotRead /\ n.seen = next
         /\ n.cursor = cursor /\ n.publication = r.publication /\ n.stayed = r.stayed
         /\ n.times = r.times /\ n.moved = r.moved /\ n.renamed = r.renamed /\ n.query = q /\ n.names = r.names /\ n.copy = r.copy
    <3>1. {} \in SUBSET (Lectures \X Hosts) /\ (~more) \in BOOLEAN
      OBVIOUS
    <3> QED BY <2>1, <2>9, <2>14, <2>15, <3>1 DEF ReaderType
  <2>17. Counts(r, q) => IF more THEN SeenUpTo(next, owed, key, values[start + 1])
                         ELSE Ordered(next, key) /\ \A x \in owed : \E i \in DOMAIN next : next[i] = x
    <3> SUFFICES ASSUME Counts(r, q)
                 PROVE  IF more THEN SeenUpTo(next, owed, key, values[start + 1])
                        ELSE Ordered(next, key) /\ \A x \in owed : \E i \in DOMAIN next : next[i] = x
      OBVIOUS
    <3>1. SeenBefore(seen, rows, owed, key, id)
      BY <2>1, <2>2, <2>5, <2>10, <2>11 DEF CursorHolds, SeenBefore
    <3>2. SeenNow(next, owed, key, values, start)
      BY <2>2, <2>3, <2>4, <2>6, <3>1, PageGoesOn
    <3> QED BY <2>7, <3>2 DEF SeenNow
  <2>18. OwedFor(n, q) = owed /\ KeyFor(n, q) = key /\ SortKey(n) = key /\ (Counts(n, q) <=> Counts(r, q))
    BY <2>1, <2>2, <2>16 DEF OwedFor, KeyFor, SortKey, Counts
  <2>19. FeedTyped'
    BY <1>2, <1>3, <2>16 DEF FeedInductive, FeedTyped
  <2>20. OfOneRevision'
    BY <1>1, <1>2, <1>3, <2>16 DEF FeedInductive, OfOneRevision, PlacedOn
  <2>21. NothingMissed'
    BY <1>1, <1>2, <1>3, <2>16 DEF FeedInductive, NothingMissed
  <2>22. CASE more
    <3>1. PICK new : new = values[start + 1]
      OBVIOUS
    <3>2. cursor.query = q /\ cursor.revision = r.publication.revision /\ cursor.id = new /\ new # Fresh
      BY <2>2, <2>8, <2>13, <2>22, <3>1
    <3>3. q.resource = "speakers" /\ ~r.renamed => r.names = surname
      BY <1>1, <1>3, <2>1 DEF FeedInductive, NothingMissed
    <3>4. Counts(n, q) => SeenUpTo(next, OwedFor(n, q), KeyFor(n, q), new)
      BY <2>17, <2>18, <2>22, <3>1
    <3>5. CursorHolds(n)
      BY <1>3, <2>1, <2>13, <2>16, <2>22, <3>1, <3>2, <3>3, <3>4 DEF CursorHolds
    <3>6. CursorHolds(n)'
      BY <1>1, <1>2, <1>3, <2>16, <3>3, <3>2, <3>5
         DEF CursorHolds, Counts, KeyFor, OwedFor, SeenUpTo, PlacedOn, Precedes
    <3>7. ListingHolds'
      BY <1>2, <2>16, <2>22, <3>2, <3>6 DEF ListingHolds, PagesAreWhole
    <3> QED BY <2>19, <2>20, <2>21, <3>7 DEF FeedInductive
  <2>23. CASE ~more
    <3>1. cursor.id = Fresh
      BY <2>8, <2>23 DEF Reader
    <3>2. ASSUME Counts(n, q)
          PROVE  /\ OwedFor(n, q) \subseteq ToSet(n.seen)
                 /\ \A i, j \in DOMAIN n.seen : i < j => Precedes(SortKey(n), n.seen[i], n.seen[j])
      <4>1. Ordered(next, key) /\ \A x \in owed : \E i \in DOMAIN next : next[i] = x
        BY <2>17, <2>18, <2>23, <3>2
      <4> QED BY <2>16, <2>18, <4>1 DEF Ordered, ToSet
    <3>3. PagesAreWhole'
      BY <1>2, <2>16, <3>2 DEF PagesAreWhole, Owed, OwedFor, Counts, SortKey, PlacedOn, Precedes
    <3>4. ListingHolds'
      BY <1>2, <2>16, <3>1, <3>3 DEF ListingHolds
    <3> QED BY <2>19, <2>20, <2>21, <3>4 DEF FeedInductive
  <2> QED BY <2>22, <2>23
<1> QED BY <1>4, <1>5

\* The copy that is kept has the schedule its revision was published with.
LEMMA AnswersProgramKeeps ==
  ASSUME FeedInductive, AnswersProgram
  PROVE  FeedInductive'
<1>1. PICK r \in ReaderType : r = reader
  BY DEF FeedInductive, FeedTyped
<1>2. PICK n : n = reader'
  OBVIOUS
<1>3. /\ r.at = "rows" /\ r.lectures # NotRead /\ UNCHANGED <<onAir, starts, cleared, surname, edits>>
  BY <1>1 DEF AnswersProgram
<1>4. PICK copy : copy = IF r.query.resource = "program" /\ Confirmed(r) THEN r.copy
                         ELSE [revision |-> r.publication.revision,
                               schedule |-> r.publication.schedule,
                               lectures |-> ShownLectures(r), times |-> r.times]
  OBVIOUS
<1>5. PICK b \in ReaderType : b = Refused(r) /\ Blank(b) /\ b.copy = r.copy
  BY RefusedIsBlank
<1>6. n = [b EXCEPT !.copy = copy]
  BY <1>1, <1>2, <1>4, <1>5 DEF AnswersProgram
<1>7. /\ r.publication \in [revision : Revisions, schedule : DOMAIN StartsOf]
      /\ r.copy \in CopyType
      /\ r.lectures \in SUBSET Lectures /\ r.times \in [Lectures -> Nat]
  BY <1>3, ReaderFields
<1>8. ShownLectures(r) \in SUBSET Lectures /\ ShownLectures(r) \subseteq PlacedOn(r.times)
  BY <1>1, <1>3, <1>7 DEF ShownLectures, FeedInductive, OfOneRevision
<1>9. copy \in CopyType
  BY <1>4, <1>7, <1>8 DEF CopyType
<1>10. copy = r.copy \/ /\ copy.revision <= onAir.revision
                        /\ copy.revision = onAir.revision =>
                             copy.schedule = onAir.schedule /\ copy.times = starts[onAir.schedule]
                        /\ copy.lectures \subseteq PlacedOn(copy.times)
  BY <1>1, <1>4, <1>7, <1>8 DEF FeedInductive, OfOneRevision
<1>11. /\ n \in ReaderType /\ n.copy = copy /\ n.at = b.at /\ n.cursor = b.cursor /\ n.seen = b.seen
       /\ n.stayed = b.stayed /\ n.whole = b.whole /\ n.publication = b.publication
  BY <1>6, <1>9 DEF ReaderType
<1>12. Blank(n)
  BY <1>5, <1>11 DEF Blank
<1> QED BY <1>1, <1>2, <1>3, <1>10, <1>11, <1>12, BlankKeeps

-----------------------------------------------------------------------------
(* The theorems.                                                           *)

\* At first nothing was read.
LEMMA FeedBegins ==
  ASSUME FeedInit
  PROVE  FeedInductive
<1>1. PICK b \in ReaderType : b = Reader
  BY ReaderIsTyped
<1>2. /\ b.at = "idle" /\ b.cursor.id = Fresh /\ b.seen = << >> /\ b.stayed = {} /\ b.whole = FALSE
      /\ b.publication.revision = 0 /\ b.copy.revision = 0 /\ b.copy.lectures = {}
  BY <1>1 DEF Reader
<1>3. reader \in ReaderType /\ reader.at = "idle" /\ reader.cursor.id = Fresh /\ reader.seen = << >>
      /\ reader.stayed = {} /\ ~reader.whole
      /\ reader.publication.revision = 0 /\ reader.copy.revision = 0 /\ reader.copy.lectures = {}
  <2>1. CASE reader = b
    BY <1>2, <2>1
  <2>2. CASE reader = [b EXCEPT !.of = Collections]
    BY <1>2, <2>2 DEF ReaderType
  <2> QED BY <1>1, <2>1, <2>2 DEF FeedInit
<1>4. onAir.revision = 1 /\ onAir.schedule = 1 /\ onAir.live \in BOOLEAN /\ cleared = Lectures
  BY DEF FeedInit
<1>5. FeedTyped
  BY <1>3, FeedAssumption DEF FeedInit, FeedTyped
<1>6. OfOneRevision
  BY <1>3, <1>4 DEF OfOneRevision, PlacedOn
<1>7. NothingMissed
  BY <1>3 DEF NothingMissed
<1>8. ListingHolds
  BY <1>3 DEF ListingHolds, PagesAreWhole
<1> QED BY <1>5, <1>6, <1>7, <1>8 DEF FeedInductive

\* Every step keeps the invariant.
LEMMA FeedSteps ==
  ASSUME FeedInductive, [FeedNext]_feedVars
  PROVE  FeedInductive'
<1>1. CASE FeedNext
  <2>1. CASE PutsOnAir
    BY <2>1, PutsOnAirKeeps
  <2>2. CASE TakesOffAir
    BY <2>2, TakesOffAirKeeps
  <2>3. ASSUME NEW l \in Lectures, Unclears(l) \/ Clears(l)
        PROVE  FeedInductive'
    BY <2>3, UnclearsKeeps, ClearsKeeps
  <2>4. ASSUME NEW h \in Hosts, Renames(h)
        PROVE  FeedInductive'
    BY <2>4, RenamesKeeps
  <2>5. ASSUME NEW k \in DOMAIN StartsOf, NEW l \in Lectures, NEW t \in Times \cup {NotPlaced},
               EditsPlacement(k, l, t)
        PROVE  FeedInductive'
    BY <2>5, EditsPlacementKeeps
  <2>6. ASSUME NEW q \in Queries(Collections \cup Pages), NEW goesOn \in BOOLEAN, RequestsPage(q, goesOn)
        PROVE  FeedInductive'
    BY <2>6, RequestsPageKeeps DEF AllQueries
  <2>7. ASSUME NEW mainTrack \in BOOLEAN, ReadsPublication(mainTrack)
        PROVE  FeedInductive'
    BY <2>7, ReadsPublicationKeeps
  <2>8. CASE ReadsSessions
    BY <2>8, ReadsSessionsKeeps
  <2>9. CASE ReadsSpeakers
    BY <2>9, ReadsSpeakersKeeps
  <2>10. CASE AnswersPage
    BY <2>10, AnswersPageKeeps
  <2>11. CASE AnswersProgram
    BY <2>11, AnswersProgramKeeps
  <2> QED BY <1>1, <2>1, <2>2, <2>3, <2>4, <2>6, <2>7, <2>8, <2>9, <2>10, <2>11, <2>5 DEF FeedNext
<1>2. CASE UNCHANGED feedVars
  <2>1. onAir' = onAir /\ starts' = starts /\ cleared' = cleared /\ surname' = surname /\ edits' = edits /\ reader' = reader
    BY <1>2 DEF feedVars
  <2> QED BY <2>1, ReaderStays DEF FeedInductive, FeedTyped
<1> QED BY <1>1, <1>2

\* The inductive invariant of the public reader.
THEOREM FeedInvariance == FeedSpec => []FeedInductive
<1>1. FeedInit => FeedInductive
  BY FeedBegins
<1>2. FeedInductive /\ [FeedNext]_feedVars => FeedInductive'
  BY FeedSteps
<1> QED BY <1>1, <1>2, PTL DEF FeedSpec

\* What the invariant says of one state.
LEMMA FeedIsSafe ==
  ASSUME FeedInductive
  PROVE  FeedSafe
<1>1. FeedTypeOK
  BY DEF FeedInductive, FeedTyped, FeedTypeOK, ReaderType, CopyType, AllQueries
<1>2. FeedIsOfOneRevision
  BY DEF FeedInductive, OfOneRevision, FeedIsOfOneRevision
<1>3. PagesAreWhole
  BY DEF FeedInductive, ListingHolds
<1> QED BY <1>1, <1>2, <1>3 DEF FeedSafe

\* FeedSafe in every state of the reader.
THEOREM FeedIsWhole == FeedSpec => []FeedSafe
<1>1. FeedInductive => FeedSafe
  BY FeedIsSafe
<1> QED BY <1>1, FeedInvariance, PTL

\* FeedSafe in every state of the program.
THEOREM ProgramKeepsFeed == ProgramSpec => []FeedHolds
<1>1. ProgramInit => FeedInit
  BY DEF ProgramInit
<1>2. [ProgramNext]_<<vars, attendeeVars, feedVars, side>> => [FeedNext]_feedVars
  BY DEF ProgramNext
<1>3. ProgramSpec => FeedSpec
  BY <1>1, <1>2, PTL DEF ProgramSpec, FeedSpec
<1>4. FeedSafe => FeedHolds
  BY DEF FeedHolds
<1> QED BY <1>3, <1>4, FeedIsWhole, PTL
=============================================================================
