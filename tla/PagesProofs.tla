---------------------------- MODULE PagesProofs -----------------------------
(***************************************************************************)
(* Proofs about the pages of the web application (ContentDesk,             *)
(* WorkPages), for every set of rows, items and views and every bound,     *)
(* and about the services that are composed of them (MCServices).          *)
(***************************************************************************)
EXTENDS MCServices, FiniteSetTheorems, TLAPS

-----------------------------------------------------------------------------
(***************************************************************************)
(* ContentDesk: the organizer's files page.                                *)
(***************************************************************************)

DeskContents == [id : DeskRecords, version : Nat]

\* A request in flight.  A save submits a text that its author typed at the version the
\* save is over.
CallFits(c) ==
  \/ c \in [n : Nat, kind : {"load", "post"}, row : Rows \cup {NoRow}, stage : {"sent"}]
  \/ /\ c \in [n : Nat, kind : {"open"}, row : Rows, stage : {"sent"},
               got : [Forms -> DeskContents \cup {NoContent, NotYet}]]
     /\ \A f \in Forms : c.got[f] = NotYet => RecordOf(f, c.row) # NoRecord
  \/ /\ c \in [n : Nat, kind : {"save"}, stage : {"sent", "done", "failed"}, form : Forms,
               record : DeskRecords, over : Nat, text : DeskContents]
     /\ c.text.version = c.over
  \/ c \in [n : Nat, kind : {"approve", "restore"}, stage : {"sent", "done", "failed"},
            form : Forms, record : DeskRecords, over : Nat]

DeskTyped ==
  /\ stored \in [DeskRecords -> Nat]
  /\ selected \in Rows \cup {NoRow}
  /\ shown \in [Forms -> DeskContents \cup {NoContent}]
  /\ typed \in [Forms -> DeskContents \cup {NoText}]
  /\ list \in [loading : BOOLEAN, failed : BOOLEAN]
  /\ clicked \in Nat /\ elsewhere \in Nat /\ calm \in BOOLEAN
  /\ \A c \in calls : CallFits(c)

\* The newest content of a row, and of the selected one.
Newest(pane, row) ==
  IF RecordOf(pane, row) = NoRecord THEN NoContent
  ELSE [id |-> RecordOf(pane, row), version |-> stored[RecordOf(pane, row)]]
Fresh(pane) == selected # NoRow => shown[pane] = Newest(pane, selected)

\* What is so while the only request is under way.
Awaited(c) ==
  /\ c.kind \in {"load", "post"} => \A pane \in Forms : Fresh(pane)
  /\ c.kind = "open" => /\ selected = c.row
                        /\ \A pane \in Forms : c.got[pane] \in {NotYet, Newest(pane, c.row)}
  /\ c.kind \in {"save", "approve", "restore"} =>
       /\ c.stage # "failed"
       /\ \A pane \in Forms \ {c.form} : Fresh(pane)
       /\ selected # NoRow => c.record = RecordOf(c.form, selected)
       /\ c.stage = "sent" => Fresh(c.form)
       /\ selected # NoRow =>
            stored[c.record] = IF c.stage = "sent" THEN c.over ELSE VersionAfter(c.over)

Undisturbed ==
  calm => /\ \A c, d \in calls : c = d
          /\ \A c \in calls : Awaited(c)
          /\ calls = {} => \A pane \in Forms : Fresh(pane)

DeskInductive == DeskTyped /\ TypedAtShownVersion /\ WrittenOverSeen /\ Undisturbed

-----------------------------------------------------------------------------
(* What is known of the constants, and of any state.                       *)

\* The records of the rows: no session is a speaker.
LEMMA RecordFacts ==
  /\ \A f \in Forms, r \in Rows : RecordOf(f, r) \in DeskRecords \cup {NoRecord}
  /\ \A r \in Rows : SpeakerOf[r] \in DeskRecords /\ RecordOf("speaker", r) = SpeakerOf[r]
  /\ \A f, g \in Forms, r \in Rows :
       f # g /\ RecordOf(f, r) # NoRecord => RecordOf(f, r) # RecordOf(g, r)
  /\ NoRecord \notin DeskRecords /\ "unread" \notin DeskRecords
  /\ NoContent \notin DeskContents /\ NotYet \notin DeskContents \cup {NoContent}
  /\ NoRow \notin Rows /\ Forms = {"session", "speaker"}
<1>1. \A f \in Forms, r \in Rows : RecordOf(f, r) \in DeskRecords \cup {NoRecord}
  BY DEF DeskRecords
<1>2. \A r \in Rows : RecordOf("speaker", r) = SpeakerOf[r] /\ SpeakerOf[r] # NoRecord
  BY ContentDeskAssumption DEF RecordOf
<1>3. \A r \in Rows : SpeakerOf[r] \in DeskRecords
  BY <1>1, <1>2 DEF Forms
<1>4. \A f \in Forms, r \in Rows : RecordOf(f, r) # "unread"
  BY ContentDeskAssumption DEF RecordOf, Forms
<1>5. NoRecord \notin DeskRecords /\ "unread" \notin DeskRecords
  <2>1. ASSUME "unread" \in DeskRecords
        PROVE  FALSE
    <3>1. PICK f \in Forms, r \in Rows : "unread" = RecordOf(f, r)
      BY <2>1 DEF DeskRecords
    <3> QED BY <1>4, <3>1
  <2> QED BY <2>1 DEF DeskRecords
<1>6. NoContent \notin DeskContents /\ NotYet \notin DeskContents
  BY <1>5 DEF NoContent, NotYet, DeskContents
<1>7. \A f, g \in Forms, r \in Rows :
       f # g /\ RecordOf(f, r) # NoRecord => RecordOf(f, r) # RecordOf(g, r)
  <2>1. \A r \in Rows : SessionOf[r] # SpeakerOf[r]
    BY ContentDeskAssumption
  <2>2. \A r \in Rows : RecordOf("session", r) # RecordOf("speaker", r)
    BY <2>1 DEF RecordOf
  <2> QED BY <2>2 DEF Forms
<1>8. NotYet # NoContent
  BY ContentDeskAssumption DEF NoContent, NotYet
<1> QED BY <1>1, <1>2, <1>3, <1>5, <1>6, <1>7, <1>8, ContentDeskAssumption DEF Forms

\* The versions that follow a version.
LEMMA AfterIsNat == ASSUME NEW v \in Nat PROVE VersionAfter(v) \in Nat
BY DEF VersionAfter

\* The newest content has a type.
LEMMA NewestTyped ==
  ASSUME DeskTyped, NEW f \in Forms, NEW r \in Rows
  PROVE  Newest(f, r) \in DeskContents \cup {NoContent}
<1>1. RecordOf(f, r) \in DeskRecords \cup {NoRecord} /\ stored \in [DeskRecords -> Nat]
  BY RecordFacts DEF DeskTyped
<1> QED BY <1>1 DEF Newest, DeskContents

\* Undisturbed, a request is alone.
LEMMA CalmIsAlone ==
  ASSUME DeskInductive, NEW msg \in calls, calm
  PROVE  calls = {msg} /\ Awaited(msg)
BY DEF DeskInductive, Undisturbed

\* A request that goes on.
LEMMA ReplacesKeep ==
  ASSUME DeskInductive, NEW msg \in calls, NEW next, Replaces(msg, next), CallFits(next),
         calm' => calm /\ Awaited(next)'
  PROVE  Undisturbed' /\ \A c \in calls' : CallFits(c)
<1>1. \A c \in calls' : CallFits(c)
  BY DEF Replaces, DeskInductive, DeskTyped
<1>2. calm' => calls' = {next}
  BY CalmIsAlone DEF Replaces
<1> QED BY <1>1, <1>2 DEF Undisturbed

\* A request that ends.
LEMMA RemovesKeep ==
  ASSUME DeskInductive, NEW msg \in calls, calls' = calls \ {msg},
         calm' => calm /\ \A f \in Forms : Fresh(f)'
  PROVE  Undisturbed' /\ \A c \in calls' : CallFits(c)
<1>1. \A c \in calls' : CallFits(c)
  BY DEF DeskInductive, DeskTyped
<1>2. calm' => calls' = {}
  BY CalmIsAlone
<1> QED BY <1>1, <1>2 DEF Undisturbed

\* What is shown stays the newest while nothing of it moves.
LEMMA FreshStays ==
  ASSUME UNCHANGED <<selected, shown, stored>>
  PROVE  \A f : Fresh(f)' <=> Fresh(f)
BY DEF Fresh, Newest

-----------------------------------------------------------------------------
(* The organizer.                                                          *)

\* A click that sends a request.
LEMMA ClickKeeps ==
  ASSUME DeskInductive, NEW msg, NEW d, d = [msg EXCEPT !.n = clicked + 1], ClicksWith(msg),
         UNCHANGED <<stored, written, shown, typed, list, elsewhere>>,
         selected' \in Rows \cup {NoRow}, CallFits(d),
         calm /\ (\A f \in Forms : Fresh(f)) => Awaited(d)'
  PROVE  DeskInductive'
<1>1. /\ clicked' = clicked + 1 /\ calls' = calls \cup {d} /\ calm' = (calm /\ calls = {})
  BY DEF ClicksWith
<1>2. DeskTyped /\ TypedAtShownVersion /\ WrittenOverSeen /\ Undisturbed
  BY DEF DeskInductive
<1>3. DeskTyped'
  BY <1>1, <1>2 DEF DeskTyped
<1>4. TypedAtShownVersion' /\ WrittenOverSeen'
  BY <1>2 DEF TypedAtShownVersion, Mounted, WrittenOverSeen
<1>5. Undisturbed'
  <2> SUFFICES ASSUME calm'
               PROVE  calls' = {d} /\ Awaited(d)'
    BY DEF Undisturbed
  <2>1. calm /\ calls = {}
    BY <1>1
  <2> QED BY <1>1, <1>2, <2>1 DEF Undisturbed
<1> QED BY <1>3, <1>4, <1>5 DEF DeskInductive

\* What a page asks for when a row is opened.
LEMMA OpenFits ==
  ASSUME NEW row \in Rows, NEW m \in Nat, NEW d, d = [OpenCall(row) EXCEPT !.n = m]
  PROVE  /\ CallFits(d) /\ d.kind = "open"
         /\ selected' = row => Awaited(d)'
<1>1. PICK g : g = [f \in Forms |-> IF RecordOf(f, row) = NoRecord THEN NoContent ELSE NotYet]
  OBVIOUS
<1>2. OpenCall(row) = [n |-> 0, kind |-> "open", row |-> row, stage |-> "sent", got |-> g]
  BY <1>1, Zenon DEF OpenCall
<1>3. d = [n |-> m, kind |-> "open", row |-> row, stage |-> "sent", got |-> g]
  BY <1>2
<1>4. /\ d.kind = "open" /\ d.row = row /\ d.got = g
      /\ d \in [n : Nat, kind : {"open"}, row : Rows, stage : {"sent"},
                got : [Forms -> DeskContents \cup {NoContent, NotYet}]]
  <2>1. PICK G : G = [Forms -> DeskContents \cup {NoContent, NotYet}]
    OBVIOUS
  <2>2. g \in G
    BY <1>1, <2>1
  <2>3. d \in [n : Nat, kind : {"open"}, row : Rows, stage : {"sent"}, got : G]
    <3>1. [n |-> m, kind |-> "open", row |-> row, stage |-> "sent", got |-> g]
            \in [n : Nat, kind : {"open"}, row : Rows, stage : {"sent"}, got : G]
      BY <2>2
    <3> QED BY <1>3, <3>1, Zenon
  <2>4. d.kind = "open" /\ d.row = row /\ d.got = g
    BY <1>3
  <2> QED BY <2>1, <2>3, <2>4
<1>5. \A f \in Forms : g[f] = NotYet => RecordOf(f, row) # NoRecord
  <2>1. NoContent # NotYet
    BY ContentDeskAssumption DEF NoContent, NotYet
  <2> QED BY <1>1, <2>1
<1>6. CallFits(d)
  BY <1>4, <1>5 DEF CallFits
<1>7. \A f \in Forms : g[f] \in {NotYet, Newest(f, row)'}
  BY <1>1 DEF Newest
<1> QED BY <1>4, <1>6, <1>7 DEF Awaited

\* The row that is opened.
LEMMA OpenContentKeeps ==
  ASSUME DeskInductive, NEW row \in Rows, OpenContent(row)
  PROVE  DeskInductive'
<1>1. clicked \in Nat
  BY DEF DeskInductive, DeskTyped
<1>2. PICK m : m = clicked + 1
  OBVIOUS
<1>3. PICK d : d = [OpenCall(row) EXCEPT !.n = m]
  OBVIOUS
<1>4. /\ ClicksWith(OpenCall(row)) /\ selected' = row
      /\ UNCHANGED <<stored, written, shown, typed, list, elsewhere>>
  BY DEF OpenContent
<1>5. CallFits(d) /\ Awaited(d)'
  BY <1>1, <1>2, <1>3, <1>4, OpenFits
<1> QED BY <1>2, <1>3, <1>4, <1>5, ClickKeeps

\* Typing.
LEMMA TypesIntoKeeps ==
  ASSUME DeskInductive, NEW pane \in Forms, TypesInto(pane)
  PROVE  DeskInductive'
<1>1. /\ Mounted /\ shown[pane] # NoContent /\ typed' = [typed EXCEPT ![pane] = shown[pane]]
      /\ UNCHANGED <<stored, written, selected, shown, list, calls, clicked, elsewhere, calm>>
  BY DEF TypesInto
<1>2. DeskTyped /\ TypedAtShownVersion /\ WrittenOverSeen /\ Undisturbed
  BY DEF DeskInductive
<1>3. DeskTyped'
  BY <1>1, <1>2 DEF DeskTyped, NoText
<1>4. TypedAtShownVersion'
  BY <1>1, <1>2 DEF DeskTyped, TypedAtShownVersion, Mounted
<1>5. WrittenOverSeen' /\ Undisturbed'
  BY <1>1, <1>2 DEF WrittenOverSeen, Undisturbed, Awaited, Fresh, Newest
<1> QED BY <1>3, <1>4, <1>5 DEF DeskInductive

\* What a form submits is at the version it shows.
LEMMA TextFits ==
  ASSUME DeskInductive, NEW pane \in Forms, shown[pane] # NoContent
  PROVE  /\ TextOf(pane) \in DeskContents /\ TextOf(pane).version = shown[pane].version
         /\ shown[pane] \in DeskContents /\ shown[pane].version \in Nat /\ shown[pane].id \in DeskRecords
<1>1. DeskTyped /\ TypedAtShownVersion
  BY DEF DeskInductive
<1>2. shown[pane] \in DeskContents
  BY <1>1 DEF DeskTyped
<1>3. TextOf(pane) \in DeskContents /\ TextOf(pane).version = shown[pane].version
  BY <1>1, <1>2 DEF DeskTyped, TypedAtShownVersion, TextOf
<1> QED BY <1>2, <1>3 DEF DeskContents

\* What Fresh says of a form that shows something.
LEMMA FreshShows ==
  ASSUME DeskInductive, NEW pane \in Forms, shown[pane] # NoContent, Fresh(pane), selected # NoRow
  PROVE  /\ shown[pane].id = RecordOf(pane, selected)
         /\ shown[pane].version = stored[RecordOf(pane, selected)]
BY DEF Fresh, Newest

\* A save, an approval or a restoration is sent.
LEMMA SendsContentKeeps ==
  ASSUME DeskInductive, SaveSession \/ SaveSpeaker \/ ApproveSession \/ RestoreSession
  PROVE  DeskInductive'
<1>1. DeskTyped /\ clicked \in Nat
  BY DEF DeskInductive, DeskTyped
<1>2. ASSUME NEW pane \in Forms, NEW record \in DeskRecords, shown[pane] # NoContent,
             ClicksWith(SaveCall(pane, record)),
             selected # NoRow /\ Fresh(pane) => record = RecordOf(pane, selected),
             UNCHANGED <<stored, written, selected, shown, typed, list, elsewhere>>
      PROVE  DeskInductive'
  <2>1. PICK v, x : v = shown[pane].version /\ x = TextOf(pane)
    OBVIOUS
  <2>2. PICK d : d = [n |-> clicked + 1, kind |-> "save", stage |-> "sent", form |-> pane,
                      record |-> record, over |-> v, text |-> x]
    OBVIOUS
  <2>3. d = [SaveCall(pane, record) EXCEPT !.n = clicked + 1]
    BY <2>1, <2>2 DEF SaveCall
  <2>4. v \in Nat /\ x \in DeskContents /\ x.version = v
    BY <1>2, <2>1, TextFits
  <2>5. CallFits(d)
    <3>1. /\ d \in [n : Nat, kind : {"save"}, stage : {"sent", "done", "failed"}, form : Forms,
                    record : DeskRecords, over : Nat, text : DeskContents]
          /\ d.text.version = d.over
      BY <1>1, <2>2, <2>4
    <3> QED BY <3>1 DEF CallFits
  <2>6. (\A f \in Forms : Fresh(f)) => Awaited(d)'
    <3> SUFFICES ASSUME \A f \in Forms : Fresh(f)
                 PROVE  Awaited(d)'
      OBVIOUS
    <3>1. \A f \in Forms : Fresh(f)'
      BY <1>2, FreshStays
    <3>2. selected # NoRow => record = RecordOf(pane, selected) /\ stored[record] = v
      BY <1>2, <2>1, FreshShows
    <3>3. d.kind = "save" /\ d.stage = "sent" /\ d.form = pane /\ d.record = record /\ d.over = v
      BY <2>2
    <3> QED BY <1>2, <3>1, <3>2, <3>3 DEF Awaited
  <2> QED BY <1>1, <1>2, <2>3, <2>5, <2>6, ClickKeeps DEF DeskTyped
<1>3. ASSUME NEW kind \in {"approve", "restore"}, shown["session"] # NoContent,
             ClicksWith(StatusCall(kind)),
             UNCHANGED <<stored, written, selected, shown, typed, list, elsewhere>>
      PROVE  DeskInductive'
  <2>1. PICK v, r : v = shown["session"].version /\ r = shown["session"].id
    OBVIOUS
  <2>2. PICK d : d = [n |-> clicked + 1, kind |-> kind, stage |-> "sent", form |-> "session",
                      record |-> r, over |-> v]
    OBVIOUS
  <2>3. d = [StatusCall(kind) EXCEPT !.n = clicked + 1]
    BY <2>1, <2>2 DEF StatusCall
  <2>4. v \in Nat /\ r \in DeskRecords /\ "session" \in Forms
    BY <1>3, <2>1, TextFits DEF Forms
  <2>5. CallFits(d)
    <3>1. d \in [n : Nat, kind : {"approve", "restore"}, stage : {"sent", "done", "failed"},
                 form : Forms, record : DeskRecords, over : Nat]
      BY <1>1, <2>2, <2>4
    <3> QED BY <3>1 DEF CallFits
  <2>6. (\A f \in Forms : Fresh(f)) => Awaited(d)'
    <3> SUFFICES ASSUME \A f \in Forms : Fresh(f)
                 PROVE  Awaited(d)'
      OBVIOUS
    <3>1. \A f \in Forms : Fresh(f)'
      BY <1>3, FreshStays
    <3>2. selected # NoRow => r = RecordOf("session", selected) /\ stored[r] = v
      BY <1>3, <2>1, <2>4, FreshShows
    <3>3. /\ d.kind \notin {"load", "post", "open"}
          /\ d.stage = "sent" /\ d.form = "session" /\ d.record = r /\ d.over = v
      BY <2>2
    <3> QED BY <1>3, <2>4, <3>1, <3>2, <3>3 DEF Awaited
  <2> QED BY <1>1, <1>3, <2>3, <2>5, <2>6, ClickKeeps DEF DeskTyped
<1>4. CASE SaveSession
  <2>1. PICK r : r = shown["session"].id
    OBVIOUS
  <2>2. r \in DeskRecords /\ "session" \in Forms
    BY <1>4, <2>1, TextFits DEF SaveSession, Forms
  <2>3. selected # NoRow /\ Fresh("session") => r = RecordOf("session", selected)
    BY <1>4, <2>1, <2>2, FreshShows DEF SaveSession
  <2> QED BY <1>2, <1>4, <2>1, <2>2, <2>3 DEF SaveSession
<1>5. CASE SaveSpeaker
  <2>1. PICK r : r = SpeakerOf[selected]
    OBVIOUS
  <2>2. r \in DeskRecords /\ RecordOf("speaker", selected) = r /\ "speaker" \in Forms
    BY <1>1, <1>5, <2>1, RecordFacts DEF SaveSpeaker, DeskTyped
  <2> QED BY <1>2, <1>5, <2>1, <2>2 DEF SaveSpeaker
<1> QED BY <1>3, <1>4, <1>5 DEF ApproveSession, RestoreSession

\* A request that touches no content.
LEMMA PostsKeep ==
  ASSUME DeskInductive, CreateRequest \/ Comment \/ Review \/ RequestExport \/ UploadHeadshot
  PROVE  DeskInductive'
<1>1. clicked \in Nat /\ selected \in Rows \cup {NoRow}
  BY DEF DeskInductive, DeskTyped
<1>2. PICK row \in Rows \cup {NoRow} : Posts(row)
  BY <1>1 DEF CreateRequest, Comment, Review, RequestExport, UploadHeadshot
<1>3. PICK msg, d : /\ msg = [n |-> 0, kind |-> "post", row |-> row, stage |-> "sent"]
                     /\ d = [n |-> clicked + 1, kind |-> "post", row |-> row, stage |-> "sent"]
  OBVIOUS
<1>4. /\ ClicksWith(msg)
      /\ UNCHANGED <<stored, written, selected, shown, typed, list, elsewhere>>
  BY <1>2, <1>3 DEF Posts
<1>5. d = [msg EXCEPT !.n = clicked + 1] /\ d.kind = "post"
  BY <1>3
<1>6. CallFits(d)
  BY <1>1, <1>3 DEF CallFits
<1>7. (\A f \in Forms : Fresh(f)) => Awaited(d)'
  BY <1>4, <1>5, FreshStays DEF Awaited
<1> QED BY <1>1, <1>4, <1>5, <1>6, <1>7, ClickKeeps

\* A load that failed is asked for again.
LEMMA RetriesLoadKeeps ==
  ASSUME DeskInductive, RetriesLoad
  PROVE  DeskInductive'
<1>1. PICK d : d = [n |-> clicked + 1, kind |-> "load", row |-> NoRow, stage |-> "sent"]
  OBVIOUS
<1>2. /\ clicked' = clicked + 1 /\ calls' = calls \cup {d} /\ calm' = (calm /\ calls = {})
      /\ list' = [loading |-> TRUE, failed |-> FALSE]
      /\ typed' = [f \in Forms |-> NoText]
      /\ UNCHANGED <<stored, written, selected, shown, elsewhere>>
  BY <1>1 DEF RetriesLoad, LoadCall, BeginsLoad
<1>3. DeskTyped /\ WrittenOverSeen /\ Undisturbed
  BY DEF DeskInductive
<1>4. clicked \in Nat /\ d.kind = "load" /\ CallFits(d)
  BY <1>1, <1>3 DEF DeskTyped, CallFits
<1>5. DeskTyped'
  BY <1>2, <1>3, <1>4 DEF DeskTyped
<1>6. TypedAtShownVersion' /\ WrittenOverSeen'
  BY <1>2, <1>3 DEF TypedAtShownVersion, WrittenOverSeen
<1>7. Undisturbed'
  <2> SUFFICES ASSUME calm'
               PROVE  calls' = {d} /\ Awaited(d)'
    BY DEF Undisturbed
  <2>1. calm /\ calls = {}
    BY <1>2
  <2>2. \A f \in Forms : Fresh(f)'
    BY <1>2, <1>3, <2>1, FreshStays DEF Undisturbed
  <2> QED BY <1>2, <1>4, <2>1, <2>2 DEF Awaited
<1> QED BY <1>5, <1>6, <1>7 DEF DeskInductive

-----------------------------------------------------------------------------
(* The server.                                                             *)

\* One of the two reads behind an opened row.
LEMMA ReadsContentKeeps ==
  ASSUME DeskInductive, NEW msg \in calls, NEW pane \in Forms, ReadsContent(msg, pane)
  PROVE  DeskInductive'
<1>1. DeskTyped /\ CallFits(msg) /\ TypedAtShownVersion /\ WrittenOverSeen
  BY DEF DeskInductive, DeskTyped
<1>2. /\ msg.kind = "open" /\ msg.got[pane] = NotYet
      /\ UNCHANGED <<stored, written, selected, shown, typed, list, clicked, elsewhere, calm>>
  BY DEF ReadsContent
<1>3. msg \in [n : Nat, kind : {"open"}, row : Rows, stage : {"sent"},
                got : [Forms -> DeskContents \cup {NoContent, NotYet}]]
  BY <1>1, <1>2 DEF CallFits
<1>4. PICK x : x = [id |-> RecordOf(pane, msg.row), version |-> stored[RecordOf(pane, msg.row)]]
  OBVIOUS
<1>5. PICK g : g = [msg.got EXCEPT ![pane] = x]
  OBVIOUS
<1>6. PICK next : next = [msg EXCEPT !.got = g]
  OBVIOUS
<1>7. Replaces(msg, next)
  <2>1. Replaces(msg, [msg EXCEPT !.got[pane] = x])
    BY <1>4, Zenon DEF ReadsContent
  <2> QED BY <1>5, <1>6, <2>1
<1>8. PICK r : r = RecordOf(pane, msg.row) /\ r \in DeskRecords
  <2>1. RecordOf(pane, msg.row) # NoRecord /\ msg.row \in Rows
    BY <1>1, <1>2, <1>3 DEF CallFits
  <2> QED BY <2>1, RecordFacts
<1>9. x \in DeskContents /\ x = Newest(pane, msg.row)
  <2>1. stored[r] \in Nat /\ r # NoRecord
    BY <1>1, <1>8, RecordFacts DEF DeskTyped
  <2> QED BY <1>4, <1>8, <2>1 DEF DeskContents, Newest
<1>10. /\ g \in [Forms -> DeskContents \cup {NoContent, NotYet}] /\ g[pane] = x
       /\ \A f \in Forms : f # pane => g[f] = msg.got[f]
  BY <1>3, <1>5, <1>9
<1>11. /\ next.kind = "open" /\ next.row = msg.row /\ next.got = g
       /\ next \in [n : Nat, kind : {"open"}, row : Rows, stage : {"sent"},
                    got : [Forms -> DeskContents \cup {NoContent, NotYet}]]
  BY <1>3, <1>6, <1>10
<1>12. CallFits(next)
  <2>1. \A f \in Forms : msg.got[f] = NotYet => RecordOf(f, msg.row) # NoRecord
    BY <1>1, <1>2 DEF CallFits
  <2>2. \A f \in Forms : g[f] = NotYet => RecordOf(f, msg.row) # NoRecord
    BY <1>8, <1>10, <2>1, RecordFacts
  <2> QED BY <1>11, <2>2 DEF CallFits
<1>13. calm' => calm /\ Awaited(next)'
  <2> SUFFICES ASSUME calm
               PROVE  Awaited(next)'
    BY <1>2
  <2>1. selected = msg.row /\ \A f \in Forms : msg.got[f] \in {NotYet, Newest(f, msg.row)}
    BY <1>2, CalmIsAlone DEF Awaited
  <2>2. \A f \in Forms : Newest(f, msg.row)' = Newest(f, msg.row)
    BY <1>2 DEF Newest
  <2>3. \A f \in Forms : g[f] \in {NotYet, Newest(f, msg.row)'}
    BY <1>9, <1>10, <2>1, <2>2
  <2> QED BY <1>2, <1>11, <2>1, <2>3 DEF Awaited
<1>14. Undisturbed' /\ \A c \in calls' : CallFits(c)
  BY <1>7, <1>12, <1>13, ReplacesKeep
<1>15. DeskTyped' /\ TypedAtShownVersion' /\ WrittenOverSeen'
  BY <1>1, <1>2, <1>14 DEF DeskTyped, TypedAtShownVersion, Mounted, WrittenOverSeen
<1> QED BY <1>14, <1>15 DEF DeskInductive

\* A save, an approval or a restoration is stored or refused.
LEMMA StoresContentKeeps ==
  ASSUME DeskInductive, NEW msg \in calls, StoresContent(msg)
  PROVE  DeskInductive'
<1>1. DeskTyped /\ CallFits(msg) /\ TypedAtShownVersion /\ WrittenOverSeen
  BY DEF DeskInductive, DeskTyped
<1>2. /\ msg.kind \in {"save", "approve", "restore"} /\ msg.stage = "sent"
      /\ UNCHANGED <<selected, shown, typed, list, clicked, elsewhere>>
  BY DEF StoresContent
<1>3. /\ msg.form \in Forms /\ msg.record \in DeskRecords /\ msg.over \in Nat
      /\ msg.kind = "save" => msg.text.version = msg.over
  BY <1>1, <1>2 DEF CallFits
<1>4. ASSUME NEW s \in {"done", "failed"}
      PROVE  /\ CallFits([msg EXCEPT !.stage = s]) /\ [msg EXCEPT !.stage = s].stage = s
             /\ [msg EXCEPT !.stage = s].kind = msg.kind
             /\ [msg EXCEPT !.stage = s].form = msg.form
             /\ [msg EXCEPT !.stage = s].record = msg.record
             /\ [msg EXCEPT !.stage = s].over = msg.over
  <2>1. CASE /\ msg \in [n : Nat, kind : {"save"}, stage : {"sent", "done", "failed"}, form : Forms,
                          record : DeskRecords, over : Nat, text : DeskContents]
             /\ msg.text.version = msg.over
    BY <1>2, <2>1 DEF CallFits
  <2>2. CASE msg \in [n : Nat, kind : {"approve", "restore"}, stage : {"sent", "done", "failed"},
                       form : Forms, record : DeskRecords, over : Nat]
    BY <1>2, <2>2 DEF CallFits
  <2> QED BY <1>1, <1>2, <2>1, <2>2 DEF CallFits
<1>5. CASE stored[msg.record] = msg.over
  <2>1. PICK next : next = [msg EXCEPT !.stage = "done"]
    OBVIOUS
  <2>2. /\ CallFits(next) /\ next.stage = "done" /\ next.kind = msg.kind /\ next.form = msg.form
        /\ next.record = msg.record /\ next.over = msg.over
    BY <1>4, <2>1
  <2>3. /\ stored' = [stored EXCEPT ![msg.record] = VersionAfter(@)]
        /\ Replaces(msg, next) /\ calm' = calm
        /\ \A save \in written' : save \in written \/ save.text.version = save.over
    <3>1. /\ stored' = [stored EXCEPT ![msg.record] = VersionAfter(@)]
          /\ Replaces(msg, next) /\ calm' = calm
      BY <1>5, <2>1 DEF StoresContent
    <3>2. CASE msg.kind = "save"
      <4>1. PICK w : w = [record |-> msg.record, over |-> msg.over, text |-> msg.text]
        OBVIOUS
      <4>2. written' = written \cup {w}
        BY <1>5, <3>2, <4>1 DEF StoresContent
      <4>3. w.text.version = w.over
        BY <1>3, <3>2, <4>1
      <4> QED BY <3>1, <4>2, <4>3
    <3>3. CASE msg.kind # "save"
      <4>1. written' = written
        BY <1>5, <3>3 DEF StoresContent
      <4> QED BY <3>1, <4>1
    <3> QED BY <3>2, <3>3
  <2>4. stored' \in [DeskRecords -> Nat] /\ stored'[msg.record] = VersionAfter(msg.over)
        /\ \A r \in DeskRecords : r # msg.record => stored'[r] = stored[r]
    BY <1>1, <1>3, <1>5, <2>3, AfterIsNat DEF DeskTyped
  <2>5. calm' => calm /\ Awaited(next)'
    <3> SUFFICES ASSUME calm
                 PROVE  Awaited(next)'
      BY <2>3
    <3>1. Awaited(msg)
      BY CalmIsAlone
    <3>2. ASSUME NEW f \in Forms \ {msg.form}, selected # NoRow
          PROVE  shown[f] = Newest(f, selected)'
      <4>1. shown[f] = Newest(f, selected) /\ msg.record = RecordOf(msg.form, selected)
        BY <1>2, <3>1, <3>2 DEF Awaited, Fresh
      <4>2. selected \in Rows
        BY <1>1, <3>2 DEF DeskTyped
      <4>3. RecordOf(f, selected) # msg.record
        BY <1>3, <4>1, <4>2, RecordFacts
      <4>4. RecordOf(f, selected) \in DeskRecords \cup {NoRecord}
        BY <4>2, RecordFacts
      <4> QED BY <1>2, <2>4, <4>1, <4>3, <4>4 DEF Newest
    <3>3. \A f \in Forms \ {next.form} : Fresh(f)'
      BY <1>2, <2>2, <3>2 DEF Fresh
    <3>4. selected # NoRow => msg.record = RecordOf(msg.form, selected)
      BY <1>2, <3>1 DEF Awaited
    <3> QED BY <1>2, <2>2, <2>4, <3>3, <3>4 DEF Awaited
  <2>6. Undisturbed' /\ \A c \in calls' : CallFits(c)
    BY <2>2, <2>3, <2>5, ReplacesKeep
  <2>7. DeskTyped' /\ TypedAtShownVersion' /\ WrittenOverSeen'
    BY <1>1, <1>2, <2>3, <2>4, <2>6 DEF DeskTyped, TypedAtShownVersion, Mounted, WrittenOverSeen
  <2> QED BY <2>6, <2>7 DEF DeskInductive
<1>6. CASE stored[msg.record] # msg.over
  <2>1. PICK next : next = [msg EXCEPT !.stage = "failed"]
    OBVIOUS
  <2>2. Replaces(msg, next) /\ calm' = FALSE /\ UNCHANGED <<stored, written>>
    BY <1>6, <2>1 DEF StoresContent
  <2>3. CallFits(next)
    BY <1>4, <2>1
  <2>4. Undisturbed' /\ \A c \in calls' : CallFits(c)
    BY <2>2, <2>3, ReplacesKeep
  <2>5. DeskTyped' /\ TypedAtShownVersion' /\ WrittenOverSeen'
    BY <1>1, <1>2, <2>2, <2>4 DEF DeskTyped, TypedAtShownVersion, Mounted, WrittenOverSeen
  <2> QED BY <2>4, <2>5 DEF DeskInductive
<1> QED BY <1>5, <1>6

\* A save elsewhere.
LEMMA SavesElsewhereKeeps ==
  ASSUME DeskInductive, NEW record \in DeskRecords, SavesElsewhere(record)
  PROVE  DeskInductive'
<1>1. DeskTyped /\ TypedAtShownVersion /\ WrittenOverSeen
  BY DEF DeskInductive
<1>2. /\ elsewhere' = elsewhere + 1 /\ stored' = [stored EXCEPT ![record] = VersionAfter(@)]
      /\ calm' = FALSE /\ UNCHANGED <<written, selected, shown, typed, list, calls, clicked>>
  BY DEF SavesElsewhere
<1>3. stored' \in [DeskRecords -> Nat]
  <2>1. stored \in [DeskRecords -> Nat] /\ stored[record] \in Nat
    BY <1>1 DEF DeskTyped
  <2>2. PICK v \in Nat : v = VersionAfter(stored[record])
    BY <2>1, AfterIsNat
  <2>3. stored' = [stored EXCEPT ![record] = v]
    BY <1>2, <2>2
  <2> QED BY <2>1, <2>3
<1>4. DeskTyped'
  <2>1. /\ elsewhere' = elsewhere + 1 /\ calm' = FALSE
        /\ UNCHANGED <<selected, shown, typed, list, calls, clicked>>
    BY <1>2
  <2>2. /\ selected \in Rows \cup {NoRow} /\ clicked \in Nat /\ elsewhere + 1 \in Nat
        /\ shown \in [Forms -> DeskContents \cup {NoContent}]
        /\ typed \in [Forms -> DeskContents \cup {NoText}]
        /\ list \in [loading : BOOLEAN, failed : BOOLEAN]
        /\ \A c \in calls : CallFits(c)
    BY <1>1 DEF DeskTyped
  <2> QED BY <1>3, <2>1, <2>2 DEF DeskTyped
<1>5. TypedAtShownVersion' /\ WrittenOverSeen' /\ Undisturbed'
  <2>1. UNCHANGED <<written, shown, typed, list>> /\ calm' = FALSE
    BY <1>2
  <2> QED BY <1>1, <2>1 DEF TypedAtShownVersion, Mounted, WrittenOverSeen, Undisturbed
<1> QED BY <1>4, <1>5 DEF DeskInductive

-----------------------------------------------------------------------------
(* Answers.                                                                *)

\* A form that goes on holding what was typed shows the version it was typed at.
LEMMA KeptFits ==
  ASSUME DeskInductive, NEW content, \A f \in Forms : content[f] \in DeskContents \cup {NoContent},
         UNCHANGED list, shown' = content, typed' = Kept(content)
  PROVE  typed' \in [Forms -> DeskContents \cup {NoText}] /\ TypedAtShownVersion'
<1>1. DeskTyped /\ TypedAtShownVersion
  BY DEF DeskInductive
<1>2. \A f \in Forms : /\ typed'[f] = typed[f] \/ typed'[f] = NoText
                       /\ typed'[f] # NoText => shown[f].version = content[f].version
  BY DEF Kept, SameForm
<1>3. typed' \in [Forms -> DeskContents \cup {NoText}]
  BY <1>1 DEF Kept, DeskTyped
<1>4. TypedAtShownVersion'
  BY <1>1, <1>2 DEF TypedAtShownVersion, Mounted
<1> QED BY <1>3, <1>4

\* The rows leave the page, and what the forms held goes with them.
LEMMA LoadFits ==
  ASSUME BeginsLoad
  PROVE  /\ typed' \in [Forms -> DeskContents \cup {NoText}] /\ TypedAtShownVersion'
         /\ list' \in [loading : BOOLEAN, failed : BOOLEAN]
BY DEF BeginsLoad, TypedAtShownVersion

\* The call of a load.
LEMMA LoadCallFits ==
  ASSUME NEW m \in Nat, NEW row \in Rows \cup {NoRow}
  PROVE  /\ CallFits(LoadCall(m, row)) /\ LoadCall(m, row).kind = "load"
BY DEF LoadCall, CallFits

\* The content of an opened row arrives.
LEMMA AnswersOpenKeeps ==
  ASSUME DeskInductive, NEW msg \in calls, AnswersOpen(msg)
  PROVE  DeskInductive'
<1>1. DeskTyped /\ CallFits(msg) /\ WrittenOverSeen
  BY DEF DeskInductive, DeskTyped
<1>2. /\ msg.kind = "open" /\ \A f \in Forms : msg.got[f] # NotYet
      /\ shown' = msg.got /\ typed' = Kept(msg.got) /\ calls' = calls \ {msg}
      /\ UNCHANGED <<stored, written, selected, list, clicked, elsewhere, calm>>
  BY DEF AnswersOpen
<1>3. msg \in [n : Nat, kind : {"open"}, row : Rows, stage : {"sent"},
                got : [Forms -> DeskContents \cup {NoContent, NotYet}]]
  BY <1>1, <1>2 DEF CallFits
<1>4. msg.got \in [Forms -> DeskContents \cup {NoContent}]
  BY <1>2, <1>3
<1>5. typed' \in [Forms -> DeskContents \cup {NoText}] /\ TypedAtShownVersion'
  BY <1>2, <1>4, KeptFits
<1>6. calm' => calm /\ \A f \in Forms : Fresh(f)'
  <2> SUFFICES ASSUME calm
               PROVE  \A f \in Forms : Fresh(f)'
    BY <1>2
  <2>1. selected = msg.row /\ \A f \in Forms : msg.got[f] \in {NotYet, Newest(f, msg.row)}
    BY <1>2, CalmIsAlone DEF Awaited
  <2>2. \A f \in Forms : Newest(f, msg.row)' = Newest(f, msg.row)
    BY <1>2 DEF Newest
  <2>3. \A f \in Forms : shown'[f] = Newest(f, selected)'
    BY <1>2, <2>1, <2>2
  <2> QED BY <2>3 DEF Fresh
<1>7. Undisturbed' /\ \A c \in calls' : CallFits(c)
  BY <1>2, <1>6, RemovesKeep
<1>8. DeskTyped' /\ WrittenOverSeen'
  BY <1>1, <1>2, <1>4, <1>5, <1>7 DEF DeskTyped, WrittenOverSeen
<1> QED BY <1>5, <1>7, <1>8 DEF DeskInductive

\* The answer of a save, an approval or a restoration is shown.
LEMMA AnswersStoreKeeps ==
  ASSUME DeskInductive, NEW msg \in calls, AnswersStore(msg)
  PROVE  DeskInductive'
<1>1. DeskTyped /\ CallFits(msg) /\ WrittenOverSeen
  BY DEF DeskInductive, DeskTyped
<1>2. PICK x : x = [id |-> msg.record, version |-> VersionAfter(msg.over)]
  OBVIOUS
<1>3. PICK content : content = [shown EXCEPT ![msg.form] = x]
  OBVIOUS
<1>4. /\ msg.kind \in {"save", "approve", "restore"} /\ msg.stage = "done"
      /\ shown' = content
      /\ \/ BeginsLoad /\ Replaces(msg, LoadCall(msg.n, NoRow))
         \/ typed' = Kept(content) /\ calls' = calls \ {msg} /\ UNCHANGED list
      /\ UNCHANGED <<stored, written, selected, clicked, elsewhere, calm>>
  BY <1>2, <1>3 DEF AnswersStore
<1>5. /\ msg.form \in Forms /\ msg.record \in DeskRecords /\ msg.over \in Nat /\ msg.n \in Nat
  BY <1>1, <1>4 DEF CallFits
<1>6. x \in DeskContents
  BY <1>2, <1>5, AfterIsNat DEF DeskContents
<1>7. /\ content \in [Forms -> DeskContents \cup {NoContent}] /\ content[msg.form] = x
      /\ \A f \in Forms : f # msg.form => content[f] = shown[f]
  BY <1>1, <1>3, <1>5, <1>6 DEF DeskTyped
<1>8. calm' => calm /\ \A f \in Forms : Fresh(f)'
  <2> SUFFICES ASSUME calm, selected # NoRow, NEW f \in Forms
               PROVE  shown'[f] = Newest(f, selected)'
    BY <1>4 DEF Fresh
  <2>1. Awaited(msg)
    BY CalmIsAlone
  <2>2. Newest(f, selected)' = Newest(f, selected)
    BY <1>4 DEF Newest
  <2>3. CASE f = msg.form
    <3>1. msg.record = RecordOf(f, selected) /\ stored[msg.record] = VersionAfter(msg.over)
      BY <1>4, <2>1, <2>3 DEF Awaited
    <3>2. msg.record # NoRecord
      BY <1>5, RecordFacts
    <3> QED BY <1>2, <1>4, <1>7, <2>2, <2>3, <3>1, <3>2 DEF Newest
  <2>4. CASE f # msg.form
    <3>1. Fresh(f)
      BY <1>4, <2>1, <2>4 DEF Awaited
    <3> QED BY <1>4, <1>7, <2>2, <2>4, <3>1 DEF Fresh
  <2> QED BY <2>3, <2>4
<1>9. WrittenOverSeen'
  BY <1>1, <1>4 DEF WrittenOverSeen
<1>10. CASE BeginsLoad /\ Replaces(msg, LoadCall(msg.n, NoRow))
  <2>1. CallFits(LoadCall(msg.n, NoRow)) /\ LoadCall(msg.n, NoRow).kind = "load"
    BY <1>5, LoadCallFits
  <2>2. calm' => calm /\ Awaited(LoadCall(msg.n, NoRow))'
    BY <1>8, <2>1 DEF Awaited, LoadCall
  <2>3. Undisturbed' /\ \A c \in calls' : CallFits(c)
    BY <1>10, <2>1, <2>2, ReplacesKeep
  <2>4. DeskTyped' /\ TypedAtShownVersion'
    BY <1>1, <1>4, <1>7, <1>10, <2>3, LoadFits DEF DeskTyped
  <2> QED BY <1>9, <2>3, <2>4 DEF DeskInductive
<1>11. CASE typed' = Kept(content) /\ calls' = calls \ {msg} /\ UNCHANGED list
  <2>1. Undisturbed' /\ \A c \in calls' : CallFits(c)
    BY <1>8, <1>11, RemovesKeep
  <2>2. typed' \in [Forms -> DeskContents \cup {NoText}] /\ TypedAtShownVersion'
    BY <1>4, <1>7, <1>11, KeptFits
  <2>3. DeskTyped'
    BY <1>1, <1>4, <1>7, <1>11, <2>1, <2>2 DEF DeskTyped
  <2> QED BY <1>9, <2>1, <2>2, <2>3 DEF DeskInductive
<1> QED BY <1>4, <1>10, <1>11

\* What touched no content is answered, and the rows are loaded again.
LEMMA AnswersPostKeeps ==
  ASSUME DeskInductive, NEW msg \in calls, AnswersPost(msg)
  PROVE  DeskInductive'
<1>1. DeskTyped /\ CallFits(msg) /\ WrittenOverSeen
  BY DEF DeskInductive, DeskTyped
<1>2. /\ msg.kind = "post" /\ BeginsLoad /\ Replaces(msg, LoadCall(msg.n, msg.row))
      /\ UNCHANGED <<stored, written, selected, shown, clicked, elsewhere, calm>>
  BY DEF AnswersPost
<1>3. msg.n \in Nat /\ msg.row \in Rows \cup {NoRow}
  BY <1>1, <1>2 DEF CallFits
<1>4. CallFits(LoadCall(msg.n, msg.row)) /\ LoadCall(msg.n, msg.row).kind = "load"
  BY <1>3, LoadCallFits
<1>5. calm' => calm /\ Awaited(LoadCall(msg.n, msg.row))'
  <2> SUFFICES ASSUME calm
               PROVE  Awaited(LoadCall(msg.n, msg.row))'
    BY <1>2
  <2>1. \A f \in Forms : Fresh(f)'
    BY <1>2, CalmIsAlone, FreshStays DEF Awaited
  <2> QED BY <2>1, <1>4 DEF Awaited, LoadCall
<1>6. Undisturbed' /\ \A c \in calls' : CallFits(c)
  BY <1>2, <1>4, <1>5, ReplacesKeep
<1>7. DeskTyped' /\ TypedAtShownVersion' /\ WrittenOverSeen'
  BY <1>1, <1>2, <1>6, LoadFits DEF DeskTyped, WrittenOverSeen
<1> QED BY <1>6, <1>7 DEF DeskInductive

\* A load ends; after an upload its row is opened.
LEMMA AnswersListKeeps ==
  ASSUME DeskInductive, NEW msg \in calls, NEW fails \in BOOLEAN, AnswersList(msg, fails)
  PROVE  DeskInductive'
<1>1. DeskTyped /\ CallFits(msg) /\ TypedAtShownVersion /\ WrittenOverSeen
  BY DEF DeskInductive, DeskTyped
<1>2. /\ msg.kind = "load" /\ list' = [loading |-> FALSE, failed |-> list.failed \/ fails]
      /\ typed' = (IF list'.failed THEN [f \in Forms |-> NoText] ELSE typed)
      /\ calm' = (calm /\ ~fails)
      /\ UNCHANGED <<stored, written, shown, clicked, elsewhere>>
  BY DEF AnswersList
<1>3. msg.n \in Nat /\ msg.row \in Rows \cup {NoRow}
  BY <1>1, <1>2 DEF CallFits
<1>4. /\ list' \in [loading : BOOLEAN, failed : BOOLEAN]
      /\ typed' \in [Forms -> DeskContents \cup {NoText}]
      /\ list'.failed \/ typed' = typed
      /\ calm' \in BOOLEAN
  <2>1. list.failed \in BOOLEAN /\ calm \in BOOLEAN /\ typed \in [Forms -> DeskContents \cup {NoText}]
    BY <1>1 DEF DeskTyped
  <2>2. PICK b \in BOOLEAN : b <=> (list.failed \/ fails)
    OBVIOUS
  <2>3. (list.failed \/ fails) = b
    BY <2>1, <2>2
  <2>4. list' = [loading |-> FALSE, failed |-> b]
    BY <1>2, <2>3, Zenon
  <2>5. list' \in [loading : BOOLEAN, failed : BOOLEAN]
    BY <2>4
  <2>6. typed' \in [Forms -> DeskContents \cup {NoText}] /\ (list'.failed \/ typed' = typed)
    BY <1>2, <2>1
  <2> QED BY <1>2, <2>1, <2>5, <2>6
<1>5. TypedAtShownVersion'
  <2> SUFFICES ASSUME NEW f \in Forms, typed'[f] # NoText
               PROVE  Mounted' /\ typed'[f].version = shown'[f].version
    BY DEF TypedAtShownVersion
  <2>1. ~list'.failed /\ typed' = typed
    BY <1>2
  <2>2. list'.loading = FALSE
    BY <1>2
  <2> QED BY <1>1, <1>2, <2>1, <2>2 DEF TypedAtShownVersion, Mounted
<1>6. WrittenOverSeen'
  BY <1>1, <1>2 DEF WrittenOverSeen
<1>7. calm => \A f \in Forms : Fresh(f)
  BY <1>2, CalmIsAlone DEF Awaited
<1>8. CASE msg.row = NoRow
  <2>1. calls' = calls \ {msg} /\ UNCHANGED selected
    BY <1>8 DEF AnswersList
  <2>2. calm' => calm /\ \A f \in Forms : Fresh(f)'
    BY <1>2, <1>7, <2>1, FreshStays
  <2>3. Undisturbed' /\ \A c \in calls' : CallFits(c)
    BY <2>1, <2>2, RemovesKeep
  <2>4. DeskTyped'
    BY <1>1, <1>2, <1>4, <2>1, <2>3 DEF DeskTyped
  <2> QED BY <1>5, <1>6, <2>3, <2>4 DEF DeskInductive
<1>9. CASE msg.row # NoRow
  <2>1. PICK row \in Rows : row = msg.row
    BY <1>3, <1>9
  <2>2. PICK m \in Nat : m = msg.n
    BY <1>3
  <2>3. PICK next : next = [OpenCall(row) EXCEPT !.n = m]
    OBVIOUS
  <2>4. Replaces(msg, next) /\ selected' = row
    BY <1>9, <2>1, <2>2, <2>3 DEF AnswersList
  <2>5. CallFits(next) /\ Awaited(next)'
    BY <2>3, <2>4, OpenFits
  <2>6. Undisturbed' /\ \A c \in calls' : CallFits(c)
    BY <1>2, <2>4, <2>5, ReplacesKeep
  <2>7. DeskTyped'
    BY <1>1, <1>2, <1>4, <2>4, <2>6 DEF DeskTyped
  <2> QED BY <1>5, <1>6, <2>6, <2>7 DEF DeskInductive
<1> QED BY <1>8, <1>9

\* A request fails.
LEMMA FailsCallKeeps ==
  ASSUME DeskInductive, NEW msg \in calls, FailsCall(msg)
  PROVE  DeskInductive'
<1>1. DeskTyped /\ TypedAtShownVersion /\ WrittenOverSeen
  BY DEF DeskInductive
<1>2. /\ calls' = calls \ {msg} /\ calm' = FALSE
      /\ UNCHANGED <<stored, written, selected, shown, typed, list, clicked, elsewhere>>
  BY DEF FailsCall
<1>3. Undisturbed' /\ \A c \in calls' : CallFits(c)
  BY <1>2, RemovesKeep
<1>4. DeskTyped' /\ TypedAtShownVersion' /\ WrittenOverSeen'
  BY <1>1, <1>2, <1>3 DEF DeskTyped, TypedAtShownVersion, Mounted, WrittenOverSeen
<1> QED BY <1>3, <1>4 DEF DeskInductive

-----------------------------------------------------------------------------
(* The invariant.                                                          *)

\* The page opens with nothing shown, and the rows are asked for.
LEMMA DeskStarts == ContentDeskInit => DeskInductive
<1> SUFFICES ASSUME ContentDeskInit
             PROVE  DeskInductive
  OBVIOUS
<1>1. PICK d : d = [n |-> 0, kind |-> "load", row |-> NoRow, stage |-> "sent"]
  OBVIOUS
<1>2. calls = {d} /\ CallFits(d) /\ d.kind = "load"
  BY <1>1 DEF ContentDeskInit, CallFits
<1>3. stored \in [DeskRecords -> Nat]
  BY DEF ContentDeskInit, FirstVersion
<1>4. DeskTyped
  BY <1>2, <1>3 DEF ContentDeskInit, DeskTyped
<1>5. TypedAtShownVersion /\ WrittenOverSeen
  BY DEF ContentDeskInit, TypedAtShownVersion, WrittenOverSeen
<1>6. selected = NoRow
  BY DEF ContentDeskInit
<1>7. Undisturbed
  BY <1>2, <1>6 DEF Undisturbed, Awaited, Fresh
<1> QED BY <1>4, <1>5, <1>7 DEF DeskInductive

\* Every step of the page, the server and its answers keeps the invariant.
LEMMA DeskKeeps == DeskInductive /\ [ContentDeskNext]_deskVars => DeskInductive'
<1> SUFFICES ASSUME DeskInductive, [ContentDeskNext]_deskVars
             PROVE  DeskInductive'
  OBVIOUS
<1>1. CASE UNCHANGED deskVars
  BY <1>1 DEF deskVars, DeskInductive, DeskTyped, TypedAtShownVersion, Mounted, WrittenOverSeen,
              Undisturbed, Awaited, Fresh, Newest
<1>2. CASE ContentDeskNext
  BY <1>2, OpenContentKeeps, TypesIntoKeeps, SendsContentKeeps, PostsKeep, RetriesLoadKeeps,
     ReadsContentKeeps, StoresContentKeeps, SavesElsewhereKeeps, AnswersOpenKeeps,
     AnswersStoreKeeps, AnswersPostKeeps, AnswersListKeeps, FailsCallKeeps
     DEF ContentDeskNext
<1> QED BY <1>1, <1>2

\* The invariant says what the page promises.
LEMMA DeskImplies == DeskInductive => ContentDeskSafe
<1> SUFFICES ASSUME DeskInductive
             PROVE  ContentDeskSafe
  OBVIOUS
<1>1. DeskTyped /\ TypedAtShownVersion /\ WrittenOverSeen /\ Undisturbed
  BY DEF DeskInductive
<1>2. ContentDeskTypeOK
  <2>1. \A f \in Forms : /\ shown[f] = NoContent \/ shown[f].id \in DeskRecords
                         /\ typed[f] = NoText \/ typed[f].id \in DeskRecords
    BY <1>1 DEF DeskTyped, DeskContents
  <2>2. \A c \in calls : c.kind \in {"load", "open", "post", "save", "approve", "restore"}
    BY <1>1 DEF DeskTyped, CallFits
  <2> QED BY <1>1, <2>1, <2>2 DEF ContentDeskTypeOK, DeskTyped
<1>3. ShownIsSelected
  BY <1>1 DEF ShownIsSelected, Undisturbed, Fresh, Newest
<1> QED BY <1>1, <1>2, <1>3 DEF ContentDeskSafe

\* Whatever the order of the clicks, the answers and the saves of others, no save of the page
\* lands over a version its author had not on the screen (saveSession and saveSpeaker in
\* FilesDeliverablesPage), and a page nobody disturbed ends on the selected row's newest content.
THEOREM DeskInvariance == ContentDeskSpec => []ContentDeskSafe
<1>1. DeskInductive /\ [ContentDeskNext]_deskVars => DeskInductive'
  BY DeskKeeps
<1>2. ContentDeskInit => DeskInductive
  BY DeskStarts
<1> QED BY <1>1, <1>2, DeskImplies, PTL DEF ContentDeskSpec

-----------------------------------------------------------------------------
(***************************************************************************)
(* WorkPages: the requests, locks, notices and lists of the other pages.   *)
(***************************************************************************)

\* What the locks and the notices need of a page: a button that waits for a lock takes one, a
\* row is merged only into content that is there, what only loads tells no failure of its own,
\* and where nothing catches a request that breaks off, or Save does not wait for content,
\* every click takes the messages down.  A list of its own takes no error down.
PageFits(p) ==
  /\ \A command \in p.commands :
       /\ command.then \in {"reloads", "replaces", "publishes", "merges", "rests"}
       /\ command.bars = "any" => command.slot # "none"
       /\ command.then = "merges" => p.waits = "content"
       /\ command.asks => command.then = "reloads" /\ ~command.own
       /\ ~p.catches \/ p.waits = "load" => command.clears
  /\ p.views = "own list" => "error" \notin p.wipes
  /\ p.waits = "load" => ~p.apart

\* A request of the page.
RequestFits(r) ==
  /\ r \in [n : Int, kind : {"load", "command", "publish", "reload"}, command : tab.commands \cup {NoCommand},
            item : Items \cup {Unheld}, view : Views, live : BOOLEAN, key : Nat,
            stage : {"sent", "answered"}, at : [Items -> Nat] \cup {NothingYet}]
  /\ r.kind = "load" => r.command = NoCommand
  /\ r.kind # "load" => r.command \in tab.commands /\ r.item \in Items
  /\ r.kind = "reload" => r.command.then = "reloads"
  /\ r.kind = "publish" => r.command.then = "publishes"
  /\ r.stage = "answered" \/ (r.kind = "reload" /\ ~r.command.asks) =>
       /\ r.at \in [Items -> Nat]
       /\ \A i \in Items : r.at[i] <= revision[i]
  /\ r.command.then = "merges" => holds \in [Items -> Nat]

\* A notice promises nothing the server does not have.
NoticeFits == toast = NoNotice \/ /\ toast.item \in Items /\ toast.at \in Nat
                                  /\ toast.at <= revision[toast.item]

PagesTyped ==
  /\ PageFits(tab)
  /\ revision \in [Items -> Nat]
  /\ view \in Views /\ listed \in Views
  /\ holds \in [Items -> Nat] \cup {NothingYet}
  /\ busy \in [Slots(tab) -> Items \cup {Unheld}] /\ busy["none"] = Unheld
  /\ NoticeFits
  /\ failed \in BOOLEAN
  /\ budget \in [clicks : Int, turns : Int]
  /\ key \in Nat
  /\ history \in [lapped : BOOLEAN, strayed : BOOLEAN, missed : BOOLEAN, carried : Nat,
                  promised : Nat]
  /\ \A r \in pending : RequestFits(r)

\* A lock is held by a request that frees it.
LocksAreHeld ==
  tab.catches =>
    \A slot \in Slots(tab) :
      busy[slot] # Unheld => \E r \in pending : r.kind # "load" /\ r.command.slot = slot

\* On a page of one lock, what is under way holds it, or is the first load, after whose
\* failure nothing is.
OneByOne ==
  Exclusive(tab) =>
    /\ ~history.lapped
    /\ failed /\ holds = NothingYet => pending = {}
    /\ \A r \in pending : IF r.kind = "load" THEN holds = NothingYet
                          ELSE busy[r.command.slot] # Unheld

\* Requests that do not cross are alone.  An answer under way brings what the notice promises.
Uncrossed ==
  ~history.lapped =>
    /\ \A c, d \in pending : c = d
    /\ \A r \in pending : /\ r.live
                          /\ r.stage = "answered" /\ toast # NoNotice =>
                               toast.at <= r.at[toast.item]
                          /\ r.kind = "command" /\ ~tab.catches => toast = NoNotice
    /\ (\A r \in pending : r.kind = "load") /\ toast # NoNotice /\ ~failed /\ holds # NothingYet =>
         holds[toast.item] >= toast.at

\* What is under way answers the view, or will not be shown.
ViewsAnswered ==
  ~history.strayed =>
    /\ \A r \in pending : /\ r.kind = "load" /\ r.live => r.view = view
                          /\ r.kind # "load" /\ tab.views = "content" /\ r.command.then = "reloads"
                               => r.view = view
    /\ listed = view \/ history.missed \/ \E r \in pending : r.kind = "load" /\ r.live

\* The keys that were acted for.
KeysCounted ==
  (\A command \in tab.commands : command.kept) =>
    /\ key = history.promised
    /\ acted \subseteq 0..key /\ history.carried = Cardinality(acted)
    /\ \A r \in pending : r.key \in 0..key

PagesInductive ==
  /\ PagesTyped /\ LocksAreHeld /\ OneByOne /\ Uncrossed /\ ViewsAnswered /\ KeysCounted

-----------------------------------------------------------------------------
(* The pages, and what stays of a request.                                 *)

\* A command that no page has, of a load.
LEMMA NoCommandFacts ==
  /\ NoCommand.slot = "none" /\ NoCommand.then = "rests" /\ NoCommand.told = "never"
  /\ ~NoCommand.asks
BY DEF NoCommand, Command

\* Every page has what its locks and notices need.
LEMMA PagesFit == \A p \in Pages : PageFits(p)
<1>1. PageFits(ReviewsDecisionsPage)
  BY DEF PageFits, ReviewsDecisionsPage, PlanCommand, DecisionCommand, RemindOutstanding, Page, Command
<1>2. PageFits(SubmissionsPage)
  BY DEF PageFits, SubmissionsPage, MarkMaybe, SubmissionDecide, NotificationCommand, Page, Command
<1>3. PageFits(AgendaPage)
  BY DEF PageFits, AgendaPage, AgendaCommand, AgendaDrop, PickVersion, Page, Command
<1>4. PageFits(PublishProgramPage)
  BY DEF PageFits, PublishProgramPage, PublishCommand, Page, Command
<1>5. PageFits(CommunicationsPage)
  BY DEF PageFits, CommunicationsPage, SaveTemplate, SendCampaign, DeliveryAction, Page, Command
<1>6. PageFits(AirtablePage) /\ PageFits(AcceleventsPage)
  BY DEF PageFits, AirtablePage, AcceleventsPage, Page, Command
<1>7. PageFits(SpeakersPage)
  BY DEF PageFits, SpeakersPage, CommitImport, SpeakerSave, SpeakerStatus, Page, Command
<1>8. PageFits(SpeakerTasksPage) /\ PageFits(SpeakerResourcesPage)
  <2>1. PageFits(SpeakerTasksPage)
    <3>1. /\ CreateTask.bars = "any" /\ CreateTask.slot = "saving" /\ CreateTask.then = "reloads"
          /\ ~CreateTask.asks
      BY DEF CreateTask, Command
    <3>2. /\ SpeakerTasksPage.commands = {CreateTask} /\ SpeakerTasksPage.catches
          /\ SpeakerTasksPage.views = "none" /\ SpeakerTasksPage.waits = "nothing"
      BY DEF SpeakerTasksPage, Page
    <3> QED BY <3>1, <3>2 DEF PageFits
  <2>2. PageFits(SpeakerResourcesPage)
    BY DEF PageFits, SpeakerResourcesPage, Page, Command
  <2> QED BY <2>1, <2>2
<1>9. PageFits(CfpBuilderPage) /\ PageFits(EventSettingsPage)
  BY DEF PageFits, CfpBuilderPage, SaveDraft, PublishForm, EventSettingsPage, Page, Command
<1>10. PageFits(SpeakerCrmPage)
  BY DEF PageFits, SpeakerCrmPage, CrmForm, CrmAction, Page, Command
<1>11. PageFits(SpeakerPortalPage)
  BY DEF PageFits, SpeakerPortalPage, SaveProfile, PortalTask, PortalHeadshot, Page, Command
<1>12. PageFits(SpeakerFilesPage)
  BY DEF PageFits, SpeakerFilesPage, FileUpload, FileComment, Page, Command
<1>13. PageFits(SpeakerSubmissionsPage) /\ PageFits(ProductShell)
  BY DEF PageFits, SpeakerSubmissionsPage, RequestChange, ProductShell, Page, Command
<1> QED BY <1>1, <1>2, <1>3, <1>4, <1>5, <1>6, <1>7, <1>8, <1>9, <1>10, <1>11, <1>12, <1>13 DEF Pages, EventPages, SpeakerPages

\* A request stays one while the server's revisions grow and the content stays content.
LEMMA RequestStays ==
  ASSUME NEW r, RequestFits(r), UNCHANGED tab,
         revision \in [Items -> Nat], revision' \in [Items -> Nat],
         \A i \in Items : revision[i] <= revision'[i],
         holds \in [Items -> Nat] => holds' \in [Items -> Nat]
  PROVE  RequestFits(r)'
<1>1. /\ r.stage = "answered" \/ (r.kind = "reload" /\ ~r.command.asks) => r.at \in [Items -> Nat] /\ \A i \in Items : r.at[i] <= revision'[i]
      /\ r.command.then = "merges" => holds' \in [Items -> Nat]
  BY DEF RequestFits
<1> QED BY <1>1 DEF RequestFits

\* A notice that stays or is taken down.
LEMMA NoticeStays ==
  ASSUME NoticeFits, toast' \in {toast, NoNotice},
         revision \in [Items -> Nat], revision' \in [Items -> Nat],
         \A i \in Items : revision[i] <= revision'[i]
  PROVE  NoticeFits'
<1>1. CASE toast' = NoNotice
  BY <1>1 DEF NoticeFits
<1>2. CASE toast' = toast /\ toast # NoNotice
  <2>1. toast.item \in Items /\ toast.at \in Nat /\ toast.at <= revision[toast.item]
    BY <1>2 DEF NoticeFits
  <2>2. toast.at <= revision'[toast.item]
    BY <2>1
  <2> QED BY <1>2, <2>1, <2>2 DEF NoticeFits
<1> QED BY <1>1, <1>2

\* The revisions do not fall while nothing is carried out.
LEMMA RevisionsStay ==
  ASSUME PagesTyped, UNCHANGED revision
  PROVE  /\ revision \in [Items -> Nat] /\ revision' \in [Items -> Nat]
         /\ \A i \in Items : revision[i] <= revision'[i]
BY DEF PagesTyped

\* Content that is shown is never taken away again.
LEMMA HoldsContent ==
  ASSUME PagesTyped, holds # NothingYet
  PROVE  holds \in [Items -> Nat]
BY DEF PagesTyped

-----------------------------------------------------------------------------
(* The person at the page.                                                 *)

\* A click sends a command.
LEMMA ClicksKeep ==
  ASSUME PagesInductive, NEW command \in tab.commands, NEW item \in Items, Clicks(command, item)
  PROVE  PagesInductive'
<1>1. /\ PagesTyped /\ LocksAreHeld /\ OneByOne /\ Uncrossed /\ ViewsAnswered /\ KeysCounted

  BY DEF PagesInductive
<1>2. PICK m, k, r :
                  /\ m = budget.clicks + budget.turns + 1
                  /\ k = (IF command.asks THEN "reload" ELSE "command")
                  /\ r = [n |-> m, kind |-> k, command |-> command, item |-> item,
                          view |-> view, live |-> TRUE, key |-> key, stage |-> "sent",
                          at |-> NothingYet]
  OBVIOUS
<1>3. r = Request(IF command.asks THEN "reload" ELSE "command", command, item)
  BY <1>2, Zenon DEF Request
<1>4. /\ tab.waits = "content" => holds # NothingYet
      /\ tab.waits = "load" => \A x \in pending : x.kind # "load"
      /\ command.bars = "any" => busy[command.slot] = Unheld
      /\ budget' = [budget EXCEPT !.clicks = @ + 1]
      /\ pending' = pending \cup {r}
      /\ busy' = (IF command.slot = "none" THEN busy ELSE [busy EXCEPT ![command.slot] = item])
      /\ toast' = (IF command.clears THEN NoNotice ELSE toast)
      /\ failed' = (failed /\ ~tab.apart /\ ~command.clears)
      /\ history' = [history EXCEPT !.lapped = @ \/ pending # {}]
      /\ UNCHANGED <<tab, revision, view, holds, listed, key, acted>>
  BY <1>3 DEF Clicks, Enabled
<1>5. /\ command.bars = "any" => command.slot # "none"
      /\ command.then = "merges" => tab.waits = "content"
      /\ ~tab.catches \/ tab.waits = "load" => command.clears
      /\ tab.waits = "load" => ~tab.apart
      /\ command.asks => command.then = "reloads"
      /\ command.slot \in Slots(tab) /\ Unheld \notin Items
  BY <1>1, WorkPagesAssumption DEF PagesTyped, PageFits, Slots
<1>6. PICK b \in BOOLEAN : b <=> (history.lapped \/ pending # {})
  OBVIOUS
<1>7. history' = [history EXCEPT !.lapped = b]
  <2>1. history.lapped \in BOOLEAN
    BY <1>1 DEF PagesTyped
  <2>2. (history.lapped \/ pending # {}) = b
    BY <1>6, <2>1
  <2> QED BY <1>4, <2>2, Zenon
<1>8. /\ history' \in [lapped : BOOLEAN, strayed : BOOLEAN, missed : BOOLEAN, carried : Nat,
                      promised : Nat]
      /\ history'.lapped = b /\ history'.strayed = history.strayed
      /\ history'.missed = history.missed /\ history'.carried = history.carried
      /\ history'.promised = history.promised
  BY <1>1, <1>7 DEF PagesTyped
<1>9. /\ r.kind = k /\ k \in {"command", "reload"} /\ (k = "reload" <=> command.asks)
      /\ r.command = command /\ r.item = item /\ r.view = view /\ r.live
      /\ r.key = key /\ r.stage = "sent"
  BY <1>2
<1>10. RequestFits(r)'
  <2>1. m \in Int /\ view \in Views /\ key \in Nat
    BY <1>1, <1>2 DEF PagesTyped
  <2>2. r \in [n : Int, kind : {"load", "command", "publish", "reload"}, command : tab.commands \cup {NoCommand},
               item : Items \cup {Unheld}, view : Views, live : BOOLEAN, key : Nat,
               stage : {"sent", "answered"}, at : [Items -> Nat] \cup {NothingYet}]
    BY <1>2, <2>1
  <2>3. command.then = "merges" => holds' \in [Items -> Nat]
    BY <1>1, <1>4, <1>5, HoldsContent
  <2> QED BY <1>4, <1>5, <1>9, <2>2, <2>3 DEF RequestFits
<1>11. /\ busy' \in [Slots(tab) -> Items \cup {Unheld}]
       /\ command.slot # "none" => busy'[command.slot] = item
       /\ \A s \in Slots(tab) : busy'[s] = busy[s] \/ (s = command.slot /\ command.slot # "none")
  BY <1>1, <1>4, <1>5 DEF PagesTyped
<1>12. PagesTyped'
  <2>1. /\ revision \in [Items -> Nat] /\ revision' \in [Items -> Nat]
        /\ \A i \in Items : revision[i] <= revision'[i]
    BY <1>1, <1>4, RevisionsStay
  <2>2. \A x \in pending' : RequestFits(x)'
    BY <1>1, <1>4, <1>10, <2>1, RequestStays DEF PagesTyped
  <2>3. NoticeFits'
    BY <1>1, <1>4, <2>1, NoticeStays DEF PagesTyped
  <2>4. budget' \in [clicks : Int, turns : Int] /\ failed' \in BOOLEAN
    BY <1>1, <1>4 DEF PagesTyped
  <2>5. /\ PageFits(tab)' /\ (view \in Views)' /\ (listed \in Views)' /\ (key \in Nat)'
        /\ (holds \in [Items -> Nat] \cup {NothingYet})'
    BY <1>1, <1>4 DEF PagesTyped
  <2>6. (busy \in [Slots(tab) -> Items \cup {Unheld}])' /\ busy'["none"] = Unheld
    <3>1. "none" \in Slots(tab) /\ busy["none"] = Unheld
      BY <1>1 DEF PagesTyped, Slots
    <3> QED BY <1>4, <1>11, <3>1 DEF Slots
  <2> QED BY <1>8, <2>1, <2>2, <2>3, <2>4, <2>5, <2>6 DEF PagesTyped
<1>13. LocksAreHeld'
  <2> SUFFICES ASSUME tab.catches, NEW s \in Slots(tab), busy'[s] # Unheld
               PROVE  \E x \in pending' : x.kind # "load" /\ x.command.slot = s
    BY <1>4 DEF LocksAreHeld, Slots
  <2> QED BY <1>1, <1>4, <1>9, <1>11 DEF LocksAreHeld
<1>14. OneByOne'
  <2> SUFFICES ASSUME Exclusive(tab)
               PROVE  /\ ~history'.lapped /\ pending' = {r} /\ busy'[r.command.slot] # Unheld
                      /\ failed' => holds # NothingYet
    BY <1>4, <1>9 DEF OneByOne, Exclusive
  <2>1. /\ command.bars = "any" /\ tab.waits \in {"content", "load"}
        /\ \A other \in tab.commands : other.slot = command.slot
    BY DEF Exclusive
  <2>2. ASSUME NEW x \in pending
        PROVE  FALSE
    <3>1. IF x.kind = "load" THEN holds = NothingYet ELSE busy[x.command.slot] # Unheld
      BY <1>1 DEF OneByOne
    <3>2. x.kind # "load" => x.command \in tab.commands
      BY <1>1 DEF PagesTyped, RequestFits
    <3> QED BY <1>4, <2>1, <3>1, <3>2
  <2>3. ~history.lapped
    BY <1>1 DEF OneByOne
  <2> QED BY <1>4, <1>5, <1>6, <1>8, <1>9, <1>11, <2>1, <2>2, <2>3
<1>15. Uncrossed'
  <2> SUFFICES ASSUME ~history'.lapped
               PROVE  /\ pending' = {r} /\ r.live /\ r.stage # "answered" /\ r.kind # "load"
                      /\ ~tab.catches => toast' = NoNotice
    BY <1>4, <1>9 DEF Uncrossed
  <2> QED BY <1>4, <1>5, <1>6, <1>8, <1>9
<1>16. ViewsAnswered'
  <2> SUFFICES ASSUME ~history'.strayed
               PROVE  /\ \A x \in pending' :
                           /\ x.kind = "load" /\ x.live => x.view = view
                           /\ x.kind # "load" /\ tab.views = "content" /\ x.command.then = "reloads"
                                => x.view = view
                      /\ listed = view \/ history'.missed \/ \E x \in pending' : x.kind = "load" /\ x.live
    BY <1>4 DEF ViewsAnswered
  <2> QED BY <1>1, <1>4, <1>8, <1>9 DEF ViewsAnswered
<1>17. KeysCounted'
  <2>1. key \in 0..key
    BY <1>1 DEF PagesTyped
  <2> QED BY <1>1, <1>4, <1>8, <1>9, <2>1 DEF KeysCounted
<1> QED BY <1>12, <1>13, <1>14, <1>15, <1>16, <1>17 DEF PagesInductive

\* A load that the view has left is the same request, but for what becomes of its answer.
LEMMA OvertakenFits ==
  ASSUME NEW r, RequestFits(r)
  PROVE  /\ RequestFits(Overtaken(r))
         /\ Overtaken(r).kind = r.kind /\ Overtaken(r).command = r.command
         /\ Overtaken(r).key = r.key
         /\ r.kind # "load" => Overtaken(r) = r
         /\ r.kind = "load" /\ tab.guards => ~Overtaken(r).live
BY DEF Overtaken, RequestFits

\* The view of the page changes.
LEMMA TurnsKeep ==
  ASSUME PagesInductive, NEW next \in Views, Turns(next)
  PROVE  PagesInductive'
<1>1. PagesTyped /\ LocksAreHeld /\ OneByOne /\ Uncrossed /\ ViewsAnswered /\ KeysCounted
  BY DEF PagesInductive
<1>2. PICK m, q : /\ m = budget.clicks + budget.turns + 1
                  /\ q = [n |-> m, kind |-> "load", command |-> NoCommand, item |-> Unheld,
                          view |-> view, live |-> TRUE, key |-> key, stage |-> "sent",
                          at |-> NothingYet]
  OBVIOUS
<1>3. PICK l : l = [q EXCEPT !.view = next] /\ l = [Request("load", NoCommand, Unheld) EXCEPT !.view = next]
  BY <1>2, Zenon DEF Request
<1>4. /\ tab.views # "none"
      /\ budget' = [budget EXCEPT !.turns = @ + 1]
      /\ view' = next
      /\ pending' = {Overtaken(req) : req \in pending} \cup {l}
      /\ history' = [history EXCEPT !.lapped = @ \/ pending # {},
                                    !.strayed = \E req \in pending : Strays(req)]
      /\ UNCHANGED <<tab, revision, holds, listed, busy, toast, failed, key, acted>>
  BY <1>3 DEF Turns
<1>5. PICK b, c : /\ b \in BOOLEAN /\ c \in BOOLEAN
                  /\ b <=> (history.lapped \/ pending # {})
                  /\ c <=> \E req \in pending : Strays(req)
  OBVIOUS
<1>6. history' = [history EXCEPT !.lapped = b, !.strayed = c]
  <2>1. history.lapped \in BOOLEAN
    BY <1>1 DEF PagesTyped
  <2>2. (history.lapped \/ pending # {}) = b /\ (\E req \in pending : Strays(req)) = c
    BY <1>5, <2>1
  <2> QED BY <1>4, <2>2, Zenon
<1>7. /\ history' \in [lapped : BOOLEAN, strayed : BOOLEAN, missed : BOOLEAN, carried : Nat,
                      promised : Nat]
      /\ history'.lapped = b /\ history'.strayed = c
      /\ history'.missed = history.missed /\ history'.carried = history.carried
      /\ history'.promised = history.promised
  BY <1>1, <1>5, <1>6 DEF PagesTyped
<1>8. /\ l.kind = "load" /\ l.command = NoCommand /\ l.view = next /\ l.live /\ l.key = key
      /\ l.stage = "sent"
      /\ l \in [n : Int, kind : {"load", "command", "publish", "reload"}, command : tab.commands \cup {NoCommand},
                item : Items \cup {Unheld}, view : Views, live : BOOLEAN, key : Nat,
                stage : {"sent", "answered"}, at : [Items -> Nat] \cup {NothingYet}]
  <2>1. m \in Int /\ view \in Views /\ key \in Nat
    BY <1>1, <1>2 DEF PagesTyped
  <2>2. /\ q \in [n : Int, kind : {"load", "command", "publish", "reload"}, command : tab.commands \cup {NoCommand},
                   item : Items \cup {Unheld}, view : Views, live : BOOLEAN, key : Nat,
                   stage : {"sent", "answered"}, at : [Items -> Nat] \cup {NothingYet}]
        /\ q.kind = "load" /\ q.command = NoCommand /\ q.live /\ q.key = key /\ q.stage = "sent"
    BY <1>2, <2>1
  <2>3. l = [q EXCEPT !.view = next]
    BY <1>3
  <2> QED BY <2>2, <2>3
<1>9. /\ revision \in [Items -> Nat] /\ revision' \in [Items -> Nat]
      /\ \A i \in Items : revision[i] <= revision'[i]
  BY <1>1, <1>4, RevisionsStay
<1>10. RequestFits(l)'
  BY <1>4, <1>8, NoCommandFacts DEF RequestFits
<1>11. \A r \in pending : RequestFits(r)
  BY <1>1 DEF PagesTyped
<1>12. ASSUME NEW x \in pending'
       PROVE  x = l \/ \E r \in pending : x = Overtaken(r) /\ RequestFits(r)
  BY <1>4, <1>11
<1>13. PagesTyped'
  <2>1. ASSUME NEW x \in pending'
        PROVE  RequestFits(x)'
    <3>1. CASE x = l
      BY <1>10, <3>1
    <3>2. ASSUME NEW r \in pending, x = Overtaken(r)
          PROVE  RequestFits(x)'
      <4>1. RequestFits(x)
        BY <1>11, <3>2, OvertakenFits
      <4> QED BY <1>4, <1>9, <4>1, RequestStays
    <3> QED BY <1>12, <3>1, <3>2
  <2>2. NoticeFits'
    BY <1>1, <1>4, <1>9, NoticeStays DEF PagesTyped
  <2>3. budget' \in [clicks : Int, turns : Int] /\ failed' \in BOOLEAN
    BY <1>1, <1>4 DEF PagesTyped
  <2>4. /\ PageFits(tab)' /\ (view \in Views)' /\ (listed \in Views)' /\ (key \in Nat)'
        /\ (holds \in [Items -> Nat] \cup {NothingYet})'
        /\ (busy \in [Slots(tab) -> Items \cup {Unheld}])' /\ busy'["none"] = Unheld
    BY <1>1, <1>4 DEF PagesTyped, Slots
  <2> QED BY <1>7, <1>9, <2>1, <2>2, <2>3, <2>4 DEF PagesTyped
<1>14. LocksAreHeld'
  <2> SUFFICES ASSUME tab.catches, NEW s \in Slots(tab), busy[s] # Unheld
               PROVE  \E x \in pending' : x.kind # "load" /\ x.command.slot = s
    BY <1>4 DEF LocksAreHeld, Slots
  <2>1. PICK r \in pending : r.kind # "load" /\ r.command.slot = s
    BY <1>1 DEF LocksAreHeld
  <2>2. Overtaken(r) \in pending' /\ Overtaken(r) = r
    BY <1>4, <1>11, <2>1, OvertakenFits
  <2> QED BY <2>1, <2>2
<1>15. OneByOne'
  BY <1>4 DEF OneByOne, Exclusive
<1>16. Uncrossed'
  <2> SUFFICES ASSUME ~history'.lapped
               PROVE  /\ pending' = {l}
                      /\ toast # NoNotice /\ ~failed /\ holds # NothingYet =>
                           holds[toast.item] >= toast.at
    BY <1>4, <1>8 DEF Uncrossed
  <2>1. pending = {} /\ ~history.lapped
    BY <1>5, <1>7
  <2> QED BY <1>1, <1>4, <2>1 DEF Uncrossed
<1>17. ViewsAnswered'
  <2> SUFFICES ASSUME ~history'.strayed, NEW x \in pending'
               PROVE  /\ x.kind = "load" /\ x.live => x.view = next
                      /\ x.kind # "load" /\ tab.views = "content" /\ x.command.then = "reloads"
                                => x.view = next
    BY <1>4, <1>8 DEF ViewsAnswered
  <2>1. CASE x = l
    BY <1>8, <2>1
  <2>2. ASSUME NEW r \in pending, x = Overtaken(r)
        PROVE  /\ ~(x.kind = "load" /\ x.live)
               /\ ~(x.kind # "load" /\ tab.views = "content" /\ x.command.then = "reloads")
    <3>1. ~Strays(r)
      BY <1>5, <1>7
    <3>2. RequestFits(r)
      BY <1>11
    <3>3. r.kind = "load" => tab.guards
      BY <3>1 DEF Strays
    <3>4. r.kind # "load" => ~(tab.views = "content" /\ r.command.then = "reloads")
      BY <3>1 DEF Strays
    <3> QED BY <2>2, <3>2, <3>3, <3>4, OvertakenFits
  <2> QED BY <1>12, <2>1, <2>2
<1>18. KeysCounted'
  <2>1. key \in 0..key
    BY <1>1 DEF PagesTyped
  <2>2. ASSUME NEW r \in pending
        PROVE  Overtaken(r).key = r.key
    BY <1>11, OvertakenFits
  <2> QED BY <1>1, <1>4, <1>7, <1>8, <2>1, <2>2 DEF KeysCounted
<1> QED BY <1>13, <1>14, <1>15, <1>16, <1>17, <1>18 DEF PagesInductive

\* The first load is asked for again.
LEMMA RetriesKeep ==
  ASSUME PagesInductive, Retries
  PROVE  PagesInductive'
<1>1. PagesTyped /\ LocksAreHeld /\ OneByOne /\ Uncrossed /\ ViewsAnswered /\ KeysCounted
  BY DEF PagesInductive
<1>2. PICK m, l : /\ m = budget.clicks + budget.turns + 1
                  /\ l = [n |-> m, kind |-> "load", command |-> NoCommand, item |-> Unheld,
                          view |-> view, live |-> TRUE, key |-> key, stage |-> "sent",
                          at |-> NothingYet]
  OBVIOUS
<1>3. l = Request("load", NoCommand, Unheld)
  BY <1>2, Zenon DEF Request
<1>4. /\ failed /\ holds = NothingYet /\ failed' = FALSE
      /\ budget' = [budget EXCEPT !.turns = @ + 1]
      /\ pending' = pending \cup {l}
      /\ history' = [history EXCEPT !.lapped = @ \/ pending # {}]
      /\ UNCHANGED <<tab, revision, view, holds, listed, busy, toast, key, acted>>
  BY <1>3 DEF Retries
<1>5. PICK b \in BOOLEAN : b <=> (history.lapped \/ pending # {})
  OBVIOUS
<1>6. history' = [history EXCEPT !.lapped = b]
  <2>1. history.lapped \in BOOLEAN
    BY <1>1 DEF PagesTyped
  <2>2. (history.lapped \/ pending # {}) = b
    BY <1>5, <2>1
  <2> QED BY <1>4, <2>2, Zenon
<1>7. /\ history' \in [lapped : BOOLEAN, strayed : BOOLEAN, missed : BOOLEAN, carried : Nat,
                      promised : Nat]
      /\ history'.lapped = b /\ history'.strayed = history.strayed
      /\ history'.missed = history.missed /\ history'.carried = history.carried
      /\ history'.promised = history.promised
  BY <1>1, <1>6 DEF PagesTyped
<1>8. /\ l.kind = "load" /\ l.command = NoCommand /\ l.view = view /\ l.live /\ l.key = key
      /\ l.stage = "sent"
  BY <1>2
<1>9. RequestFits(l)'
  <2>1. m \in Int /\ view \in Views /\ key \in Nat
    BY <1>1, <1>2 DEF PagesTyped
  <2>2. l \in [n : Int, kind : {"load", "command", "publish", "reload"}, command : tab.commands \cup {NoCommand},
               item : Items \cup {Unheld}, view : Views, live : BOOLEAN, key : Nat,
               stage : {"sent", "answered"}, at : [Items -> Nat] \cup {NothingYet}]
    BY <1>2, <2>1
  <2>3. UNCHANGED <<tab, holds, revision>>
    BY <1>4
  <2> QED BY <1>8, <2>2, <2>3, NoCommandFacts DEF RequestFits
<1>10. /\ revision \in [Items -> Nat] /\ revision' \in [Items -> Nat]
       /\ \A i \in Items : revision[i] <= revision'[i]
  BY <1>1, <1>4, RevisionsStay
<1>11. PagesTyped'
  <2>1. \A x \in pending' : RequestFits(x)'
    BY <1>1, <1>4, <1>9, <1>10, RequestStays DEF PagesTyped
  <2>2. NoticeFits'
    BY <1>1, <1>4, <1>10, NoticeStays DEF PagesTyped
  <2>3. budget' \in [clicks : Int, turns : Int] /\ failed' \in BOOLEAN
    <3>1. budget \in [clicks : Int, turns : Int]
      BY <1>1 DEF PagesTyped
    <3>2. budget' = [budget EXCEPT !.turns = @ + 1]
      BY <1>4
    <3>3. budget' \in [clicks : Int, turns : Int]
      BY <3>1, <3>2
    <3>4. failed' \in BOOLEAN
      BY <1>4, Zenon
    <3> QED BY <3>3, <3>4
  <2>4. /\ PageFits(tab)' /\ (view \in Views)' /\ (listed \in Views)' /\ (key \in Nat)'
        /\ (holds \in [Items -> Nat] \cup {NothingYet})'
        /\ (busy \in [Slots(tab) -> Items \cup {Unheld}])' /\ busy'["none"] = Unheld
    BY <1>1, <1>4 DEF PagesTyped, Slots
  <2> QED BY <1>7, <1>10, <2>1, <2>2, <2>3, <2>4 DEF PagesTyped
<1>12. LocksAreHeld'
  BY <1>1, <1>4 DEF LocksAreHeld, Slots
<1>13. OneByOne'
  <2> SUFFICES ASSUME Exclusive(tab)
               PROVE  ~history'.lapped /\ pending' = {l}
    BY <1>4, <1>8 DEF OneByOne, Exclusive
  <2>1. pending = {} /\ ~history.lapped
    BY <1>1, <1>4 DEF OneByOne
  <2> QED BY <1>4, <1>5, <1>7, <2>1
<1>14. Uncrossed'
  <2> SUFFICES ASSUME ~history'.lapped
               PROVE  pending' = {l}
    BY <1>4, <1>8 DEF Uncrossed
  <2>1. pending = {}
    BY <1>5, <1>7
  <2> QED BY <1>4, <2>1
<1>15. ViewsAnswered'
  BY <1>1, <1>4, <1>7, <1>8 DEF ViewsAnswered
<1>16. KeysCounted'
  <2>1. key \in 0..key
    BY <1>1 DEF PagesTyped
  <2> QED BY <1>1, <1>4, <1>7, <1>8, <2>1 DEF KeysCounted
<1> QED BY <1>11, <1>12, <1>13, <1>14, <1>15, <1>16 DEF PagesInductive

-----------------------------------------------------------------------------
(* The server.                                                             *)

\* An answer that is on its way: what the server read or changed when it gave it.
LEMMA AnsweredFits ==
  ASSUME PagesTyped, NEW req \in pending, NEW next, UNCHANGED <<tab, holds>>,
         next = [req EXCEPT !.stage = "answered", !.at = revision'],
         revision' \in [Items -> Nat], \A i \in Items : revision[i] <= revision'[i]
  PROVE  /\ RequestFits(next)'
         /\ next.kind = req.kind /\ next.command = req.command /\ next.item = req.item
         /\ next.view = req.view /\ next.live = req.live /\ next.key = req.key
         /\ next.stage = "answered" /\ next.at = revision'
<1>1. RequestFits(req)
  BY DEF PagesTyped
<1>2. PICK v : v = revision'
  OBVIOUS
<1>3. v \in [Items -> Nat] /\ \A i \in Items : v[i] <= revision'[i]
  BY <1>2
<1>4. /\ next.kind = req.kind /\ next.command = req.command /\ next.item = req.item
      /\ next.view = req.view /\ next.live = req.live /\ next.key = req.key
      /\ next.stage = "answered" /\ next.at = v
      /\ next \in [n : Int, kind : {"load", "command", "publish", "reload"}, command : tab.commands \cup {NoCommand},
               item : Items \cup {Unheld}, view : Views, live : BOOLEAN, key : Nat,
               stage : {"sent", "answered"}, at : [Items -> Nat] \cup {NothingYet}]
  BY <1>1, <1>2, <1>3 DEF RequestFits
<1>5. RequestFits(next)'
  BY <1>1, <1>2, <1>3, <1>4 DEF RequestFits
<1> QED BY <1>2, <1>4, <1>5

\* A request goes on to its answer: what holds of it but for what the answer says.
LEMMA AnsweredKeeps ==
  ASSUME PagesInductive, NEW req \in pending, NEW next, req.stage = "sent",
         next = [req EXCEPT !.stage = "answered", !.at = revision'],
         pending' = (pending \ {req}) \cup {next},
         revision' \in [Items -> Nat], \A i \in Items : revision[i] <= revision'[i],
         UNCHANGED <<tab, view, holds, listed, busy, toast, failed, budget, key>>,
         history' \in [lapped : BOOLEAN, strayed : BOOLEAN, missed : BOOLEAN, carried : Nat,
                       promised : Nat],
         history'.lapped = history.lapped, history'.strayed = history.strayed,
         history'.missed = history.missed
  PROVE  PagesTyped' /\ LocksAreHeld' /\ OneByOne' /\ Uncrossed' /\ ViewsAnswered'
<1>1. PagesTyped /\ LocksAreHeld /\ OneByOne /\ Uncrossed /\ ViewsAnswered
  BY DEF PagesInductive
<1>2. /\ RequestFits(next)'
      /\ next.kind = req.kind /\ next.command = req.command /\ next.item = req.item
      /\ next.view = req.view /\ next.live = req.live /\ next.key = req.key
      /\ next.stage = "answered" /\ next.at = revision'
  BY <1>1, AnsweredFits
<1>3. revision \in [Items -> Nat]
  BY <1>1 DEF PagesTyped
<1>4. NoticeFits'
  BY <1>1, <1>3, NoticeStays DEF PagesTyped
<1>5. PagesTyped'
  <2>1. \A x \in pending' : RequestFits(x)'
    BY <1>1, <1>2, <1>3, RequestStays DEF PagesTyped
  <2>2. /\ PageFits(tab)' /\ (view \in Views)' /\ (listed \in Views)' /\ (key \in Nat)'
        /\ (holds \in [Items -> Nat] \cup {NothingYet})' /\ (failed \in BOOLEAN)'
        /\ (busy \in [Slots(tab) -> Items \cup {Unheld}])' /\ busy'["none"] = Unheld
        /\ (budget \in [clicks : Int, turns : Int])'
    BY <1>1 DEF PagesTyped, Slots
  <2> QED BY <1>4, <2>1, <2>2 DEF PagesTyped
<1>6. LocksAreHeld'
  <2> SUFFICES ASSUME tab.catches, NEW s \in Slots(tab), busy[s] # Unheld
               PROVE  \E x \in pending' : x.kind # "load" /\ x.command.slot = s
    BY DEF LocksAreHeld, Slots
  <2>1. PICK r \in pending : r.kind # "load" /\ r.command.slot = s
    BY <1>1 DEF LocksAreHeld
  <2>2. CASE r = req
    <3>1. next \in pending' /\ next.kind # "load" /\ next.command.slot = s
      BY <1>2, <2>1, <2>2
    <3> QED BY <3>1
  <2>3. CASE r # req
    <3>1. r \in pending'
      BY <2>1, <2>3
    <3> QED BY <2>1, <3>1
  <2> QED BY <2>2, <2>3
<1>7. OneByOne'
  <2> SUFFICES ASSUME Exclusive(tab), NEW x \in pending'
               PROVE  /\ ~history.lapped /\ ~(failed /\ holds = NothingYet)
                      /\ x.kind = "load" => holds = NothingYet
                      /\ x.kind # "load" => busy[x.command.slot] # Unheld
    BY DEF OneByOne, Exclusive
  <2>1. PICK r \in pending : x.kind = r.kind /\ x.command = r.command
    BY <1>2
  <2> QED BY <1>1, <2>1 DEF OneByOne
<1>8. Uncrossed'
  <2> SUFFICES ASSUME ~history.lapped
               PROVE  /\ pending' = {next} /\ next.live
                      /\ toast # NoNotice => toast.at <= next.at[toast.item]
                      /\ next.kind = "command" /\ ~tab.catches => toast = NoNotice
                      /\ next.kind = "load" /\ toast # NoNotice /\ ~failed /\ holds # NothingYet =>
                           holds[toast.item] >= toast.at
    BY DEF Uncrossed
  <2>1. toast # NoNotice => toast.at <= revision'[toast.item]
    BY <1>4 DEF NoticeFits
  <2> QED BY <1>1, <1>2, <2>1 DEF Uncrossed
<1>9. ViewsAnswered'
  <2> SUFFICES ASSUME ~history.strayed
               PROVE  /\ \A x \in pending' :
                           /\ x.kind = "load" /\ x.live => x.view = view
                           /\ x.kind # "load" /\ tab.views = "content" /\ x.command.then = "reloads"
                                => x.view = view
                      /\ listed = view \/ history.missed \/ \E x \in pending' : x.kind = "load" /\ x.live
    BY DEF ViewsAnswered
  <2>1. listed = view \/ history.missed \/ \E x \in pending : x.kind = "load" /\ x.live
    BY <1>1 DEF ViewsAnswered
  <2>2. listed = view \/ history.missed \/ \E x \in pending' : x.kind = "load" /\ x.live
    <3>1. ASSUME NEW x \in pending, x.kind = "load", x.live
          PROVE  \E y \in pending' : y.kind = "load" /\ y.live
      BY ZenonT(90), <1>2, <3>1
    <3> QED BY <2>1, <3>1
  <2>3. ASSUME NEW x \in pending'
        PROVE  /\ x.kind = "load" /\ x.live => x.view = view
               /\ x.kind # "load" /\ tab.views = "content" /\ x.command.then = "reloads"
                    => x.view = view
    <3>1. PICK r \in pending : x.kind = r.kind /\ x.command = r.command /\ x.live = r.live
                                /\ x.view = r.view
      BY <1>2
    <3>2. /\ r.kind = "load" /\ r.live => r.view = view
          /\ r.kind # "load" /\ tab.views = "content" /\ r.command.then = "reloads" => r.view = view
      BY <1>1 DEF ViewsAnswered
    <3> QED BY <3>1, <3>2
  <2> QED BY <2>2, <2>3
<1> QED BY <1>5, <1>6, <1>7, <1>8, <1>9

\* The server carries out a command, or has carried it out under that key before.
LEMMA CarriesOutKeeps ==
  ASSUME PagesInductive, NEW req \in pending, CarriesOut(req)
  PROVE  PagesInductive'
<1>1. PagesTyped /\ KeysCounted /\ RequestFits(req)
  BY DEF PagesInductive, PagesTyped
<1>2. PICK next : next = [req EXCEPT !.stage = "answered", !.at = revision']
  OBVIOUS
<1>3. /\ req.kind \in {"command", "publish"} /\ req.stage = "sent"
      /\ pending' = (pending \ {req}) \cup {next}
      /\ UNCHANGED <<tab, view, holds, listed, busy, toast, failed, budget, key>>
  BY <1>2 DEF CarriesOut, Goes
<1>4. CASE UNCHANGED <<revision, acted, history>>
  <2>1. PagesTyped' /\ LocksAreHeld' /\ OneByOne' /\ Uncrossed' /\ ViewsAnswered'
    BY <1>1, <1>2, <1>3, <1>4, RevisionsStay, AnsweredKeeps DEF PagesTyped
  <2>2. next.key = req.key
    BY <1>1, <1>2 DEF RequestFits
  <2>3. KeysCounted'
    BY <1>1, <1>3, <1>4, <2>2 DEF KeysCounted
  <2> QED BY <2>1, <2>3 DEF PagesInductive
<1>5. CASE /\ ~(req.command.kept /\ req.key \in acted)
           /\ revision' = [revision EXCEPT ![req.item] = @ + 1]
           /\ acted' = acted \cup {req.key}
           /\ history' = [history EXCEPT !.carried = @ + 1]
  <2>1. /\ revision' \in [Items -> Nat] /\ \A i \in Items : revision[i] <= revision'[i]
    BY <1>1, <1>3, <1>5 DEF PagesTyped, RequestFits
  <2>2. /\ history' \in [lapped : BOOLEAN, strayed : BOOLEAN, missed : BOOLEAN, carried : Nat,
                         promised : Nat]
        /\ history'.lapped = history.lapped /\ history'.strayed = history.strayed
        /\ history'.missed = history.missed /\ history'.promised = history.promised
        /\ history'.carried = history.carried + 1
    BY <1>1, <1>5 DEF PagesTyped
  <2>3. PagesTyped' /\ LocksAreHeld' /\ OneByOne' /\ Uncrossed' /\ ViewsAnswered'
    BY <1>2, <1>3, <2>1, <2>2, AnsweredKeeps
  <2>4. next.key = req.key
    BY <1>1, <1>2 DEF RequestFits
  <2>5. KeysCounted'
    <3> SUFFICES ASSUME \A command \in tab.commands : command.kept
                 PROVE  /\ key = history'.promised
                        /\ acted' \subseteq 0..key /\ history'.carried = Cardinality(acted')
                        /\ \A r \in pending' : r.key \in 0..key
      BY <1>3 DEF KeysCounted
    <3>1. /\ key = history.promised /\ acted \subseteq 0..key
          /\ history.carried = Cardinality(acted) /\ \A r \in pending : r.key \in 0..key
      BY <1>1 DEF KeysCounted
    <3>2. req.key \notin acted
      BY <1>1, <1>3, <1>5 DEF RequestFits
    <3>3. IsFiniteSet(acted)
      <4>1. IsFiniteSet(0..key)
        BY <1>1, FS_Interval DEF PagesTyped
      <4> QED BY <3>1, <4>1, FS_Subset
    <3>4. Cardinality(acted') = Cardinality(acted) + 1
      BY <1>5, <3>2, <3>3, FS_AddElement
    <3> QED BY <1>3, <1>5, <2>2, <2>4, <3>1, <3>4
  <2> QED BY <2>3, <2>5 DEF PagesInductive
<1> QED BY <1>4, <1>5 DEF CarriesOut

\* The server reads the content.
LEMMA ReadsKeep ==
  ASSUME PagesInductive, NEW req \in pending, Reads(req)
  PROVE  PagesInductive'
<1>1. PagesTyped /\ KeysCounted /\ RequestFits(req)
  BY DEF PagesInductive, PagesTyped
<1>2. PICK next : next = [req EXCEPT !.stage = "answered", !.at = revision]
  OBVIOUS
<1>3. /\ req.stage = "sent" /\ pending' = (pending \ {req}) \cup {next}
      /\ UNCHANGED <<tab, revision, view, holds, listed, busy, toast, failed, budget, key, acted,
                     history>>
  BY <1>2 DEF Reads, Goes
<1>4. next = [req EXCEPT !.stage = "answered", !.at = revision']
  BY <1>2, <1>3
<1>5. PagesTyped' /\ LocksAreHeld' /\ OneByOne' /\ Uncrossed' /\ ViewsAnswered'
  BY <1>1, <1>3, <1>4, RevisionsStay, AnsweredKeeps DEF PagesTyped
<1>6. next.key = req.key
  BY <1>1, <1>2 DEF RequestFits
<1>7. KeysCounted'
  BY <1>1, <1>3, <1>6 DEF KeysCounted
<1> QED BY <1>5, <1>7 DEF PagesInductive

-----------------------------------------------------------------------------
(* Answers.                                                                *)

\* What the notice of a command promises is in its answer.
LEMMA NoticeOfFits ==
  ASSUME NEW r, RequestFits(r), r.item \in Items,
         r.stage = "answered" \/ (r.kind = "reload" /\ ~r.command.asks),
         revision \in [Items -> Nat]
  PROVE  /\ NoticeOf(r).item = r.item /\ NoticeOf(r).at \in Nat
         /\ NoticeOf(r).at <= revision[r.item] /\ NoticeOf(r).at <= r.at[r.item]
         /\ r.command.then = "rests" => NoticeOf(r).at = 0
<1>1. PICK a : a = IF r.command.then = "rests" THEN 0 ELSE r.at[r.item]
  OBVIOUS
<1>2. NoticeOf(r) = [item |-> r.item, at |-> a]
  BY <1>1 DEF NoticeOf
<1>3. r.at[r.item] \in Nat /\ r.at[r.item] <= revision[r.item] /\ revision[r.item] \in Nat
  BY DEF RequestFits
<1>4. /\ a \in Nat /\ a <= revision[r.item] /\ a <= r.at[r.item]
      /\ r.command.then = "rests" => a = 0
  BY <1>1, <1>3
<1> QED BY <1>2, <1>4

\* The lock of a request that ends comes free, and no other.
LEMMA FreesOne ==
  ASSUME PagesTyped, NEW req \in pending, Frees(req), UNCHANGED tab
  PROVE  /\ busy' \in [Slots(tab) -> Items \cup {Unheld}] /\ busy'["none"] = Unheld
         /\ busy'[req.command.slot] = Unheld
         /\ \A s \in Slots(tab) : busy'[s] = busy[s] \/ busy'[s] = Unheld
<1>1. /\ busy \in [Slots(tab) -> Items \cup {Unheld}] /\ busy["none"] = Unheld
      /\ RequestFits(req)
  BY DEF PagesTyped
<1>2. req.command.slot \in Slots(tab) /\ "none" \in Slots(tab)
  BY <1>1, NoCommandFacts DEF RequestFits, Slots
<1> QED BY <1>1, <1>2 DEF Frees

\* While a request ends and its lock comes free, the other locks stay held by theirs.
LEMMA FreesKeeps ==
  ASSUME PagesTyped, LocksAreHeld, NEW req \in pending, Frees(req), UNCHANGED tab,
         pending' = pending \ {req}
  PROVE  LocksAreHeld'
<1> SUFFICES ASSUME tab.catches, NEW s \in Slots(tab), busy'[s] # Unheld
             PROVE  \E x \in pending' : x.kind # "load" /\ x.command.slot = s
  BY DEF LocksAreHeld, Slots
<1>1. busy[s] # Unheld /\ s # req.command.slot
  BY FreesOne
<1>2. PICK r \in pending : r.kind # "load" /\ r.command.slot = s
  BY <1>1 DEF LocksAreHeld
<1> QED BY <1>1, <1>2

\* On a page where requests do not cross, the last one leaves nothing under way.
LEMMA LastOfUncrossed ==
  ASSUME Uncrossed, NEW req \in pending, pending' = pending \ {req}, ~history.lapped
  PROVE  pending' = {} /\ pending = {req} /\ req.live
BY DEF Uncrossed

\* A request ends and shows or changes what it may: what is left to show is that the notice is
\* on the screen, and the view answered.
LEMMA EndsKeeps ==
  ASSUME PagesInductive, NEW req \in pending, pending' = pending \ {req},
         UNCHANGED <<tab, revision, view, budget, acted>>,
         listed' \in Views, holds' \in [Items -> Nat] \cup {NothingYet},
         holds \in [Items -> Nat] => holds' \in [Items -> Nat],
         busy' \in [Slots(tab) -> Items \cup {Unheld}], busy'["none"] = Unheld,
         NoticeFits', failed' \in BOOLEAN, key' \in Nat,
         history' \in [lapped : BOOLEAN, strayed : BOOLEAN, missed : BOOLEAN, carried : Nat,
                       promised : Nat],
         history'.lapped = history.lapped
  PROVE  PagesTyped' /\ OneByOne'
<1>1. PagesTyped /\ OneByOne /\ Uncrossed
  BY DEF PagesInductive
<1>2. /\ revision \in [Items -> Nat] /\ revision' \in [Items -> Nat]
      /\ \A i \in Items : revision[i] <= revision'[i]
  BY <1>1, RevisionsStay
<1>3. \A x \in pending' : RequestFits(x)'
  BY <1>1, <1>2, RequestStays DEF PagesTyped
<1>4. PagesTyped'
  <2>1. /\ PageFits(tab)' /\ (view \in Views)' /\ (budget \in [clicks : Int, turns : Int])'
        /\ (busy \in [Slots(tab) -> Items \cup {Unheld}])'
    BY <1>1 DEF PagesTyped, Slots
  <2> QED BY <1>2, <1>3, <2>1 DEF PagesTyped
<1>5. OneByOne'
  <2> SUFFICES ASSUME Exclusive(tab)
               PROVE  ~history'.lapped /\ pending' = {}
    BY DEF OneByOne, Exclusive
  <2>1. ~history.lapped
    BY <1>1 DEF OneByOne
  <2> QED BY <1>1, <2>1, LastOfUncrossed
<1> QED BY <1>4, <1>5

\* A load of the page is answered.
LEMMA AnswersPageLoadKeeps ==
  ASSUME PagesInductive, NEW req \in pending, AnswersPageLoad(req)
  PROVE  PagesInductive'
<1>1. /\ PagesTyped /\ LocksAreHeld /\ OneByOne /\ Uncrossed /\ ViewsAnswered /\ KeysCounted
      /\ RequestFits(req)
  BY DEF PagesInductive, PagesTyped
<1>2. /\ req.kind = "load" /\ req.stage = "answered" /\ pending' = pending \ {req}
      /\ UNCHANGED <<tab, revision, view, budget, key, acted>>
  BY DEF AnswersPageLoad
<1>3. req.at \in [Items -> Nat] /\ req.view \in Views
  BY <1>1, <1>2 DEF RequestFits
<1>5. CASE req.live
  <2>1. /\ holds' \in {req.at, holds} /\ listed' = req.view /\ Frees(req)
        /\ tab.views # "own list" => holds' = req.at
        /\ toast' \in {toast, NoNotice}
        /\ failed' = (failed /\ "error" \notin tab.wipes)
        /\ history' = [history EXCEPT !.missed = FALSE]
    BY <1>2, <1>5 DEF AnswersPageLoad, Shows
  <2>2. NoticeFits'
    BY <1>1, <1>2, <2>1, RevisionsStay, NoticeStays DEF PagesTyped
  <2>3. /\ history' \in [lapped : BOOLEAN, strayed : BOOLEAN, missed : BOOLEAN, carried : Nat,
                         promised : Nat]
        /\ history'.lapped = history.lapped /\ history'.strayed = history.strayed
        /\ history'.carried = history.carried /\ history'.promised = history.promised
    BY <1>1, <2>1 DEF PagesTyped
  <2>4. failed' \in BOOLEAN
    BY <2>1
  <2>5. PagesTyped' /\ OneByOne'
    <3>1. /\ key' \in Nat /\ holds' \in [Items -> Nat] \cup {NothingYet}
          /\ holds \in [Items -> Nat] => holds' \in [Items -> Nat]
          /\ busy' \in [Slots(tab) -> Items \cup {Unheld}] /\ busy'["none"] = Unheld
      BY <1>1, <1>2, <1>3, <2>1, FreesOne DEF PagesTyped
    <3> QED BY <1>2, <1>3, <2>1, <2>2, <2>3, <2>4, <3>1, EndsKeeps
  <2>6. Uncrossed'
    <3> SUFFICES ASSUME ~history.lapped
                 PROVE  /\ pending' = {}
                        /\ toast' # NoNotice /\ ~failed' /\ holds' # NothingYet =>
                             holds'[toast'.item] >= toast'.at
      BY <2>3 DEF Uncrossed
    <3>1. pending' = {} /\ pending = {req}
      BY <1>1, <1>2, LastOfUncrossed
    <3>2. ASSUME toast' # NoNotice, holds' = req.at
          PROVE  holds'[toast'.item] >= toast'.at
      <4>1. toast' = toast /\ toast.at <= req.at[toast.item]
        BY <1>1, <1>2, <2>1, <3>2 DEF Uncrossed
      <4>2. toast.at \in Nat /\ toast.item \in Items
        BY <1>1, <3>2, <4>1 DEF PagesTyped, NoticeFits
      <4> QED BY <1>3, <3>2, <4>1, <4>2
    <3>3. ASSUME toast' # NoNotice, ~failed', holds' # NothingYet, holds' = holds,
                 tab.views = "own list"
          PROVE  holds'[toast'.item] >= toast'.at
      <4>1. toast' = toast /\ ~failed
        <5>1. "error" \notin tab.wipes
          BY <1>1, <3>3 DEF PagesTyped, PageFits
        <5> QED BY <2>1, <3>3, <5>1
      <4> QED BY <1>1, <1>2, <3>1, <3>3, <4>1 DEF Uncrossed
    <3> QED BY <2>1, <3>1, <3>2, <3>3
  <2>7. ViewsAnswered'
    BY <1>1, <1>2, <1>5, <2>1, <2>3 DEF ViewsAnswered
  <2>8. KeysCounted'
    BY <1>1, <1>2, <2>3 DEF KeysCounted
  <2>9. LocksAreHeld'
    BY <1>1, <1>2, <2>1, FreesKeeps
  <2> QED BY <2>5, <2>6, <2>7, <2>8, <2>9 DEF PagesInductive
<1>6. CASE ~req.live
  <2>1. UNCHANGED <<holds, listed, busy, toast, failed, history>>
    BY <1>2, <1>6 DEF AnswersPageLoad
  <2>2. NoticeFits'
    BY <1>1, <1>2, <2>1, RevisionsStay, NoticeStays DEF PagesTyped
  <2>3. PagesTyped' /\ OneByOne'
    <3>1. /\ busy'["none"] = Unheld /\ key' \in Nat
          /\ busy' \in [Slots(tab) -> Items \cup {Unheld}]
          /\ listed' \in Views /\ holds' \in [Items -> Nat] \cup {NothingYet} /\ failed' \in BOOLEAN
          /\ history' \in [lapped : BOOLEAN, strayed : BOOLEAN, missed : BOOLEAN, carried : Nat,
                           promised : Nat]
      BY <1>1, <1>2, <2>1 DEF PagesTyped
    <3> QED BY <1>2, <2>1, <2>2, <3>1, EndsKeeps
  <2>4. Uncrossed'
    BY <1>1, <1>2, <1>6, <2>1, LastOfUncrossed DEF Uncrossed
  <2>5. ViewsAnswered'
    <3> SUFFICES ASSUME ~history.strayed
                 PROVE  listed = view \/ history.missed \/ \E x \in pending' : x.kind = "load" /\ x.live
      BY <1>1, <1>2, <2>1 DEF ViewsAnswered
    <3> QED BY <1>1, <1>2, <1>6 DEF ViewsAnswered
  <2>6. KeysCounted'
    BY <1>1, <1>2, <2>1 DEF KeysCounted
  <2>7. LocksAreHeld'
    <3> SUFFICES ASSUME tab.catches, NEW s \in Slots(tab), busy[s] # Unheld
                 PROVE  \E x \in pending' : x.kind # "load" /\ x.command.slot = s
      BY <1>2, <2>1 DEF LocksAreHeld, Slots
    <3>1. PICK r \in pending : r.kind # "load" /\ r.command.slot = s
      BY <1>1 DEF LocksAreHeld
    <3> QED BY <1>2, <3>1
  <2> QED BY <2>3, <2>4, <2>5, <2>6, <2>7 DEF PagesInductive
<1> QED BY <1>5, <1>6

\* A command goes on to the load that follows it.
LEMMA GoesOnKeeps ==
  ASSUME PagesInductive, NEW req \in pending, ThenReloads(req)
  PROVE  PagesInductive'
<1>1. /\ PagesTyped /\ LocksAreHeld /\ OneByOne /\ Uncrossed /\ ViewsAnswered /\ KeysCounted
      /\ RequestFits(req)
  BY DEF PagesInductive, PagesTyped
<1>2. PICK next : next = [req EXCEPT !.kind = "reload", !.stage = "sent"]
  OBVIOUS
<1>3. /\ req.kind = "command" /\ req.stage = "answered"
      /\ key' = (IF req.command.kept THEN key + 1 ELSE key)
      /\ history' = [history EXCEPT !.promised = @ + 1]
      /\ pending' = (pending \ {req}) \cup {next}
      /\ UNCHANGED <<tab, revision, view, holds, listed, busy, budget, acted>>
  BY <1>2 DEF ThenReloads, Succeeds, Goes
<1>4. \/ toast' = NoticeOf(req) /\ failed' = (tab.apart /\ failed)
      \/ UNCHANGED <<toast, failed>>
  BY DEF ThenReloads, Told
<1>5. /\ req.command \in tab.commands /\ req.item \in Items /\ req.command.then = "reloads"
      /\ revision \in [Items -> Nat]
  BY <1>1, <1>3 DEF RequestFits, PagesTyped, ThenReloads
<1>6. /\ next.kind = "reload" /\ next.command = req.command /\ next.item = req.item
      /\ next.view = req.view /\ next.live = req.live /\ next.key = req.key
      /\ next.stage = "sent" /\ next.at = req.at
      /\ next \in [n : Int, kind : {"load", "command", "publish", "reload"}, command : tab.commands \cup {NoCommand},
               item : Items \cup {Unheld}, view : Views, live : BOOLEAN, key : Nat,
               stage : {"sent", "answered"}, at : [Items -> Nat] \cup {NothingYet}]
  BY <1>1, <1>2 DEF RequestFits
<1>7. RequestFits(next)
  BY <1>1, <1>3, <1>5, <1>6 DEF RequestFits
<1>8. /\ history' \in [lapped : BOOLEAN, strayed : BOOLEAN, missed : BOOLEAN, carried : Nat,
                       promised : Nat]
      /\ history'.lapped = history.lapped /\ history'.strayed = history.strayed
      /\ history'.missed = history.missed /\ history'.carried = history.carried
      /\ history'.promised = history.promised + 1
  BY <1>1, <1>3 DEF PagesTyped
<1>9. /\ revision' \in [Items -> Nat] /\ \A i \in Items : revision[i] <= revision'[i]
  BY <1>1, <1>3, RevisionsStay
<1>10. NoticeFits'
  <2>1. CASE toast' = toast
    BY <1>1, <1>5, <1>9, <2>1, NoticeStays DEF PagesTyped
  <2>2. CASE toast' = NoticeOf(req)
    BY <1>1, <1>3, <1>5, <2>2, NoticeOfFits DEF NoticeFits
  <2> QED BY <1>4, <2>1, <2>2
<1>11. PagesTyped'
  <2>1. \A x \in pending' : RequestFits(x)'
    BY <1>1, <1>3, <1>5, <1>7, <1>9, RequestStays DEF PagesTyped
  <2>2. /\ PageFits(tab)' /\ (view \in Views)' /\ (listed \in Views)'
        /\ (holds \in [Items -> Nat] \cup {NothingYet})'
        /\ (busy \in [Slots(tab) -> Items \cup {Unheld}])' /\ busy'["none"] = Unheld
        /\ (budget \in [clicks : Int, turns : Int])'
    BY <1>1, <1>3 DEF PagesTyped, Slots
  <2>3. key' \in Nat
    BY <1>1, <1>3 DEF PagesTyped
  <2>4. failed' \in BOOLEAN
    BY <1>1, <1>4 DEF PagesTyped
  <2> QED BY <1>8, <1>9, <1>10, <2>1, <2>2, <2>3, <2>4 DEF PagesTyped
<1>12. LocksAreHeld'
  <2> SUFFICES ASSUME tab.catches, NEW s \in Slots(tab), busy[s] # Unheld
               PROVE  \E x \in pending' : x.kind # "load" /\ x.command.slot = s
    BY <1>3 DEF LocksAreHeld, Slots
  <2>1. PICK r \in pending : r.kind # "load" /\ r.command.slot = s
    BY <1>1 DEF LocksAreHeld
  <2> QED BY <1>3, <1>6, <2>1
<1>13. OneByOne'
  <2> SUFFICES ASSUME Exclusive(tab), NEW x \in pending'
               PROVE  /\ ~history.lapped /\ ~(failed /\ holds = NothingYet)
                      /\ x.kind = "load" => holds = NothingYet
                      /\ x.kind # "load" => busy[x.command.slot] # Unheld
    BY <1>3, <1>4, <1>8 DEF OneByOne, Exclusive
  <2>1. PICK r \in pending : (x.kind = "load" <=> r.kind = "load") /\ x.command = r.command
    BY <1>3, <1>6
  <2> QED BY <1>1, <2>1 DEF OneByOne
<1>14. Uncrossed'
  <2> SUFFICES ASSUME ~history.lapped
               PROVE  pending' = {next} /\ next.live
    BY <1>6, <1>8 DEF Uncrossed
  <2> QED BY <1>1, <1>3, <1>6 DEF Uncrossed
<1>15. ViewsAnswered'
  <2> SUFFICES ASSUME ~history.strayed
               PROVE  /\ \A x \in pending' :
                           /\ x.kind = "load" /\ x.live => x.view = view
                           /\ x.kind # "load" /\ tab.views = "content" /\ x.command.then = "reloads"
                                => x.view = view
                      /\ listed = view \/ history.missed \/ \E x \in pending' : x.kind = "load" /\ x.live
    BY <1>3, <1>8 DEF ViewsAnswered
  <2>1. listed = view \/ history.missed \/ \E x \in pending : x.kind = "load" /\ x.live
    BY <1>1 DEF ViewsAnswered
  <2>2. listed = view \/ history.missed \/ \E x \in pending' : x.kind = "load" /\ x.live
    BY <1>3, <2>1
  <2>3. ASSUME NEW x \in pending'
        PROVE  /\ x.kind = "load" /\ x.live => x.view = view
               /\ x.kind # "load" /\ tab.views = "content" /\ x.command.then = "reloads"
                    => x.view = view
    <3>1. PICK r \in pending : (x.kind = "load" <=> r.kind = "load") /\ x.command = r.command
                               /\ x.live = r.live /\ x.view = r.view
      BY <1>3, <1>6
    <3>2. /\ r.kind = "load" /\ r.live => r.view = view
          /\ r.kind # "load" /\ tab.views = "content" /\ r.command.then = "reloads" => r.view = view
      BY <1>1 DEF ViewsAnswered
    <3> QED BY <3>1, <3>2
  <2> QED BY <2>2, <2>3
<1>16. KeysCounted'
  <2> SUFFICES ASSUME \A command \in tab.commands : command.kept
               PROVE  /\ key' = history'.promised
                      /\ acted \subseteq 0..key' /\ history'.carried = Cardinality(acted)
                      /\ \A x \in pending' : x.key \in 0..key'
    BY <1>3 DEF KeysCounted
  <2>1. /\ key = history.promised /\ acted \subseteq 0..key
        /\ history.carried = Cardinality(acted) /\ \A r \in pending : r.key \in 0..key
    BY <1>1 DEF KeysCounted
  <2>2. key' = key + 1 /\ key \in Nat
    BY <1>1, <1>3, <1>5 DEF PagesTyped
  <2>3. 0..key \subseteq 0..key'
    BY <2>2
  <2> QED BY <1>3, <1>6, <1>8, <2>1, <2>2, <2>3
<1> QED BY <1>11, <1>12, <1>13, <1>14, <1>15, <1>16 DEF PagesInductive

\* What was saved is shown, and published next.
LEMMA SavesFirstKeeps ==
  ASSUME PagesInductive, NEW req \in pending, SavesFirst(req)
  PROVE  PagesInductive'
<1>1. /\ PagesTyped /\ LocksAreHeld /\ OneByOne /\ Uncrossed /\ ViewsAnswered /\ KeysCounted
      /\ RequestFits(req)
  BY DEF PagesInductive, PagesTyped
<1>2. PICK next : next = [req EXCEPT !.kind = "publish", !.stage = "sent"]
  OBVIOUS
<1>3. /\ req.kind = "command" /\ req.stage = "answered"
      /\ key' = (IF req.command.kept THEN key + 1 ELSE key)
      /\ history' = [history EXCEPT !.promised = @ + 1]
      /\ pending' = (pending \ {req}) \cup {next}
      /\ holds' = req.at
      /\ UNCHANGED <<tab, revision, view, listed, busy, toast, failed, budget, acted>>
  BY <1>2 DEF SavesFirst, Succeeds, Goes
<1>4. req.at \in [Items -> Nat]
  BY <1>1, <1>3 DEF RequestFits
<1>5. /\ req.command \in tab.commands /\ req.item \in Items /\ req.command.then = "publishes"
      /\ revision \in [Items -> Nat]
  BY <1>1, <1>3 DEF RequestFits, PagesTyped, SavesFirst
<1>6. /\ next.kind = "publish" /\ next.command = req.command /\ next.item = req.item
      /\ next.view = req.view /\ next.live = req.live /\ next.key = req.key
      /\ next.stage = "sent" /\ next.at = req.at
      /\ next \in [n : Int, kind : {"load", "command", "publish", "reload"}, command : tab.commands \cup {NoCommand},
               item : Items \cup {Unheld}, view : Views, live : BOOLEAN, key : Nat,
               stage : {"sent", "answered"}, at : [Items -> Nat] \cup {NothingYet}]
  BY <1>1, <1>2 DEF RequestFits
<1>7. RequestFits(next)
  BY <1>1, <1>3, <1>5, <1>6 DEF RequestFits
<1>8. /\ history' \in [lapped : BOOLEAN, strayed : BOOLEAN, missed : BOOLEAN, carried : Nat,
                       promised : Nat]
      /\ history'.lapped = history.lapped /\ history'.strayed = history.strayed
      /\ history'.missed = history.missed /\ history'.carried = history.carried
      /\ history'.promised = history.promised + 1
  BY <1>1, <1>3 DEF PagesTyped
<1>9. /\ revision' \in [Items -> Nat] /\ \A i \in Items : revision[i] <= revision'[i]
  BY <1>1, <1>3, RevisionsStay
<1>10. NoticeFits'
  BY <1>1, <1>3, <1>5, <1>9, NoticeStays DEF PagesTyped
<1>11. PagesTyped'
  <2>1. \A x \in pending' : RequestFits(x)'
    BY <1>1, <1>3, <1>4, <1>5, <1>7, <1>9, RequestStays DEF PagesTyped
  <2>2. /\ PageFits(tab)' /\ (view \in Views)' /\ (listed \in Views)'
        /\ (holds \in [Items -> Nat] \cup {NothingYet})'
        /\ (busy \in [Slots(tab) -> Items \cup {Unheld}])' /\ busy'["none"] = Unheld
        /\ (budget \in [clicks : Int, turns : Int])'
    BY <1>1, <1>3, <1>4 DEF PagesTyped, Slots
  <2>3. key' \in Nat
    BY <1>1, <1>3 DEF PagesTyped
  <2>4. failed' \in BOOLEAN
    BY <1>1, <1>3 DEF PagesTyped
  <2> QED BY <1>8, <1>9, <1>10, <2>1, <2>2, <2>3, <2>4 DEF PagesTyped
<1>12. LocksAreHeld'
  <2> SUFFICES ASSUME tab.catches, NEW s \in Slots(tab), busy[s] # Unheld
               PROVE  \E x \in pending' : x.kind # "load" /\ x.command.slot = s
    BY <1>3 DEF LocksAreHeld, Slots
  <2>1. PICK r \in pending : r.kind # "load" /\ r.command.slot = s
    BY <1>1 DEF LocksAreHeld
  <2> QED BY <1>3, <1>6, <2>1
<1>13. OneByOne'
  <2> SUFFICES ASSUME Exclusive(tab)
               PROVE  /\ ~history.lapped /\ pending' = {next} /\ busy[next.command.slot] # Unheld
                      /\ ~(failed /\ holds' = NothingYet)
    BY <1>3, <1>6, <1>8 DEF OneByOne, Exclusive
  <2>1. /\ ~history.lapped /\ busy[req.command.slot] # Unheld /\ ~(failed /\ holds = NothingYet)
    BY <1>1, <1>3 DEF OneByOne
  <2>2. pending' = {next}
    BY <1>1, <1>3, <2>1 DEF Uncrossed
  <2>3. holds' # NothingYet
    <3>1. req.at[req.item] \in Nat /\ NothingYet[req.item] = -1
      BY <1>4, <1>5 DEF NothingYet
    <3> QED BY <1>3, <3>1
  <2> QED BY <1>3, <1>4, <1>6, <2>1, <2>2, <2>3
<1>14. Uncrossed'
  <2> SUFFICES ASSUME ~history.lapped
               PROVE  pending' = {next} /\ next.live
    BY <1>6, <1>8 DEF Uncrossed
  <2> QED BY <1>1, <1>3, <1>6 DEF Uncrossed
<1>15. ViewsAnswered'
  <2> SUFFICES ASSUME ~history.strayed
               PROVE  /\ \A x \in pending' :
                           /\ x.kind = "load" /\ x.live => x.view = view
                           /\ x.kind # "load" /\ tab.views = "content" /\ x.command.then = "reloads"
                                => x.view = view
                      /\ listed = view \/ history.missed \/ \E x \in pending' : x.kind = "load" /\ x.live
    BY <1>3, <1>8 DEF ViewsAnswered
  <2>1. listed = view \/ history.missed \/ \E x \in pending : x.kind = "load" /\ x.live
    BY <1>1 DEF ViewsAnswered
  <2>2. listed = view \/ history.missed \/ \E x \in pending' : x.kind = "load" /\ x.live
    BY <1>3, <2>1
  <2>3. ASSUME NEW x \in pending'
        PROVE  /\ x.kind = "load" /\ x.live => x.view = view
               /\ x.kind # "load" /\ tab.views = "content" /\ x.command.then = "reloads"
                    => x.view = view
    <3>1. PICK r \in pending : (x.kind = "load" <=> r.kind = "load") /\ x.command = r.command
                               /\ x.live = r.live /\ x.view = r.view
      BY <1>3, <1>6
    <3>2. /\ r.kind = "load" /\ r.live => r.view = view
          /\ r.kind # "load" /\ tab.views = "content" /\ r.command.then = "reloads" => r.view = view
      BY <1>1 DEF ViewsAnswered
    <3> QED BY <3>1, <3>2
  <2> QED BY <2>2, <2>3
<1>16. KeysCounted'
  <2> SUFFICES ASSUME \A command \in tab.commands : command.kept
               PROVE  /\ key' = history'.promised
                      /\ acted \subseteq 0..key' /\ history'.carried = Cardinality(acted)
                      /\ \A x \in pending' : x.key \in 0..key'
    BY <1>3 DEF KeysCounted
  <2>1. /\ key = history.promised /\ acted \subseteq 0..key
        /\ history.carried = Cardinality(acted) /\ \A r \in pending : r.key \in 0..key
    BY <1>1 DEF KeysCounted
  <2>2. key' = key + 1 /\ key \in Nat
    BY <1>1, <1>3, <1>5 DEF PagesTyped
  <2>3. 0..key \subseteq 0..key'
    BY <2>2
  <2> QED BY <1>3, <1>6, <1>8, <2>1, <2>2, <2>3
<1> QED BY <1>11, <1>12, <1>13, <1>14, <1>15, <1>16 DEF PagesInductive

\* A command is done with its own answer.
LEMMA IsDoneKeeps ==
  ASSUME PagesInductive, NEW req \in pending, IsDone(req)
  PROVE  PagesInductive'
<1>1. /\ PagesTyped /\ LocksAreHeld /\ OneByOne /\ Uncrossed /\ ViewsAnswered /\ KeysCounted
      /\ RequestFits(req)
  BY DEF PagesInductive, PagesTyped
<1>2. /\ req.kind \in {"command", "publish"} /\ req.stage = "answered"
      /\ key' = (IF req.command.kept THEN key + 1 ELSE key)
      /\ history' = [history EXCEPT !.promised = @ + 1]
      /\ pending' = pending \ {req}
      /\ holds' = ContentAfter(req)
      /\ toast' = NoticeOf(req) /\ failed' = (tab.apart /\ failed)
      /\ Frees(req)
      /\ UNCHANGED <<tab, revision, view, listed, budget, acted>>
  BY DEF IsDone, Succeeds, Told
<1>3. /\ req.command \in tab.commands /\ req.item \in Items
      /\ req.at \in [Items -> Nat] /\ revision \in [Items -> Nat]
      /\ req.command.then = "merges" => holds \in [Items -> Nat]
      /\ holds \in [Items -> Nat] \cup {NothingYet}
      /\ req.command.then # "reloads"
  BY <1>1, <1>2 DEF RequestFits, PagesTyped, IsDone
<1>4. /\ history' \in [lapped : BOOLEAN, strayed : BOOLEAN, missed : BOOLEAN, carried : Nat,
                       promised : Nat]
      /\ history'.lapped = history.lapped /\ history'.strayed = history.strayed
      /\ history'.missed = history.missed /\ history'.carried = history.carried
      /\ history'.promised = history.promised + 1
  BY <1>1, <1>2 DEF PagesTyped
<1>5. /\ holds' \in [Items -> Nat] \cup {NothingYet}
      /\ holds \in [Items -> Nat] => holds' \in [Items -> Nat]
      /\ req.command.then \in {"replaces", "publishes", "merges"} =>
           /\ holds' \in [Items -> Nat]
           /\ holds'[req.item] = req.at[req.item]
      /\ req.command.then \notin {"replaces", "publishes", "merges"} => holds' = holds
  BY <1>2, <1>3 DEF ContentAfter
<1>6. /\ NoticeOf(req).item = req.item /\ NoticeOf(req).at \in Nat
      /\ NoticeOf(req).at <= revision[req.item]
      /\ NoticeOf(req).at <= req.at[req.item]
      /\ req.command.then = "rests" => NoticeOf(req).at = 0
  BY <1>1, <1>2, <1>3, NoticeOfFits
<1>7. NoticeFits'
  BY <1>2, <1>3, <1>6 DEF NoticeFits
<1>8. PagesTyped' /\ OneByOne'
  <2>1. /\ listed' \in Views /\ failed' \in BOOLEAN /\ key' \in Nat
    BY <1>1, <1>2 DEF PagesTyped
  <2> QED BY <1>1, <1>2, <1>4, <1>5, <1>7, <2>1, FreesOne, EndsKeeps
<1>9. LocksAreHeld'
  BY <1>1, <1>2, FreesKeeps
<1>10. Uncrossed'
  <2> SUFFICES ASSUME ~history.lapped, holds' # NothingYet
               PROVE  pending' = {} /\ holds'[toast'.item] >= toast'.at
    BY <1>1, <1>2, <1>4, LastOfUncrossed DEF Uncrossed
  <2>1. pending' = {}
    BY <1>1, <1>2, LastOfUncrossed
  <2>2. CASE req.command.then \in {"replaces", "publishes", "merges"}
    BY <1>2, <1>3, <1>5, <1>6, <2>1, <2>2
  <2>3. CASE req.command.then \notin {"replaces", "publishes", "merges"}
    <3>1. holds' = holds /\ holds \in [Items -> Nat] /\ holds[req.item] \in Nat
      BY <1>3, <1>5, <2>3
    <3>2. req.command.then \in {"reloads", "replaces", "publishes", "merges", "rests"}
      BY <1>1, <1>3 DEF PagesTyped, PageFits
    <3>3. NoticeOf(req).at = 0
      BY <1>3, <1>6, <2>3, <3>2
    <3> QED BY <1>2, <1>6, <2>1, <3>1, <3>3
  <2> QED BY <2>2, <2>3
<1>11. ViewsAnswered'
  <2> SUFFICES ASSUME ~history.strayed
               PROVE  listed = view \/ history.missed \/ \E x \in pending' : x.kind = "load" /\ x.live
    BY <1>1, <1>2, <1>4 DEF ViewsAnswered
  <2> QED BY <1>1, <1>2 DEF ViewsAnswered
<1>12. KeysCounted'
  <2> SUFFICES ASSUME \A command \in tab.commands : command.kept
               PROVE  /\ key' = history'.promised
                      /\ acted \subseteq 0..key' /\ history'.carried = Cardinality(acted)
                      /\ \A x \in pending' : x.key \in 0..key'
    BY <1>2 DEF KeysCounted
  <2>1. /\ key = history.promised /\ acted \subseteq 0..key
        /\ history.carried = Cardinality(acted) /\ \A r \in pending : r.key \in 0..key
    BY <1>1 DEF KeysCounted
  <2>2. key' = key + 1 /\ key \in Nat
    BY <1>1, <1>2, <1>3 DEF PagesTyped
  <2>3. 0..key \subseteq 0..key'
    BY <2>2
  <2> QED BY <1>2, <1>4, <2>1, <2>2, <2>3
<1> QED BY <1>8, <1>9, <1>10, <1>11, <1>12 DEF PagesInductive

\* The load after a command is answered.
LEMMA AnswersReloadKeeps ==
  ASSUME PagesInductive, NEW req \in pending, AnswersReload(req)
  PROVE  PagesInductive'
<1>1. /\ PagesTyped /\ LocksAreHeld /\ OneByOne /\ Uncrossed /\ ViewsAnswered /\ KeysCounted
      /\ RequestFits(req)
  BY DEF PagesInductive, PagesTyped
<1>2. /\ req.kind = "reload" /\ req.stage = "answered" /\ pending' = pending \ {req}
      /\ holds' = req.at /\ Frees(req)
      /\ listed' = (IF tab.views = "content" THEN req.view ELSE listed)
      /\ UNCHANGED <<tab, revision, view, budget, key, acted, history>>
  BY DEF AnswersReload, Shows
<1>3. PICK t : t = [item |-> req.item, at |-> req.at[req.item]]
  OBVIOUS
<1>4. \/ toast' = t /\ failed' = (tab.apart /\ failed)
      \/ toast' \in {toast, NoNotice} /\ failed' = (failed /\ "error" \notin tab.wipes)
  BY <1>3 DEF AnswersReload, Told
<1>5. /\ req.item \in Items /\ req.at \in [Items -> Nat] /\ req.view \in Views
      /\ req.command.then = "reloads" /\ revision \in [Items -> Nat]
      /\ \A i \in Items : req.at[i] <= revision[i]
  BY <1>1, <1>2 DEF RequestFits, PagesTyped
<1>6. t.item = req.item /\ t.at = req.at[req.item]
  BY <1>3
<1>7. NoticeFits'
  <2>1. CASE toast' = t
    BY <1>2, <1>5, <1>6, <2>1 DEF NoticeFits
  <2>2. CASE toast' \in {toast, NoNotice}
    BY <1>1, <1>2, <1>5, <2>2, RevisionsStay, NoticeStays DEF PagesTyped
  <2> QED BY <1>4, <2>1, <2>2
<1>8. PagesTyped' /\ OneByOne'
  <2>1. /\ listed' \in Views /\ key' \in Nat
        /\ history' \in [lapped : BOOLEAN, strayed : BOOLEAN, missed : BOOLEAN, carried : Nat,
                         promised : Nat]
    BY <1>1, <1>2, <1>5 DEF PagesTyped
  <2>2. failed' \in BOOLEAN
    BY <1>1, <1>4 DEF PagesTyped
  <2> QED BY <1>1, <1>2, <1>5, <1>7, <2>1, <2>2, FreesOne, EndsKeeps
<1>9. LocksAreHeld'
  BY <1>1, <1>2, FreesKeeps
<1>10. Uncrossed'
  <2> SUFFICES ASSUME ~history.lapped, toast' # NoNotice
               PROVE  pending' = {} /\ holds'[toast'.item] >= toast'.at
    BY <1>1, <1>2, LastOfUncrossed DEF Uncrossed
  <2>1. pending' = {} /\ pending = {req}
    BY <1>1, <1>2, LastOfUncrossed
  <2>2. CASE toast' = t
    BY <1>2, <1>5, <1>6, <2>1, <2>2
  <2>3. CASE toast' = toast
    <3>1. toast.at <= req.at[toast.item]
      BY <1>1, <1>2, <2>3 DEF Uncrossed
    <3>2. toast.at \in Nat /\ toast.item \in Items
      BY <1>1, <2>3 DEF PagesTyped, NoticeFits
    <3> QED BY <1>2, <1>5, <2>1, <2>3, <3>1, <3>2
  <2> QED BY <1>4, <2>2, <2>3
<1>11. ViewsAnswered'
  <2> SUFFICES ASSUME ~history.strayed
               PROVE  listed' = view \/ history.missed \/ \E x \in pending' : x.kind = "load" /\ x.live
    BY <1>1, <1>2 DEF ViewsAnswered
  <2>1. tab.views = "content" => req.view = view
    BY <1>1, <1>2, <1>5 DEF ViewsAnswered
  <2> QED BY <1>1, <1>2, <2>1 DEF ViewsAnswered
<1>12. KeysCounted'
  BY <1>1, <1>2 DEF KeysCounted
<1> QED BY <1>8, <1>9, <1>10, <1>11, <1>12 DEF PagesInductive

\* A request fails, before or after the server acted.
LEMMA FailsKeep ==
  ASSUME PagesInductive, NEW req \in pending, Fails(req)
  PROVE  PagesInductive'
<1>1. /\ PagesTyped /\ LocksAreHeld /\ OneByOne /\ Uncrossed /\ ViewsAnswered /\ KeysCounted
      /\ RequestFits(req)
  BY DEF PagesInductive, PagesTyped
<1>2. /\ pending' = pending \ {req}
      /\ UNCHANGED <<tab, revision, view, holds, listed, budget, key, acted>>
  BY DEF Fails
<1>3. /\ listed' \in Views /\ key' \in Nat /\ holds' \in [Items -> Nat] \cup {NothingYet}
      /\ holds \in [Items -> Nat] => holds' \in [Items -> Nat]
      /\ revision \in [Items -> Nat]
  BY <1>1, <1>2 DEF PagesTyped
<1>4. CASE req.kind = "load" /\ ~req.live
  <2>1. UNCHANGED <<toast, failed, busy, history>>
    BY <1>4 DEF Fails
  <2>2. NoticeFits'
    BY <1>1, <1>2, <2>1, RevisionsStay, NoticeStays DEF PagesTyped
  <2>3. PagesTyped' /\ OneByOne'
    <3>1. /\ busy' \in [Slots(tab) -> Items \cup {Unheld}] /\ busy'["none"] = Unheld
          /\ failed' \in BOOLEAN
          /\ history' \in [lapped : BOOLEAN, strayed : BOOLEAN, missed : BOOLEAN, carried : Nat,
                           promised : Nat]
      BY <1>1, <2>1 DEF PagesTyped
    <3> QED BY <1>2, <1>3, <2>1, <2>2, <3>1, EndsKeeps
  <2>4. LocksAreHeld'
    <3> SUFFICES ASSUME tab.catches, NEW s \in Slots(tab), busy[s] # Unheld
                 PROVE  \E x \in pending' : x.kind # "load" /\ x.command.slot = s
      BY <1>2, <2>1 DEF LocksAreHeld, Slots
    <3>1. PICK r \in pending : r.kind # "load" /\ r.command.slot = s
      BY <1>1 DEF LocksAreHeld
    <3> QED BY <1>2, <1>4, <3>1
  <2>5. Uncrossed'
    BY <1>1, <1>2, <1>4, <2>1, LastOfUncrossed DEF Uncrossed
  <2>6. ViewsAnswered'
    <3> SUFFICES ASSUME ~history.strayed
                 PROVE  listed = view \/ history.missed \/ \E x \in pending' : x.kind = "load" /\ x.live
      BY <1>1, <1>2, <2>1 DEF ViewsAnswered
    <3> QED BY <1>1, <1>2, <1>4 DEF ViewsAnswered
  <2>7. KeysCounted'
    BY <1>1, <1>2, <2>1 DEF KeysCounted
  <2> QED BY <2>3, <2>4, <2>5, <2>6, <2>7 DEF PagesInductive
<1>5. CASE ~(req.kind = "load" /\ ~req.live)
  <2>1. /\ failed' = TRUE /\ Frees(req)
        /\ \/ toast' = NoticeOf(req) /\ req.kind = "reload" /\ req.command.own
           \/ toast' \in {toast, NoNotice}
        /\ history' = [history EXCEPT !.missed = @ \/ req.kind = "load"]
    BY <1>5 DEF Fails, Complained
  <2>2. PICK b \in BOOLEAN : b <=> (history.missed \/ req.kind = "load")
    OBVIOUS
  <2>3. history' = [history EXCEPT !.missed = b]
    <3>1. history.missed \in BOOLEAN
      BY <1>1 DEF PagesTyped
    <3>2. (history.missed \/ req.kind = "load") = b
      BY <2>2, <3>1
    <3> QED BY <2>1, <3>2, Zenon
  <2>4. /\ history' \in [lapped : BOOLEAN, strayed : BOOLEAN, missed : BOOLEAN, carried : Nat,
                         promised : Nat]
        /\ history'.lapped = history.lapped /\ history'.strayed = history.strayed
        /\ history'.missed = b /\ history'.carried = history.carried
        /\ history'.promised = history.promised
    BY <1>1, <2>3 DEF PagesTyped
  <2>5. NoticeFits'
    <3>1. CASE toast' \in {toast, NoNotice}
      BY <1>1, <1>2, <3>1, RevisionsStay, NoticeStays DEF PagesTyped
    <3>2. CASE toast' = NoticeOf(req) /\ req.kind = "reload" /\ req.command.own
      <4>1. req.item \in Items /\ ~req.command.asks
        BY <1>1, <3>2 DEF RequestFits, PagesTyped, PageFits
      <4> QED BY <1>1, <1>2, <1>3, <3>2, <4>1, NoticeOfFits DEF NoticeFits
    <3> QED BY <2>1, <3>1, <3>2
  <2>6. PagesTyped' /\ OneByOne'
    BY <1>1, <1>2, <1>3, <2>1, <2>4, <2>5, FreesOne, EndsKeeps
  <2>7. LocksAreHeld'
    BY <1>1, <1>2, <2>1, FreesKeeps
  <2>8. Uncrossed'
    BY <1>1, <1>2, <2>1, <2>4, LastOfUncrossed DEF Uncrossed
  <2>9. ViewsAnswered'
    <3> SUFFICES ASSUME ~history.strayed
                 PROVE  listed = view \/ b \/ \E x \in pending' : x.kind = "load" /\ x.live
      BY <1>1, <1>2, <2>4 DEF ViewsAnswered
    <3> QED BY <1>1, <1>2, <2>2 DEF ViewsAnswered
  <2>10. KeysCounted'
    BY <1>1, <1>2, <2>4 DEF KeysCounted
  <2> QED BY <2>6, <2>7, <2>8, <2>9, <2>10 DEF PagesInductive
<1> QED BY <1>4, <1>5

\* A request breaks off where nothing catches it.
LEMMA BreaksOffKeeps ==
  ASSUME PagesInductive, NEW req \in pending, BreaksOff(req)
  PROVE  PagesInductive'
<1>1. PagesTyped /\ LocksAreHeld /\ OneByOne /\ Uncrossed /\ ViewsAnswered /\ KeysCounted
  BY DEF PagesInductive
<1>2. /\ ~tab.catches /\ req.kind = "command" /\ pending' = pending \ {req}
      /\ UNCHANGED <<tab, revision, view, holds, listed, busy, toast, failed, budget, key, acted,
                     history>>
  BY DEF BreaksOff
<1>3. NoticeFits'
  BY <1>1, <1>2, RevisionsStay, NoticeStays DEF PagesTyped
<1>4. PagesTyped' /\ OneByOne'
  <2>1. /\ busy' \in [Slots(tab) -> Items \cup {Unheld}] /\ busy'["none"] = Unheld
        /\ failed' \in BOOLEAN /\ listed' \in Views /\ key' \in Nat
        /\ holds' \in [Items -> Nat] \cup {NothingYet}
        /\ history' \in [lapped : BOOLEAN, strayed : BOOLEAN, missed : BOOLEAN, carried : Nat,
                         promised : Nat]
    BY <1>1, <1>2 DEF PagesTyped
  <2> QED BY <1>2, <1>3, <2>1, EndsKeeps
<1>5. LocksAreHeld'
  BY <1>2 DEF LocksAreHeld
<1>6. Uncrossed'
  <2> SUFFICES ASSUME ~history.lapped
               PROVE  pending' = {} /\ toast = NoNotice
    BY <1>2 DEF Uncrossed
  <2> QED BY <1>1, <1>2, LastOfUncrossed DEF Uncrossed
<1>7. ViewsAnswered'
  <2> SUFFICES ASSUME ~history.strayed
               PROVE  listed = view \/ history.missed \/ \E x \in pending' : x.kind = "load" /\ x.live
    BY <1>1, <1>2 DEF ViewsAnswered
  <2> QED BY <1>1, <1>2 DEF ViewsAnswered
<1>8. KeysCounted'
  BY <1>1, <1>2 DEF KeysCounted
<1> QED BY <1>4, <1>5, <1>6, <1>7, <1>8 DEF PagesInductive

-----------------------------------------------------------------------------
(* The invariant.                                                          *)

\* Every page opens with its first load under way.
LEMMA PagesStart == WorkPagesInit => PagesInductive
<1> SUFFICES ASSUME WorkPagesInit
             PROVE  PagesInductive
  OBVIOUS
<1>1. PICK l : l = [n |-> 0, kind |-> "load", command |-> NoCommand, item |-> Unheld,
                    view |-> FirstView, live |-> TRUE, key |-> 0, stage |-> "sent",
                    at |-> NothingYet]
  OBVIOUS
<1>2. /\ tab \in Pages /\ revision = [item \in Items |-> 0]
      /\ view = FirstView /\ listed = FirstView /\ holds = NothingYet
      /\ busy = [slot \in Slots(tab) |-> Unheld]
      /\ toast = NoNotice /\ failed = FALSE /\ pending = {l}
      /\ budget = [clicks |-> 0, turns |-> 0] /\ key = 0 /\ acted = {}
  BY <1>1 DEF WorkPagesInit
<1>3. /\ history \in [lapped : BOOLEAN, strayed : BOOLEAN, missed : BOOLEAN, carried : Nat,
                      promised : Nat]
      /\ ~history.lapped /\ history.carried = 0 /\ history.promised = 0
  BY DEF WorkPagesInit
<1>4. /\ l.kind = "load" /\ l.command = NoCommand /\ l.view = FirstView /\ l.live
      /\ l.key = 0 /\ l.stage = "sent"
  BY <1>1
<1>5. RequestFits(l)
  <2>1. l \in [n : Int, kind : {"load", "command", "publish", "reload"}, command : tab.commands \cup {NoCommand},
               item : Items \cup {Unheld}, view : Views, live : BOOLEAN, key : Nat,
               stage : {"sent", "answered"}, at : [Items -> Nat] \cup {NothingYet}]
    BY <1>1, WorkPagesAssumption
  <2> QED BY <1>4, <2>1, NoCommandFacts DEF RequestFits
<1>6. PagesTyped
  <2>1. PageFits(tab) /\ "none" \in Slots(tab)
    BY <1>2, PagesFit DEF Slots
  <2>2. budget \in [clicks : Int, turns : Int]
    BY <1>2
  <2>3. revision \in [Items -> Nat] /\ busy \in [Slots(tab) -> Items \cup {Unheld}]
        /\ busy["none"] = Unheld
    BY <1>2, <2>1
  <2>4. view \in Views /\ listed \in Views /\ NoticeFits /\ failed \in BOOLEAN /\ key \in Nat
    BY <1>2, WorkPagesAssumption DEF NoticeFits
  <2> QED BY <1>2, <1>3, <1>5, <2>1, <2>2, <2>3, <2>4 DEF PagesTyped
<1>7. LocksAreHeld
  BY <1>2 DEF LocksAreHeld
<1>8. OneByOne
  BY <1>2, <1>3, <1>4 DEF OneByOne
<1>9. Uncrossed
  BY <1>2, <1>4 DEF Uncrossed
<1>10. ViewsAnswered
  BY <1>2, <1>4 DEF ViewsAnswered
<1>11. KeysCounted
  <2>1. Cardinality({}) = 0
    BY FS_EmptySet
  <2> QED BY <1>2, <1>3, <1>4, <2>1 DEF KeysCounted
<1> QED BY <1>6, <1>7, <1>8, <1>9, <1>10, <1>11 DEF PagesInductive

\* Every step of a page, the server and its answers keeps the invariant.
LEMMA PagesKeep == PagesInductive /\ [WorkPagesNext]_pageVars => PagesInductive'
<1> SUFFICES ASSUME PagesInductive, [WorkPagesNext]_pageVars
             PROVE  PagesInductive'
  OBVIOUS
<1>1. CASE UNCHANGED pageVars
  <2>1. PagesTyped /\ LocksAreHeld /\ OneByOne /\ Uncrossed /\ ViewsAnswered /\ KeysCounted
    BY DEF PagesInductive
  <2>2. PagesTyped'
    <3>1. NoticeFits'
      BY <1>1, <2>1 DEF PagesTyped, NoticeFits, pageVars
    <3>2. \A r \in pending' : RequestFits(r)'
      BY <1>1, <2>1 DEF PagesTyped, RequestFits, pageVars
    <3> QED BY <1>1, <2>1, <3>1, <3>2 DEF PagesTyped, Slots, pageVars
  <2>3. LocksAreHeld' /\ OneByOne' /\ KeysCounted'
    BY <1>1, <2>1 DEF LocksAreHeld, OneByOne, Exclusive, KeysCounted, Slots, pageVars
  <2>4. Uncrossed' /\ ViewsAnswered'
    BY <1>1, <2>1 DEF Uncrossed, ViewsAnswered, pageVars
  <2> QED BY <2>2, <2>3, <2>4 DEF PagesInductive
<1>2. CASE WorkPagesNext
  <2> QED BY <1>2, ClicksKeep, TurnsKeep, RetriesKeep, CarriesOutKeeps, ReadsKeep,
             AnswersPageLoadKeeps, GoesOnKeeps, SavesFirstKeeps, IsDoneKeeps,
             AnswersReloadKeeps, FailsKeep, BreaksOffKeeps DEF WorkPagesNext
<1> QED BY <1>1, <1>2

\* The invariant says what the pages promise.
LEMMA PagesImply == PagesInductive => WorkPagesSafe
<1> SUFFICES ASSUME PagesInductive
             PROVE  WorkPagesSafe
  OBVIOUS
<1>1. PagesTyped /\ LocksAreHeld /\ OneByOne /\ Uncrossed /\ ViewsAnswered /\ KeysCounted
  BY DEF PagesInductive
<1>2. WorkPagesTypeOK
  <2>1. \A r \in pending : r.kind \in {"load", "command", "publish", "reload"}
    BY <1>1 DEF PagesTyped, RequestFits
  <2> QED BY <1>1, <2>1 DEF PagesTyped, WorkPagesTypeOK
<1>3. ExclusiveApart
  BY <1>1 DEF OneByOne, ExclusiveApart
<1>4. LocksComeFree
  BY <1>1 DEF PagesTyped, LocksAreHeld, LocksComeFree, Settled
<1>5. NoticeIsShown
  BY <1>1 DEF Uncrossed, NoticeIsShown, Settled
<1>6. ListAnswersFilter
  BY <1>1 DEF ViewsAnswered, ListAnswersFilter, Settled
<1>7. KeyActsOnce
  <2> SUFFICES ASSUME \A command \in tab.commands : command.kept
               PROVE  history.carried <= history.promised + 1
    BY DEF KeyActsOnce
  <2>1. /\ key = history.promised /\ acted \subseteq 0..key
        /\ history.carried = Cardinality(acted) /\ key \in Nat
    <3>1. key \in Nat
      BY <1>1 DEF PagesTyped
    <3>2. /\ key = history.promised /\ acted \subseteq 0..key
          /\ history.carried = Cardinality(acted)
      BY <1>1 DEF KeysCounted
    <3> QED BY <3>1, <3>2
  <2>2. IsFiniteSet(0..key) /\ Cardinality(0..key) = key + 1
    <3>1. key \in Int /\ 0 \in Int /\ ~(0 > key)
      BY <2>1
    <3>2. IsFiniteSet(0..key) /\ Cardinality(0..key) = IF 0 > key THEN 0 ELSE key - 0 + 1
      BY <3>1, FS_Interval, Zenon
    <3> QED BY <3>1, <3>2
  <2>3. Cardinality(acted) <= Cardinality(0..key)
    BY <2>1, <2>2, FS_Subset
  <2> QED BY <2>1, <2>2, <2>3
<1> QED BY <1>2, <1>3, <1>4, <1>5, <1>6, <1>7 DEF WorkPagesSafe

\* Whatever is clicked, answered and lost: the locks of the pages come free, what a notice says
\* is on the screen and the list answers its filter unless requests crossed, and a kept key
\* acts at most once more than the page was told.
THEOREM PagesInvariance == WorkPagesSpec => []WorkPagesSafe
<1> QED BY PagesStart, PagesKeep, PagesImply, PTL DEF WorkPagesSpec

-----------------------------------------------------------------------------
(***************************************************************************)
(* MCServices: a behaviour of the services is one of each module.          *)
(***************************************************************************)

\* A behaviour of the services moves the files page as ContentDesk does, or
\* leaves it alone.
LEMMA ServicesMoveDesk == ServicesSpec => ContentDeskSpec
<1>1. ServicesInit => ContentDeskInit
  BY DEF ServicesInit
<1>2. [ServicesNext]_servicesVars => [ContentDeskNext]_deskVars
  BY DEF ServicesNext, servicesVars
<1> QED BY <1>1, <1>2, PTL DEF ServicesSpec, ContentDeskSpec

\* The other pages likewise.
LEMMA ServicesMovePages == ServicesSpec => WorkPagesSpec
<1>1. ServicesInit => WorkPagesInit
  BY DEF ServicesInit
<1>2. [ServicesNext]_servicesVars => [WorkPagesNext]_pageVars
  BY DEF ServicesNext, servicesVars
<1> QED BY <1>1, <1>2, PTL DEF ServicesSpec, WorkPagesSpec

\* ContentDeskSafe and WorkPagesSafe in every state of the services: no save of
\* the files page lands over a version its author had not on the screen, and on
\* every page the locks come free, a notice that stands is on the screen and a
\* list answers its filter, unless requests crossed.
THEOREM PagesShowWhatTheySay == ServicesSpec => []PagesHold
<1>1. ContentDeskSafe /\ WorkPagesSafe => PagesHold
  BY DEF PagesHold
<1> QED BY <1>1, ServicesMoveDesk, ServicesMovePages, DeskInvariance, PagesInvariance, PTL
=============================================================================
