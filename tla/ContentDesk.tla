----------------------------- MODULE ContentDesk -----------------------------
(***************************************************************************)
(* The organizer's files page: rows of deliverables on the left, and under *)
(* them the content of the selected row's session and of its speaker, each *)
(* in a form.  Every button sends its request at once, none is disabled    *)
(* while another waits, and an answer is applied whatever is selected by   *)
(* then.  The forms are uncontrolled: they keep what was typed until they  *)
(* are remounted, which happens when the version they are keyed by changes *)
(* and whenever the list of rows is loaded again.                          *)
(***************************************************************************)
EXTENDS Naturals, FiniteSets

CONSTANTS
  Rows,          \* deliverables
  SpeakerOf,     \* the event speaker of each row
  SessionOf,     \* its session, NoRecord for a row of the speaker's profile
  NoRecord,
  NoRow,
  MaxCalls,      \* bound on the requests the organizer's clicks send
  MaxTogether,   \* bound on the requests in flight when one is clicked
  MaxElsewhere   \* bound on the saves of other organizers

ASSUME ContentDeskAssumption ==
  /\ NoRow \notin Rows /\ NoRecord # "unread"
  /\ \A r \in Rows : /\ SpeakerOf[r] \notin {NoRecord, "unread"} /\ SessionOf[r] # "unread"
                     /\ \A q \in Rows : SessionOf[r] # SpeakerOf[q]

VARIABLES
  stored,     \* version of each session and of each speaker's profile
  written,    \* history: what the page's saves stored, and over which version
  selected,   \* the open row
  shown,      \* the content each form shows
  typed,      \* the text typed into each form: for which record, at which version
  list,       \* what the page does with the rows: loading and loadError
  calls,      \* requests in flight
  clicked,    \* how many requests were sent
  elsewhere,  \* how many saves other organizers made
  calm        \* history: requests neither overlapped nor failed nor met another save

deskVars == <<stored, written, selected, shown, typed, list, calls, clicked,
              elsewhere, calm>>

Forms == {"session", "speaker"}
RecordOf(form, row) == IF form = "session" THEN SessionOf[row] ELSE SpeakerOf[row]
DeskRecords == {RecordOf(form, row) : form \in Forms, row \in Rows} \ {NoRecord}

NoContent == [id |-> NoRecord, version |-> 0]
NoText == NoContent
NotYet == [id |-> "unread", version |-> 0]

\* A profile no organizer has saved has no version row and counts as version 0;
\* its first save stores the old text as version 1 and the new one as 2.
FirstVersion(record) == IF record \in {SpeakerOf[row] : row \in Rows} THEN 0 ELSE 1
VersionAfter(version) == IF version = 0 THEN 2 ELSE version + 1

ContentDeskInit ==
  /\ stored = [record \in DeskRecords |-> FirstVersion(record)]
  /\ written = {}
  /\ selected = NoRow
  /\ shown = [form \in Forms |-> NoContent]
  /\ typed = [form \in Forms |-> NoText]
  /\ list = [loading |-> TRUE, failed |-> FALSE]
  /\ calls = {[n |-> 0, kind |-> "load", row |-> NoRow, stage |-> "sent"]}
  /\ clicked = 0 /\ elsewhere = 0 /\ calm = TRUE

-----------------------------------------------------------------------------
\* The rows and the forms are on the page only while nothing loads them.
Mounted == ~list.loading /\ ~list.failed

\* load: the rows leave the page, and with them what the forms held.
BeginsLoad ==
  /\ list' = [loading |-> TRUE, failed |-> FALSE]
  /\ typed' = [form \in Forms |-> NoText]

LoadCall(n, row) == [n |-> n, kind |-> "load", row |-> row, stage |-> "sent"]

\* Mutant: a form without a key, mounted as long as there is content.
BugSameForm(before, after) == after.id # NoRecord

\* A form is keyed by the version it shows, and by nothing else.
SameForm(before, after) == before.version = after.version /\ after.id # NoRecord

\* What the forms still hold when the content behind them becomes `content'.
Kept(content) ==
  [form \in Forms |-> IF SameForm(shown[form], content[form]) THEN typed[form] ELSE NoText]

\* A click sends its request at once.
ClicksWith(call) ==
  /\ clicked < MaxCalls /\ Cardinality(calls) < MaxTogether
  /\ clicked' = clicked + 1
  /\ calls' = calls \cup {[call EXCEPT !.n = clicked + 1]}
  /\ calm' = (calm /\ calls = {})

OpenCall(row) ==
  [n |-> 0, kind |-> "open", row |-> row, stage |-> "sent",
   got |-> [form \in Forms |-> IF RecordOf(form, row) = NoRecord THEN NoContent ELSE NotYet]]

-----------------------------------------------------------------------------
(* The organizer.                                                          *)

\* openContent: the row is selected at once, its content arrives later.
OpenContent(row) ==
  /\ Mounted /\ ClicksWith(OpenCall(row))
  /\ selected' = row
  /\ UNCHANGED <<stored, written, shown, typed, list, elsewhere>>

TypesInto(form) ==
  /\ Mounted /\ shown[form] # NoContent /\ typed[form] = NoText
  /\ typed' = [typed EXCEPT ![form] = shown[form]]
  /\ UNCHANGED <<stored, written, selected, shown, list, calls, clicked, elsewhere, calm>>

\* The text a form submits: what was typed, or the shown content unchanged.
TextOf(form) == IF typed[form] # NoText THEN typed[form] ELSE shown[form]

SaveCall(form, record) ==
  [n |-> 0, kind |-> "save", stage |-> "sent", form |-> form, record |-> record,
   over |-> shown[form].version, text |-> TextOf(form)]

\* saveSession writes to the session that is shown.
SaveSession ==
  /\ Mounted /\ shown["session"] # NoContent
  /\ ClicksWith(SaveCall("session", shown["session"].id))
  /\ UNCHANGED <<stored, written, selected, shown, typed, list, elsewhere>>

\* saveSpeaker writes to the speaker of the selected row, with the version of
\* the content that is shown.
SaveSpeaker ==
  /\ Mounted /\ shown["speaker"] # NoContent /\ selected # NoRow
  /\ ClicksWith(SaveCall("speaker", SpeakerOf[selected]))
  /\ UNCHANGED <<stored, written, selected, shown, typed, list, elsewhere>>

\* approveSession and restoreSession submit no text of the form: a status, or the
\* number of an old version.
StatusCall(kind) ==
  [n |-> 0, kind |-> kind, stage |-> "sent", form |-> "session",
   record |-> shown["session"].id, over |-> shown["session"].version]
ApproveSession ==
  /\ Mounted /\ shown["session"] # NoContent /\ ClicksWith(StatusCall("approve"))
  /\ UNCHANGED <<stored, written, selected, shown, typed, list, elsewhere>>
RestoreSession ==
  /\ Mounted /\ shown["session"] # NoContent /\ ClicksWith(StatusCall("restore"))
  /\ UNCHANGED <<stored, written, selected, shown, typed, list, elsewhere>>

\* Requests that touch no content: a file request, a comment, a review of the
\* selected deliverable, an export of the ticked rows.  Their success loads the
\* rows again.
Posts(row) ==
  /\ ClicksWith([n |-> 0, kind |-> "post", row |-> row, stage |-> "sent"])
  /\ UNCHANGED <<stored, written, selected, shown, typed, list, elsewhere>>
CreateRequest == Mounted /\ Posts(NoRow)
Comment == Mounted /\ selected # NoRow /\ Posts(NoRow)
\* The dialog that asks for changes, and the export button, stay while rows load.
Review == selected # NoRow /\ Posts(NoRow)
RequestExport == Posts(NoRow)
\* uploadHeadshot goes on, after that load, to open the row it began with.
UploadHeadshot == Mounted /\ selected # NoRow /\ Posts(selected)

\* The Retry button of a load that failed.
RetriesLoad ==
  /\ list.failed /\ ~list.loading
  /\ clicked < MaxCalls
  /\ clicked' = clicked + 1
  /\ calls' = calls \cup {LoadCall(clicked + 1, NoRow)}
  /\ calm' = (calm /\ calls = {})
  /\ BeginsLoad
  /\ UNCHANGED <<stored, written, selected, shown, elsewhere>>

-----------------------------------------------------------------------------
(* The server.                                                             *)

Replaces(call, next) == calls' = (calls \ {call}) \cup {next}

\* The two reads behind openContent are separate requests.
ReadsContent(call, form) ==
  /\ call.kind = "open" /\ call.got[form] = NotYet
  /\ LET record == RecordOf(form, call.row)
     IN Replaces(call, [call EXCEPT !.got[form] = [id |-> record, version |-> stored[record]]])
  /\ UNCHANGED <<stored, written, selected, shown, typed, list, clicked, elsewhere, calm>>

\* updateSessionContent, updateSpeakerContent, setSessionApproval and
\* restoreSessionVersion store a new version over the expected one, or refuse.
StoresContent(call) ==
  /\ call.kind \in {"save", "approve", "restore"} /\ call.stage = "sent"
  /\ IF stored[call.record] = call.over
       THEN /\ stored' = [stored EXCEPT ![call.record] = VersionAfter(@)]
            /\ Replaces(call, [call EXCEPT !.stage = "done"])
            /\ written' = IF call.kind = "save"
                            THEN written \cup {[record |-> call.record, over |-> call.over,
                                                text |-> call.text]}
                            ELSE written
            /\ UNCHANGED calm
       ELSE /\ Replaces(call, [call EXCEPT !.stage = "failed"])
            /\ calm' = FALSE
            /\ UNCHANGED <<stored, written>>
  /\ UNCHANGED <<selected, shown, typed, list, clicked, elsewhere>>

\* A save or an approval by another organizer.
SavesElsewhere(record) ==
  /\ elsewhere < MaxElsewhere
  /\ elsewhere' = elsewhere + 1
  /\ stored' = [stored EXCEPT ![record] = VersionAfter(@)]
  /\ calm' = FALSE
  /\ UNCHANGED <<written, selected, shown, typed, list, calls, clicked>>

-----------------------------------------------------------------------------
(* Answers.                                                                *)

\* Both contents arrive together, or the error does and nothing is replaced.
AnswersOpen(call) ==
  /\ call.kind = "open" /\ \A form \in Forms : call.got[form] # NotYet
  /\ shown' = call.got /\ typed' = Kept(call.got)
  /\ calls' = calls \ {call}
  /\ UNCHANGED <<stored, written, selected, list, clicked, elsewhere, calm>>

\* The answer of a save replaces the shown content, whichever that is by then.
\* A session's save and restoration load the rows again; an approval and a
\* speaker's save do not.
AnswersStore(call) ==
  /\ call.kind \in {"save", "approve", "restore"} /\ call.stage = "done"
  /\ LET content == [shown EXCEPT ![call.form] = [id |-> call.record,
                                                  version |-> VersionAfter(call.over)]]
     IN /\ shown' = content
        /\ IF call.kind = "restore" \/ (call.kind = "save" /\ call.form = "session")
             THEN BeginsLoad /\ Replaces(call, LoadCall(call.n, NoRow))
             ELSE typed' = Kept(content) /\ calls' = calls \ {call} /\ UNCHANGED list
  /\ UNCHANGED <<stored, written, selected, clicked, elsewhere, calm>>

AnswersPost(call) ==
  /\ call.kind = "post"
  /\ BeginsLoad /\ Replaces(call, LoadCall(call.n, call.row))
  /\ UNCHANGED <<stored, written, selected, shown, clicked, elsewhere, calm>>

\* The end of a load takes `loading' down, though another load may still run.
\* Its failure is told by the page and not by the command that asked for it, so
\* an upload opens its row either way.
AnswersList(call, fails) ==
  /\ call.kind = "load"
  /\ list' = [loading |-> FALSE, failed |-> list.failed \/ fails]
  /\ typed' = IF list'.failed THEN [form \in Forms |-> NoText] ELSE typed
  /\ calm' = (calm /\ ~fails)
  /\ IF call.row = NoRow
       THEN calls' = calls \ {call} /\ UNCHANGED selected
       ELSE Replaces(call, [OpenCall(call.row) EXCEPT !.n = call.n]) /\ selected' = call.row
  /\ UNCHANGED <<stored, written, shown, clicked, elsewhere>>

\* A call that fails leaves a message; the server may have stored it all the same.
FailsCall(call) ==
  /\ call.kind # "load"
  /\ calls' = calls \ {call}
  /\ calm' = FALSE
  /\ UNCHANGED <<stored, written, selected, shown, typed, list, clicked, elsewhere>>

ContentDeskNext ==
  \/ \E row \in Rows : OpenContent(row)
  \/ \E form \in Forms : TypesInto(form)
  \/ SaveSession \/ SaveSpeaker \/ ApproveSession \/ RestoreSession
  \/ CreateRequest \/ Comment \/ Review \/ RequestExport \/ UploadHeadshot
  \/ RetriesLoad
  \/ \E call \in calls, form \in Forms : ReadsContent(call, form)
  \/ \E call \in calls : StoresContent(call)
  \/ \E record \in DeskRecords : SavesElsewhere(record)
  \/ \E call \in calls : AnswersOpen(call)
  \/ \E call \in calls : AnswersStore(call)
  \/ \E call \in calls : AnswersPost(call)
  \/ \E call \in calls, fails \in BOOLEAN : AnswersList(call, fails)
  \/ \E call \in calls : FailsCall(call)

ContentDeskSpec == ContentDeskInit /\ [][ContentDeskNext]_deskVars

-----------------------------------------------------------------------------
ContentDeskTypeOK ==
  /\ selected \in Rows \cup {NoRow}
  /\ \A form \in Forms :
       /\ shown[form] = NoContent \/ shown[form].id \in DeskRecords
       /\ typed[form] = NoText \/ typed[form].id \in DeskRecords
  /\ \A call \in calls : call.kind \in {"load", "open", "post", "save", "approve", "restore"}

\* What was typed belongs to the version its form shows, though perhaps of
\* another record.
TypedAtShownVersion ==
  \A form \in Forms :
    typed[form] # NoText => Mounted /\ typed[form].version = shown[form].version

\* Whatever the clicks and the order of the answers, a save stores nothing over
\* a version later than the one its author had on the screen while typing.
WrittenOverSeen == \A save \in written : save.text.version = save.over

\* When requests went one by one and nothing failed or was saved elsewhere, the
\* page ends on the newest content of the selected row.
ShownIsSelected ==
  (calm /\ calls = {} /\ selected # NoRow) =>
    \A form \in Forms :
      LET record == RecordOf(form, selected)
      IN shown[form] = IF record = NoRecord THEN NoContent
                       ELSE [id |-> record, version |-> stored[record]]

ContentDeskSafe ==
  ContentDeskTypeOK /\ TypedAtShownVersion /\ WrittenOverSeen /\ ShownIsSelected
=============================================================================
