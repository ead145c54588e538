------------------------------- MODULE Portal -------------------------------
(***************************************************************************)
(* What one speaker is shown of the program before and after decisions are *)
(* released: the portal, the files page, the list of proposals, the answer *)
(* to a save and the reminders, each with the joins and conditions of its  *)
(* own query (speaker-operations/service.ts, files-deliverables/service.ts,*)
(* forms-submissions/service.ts, communications/service.ts), next to what  *)
(* organizers are shown of the same rows.                                  *)
(*                                                                         *)
(* The speaker takes part in every talk; a colleague shares its session.   *)
(***************************************************************************)
EXTENDS Naturals, Sequences, FiniteSets

CONSTANTS
  Talks,   \* submitted proposals
  Asks,    \* speaker_tasks rows
  NoTalk

ASSUME PortalAssumption == NoTalk \notin Talks

VARIABLES
  outcome,    \* decisions.outcome of each proposal
  released,   \* proposals whose decision has released_at
  created,    \* their sessions, oldest first
  speaking,   \* the speaker has an event_speakers row
  ask,        \* speaker_tasks with the speaker's assignment and deliverable
  owing,      \* speaker.tasks.requested is not handled yet
  saving,     \* proposals that a save of the speaker has checked
  overtaken,  \* history: proposals decided while a save was under way
  told        \* history: unreleased outcomes that answers have named

portalVars == <<outcome, released, created, speaking, ask, owing, saving, overtaken, told>>

Unasked == [is |-> "absent"]
AskKinds == {"session_file", "speaker_headshot", "action"}

\* A task: whether the speaker is assigned, has a deliverable of it and which
\* session that is linked to, and the session its title was written for.
Asked(kind, about) ==
  [is |-> "asked", kind |-> kind, about |-> about, assigned |-> FALSE, file |-> FALSE,
   session |-> NoTalk, overdue |-> FALSE, complete |-> FALSE]

PortalInit ==
  /\ outcome = [p \in Talks |-> "none"] /\ released = {} /\ created = <<>>
  /\ speaking = FALSE /\ owing = FALSE
  /\ ask = [k \in Asks |-> Unasked]
  /\ saving = {} /\ overtaken = {} /\ told = {}

-----------------------------------------------------------------------------
(* Decisions, sessions, tasks and files, as far as what is shown goes.     *)

Rejects(p) ==
  /\ outcome[p] = "none" /\ outcome' = [outcome EXCEPT ![p] = "rejected"]
  /\ overtaken' = overtaken \cup ({p} \cap saving)
  /\ UNCHANGED <<released, created, speaking, ask, owing, saving, told>>

\* An acceptance, the first decision or an audited change: its session and its
\* speakers are inserted at once, and the decision is not released.
Accepts(p) ==
  /\ outcome[p] # "accepted" /\ outcome' = [outcome EXCEPT ![p] = "accepted"]
  /\ released' = released \ {p}
  /\ created' = Append(created, p) /\ speaking' = TRUE
  /\ overtaken' = overtaken \cup ({p} \cap saving)
  /\ UNCHANGED <<ask, owing, saving, told>>

\* An acceptance that is released owes the speaker the tasks of the event.
Releases(p) ==
  /\ outcome[p] # "none" /\ p \notin released
  /\ released' = released \cup {p}
  /\ owing' = (owing \/ outcome[p] = "accepted")
  /\ UNCHANGED <<outcome, created, speaking, ask, saving, overtaken, told>>

AddedByOrganizer ==
  /\ ~speaking /\ speaking' = TRUE
  /\ UNCHANGED <<outcome, released, created, ask, owing, saving, overtaken, told>>

Oldest == IF created = <<>> THEN NoTalk ELSE Head(created)

\* createFileRequest links a session file to the oldest session of the
\* speaker; createSpeakerTask inserts no deliverable.
AsksSpeaker(k, kind) ==
  /\ ask[k] = Unasked /\ speaking
  /\ LET linked == IF kind = "session_file" THEN Oldest ELSE NoTalk IN
       ask' = [ask EXCEPT ![k] =
         [Asked(kind, linked) EXCEPT !.assigned = TRUE, !.file = (kind # "action"),
                                     !.session = linked]]
  /\ UNCHANGED <<outcome, released, created, speaking, owing, saving, overtaken, told>>

\* The same for the colleague alone.
AsksColleague(k, kind) ==
  /\ ask[k] = Unasked
  /\ ask' = [ask EXCEPT ![k] = Asked(kind, IF kind = "session_file" THEN Oldest ELSE NoTalk)]
  /\ UNCHANGED <<outcome, released, created, speaking, owing, saving, overtaken, told>>

\* Mutant: the assignments are made anew, and their deliverables go with the old
\* ones.
BugHandsOverTasks ==
  /\ owing /\ owing' = FALSE
  /\ ask' = [k \in Asks |->
       IF ask[k] = Unasked THEN Unasked
       ELSE [ask[k] EXCEPT !.assigned = TRUE, !.file = FALSE]]
  /\ UNCHANGED <<outcome, released, created, speaking, saving, overtaken, told>>

\* assignExistingTasks: assignments of every task, without deliverables.
HandsOverTasks ==
  /\ owing /\ owing' = FALSE
  /\ ask' = [k \in Asks |->
       IF ask[k] = Unasked THEN Unasked ELSE [ask[k] EXCEPT !.assigned = TRUE]]
  /\ UNCHANGED <<outcome, released, created, speaking, saving, overtaken, told>>

\* updateAssignmentDueDate, to a date that has passed or has not.
SetsDueDate(k, overdue) ==
  /\ ask[k] # Unasked /\ ask[k].assigned /\ ask[k].overdue # overdue
  /\ ask' = [ask EXCEPT ![k].overdue = overdue]
  /\ UNCHANGED <<outcome, released, created, speaking, owing, saving, overtaken, told>>

-----------------------------------------------------------------------------
(* session-release-visibility.ts                                           *)

\* No code creates a session without a proposal.
ReleasedSpeakerSession(p, rel) == p \in rel

ReleasedSpeakerDeliverable(a, rel) ==
  \/ ~a.file
  \/ a.kind # "session_file"
  \/ a.session # NoTalk /\ ReleasedSpeakerSession(a.session, rel)

-----------------------------------------------------------------------------
(* The reads, over given rows: o outcomes, rel released decisions, c       *)
(* sessions and a tasks.                                                   *)

Inserted == {created[i] : i \in DOMAIN created}

Assigned(a) == {k \in Asks : a[k] # Unasked /\ a[k].assigned}

\* loadSpeakerDetail joins the deliverable from the left.
DetailTasks(a, rel, private) ==
  {k \in Assigned(a) : private \/ ReleasedSpeakerDeliverable(a[k], rel)}

\* Bug: the sessions of the portal are those of the organizers' detail.
BugAssignedSessions(c, rel, private) == c

AssignedSessions(c, rel, private) ==
  {p \in c : private \/ ReleasedSpeakerSession(p, rel)}

Progress(tasks, a) ==
  [total |-> Cardinality(tasks),
   complete |-> Cardinality({k \in tasks : a[k].complete}),
   overdue |-> Cardinality({k \in tasks : ~a[k].complete /\ a[k].overdue})]

SpeakerDetail(a, c, rel, private) ==
  [tasks |-> DetailTasks(a, rel, private),
   sessions |-> AssignedSessions(c, rel, private),
   progress |-> Progress(DetailTasks(a, rel, private), a)]

\* listSpeakerRoster counts assignments and sessions by themselves.
RosterItem ==
  [progress |-> Progress(Assigned(ask), ask), sessionCount |-> Len(created)]

\* loadTasks, of which the speaker's assignments are taken.
WorkspaceTasks(a) == {k \in Asks : a[k] # Unasked}

\* loadDeliverables starts from the deliverables, so its joins drop tasks that
\* have none.
OwnDeliverables(a, rel) ==
  {k \in WorkspaceTasks(a) : a[k].file /\ ReleasedSpeakerDeliverable(a[k], rel)}

\* requireSpeakerVisibleDeliverable; requireVersionAccess repeats it.
MayUpload(k, a, rel) ==
  k \in Assigned(a) /\ a[k].file /\ ReleasedSpeakerDeliverable(a[k], rel)

MayDownload(k, a, rel) ==
  k \in WorkspaceTasks(a) /\ a[k].file /\ ReleasedSpeakerDeliverable(a[k], rel)

\* queueDueTaskReminders
RemindedOf(a, rel) ==
  {k \in Assigned(a) : /\ ~a[k].complete /\ a[k].overdue
                       /\ ReleasedSpeakerDeliverable(a[k], rel)}

\* listSubmissionRecords joins a decision that is private only for organizers;
\* the session follows from the decision that is shown.
SubmissionRecords(o, c, rel, private) ==
  [p \in Talks |->
    LET shown == IF private \/ p \in rel THEN o[p] ELSE "none"
    IN  [decision |-> shown, session |-> shown = "accepted" /\ p \in c]]

\* requireSubmissionRecord, one proposal by queries of its own.
SubmissionRecord(p, o, c, rel, private) ==
  LET shown == IF private \/ p \in rel THEN o[p] ELSE "none"
  IN  [decision |-> shown, session |-> shown = "accepted" /\ p \in c]

\* Everything the speaker can ask for at one moment.
View(o, c, rel, a) ==
  [detail |-> SpeakerDetail(a, c, rel, FALSE), files |-> OwnDeliverables(a, rel),
   reminders |-> RemindedOf(a, rel), proposals |-> SubmissionRecords(o, c, rel, FALSE),
   single |-> [p \in Talks |-> SubmissionRecord(p, o, c, rel, FALSE)],
   uploads |-> {k \in Asks : MayUpload(k, a, rel)},
   downloads |-> {k \in Asks : MayDownload(k, a, rel)}]

SpeakerSees == View(outcome, Inserted, released, ask)

-----------------------------------------------------------------------------
(* What the speaker does with it.                                          *)

\* completeOwnSpeakerTask knows an assignment by its identifier, which only
\* the portal shows; a file is approved once it is uploaded.
Completes(k) ==
  /\ k \in DetailTasks(ask, released, FALSE) /\ ~ask[k].complete
  /\ ask[k].kind = "action" \/ MayUpload(k, ask, released)
  /\ ask' = [ask EXCEPT ![k].complete = TRUE]
  /\ UNCHANGED <<outcome, released, created, speaking, owing, saving, overtaken, told>>

\* "A final Decision locks the proposal snapshot."
StillEditable(p) == outcome[p] = "none"

SaveChecked(p) ==
  /\ p \notin saving /\ StillEditable(p)
  /\ saving' = saving \cup {p}
  /\ UNCHANGED <<outcome, released, created, speaking, ask, owing, overtaken, told>>

\* The answer is read after the commit, with private decisions.
SaveAnswered(p) ==
  /\ p \in saving /\ saving' = saving \ {p}
  /\ LET answer == SubmissionRecord(p, outcome, Inserted, released, TRUE) IN
       told' = IF answer.decision # "none" /\ p \notin released THEN told \cup {p} ELSE told
  /\ UNCHANGED <<outcome, released, created, speaking, ask, owing, overtaken>>

PortalNext ==
  \/ \E p \in Talks :
       \/ Rejects(p) \/ Accepts(p) \/ Releases(p) \/ SaveChecked(p) \/ SaveAnswered(p)
  \/ AddedByOrganizer \/ HandsOverTasks
  \/ \E k \in Asks :
       \/ \E kind \in AskKinds : AsksSpeaker(k, kind) \/ AsksColleague(k, kind)
       \/ (\E overdue \in BOOLEAN : SetsDueDate(k, overdue))
       \/ Completes(k)

PortalSpec == PortalInit /\ [][PortalNext]_portalVars

-----------------------------------------------------------------------------
(* Properties.                                                             *)

PortalTypeOK ==
  /\ outcome \in [Talks -> {"none", "accepted", "rejected"}]
  /\ released \subseteq {p \in Talks : outcome[p] # "none"}
  /\ created \in Seq(Talks) /\ \A p \in Talks : outcome[p] = "accepted" <=> p \in Inserted
  /\ \A i, j \in DOMAIN created : created[i] = created[j] => i = j
  /\ saving \subseteq Talks /\ {owing, speaking} \subseteq BOOLEAN

\* "Speakers see only released outcomes" (docs/requirements/decision-workflows.md):
\* every page reads the same as if the decisions that are not released had not
\* been made, their sessions not inserted and no file linked to them.
OnlyReleasedShows ==
  LET undecided == [p \in Talks |-> IF p \in released THEN outcome[p] ELSE "none"]
      unlinked == [k \in Asks |->
        IF ask[k] # Unasked /\ ask[k].session \notin released
        THEN [ask[k] EXCEPT !.session = NoTalk] ELSE ask[k]]
  IN  SpeakerSees = View(undecided, Inserted \cap released, released, unlinked)

\* Two answers of the code are not so covered.  A save that passed its checks
\* before a decision is answered with it; and a task that the outbox assigns
\* without a deliverable shows its title whatever session it was written for.
OnlyCrossingSavesTell == told \subseteq overtaken
OnlyUnlinkedTitlesShow ==
  \A k \in SpeakerSees.detail.tasks : ask[k].about \in released \cup {NoTalk} \/ ~ask[k].file

\* A released acceptance shows its session and every file asked for it, which
\* can be uploaded and is reminded of wherever the portal lists it.
ReleasedIsShown ==
  /\ \A p \in released : outcome[p] = "accepted" =>
       p \in SpeakerSees.detail.sessions /\ SpeakerSees.proposals[p].session
  /\ \A k \in Assigned(ask) : ask[k].file /\ ask[k].session \in released =>
       k \in SpeakerSees.files \cap SpeakerSees.detail.tasks \cap SpeakerSees.uploads
  /\ \A k \in SpeakerSees.detail.tasks : ask[k].overdue /\ ~ask[k].complete <=> k \in SpeakerSees.reminders

\* The roster, which counts rows, agrees with the organizers' detail, which
\* joins them to sessions and decisions.
RosterAgrees ==
  LET detail == SpeakerDetail(ask, Inserted, released, TRUE) IN
    /\ RosterItem.progress = detail.progress
    /\ RosterItem.sessionCount = Cardinality(detail.sessions)

PortalSafe ==
  /\ PortalTypeOK /\ OnlyReleasedShows /\ OnlyCrossingSavesTell
  /\ OnlyUnlinkedTitlesShow /\ ReleasedIsShown /\ RosterAgrees

\* What the speaker has been shown stays, except that a rejection which is
\* changed to an acceptance is withdrawn until that is released.
ShownStays ==
  /\ SpeakerSees.detail.sessions \subseteq SpeakerSees'.detail.sessions
  /\ SpeakerSees.detail.tasks \subseteq SpeakerSees'.detail.tasks
  /\ SpeakerSees.files \subseteq SpeakerSees'.files
  /\ \A p \in Talks :
       SpeakerSees.proposals[p].decision \notin {"none", SpeakerSees'.proposals[p].decision} =>
         outcome[p] = "rejected" /\ outcome'[p] = "accepted"
=============================================================================
