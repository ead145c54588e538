------------------------------ MODULE WorkPages ------------------------------
(***************************************************************************)
(* The organizer's and the speaker's pages as requests and answers.  A page *)
(* loads its content, its buttons send commands, and each answer changes   *)
(* what it shows.  The pages differ in what they disable while a command   *)
(* waits, in how the content follows a success, in the order of the notice *)
(* and the reload, and in what becomes of an answer whose filter is gone:  *)
(* each page is a record of these choices, and one machine runs them all.  *)
(***************************************************************************)
EXTENDS Integers, FiniteSets

CONSTANTS
  Items,         \* what commands are about: rows, sessions, tasks
  Views,         \* filters, searches or addresses that a load depends on
  FirstView,
  Unheld,        \* a lock that nothing holds
  MaxClicks,     \* bound on commands
  MaxTurns,      \* bound on changes of the view
  MaxPending     \* bound on the requests in flight when a command is clicked

ASSUME WorkPagesAssumption == FirstView \in Views /\ Unheld \notin Items

VARIABLES
  tab,        \* the page that is open
  revision,   \* how often the server changed each item
  view,       \* the filter the page is set to
  holds,      \* the content the page shows: the revision of each item
  listed,     \* the view that content answers
  busy,       \* what holds each lock of the page
  toast,      \* the success message, if one stands
  failed,     \* an error message stands
  pending,    \* requests in flight
  budget,     \* how many commands and turns were made
  key,        \* the idempotency key a page keeps until a success
  acted,      \* keys the server has acted for
  history     \* history: lapped, strayed, missed, carried, promised

pageVars == <<tab, revision, view, holds, listed, busy, toast, failed, pending,
              budget, key, acted, history>>

-----------------------------------------------------------------------------
(* What a command does.  `slot' is the lock it takes and `bars' what holds  *)
(* its button back: any holder, the same item, or nothing.  `then' says how *)
(* the content follows a success, `told' when the notice is set, `own' that *)
(* a reload tells its failure itself and the command still counts as done,  *)
(* `clears' that a click takes the notice down, `kept' that the key stays   *)
(* until a success, `asks' that it loads content and changes nothing.       *)
Command(slot, bars, then, told, own) ==
  [slot |-> slot, bars |-> bars, then |-> then, told |-> told, own |-> own,
   clears |-> TRUE, kept |-> FALSE, asks |-> FALSE]

\* `waits': no button before the first content, before the first load has ended, or
\* for nothing.  `guards': an answer to a load
\* of an earlier view is dropped.  `views': whether the view filters the content
\* that commands reload, a list of its own, or nothing.  `apart': notice and
\* error are two messages.  `wipes': what a load that succeeds takes down.
\* `frees': the end of the load frees the locks.  `retries': a first load that failed
\* can be asked for again.  `catches': a request that breaks off is caught.
Page(waits, guards, views, commands) ==
  [waits |-> waits, guards |-> guards, views |-> views, commands |-> commands,
   apart |-> TRUE, wipes |-> {}, frees |-> FALSE, retries |-> FALSE, catches |-> TRUE]

-----------------------------------------------------------------------------
(* The organizer's pages.                                                  *)

\* createPlan, distribute and assignSpecificReviewer; decide, runAi and
\* overrideAi; a reminder changes nothing the page shows.  `reload' tells its own
\* failure, and no click takes an earlier notice down.
PlanCommand == [Command("busy", "any", "reloads", "first", TRUE) EXCEPT !.clears = FALSE]
DecisionCommand == [Command("busy", "any", "reloads", "first", TRUE) EXCEPT !.clears = FALSE]
RemindOutstanding == [Command("busy", "any", "rests", "first", TRUE) EXCEPT !.clears = FALSE]
ReviewsDecisionsPage ==
  [Page("content", TRUE, "none", {PlanCommand, DecisionCommand, RemindOutstanding})
     EXCEPT !.wipes = {"error"}]

\* One busyId for the whole page, compared with the row of each button: a second
\* row takes it over from the first.
MarkMaybe == Command("busyId", "item", "merges", "last", FALSE)
SubmissionDecide == Command("busyId", "item", "reloads", "last", FALSE)
NotificationCommand ==
  [Command("busyId", "item", "reloads", "first", FALSE) EXCEPT !.clears = FALSE]
SubmissionsPage ==
  [Page("content", TRUE, "none", {MarkMaybe, SubmissionDecide, NotificationCommand})
     EXCEPT !.apart = FALSE]

\* The buttons wait for `busy', a session dropped on the grid and the picker of the
\* version, which loads another one, do not.
AgendaCommand == Command("busy", "any", "replaces", "last", FALSE)
AgendaDrop == Command("busy", "nothing", "replaces", "last", FALSE)
PickVersion == [Command("busy", "nothing", "reloads", "never", FALSE) EXCEPT !.asks = TRUE]
AgendaPage == Page("content", TRUE, "none", {AgendaCommand, AgendaDrop, PickVersion})

\* publish, pause and saveWidget fail with the reload that follows them.
PublishCommand == Command("busy", "any", "reloads", "last", FALSE)
PublishProgramPage == Page("content", TRUE, "none", {PublishCommand})

\* The audience depends on the filters; the summary and the history that commands
\* reload do not.  Neither load looks whether it was overtaken.
SaveTemplate == Command("busy", "any", "reloads", "last", TRUE)
SendCampaign == Command("busy", "any", "reloads", "first", TRUE)
DeliveryAction == Command("busy", "any", "reloads", "first", FALSE)
CommunicationsPage ==
  Page("content", FALSE, "own list", {SaveTemplate, SendCampaign, DeliveryAction})

\* Both integrations: a saved configuration is answered with the workspace, a run
\* is followed by a load.
AirtablePage ==
  Page("content", TRUE, "none", {Command("busy", "any", "replaces", "last", FALSE),
                            Command("busy", "any", "reloads", "last", FALSE)})
AcceleventsPage ==
  Page("content", TRUE, "none", {Command("busy", "any", "replaces", "last", FALSE),
                            Command("busy", "any", "reloads", "last", FALSE)})

\* An import tells its success and then reloads the roster of the filters it was
\* clicked with, which takes the message down.
CommitImport == [Command("importing", "any", "reloads", "first", TRUE) EXCEPT !.clears = FALSE]
SpeakerSave == [Command("saving", "any", "reloads", "never", TRUE) EXCEPT !.clears = FALSE]
SpeakerStatus == [Command("none", "nothing", "reloads", "never", TRUE) EXCEPT !.clears = FALSE]
SpeakersPage ==
  [Page("nothing", TRUE, "content", {CommitImport, SpeakerSave, SpeakerStatus})
     EXCEPT !.apart = FALSE, !.wipes = {"notice", "error"}]

\* createTask keeps its key until it is told that the task exists.
CreateTask ==
  [Command("saving", "any", "reloads", "first", TRUE) EXCEPT !.clears = FALSE, !.kept = TRUE]
SpeakerTasksPage ==
  [Page("nothing", TRUE, "none", {CreateTask})
     EXCEPT !.apart = FALSE, !.wipes = {"notice", "error"}]

SpeakerResourcesPage ==
  [Page("nothing", TRUE, "none", {Command("saving", "any", "replaces", "last", FALSE)})
     EXCEPT !.apart = FALSE, !.wipes = {"notice"}]

\* Save draft and publish, which saves first, hold the state of the page.  They do not
\* wait for the form, whose load sets the state too.
SaveDraft == Command("state", "any", "replaces", "last", FALSE)
PublishForm == Command("state", "any", "publishes", "last", FALSE)
CfpBuilderPage ==
  [Page("nothing", TRUE, "none", {SaveDraft, PublishForm}) EXCEPT !.apart = FALSE, !.frees = TRUE]

\* Save waits until the load has ended, in content or not.  One that breaks off leaves
\* the page saving.
EventSettingsPage ==
  [Page("load", FALSE, "none", {Command("state", "any", "replaces", "last", FALSE)})
     EXCEPT !.apart = FALSE, !.catches = FALSE]

\* Forms wait for `busy'; an import, a merge and a saved segment take it without
\* waiting.  Every success loads the directory of the filters it was clicked with.
CrmForm == Command("busy", "any", "reloads", "first", TRUE)
CrmAction == Command("busy", "nothing", "reloads", "first", TRUE)
SpeakerCrmPage == Page("nothing", FALSE, "content", {CrmForm, CrmAction})

(* The speaker's pages.                                                    *)

\* Three locks of their own, and each answer is the whole portal.
SaveProfile == [Command("savingProfile", "any", "replaces", "last", FALSE) EXCEPT !.clears = FALSE]
PortalTask == [Command("busyTask", "item", "replaces", "last", FALSE) EXCEPT !.clears = FALSE]
PortalHeadshot == [Command("uploading", "any", "reloads", "last", FALSE) EXCEPT !.clears = FALSE]
SpeakerPortalPage ==
  [Page("content", FALSE, "none", {SaveProfile, PortalTask, PortalHeadshot})
     EXCEPT !.apart = FALSE]

FileUpload == [Command("busy", "item", "reloads", "first", TRUE) EXCEPT !.clears = FALSE]
FileComment == [Command("none", "nothing", "reloads", "first", TRUE) EXCEPT !.clears = FALSE]
SpeakerFilesPage ==
  [Page("content", FALSE, "none", {FileUpload, FileComment})
     EXCEPT !.apart = FALSE, !.retries = TRUE]

RequestChange == [Command("busy", "any", "reloads", "last", FALSE) EXCEPT !.clears = FALSE]
SpeakerSubmissionsPage ==
  [Page("content", FALSE, "none", {RequestChange}) EXCEPT !.apart = FALSE, !.retries = TRUE]

\* The shell around the organizer's pages asks for the session at every address,
\* gives up after eight seconds and drops an answer for an address it has left.
ProductShell == Page("content", TRUE, "content", {})

\* The pages of an event that organizers open, those of a speaker, and the pages of an
\* integration, of an organization and of the shell.
EventPages ==
  {ReviewsDecisionsPage, SubmissionsPage, AgendaPage, PublishProgramPage, CommunicationsPage,
   SpeakersPage, SpeakerTasksPage, SpeakerResourcesPage, CfpBuilderPage, EventSettingsPage}
SpeakerPages == {SpeakerPortalPage, SpeakerFilesPage, SpeakerSubmissionsPage}
Pages ==
  EventPages \cup SpeakerPages
    \cup {AirtablePage, AcceleventsPage, SpeakerCrmPage, ProductShell}

-----------------------------------------------------------------------------
NothingYet == [item \in Items |-> -1]
NoNotice == [item |-> Unheld, at |-> 0]
NoCommand == Command("none", "nothing", "rests", "never", TRUE)
Slots(p) == {command.slot : command \in p.commands} \cup {"none"}

Request(kind, command, item) ==
  [n |-> budget.clicks + budget.turns + 1, kind |-> kind, command |-> command, item |-> item,
   view |-> view, live |-> TRUE, key |-> key, stage |-> "sent", at |-> NothingYet]

WorkPagesInit ==
  /\ tab \in Pages
  /\ revision = [item \in Items |-> 0]
  /\ view = FirstView /\ listed = FirstView
  /\ holds = NothingYet
  /\ busy = [slot \in Slots(tab) |-> Unheld]
  /\ toast = NoNotice /\ failed = FALSE
  /\ pending = {[n |-> 0, kind |-> "load", command |-> NoCommand, item |-> Unheld,
                 view |-> FirstView, live |-> TRUE, key |-> 0, stage |-> "sent",
                 at |-> NothingYet]}
  /\ budget = [clicks |-> 0, turns |-> 0]
  /\ key = 0 /\ acted = {}
  /\ history = [lapped |-> FALSE, strayed |-> FALSE, missed |-> FALSE,
                carried |-> 0, promised |-> 0]

Goes(request, next) == pending' = (pending \ {request}) \cup {next}

\* Messages: on a page with one message, a new one takes the place of the old.
Told(text) == toast' = text /\ failed' = (tab.apart /\ failed)
Complained == failed' = TRUE /\ toast' = IF tab.apart THEN toast ELSE NoNotice
Frees(request) ==
  busy' = [slot \in Slots(tab) |->
             IF slot = request.command.slot \/ (request.kind = "load" /\ tab.frees)
               THEN Unheld ELSE busy[slot]]

-----------------------------------------------------------------------------
(* The person at the page.                                                 *)

Enabled(command, item) ==
  /\ tab.waits = "content" => holds # NothingYet
  /\ tab.waits = "load" => \A request \in pending : request.kind # "load"
  /\ command.bars = "any" => busy[command.slot] = Unheld
  /\ command.bars = "item" => busy[command.slot] # item

Clicks(command, item) ==
  /\ budget.clicks < MaxClicks /\ Cardinality(pending) < MaxPending
  /\ Enabled(command, item)
  /\ budget' = [budget EXCEPT !.clicks = @ + 1]
  /\ pending' = pending
                \cup {Request(IF command.asks THEN "reload" ELSE "command", command, item)}
  /\ busy' = IF command.slot = "none" THEN busy ELSE [busy EXCEPT ![command.slot] = item]
  /\ toast' = IF command.clears THEN NoNotice ELSE toast
  /\ failed' = (failed /\ ~tab.apart /\ ~command.clears)
  /\ history' = [history EXCEPT !.lapped = @ \/ pending # {}]
  /\ UNCHANGED <<tab, revision, view, holds, listed, key, acted>>

\* An answer that will replace the content and that no guard drops once the view is
\* another.
Strays(request) ==
  IF request.kind = "load" THEN ~tab.guards
  ELSE tab.views = "content" /\ request.command.then = "reloads"

Overtaken(request) ==
  IF request.kind = "load" /\ tab.guards THEN [request EXCEPT !.live = FALSE] ELSE request

\* A new filter, search or address loads its content; the answers to earlier loads
\* of the page are dropped where the page guards against them.
Turns(next) ==
  /\ tab.views # "none" /\ next # view /\ budget.turns < MaxTurns
  /\ budget' = [budget EXCEPT !.turns = @ + 1]
  /\ view' = next
  /\ pending' = {Overtaken(request) : request \in pending}
                \cup {[Request("load", NoCommand, Unheld) EXCEPT !.view = next]}
  /\ history' = [history EXCEPT
       !.lapped = @ \/ pending # {},
       !.strayed = \E request \in pending : Strays(request)]
  /\ UNCHANGED <<tab, revision, holds, listed, busy, toast, failed, key, acted>>

\* The first load failed and is asked for again.
Retries ==
  /\ tab.retries /\ failed /\ holds = NothingYet /\ budget.turns < MaxTurns
  /\ budget' = [budget EXCEPT !.turns = @ + 1]
  /\ pending' = pending \cup {Request("load", NoCommand, Unheld)}
  /\ failed' = FALSE
  /\ history' = [history EXCEPT !.lapped = @ \/ pending # {}]
  /\ UNCHANGED <<tab, revision, view, holds, listed, busy, toast, key, acted>>

-----------------------------------------------------------------------------
(* The server.                                                             *)

\* A command is carried out, and once only for a key that is kept.
CarriesOut(request) ==
  /\ request.kind \in {"command", "publish"} /\ request.stage = "sent"
  /\ IF request.command.kept /\ request.key \in acted
       THEN UNCHANGED <<revision, acted, history>>
       ELSE /\ revision' = [revision EXCEPT ![request.item] = @ + 1]
            /\ acted' = acted \cup {request.key}
            /\ history' = [history EXCEPT !.carried = @ + 1]
  /\ Goes(request, [request EXCEPT !.stage = "answered", !.at = revision'])
  /\ UNCHANGED <<tab, view, holds, listed, busy, toast, failed, budget, key>>

Reads(request) ==
  /\ request.kind \in {"load", "reload"} /\ request.stage = "sent"
  /\ Goes(request, [request EXCEPT !.stage = "answered", !.at = revision])
  /\ UNCHANGED <<tab, revision, view, holds, listed, busy, toast, failed, budget, key,
                 acted, history>>

-----------------------------------------------------------------------------
(* Answers.                                                                *)

\* What a load that succeeded shows.  A list of its own is not what commands reload:
\* only the first load brings both.
Shows(request) ==
  /\ holds' = IF request.kind = "load" /\ request.n # 0 /\ tab.views = "own list"
                THEN holds ELSE request.at
  /\ listed' = IF request.kind = "load" \/ tab.views = "content" THEN request.view ELSE listed

\* A guarded load whose view is gone is dropped, answer and error alike.
AnswersPageLoad(request) ==
  /\ request.kind = "load" /\ request.stage = "answered"
  /\ pending' = pending \ {request}
  /\ IF request.live
       THEN /\ Shows(request) /\ Frees(request)
            /\ toast' = IF "notice" \in tab.wipes THEN NoNotice ELSE toast
            /\ failed' = (failed /\ "error" \notin tab.wipes)
            /\ history' = [history EXCEPT !.missed = FALSE]
       ELSE UNCHANGED <<holds, listed, busy, toast, failed, history>>
  /\ UNCHANGED <<tab, revision, view, budget, key, acted>>

\* What the notice of a command promises the page to show: a command after which
\* the content rests promises nothing.
NoticeOf(request) ==
  [item |-> request.item,
   at |-> IF request.command.then = "rests" THEN 0 ELSE request.at[request.item]]

\* A success: the next click has a new key.
Succeeds(request) ==
  /\ key' = IF request.command.kept THEN key + 1 ELSE key
  /\ history' = [history EXCEPT !.promised = @ + 1]

\* A command goes on to the load that follows it.
ThenReloads(request) ==
  /\ request.kind = "command" /\ request.stage = "answered"
  /\ request.command.then = "reloads"
  /\ Succeeds(request)
  /\ Goes(request, [request EXCEPT !.kind = "reload", !.stage = "sent"])
  /\ IF request.command.told = "first" THEN Told(NoticeOf(request)) ELSE UNCHANGED <<toast, failed>>
  /\ UNCHANGED <<tab, revision, view, holds, listed, busy, budget, acted>>

\* What was saved is shown, and published with a second request.
SavesFirst(request) ==
  /\ request.kind = "command" /\ request.stage = "answered"
  /\ request.command.then = "publishes"
  /\ Succeeds(request)
  /\ Goes(request, [request EXCEPT !.kind = "publish", !.stage = "sent"])
  /\ holds' = request.at
  /\ UNCHANGED <<tab, revision, view, listed, busy, toast, failed, budget, acted>>

\* The content after a command that is done with its own answer.
ContentAfter(request) ==
  CASE request.command.then \in {"replaces", "publishes"} -> request.at
    [] request.command.then = "merges" ->
         [holds EXCEPT ![request.item] = request.at[request.item]]
    [] OTHER -> holds

IsDone(request) ==
  /\ request.stage = "answered"
  /\ \/ request.kind = "publish"
     \/ request.kind = "command" /\ request.command.then \notin {"reloads", "publishes"}
  /\ Succeeds(request)
  /\ pending' = pending \ {request}
  /\ holds' = ContentAfter(request)
  /\ Told(NoticeOf(request)) /\ Frees(request)
  /\ UNCHANGED <<tab, revision, view, listed, budget, acted>>

\* The reload after a command.  What it wipes includes the notice just told.
AnswersReload(request) ==
  /\ request.kind = "reload" /\ request.stage = "answered"
  /\ pending' = pending \ {request}
  /\ Shows(request) /\ Frees(request)
  /\ IF request.command.told = "last"
       THEN Told([item |-> request.item, at |-> request.at[request.item]])
       ELSE /\ toast' = IF "notice" \in tab.wipes THEN NoNotice ELSE toast
            /\ failed' = (failed /\ "error" \notin tab.wipes)
  /\ UNCHANGED <<tab, revision, view, budget, key, acted, history>>

\* A request is refused or breaks off, before or after the server acted.  Where a
\* reload tells its own failure, its command goes on to tell its success.
Fails(request) ==
  /\ pending' = pending \ {request}
  /\ IF request.kind = "load" /\ ~request.live THEN UNCHANGED <<toast, failed, busy, history>>
     ELSE /\ IF request.kind = "reload" /\ request.command.own /\ request.command.told = "last"
               THEN toast' = NoticeOf(request) /\ failed' = TRUE
               ELSE Complained
          /\ Frees(request)
          /\ history' = [history EXCEPT !.missed = @ \/ request.kind = "load"]
  /\ UNCHANGED <<tab, revision, view, holds, listed, budget, key, acted>>

\* The same where nothing catches it: no message, and the lock stays taken.
BreaksOff(request) ==
  /\ ~tab.catches /\ request.kind = "command"
  /\ pending' = pending \ {request}
  /\ UNCHANGED <<tab, revision, view, holds, listed, busy, toast, failed, budget, key,
                 acted, history>>

WorkPagesNext ==
  \/ \E command \in tab.commands, item \in Items : Clicks(command, item)
  \/ \E next \in Views : Turns(next)
  \/ Retries
  \/ \E request \in pending : CarriesOut(request)
  \/ \E request \in pending : Reads(request)
  \/ \E request \in pending : AnswersPageLoad(request)
  \/ \E request \in pending : ThenReloads(request)
  \/ \E request \in pending : SavesFirst(request)
  \/ \E request \in pending : IsDone(request)
  \/ \E request \in pending : AnswersReload(request)
  \/ \E request \in pending : Fails(request)
  \/ \E request \in pending : BreaksOff(request)

WorkPagesSpec == WorkPagesInit /\ [][WorkPagesNext]_pageVars

-----------------------------------------------------------------------------
Settled == pending = {}

WorkPagesTypeOK ==
  /\ view \in Views /\ listed \in Views
  /\ \A slot \in DOMAIN busy : busy[slot] \in Items \cup {Unheld}
  /\ \A request \in pending : request.kind \in {"load", "command", "publish", "reload"}

\* A page that waits for its content, has one lock that every button heeds, and
\* no filter: on it no request ever overlaps another.
Exclusive(p) ==
  /\ p.waits \in {"content", "load"} /\ p.views = "none"
  /\ \A command, other \in p.commands : command.slot = other.slot
  /\ \A command \in p.commands : command.bars = "any"
ExclusiveApart == Exclusive(tab) => ~history.lapped

\* Once everything is answered, no button is held back, but for the page whose save
\* may break off uncaught.
LocksComeFree ==
  (Settled /\ tab.catches) => \A slot \in DOMAIN busy : busy[slot] = Unheld

\* A success that is told beside no error is on the screen, unless requests crossed.
NoticeIsShown ==
  (Settled /\ toast # NoNotice /\ ~failed /\ ~history.lapped /\ holds # NothingYet) =>
    holds[toast.item] >= toast.at

\* The list answers the filter that is set, unless an answer that no guard covers was
\* under way when it changed, or its load failed.
ListAnswersFilter ==
  (Settled /\ ~history.strayed /\ ~history.missed /\ holds # NothingYet) => listed = view

\* With a kept key a write is carried out at most once more than successes were told,
\* however often answers are lost and the button is clicked again.
KeyActsOnce ==
  (\A command \in tab.commands : command.kept) =>
    history.carried <= history.promised + 1

WorkPagesSafe ==
  /\ WorkPagesTypeOK /\ ExclusiveApart /\ LocksComeFree
  /\ NoticeIsShown /\ ListAnswersFilter /\ KeyActsOnce
=============================================================================
