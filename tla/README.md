# ProgramFlow: TLA+ models

ProgramFlow runs the program of a conference, from the call for papers to the
published agenda. One Cloudflare Worker (`src/apps/worker`) serves the API,
consumes the queue `JOBS` and runs every five minutes from cron; all authority
over state is in PostgreSQL (`src/packages/database`); a React application
(`src/apps/web`) shows it. This directory holds TLA+ models of the places where
requests, queue consumers, cron, provider callbacks and open pages meet, the TLC
runs that check them, and the proofs about them.

The difficulty is the same everywhere: a request is an async function with an
`await` on the database, the queue, a provider or the network between any two
lines. Invocations interleave at each of them, and an invocation may end at any
of them. The code answers with transactions, `FOR UPDATE`, advisory locks,
unique keys, compare-and-set on a revision, an outbox, and in the pages with
locks, guards and reloads. The models ask whether the answer is complete.

## 1. Inventory

| Component | State | Operations | Interacts with |
|---|---|---|---|
| Outbox and queue consumer (`outbox.ts`, `index.ts`) | `outbox_events`: status, due time, attempts; the queue's messages | insert with a business change, claim (cron, `waitUntil`, nested), send, consume, settle, mark failed; hand over CRM requests, remind | every producer; handlers of Communications, Publishing, Decisions |
| Communications (`modules/communications`) | communications, recipients, delivery attempts, provider events, templates, calendar artifacts | queue a communication, dispatch, retry, apply a provider outcome (webhook, poll), recompute the communication's status | Outbox (delivery rows), the mail provider, Decisions, Publishing (calendar) |
| Decisions and acceptance (`modules/program/acceptance.ts`) | decisions, audit events, notifications, sessions, speakers | decide, change, edit and review the notification, release, hand off | Outbox, Communications, Program (sessions) |
| Reviews (`modules/reviews-decisions`, `ReviewerQueuePage.tsx`) | rounds, scorecards, reviewers' caps, conflicts, assignments, responses, AI advice; the reviewer's queue, selection and typed answers | create a plan, distribute, assign, declare a conflict, save, finalize, recuse, score, request and override advice | Decisions reads its results |
| Scheduling (`modules/scheduling`) | schedule revisions, placements | start a revision, place, unplace, auto-place, view and persist readiness, hand off | Program (sessions), Publishing |
| Publishing (`modules/publishing`, `public-program`) | publication, widgets, itineraries; the attendee's cookie and tokens | go live, pause, show the public program, save a widget, itineraries | Scheduling (handoff, row lock), Outbox (`publication.went_live`) |
| Public API (`modules/public-api`) | cursors in the client's hands | pages of sessions, speakers and the agenda | Publishing |
| Session content (`files-deliverables/service.ts`, `program/change-requests.ts`) | sessions, their versions, change requests | edit, approve and restore content; request, approve and refuse a change of an accepted session | Decisions (creates the session), Publishing |
| Forms and submissions (`modules/forms-submissions`) | forms, versions, submissions, drafts | edit and publish a form, draft, submit, edit, enter by hand, remind | Decisions, Communications |
| Files and deliverables (`modules/files-deliverables`, `OrganizerFilesPage.tsx`) | deliverables and their versions, upload authorizations, file objects, the private bucket, versions of the speaker's profile, bundle exports | request files, authorize an upload, put the object, finalize, review, edit and restore a profile, export a bundle | Speaker operations (assignments, profiles), object storage |
| Speaker operations (`modules/speaker-operations`) | speakers, tasks, assignments, resources | add, assign, set a due date, complete; portal, roster and detail | Outbox (tasks of an accepted speaker), cron, Communications |
| Speaker CRM (`modules/speaker-crm`) | contacts, aliases, notes, segments, outreach requests | import, note, merge, segment, request outreach | cron (`consumeCrmOutreachHandoffs`) |
| Integrations (`modules/integrations`) | connections, links, sync runs and items | export to and import from Airtable, publish to Accelevents, retry | external services |
| Identity (`modules/identity-access`) | people, identities, memberships, the actor an isolate caches | first login, login, onboarding | Speaker operations and CRM (people) |
| Event configuration (`modules/event-configuration`) | tracks, formats, rooms and their order | save a catalog | Decisions (a session takes its track) |
| Web application (`src/apps/web`) | content, locks, notices and requests of each page | load, click, filter, reload | all services |
| Dashboard, evidence, contracts, test kit | projections and declarations | reads, fixtures | all |

`PROJECT.json` lists every component with its sources and how much of it is
modelled, and the hazards with the line where each bites.

**What makes each component correct.** *Outbox*: nothing a transaction promised
is lost, nothing is settled before its effect is committed, two invocations do
not run one handler at the same time unless the platform duplicated something.
*Communications*: the ledger of attempts is exact, every send is asked for by
somebody, a delivered recipient has a receipt and stays delivered, a queued one
is attempted. *Decisions*: one session per acceptance, one release per outcome,
only reviewed copy goes out, no way back from an acceptance, every release is
communicated, and no speaker sees an outcome before its release. *Reviews*: plans
are complete and balanced, conflicts are respected, status and response agree, a
score is a mean of what was answered, answers stay with the submission they were
typed for. *Scheduling and Publishing*: rooms are never double-booked, the
selected revision is sealed, what goes live is complete and free of conflicts,
no command acts twice, an attendee finds what he selected. *Public API*: pages
skip and repeat nothing that stands still. *Session content*: the history has no
gaps and ends with what is shown, nobody overwrites what he has not seen.
*Forms*: a published version never changes, a proposal's events tell its
versions. *Files*: a version has its stored object, versions and status are in
step. *Speaker operations*: an accepted speaker has every task. *CRM and
identity*: one person per address, nothing stranded by merges. *Integrations*: a
link leads to its record, receipts are true. *Pages*: a lock comes free, a
notice is true, a list answers its filter, nothing is stored over what its
author did not see.

## 2. Modules

| Module | Models | State and actions |
|---|---|---|
| `Outbox` | `outbox.ts`, `index.ts` | `row`, `due`, `queue` are the table and the queue; `pc`, `job`, `rest`, `request`, `todo` are the local variables of each invocation. One action per await. `Children` says which delivery rows a handler inserts, `Fanouts` which handlers insert them one transaction at a time (the calendar handoff). |
| `AtLeastOnce` | what the outbox promises | a row that is owed is applied any number of times, its delivery rows are inserted only by it, and it counts as applied only with all of them |
| `Scheduled` | the steps of `scheduled()` before it claims: CRM outreach, daily reminders | requests, communications, the day's key and its audience; overlapping invocations between two awaits |
| `DeliveryPolicy` | `delivery-policy.ts` and the pure functions of `communications/service.ts` | statuses, the retry policy, the effect of a provider event, the status of a communication |
| `Delivery` | one recipient in `communications/service.ts` | `recipient`, `attempts`, `request` (outbox rows by idempotency key), `recorded` (provider events) are tables; `consumer`, `desk`, `intake` are dispatching consumers, retry requests and outcome requests between two awaits; `mail` is what the provider took |
| `Campaign` | `recomputeCommunicationStatus` in overlapping transactions | the recipients' statuses as committed and as each open transaction sees them |
| `Decision` | `program/acceptance.ts` and the decision handler of `communications/service.ts` | the submission's decision, its notification, receipts, session; requests, editors and handlers between two awaits |
| `Portal` | the queries of `speaker-operations`, `files-deliverables`, `forms-submissions` and the reminders, each with its joins | decisions, releases, sessions, tasks and deliverables; what every page shows is an operator of them, computed with and without the decisions that are not released |
| `Reviews` | `reviews-decisions` service, repository and rules | assignments, responses and conflicts; distributors that hold a plan, sessions of reviewers between check and write; `together` is history: the most distributions that were in progress at one time |
| `Evaluation` | scorecards and scores in `rules.ts`, `ReviewerQueuePage.tsx`, results and the AI's advice | the plan, stored reviews, the page (`desk`: queue, filter, selection, typed answers, request) |
| `Agenda` | `scheduling` and `publishing` | revisions, placements, the publication, receipts; each organizer's request between two awaits; a request at `check` or `write` holds the revision's row lock |
| `PublishedProgram` | what Publishing promises the public | a program appears by going live with an acceptable one under a new number, and disappears by being taken down |
| `Attendees` | `publishing/routes.ts`, `service.ts`, `PublicProgramPage.tsx`, `itinerary-persistence.ts` | itineraries, the browser's cookie, tokens and pending change, tabs with their requests |
| `ProgramFeed` | the three reads of `loadPublishedProgram`, `public-api/service.ts`, the cache tag | the publication, the placements of every schedule revision (`starts`, edited while a revision is not the selected one), lectures, speakers' names; one reader who follows pages or polls with a tag |
| `Sessions` | session content in `files-deliverables/service.ts`, `change-requests.ts` | `session`, `history`, `change` are tables; `desk` is what each organizer's request has read outside its transaction and is about to write |
| `Document` | what a history promises | a sequence of versions that only grows: edit, judge, restore |
| `Files` | the rest of `files-deliverables/service.ts` | deliverables, versions, authorizations, file objects, the bucket (`stored`), the profile's headshot and its versions (`snapshots`); `request` is each HTTP request between two awaits |
| `CfpForm` | the form in `forms-submissions/service.ts`, `CfpBuilderPage.tsx` | the form's row, its columns and fields by the save that wrote them, published versions; each organizer's page and request; `rewound` is history: a publish or a close took the revision back |
| `Proposals` | a speaker's proposals in `forms-submissions/service.ts`, `domain.ts` | published definitions, proposals with versions and answers, decisions, outbox events; requests between checks and write |
| `EventCatalog` | `event-configuration/service.ts` and the track of an accepted session | rows by id with their positions, sessions' references |
| `Accounts` | `resolve-actor.ts`, `workspace.ts`, and organizers who add the same address | people by spelling of the address, identities, aliases, cached actors, workspaces |
| `Crm` | `speaker-crm/service.ts` | contacts, aliases and notes; merges that have read and wait for their rows |
| `SpeakerTasks` | tasks in `speaker-operations`, `files-deliverables`, `outbox.ts` | tasks by key, assignments, deliverables; creators and handlers between two statements |
| `Airtable` | `integrations/service.ts`, `repository.ts`, `airtable-adapter.ts` | links, sync runs, the external table with the value and the note of each row, either of which may be empty; runs batch by batch |
| `Accelevents` | `integrations/accelevents` | links with fingerprints, sync items, external records; runs record by record |
| `ContentDesk` | `OrganizerFilesPage.tsx` over the content services | stored versions, the selected row, what each form shows and holds, requests in flight |
| `WorkPages` | seventeen pages of `src/apps/web/src/features`, and the shell around them | each page is a record of what its buttons wait for, how its content follows a success, when it tells it, whether a failed load is asked for again, whether a save goes on to publish, and what it does with late answers; one machine of requests and answers runs them all |
| `ExchangeProofs`, `IntegrationsProofs`, `ContentProofs`, `AgendaProofs`, `SubmissionsProofs`, `PeopleProofs`, `PagesProofs` | theorems (section 4) | |
| `NumberInduction` | induction over the natural numbers, in a form the provers can use | |

`MC*.tla` extend modules that share no variable and give values to their
constants: `MCExchange` (what leaves the worker), `MCLive` (liveness),
`MCAgenda` (the program and its readers), `MCContent` (a proposal, its session,
its files), `MCServices` (the other services and the pages); the other `MC`
modules are small instances of one module, for the violations. Their variable
`side` says which module a behaviour follows, so one run checks several modules
without the product of their states; an invariant such as `PagesHold` is that of
its modules where they move. `MC*_*.cfg` are the instances. Operators named
`Bug...` are seeded faults: each is a changed form of the definition after it,
listed in `PROJECT.json` under `mutants`, with the property that must notice it.
No specification uses one.

How the modules fit together: `Outbox` delivers events, at least once and
possibly to two consumers at a time. `Delivery`, `Decision`, `Agenda` and
`SpeakerTasks` take this as their environment: a request that is `open` is
handled, one that is `held` may be handled a second time (a fault), a handler
may be cut off and repeated. `Outbox` checks what they assume (`KeepsPromise`,
`Inductive`, `AppliedUnlessLost`); the assumption is used in the fairness of
`Delivery` and `Decision`. `Evaluation` takes a save as one step, and `Reviews`
opens it. `ContentDesk` takes the compare-and-set of content as one step, and
`Sessions` opens it. `ProgramFeed` and `Attendees` take going live as one step,
and `Agenda` opens it.

## 3. Runs

Times are of two workers; states are distinct states.

| Run | Question | Result and size |
|---|---|---|
| `exchange_faults` | A publication with two calendar deliveries under one handler error or failed send, one duplicate and one cut-off; one recipient under two consumers, a retry, two provider reports and a fault; overlapping transactions on one communication; two runs to Airtable and two to Accelevents under a failed, lost or cut-off request: is everything owed applied, the ledger exact, the status settled, the links and receipts true? | holds; 2.8 million states, 107 s |
| `outbox_stranded` | Is a row applied in the end even if its claimant ended between claiming and sending? | **violated**: a claimed row that was not sent is claimed by nobody |
| `live_eventually` | Are a row of the outbox and the delivery row it leads to applied in the end, with an error, a duplicate and an invocation cut off, unless a claimant ended before sending? Two retries that overlap dispatches: is a queued recipient always attempted? Two cron invocations with an error or a cut-off: is every outreach request handled and every overdue speaker reminded? A handler that is cut off: is every release communicated? | holds; 0.3 million states, 112 s |
| `agenda_program` | Two organizers with every command on two sessions, two rooms, two revisions; an attendee with two tabs, two events, a broken connection or a lost cookie; a client who follows cursors or a cache tag while the program is published, paused and edited, and the superseded schedule with it | holds; 8.5 million states, 208 s |
| `itinerary_kept` | Does a reload receive what the attendee selected? | **violated**: two overlapping first loads make two itineraries |
| `content_versions` | Two racing decisions with an edit of the notification and a handler that is cut off; two organizers and two change requests on one session; two requests on the files and the profile of one speaker | holds; 2.4 million states, 122 s |
| `content_once` | Does one upload become one version? | **violated** by two overlapping finalizations |
| `services_data` | Two organizers in the form builder; two requests on two proposals; a round with distributions that overlap, saves and conflicts; the reviewer's page; a catalog around acceptances; two logins and an organizer; merges and notes; tasks around an acceptance; the portal before and after releases; the organizer's files page; the other pages | holds; 1.7 million states, 135 s |
| `form_stale` | Does a save of the form replace only what its page shows? | **violated** after a publish that took the revision back past two saves |
| `decision_frozen` | Is a released notification immutable? | **violated** by an edit checked before the release |
| `reviews_final` | Is a finalized review immutable? | **violated** by a draft save checked before |
| `file_tasks` | Can whoever is assigned a file request upload to it? | **violated** for a speaker accepted after the request |

The seven violations are disagreements between the code and a sentence of the
repository, quoted in `PROJECT.json` under `findings`.

**Bounds.** Each hazard needs two actors, or one actor and one fault, on one
record: two claimants, a retry and a dispatch, two commands, a view and an edit,
two tabs. The instances have two actors of each racing kind and one of the
others, and each cfg says what it has in its comment. `MaxFailures`, `MaxDups`,
`MaxCrashes`, `MaxFaults`, `MaxErrors`, `MaxBreaks`, `MaxBroken` and
`MaxCutOffs` bound platform faults to one of each kind, so that every property is
checked with a fault at every point of every interleaving. `MaxNotification`, `MaxRevision`, `MaxFormRevision`,
`MaxFormVersion`, `MaxDefinitions`, `MaxRevisions`, `MaxVersion`, `MaxSnapshot`
and `MaxPublic` bound versions: one to read, one that overtakes it, and one more
where a history must continue. `Sessions` has four revisions: the first, an edit
or approval, a restore, and a change request on top. `MaxOutcomes` bounds
recorded provider events, `MaxEntries` and `MaxRows` a catalog, `MaxItineraries`
itineraries, `MaxSaves` and `MaxAdvice` a reviewer's saves and the AI's, and
`MaxEdits` what changes between two pages of a client, placements of a superseded
revision included: they move a lecture to an hour of `Times`. `agenda_program` uses two
sessions with a common speaker, three placements by hand and the automatic grid
of two hours and two rooms: enough for a room clash, a speaker clash without a
room clash, and a program without either. In `content_versions` the files of a
speaker are reviewed, or his profile is edited, next to every upload: neither
reads what the other writes. Its client sees three lectures of two
speakers on pages of one, so a cursor can stand before, on and after what is
withdrawn or moved. In `services_data` one reviewer has room for one submission
and the other for two, so plans at the cap occur, and two distributions exceed
it together; sessions of reviewers, which take no assignment away and give none,
run next to one distribution at a time, and two distributions run without them
while conflicts are declared;
one scorecard can be scored with the input that is typed, one cannot, one is
refused. The files page has two rows, three requests of which two overlap
(`MaxCalls`, `MaxTogether`) and a save elsewhere (`MaxElsewhere`); a page of
`WorkPages` has two items, two views, two commands, one change of the view and
two requests at a time (`MaxClicks`, `MaxTurns`, `MaxPending`): a command and
what overtakes it. A load that is asked for again counts as a change of the view. It was also run with three commands, with the same result.

**Symmetry** is declared only in runs without liveness properties, over actors
and keys that no constant or property singles out. In the runs that follow
several modules one set of model values serves several of them, and each
permutation acts on all at once.

**Deadlock.** The modules come to rest when the work is done or a bound is
reached, so the runs set `CHECK_DEADLOCK FALSE`. The waits of `Agenda`'s
organizers on one another's row locks cannot form a circle: a request holds at
most the lock of one revision and takes the publication's last.

**Steps.** A step is what happens between two awaits, with these reductions. A
transaction whose first statement takes the lock that orders it against every
other writer is one step (`decideSubmission`, `releaseDecision`: the lock on
the submission or decision row; `publishProgram`, `pausePublication`: the
advisory lock of the publication; `dispatchDelivery`'s transactions: the
recipient's row; a save of the event's configuration: the row of the event).
Transactions that read before they lock, or lock different rows, are several
steps (`retryDelivery`, `applyProviderOutcome`, `saveResponse`,
`updateDecisionNotification`, the agenda's edits, `publishForm`, the saves of a
proposal, merges of contacts, all nested claims).
`recomputeCommunicationStatus` is modelled on its own in `Campaign`, where
transactions lock different recipients of one communication and each sees the
others' rows as committed (READ COMMITTED). In `Sessions` and `Files` a
transaction that only writes is one step: what it writes it keeps locked, and a
unique index decides which of two is rolled back. `finalizeUpload` reads
`latestVersion` in a step of its own, because the SELECT takes no lock. The
profile and its latest version are read in one step: a request that reads one
before and the other after a change either names a version that is not the
latest or a number that is taken. `loadPublishedProgram` reads the publication,
the sessions and the speakers in three steps. In the pages a step is an event
handler up to its next await: the state it set before is on the screen.

**Fairness.** `Outbox`: an invocation that started goes on unless it is cut off
(weak, per worker); the clock advances (weak); the queue keeps delivering a
message it holds, and cron fires every five minutes (strong, because another
invocation may disable the step for a while). Nothing is assumed of business
requests, `waitUntil` and faults. `Delivery` and `Decision`: a handler or
consumer goes on and an open request is handled, which is what
`AppliedUnlessLost` says of the outbox. `Scheduled`: days pass, and an invocation of cron starts
and proceeds (weak). `live_eventually` has `delivered` events only (an event of
another kind may put a stale `queued` back), fresh keys (the web client sends
`crypto.randomUUID()`, `apps/web/src/features/communications/api.ts`) and one
fault: after a duplicate and a crash together a recipient may stay in
`sending`, as `outbox_stranded` shows for a row. Nothing is assumed of people at
pages.

**Other disagreements met while modelling.** These have no run of their own;
each is a behaviour of the models, with the line where it starts.

- Retries requested at the same time may exceed the limit of three attempts
  (`communications/service.ts:337`), a duplicate queue message mails twice
  (`:264`), an outcome computed from a status read before may hide a hard
  bounce, take back "delivered" or write "queued" (`:390`), and a retry that
  reuses a key leaves the recipient queued (`:361`).
- Two distributions made from the same load may exceed a reviewer's cap together
  (`reviews-decisions/service.ts:67`), by one cap for each that overlapped, as
  `CapRespected` says; a save may overtake a recusal (`repository.ts:425`).
- A stale view sets the selected revision's status back to draft
  (`scheduling/service.ts:139`). Only the revision that is selected now is sealed
  (`scheduling/repository.ts:255`): one that was superseded may be edited while
  the calendar handoff reads it, and an answer whose publication was superseded
  between its first read (`publishing/service.ts:299`) and the second (`:349`)
  may show times that were never published. `FeedHolds` says that this happens
  to such answers only.
- Two headshot uploads for a new profile create two containers
  (`files-deliverables/service.ts:273`); a second upload under one authorization
  may reject a file that is verified already (`:350`; `OnlyStaleUploadRejects`
  says that nothing else does).
- A key used for deciding and for changing a decision drops one audit event
  (`acceptance.ts:207`).
- A save that overlaps a decision is answered with the decision before it is
  released (`forms-submissions/service.ts:554`, against
  `docs/requirements/decision-workflows.md:6` and `:12`), and an acceptance
  opens the portal before its release. `Portal` shows what the other pages do.

## 4. Proofs

Seven modules hold the theorems about the models, and `NumberInduction` the
induction they use. Each theorem holds for every value of the constants that
satisfies the named assumption of its module: an inductive invariant, and from
it the properties that the runs check on an instance. TLC checked every
inductive invariant before it was proved.

| Module | About | Theorems | State or refine |
|---|---|---|---|
| `ExchangeProofs` | Outbox | `Invariance`, `TypeCorrect`, `ClaimsAreInFlight`, `DispatchIsSound`, `ExactlyOneCopy` | `Inductive` and its parts, `DispatchedIsApplied`, `SingleCopy` |
| | | `OutboxKeepsPromise` | `Spec` implements `AtLeastOnce!Spec` |
| | Delivery | `DeliveryInvariance`, `LedgerIsExact`, `OnlyStaleMovesDelivered` | `DeliveryLedger`, `OnlyStaleLeavesDelivered` |
| | Campaign | `CampaignInvariance`, `Settles` | `StatusSettles` |
| | Scheduled | `ScheduledInvariance`, `OutreachIsHandedOver` | `OutreachIsSent` |
| `IntegrationsProofs` | Airtable | `AirtableInvariance`, `AirtableIsSafe`, `ReceiptsHold` | `AirtableSafe`, `ReceiptsAreTrue` |
| | Accelevents | `AcceleventsInvariance`, `AcceleventsIsSafe`, `CompletedIsMirrored` | `AcceleventsSafe`, `CompleteIsMirrored` |
| `ContentProofs` | Decision | `DecisionInvariance`, `DecisionIsSafe`, `OnlyReviewedCopyIsReleased`, `NoWayBack` | `DecisionSafe`, `ReleasedCopyIsReviewed`, `OnlyAcceptanceReopens` |
| | Sessions | `SessionInvariance`, `HistoryKept`, `ChangesApplied`, `NoLostUpdate` | `SessionInductive`, `WritersSawLatest` |
| | | `SessionIsDocument` | `SessionSpec` implements `Document!Spec` |
| | Files | `FilesInvariance`, `FilesAreSafe`, `StaleUploadsReject` | `FilesSafe`, `OnlyStaleUploadRejects` |
| `AgendaProofs` | Agenda | `AgendaInvariance`, `SelectedStaysSealed`, `CommandsLeaveReceipts`, `AutoPlacementAddsNoClash`, `BoardsInvariance`, `RoomsStayFree`, `ProgramKeepsAgenda` | `AgendaHolds`, `SelectedIsSealed`, `CommandsActOnce` |
| | | `AgendaKeepsPromise` | `Spec` implements `PublishedProgram` |
| | Attendees | `AttendeesInvariance`, `ProgramKeepsStars` | `AttendeesHold` |
| | ProgramFeed | `FeedInvariance`, `ProgramKeepsFeed` | `FeedHolds` |
| `SubmissionsProofs` | CfpForm | `FormInvariance`, `PublishedVersionsStay`, `SavesReplaceWhatIsShown` | `VersionsImmutable`, `SavesSeeWhatTheyReplace` |
| | Proposals | `ProposalsInvariance`, `ProposalsStayInLimits` | `ProposalsHold` |
| | Portal | `PortalInvariance`, `PortalShowsWhatIsAsked`, `NothingElseHides` | `PortalHolds`, `OnlyReopeningHides` |
| | EventCatalog | `CatalogInvariance`, `CatalogReadsAsSaved` | `CatalogHolds` |
| | Reviews | `DistributionIsSound`, `ReviewsInvariance`, `CapsAreRespected` | `DistributionSound`, `ReviewsSafe` |
| | Evaluation | `EvaluationInvariance`, with Reviews `ReviewsAreFair` | `ReviewsHold` |
| `PeopleProofs` | Accounts, Crm | `AccountsInvariance`, `CrmInvariance`, `PeopleAreSafe` | `PeopleHold` |
| | SpeakerTasks | `SpeakerTasksInvariance`, `SpeakersHaveTheirTasks` | `SpeakerTasksHold` |
| `PagesProofs` | ContentDesk, WorkPages | `DeskInvariance`, `PagesInvariance`, `PagesShowWhatTheySay` | `PagesHold` |

`ServicesSpec` and `ProgramSpec`, which the runs check, imply the specification
of each module they are composed of, so a theorem about a module gives the one
about the run (`ServicesMoveReviews` and its like).

**Why the invariants say more than the properties.** The properties speak of
rows, and what happens to a row is decided by an invocation that read something
before its last await. So each inductive invariant adds what every invocation
holds at each of its steps and in what sense that is still true. Without it a
step could start from a state in which an invocation holds something no read
ever gave it.

*Outbox.* `OutboxAssumption`: the constants have their types and `None` is no
event. `Inductive` adds where an invocation is (`Placed`: no message when idle,
claimed rows only when sending), that whatever is queued, held, claimed or
applied is in the table (`InTable`), that a claimed row has someone who owes its
status (`ClaimedIsOwed`, with `Owes` separating a handler that settles before
its nested claim from one that settles after), how much of an event's delivery
rows a consumer has still to insert (`Progress`, `Effects`), and that a row that
may be claimed is held by nobody as long as nothing was duplicated or cut off
(`Exclusive`). `exchange_faults` checks it by name. The refinement follows from
it step by step: inserts by a business transaction are `Owe`, a handler's
inserts are `Spawn` or part of `Apply`, everything else stutters.

*Delivery.* `DeliveryAssumption`: finitely many keys, the first among them. The
count of attempts is bounded because every attempt, every consumer about to make
one and every open request is paid for by a request or a disturbance of its own
(`Paid`); it follows that a new attempt has a number, and with `Books` that the
number is free. A recipient without an address stays `Untouched`.

*Campaign.* `CampaignAssumption`: a communication has recipients. A transaction
that is the only open one has seen every commit, because nobody can commit
between its read and its commit; so the last of several overlapping
transactions, or the next one alone, leaves the status its recipients have.

*Scheduled.* An invocation that marks a request or enqueues its deliveries has
seen the communication committed, and one that gives the request up has, or
something failed (`InvocationFits`).

*Airtable.* `AirtableAssumption`: the canonical records are finite and fit the
table. A link leads to a row of its record (`Leads`), and a run holds at each of
its steps what that step needs (`RunHolds`). A run that overlapped no other has
written what it claims: its rows show what it read of the records, unless that is
empty, and the notes it has passed are taken over, unless they were cleared
(`Exact`). A note that was taken and is newer than its row's last edit is the
row's (`NotesTaken`). While nothing overlapped and no POST was repeated, a record
has one row at most (`SingleRows`), and whatever a run is about to create is
missing from the table (`Misses`).

*Accelevents.* `AcceleventsAssumption`: a speaker is no session. A link leads to
what Accelevents has of its record (`LeadsTo`), whatever runs overlap. As long
as none do, one run is under way, what it holds is exact, the mirror is true and
nothing is stray that no lost answer explains (`Orderly`). A session is sent only
when every speaker has a link, and what a link names stays of its record, so a
session names records of all its speakers (`SessionsNameSpeakers`).

*Decision.* `DecisionAssumption`. The invariant ties three texts together: what
the notification holds, what an editor is about to write and what a release has
put into its event. A reviewed text, and an editor whose revision is still
current, are of the decision's outcome (`ReviewedIsCurrent`); an event is of the
outcome that was released or of a rejection that was accepted later
(`EventsFollow`), and its receipt keeps its key; what a handler has done belongs
to a release (`HandledIsReleased`).

*Sessions.* `SessionsAssumption`: texts, proposals and the original content are
distinct, and there is room for one revision. `SeenIsRecorded` says that what a
request read is still a version of the history at the revision it read. Hence a
number that is free can only be the next one, and the request that holds it has
seen the present session (`FreeNumberIsNext`). So all four commits append the
prepared version (`CommitsAppend`), and what the missing check of the UPDATE's
row count might break does not happen. `NextFollows` says what the prepared
version may be, from which the refinement follows commit by commit;
`OneResolver` says that the lock on a change request keeps it pending for its
holder. `content_versions` checks `SessionInductive` by name.

*Files.* `FilesAssumption`. Rows are never deleted and objects stay in the
bucket, so what a request read is a lower bound of what is there (`StillHolds`,
`Grows`): a deliverable's or profile's next number that is still free is one more
than the last. The unique indexes do the rest. Every version has an
authorization that names its deliverable (`AuthorizedFirst`).

*Agenda.* `AgendaAssumption`. A request at `write` has found its revision
unselected, and it has held since then the row lock that going live waits for
(`StillHolds`); a creator copies a revision that was selected or the first one,
and nobody else creates (`OneCreator`). Hence the placements of the selected
revision cannot change, and what `assertPublishableRevision` found under the
lock stays true (`SelectedIsComplete`). Automatic placement is a recursive
function; by induction over the sessions it adds no clash to any board
(`AutoPlacementAddsNoClash`), and a plan on its way fits a board and does not
clash with itself (`BoardsInductive`), so rooms stay free. With this the
refinement of `PublishedProgram` is proved: what going live makes public is
complete and without clashes.

*Attendees.* What a tab asks for or saves to is an itinerary of its event, and a
page is open only when its recovery token is stored (`TabFits`). Without a fork
one itinerary can be reached, and it has what was starred (`OneKnown`).

*ProgramFeed.* `FeedAssumption`: finitely many rows with nonzero ids. Sorted
lists exist, by induction over finite sets. The selected schedule is not edited,
so what is read of a publication that is still the public one agrees between two
reads; what is kept of an older one need not (`OfOneRevision`). A read has every
row that stayed public since the listing began and is placed (`NothingMissed`).
A cursor belongs to one publication, so only the last read of a listing can meet
one that was superseded and edited (`reader.moved`), and this one is excepted. So a client at
a cursor has seen those before it once and in order (`ListingHolds`), and at the
end of the list all of them.

*CfpForm.* For the versions typing of what each request holds is enough. That a
save replaces what its page shows needs, as long as the revision was not taken
back, that no page and no request is ahead of the row, and that a page at the
row's revision shows its content (`UpToDate`). Afterwards it is false:
`form_stale`.

*Proposals.* `ProposalsAssumption`: finitely many requests and proposals. What a
request checked still holds of the version of the form it is for (`RequestFits`),
a proposal's events tell its versions (`TellsOnce`), and submitted proposals
with those on their way are at most the limit and one for each other request
(`RoomLeft`).

*Portal.* A file's task is about the session it is linked to, which is there, and
only a session's file is about one (`AskFits`); a save that no decision overtook
precedes the decision, and only one that was overtaken tells it early. Hence the
joins of the pages find the release of every row they show.

*EventCatalog.* `EventCatalogAssumption`: the rows have room for a list. A save
goes through its entries one by one; by induction over the list the rows kept so
far are the entries so far, each under its name and place, and nothing is
removed before the end.

*Reviews.* `ReviewsAssumption`: the pool is a sequence without repeats, and
submissions and requests are finite. A status says what the response says,
because a save writes both and a recusal writes the conflict with the status;
what a session checked is an assigned pair for good. A distribution keeps to its
rules by induction over its submissions in any state. The caps need a sum: what
a reviewer has, with what all distributions on their way will give, is at most
the cap for each distribution that was ever in progress at the same time
(`CapsInductive`). A plan of its own respects the cap beside what is there, each
of the others is within the cap, and what is inserted was pending. With one
distribution at a time this is the cap itself; with two TLC finds the excess.

*Evaluation.* `EvaluationAssumption`: weights and ranges are integers and the
queue is finite. What is stored, sent and on the page is typed for its own
submission (`RowFits`, `SentFits`, `PageFits`). A score is a fold over the
criteria; sums, and the product of the ranges as a common denominator, are
computed by induction over subsets (`SubsetInduction`), a weighted mean lies
between its extremes (`MeanIsBetween`), and rounding keeps order (`RoundAbove`).
The proof corrected the model's property: `percentComplete` may show 100 with
one of 200 reviews outstanding, which TLC could not find among two.

*Accounts.* Unless two requests raced, one moves at a time (`Alone`), and an
address has one person with one workspace (`RowsFit`); what a login or an
organizer has found is then what there is (`LoginFits`, `AddingFits`), and what
an isolate caches is a person that exists (`ActorFits`).

*Crm.* `CrmAssumption`: an address is not the name of a status. Unless merges or
notes crossed, a merged contact leads to an active one (`NothingStranded`,
`SomeoneActive`).

*SpeakerTasks.* `SpeakerTasksAssumption`: file requests are tasks. A creator
between its two statements assigns a task that it made (`CreatorFits`). A handler
about to insert has read at least the tasks there were at the acceptance, and
one about to dispatch has assigned them (`HandlerFits`, `KnownFits`).

*ContentDesk.* `ContentDeskAssumption`: sessions and speakers have different ids,
being rows of different tables. A form holds what was typed at the version it shows
(`TypedAtShownVersion`), what a save replaces was on its author's screen
(`WrittenOverSeen`), and as long as nothing disturbs the page, at most one
request is on its way and the forms are fresh when it has ended (`Undisturbed`).

*WorkPages.* `WorkPagesAssumption`. On a page that catches failures a lock is
held only while a request that frees it is on its way (`LocksAreHeld`); on one
with a single lock requests do not overlap, nor does a load that is asked for
again, because nothing is under way after the first one failed (`OneByOne`). Requests that do not
cross are alone, and the answer brings what the notice promises (`Uncrossed`).
What is on its way answers the present view or is not shown (`ViewsAnswered`).
Keys are used in order, and each that is kept acts once (`KeysCounted`). The
proof is for the machine and any of the seventeen pages.

**What is recursive or folded.** The library's induction theorems take an
operator, which the provers cannot instantiate. The proofs use induction as a
statement about sets instead: a set that contains 0 and is closed under
successor contains the naturals (`NumberInduction`), and one that contains the
empty set and is closed under adding the chosen element contains all subsets of
a finite set (`SubsetInduction`). That a recursive function satisfies its
equation is proved first, from functions on initial segments.

**Only model-checked.** Liveness under fairness (`AppliedUnlessLost`,
`EventuallyAttempted`, `OutreachIsHandled`, `OverdueIsReminded`,
`ReleaseIsCommunicated`), because `ENABLED` is beyond the prover; and the seven
violations, which are counterexamples.

## 5. Not modelled, and what the models show besides

**Not modelled.** Templates, previews, triage and audiences of communications;
calendar artifacts' contents; widgets' fields and the rendering of the public
program; tags, segments and the pipeline of the CRM; comments on files and
bundle exports (`files-deliverables/service.ts:551-609`); reviewers' invitations
and rounds opened one after the other; edits of the profile by its speaker,
which are single updates. They are data or projections, or write one row once.
The audit trail, people and speakers are reduced in `Decision` to what its
properties tell apart. Actors are authorized. Content approval in `Agenda` is a
free Boolean at each publish, because it belongs to Program and no property
depends on when it changes. Dashboard, evidence, contracts, test kit and scripts
hold no authority over state. The external services are modelled by how the
worker uses them: the queue delivers at least once and in any order; the mail
provider takes a message or not and answers, fails or is silent; Airtable and
Accelevents take a batch or a record and may lose the answer; an invocation may
be cut off anywhere.

**Limits of the code the models take as they are.** In the services:

- `updateCrmContact` compares a revision it read without a lock, and a chain of
  two merges loses the middle contact's history.
- A row deleted in Airtable is not noticed by an export; an import's note "A
  newer local augmentation was retained" is also written when nothing newer
  exists; Accelevents never removes a record; a retry of a run that was cut off
  ignores the items that were still pending.
- A note that was cleared in Airtable is missing from the row's fields
  (`integrations/reconciliation.ts:40`), so an import skips the row, keeps the
  old note and records success (`integrations/service.ts:292-305`). An empty
  value of a record is not sent (`reconciliation.ts:19`), so a PATCH leaves the
  cell as it was, and the export is recorded as succeeded.
- A catalog that is reordered in the middle is refused by its unique positions.
- `saveTemplate`, `saveWidgetConfiguration` and `saveSpeakerResource` write
  without comparing a revision; a widget's filter may name a removed track;
  `persistProfileUpdate` writes no version of the profile.
- An unlinked session file's task shows its session's title before the release,
  contrary to `session-release-visibility.ts:16-17`; `createFileRequest` links
  the files of a speaker's sessions to the oldest session only.
- The cursor of the communications' history has milliseconds while rows have
  microseconds.
- The program's ETag is its public revision (`docs/architecture.md:143`), so a
  tag does not change with speakers' names; a speaker renamed between two pages
  may be skipped or repeated in spite of `openapi.ts:116`; sessions and speakers
  are read one after the other, and a speaker's sessions are not filtered by the
  widget.
- `recordAiAssessment` is not awaited inside its `try`; `percentComplete` rounds
  199 of 200 to 100.
- Some properties admit what the code does and say so: `StatusSettles` the
  status that overlapping transactions leave until the next change,
  `OutreachIsSent` a request marked failed after its communication was
  committed, `DecisionSafe` a handoff handled after its decision was re-opened,
  `PeopleHold` what merges that cross, and notes written across one, leave
  behind. The liveness of `Scheduled` supposes that errors pass: a part of
  `scheduled()` that always throws keeps cron from claiming anything.

In the pages:

- Publishing reports an error when only its reload failed; the pages of speakers
  and of their tasks erase the message of a success by the reload after it; a
  network failure leaves the event's settings "saving".
- The files page keys forms by version alone and `saveSpeaker` writes to the row
  that is selected; a load unmounts forms and loses what was typed; an upload
  that ends late moves the selection. `PagesHold` says what remains true.
- The single `busyId` of the submissions is taken over by another row;
  drag-and-drop on the agenda and the CRM's imports, merges and segments ignore
  `busy`; the form builder can save before the form is loaded, and a load that
  ends then frees its lock; the reviewer's
  page loses what is typed while a save is on its way; filters of an audience may
  be newer than the recipients shown.
- `CfpForm` has one form per event. Before the first save the name of a form can
  be changed (`CfpBuilderPage.tsx:149`), and two blank pages with different names
  create two.
- `WorkPages` leaves out the retry buttons of Communications and the CRM and
  every retry after a reload that failed, and what other schedule versions
  contain: picking one is a load.
- The attendee's page keeps one pending change per browser, which another tab
  overwrites, and an exported itinerary is the cookie's.

## 6. Plan

Done: the modules of section 2 with their runs; abstract specifications of the
outbox, a session's history and the public program with their refinements; for
every safety and action property of the passing runs a theorem.

Left, in the order of what they would add:

1. Liveness stays with TLC. Its safety half could be proved: that whatever a
   fair step must do is possible as long as the goal is not reached.
2. Bundle exports, which a request builds while versions are appended; templates
   and the contents of calendar artifacts.
3. CRM segments and their use as audiences; reviewers' invitations and several
   rounds.
4. The review of a deliverable whose newest version arrives between the
   reviewer's check and the approval (`files-deliverables/service.ts:445`): the
   code approves what nobody looked at, which no property here says.
