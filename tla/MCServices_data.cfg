\* Form: two organizers, two contents.  Proposals: two requests, two proposals,
\* two definitions.  Reviews: two submissions, two reviewers with room for two
\* and for one, two organizers who distribute and two requests that save,
\* finalize and recuse.  Catalog: up to three entries of two names, two sessions.
\* Accounts: two logins, two isolates, one organizer.  CRM: three contacts, two
\* merges.  Tasks: a file request and a task, two speakers, two organizers.
\* Portal: two proposals, two tasks.  Files page: two rows, three requests of which
\* two may overlap, one save elsewhere.  Pages: two items, two views, two commands.
SPECIFICATION ServicesSpec
CONSTANTS
  question = question
  track1 = track1
  track2 = track2
  Organizers = {b1, b2}
  Contents = {e1, e2}
  MaxFormRevision = 4
  MaxFormVersion = 2
  Requests = {b1, b2}
  Proposals = {e1, e2}
  Definitions <- TwoDefinitions
  Keys = {question}
  MaxDefinitions = 2
  MaxRevisions = 3
  Names = {track1, track2}
  MaxRows = 4
  MaxEntries = 3
  Accepted = {e1, e2}
  Logins = {b1, b2}
  Organizing = {o1}
  Isolates = {e1, e2}
  MaxWorkspaces = 2
  Addresses = {a1, a2, a3}
  CrmNotes = {n1}
  Mergers = {b1, b2}
  Writers = {w1}
  Tasks = {talk, slides}
  FileKeys = {slides}
  Roster = {e1, e2}
  Creators = {b1, b2}
  Handlers = {h1}
  MaxBreaks = 1
  Talks = {e1, e2}
  Asks = {b1, b2}
  NoTalk = NoTalk
  ann = ann
  bob = bob
  Reviewers <- TwoReviewers
  Cap <- TwoCaps
  Submissions = {e1, e2}
  Distributors = {b1, b2}
  Sessions = {b1, b2}
  MaxRevision = 2
  Queue = {1, 2}
  Cards <- SomeCards
  Inputs = {2}
  MaxSaves = 2
  MaxAdvice = 1
  talk1 = talk1
  talk2 = talk2
  eve = eve
  dan = dan
  Rows = {1, 2}
  SpeakerOf <- TwoSpeakers
  SessionOf <- TwoSessions
  NoRecord = NoRecord
  NoRow = NoRow
  MaxCalls = 3
  MaxTogether = 2
  MaxElsewhere = 1
  Items = {b1, b2}
  Views = {1, 2}
  FirstView = 1
  Unheld = Unheld
  MaxClicks = 2
  MaxTurns = 1
  MaxPending = 2
SYMMETRY Symmetry
INVARIANTS ReviewsHold PortalHolds CatalogHolds PeopleHold PagesHold SpeakerTasksHold ProposalsHold
PROPERTIES VersionsImmutable SavesSeeWhatTheyReplace OnlyReopeningHides
CHECK_DEADLOCK FALSE
