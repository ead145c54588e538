\* Decision: two racing commands with two keys, an edit and a handler that is cut
\* off once.  Sessions: two organizers, two change requests.  Files: a session file,
\* two profile containers, two uploads, two requests at a time.
SPECIFICATION ContentSpec
CONSTANTS
  Commands = {r1, r2}
  Editors = {e1}
  Handlers = {h1}
  CommandKeys = {u1, u2}
  MaxNotification = 4
  MaxCutOffs = 1
  Texts = {x1, x2}
  Proposals = {p1, p2}
  Original = original
  Desks = {d1, d2}
  MaxRevision = 4
  FileTasks = {talk}
  HeadshotTasks = {}
  Containers = {c1, c2}
  Uploads = {u1, u2}
  Requests = {r1, r2}
  MaxVersion = 2
  MaxSnapshot = 3
SYMMETRY Symmetry
INVARIANTS DecisionSafe ReleasedCopyIsReviewed SessionInductive FilesSafe
PROPERTIES OnlyAcceptanceReopens WritersSawLatest KeepsDocument OnlyStaleUploadRejects
CHECK_DEADLOCK FALSE
