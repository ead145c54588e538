\* One file request, one upload, two overlapping finalizations.
SPECIFICATION ContentSpec
CONSTANTS
  Commands = {}
  Editors = {}
  Handlers = {}
  CommandKeys = {}
  MaxNotification = 4
  MaxCutOffs = 1
  Texts = {}
  Proposals = {}
  Original = original
  Desks = {}
  MaxRevision = 1
  FileTasks = {talk}
  HeadshotTasks = {}
  Containers = {}
  Uploads = {u1}
  Requests = {r1, r2}
  MaxVersion = 2
  MaxSnapshot = 1
INVARIANTS ConsumedOnce
CHECK_DEADLOCK FALSE
