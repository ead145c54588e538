\* An edit saved while the release commits.
SPECIFICATION DecisionSpec
CONSTANTS
  Commands = {r1}
  Editors = {e1}
  Handlers = {}
  CommandKeys = {k1}
  MaxNotification = 3
  MaxCutOffs = 0
PROPERTIES ReleasedSnapshotIsImmutable
CHECK_DEADLOCK FALSE
