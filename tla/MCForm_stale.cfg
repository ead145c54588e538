\* Two organizers: one publishes while the other saves twice.
SPECIFICATION CfpFormSpec
CONSTANTS
  Organizers = {b1, b2}
  Contents = {e1, e2}
  MaxFormRevision = 4
  MaxFormVersion = 1
PROPERTIES NoStaleSave
CHECK_DEADLOCK FALSE
