\* A speaker is accepted after a file request was made for another one.
SPECIFICATION SpeakerTasksSpec
CONSTANTS
  Tasks = {slides}
  FileKeys = {slides}
  Roster = {s1, s2}
  Creators = {c1}
  Handlers = {h1}
  MaxBreaks = 0
INVARIANTS FileTasksCanBeDelivered
CHECK_DEADLOCK FALSE
