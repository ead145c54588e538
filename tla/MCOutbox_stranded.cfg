\* One invocation is cut off: the claim of the docs that cron recovers the row.
SPECIFICATION FairSpec
CONSTANTS
  src = src
  d1 = d1
  None = None
  Events = {src, d1}
  Roots = {src}
  Fanouts = {}
  Children <- SourceChildren
  Workers = {w1, w2}
  MaxFailures = 0
  MaxDups = 0
  MaxCrashes = 1
PROPERTIES EventuallyApplied
CHECK_DEADLOCK FALSE
