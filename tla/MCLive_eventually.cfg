\* Outbox: a publication and one calendar delivery, an error of a handler, a
\* duplicate and an invocation that is cut off.  Delivery: two retries with fresh
\* keys, one after the other, each free to overlap a dispatch, while the provider
\* reports the message delivered.  Scheduled: two invocations, one error or cut-off,
\* with one request, or with two speakers.  Decision: commands with two keys, an edit
\* and a handler that is cut off once.
SPECIFICATION LiveSpec
CONSTANTS
  pub = pub
  d1 = d1
  None = None
  Events = {pub, d1}
  Roots = {pub}
  Fanouts = {pub}
  Children <- OneDelivery
  Workers = {w1, w2}
  MaxFailures = 1
  MaxDups = 1
  MaxCrashes = 1
  Keys = {first, k1, k2}
  FirstKey = first
  Consumers = {c1, c2}
  Desks = {d1}
  Intakes = {i1}
  Reported = {"delivered"}
  Sources = {"webhook"}
  ReusesKeys = FALSE
  MaxFaults = 1
  MaxOutcomes = 1
  Outreaches = {q1}
  Crons = {n1, n2}
  Assignees = {s1, s2}
  MaxErrors = 1
  Commands = {r1}
  Editors = {e1}
  Handlers = {h1}
  CommandKeys = {x1, x2}
  MaxNotification = 3
  MaxCutOffs = 1
INVARIANTS OutreachIsSent
PROPERTIES AppliedUnlessLost ReleaseIsCommunicated EventuallyAttempted OutreachIsHandled OverdueIsReminded
CHECK_DEADLOCK FALSE
