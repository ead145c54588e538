\* Outbox: a publication and its two calendar deliveries, with every kind of
\* fault once.  Delivery: two consumers, a retry and two intakes, one fault.
\* Campaign: two recipients, two overlapping transactions on them.  Airtable:
\* two records, two runs, one fault.  Accelevents: a session and its speaker,
\* two runs, one fault.
SPECIFICATION ExchangeSpec
CONSTANTS
  pub = pub
  cal1 = cal1
  cal2 = cal2
  None = None
  Events = {pub, cal1, cal2}
  Roots = {pub}
  Fanouts = {pub}
  Children <- FanoutChildren
  Workers = {a1, a2}
  MaxFailures = 1
  MaxDups = 1
  MaxCrashes = 1
  Keys = {first, k1}
  FirstKey = first
  Consumers = {a1, a2}
  Desks = {o1}
  Intakes = {b1, b2}
  Reported = {"delivered", "hardBounce", "invalid", "opened"}
  Sources = {"webhook"}
  ReusesKeys = TRUE
  MaxFaults = 1
  MaxOutcomes = 2
  Recipients = {b1, b2}
  Transactions = {a1, a2}
  CanonicalRecords = {rec1, rec2}
  TableSize = 3
  SyncKeys = {a1, a2}
  RowNotes = {b1, b2}
  BatchSize = 1
  MaxTroubles = 1
  MaxTime = 3
  Guests = {guest}
  Talks = {talk}
  MaxExternals = 3
  Jobs = {a1, a2}
  MaxMishaps = 1
SYMMETRY Symmetry
INVARIANTS DispatchedIsApplied Inductive DeliveryLedger StatusSettles AirtableSafe AcceleventsSafe
PROPERTIES KeepsPromise OnlyStaleLeavesDelivered ReceiptsAreTrue CompleteIsMirrored
CHECK_DEADLOCK FALSE
