\* A draft save overtakes the finalizing one.
SPECIFICATION ReviewsSpec
CONSTANTS
  ann = ann
  cap = 2
  Reviewers <- OneReviewer
  Cap <- OneCap
  Submissions = {s1}
  Distributors = {d1}
  Sessions = {q1, q2}
  MaxRevision = 3
PROPERTIES FinalizedIsImmutable
CHECK_DEADLOCK FALSE
