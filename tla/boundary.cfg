\* Three requests of every kind at once, one admission per window, snapshots
\* shorter than the logs.
\* The clients may stop calling and the clock stops at MaxTime, so the last state has no step.
SPECIFICATION Spec
CONSTANTS
  opal = opal  root = root  c1 = c1
  None = None  Unavailable = Unavailable
  Subjects = {opal, root}
  Roles <- MCRoles
  Sent <- MCSent
  SentIds = {c1}
  Limit = 1
  WindowSeconds = 1
  MaxTime = 1
  MaxAdmitted = 3
  MaxRequests = 3
  RecentLimit = 1
  AuditLimit = 1
  ServiceErrors = {"IdempotencyConflict"}
INVARIANTS TypeOK ResponseIsObserved CorrelationIsShared SharesArePerRequest SnapshotIsCurrent AuditViewIsCurrent ViewIsAudited
CHECK_DEADLOCK FALSE
