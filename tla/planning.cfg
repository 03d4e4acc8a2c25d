\* Three documents of every kind, four requests, any provider, three runs that may overlap.
\* The graph stops after MaxRuns invocations.
SPECIFICATION Spec
CONSTANTS
  None = None
  Requests <- MCRequests
  Documents <- MCDocuments
  Kinds <- MCKinds
  Providers = {"deterministic-local", "other"}
  TopK = 2
  MaxRuns = 3
INVARIANTS TypeOK CheckpointsFollowPath TaintedStaysOut PlannedIsGrounded
CHECK_DEADLOCK FALSE
