\* AC5-005: only the local provider, one run.
\* The graph stops after MaxRuns invocations.
SPECIFICATION Spec
CONSTANTS
  None = None
  Requests <- MCRequests
  Documents <- MCDocuments
  Kinds <- MCKinds
  Providers = {"deterministic-local"}
  TopK = 2
  MaxRuns = 1
INVARIANTS QuarantineDoesNotInfluence
CHECK_DEADLOCK FALSE
