\* Every choice of declared and found categories, in the three modes.
\* A workflow that was executed or denied takes no further step.
SPECIFICATION Spec
CONSTANTS
  Declared <- MCDeclared
  Detected <- MCDetected
INVARIANTS TypeOK ProhibitedIsNotStored IntakeDecisionStands SensitiveStaysLocal MoreDataIsNeverFreer
CHECK_DEADLOCK FALSE
