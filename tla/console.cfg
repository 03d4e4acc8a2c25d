\* One page submits two workflows and decides and processes them; requests,
\* answers and handlers get lost, proposals and approvals expire.
\* The user may stop and the clock stops at MaxTime, so the last state has no step.
SPECIFICATION ConsoleSpec
CONSTANTS
  w1 = w1  w2 = w2  t1 = t1  t2 = t2  ann = ann  rob = rob  opal = opal  ada = ada
  r1 = r1  c1 = c1  k1 = k1  k2 = k2  p1 = p1
  None = None
  WorkflowIds = {w1, w2}
  Principals = {ann, rob, opal, ada}
  Requests = {r1}
  Contexts = {c1}
  Keys = {k1, k2, "approved", "rejected"}
  ProposalTTL = 0
  ApprovalTTL = 0
  Threads = {t1, t2}
  PolicyDenies = {}
  Injected = {}
  Ungrounded = {}
  UnreviewedOverlay = {}
  Operations = {"create", "plan", "decide", "process"}
  AuditView = {}
  MaxTime = 1
  MaxAttempts = 0
  Interruptible = {t1, t2}
  Roles <- MCRoles
  Pages = {p1}
  Personas = {rob, ada}
  Deciders = {rob, ada}
  Operator = opal
SYMMETRY ConsoleSymmetry
INVARIANTS PageTypeOK ShownIsStored ShownApprovedIsQueued RepeatIsReplay
PROPERTIES OutcomeIsShown
CHECK_DEADLOCK FALSE
