\* Two workflows share the queue under a polling operator, one handler at a
\* time; no symmetry.
\* The clients may stop calling and the clock stops at MaxTime, so the last state has no step.
SPECIFICATION FairSpec
CONSTANTS
  w1 = w1  w2 = w2  w3 = w3  t1 = t1  t2 = t2  t3 = t3  ann = ann  rob = rob  opal = opal  ada = ada  r1 = r1  r2 = r2  bad = bad  c1 = c1  c2 = c2  c3 = c3  k1 = k1  k2 = k2
  None = None
  WorkflowIds = {w1, w2}
  Principals = {ann, rob, opal}
  Requests = {r1}
  Contexts = {c1}
  Keys = {k1, k2}
  ProposalTTL = 1
  ApprovalTTL = 1
  Threads = {t1}
  PolicyDenies = {}
  Injected = {}
  Ungrounded = {}
  UnreviewedOverlay = {}
  Operations = {"create", "plan", "decide", "process"}
  AuditView = {}
  MaxTime = 2
  MaxAttempts = 1
  Interruptible = {}
  Roles <- MCRoles
PROPERTIES ApprovedWorkEnds
CHECK_DEADLOCK FALSE
