\* AC2-005.
SPECIFICATION Spec
CONSTANTS
  w1 = w1  w2 = w2  w3 = w3  t1 = t1  t2 = t2  t3 = t3  ann = ann  rob = rob  opal = opal  ada = ada  r1 = r1  r2 = r2  bad = bad  c1 = c1  c2 = c2  c3 = c3  k1 = k1  k2 = k2
  None = None
  WorkflowIds = {w1, w2}
  Principals = {ann}
  Requests = {r1}
  Contexts = {c1, c2}
  Keys = {k1}
  ProposalTTL = 2
  ApprovalTTL = 1
  Threads = {t1}
  PolicyDenies = {}
  Injected = {}
  Ungrounded = {}
  UnreviewedOverlay = {}
  Operations = {"create"}
  AuditView = {}
  MaxTime = 0
  MaxAttempts = 1
  Interruptible = {}
  Roles <- MCRoles
SYMMETRY ThreadSymmetry
INVARIANTS CreateReturnsSamePayload
CHECK_DEADLOCK FALSE
