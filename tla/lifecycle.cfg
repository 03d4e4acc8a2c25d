\* One workflow, two handlers that may die between any two calls, all roles, the
\* clock past both expiries; a policy that denies each of the operations for some
\* input, a blocked, an ungrounded and an unreviewed request.
\* The clients may stop calling and the clock stops at MaxTime, so the last state has no step.
SPECIFICATION Spec
CONSTANTS
  w1 = w1  w2 = w2  w3 = w3  t1 = t1  t2 = t2  t3 = t3  ann = ann  rob = rob  opal = opal  ada = ada  r1 = r1  r2 = r2  bad = bad  c1 = c1  c2 = c2  c3 = c3  k1 = k1  k2 = k2
  None = None
  WorkflowIds = {w1}
  Principals = {ann, rob, opal, ada}
  Requests = {r1, r2, bad}
  Contexts = {c1, c2, c3}
  Keys = {k1}
  ProposalTTL = 2
  ApprovalTTL = 1
  Threads = {t1, t2}
  PolicyDenies <- MCPolicyDenies
  Injected = {bad}
  Ungrounded = {r2}
  UnreviewedOverlay = {c3}
  Operations = {"create", "read", "plan", "decide", "process"}
  AuditView = {}
  MaxTime = 3
  MaxAttempts = 1
  Interruptible = {t1, t2}
  Roles <- MCRoles
SYMMETRY ThreadSymmetry
INVARIANTS TypeOK HistoryFollowsDiagram TicketIsAuthorised OneTicketPerWorkflow
PROPERTIES HistoryIsAppendOnly
CHECK_DEADLOCK FALSE
