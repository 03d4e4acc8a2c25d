\* Two workflows and two keys share repository and queue; creates race for a key,
\* decisions for a proposal, workers for the same head.
\* The clients may stop calling and the clock stops at MaxTime, so the last state has no step.
SPECIFICATION Spec
CONSTANTS
  w1 = w1  w2 = w2  w3 = w3  t1 = t1  t2 = t2  t3 = t3  ann = ann  rob = rob  opal = opal  ada = ada  r1 = r1  r2 = r2  bad = bad  c1 = c1  c2 = c2  c3 = c3  k1 = k1  k2 = k2
  None = None
  WorkflowIds = {w1, w2}
  Principals = {ann, rob, opal}
  Requests = {r1}
  Contexts = {c1}
  Keys = {k1, k2}
  ProposalTTL = 0
  ApprovalTTL = 0
  Threads = {t1, t2}
  PolicyDenies = {}
  Injected = {}
  Ungrounded = {}
  UnreviewedOverlay = {}
  Operations = {"create", "plan", "decide", "process"}
  AuditView = {"approved", "rejected", "expired", "approval_expired", "completed"}
  MaxTime = 1
  MaxAttempts = 1
  Interruptible = {}
  Roles <- MCRoles
SYMMETRY QueueSymmetry
INVARIANTS EachWorkflowHasOneKey UnfinishedWorkIsDeliverable ExpiredTaskIsDiscarded QueuedIsApproved ApprovedIsQueued OutcomeIsAudited
PROPERTIES DecisionIsFinal ImplementsLifecycle
CHECK_DEADLOCK FALSE
