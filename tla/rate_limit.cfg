\* Two handlers, two principals, windows of two requests each.
\* The clock stops at MaxTime and admissions at MaxAdmitted.
SPECIFICATION Spec
CONSTANTS
  t1 = t1  t2 = t2  ann = ann  rob = rob
  None = None
  Threads = {t1, t2}
  Subjects = {ann, rob}
  Limit = 2
  WindowSeconds = 2
  MaxTime = 3
  MaxAdmitted = 5
SYMMETRY LimiterSymmetry
INVARIANTS TypeOK BurstIsBounded DenialIsEarned
CHECK_DEADLOCK FALSE
