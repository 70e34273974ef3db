CONSTANTS
  r1 = r1
  r2 = r2
  r3 = r3
  plan = plan
  d1 = d1
  d2 = d2
  s1 = s1
  s2 = s2
  None = None
  Runs = {r1, r2, r3}
  Plans = {plan}
  PlanOf <- MCPlanOf
  Judged = {r1, r3}
  Roots = {d1, d2}
  Suites = {s1, s2}
  Concurrent = {s1}
  p1 = p1
  p2 = p2
  control = control
  treatment = treatment
  Roles = {control, treatment}
  Pairs = {p1}
  PairsOf <- MCPairsOf
SPECIFICATION Spec
SYMMETRY MCSymmetry
CHECK_DEADLOCK FALSE
INVARIANTS
  TypeOK
  ConsumedBeforeDispatch
  OneRunPerPlan
  OneRunPerRoot
  EvidenceKept
