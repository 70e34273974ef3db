CONSTANTS
  a1 = a1
  a2 = a2
  i1 = i1
  i2 = i2
  p1 = p1
  p2 = p2
  p3 = p3
  b1 = b1
  b2 = b2
  None = None
  Arms = {a1, a2}
  Ids = {i1, i2}
  Processes = {p1, p2, p3}
  Bindings = {b1, b2}
  BindingOf <- MCBindingOf
  MaxRecords = 6
  MaxOpens = 3
SPECIFICATION Spec
SYMMETRY Symmetry
CHECK_DEADLOCK FALSE
INVARIANTS
  TypeOK
  JournalLegal
  AckedIsStable
  OneAttemptPerArm
  NoForgottenAttempt
  BoundHistory
PROPERTIES
  FailStop
  AckedPhaseHolds
  Accounting
