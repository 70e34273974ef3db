CONSTANTS
  Absent = Absent
  NotApplicable = NotApplicable
  NoAnswer = NoAnswer
  AB = AB
  BA = BA
  None = None
  Callers = {AB, BA}
  maximum_usd = 5
  per_call = 2
  Torn = TRUE
  Unlinked = FALSE
  MaxAttempts = 3
  MaxOpens = 2
SPECIFICATION Spec
SYMMETRY Symmetry
CHECK_DEADLOCK FALSE
INVARIANTS
  TypeOK
  CeilingHolds
  DurablyCovered
  MemoryWithinJournal
  ClosedOnce
