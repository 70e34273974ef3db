CONSTANTS
  Collectors = {k1, k2}
  N = 2
  run_max_usd = 2
  per_call = 1
  NoFile = NoFile
  NotApplicable = NotApplicable
  NoAnswer = NoAnswer
  NoLabel = NoLabel
  Undecided = Undecided
  MaxStarts = 2
SPECIFICATION Spec
SYMMETRY Symmetry
CHECK_DEADLOCK FALSE
INVARIANTS
  TypeOK
  EvidenceCoversSpend
  CeilingHoldsAlone
  PaidIsKept
