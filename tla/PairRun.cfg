CONSTANTS
  Providers = {"fake", "claude", "codex"}
  Monitors = {TRUE, FALSE}
  MaxFaults = 2
  Requirements = {r}
  Criteria = {c1, c2, c3}
  Decisive = {c1, c2}
  NotApplicable = NotApplicable
  NoAnswer = NoAnswer
SPECIFICATION Spec
INVARIANTS
  TypeOK
  StartTogether
  ReturnedIsAccounted
  SentIsRecorded
  SentIsCosted
  VerdictIsEarned
PROPERTIES
  SyncEnds
