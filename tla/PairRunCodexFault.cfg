CONSTANTS
  Providers = {"codex"}
  Monitors = {FALSE}
  MaxFaults = 1
  Requirements = {r}
  Criteria = {c1, c2, c3}
  Decisive = {c1, c2}
  NotApplicable = NotApplicable
  NoAnswer = NoAnswer
SPECIFICATION Spec
INVARIANT DispatchFaultAborts
