CONSTANTS
  Engines = {e1, e2}
  Rules = {r1, r2}
  NoRules = NoRules
SPECIFICATION Spec
INVARIANTS InstalledIsWired RemovedLeavesNoTrace UninterruptedIsEnforced
