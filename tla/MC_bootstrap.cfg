CONSTANTS
  Versions = {v1, v2}
  Prior = Prior
  Model = Model
  Garbled = Garbled
  None = None
SPECIFICATION Spec
INVARIANTS TypeOK BaselineKept RollbackPossible NeverLockedOut RollbackRestores GrantHasHelper InstalledIsSigned
