CONSTANTS
  Procs = {p1, p2}
  Repairers = {r1}
  Inodes = {i1, i2, i3, i4}
  NoFile = NoFile
  Nobody = Nobody
  Empty = Empty
  Gone = Gone
SPECIFICATION Spec
SYMMETRY Symmetry
INVARIANTS TypeOK FlockAccounted HolderPidIntact
PROPERTIES RepairSparesHolder ImplementsMutex
