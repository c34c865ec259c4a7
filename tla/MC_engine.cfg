CONSTANTS
  Labels = {engine}
  Reserved = {}
  Managed = {}
  Configs = {base, preset}
  Base = base
  Callers = {c1, c2}
  Kinds <- EngineKinds
  Forces = {FALSE}
  NoPlist = NoPlist
  NotLoaded = NotLoaded
  FromBundle = FromBundle
  NoRecord = NoRecord
  NoCommand = NoCommand
  Nobody = Nobody
SPECIFICATION Spec
SYMMETRY Symmetry
CONSTRAINT OneBesideOrphans
INVARIANTS TypeOK OneWriter JobMatchesPlist InstallAllOrNothing StandbyHolds
PROPERTIES ImplementsSlot
