CONSTANTS
  Labels = {engine, service}
  Reserved = {service}
  Managed = {engine}
  Configs = {base}
  Base = base
  Callers = {c1}
  Kinds <- MixedKinds
  Forces = {FALSE, TRUE}
  NoPlist = NoPlist
  NotLoaded = NotLoaded
  FromBundle = FromBundle
  NoRecord = NoRecord
  NoCommand = NoCommand
  Nobody = Nobody
SPECIFICATION FairSpec
PROPERTIES ReservedUntouched LockReleased
