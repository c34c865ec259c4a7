CONSTANTS
  Labels = {service}
  Reserved = {service}
  Managed = {}
  Configs = {base, preset}
  Base = base
  Callers = {c1}
  Kinds = {"install_service"}
  Forces = {FALSE}
  NoPlist = NoPlist
  NotLoaded = NotLoaded
  FromBundle = FromBundle
  NoRecord = NoRecord
  NoCommand = NoCommand
  Nobody = Nobody
SPECIFICATION SteadySpec
PROPERTIES InstallSparesService
