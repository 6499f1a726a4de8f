CONSTANTS
  e1 = e1
  Targets = {a}
  Specs <- MayBeInvalid
  Data = {d1}
  Scheduler = sched
  Handlers = {web}
  Clis = {cli}
  None = None
  WebCommands = {"apply", "uninstall", "put"}
  CliCommands = {"apply", "applyOne", "uninstall", "put"}
  Faults = {"engine", "loaded", "fetch", "save", "lock", "crash"}
  Ticking = TRUE
  LockUnsafe = FALSE
  Wrap = 2
SPECIFICATION Spec
INVARIANT MutualExclusion
INVARIANT HistoryComplete
PROPERTY EnforcesOnlyValid
