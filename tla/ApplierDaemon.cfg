CONSTANTS
  e1 = e1
  Targets = {a, b}
  Specs <- OneSpec
  Data = {d1, d2}
  Scheduler = sched
  Handlers = {web}
  Clis = {}
  None = None
  WebCommands = {"delete", "apply"}
  CliCommands = {}
  Faults = {"engine", "crash"}
  Ticking = TRUE
  LockUnsafe = FALSE
  Wrap = 1
SPECIFICATION Spec
INVARIANT TypeOK
PROPERTY SettledSkipIsSound
PROPERTY DeleteLeavesNothing
