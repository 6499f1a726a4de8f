CONSTANTS
  e1 = e1
  Targets = {a}
  Specs <- OneSpec
  Data = {d1, d2}
  Scheduler = sched
  Handlers = {web}
  Clis = {}
  None = None
  WebCommands = {"apply"}
  CliCommands = {}
  Faults = {}
  Ticking = TRUE
  LockUnsafe = FALSE
  Wrap = 2
SPECIFICATION Spec
PROPERTY SkipIsSound
