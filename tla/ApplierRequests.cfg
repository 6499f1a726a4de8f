CONSTANTS
  e1 = e1
  Targets = {a, b}
  Specs <- OneSpec
  Data = {d1}
  Scheduler = sched
  Handlers = {web1, web2}
  Clis = {cli}
  None = None
  WebCommands = {"put", "drop"}
  CliCommands = {"uninstall"}
  Faults = {"lock"}
  Ticking = FALSE
  LockUnsafe = FALSE
  Wrap = 2
SPECIFICATION FairSpec
PROPERTY RequestsEnd
INVARIANT NoLostEdit
