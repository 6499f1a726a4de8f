CONSTANTS
  Payloads = {p1, p2}
  Blocks = {b1}
  Rests = {good, bad, odd}
  Truncated = Truncated
  Absent = Absent
  NoBlock = NoBlock
  Off = Off
  RefusedPayloads = {p2, Truncated}
  RefusedRests = {bad}
  NoAnchor = {odd}
  Transport = "docker"
  Operator = {"edit", "delete", "reload"}
  Faults = {"write", "lostWrite", "torn", "probe", "check", "reload", "lostReload", "crash", "cancel"}
  MaxFaults = 3
SPECIFICATION Spec
INVARIANT TypeOK
INVARIANT ForwardReloadsAccepted
INVARIANT IncludeNeverDangles
PROPERTY RemoveSuccessUndoes
