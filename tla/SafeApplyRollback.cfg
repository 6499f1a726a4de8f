CONSTANTS
  Payloads = {p1, p2, p3}
  Blocks = {b1}
  Rests = {good, bad, odd}
  Truncated = Truncated
  Absent = Absent
  NoBlock = NoBlock
  Off = Off
  RefusedPayloads = {p3}
  RefusedRests = {bad}
  NoAnchor = {odd}
  Transport = "local"
  Operator = {"edit"}
  Faults = {"check", "reload", "cancel"}
  MaxFaults = 2
SPECIFICATION FairSpec
INVARIANT ReloadsAccepted
PROPERTY FailureRestoresFiles
PROPERTY ApplySuccessEnforces
PROPERTY RepeatedApplyConverges
PROPERTY ImplementsEnforcementPoint
