CONSTANTS
  Payloads = {p1, p2}
  Blocks = {b1}
  Rests = {good, bad, odd}
  Truncated = Truncated
  Absent = Absent
  NoBlock = NoBlock
  Off = Off
  RefusedPayloads = {p2}
  RefusedRests = {bad}
  NoAnchor = {odd}
  Transport = "local"
  Operator = {}
  Faults = {"crash"}
  MaxFaults = 1
SPECIFICATION Spec
PROPERTY ApplySuccessEnforces
