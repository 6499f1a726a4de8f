CONSTANTS
  r1 = r1
  r2 = r2
  bad = bad
  n1 = n1
  n2 = n2
  n3 = n3
  web = web
  web2 = web2
  Rulesets = {r1, r2, bad}
  Bad = {bad}
  None = None
  Torn = Torn
  Drops = TRUE
  Faults = {"read", "stage", "check", "load", "lostLoad", "persist", "torn", "unlink", "crash"}
  MaxFaults = 3
  IptNets = {n1, n2, n3}
  IptPolicies <- Steady
  Absent = Absent
  IptFaults = {"command", "tolerated", "crash"}
  MaxIptFaults = 2
  MaxJumps = 2
  UfwTargets = {web, web2}
  Hits <- WebHits
  UfwNets = {n1, n2, n3}
  UfwPolicies <- AllowAndDeny
  Nobody = Nobody
  UfwFaults = {"status", "command", "crash", "operator"}
  MaxUfwFaults = 2
SPECIFICATION FirewallsSpec
INVARIANT FirewallsTypeOK
INVARIANT SetsAreWhole
PROPERTY NoFalseNoop
PROPERTY AllOrNothing
PROPERTY ForcedReasserts
PROPERTY ApplyConverges
PROPERTY RemoveDetaches
PROPERTY UfwConverges
PROPERTY UfwRestricts
PROPERTY UfwSparesOthers
