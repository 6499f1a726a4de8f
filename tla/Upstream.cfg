CONSTANTS
  pa = pa
  pb = pb
  Providers = {pa, pb}
  Nets = {1, 2, 3, 4}
  Bad = Bad
  Missing = Missing
  None = None
  Failed = Failed
  Versions <- SomeVersions
  Jobs <- SomeJobs
  MaxPublish = 2
  Requests = {r1, r2}
  TTL = 2
  Timeout = 1
  MaxTime = 4
  MaxVersion = 2
  UpdateHours = {0, 1, 2, 3, 12, 23}
  Zones <- SomeZones
  Starts <- TwoDays
  MaxRun = 2
  Horizon = 110
SPECIFICATION UpstreamSpec
CHECK_DEADLOCK FALSE
INVARIANT UpstreamTypeOK
PROPERTY NeverPartial
PROPERTY SameRangesSameHash
PROPERTY BoundedStaleness
PROPERTY LastGoodServed
INVARIANT SleepsToTheHour
INVARIANT SleepsADayAtMost
