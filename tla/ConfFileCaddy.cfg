CONSTANTS
  Words <- AllWords
  Targets = {"t1", "t2"}
  GlobalKey <- Global
  Versions <- AllVersions
  Layouts <- PlainCaddyLayouts
  Settings <- FirstWithRealIp
  None = None
  MaxLines = 40
SPECIFICATION Spec
INVARIANT AppliedBlockStands
