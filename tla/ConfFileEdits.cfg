CONSTANTS
  Words <- AllWords
  Targets = {"t1", "t2"}
  GlobalKey <- Global
  Versions <- AllVersions
  Layouts <- AllLayouts
  Settings <- AllSettings
  None = None
  MaxLines = 40
SPECIFICATION Spec
INVARIANT TypeOK
INVARIANT OwnLinesKept
INVARIANT BlocksInPlace
INVARIANT RangesTrusted
INVARIANT ReapplyIsNoop
PROPERTY RefusalsJustified
