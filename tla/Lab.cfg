SPECIFICATION Spec
CONSTANTS
  Patterns = {p}
  Top = 3
  Torn = Torn
  Absent = Absent
  NoMeta = NoMeta
  MaxTag = 3
  MaxKept = 2
  Causes = {"threshold", "encoding"}
  MaxAttempts = 2
  AutoThreshold = 90
  MaxGaps = 1
  MaxVersions = 4
  MaxRollbacks = 1
  MaxCrashes = 1
INVARIANTS
  TypeOK
  SnapshotHoldsPatch
  LinkIsTrue
PROPERTIES
  SnapshotsFrozen
  ImplementsHistory
CHECK_DEADLOCK FALSE
