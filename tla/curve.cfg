SPECIFICATION Spec
CONSTANTS
  EnvTypes = {Basic, ISAC}
  Default = Basic
  NoFile = NoFile
  Continue = TRUE
  SaveAt = 2
  Transition = 2
  MaxRows = 5
  MaxRestarts = 2
INVARIANTS RowsConsecutive SavedAtTarget
PROPERTIES CurveKept
