SPECIFICATION PartsSpec
CONSTANTS
  NoRecord = NoRecord
  NoJob = NoJob
  Items <- MCItems
  Numbers <- MCNumbers
  Typed <- MCTyped
  Root <- MCRoot
  Trees <- MCTrees
  Lines <- MCLines
  Entries = {3, 4}
  UserLines = {5}
  Nothing = Nothing
  MaxRewrites = 3
  MaxEdits = 1
  MaxLosses = 1
  Torn = Torn
  Absent = Absent
  NoWrite = NoWrite
  MaxSaves = 3
  MaxPowerLosses = 2
CHECK_DEADLOCK FALSE
INVARIANTS
  UnsettledHasRecord
  BatchStuckOnlyInWindows
  CommandPathsSound
  OneBlock
  RecordWhole
  RecordDurable
PROPERTIES
  ImplementsExcludeSet
