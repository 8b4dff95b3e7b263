SPECIFICATION FilesSpec
CONSTANTS
  Torn = Torn
  Absent = Absent
  NoWrite = NoWrite
  MaxSaves = 3
  MaxPowerLosses = 2
CHECK_DEADLOCK FALSE
INVARIANTS RecordNeverAhead
