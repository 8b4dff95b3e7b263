SPECIFICATION ExcludeSpec
CONSTANTS
  Entries = {3, 4}
  UserLines = {5}
  Nothing = Nothing
  MaxRewrites = 3
  MaxEdits = 1
  MaxLosses = 1
CHECK_DEADLOCK FALSE
PROPERTIES ReplacedAtomically
