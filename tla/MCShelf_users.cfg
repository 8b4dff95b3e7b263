SPECIFICATION Spec
CONSTANTS
  Paths = {p, q}
  Contents = {a, b}
  Missing = Missing
  Link = Link
  NoRecord = NoRecord
  Commands = {"add", "restore", "move", "detach"}
  Strategies = {"symlink", "copy"}
  CrossVolume = {TRUE, FALSE}
  KeepIgnore = {TRUE, FALSE}
  UserActs = {"edit", "replace", "delete", "track", "unexclude"}
  MaxUserActs = 2
CHECK_DEADLOCK FALSE
SYMMETRY Symmetry
ACTION_CONSTRAINT FindingsApart
INVARIANTS ManagedExcluded ExcludesAccounted
PROPERTIES ContentKept NoExposedPlaintext RecoverySparesFiles
