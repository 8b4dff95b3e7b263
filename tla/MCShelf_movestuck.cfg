SPECIFICATION Spec
CONSTANTS
  Paths = {p, q}
  Contents = {a, b}
  Missing = Missing
  Link = Link
  NoRecord = NoRecord
  Commands = {"add", "move"}
  Strategies = {"symlink", "copy"}
  CrossVolume = {FALSE}
  KeepIgnore = {TRUE, FALSE}
  UserActs = {}
  MaxUserActs = 0
CHECK_DEADLOCK FALSE
INVARIANTS MoveRecoverable
