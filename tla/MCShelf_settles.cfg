SPECIFICATION FairSpec
CONSTANTS
  Paths = {p, q}
  Contents = {a, b}
  Missing = Missing
  Link = Link
  NoRecord = NoRecord
  Commands = {"add", "restore", "move", "detach"}
  Strategies = {"symlink", "copy"}
  CrossVolume = {TRUE, FALSE}
  KeepIgnore = {TRUE, FALSE}
  UserActs = {}
  MaxUserActs = 0
CHECK_DEADLOCK FALSE
INVARIANTS TypeOK AtRestSound StuckOnlyInWindows RecoveryWithinBound
PROPERTIES ImplementsItemBook RecoverySettles
