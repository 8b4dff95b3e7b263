SPECIFICATION FairCopySpec
CONSTANTS
  Contents = {a, b, c}
  Empty = Empty
  Missing = Missing
  Link = Link
  Foreign = Foreign
  NoRecord = NoRecord
  NoArtifact = NoArtifact
  NoJob = NoJob
  Commands = {"sync", "relink", "attach", "repair", "integrate", "materialize"}
  UserActs = {"edit", "replace", "delete", "track", "unexclude", "swap"}
  MaxUserActs = 2
CHECK_DEADLOCK FALSE
INVARIANTS CopyTypeOK NothingLeftBehind CopyStuckOnlyInWindows CopyWithinBound EveryFaultHasRemedy
PROPERTIES OnlyNamedSideLost HiddenWhenShown ForeignTempKept DoneMeansHealthy ImplementsCanonicalView ImplementsTempProtocol CopySettles
