SPECIFICATION BookSpec
CONSTANTS
  Procs = {p, q}
  Roots = {r, s}
  Clones = {k, l}
  Ids = {i, j}
  Items = {x}
  Nothing = Nothing
  StoreCommands = {"add", "refresh", "repair", "status", "gc", "rebuild", "migrate", "reclaim"}
  StoreActs = {"remove", "clone", "worktree", "move", "corrupt", "config", "newer"}
  MaxStoreActs = 1
  MaxStarts = 3
  InitialStates = {"adopted", "stale", "orphaned"}
SYMMETRY Symmetry
INVARIANTS StoreTypeOK GateClears RootsUnambiguous ItemsHaveFiles WorksOnAssociated
PROPERTIES RecordsOnlyByOwner OrphansOnlyFromGc ImplementsCatalog
