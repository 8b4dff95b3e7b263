SPECIFICATION BookSpec
CONSTANTS
  Procs = {p, q}
  Roots = {r, s}
  Clones = {k, l}
  Ids = {i, j}
  Items = {x}
  Nothing = Nothing
  StoreCommands = {"add"}
  StoreActs = {"remove", "clone"}
  MaxStoreActs = 2
  MaxStarts = 2
  InitialStates = {"adopted", "stale", "orphaned"}
INVARIANTS NoSilentTakeover
