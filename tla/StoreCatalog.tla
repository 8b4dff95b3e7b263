---------------------------- MODULE StoreCatalog ----------------------------
(***************************************************************************)
(* What the store promises of its items, whatever happens to checkouts,    *)
(* index, records and processes: an item appears attached, and only an     *)
(* orphaned one ever disappears.  Converting manifests, repairing,         *)
(* rebuilding and reclaiming change nothing here.                          *)
(***************************************************************************)
CONSTANTS Ids, Items

VARIABLE catalog   \* the ownership state of every item, or "absent"

CatalogInit ==
  catalog \in [Ids -> [Items -> {"absent", "attached", "detached", "unreachable", "orphaned"}]]

Shelve(i, x) ==
  /\ catalog[i][x] = "absent"
  /\ catalog' = [catalog EXCEPT ![i][x] = "attached"]

Collect(i) ==
  \E gone \in SUBSET {x \in Items : catalog[i][x] = "orphaned"} :
    catalog' = [catalog EXCEPT ![i] = [x \in Items |-> IF x \in gone THEN "absent" ELSE @[x]]]

CatalogNext == \E i \in Ids : Collect(i) \/ \E x \in Items : Shelve(i, x)

CatalogSpec == CatalogInit /\ [][CatalogNext]_catalog
=============================================================================
